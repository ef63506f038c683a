------------------------ MODULE ShareFileXmlDocuments ------------------------
(***************************************************************************)
(* Documents for the Share, Directory and File decoders.                   *)
(*                                                                         *)
(*  - The request body ShareRestClient::Share::SetAccessPolicy writes with *)
(*    SignedIdentifiersToXml; GetAccessPolicy reads the share's ACL back.  *)
(*  - The bodies the service returns (REST contract) for Get Share ACL,   *)
(*    Get Share Stats, List Directories and Files, List Handles and Get     *)
(*    Range List, and the values they encode.                              *)
(***************************************************************************)
EXTENDS Sequences, SequencesExt, XmlEvents, ShareFileXmlSchemas

Seqs(S, n) == UNION {[1..k -> S] : k \in 0..n}

ElementsOf(name, s, Xml(_)) == Element(name, FlattenSeq([i \in DOMAIN s |-> Xml(s[i])]))

(* AccessPolicyToXml: opens its own <AccessPolicy> element. *)
AccessPolicyToXml(o) ==
  Element("AccessPolicy",
          TextElement("Start", o.Start) \o TextElement("Expiry", o.Expiry) \o
          TextElement("Permission", o.Permission))

(* SignedIdentifierToXml: opens <AccessPolicy> and then calls              *)
(* AccessPolicyToXml, which opens a second one inside it.                  *)
SignedIdentifierToXml(o) ==
  Element("SignedIdentifier",
          TextElement("Id", o.Id) \o Element("AccessPolicy", AccessPolicyToXml(o.Policy)))

(* SignedIdentifiersToXml *)
SignedIdentifiersToXml(s) == ElementsOf("SignedIdentifiers", s, SignedIdentifierToXml)

(* SetAccessPolicy: the writer's document, closed by writer.Write(End). *)
SetAccessPolicyBody(s) == ReaderEvents(SignedIdentifiersToXml(s) \o <<End>>)

-----------------------------------------------------------------------------
(* Service bodies.  Get Share ACL: one <AccessPolicy> per identifier. *)
ServiceSignedIdentifierXml(o) ==
  Element("SignedIdentifier",
          TextElement("Id", o.Id) \o
          Element("AccessPolicy", TextElement("Start", o.Policy.Start) \o
                                  TextElement("Expiry", o.Policy.Expiry) \o
                                  TextElement("Permission", o.Policy.Permission)))

ShareAclXml(s) ==
  ReaderEvents(ElementsOf("SignedIdentifiers", s, ServiceSignedIdentifierXml) \o <<End>>)

(* Get Share Stats; usage is a decimal text. *)
ShareStatsXml(usage) ==
  ReaderEvents(Element("ShareStats", TextElement("ShareUsageBytes", usage)) \o <<End>>)

ExpectedShareStats(usage) == [ShareUsageBytes |-> Numerals[usage].val]

(* Get Range List; a range is [Start, End] as decimal texts. *)
RangeXml(r) == Element("Range", TextElement("Start", r.Start) \o TextElement("End", r.End))

RangeListXml(s) == ReaderEvents(ElementsOf("Ranges", s, RangeXml) \o <<End>>)

ExpectedRangeList(s) ==
  [i \in DOMAIN s |-> [Start |-> Numerals[s[i].Start].val, End |-> Numerals[s[i].End].val]]

(* List Handles; a handle is a HandleItem of strings. *)
HandleXml(h) ==
  Element("Handle", FlattenSeq([i \in DOMAIN HandleFieldOrder |->
                                 TextElement(HandleFieldOrder[i], h[HandleFieldOrder[i]])]))

ListHandlesXml(s, nextMarker) ==
  ReaderEvents(
    Element("EnumerationResults",
            ElementsOf("Entries", s, HandleXml) \o TextElement("NextMarker", nextMarker)) \o
    <<End>>)

ExpectedListHandles(s, nextMarker) == [HandleList |-> s, NextMarker |-> nextMarker]

(* List Directories and Files; a directory is a name, a file a name and a  *)
(* Content-Length text.                                                    *)
DirectoryXml(d) == Element("Directory", TextElement("Name", d))

FileXml(f) ==
  Element("File", TextElement("Name", f.name) \o
                  Element("Properties", TextElement("Content-Length", f.length)))

ListFilesXml(dirs, files) ==
  ReaderEvents(
    <<StartTag("EnumerationResults"), Attribute("ServiceEndpoint", "https://acct/"),
      Attribute("ShareName", "sh"), Attribute("DirectoryPath", "dp")>> \o
    TextElement("MaxResults", "2") \o
    Element("Entries", FlattenSeq([i \in DOMAIN dirs |-> DirectoryXml(dirs[i])]) \o
                       FlattenSeq([i \in DOMAIN files |-> FileXml(files[i])])) \o
    TextElement("NextMarker", "") \o <<EndTag, End>>)

ExpectedListFiles(dirs, files) ==
  [ListFilesAndDirectoriesSegmentResponseDefault EXCEPT
     !.ServiceEndpoint = "https://acct/", !.ShareName = "sh", !.DirectoryPath = "dp",
     !.MaxResults = Numerals["2"].val,
     !.Segment = [DirectoryItems |-> [i \in DOMAIN dirs |-> [Name |-> dirs[i]]],
                  FileItems |-> [i \in DOMAIN files |->
                                   [Name |-> files[i].name,
                                    Properties |-> [ContentLength |->
                                                      Numerals[files[i].length].val]]]]]

=============================================================================
