-------------------------- MODULE ShareXmlDocuments --------------------------
(***************************************************************************)
(* The XML documents the Shares service decoders read.                     *)
(*                                                                         *)
(*  - The request body ShareRestClient::Service::SetProperties writes with *)
(*    StorageServicePropertiesToXml: the service answers GetProperties     *)
(*    with the same document, so writer output read back must decode to   *)
(*    the value written.                                                   *)
(*  - The EnumerationResults document the service returns for List Shares *)
(*    (REST contract, not code of this repository), with the variations a *)
(*    decoder must tolerate: absent optional elements, elements it does    *)
(*    not know, attributes it does not know, and one it must reject.      *)
(*                                                                         *)
(* A document is the event sequence XmlReader yields for it, ending in     *)
(* End; ReaderEvents drops the empty text nodes a reader never reports.   *)
(***************************************************************************)
EXTENDS Sequences, SequencesExt, XmlEvents, ShareXmlSchemas

BoolText(b) == IF b THEN "true" ELSE "false"

(* ShareRetentionPolicyToXml *)
ShareRetentionPolicyToXml(o) ==
  TextElement("Enabled", BoolText(o.Enabled)) \o TextElement("Days", ToDecimal(o.Days))

(* MetricsToXml *)
MetricsToXml(o) ==
  TextElement("Version", o.Version) \o
  TextElement("Enabled", BoolText(o.Enabled)) \o
  TextElement("IncludeAPIs", BoolText(o.IncludeAPIs)) \o
  Element("RetentionPolicy", ShareRetentionPolicyToXml(o.RetentionPolicy))

(* CorsRuleToXml *)
CorsRuleToXml(o) ==
  Element("CorsRule",
          TextElement("AllowedOrigins", o.AllowedOrigins) \o
          TextElement("AllowedMethods", o.AllowedMethods) \o
          TextElement("AllowedHeaders", o.AllowedHeaders) \o
          TextElement("ExposedHeaders", o.ExposedHeaders) \o
          TextElement("MaxAgeInSeconds", ToDecimal(o.MaxAgeInSeconds)))

(* StorageServicePropertiesToXml: Cors only when the list is non-empty. *)
StorageServicePropertiesToXml(o) ==
  Element("StorageServiceProperties",
          Element("HourMetrics", MetricsToXml(o.HourMetrics)) \o
          Element("MinuteMetrics", MetricsToXml(o.MinuteMetrics)) \o
          (IF Len(o.Cors) > 0
           THEN Element("Cors", FlattenSeq([i \in DOMAIN o.Cors |-> CorsRuleToXml(o.Cors[i])]))
           ELSE <<>>))

(* SetProperties: the writer's document, closed by writer.Write(End). *)
SetPropertiesBody(o) == ReaderEvents(StorageServicePropertiesToXml(o) \o <<End>>)

-----------------------------------------------------------------------------
(***************************************************************************)
(* List Shares response documents (service contract).  A share variant is *)
(* [name, snapshot, deleted, version, lastModified, etag, quota, meta]     *)
(* with quota a decimal text and meta a set of <<key, value>> pairs.       *)
(* Variation `mode`:                                                       *)
(*   "plain"      the document as the service sends it;                    *)
(*   "root"       an unknown element under EnumerationResults carrying an  *)
(*                attribute and children named like known ones;           *)
(*   "item"       an unknown element in every Share holding a Name;        *)
(*   "props"      an unknown element in every Properties holding a         *)
(*                non-numeric Quota;                                       *)
(*   "malformed"  MaxResults and every Quota are not numerals: a document *)
(*                with either must not decode.                             *)
(***************************************************************************)
Modes == {"plain", "root", "item", "props", "malformed"}

Opt(b, s) == IF b THEN s ELSE <<>>

MetadataXml(meta) ==
  Element("Metadata", FlattenSeq(SetToSeq({TextElement(kv[1], kv[2]) : kv \in meta})))

ShareXml(s, mode) ==
  Element("Share",
    TextElement("Name", s.name) \o
    Opt(mode = "item", Element("Extra", TextElement("Name", "zz"))) \o
    Opt(s.snapshot # "", TextElement("Snapshot", s.snapshot)) \o
    Opt(s.deleted, TextElement("Deleted", "true") \o TextElement("Version", s.version)) \o
    Element("Properties",
            TextElement("Last-Modified", s.lastModified) \o
            TextElement("Etag", s.etag) \o
            Opt(mode = "props", Element("Extra", TextElement("Quota", "x9"))) \o
            TextElement("Quota", IF mode = "malformed" THEN "x5" ELSE s.quota)) \o
    Opt(s.meta # {}, MetadataXml(s.meta)))

RootExtra ==
  <<StartTag("Extra"), Attribute("ServiceEndpoint", "zz")>> \o
  TextElement("Prefix", "zz") \o Element("Share", TextElement("Name", "zz")) \o <<EndTag>>

(* v: [prefix, maxResults (decimal text or ""), items, nextMarker] *)
ListSharesXml(v, mode) ==
  ReaderEvents(
    <<StartTag("EnumerationResults"), Attribute("ServiceEndpoint", "https://acct/")>> \o
    Opt(v.prefix # "", TextElement("Prefix", v.prefix)) \o
    Opt(v.maxResults # "",
        TextElement("MaxResults", IF mode = "malformed" THEN "x2" ELSE v.maxResults)) \o
    Opt(mode = "root", RootExtra) \o
    Element("Shares", FlattenSeq([i \in DOMAIN v.items |-> ShareXml(v.items[i], mode)])) \o
    TextElement("NextMarker", v.nextMarker) \o
    <<EndTag, End>>)

ExpectedShareItem(s) ==
  [ShareItemDefault EXCEPT
     !.Name = s.name, !.Snapshot = s.snapshot, !.Deleted = s.deleted,
     !.Version = IF s.deleted THEN s.version ELSE "",
     !.Properties = [SharePropertiesDefault EXCEPT
                       !.LastModified = s.lastModified, !.Etag = s.etag,
                       !.Quota = Numerals[s.quota].val],
     !.ShareMetadata = [k \in {kv[1] : kv \in s.meta} |->
                          (CHOOSE kv \in s.meta : kv[1] = k)[2]]]

(* What the document encodes; ListSharesResponse() for omitted fields. *)
ExpectedListShares(v, mode) ==
  IF mode = "malformed" /\ (v.maxResults # "" \/ v.items # <<>>)
  THEN DecodeError
  ELSE [ListSharesResponseDefault EXCEPT
          !.ServiceEndpoint = "https://acct/", !.Prefix = v.prefix,
          !.MaxResults = IF v.maxResults = "" THEN 0 ELSE Numerals[v.maxResults].val,
          !.ShareItems = [i \in DOMAIN v.items |-> ExpectedShareItem(v.items[i])],
          !.NextMarker = v.nextMarker]

=============================================================================
