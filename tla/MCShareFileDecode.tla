-------------------------- MODULE MCShareFileDecode --------------------------
(***************************************************************************)
(* The XML-bodied ParseResponse functions of ShareRestClient::Share,       *)
(* Directory and File on the bodies the service sends: Get Share ACL (up  *)
(* to two identifiers), Get Share Stats, Get Range List (up to two ranges, *)
(* 32- and 64-bit offsets), List Handles of a directory and of a file (up  *)
(* to two handles), an empty directory listing, and empty bodies; and     *)
(* ListSharesSegmentParseResponse on the List Shares documents of          *)
(* MCListSharesDecode.  ShareFileSchemas holds every decoder of the file.  *)
(***************************************************************************)
EXTENDS MCListSharesDecode, ShareFileXmlDocuments

(* 3000000000 and 3000000511 need 64 bits; their values stand in scaled. *)
ShareFileNumerals ==
  ("0" :> [val |-> 0, bits |-> 32]) @@ ("511" :> [val |-> 511, bits |-> 32]) @@
  ("2" :> [val |-> 2, bits |-> 32]) @@ ("5120" :> [val |-> 5120, bits |-> 32]) @@
  ("3000000000" :> [val |-> 3000000, bits |-> 64]) @@
  ("3000000511" :> [val |-> 3000001, bits |-> 64])

Identifiers ==
  {[Id |-> i, Policy |-> [Start |-> "s", Expiry |-> "e", Permission |-> "r"]] : i \in {"id1", "id2"}}

Ranges == {[Start |-> "0", End |-> "511"], [Start |-> "3000000000", End |-> "3000000511"]}

Handles ==
  {[f \in HandleFields |-> "h1"], [[f \in HandleFields |-> "h2"] EXCEPT !.SessionId = "s9"]}

ShareFileInputs ==
  {[root |-> r, body |-> <<>>, expected |-> ShareFileSchemas[r].init] :
     r \in {"SignedIdentifiers", "ShareStats", "RangeList", "ListHandlesResponse"}} \cup
  {[root |-> "SignedIdentifiers", body |-> ShareAclXml(s), expected |-> s] :
     s \in Seqs(Identifiers, 2)} \cup
  {[root |-> "ShareStats", body |-> ShareStatsXml(u), expected |-> ExpectedShareStats(u)] :
     u \in {"0", "5120"}} \cup
  {[root |-> "RangeList", body |-> RangeListXml(s), expected |-> ExpectedRangeList(s)] :
     s \in Seqs(Ranges, 2)} \cup
  {[root |-> r, body |-> ListHandlesXml(s, m), expected |-> ExpectedListHandles(s, m)] :
     r \in {"ListHandlesResponse", "FileListHandlesResponse"},
     s \in Seqs(Handles, 2), m \in {"", "m2"}} \cup
  {[root |-> "ListFilesAndDirectoriesSegmentResponse", body |-> ListFilesXml(<<>>, <<>>),
    expected |-> ExpectedListFiles(<<>>, <<>>)]}

DecodeNumerals == ShareFileNumerals @@ MCNumerals

DecodeInputs == ShareFileInputs \cup ListSharesInputs

=============================================================================
