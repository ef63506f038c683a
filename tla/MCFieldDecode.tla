---------------------------- MODULE MCFieldDecode ----------------------------
(***************************************************************************)
(* Field decoding of five ParseResponse functions of ShareRestClient:      *)
(*  - Directory::ListFilesAndDirectoriesSegmentParseResponse on a listing  *)
(*    of at most one directory and at most one file, each with its name    *)
(*    and, for the file, its Content-Length;                               *)
(*  - Share::GetStatisticsParseResponse on a Get Share Stats body whose    *)
(*    ShareUsageBytes is below 2^31 or at least 2^31 (a share of 3 GB; a   *)
(*    share may hold up to 5 TiB, so such usage is ordinary);              *)
(*  - Service::ListSharesSegmentParseResponse on a two-share List Shares   *)
(*    document cut short: the reader reaches End after every proper prefix *)
(*    of it, with elements still open, and none is a complete response;    *)
(*  - the body StorageServicePropertiesToXml writes for                    *)
(*    Service::SetProperties, decoded by StorageServicePropertiesFromXml   *)
(*    (GetPropertiesParseResponse), for service properties whose flags     *)
(*    take both values;                                                    *)
(*  - the body SignedIdentifiersToXml writes for Share::SetAccessPolicy,   *)
(*    for zero to two signed identifiers, decoded by                       *)
(*    Share::GetAccessPolicyParseResponse: the service stores that ACL and *)
(*    returns it.                                                          *)
(***************************************************************************)
EXTENDS TagPathDecoder, ShareXmlDocuments, ShareFileXmlDocuments

(* 3000000000 needs 64 bits; its value stands in scaled. *)
MCNumerals ==
  ("2" :> [val |-> 2, bits |-> 32]) @@ ("5120" :> [val |-> 5120, bits |-> 32]) @@
  ("3000000000" :> [val |-> 3000000, bits |-> 64]) @@ ("5" :> [val |-> 5, bits |-> 32]) @@
  ("0" :> [val |-> 0, bits |-> 32]) @@ ("7" :> [val |-> 7, bits |-> 32]) @@
  ("60" :> [val |-> 60, bits |-> 32])

Share(n) == [name |-> n, snapshot |-> "", deleted |-> FALSE, version |-> "",
             lastModified |-> "t1", etag |-> "e1", quota |-> "5", meta |-> {}]

FullListShares ==
  ListSharesXml([prefix |-> "", maxResults |-> "2", items |-> <<Share("s1"), Share("s2")>>,
                 nextMarker |-> "m2"], "plain")

MetricsValues ==
  [Version : {"1.0"}, Enabled : BOOLEAN, IncludeAPIs : BOOLEAN,
   RetentionPolicy : [Enabled : BOOLEAN, Days : {0, 7}]]

CorsRules ==
  [AllowedOrigins : {"*"}, AllowedMethods : {"GET"}, AllowedHeaders : {""},
   ExposedHeaders : {""}, MaxAgeInSeconds : {60}]

ServicePropertiesValues ==
  [HourMetrics : MetricsValues, MinuteMetrics : {MetricsDefault},
   Cors : {<<>>} \cup {<<r>> : r \in CorsRules}]

Identifiers ==
  {[Id |-> i, Policy |-> [Start |-> "s", Expiry |-> "e", Permission |-> "r"]] : i \in {"id1", "id2"}}

RoundTripInputs ==
  {[root |-> "StorageServiceProperties", body |-> SetPropertiesBody(o), expected |-> o] :
     o \in ServicePropertiesValues} \cup
  {[root |-> "SignedIdentifiers", body |-> SetAccessPolicyBody(s), expected |-> s] :
     s \in Seqs(Identifiers, 2)}

FieldInputs ==
  {[root |-> "ListFilesAndDirectoriesSegmentResponse", body |-> ListFilesXml(d, f),
    expected |-> ExpectedListFiles(d, f)] :
     d \in Seqs({"d1"}, 1), f \in Seqs({[name |-> "f1", length |-> "5120"]}, 1)} \cup
  {[root |-> "ShareStats", body |-> ShareStatsXml(u), expected |-> ExpectedShareStats(u)] :
     u \in {"5120", "3000000000"}} \cup
  (* Cut before the last end tag or earlier; the reader then reports End. *)
  {[root |-> "ListSharesResponse", body |-> SubSeq(FullListShares, 1, k) \o <<End>>,
    expected |-> DecodeError] : k \in 1..(Len(FullListShares) - 2)} \cup
  RoundTripInputs

=============================================================================
