--------------------------- MODULE ShareXmlSchemas ---------------------------
(***************************************************************************)
(* The tables that drive the generated tag-path decoders of the Files      *)
(* Shares protocol layer (share_rest_client.hpp).  Every <Type>FromXml     *)
(* function there is the same loop over XmlReader events with its own      *)
(* enum XmlTagName, its own exact-path text assignments, its own nested    *)
(* decoder calls and its own attribute assignments.  Each function is      *)
(* written here as one schema record:                                      *)
(*                                                                         *)
(*   kind    "path" for the XmlTagName/path-vector decoders, "metadata"    *)
(*           for MetadataFromXml, which counts depth instead;              *)
(*   tags    the tag names its enum recognises (all others: c_Unknown);    *)
(*   init    the value-initialised result (Type() zeroes every member);    *)
(*   text    path -> field assignments and the conversion applied;         *)
(*   nested  path -> field that a nested <Type>FromXml(reader) fills,      *)
(*           either assigned ("set") or emplace_back'ed ("append");        *)
(*   attrs   path and attribute name -> field.                             *)
(*                                                                         *)
(* Markers are the tag names themselves; "?" stands for c_Unknown.         *)
(***************************************************************************)
EXTENDS Sequences, TLC, XmlEvents

TextRule(p, f, c) == [path |-> p, field |-> f, conv |-> c]
NestedCall(p, f, callee, mode) ==
  [path |-> p, field |-> f, callee |-> callee, mode |-> mode]
AttrRule(p, a, f) == [path |-> p, name |-> a, field |-> f]

PathSchema(tags, init, text, nested, attrs) ==
  [kind |-> "path", tags |-> tags, init |-> init,
   text |-> text, nested |-> nested, attrs |-> attrs]

(* Default values: `auto result = Type();` value-initialises the struct. *)
ShareRetentionPolicyDefault == [Enabled |-> FALSE, Days |-> 0]
MetricsDefault ==
  [Version |-> "", Enabled |-> FALSE, IncludeAPIs |-> FALSE,
   RetentionPolicy |-> ShareRetentionPolicyDefault]
CorsRuleDefault ==
  [AllowedOrigins |-> "", AllowedMethods |-> "", AllowedHeaders |-> "",
   ExposedHeaders |-> "", MaxAgeInSeconds |-> 0]
StorageServicePropertiesDefault ==
  [HourMetrics |-> MetricsDefault, MinuteMetrics |-> MetricsDefault, Cors |-> <<>>]
SharePropertiesDefault ==
  [LastModified |-> "", Etag |-> "", Quota |-> 0, ProvisionedIops |-> 0,
   ProvisionedIngressMBps |-> 0, ProvisionedEgressMBps |-> 0,
   NextAllowedQuotaDowngradeTime |-> "", DeletedTime |-> "",
   RemainingRetentionDays |-> 0]
MetadataDefault == <<>>
ShareItemDefault ==
  [Name |-> "", Snapshot |-> "", Deleted |-> FALSE, Version |-> "",
   Properties |-> SharePropertiesDefault, ShareMetadata |-> MetadataDefault]
ListSharesResponseDefault ==
  [ServiceEndpoint |-> "", Prefix |-> "", Marker |-> "", MaxResults |-> 0,
   ShareItems |-> <<>>, NextMarker |-> ""]

(* ShareRestClient::Service::ShareRetentionPolicyFromXml *)
ShareRetentionPolicySchema ==
  PathSchema({"Enabled", "Days"}, ShareRetentionPolicyDefault,
             {TextRule(<<"Enabled">>, "Enabled", "bool"),
              TextRule(<<"Days">>, "Days", "int32")},
             {}, {})

(* ShareRestClient::Service::MetricsFromXml *)
MetricsSchema ==
  PathSchema({"Version", "Enabled", "IncludeAPIs", "RetentionPolicy"}, MetricsDefault,
             {TextRule(<<"Version">>, "Version", "string"),
              TextRule(<<"Enabled">>, "Enabled", "bool"),
              TextRule(<<"IncludeAPIs">>, "IncludeAPIs", "bool")},
             {NestedCall(<<"RetentionPolicy">>, "RetentionPolicy",
                         "ShareRetentionPolicy", "set")},
             {})

(* ShareRestClient::Service::CorsRuleFromXml *)
CorsRuleSchema ==
  PathSchema({"AllowedOrigins", "AllowedMethods", "AllowedHeaders",
              "ExposedHeaders", "MaxAgeInSeconds"}, CorsRuleDefault,
             {TextRule(<<"AllowedOrigins">>, "AllowedOrigins", "string"),
              TextRule(<<"AllowedMethods">>, "AllowedMethods", "string"),
              TextRule(<<"AllowedHeaders">>, "AllowedHeaders", "string"),
              TextRule(<<"ExposedHeaders">>, "ExposedHeaders", "string"),
              TextRule(<<"MaxAgeInSeconds">>, "MaxAgeInSeconds", "int32")},
             {}, {})

(* ShareRestClient::Service::StorageServicePropertiesFromXml *)
StorageServicePropertiesSchema ==
  PathSchema({"StorageServiceProperties", "HourMetrics", "MinuteMetrics",
              "CorsRule", "Cors"}, StorageServicePropertiesDefault,
             {},
             {NestedCall(<<"StorageServiceProperties", "HourMetrics">>,
                         "HourMetrics", "Metrics", "set"),
              NestedCall(<<"StorageServiceProperties", "MinuteMetrics">>,
                         "MinuteMetrics", "Metrics", "set"),
              NestedCall(<<"StorageServiceProperties", "Cors", "CorsRule">>,
                         "Cors", "CorsRule", "append")},
             {})

(* ShareRestClient::Service::SharePropertiesFromXml *)
SharePropertiesSchema ==
  PathSchema({"Last-Modified", "Etag", "Quota", "ProvisionedIops",
              "ProvisionedIngressMBps", "ProvisionedEgressMBps",
              "NextAllowedQuotaDowngradeTime", "DeletedTime",
              "RemainingRetentionDays"}, SharePropertiesDefault,
             {TextRule(<<"Last-Modified">>, "LastModified", "string"),
              TextRule(<<"Etag">>, "Etag", "string"),
              TextRule(<<"Quota">>, "Quota", "int32"),
              TextRule(<<"ProvisionedIops">>, "ProvisionedIops", "int32"),
              TextRule(<<"ProvisionedIngressMBps">>, "ProvisionedIngressMBps", "int32"),
              TextRule(<<"ProvisionedEgressMBps">>, "ProvisionedEgressMBps", "int32"),
              TextRule(<<"NextAllowedQuotaDowngradeTime">>,
                       "NextAllowedQuotaDowngradeTime", "string"),
              TextRule(<<"DeletedTime">>, "DeletedTime", "string"),
              TextRule(<<"RemainingRetentionDays">>, "RemainingRetentionDays", "int32")},
             {}, {})

(* ShareRestClient::Service::MetadataFromXml: a depth counter, the name of *)
(* each depth-0 start tag is the key, text at depth 1 is emplace'd.        *)
MetadataSchema ==
  [kind |-> "metadata", tags |-> {}, init |-> MetadataDefault,
   text |-> {}, nested |-> {}, attrs |-> {}]

(* ShareRestClient::Service::ShareItemFromXml *)
ShareItemSchema ==
  PathSchema({"Name", "Snapshot", "Deleted", "Version", "Properties", "Metadata"},
             ShareItemDefault,
             {TextRule(<<"Name">>, "Name", "string"),
              TextRule(<<"Snapshot">>, "Snapshot", "string"),
              TextRule(<<"Deleted">>, "Deleted", "bool"),
              TextRule(<<"Version">>, "Version", "string")},
             {NestedCall(<<"Properties">>, "Properties", "ShareProperties", "set"),
              NestedCall(<<"Metadata">>, "ShareMetadata", "Metadata", "set")},
             {})

(* ShareRestClient::Service::ListSharesResponseFromXml *)
ListSharesResponseSchema ==
  PathSchema({"EnumerationResults", "Prefix", "Marker", "MaxResults", "Shares",
              "Share", "NextMarker"}, ListSharesResponseDefault,
             {TextRule(<<"EnumerationResults", "Prefix">>, "Prefix", "string"),
              TextRule(<<"EnumerationResults", "Marker">>, "Marker", "string"),
              TextRule(<<"EnumerationResults", "MaxResults">>, "MaxResults", "int32"),
              TextRule(<<"EnumerationResults", "NextMarker">>, "NextMarker", "string")},
             {NestedCall(<<"EnumerationResults", "Shares", "Share">>,
                         "ShareItems", "ShareItem", "append")},
             {AttrRule(<<"EnumerationResults">>, "ServiceEndpoint", "ServiceEndpoint")})

(* The decoders reachable from ListSharesSegmentParseResponse and          *)
(* GetPropertiesParseResponse of ShareRestClient::Service.                 *)
ServiceSchemas ==
  ("ShareRetentionPolicy" :> ShareRetentionPolicySchema) @@
  ("Metrics" :> MetricsSchema) @@
  ("CorsRule" :> CorsRuleSchema) @@
  ("StorageServiceProperties" :> StorageServicePropertiesSchema) @@
  ("ShareProperties" :> SharePropertiesSchema) @@
  ("Metadata" :> MetadataSchema) @@
  ("ShareItem" :> ShareItemSchema) @@
  ("ListSharesResponse" :> ListSharesResponseSchema)

=============================================================================
