------------------------- MODULE ShareFileXmlSchemas -------------------------
(***************************************************************************)
(* The <Type>FromXml decoders of the Share, Directory and File classes of  *)
(* ShareRestClient (share_rest_client.hpp), as schema records of the same  *)
(* form as ShareXmlSchemas.  Two of them have no text branch at all:       *)
(* DirectoryItemFromXml and FilePropertyFromXml recognise their tags but   *)
(* never assign a field, so their `text` sets are empty.                   *)
(***************************************************************************)
EXTENDS Sequences, TLC, XmlEvents, ShareXmlSchemas

StringRules(names) == {TextRule(<<n>>, n, "string") : n \in names}

AccessPolicyDefault == [Start |-> "", Expiry |-> "", Permission |-> ""]
SignedIdentifierDefault == [Id |-> "", Policy |-> AccessPolicyDefault]
ShareStatsDefault == [ShareUsageBytes |-> 0]
DirectoryItemDefault == [Name |-> ""]
FilePropertyDefault == [ContentLength |-> 0]
FileItemDefault == [Name |-> "", Properties |-> FilePropertyDefault]
FilesAndDirectoriesListSegmentDefault == [DirectoryItems |-> <<>>, FileItems |-> <<>>]
ListFilesAndDirectoriesSegmentResponseDefault ==
  [ServiceEndpoint |-> "", ShareName |-> "", ShareSnapshot |-> "", DirectoryPath |-> "",
   Prefix |-> "", Marker |-> "", MaxResults |-> 0,
   Segment |-> FilesAndDirectoriesListSegmentDefault, NextMarker |-> ""]
HandleFieldOrder ==
  <<"HandleId", "Path", "FileId", "ParentId", "SessionId", "ClientIp", "OpenTime",
    "LastReconnectTime">>
HandleFields == {HandleFieldOrder[i] : i \in DOMAIN HandleFieldOrder}
HandleItemDefault == [f \in HandleFields |-> ""]
ListHandlesResponseDefault == [HandleList |-> <<>>, NextMarker |-> ""]
RangeDefault == [Start |-> 0, End |-> 0]

(* ShareRestClient::Share::AccessPolicyFromXml *)
AccessPolicySchema ==
  PathSchema({"Start", "Expiry", "Permission"}, AccessPolicyDefault,
             StringRules({"Start", "Expiry", "Permission"}), {}, {})

(* ShareRestClient::Share::SignedIdentifierFromXml *)
SignedIdentifierSchema ==
  PathSchema({"Id", "AccessPolicy"}, SignedIdentifierDefault,
             {TextRule(<<"Id">>, "Id", "string")},
             {NestedCall(<<"AccessPolicy">>, "Policy", "AccessPolicy", "set")}, {})

(* ShareRestClient::Share::SignedIdentifiersFromXml: returns the vector. *)
SignedIdentifiersSchema ==
  PathSchema({"SignedIdentifiers", "SignedIdentifier"}, <<>>, {},
             {NestedCall(<<"SignedIdentifiers", "SignedIdentifier">>, Whole,
                         "SignedIdentifier", "append")}, {})

(* ShareRestClient::Share::ShareStatsFromXml: int32_t via std::stoi. *)
ShareStatsSchema ==
  PathSchema({"ShareStats", "ShareUsageBytes"}, ShareStatsDefault,
             {TextRule(<<"ShareStats", "ShareUsageBytes">>, "ShareUsageBytes", "int32")},
             {}, {})

(* ShareRestClient::Directory::DirectoryItemFromXml: no text branch. *)
DirectoryItemSchema == PathSchema({"Name"}, DirectoryItemDefault, {}, {}, {})

(* ShareRestClient::Directory::FilePropertyFromXml: no text branch. *)
FilePropertySchema == PathSchema({"Content-Length"}, FilePropertyDefault, {}, {}, {})

(* ShareRestClient::Directory::FileItemFromXml *)
FileItemSchema ==
  PathSchema({"Name", "Properties"}, FileItemDefault,
             {TextRule(<<"Name">>, "Name", "string")},
             {NestedCall(<<"Properties">>, "Properties", "FileProperty", "set")}, {})

(* ShareRestClient::Directory::FilesAndDirectoriesListSegmentFromXml *)
FilesAndDirectoriesListSegmentSchema ==
  PathSchema({"Directory", "File"}, FilesAndDirectoriesListSegmentDefault, {},
             {NestedCall(<<"Directory">>, "DirectoryItems", "DirectoryItem", "append"),
              NestedCall(<<"File">>, "FileItems", "FileItem", "append")}, {})

(* ShareRestClient::Directory::ListFilesAndDirectoriesSegmentResponseFromXml *)
ListFilesAndDirectoriesSegmentResponseSchema ==
  PathSchema({"EnumerationResults", "Prefix", "Marker", "MaxResults", "Entries",
              "NextMarker"}, ListFilesAndDirectoriesSegmentResponseDefault,
             {TextRule(<<"EnumerationResults", "Prefix">>, "Prefix", "string"),
              TextRule(<<"EnumerationResults", "Marker">>, "Marker", "string"),
              TextRule(<<"EnumerationResults", "MaxResults">>, "MaxResults", "int32"),
              TextRule(<<"EnumerationResults", "NextMarker">>, "NextMarker", "string")},
             {NestedCall(<<"EnumerationResults", "Entries">>, "Segment",
                         "FilesAndDirectoriesListSegment", "set")},
             {AttrRule(<<"EnumerationResults">>, a, a) :
                a \in {"ServiceEndpoint", "ShareName", "ShareSnapshot", "DirectoryPath"}})

(* ShareRestClient::Directory::HandleItemFromXml *)
HandleItemSchema ==
  PathSchema(HandleFields, HandleItemDefault, StringRules(HandleFields), {}, {})

(* ShareRestClient::File::HandleItemFromXml: the same function again. *)
FileHandleItemSchema == HandleItemSchema

(* ShareRestClient::Directory::ListHandlesResponseFromXml *)
ListHandlesResponseSchema ==
  PathSchema({"EnumerationResults", "Entries", "Handle", "NextMarker"},
             ListHandlesResponseDefault,
             {TextRule(<<"EnumerationResults", "NextMarker">>, "NextMarker", "string")},
             {NestedCall(<<"EnumerationResults", "Entries", "Handle">>, "HandleList",
                         "HandleItem", "append")}, {})

(* ShareRestClient::File::ListHandlesResponseFromXml: the same function again. *)
FileListHandlesResponseSchema ==
  [ListHandlesResponseSchema EXCEPT
     !.nested = {NestedCall(<<"EnumerationResults", "Entries", "Handle">>, "HandleList",
                            "FileHandleItem", "append")}]

RangeSchemaStoi ==
  PathSchema({"Start", "End"}, RangeDefault,
             {TextRule(<<"Start">>, "Start", "int32"), TextRule(<<"End">>, "End", "int32")},
             {}, {})

(* ShareRestClient::File::RangeFromXml: int64_t via std::stoll. *)
RangeSchema ==
  PathSchema({"Start", "End"}, RangeDefault,
             {TextRule(<<"Start">>, "Start", "int64"), TextRule(<<"End">>, "End", "int64")},
             {}, {})

(* ShareRestClient::File::RangeListFromXml: returns the vector. *)
RangeListSchema ==
  PathSchema({"Ranges", "Range"}, <<>>, {},
             {NestedCall(<<"Ranges", "Range">>, Whole, "Range", "append")}, {})

(* The decoders reachable from the XML-bodied ParseResponse functions of   *)
(* ShareRestClient::Service, Share, Directory and File.                    *)
ShareFileSchemas ==
  ServiceSchemas @@
  ("AccessPolicy" :> AccessPolicySchema) @@
  ("SignedIdentifier" :> SignedIdentifierSchema) @@
  ("SignedIdentifiers" :> SignedIdentifiersSchema) @@
  ("ShareStats" :> ShareStatsSchema) @@
  ("DirectoryItem" :> DirectoryItemSchema) @@
  ("FileProperty" :> FilePropertySchema) @@
  ("FileItem" :> FileItemSchema) @@
  ("FilesAndDirectoriesListSegment" :> FilesAndDirectoriesListSegmentSchema) @@
  ("ListFilesAndDirectoriesSegmentResponse" :> ListFilesAndDirectoriesSegmentResponseSchema) @@
  ("HandleItem" :> HandleItemSchema) @@
  ("FileHandleItem" :> FileHandleItemSchema) @@
  ("ListHandlesResponse" :> ListHandlesResponseSchema) @@
  ("FileListHandlesResponse" :> FileListHandlesResponseSchema) @@
  ("Range" :> RangeSchema) @@
  ("RangeList" :> RangeListSchema)

=============================================================================
