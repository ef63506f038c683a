---------------------------- MODULE ShareRequests ----------------------------
(***************************************************************************)
(* The request builders of ShareRestClient::Service, Share, Directory and  *)
(* File (share_rest_client.hpp): each static <Op>(url, pipeline, context,  *)
(* <op>Options) constructs an Azure::Core::Http::Request from its options  *)
(* struct and passes it to pipeline.Send.                                  *)
(*                                                                         *)
(* A builder is its HTTP method, the resource its url names, its body and  *)
(* the sequence of request.AddHeader / request.AddQueryParameter calls it  *)
(* makes, in source order.  A call is                                      *)
(*   - "const": a literal value (restype, comp, content-length "0", ...);  *)
(*   - "field": a member of the options struct that is not a Nullable,     *)
(*              always sent, converted to its string;                      *)
(*   - "ifset": a Nullable member, sent only if HasValue();                *)
(*   - "meta":  the loop over the Metadata map, one header                 *)
(*              c_HeaderMetadata + key per pair;                           *)
(*   - "bodylength": std::to_string(body.Length()).                        *)
(* Options are functions from member names to values, NoValue for an      *)
(* empty Nullable.  Header names are written lower-case: AddHeader         *)
(* compares names case-insensitively and the last value added wins.        *)
(***************************************************************************)
EXTENDS Integers, Sequences, SequencesExt

CONSTANT NoValue

Const(at, name, v) == [kind |-> "const", at |-> at, name |-> name, value |-> v]
Field(at, name, f, conv) == [kind |-> "field", at |-> at, name |-> name, field |-> f, conv |-> conv]
IfSet(at, name, f, conv) == [kind |-> "ifset", at |-> at, name |-> name, field |-> f, conv |-> conv]
Meta == [kind |-> "meta", at |-> "header", field |-> "Metadata"]
BodyLength(name) == [kind |-> "bodylength", at |-> "header", name |-> name]

(* Steps every builder shares. *)
Timeout == IfSet("query", "timeout", "Timeout", "int")
Version == Field("header", "x-ms-version", "ApiVersionParameter", "str")
NoContent == Const("header", "content-length", "0")
Restype(v) == Const("query", "restype", v)
Comp(v) == Const("query", "comp", v)
LeaseId == IfSet("header", "x-ms-lease-id", "LeaseIdOptional", "str")
Snapshot == IfSet("query", "sharesnapshot", "ShareSnapshot", "str")

c_HeaderMetadata == "x-ms-meta"

(* std::to_string of an integer. *)
RECURSIVE Digits(_)
Digits(n) == IF n < 10 THEN <<"0", "1", "2", "3", "4", "5", "6", "7", "8", "9">>[n + 1]
             ELSE Digits(n \div 10) \o Digits(n % 10)
DecimalString(n) == IF n < 0 THEN "-" \o Digits(-n) ELSE Digits(n)

(* The <Enum>ToString switches; the default case returns std::string(). *)
PermissionCopyModeTypeToString ==
  [Source |-> "source", Override |-> "override", Unknown |-> ""]
DeleteSnapshotsOptionTypeToString == [Include |-> "include", Unknown |-> ""]
FileRangeWriteFromUrlTypeToString == [Update |-> "update", Unknown |-> ""]
LeaseActionToString ==
  [Acquire |-> "acquire", Release |-> "release", Change |-> "change", Break |-> "break",
   Unknown |-> ""]
FileRangeWriteTypeToString == [Update |-> "update", Clear |-> "clear", Unknown |-> ""]

(* ListSharesIncludeTypeToString: the names of the flags set in val, in   *)
(* the order of value_list, separated by commas.                           *)
IncludeFlags == <<"snapshots", "metadata", "deleted">>
ListSharesIncludeTypeToString(val) ==
  FoldLeft(LAMBDA result, i :
             IF IncludeFlags[i] \in val
             THEN IF result = "" THEN IncludeFlags[i] ELSE result \o "," \o IncludeFlags[i]
             ELSE result,
           "", <<1, 2, 3>>)

Convert(conv, v) ==
  CASE conv = "str" -> v
    [] conv = "int" -> DecimalString(v)
    [] conv = "bool" -> IF v THEN "true" ELSE "false"
    [] conv = "ListSharesInclude" -> ListSharesIncludeTypeToString(v)
    [] conv = "PermissionCopyMode" -> PermissionCopyModeTypeToString[v]
    [] conv = "DeleteSnapshotsOption" -> DeleteSnapshotsOptionTypeToString[v]
    [] conv = "FileRangeWriteFromUrl" -> FileRangeWriteFromUrlTypeToString[v]
    [] conv = "LeaseAction" -> LeaseActionToString[v]
    [] conv = "FileRangeWrite" -> FileRangeWriteTypeToString[v]

(* request.AddHeader / AddQueryParameter: the last value added wins. *)
Added(req, at, name, v) ==
  IF at = "header" THEN [req EXCEPT !.headers = (name :> v) @@ @]
  ELSE [req EXCEPT !.query = (name :> v) @@ @]

MetadataHeaders(m) ==
  [h \in {c_HeaderMetadata \o k : k \in DOMAIN m} |->
     m[CHOOSE k \in DOMAIN m : c_HeaderMetadata \o k = h]]

Apply(o, req, s) ==
  CASE s.kind = "const" -> Added(req, s.at, s.name, s.value)
    [] s.kind = "field" -> Added(req, s.at, s.name, Convert(s.conv, o[s.field]))
    [] s.kind = "ifset" -> IF o[s.field] = NoValue THEN req
                           ELSE Added(req, s.at, s.name, Convert(s.conv, o[s.field]))
    [] s.kind = "meta" -> [req EXCEPT !.headers = MetadataHeaders(o.Metadata) @@ @]
    [] s.kind = "bodylength" -> Added(req, s.at, s.name, DecimalString(req.bodyLength))

(* Azure::Core::Http::Request request(method, url[, &body]) and the calls. *)
(* A body's bytes are abstracted to its length, XmlBodyLength for the     *)
(* serialised XML or JSON bodies.                                          *)
XmlBodyLength == 120
Build(b, o) ==
  FoldLeft(LAMBDA req, s : Apply(o, req, s),
           [method |-> b.method, target |-> b.target, query |-> <<>>, headers |-> <<>>,
            bodyLength |-> IF b.body THEN XmlBodyLength ELSE 0],
           b.steps)

Builder(method, target, body, steps) ==
  [method |-> method, target |-> target, body |-> body, steps |-> steps]

(* The members of an options struct, required or Nullable. *)
OptionFields(b) ==
  {b.steps[i].field : i \in {j \in DOMAIN b.steps : b.steps[j].kind \in {"field", "ifset", "meta"}}}

-----------------------------------------------------------------------------
(* ShareRestClient::Service *)
ServiceSetPropertiesRequest ==
  Builder("PUT", "service", TRUE,
          <<BodyLength("content-length"), Restype("service"), Comp("properties"), Timeout, Version>>)
ServiceGetPropertiesRequest ==
  Builder("GET", "service", FALSE, <<Restype("service"), Comp("properties"), Timeout, Version>>)
ServiceListSharesSegmentRequest ==
  Builder("GET", "service", FALSE,
          <<Comp("list"), IfSet("query", "prefix", "Prefix", "str"),
            IfSet("query", "marker", "Marker", "str"),
            IfSet("query", "maxresults", "MaxResults", "int"),
            IfSet("query", "include", "ListSharesInclude", "ListSharesInclude"), Timeout, Version>>)

(* ShareRestClient::Share *)
ShareCreateRequest ==
  Builder("PUT", "share", FALSE,
          <<NoContent, Restype("share"), Timeout, Meta,
            IfSet("header", "x-ms-share-quota", "ShareQuota", "int"), Version>>)
ShareGetPropertiesRequest ==
  Builder("GET", "share", FALSE, <<Restype("share"), Snapshot, Timeout, Version>>)
ShareDeleteRequest ==
  Builder("DELETE", "share", FALSE,
          <<Restype("share"), Snapshot, Timeout, Version,
            IfSet("header", "x-ms-delete-snapshots", "XMsDeleteSnapshots", "DeleteSnapshotsOption")>>)
ShareCreateSnapshotRequest ==
  Builder("PUT", "share", FALSE, <<NoContent, Restype("share"), Comp("snapshot"), Timeout, Meta, Version>>)
ShareCreatePermissionRequest ==
  Builder("PUT", "share", TRUE, <<Restype("share"), Comp("filepermission"), Timeout, Version>>)
ShareGetPermissionRequest ==
  Builder("GET", "share", FALSE,
          <<Restype("share"), Comp("filepermission"),
            Field("header", "x-ms-file-permission-key", "FilePermissionKeyRequired", "str"),
            Timeout, Version>>)
ShareSetQuotaRequestWithoutComp ==
  Builder("PUT", "share", FALSE,
          <<NoContent, Restype("share"), Timeout, Version,
            IfSet("header", "x-ms-share-quota", "ShareQuota", "int")>>)
ShareSetQuotaRequest ==
  Builder("PUT", "share", FALSE,
          <<NoContent, Restype("share"), Comp("properties"), Timeout, Version,
            IfSet("header", "x-ms-share-quota", "ShareQuota", "int")>>)
ShareSetMetadataRequest ==
  Builder("PUT", "share", FALSE, <<NoContent, Restype("share"), Comp("metadata"), Timeout, Meta, Version>>)
ShareGetAccessPolicyRequest ==
  Builder("GET", "share", FALSE, <<Restype("share"), Comp("acl"), Timeout, Version>>)
ShareSetAccessPolicyRequest ==
  Builder("PUT", "share", TRUE,
          <<BodyLength("content-length"), Restype("share"), Comp("acl"), Timeout, Version>>)
ShareGetStatisticsRequest ==
  Builder("GET", "share", FALSE, <<Restype("share"), Comp("stats"), Timeout, Version>>)
ShareRestoreRequest ==
  Builder("PUT", "share", FALSE,
          <<NoContent, Restype("share"), Comp("undelete"), Timeout, Version,
            IfSet("header", "x-ms-client-request-id", "ClientRequestId", "str"),
            IfSet("header", "x-ms-deleted-share-name", "DeletedShareName", "str"),
            IfSet("header", "x-ms-deleted-share-version", "DeletedShareVersion", "str")>>)

(* ShareRestClient::Directory *)
Permission == <<IfSet("header", "x-ms-file-permission", "FilePermission", "str"),
                IfSet("header", "x-ms-file-permission-key", "FilePermissionKey", "str")>>
SmbProperties == <<Field("header", "x-ms-file-attributes", "FileAttributes", "str"),
                   Field("header", "x-ms-file-creation-time", "FileCreationTime", "str"),
                   Field("header", "x-ms-file-last-write-time", "FileLastWriteTime", "str")>>
Marker == IfSet("query", "marker", "Marker", "str")
MaxResults == IfSet("query", "maxresults", "MaxResults", "int")
Recursive == IfSet("header", "x-ms-recursive", "Recursive", "bool")
HandleId == Field("header", "x-ms-handle-id", "HandleId", "str")

DirectoryCreateRequest ==
  Builder("PUT", "directory", FALSE,
          <<NoContent, Restype("directory"), Timeout, Meta, Version>> \o Permission \o SmbProperties)
DirectoryGetPropertiesRequest ==
  Builder("GET", "directory", FALSE, <<Restype("directory"), Snapshot, Timeout, Version>>)
DirectoryDeleteRequest ==
  Builder("DELETE", "directory", FALSE, <<Restype("directory"), Timeout, Version>>)
DirectorySetPropertiesRequest ==
  Builder("PUT", "directory", FALSE,
          <<NoContent, Restype("directory"), Comp("properties"), Timeout, Version>> \o
          Permission \o SmbProperties)
DirectorySetMetadataRequest ==
  Builder("PUT", "directory", FALSE,
          <<NoContent, Restype("directory"), Comp("metadata"), Timeout, Meta, Version>>)
DirectoryListFilesAndDirectoriesSegmentRequest ==
  Builder("GET", "directory", FALSE,
          <<Restype("directory"), Comp("list"), IfSet("query", "prefix", "Prefix", "str"),
            Snapshot, Marker, MaxResults, Timeout, Version>>)
DirectoryListHandlesRequest ==
  Builder("GET", "directory", FALSE,
          <<Comp("listhandles"), Marker, MaxResults, Timeout, Snapshot, Recursive, Version>>)
DirectoryForceCloseHandlesRequest ==
  Builder("PUT", "directory", FALSE,
          <<NoContent, Comp("forceclosehandles"), Timeout, Marker, Snapshot, HandleId, Recursive,
            Version>>)

(* ShareRestClient::File *)
FileHttpHeaders ==
  <<IfSet("header", "x-ms-content-type", "FileContentType", "str"),
    IfSet("header", "x-ms-content-encoding", "FileContentEncoding", "str"),
    IfSet("header", "x-ms-content-language", "FileContentLanguage", "str"),
    IfSet("header", "x-ms-cache-control", "FileCacheControl", "str"),
    IfSet("header", "x-ms-content-md5", "FileContentMD5", "str"),
    IfSet("header", "x-ms-content-disposition", "FileContentDisposition", "str")>>
ClientRequestId == IfSet("header", "x-ms-client-request-id", "ClientRequestId", "str")
LeaseIdRequired == Field("header", "x-ms-lease-id", "LeaseIdRequired", "str")
ProposedLeaseId == IfSet("header", "x-ms-proposed-lease-id", "ProposedLeaseIdOptional", "str")
Action(v) == Const("header", "x-ms-lease-action", v)

FileCreateRequest ==
  Builder("PUT", "file", FALSE,
          <<NoContent, Timeout, Version,
            Field("header", "x-ms-content-length", "XMsContentLength", "int"),
            Const("header", "x-ms-type", "file")>> \o FileHttpHeaders \o <<Meta>> \o
          Permission \o SmbProperties \o <<LeaseId>>)
FileDownloadRequest ==
  Builder("GET", "file", FALSE,
          <<Timeout, Version, IfSet("header", "x-ms-range", "Range", "str"),
            IfSet("header", "x-ms-range-get-content-md5", "GetRangeContentMD5", "bool"), LeaseId>>)
FileGetPropertiesRequest ==
  Builder("HEAD", "file", FALSE, <<Snapshot, Timeout, Version, LeaseId>>)
FileDeleteRequest ==
  Builder("DELETE", "file", FALSE, <<Timeout, Version, LeaseId>>)
FileSetHTTPHeadersRequest ==
  Builder("PUT", "file", FALSE,
          <<NoContent, Comp("properties"), Timeout, Version,
            IfSet("header", "x-ms-content-length", "XMsContentLength", "int")>> \o
          FileHttpHeaders \o Permission \o SmbProperties \o <<LeaseId>>)
FileSetMetadataRequestNoLease ==
  Builder("PUT", "file", FALSE, <<NoContent, Comp("metadata"), Timeout, Meta, Version>>)
FileSetMetadataRequest ==
  Builder("PUT", "file", FALSE, <<NoContent, Comp("metadata"), Timeout, Meta, Version, LeaseId>>)
FileAcquireLeaseRequest ==
  Builder("PUT", "file", FALSE,
          <<NoContent, Comp("lease"),
            Field("header", "x-ms-lease-action", "XMsLeaseAction", "LeaseAction"), Timeout,
            IfSet("header", "x-ms-lease-duration", "LeaseDuration", "int"), ProposedLeaseId,
            Version, ClientRequestId>>)
FileReleaseLeaseRequest ==
  Builder("PUT", "file", FALSE,
          <<NoContent, Comp("lease"), Action("release"), Timeout, LeaseIdRequired, Version,
            ClientRequestId>>)
FileChangeLeaseRequest ==
  Builder("PUT", "file", FALSE,
          <<NoContent, Comp("lease"), Action("change"), Timeout, LeaseIdRequired, ProposedLeaseId,
            Version, ClientRequestId>>)
FileBreakLeaseRequest ==
  Builder("PUT", "file", FALSE,
          <<NoContent, Comp("lease"), Action("break"), Timeout, LeaseId, Version, ClientRequestId>>)
(* Constructed without a body stream. *)
FileUploadRangeRequest ==
  Builder("PUT", "file", FALSE,
          <<NoContent, Comp("range"), Timeout, Field("header", "x-ms-range", "XMsRange", "str"),
            Field("header", "x-ms-write", "XMsWrite", "FileRangeWrite"),
            Field("header", "content-length", "ContentLength", "int"),
            IfSet("header", "content-md5", "ContentMD5", "str"), Version, LeaseId>>)
FileUploadRangeFromURLRequest ==
  Builder("PUT", "file", FALSE,
          <<NoContent, Comp("range"), Timeout, Field("header", "x-ms-range", "TargetRange", "str"),
            Field("header", "x-ms-copy-source", "CopySource", "str"),
            IfSet("header", "x-ms-source-range", "SourceRange", "str"),
            Field("header", "x-ms-write", "XMsWrite", "FileRangeWriteFromUrl"),
            Field("header", "content-length", "ContentLength", "int"),
            IfSet("header", "x-ms-source-content-crc64", "SourceContentCrc64", "str"),
            IfSet("header", "x-ms-source-if-match-crc64", "SourceIfMatchCrc64", "str"),
            IfSet("header", "x-ms-source-if-none-match-crc64", "SourceIfNoneMatchCrc64", "str"),
            Version, LeaseId>>)
FileGetRangeListRequest ==
  Builder("GET", "file", FALSE,
          <<Comp("rangelist"), Snapshot, Timeout, Version,
            IfSet("header", "x-ms-range", "XMsRange", "str"), LeaseId>>)
FileStartCopyRequest ==
  Builder("PUT", "file", FALSE,
          <<NoContent, Timeout, Version, Meta,
            Field("header", "x-ms-copy-source", "CopySource", "str")>> \o Permission \o
          <<IfSet("header", "x-ms-file-permission-copy-mode", "XMsFilePermissionCopyMode",
                  "PermissionCopyMode"),
            IfSet("header", "x-ms-file-copy-ignore-read-only", "FileCopyIgnoreReadOnly", "bool"),
            IfSet("header", "x-ms-file-attributes", "FileCopyFileAttributes", "str"),
            IfSet("header", "x-ms-file-creation-time", "FileCopyFileCreationTime", "str"),
            IfSet("header", "x-ms-file-last-write-time", "FileCopyFileLastWriteTime", "str"),
            IfSet("header", "x-ms-file-copy-set-archive", "FileCopySetArchiveAttribute", "bool"),
            LeaseId>>)
FileAbortCopyRequest ==
  Builder("PUT", "file", FALSE,
          <<NoContent, Comp("copy"), Field("query", "copyid", "CopyId", "str"), Timeout,
            Const("header", "x-ms-copy-action", "abort"), Version, LeaseId>>)
FileListHandlesRequest ==
  Builder("GET", "file", FALSE, <<Comp("listhandles"), Marker, MaxResults, Timeout, Snapshot, Version>>)
FileForceCloseHandlesRequest ==
  Builder("PUT", "file", FALSE,
          <<NoContent, Comp("forceclosehandles"), Timeout, Marker, Snapshot, HandleId, Version>>)

-----------------------------------------------------------------------------
(* Each operation's builder, by the name its ParseResponse has in         *)
(* ResponseHeaders.                                                        *)
RequestOf ==
  [ServiceSetProperties |-> ServiceSetPropertiesRequest,
   ServiceGetProperties |-> ServiceGetPropertiesRequest,
   ServiceListSharesSegment |-> ServiceListSharesSegmentRequest,
   ShareCreate |-> ShareCreateRequest, ShareGetProperties |-> ShareGetPropertiesRequest,
   ShareDelete |-> ShareDeleteRequest, ShareCreateSnapshot |-> ShareCreateSnapshotRequest,
   ShareCreatePermission |-> ShareCreatePermissionRequest,
   ShareGetPermission |-> ShareGetPermissionRequest, ShareSetQuota |-> ShareSetQuotaRequest,
   ShareSetMetadata |-> ShareSetMetadataRequest,
   ShareGetAccessPolicy |-> ShareGetAccessPolicyRequest,
   ShareSetAccessPolicy |-> ShareSetAccessPolicyRequest,
   ShareGetStatistics |-> ShareGetStatisticsRequest, ShareRestore |-> ShareRestoreRequest,
   DirectoryCreate |-> DirectoryCreateRequest,
   DirectoryGetProperties |-> DirectoryGetPropertiesRequest,
   DirectoryDelete |-> DirectoryDeleteRequest,
   DirectorySetProperties |-> DirectorySetPropertiesRequest,
   DirectorySetMetadata |-> DirectorySetMetadataRequest,
   DirectoryListFilesAndDirectoriesSegment |-> DirectoryListFilesAndDirectoriesSegmentRequest,
   DirectoryListHandles |-> DirectoryListHandlesRequest,
   DirectoryForceCloseHandles |-> DirectoryForceCloseHandlesRequest,
   FileCreate |-> FileCreateRequest, FileDownload |-> FileDownloadRequest,
   FileGetProperties |-> FileGetPropertiesRequest, FileDelete |-> FileDeleteRequest,
   FileSetHTTPHeaders |-> FileSetHTTPHeadersRequest, FileSetMetadata |-> FileSetMetadataRequest,
   FileAcquireLease |-> FileAcquireLeaseRequest, FileReleaseLease |-> FileReleaseLeaseRequest,
   FileChangeLease |-> FileChangeLeaseRequest, FileBreakLease |-> FileBreakLeaseRequest,
   FileUploadRange |-> FileUploadRangeRequest,
   FileUploadRangeFromURL |-> FileUploadRangeFromURLRequest,
   FileGetRangeList |-> FileGetRangeListRequest, FileStartCopy |-> FileStartCopyRequest,
   FileAbortCopy |-> FileAbortCopyRequest, FileListHandles |-> FileListHandlesRequest,
   FileForceCloseHandles |-> FileForceCloseHandlesRequest]

(* The request the builder of op o sends for options opts. *)
RequestFor(o, opts) == Build(RequestOf[o], opts)

=============================================================================
