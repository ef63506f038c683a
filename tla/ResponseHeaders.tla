--------------------------- MODULE ResponseHeaders ---------------------------
(***************************************************************************)
(* The header extraction of the <Op>ParseResponse functions of             *)
(* ShareRestClient::Share, Directory and File (share_rest_client.hpp).     *)
(*                                                                         *)
(* Each function compares the status with the one (or two) it expects,     *)
(* throws StorageError::CreateFromResponse otherwise, and then assigns the *)
(* result's fields one by one, in source order:                            *)
(*   - "at":   response.GetHeaders().at(name), std::out_of_range when the *)
(*             header is absent;                                           *)
(*   - "find": the lookup guarded by find(name) != end();                  *)
(*   - "body": the XML body decoded by a <Type>FromXml function (modelled  *)
(*             by TagPathDecoder; here it is one step).                    *)
(* A parser is a function from the accepted statuses to the sequence of    *)
(* reads of that branch.  A field is named by the header it comes from.    *)
(* The header values are abstracted to presence, except for the headers   *)
(* converted by an <Enum>FromString function, which throws                 *)
(* std::runtime_error on a string it does not know: for those the value    *)
(* is one of the strings the REST reference says the service sends.       *)
(* std::stoi, std::stoll and == "true" are total on the service's values. *)
(*                                                                         *)
(* The service's side is a CONSTANT: the set of responses it can send.     *)
(***************************************************************************)
EXTENDS Integers, Sequences, FiniteSets

CONSTANTS
  Ops,               \* the operations whose ParseResponse is checked
  Responses          \* the responses the service sends: [op, status, headers]

VARIABLES op, status, headers, pc, assigned, outcome

vars == <<op, status, headers, pc, assigned, outcome>>

At(h) == [mode |-> "at", header |-> h]
Find(h) == [mode |-> "find", header |-> h]
(* result.<Field> = <Enum>FromString(response.GetHeaders().at(name)).    *)
AtEnum(h, conv) == [mode |-> "at", header |-> h, conv |-> conv]

(* The strings each <Enum>FromString converts; any other throws. *)
CopyStatusTypeFromString == {"pending", "success", "aborted", "failed"}
LeaseDurationTypeFromString == {"infinite", "fixed"}
LeaseStateTypeFromString == {"available", "leased", "expired", "breaking", "broken"}
LeaseStatusTypeFromString == {"locked", "unlocked"}
Body == [mode |-> "body", header |-> "body"]

Branch(s, reads) == [x \in {s} |-> reads]

EtagLm == <<At("etag"), At("last-modified")>>
SmbTimes == <<At("x-ms-file-attributes"), At("x-ms-file-creation-time"),
              At("x-ms-file-last-write-time"), At("x-ms-file-change-time")>>
FileIds == <<At("x-ms-file-id"), At("x-ms-file-parent-id")>>
(* Create / SetProperties / SetHTTPHeaders of a directory or file. *)
SmbWritten == EtagLm \o <<At("x-ms-request-server-encrypted"), At("x-ms-file-permission-key")>>
              \o SmbTimes \o FileIds
(* The same fields in the order the GetProperties / Download branches read them. *)
SmbRead == <<At("x-ms-request-server-encrypted")>> \o SmbTimes
           \o <<At("x-ms-file-permission-key")>> \o FileIds
EtagServerEncrypted == <<At("etag"), At("x-ms-request-server-encrypted")>>
ForceCloseReads == <<At("x-ms-marker"), At("x-ms-number-of-handles-closed"),
                     At("x-ms-number-of-handles-failed")>>
LeaseReads == <<AtEnum("x-ms-lease-duration", LeaseDurationTypeFromString),
                AtEnum("x-ms-lease-state", LeaseStateTypeFromString),
                AtEnum("x-ms-lease-status", LeaseStatusTypeFromString)>>
HttpHeaderReads == <<At("content-encoding"), At("cache-control"), At("content-disposition"),
                     At("content-language")>>
CopyReads == <<At("x-ms-copy-completion-time"), At("x-ms-copy-status-description"),
               At("x-ms-copy-id"), At("x-ms-copy-progress"), At("x-ms-copy-source"),
               AtEnum("x-ms-copy-status", CopyStatusTypeFromString)>>

-----------------------------------------------------------------------------
(* ShareRestClient::Share *)
(* ShareRestClient::Service: no headers are read. *)
ServiceSetProperties == Branch(202, <<>>)
ServiceGetProperties == Branch(200, <<Body>>)
ServiceListSharesSegment == Branch(200, <<Body>>)

ShareCreate == Branch(201, EtagLm)
ShareGetProperties ==
  Branch(200, <<At("x-ms-meta")>> \o EtagLm \o
              <<At("x-ms-share-quota"), At("x-ms-share-provisioned-iops"),
                At("x-ms-share-provisioned-ingress-mbps"),
                At("x-ms-share-provisioned-egress-mbps"),
                At("x-ms-share-next-allowed-quota-downgrade-time")>>)
ShareDelete == Branch(202, <<>>)
ShareCreateSnapshot == Branch(201, <<At("x-ms-snapshot")>> \o EtagLm)
ShareCreatePermission == Branch(201, <<At("x-ms-file-permission-key")>>)
ShareGetPermission == Branch(200, <<Body>>)
ShareSetQuota == Branch(200, EtagLm)
ShareSetMetadata == Branch(200, EtagLm)
ShareGetAccessPolicy == Branch(200, <<Body>> \o EtagLm)
ShareSetAccessPolicy == Branch(200, EtagLm)
ShareGetStatistics == Branch(200, <<Body>> \o EtagLm)
ShareRestore == Branch(201, EtagLm)

(* ShareRestClient::Directory *)
DirectoryCreate == Branch(201, SmbWritten)
DirectoryGetProperties == Branch(200, <<At("x-ms-meta")>> \o EtagLm \o SmbRead)
DirectoryDeleteOk == Branch(200, <<>>)
DirectoryDelete == Branch(202, <<>>)
DirectorySetProperties == Branch(200, SmbWritten)
DirectorySetMetadata == Branch(200, EtagServerEncrypted)
DirectoryListFilesAndDirectoriesSegment == Branch(200, <<Body, At("content-type")>>)
DirectoryListHandles == Branch(200, <<Body, At("content-type")>>)
DirectoryForceCloseHandles == Branch(200, ForceCloseReads)

(* ShareRestClient::File *)
FileCreate == Branch(201, SmbWritten)
(* DownloadParseResponse: the 200 (whole file) and 206 (range) branches *)
(* read the same headers.                                               *)
FileDownloadReads ==
  <<At("last-modified"), At("x-ms-meta"), At("content-length"), At("content-type"),
    At("content-range"), At("etag"), Find("content-md5")>> \o HttpHeaderReads \o
  <<At("accept-ranges")>> \o CopyReads \o <<At("x-ms-content-md5")>> \o SmbRead \o LeaseReads
FileDownload == [x \in {200, 206} |-> FileDownloadReads]
FileGetProperties ==
  Branch(200, <<At("last-modified"), At("x-ms-meta"), At("x-ms-type"), At("content-length"),
                At("content-type"), At("etag"), Find("content-md5")>> \o HttpHeaderReads \o
              CopyReads \o SmbRead \o LeaseReads)
FileDelete == Branch(202, <<>>)
FileSetHTTPHeaders == Branch(200, SmbWritten)
FileSetMetadata == Branch(200, EtagServerEncrypted)
FileAcquireLease == Branch(201, EtagLm \o <<At("x-ms-lease-id")>>)
FileReleaseLease == Branch(200, EtagLm)
FileChangeLease == Branch(200, EtagLm \o <<At("x-ms-lease-id")>>)
FileBreakLease == Branch(202, EtagLm \o <<At("x-ms-lease-id")>>)
FileUploadRange ==
  Branch(201, EtagLm \o <<Find("content-md5"), At("x-ms-request-server-encrypted")>>)
FileUploadRangeFromURL ==
  Branch(201, EtagLm \o <<At("x-ms-content-crc64"), At("x-ms-request-server-encrypted")>>)
FileGetRangeList ==
  Branch(200, <<Body, At("last-modified"), At("etag"), At("x-ms-content-length")>>)
FileStartCopy ==
  Branch(202, EtagLm \o <<At("x-ms-copy-id"), AtEnum("x-ms-copy-status", CopyStatusTypeFromString)>>)
FileAbortCopy == Branch(204, <<>>)
FileListHandles == Branch(200, <<Body, At("content-type")>>)
FileForceCloseHandles == Branch(200, ForceCloseReads)

ParserOf ==
  [ServiceSetProperties |-> ServiceSetProperties, ServiceGetProperties |-> ServiceGetProperties,
   ServiceListSharesSegment |-> ServiceListSharesSegment,
   ShareCreate |-> ShareCreate, ShareGetProperties |-> ShareGetProperties,
   ShareDelete |-> ShareDelete, ShareCreateSnapshot |-> ShareCreateSnapshot,
   ShareCreatePermission |-> ShareCreatePermission, ShareGetPermission |-> ShareGetPermission,
   ShareSetQuota |-> ShareSetQuota, ShareSetMetadata |-> ShareSetMetadata,
   ShareGetAccessPolicy |-> ShareGetAccessPolicy, ShareSetAccessPolicy |-> ShareSetAccessPolicy,
   ShareGetStatistics |-> ShareGetStatistics, ShareRestore |-> ShareRestore,
   DirectoryCreate |-> DirectoryCreate, DirectoryGetProperties |-> DirectoryGetProperties,
   DirectoryDelete |-> DirectoryDelete, DirectorySetProperties |-> DirectorySetProperties,
   DirectorySetMetadata |-> DirectorySetMetadata,
   DirectoryListFilesAndDirectoriesSegment |-> DirectoryListFilesAndDirectoriesSegment,
   DirectoryListHandles |-> DirectoryListHandles,
   DirectoryForceCloseHandles |-> DirectoryForceCloseHandles,
   FileCreate |-> FileCreate, FileDownload |-> FileDownload,
   FileGetProperties |-> FileGetProperties, FileDelete |-> FileDelete,
   FileSetHTTPHeaders |-> FileSetHTTPHeaders, FileSetMetadata |-> FileSetMetadata,
   FileAcquireLease |-> FileAcquireLease, FileReleaseLease |-> FileReleaseLease,
   FileChangeLease |-> FileChangeLease, FileBreakLease |-> FileBreakLease,
   FileUploadRange |-> FileUploadRange, FileUploadRangeFromURL |-> FileUploadRangeFromURL,
   FileGetRangeList |-> FileGetRangeList, FileStartCopy |-> FileStartCopy,
   FileAbortCopy |-> FileAbortCopy, FileListHandles |-> FileListHandles,
   FileForceCloseHandles |-> FileForceCloseHandles]

Parser(o) == ParserOf[o]

(* The reads of the branch for status s of op o; none when it throws. *)
BranchReads(o, s) == IF s \in DOMAIN Parser(o) THEN Parser(o)[s] ELSE <<>>

(* The headers the branch for status s of op o reads. *)
ReadHeaders(o, s) == {BranchReads(o, s)[i].header : i \in DOMAIN BranchReads(o, s)} \ {"body"}

-----------------------------------------------------------------------------
(* One call of <Op>ParseResponse on one response of the service. *)
Init ==
  /\ \E r \in Responses : op = r.op /\ status = r.status /\ headers = r.headers
  /\ pc = 0
  /\ assigned = {}
  /\ outcome = "running"

Reads == BranchReads(op, status)
Current == Reads[pc]
Reading == outcome = "running" /\ pc \in 1..Len(Reads)
Next1 == pc' = pc + 1

(* The values the service sends in a header (REST reference: Get File      *)
(* Properties, Copy File); a header not converted by an enum is one value. *)
ServiceValues(h) ==
  CASE h = "x-ms-copy-status"    -> {"pending", "success", "aborted", "failed"}
    [] h = "x-ms-lease-duration" -> {"infinite", "fixed"}
    [] h = "x-ms-lease-state"    -> {"available", "leased", "expired", "breaking", "broken"}
    [] h = "x-ms-lease-status"   -> {"locked", "unlocked"}
    [] OTHER                     -> {"value"}
Converts(r, v) == "conv" \notin DOMAIN r \/ v \in r.conv

(* if (response.GetStatusCode() == <expected>): enter the branch. *)
CheckStatus ==
  /\ outcome = "running" /\ pc = 0
  /\ status \in DOMAIN Parser(op)
  /\ pc' = 1
  /\ UNCHANGED <<op, status, headers, assigned, outcome>>

(* else throw StorageError::CreateFromResponse(context, std::move(responsePtr)). *)
RejectStatus ==
  /\ outcome = "running" /\ pc = 0
  /\ status \notin DOMAIN Parser(op)
  /\ outcome' = "StorageError"
  /\ UNCHANGED <<op, status, headers, pc, assigned>>

(* result.<Field> = response.GetHeaders().at(name), the header present;  *)
(* and the same assignment inside if (find(name) != end()).  A value the   *)
(* <Enum>FromString does not know throws std::runtime_error.              *)
ReadHeader ==
  /\ Reading
  /\ Current.mode \in {"at", "find"}
  /\ Current.header \in headers
  /\ \E v \in ServiceValues(Current.header) :
       IF Converts(Current, v)
       THEN /\ assigned' = assigned \cup {Current.header}
            /\ Next1
            /\ UNCHANGED outcome
       ELSE /\ outcome' = "runtime_error"
            /\ UNCHANGED <<pc, assigned>>
  /\ UNCHANGED <<op, status, headers>>

MissingHeaderDefault ==
  /\ Reading
  /\ Current.mode = "at"
  /\ Current.header \notin headers
  /\ Next1
  /\ UNCHANGED <<op, status, headers, assigned, outcome>>

(* at(name) on an absent header: std::map::at throws std::out_of_range, *)
(* which leaves ParseResponse and the client call.                      *)
MissingHeader ==
  /\ Reading
  /\ Current.mode = "at"
  /\ Current.header \notin headers
  /\ outcome' = "out_of_range"
  /\ UNCHANGED <<op, status, headers, pc, assigned>>

SkipAbsentOptionalUnguarded ==
  /\ Reading
  /\ Current.mode = "find"
  /\ Next1
  /\ UNCHANGED <<op, status, headers, assigned, outcome>>

(* if (find(name) != end()) { ... }: the absent header is skipped. *)
SkipAbsentOptional ==
  /\ Reading
  /\ Current.mode = "find"
  /\ Current.header \notin headers
  /\ Next1
  /\ UNCHANGED <<op, status, headers, assigned, outcome>>

(* result = bodyBuffer.empty() ? <Result>() : <Result>From<Type>(<Type>FromXml(reader)). *)
DecodeBody ==
  /\ Reading
  /\ Current.mode = "body"
  /\ assigned' = assigned \cup {"body"}
  /\ Next1
  /\ UNCHANGED <<op, status, headers, outcome>>

(* return Azure::Core::Response<...>(std::move(result), std::move(responsePtr)). *)
Return ==
  /\ outcome = "running" /\ pc = Len(Reads) + 1
  /\ outcome' = "ok"
  /\ UNCHANGED <<op, status, headers, pc, assigned>>

Next ==
  \/ CheckStatus \/ RejectStatus
  \/ ReadHeader \/ MissingHeader \/ SkipAbsentOptional \/ DecodeBody
  \/ Return

(* ParseResponse runs synchronously on the caller's thread. *)
Spec == Init /\ [][Next]_vars /\ WF_vars(Next)

-----------------------------------------------------------------------------
TypeOK ==
  /\ op \in Ops
  /\ pc \in 0..(Len(Reads) + 1)
  /\ assigned \subseteq ReadHeaders(op, status) \cup {"body"}
  /\ outcome \in {"running", "ok", "StorageError", "out_of_range", "runtime_error"}

(* A returned result carries every header the service sent that the      *)
(* ParseResponse branch has a field for, the find-guarded ones included.  *)
ResultCarriesSentHeaders ==
  outcome = "ok" => headers \cap ReadHeaders(op, status) \subseteq assigned

=============================================================================
