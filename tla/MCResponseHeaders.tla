------------------------- MODULE MCResponseHeaders -------------------------
(***************************************************************************)
(* The service's side of the Share, Directory and File REST operations: on *)
(* success, the headers it always sends and those it sends only sometimes *)
(* (Azure Files REST reference, one entry per operation).  Metadata comes  *)
(* as one x-ms-meta-<name> header per pair; "x-ms-meta-name" stands for    *)
(* them.  Headers every response carries (x-ms-request-id, x-ms-version,   *)
(* date) are represented by x-ms-request-id.                               *)
(*                                                                         *)
(* The responses checked: for each op, its success status(es) with every   *)
(* sometimes-sent header present, with each one of them absent in turn,    *)
(* and with all of them absent; and a 404 error response.                  *)
(***************************************************************************)
EXTENDS ShareCall

C(s, always, sometimes) == [success |-> s, always |-> always, sometimes |-> sometimes]

EL == {"etag", "last-modified"}
SmbAttrs == {"x-ms-file-permission-key", "x-ms-file-attributes", "x-ms-file-creation-time",
             "x-ms-file-last-write-time", "x-ms-file-change-time", "x-ms-file-id",
             "x-ms-file-parent-id"}
(* Create / Set Properties answer x-ms-request-server-encrypted; the Get  *)
(* operations answer x-ms-server-encrypted.                              *)
SmbWrittenSent == EL \cup SmbAttrs \cup {"x-ms-request-server-encrypted"}
SmbReadSent == EL \cup SmbAttrs \cup {"x-ms-server-encrypted"}
HttpHeadersSent == {"content-encoding", "cache-control", "content-disposition",
                    "content-language", "content-md5"}
CopySent == {"x-ms-copy-completion-time", "x-ms-copy-status-description", "x-ms-copy-id",
             "x-ms-copy-progress", "x-ms-copy-source", "x-ms-copy-status"}
FileSent == SmbReadSent \cup {"content-length", "content-type", "x-ms-type",
                              "x-ms-lease-state", "x-ms-lease-status"}
FileSometimes == {"x-ms-meta-name", "x-ms-lease-duration"} \cup HttpHeadersSent \cup CopySent
ForceClose == C({200}, {"x-ms-number-of-handles-closed", "x-ms-number-of-handles-failed"},
                {"x-ms-marker"})
Listing == C({200}, {"content-type"}, {})
Lease == C({201}, EL \cup {"x-ms-lease-id"}, {})

Contract ==
  [ServiceSetProperties |-> C({202}, {}, {}),
   ServiceGetProperties |-> C({200}, {}, {}),
   ServiceListSharesSegment |-> C({200}, {}, {}),
   ShareCreate |-> C({201}, EL, {}),
   ShareGetProperties |->
     C({200}, EL \cup {"x-ms-share-quota"},
       {"x-ms-meta-name", "x-ms-share-provisioned-iops", "x-ms-share-provisioned-ingress-mbps",
        "x-ms-share-provisioned-egress-mbps", "x-ms-share-next-allowed-quota-downgrade-time"}),
   ShareDelete |-> C({202}, {}, {}),
   ShareCreateSnapshot |-> C({201}, EL \cup {"x-ms-snapshot"}, {}),
   ShareCreatePermission |-> C({201}, {"x-ms-file-permission-key"}, {}),
   ShareGetPermission |-> C({200}, {"content-type"}, {}),
   ShareSetQuota |-> C({200}, EL, {}),
   ShareSetMetadata |-> C({200}, EL, {}),
   ShareGetAccessPolicy |-> C({200}, EL, {}),
   ShareSetAccessPolicy |-> C({200}, EL, {}),
   ShareGetStatistics |-> C({200}, EL, {}),
   ShareRestore |-> C({201}, EL, {}),
   DirectoryCreate |-> C({201}, SmbWrittenSent, {}),
   DirectoryGetProperties |-> C({200}, SmbReadSent, {"x-ms-meta-name"}),
   DirectoryDelete |-> C({202}, {}, {}),
   DirectorySetProperties |-> C({200}, SmbWrittenSent, {}),
   DirectorySetMetadata |-> C({200}, {"etag", "x-ms-request-server-encrypted"}, {}),
   DirectoryListFilesAndDirectoriesSegment |-> Listing,
   DirectoryListHandles |-> Listing,
   DirectoryForceCloseHandles |-> ForceClose,
   FileCreate |-> C({201}, SmbWrittenSent, {}),
   FileDownload |-> C({200, 206}, FileSent \cup {"accept-ranges"},
                      FileSometimes \cup {"x-ms-content-md5"}),
   FileGetProperties |-> C({200}, FileSent, FileSometimes),
   FileDelete |-> C({202}, {}, {}),
   FileSetHTTPHeaders |-> C({200}, SmbWrittenSent, {}),
   FileSetMetadata |-> C({200}, {"etag", "x-ms-request-server-encrypted"}, {}),
   FileAcquireLease |-> Lease,
   FileReleaseLease |-> C({200}, EL, {}),
   FileChangeLease |-> [Lease EXCEPT !.success = {200}],
   FileBreakLease |-> [Lease EXCEPT !.success = {202}],
   FileUploadRange |-> C({201}, EL \cup {"x-ms-request-server-encrypted"}, {"content-md5"}),
   FileUploadRangeFromURL |->
     C({201}, EL \cup {"x-ms-content-crc64", "x-ms-request-server-encrypted"}, {}),
   FileGetRangeList |-> C({200}, EL \cup {"x-ms-content-length"}, {}),
   FileStartCopy |-> C({202}, EL \cup {"x-ms-copy-id", "x-ms-copy-status"}, {}),
   FileAbortCopy |-> C({204}, {}, {}),
   FileListHandles |-> Listing,
   FileForceCloseHandles |-> ForceClose]

MCSuccessStatuses(o) == Contract[o].success

(* Get File on a range (206) also answers Content-Range. *)
AlwaysSent(o, s) ==
  Contract[o].always \cup {"x-ms-request-id"} \cup
  (IF o = "FileDownload" /\ s = 206 THEN {"content-range"} ELSE {})

(* Sometimes-sent headers: all present, each one absent, all absent. *)
SentHeaders(o, s) ==
  LET opt == Contract[o].sometimes
  IN  {AlwaysSent(o, s) \cup opt, AlwaysSent(o, s)} \cup
      {AlwaysSent(o, s) \cup (opt \ {h}) : h \in opt}

(* A response from which one always-sent header is missing (an           *)
(* intermediary, or a service version that does not send it).            *)
MalformedHeaders(o, s) ==
  {(AlwaysSent(o, s) \cup Contract[o].sometimes) \ {h} : h \in Contract[o].always}

ResponsesFor(ops) ==
  UNION {{[op |-> o, status |-> s, headers |-> hs] :
            hs \in SentHeaders(o, s) \cup MalformedHeaders(o, s)} :
         <<o, s>> \in {<<x, y>> \in ops \X {200, 201, 202, 204, 206} :
                          y \in MCSuccessStatuses(x)}} \cup
  {[op |-> o, status |-> 404, headers |-> {"x-ms-request-id", "x-ms-error-code"}] : o \in ops}

(* The operations whose header reads match the service's contract. *)
ConformingOps ==
  {"ServiceSetProperties", "ServiceGetProperties", "ServiceListSharesSegment",
   "ShareCreate", "ShareDelete", "ShareCreateSnapshot", "ShareCreatePermission",
   "ShareGetPermission", "ShareSetQuota", "ShareSetMetadata", "ShareGetAccessPolicy",
   "ShareSetAccessPolicy", "ShareGetStatistics", "ShareRestore",
   "DirectoryCreate", "DirectoryDelete", "DirectorySetProperties", "DirectorySetMetadata",
   "DirectoryListFilesAndDirectoriesSegment", "DirectoryListHandles",
   "FileCreate", "FileDelete", "FileSetHTTPHeaders", "FileSetMetadata", "FileAcquireLease",
   "FileReleaseLease", "FileChangeLease", "FileBreakLease", "FileUploadRange",
   "FileUploadRangeFromURL", "FileGetRangeList", "FileStartCopy", "FileAbortCopy",
   "FileListHandles"}

(* The Get Properties and Download operations, which look up "x-ms-meta". *)
MetadataOps == {"ShareGetProperties", "DirectoryGetProperties", "FileGetProperties",
                "FileDownload"}

(* Force Close Handles on a directory and on a file. *)
ForceCloseOps == {"DirectoryForceCloseHandles", "FileForceCloseHandles"}

-----------------------------------------------------------------------------
(* The response is one the service sends: an error, or a success with    *)
(* every always-sent header.                                             *)
Conforming ==
  status \notin MCSuccessStatuses(op) \/ AlwaysSent(op, status) \subseteq headers

(* Every response the service sends for an op is parsed by its            *)
(* ParseResponse: a success status yields the result and any other status *)
(* StorageError; never std::out_of_range from a header lookup, and never  *)
(* a StorageError for a successful call.                                  *)
ConformingResponseParses ==
  outcome # "running" /\ Conforming =>
    \/ outcome = "ok" /\ status \in MCSuccessStatuses(op)
    \/ outcome = "StorageError" /\ status \notin MCSuccessStatuses(op)

(* A decode failure when a required header is absent: ParseResponse never *)
(* returns a result for a response that lacks an always-sent header the   *)
(* branch has a field for (the field would hold a default instead).       *)
RequiredHeadersPresent ==
  outcome = "ok" => AlwaysSent(op, status) \cap ReadHeaders(op, status) \subseteq headers

MCConformingResponses == ResponsesFor(ConformingOps)

-----------------------------------------------------------------------------
(* The options a caller passes: every Nullable member empty, or every one *)
(* set; the other members always hold a value; Metadata empty or one      *)
(* pair.  Enumerations take the values their callers use (AcquireLease is *)
(* always asked to acquire); a lease duration is infinite (-1) or 15 s.   *)
(* UploadRange transmits 0 or 512 bytes; Put Range From URL carries no    *)
(* body, and its Content-Length must be zero.                             *)
SampleValues(b, conv, f) ==
  CASE f = "ContentLength" -> IF b = FileUploadRangeRequest THEN {0, 512} ELSE {0}
    [] f = "LeaseDuration" -> {-1, 15}
    [] conv = "int" -> {30}
    [] conv = "str" -> {"v"}
    [] conv = "bool" -> BOOLEAN
    [] conv = "ListSharesInclude" -> SUBSET {"snapshots", "metadata", "deleted"}
    [] conv = "LeaseAction" -> {"Acquire"}
    [] conv = "FileRangeWrite" -> {"Update", "Clear"}
    [] conv = "FileRangeWriteFromUrl" -> {"Update"}
    [] conv = "PermissionCopyMode" -> {"Source", "Override"}
    [] conv = "DeleteSnapshotsOption" -> {"Include"}

MCMetadataKeys == {"owner"}

(* Every function on F whose value at f is in V(f). *)
OptionChoices(F, V(_)) == FoldSet(LAMBDA f, acc : {g @@ (f :> v) : g \in acc, v \in V(f)}, {<<>>}, F)

OptionsFor(b) ==
  LET StepOf(f) == b.steps[CHOOSE i \in DOMAIN b.steps :
                             "field" \in DOMAIN b.steps[i] /\ b.steps[i].field = f]
      Values(f, set) ==
        CASE StepOf(f).kind = "meta" -> {<<>>} \cup {[k \in {x} |-> "v"] : x \in MCMetadataKeys}
          [] StepOf(f).kind = "ifset" /\ ~set -> {NoValue}
          [] OTHER -> SampleValues(b, StepOf(f).conv, f)
  IN  UNION {OptionChoices(OptionFields(b), LAMBDA f : Values(f, set)) : set \in BOOLEAN}

(* Every builder of the protocol layer. *)
AllOps == DOMAIN RequestOf

MCAllResponses == ResponsesFor(AllOps)

MCOptionsOf == [o \in DOMAIN RequestOf |-> OptionsFor(RequestOf[o])]
(* The operations that look up with at() a header the service does not   *)
(* always send.                                                          *)
LookupOps == MetadataOps \cup ForceCloseOps

MCLookupResponses == ResponsesFor(LookupOps)

=============================================================================
