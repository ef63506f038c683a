---------------------------- MODULE DataLakePath ----------------------------
(***************************************************************************)
(* The DataLake PathClient (datalake/path_client.cpp) used by several     *)
(* clients on one path of a file system, composed with the                *)
(* BlobContainerClient operations on that file system (a DataLake file    *)
(* system is a blob container).  Create, Delete, SetAccessControl and     *)
(* GetAccessControls go to the dfs endpoint through DataLakeRestClient;    *)
(* SetHttpHeaders, SetMetadata and GetProperties go through the inner      *)
(* BlobClient to the blob endpoint.  Each copies the caller's               *)
(* PathAccessConditions into the options it passes on; the service (REST  *)
(* contract) applies the request atomically or answers 404/412.           *)
(*                                                                         *)
(* The path conditions kept are IfMatch (the ETag the caller last saw),    *)
(* IfNoneMatch ("*": only if the path does not exist) and LeaseId.  The    *)
(* path's lease is taken, broken and released by another party through    *)
(* the blob lease API (not a PathClient method): the environment action    *)
(* LeaseStep.  IfModifiedSince and IfUnmodifiedSince are copied the same   *)
(* way as IfMatch; their service check is modelled on the container       *)
(* (BlobContainer).  BlobClient and DataLakeRestClient are not part of     *)
(* this source tree: they are taken to send what they are given.           *)
(***************************************************************************)
EXTENDS BlobContainer

CONSTANTS
  LeaseIds,       \* the lease ids the other party uses
  MaxEtag         \* bound on the number of applied path changes

VARIABLES
  path,           \* the service's path: [exists, etag, lease: [state, id]]
  seenEtag,       \* per client: the ETag of its last result that carried one
  plast           \* the last path call: [client, op, conditions (the caller's),
                  \* fs (whether the file system existed), before (the path when
                  \* the request arrived), ok, result]

pathVars == <<path, seenEtag, plast>>
vars == <<containerVars, pathVars>>

PathOps == {"Create", "Delete", "SetAccessControl", "GetAccessControls",
            "SetHttpHeaders", "SetMetadata", "GetProperties"}

BlobLeaseStates == {"Available", "Leased", "Breaking", "Broken", "Expired"}

-----------------------------------------------------------------------------
(* The client side (path_client.cpp). *)

(* FromBlobLeaseState / FromBlobLeaseStatus: the switch over the blob      *)
(* enum; any other value gives Unknown.                                    *)
FromBlobLeaseStateBreakingAsLeased(state) ==
  CASE state \in {"Breaking", "Leased"} -> "Leased"
    [] state \in {"Available", "Broken", "Expired"} -> state
    [] OTHER -> "Unknown"

FromBlobLeaseState(state) ==
  CASE state = "Available" -> "Available"
    [] state = "Breaking" -> "Breaking"
    [] state = "Broken" -> "Broken"
    [] state = "Expired" -> "Expired"
    [] state = "Leased" -> "Leased"
    [] OTHER -> "Unknown"

FromBlobLeaseStatusNoLocked(status) ==
  CASE status = "Unlocked" -> "Unlocked"
    [] OTHER -> "Unknown"

FromBlobLeaseStatus(status) ==
  CASE status = "Locked" -> "Locked"
    [] status = "Unlocked" -> "Unlocked"
    [] OTHER -> "Unknown"

(* The conditions every method copies, one member at a time, from        *)
(* options.AccessConditions into the protocol or blob options.            *)
CopiedConditions(options) ==
  [IfMatch |-> options.AccessConditions.IfMatch,
   IfNoneMatch |-> options.AccessConditions.IfNoneMatch,
   LeaseId |-> options.AccessConditions.LeaseId]

SetAccessControlProtocolOptions(options) == CopiedConditions(options)
SetHttpHeadersBlobOptionsNoLease(options) ==
  [CopiedConditions(options) EXCEPT !.LeaseId = NoValue]
SetHttpHeadersBlobOptions(options) == CopiedConditions(options)
CreateProtocolOptions_(options) == CopiedConditions(options)
DeleteProtocolOptions_(options) == CopiedConditions(options)
GetPropertiesBlobOptions(options) == CopiedConditions(options)
GetAccessControlsProtocolOptions(options) == CopiedConditions(options)
SetMetadataBlobOptions(options) == CopiedConditions(options)

PathProtocolOptions(op, options) ==
  CASE op = "SetAccessControl" -> SetAccessControlProtocolOptions(options)
    [] op = "SetHttpHeaders" -> SetHttpHeadersBlobOptions(options)
    [] op = "Create" -> CreateProtocolOptions_(options)
    [] op = "Delete" -> DeleteProtocolOptions_(options)
    [] op = "GetProperties" -> GetPropertiesBlobOptions(options)
    [] op = "GetAccessControls" -> GetAccessControlsProtocolOptions(options)
    [] op = "SetMetadata" -> SetMetadataBlobOptions(options)

(* PathClient::GetProperties: the lease state and status of the blob      *)
(* result, converted when present.                                         *)
PathPropertiesOf(blobResult) ==
  [ETag |-> blobResult.ETag,
   LeaseState |-> FromBlobLeaseState(blobResult.LeaseState),
   LeaseStatus |-> FromBlobLeaseStatus(blobResult.LeaseStatus)]

-----------------------------------------------------------------------------
(* The service (REST contract): a lease is active while leased or        *)
(* breaking; a write to a path with an active lease must name its id, a   *)
(* read may omit it, and naming an id that is not the active lease's      *)
(* fails.                                                                  *)
ActiveLease(p) == p.lease.state \in {"Leased", "Breaking"}
PathReads == {"GetProperties", "GetAccessControls"}

LeaseConditionHolds(op, q, p) ==
  IF p.exists /\ ActiveLease(p)
  THEN q.LeaseId = p.lease.id \/ (op \in PathReads /\ q.LeaseId = NoValue)
  ELSE q.LeaseId = NoValue

PathConditionsHold(op, q, p) ==
  /\ q.IfMatch = NoValue \/ (p.exists /\ q.IfMatch = p.etag)
  /\ q.IfNoneMatch = NoValue \/ ~p.exists
  /\ LeaseConditionHolds(op, q, p)

(* Create needs only the file system; the others also need the path. *)
PathApplies(op, q) ==
  /\ container.exists
  /\ op = "Create" \/ path.exists
  /\ PathConditionsHold(op, q, path)

PathChanges == {"Create", "Delete", "SetAccessControl", "SetHttpHeaders", "SetMetadata"}

NoLease == [state |-> "Available", id |-> NoValue]

PathAfter(op) ==
  CASE op = "Create" -> [path EXCEPT !.exists = TRUE, !.etag = @ + 1]
    [] op = "Delete" -> [path EXCEPT !.exists = FALSE, !.lease = NoLease]
    [] op \in {"SetAccessControl", "SetHttpHeaders", "SetMetadata"} ->
         [path EXCEPT !.etag = @ + 1]
    [] OTHER -> path

(* Blob Get Properties: x-ms-lease-state and x-ms-lease-status. *)
BlobPropertiesResult ==
  [ETag |-> path.etag, LeaseState |-> path.lease.state,
   LeaseStatus |-> IF ActiveLease(path) THEN "Locked" ELSE "Unlocked"]

-----------------------------------------------------------------------------
(* The conditions a caller can set: none, or the ETag it last saw, "*"  *)
(* (on Create, the method it is meant for) and a lease id.                 *)
PathCallerConditions(c, op) ==
  [IfMatch : {NoValue, seenEtag[c]},
   IfNoneMatch : IF op = "Create" THEN {NoValue, "*"} ELSE {NoValue},
   LeaseId : {NoValue} \cup LeaseIds]

NoResult == [ETag |-> NoValue, LeaseState |-> NoValue, LeaseStatus |-> NoValue]

NoPathCall ==
  [client |-> NoValue, op |-> "none",
   conditions |-> [IfMatch |-> NoValue, IfNoneMatch |-> NoValue, LeaseId |-> NoValue],
   fs |-> FALSE, before |-> [exists |-> FALSE, etag |-> 0, lease |-> NoLease], ok |-> FALSE,
   result |-> NoResult]

PathInit ==
  /\ path = NoPathCall.before
  /\ seenEtag = [c \in Clients |-> NoValue]
  /\ plast = NoPathCall

(* clast and plast record the last call, of either client kind.          *)
(* One PathClient method call of client c.  Every result but Delete's     *)
(* carries the path's ETag, which the caller keeps for its next           *)
(* condition.                                                              *)
PathCall(c, op) ==
  /\ \E ac \in PathCallerConditions(c, op) :
       LET ok == PathApplies(op, PathProtocolOptions(op, [AccessConditions |-> ac]))
           after == IF ok THEN PathAfter(op) ELSE path
           result == IF ok /\ op = "GetProperties" THEN PathPropertiesOf(BlobPropertiesResult)
                     ELSE NoResult
       IN  /\ ok /\ op \in PathChanges => path.etag < MaxEtag
           /\ path' = after
           /\ seenEtag' = IF ok /\ op # "Delete"
                          THEN [seenEtag EXCEPT ![c] = after.etag] ELSE seenEtag
           /\ plast' = [client |-> c, op |-> op, conditions |-> ac, fs |-> container.exists,
                        before |-> path, ok |-> ok,
                        result |-> result]
  /\ clast' = NoContainerCall
  /\ UNCHANGED <<container, seenModified>>

(* The other party's lease calls on the path's blob. *)
LeaseStep ==
  /\ path.exists
  /\ \/ \E id \in LeaseIds :
          /\ path.lease.state \in {"Available", "Broken", "Expired"}
          /\ path' = [path EXCEPT !.lease = [state |-> "Leased", id |-> id]]
     \/ /\ path.lease.state = "Leased"
        /\ \E s \in {"Breaking", "Broken", "Expired"} :
             path' = [path EXCEPT !.lease.state = s,
                                  !.lease.id = IF s = "Breaking" THEN @ ELSE NoValue]
     \/ /\ path.lease.state = "Breaking"
        /\ path' = [path EXCEPT !.lease = [state |-> "Broken", id |-> NoValue]]
     \/ /\ ActiveLease(path)
        /\ path' = [path EXCEPT !.lease = NoLease]
  /\ UNCHANGED <<seenEtag, plast, containerVars>>

(* Deleting the container deletes the file system's paths. *)
ContainerStep ==
  /\ ContainerNext
  /\ path' = IF ~container'.exists THEN [path EXCEPT !.exists = FALSE, !.lease = NoLease]
             ELSE path
  /\ plast' = NoPathCall
  /\ UNCHANGED seenEtag

Init == ContainerInit /\ PathInit

Next ==
  \/ ContainerStep
  \/ \E c \in Clients, op \in PathOps : PathCall(c, op)
  \/ LeaseStep

Spec == Init /\ [][Next]_vars

-----------------------------------------------------------------------------
TypeOK ==
  /\ container \in [exists : BOOLEAN, lastModified : 0..MaxModified]
  /\ path \in [exists : BOOLEAN, etag : 0..MaxEtag,
               lease : [state : BlobLeaseStates, id : LeaseIds \cup {NoValue}]]
  /\ \A c \in Clients : seenEtag[c] \in 0..MaxEtag \cup {NoValue}
  /\ plast.result \in [ETag : 0..MaxEtag \cup {NoValue},
                       LeaseState : BlobLeaseStates \cup {NoValue},
                       LeaseStatus : {"Locked", "Unlocked", NoValue}]
  /\ \A c \in Clients : seenModified[c] \in 0..MaxModified \cup {NoValue}

(* Every PathClient call succeeds exactly when the file system and (but   *)
(* for Create) the path exist and every condition the caller set holds on *)
(* the path: a write fenced with the ETag the caller last saw, through     *)
(* either endpoint, never overwrites another client's change, Create with *)
(* IfNoneMatch "*" never replaces a path, a caller naming the active lease *)
(* is never refused, and a writer without it never gets through.           *)
PathOutcomeFollowsConditions ==
  plast.op # "none" =>
    (plast.ok <=> /\ plast.fs
                  /\ plast.op = "Create" \/ plast.before.exists
                  /\ PathConditionsHold(plast.op, plast.conditions, plast.before))

(* GetProperties reports the lease state and status the path had when   *)
(* the request arrived, and the ETag the caller then keeps.                *)
GetPropertiesReportsLease ==
  plast.op = "GetProperties" /\ plast.ok =>
    /\ plast.result.LeaseState = plast.before.lease.state
    /\ plast.result.LeaseStatus = IF ActiveLease(plast.before) THEN "Locked" ELSE "Unlocked"
    /\ plast.result.ETag = plast.before.etag

=============================================================================
