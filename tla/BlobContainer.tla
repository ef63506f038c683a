---------------------------- MODULE BlobContainer ----------------------------
(***************************************************************************)
(* BlobContainerClient (blobs/blob_container_client.cpp) used by several  *)
(* clients on one container.  Each method copies the caller's options     *)
(* into the protocol layer's options and sends one request; the service   *)
(* (REST contract, not code of this repository) applies it atomically or  *)
(* answers 404/409/412.                                                    *)
(*                                                                         *)
(* Last-Modified is a counter: every applied change to the container is    *)
(* later than the one before, also across a delete and re-create.  The     *)
(* access conditions kept are IfModifiedSince and IfUnmodifiedSince; a     *)
(* caller takes their value from the Last-Modified of its last             *)
(* GetProperties.  No client here leases the container, so the LeaseId     *)
(* the methods forward is always empty.  Metadata, access type and signed  *)
(* identifiers are the data of a write and are left out.                   *)
(***************************************************************************)
EXTENDS Integers

CONSTANTS
  Clients,        \* the BlobContainerClient instances on the container
  MaxModified,    \* bound on the number of applied container changes
  FencedOps,      \* the methods whose callers set IfUnmodifiedSince
  NoValue         \* an empty Azure::Core::Nullable

VARIABLES
  container,      \* the service's container: [exists, lastModified]
  seenModified,   \* per client: the Last-Modified its last GetProperties returned
  clast           \* the last container call: [client, op, conditions (the caller's),
                  \* before (the container when the request arrived), ok]

containerVars == <<container, seenModified, clast>>

ContainerOps == {"Create", "Delete", "GetProperties", "SetMetadata", "GetAccessPolicy",
                 "SetAccessPolicy"}

-----------------------------------------------------------------------------
(* The client side: what each method copies into the protocol options.    *)

(* BlobContainerClient::Create: access type and metadata, no conditions. *)
CreateProtocolOptions(options) ==
  [IfModifiedSince |-> NoValue, IfUnmodifiedSince |-> NoValue]

DeleteProtocolOptionsNoModifiedSince(options) ==
  [IfModifiedSince |-> NoValue,
   IfUnmodifiedSince |-> options.AccessConditions.IfUnmodifiedSince]

(* BlobContainerClient::Delete *)
DeleteProtocolOptions(options) ==
  [IfModifiedSince |-> options.AccessConditions.IfModifiedSince,
   IfUnmodifiedSince |-> options.AccessConditions.IfUnmodifiedSince]

(* BlobContainerClient::GetProperties and GetAccessPolicy: the LeaseId only. *)
GetPropertiesProtocolOptions(options) ==
  [IfModifiedSince |-> NoValue, IfUnmodifiedSince |-> NoValue]

(* BlobContainerClient::SetMetadata: LeaseId and IfModifiedSince; the      *)
(* options' IfUnmodifiedSince is not copied.                               *)
SetMetadataProtocolOptions(options) ==
  [IfModifiedSince |-> options.AccessConditions.IfModifiedSince,
   IfUnmodifiedSince |-> NoValue]

(* BlobContainerClient::SetAccessPolicy *)
SetAccessPolicyProtocolOptions(options) ==
  [IfModifiedSince |-> options.AccessConditions.IfModifiedSince,
   IfUnmodifiedSince |-> options.AccessConditions.IfUnmodifiedSince]

ProtocolOptions(op, options) ==
  CASE op = "Create" -> CreateProtocolOptions(options)
    [] op = "Delete" -> DeleteProtocolOptions(options)
    [] op \in {"GetProperties", "GetAccessPolicy"} -> GetPropertiesProtocolOptions(options)
    [] op = "SetMetadata" -> SetMetadataProtocolOptions(options)
    [] op = "SetAccessPolicy" -> SetAccessPolicyProtocolOptions(options)

-----------------------------------------------------------------------------
(* The service (REST contract). *)
ModifiedConditionsHold(p, lm) ==
  /\ p.IfModifiedSince = NoValue \/ lm > p.IfModifiedSince
  /\ p.IfUnmodifiedSince = NoValue \/ lm <= p.IfUnmodifiedSince

ContainerChanges == {"Create", "Delete", "SetMetadata", "SetAccessPolicy"}

(* Whether the service performs op for a request with protocol options p. *)
ContainerApplies(op, p) ==
  IF op = "Create" THEN ~container.exists
  ELSE container.exists /\ ModifiedConditionsHold(p, container.lastModified)

ContainerAfter(op) ==
  CASE op = "Create" -> [exists |-> TRUE, lastModified |-> container.lastModified + 1]
    [] op = "Delete" -> [container EXCEPT !.exists = FALSE]
    [] op \in {"SetMetadata", "SetAccessPolicy"} -> [container EXCEPT !.lastModified = @ + 1]
    [] OTHER -> container

-----------------------------------------------------------------------------
(* The conditions a caller can set: none, or the Last-Modified it last    *)
(* saw; IfUnmodifiedSince only on the methods of FencedOps and on those    *)
(* whose options have it.                                                  *)
HasModifiedConditions(op) == op \in {"Delete", "SetMetadata", "SetAccessPolicy"}

CallerConditions(c, op) ==
  IF HasModifiedConditions(op) /\ seenModified[c] # NoValue
  THEN [IfModifiedSince : {NoValue, seenModified[c]},
        IfUnmodifiedSince : IF op \in FencedOps THEN {NoValue, seenModified[c]} ELSE {NoValue}]
  ELSE {[IfModifiedSince |-> NoValue, IfUnmodifiedSince |-> NoValue]}

NoContainerCall ==
  [client |-> NoValue, op |-> "none",
   conditions |-> [IfModifiedSince |-> NoValue, IfUnmodifiedSince |-> NoValue],
   before |-> [exists |-> FALSE, lastModified |-> 0], ok |-> FALSE]

ContainerInit ==
  /\ container = [exists |-> FALSE, lastModified |-> 0]
  /\ seenModified = [c \in Clients |-> NoValue]
  /\ clast = NoContainerCall

(* One method call of client c: the request built from the caller's       *)
(* options, applied by the service; GetProperties' result gives the        *)
(* caller its Last-Modified.                                               *)
ContainerCall(c, op) ==
  /\ \E ac \in CallerConditions(c, op) :
       LET ok == ContainerApplies(op, ProtocolOptions(op, [AccessConditions |-> ac]))
       IN  /\ ok /\ op \in ContainerChanges => container.lastModified < MaxModified
           /\ container' = IF ok THEN ContainerAfter(op) ELSE container
           /\ seenModified' = IF ok /\ op = "GetProperties"
                              THEN [seenModified EXCEPT ![c] = container.lastModified]
                              ELSE seenModified
           /\ clast' = [client |-> c, op |-> op, conditions |-> ac, before |-> container,
                        ok |-> ok]

ContainerNext == \E c \in Clients, op \in ContainerOps : ContainerCall(c, op)

-----------------------------------------------------------------------------
(* Every container call succeeds exactly when the container is in the     *)
(* state the method needs and every condition the caller set on its        *)
(* options holds: a caller fencing a write with the Last-Modified it last  *)
(* saw never overwrites or deletes a container another client changed     *)
(* since, and is never refused when nobody did.                            *)
ContainerOutcomeFollowsConditions ==
  clast.op # "none" =>
    (clast.ok <=> IF clast.op = "Create" THEN ~clast.before.exists
                  ELSE clast.before.exists /\
                       ModifiedConditionsHold(clast.conditions, clast.before.lastModified))

=============================================================================
