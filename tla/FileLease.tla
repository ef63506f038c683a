------------------------------ MODULE FileLease ------------------------------
(***************************************************************************)
(* Several clients using the lease operations of ShareRestClient::File on *)
(* one file, against the service's lease rules (ShareRestContract).        *)
(* Every step is one whole call: the request built by the File::<Op>      *)
(* builder from the client's options, the service's answer, and the       *)
(* <Op>ParseResponse that turns it into a result (on the status the code  *)
(* expects) or a StorageError (on any other).  A client remembers the     *)
(* lease id the results give it and passes it to later calls.             *)
(***************************************************************************)
EXTENDS ShareRestContract, FiniteSets

CONSTANTS
  Clients,      \* the clients sharing the file
  Proposals,    \* Proposals[c]: the lease ids client c may propose (disjoint)
  NoHolder,     \* no client
  WriteOps,     \* the writing operations the clients call
  Fates         \* what may become of a call's request: a subset of
                \* {"answered", "lostRequest", "lostResponse"}

VARIABLES
  lease,        \* the service's lease on the file: [state, id]
  held,         \* held[c]: the lease id client c's last result gave it
  lastWrite,    \* the last write the service accepted: [by, fenced]
  unsure        \* unsure[c]: a lease call of c threw a transport exception
                \* after its last successful one

vars == <<lease, held, lastWrite, unsure>>

LeaseIds == UNION {Proposals[c] : c \in Clients}
Owner(id) == CHOOSE c \in Clients : id \in Proposals[c]

c_DefaultServiceApiVersion == "2019-12-12"

(* The status each <Op>ParseResponse accepts; any other is thrown. *)
SuccessStatus ==
  [FileAcquireLease |-> 201, FileReleaseLease |-> 200, FileChangeLease |-> 200,
   FileBreakLease |-> 202, FileUploadRange |-> 201, FileSetMetadata |-> 200,
   FileSetHTTPHeaders |-> 200]

(* The options structs, with every Nullable the clients do not set empty. *)
AcquireLeaseOptions(id) ==
  [XMsLeaseAction |-> "Acquire", Timeout |-> NoValue, LeaseDuration |-> -1,
   ProposedLeaseIdOptional |-> id, ApiVersionParameter |-> c_DefaultServiceApiVersion,
   ClientRequestId |-> NoValue]
ReleaseLeaseOptions(id) ==
  [Timeout |-> NoValue, LeaseIdRequired |-> id,
   ApiVersionParameter |-> c_DefaultServiceApiVersion, ClientRequestId |-> NoValue]
ChangeLeaseOptions(id, proposed) ==
  ReleaseLeaseOptions(id) @@ [ProposedLeaseIdOptional |-> proposed]
BreakLeaseOptions ==
  [Timeout |-> NoValue, LeaseIdOptional |-> NoValue,
   ApiVersionParameter |-> c_DefaultServiceApiVersion, ClientRequestId |-> NoValue]
WriteOptions(o, id) ==
  CASE o = "FileUploadRange" ->
         [Timeout |-> NoValue, XMsRange |-> "bytes=0-511", XMsWrite |-> "Clear",
          ContentLength |-> 0, ContentMD5 |-> NoValue,
          ApiVersionParameter |-> c_DefaultServiceApiVersion, LeaseIdOptional |-> id]
    [] o = "FileSetMetadata" ->
         [Timeout |-> NoValue, Metadata |-> <<>>,
          ApiVersionParameter |-> c_DefaultServiceApiVersion, LeaseIdOptional |-> id]

(* One call: the service's answer to the request the builder makes,     *)
(* sent by pipeline.Send.  The request may be lost before the service    *)
(* (nothing happens) or the answer after it (the service has acted):     *)
(* either way the transport throws and no HTTP status reaches            *)
(* <Op>ParseResponse.  A retry that re-sends the request ends in one of   *)
(* the same fates as its last attempt.                                   *)
NoResponse == 0
Call(o, opts, f) ==
  LET s == ServeLease(lease, RequestFor(o, opts), SuccessStatus)
  IN  CASE f = "answered"     -> s
        [] f = "lostResponse" -> [s EXCEPT !.status = NoResponse]
        [] f = "lostRequest"  -> [s EXCEPT !.status = NoResponse, !.lease = lease]
SucceededOk(o, resp) == resp.status = 200
Succeeded(o, resp) == resp.status = SuccessStatus[o]

(* AcquireLeaseParseResponse / ChangeLeaseParseResponse: the result's   *)
(* LeaseId is the x-ms-lease-id response header.                          *)
AcquireLeaseResult(resp) == resp.headers["x-ms-lease-id"]
ChangeLeaseResultUnassigned(resp) == ""
ChangeLeaseResult(resp) == resp.headers["x-ms-lease-id"]

(* A call that throws leaves the client's lease id as it was; the caller *)
(* can tell a transport exception from a StorageError.                   *)
AfterCall(o, resp, c, id) ==
  /\ lease' = resp.lease
  /\ held' = IF Succeeded(o, resp) THEN [held EXCEPT ![c] = id] ELSE held
  /\ unsure' = [unsure EXCEPT ![c] = CASE Succeeded(o, resp)        -> FALSE
                                       [] resp.status = NoResponse -> TRUE
                                       [] OTHER                    -> @]

Init ==
  /\ lease = NoLease
  /\ held = [c \in Clients |-> NoValue]
  /\ lastWrite = [by |-> NoHolder, fenced |-> FALSE]
  /\ unsure = [c \in Clients |-> FALSE]

AcquireLease(c, id, f) ==
  LET resp == Call("FileAcquireLease", AcquireLeaseOptions(id), f)
  IN  /\ AfterCall("FileAcquireLease", resp, c,
                   IF Succeeded("FileAcquireLease", resp) THEN AcquireLeaseResult(resp) ELSE NoValue)
      /\ UNCHANGED lastWrite

ReleaseLease(c, f) ==
  LET resp == Call("FileReleaseLease", ReleaseLeaseOptions(held[c]), f)
  IN  /\ held[c] # NoValue
      /\ AfterCall("FileReleaseLease", resp, c, NoValue)
      /\ UNCHANGED lastWrite

ChangeLease(c, id, f) ==
  LET resp == Call("FileChangeLease", ChangeLeaseOptions(held[c], id), f)
  IN  /\ held[c] # NoValue
      /\ AfterCall("FileChangeLease", resp, c,
                   IF Succeeded("FileChangeLease", resp) THEN ChangeLeaseResult(resp) ELSE NoValue)
      /\ UNCHANGED lastWrite

BreakLease(c, f) ==
  LET resp == Call("FileBreakLease", BreakLeaseOptions, f)
  IN  /\ lease' = resp.lease
      /\ UNCHANGED <<held, lastWrite, unsure>>

(* A write names the lease id the client holds, if any.  The service may *)
(* have accepted a write whose answer was lost.                          *)
Write(c, o, f) ==
  LET accepted == f # "lostRequest" /\ Succeeded(o, Call(o, WriteOptions(o, held[c]), "answered"))
  IN  /\ lastWrite' = IF accepted
                      THEN [by |-> c, fenced |-> held[c] # NoValue] ELSE lastWrite
      /\ UNCHANGED <<lease, held, unsure>>

Next ==
  \E c \in Clients, f \in Fates :
    \/ \E id \in Proposals[c] : AcquireLease(c, id, f)
    \/ ReleaseLease(c, f)
    \/ \E id \in Proposals[c] : ChangeLease(c, id, f)
    \/ BreakLease(c, f)
    \/ \E o \in WriteOps : Write(c, o, f)

Spec == Init /\ [][Next]_vars

-----------------------------------------------------------------------------
TypeOK ==
  /\ lease \in [state : {"available", "leased", "broken"}, id : LeaseIds \cup {NoValue}]
  /\ \A c \in Clients : held[c] \in Proposals[c] \cup {NoValue}
  /\ lastWrite \in [by : Clients \cup {NoHolder}, fenced : BOOLEAN]
  /\ unsure \in [Clients -> BOOLEAN]

(* After any sequence of acquires, changes, releases and breaks by any   *)
(* clients, some of whose requests or answers are lost, the client whose  *)
(* lease is on the file holds its current id (the LeaseId of the last     *)
(* Acquire/ChangeLease result it got), unless one of its lease calls      *)
(* threw a transport exception since its last successful one: a caller    *)
(* that saw only results and StorageErrors is never wrong about holding   *)
(* the lease, and a 409 on a later call does not clear the doubt.         *)
ClientKnowsItsLease ==
  lease.state = "leased" =>
    held[Owner(lease.id)] = lease.id \/ unsure[Owner(lease.id)]

(* The lease calls implement an exclusive write lock: a fenced write is   *)
(* accepted only from the holder, an unfenced one only with no holder.    *)
(* A client's id left stale by another client's BreakLease and Acquire    *)
(* must not let its writes through.                                       *)
LeaseHolder == IF lease.state = "leased" THEN Owner(lease.id) ELSE NoHolder
Abstract == INSTANCE LeaseAbstract WITH holder <- LeaseHolder, lastWrite <- lastWrite
RefinesLeaseAbstract == Abstract!ASpec

=============================================================================
