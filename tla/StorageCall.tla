----------------------------- MODULE StorageCall -----------------------------
(***************************************************************************)
(* What one storage operation promises its caller (spec 4.1, 5, 8), with   *)
(* no policies and no pipeline: the call makes network attempts one at a   *)
(* time; it makes another only after a retryable answer, while the retry   *)
(* budget lasts and the body can be sent again, and never once the        *)
(* Context is cancelled; then it returns the last answer, classified, or   *)
(* reports the cancellation.  StoragePipeline refines it.                  *)
(***************************************************************************)
EXTENDS Integers, Sequences

CONSTANTS Statuses, ExpectedStatus, RetryableStatuses, MaxTries, Bodies

VARIABLES body, cancelled, attempts, outcome

avars == <<body, cancelled, attempts, outcome>>

Answers == Statuses \cup {"TransportError"}

IsRetryable(r) == r = "TransportError" \/ r \in RetryableStatuses

(* Another attempt is allowed: none made yet, or the last answer may be   *)
(* retried, the budget is not spent and the body can be rewound.          *)
MayAttempt ==
  \/ attempts = <<>>
  \/ /\ IsRetryable(attempts[Len(attempts)])
     /\ Len(attempts) < MaxTries
     /\ body # "stream"

(* The caller's view of an answer: the result, a service error, or the    *)
(* transport's exception passed through unchanged.                        *)
Classify(r) ==
  CASE r = "TransportError" -> "transportError"
    [] r = ExpectedStatus   -> "ok"
    [] OTHER                -> "serviceError"

AInit ==
  /\ body \in Bodies
  /\ cancelled \in BOOLEAN
  /\ attempts = <<>>
  /\ outcome = "pending"

AAttempt(r) ==
  /\ outcome = "pending" /\ ~cancelled /\ MayAttempt
  /\ attempts' = Append(attempts, r)
  /\ UNCHANGED <<body, cancelled, outcome>>

ACancel ==
  /\ outcome = "pending" /\ ~cancelled
  /\ cancelled' = TRUE
  /\ UNCHANGED <<body, attempts, outcome>>

(* The call returns: "cancelled" only if the Context was cancelled, the   *)
(* last answer only when no further attempt is allowed.                    *)
AReturn(o) ==
  /\ outcome = "pending"
  /\ \/ o = "cancelled" /\ cancelled
     \/ /\ attempts # <<>> /\ ~MayAttempt
        /\ o = Classify(attempts[Len(attempts)])
  /\ outcome' = o
  /\ UNCHANGED <<body, cancelled, attempts>>

ACallStep ==
  \/ \E r \in Answers : AAttempt(r)
  \/ \E o \in {"cancelled", "ok", "serviceError", "transportError"} : AReturn(o)

ANext == ACallStep \/ ACancel

(* The call does not stop half way: it keeps attempting or returns. *)
ASpec == AInit /\ [][ANext]_avars /\ WF_avars(ACallStep)

=============================================================================
