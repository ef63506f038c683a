---------------------------- MODULE LeaseAbstract ----------------------------
(***************************************************************************)
(* What a file lease promises its callers: at most one client holds it;   *)
(* a client takes it when nobody holds it (or keeps it), gives it up, or  *)
(* anyone breaks it; and a write the caller fences with its lease happens *)
(* only while that caller holds the lease, an unfenced write only while   *)
(* nobody does.                                                            *)
(***************************************************************************)
CONSTANTS Clients, NoHolder

VARIABLES holder, lastWrite

avars == <<holder, lastWrite>>

AInit ==
  /\ holder = NoHolder
  /\ lastWrite = [by |-> NoHolder, fenced |-> FALSE]

AAcquire(c) ==
  /\ holder \in {NoHolder, c}
  /\ holder' = c
  /\ UNCHANGED lastWrite

ARelease(c) ==
  /\ holder = c
  /\ holder' = NoHolder
  /\ UNCHANGED lastWrite

ABreak ==
  /\ holder # NoHolder
  /\ holder' = NoHolder
  /\ UNCHANGED lastWrite

AWrite(c, fenced) ==
  /\ IF fenced THEN holder = c ELSE holder = NoHolder
  /\ lastWrite' = [by |-> c, fenced |-> fenced]
  /\ UNCHANGED holder

ANext ==
  \/ ABreak
  \/ \E c \in Clients : AAcquire(c) \/ ARelease(c) \/ \E f \in BOOLEAN : AWrite(c, f)

ASpec == AInit /\ [][ANext]_avars

=============================================================================
