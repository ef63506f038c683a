------------------------------ MODULE MCPageBlob ------------------------------
(***************************************************************************)
(* Two PageBlobClient instances on one blob; the blob's length, the       *)
(* sequence numbers and the number of applied writes are bounded by each  *)
(* configuration.                                                          *)
(***************************************************************************)
EXTENDS PageBlob, TLC

CONSTANTS c1, c2

MCClients == {c1, c2}

(* The clients are interchangeable: no property names one. *)
ClientSymmetry == Permutations(MCClients)

=============================================================================
