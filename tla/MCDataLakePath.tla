--------------------------- MODULE MCDataLakePath ---------------------------
(* Two clients on one file system and one path of it; the other party    *)
(* leases the path with one id.                                            *)
EXTENDS DataLakePath, TLC

CONSTANTS c1, c2, l1

MCClients == {c1, c2}
MCLeaseIds == {l1}

(* Nothing in the model tells the two clients apart. *)
MCSymmetry == Permutations(MCClients)

=============================================================================
