----------------------------- MODULE MCFileLease -----------------------------
(* Two clients, each with two lease ids to propose (so ChangeLease has a *)
(* new id to move to); both write with UploadRange and SetMetadata.  *)
(* Any request or answer may be lost.                                    *)
EXTENDS FileLease

CONSTANTS c1, c2

MCClients == {c1, c2}
MCProposals == [c \in MCClients |-> IF c = c1 THEN {"a1", "a2"} ELSE {"b1", "b2"}]
MCWriteOps == {"FileUploadRange", "FileSetMetadata"}
MCFates == {"answered", "lostRequest", "lostResponse"}
=============================================================================
