-------------------------- MODULE MCStoragePipeline --------------------------
(***************************************************************************)
(* Every client constructor, one user policy on each side of the retry    *)
(* boundary, every body kind, a success, a non-retryable and a retryable  *)
(* status plus transport failures, three attempts.                        *)
(***************************************************************************)
EXTENDS StoragePipeline

MCCredentials == {"SharedKey", "Token", "Anonymous"}
MCPerOperation == <<"UserPerOperation">>
MCPerRetry == <<"UserPerRetry">>
MCStatuses == {"200", "404", "503"}
MCBodies == {"none", "memory", "stream"}

=============================================================================
