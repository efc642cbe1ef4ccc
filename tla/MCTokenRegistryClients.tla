----------------------- MODULE MCTokenRegistryClients -----------------------
(***************************************************************************)
(* TokenRegistryClients with one unlocked client at a time, on as little   *)
(* as shows what it breaks: two processes, two tokens, one batch.           *)
(***************************************************************************)
EXTENDS TokenRegistryClients, TLC

CONSTANTS p1, p2, t1, t2, b1, f1

MCProcs == {p1, p2}
MCTokens == {t1, t2}
MCBatches == {b1}
MCFiles == {f1}
OwnFile == (b1 :> f1)
Resolvers == {"resolve"}
Finalizers == {"finalize"}

=============================================================================
