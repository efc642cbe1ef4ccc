--------------------------- MODULE MCTokenRegistry ---------------------------
(***************************************************************************)
(* TokenRegistry on two processes and two tokens, with one batch that has  *)
(* its session file or with two batches published to the same one.         *)
(***************************************************************************)
EXTENDS TokenRegistry, TLC

CONSTANTS p1, p2, t1, t2, b1, b2, f1

MCProcs == {p1, p2}
MCTokens == {t1, t2}
MCBatches == {b1, b2}
MCFiles == {f1}
OneBatch == {b1}
OwnFile == [b \in OneBatch |-> f1]
SharedFile == [b \in MCBatches |-> f1]

=============================================================================
