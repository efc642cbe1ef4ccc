------------------------------ MODULE AnswerLog ------------------------------
(***************************************************************************)
(* What the Android service promises a phone about its answers, with no    *)
(* memory, no file and no network: a log that only grows, in which the     *)
(* answers of one session stand in the order of their sequence numbers     *)
(* and none stands twice, and acknowledgements of answers in the log only. *)
(***************************************************************************)
EXTENDS Naturals, Sequences, SequencesExt

VARIABLES
  log,     \* the answers the service holds, oldest first
  acked    \* the answers a phone knows to be held

vars == <<log, acked>>

\* The answers of one stream are numbered in ascending order.
InOrder(answers) ==
  \A i, j \in DOMAIN answers :
    i < j /\ answers[i].stream = answers[j].stream =>
      answers[i].seq < answers[j].seq

Init == log = <<>> /\ acked = {}

\* One step may make several answers durable: those of earlier steps that
\* were accepted and not yet stored.
Next ==
  /\ IsPrefix(log, log')
  /\ InOrder(log')
  /\ acked \subseteq acked'
  /\ acked' \subseteq ToSet(log')

Spec == Init /\ [][Next]_vars

=============================================================================
