---------------------------- MODULE SessionLedger ----------------------------
(***************************************************************************)
(* What a decision session promises the person who answers: an answer that *)
(* is shown was recorded, answers change one at a time, and a session that *)
(* says "saved" shows nothing that the last save does not hold.  There are *)
(* no keys, no transport, no journal and no retries here.                  *)
(***************************************************************************)
CONSTANTS Points, Answers, None

VARIABLES
  shown,      \* shown[p]: the answer to p on the screen, or None
  saved,      \* the screen says "saved"
  kept        \* the answers of the last save

vars == <<shown, saved, kept>>

NoAnswers == [p \in Points |-> None]

TypeOK ==
  /\ shown \in [Points -> Answers \cup {None}]
  /\ saved \in BOOLEAN
  /\ kept \in [Points -> Answers \cup {None}]

Init ==
  /\ shown = NoAnswers
  /\ saved = FALSE
  /\ kept = NoAnswers

\* A new answer is not saved yet.
Answer(p, a) ==
  /\ ~saved
  /\ shown' = [shown EXCEPT ![p] = a]
  /\ UNCHANGED <<saved, kept>>

\* An answer may disappear from the screen; that alone need not be saved.
Withdraw(p) ==
  /\ shown' = [shown EXCEPT ![p] = None]
  /\ saved' \in {saved, FALSE}
  /\ UNCHANGED kept

\* A change that was begun and perhaps refused.
Touch ==
  /\ saved' = FALSE
  /\ UNCHANGED <<shown, kept>>

Save ==
  /\ saved' = TRUE
  /\ kept' = shown
  /\ UNCHANGED shown

\* The session is attached again and starts from an empty screen.
Restart ==
  /\ shown' = NoAnswers
  /\ saved' = FALSE
  /\ kept' = NoAnswers

Next ==
  \/ \E p \in Points, a \in Answers : Answer(p, a)
  \/ \E p \in Points : Withdraw(p)
  \/ Touch \/ Save \/ Restart

Spec == Init /\ [][Next]_vars

\* Nothing is on a saved screen that the save does not hold.
SavedCoversShown ==
  saved => \A p \in Points : shown[p] \in {None, kept[p]}

=============================================================================
