------------------------ MODULE LiveSessionRefinement ------------------------
(***************************************************************************)
(* LiveSession implements SessionLedger, for any values of its constants.  *)
(* The ledger's answer is given, and its save made, when the event that    *)
(* says so is acknowledged: not when the key is pressed, and not when a    *)
(* line of it reaches a file.  A delivery that fails is invisible.         *)
(***************************************************************************)
EXTENDS LiveSessionProofs

Abstract == [Ledger!Next]_(Ledger!vars)

-----------------------------------------------------------------------------
(* Steps the ledger does not see.                                          *)

LEMMA Unseen ==
  ASSUME Shown' = Shown, saved' = saved, digest' = digest
  PROVE  Abstract
BY DEF Abstract, Ledger!vars

\* Cursors, dialogues, writes of one file, and another attempt.
LEMMA QuietSteps ==
  ASSUME IInv,
         \/ \E p \in Points : MovePoint(p)
         \/ OpenForm \/ CancelForm
         \/ OpenDialogue \/ CloseDialogue \/ ToggleDialogue
         \/ Reopen
         \/ WriteOutput
         \/ UNCHANGED vars
  PROVE  Abstract
<1>1. UNCHANGED <<responses, saved, digest, sending>>
  BY DEF MovePoint, OpenForm, CancelForm, OpenDialogue, CloseDialogue,
         ToggleDialogue, Reopen, WriteOutput, vars, view, wire
<1>2. Shown' = Shown
  BY <1>1 DEF Shown
<1> QED
  BY <1>1, <1>2, Unseen

\* A remark or a save is submitted.
LEMMA TellSteps ==
  ASSUME IInv, Remark \/ Save \/ SaveAndExit
  PROVE  Abstract
<1>1. sending = Idle /\ UNCHANGED <<responses, saved, digest>>
  BY DEF IInv, Wire, Remark, Save, SaveAndExit, SubmitSave, Browsing, Ready, view
<1>2. sending'.event.kind \in {"remark", "save"}
  BY DEF Remark, Save, SaveAndExit, SubmitSave, Submit
<1>3. \A p \in Points : Shown'[p] = responses[p]
  BY <1>1, <1>2 DEF Shown
<1>4. Shown' = Shown
  BY <1>1, <1>3 DEF Shown
<1> QED
  BY <1>1, <1>4, Unseen

\* A delivery that fails: the event is tried again, or the screen is put
\* back and nothing has happened.
LEMMA FailSteps ==
  ASSUME IInv, AppendFull \/ OutputFails \/ AppendFails
  PROVE  Abstract
<1>1. sending # Idle /\ Retry
  BY DEF IInv, Wire, AppendFull, OutputFails, AppendFails
<1>2. CASE Refuse
  <2>1. Shown' = Shown
    BY <1>1, <1>2, RefusedShown
  <2>2. saved' = saved /\ digest' = digest
    BY <1>2 DEF Refuse
  <2> QED
    BY <2>1, <2>2, Unseen
<1>3. CASE ~Refuse
  <2>1. /\ sending' = [sending EXCEPT !.attempt = @ + 1]
        /\ sending.attempt < MaxAttempts
        /\ UNCHANGED <<responses, saved, digest>>
    BY <1>1, <1>3 DEF Retry, view
  <2>2. sending \in [event : Events, previous : Answers \cup {None},
                     attempt : 1..MaxAttempts, exits : BOOLEAN]
    BY <1>1 DEF IInv, TypeOK, Sendings
  <2>3. /\ sending'.event = sending.event
        /\ sending'.previous = sending.previous
        /\ sending'.attempt = sending.attempt + 1
        /\ sending.attempt \in Nat
    BY <2>1, <2>2, LiveConstantsOK
  <2>4. sending' # Idle
    BY <2>3 DEF Idle
  <2>5. Shown' = Shown
    BY <1>1, <2>1, <2>3, <2>4 DEF Shown
  <2> QED
    BY <2>1, <2>5, Unseen
<1> QED
  BY <1>2, <1>3

-----------------------------------------------------------------------------
(* Steps it sees.                                                          *)

\* A new answer on the screen only unsets "saved": it is not given yet.
LEMMA RespondSteps ==
  ASSUME IInv, NEW d \in Dispositions, Respond(d)
  PROVE  Abstract
<1>1. /\ sending = Idle /\ saved' = FALSE /\ digest' = digest
      /\ point \in Points /\ responses \in Responses
  BY DEF IInv, Wire, TypeOK, Respond, Browsing, Ready
<1>2. /\ sending'.event.kind = "answer" /\ sending'.event.point = point
      /\ sending'.previous = responses[point] /\ sending'.attempt = 1
  BY DEF Respond, Submit
<1>3. sending' # Idle
  BY <1>2 DEF Idle
<1>4. \A p \in Points : p # point => responses'[p] = responses[p]
  BY <1>1 DEF Respond, Responses
<1>5. \A p \in Points : Shown'[p] = responses[p]
  BY <1>1, <1>2, <1>3, <1>4 DEF Shown
<1>6. Shown' = Shown
  BY <1>1, <1>5 DEF Shown
<1>7. Ledger!Touch
  BY <1>1, <1>6 DEF Ledger!Touch
<1> QED
  BY <1>7 DEF Abstract, Ledger!Next

\* An answer disappears with a move of the proposal cursor or a new proposal.
LEMMA WithdrawSteps ==
  ASSUME IInv,
         \/ \E i \in DOMAIN proposals[point] : MoveProposal(i)
         \/ \E l \in Own : ConfirmForm(l)
  PROVE  Abstract
<1>1. /\ sending = Idle /\ point \in Points /\ responses \in Responses
      /\ responses' = [responses EXCEPT ![point] = None]
      /\ saved' \in {saved, FALSE} /\ digest' = digest
  BY DEF IInv, Wire, TypeOK, MoveProposal, ConfirmForm, Browsing, Ready
<1>2. sending' = Idle \/ sending'.event.kind = "add-proposal"
  BY <1>1 DEF MoveProposal, ConfirmForm, Submit, wire
<1>3. Shown' = responses' /\ Shown = responses
  <2>1. \A p \in Points : Shown'[p] = responses'[p] /\ Shown[p] = responses[p]
    BY <1>1, <1>2 DEF Shown
  <2> QED
    BY <1>1, <2>1 DEF Shown, Responses
<1>4. Ledger!Withdraw(point)
  BY <1>1, <1>3 DEF Ledger!Withdraw
<1> QED
  BY <1>1, <1>4 DEF Abstract, Ledger!Next

\* The acknowledgement: an answer is given, a save is made, anything else
\* changes nothing.
LEMMA AcceptSteps ==
  ASSUME IInv, AppendLine
  PROVE  Abstract
<1> DEFINE e == sending.event
<1>1. /\ sending # Idle /\ e \in Events /\ responses \in Responses
      /\ e.kind = "answer" =>
           /\ e.point \in Points /\ e.answer \in Answers
           /\ responses[e.point] = e.answer
      /\ e.kind \in {"answer", "add-proposal"} => ~saved
      /\ e.kind = "save" => e.snapshot = Snapshot
      /\ saved \in BOOLEAN
  BY SendingIs DEF IInv, TypeOK, Wire, Anticipated, AppendLine
<1>2. /\ sending' = Idle /\ responses' = responses
      /\ saved' = (saved \/ e.kind = "save")
      /\ digest' = IF e.kind = "save" THEN e.snapshot ELSE digest
  BY DEF AppendLine, Accept, Done
<1>3. Shown' = responses
  BY <1>1, <1>2 DEF Shown, Responses
<1>4. CASE e.kind = "answer"
  <2>1. \A p \in Points : Shown'[p] = IF p = e.point THEN e.answer ELSE Shown[p]
    BY <1>1, <1>3, <1>4 DEF Shown
  <2>2. Shown' = [Shown EXCEPT ![e.point] = e.answer]
    BY <1>1, <2>1 DEF Shown
  <2>3. saved' = saved /\ digest' = digest /\ ~saved
    BY <1>1, <1>2, <1>4
  <2>4. Ledger!Answer(e.point, e.answer)
    BY <2>2, <2>3 DEF Ledger!Answer
  <2> QED
    BY <1>1, <1>4, <2>4 DEF Abstract, Ledger!Next
<1>5. CASE e.kind = "save"
  <2>1. Shown = responses
    BY <1>1, <1>5 DEF Shown, Responses
  <2>2. digest' = Snapshot /\ digest' # None /\ digest'.responses = responses
    BY <1>1, <1>2, <1>5, SnapshotIs DEF IInv, Snapshot
  <2>3. Ledger!Save
    BY <1>2, <1>3, <1>5, <2>1, <2>2 DEF Ledger!Save
  <2> QED
    BY <2>3 DEF Abstract, Ledger!Next
<1>6. CASE e.kind \notin {"answer", "save"}
  <2>1. Shown = responses
    BY <1>1, <1>6 DEF Shown, Responses
  <2>2. saved' = saved /\ digest' = digest
    BY <1>1, <1>2, <1>6
  <2> QED
    BY <1>3, <2>1, <2>2, Unseen
<1> QED
  BY <1>4, <1>5, <1>6

\* The end of a run, however it came.
LEMMA EndSteps ==
  ASSUME IInv,
         ExitAnyway \/ ExitAfterSave \/ Quit \/ Cancel \/ InputCloses \/ Kill
  PROVE  Abstract
<1>1. /\ responses' = NoResponses /\ saved' = FALSE /\ digest' = None
      /\ sending' = Idle
  BY DEF ExitAnyway, ExitAfterSave, Quit, Cancel, InputCloses, Kill, End, EndWith
<1>2. Shown' = NoResponses
  BY <1>1 DEF Shown, NoResponses
<1>3. NoResponses = Ledger!NoAnswers
  BY DEF NoResponses, Ledger!NoAnswers
<1>4. Ledger!Restart
  BY <1>1, <1>2, <1>3 DEF Ledger!Restart
<1> QED
  BY <1>4 DEF Abstract, Ledger!Next

LEMMA StepSimulation == IInv /\ [Next]_vars => Abstract
<1> SUFFICES ASSUME IInv, [Next]_vars
             PROVE  Abstract
  OBVIOUS
<1> QED
  BY QuietSteps, TellSteps, FailSteps, RespondSteps, WithdrawSteps, AcceptSteps,
     EndSteps DEF Next

LEMMA InitSimulation == Init => Ledger!Init
BY DEF Init, Ledger!Init, Ledger!NoAnswers, NoResponses, Shown

-----------------------------------------------------------------------------
(* The theorem.                                                            *)

\* Whoever looks at the screen sees a ledger: answers change one at a time
\* and only when recorded, none changes while the screen says "saved", and
\* a retry, a refusal or a crash in a delivery adds nothing to it.
THEOREM SessionKeepsLedger == Spec => KeepsLedger
<1>1. IInv /\ [Next]_vars => [Ledger!Next]_Ledger!vars
  BY StepSimulation DEF Abstract
<1> QED
  BY <1>1, InitSimulation, Invariance, PTL DEF Spec, KeepsLedger, Ledger!Spec

=============================================================================
