-------------------------- MODULE LiveSessionProofs --------------------------
(***************************************************************************)
(* Machine-checked proofs about LiveSession, for any packet, any number of *)
(* events, faults and attaches, and any journal capacity.                  *)
(*                                                                         *)
(* The inductive invariant IInv extends the safety properties, which speak *)
(* of a session at rest, over the delivery of an event: it says of the one *)
(* event under way what the screen already shows of it and what has to be  *)
(* put back if it is refused.  Shown, the answers without the one under    *)
(* way, is what the acknowledged events account for at every step.         *)
(***************************************************************************)
EXTENDS LiveSession, OrderFacts

\* a, unless it is nothing, is the last acknowledged answer to p.
Acknowledged(p, a) ==
  a # None =>
    /\ Answering(p) # {}
    /\ a = accepted[Newest(Answering(p))].answer

\* a, if it selects, selects one of the labels.
Has(labels, a) ==
  a # None /\ a.disposition = "select" =>
    \E i \in DOMAIN labels : labels[i] = a.selected

Selecting(a) == a # None /\ a.disposition = "select"

\* What the screen has anticipated of the event under way.
Anticipated ==
  LET e == sending.event
  IN  /\ e.seq = next
      /\ e.kind = "answer" =>
           /\ e.point \in Points /\ e.answer \in Answers
           /\ responses[e.point] = e.answer
           /\ Has(proposals[e.point], sending.previous)
           /\ \A q \in Requires[e.point] : Selecting(Shown[q])
      /\ e.kind \in {"answer", "add-proposal"} => ~saved
      /\ e.kind = "save" => e.snapshot = Snapshot

\* An event is under way exactly between its two writes.
Wire ==
  /\ step \in {"output", "append"} <=> sending # Idle
  /\ sending # Idle => Anticipated
  /\ step = "append" => output = sending.event

\* The acknowledged events are numbered in order, and saves hold snapshots.
RecordIsSound ==
  /\ next = Len(accepted) + 1
  /\ \A i \in DOMAIN accepted :
       /\ accepted[i].seq = i
       /\ accepted[i].kind = "save" => accepted[i].snapshot \in Snapshots

ShownIsAccounted == \A p \in Points : Acknowledged(p, Shown[p])

ScreenIsValid ==
  /\ \A p \in Points : proposals[p] # <<>>
  /\ \A p \in Points : Has(proposals[p], responses[p])

SaveIsAccounted ==
  saved =>
    /\ Saves # {}
    /\ LET kept == accepted[Newest(Saves)].snapshot
       IN  /\ kept.proposals = proposals
           /\ \A p \in Points : Shown[p] \in {None, kept.responses[p]}

IInv ==
  /\ TypeOK
  /\ Wire
  /\ RecordIsSound
  /\ ShownIsAccounted
  /\ ScreenIsValid
  /\ SaveIsAccounted
  /\ AnswersFollowPrerequisites
  /\ OutputIsNewest
  /\ JournalHoldsAcknowledged

-----------------------------------------------------------------------------
(* The acknowledged events.                                                *)

\* A position beyond all others is the newest.
LEMMA NewestAdded ==
  \A n \in Nat : \A S \in SUBSET (1..n) : Newest(S \cup {n + 1}) = n + 1
<1> TAKE n \in Nat
<1> TAKE S \in SUBSET (1..n)
<1> DEFINE T == S \cup {n + 1}
<1>1. n + 1 \in T /\ \A j \in T : j <= n + 1
  OBVIOUS
<1>2. \A i \in T : (\A j \in T : j <= i) => i = n + 1
  BY <1>1
<1> HIDE DEF T
<1>3. Newest(T) = n + 1
  BY <1>1, <1>2 DEF Newest
<1> QED
  BY <1>3 DEF T

\* Any position the history names is one of the history.
LEMMA NewestIs ==
  ASSUME accepted \in Seq(Events)
  PROVE  /\ \A p \in Points : Answering(p) # {} =>
              Newest(Answering(p)) \in DOMAIN accepted
         /\ Saves # {} => Newest(Saves) \in DOMAIN accepted
<1> DEFINE n == Len(accepted)
<1>1. n \in Nat /\ DOMAIN accepted = 1..n
  OBVIOUS
<1>2. ASSUME NEW S \in SUBSET (1..n), S # {}
      PROVE  Newest(S) \in S
  BY <1>1, <1>2, GreatestChosen DEF Newest
<1>3. Saves \in SUBSET (1..n) /\ \A p \in Points : Answering(p) \in SUBSET (1..n)
  BY <1>1 DEF Saves, Answering
<1> QED
  BY <1>1, <1>2, <1>3

\* Acknowledging an event makes it the newest of its kind and leaves the
\* others what they were.
LEMMA HistoryGrows ==
  ASSUME accepted \in Seq(Events), NEW e \in Events,
         accepted' = Append(accepted, e)
  PROVE  /\ accepted' \in Seq(Events)
         /\ Len(accepted') = Len(accepted) + 1
         /\ accepted'[Len(accepted')] = e
         /\ DOMAIN accepted' = DOMAIN accepted \cup {Len(accepted) + 1}
         /\ \A i \in DOMAIN accepted : accepted'[i] = accepted[i]
<1>1. /\ Len(accepted) \in Nat
      /\ DOMAIN accepted = 1..Len(accepted)
      /\ DOMAIN accepted' = DOMAIN accepted \cup {Len(accepted) + 1}
      /\ Len(accepted') = Len(accepted) + 1
      /\ accepted' \in Seq(Events)
      /\ accepted'[Len(accepted) + 1] = e
      /\ \A i \in DOMAIN accepted : accepted'[i] = accepted[i]
  BY Grown
<1> QED
  BY <1>1

\* An acknowledged answer is the newest to its point.
LEMMA AnswerAdded ==
  ASSUME accepted \in Seq(Events), NEW e \in Events,
         accepted' = Append(accepted, e), e.kind = "answer"
  PROVE  /\ Answering(e.point)' = Answering(e.point) \cup {Len(accepted) + 1}
         /\ Newest(Answering(e.point)') = Len(accepted) + 1
         /\ accepted'[Newest(Answering(e.point)')] = e
<1>1. /\ Len(accepted) \in Nat
      /\ DOMAIN accepted = 1..Len(accepted)
      /\ accepted'[Len(accepted) + 1] = e
      /\ DOMAIN accepted' = DOMAIN accepted \cup {Len(accepted) + 1}
      /\ \A i \in DOMAIN accepted : accepted'[i] = accepted[i]
  BY HistoryGrows
<1>2. Answering(e.point)' = Answering(e.point) \cup {Len(accepted) + 1}
  BY <1>1 DEF Answering
<1>3. Answering(e.point) \in SUBSET (1..Len(accepted))
  BY <1>1 DEF Answering
<1>4. Newest(Answering(e.point)') = Len(accepted) + 1
  BY <1>1, <1>2, <1>3, NewestAdded
<1> QED
  BY <1>1, <1>2, <1>4

\* Any other event leaves the newest answer to a point what it was.
LEMMA AnswersKept ==
  ASSUME accepted \in Seq(Events), NEW e \in Events,
         accepted' = Append(accepted, e), NEW p \in Points,
         ~(e.kind = "answer" /\ e.point = p)
  PROVE  /\ Answering(p)' = Answering(p)
         /\ Answering(p) # {} =>
              accepted'[Newest(Answering(p)')] = accepted[Newest(Answering(p))]
<1>1. /\ accepted'[Len(accepted) + 1] = e
      /\ DOMAIN accepted' = DOMAIN accepted \cup {Len(accepted) + 1}
      /\ \A i \in DOMAIN accepted : accepted'[i] = accepted[i]
  BY HistoryGrows
<1>2. Answering(p)' = Answering(p)
  BY <1>1 DEF Answering
<1> QED
  BY <1>1, <1>2, NewestIs

\* An acknowledged save is the newest; any other event leaves the newest be.
LEMMA SavesAfter ==
  ASSUME accepted \in Seq(Events), NEW e \in Events,
         accepted' = Append(accepted, e)
  PROVE  /\ e.kind = "save" => Saves' # {} /\ accepted'[Newest(Saves')] = e
         /\ e.kind # "save" =>
              /\ Saves' = Saves
              /\ Saves # {} => accepted'[Newest(Saves')] = accepted[Newest(Saves)]
<1>1. /\ Len(accepted) \in Nat
      /\ DOMAIN accepted = 1..Len(accepted)
      /\ accepted'[Len(accepted) + 1] = e
      /\ DOMAIN accepted' = DOMAIN accepted \cup {Len(accepted) + 1}
      /\ \A i \in DOMAIN accepted : accepted'[i] = accepted[i]
  BY HistoryGrows
<1>2. CASE e.kind = "save"
  <2>1. Saves' = Saves \cup {Len(accepted) + 1}
    BY <1>1, <1>2 DEF Saves
  <2>2. Saves \in SUBSET (1..Len(accepted))
    BY <1>1 DEF Saves
  <2>3. Newest(Saves') = Len(accepted) + 1
    BY <1>1, <2>1, <2>2, NewestAdded
  <2> QED
    BY <1>1, <1>2, <2>1, <2>3
<1>3. CASE e.kind # "save"
  <2>1. Saves' = Saves
    BY <1>1, <1>3 DEF Saves
  <2>2. Saves # {} => Newest(Saves) \in DOMAIN accepted
    BY NewestIs
  <2>3. Newest(Saves') = Newest(Saves)
    BY <2>1
  <2>4. Saves # {} => accepted'[Newest(Saves')] = accepted[Newest(Saves)]
    BY <1>1, <2>2, <2>3
  <2> QED
    BY <1>3, <2>1, <2>4
<1> QED
  BY <1>2, <1>3

-----------------------------------------------------------------------------
(* Values.                                                                 *)

\* The event under way is an event.
LEMMA SendingIs ==
  ASSUME TypeOK, sending # Idle
  PROVE  /\ sending.event \in Events
         /\ sending.previous \in Answers \cup {None}
         /\ sending.attempt \in 1..MaxAttempts
         /\ sending.exits \in BOOLEAN
BY DEF TypeOK, Sendings

\* What is shown of a point: the answer under way does not count yet.
LEMMA ShownIs ==
  \A p \in Points :
    Shown[p] = IF sending # Idle /\ sending.event.kind = "answer" /\ sending.event.point = p
               THEN sending.previous ELSE responses[p]
BY DEF Shown

LEMMA ShownAtRest ==
  ASSUME TypeOK, sending = Idle
  PROVE  Shown = responses
BY DEF Shown, TypeOK, Responses

LEMMA SnapshotIs ==
  ASSUME TypeOK
  PROVE  Snapshot \in Snapshots /\ Snapshot # None
BY MarksAreDistinct DEF TypeOK, Snapshot, Snapshots

-----------------------------------------------------------------------------
(* Steps that change nothing the invariant relates.                        *)

core == <<proposals, responses, saved, digest, step, sending, next, output,
          journal, accepted, base>>

LEMMA CoreKept ==
  ASSUME IInv, TypeOK', UNCHANGED core
  PROVE  IInv'
<1>1. Shown' = Shown
  BY DEF Shown, core
<1>2. /\ Saves' = Saves
      /\ \A p \in Points : Answering(p)' = Answering(p)
  BY DEF Saves, Answering, core
<1>3. Wire' /\ RecordIsSound'
  BY <1>1 DEF IInv, Wire, Anticipated, RecordIsSound, Has, Snapshot, core
<1>4. ShownIsAccounted' /\ ScreenIsValid' /\ SaveIsAccounted'
  BY <1>1, <1>2 DEF IInv, ShownIsAccounted, Acknowledged, ScreenIsValid, Has,
                    SaveIsAccounted, core
<1>5. AnswersFollowPrerequisites' /\ OutputIsNewest' /\ JournalHoldsAcknowledged'
  <2>1. AnswersFollowPrerequisites'
    BY DEF IInv, AnswersFollowPrerequisites, Answering, core
  <2>2. OutputIsNewest'
    BY DEF IInv, OutputIsNewest, core
  <2>3. JournalHoldsAcknowledged'
    BY DEF IInv, JournalHoldsAcknowledged, core
  <2> QED
    BY <2>1, <2>2, <2>3
<1> QED
  BY <1>3, <1>4, <1>5 DEF IInv

\* Moving the cursor, opening and closing the form and the exit dialogue,
\* and attaching the session again.
LEMMA QuietKept ==
  ASSUME IInv,
         \/ \E p \in Points : MovePoint(p)
         \/ OpenForm \/ CancelForm
         \/ OpenDialogue \/ CloseDialogue \/ ToggleDialogue
         \/ Reopen
         \/ UNCHANGED vars
  PROVE  IInv'
<1>1. UNCHANGED core
  BY DEF MovePoint, OpenForm, CancelForm, OpenDialogue, CloseDialogue,
         ToggleDialogue, Reopen, vars, cursors, view, screen, wire, files,
         history, core
<1>2. TypeOK'
  <2>1. ASSUME NEW p \in Points, MovePoint(p)
        PROVE  TypeOK'
    <3>1. 1 \in DOMAIN proposals[p]
      BY <2>1 DEF IInv, TypeOK, Proposals, ScreenIsValid
    <3> QED
      BY <2>1, <3>1 DEF IInv, TypeOK, MovePoint, view, screen, wire, files, history
  <2>2. ASSUME OpenForm \/ CancelForm
        PROVE  TypeOK'
    BY <2>2 DEF IInv, TypeOK, OpenForm, CancelForm, cursors, view, wire, files,
                history
  <2>3. ASSUME OpenDialogue \/ CloseDialogue \/ ToggleDialogue
        PROVE  TypeOK'
    BY <2>3 DEF IInv, TypeOK, OpenDialogue, CloseDialogue, ToggleDialogue,
                cursors, view, wire, files, history
  <2>4. ASSUME Reopen
        PROVE  TypeOK'
    BY <2>4, LiveConstantsOK DEF IInv, TypeOK, Reopen, cursors, view, screen,
                                 wire, files
  <2>5. ASSUME UNCHANGED vars
        PROVE  TypeOK'
    BY <2>5 DEF IInv, TypeOK, vars, cursors, view, screen, wire, files, history
  <2> QED
    BY <2>1, <2>2, <2>3, <2>4, <2>5
<1> QED
  BY <1>1, <1>2, CoreKept

-----------------------------------------------------------------------------
(* Keys that change the screen.                                            *)

\* What is said of the files and of the history alone.
LEMMA FilesKept ==
  ASSUME IInv, UNCHANGED <<next, output, journal, accepted, base>>
  PROVE  RecordIsSound' /\ OutputIsNewest' /\ JournalHoldsAcknowledged'
<1>1. RecordIsSound' /\ OutputIsNewest'
  BY DEF IInv, RecordIsSound, OutputIsNewest
<1>2. JournalHoldsAcknowledged'
  BY DEF IInv, JournalHoldsAcknowledged
<1> QED
  BY <1>1, <1>2

LEMMA HistoryKept ==
  ASSUME IInv, UNCHANGED accepted
  PROVE  /\ AnswersFollowPrerequisites'
         /\ Saves' = Saves
         /\ \A p \in Points : Answering(p)' = Answering(p)
BY DEF IInv, AnswersFollowPrerequisites, Answering, Saves

\* What an event that is submitted looks like.
LEMMA Submitted ==
  ASSUME IInv, step = "keys",
         NEW kind \in Kinds, NEW p \in Points \cup {None},
         NEW answer \in Answers \cup {None}, NEW snapshot \in Snapshots \cup {None},
         NEW previous \in Answers \cup {None}, NEW exits \in BOOLEAN,
         Submit(kind, p, answer, snapshot, previous, exits)
  PROVE  /\ sending = Idle
         /\ sending' \in Sendings /\ sending' # Idle
         /\ sending'.event = [seq |-> next, kind |-> kind, point |-> p,
                              answer |-> answer, snapshot |-> snapshot]
         /\ sending'.previous = previous
         /\ step' = "output"
         /\ submitted' \in 0..MaxEvents
         /\ UNCHANGED <<next, app, output, journal, accepted, base, faults>>
<1> DEFINE event == [seq |-> next, kind |-> kind, point |-> p,
                     answer |-> answer, snapshot |-> snapshot]
<1>1. sending = Idle
  BY DEF IInv, Wire
<1>2. event \in Events
  BY DEF IInv, TypeOK, Events
<1>3. sending' = [event |-> event, previous |-> previous, attempt |-> 1,
                  exits |-> exits]
  BY DEF Submit
<1>4. sending' \in Sendings /\ sending' # Idle
  <2> HIDE DEF event
  <2> QED
    BY <1>2, <1>3, LiveConstantsOK DEF Sendings, Idle
<1>5. submitted' \in 0..MaxEvents
  BY LiveConstantsOK DEF Submit, IInv, TypeOK
<1> QED
  BY <1>1, <1>3, <1>4, <1>5 DEF Submit, files

\* An answer on the cursor's proposal is an answer, and its label is there.
LEMMA AnswerIs ==
  ASSUME IInv, NEW d \in Dispositions,
         NEW a, a = [disposition |-> d,
                     selected |-> IF d = "select" THEN Label ELSE None]
  PROVE  a \in Answers /\ Has(proposals[point], a)
<1>1. cursor \in DOMAIN proposals[point] /\ proposals[point] \in Seq(Labels)
  BY DEF IInv, TypeOK, Proposals
<1>2. Label \in Labels
  BY <1>1 DEF Label
<1>3. "select" \notin Others
  BY LiveConstantsOK
<1> QED
  BY <1>1, <1>2, <1>3 DEF Answers, Dispositions, Has, Label

LEMMA RespondKept ==
  ASSUME IInv, NEW d \in Dispositions, Respond(d)
  PROVE  IInv'
<1> DEFINE a == [disposition |-> d,
                 selected |-> IF d = "select" THEN Label ELSE None]
<1>1. a \in Answers /\ Has(proposals[point], a)
  BY AnswerIs
<1>2. /\ point \in Points
      /\ responses[point] \in Answers \cup {None}
      /\ step = "keys"
      /\ Submit("answer", point, a, None, responses[point], FALSE)
  BY DEF IInv, TypeOK, Responses, Respond, Browsing, Ready
<1>3. /\ sending = Idle
      /\ sending' \in Sendings /\ sending' # Idle
      /\ sending'.event = [seq |-> next, kind |-> "answer", point |-> point,
                           answer |-> a, snapshot |-> None]
      /\ sending'.previous = responses[point]
      /\ step' = "output"
      /\ submitted' \in 0..MaxEvents
      /\ UNCHANGED <<next, app, output, journal, accepted, base, faults>>
  <2> HIDE DEF a
  <2> QED
    BY <1>1, <1>2, Submitted DEF Kinds
<1>4. /\ responses' = [responses EXCEPT ![point] = a]
      /\ saved' = FALSE
      /\ UNCHANGED <<point, cursor, proposals, digest, mode, dialogue>>
      /\ Unblocked
  BY DEF Respond, cursors, screen
<1> HIDE DEF a
<1>5. responses \in Responses /\ responses' \in Responses
  BY <1>1, <1>2, <1>4 DEF IInv, TypeOK, Responses
<1>6. TypeOK'
  BY <1>3, <1>4, <1>5 DEF IInv, TypeOK
<1>7. Shown' = responses
  BY <1>2, <1>3, <1>4, <1>5 DEF Shown, Responses
<1>8. Shown = responses
  BY <1>3, ShownAtRest DEF IInv
<1>9. Wire'
  <2>1. \A q \in Requires[point] : Selecting(responses[q])
    BY <1>4 DEF Unblocked, Selected, Selecting
  <2>2. Has(proposals'[point], sending'.previous)
    BY <1>2, <1>3, <1>4 DEF IInv, ScreenIsValid
  <2>3. responses'[point] = a
    BY <1>2, <1>4, <1>5 DEF Responses
  <2>4. Anticipated'
    BY <1>1, <1>2, <1>3, <1>4, <1>7, <2>1, <2>2, <2>3 DEF Anticipated
  <2> QED
    BY <1>3, <2>4 DEF Wire
<1>10. ScreenIsValid'
  <2>1. ASSUME NEW p \in Points
        PROVE  Has(proposals'[p], responses'[p])
    <3>1. responses'[p] = IF p = point THEN a ELSE responses[p]
      BY <1>2, <1>4, <1>5 DEF Responses
    <3> QED
      BY <1>1, <1>4, <3>1 DEF IInv, ScreenIsValid
  <2> QED
    BY <1>4, <2>1 DEF IInv, ScreenIsValid
<1>11. ShownIsAccounted' /\ SaveIsAccounted'
  BY <1>3, <1>4, <1>7, <1>8, HistoryKept
     DEF IInv, ShownIsAccounted, Acknowledged, SaveIsAccounted
<1> QED
  BY <1>3, <1>6, <1>9, <1>10, <1>11, FilesKept, HistoryKept DEF IInv

\* Left and right take an answer off the screen.
LEMMA MoveProposalKept ==
  ASSUME IInv, NEW i \in DOMAIN proposals[point], MoveProposal(i)
  PROVE  IInv'
<1>1. /\ responses' = [responses EXCEPT ![point] = None]
      /\ cursor' = i
      /\ UNCHANGED <<point, proposals, saved, digest, mode, dialogue, app, step,
                     sending, next, output, journal, accepted, submitted, base, faults>>
  BY DEF MoveProposal, screen, wire, files, history
<1>2. point \in Points /\ responses \in Responses /\ step = "keys"
  BY DEF IInv, TypeOK, MoveProposal, Browsing, Ready
<1>3. sending = Idle
  BY <1>2 DEF IInv, Wire
<1>4. responses' \in Responses
  BY <1>1, <1>2 DEF Responses
<1>5. TypeOK'
  BY <1>1, <1>4 DEF IInv, TypeOK
<1>6. Shown = responses /\ Shown' = responses'
  BY <1>1, <1>3, <1>5, ShownAtRest DEF IInv, Shown, Responses, TypeOK
<1>7. \A p \in Points : responses'[p] = IF p = point THEN None ELSE responses[p]
  BY <1>1, <1>2 DEF Responses
<1>8. Wire'
  BY <1>1, <1>2, <1>3 DEF IInv, Wire
<1>9. ScreenIsValid'
  BY <1>1, <1>7 DEF IInv, ScreenIsValid, Has
<1>10. ShownIsAccounted' /\ SaveIsAccounted'
  BY <1>1, <1>6, <1>7, HistoryKept
     DEF IInv, ShownIsAccounted, Acknowledged, SaveIsAccounted
<1> QED
  BY <1>1, <1>5, <1>8, <1>9, <1>10, FilesKept, HistoryKept DEF IInv

\* A remark or a save is submitted: the screen stays as it is.
LEMMA TellKept ==
  ASSUME IInv, Remark \/ Save \/ SaveAndExit
  PROVE  IInv'
<1>1. PICK kind \in {"remark", "save"}, snapshot \in Snapshots \cup {None},
           exits \in BOOLEAN :
        /\ kind = "save" => snapshot = Snapshot
        /\ Submit(kind, None, None, snapshot, None, exits)
        /\ UNCHANGED <<cursors, view, screen>>
        /\ step = "keys"
  <2>1. Snapshot \in Snapshots
    BY SnapshotIs DEF IInv
  <2>2. CASE Remark
    BY <2>2 DEF Remark, Ready
  <2>3. CASE Save \/ SaveAndExit
    BY <2>1, <2>3 DEF Save, SaveAndExit, SubmitSave, Browsing, Ready
  <2> QED
    BY <2>2, <2>3
<1>2. /\ sending = Idle
      /\ sending' \in Sendings /\ sending' # Idle
      /\ sending'.event = [seq |-> next, kind |-> kind, point |-> None,
                           answer |-> None, snapshot |-> snapshot]
      /\ step' = "output"
      /\ submitted' \in 0..MaxEvents
      /\ UNCHANGED <<next, app, output, journal, accepted, base, faults>>
  BY <1>1, Submitted DEF Kinds
<1>3. UNCHANGED <<point, cursor, proposals, responses, saved, digest, mode, dialogue>>
  BY <1>1 DEF cursors, view, screen
<1>4. TypeOK'
  BY <1>2, <1>3 DEF IInv, TypeOK
<1>5. Shown = responses /\ Shown' = responses
  BY <1>2, <1>3, ShownAtRest DEF IInv, TypeOK, Shown, Responses
<1>6. Wire'
  <2>1. Snapshot' = Snapshot
    BY <1>3 DEF Snapshot
  <2>2. Anticipated'
    BY <1>1, <1>2, <2>1 DEF Anticipated
  <2> QED
    BY <1>2, <2>2 DEF Wire
<1>7. ScreenIsValid'
  BY <1>3 DEF IInv, ScreenIsValid
<1>8. ShownIsAccounted' /\ SaveIsAccounted'
  BY <1>2, <1>3, <1>5, HistoryKept
     DEF IInv, ShownIsAccounted, Acknowledged, SaveIsAccounted
<1> QED
  BY <1>2, <1>4, <1>6, <1>7, <1>8, FilesKept, HistoryKept DEF IInv

\* Adding or editing a proposal takes the answer to its point off the
\* screen: no answer that is left can select the label that is gone.
LEMMA ConfirmFormKept ==
  ASSUME IInv, NEW l \in Own, ConfirmForm(l)
  PROVE  IInv'
<1>1. /\ point \in Points /\ step = "keys"
      /\ responses \in Responses /\ proposals \in Proposals
      /\ cursor \in DOMAIN proposals[point]
      /\ proposals[point] \in Seq(Labels) /\ proposals[point] # <<>>
      /\ l \in Labels
      /\ Submit("add-proposal", point, None, None, None, FALSE)
  BY DEF IInv, TypeOK, ConfirmForm, Ready, Proposals, ScreenIsValid, Labels
<1>2. /\ sending = Idle
      /\ sending' \in Sendings /\ sending' # Idle
      /\ sending'.event = [seq |-> next, kind |-> "add-proposal", point |-> point,
                           answer |-> None, snapshot |-> None]
      /\ step' = "output"
      /\ submitted' \in 0..MaxEvents
      /\ UNCHANGED <<next, app, output, journal, accepted, base, faults>>
  <2>1. PICK kind \in {"add-proposal"}, answer \in {None}, exits \in BOOLEAN :
          Submit(kind, point, answer, None, None, exits)
    BY <1>1
  <2>2. step = "keys" /\ point \in Points \cup {None} /\ kind \in Kinds
    BY <1>1 DEF Kinds
  <2> QED
    BY <2>1, <2>2, Submitted
<1>3. /\ responses' = [responses EXCEPT ![point] = None]
      /\ saved' = FALSE
      /\ mode' = "browse"
      /\ UNCHANGED <<point, digest, dialogue>>
  BY DEF ConfirmForm
<1>4. PICK labels \in Seq(Labels) :
        /\ labels # <<>>
        /\ proposals' = [proposals EXCEPT ![point] = labels]
        /\ cursor' \in DOMAIN labels
  <2>1. CASE mode = "add"
    <3> DEFINE labels == Append(proposals[point], l)
    <3>1. proposals' = [proposals EXCEPT ![point] = labels]
      BY <2>1 DEF ConfirmForm
    <3>2. cursor' = Len(proposals[point]) + 1
      BY <2>1 DEF ConfirmForm
    <3>3. labels \in Seq(Labels) /\ labels # <<>> /\ cursor' \in DOMAIN labels
      BY <1>1, <3>2
    <3> QED
      BY <3>1, <3>3
  <2>2. CASE mode # "add"
    <3> DEFINE labels == [proposals[point] EXCEPT ![cursor] = l]
    <3>1. proposals' = [proposals EXCEPT ![point] = labels] /\ cursor' = cursor
      BY <2>2 DEF ConfirmForm
    <3>2. labels \in Seq(Labels) /\ labels # <<>> /\ DOMAIN labels = DOMAIN proposals[point]
      BY <1>1
    <3> QED
      BY <1>1, <3>1, <3>2
  <2> QED
    BY <2>1, <2>2
<1>5. /\ responses' \in Responses
      /\ \A p \in Points : responses'[p] = IF p = point THEN None ELSE responses[p]
      /\ proposals' \in Proposals
      /\ \A p \in Points : proposals'[p] = IF p = point THEN labels ELSE proposals[p]
  BY <1>1, <1>3, <1>4 DEF Responses, Proposals
<1>6. TypeOK'
  BY <1>1, <1>2, <1>3, <1>4, <1>5 DEF IInv, TypeOK
<1>7. Shown = responses /\ Shown' = responses'
  <2>1. \A p \in Points : Shown'[p] = responses'[p]
    BY <1>2 DEF Shown
  <2> QED
    BY <1>2, <1>5, <2>1, ShownAtRest DEF IInv, TypeOK, Shown, Responses
<1>8. Wire'
  BY <1>2, <1>3 DEF Wire, Anticipated
<1>9. ScreenIsValid'
  BY <1>4, <1>5 DEF IInv, ScreenIsValid, Has
<1>10. ShownIsAccounted' /\ SaveIsAccounted'
  BY <1>2, <1>3, <1>5, <1>7, HistoryKept
     DEF IInv, ShownIsAccounted, Acknowledged, SaveIsAccounted
<1> QED
  BY <1>2, <1>6, <1>8, <1>9, <1>10, FilesKept, HistoryKept DEF IInv

-----------------------------------------------------------------------------
(* The journal.                                                            *)

Lines == Events \cup {Torn, Garbled}

\* The lines of this run under sequence number i.
LinesOf(i) ==
  {j \in base + 1 .. Len(journal) : journal[j] \in Events /\ journal[j].seq = i}

\* A line was glued to a torn one in this run.
Damaged == \E j \in DOMAIN journal : j >= base /\ journal[j] = Garbled

Kept(i) == LinesOf(i) # {} /\ journal[Newest(LinesOf(i))] = accepted[i]

LEMMA JournalReads ==
  JournalHoldsAcknowledged <=> \A i \in DOMAIN accepted : Kept(i) \/ Damaged
BY DEF JournalHoldsAcknowledged, Kept, Damaged, LinesOf

LEMMA NewestIn ==
  \A n \in Nat : \A S \in SUBSET (1..n) : S # {} => Newest(S) \in S
<1> TAKE n \in Nat
<1> TAKE S \in SUBSET (1..n)
<1> QED
  BY GreatestPosition DEF Newest

\* What an append may leave of a line is a journal no shorter.
LEMMA RemainsIs ==
  ASSUME journal \in Seq(Lines), NEW e \in Events, NEW lines \in Remains(e)
  PROVE  /\ lines \in Seq(Lines)
         /\ Len(lines) >= Len(journal)
         /\ \/ lines = journal
            \/ \E x \in {Torn, e} : lines = Append(journal, x)
            \/ /\ Len(journal) > 0
               /\ lines = [journal EXCEPT ![Len(journal)] = Garbled]
<1>1. Torn \in Lines /\ Garbled \in Lines /\ e \in Lines
  BY DEF Lines
<1>2. EndsTorn => Len(journal) > 0
  BY DEF EndsTorn
<1>3. \/ lines = journal
      \/ \E x \in {Torn, e} : lines = Append(journal, x)
      \/ Len(journal) > 0 /\ lines = [journal EXCEPT ![Len(journal)] = Garbled]
  BY <1>2 DEF Remains, WithLine, WithPartOfLine
<1>4. ASSUME NEW x \in {Torn, e}
      PROVE  Append(journal, x) \in Seq(Lines) /\ Len(Append(journal, x)) >= Len(journal)
  BY <1>1
<1>5. ASSUME Len(journal) > 0
      PROVE  LET glued == [journal EXCEPT ![Len(journal)] = Garbled]
             IN  glued \in Seq(Lines) /\ Len(glued) = Len(journal)
  BY <1>1, <1>5
<1> QED
  BY <1>3, <1>4, <1>5

\* A further line under another number, or a torn one, hides nothing.
LEMMA LineAdded ==
  ASSUME journal \in Seq(Lines), base \in 0..Len(journal), base' = base,
         NEW x \in Lines, journal' = Append(journal, x), NEW i,
         accepted'[i] = accepted[i],
         x \in Events => x.seq # i
  PROVE  Kept(i) \/ Damaged => Kept(i)' \/ Damaged'
<1>1. /\ Len(journal) \in Nat
      /\ DOMAIN journal = 1..Len(journal)
      /\ Len(journal') = Len(journal) + 1
      /\ DOMAIN journal' = DOMAIN journal \cup {Len(journal) + 1}
      /\ journal'[Len(journal) + 1] = x
      /\ \A j \in DOMAIN journal : journal'[j] = journal[j]
  BY Grown
<1>2. LinesOf(i)' = LinesOf(i)
  BY <1>1 DEF LinesOf
<1>3. LinesOf(i) \in SUBSET (1..Len(journal))
  BY <1>1 DEF LinesOf
<1>4. LinesOf(i) # {} => Newest(LinesOf(i)) \in DOMAIN journal
  BY <1>1, <1>3, NewestIn
<1>5. Kept(i) => Kept(i)'
  BY <1>1, <1>2, <1>4 DEF Kept
<1>6. Damaged => Damaged'
  BY <1>1 DEF Damaged
<1> QED
  BY <1>5, <1>6

\* A line under number i that is added is the newest under it.
LEMMA LineWritten ==
  ASSUME journal \in Seq(Lines), base \in 0..Len(journal), base' = base,
         NEW e \in Events, journal' = Append(journal, e),
         NEW i, i = e.seq, accepted'[i] = e
  PROVE  Kept(i)'
<1>1. /\ Len(journal) \in Nat
      /\ DOMAIN journal = 1..Len(journal)
      /\ Len(journal') = Len(journal) + 1
      /\ journal'[Len(journal) + 1] = e
      /\ \A j \in DOMAIN journal : journal'[j] = journal[j]
  BY Grown DEF Lines
<1>2. LinesOf(i)' = LinesOf(i) \cup {Len(journal) + 1}
  BY <1>1 DEF LinesOf
<1>3. LinesOf(i) \in SUBSET (1..Len(journal))
  BY <1>1 DEF LinesOf
<1>4. Newest(LinesOf(i)') = Len(journal) + 1
  BY <1>1, <1>2, <1>3, NewestAdded
<1> QED
  BY <1>1, <1>2, <1>4 DEF Kept

LEMMA LineGlued ==
  ASSUME journal \in Seq(Lines), base \in 0..Len(journal), base' = base,
         Len(journal) > 0, journal' = [journal EXCEPT ![Len(journal)] = Garbled]
  PROVE  Damaged'
<1>1. /\ Len(journal) \in DOMAIN journal'
      /\ journal'[Len(journal)] = Garbled
      /\ Len(journal) >= base'
  OBVIOUS
<1> QED
  BY <1>1 DEF Damaged

\* However much of a refused line is left, the acknowledged ones stay.
LEMMA JournalSurvives ==
  ASSUME IInv, sending # Idle, journal' \in Remains(sending.event),
         UNCHANGED <<base, accepted>>
  PROVE  /\ journal' \in Seq(Lines)
         /\ base' \in 0..Len(journal')
         /\ JournalHoldsAcknowledged'
<1>1. /\ journal \in Seq(Lines) /\ base \in 0..Len(journal)
      /\ sending.event \in Events /\ sending.event.seq = next
      /\ next = Len(accepted) + 1
      /\ DOMAIN accepted = 1..Len(accepted) /\ Len(accepted) \in Nat
  BY SendingIs DEF IInv, TypeOK, Lines, Wire, Anticipated, RecordIsSound
<1>2. /\ journal' \in Seq(Lines)
      /\ Len(journal') >= Len(journal)
      /\ \/ journal' = journal
         \/ \E x \in {Torn, sending.event} : journal' = Append(journal, x)
         \/ /\ Len(journal) > 0
            /\ journal' = [journal EXCEPT ![Len(journal)] = Garbled]
  BY <1>1, RemainsIs
<1>3. base' \in 0..Len(journal')
  BY <1>1, <1>2
<1>4. ASSUME NEW i \in DOMAIN accepted, Kept(i) \/ Damaged
      PROVE  Kept(i)' \/ Damaged'
  <2>1. CASE journal' = journal
    BY <1>4, <2>1 DEF Kept, Damaged, LinesOf
  <2>2. ASSUME NEW x \in {Torn, sending.event}, journal' = Append(journal, x)
        PROVE  Kept(i)' \/ Damaged'
    <3>1. x \in Events => x.seq # i
      BY <1>1, MarksAreDistinct
    <3>2. x \in Lines
      BY <1>1 DEF Lines
    <3>3. base' = base /\ accepted'[i] = accepted[i]
      OBVIOUS
    <3> QED
      BY <1>1, <1>4, <2>2, <3>1, <3>2, <3>3, LineAdded
  <2>3. CASE Len(journal) > 0 /\ journal' = [journal EXCEPT ![Len(journal)] = Garbled]
    BY <1>1, <2>3, LineGlued
  <2> QED
    BY <1>2, <2>1, <2>2, <2>3
<1>5. \A i \in DOMAIN accepted' : Kept(i)' \/ Damaged'
  BY <1>4, JournalReads DEF IInv
<1>6. JournalHoldsAcknowledged'
  BY <1>5 DEF JournalHoldsAcknowledged, Kept, Damaged, LinesOf
<1> QED
  BY <1>2, <1>3, <1>6

-----------------------------------------------------------------------------
(* The end of a run.                                                       *)

\* An empty session: nothing is shown, nothing is under way.
LEMMA EmptyKept ==
  ASSUME IInv, NEW how \in Endings, NEW lines \in Seq(Lines), EndWith(how, lines)
  PROVE  IInv'
<1>1. /\ app' = how /\ journal' = lines /\ point' = First /\ cursor' = 1
      /\ proposals' = Offered /\ responses' = NoResponses
      /\ saved' = FALSE /\ digest' = None /\ mode' = "browse" /\ dialogue' = "none"
      /\ step' = "keys" /\ sending' = Idle /\ next' = 1 /\ accepted' = <<>>
      /\ base' = Len(lines)
      /\ UNCHANGED <<output, submitted, faults>>
  BY DEF EndWith
<1>2. /\ Offered \in Proposals
      /\ \A p \in Points : Offered[p] # <<>>
      /\ First \in Points
      /\ 1 \in DOMAIN Offered[First]
  BY LiveConstantsOK DEF Proposals
<1>3. NoResponses \in Responses
  BY DEF NoResponses, Responses
<1>4. TypeOK'
  <2>1. Len(lines) \in 0..Len(lines)
    OBVIOUS
  <2>2. accepted' \in Seq(Events) /\ sending' \in Sendings /\ next' \in Nat \ {0}
    BY <1>1 DEF Sendings
  <2>3. lines \in Seq(Events \cup {Torn, Garbled})
    BY DEF Lines
  <2>4. cursor' \in DOMAIN proposals'[point']
    BY <1>1, <1>2
  <2> QED
    BY <1>1, <1>2, <1>3, <2>1, <2>2, <2>3, <2>4 DEF IInv, TypeOK
<1>5. DOMAIN accepted' = {} /\ Len(accepted') = 0
  BY <1>1
<1>6. \A p \in Points : Shown'[p] = None /\ responses'[p] = None
  BY <1>1 DEF Shown, NoResponses
<1>7. Wire' /\ RecordIsSound' /\ OutputIsNewest'
  BY <1>1, <1>5 DEF Wire, RecordIsSound, OutputIsNewest
<1>8. ShownIsAccounted' /\ ScreenIsValid' /\ SaveIsAccounted'
  BY <1>1, <1>2, <1>6 DEF ShownIsAccounted, Acknowledged, ScreenIsValid, Has,
                          SaveIsAccounted
<1>9. AnswersFollowPrerequisites' /\ JournalHoldsAcknowledged'
  BY <1>5 DEF AnswersFollowPrerequisites, JournalHoldsAcknowledged
<1> QED
  BY <1>4, <1>7, <1>8, <1>9 DEF IInv

LEMMA EndKept ==
  ASSUME IInv,
         ExitAnyway \/ ExitAfterSave \/ Quit \/ Cancel \/ InputCloses \/ Kill
  PROVE  IInv'
<1>1. journal \in Seq(Lines)
  BY DEF IInv, TypeOK, Lines
<1>2. ASSUME step = "append", NEW lines \in Remains(sending.event)
      PROVE  lines \in Seq(Lines)
  <2>1. sending.event \in Events
    BY <1>2, SendingIs DEF IInv, Wire
  <2> QED
    BY <1>1, <1>2, <2>1, RemainsIs
<1>3. ASSUME Kill
      PROVE  \E lines \in Seq(Lines) : EndWith("killed", lines)
  <2>1. PICK lines \in IF step = "append" /\ ~Full
                       THEN Remains(sending.event) ELSE {journal} :
               EndWith("killed", lines)
    BY <1>3 DEF Kill
  <2>2. lines \in Seq(Lines)
    BY <1>1, <1>2
  <2> QED
    BY <2>1, <2>2
<1>4. PICK how \in Endings, lines \in Seq(Lines) : EndWith(how, lines)
  <2>1. CASE Kill
    BY <1>3, <2>1 DEF Endings
  <2>2. CASE ~Kill
    BY <1>1, <2>2 DEF ExitAnyway, ExitAfterSave, Quit, Cancel, InputCloses, End,
                      Endings
  <2> QED
    BY <2>1, <2>2
<1> QED
  BY <1>4, EmptyKept

-----------------------------------------------------------------------------
(* Delivery.                                                               *)

LEMMA WriteOutputKept ==
  ASSUME IInv, WriteOutput
  PROVE  IInv'
<1>1. /\ step' = "append" /\ output' = sending.event
      /\ UNCHANGED <<point, cursor, proposals, responses, saved, digest, mode,
                     dialogue, app, sending, next, journal, accepted, submitted,
                     base, faults>>
  BY DEF WriteOutput, cursors, view, screen, history
<1>2. sending # Idle /\ sending.event \in Events /\ sending.event.seq = next
  BY SendingIs DEF IInv, Wire, WriteOutput, Anticipated
<1>3. TypeOK'
  BY <1>1, <1>2 DEF IInv, TypeOK
<1>4. Shown' = Shown
  BY <1>1 DEF Shown
<1>5. Wire'
  BY <1>1, <1>2, <1>4 DEF IInv, Wire, Anticipated, Snapshot
<1>6. RecordIsSound' /\ JournalHoldsAcknowledged'
  BY <1>1 DEF IInv, RecordIsSound, JournalHoldsAcknowledged
<1>7. OutputIsNewest'
  BY <1>1, <1>2, MarksAreDistinct DEF OutputIsNewest
<1>8. ShownIsAccounted' /\ ScreenIsValid' /\ SaveIsAccounted'
  BY <1>1, <1>4, HistoryKept
     DEF IInv, ShownIsAccounted, Acknowledged, ScreenIsValid, SaveIsAccounted
<1> QED
  BY <1>1, <1>3, <1>5, <1>6, <1>7, <1>8, HistoryKept DEF IInv

\* A refused answer gives the screen back what it showed before.
LEMMA RefusedShown ==
  ASSUME IInv, sending # Idle, Refuse
  PROVE  /\ responses' \in Responses
         /\ responses' = Shown
         /\ Shown' = Shown
         /\ \A p \in Points : Has(proposals[p], responses'[p])
<1>1. /\ sending.event \in Events /\ sending.previous \in Answers \cup {None}
      /\ responses \in Responses
      /\ sending.event.kind = "answer" => sending.event.point \in Points
      /\ sending.event.kind = "answer" =>
           Has(proposals[sending.event.point], sending.previous)
      /\ \A p \in Points : Has(proposals[p], responses[p])
  BY SendingIs DEF IInv, TypeOK, Wire, Anticipated, ScreenIsValid
<1>2. /\ responses' = IF sending.event.kind = "answer"
                      THEN [responses EXCEPT ![sending.event.point] = sending.previous]
                      ELSE responses
      /\ sending' = Idle
  BY DEF Refuse, Done
<1>3. responses' \in Responses
  BY <1>1, <1>2 DEF Responses
<1>4. \A p \in Points : responses'[p] = Shown[p]
  BY <1>1, <1>2 DEF Shown, Responses
<1>5. responses' = Shown
  BY <1>3, <1>4 DEF Responses, Shown
<1>6. Shown' = responses'
  BY <1>2, <1>3 DEF Shown, Responses
<1>7. \A p \in Points : Has(proposals[p], responses'[p])
  BY <1>1, <1>2, <1>4 DEF Shown
<1> QED
  BY <1>3, <1>5, <1>6, <1>7

LEMMA RefuseKept ==
  ASSUME IInv, sending # Idle, Refuse,
         output' \in {output, sending.event}, journal' \in Remains(sending.event),
         faults' \in 0..MaxFaults
  PROVE  IInv'
<1>1. /\ step' \in {"keys", "exit"} /\ sending' = Idle
      /\ UNCHANGED <<point, cursor, proposals, saved, digest, mode, dialogue, app,
                     next, accepted, submitted, base>>
  BY DEF Refuse, Done, cursors, screen, history
<1>2. /\ responses' \in Responses
      /\ responses' = Shown
      /\ Shown' = Shown
      /\ \A p \in Points : Has(proposals[p], responses'[p])
  BY RefusedShown
<1>3. sending.event \in Events /\ sending.event.seq = next
  BY SendingIs DEF IInv, Wire, Anticipated
<1>4. /\ journal' \in Seq(Lines)
      /\ base' \in 0..Len(journal')
      /\ JournalHoldsAcknowledged'
  BY <1>1, JournalSurvives
<1>5. TypeOK'
  BY <1>1, <1>2, <1>3, <1>4 DEF IInv, TypeOK, Sendings, Lines
<1>6. Wire' /\ RecordIsSound'
  BY <1>1 DEF IInv, Wire, RecordIsSound
<1>7. OutputIsNewest'
  BY <1>1, <1>3, MarksAreDistinct DEF IInv, OutputIsNewest
<1>8. ShownIsAccounted' /\ ScreenIsValid' /\ SaveIsAccounted'
  BY <1>1, <1>2, HistoryKept
     DEF IInv, ShownIsAccounted, Acknowledged, ScreenIsValid, SaveIsAccounted
<1> QED
  BY <1>1, <1>4, <1>5, <1>6, <1>7, <1>8, HistoryKept DEF IInv

\* Another attempt begins with the output file again.
LEMMA AgainKept ==
  ASSUME IInv, sending # Idle, sending.attempt < MaxAttempts,
         step' = "output", sending' = [sending EXCEPT !.attempt = @ + 1],
         UNCHANGED <<cursors, view, screen, app, next, history>>,
         output' \in {output, sending.event}, journal' \in Remains(sending.event),
         faults' \in 0..MaxFaults
  PROVE  IInv'
<1>1. UNCHANGED <<point, cursor, proposals, responses, saved, digest, mode,
                  dialogue, app, next, accepted, submitted, base>>
  BY DEF cursors, view, screen, history
<1>2. /\ sending \in [event : Events, previous : Answers \cup {None},
                      attempt : 1..MaxAttempts, exits : BOOLEAN]
      /\ sending.event.seq = next
  BY DEF IInv, TypeOK, Sendings, Wire, Anticipated
<1>3. /\ sending' \in [event : Events, previous : Answers \cup {None},
                       attempt : 1..MaxAttempts, exits : BOOLEAN]
      /\ sending'.event = sending.event
      /\ sending'.previous = sending.previous
  <2>1. MaxAttempts \in Nat /\ sending.attempt \in 1..MaxAttempts
    BY <1>2, LiveConstantsOK
  <2>2. sending.attempt + 1 \in 1..MaxAttempts
    BY <2>1
  <2> QED
    BY <1>2, <2>2
<1>4. sending' \in Sendings /\ sending' # Idle
  BY <1>3 DEF Sendings, Idle
<1>5. /\ journal' \in Seq(Lines)
      /\ base' \in 0..Len(journal')
      /\ JournalHoldsAcknowledged'
  BY <1>1, JournalSurvives
<1>6. TypeOK'
  BY <1>1, <1>2, <1>4, <1>5 DEF IInv, TypeOK, Lines
<1>7. Shown' = Shown
  BY <1>1, <1>3, <1>4 DEF Shown
<1>8. Wire' /\ RecordIsSound'
  BY <1>1, <1>3, <1>4, <1>7 DEF IInv, Wire, Anticipated, Snapshot, RecordIsSound
<1>9. OutputIsNewest'
  BY <1>1, <1>2, MarksAreDistinct DEF IInv, OutputIsNewest
<1>10. ShownIsAccounted' /\ ScreenIsValid' /\ SaveIsAccounted'
  BY <1>1, <1>7, HistoryKept
     DEF IInv, ShownIsAccounted, Acknowledged, ScreenIsValid, SaveIsAccounted
<1> QED
  BY <1>1, <1>5, <1>6, <1>8, <1>9, <1>10, HistoryKept DEF IInv

\* A write that raises, or that finds the journal full.
LEMMA FailKept ==
  ASSUME IInv, AppendFull \/ OutputFails \/ AppendFails
  PROVE  IInv'
<1>1. sending # Idle
  BY DEF IInv, Wire, AppendFull, OutputFails, AppendFails
<1>2. /\ Retry
      /\ output' \in {output, sending.event}
      /\ journal' \in Remains(sending.event)
      /\ faults' \in 0..MaxFaults
  BY LiveConstantsOK DEF IInv, TypeOK, AppendFull, OutputFails, AppendFails, Fault,
                         files, Remains
<1>3. CASE Refuse
  BY <1>1, <1>2, <1>3, RefuseKept
<1>4. CASE ~Refuse
  BY <1>1, <1>2, <1>4, AgainKept DEF Retry
<1> QED
  BY <1>3, <1>4

\* Before an answer that is acknowledged stand the selections it needs.
LEMMA FollowsAfter ==
  ASSUME IInv, NEW e \in Events, e = sending.event, sending # Idle,
         accepted' = Append(accepted, e)
  PROVE  AnswersFollowPrerequisites'
<1> DEFINE n == Len(accepted)
<1>1. /\ accepted \in Seq(Events) /\ n \in Nat
      /\ DOMAIN accepted = 1..n
      /\ DOMAIN accepted' = DOMAIN accepted \cup {n + 1}
      /\ accepted'[n + 1] = e
      /\ \A i \in DOMAIN accepted : accepted'[i] = accepted[i]
  BY HistoryGrows DEF IInv, TypeOK
<1>2. ASSUME NEW q
      PROVE  /\ \A j \in Answering(q)' : j \in Answering(q) \/ j = n + 1
             /\ Answering(q) \subseteq Answering(q)'
             /\ Answering(q) \in SUBSET (1..n)
  BY <1>1 DEF Answering
<1>3. ASSUME NEW i \in DOMAIN accepted', accepted'[i].kind = "answer",
             NEW q \in Requires[accepted'[i].point]
      PROVE  LET before == {j \in Answering(q)' : j < i}
             IN  /\ before # {}
                 /\ accepted'[Newest(before)].answer.disposition = "select"
  <2> DEFINE before == {j \in Answering(q)' : j < i}
             known == {j \in Answering(q) : j < i}
  <2>1. i \in Nat /\ i <= n + 1
    BY <1>1
  <2>2. before = known /\ known \in SUBSET (1..n)
    BY <1>2, <2>1
  <2>3. known # {} /\ accepted[Newest(known)].answer.disposition = "select"
    <3>1. CASE i \in DOMAIN accepted
      BY <1>1, <1>3, <3>1 DEF IInv, AnswersFollowPrerequisites
    <3>2. CASE i = n + 1
      <4>1. e.kind = "answer" /\ q \in Requires[e.point]
        BY <1>1, <1>3, <3>2
      <4>2. q \in Points /\ Selecting(Shown[q])
        BY <4>1, LiveConstantsOK DEF IInv, Wire, Anticipated
      <4>3. /\ Answering(q) # {}
            /\ accepted[Newest(Answering(q))].answer.disposition = "select"
        BY <4>2 DEF IInv, ShownIsAccounted, Acknowledged, Selecting
      <4>4. known = Answering(q)
        BY <1>1, <1>2, <3>2
      <4> QED
        BY <4>3, <4>4
    <3> QED
      BY <1>1, <3>1, <3>2
  <2>4. Newest(known) \in DOMAIN accepted
    BY <1>1, <2>2, <2>3, NewestIn
  <2>5. accepted'[Newest(known)] = accepted[Newest(known)]
    BY <1>1, <2>4
  <2> HIDE DEF known
  <2> QED
    BY <2>2, <2>3, <2>5
<1> QED
  BY <1>3 DEF AnswersFollowPrerequisites

LEMMA AppendLineKept ==
  ASSUME IInv, AppendLine
  PROVE  IInv'
<1> DEFINE e == sending.event
<1>1. /\ sending # Idle /\ step = "append" /\ output = e
      /\ e \in Events /\ e.seq = next /\ next = Len(accepted) + 1
      /\ accepted \in Seq(Events) /\ Len(accepted) \in Nat
      /\ journal \in Seq(Lines) /\ base \in 0..Len(journal)
  BY SendingIs DEF IInv, TypeOK, Wire, Anticipated, RecordIsSound, AppendLine, Lines
<1>2. /\ step' \in {"keys", "exit"} /\ sending' = Idle
      /\ next' = next + 1
      /\ accepted' = Append(accepted, e)
      /\ saved' = (saved \/ e.kind = "save")
      /\ digest' = IF e.kind = "save" THEN e.snapshot ELSE digest
      /\ journal' = WithLine(e)
      /\ UNCHANGED <<point, cursor, proposals, responses, mode, dialogue, app,
                     submitted, base, output, faults>>
  BY DEF AppendLine, Accept, Done, cursors, screen
<1>3. /\ e.kind = "answer" => e.point \in Points /\ responses[e.point] = e.answer
      /\ e.kind \in {"answer", "add-proposal"} => ~saved
      /\ e.kind = "save" => e.snapshot = Snapshot
      /\ e.kind \in Kinds
  BY <1>1 DEF IInv, Wire, Anticipated, Events
<1>4. journal' \in Remains(e)
  BY <1>2 DEF Remains
<1> HIDE DEF e
<1>5. /\ accepted' \in Seq(Events)
      /\ Len(accepted') = Len(accepted) + 1
      /\ accepted'[Len(accepted')] = e
      /\ DOMAIN accepted' = DOMAIN accepted \cup {Len(accepted) + 1}
      /\ \A i \in DOMAIN accepted : accepted'[i] = accepted[i]
      /\ DOMAIN accepted = 1..Len(accepted)
  BY <1>1, <1>2, HistoryGrows
<1>6. TypeOK'
  <2>1. journal' \in Seq(Lines) /\ base' \in 0..Len(journal')
    BY <1>1, <1>2, <1>4, RemainsIs
  <2>2. digest' \in Snapshots \cup {None} /\ saved' \in BOOLEAN
    BY <1>2, <1>3, SnapshotIs DEF IInv, TypeOK
  <2>3. sending' \in Sendings /\ next' \in Nat \ {0}
    BY <1>1, <1>2 DEF Sendings
  <2> QED
    BY <1>2, <1>5, <2>1, <2>2, <2>3 DEF IInv, TypeOK, Lines
<1>7. Wire' /\ RecordIsSound' /\ OutputIsNewest'
  <2>1. Wire'
    BY <1>2 DEF Wire
  <2>2. RecordIsSound'
    <3>1. e.kind = "save" => e.snapshot \in Snapshots
      BY <1>3, SnapshotIs DEF IInv
    <3> QED
      BY <1>1, <1>2, <1>5, <3>1 DEF IInv, RecordIsSound
  <2>3. OutputIsNewest'
    BY <1>1, <1>2, <1>5, MarksAreDistinct DEF OutputIsNewest
  <2> QED
    BY <2>1, <2>2, <2>3
<1>8. Shown' = responses
  BY <1>2, <1>6 DEF Shown, TypeOK, Responses
<1>9. \A p \in Points : ~(e.kind = "answer" /\ e.point = p) => Shown[p] = responses[p]
  BY ShownIs DEF e
<1>10. ShownIsAccounted'
  <2>1. ASSUME NEW p \in Points, Shown'[p] # None
        PROVE  Answering(p)' # {} /\ Shown'[p] = accepted'[Newest(Answering(p)')].answer
    <3>1. CASE e.kind = "answer" /\ e.point = p
      BY <1>1, <1>2, <1>3, <1>8, <3>1, AnswerAdded
    <3>2. CASE ~(e.kind = "answer" /\ e.point = p)
      <4>1. /\ Answering(p)' = Answering(p)
            /\ Answering(p) # {} =>
                 accepted'[Newest(Answering(p)')] = accepted[Newest(Answering(p))]
        BY <1>1, <1>2, <3>2, AnswersKept
      <4>2. Shown'[p] = Shown[p]
        BY <1>8, <1>9, <3>2
      <4> QED
        BY <2>1, <4>1, <4>2 DEF IInv, ShownIsAccounted, Acknowledged
    <3> QED
      BY <3>1, <3>2
  <2> QED
    BY <2>1 DEF ShownIsAccounted, Acknowledged
<1>11. ScreenIsValid'
  BY <1>2 DEF IInv, ScreenIsValid
<1>12. SaveIsAccounted'
  <2>1. CASE e.kind = "save"
    <3>1. Saves' # {} /\ accepted'[Newest(Saves')] = e
      BY <1>1, <1>2, <2>1, SavesAfter
    <3>2. e.snapshot.proposals = proposals' /\ e.snapshot.responses = responses
      BY <1>2, <1>3, <2>1 DEF Snapshot
    <3> QED
      BY <1>8, <3>1, <3>2 DEF SaveIsAccounted
  <2>2. CASE e.kind \in {"answer", "add-proposal"}
    BY <1>2, <1>3, <2>2 DEF SaveIsAccounted
  <2>3. CASE e.kind = "remark"
    <3>1. /\ Saves' = Saves
          /\ Saves # {} => accepted'[Newest(Saves')] = accepted[Newest(Saves)]
      BY <1>1, <1>2, <2>3, SavesAfter
    <3>2. \A p \in Points : Shown'[p] = Shown[p]
      BY <1>8, <1>9, <2>3
    <3>3. saved' = saved
      BY <1>2, <2>3 DEF IInv, TypeOK
    <3>4. ASSUME saved'
          PROVE  /\ Saves' # {}
                 /\ accepted'[Newest(Saves')].snapshot.proposals = proposals'
                 /\ \A p \in Points :
                      Shown'[p] \in {None, accepted'[Newest(Saves')].snapshot.responses[p]}
      <4>1. /\ Saves # {}
            /\ accepted[Newest(Saves)].snapshot.proposals = proposals
            /\ \A p \in Points :
                 Shown[p] \in {None, accepted[Newest(Saves)].snapshot.responses[p]}
        BY <3>3, <3>4 DEF IInv, SaveIsAccounted
      <4>2. Saves' # {} /\ accepted'[Newest(Saves')] = accepted[Newest(Saves)]
        BY <3>1, <4>1
      <4> QED
        BY <1>2, <3>2, <4>1, <4>2
    <3> QED
      BY <3>4 DEF SaveIsAccounted
  <2> QED
    BY <1>3, <2>1, <2>2, <2>3 DEF Kinds
<1>13. AnswersFollowPrerequisites'
  BY <1>1, <1>2, FollowsAfter DEF e
<1>14. JournalHoldsAcknowledged'
  <2>1. ASSUME NEW i \in DOMAIN accepted'
        PROVE  Kept(i)' \/ Damaged'
    <3>1. CASE EndsTorn
      <4>1. Len(journal) > 0 /\ journal' = [journal EXCEPT ![Len(journal)] = Garbled]
        BY <1>1, <1>2, <3>1 DEF WithLine, EndsTorn
      <4> QED
        BY <1>1, <1>2, <4>1, LineGlued
    <3>2. CASE ~EndsTorn /\ i \in DOMAIN accepted
      <4>1. journal' = Append(journal, e) /\ e \in Lines
        BY <1>1, <1>2, <3>2 DEF WithLine, Lines
      <4>2. accepted'[i] = accepted[i] /\ e.seq # i
        BY <1>1, <1>5, <3>2
      <4>3. Kept(i) \/ Damaged
        BY <3>2, JournalReads DEF IInv
      <4> QED
        BY <1>1, <1>2, <4>1, <4>2, <4>3, LineAdded
    <3>3. CASE ~EndsTorn /\ i = Len(accepted) + 1
      <4>1. i = e.seq /\ i = Len(accepted')
        BY <1>1, <1>5, <3>3
      <4>2. journal' = Append(journal, e) /\ accepted'[i] = e
        BY <1>2, <1>5, <3>3, <4>1 DEF WithLine
      <4> QED
        BY <1>1, <1>2, <4>1, <4>2, LineWritten
    <3> QED
      BY <1>5, <3>1, <3>2, <3>3
  <2> QED
    BY <2>1 DEF JournalHoldsAcknowledged, Kept, Damaged, LinesOf
<1> QED
  BY <1>6, <1>7, <1>10, <1>11, <1>12, <1>13, <1>14 DEF IInv

-----------------------------------------------------------------------------
(* The invariant, and what it says of every reachable state.               *)

LEMMA InitHolds == Init => IInv
<1> SUFFICES ASSUME Init
             PROVE  IInv
  OBVIOUS
<1>1. TypeOK
  <2>1. Offered \in Proposals /\ 1 \in DOMAIN Offered[First] /\ First \in Points
    BY LiveConstantsOK DEF Proposals
  <2>2. NoResponses \in Responses
    BY DEF NoResponses, Responses
  <2>3. 0 \in 0..MaxEvents /\ 0 \in 0..MaxFaults
    BY LiveConstantsOK
  <2>4. <<>> \in Seq(Events) /\ <<>> \in Seq(Events \cup {Torn, Garbled})
        /\ Len(<<>>) = 0
    OBVIOUS
  <2>5. /\ point \in Points /\ cursor \in DOMAIN proposals[point]
        /\ proposals \in Proposals /\ responses \in Responses
        /\ saved \in BOOLEAN /\ digest \in Snapshots \cup {None}
        /\ mode \in {"browse", "add", "edit"}
        /\ dialogue \in {"none", "stay", "leave"}
    BY <2>1, <2>2 DEF Init
  <2>6. /\ app \in {"running"} \cup Endings
        /\ step \in {"keys", "output", "append", "exit"}
        /\ sending \in Sendings /\ next \in Nat \ {0}
        /\ output \in Events \cup {None}
    BY DEF Init, Sendings
  <2>7. /\ journal \in Seq(Events \cup {Torn, Garbled})
        /\ accepted \in Seq(Events) /\ base \in 0..Len(journal)
        /\ submitted \in 0..MaxEvents
        /\ faults \in 0..MaxFaults
    BY <2>3, <2>4 DEF Init
  <2> QED
    BY <2>5, <2>6, <2>7 DEF TypeOK
<1>2. accepted = <<>> /\ DOMAIN accepted = {} /\ Len(accepted) = 0
  BY DEF Init
<1>3. \A p \in Points : Shown[p] = None /\ responses[p] = None
  BY DEF Init, Shown, NoResponses
<1>4. Wire /\ RecordIsSound /\ OutputIsNewest
  BY <1>2 DEF Init, Wire, RecordIsSound, OutputIsNewest
<1>5. ShownIsAccounted /\ ScreenIsValid /\ SaveIsAccounted
  BY <1>3, LiveConstantsOK
     DEF Init, ShownIsAccounted, Acknowledged, ScreenIsValid, Has, SaveIsAccounted
<1>6. AnswersFollowPrerequisites /\ JournalHoldsAcknowledged
  BY <1>2 DEF AnswersFollowPrerequisites, JournalHoldsAcknowledged
<1> QED
  BY <1>1, <1>4, <1>5, <1>6 DEF IInv

LEMMA NextKept == IInv /\ [Next]_vars => IInv'
<1> SUFFICES ASSUME IInv, [Next]_vars
             PROVE  IInv'
  OBVIOUS
<1>1. CASE \/ \E p \in Points : MovePoint(p)
           \/ OpenForm \/ CancelForm
           \/ OpenDialogue \/ CloseDialogue \/ ToggleDialogue
           \/ Reopen
           \/ UNCHANGED vars
  BY <1>1, QuietKept
<1>2. ASSUME NEW i \in DOMAIN proposals[point], MoveProposal(i)
      PROVE  IInv'
  BY <1>2, MoveProposalKept
<1>3. ASSUME NEW d \in Dispositions, Respond(d)
      PROVE  IInv'
  BY <1>3, RespondKept
<1>4. CASE Remark \/ Save \/ SaveAndExit
  BY <1>4, TellKept
<1>5. ASSUME NEW l \in Own, ConfirmForm(l)
      PROVE  IInv'
  BY <1>5, ConfirmFormKept
<1>6. CASE ExitAfterSave \/ ExitAnyway \/ Quit \/ Cancel \/ InputCloses \/ Kill
  BY <1>6, EndKept
<1>7. CASE WriteOutput
  BY <1>7, WriteOutputKept
<1>8. CASE AppendLine
  BY <1>8, AppendLineKept
<1>9. CASE AppendFull \/ OutputFails \/ AppendFails
  BY <1>9, FailKept
<1> QED
  BY <1>1, <1>2, <1>3, <1>4, <1>5, <1>6, <1>7, <1>8, <1>9 DEF Next

\* The inductive invariant holds of every reachable state.
THEOREM Invariance == Spec => []IInv
<1>1. Init => IInv
  BY InitHolds
<1>2. IInv /\ [Next]_vars => IInv'
  BY NextKept
<1> QED
  BY <1>1, <1>2, PTL DEF Spec

\* Every variable keeps its type: in particular the cursor is always on a
\* proposal of its point, which deliver_response reads without a check.
THEOREM TypeCorrect == Spec => []TypeOK
<1>1. IInv => TypeOK
  BY DEF IInv
<1> QED
  BY <1>1, Invariance, PTL

\* What the screen shows of a point at rest is the last acknowledged answer
\* to it: a delivery that fails puts back the answer it overwrote.
THEOREM ScreenIsAcknowledged == Spec => []ShownIsAcknowledged
<1>1. IInv => ShownIsAcknowledged
  <2> SUFFICES ASSUME IInv, AtRest
               PROVE  \A p \in Points : Acknowledged(p, responses[p])
    BY DEF ShownIsAcknowledged, Acknowledged
  <2>1. Shown = responses
    BY ShownAtRest DEF IInv, Wire, AtRest
  <2> QED
    BY <2>1 DEF IInv, ShownIsAccounted
<1> QED
  BY <1>1, Invariance, PTL

\* No answer selects a label that its point does not have, however often
\* proposals were added and edited.
THEOREM SelectionsAreReal == Spec => []SelectionExists
<1>1. IInv => SelectionExists
  BY DEF IInv, ScreenIsValid, Has, SelectionExists, Selected
<1> QED
  BY <1>1, Invariance, PTL

\* The acknowledged answers stand behind the selections they depend on,
\* although a prerequisite can be reopened as soon as it was used.
THEOREM PrerequisitesFirst == Spec => []AnswersFollowPrerequisites
<1>1. IInv => AnswersFollowPrerequisites
  BY DEF IInv
<1> QED
  BY <1>1, Invariance, PTL

\* "saved" on the status line: the last acknowledged save holds every answer
\* on the screen and the proposals.
THEOREM SavedCovers == Spec => []SavedCoversShown
<1>1. IInv => SavedCoversShown
  <2> SUFFICES ASSUME IInv, AtRest, saved
               PROVE  SavedCoversShown
    BY DEF SavedCoversShown
  <2>1. Shown = responses
    BY ShownAtRest DEF IInv, Wire, AtRest
  <2> QED
    BY <2>1 DEF IInv, SaveIsAccounted, SavedCoversShown
<1> QED
  BY <1>1, Invariance, PTL

\* Of the lines that this run wrote under a number the last is the event
\* that was acknowledged under it, whatever was torn or retried, unless a
\* line was glued to a torn one.
THEOREM JournalIsComplete == Spec => []JournalHoldsAcknowledged
<1>1. IInv => JournalHoldsAcknowledged
  BY DEF IInv
<1> QED
  BY <1>1, Invariance, PTL

\* The output file holds the last acknowledged event or the next one.
THEOREM OutputIsCurrent == Spec => []OutputIsNewest
<1>1. IInv => OutputIsNewest
  BY DEF IInv
<1> QED
  BY <1>1, Invariance, PTL

\* A plain q leaves only a complete session behind, and the last save that
\* was acknowledged is what was on the screen.
THEOREM QuitLeavesNothing == Spec => QuitIsComplete
<1> DEFINE Quits == app' = "quit" /\ app # "quit" =>
                      /\ Complete
                      /\ Saves # {}
                      /\ accepted[Newest(Saves)].snapshot = Snapshot
<1>1. IInv /\ [Next]_vars => [Quits]_vars
  <2> SUFFICES ASSUME IInv, Next, app' = "quit", app # "quit"
               PROVE  /\ Complete
                      /\ Saves # {}
                      /\ accepted[Newest(Saves)].snapshot = Snapshot
    OBVIOUS
  <2>1. Quit
    <3>1. ~ \E p \in Points : MovePoint(p)
      BY DEF MovePoint
    <3>2. ~ \E i \in DOMAIN proposals[point] : MoveProposal(i)
      BY DEF MoveProposal
    <3>3. ~ (\E d \in Dispositions : Respond(d)) /\ ~ (\E l \in Own : ConfirmForm(l))
      BY DEF Respond, ConfirmForm, Submit
    <3>4. ~ (Remark \/ Save \/ SaveAndExit)
      BY DEF Remark, Save, SaveAndExit, SubmitSave, Submit
    <3>5. ~ (OpenForm \/ CancelForm \/ OpenDialogue \/ CloseDialogue \/ ToggleDialogue)
      BY DEF OpenForm, CancelForm, OpenDialogue, CloseDialogue, ToggleDialogue
    <3>6. ~ (ExitAfterSave \/ ExitAnyway \/ Cancel \/ InputCloses \/ Kill \/ Reopen)
      BY DEF ExitAfterSave, ExitAnyway, Cancel, InputCloses, Kill, Reopen, End,
             EndWith
    <3>7. ~ (WriteOutput \/ AppendLine \/ AppendFull \/ OutputFails \/ AppendFails)
      BY DEF WriteOutput, AppendLine, AppendFull, OutputFails, AppendFails, Retry,
             Refuse, Accept, Done
    <3> QED
      BY <3>1, <3>2, <3>3, <3>4, <3>5, <3>6, <3>7 DEF Next
  <2>2. sending = Idle /\ Complete /\ saved
    BY <2>1 DEF IInv, Wire, Quit, Browsing, Ready, WorkRemains
  <2>3. Shown = responses
    BY <2>2, ShownAtRest DEF IInv
  <2>4. /\ Saves # {}
        /\ accepted[Newest(Saves)].snapshot.proposals = proposals
        /\ \A p \in Points :
             responses[p] \in {None, accepted[Newest(Saves)].snapshot.responses[p]}
    BY <2>2, <2>3 DEF IInv, SaveIsAccounted
  <2>5. accepted[Newest(Saves)].snapshot \in Snapshots
    <3>1. Newest(Saves) \in DOMAIN accepted
      BY <2>4, NewestIs DEF IInv, TypeOK
    <3>2. Newest(Saves) \in Saves
      <4>1. Saves \in SUBSET (1..Len(accepted)) /\ Len(accepted) \in Nat
        BY DEF IInv, TypeOK, Saves
      <4> QED
        BY <2>4, <4>1, NewestIn
    <3> QED
      BY <3>1, <3>2 DEF IInv, RecordIsSound, Saves
  <2>6. accepted[Newest(Saves)].snapshot.responses = responses
    BY <2>2, <2>4, <2>5 DEF Complete, Selected, Snapshots, Responses, IInv, TypeOK
  <2> QED
    BY <2>2, <2>4, <2>5, <2>6 DEF Snapshot, Snapshots
<1> QED
  BY <1>1, Invariance, PTL DEF Spec, QuitIsComplete

-----------------------------------------------------------------------------
(* The sequence numbers of one run.                                        *)

RunLines == {j \in base + 1 .. Len(journal) : journal[j] \in Events}

\* The lines of the run never count backwards, nor beyond the next number.
RunInOrder ==
  \A j \in RunLines :
    /\ journal[j].seq <= next
    /\ \A i \in RunLines : i < j => journal[i].seq <= journal[j].seq

\* What a step does to the journal: a new run begins behind all its lines, or
\* the run goes on with what an append of the event under way can leave.
LEMMA JournalStep ==
  ASSUME IInv, [Next]_vars
  PROVE  \/ base' = Len(journal')
         \/ /\ base' = base /\ next' \in {next, next + 1}
            /\ \/ journal' = journal
               \/ sending # Idle /\ journal' \in Remains(sending.event)
<1>1. CASE \/ \E p \in Points : MovePoint(p)
           \/ \E i \in DOMAIN proposals[point] : MoveProposal(i)
           \/ \E d \in Dispositions : Respond(d)
           \/ Remark \/ Save \/ SaveAndExit
           \/ OpenForm \/ CancelForm
           \/ \E l \in Own : ConfirmForm(l)
           \/ OpenDialogue \/ CloseDialogue \/ ToggleDialogue
           \/ Reopen \/ WriteOutput
           \/ UNCHANGED vars
  <2>1. base' = base /\ next' = next /\ journal' = journal
    BY <1>1 DEF MovePoint, MoveProposal, Respond, Remark, Save, SaveAndExit,
       SubmitSave, Submit, OpenForm, CancelForm, ConfirmForm, OpenDialogue,
       CloseDialogue, ToggleDialogue, Reopen, WriteOutput, vars, wire, files,
       history
  <2> QED
    BY <2>1
<1>2. CASE ExitAfterSave \/ ExitAnyway \/ Quit \/ Cancel \/ InputCloses \/ Kill
  BY <1>2 DEF ExitAfterSave, ExitAnyway, Quit, Cancel, InputCloses, Kill, End,
              EndWith
<1>3. CASE AppendLine \/ AppendFull \/ OutputFails \/ AppendFails
  <2>1. sending # Idle
    BY <1>3 DEF IInv, Wire, AppendLine, AppendFull, OutputFails, AppendFails
  <2>2. base' = base /\ next' \in {next, next + 1}
    BY <1>3 DEF AppendLine, AppendFull, OutputFails, AppendFails, Accept, Retry,
                Refuse, history
  <2>3. journal' \in Remains(sending.event)
    BY <1>3 DEF AppendLine, AppendFull, OutputFails, AppendFails, Remains, files
  <2> QED
    BY <2>1, <2>2, <2>3
<1> QED
  BY <1>1, <1>2, <1>3 DEF Next

LEMMA RunInOrderKept ==
  ASSUME IInv, IInv', RunInOrder, [Next]_vars
  PROVE  RunInOrder'
<1>1. /\ journal \in Seq(Lines) /\ base \in 0..Len(journal)
      /\ next \in Nat /\ \A e \in Events : e.seq \in Nat
  BY DEF IInv, TypeOK, Lines, Events
<1>2. CASE base' = Len(journal')
  <2>1. journal' \in Seq(Lines)
    BY DEF IInv, TypeOK, Lines
  <2>2. base' + 1 .. Len(journal') = {}
    BY <1>2, <2>1
  <2> QED
    BY <2>2 DEF RunInOrder, RunLines
<1>3. CASE base' = base /\ next' \in {next, next + 1} /\ journal' = journal
  <2>1. RunLines' = RunLines
    BY <1>3 DEF RunLines
  <2>2. next <= next'
    BY <1>1, <1>3
  <2>3. ASSUME NEW j \in RunLines
        PROVE  journal'[j].seq <= next'
    BY <1>1, <1>3, <2>2, <2>3 DEF RunInOrder, RunLines
  <2> QED
    BY <1>3, <2>1, <2>3 DEF RunInOrder
<1>4. CASE /\ base' = base /\ next' \in {next, next + 1}
           /\ sending # Idle /\ journal' \in Remains(sending.event)
  <2>1. sending.event \in Events /\ sending.event.seq = next
    BY <1>4, SendingIs DEF IInv, Wire, Anticipated
  <2>2. next <= next'
    BY <1>1, <1>4
  \* A line of the run is an old one, or the event under way behind them all.
  <2>3. ASSUME NEW j \in RunLines'
        PROVE  \/ j \in RunLines /\ journal'[j] = journal[j]
               \/ j = Len(journal) + 1 /\ journal'[j] = sending.event
    <3>1. CASE journal' = journal
      BY <1>4, <2>3, <3>1 DEF RunLines
    <3>2. ASSUME NEW x \in {Torn, sending.event}, journal' = Append(journal, x)
          PROVE  \/ j \in RunLines /\ journal'[j] = journal[j]
                 \/ j = Len(journal) + 1 /\ journal'[j] = sending.event
      <4>1. x \in Lines
        BY <2>1 DEF Lines
      <4>2. /\ Len(journal') = Len(journal) + 1
            /\ journal'[Len(journal) + 1] = x
            /\ \A k \in 1..Len(journal) : journal'[k] = journal[k]
            /\ Len(journal) \in Nat
        BY <1>1, <3>2, <4>1, Grown
      <4>3. /\ j \in base + 1 .. Len(journal) + 1
            /\ journal'[j] \in Events
        BY <1>4, <2>3, <4>2 DEF RunLines
      <4>4. CASE j = Len(journal) + 1
        BY <4>2, <4>3, <4>4, MarksAreDistinct
      <4>5. CASE j # Len(journal) + 1
        <5>1. j \in base + 1 .. Len(journal) /\ j \in 1..Len(journal)
          BY <1>1, <4>2, <4>3, <4>5
        <5> QED
          BY <4>2, <4>3, <5>1 DEF RunLines
      <4> QED
        BY <4>4, <4>5
    <3>3. ASSUME Len(journal) > 0,
                 journal' = [journal EXCEPT ![Len(journal)] = Garbled]
          PROVE  j \in RunLines /\ journal'[j] = journal[j]
      <4>1. /\ Len(journal') = Len(journal)
            /\ journal'[Len(journal)] = Garbled
            /\ \A k \in 1..Len(journal) : k # Len(journal) => journal'[k] = journal[k]
        BY <1>1, <3>3
      <4>2. j \in base + 1 .. Len(journal) /\ journal'[j] \in Events
        BY <1>4, <2>3, <4>1 DEF RunLines
      <4>3. j # Len(journal)
        BY <4>1, <4>2, MarksAreDistinct
      <4>4. j \in 1..Len(journal)
        BY <1>1, <4>2
      <4> QED
        BY <4>1, <4>2, <4>3, <4>4 DEF RunLines
    <3> QED
      BY <1>1, <1>4, <2>1, <3>1, <3>2, <3>3, RemainsIs
  <2>4. \A j \in RunLines : j <= Len(journal) /\ j \in Nat
    BY <1>1 DEF RunLines
  <2>5. ASSUME NEW j \in RunLines'
        PROVE  journal'[j].seq <= next'
    <3>1. CASE journal'[j] = sending.event
      BY <2>1, <2>2, <3>1
    <3>2. CASE j \in RunLines /\ journal'[j] = journal[j]
      <4>1. journal[j].seq <= next /\ journal[j].seq \in Nat
        BY <1>1, <3>2 DEF RunInOrder, RunLines
      <4> QED
        BY <1>1, <1>4, <2>2, <3>2, <4>1
    <3> QED
      BY <2>3, <3>1, <3>2
  <2>6. ASSUME NEW j \in RunLines', NEW i \in RunLines', i < j
        PROVE  journal'[i].seq <= journal'[j].seq
    <3>1. CASE j \in RunLines /\ journal'[j] = journal[j]
      <4>1. i # Len(journal) + 1
        BY <1>1, <2>4, <2>6, <3>1
      <4>2. i \in RunLines /\ journal'[i] = journal[i]
        BY <2>3, <4>1
      <4> QED
        BY <2>6, <3>1, <4>2 DEF RunInOrder
    <3>2. CASE j = Len(journal) + 1 /\ journal'[j] = sending.event
      <4>1. i # Len(journal) + 1
        BY <1>1, <2>6, <3>2
      <4>2. i \in RunLines /\ journal'[i] = journal[i]
        BY <2>3, <4>1
      <4> QED
        BY <2>1, <3>2, <4>2 DEF RunInOrder
    <3> QED
      BY <2>3, <3>1, <3>2
  <2> QED
    BY <2>5, <2>6 DEF RunInOrder
<1> QED
  BY <1>2, <1>3, <1>4, JournalStep

\* The lines that one run of the session appends to its journal never count
\* backwards, over every retry, refusal and torn line: a number is used again
\* only until it is acknowledged.
THEOREM RunsCountUp == Spec => []RunInOrder
<1>1. Init => RunInOrder
  <2> SUFFICES ASSUME Init PROVE RunInOrder
    OBVIOUS
  <2>1. base + 1 .. Len(journal) = {}
    BY DEF Init
  <2> QED
    BY <2>1 DEF RunInOrder, RunLines
<1> QED
  BY <1>1, RunInOrderKept, Invariance, PTL DEF Spec

\* docs/AR_TUI_INTERACTION.md gives every event "a monotonic session
\* sequence".  That is true of a journal as long as only one run has written
\* to it: base is 0 until a session that left lines ends.  The run
\* live_reopened shows that the next one begins at 1 again.
THEOREM OneRunIsMonotonic == Spec => [](base = 0 => MonotonicSequence)
<1>1. IInv /\ RunInOrder => (base = 0 => MonotonicSequence)
  <2> SUFFICES ASSUME IInv, RunInOrder, base = 0,
                      NEW i \in DOMAIN journal, NEW j \in DOMAIN journal,
                      i < j, journal[i] \in Events, journal[j] \in Events
               PROVE  journal[i].seq <= journal[j].seq
    BY DEF MonotonicSequence
  <2>1. journal \in Seq(Lines)
    BY DEF IInv, TypeOK, Lines
  <2>2. i \in RunLines /\ j \in RunLines
    BY <2>1 DEF RunLines
  <2> QED
    BY <2>2 DEF RunInOrder
<1> QED
  BY <1>1, RunsCountUp, Invariance, PTL

-----------------------------------------------------------------------------
(* What "saved" stands for.                                                *)

\* The snapshot the adapter keeps to recognise a repeated save is that of the
\* last save that was acknowledged.
DigestIsNewest ==
  digest = IF Saves = {} THEN None ELSE accepted[Newest(Saves)].snapshot

\* Either a step leaves the history and the digest alone, or it acknowledges
\* the event under way, or the process ended.
LEMMA DigestStep ==
  ASSUME IInv, [Next]_vars
  PROVE  \/ accepted' = accepted /\ digest' = digest
         \/ /\ sending # Idle
            /\ accepted' = Append(accepted, sending.event)
            /\ digest' = IF sending.event.kind = "save"
                         THEN sending.event.snapshot ELSE digest
         \/ accepted' = <<>> /\ digest' = None
<1>1. CASE \/ \E p \in Points : MovePoint(p)
           \/ \E i \in DOMAIN proposals[point] : MoveProposal(i)
           \/ \E d \in Dispositions : Respond(d)
           \/ Remark \/ Save \/ SaveAndExit
           \/ OpenForm \/ CancelForm
           \/ \E l \in Own : ConfirmForm(l)
           \/ OpenDialogue \/ CloseDialogue \/ ToggleDialogue
           \/ Reopen \/ WriteOutput
           \/ UNCHANGED vars
  BY <1>1 DEF MovePoint, MoveProposal, Respond, Remark, Save, SaveAndExit,
     SubmitSave, Submit, OpenForm, CancelForm, ConfirmForm, OpenDialogue,
     CloseDialogue, ToggleDialogue, Reopen, WriteOutput, vars, view, history
<1>2. CASE ExitAfterSave \/ ExitAnyway \/ Quit \/ Cancel \/ InputCloses \/ Kill
  BY <1>2 DEF ExitAfterSave, ExitAnyway, Quit, Cancel, InputCloses, Kill, End,
              EndWith
<1>3. CASE AppendFull \/ OutputFails \/ AppendFails
  BY <1>3 DEF AppendFull, OutputFails, AppendFails, Retry, Refuse, view, history
<1>4. CASE AppendLine
  <2>1. sending # Idle
    BY <1>4 DEF IInv, Wire, AppendLine
  <2> QED
    BY <1>4, <2>1 DEF AppendLine, Accept
<1> QED
  BY <1>1, <1>2, <1>3, <1>4 DEF Next

LEMMA DigestKept ==
  ASSUME IInv, DigestIsNewest, [Next]_vars
  PROVE  DigestIsNewest'
<1>1. accepted \in Seq(Events)
  BY DEF IInv, TypeOK
<1>2. CASE accepted' = accepted /\ digest' = digest
  BY <1>2 DEF DigestIsNewest, Saves, Newest
<1>3. CASE accepted' = <<>> /\ digest' = None
  <2>1. Saves' = {}
    BY <1>3 DEF Saves
  <2> QED
    BY <1>3, <2>1 DEF DigestIsNewest
<1>4. CASE /\ sending # Idle
           /\ accepted' = Append(accepted, sending.event)
           /\ digest' = IF sending.event.kind = "save"
                        THEN sending.event.snapshot ELSE digest
  <2>1. sending.event \in Events
    BY <1>4, SendingIs DEF IInv
  <2>2. CASE sending.event.kind = "save"
    <3>1. Saves' # {} /\ accepted'[Newest(Saves')] = sending.event
      BY <1>1, <1>4, <2>1, <2>2, SavesAfter
    <3> QED
      BY <1>4, <2>2, <3>1 DEF DigestIsNewest
  <2>3. CASE sending.event.kind # "save"
    <3>1. /\ Saves' = Saves
          /\ Saves # {} => accepted'[Newest(Saves')] = accepted[Newest(Saves)]
      BY <1>1, <1>4, <2>1, <2>3, SavesAfter
    <3> QED
      BY <1>4, <2>3, <3>1 DEF DigestIsNewest
  <2> QED
    BY <2>2, <2>3
<1> QED
  BY <1>2, <1>3, <1>4, DigestStep

\* The save adapter tells a repeated save by a snapshot that no other event,
\* refusal or retry ever touches.
THEOREM DigestIsLastSave == Spec => []DigestIsNewest
<1>1. Init => DigestIsNewest
  BY DEF Init, DigestIsNewest, Saves
<1> QED
  BY <1>1, DigestKept, Invariance, PTL DEF Spec

\* persistence.py says that a visible "saved" always stands for an
\* acknowledged event.  The run live_saved shows a session that says so after
\* an answer was reopened; what is true is that "saved" can be trusted while
\* every point has a selection.
THEOREM CompleteIsSaved == Spec => [](Complete => SavedMeansSaved)
<1>1. IInv /\ DigestIsNewest => (Complete => SavedMeansSaved)
  <2> SUFFICES ASSUME IInv, DigestIsNewest, Complete, AtRest, saved
               PROVE  digest = Snapshot
    BY DEF SavedMeansSaved
  <2> DEFINE kept == accepted[Newest(Saves)].snapshot
  <2>1. Shown = responses
    BY ShownAtRest DEF IInv, Wire, AtRest
  <2>2. /\ Saves # {}
        /\ kept.proposals = proposals
        /\ \A p \in Points : responses[p] \in {None, kept.responses[p]}
    BY <2>1 DEF IInv, SaveIsAccounted
  <2>3. kept \in Snapshots
    <3>1. Newest(Saves) \in Saves
      <4>1. Saves \in SUBSET (1..Len(accepted)) /\ Len(accepted) \in Nat
        BY DEF IInv, TypeOK, Saves
      <4> QED
        BY <2>2, <4>1, NewestIn
    <3> QED
      BY <3>1 DEF IInv, RecordIsSound, Saves
  <2>4. digest = kept
    BY <2>2 DEF DigestIsNewest
  <2> HIDE DEF kept
  <2>5. kept.responses = responses
    BY <2>2, <2>3 DEF Complete, Selected, Snapshots, Responses, IInv, TypeOK
  <2> QED
    BY <2>2, <2>3, <2>4, <2>5 DEF Snapshot, Snapshots
<1> QED
  BY <1>1, DigestIsLastSave, Invariance, PTL

=============================================================================
