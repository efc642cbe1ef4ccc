----------------------------- MODULE LiveSession -----------------------------
(***************************************************************************)
(* One decision session in the terminal: the view-model (LiveInteraction,  *)
(* awtui/live.py), its save adapter (persistence.py), the transport that   *)
(* numbers events and retries their delivery (transport.py, boundary.py),  *)
(* and the two files a delivery writes (record_event: the output file,     *)
(* then a line of the event journal).                                      *)
(*                                                                         *)
(* A key press changes the view-model and, for most keys, submits an event *)
(* before the next key is read.  A delivery writes one file at a time, and *)
(* each write may raise, before or after its bytes are in the file.  The   *)
(* process may die anywhere; the files stay, and the session may be        *)
(* attached again, from an empty view-model and sequence 1.                *)
(*                                                                         *)
(* Abstracted: a proposal is its label; which points a filter shows is     *)
(* left open; the four fields of the proposal form are one; the journal's  *)
(* size limit counts lines; the identity an event repeats is fixed.  The   *)
(* run has both --session-file and --output-json, as awui-connect starts   *)
(* it.                                                                     *)
(***************************************************************************)
EXTENDS Naturals, Sequences, FiniteSets

CONSTANTS
  Points,        \* decision points of the packet
  First,         \* the one the session opens on
  Requires,      \* Requires[p]: the points p depends on
  Offered,       \* Offered[p]: the labels the packet offers, in order
  Own,           \* labels a person can give a proposal of their own
  Others,        \* the dispositions that select nothing: reject, clarify
  None,
  Torn,          \* a journal line that stops before its newline
  Garbled,       \* two writes run together in one unreadable line
  MaxAttempts,   \* deliveries of one event (RetryPolicy)
  Capacity,      \* lines the journal holds (MAX_SESSION_BYTES)
  MaxEvents,     \* bound on events submitted, refused ones included, and on
                 \* further attaches
  MaxOwn,        \* bound on a person's own proposals
  MaxFaults      \* bound on writes that raise

Labels == Own \cup UNION {{Offered[p][i] : i \in DOMAIN Offered[p]} : p \in Points}

ASSUME LiveConstantsOK ==
  /\ First \in Points
  /\ Requires \in [Points -> SUBSET Points]
  /\ Offered \in [Points -> Seq(Labels) \ {<<>>}]
  /\ None \notin Labels \cup Points
  /\ Torn # Garbled
  /\ Others \subseteq {"reject", "clarify"}
  /\ MaxAttempts \in Nat \ {0}
  /\ {Capacity, MaxEvents, MaxOwn, MaxFaults} \subseteq Nat

VARIABLES
  point,      \* the point the cursor is on
  cursor,     \* the index of the proposal the cursor is on
  proposals,  \* proposals[p]: the labels of p, the person's own included
  responses,  \* responses[p]: the answer shown for p
  saved,      \* the status line says "saved"
  digest,     \* the snapshot of the last acknowledged save
  mode,       \* "browse", or the proposal form is open to "add" or "edit"
  dialogue,   \* the exit dialogue: "none", or the choice it is on
  app,        \* "running", or how the application ended
  step,       \* "keys", the next write of a delivery, or "exit" after it
  sending,    \* the event under way and what its caller will do
  next,       \* the boundary's next sequence
  output,     \* the output file: the last event written to it
  journal,    \* the lines of the event journal
  accepted,   \* the events of this run that were acknowledged
  submitted,  \* events submitted and sessions attached again so far
  base,       \* lines the journal had when this run began
  faults      \* writes that raised so far

cursors == <<point, cursor>>
view == <<proposals, responses, saved, digest>>
screen == <<mode, dialogue>>
wire == <<step, sending, next>>
files == <<output, journal>>
history == <<accepted, submitted, base>>
vars == <<cursors, view, screen, app, wire, files, history, faults>>

Dispositions == {"select"} \cup Others
Answers ==
  [disposition : {"select"}, selected : Labels]
    \cup [disposition : Others, selected : {None}]
Responses == [Points -> Answers \cup {None}]
Proposals == [Points -> Seq(Labels)]
Snapshots == [responses : Responses, proposals : Proposals]
Kinds == {"answer", "add-proposal", "remark", "save"}
Events ==
  [seq : Nat, kind : Kinds, point : Points \cup {None},
   answer : Answers \cup {None}, snapshot : Snapshots \cup {None}]

\* The marks for "nothing" and for damaged lines are none of the values.
ASSUME MarksAreDistinct ==
  /\ None \notin Answers \cup Snapshots \cup Events
  /\ \A mark \in {Torn, Garbled} : mark \notin Events

Idle == [event |-> None, previous |-> None, attempt |-> 0, exits |-> FALSE]
Sendings ==
  {Idle} \cup [event : Events, previous : Answers \cup {None},
               attempt : 1..MaxAttempts, exits : BOOLEAN]
Endings == {"quit", "save_exit", "anyway", "cancelled", "closed", "killed"}

TypeOK ==
  /\ point \in Points
  /\ cursor \in DOMAIN proposals[point]
  /\ proposals \in Proposals
  /\ responses \in Responses
  /\ saved \in BOOLEAN
  /\ digest \in Snapshots \cup {None}
  /\ mode \in {"browse", "add", "edit"}
  /\ dialogue \in {"none", "stay", "leave"}
  /\ app \in {"running"} \cup Endings
  /\ step \in {"keys", "output", "append", "exit"}
  /\ sending \in Sendings
  /\ next \in Nat \ {0}
  /\ output \in Events \cup {None}
  /\ journal \in Seq(Events \cup {Torn, Garbled})
  /\ accepted \in Seq(Events)
  /\ submitted \in 0..MaxEvents
  /\ base \in 0..Len(journal)
  /\ faults \in 0..MaxFaults

NoResponses == [p \in Points |-> None]

Init ==
  /\ point = First
  /\ cursor = 1
  /\ proposals = Offered
  /\ responses = NoResponses
  /\ saved = FALSE
  /\ digest = None
  /\ mode = "browse"
  /\ dialogue = "none"
  /\ app = "running"
  /\ step = "keys"
  /\ sending = Idle
  /\ next = 1
  /\ output = None
  /\ journal = <<>>
  /\ accepted = <<>>
  /\ submitted = 0
  /\ base = 0
  /\ faults = 0

Snapshot == [responses |-> responses, proposals |-> proposals]
Label == proposals[point][cursor]
Selected(p) == responses[p] # None /\ responses[p].disposition = "select"
Complete == \A p \in Points : Selected(p)
\* exit_requirements: what q insists on.
WorkRemains == ~Complete \/ ~saved

Ready == app = "running" /\ step = "keys"
Browsing == Ready /\ mode = "browse"

-----------------------------------------------------------------------------
(* Moving about.                                                           *)

\* Mutant: the proposal cursor stays where it was.
MovePoint_KeepsCursor(p) ==
  /\ Browsing
  /\ point' = p
  /\ UNCHANGED <<cursor, view, screen, app, wire, files, history, faults>>

\* Up, down and the filter keys; any of them puts the proposal cursor back.
MovePoint(p) ==
  /\ Browsing
  /\ point' = p
  /\ cursor' = 1
  /\ UNCHANGED <<view, screen, app, wire, files, history, faults>>

\* Left and right reopen an answered point.  Neither an event nor the saved
\* flag says so.
MoveProposal(i) ==
  /\ Browsing
  /\ dialogue = "none"
  /\ i \in {cursor - 1, cursor + 1} \/ (i = cursor /\ i \in {1, Len(proposals[point])})
  /\ cursor' = i
  /\ responses' = [responses EXCEPT ![point] = None]
  /\ UNCHANGED <<point, proposals, saved, digest, screen, app, wire, files,
                 history, faults>>

-----------------------------------------------------------------------------
(* Keys that submit an event.                                              *)

Submit(kind, p, answer, snapshot, previous, exits) ==
  /\ submitted < MaxEvents
  /\ submitted' = submitted + 1
  /\ step' = "output"
  /\ sending' =
       [event |-> [seq |-> next, kind |-> kind, point |-> p, answer |-> answer,
                   snapshot |-> snapshot],
        previous |-> previous, attempt |-> 1, exits |-> exits]
  /\ UNCHANGED <<next, app, files, accepted, base, faults>>

\* Mutant: any answer to a prerequisite will do.
Unblocked_AnyAnswer == \A q \in Requires[point] : responses[q] # None

Unblocked == \A q \in Requires[point] : Selected(q)

\* Mutant: a new answer leaves the saved flag alone.
Respond_KeepsSaved(d) ==
  LET answer == [disposition |-> d, selected |-> IF d = "select" THEN Label ELSE None]
  IN /\ Browsing
     /\ d = "select" => dialogue = "none"
     /\ Unblocked
     /\ responses' = [responses EXCEPT ![point] = answer]
     /\ Submit("answer", point, answer, None, responses[point], FALSE)
     /\ UNCHANGED <<cursors, proposals, saved, digest, screen>>

\* Enter, r and c.  The view-model changes first and is put right if the
\* event is refused.  While the exit dialogue is open Enter belongs to it.
Respond(d) ==
  LET answer == [disposition |-> d, selected |-> IF d = "select" THEN Label ELSE None]
  IN /\ Browsing
     /\ d = "select" => dialogue = "none"
     /\ Unblocked
     /\ responses' = [responses EXCEPT ![point] = answer]
     /\ saved' = FALSE
     /\ Submit("answer", point, answer, None, responses[point], FALSE)
     /\ UNCHANGED <<cursors, proposals, digest, screen>>

\* m (more evidence), o (reopen) and R (resume a paused session, whatever has
\* the focus) tell the Coordinator something and change nothing here.
Remark ==
  /\ Ready
  /\ Submit("remark", None, None, None, None, FALSE)
  /\ UNCHANGED <<cursors, view, screen>>

SubmitSave(exits) ==
  /\ Submit("save", None, None, Snapshot, None, exits)
  /\ UNCHANGED <<cursors, view, screen>>

\* s.  A repeated save of the same state is not sent again.
Save ==
  /\ Browsing
  /\ ~(saved /\ digest = Snapshot)
  /\ SubmitSave(FALSE)

-----------------------------------------------------------------------------
(* The form for a proposal of one's own.                                   *)

OwnProposals ==
  UNION {{p} \X {i \in DOMAIN proposals[p] : proposals[p][i] \in Own} :
           p \in Points}

\* a and e.
OpenForm ==
  /\ Browsing
  /\ submitted < MaxEvents
  /\ \/ Cardinality(OwnProposals) < MaxOwn /\ mode' = "add"
     \/ Label \in Own /\ mode' = "edit"
  /\ UNCHANGED <<cursors, view, dialogue, app, wire, files, history, faults>>

CancelForm ==
  /\ Ready
  /\ mode # "browse"
  /\ mode' = "browse"
  /\ UNCHANGED <<cursors, view, dialogue, app, wire, files, history, faults>>

\* Mutant: the answer to the point survives a change of its proposals.
ConfirmForm_KeepsAnswer(l) ==
  /\ Ready
  /\ dialogue = "none"
  /\ \/ /\ mode = "add"
        /\ proposals' = [proposals EXCEPT ![point] = Append(@, l)]
        /\ cursor' = Len(proposals[point]) + 1
     \/ /\ mode = "edit"
        /\ proposals' = [proposals EXCEPT ![point][cursor] = l]
        /\ UNCHANGED cursor
  /\ saved' = FALSE
  /\ mode' = "browse"
  /\ Submit("add-proposal", point, None, None, None, FALSE)
  /\ UNCHANGED <<point, responses, digest, dialogue>>

\* Mutant: a new proposal leaves the saved flag alone.
ConfirmForm_KeepsSaved(l) ==
  /\ Ready
  /\ dialogue = "none"
  /\ \/ /\ mode = "add"
        /\ proposals' = [proposals EXCEPT ![point] = Append(@, l)]
        /\ cursor' = Len(proposals[point]) + 1
     \/ /\ mode = "edit"
        /\ proposals' = [proposals EXCEPT ![point][cursor] = l]
        /\ UNCHANGED cursor
  /\ responses' = [responses EXCEPT ![point] = None]
  /\ mode' = "browse"
  /\ Submit("add-proposal", point, None, None, None, FALSE)
  /\ UNCHANGED <<point, saved, digest, dialogue>>

\* The proposal, and with it the loss of the answer to its point, stays even
\* if the event is refused.
ConfirmForm(l) ==
  /\ Ready
  /\ dialogue = "none"
  /\ \/ /\ mode = "add"
        /\ proposals' = [proposals EXCEPT ![point] = Append(@, l)]
        /\ cursor' = Len(proposals[point]) + 1
     \/ /\ mode = "edit"
        /\ proposals' = [proposals EXCEPT ![point][cursor] = l]
        /\ UNCHANGED cursor
  /\ responses' = [responses EXCEPT ![point] = None]
  /\ saved' = FALSE
  /\ mode' = "browse"
  /\ Submit("add-proposal", point, None, None, None, FALSE)
  /\ UNCHANGED <<point, digest, dialogue>>

-----------------------------------------------------------------------------
(* The lines of the journal.                                               *)

EndsTorn == journal # <<>> /\ journal[Len(journal)] = Torn

\* The journal after all the bytes of a line: behind a torn line they only
\* complete the damage.
WithLine(event) ==
  IF EndsTorn THEN [journal EXCEPT ![Len(journal)] = Garbled]
              ELSE Append(journal, event)

WithPartOfLine == IF EndsTorn THEN journal ELSE Append(journal, Torn)

Full == Len(journal) >= Capacity

\* What an append that does not return may leave: none, some or all of the
\* line.
Remains(event) == {journal, WithPartOfLine, WithLine(event)}

-----------------------------------------------------------------------------
(* Leaving.                                                                *)

OpenDialogue ==
  /\ Ready
  /\ dialogue = "none"
  /\ WorkRemains
  /\ dialogue' = "stay"
  /\ UNCHANGED <<cursors, view, mode, app, wire, files, history, faults>>

\* q again, or Enter on "No, stay".
CloseDialogue ==
  /\ Ready
  /\ dialogue # "none"
  /\ dialogue' = "none"
  /\ UNCHANGED <<cursors, view, mode, app, wire, files, history, faults>>

ToggleDialogue ==
  /\ Browsing
  /\ dialogue # "none"
  /\ dialogue' = IF dialogue = "stay" THEN "leave" ELSE "stay"
  /\ UNCHANGED <<cursors, view, mode, app, wire, files, history, faults>>

\* Enter on "Save + exit": the application exits whatever became of the save.
SaveAndExit ==
  /\ Ready
  /\ dialogue = "leave"
  /\ Complete /\ ~saved
  /\ SubmitSave(TRUE)

\* The process ends, its memory is gone, and the files stay.
EndWith(how, lines) ==
  /\ app' = how
  /\ journal' = lines
  /\ point' = First
  /\ cursor' = 1
  /\ proposals' = Offered
  /\ responses' = NoResponses
  /\ saved' = FALSE
  /\ digest' = None
  /\ mode' = "browse"
  /\ dialogue' = "none"
  /\ step' = "keys"
  /\ sending' = Idle
  /\ next' = 1
  /\ accepted' = <<>>
  /\ base' = Len(lines)
  /\ UNCHANGED <<output, submitted, faults>>

End(how) == EndWith(how, journal)

\* Enter on "Yes, exit".
ExitAnyway ==
  /\ Ready
  /\ dialogue = "leave"
  /\ ~(Complete /\ ~saved)
  /\ End("anyway")

\* The end of SaveAndExit.
ExitAfterSave == step = "exit" /\ End("save_exit")

\* q when nothing is left to do; in the form it is a letter.
Quit ==
  /\ Browsing
  /\ dialogue = "none"
  /\ ~WorkRemains
  /\ End("quit")

\* Escape.
Cancel == Browsing /\ End("cancelled")

\* The terminal's input ends.
InputCloses == Ready /\ End("closed")

Kill ==
  /\ app = "running"
  /\ \E lines \in IF step = "append" /\ ~Full
                 THEN Remains(sending.event) ELSE {journal} :
       EndWith("killed", lines)

\* awtui-live --session-file on the same request: everything but the files
\* is as at first.
Reopen ==
  /\ app # "running"
  /\ submitted < MaxEvents
  /\ app' = "running"
  /\ submitted' = submitted + 1
  /\ UNCHANGED <<cursors, view, screen, wire, files, accepted, base, faults>>

-----------------------------------------------------------------------------
(* Delivery: record_event, called up to MaxAttempts times.                 *)

Done ==
  /\ step' = IF sending.exits THEN "exit" ELSE "keys"
  /\ sending' = Idle
  /\ UNCHANGED app

\* The acknowledgement commits the sequence, and the save if it was one.
Accept ==
  LET event == sending.event
  IN /\ Done
     /\ next' = next + 1
     /\ accepted' = Append(accepted, event)
     /\ saved' = (saved \/ event.kind = "save")
     /\ digest' = IF event.kind = "save" THEN event.snapshot ELSE digest
     /\ UNCHANGED <<cursors, proposals, responses, screen, submitted, base>>

\* Mutant: a refused answer stays on the screen.
Refuse_KeepsAnswer ==
  /\ Done
  /\ UNCHANGED <<cursors, view, screen, next, history>>

\* Mutant: a save counts as one whatever its acknowledgement says.
Refuse_MarksSaved ==
  LET event == sending.event
  IN /\ Done
     /\ responses' = IF event.kind = "answer"
                     THEN [responses EXCEPT ![event.point] = sending.previous]
                     ELSE responses
     /\ saved' = (saved \/ event.kind = "save")
     /\ UNCHANGED <<cursors, proposals, digest, screen, next, history>>

\* No attempt is left: the sequence is not consumed and the answer is undone.
Refuse ==
  LET event == sending.event
  IN /\ Done
     /\ responses' = IF event.kind = "answer"
                     THEN [responses EXCEPT ![event.point] = sending.previous]
                     ELSE responses
     /\ UNCHANGED <<cursors, proposals, saved, digest, screen, next, history>>

\* The delivery raised.
Retry ==
  \/ /\ sending.attempt < MaxAttempts
     /\ step' = "output"
     /\ sending' = [sending EXCEPT !.attempt = @ + 1]
     /\ UNCHANGED <<cursors, view, screen, app, next, history>>
  \/ /\ sending.attempt = MaxAttempts
     /\ Refuse

Fault == faults < MaxFaults /\ faults' = faults + 1

WriteOutput ==
  /\ step = "output"
  /\ step' = "append"
  /\ output' = sending.event
  /\ UNCHANGED <<cursors, view, screen, app, sending, next, journal, history, faults>>

\* Mutant: an output file that cannot be replaced is not worth a retry.
OutputFails_Swallowed ==
  /\ step = "output"
  /\ Fault
  /\ step' = "append"
  /\ UNCHANGED <<cursors, view, screen, app, sending, next, files, history>>

\* It raises before the replacement, or after it, at the chmod.
OutputFails ==
  /\ step = "output"
  /\ Fault
  /\ output' \in {output, sending.event}
  /\ Retry
  /\ UNCHANGED journal

AppendLine ==
  /\ step = "append"
  /\ ~Full
  /\ journal' = WithLine(sending.event)
  /\ Accept
  /\ UNCHANGED <<output, faults>>

\* Mutant: a full journal drops the line and nobody hears of it.
AppendFull_Drops ==
  /\ step = "append"
  /\ Full
  /\ Accept
  /\ UNCHANGED <<files, faults>>

\* Mutant: the attempts are not counted.
AppendFull_Uncounted ==
  /\ step = "append"
  /\ Full
  /\ step' = "output"
  /\ UNCHANGED <<cursors, view, screen, app, sending, next, files, history, faults>>

AppendFull ==
  /\ step = "append"
  /\ Full
  /\ Retry
  /\ UNCHANGED <<files, faults>>

\* The append raises with none, some or all of the line in the file.
AppendFails ==
  /\ step = "append"
  /\ ~Full
  /\ Fault
  /\ journal' \in Remains(sending.event)
  /\ Retry
  /\ UNCHANGED output

-----------------------------------------------------------------------------
Deliver == WriteOutput \/ AppendLine \/ AppendFull \/ ExitAfterSave

Next ==
  \/ \E p \in Points : MovePoint(p)
  \/ \E i \in DOMAIN proposals[point] : MoveProposal(i)
  \/ \E d \in Dispositions : Respond(d)
  \/ Remark \/ Save
  \/ OpenForm \/ CancelForm
  \/ \E l \in Own : ConfirmForm(l)
  \/ OpenDialogue \/ CloseDialogue \/ ToggleDialogue
  \/ SaveAndExit \/ ExitAfterSave \/ ExitAnyway \/ Quit \/ Cancel \/ InputCloses
  \/ Kill \/ Reopen
  \/ WriteOutput \/ AppendLine \/ AppendFull \/ OutputFails \/ AppendFails

Spec == Init /\ [][Next]_vars

\* A delivery is one call that runs to its end; keys and faults may never come.
FairSpec == Spec /\ WF_vars(Deliver)

-----------------------------------------------------------------------------
(* What the session guarantees.                                            *)

Newest(S) == CHOOSE i \in S : \A j \in S : j <= i
Answering(p) == {i \in DOMAIN accepted : accepted[i].kind = "answer" /\ accepted[i].point = p}
Saves == {i \in DOMAIN accepted : accepted[i].kind = "save"}
AtRest == step \in {"keys", "exit"}

\* What the screen shows as the answer to a point is the last answer to it
\* that was acknowledged (docs/AR_TUI_INTERACTION.md: "A rejected delivery
\* ... does not commit the local decision response").
ShownIsAcknowledged ==
  AtRest =>
    \A p \in Points : responses[p] # None =>
      /\ Answering(p) # {}
      /\ responses[p] = accepted[Newest(Answering(p))].answer

\* A selected proposal is still one of its point: editing or adding one
\* never leaves a selection of a label that is gone.
SelectionExists ==
  \A p \in Points : Selected(p) =>
    \E i \in DOMAIN proposals[p] : proposals[p][i] = responses[p].selected

\* Whoever replays the acknowledged events in order finds each answer after
\* a selection of everything it depends on, although the prerequisites can
\* be reopened on the screen at any time.
AnswersFollowPrerequisites ==
  \A i \in DOMAIN accepted : accepted[i].kind = "answer" =>
    \A q \in Requires[accepted[i].point] :
      LET before == {j \in Answering(q) : j < i}
      IN /\ before # {}
         /\ accepted[Newest(before)].answer.disposition = "select"

\* While the status line says "saved", the last acknowledged save holds
\* every answer on the screen and the proposals as they are.
SavedCoversShown ==
  AtRest /\ saved =>
    /\ Saves # {}
    /\ LET kept == accepted[Newest(Saves)].snapshot
       IN /\ kept.proposals = proposals
          /\ \A p \in Points : responses[p] \in {None, kept.responses[p]}

\* A session can be left with a plain q only when it is complete, and then
\* the last acknowledged save is exactly what is on the screen.
QuitIsComplete ==
  [][app' = "quit" /\ app # "quit" =>
       /\ Complete
       /\ Saves # {}
       /\ accepted[Newest(Saves)].snapshot = Snapshot]_vars

\* The journal lines this run wrote under a sequence number may repeat an
\* event and may hold events that were refused, but the last of them is the
\* acknowledged one; only a line glued to a torn one can be missing.
JournalHoldsAcknowledged ==
  \A i \in DOMAIN accepted :
    LET lines == {j \in base + 1 .. Len(journal) :
                    journal[j] \in Events /\ journal[j].seq = i}
    IN \/ lines # {} /\ journal[Newest(lines)] = accepted[i]
       \/ \E j \in DOMAIN journal : j >= base /\ journal[j] = Garbled

\* The output file never lags behind: it holds the last acknowledged event,
\* or one of the next number that was refused or is on its way.
OutputIsNewest ==
  accepted # <<>> =>
    /\ output # None
    /\ output = accepted[Len(accepted)] \/ output.seq = next

\* Every key press is answered: a delivery ends, accepted or refused.
DeliveriesEnd == step # "keys" ~> step = "keys"

\* The session keeps the ledger: an answer in flight is not yet shown.
Shown ==
  [p \in Points |->
     IF sending # Idle /\ sending.event.kind = "answer" /\ sending.event.point = p
     THEN sending.previous ELSE responses[p]]

Ledger == INSTANCE SessionLedger WITH
  shown <- Shown,
  kept <- IF digest = None THEN NoResponses ELSE digest.responses

KeepsLedger == Ledger!Spec

-----------------------------------------------------------------------------
(* Statements of the repository that the code does not keep.               *)

\* "a visible ``saved`` state always corresponds to an acknowledged
\* transport event" (persistence.py): what is called saved was saved.
SavedMeansSaved == AtRest /\ saved => digest = Snapshot

\* "Each outbound event repeats the context identity and a monotonic session
\* sequence" (docs/AR_TUI_INTERACTION.md): the lines of a session's journal
\* never count backwards.
MonotonicSequence ==
  \A i, j \in DOMAIN journal :
    i < j /\ {journal[i], journal[j]} \subseteq Events => journal[i].seq <= journal[j].seq

=============================================================================
