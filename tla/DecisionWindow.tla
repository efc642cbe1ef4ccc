--------------------------- MODULE DecisionWindow ---------------------------
(***************************************************************************)
(* One decision batch in the desktop window and what becomes of it: the    *)
(* Coordinator's envelope turned into a packet (awtui/launcher.py and      *)
(* awg.py), the Qt window over the view-model (gui.py, live.py), its save  *)
(* adapter (persistence.py), the operator's audit (audit.py), and the      *)
(* projection of the window's events onto the AR (bridge.py).              *)
(*                                                                         *)
(* The window has no boundary and no transport: a handler changes the      *)
(* view-model first and then hands the event to a sink that may raise.     *)
(* Nothing takes the change back; Qt reports the exception and goes on,    *)
(* and the list of proposals stays as it was drawn before.                 *)
(* The Coordinator applies the recorded events one by one, in their order, *)
(* at its own pace.                                                        *)
(*                                                                         *)
(* Abstracted: a request of the envelope is the decision point it becomes; *)
(* a proposal is its label; a filter may move the cursor to any point; the *)
(* fields of the proposal form are one; documents, help and layout are     *)
(* left out.                                                               *)
(***************************************************************************)
EXTENDS Naturals, Sequences, SequencesExt

CONSTANTS
  Points,      \* the decisions an envelope can hold
  Requires,    \* Requires[p]: the points p depends on
  Offered,     \* Offered[p]: the labels its request offers, in order
  Own,         \* labels that start with "User: "; a request may offer one
  Envelopes,   \* envelopes that can be opened
  None,
  MaxAudit,    \* entries the audit keeps (max_entries)
  MaxEvents,   \* bound on the events handed to the sink
  MaxOwn,      \* bound on the length of a point's proposals
  MaxFaults    \* bound on the events at which the sink raises

Labels == Own \cup UNION {ToSet(Offered[p]) : p \in Points}

ASSUME WindowConstantsOK ==
  /\ Requires \in [Points -> SUBSET Points]
  /\ Offered \in [Points -> Seq(Labels)]
  /\ \A p \in Points : Offered[p] # <<>>
  /\ Envelopes \subseteq [top : Points \cup {None}, batch : Seq(Points)]
  /\ None \notin Points \cup Labels
  /\ MaxAudit \in Nat \ {0}
  /\ {MaxEvents, MaxOwn, MaxFaults} \subseteq Nat

VARIABLES
  envelope,   \* the Coordinator request, until the window is built
  packet,     \* the points of the window, in order
  point,      \* the point the cursor is on
  cursor,     \* the index of the proposal it is on
  proposals,  \* proposals[p]: the labels of p, the person's own included
  responses,  \* responses[p]: the answer the view-model holds for p
  saved,      \* the view-model's flag behind "saved" on the status line
  digest,     \* the snapshot of the last save the sink took
  shown,      \* the list as last drawn: "one" proposal, or "all"
  editing,    \* editing_proposal_index: the proposal to replace, or 0
  form,       \* the proposal dialog: "none", "add" or "edit"
  window,     \* "none", "open", "prompt" (the exit question) or "closed"
  sink,       \* the events recorded
  audit,      \* the audit's entries
  applied,    \* how many events the Coordinator has applied
  ar,         \* the AR's metadata
  unsent,     \* points whose last change the sink did not take; None: a save
  faults      \* events at which the sink raised so far

view == <<packet, point, cursor, proposals, responses, saved, digest, shown>>
dialogs == <<editing, form, window>>
coordinator == <<applied, ar>>
delivery == <<sink, unsent, faults>>
vars == <<envelope, view, dialogs, audit, coordinator, delivery>>

Answers ==
  [disposition : {"select"}, selected : Labels]
    \cup [disposition : {"reject", "clarify"}, selected : {None}]
Snapshots ==
  [responses : [Points -> Answers \cup {None}],
   proposals : [Points -> Seq(Labels)]]
Kinds ==
  {"answer", "reopen", "add-proposal", "request-more-evidence", "save",
   "safe-exit", "audit-view"}
\* What an entry of the audit is about: an answer goes by its disposition.
EventTypes ==
  {"select", "reject", "clarify", "reopen", "request-more-evidence", "save",
   "safe-exit"}
Events ==
  [kind : Kinds, point : Points \cup {None}, answer : Answers \cup {None},
   snapshot : Snapshots \cup {None}]
ASSUME NoneIsDistinct == None \notin Answers \cup Snapshots

\* The events that say what the answer of a point now is.
Telling == {"answer", "reopen", "add-proposal"}
NoEnvelope == [top |-> None, batch |-> <<>>]
NoResponses == [p \in Points |-> None]
NewAr == [status |-> "pending", disposition |-> None, session |-> None]

TypeOK ==
  /\ envelope \in Envelopes \cup {NoEnvelope}
  /\ packet \in Seq(Points)
  /\ point \in Points \cup {None}
  /\ point # None => cursor \in DOMAIN proposals[point]
  /\ proposals \in [Points -> Seq(Labels)]
  /\ responses \in [Points -> Answers \cup {None}]
  /\ saved \in BOOLEAN
  /\ digest \in Snapshots \cup {None}
  /\ shown \in {"one", "all"}
  /\ editing \in Nat
  /\ form \in {"none", "add", "edit"}
  /\ window \in {"none", "open", "prompt", "closed"}
  /\ sink \in Seq(Events)
  /\ audit \in Seq(EventTypes) /\ Len(audit) <= MaxAudit
  /\ applied \in 0..Len(sink)
  /\ ar.status \in {"pending", "resolved"}
  /\ ar.session \in Snapshots \cup {None}
  /\ unsent \subseteq Points \cup {None}
  /\ faults \in 0..MaxFaults

Init ==
  /\ envelope \in Envelopes
  /\ packet = <<>>
  /\ point = None
  /\ cursor = 1
  /\ proposals = Offered
  /\ responses = NoResponses
  /\ saved = FALSE
  /\ digest = None
  /\ shown = "all"
  /\ editing = 0
  /\ form = "none"
  /\ window = "none"
  /\ sink = <<>>
  /\ audit = <<>>
  /\ applied = 0
  /\ ar = NewAr
  /\ unsent = {}
  /\ faults = 0

Snapshot == [responses |-> responses, proposals |-> proposals]
Label == proposals[point][cursor]
Selected(p) == responses[p] # None /\ responses[p].disposition = "select"
Complete == \A p \in ToSet(packet) : Selected(p)
WorkRemains == ~Complete \/ ~saved
Ready == window = "open" /\ form = "none"

\* _refresh draws the list of proposals of the point: once one is selected,
\* a single row, which is the proposal under the cursor.
Refresh == shown' = IF Selected(point)' THEN "one" ELSE "all"

-----------------------------------------------------------------------------
\* Opening the window.

\* The requests of an envelope: the one at its top, then the batch, which
\* may repeat it.
Candidates(e) ==
  (IF e.top = None THEN <<>> ELSE <<e.top>>) \o e.batch

\* Mutant: a request that the batch repeats is taken twice.
Distinct_Repeated(requests) == requests

\* Each request once, at the place of its first mention.
Distinct(requests) ==
  LET unique[n \in 0..Len(requests)] ==
        IF n = 0 THEN <<>>
        ELSE IF requests[n] \in ToSet(unique[n - 1]) THEN unique[n - 1]
        ELSE Append(unique[n - 1], requests[n])
  IN  unique[Len(requests)]

Decisions(e) == Distinct(Candidates(e))

Open ==
  /\ window = "none"
  /\ packet' = Decisions(envelope)
  /\ packet' # <<>>
  /\ point' = packet'[1]
  /\ window' = "open"
  /\ envelope' = NoEnvelope
  /\ UNCHANGED <<cursor, proposals, responses, saved, digest, editing, form,
                 audit, coordinator, delivery>>
  /\ Refresh

-----------------------------------------------------------------------------
\* The sink and the audit.

Event(kind, p, answer, snapshot) ==
  [kind |-> kind, point |-> p, answer |-> answer, snapshot |-> snapshot]

\* What the sink now knows of: the answer of a point, or the saved state.
Subject(event) ==
  IF event.kind \in Telling THEN {event.point}
  ELSE IF event.kind = "save" THEN {None} ELSE {}

\* n more events can be handed to the sink.
Room(n) == Len(sink) + faults + n <= MaxEvents

\* on_event, the window's callback, returns: whoever opened the window has
\* taken the event.
Delivered(event) ==
  /\ Room(1)
  /\ sink' = Append(sink, event)
  /\ unsent' = unsent \ Subject(event)
  /\ UNCHANGED faults

\* on_event raises: the handler ends here.
Raises(event) ==
  /\ Room(1) /\ faults < MaxFaults
  /\ faults' = faults + 1
  /\ unsent' = unsent \cup Subject(event)
  /\ UNCHANGED sink

\* Mutant: a full audit takes nothing more.
Recorded_Oldest(entries) ==
  LET all == audit \o entries
  IN  SubSeq(all, 1, IF Len(all) > MaxAudit THEN MaxAudit ELSE Len(all))

\* The audit keeps its newest entries.
Recorded(entries) ==
  LET all == audit \o entries
  IN  SubSeq(all, IF Len(all) > MaxAudit THEN Len(all) - MaxAudit + 1 ELSE 1,
             Len(all))

\* What the window writes into the audit once the event is taken.
DeliverAndRecord(event, entry) ==
  \/ Delivered(event) /\ audit' = Recorded(<<entry>>)
  \/ Raises(event) /\ UNCHANGED audit

\* A handler that ends with _refresh gets there unless the sink raised.
RefreshOnceTaken == IF faults' = faults THEN Refresh ELSE UNCHANGED shown

-----------------------------------------------------------------------------
\* Moving about.

\* Mutant: the cursor stays where it was at the point before.
SelectPoint_KeepCursor(p) ==
  /\ Ready
  /\ point' = p
  /\ UNCHANGED <<envelope, packet, cursor, proposals, responses, saved, digest,
                 dialogs, audit, coordinator, delivery>>
  /\ Refresh

\* A row of the batch list, up and down, or a change of the filter.
SelectPoint(p) ==
  /\ Ready
  /\ point' = p
  /\ cursor' = 1
  /\ UNCHANGED <<envelope, packet, proposals, responses, saved, digest,
                 dialogs, audit, coordinator, delivery>>
  /\ Refresh

\* Another document is shown, or a filter that leaves the cursor where it is.
Redraw ==
  /\ Ready
  /\ UNCHANGED <<envelope, packet, point, cursor, proposals, responses, saved,
                 digest, dialogs, audit, coordinator, delivery>>
  /\ Refresh

\* The proposals in the list as it was last drawn.
Rows == IF shown = "one" THEN {cursor} ELSE DOMAIN proposals[point]

\* A row is signalled when it becomes the current one.
SelectProposal(i) ==
  /\ Ready
  /\ i \in Rows \ {cursor}
  /\ cursor' = i
  /\ UNCHANGED <<envelope, packet, point, proposals, responses, saved, digest,
                 shown, dialogs, audit, coordinator, delivery>>

\* Left and right drop the answer of the point, without an event.
MoveProposal(i) ==
  /\ Ready
  /\ i \in DOMAIN proposals[point] \cap {cursor - 1, cursor, cursor + 1}
  /\ i = cursor => i \in {1, Len(proposals[point])}
  /\ cursor' = i
  /\ responses' = [responses EXCEPT ![point] = None]
  /\ UNCHANGED <<envelope, packet, point, proposals, saved, digest,
                 dialogs, audit, coordinator, delivery>>
  /\ Refresh

-----------------------------------------------------------------------------
\* Answers.

Unblocked == \A q \in Requires[point] : Selected(q)

AnswerWith(d) ==
  [disposition |-> d, selected |-> IF d = "select" THEN Label ELSE None]

\* Mutant: a new answer does not void the last save.
Respond_StillSaved(d) ==
  LET event == Event("answer", point, AnswerWith(d), None)
  IN  /\ Ready
      /\ Unblocked
      /\ responses' = [responses EXCEPT ![point] = AnswerWith(d)]
      /\ \/ Delivered(event) /\ audit' = Recorded(<<d, d>>)
         \/ Raises(event) /\ audit' = Recorded(<<d>>)
      /\ UNCHANGED <<envelope, packet, point, cursor, proposals, saved, digest,
                     dialogs, coordinator>>
      /\ RefreshOnceTaken

\* Select, Reject and Clarify.  The view-model writes the audit before the
\* sink has seen the event, the window once more afterwards.
Respond(d) ==
  LET event == Event("answer", point, AnswerWith(d), None)
  IN  /\ Ready
      /\ Unblocked
      /\ responses' = [responses EXCEPT ![point] = AnswerWith(d)]
      /\ saved' = FALSE
      /\ \/ Delivered(event) /\ audit' = Recorded(<<d, d>>)
         \/ Raises(event) /\ audit' = Recorded(<<d>>)
      /\ UNCHANGED <<envelope, packet, point, cursor, proposals, digest,
                     dialogs, coordinator>>
      /\ RefreshOnceTaken

RequestEvidence ==
  /\ Ready
  /\ saved' = FALSE
  /\ DeliverAndRecord(Event("request-more-evidence", point, None, None),
                      "request-more-evidence")
  /\ UNCHANGED <<envelope, packet, point, cursor, proposals, responses, digest,
                 shown, dialogs, coordinator>>

\* Mutant: the event is sent and the answer stays.
Reopen_Kept ==
  /\ Ready
  /\ saved' = FALSE
  /\ DeliverAndRecord(Event("reopen", point, None, None), "reopen")
  /\ UNCHANGED <<envelope, packet, point, cursor, proposals, responses, digest,
                 dialogs, coordinator>>
  /\ RefreshOnceTaken

Reopen ==
  /\ Ready
  /\ responses' = [responses EXCEPT ![point] = None]
  /\ saved' = FALSE
  /\ DeliverAndRecord(Event("reopen", point, None, None), "reopen")
  /\ UNCHANGED <<envelope, packet, point, cursor, proposals, digest,
                 dialogs, coordinator>>
  /\ RefreshOnceTaken

\* Opening the audit pane is an event of its own.
ShowAudit ==
  /\ Ready
  /\ Delivered(Event("audit-view", None, None, None))
     \/ Raises(Event("audit-view", None, None, None))
  /\ UNCHANGED <<envelope, view, dialogs, audit, coordinator>>

-----------------------------------------------------------------------------
\* The dialog for a proposal of one's own.

\* The label alone tells whose a proposal is: one that a request offers under
\* a label of this form is edited like a person's own.
EditOwn ==
  /\ Ready
  /\ \/ /\ Label \in Own
        /\ editing' = cursor
        /\ form' = "edit"
     \/ /\ Label \notin Own
        /\ Len(proposals[point]) < MaxOwn
        /\ form' = "add"
        /\ UNCHANGED editing
  /\ UNCHANGED <<envelope, view, window, audit, coordinator, delivery>>

\* Cancelled, or confirmed with a field that is no proposal, or with an index
\* left from another point that is out of range here.  The index of the
\* proposal that was to be edited is still set.
AbandonForm ==
  /\ form # "none"
  /\ form' = "none"
  /\ UNCHANGED <<envelope, view, editing, window, audit, coordinator,
                 delivery>>

\* Mutant: the proposal under the cursor is replaced, whosever it is.
ConfirmForm_AtCursor(l) ==
  LET event == Event("add-proposal", point, None, None)
  IN  /\ form # "none"
      /\ proposals' = [proposals EXCEPT ![point][cursor] = l]
      /\ editing' = 0
      /\ responses' = [responses EXCEPT ![point] = None]
      /\ saved' = FALSE
      /\ form' = "none"
      /\ Delivered(event) \/ Raises(event)
      /\ UNCHANGED <<envelope, packet, point, cursor, digest, window, audit,
                     coordinator>>
      /\ Refresh

\* add_proposal: replace the proposal being edited, if one is, or add one.
\* The window is drawn before the sink sees the event.
ConfirmForm(l) ==
  LET event == Event("add-proposal", point, None, None)
  IN  /\ form # "none"
      /\ \/ /\ editing = 0
            /\ proposals' = [proposals EXCEPT ![point] = Append(@, l)]
            /\ cursor' = Len(proposals[point]) + 1
         \/ /\ editing \in DOMAIN proposals[point]
            /\ proposals' = [proposals EXCEPT ![point][editing] = l]
            /\ cursor' = editing
      /\ editing' = 0
      /\ responses' = [responses EXCEPT ![point] = None]
      /\ saved' = FALSE
      /\ form' = "none"
      /\ Delivered(event) \/ Raises(event)
      /\ UNCHANGED <<envelope, packet, point, digest, window, audit,
                     coordinator>>
      /\ Refresh

-----------------------------------------------------------------------------
\* Saving and leaving.

SaveEvent == Event("save", None, None, Snapshot)
Durable == saved /\ digest = Snapshot

Taken ==
  /\ saved' = TRUE
  /\ digest' = Snapshot

\* A repeated save of the same state sends nothing; the audit notes it.
Save ==
  /\ Ready
  /\ \/ /\ Durable
        /\ audit' = Recorded(<<"save">>)
        /\ UNCHANGED <<saved, digest, delivery>>
     \/ /\ ~Durable /\ Delivered(SaveEvent) /\ Taken
        /\ audit' = Recorded(<<"save">>)
     \/ /\ ~Durable /\ Raises(SaveEvent)
        /\ UNCHANGED <<saved, digest, audit>>
  /\ UNCHANGED <<envelope, packet, point, cursor, proposals, responses,
                 dialogs, coordinator>>
  /\ RefreshOnceTaken

\* closeEvent: anything unfinished is asked about.
Close ==
  /\ Ready
  /\ window' = IF WorkRemains THEN "prompt" ELSE "closed"
  /\ UNCHANGED <<envelope, view, editing, form, audit, coordinator, delivery>>

\* Save + Exit saves, says so with a second event, and closes the window,
\* which asks about points that are not selected.  The state is saved by then.
SaveExit ==
  LET goodbye == Event("safe-exit", point, None, None)
      closing ==
        /\ window' = IF Complete THEN "closed" ELSE "prompt"
        /\ audit' = Recorded(<<"safe-exit">>)
  IN  /\ Ready
      /\ \/ /\ Durable
            /\ UNCHANGED <<saved, digest>>
            /\ \/ Delivered(goodbye) /\ closing
               \/ Raises(goodbye) /\ UNCHANGED <<window, audit>>
         \/ /\ ~Durable
            /\ Room(2)
            /\ sink' = sink \o <<SaveEvent, goodbye>>
            /\ unsent' = unsent \ {None}
            /\ Taken /\ closing
            /\ UNCHANGED faults
         \/ /\ ~Durable
            /\ Room(2) /\ faults < MaxFaults
            /\ sink' = Append(sink, SaveEvent)
            /\ unsent' = unsent \ {None}
            /\ faults' = faults + 1
            /\ Taken /\ UNCHANGED <<window, audit>>
         \/ /\ ~Durable
            /\ Raises(SaveEvent)
            /\ UNCHANGED <<saved, digest, window, audit>>
      /\ UNCHANGED <<envelope, packet, point, cursor, proposals, responses,
                     shown, editing, form, coordinator>>

\* Save or Yes.  A sink that raises here does not keep the window open.
PromptSave ==
  /\ window = "prompt"
  /\ window' = "closed"
  /\ \/ /\ Durable
        /\ audit' = Recorded(<<"save">>)
        /\ UNCHANGED <<saved, digest, delivery>>
     \/ /\ ~Durable /\ Delivered(SaveEvent) /\ Taken
        /\ audit' = Recorded(<<"save">>)
     \/ /\ ~Durable /\ Raises(SaveEvent)
        /\ UNCHANGED <<saved, digest, audit>>
  /\ UNCHANGED <<envelope, packet, point, cursor, proposals, responses,
                 editing, form, coordinator>>
  /\ RefreshOnceTaken

\* Cancel or No.
PromptCancel ==
  /\ window = "prompt"
  /\ window' = "open"
  /\ UNCHANGED <<envelope, view, editing, form, audit, coordinator, delivery>>

-----------------------------------------------------------------------------
\* apply_tui_response: the events that are no decision response are refused,
\* and only a selection resolves the AR; a save puts it back to pending.

Disposition(e) == IF e.kind = "answer" THEN e.answer.disposition ELSE e.kind

\* Mutant: of a save only the disposition reaches the AR.
Projected_StatusOnly(e) ==
  [status |-> IF Disposition(e) = "select" THEN "resolved" ELSE "pending",
   disposition |-> Disposition(e),
   session |-> ar.session]

Projected(e) ==
  [status |-> IF Disposition(e) = "select" THEN "resolved" ELSE "pending",
   disposition |-> Disposition(e),
   session |-> IF e.kind = "save" THEN e.snapshot ELSE ar.session]

Apply ==
  /\ applied < Len(sink)
  /\ applied' = applied + 1
  /\ LET e == sink[applied + 1]
     IN  ar' = IF e.kind \in {"safe-exit", "audit-view"} THEN ar
               ELSE Projected(e)
  /\ UNCHANGED <<envelope, view, dialogs, audit, delivery>>

Next ==
  \/ Open
  \/ \E p \in ToSet(packet) : SelectPoint(p)
  \/ Redraw
  \/ \E i \in 1..MaxOwn : SelectProposal(i) \/ MoveProposal(i)
  \/ \E d \in {"select", "reject", "clarify"} : Respond(d)
  \/ RequestEvidence
  \/ Reopen
  \/ ShowAudit
  \/ EditOwn
  \/ AbandonForm
  \/ \E l \in Own : ConfirmForm(l)
  \/ Save
  \/ Close
  \/ SaveExit
  \/ PromptSave
  \/ PromptCancel
  \/ Apply

Spec == Init /\ [][Next]_vars

-----------------------------------------------------------------------------
\* The window shows every decision of the envelope, each once: the request
\* at the top is neither dropped nor doubled by the batch (awg.py: "Project
\* every distinct request in a Coordinator envelope").
EveryRequestIsShown ==
  [][packet' # packet =>
       /\ ToSet(packet') = ToSet(envelope.batch) \cup ({envelope.top} \ {None})
       /\ \A i, j \in DOMAIN packet' : packet'[i] = packet'[j] => i = j]_vars

\* The last event recorded on the answer of point p, or None.
LastOn(p) ==
  LET on == {i \in DOMAIN sink : sink[i].kind \in Telling /\ sink[i].point = p}
  IN  IF on = {} THEN None
      ELSE sink[CHOOSE i \in on : \A j \in on : j <= i].answer

\* An answer that the view-model holds, the one behind the mark of its point
\* and the one a save sends, is the last one recorded for the point, through
\* moves, edits, reopenings and saves, unless the sink raised when it was
\* given (live.py changes the answer before gui.py hands over the event).
AnswersAreOnRecord ==
  \A p \in Points :
    responses[p] # None => responses[p] = LastOn(p) \/ p \in unsent

\* "saved" is backed by a recorded save that holds every answer of the
\* view-model, those whose own event the sink refused among them, and every
\* proposal (persistence.py: "state changes only after durable
\* acknowledgement").
SavedIsRecorded ==
  saved =>
    /\ \E i \in DOMAIN sink : sink[i].kind = "save" /\ sink[i].snapshot = digest
    /\ digest.proposals = proposals
    /\ \A p \in Points :
         responses[p] # None => digest.responses[p] = responses[p]

\* Once the window is closed and the Coordinator has caught up, the AR holds
\* the session as the person left it; if the last save was not taken, the one
\* that was taken before it, although gui.py closes the window all the same.
ClosedSessionReachesAr ==
  window = "closed" /\ applied = Len(sink) =>
    ar.session = IF None \in unsent THEN digest ELSE Snapshot

\* No proposal is lost or moved, and the only one that is replaced is the
\* person's own that is being edited, or the one at an index that an edit
\* left behind (gui.py, where a cancelled edit keeps its index).
OnlyEditedIsReplaced ==
  [][\A p \in Points : \A i \in DOMAIN proposals[p] :
       \/ i \in DOMAIN proposals'[p] /\ proposals'[p][i] = proposals[p][i]
       \/ /\ p = point /\ i = editing
          /\ proposals[p][i] \in Own \/ form = "add"]_vars

\* The audit ends with the last event that the sink took and that is audited,
\* or with a save repeated since then, as long as the sink never raised
\* (audit.py: "what happened, when, and whether it was accepted").
AuditEndsWithLastEvent ==
  LET audited == {i \in DOMAIN sink :
                    sink[i].kind \notin {"add-proposal", "audit-view"}}
      last == CHOOSE i \in audited : \A j \in audited : j <= i
      repeated == {"save" : i \in {j \in audited : sink[j].kind = "save"}}
  IN  faults = 0 /\ audited # {} =>
        /\ audit # <<>>
        /\ audit[Len(audit)] \in {Disposition(sink[last])} \cup repeated

=============================================================================
