------------------------- MODULE TokenRegistryProofs -------------------------
(***************************************************************************)
(* Machine-checked proofs about TokenRegistry, for any number of           *)
(* processes, tokens, batches and faults.                                  *)
(*                                                                         *)
(* The inductive invariant IInv says, of the one process inside the lock,  *)
(* how its private copies relate to the files at every step (Inside), and  *)
(* of the files themselves the safety properties of the component.  The    *)
(* last section adds BInv, for session files that are not shared.          *)
(***************************************************************************)
EXTENDS TokenRegistry, TLAPS

Spent == {"consumed", "revoked"}

\* Arguments an operation carries once it holds the lock.
CallShape(p) ==
  /\ call[p].op \in Ops
  /\ call[p].op \in {"publish", "issue"} => call[p].batch \in Batches
  /\ call[p].op \in {"consume", "revoke"} => call[p].token \in Tokens
  /\ pc[p] \in {"write_journal", "write_request", "write_registry",
                "unlink_journal"} => call[p].token \in Tokens
  /\ pc[p] \in {"write_journal", "write_request", "unlink_journal"}
       => call[p].op = "publish"
  /\ call[p].ok => pc[p] = "release" /\ call[p].token \in Tokens

\* A replay works on the journal that is on disk.
ReplayShape(p) ==
  /\ pc[p] \in {"replay_request", "replay_registry", "replay_unlink"}
       => replay[p] = journal /\ journal # NoJournal
  /\ pc[p] = "replay_unlink" => registry = journal.registry

Publishing(p) ==
  \/ pc[p] \in {"write_request", "unlink_journal"}
  \/ pc[p] = "write_registry" /\ call[p].op = "publish"

Deciding(p) ==
  \/ pc[p] \in {"read", "write_journal"}
  \/ pc[p] = "write_registry" /\ call[p].op # "publish"

Allocated(p) ==
  /\ registry[call[p].token] = Absent
  /\ values[p] = [registry EXCEPT ![call[p].token] =
                    [status |-> "active", batch |-> call[p].batch]]

Marked(p, status) ==
  /\ registry[call[p].token] # Absent
  /\ values[p] = [registry EXCEPT ![call[p].token] =
                    [status |-> status, batch |-> @.batch]]

\* What is about to be written is the file as it is, with one record changed.
WriteShape(p) ==
  /\ Deciding(p) => journal = NoJournal
  /\ Publishing(p) =>
       /\ journal = [batch |-> call[p].batch, registry |-> values[p]]
       /\ values[p][call[p].token] # Absent
  /\ pc[p] = "unlink_journal" => registry = values[p]
  /\ pc[p] = "write_journal" => Allocated(p)
  /\ pc[p] = "write_registry" =>
       /\ call[p].op = "issue" => Allocated(p)
       /\ call[p].op = "revoke" => Marked(p, "revoked")
       /\ call[p].op = "consume" =>
            /\ Marked(p, "consumed")
            /\ registry[call[p].token].status = "active"

\* What a successful call is about to tell its caller is already durable.
OutcomeShape(p) ==
  /\ Returns(p, "publish") \/ Returns(p, "issue") => View[call[p].token] # Absent
  /\ Returns(p, "consume") =>
       /\ View[call[p].token].status \in Spent
       /\ call[p].token \notin completed

Inside(p) ==
  pc[p] \in LockedSteps =>
    /\ lock = p
    /\ CallShape(p)
    /\ ReplayShape(p)
    /\ WriteShape(p)
    /\ OutcomeShape(p)

IInv ==
  /\ TypeOK
  /\ \A p \in Procs : Inside(p)
  /\ ReplayKeepsRecords
  /\ PrintedIsDurable
  /\ CompletedIsSpent

-----------------------------------------------------------------------------
(* Facts about values.                                                     *)

\* The empty registry is one, and a status change keeps a record a record.
LEMMA RegistryFacts ==
  /\ EmptyRegistry \in Registry
  /\ NoJournal \in Journal
  /\ NoCall \in Call
  /\ \A r \in Registry, t \in Tokens, b \in Batches :
       [r EXCEPT ![t] = [status |-> "active", batch |-> b]] \in Registry
  /\ \A r \in Registry, t \in Tokens, s \in {"active", "consumed", "revoked"} :
       r[t] # Absent => [r EXCEPT ![t] = [status |-> s, batch |-> @.batch]] \in Registry
  /\ \A r \in Registry, b \in Batches : [batch |-> b, registry |-> r] # NoJournal
BY ConstantsOK
   DEF EmptyRegistry, Registry, Record, Absent, NoJournal, Journal, NoCall, Call

\* A journal that exists holds a batch and a registry.
LEMMA JournalFacts ==
  ASSUME NEW j \in Journal, j # NoJournal
  PROVE  j.batch \in Batches /\ j.registry \in Registry
BY DEF Journal, NoJournal

\* The logical registry is a registry.
LEMMA ViewType == TypeOK => View \in Registry
BY JournalFacts DEF TypeOK, View

\* Marking a call as successful changes nothing else of it.
LEMMA SetOk ==
  ASSUME NEW c \in Call, c.op # "none"
  PROVE  /\ [c EXCEPT !.ok = TRUE] \in Call
         /\ [c EXCEPT !.ok = TRUE].ok
         /\ [c EXCEPT !.ok = TRUE].op = c.op
         /\ [c EXCEPT !.ok = TRUE].token = c.token
         /\ [c EXCEPT !.ok = TRUE].batch = c.batch
<1>1. c \in [op : Ops, token : Tokens \cup {None}, batch : Batches \cup {None},
             ok : BOOLEAN]
  BY DEF Call, NoCall
<1>2. [c EXCEPT !.ok = TRUE] \in
        [op : Ops, token : Tokens \cup {None}, batch : Batches \cup {None},
         ok : BOOLEAN]
  BY <1>1
<1>3. /\ [c EXCEPT !.ok = TRUE].ok = TRUE
      /\ [c EXCEPT !.ok = TRUE].op = c.op
      /\ [c EXCEPT !.ok = TRUE].token = c.token
      /\ [c EXCEPT !.ok = TRUE].batch = c.batch
  BY <1>1
<1> QED
  BY <1>2, <1>3 DEF Call

\* While p is inside the lock no other process is.
LEMMA Alone ==
  ASSUME IInv, NEW p \in Procs, pc[p] \in LockedSteps,
         NEW q \in Procs, q # p
  PROVE  pc[q] \notin LockedSteps
BY DEF IInv, Inside

-----------------------------------------------------------------------------
(* The invariant holds initially.                                          *)

LEMMA InitInv == Init => IInv
<1> SUFFICES ASSUME Init PROVE IInv
  OBVIOUS
<1>1. TypeOK
  BY RegistryFacts, ConstantsOK DEF Init, TypeOK, Steps
<1>2. \A p \in Procs : Inside(p)
  BY DEF Init, Inside, LockedSteps, WriteSteps
<1>3. ReplayKeepsRecords /\ PrintedIsDurable /\ CompletedIsSpent
  BY DEF Init, ReplayKeepsRecords, PrintedIsDurable, CompletedIsSpent
<1> QED
  BY <1>1, <1>2, <1>3 DEF IInv

-----------------------------------------------------------------------------
(* Every step preserves it: one lemma per action.                          *)

\* Asking for the lock, or giving up, touches nothing but the caller's pc.
LEMMA WaitInv ==
  ASSUME IInv, NEW p \in Procs, Ask(p) \/ AcquireTimeout(p)
  PROVE  IInv'
<1>1. TypeOK'
  BY DEF IInv, TypeOK, Ask, AcquireTimeout, Goto, files, local, history,
         Steps, LockedSteps, WriteSteps
<1>2. pc'[p] \notin LockedSteps /\ \A q \in Procs : q # p => pc'[q] = pc[q]
  BY DEF IInv, TypeOK, Ask, AcquireTimeout, Goto, LockedSteps, WriteSteps
<1>3. UNCHANGED <<files, lock, local, history>>
  BY DEF Ask, AcquireTimeout
<1>4. ASSUME NEW q \in Procs PROVE Inside(q)'
  <2>1. CASE q = p
    BY <1>2, <2>1 DEF Inside
  <2>2. CASE q # p
    <3>1. Inside(q)
      BY DEF IInv
    <3>2. pc'[q] = pc[q]
      BY <1>2, <2>2
    <3> QED
      BY <1>3, <3>1, <3>2
         DEF Inside, CallShape, ReplayShape, WriteShape, OutcomeShape,
             Deciding, Publishing, Allocated, Marked, Returns, View,
             files, local, history
  <2> QED
    BY <2>1, <2>2
<1>5. (ReplayKeepsRecords /\ PrintedIsDurable /\ CompletedIsSpent)'
  BY <1>3 DEF IInv, ReplayKeepsRecords, PrintedIsDurable, CompletedIsSpent,
              View, files, history
<1> QED
  BY <1>1, <1>4, <1>5 DEF IInv

\* Entering: nobody was inside, so the files are at rest.
LEMMA EnterInv ==
  ASSUME IInv, NEW p \in Procs, Acquire(p)
  PROVE  IInv'
<1>1. PICK op \in Ops, t \in Tokens \cup {None}, b \in Batches \cup {None} :
        /\ Enter(p, op, t, b)
        /\ op \in {"publish", "issue"} => b \in Batches
        /\ op \in {"consume", "revoke"} => t \in Tokens
  BY DEF IInv, TypeOK, Acquire, EnterPublish, EnterIssue, EnterConsume,
         EnterRevoke, Presented, Ops
<1>2. TypeOK'
  BY <1>1 DEF IInv, TypeOK, Enter, Goto, Call, files, history,
              Steps, LockedSteps, WriteSteps
<1>3. \A q \in Procs : q # p => pc'[q] \notin LockedSteps
  BY <1>1, ConstantsOK DEF IInv, TypeOK, Inside, Enter, Goto
<1>4. Inside(p)'
  BY <1>1 DEF IInv, TypeOK, Inside, Enter, Goto, CallShape, ReplayShape,
              WriteShape, OutcomeShape, Deciding, Publishing, Returns
<1>5. \A q \in Procs : Inside(q)'
  BY <1>3, <1>4 DEF Inside
<1>6. (ReplayKeepsRecords /\ PrintedIsDurable /\ CompletedIsSpent)'
  BY <1>1 DEF IInv, ReplayKeepsRecords, PrintedIsDurable, CompletedIsSpent,
              View, Enter, files, history
<1> QED
  BY <1>2, <1>5, <1>6 DEF IInv

\* A step of the process inside the lock leaves every other one outside.
LEMMA OthersStayOut ==
  ASSUME IInv, NEW p \in Procs, pc[p] \in LockedSteps,
         NEW s, pc' = [pc EXCEPT ![p] = s]
  PROVE  \A q \in Procs : q # p => Inside(q)'
BY Alone DEF Inside, IInv, TypeOK

\* While the logical registry and the histories stand still, so do the
\* properties about them.
LEMMA QuietStep ==
  ASSUME IInv, View' = View, UNCHANGED history
  PROVE  (PrintedIsDurable /\ CompletedIsSpent)'
BY DEF IInv, PrintedIsDurable, CompletedIsSpent, history

LEMMA RecoverInv ==
  ASSUME IInv, NEW p \in Procs, NothingToRecover(p) \/ LoadJournal(p)
  PROVE  IInv'
<1> USE DEF NothingToRecover, LoadJournal, Goto, files, local, history
<1>1. TypeOK'
  BY DEF IInv, TypeOK, Steps, LockedSteps, WriteSteps
<1>2. pc[p] \in LockedSteps
  BY DEF LockedSteps
<1>3. \A q \in Procs : q # p => Inside(q)'
  BY <1>2, OthersStayOut
<1>4. Inside(p)'
  BY <1>2 DEF IInv, TypeOK, Inside, CallShape, ReplayShape, WriteShape,
              OutcomeShape, Deciding, Publishing, Returns
<1>5. (ReplayKeepsRecords /\ PrintedIsDurable /\ CompletedIsSpent)'
  BY QuietStep DEF View, IInv, ReplayKeepsRecords
<1> QED
  BY <1>1, <1>3, <1>4, <1>5 DEF IInv

LEMMA ReplayRequestInv ==
  ASSUME IInv, NEW p \in Procs, ReplayRequest(p)
  PROVE  IInv'
<1> USE DEF ReplayRequest, Goto, local, history
<1>1. pc[p] \in LockedSteps /\ Inside(p)
  BY DEF LockedSteps, WriteSteps, IInv
<1>2. replay[p].batch \in Batches
  BY <1>1, JournalFacts DEF IInv, TypeOK, Inside, ReplayShape
<1>3. TypeOK'
  BY <1>2, ConstantsOK DEF IInv, TypeOK, Steps, LockedSteps, WriteSteps
<1>4. \A q \in Procs : q # p => Inside(q)'
  BY <1>1, OthersStayOut
<1>5. Inside(p)'
  BY <1>1 DEF IInv, TypeOK, Inside, CallShape, ReplayShape, WriteShape,
              OutcomeShape, Deciding, Publishing, Returns
<1>6. (ReplayKeepsRecords /\ PrintedIsDurable /\ CompletedIsSpent)'
  BY QuietStep DEF View, IInv, ReplayKeepsRecords
<1> QED
  BY <1>3, <1>4, <1>5, <1>6 DEF IInv

LEMMA ReplayRegistryInv ==
  ASSUME IInv, NEW p \in Procs, ReplayRegistry(p)
  PROVE  IInv'
<1> USE DEF ReplayRegistry, Goto, local, history
<1>1. pc[p] \in LockedSteps /\ Inside(p)
  BY DEF LockedSteps, WriteSteps, IInv
<1>2. replay[p] = journal /\ journal # NoJournal /\ registry' = journal.registry
  BY <1>1 DEF Inside, ReplayShape
<1>3. TypeOK'
  BY <1>2, JournalFacts DEF IInv, TypeOK, Steps, LockedSteps, WriteSteps
<1>4. \A q \in Procs : q # p => Inside(q)'
  BY <1>1, OthersStayOut
<1>5. Inside(p)'
  BY <1>1, <1>2 DEF IInv, TypeOK, Inside, CallShape, ReplayShape, WriteShape,
              OutcomeShape, Deciding, Publishing, Returns
<1>6. (ReplayKeepsRecords /\ PrintedIsDurable /\ CompletedIsSpent)'
  BY <1>2, QuietStep DEF View, IInv, ReplayKeepsRecords
<1> QED
  BY <1>3, <1>4, <1>5, <1>6 DEF IInv

\* The journal goes only once the registry file says what it says.
LEMMA ReplayUnlinkInv ==
  ASSUME IInv, NEW p \in Procs, ReplayUnlink(p)
  PROVE  IInv'
<1> USE DEF ReplayUnlink, Goto, history
<1>1. pc[p] \in LockedSteps /\ Inside(p)
  BY DEF LockedSteps, WriteSteps, IInv
<1>2. journal # NoJournal /\ registry = journal.registry
  BY <1>1 DEF Inside, ReplayShape
<1>3. TypeOK'
  BY RegistryFacts DEF IInv, TypeOK, Steps, LockedSteps, WriteSteps
<1>4. \A q \in Procs : q # p => Inside(q)'
  BY <1>1, OthersStayOut
<1>5. Inside(p)'
  BY <1>1 DEF IInv, TypeOK, Inside, CallShape, ReplayShape, WriteShape,
              OutcomeShape, Deciding, Publishing, Returns
<1>6. (ReplayKeepsRecords /\ PrintedIsDurable /\ CompletedIsSpent)'
  BY <1>2, QuietStep DEF View, IInv, ReplayKeepsRecords
<1> QED
  BY <1>3, <1>4, <1>5, <1>6 DEF IInv

LEMMA AllocateInv ==
  ASSUME IInv, NEW p \in Procs, ReadToPublish(p) \/ ReadToIssue(p)
  PROVE  IInv'
<1> USE DEF files, history
<1>1. PICK t \in Tokens, s \in {"write_journal", "write_registry"} :
        /\ Allocate(p, t, s)
        /\ s = "write_journal" => call[p].op = "publish"
        /\ s = "write_registry" => call[p].op = "issue"
  <2>1. CASE ReadToPublish(p)
    BY <2>1 DEF ReadToPublish
  <2>2. CASE ReadToIssue(p)
    BY <2>2 DEF ReadToIssue
  <2> QED
    BY <2>1, <2>2
<1>2. UNCHANGED <<files, lock, replay, history, faults>>
  BY DEF ReadToPublish, ReadToIssue
<1> USE DEF Allocate, Goto
<1>3. pc[p] \in LockedSteps /\ Inside(p)
  BY <1>1 DEF LockedSteps, WriteSteps, IInv
<1>4. call[p].batch \in Batches /\ call[p] \in Call /\ call[p] # NoCall
  BY <1>1, <1>3 DEF IInv, TypeOK, Inside, CallShape, NoCall
<1>5. TypeOK'
  <2>1. values' \in [Procs -> Registry]
    BY <1>1, <1>4, RegistryFacts DEF IInv, TypeOK
  <2>2. [call[p] EXCEPT !.token = t] \in Call
    BY <1>4 DEF Call
  <2>3. call' \in [Procs -> Call]
    BY <1>1, <2>2 DEF IInv, TypeOK
  <2> QED
    BY <1>1, <1>2, <2>1, <2>3 DEF IInv, TypeOK, Steps, LockedSteps, WriteSteps
<1>6. \A q \in Procs : q # p => Inside(q)'
  BY <1>1, <1>3, OthersStayOut
<1>7. /\ call'[p] = [call[p] EXCEPT !.token = t]
      /\ values'[p] = [registry EXCEPT ![t] =
                         [status |-> "active", batch |-> call[p].batch]]
      /\ pc'[p] = s /\ registry[t] = Absent
  BY <1>1 DEF IInv, TypeOK
<1>8. /\ call'[p].token = t /\ call'[p].op = call[p].op
      /\ call'[p].batch = call[p].batch /\ call'[p].ok = call[p].ok
  BY <1>4, <1>7 DEF Call
<1>9. Inside(p)'
  <2>1. CallShape(p)'
    BY <1>1, <1>3, <1>7, <1>8 DEF Inside, CallShape
  <2>2. ReplayShape(p)'
    BY <1>7 DEF ReplayShape
  <2>3. WriteShape(p)'
    <3>1. journal' = NoJournal /\ Allocated(p)'
      BY <1>1, <1>2, <1>3, <1>7, <1>8
         DEF Inside, WriteShape, Deciding, Allocated
    <3> QED
      BY <1>1, <1>7, <1>8, <3>1 DEF WriteShape, Deciding, Publishing
  <2>4. OutcomeShape(p)'
    BY <1>1, <1>3, <1>8 DEF Inside, CallShape, OutcomeShape, Returns
  <2> QED
    BY <1>2, <1>3, <2>1, <2>2, <2>3, <2>4 DEF Inside
<1>10. (PrintedIsDurable /\ CompletedIsSpent)'
  BY <1>2, QuietStep DEF View
<1>11. ReplayKeepsRecords'
  BY <1>2 DEF IInv, ReplayKeepsRecords
<1> QED
  BY <1>5, <1>6, <1>9, <1>10, <1>11 DEF IInv

LEMMA MarkInv ==
  ASSUME IInv, NEW p \in Procs, ReadToConsume(p) \/ ReadToRevoke(p)
  PROVE  IInv'
<1> DEFINE t == call[p].token
<1> USE DEF history
<1>1. PICK s \in {"consumed", "revoked"} :
        /\ Mark(p, s)
        /\ s = "consumed" => call[p].op = "consume" /\ registry[t].status = "active"
        /\ s = "revoked" => call[p].op = "revoke"
        /\ registry[t] # Absent
  <2>1. CASE ReadToConsume(p)
    BY <2>1 DEF ReadToConsume, Absent
  <2>2. CASE ReadToRevoke(p)
    BY <2>2 DEF ReadToRevoke
  <2> QED
    BY <2>1, <2>2
<1> USE DEF Mark, Goto
<1>2. pc[p] \in LockedSteps /\ Inside(p)
  BY <1>1 DEF LockedSteps, WriteSteps, IInv
<1>3. t \in Tokens
  BY <1>1, <1>2 DEF Inside, CallShape
<1>4. TypeOK'
  <2>1. values' \in [Procs -> Registry]
    BY <1>1, <1>3, RegistryFacts DEF IInv, TypeOK
  <2> QED
    BY <1>1, <2>1 DEF IInv, TypeOK, Steps, LockedSteps, WriteSteps, files
<1>5. \A q \in Procs : q # p => Inside(q)'
  BY <1>1, <1>2, OthersStayOut
<1>6. /\ values'[p] = [registry EXCEPT ![t] = [status |-> s, batch |-> @.batch]]
      /\ pc'[p] = "write_registry"
      /\ UNCHANGED <<files, call, lock>>
  BY <1>1 DEF IInv, TypeOK
<1>7. Inside(p)'
  <2>1. CallShape(p)'
    BY <1>2, <1>3, <1>6, <1>1 DEF Inside, CallShape
  <2>2. ReplayShape(p)'
    BY <1>6 DEF ReplayShape
  <2>3. Marked(p, s)'
    BY <1>1, <1>6 DEF Marked, files
  <2>4. WriteShape(p)'
    BY <1>1, <1>2, <1>6, <2>3 DEF Inside, WriteShape, Deciding, Publishing, files
  <2>5. OutcomeShape(p)'
    BY <1>1, <1>2, <1>6 DEF Inside, CallShape, OutcomeShape, Returns
  <2> QED
    BY <1>2, <1>6, <2>1, <2>2, <2>4, <2>5 DEF Inside
<1>8. (PrintedIsDurable /\ CompletedIsSpent)'
  BY <1>1, QuietStep DEF View, files
<1>9. ReplayKeepsRecords'
  BY <1>1 DEF IInv, ReplayKeepsRecords, files
<1> QED
  BY <1>4, <1>5, <1>7, <1>8, <1>9 DEF IInv

\* Being refused, or failing in a write, ends the operation with the files
\* as they are.
LEMMA GiveUpInv ==
  ASSUME IInv, NEW p \in Procs, ReadRefused(p) \/ WriteFails(p)
  PROVE  IInv'
<1> USE DEF history
<1>1. /\ pc[p] \in LockedSteps \ {"release"}
      /\ pc' = [pc EXCEPT ![p] = "release"]
      /\ UNCHANGED <<files, lock, local, history>>
      /\ faults' \in 0..MaxFaults
  <2>1. CASE ReadRefused(p)
    BY <2>1 DEF ReadRefused, Goto, LockedSteps, WriteSteps, IInv, TypeOK
  <2>2. CASE WriteFails(p)
    BY <2>2, ConstantsOK DEF WriteFails, LockedSteps, WriteSteps, IInv, TypeOK
  <2> QED
    BY <2>1, <2>2
<1>2. Inside(p)
  BY DEF IInv
<1>3. TypeOK'
  BY <1>1 DEF IInv, TypeOK, Steps, LockedSteps, files, local
<1>4. \A q \in Procs : q # p => Inside(q)'
  BY <1>1, OthersStayOut
<1>5. Inside(p)'
  <2>1. call'[p] = call[p] /\ pc'[p] = "release" /\ lock' = lock
    BY <1>1 DEF local, IInv, TypeOK
  <2>2. ~call[p].ok
    BY <1>1, <1>2 DEF Inside, CallShape
  <2> QED
    BY <1>1, <1>2, <2>1, <2>2
       DEF Inside, CallShape, ReplayShape, WriteShape, OutcomeShape,
           Deciding, Publishing, Returns
<1>6. (PrintedIsDurable /\ CompletedIsSpent)'
  BY <1>1, QuietStep DEF View, files
<1>7. ReplayKeepsRecords'
  BY <1>1 DEF IInv, ReplayKeepsRecords, files
<1> QED
  BY <1>3, <1>4, <1>5, <1>6, <1>7 DEF IInv

\* The commit point of a publication: from here on the view holds the token,
\* and every record it held before.
LEMMA WriteJournalInv ==
  ASSUME IInv, NEW p \in Procs, WriteJournal(p)
  PROVE  IInv'
<1> DEFINE t == call[p].token
<1> USE DEF WriteJournal, Goto, local, history
<1>1. pc[p] \in LockedSteps /\ Inside(p)
  BY DEF LockedSteps, WriteSteps, IInv
<1>2. /\ journal = NoJournal /\ Allocated(p) /\ t \in Tokens
      /\ call[p].op = "publish" /\ call[p].batch \in Batches
      /\ values[p] \in Registry
  BY <1>1 DEF Inside, CallShape, WriteShape, Deciding, IInv, TypeOK
<1>3. journal' # NoJournal /\ journal' \in Journal
  BY <1>2, RegistryFacts DEF Journal
<1>4. /\ View = registry
      /\ View' = values[p]
  BY <1>2, <1>3 DEF View
<1>5. \A u \in Tokens : View[u] # Absent => View'[u] = View[u]
  BY <1>2, <1>4 DEF Allocated, IInv, TypeOK, Registry
<1>6. TypeOK'
  BY <1>3 DEF IInv, TypeOK, Steps, LockedSteps, WriteSteps
<1>7. \A q \in Procs : q # p => Inside(q)'
  BY <1>1, OthersStayOut
<1>8. Inside(p)'
  <2>1. pc'[p] = "write_request"
    BY DEF IInv, TypeOK
  <2>2. CallShape(p)' /\ ReplayShape(p)' /\ OutcomeShape(p)'
    BY <1>1, <1>2, <2>1
       DEF Inside, CallShape, ReplayShape, OutcomeShape, Returns
  <2>3. values[p][t] # Absent
    BY <1>2 DEF Allocated, IInv, TypeOK, Registry, Absent
  <2>4. WriteShape(p)'
    BY <2>1, <2>3 DEF WriteShape, Deciding, Publishing
  <2> QED
    BY <1>1, <2>2, <2>4 DEF Inside
<1>9. (PrintedIsDurable /\ CompletedIsSpent)'
  BY <1>5 DEF IInv, TypeOK, PrintedIsDurable, CompletedIsSpent, Absent
<1>10. ReplayKeepsRecords'
  BY <1>4, <1>5 DEF ReplayKeepsRecords
<1> QED
  BY <1>6, <1>7, <1>8, <1>9, <1>10 DEF IInv

LEMMA WriteRequestInv ==
  ASSUME IInv, NEW p \in Procs, WriteRequest(p)
  PROVE  IInv'
<1> USE DEF WriteRequest, Goto, local, history
<1>1. pc[p] \in LockedSteps /\ Inside(p)
  BY DEF LockedSteps, WriteSteps, IInv
<1>2. call[p].op = "publish" /\ call[p].batch \in Batches
  BY <1>1 DEF Inside, CallShape
<1>3. TypeOK'
  BY <1>2, ConstantsOK DEF IInv, TypeOK, Steps, LockedSteps, WriteSteps
<1>4. \A q \in Procs : q # p => Inside(q)'
  BY <1>1, OthersStayOut
<1>5. Inside(p)'
  <2>1. pc'[p] = "write_registry"
    BY DEF IInv, TypeOK
  <2>2. CallShape(p)' /\ ReplayShape(p)' /\ OutcomeShape(p)'
    BY <1>1, <1>2, <2>1
       DEF Inside, CallShape, ReplayShape, OutcomeShape, Returns
  <2>3. WriteShape(p)'
    BY <1>1, <1>2, <2>1 DEF Inside, WriteShape, Deciding, Publishing
  <2> QED
    BY <1>1, <2>2, <2>3 DEF Inside
<1>6. (ReplayKeepsRecords /\ PrintedIsDurable /\ CompletedIsSpent)'
  BY QuietStep DEF View, IInv, ReplayKeepsRecords
<1> QED
  BY <1>3, <1>4, <1>5, <1>6 DEF IInv

\* In publish_batch the registry file catches up with the journal.
LEMMA WritePublishedInv ==
  ASSUME IInv, NEW p \in Procs, WriteRegistry(p), call[p].op = "publish"
  PROVE  IInv'
<1> USE DEF WriteRegistry, Goto, history
<1>1. pc[p] \in LockedSteps /\ Inside(p)
  BY DEF LockedSteps, WriteSteps, IInv
<1>2. /\ pc' = [pc EXCEPT ![p] = "unlink_journal"]
      /\ registry' = values[p] /\ UNCHANGED <<call, lock, values, journal>>
      /\ journal = [batch |-> call[p].batch, registry |-> values[p]]
      /\ values[p][call[p].token] # Absent
      /\ call[p].batch \in Batches /\ values[p] \in Registry
  BY <1>1 DEF Inside, CallShape, WriteShape, Publishing, IInv, TypeOK
<1>3. journal # NoJournal
  BY <1>2, RegistryFacts
<1>4. TypeOK'
  BY <1>2 DEF IInv, TypeOK, Steps, LockedSteps, WriteSteps
<1>5. \A q \in Procs : q # p => Inside(q)'
  BY <1>1, <1>2, OthersStayOut
<1>6. View' = View /\ journal'.registry = registry'
  BY <1>2, <1>3 DEF View
<1>7. Inside(p)'
  <2>1. pc'[p] = "unlink_journal"
    BY <1>2 DEF IInv, TypeOK
  <2>2. CallShape(p)' /\ ReplayShape(p)' /\ OutcomeShape(p)'
    BY <1>1, <1>2, <2>1
       DEF Inside, CallShape, ReplayShape, OutcomeShape, Returns
  <2>3. WriteShape(p)'
    BY <1>2, <2>1 DEF WriteShape, Deciding, Publishing
  <2> QED
    BY <1>1, <1>2, <2>1, <2>2, <2>3 DEF Inside
<1>8. (PrintedIsDurable /\ CompletedIsSpent)'
  BY <1>6, QuietStep
<1>9. ReplayKeepsRecords'
  BY <1>6 DEF ReplayKeepsRecords
<1> QED
  BY <1>4, <1>5, <1>7, <1>8, <1>9 DEF IInv

\* Elsewhere this write is the commit point: one record changes, a token
\* that was spent stays spent, and a consumed one was reported to nobody.
LEMMA WriteChangeInv ==
  ASSUME IInv, NEW p \in Procs, WriteRegistry(p), call[p].op # "publish"
  PROVE  IInv'
<1> DEFINE t == call[p].token
<1> USE DEF WriteRegistry, Goto, history
<1>1. pc[p] \in LockedSteps /\ Inside(p)
  BY DEF LockedSteps, WriteSteps, IInv
<1>2. /\ pc' = [pc EXCEPT ![p] = "release"]
      /\ registry' = values[p] /\ UNCHANGED <<lock, journal>>
      /\ call' = [call EXCEPT ![p].ok = TRUE]
      /\ journal = NoJournal /\ t \in Tokens /\ values[p] \in Registry
      /\ call[p] \in Call
  BY <1>1 DEF Inside, CallShape, WriteShape, Deciding, Succeed, IInv, TypeOK
<1>3. PICK s \in {"active", "consumed", "revoked"}, b \in Batches :
        /\ values[p] = [registry EXCEPT ![t] = [status |-> s, batch |-> b]]
        /\ s = "active" => registry[t] = Absent
        /\ call[p].op = "consume" =>
             s = "consumed" /\ registry[t].status = "active"
  <2> USE DEF Inside, CallShape, WriteShape, Allocated, Marked
  <2>1. registry \in Registry /\ (registry[t] # Absent => registry[t].batch \in Batches)
    BY <1>2 DEF IInv, TypeOK, Registry, Record
  <2>2. CASE call[p].op = "issue"
    BY <1>1, <2>2
  <2>3. CASE call[p].op = "consume"
    BY <1>1, <1>2, <2>1, <2>3 DEF Registry
  <2>4. CASE call[p].op = "revoke"
    BY <1>1, <1>2, <2>1, <2>4 DEF Registry
  <2> QED
    BY <1>1, <2>2, <2>3, <2>4 DEF Ops
<1>4. View = registry /\ View' = values[p] /\ registry \in Registry
  BY <1>2 DEF View, IInv, TypeOK
<1>5. /\ \A u \in Tokens : u # t => View'[u] = View[u]
      /\ View'[t] = [status |-> s, batch |-> b]
  BY <1>2, <1>3, <1>4 DEF Registry
<1>6. /\ call'[p].ok /\ call'[p].op = call[p].op /\ call'[p].token = t
      /\ call' \in [Procs -> Call]
      /\ call'[p].batch = call[p].batch /\ call[p].op # "none"
  <2>1. call[p].op # "none"
    BY <1>1 DEF Inside, CallShape, Ops
  <2>2. [call[p] EXCEPT !.ok = TRUE] \in Call
    BY <1>2, <2>1, SetOk
  <2>3. call' \in [Procs -> Call] /\ call'[p] = [call[p] EXCEPT !.ok = TRUE]
    BY <1>2, <2>2 DEF IInv, TypeOK
  <2> QED
    BY <1>2, <2>1, <2>3, SetOk
<1>7. TypeOK'
  BY <1>2, <1>6 DEF IInv, TypeOK, Steps, LockedSteps, WriteSteps
<1>8. \A q \in Procs : q # p => Inside(q)'
  BY <1>1, <1>2, OthersStayOut
<1>9. Inside(p)'
  <2>1. pc'[p] = "release"
    BY <1>2 DEF IInv, TypeOK
  <2>2. CallShape(p)' /\ ReplayShape(p)' /\ WriteShape(p)'
    BY <1>1, <1>2, <1>6, <2>1
       DEF Inside, CallShape, ReplayShape, WriteShape, Deciding, Publishing
  <2>3. View'[t] # Absent
    BY <1>5 DEF Absent
  <2>4. call[p].op = "consume" => View'[t].status \in Spent /\ t \notin completed
    BY <1>3, <1>4, <1>5 DEF IInv, CompletedIsSpent, Spent
  <2>5. OutcomeShape(p)'
    BY <1>6, <2>3, <2>4 DEF OutcomeShape, Returns
  <2> QED
    BY <1>1, <1>2, <2>1, <2>2, <2>5 DEF Inside
<1>10. PrintedIsDurable'
  BY <1>5 DEF IInv, TypeOK, PrintedIsDurable, Absent
<1>11. CompletedIsSpent'
  BY <1>3, <1>4, <1>5 DEF IInv, TypeOK, CompletedIsSpent, Absent
<1>12. ReplayKeepsRecords'
  BY <1>2 DEF ReplayKeepsRecords
<1> QED
  BY <1>7, <1>8, <1>9, <1>10, <1>11, <1>12 DEF IInv

LEMMA UnlinkJournalInv ==
  ASSUME IInv, NEW p \in Procs, UnlinkJournal(p)
  PROVE  IInv'
<1> DEFINE t == call[p].token
<1> USE DEF UnlinkJournal, Goto, Succeed, history
<1>1. pc[p] \in LockedSteps /\ Inside(p)
  BY DEF LockedSteps, WriteSteps, IInv
<1>2. /\ call[p].op = "publish" /\ t \in Tokens /\ call[p] \in Call
      /\ journal = [batch |-> call[p].batch, registry |-> registry]
      /\ journal # NoJournal
      /\ registry[t] # Absent
  BY <1>1, RegistryFacts
     DEF Inside, CallShape, WriteShape, Publishing, IInv, TypeOK
<1>3. View' = View
  BY <1>2 DEF View
<1>4. /\ call'[p].ok /\ call'[p].op = call[p].op /\ call'[p].token = t
      /\ call' \in [Procs -> Call]
      /\ call'[p].batch = call[p].batch
  <2>1. [call[p] EXCEPT !.ok = TRUE] \in Call
    BY <1>2, SetOk
  <2>2. call' \in [Procs -> Call] /\ call'[p] = [call[p] EXCEPT !.ok = TRUE]
    BY <2>1 DEF IInv, TypeOK
  <2> QED
    BY <1>2, <2>2, SetOk
<1>5. TypeOK'
  BY <1>4, RegistryFacts DEF IInv, TypeOK, Steps, LockedSteps, WriteSteps
<1>6. \A q \in Procs : q # p => Inside(q)'
  BY <1>1, OthersStayOut
<1>7. Inside(p)'
  <2>1. pc'[p] = "release"
    BY DEF IInv, TypeOK
  <2>2. CallShape(p)' /\ ReplayShape(p)' /\ WriteShape(p)'
    BY <1>1, <1>2, <1>4, <2>1
       DEF Inside, CallShape, ReplayShape, WriteShape, Deciding, Publishing
  <2>3. View[t] # Absent
    BY <1>2 DEF View
  <2>4. OutcomeShape(p)'
    BY <1>2, <1>3, <1>4, <2>3 DEF OutcomeShape, Returns
  <2> QED
    BY <1>1, <2>1, <2>2, <2>4 DEF Inside
<1>8. (PrintedIsDurable /\ CompletedIsSpent)'
  BY <1>3, QuietStep
<1>9. ReplayKeepsRecords'
  BY DEF ReplayKeepsRecords
<1> QED
  BY <1>5, <1>6, <1>7, <1>8, <1>9 DEF IInv

\* Returning: what the caller is told is already true of the files.
LEMMA ReleaseInv ==
  ASSUME IInv, NEW p \in Procs, Release(p)
  PROVE  IInv'
<1> USE DEF Release, Goto, Unlock, Forget, files
<1>1. pc[p] \in LockedSteps /\ Inside(p)
  BY DEF LockedSteps, IInv
<1>2. /\ call[p].ok => call[p].token \in Tokens
      /\ View' = View
  BY <1>1 DEF Inside, CallShape, View
<1>3. TypeOK'
  BY <1>2, RegistryFacts DEF IInv, TypeOK, Returns, Steps
<1>4. \A q \in Procs : Inside(q)'
  <2>1. \A q \in Procs : q # p => Inside(q)'
    BY <1>1, OthersStayOut
  <2>2. pc'[p] \notin LockedSteps
    BY DEF IInv, TypeOK, LockedSteps, WriteSteps
  <2> QED
    BY <2>1, <2>2 DEF Inside
<1>5. PrintedIsDurable'
  BY <1>1, <1>2 DEF IInv, PrintedIsDurable, Inside, OutcomeShape
<1>6. CompletedIsSpent'
  BY <1>1, <1>2 DEF IInv, CompletedIsSpent, Inside, OutcomeShape, Spent
<1>7. ReplayKeepsRecords'
  BY DEF IInv, ReplayKeepsRecords
<1> QED
  BY <1>3, <1>4, <1>5, <1>6, <1>7 DEF IInv

\* Dying, anywhere: the files stay and the lock is free.
LEMMA CrashInv ==
  ASSUME IInv, NEW p \in Procs, Crash(p)
  PROVE  IInv'
<1> USE DEF Crash, Goto, Unlock, Forget, files, history
<1>1. TypeOK'
  BY RegistryFacts, ConstantsOK DEF IInv, TypeOK, Steps
<1>2. ASSUME NEW q \in Procs PROVE Inside(q)'
  <2>1. CASE q = p
    BY <2>1 DEF IInv, TypeOK, Inside, LockedSteps, WriteSteps
  <2>2. CASE q # p
    <3>1. /\ Inside(q) /\ pc'[q] = pc[q] /\ call'[q] = call[q]
          /\ values'[q] = values[q] /\ replay'[q] = replay[q]
          /\ lock = q => lock' = q
      BY <2>2 DEF IInv, TypeOK
    <3>2. /\ registry' = registry /\ journal' = journal
          /\ completed' = completed /\ View' = View
      BY DEF View
    <3>3. CASE pc[q] \in LockedSteps
      <4>1. lock' = q
        BY <3>1, <3>3 DEF Inside
      <4>2. CallShape(q)' /\ ReplayShape(q)' /\ OutcomeShape(q)'
        BY <3>1, <3>2, <3>3
           DEF Inside, CallShape, ReplayShape, OutcomeShape, Returns
      <4>3. WriteShape(q)'
        BY <3>1, <3>2, <3>3
           DEF Inside, WriteShape, Deciding, Publishing, Allocated, Marked
      <4> QED
        BY <4>1, <4>2, <4>3 DEF Inside
    <3> QED
      BY <3>1, <3>3 DEF Inside
  <2> QED
    BY <2>1, <2>2
<1>3. (PrintedIsDurable /\ CompletedIsSpent)'
  BY QuietStep DEF View
<1>4. ReplayKeepsRecords'
  BY DEF IInv, ReplayKeepsRecords
<1> QED
  BY <1>1, <1>2, <1>3, <1>4 DEF IInv

\* A step that changes nothing.
LEMMA StutterInv ==
  ASSUME IInv, UNCHANGED vars
  PROVE  IInv'
BY SMTT(30)
   DEF vars, files, local, history, IInv, TypeOK, Inside, CallShape,
       ReplayShape, WriteShape, OutcomeShape, Deciding, Publishing, Allocated,
       Marked, Returns, View, ReplayKeepsRecords, PrintedIsDurable,
       CompletedIsSpent

LEMMA NextInv == IInv /\ [Next]_vars => IInv'
<1> SUFFICES ASSUME IInv, [Next]_vars PROVE IInv'
  OBVIOUS
<1>1. CASE UNCHANGED vars
  BY <1>1, StutterInv
<1>2. ASSUME NEW p \in Procs,
             Ask(p) \/ Acquire(p) \/ AcquireTimeout(p) \/ Progress(p)
               \/ WriteFails(p) \/ Crash(p)
      PROVE  IInv'
  <2>1. CASE Progress(p)
    BY <2>1, RecoverInv, ReplayRequestInv, ReplayRegistryInv, ReplayUnlinkInv,
       AllocateInv, MarkInv, GiveUpInv, WriteJournalInv, WriteRequestInv,
       WritePublishedInv, WriteChangeInv, UnlinkJournalInv, ReleaseInv
       DEF Progress
  <2> QED
    BY <1>2, <2>1, WaitInv, EnterInv, GiveUpInv, CrashInv
<1> QED
  BY <1>1, <1>2 DEF Next

-----------------------------------------------------------------------------
(* The theorems.                                                           *)

THEOREM Invariance == Spec => []IInv
BY InitInv, NextInv, PTL DEF Spec

\* Every variable keeps its type: no operation ever writes a registry, a
\* journal or a record the other ones could not read.
THEOREM TypeCorrect == Spec => []TypeOK
<1>1. IInv => TypeOK
  BY DEF IInv
<1> QED
  BY <1>1, Invariance, PTL

\* A token a caller was handed survives any crash or failed write.
THEOREM PrintedTokensAreDurable == Spec => []PrintedIsDurable
<1>1. IInv => PrintedIsDurable
  BY DEF IInv
<1> QED
  BY <1>1, Invariance, PTL

\* A pending journal is never older than the registry file it would replace.
THEOREM ReplayNeverTakesBack == Spec => []ReplayKeepsRecords
<1>1. IInv => ReplayKeepsRecords
  BY DEF IInv
<1> QED
  BY <1>1, Invariance, PTL

\* What one client was told it completed no later operation can find active.
THEOREM CompletedStaysSpent == Spec => []CompletedIsSpent
<1>1. IInv => CompletedIsSpent
  BY DEF IInv
<1> QED
  BY <1>1, Invariance, PTL

-----------------------------------------------------------------------------
(* A published token opens its batch.  This one needs a fact about the     *)
(* constants that the code does not enforce: two batches are never         *)
(* published to the same session file (the run token_shared_file shows     *)
(* what happens when they are).  Then a batch, once in its file, stays.    *)

OneFilePerBatch == \A b, c \in Batches : FileOf[b] = FileOf[c] => b = c

Holds(b) == request[FileOf[b]] = b

\* How far publish_batch is: the record names the batch before the journal
\* is written, and the session file holds it before the registry says so.
BindingShape(p) ==
  /\ Publishing(p) => values[p][call[p].token].batch = call[p].batch
  /\ Publishing(p) /\ pc[p] # "write_request" => Holds(call[p].batch)
  /\ Returns(p, "publish") => Holds(View[call[p].token].batch)

BInv ==
  /\ published \subseteq printed
  /\ \A t \in published : Holds(View[t].batch)
  /\ \A p \in Procs : pc[p] \in LockedSteps => BindingShape(p)

\* A record names a batch.
LEMMA BatchOf ==
  ASSUME NEW R \in Registry, NEW t \in Tokens, R[t] # Absent
  PROVE  R[t].batch \in Batches
BY DEF Registry, Record

\* What a process can do between two looks of anybody else.
Step(p) ==
  \/ Ask(p) \/ Acquire(p) \/ AcquireTimeout(p)
  \/ Progress(p)
  \/ WriteFails(p) \/ Crash(p)

\* No write of a session file takes another batch out of its own.
LEMMA BatchesStay ==
  ASSUME IInv, OneFilePerBatch, NEW p \in Procs, Step(p), NEW b \in Batches, Holds(b)
  PROVE  Holds(b)'
<1>1. CASE ReplayRequest(p) \/ WriteRequest(p)
  <2>1. PICK c \in Batches : request' = [request EXCEPT ![FileOf[c]] = c]
    <3>1. Inside(p) /\ pc[p] \in LockedSteps
      BY <1>1 DEF IInv, ReplayRequest, WriteRequest, Goto, LockedSteps, WriteSteps
    <3>2. CASE ReplayRequest(p)
      BY <3>1, <3>2, JournalFacts
         DEF ReplayRequest, Goto, Inside, ReplayShape, IInv, TypeOK
    <3>3. CASE WriteRequest(p)
      BY <3>1, <3>3 DEF WriteRequest, Goto, Inside, CallShape
    <3> QED
      BY <1>1, <3>2, <3>3
  <2> QED
    BY <2>1, ConstantsOK DEF Holds, OneFilePerBatch, IInv, TypeOK
<1>2. CASE ~(ReplayRequest(p) \/ WriteRequest(p))
  <2>1. request' = request
    BY <1>2 DEF Step, Progress, Ask, Acquire, AcquireTimeout, EnterPublish,
       EnterIssue, EnterConsume, EnterRevoke, Enter, NothingToRecover,
       LoadJournal, ReplayRegistry, ReplayUnlink, ReadToPublish, ReadToIssue,
       ReadToConsume, ReadToRevoke, Mark, ReadRefused, WriteJournal,
       WriteRegistry, UnlinkJournal, Release, WriteFails, Crash, files
  <2> QED
    BY <2>1 DEF Holds
<1> QED
  BY <1>1, <1>2

\* The logical registry keeps the batch of every record it ever held.
LEMMA RecordsStay ==
  ASSUME IInv, NEW p \in Procs, Step(p), NEW t \in Tokens, View[t] # Absent
  PROVE  View'[t].batch = View[t].batch
<1>1. CASE pc[p] \notin LockedSteps \/ WriteFails(p) \/ Crash(p)
  BY <1>1 DEF Step, Progress, Ask, Acquire, AcquireTimeout, EnterPublish,
     EnterIssue, EnterConsume, EnterRevoke, Enter, NothingToRecover,
     LoadJournal, ReplayRequest, ReplayRegistry, ReplayUnlink, ReadToPublish,
     ReadToIssue, Allocate, ReadToConsume, ReadToRevoke, Mark, ReadRefused,
     WriteJournal, WriteRequest, WriteRegistry, UnlinkJournal, Release, WriteFails,
     Crash, files, Goto, LockedSteps, WriteSteps, View
<1>2. ASSUME pc[p] \in LockedSteps, Inside(p), Progress(p)
      PROVE  View'[t].batch = View[t].batch
  <2>1. CASE WriteJournal(p)
    <3>1. journal = NoJournal /\ Allocated(p) /\ values[p] \in Registry
          /\ call[p].batch \in Batches
      BY <1>2, <2>1 DEF WriteJournal, Goto, Inside, CallShape, WriteShape,
                        Deciding, IInv, TypeOK
    <3>2. View = registry /\ View' = values[p]
      BY <2>1, <3>1, RegistryFacts DEF WriteJournal, View
    <3> QED
      BY <3>1, <3>2 DEF Allocated, IInv, TypeOK, Registry
  <2>2. CASE WriteRegistry(p) /\ call[p].op = "publish"
    <3>1. journal = [batch |-> call[p].batch, registry |-> values[p]]
          /\ UNCHANGED journal
          /\ call[p].batch \in Batches /\ values[p] \in Registry
      BY <1>2, <2>2 DEF WriteRegistry, Goto, Inside, CallShape, WriteShape,
                        Publishing, IInv, TypeOK
    <3> QED
      BY <3>1, RegistryFacts DEF View
  <2>3. CASE WriteRegistry(p) /\ call[p].op # "publish"
    <3>1. /\ journal = NoJournal /\ UNCHANGED journal
          /\ registry' = values[p] /\ registry \in Registry
          /\ Allocated(p) \/ Marked(p, "revoked") \/ Marked(p, "consumed")
      BY <1>2, <2>3 DEF WriteRegistry, Goto, Inside, CallShape, Ops, WriteShape,
                        Deciding, IInv, TypeOK
    <3>2. View = registry /\ View' = values[p]
      BY <3>1 DEF View
    <3>3. ASSUME NEW s, NEW r \in Registry,
                 r = [registry EXCEPT ![call[p].token] =
                        [status |-> s, batch |-> @.batch]]
          PROVE  r[t].batch = registry[t].batch
      BY <3>1, <3>3 DEF Registry
    <3>4. values[p] \in Registry
      BY DEF IInv, TypeOK
    <3>5. CASE Allocated(p)
      BY <3>1, <3>2, <3>5 DEF Allocated, Registry
    <3> QED
      BY <3>1, <3>2, <3>3, <3>4, <3>5 DEF Marked
  <2>4. CASE ReplayRegistry(p) \/ ReplayUnlink(p) \/ UnlinkJournal(p)
    <3>1. View' = View
      BY <1>2, <2>4, RegistryFacts
         DEF ReplayRegistry, ReplayUnlink, UnlinkJournal, Goto, Inside,
             ReplayShape, WriteShape, Publishing, View
    <3> QED
      BY <3>1
  <2>5. CASE \/ NothingToRecover(p) \/ LoadJournal(p) \/ ReplayRequest(p)
             \/ ReadToPublish(p) \/ ReadToIssue(p) \/ ReadToConsume(p)
             \/ ReadToRevoke(p) \/ ReadRefused(p) \/ WriteRequest(p)
             \/ Release(p)
    BY <2>5 DEF NothingToRecover, LoadJournal, ReplayRequest, ReadToPublish,
       ReadToIssue, ReadToConsume, ReadToRevoke, Mark, ReadRefused,
       WriteRequest, Release, View, files
  <2> QED
    BY <1>2, <2>1, <2>2, <2>3, <2>4, <2>5 DEF Progress
<1> QED
  BY <1>1, <1>2 DEF Step, IInv, Acquire, EnterPublish, EnterIssue, EnterConsume,
     EnterRevoke, Enter, Ask, AcquireTimeout, Goto, LockedSteps, WriteSteps

\* The processes that do not move are where they were.
LEMMA OthersBound ==
  ASSUME IInv, BInv, NEW p \in Procs, Step(p),
         NEW q \in Procs, q # p, pc'[q] \in LockedSteps
  PROVE  BindingShape(q)'
<1>1. pc'[q] = pc[q] /\ call'[q] = call[q] /\ values'[q] = values[q]
  BY DEF IInv, TypeOK, Step, Progress, Ask, Acquire, AcquireTimeout,
     EnterPublish, EnterIssue, EnterConsume, EnterRevoke, Enter,
     NothingToRecover, LoadJournal, ReplayRequest, ReplayRegistry,
     ReplayUnlink, ReadToPublish, ReadToIssue, Allocate, ReadToConsume,
     ReadToRevoke, Mark, ReadRefused, WriteJournal, WriteRequest, WriteRegistry,
     UnlinkJournal, Release, Forget, Succeed, WriteFails, Crash, Goto, local
<1>2. pc[p] \notin LockedSteps
  BY <1>1, Alone
<1>3. UNCHANGED files
  BY <1>2 DEF Step, Progress, Ask, Acquire, AcquireTimeout, EnterPublish,
     EnterIssue, EnterConsume, EnterRevoke, Enter, NothingToRecover,
     LoadJournal, ReplayRequest, ReplayRegistry, ReplayUnlink, ReadToPublish,
     ReadToIssue, Allocate, ReadToConsume, ReadToRevoke, Mark, ReadRefused,
     WriteJournal, WriteRequest, WriteRegistry, UnlinkJournal, Release,
     WriteFails, Crash, Goto, LockedSteps, WriteSteps
<1>4. BindingShape(q) /\ View' = View /\ request' = request
  BY <1>1, <1>3 DEF BInv, View, files
<1> QED
  BY <1>1, <1>4 DEF BindingShape, Publishing, Returns, Holds

\* The process that moved, inside the lock after its step.
LEMMA MoverBound ==
  ASSUME IInv, IInv', BInv, OneFilePerBatch,
         NEW p \in Procs, Step(p), pc'[p] \in LockedSteps
  PROVE  BindingShape(p)'
<1>1. CASE pc[p] \notin LockedSteps
  <2>1. pc'[p] = "recover" /\ ~call'[p].ok
    BY <1>1, SMTT(30)
    DEF Step, Progress, Ask, Acquire, AcquireTimeout, EnterPublish,
       EnterIssue, EnterConsume, EnterRevoke, Enter, NothingToRecover,
       LoadJournal, ReplayRequest, ReplayRegistry, ReplayUnlink, ReadToPublish,
       ReadToIssue, Allocate, ReadToConsume, ReadToRevoke, Mark, ReadRefused,
       WriteJournal, WriteRequest, WriteRegistry, UnlinkJournal, Release,
       WriteFails, Crash, Goto, LockedSteps, WriteSteps, IInv, TypeOK
  <2> QED
    BY <2>1 DEF BindingShape, Publishing, Returns
<1>2. CASE pc[p] \in LockedSteps
  <2>1. Inside(p) /\ Inside(p)' /\ BindingShape(p)
    BY <1>2 DEF IInv, BInv
  <2>2. CASE WriteJournal(p)
    <3>1. /\ pc'[p] = "write_request" /\ values' = values /\ call' = call
          /\ Allocated(p) /\ call[p].token \in Tokens
      <4>1. pc[p] = "write_journal" /\ pc'[p] = "write_request"
            /\ UNCHANGED <<call, values>>
        BY <2>2 DEF WriteJournal, Goto, local, IInv, TypeOK
      <4> QED
        BY <1>2, <2>1, <4>1 DEF Inside, CallShape, WriteShape
    <3>2. values[p][call[p].token].batch = call[p].batch /\ ~call[p].ok
      BY <1>2, <2>1, <2>2, <3>1
         DEF WriteJournal, Goto, Allocated, Inside, CallShape, IInv, TypeOK, Registry
    <3> QED
      BY <3>1, <3>2 DEF BindingShape, Publishing, Returns
  <2>3. CASE WriteRequest(p)
    <3>1. /\ pc[p] = "write_request" /\ pc'[p] = "write_registry"
          /\ UNCHANGED <<call, values>>
          /\ call[p].op = "publish" /\ call[p].batch \in Batches /\ ~call[p].ok
      BY <1>2, <2>1, <2>3 DEF WriteRequest, Goto, local, Inside, CallShape,
                              IInv, TypeOK
    <3>2. Holds(call[p].batch)'
      BY <2>3, <3>1, ConstantsOK DEF WriteRequest, Holds, IInv, TypeOK
    <3> QED
      BY <2>1, <3>1, <3>2 DEF BindingShape, Publishing, Returns
  <2>4. CASE WriteRegistry(p) /\ call[p].op = "publish"
    <3>1. /\ pc[p] = "write_registry" /\ pc'[p] = "unlink_journal"
          /\ UNCHANGED <<call, values, request>> /\ ~call[p].ok
      BY <1>2, <2>1, <2>4 DEF WriteRegistry, Goto, Inside, CallShape, IInv, TypeOK
    <3> QED
      BY <2>1, <2>4, <3>1 DEF BindingShape, Publishing, Returns, Holds
  <2>5. CASE UnlinkJournal(p)
    <3>1. /\ pc[p] = "unlink_journal" /\ pc'[p] = "release"
          /\ journal' = NoJournal /\ UNCHANGED <<registry, request>>
          /\ registry = values[p] /\ call[p] \in Call /\ call[p].op = "publish"
          /\ call'[p] = [call[p] EXCEPT !.ok = TRUE]
      BY <1>2, <2>1, <2>5 DEF UnlinkJournal, Goto, Succeed, Inside, CallShape,
                              WriteShape, IInv, TypeOK
    <3>2. call'[p].token = call[p].token
      BY <3>1, SetOk
    <3>3. View'[call[p].token].batch = call[p].batch
      BY <2>1, <3>1 DEF View, BindingShape, Publishing
    <3>4. request'[FileOf[call[p].batch]] = call[p].batch
      BY <2>1, <3>1 DEF BindingShape, Publishing, Holds
    <3> QED
      BY <3>1, <3>2, <3>3, <3>4 DEF BindingShape, Publishing, Returns, Holds
  <2>6. CASE WriteRegistry(p) /\ call[p].op # "publish"
    <3>1. /\ pc'[p] = "release" /\ call[p] \in Call /\ call[p].op \in Ops
          /\ call'[p] = [call[p] EXCEPT !.ok = TRUE]
      BY <1>2, <2>1, <2>6 DEF WriteRegistry, Goto, Succeed, Inside, CallShape,
                              IInv, TypeOK
    <3>2. call'[p].op # "publish"
      BY <2>6, <3>1, SetOk DEF Ops
    <3> QED
      BY <3>1, <3>2 DEF BindingShape, Publishing, Returns
  <2>7. CASE \/ NothingToRecover(p) \/ LoadJournal(p) \/ ReplayRequest(p)
             \/ ReplayRegistry(p) \/ ReplayUnlink(p) \/ ReadToPublish(p)
             \/ ReadToIssue(p) \/ ReadToConsume(p) \/ ReadToRevoke(p)
             \/ ReadRefused(p) \/ WriteFails(p)
    <3>1. ~call[p].ok
      <4>1. pc[p] # "release"
        BY <2>7
           DEF NothingToRecover, LoadJournal, ReplayRequest, ReplayRegistry,
               ReplayUnlink, ReadToPublish, ReadToIssue, Allocate,
               ReadToConsume, ReadToRevoke, Mark, ReadRefused, WriteFails,
               Goto, WriteSteps
      <4> QED
        BY <1>2, <2>1, <4>1 DEF Inside, CallShape
    <3>2. ~Publishing(p)'
      <4>1. CASE ReadToIssue(p)
        <5>1. PICK t \in Tokens : Allocate(p, t, "write_registry")
          BY <4>1 DEF ReadToIssue
        <5>2. /\ pc'[p] = "write_registry" /\ call[p] \in Call
              /\ call'[p] = [call[p] EXCEPT !.token = t]
          BY <5>1 DEF Allocate, Goto, IInv, TypeOK
        <5>3. call[p].op = "issue"
          BY <4>1 DEF ReadToIssue
        <5>4. call'[p].op = "issue"
          BY <5>2, <5>3 DEF Call, NoCall
        <5> QED
          BY <5>2, <5>4 DEF Publishing
      <4>2. CASE ReadToConsume(p) \/ ReadToRevoke(p)
        BY <4>2 DEF ReadToConsume, ReadToRevoke, Mark, Goto, Publishing, IInv, TypeOK
      <4>3. CASE ~(ReadToIssue(p) \/ ReadToConsume(p) \/ ReadToRevoke(p))
        BY <2>7, <4>3
           DEF Publishing, NothingToRecover, LoadJournal, ReplayRequest,
               ReplayRegistry, ReplayUnlink, ReadToPublish, Allocate,
               ReadRefused, WriteFails, Goto, IInv, TypeOK
      <4> QED
        BY <4>1, <4>2, <4>3
    <3>3. ~Returns(p, "publish")'
      BY <2>7, <3>1 DEF Returns, NothingToRecover, LoadJournal, ReplayRequest,
         ReplayRegistry, ReplayUnlink, ReadToPublish, ReadToIssue, Allocate,
         ReadToConsume, ReadToRevoke, Mark, ReadRefused, WriteFails, Goto,
         local, IInv, TypeOK, Call, NoCall
    <3> QED
      BY <3>2, <3>3 DEF BindingShape
  <2>8. ~(Release(p) \/ Crash(p) \/ Ask(p) \/ Acquire(p) \/ AcquireTimeout(p))
    BY <1>2 DEF Release, Crash, Ask, Acquire, AcquireTimeout, EnterPublish,
       EnterIssue, EnterConsume, EnterRevoke, Enter, Goto, IInv, TypeOK,
       LockedSteps, WriteSteps
  <2> QED
    BY <2>2, <2>3, <2>4, <2>5, <2>6, <2>7, <2>8 DEF Step, Progress
<1> QED
  BY <1>1, <1>2

\* Who is handed a token, and who is only told that it was spent.
LEMMA HandedOut ==
  ASSUME IInv, NEW p \in Procs, Step(p)
  PROVE  \/ UNCHANGED <<printed, published>>
         \/ /\ Release(p)
            /\ printed' = printed \cup {t \in {call[p].token} :
                            Returns(p, "publish") \/ Returns(p, "issue")}
            /\ published' = published \cup
                 {t \in {call[p].token} : Returns(p, "publish")}
BY DEF Step, Progress, Ask, Acquire, AcquireTimeout, EnterPublish,
   EnterIssue, EnterConsume, EnterRevoke, Enter, NothingToRecover,
   LoadJournal, ReplayRequest, ReplayRegistry, ReplayUnlink, ReadToPublish,
   ReadToIssue, ReadToConsume, ReadToRevoke, Mark, ReadRefused,
   WriteJournal, WriteRequest, WriteRegistry, UnlinkJournal, Release,
   WriteFails, Crash, local, history

LEMMA BindingStep ==
  ASSUME IInv, IInv', BInv, OneFilePerBatch, NEW p \in Procs, Step(p)
  PROVE  BInv'
<1>1. (published \subseteq printed)'
  BY HandedOut DEF BInv
<1>2. ASSUME NEW t \in Tokens, View[t] # Absent, Holds(View[t].batch)
      PROVE  Holds(View[t].batch)'
  <2>1. View[t].batch \in Batches
    BY <1>2, ViewType, BatchOf DEF IInv
  <2>2. View'[t].batch = View[t].batch
    BY <1>2, RecordsStay
  <2>3. request'[FileOf[View[t].batch]] = View[t].batch
    BY <1>2, <2>1, BatchesStay DEF Holds
  <2> QED
    BY <2>2, <2>3 DEF Holds
<1>3. ASSUME NEW t \in published
      PROVE  Holds(View[t].batch)'
  BY <1>2 DEF BInv, IInv, TypeOK, PrintedIsDurable
<1>4. ASSUME Release(p), Returns(p, "publish"), NEW t, t = call[p].token
      PROVE  Holds(View[t].batch)'
  <2>1. pc[p] \in LockedSteps /\ Inside(p) /\ BindingShape(p)
    BY <1>4 DEF Release, Goto, LockedSteps, IInv, BInv
  <2>2. t \in Tokens /\ View[t] # Absent
    BY <1>4, <2>1 DEF Inside, CallShape, OutcomeShape, Returns
  <2>3. Holds(View[t].batch)
    BY <1>4, <2>1 DEF BindingShape
  <2> QED
    BY <1>2, <2>2, <2>3
<1>5. \A t \in published' : Holds(View[t].batch)'
  BY <1>3, <1>4, HandedOut
<1>6. (\A q \in Procs : pc[q] \in LockedSteps => BindingShape(q))'
  BY OthersBound, MoverBound
<1> QED
  BY <1>1, <1>5, <1>6 DEF BInv

LEMMA InitBinding == Init => BInv
BY DEF Init, BInv, LockedSteps, WriteSteps

LEMMA NextBinding ==
  ASSUME OneFilePerBatch
  PROVE  IInv /\ IInv' /\ BInv /\ [Next]_vars => BInv'
<1> SUFFICES ASSUME IInv, IInv', BInv, [Next]_vars PROVE BInv'
  OBVIOUS
<1>1. CASE UNCHANGED vars
  BY <1>1 DEF vars, files, local, history, BInv, BindingShape, Publishing,
     Returns, Holds, View
<1>2. CASE \E p \in Procs : Step(p)
  BY <1>2, BindingStep
<1> QED
  BY <1>1, <1>2 DEF Next, Step

\* As long as no two batches are published to the same session file, an
\* active token that publish_batch handed out opens the batch it was issued
\* for, whatever crashed or was replayed since.
THEOREM ActiveTokensOpenTheirBatch ==
  ASSUME OneFilePerBatch
  PROVE  Spec => []ActiveTokenOpensItsBatch
<1>1. BInv => ActiveTokenOpensItsBatch
  BY DEF BInv, Holds, ActiveTokenOpensItsBatch
<1>2. Spec => []BInv
  BY InitBinding, NextBinding, Invariance, PTL DEF Spec
<1> QED
  BY <1>1, <1>2, PTL

=============================================================================
