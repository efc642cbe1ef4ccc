----------------------- MODULE TokenRegistryRefinement -----------------------
(***************************************************************************)
(* TokenRegistry implements TokenLifecycle, for any values of its          *)
(* constants.  The commit point of a publication is the replacement of its *)
(* journal, of any other operation that of the registry file; a claim is   *)
(* a consume that was written and has not yet returned.  Every other step  *)
(* is invisible to a client.                                               *)
(* The last section is about the clients of TokenRegistryClients.          *)
(***************************************************************************)
EXTENDS TokenRegistryProofs, TokenRegistryClients

StatusesIn(R) == [t \in Tokens |-> R[t].status]
Statuses == StatusesIn(View)

\* The tokens that p, about to return, has consumed: at most one.
ClaimOf(p) ==
  {t \in Tokens : pc[p] = "release" /\ Returns(p, "consume") /\ call[p].token = t}

-----------------------------------------------------------------------------
(* Facts about the mapping.                                                *)

\* Only the absent record has the absent status.
LEMMA RecordStatus ==
  ASSUME NEW r \in Record
  PROVE  /\ r.status \in {"absent", "active", "consumed", "revoked"}
         /\ r = Absent <=> r.status = "absent"
BY DEF Record, Absent

\* A registry that differs in one record differs in one status.
LEMMA OneStatus ==
  ASSUME NEW R \in Registry, NEW t \in Tokens, NEW r \in Record
  PROVE  /\ StatusesIn(R)[t] = R[t].status
         /\ StatusesIn([R EXCEPT ![t] = r]) = [StatusesIn(R) EXCEPT ![t] = r.status]
BY DEF Registry, StatusesIn

\* What the mapping shows depends on these four values only.
LEMMA Invisible ==
  ASSUME View' = View, Claims' = Claims, printed' = printed, completed' = completed
  PROVE  UNCHANGED Lifecycle!vars
BY DEF Lifecycle!vars

\* All claims are those of the process inside the lock.
LEMMA ClaimsInside ==
  ASSUME IInv, NEW p \in Procs, pc[p] \in LockedSteps
  PROVE  Claims = ClaimOf(p)
BY Alone DEF Claims, ClaimOf, LockedSteps

\* After a step of that process the claims are what it is about to report.
LEMMA ClaimsAfter ==
  ASSUME IInv, NEW p \in Procs, pc[p] \in LockedSteps,
         NEW s, pc' = [pc EXCEPT ![p] = s]
  PROVE  Claims' = ClaimOf(p)'
<1>1. \A q \in Procs : q # p => pc'[q] # "release"
  BY Alone DEF LockedSteps, IInv, TypeOK
<1> QED
  BY <1>1 DEF Claims, ClaimOf

\* Nobody claims anything before it is about to return.
LEMMA NoClaimYet ==
  ASSUME IInv, NEW p \in Procs, pc[p] \in LockedSteps \ {"release"}
  PROVE  Claims = {} /\ ~call[p].ok
<1>1. ~call[p].ok
  BY DEF IInv, Inside, CallShape
<1> QED
  BY <1>1, ClaimsInside DEF ClaimOf

-----------------------------------------------------------------------------
(* Every step is one of the life cycle or invisible.                       *)

Abstract == Lifecycle!Next \/ UNCHANGED Lifecycle!vars

\* Outside the lock: asking, giving up, entering.
LEMMA OutsideStep ==
  ASSUME IInv, NEW p \in Procs, Ask(p) \/ AcquireTimeout(p) \/ Acquire(p)
  PROVE  Abstract
<1>1. /\ UNCHANGED <<files, history>>
      /\ pc[p] \in {"idle", "exclusive"}
      /\ pc'[p] # "release"
      /\ \A q \in Procs : q # p => pc'[q] = pc[q] /\ call'[q] = call[q]
  BY DEF Ask, AcquireTimeout, Acquire, EnterPublish, EnterIssue, EnterConsume,
         EnterRevoke, Enter, Goto, IInv, TypeOK, local
<1>2. Claims' = Claims
  BY <1>1 DEF Claims, Returns
<1> QED
  BY <1>1, <1>2, Invisible DEF Abstract, View, files, history

\* Inside the lock, up to the write that decides.
LEMMA ReplayStep ==
  ASSUME IInv, NEW p \in Procs,
         \/ NothingToRecover(p) \/ LoadJournal(p) \/ ReplayRequest(p)
         \/ ReplayRegistry(p) \/ ReplayUnlink(p)
  PROVE  Abstract
<1> USE DEF NothingToRecover, LoadJournal, ReplayRequest, ReplayRegistry,
            ReplayUnlink, Goto
<1>1. pc[p] \in LockedSteps \ {"release"} /\ Inside(p)
  BY DEF LockedSteps, WriteSteps, IInv
<1>2. PICK s \in LockedSteps \ {"release"} : pc' = [pc EXCEPT ![p] = s]
  BY DEF LockedSteps, WriteSteps
<1>3. Claims = {} /\ Claims' = {}
  <2>1. pc'[p] # "release"
    BY <1>2 DEF IInv, TypeOK
  <2> QED
    BY <1>1, <1>2, <2>1, NoClaimYet, ClaimsAfter DEF ClaimOf
<1>4. View' = View
  BY <1>1 DEF View, files, Inside, ReplayShape
<1>5. UNCHANGED history
  BY DEF local
<1> QED
  BY <1>3, <1>4, <1>5, Invisible DEF Abstract, history

LEMMA ReadStep ==
  ASSUME IInv, NEW p \in Procs,
         \/ ReadToPublish(p) \/ ReadToIssue(p) \/ ReadToConsume(p)
         \/ ReadToRevoke(p) \/ WriteRequest(p)
  PROVE  Abstract
<1> USE DEF ReadToPublish, ReadToIssue, ReadToConsume, ReadToRevoke,
            WriteRequest, Allocate, Mark, Goto
<1>1. pc[p] \in LockedSteps \ {"release"} /\ Inside(p)
  BY DEF LockedSteps, WriteSteps, IInv
<1>2. PICK s \in LockedSteps \ {"release"} : pc' = [pc EXCEPT ![p] = s]
  BY DEF LockedSteps, WriteSteps
<1>3. Claims = {} /\ Claims' = {}
  <2>1. pc'[p] # "release"
    BY <1>2 DEF IInv, TypeOK
  <2> QED
    BY <1>1, <1>2, <2>1, NoClaimYet, ClaimsAfter DEF ClaimOf
<1>4. UNCHANGED <<registry, journal, history>>
  BY DEF files
<1> QED
  BY <1>3, <1>4, Invisible DEF Abstract, View, history

\* Refused or failed: the caller is told of no completion.
LEMMA GiveUpStep ==
  ASSUME IInv, NEW p \in Procs, ReadRefused(p) \/ WriteFails(p)
  PROVE  Abstract
<1>1. /\ pc[p] \in LockedSteps \ {"release"}
      /\ pc' = [pc EXCEPT ![p] = "release"]
      /\ UNCHANGED <<files, local, history>>
  BY DEF ReadRefused, WriteFails, Goto, LockedSteps, WriteSteps
<1>2. Claims = {} /\ ~call'[p].ok
  BY <1>1, NoClaimYet DEF local
<1>3. Claims' = {}
  BY <1>1, <1>2, ClaimsAfter DEF ClaimOf, Returns
<1> QED
  BY <1>1, <1>2, <1>3, Invisible DEF Abstract, View, files, history

\* publish_batch after its commit point.
LEMMA PublishedStep ==
  ASSUME IInv, NEW p \in Procs,
         \/ WriteRegistry(p) /\ call[p].op = "publish"
         \/ UnlinkJournal(p)
  PROVE  Abstract
<1> USE DEF WriteRegistry, UnlinkJournal, Goto, Succeed
<1>1. pc[p] \in LockedSteps \ {"release"} /\ Inside(p)
  BY DEF LockedSteps, WriteSteps, IInv
<1>2. PICK s \in LockedSteps : pc' = [pc EXCEPT ![p] = s]
  BY DEF LockedSteps, WriteSteps
<1>3. /\ call[p].op = "publish" /\ call[p] \in Call
      /\ journal = [batch |-> call[p].batch, registry |-> values[p]]
      /\ journal # NoJournal
  BY <1>1, RegistryFacts
     DEF Inside, CallShape, WriteShape, Publishing, IInv, TypeOK
<1>4. call'[p].op = "publish"
  <2>1. CASE UNCHANGED call
    BY <1>3, <2>1
  <2>2. CASE call' = [call EXCEPT ![p].ok = TRUE]
    <3>1. call'[p] = [call[p] EXCEPT !.ok = TRUE]
      BY <2>2 DEF IInv, TypeOK
    <3> QED
      BY <1>3, <3>1, SetOk
  <2> QED
    BY <1>3, <2>1, <2>2
<1>5. Claims = {} /\ Claims' = {}
  BY <1>1, <1>2, <1>4, NoClaimYet, ClaimsAfter DEF ClaimOf, Returns
<1>6. View' = View
  BY <1>1, <1>3 DEF View, Inside, WriteShape
<1>7. UNCHANGED history
  OBVIOUS
<1> QED
  BY <1>5, <1>6, <1>7, Invisible DEF Abstract, history

\* The commit point of a publication.
LEMMA WriteJournalStep ==
  ASSUME IInv, NEW p \in Procs, WriteJournal(p)
  PROVE  Abstract
<1> USE DEF WriteJournal, Goto, local, history
<1>1. pc[p] \in LockedSteps \ {"release"} /\ Inside(p)
  BY DEF LockedSteps, WriteSteps, IInv
<1>2. /\ journal = NoJournal /\ Allocated(p) /\ call[p].token \in Tokens
      /\ registry \in Registry /\ values[p] \in Registry
      /\ call[p].batch \in Batches
  BY <1>1 DEF Inside, CallShape, WriteShape, Deciding, IInv, TypeOK
<1>3. View = registry /\ View' = values[p]
  BY <1>2, RegistryFacts DEF View
<1>4. Claims = {} /\ Claims' = {}
  <2>1. pc'[p] # "release"
    BY DEF IInv, TypeOK
  <2> QED
    BY <1>1, <2>1, NoClaimYet, ClaimsAfter DEF ClaimOf
<1>5. PICK t \in Tokens, r \in Record :
        /\ registry[t] = Absent /\ r.status = "active"
        /\ values[p] = [registry EXCEPT ![t] = r]
  <2>1. [status |-> "active", batch |-> call[p].batch] \in Record
    BY <1>2 DEF Record
  <2> QED
    BY <1>2, <2>1 DEF Allocated
<1>6. Lifecycle!Issue(t)
  <2>1. Statuses[t] = "absent" /\ Statuses' = [Statuses EXCEPT ![t] = "active"]
    <3>1. Statuses = StatusesIn(registry) /\ Statuses' = StatusesIn(values[p])
      BY <1>3 DEF Statuses, StatusesIn
    <3>2. /\ StatusesIn(registry)[t] = registry[t].status
          /\ StatusesIn([registry EXCEPT ![t] = r])
               = [StatusesIn(registry) EXCEPT ![t] = r.status]
      BY <1>2, OneStatus
    <3>3. registry[t].status = "absent" /\ r.status = "active"
      BY <1>5 DEF Absent
    <3> QED
      BY <1>5, <3>1, <3>2, <3>3
  <2> QED
    BY <1>4, <2>1 DEF Lifecycle!Issue, Statuses, StatusesIn
<1> QED
  BY <1>6 DEF Abstract, Lifecycle!Next

\* The commit point of the other operations.
LEMMA WriteChangeStep ==
  ASSUME IInv, NEW p \in Procs, WriteRegistry(p), call[p].op # "publish"
  PROVE  Abstract
<1> USE DEF WriteRegistry, Goto, history
<1>1. pc[p] \in LockedSteps \ {"release"} /\ Inside(p)
  BY DEF LockedSteps, WriteSteps, IInv
<1>2. /\ pc' = [pc EXCEPT ![p] = "release"]
      /\ call' = [call EXCEPT ![p].ok = TRUE]
      /\ registry' = values[p] /\ UNCHANGED <<journal, printed, completed>>
      /\ journal = NoJournal /\ call[p].token \in Tokens
      /\ registry \in Registry
      /\ call[p] \in Call /\ call[p].op \in {"issue", "consume", "revoke"}
  BY <1>1 DEF Inside, CallShape, WriteShape, Deciding, Succeed, IInv, TypeOK, Ops
<1>3. View = registry /\ View' = values[p]
  BY <1>2 DEF View
<1>4. /\ call'[p].ok /\ call'[p].op = call[p].op
      /\ call'[p].token = call[p].token
  <2>1. call'[p] = [call[p] EXCEPT !.ok = TRUE]
    BY <1>2 DEF IInv, TypeOK
  <2> QED
    BY <1>2, <2>1, SetOk
<1>5. PICK t \in Tokens : t = call[p].token
  BY <1>2
<1>6. /\ Claims = {}
      /\ Claims' = IF call[p].op = "consume" THEN {t} ELSE {}
  <2>1. pc'[p] = "release"
    BY <1>2 DEF IInv, TypeOK
  <2>2. Claims = {} /\ Claims' = ClaimOf(p)'
    BY <1>1, <1>2, NoClaimYet, ClaimsAfter
  <2>3. ClaimOf(p)' = {u \in Tokens : call[p].op = "consume" /\ t = u}
    BY <1>4, <1>5, <2>1 DEF ClaimOf, Returns
  <2> QED
    BY <2>2, <2>3
<1>7. ASSUME NEW r \in Record, values[p] = [registry EXCEPT ![t] = r]
      PROVE  /\ Statuses[t] = registry[t].status
             /\ Statuses' = [Statuses EXCEPT ![t] = r.status]
  <2>1. Statuses = StatusesIn(registry) /\ Statuses' = StatusesIn(values[p])
    BY <1>3 DEF Statuses, StatusesIn
  <2>2. /\ StatusesIn(registry)[t] = registry[t].status
        /\ StatusesIn([registry EXCEPT ![t] = r])
             = [StatusesIn(registry) EXCEPT ![t] = r.status]
    BY <1>2, OneStatus
  <2> QED
    BY <1>7, <2>1, <2>2
<1>8. CASE call[p].op = "issue"
  <2>1. /\ registry[t] = Absent /\ call[p].batch \in Batches
        /\ values[p] = [registry EXCEPT ![t] =
             [status |-> "active", batch |-> call[p].batch]]
    BY <1>1, <1>5, <1>8
       DEF Inside, CallShape, WriteShape, Deciding, Allocated
  <2>2. Statuses[t] = "absent" /\ Statuses' = [Statuses EXCEPT ![t] = "active"]
    <3>1. PICK r \in Record :
            r.status = "active" /\ values[p] = [registry EXCEPT ![t] = r]
      BY <2>1 DEF Record
    <3>2. registry[t].status = "absent"
      BY <2>1 DEF Absent
    <3>3. /\ Statuses[t] = registry[t].status
          /\ Statuses' = [Statuses EXCEPT ![t] = r.status]
      BY <1>7, <3>1
    <3> QED
      BY <3>1, <3>2, <3>3
  <2>3. Lifecycle!Issue(t)
    BY <1>2, <1>6, <1>8, <2>2 DEF Lifecycle!Issue, Statuses, StatusesIn
  <2> QED
    BY <2>3 DEF Abstract, Lifecycle!Next
<1>9. ASSUME NEW status \in {"consumed", "revoked"}, Marked(p, status)
      PROVE  Statuses[t] # "absent" /\ Statuses' = [Statuses EXCEPT ![t] = status]
  <2>1. /\ registry[t] # Absent /\ registry[t] \in Record
        /\ values[p] = [registry EXCEPT ![t] =
             [status |-> status, batch |-> registry[t].batch]]
    BY <1>2, <1>5, <1>9 DEF Marked, Registry
  <2>2. [status |-> status, batch |-> registry[t].batch] \in Record
    BY <2>1 DEF Record, Absent
  <2> QED
    BY <1>7, <2>1, <2>2, RecordStatus
<1>10. CASE call[p].op = "consume"
  <2>1. Marked(p, "consumed") /\ registry[t].status = "active"
    BY <1>1, <1>5, <1>10 DEF Inside, WriteShape
  <2>2. Statuses[t] = "active" /\ Statuses' = [Statuses EXCEPT ![t] = "consumed"]
    BY <1>3, <1>9, <2>1 DEF Statuses, StatusesIn
  <2>3. Lifecycle!Consume(t)
    BY <1>2, <1>6, <1>10, <2>2 DEF Lifecycle!Consume, Statuses, StatusesIn
  <2> QED
    BY <2>3 DEF Abstract, Lifecycle!Next
<1>11. CASE call[p].op = "revoke"
  <2>1. Marked(p, "revoked")
    BY <1>1, <1>11 DEF Inside, WriteShape
  <2>2. /\ Statuses[t] # "absent"
        /\ Statuses' = [Statuses EXCEPT ![t] = "revoked"]
    BY <1>9, <2>1
  <2>3. Lifecycle!Revoke(t)
    BY <1>2, <1>6, <1>11, <2>2 DEF Lifecycle!Revoke, Statuses, StatusesIn
  <2> QED
    BY <2>3 DEF Abstract, Lifecycle!Next
<1> QED
  BY <1>2, <1>8, <1>10, <1>11

\* Returning: the caller learns its token, or that it completed the batch.
LEMMA ReleaseStep ==
  ASSUME IInv, NEW p \in Procs, Release(p)
  PROVE  Abstract
<1> DEFINE t == call[p].token
<1> USE DEF Release, Goto, Forget
<1>1. pc[p] \in LockedSteps /\ pc[p] = "release" /\ Inside(p)
  BY DEF LockedSteps, IInv
<1>2. /\ call[p].ok => t \in Tokens
      /\ View' = View
  BY <1>1 DEF Inside, CallShape, View, files
<1>3. Claims' = {}
  <2>1. pc'[p] # "release"
    BY DEF IInv, TypeOK
  <2> QED
    BY <1>1, <2>1, ClaimsAfter DEF ClaimOf
<1>4. Claims = {u \in {t} : Returns(p, "consume")}
  BY <1>1, <1>2, ClaimsInside DEF ClaimOf, Returns
<1>5. CASE Returns(p, "publish") \/ Returns(p, "issue")
  <2>1. View[t] # Absent
    BY <1>1, <1>5 DEF Inside, OutcomeShape
  <2>2. t \in Tokens /\ Statuses[t] # "absent"
    BY <1>2, <1>5, <2>1, ViewType, RecordStatus
       DEF Statuses, StatusesIn, Returns, IInv, Registry
  <2>3. Claims = {} /\ completed' = completed /\ printed' = printed \cup {t}
    BY <1>4, <1>5 DEF Returns
  <2>4. Lifecycle!Announce(t)
    BY <1>2, <1>3, <2>2, <2>3 DEF Lifecycle!Announce, Statuses, StatusesIn
  <2> QED
    BY <2>2, <2>4 DEF Abstract, Lifecycle!Next
<1>6. CASE Returns(p, "consume")
  <2>1. /\ t \in Tokens /\ Claims = {t}
        /\ printed' = printed /\ completed' = completed \cup {t}
    BY <1>2, <1>4, <1>6 DEF Returns
  <2>2. Lifecycle!Complete(t)
    BY <1>2, <1>3, <2>1 DEF Lifecycle!Complete
  <2> QED
    BY <2>1, <2>2 DEF Abstract, Lifecycle!Next
<1>7. CASE ~Returns(p, "publish") /\ ~Returns(p, "issue") /\ ~Returns(p, "consume")
  <2>1. Claims = {} /\ printed' = printed /\ completed' = completed
    BY <1>4, <1>7
  <2> QED
    BY <1>2, <1>3, <2>1, Invisible DEF Abstract
<1> QED
  BY <1>5, <1>6, <1>7

\* Dying: a winner that has not returned never hears that it won.
LEMMA CrashStep ==
  ASSUME IInv, NEW p \in Procs, Crash(p)
  PROVE  Abstract
<1> USE DEF Crash, Forget
<1>1. /\ pc' = [pc EXCEPT ![p] = "idle"] /\ pc'[p] = "idle"
      /\ View' = View /\ UNCHANGED history
      /\ \A q \in Procs : q # p => pc'[q] = pc[q] /\ call'[q] = call[q]
  BY DEF View, files, IInv, TypeOK
<1>2. CASE pc[p] \in LockedSteps
  <2>1. Claims' = {}
    BY <1>1, <1>2, ClaimsAfter DEF ClaimOf
  <2>2. CASE Claims = {}
    BY <1>1, <2>1, <2>2, Invisible DEF Abstract, history
  <2>3. CASE Claims # {}
    <3>1. PICK t \in Tokens : Claims = {t}
      BY <1>2, <2>3, ClaimsInside DEF ClaimOf
    <3>2. Lifecycle!Abandon(t)
      BY <1>1, <2>1, <3>1 DEF Lifecycle!Abandon, history
    <3> QED
      BY <3>1, <3>2 DEF Abstract, Lifecycle!Next
  <2> QED
    BY <2>2, <2>3
<1>3. CASE pc[p] \notin LockedSteps
  <2>1. Claims' = Claims
    BY <1>1, <1>3 DEF Claims, Returns, LockedSteps
  <2> QED
    BY <1>1, <2>1, Invisible DEF Abstract, history
<1> QED
  BY <1>2, <1>3

LEMMA StutterStep ==
  ASSUME UNCHANGED vars
  PROVE  Abstract
<1>1. View' = View /\ Claims' = Claims /\ UNCHANGED history
  BY DEF vars, files, local, View, Claims, Returns
<1> QED
  BY <1>1, Invisible DEF Abstract, history

LEMMA StepSimulation == IInv /\ [Next]_vars => Abstract
<1> SUFFICES ASSUME IInv, [Next]_vars PROVE Abstract
  OBVIOUS
<1>1. CASE UNCHANGED vars
  BY <1>1, StutterStep
<1>2. ASSUME NEW p \in Procs,
             Ask(p) \/ Acquire(p) \/ AcquireTimeout(p) \/ Progress(p)
               \/ WriteFails(p) \/ Crash(p)
      PROVE  Abstract
  <2>1. CASE Progress(p)
    BY <2>1, ReplayStep, ReadStep, GiveUpStep, WriteJournalStep, PublishedStep,
       WriteChangeStep, ReleaseStep DEF Progress
  <2> QED
    BY <1>2, <2>1, OutsideStep, GiveUpStep, CrashStep
<1> QED
  BY <1>1, <1>2 DEF Next

LEMMA InitSimulation == Init => Lifecycle!Init
BY DEF Init, Lifecycle!Init, View, Claims, EmptyRegistry, NoJournal, Absent

-----------------------------------------------------------------------------
(* The theorem.                                                            *)

\* A client of the registry cannot tell it from the token life cycle: a
\* token is issued once, consumed by at most one client, and announced or
\* completed only when that is already durable.
THEOREM RegistryImplementsLifecycle == Spec => ImplementsLifecycle
<1>1. IInv /\ [Next]_vars => [Lifecycle!Next]_Lifecycle!vars
  BY StepSimulation DEF Abstract
<1> QED
  BY <1>1, InitSimulation, Invariance, PTL
     DEF Spec, ImplementsLifecycle, Lifecycle!Spec

-----------------------------------------------------------------------------
(* The docstring of TokenStore.consume, for clients that take the lock.    *)

\* Every client of the files is an operation of TokenStore under its lock.
AllTakeTheLock == Unlocked = {}

\* Nobody is then in a step of resolve or of the finalizer.
LockedInv == IInv /\ finalizerLock = None

\* What is left of the clients' steps are the steps of the registry.
LEMMA OnlyLockedSteps ==
  ASSUME AllTakeTheLock, LockedInv, ClientNext
  PROVE  Next /\ UNCHANGED finalizerLock
<1>1. ASSUME NEW p \in Procs PROVE ~Resolve(p) /\ ~Finalize(p)
  BY DEF AllTakeTheLock, Resolve, Finalize
<1>2. ASSUME NEW p \in Procs PROVE ~ResolveRead(p)
  <2>1. call[p].op \in Ops \cup {"none"}
    BY DEF LockedInv, IInv, TypeOK, Call, NoCall
  <2> QED
    BY <2>1 DEF ResolveRead, Ops
<1>3. ASSUME NEW p \in Procs
      PROVE  ~FinalizerRead(p) /\ ~FinalizerWrite(p) /\ ~FinalizerExit(p)
  <2>1. pc[p] \in Steps
    BY DEF LockedInv, IInv, TypeOK
  <2> QED
    BY <2>1 DEF FinalizerRead, FinalizerWrite, FinalizerExit, Goto, Steps,
                LockedSteps, WriteSteps
<1>4. ASSUME NEW p \in Procs PROVE ~FinalizerCrash(p)
  BY ConstantsOK DEF FinalizerCrash, LockedInv
<1> QED
  BY <1>1, <1>2, <1>3, <1>4 DEF ClientNext

LEMMA LockedInvariance ==
  ASSUME AllTakeTheLock
  PROVE  ClientSpec => []LockedInv
<1>1. ClientInit => LockedInv
  BY InitInv DEF ClientInit, LockedInv
<1>2. LockedInv /\ [ClientNext]_clientVars => LockedInv'
  <2> SUFFICES ASSUME LockedInv, [ClientNext]_clientVars PROVE LockedInv'
    OBVIOUS
  <2>1. [Next]_vars /\ UNCHANGED finalizerLock
    BY OnlyLockedSteps DEF clientVars
  <2> QED
    BY <2>1, NextInv DEF LockedInv
<1> QED
  BY <1>1, <1>2, PTL DEF ClientSpec

\* If every client of the files takes the registry lock, the clients do
\* nothing that TokenRegistry does not do, and all that is proved about it
\* holds of them.
THEOREM LockedClientsAreTheRegistry ==
  ASSUME AllTakeTheLock
  PROVE  ClientSpec => Spec
<1>1. ClientInit => Init
  BY DEF ClientInit
<1>2. LockedInv /\ [ClientNext]_clientVars => [Next]_vars
  <2> SUFFICES ASSUME LockedInv, [ClientNext]_clientVars PROVE [Next]_vars
    OBVIOUS
  <2> QED
    BY OnlyLockedSteps DEF clientVars
<1> QED
  BY <1>1, <1>2, LockedInvariance, PTL DEF ClientSpec, Spec

\* "The registry lock prevents two remote clients from both completing the
\* same batch" (tokens.py, TokenStore.consume) is true of the clients that
\* take the lock, whatever crashes, fails or is replayed.  The runs
\* token_resolver and token_finalizer show that each client that does not
\* take it is enough to make it false.
THEOREM LockPreventsSecondCompletion ==
  ASSUME AllTakeTheLock
  PROVE  ClientSpec => NoSecondCompletion
<1>1. LockedInv =>
        \A p \in Procs : ReportsCompletion(p) => call[p].token \notin completed
  <2> SUFFICES ASSUME LockedInv, NEW p \in Procs, ReportsCompletion(p)
               PROVE  call[p].token \notin completed
    OBVIOUS
  <2>1. pc[p] = "release" /\ Returns(p, "consume")
    <3>1. pc[p] \in Steps
      BY DEF LockedInv, IInv, TypeOK
    <3> QED
      BY <3>1 DEF ReportsCompletion, Steps, LockedSteps, WriteSteps
  <2>2. OutcomeShape(p)
    BY <2>1 DEF LockedInv, IInv, Inside, LockedSteps
  <2> QED
    BY <2>1, <2>2 DEF OutcomeShape
<1> QED
  BY <1>1, LockedInvariance, PTL DEF NoSecondCompletion

=============================================================================
