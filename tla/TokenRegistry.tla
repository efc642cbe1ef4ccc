---------------------------- MODULE TokenRegistry ----------------------------
(***************************************************************************)
(* The token registry of the SSH authority: TokenStore and publish_batch   *)
(* of awtui/tokens.py, as awui-token (awtui/tokenctl.py) runs them.        *)
(*                                                                         *)
(* Every process works on three files: the registry, the request file of   *)
(* the batch it publishes, and the publication journal.  Each is replaced  *)
(* atomically (a temporary file and os.replace), and nothing else is       *)
(* atomic: an operation takes the registry lock, replays a pending         *)
(* journal, reads the registry, and writes one file at a time.  Between    *)
(* any two of these steps another process may run, the write may raise,    *)
(* or the process may die, which releases its flock and leaves the files   *)
(* as they are.                                                            *)
(*                                                                         *)
(* Abstracted: a token is the record it selects (digests, time stamps and  *)
(* validation of the text fields are left out), the "batch" of a record is *)
(* its packet digest, and a consume may find at any read that the token is *)
(* past expires_at or bound to another SSH alias than the caller's.        *)
(***************************************************************************)
EXTENDS Naturals, FiniteSets

CONSTANTS
  Procs,      \* processes that run one registry operation at a time
  Tokens,     \* token strings the generator can draw
  Batches,    \* decision batches, each named by its packet digest
  Files,      \* authoritative request paths (session files)
  FileOf,     \* FileOf[b]: the session file batch b is published to
  None,       \* no batch, no journal, no process
  MaxFaults   \* bound on crashes and failed writes together

ASSUME ConstantsOK ==
  /\ FileOf \in [Batches -> Files]
  /\ None \notin Procs \cup Batches \cup Tokens
  /\ MaxFaults \in Nat

VARIABLES
  registry,   \* the registry file: the record of every token
  request,    \* request[f]: the batch in session file f
  journal,    \* the publication journal, or None when there is no such file
  lock,       \* the process that holds the registry flock
  pc,         \* pc[p]: the next step of process p
  call,       \* call[p]: the operation p runs and its arguments
  values,     \* values[p]: the registry as p read it, with p's change
  replay,     \* replay[p]: the journal p is replaying
  printed,    \* tokens a caller has been handed
  published,  \* those of them that publish_batch handed out
  completed,  \* tokens whose consume returned to its caller
  faults      \* crashes and failed writes so far

files == <<registry, request, journal>>
local == <<call, values, replay>>
history == <<printed, published, completed>>
vars == <<files, lock, pc, local, history, faults>>

Absent == [status |-> "absent", batch |-> None]
Record ==
  {Absent} \cup
    [status : {"active", "consumed", "revoked"}, batch : Batches]
Registry == [Tokens -> Record]
EmptyRegistry == [t \in Tokens |-> Absent]
NoJournal == [batch |-> None, registry |-> EmptyRegistry]
Journal == {NoJournal} \cup [batch : Batches, registry : Registry]

Ops == {"publish", "issue", "consume", "revoke"}
NoCall == [op |-> "none", token |-> None, batch |-> None, ok |-> FALSE]
Call ==
  {NoCall} \cup
    [op : Ops, token : Tokens \cup {None}, batch : Batches \cup {None},
     ok : BOOLEAN]

\* Steps that replace or remove a file, and so may raise OSError.
WriteSteps ==
  {"replay_request", "replay_registry", "replay_unlink",
   "write_journal", "write_request", "write_registry", "unlink_journal"}
\* Steps that run inside "with store._exclusive()".
LockedSteps == WriteSteps \cup {"recover", "read", "release"}
Steps == LockedSteps \cup {"idle", "exclusive"}

TypeOK ==
  /\ registry \in Registry
  /\ request \in [Files -> Batches \cup {None}]
  /\ journal \in Journal
  /\ lock \in Procs \cup {None}
  /\ pc \in [Procs -> Steps]
  /\ call \in [Procs -> Call]
  /\ values \in [Procs -> Registry]
  /\ replay \in [Procs -> Journal]
  /\ printed \subseteq Tokens
  /\ published \subseteq Tokens
  /\ completed \subseteq Tokens
  /\ faults \in 0..MaxFaults

Init ==
  /\ registry = EmptyRegistry
  /\ request = [f \in Files |-> None]
  /\ journal = NoJournal
  /\ lock = None
  /\ pc = [p \in Procs |-> "idle"]
  /\ call = [p \in Procs |-> NoCall]
  /\ values = [p \in Procs |-> EmptyRegistry]
  /\ replay = [p \in Procs |-> NoJournal]
  /\ printed = {}
  /\ published = {}
  /\ completed = {}
  /\ faults = 0

\* The logical registry: what a reader that recovers first would see.
View == IF journal = NoJournal THEN registry ELSE journal.registry

Goto(p, from, to) ==
  /\ pc[p] = from
  /\ pc' = [pc EXCEPT ![p] = to]

-----------------------------------------------------------------------------
(* Calling an operation, and taking the lock it starts with.  Nothing of a *)
(* call is looked at before the lock is held, so its operation and its     *)
(* arguments are chosen when it is.                                        *)

Ask(p) ==
  /\ Goto(p, "idle", "exclusive")
  /\ UNCHANGED <<files, lock, local, history, faults>>

\* flock(LOCK_EX) blocks until no other open file description holds it.
Enter(p, op, t, b) ==
  /\ Goto(p, "exclusive", "recover")
  /\ lock = None
  /\ lock' = p
  /\ call' = [call EXCEPT ![p] =
                [op |-> op, token |-> t, batch |-> b, ok |-> FALSE]]
  /\ UNCHANGED <<files, values, replay, history, faults>>

\* The token of a call was handed to someone, or is mistyped: nobody can
\* guess one that is registered and was never printed.
Presented == printed \cup {t \in Tokens : View[t] = Absent}

EnterPublish(p) == \E b \in Batches : Enter(p, "publish", None, b)
EnterIssue(p) == \E b \in Batches : Enter(p, "issue", None, b)
EnterConsume(p) == \E t \in Presented : Enter(p, "consume", t, None)
EnterRevoke(p) == \E t \in Presented : Enter(p, "revoke", t, None)

Acquire(p) ==
  EnterPublish(p) \/ EnterIssue(p) \/ EnterConsume(p) \/ EnterRevoke(p)

\* msvcrt has no blocking lock: after 30 seconds the operation gives up.
AcquireTimeout(p) ==
  /\ Goto(p, "exclusive", "idle")
  /\ lock # None
  /\ UNCHANGED <<files, lock, local, history, faults>>

-----------------------------------------------------------------------------
(* _recover_publication: a pending journal is replayed before the read.    *)

\* Mutant: the operation reads without looking for a pending journal.
NothingToRecover_Unchecked(p) ==
  /\ Goto(p, "recover", "read")
  /\ UNCHANGED <<files, lock, local, history, faults>>

NothingToRecover(p) ==
  /\ Goto(p, "recover", "read")
  /\ journal = NoJournal
  /\ UNCHANGED <<files, lock, local, history, faults>>

LoadJournal(p) ==
  /\ Goto(p, "recover", "replay_request")
  /\ journal # NoJournal
  /\ replay' = [replay EXCEPT ![p] = journal]
  /\ UNCHANGED <<files, lock, call, values, history, faults>>

ReplayRequest(p) ==
  /\ Goto(p, "replay_request", "replay_registry")
  /\ request' = [request EXCEPT ![FileOf[replay[p].batch]] = replay[p].batch]
  /\ UNCHANGED <<registry, journal, lock, local, history, faults>>

ReplayRegistry(p) ==
  /\ Goto(p, "replay_registry", "replay_unlink")
  /\ registry' = replay[p].registry
  /\ UNCHANGED <<request, journal, lock, local, history, faults>>

\* Mutant: the replayed journal is left in place.
ReplayUnlink_Kept(p) ==
  /\ Goto(p, "replay_unlink", "read")
  /\ replay' = [replay EXCEPT ![p] = NoJournal]
  /\ UNCHANGED <<files, lock, call, values, history, faults>>

ReplayUnlink(p) ==
  /\ Goto(p, "replay_unlink", "read")
  /\ journal' = NoJournal
  /\ replay' = [replay EXCEPT ![p] = NoJournal]
  /\ UNCHANGED <<registry, request, lock, call, values, history, faults>>

-----------------------------------------------------------------------------
(* Reading the registry and deciding what to write.                        *)

\* A fresh token is one whose digest the registry does not hold.
Allocate(p, t, next) ==
  /\ registry[t] = Absent
  /\ Goto(p, "read", next)
  /\ values' = [values EXCEPT ![p] =
       [registry EXCEPT ![t] = [status |-> "active", batch |-> call[p].batch]]]
  /\ call' = [call EXCEPT ![p].token = t]

ReadToPublish(p) ==
  /\ call[p].op = "publish"
  /\ \E t \in Tokens : Allocate(p, t, "write_journal")
  /\ UNCHANGED <<files, lock, replay, history, faults>>

ReadToIssue(p) ==
  /\ call[p].op = "issue"
  /\ \E t \in Tokens : Allocate(p, t, "write_registry")
  /\ UNCHANGED <<files, lock, replay, history, faults>>

Mark(p, status) ==
  /\ Goto(p, "read", "write_registry")
  /\ values' = [values EXCEPT ![p] =
       [registry EXCEPT ![call[p].token] =
          [status |-> status, batch |-> @.batch]]]
  /\ UNCHANGED <<files, lock, call, replay, history, faults>>

\* Mutant: consume does not look at the status of the record.
ReadToConsume_AnyStatus(p) ==
  /\ call[p].op = "consume"
  /\ registry[call[p].token] # Absent
  /\ Mark(p, "consumed")

ReadToConsume(p) ==
  /\ call[p].op = "consume"
  /\ registry[call[p].token].status = "active"
  /\ Mark(p, "consumed")

\* Mutant: revoke does not check that it matched a record.
ReadToRevoke_Unmatched(p) ==
  /\ call[p].op = "revoke"
  /\ Mark(p, "revoked")

\* Whatever its status, a token the registry knows can be revoked.
ReadToRevoke(p) ==
  /\ call[p].op = "revoke"
  /\ registry[call[p].token] # Absent
  /\ Mark(p, "revoked")

\* TokenError: ten draws that all hit a registered token; a token to revoke
\* that is unknown; a token to consume that is unknown, spent, past its expiry or
\* bound to another SSH alias, the last two whatever its status.
Refusable(p) ==
  \/ /\ call[p].op \in {"publish", "issue"}
     /\ \E t \in Tokens : registry[t] # Absent
  \/ /\ call[p].op = "revoke"
     /\ registry[call[p].token] = Absent
  \/ call[p].op = "consume"

ReadRefused(p) ==
  /\ Goto(p, "read", "release")
  /\ Refusable(p)
  /\ UNCHANGED <<files, lock, local, history, faults>>

-----------------------------------------------------------------------------
(* The writes.                                                             *)

WriteJournal(p) ==
  /\ Goto(p, "write_journal", "write_request")
  /\ journal' = [batch |-> call[p].batch, registry |-> values[p]]
  /\ UNCHANGED <<registry, request, lock, local, history, faults>>

\* Mutant: a failed replacement of the request file is swallowed.
WriteRequest_Swallowed(p) ==
  /\ Goto(p, "write_request", "write_registry")
  /\ UNCHANGED <<files, lock, local, history, faults>>

WriteRequest(p) ==
  /\ Goto(p, "write_request", "write_registry")
  /\ request' = [request EXCEPT ![FileOf[call[p].batch]] = call[p].batch]
  /\ UNCHANGED <<registry, journal, lock, local, history, faults>>

Succeed(p) == call' = [call EXCEPT ![p].ok = TRUE]

\* In publish_batch the journal still has to go; elsewhere this was the
\* only write and the operation has succeeded.
WriteRegistry(p) ==
  /\ registry' = values[p]
  /\ \/ /\ call[p].op = "publish"
        /\ Goto(p, "write_registry", "unlink_journal")
        /\ UNCHANGED call
     \/ /\ call[p].op # "publish"
        /\ Goto(p, "write_registry", "release")
        /\ Succeed(p)
  /\ UNCHANGED <<request, journal, lock, values, replay, history, faults>>

UnlinkJournal(p) ==
  /\ Goto(p, "unlink_journal", "release")
  /\ journal' = NoJournal
  /\ Succeed(p)
  /\ UNCHANGED <<registry, request, lock, values, replay, history, faults>>

-----------------------------------------------------------------------------
(* The end of an operation: returned, raised, or the process gone.         *)

Forget(p) ==
  /\ call' = [call EXCEPT ![p] = NoCall]
  /\ values' = [values EXCEPT ![p] = EmptyRegistry]
  /\ replay' = [replay EXCEPT ![p] = NoJournal]

Unlock(p) == lock' = IF lock = p THEN None ELSE lock

Returns(p, op) == call[p].ok /\ call[p].op = op

\* Mutant: the allocated token is printed although publish_batch raised.
Release_PrintsAlways(p) ==
  /\ Goto(p, "release", "idle")
  /\ Unlock(p)
  /\ printed' = printed \cup
       {t \in {call[p].token} : call[p].op = "publish" /\ t # None}
  /\ Forget(p)
  /\ UNCHANGED <<files, published, completed, faults>>

\* Mutant: an exception skips the unlock of the registry.
Release_KeepsLock(p) ==
  /\ Goto(p, "release", "idle")
  /\ IF call[p].ok THEN Unlock(p) ELSE UNCHANGED lock
  /\ Forget(p)
  /\ UNCHANGED <<files, history, faults>>

\* The caller prints a token only from a call that returned it, and takes a
\* batch as completed only from a consume that returned.
Release(p) ==
  /\ Goto(p, "release", "idle")
  /\ Unlock(p)
  /\ printed' = printed \cup
       {t \in {call[p].token} : Returns(p, "publish") \/ Returns(p, "issue")}
  /\ published' = published \cup {t \in {call[p].token} : Returns(p, "publish")}
  /\ completed' = completed \cup {t \in {call[p].token} : Returns(p, "consume")}
  /\ Forget(p)
  /\ UNCHANGED <<files, faults>>

\* A write raises before os.replace: the file is untouched, the exception
\* leaves the with block, and a journal already written stays for replay.
WriteFails(p) ==
  /\ pc[p] \in WriteSteps
  /\ faults < MaxFaults
  /\ pc' = [pc EXCEPT ![p] = "release"]
  /\ faults' = faults + 1
  /\ UNCHANGED <<files, lock, local, history>>

Crash(p) ==
  /\ pc[p] # "idle"
  /\ faults < MaxFaults
  /\ pc' = [pc EXCEPT ![p] = "idle"]
  /\ faults' = faults + 1
  /\ Unlock(p)
  /\ Forget(p)
  /\ UNCHANGED <<files, history>>

-----------------------------------------------------------------------------
Progress(p) ==
  \/ NothingToRecover(p) \/ LoadJournal(p)
  \/ ReplayRequest(p) \/ ReplayRegistry(p) \/ ReplayUnlink(p)
  \/ ReadToPublish(p) \/ ReadToIssue(p) \/ ReadToConsume(p) \/ ReadToRevoke(p)
  \/ ReadRefused(p)
  \/ WriteJournal(p) \/ WriteRequest(p) \/ WriteRegistry(p) \/ UnlinkJournal(p)
  \/ Release(p)

Next ==
  \E p \in Procs :
    \/ Ask(p) \/ Acquire(p) \/ AcquireTimeout(p)
    \/ Progress(p)
    \/ WriteFails(p) \/ Crash(p)

Spec == Init /\ [][Next]_vars

\* A process that runs keeps running, and the kernel wakes a flock waiter:
\* no waiter is passed over for ever.  Nothing is fair about new calls,
\* faults or the Windows time-out.
Fairness ==
  \A p \in Procs : WF_vars(Progress(p)) /\ SF_vars(Acquire(p))

FairSpec == Spec /\ Fairness

-----------------------------------------------------------------------------
(* What the registry guarantees.                                           *)

\* A token someone was handed is in the registry that the next operation
\* will see, whatever crashed since (docs/TOKEN_CONTRACT.md: "must not print
\* the returned token until both files are durable").
PrintedIsDurable == \A t \in printed : View[t] # Absent

\* Replaying a pending journal never takes back what the registry says:
\* the journal adds the published token and keeps every other record.
ReplayKeepsRecords ==
  journal # NoJournal =>
    \A t \in Tokens : registry[t] # Absent => journal.registry[t] = registry[t]

\* An active, published token opens the very batch it was issued for: its
\* session file still holds the bound packet.
ActiveTokenOpensItsBatch ==
  \A t \in published :
    View[t].status = "active" => request[FileOf[View[t].batch]] = View[t].batch

\* Once a client has been told that it completed a batch, no later operation
\* can find the token active, in the registry or after a replay.
CompletedIsSpent ==
  \A t \in completed : View[t].status \in {"consumed", "revoked"}

\* No operation waits for ever: whoever asked for the lock returns, gives
\* up or dies.
OperationsEnd ==
  \A p \in Procs : pc[p] = "exclusive" ~> pc[p] = "idle"

\* The registry implements the token life cycle: the state a client can
\* observe is the view after recovery, and the commit point of a
\* publication is the journal replacement.
Claims ==
  {t \in Tokens : \E p \in Procs :
     pc[p] = "release" /\ Returns(p, "consume") /\ call[p].token = t}

Lifecycle == INSTANCE TokenLifecycle WITH
  status <- [t \in Tokens |-> View[t].status],
  claims <- Claims

ImplementsLifecycle == Lifecycle!Spec

=============================================================================
