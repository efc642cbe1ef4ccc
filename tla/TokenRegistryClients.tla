------------------------ MODULE TokenRegistryClients ------------------------
(***************************************************************************)
(* TokenRegistry together with the two clients of the same files that do   *)
(* not take the registry lock:                                             *)
(*   - TokenStore.resolve, which reads through _read and so replays a      *)
(*     pending journal, without "with self._exclusive()";                  *)
(*   - the stdlib-only finalizer that shortcut._consume_remote sends to    *)
(*     the host when "awui-token consume" fails there.  It locks           *)
(*     <registry>.lock, not the .<name>.lock of TokenStore, and knows      *)
(*     nothing of the publication journal.                                 *)
(***************************************************************************)
EXTENDS TokenRegistry

CONSTANT Unlocked   \* which of "resolve" and "finalize" run in this instance

VARIABLE finalizerLock   \* the process holding the finalizer's own lock file

clientVars == <<vars, finalizerLock>>

ClientInit == Init /\ finalizerLock = None

-----------------------------------------------------------------------------
\* resolve: straight to the recovery, then one read that changes nothing.
\* The steps of the recovery are those of TokenRegistry.
Resolve(p) ==
  /\ "resolve" \in Unlocked
  /\ Goto(p, "idle", "recover")
  /\ \E t \in printed :
       call' = [call EXCEPT ![p] = [NoCall EXCEPT !.op = "resolve", !.token = t]]
  /\ UNCHANGED <<files, lock, values, replay, history, faults, finalizerLock>>

ResolveRead(p) ==
  /\ call[p].op = "resolve"
  /\ Goto(p, "read", "release")
  /\ UNCHANGED <<files, lock, local, history, faults, finalizerLock>>

-----------------------------------------------------------------------------
Finalize(p) ==
  /\ "finalize" \in Unlocked
  /\ Goto(p, "idle", "finalizer_read")
  /\ finalizerLock = None
  /\ finalizerLock' = p
  /\ \E t \in printed :
       call' = [call EXCEPT ![p] = [NoCall EXCEPT !.op = "finalize", !.token = t]]
  /\ UNCHANGED <<files, lock, values, replay, history, faults>>

FinalizerRead(p) ==
  /\ \/ /\ Goto(p, "finalizer_read", "finalizer_write")
        /\ registry[call[p].token].status = "active"
        /\ values' = [values EXCEPT ![p] =
                        [registry EXCEPT ![call[p].token].status = "consumed"]]
     \/ /\ Goto(p, "finalizer_read", "finalizer_exit")
        /\ UNCHANGED values
  /\ UNCHANGED <<files, lock, call, replay, history, faults, finalizerLock>>

FinalizerWrite(p) ==
  /\ Goto(p, "finalizer_write", "finalizer_exit")
  /\ registry' = values[p]
  /\ Succeed(p)
  /\ UNCHANGED <<request, journal, lock, values, replay, history, faults, finalizerLock>>

\* Exit code 0 is a completed batch for the launcher.
FinalizerExit(p) ==
  /\ Goto(p, "finalizer_exit", "idle")
  /\ finalizerLock' = None
  /\ completed' = completed \cup
       {t \in {call[p].token} : Returns(p, "finalize")}
  /\ Forget(p)
  /\ UNCHANGED <<files, lock, printed, published, faults>>

FinalizerCrash(p) ==
  /\ finalizerLock = p
  /\ Crash(p)
  /\ finalizerLock' = None

-----------------------------------------------------------------------------
ClientNext ==
  \/ \E p \in Procs :
       \/ Resolve(p) \/ ResolveRead(p)
       \/ Finalize(p) \/ FinalizerRead(p) \/ FinalizerWrite(p)
       \/ FinalizerExit(p) \/ FinalizerCrash(p)
  \/ /\ Next
     /\ \A p \in Procs : finalizerLock = p => pc'[p] # "idle"
     /\ UNCHANGED finalizerLock

ClientSpec == ClientInit /\ [][ClientNext]_clientVars

-----------------------------------------------------------------------------
\* The step in which p's caller learns that p completed a batch.
ReportsCompletion(p) ==
  /\ \/ pc[p] = "release" /\ Returns(p, "consume")
     \/ pc[p] = "finalizer_exit" /\ Returns(p, "finalize")
  /\ pc'[p] = "idle"
  /\ UNCHANGED faults

\* A client is never told that it completed a batch that another client
\* completed before (TokenStore.consume: "The registry lock prevents two
\* remote clients from both completing the same batch").
NoSecondCompletion ==
  [][\A p \in Procs : ReportsCompletion(p) => call[p].token \notin completed]_clientVars

=============================================================================
