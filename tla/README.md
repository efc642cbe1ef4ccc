# Agent Workflow UI: a TLA+ development

This directory specifies, model-checks and proves correct the stateful core of
`agent-workflow-ui`: a terminal/Qt front end, an SSH handoff and an Android
client through which people answer the decision batches of a Coordinator.

## 1. The system

| Component | Code | State it keeps | Operations | What makes it correct |
|---|---|---|---|---|
| Token registry | `tokens.py`, `tokenctl.py` | registry file, request files, publication journal, lock file | publish, issue, resolve, consume, revoke | a token handed out is durable; a batch is completed by one client under its lock; a token opens the batch it was issued for |
| Short launcher | `shortcut.py` | a temporary copy of the registry | fetch, resolve, connect, consume (with a fallback finalizer) | the token is consumed only after the journal was accepted |
| SSH handoff | `connect.py`, `host.py` | temporary directory, remote result file | fetch with retries, run the UI, upload, rename, clean up | the remote result is complete or absent |
| Session transport | `boundary.py`, `transport.py`, `coordinator.py`, `host.append_event`, `transport_io.py` | next sequence, output file, event journal | submit, append, replace | an acknowledged event is durable, a refused one takes no sequence |
| Decision view-model and its two renderers | `live.py`, `discussion.py`, `persistence.py`, `gui.py`, `launcher.py` | responses, cursor, proposals, `saved`, last digest, exit dialogue | select, reject, clarify, add proposal, reopen, move, save, exit | what is shown as answered was acknowledged; what is shown as saved is what was saved |
| Android registry | `android_service.py`, `android_server.py`, `android_pair.py`, `android_register.py` | bootstraps, devices, sessions, batches, events, in memory and in one file | create_bootstrap, redeem, challenge, release, revoke, publish, get, route | a bootstrap is redeemed once, an event is accepted once, revocation is final |
| Phone client in Python | `android_client.py` | none | poll, submit | it answers only what it was given |
| Phone | `EventJournal.kt`, `AndroidBridgeClient.kt`, `WorkflowApp.kt` | sequences, committed answers, outbox | reserve, send, acknowledge, poll | every answer reaches the service exactly once, in order |
| SSH keys | `android_ssh.py` | `authorized_keys` on the rendezvous host | install, revoke | a revoked key stays out, an installed one stays in |
| Bridge, AWG adapter | `bridge.py`, `awg.py`, `reconciliation.py` | none (AR metadata in, AR metadata out) | project events on an AR | the AR says what the last decision says |
| Dashboard | `dashboard.py`, `graph.py` | current node | drill down, drill up, accept a response | the cursor is always a node of the board |
| Audit log | `audit.py` | a bounded list of entries | record, trim, export | never above its bound, newest kept |

Components meet in files and in calls. The Coordinator publishes a batch with
`awui-token publish` and prints the token; `awui TOKEN` fetches the registry,
resolves the token, runs `connect` (fetch the request, run the UI on it, upload
what the UI journalled) and then consumes the token on the host. Inside the UI
a key press becomes a response of the view-model, an event of the transport and
a line of the journal, in that order, and the response is taken back when the
event is refused. The phone talks to the Android registry over HTTPS, possibly
through an SSH tunnel whose key the registry installs. The desktop window hands its
events to a sink, without boundary and transport, and the bridge projects each of
them onto the AR.

What is hard, and hard to test: processes that share the registry files with a
lock not all of them take; a death between two file replacements; a retry of
something that was done; replies that never arrive; answers that were shown and
then dropped; a second process with its own in-memory copy of one state file.
`PROJECT.json` lists each such place at its line under `hazards`.

## 2. The modules

| Module | What it is |
|---|---|
| `TokenLifecycle` | Abstract: what the registry promises its clients. A token is absent, active, consumed or revoked; being told of a completion follows one winning consume. |
| `TokenRegistry` | The registry as the code runs it. |
| `TokenRegistryClients` | The registry with the two clients that do not take its lock. |
| `TokenRegistryProofs` | Theorems about `TokenRegistry`, checked by TLAPS. |
| `TokenRegistryRefinement` | The proof that `TokenRegistry` implements `TokenLifecycle`, and what clients that take the lock are promised. |
| `Handoff` | One tokenized batch carried over SSH to several clients and back. |
| `HandoffProofs` | Theorems about `Handoff`. |
| `SessionLedger` | Abstract: what a decision session promises the person who answers. |
| `LiveSession` | One session: view-model, keys, transport, output file and journal. |
| `LiveSessionProofs` | Theorems about `LiveSession`. |
| `LiveSessionRefinement` | The proof that `LiveSession` implements `SessionLedger`. |
| `DecisionWindow` | The desktop window, its sink and audit, and the AR at the other end. |
| `DecisionWindowProofs` | Theorems about `DecisionWindow`. |
| `AnswerLog` | Abstract: what the Android service promises a phone about its answers. |
| `AndroidRegistry` | The Android service, its state file, its phones, its tunnel and the pairing tools. |
| `AndroidRegistryProofs` | Theorems about `AndroidRegistry`, and the proof that it implements `AnswerLog`. |
| `OrderFacts` | Lemmas about numbers, positions and sequences that grow, for the proofs about sessions. |
| `MCTokenRegistry`, `MCTokenRegistryClients`, `MCHandoff`, `MCLiveSession`, `MCDecisionWindow`, `MCAndroidRegistry` | Instances for TLC. |

### TokenRegistry

*State.* `registry`, `request` and `journal` are the contents of the files
`awui-tokens.json`, the session files and `.awui-tokens.json.publication.json`;
a file that does not exist is the empty registry, `None` and `NoJournal`.
`lock` is the flock on `.awui-tokens.json.lock`. Of a process we keep where it
is (`pc`), its call, the registry it read and changed (`values`) and the journal
it replays (`replay`). `printed`, `published` and `completed` are what callers
were told; they are history and nothing reads them except `Presented`, the
tokens a caller can name.

*Steps.* A file is replaced by `os.replace` of a synced temporary file, so each
replacement is one step and nothing larger is. `Ask` and `Acquire` are
`_exclusive`; `NothingToRecover`, `LoadJournal`, `ReplayRequest`,
`ReplayRegistry`, `ReplayUnlink` are `_recover_publication`; `ReadToPublish`,
`ReadToIssue`, `ReadToConsume`, `ReadToRevoke` and `ReadRefused` are the reads
with the checks that follow them in memory; `WriteJournal`, `WriteRequest`,
`WriteRegistry`, `UnlinkJournal` the writes; `Release` the end of the `with`
block and the return or exception. `WriteFails` is a write that raises before
the replacement, `Crash` the death of the process at any point, which frees its
flock. `AcquireTimeout` is the 30 seconds of the Windows lock.

*Left out.* Digests, stamps and text validation; `expires_at` and `ssh_host`
survive as the freedom of a consume to be refused at any read. A registry or
journal that is not JSON is not modelled: no step of the program writes one.
The default directory modes, and durability of a rename against power loss
(the code does not sync directories), are below this model.

### TokenRegistryClients

`resolve` enters the recovery steps of `TokenRegistry` without the lock. The
finalizer of `shortcut._consume_remote` takes its own lock file, reads the
registry, ignores the journal, and writes. The constant `Unlocked` says which of
the two an instance runs.

### Handoff

*State.* On the host: `status`, the token's record; `pending`, the programs that were
sent to consume it, and `critical`, for each of the two lock files the program that
holds it and has read the token active; `result`, the event file of the batch; `temps`,
the siblings that launches upload to; `late`, renames that were sent and not answered.
Of a client: where it is (`pc`), its launch, the attempts its command has left, how
much of the request it copied, the files its UI wrote (`dir`) and whether its rename
was reported done (`sent`). A file is the set of the events it holds. `recorded`,
`refused`, `returned`, `consumers`, `done` and `lost` are history; `refused` is the
event that a UI wrote to its output and that its journal then refused
(`live.py:1020-1024`), which is uploaded like any other.

*Steps.* `Launch` is `shortcut.run` up to `connect`: the registry was copied and
the token was active in it. From then on the copy is old: nothing keeps another
client from launching, or the Coordinator from revoking. `Prepare`,
`FetchRequest`, `UiReturns`, `Upload`, `Rename` and `Cleanup` are the commands of
`connect` in their order, and each has a failing twin: a fetch leaves nothing, a
part or all of the request; a copy leaves nothing, a part or all of the upload;
a rename that was cut off may run later, or never (`LateRename`). `MayRetry` is
the bounded retry of `_transport` and of the fetch. `_consume_remote` is two commands,
each of which sends a program to the host (`Send`) and waits (`Answered`,
`ConsumeFails`, `FinalizeFails`). The program is `awui-token consume` or the fallback
finalizer (`Paths`): it takes the lock file of its path and reads the token active
(`Read`), and later replaces the registry (`Write`) or dies (`WriteFails`). The two
paths lock different files, so their programs overlap; a program may run when its
client has given it up, is gone, or has sent the other one. `Revoke` takes the lock of
`awui-token`, and a finalizer may write a consumed record over the revoked one. An
operation about another token replaces the whole registry, and puts this record back to
"active" if it read it before and is not kept out by the same lock (`PutBack`): the
finalizer of the other token, `awui-token` beside a finalizer of this one, or a `resolve`
that replays a journal. `Kill` ends a client anywhere, without its `finally` clause.

Crashes of a registry operation and the journals are `TokenRegistry`'s, not repeated
here: of one token they change what a later `Read` finds, which `Revoke` and `PutBack`
change too. `PutBack` may come at any time the record is not active, which is oftener
than the code has a reader that is late enough. An SSH host is always given: without one `connect` runs the UI on the file
in place.

### LiveSession

*State.* `point`, `cursor`, `proposals`, `responses` and `saved` are the fields
of `LiveInteraction`, `digest` that of its save adapter (the snapshot itself, not
its hash), `mode` and `dialogue` the proposal form and the exit dialogue. `next`
is the boundary's next sequence. `output` and `journal` are the files of
`--output-json` and of the event journal; a line is an event, `Torn` when it stops
before its newline, or `Garbled` when another line was written behind a torn one.
`step` and `sending` say where the delivery under way is. `accepted` is history:
the events of this run that were acknowledged.

*Steps.* Each key of `run_live` that changes anything is an action: `MovePoint`,
`MoveProposal` (left and right, which drop the answer to the point), `Respond`
(Enter, `r`, `c`), `Remark` (`m`, `o`, `R`), `Save`, `OpenForm`, `CancelForm` and
`ConfirmForm` (`a`, `e`), `OpenDialogue`, `CloseDialogue`, `ToggleDialogue`,
`SaveAndExit`, `ExitAnyway`, `Quit`, `Cancel`, `InputCloses`. A key that submits
an event starts a delivery, and no key is read until it ends. A delivery is
`record_event`: `WriteOutput`, then `AppendLine`; `OutputFails` and `AppendFails`
raise before, within or after their bytes reach the file, and `AppendFull` finds
the journal at its limit. Any of the three is followed by `Retry`, at most
`MaxAttempts` times, and then by `Refuse`, which gives the sequence back and undoes
an answer (but not a proposal). `Kill` may strike at any step; `End` forgets
everything but the files, and `Reopen` attaches the same request again.

*Left out.* The contents of filters (they may show any point), the help,
dashboard, audit and document views, the directive view, the packet's own
`blocked_reason`, and `coordinator.py`, whose in-process handler no command of
the repository starts together with a terminal. The four fields of the form are
one label. The instance has `reject` and not `clarify`: the code treats the two
alike.

`SessionLedger` keeps of all this the answers on the screen, the word "saved"
and the answers of the last save. An answer in flight is not on its screen yet.

### DecisionWindow

*State.* The view-model as in `LiveSession` (`point`, `cursor`, `proposals`,
`responses`, `saved`, `digest`), whether the list of proposals was last drawn with
all of them or with one (`shown`), the index of the proposal being edited and the
open dialog, the window (open, asking before it closes, closed), the events that
the sink took, the audit's entries, and the AR with the number of events applied
to it. `unsent` is history: the points whose last change, and the save, that the sink
did not take.

*Steps.* `Open` is `envelope_requests_to_tui` and the constructor. Each handler of
`gui.py` that changes anything is an action and models everything it calls: the
view-model's change and its audit entry, the sink, the window's own audit entry. The
sink may raise in each (`Raises`), and then nothing after it runs and nothing before it
is undone; in particular the list is not drawn again, so that all its rows can still be
chosen (`Rows`, `RefreshOnceTaken`). `Refresh` draws a selected point as `gui.py:343`
does, with the single row of the proposal under the cursor. `Close`, `PromptSave`,
`PromptCancel` and `SaveExit` are the two ways out. `Apply` is one call of
`apply_tui_response`, which may lag behind the window by any number of events.

The sink is the window's callback `on_event`, whoever passes it: `Delivered` is a call
that returned, and "recorded" means that whoever opened the window took the event. The
callback that the repository's own launcher passes (`launcher.py:68`) numbers the
events, drops them without `--output-json`, and with it the launcher fails before the
window opens (`launcher.py:67`).

*Left out.* That launcher's callback; documents, help, markdown and themes; the
directive window.

### AndroidRegistry

*State.* `disk` is the state file, `mem` what the running service has of it, `tool`
what a pairing tool has of it: three copies of one record, with the status of each
bootstrap and device, the open challenges, per session the last number and the
digest seen under each number, the accepted events, the published batch and the
stored rendezvous. `keys` is `authorized_keys` on the rendezvous host, `tunnel` the
reverse tunnel. `registered`, `released`, `served`, `acked` and `gone` are what the
phones and the callers of `revoke` were told; only what a phone was told can it
use in a request. `strayed` marks the devices whose key a failure left, `overwrote` that
a tool has saved over changes the service had made since the tool read the file.

*Steps.* A method holds the service's lock from its checks to its answer, so it is
one step with three outcomes (`SaveAndAnswer`): saved and answered; saved, with the
answer lost; or the save raised, the memory changed and nobody answered. The last
leaves `mem` ahead of `disk` until a later method saves, or a restart forgets it.
`Start` reads the file; with `--ssh-host` the service opens its tunnel first
(`StartWithRendezvous`, `OpenTunnel`, `TunnelAllocated`, `Configure`, or
`StartFails`). Where the code has two effects that can be parted, so has the model:
the key is installed before the redemption is saved (`RedeemSsh`, `InstallFails`),
and removed after the revocation is saved (`Revoke`, `RevokeFails`). `RouteEvent`
and `RepeatEvent` take any message a phone may send, in any order and any number of
times. `ToolLoads` and `CreateBootstrap` are the pairing tools, in two steps, between
which the service may save (`Overlap`). `Stop` is an end of the service that runs the
`finally` block of `android_server.py:143`, which closes the tunnel; `Kill` is one that
does not, SIGTERM included, for which there is no handler: its ssh process goes on,
`ownerless`, until the connection drops. A service that starts then does not look for
it, and the model follows its own tunnel from there on.

*As shipped*, `android_server.py:141` gives the class an installer that takes keywords
only, while `redeem` passes positions, so that every enrolment over SSH raises; and it
never sets `tunnel_mode`, which keeps the two challenge endpoints shut. The module
models the class, whose installer works or raises, and keeps both facts out of the
properties.

*Left out.* Expiry, and the checks of keys and signatures: what they refuse
changes nothing.

## 3. What is checked

| Run | Question | Answer |
|---|---|---|
| `token_registry` | Do locked operations keep their promises through crashes, failed writes and time-outs? | yes |
| `token_resolver` | Does "one client completes a batch" survive a `resolve` on the authority? | no, `tokens.py:261` |
| `token_finalizer` | ... and the fallback finalizer? | no, `shortcut.py:70` |
| `token_shared_file` | Does an active token open its own batch when a session file is published twice? | no, `tokens.py:194` |
| `handoff` | Does a batch come back whole, and is it completed once under each lock, through commands that fail, hang, repeat and run late, and does `connect` return? | yes |
| `handoff_journal` | Is what came back all that was recorded? | no, `connect.py:205` |
| `live_session` | Does a session show, save and journal what was acknowledged, through raising and torn writes, a full journal, every exit and a second attach? | yes |
| `live_saved` | Is what is called saved what was saved? | no, `live.py:157` |
| `live_reopened` | Is a journal numbered monotonically? | no, `transport.py:59` |
| `desk` | Does the window hold, save, audit and hand on what it recorded, over a sink that may raise? | yes, and what a raising sink loses is said |
| `android` | Are one-time things spent, revocations final, keys and tunnels accounted for and answers kept, through failed saves, lost answers, kills and restarts? | yes, until a tool saves over the service's changes |
| `android_pair` | Can the running service redeem a QR code printed beside it? | no, `android_pair.py:148` |

Properties of `token_registry`:

- `PrintedIsDurable`: a token handed out is in the registry that the next
  operation sees, whatever died.
- `ReplayKeepsRecords`: a pending journal agrees with the registry file on every
  record the file holds. This is why recovery before *every* locked read is
  needed, and the mutant that skips it breaks it.
- `ActiveTokenOpensItsBatch`: with one session file per batch, the session file
  of an active published token holds its batch.
- `CompletedIsSpent`: no later operation finds a completed token active.
- `ImplementsLifecycle`: refinement of `TokenLifecycle`. The observable status is
  the view *after* recovery, so a publication takes place when its journal is
  replaced; a winner is a process whose consume was written and which has not
  returned; its death is `Abandon`.
- `OperationsEnd`: who asked for the lock ends.

*Bounds of the registry.* Two processes, two tokens, one batch, two faults. Two tokens
let one operation change the registry while another token is being completed, and let
the generator run out; two faults let a recovery die half-way and the recovery of that
recovery run; two processes are all that the lock lets interact, with any third one
waiting outside. One batch can be published twice, with a token each time; two batches
in two session files never touch each other's (`ActiveTokensOpenTheirBatch` proves it),
and two in one file are the run `token_shared_file`. `MaxFaults` is the only bound in
the guards.

*Fairness of the registry.* A process that runs keeps running (weak fairness of its program
steps), and the kernel wakes flock waiters so that none is passed over for ever
(strong fairness of acquiring). New calls, faults and time-outs are not fair:
nothing depends on them.

Properties of `live_session`:

- `ShownIsAcknowledged`: between deliveries, the answer shown for a point is the
  last acknowledged answer to it.
- `SelectionExists`: a selected label is still one of the point's proposals,
  though proposals can be edited while they are selected.
- `AnswersFollowPrerequisites`: replaying the acknowledged events in order, each
  answer comes after a selection of all it depends on, though prerequisites can
  be reopened later.
- `SavedCoversShown`: what the code does promise by "saved": the last acknowledged
  save holds the proposals and every answer on the screen. (It may hold more:
  `live_saved`.)
- `QuitIsComplete`: a plain `q` leaves only a session whose every point is
  selected and whose last acknowledged save is exactly the screen.
- `JournalHoldsAcknowledged`: among the lines this run wrote under one sequence
  number, retries and refused events included, the last is the acknowledged one;
  only a line glued to a torn one can be missing. A reader of the journal must
  therefore take the last line of a number, and not the first.
- `OutputIsNewest`: the output file holds the last acknowledged event, or one of
  the next number that was refused or is under way.
- `KeepsLedger`: refinement of `SessionLedger`.
- `DeliveriesEnd`: a delivery ends, accepted or refused.

*Bounds of the session.* Two points, the second requiring the first and offering two
proposals, the first offering one; at most one proposal of one's own, under two possible
labels (so that it can be renamed); three submitted events or further attaches, two
attempts for each event (the code makes three), one raising write, a journal of three
lines. Three events fit select, select, save, and with them a complete session left by
`q`; three lines fill up when a delivery was retried or cut off; one fault gives each of
the partial writes, and Kill gives another. `MaxEvents`, `MaxOwn` and `MaxFaults` are
the bounds in the guards; `Capacity` and `MaxAttempts` are limits of the code, made
small. Deadlock is not checked, because the application does end.

*Fairness of the session.* Weak fairness of `Deliver`: a delivery is one
synchronous call, and its retries have no delay in the terminal. Keys, faults,
kills and attaches are not fair.

Properties of `handoff`:

- `ResultIsWhole`: the event file is absent or holds all of one upload, whatever
  was cut off, repeated or delayed; and what it holds its UI wrote, though perhaps an
  event that the journal refused.
- `UiReadsWholeRequest`: a part that a failed fetch left is never opened.
- `ConsumedHasResult`: a launch that consumed the token had put answers on the host
  first; so a lost upload, rename or answer, and a program on the host that runs
  late, never cost the batch.
- `OneCompletionPerLock`: of all launches that saw the token active, one at most
  consumes it through `awui-token` and one at most through the finalizer, and who is
  told so did. The docstring's "one client" (`tokens.py:287-288`) is not claimed: two
  launches that go the two ways can both complete the batch, as `token_finalizer` shows
  in the registry. Nor is "one" claimed after `PutBack` made a spent token active
  (`restored`), as `token_resolver` shows: the next launch is then a second.
- `SiblingsAreAccounted`: private answers lie in a sibling only while their launch
  runs, or after it was killed or could not remove it.
- `ConnectReturns`: `connect` ends.

What it does *not* say: a second client with an old copy of the registry, or a rename
that runs late, can still replace the event file after the batch was completed; and a
finalizer can write "consumed" over a revocation. The model has these behaviours; no
line of the repository denies them.

*Bounds of the hand-off.* Two clients, two launches (at once, or one after a death or a
failure). A command has two attempts in `handoff`, one that is retried and the last, and
three in `handoff_journal` (the largest `AWUI_CONNECT_RETRIES` there is). In `handoff` a UI
records one event, or has it refused: the properties tell a whole file from a part and
one launch's from another's, and not how long a session was. In `handoff_journal` it
records two, of which one is lost.
`MaxLaunches` and `MaxEvents` are the bounds in the guards. Deadlock is not checked:
launches run out.

*Fairness of the hand-off.* Weak fairness of `ConnectStep`: `connect` gives every
command a time-out, the UI included, and its own work is on a bounded archive. The
two commands of `shortcut.py` have none, and nothing is assumed of them.

Properties of `desk`:

- `AnswersAreOnRecord`: an answer of the view-model, which is what a save sends and what
  marks its point, is the last one recorded for the point, unless the sink raised when
  it was given (`gui.py:201`). It is *not* always the proposal in the list: selecting a
  point again puts the cursor back on its first proposal (`gui.py:186`), and the list
  then shows that one alone (`gui.py:343`), as the model has it.
- `SavedIsRecorded`: "saved" stands for a recorded save that holds all proposals and
  every answer of the view-model, those whose own event the sink refused included.
- `ClosedSessionReachesAr`: after the window closed and all events were applied, the AR
  holds the session as the person left it, although every event overwrites part of
  what the one before it wrote, and a save puts the AR back to pending; and if the sink
  refused the save before closing (`gui.py:265`), the AR holds the last one it took.
- `OnlyEditedIsReplaced`: no proposal is lost or moved, and one is replaced only at the
  index being edited: an own one, or, after a cancelled edit (`gui.py:276`), the one at
  the index it left behind.
- `AuditEndsWithLastEvent`: a full audit drops its oldest entries, and ends with the
  last audited event.
- `EveryRequestIsShown`: every request of the envelope is shown, and shown once.

*Bounds of the window.* Two points, the second requiring the first, two offered
proposals each, one label of one's own, which the second point also offers, an audit of
two entries, three events, one at which the sink raises, and four envelopes: one request
at the top, the top repeated in the batch, a batch with a repetition, and an empty one.
Three events are select, select, save: a
complete session that closes without a question. `MaxEvents`, `MaxOwn` and
`MaxFaults` are the bounds in the guards; `MaxAudit` is the code's limit, made small.
The window closes, so deadlock is not checked.

Properties of `android`:

- `OneTimeIsSpent`: a QR code that registered a phone and a challenge that released a
  credential are spent, in the file and in memory.
- `RevocationIsFinal`: once `revoke` returned, no save and no restart brings the
  device back, and its key is gone or known to be left.
- `EnrolledHasKey`, `KeysAreAccounted`: the file's active SSH devices and the keys on
  the rendezvous host agree, but for what a failure explains.
- `TunnelHasService`: no tunnel without its service, but that of a killed one.
- `ImplementsAnswerLog`: refinement of `AnswerLog`: the file's events only grow, in
  the order of their numbers, and hold all that was acknowledged.

The pairing tools run at any time in this model (`Overlap = TRUE`), beside the service
too, as `awui-android-pair` does (`android_pair.py:141-152`). A tool that saves the file
as it read it, over what the service has stored since, undoes what the service promised:
`OneTimeIsSpent`, `RevocationIsFinal`, `EnrolledHasKey`, `KeysAreAccounted` and
`ImplementsAnswerLog` are all false after such a step. So these five are claimed of the
states before it (`~overwrote`), and a tool that runs beside the service and finds the
file unchanged breaks none of them. `TypeOK` and `TunnelHasService` hold throughout.

*Bounds of the registry of devices.* Two QR codes, a phone on the rendezvous and one
without, one session, one batch, two sequence numbers, a challenge for each device, one
failing save. Two numbers are enough for an answer out of order and for a repeated one
behind a new one; a second batch would only be answered like the first, or refused. TLC
stops at the step in which a tool overwrites the service's changes (the constraint
`NothingLost`); that step is still checked, and behind it only `TypeOK` and
`TunnelHasService` say anything, which do not depend on what is overwritten and are
theorems. `MaxSeq`, `MaxChallenges` and `MaxFaults` are the bounds in the guards. QR codes
are symmetric: no formula names one, and nothing of the run is a liveness property.
Deadlock is not checked: with the numbers used up and the service down for good there
is little left to do.

The runs that end in a violation each show a statement of the repository that
the code does not keep; `PROJECT.json` quotes it under `findings`. They need no
fairness and none of them needs a fault: those of the registries and the hand-off are
plain interleavings or a single launch, those of the session a few key presses.

## 4. What is proved

Every invariant, every action property and every refinement that a passing run checks
is also a theorem: the run shows it on a small instance, the theorem for every value of
the constants that the module's assumptions admit. What is not a theorem is the three
properties that need fairness. The statements of the repository that the code does not
keep are theorems under the hypothesis the code fails to establish, so that each of the
runs that expect a violation comes with the exact place where its statement ends:

| Run | Statement | Holds | Theorem |
|---|---|---|---|
| `token_resolver`, `token_finalizer` | `NoSecondCompletion` | when every client of the registry files takes the registry's lock | `LockPreventsSecondCompletion` |
| `token_shared_file` | `ActiveTokenOpensItsBatch` | when no session file serves two batches | `ActiveTokensOpenTheirBatch` |
| `handoff_journal` | `CompletedReturnsJournal` | exactly when every completed session recorded one event | `CompleteIfSingle` |
| `live_saved` | `SavedMeansSaved` | while every point has a selection | `CompleteIsSaved` |
| `live_reopened` | `MonotonicSequence` | while one run alone has written to the journal | `OneRunIsMonotonic` |
| `android_pair` | `PrintedQrIsKnown` | when the pairing tools run only while the service is down | `QrCodesAreKnown` |

The proofs share a plan. A property is seldom inductive, so each module of proofs has
an invariant `IInv` that is, one lemma per action (or per group of actions that change
the same things) and a theorem `Invariance` (`Invariant` in two modules); TLC checked
each of these invariants on the instance of its run before it was proved. The theorems
that follow are consequences of `IInv` in every state, or of `IInv` and one step.

### The registry

`TokenRegistryProofs` proves, for any sets of processes, tokens, batches and
files, any assignment of batches to files and any number of faults:
`TypeCorrect`, `PrintedTokensAreDurable`, `ReplayNeverTakesBack` and
`CompletedStaysSpent`. The only assumptions are those of `ConstantsOK`.

None of the four is inductive. That a completed token stays spent after a replay
needs that the journal agrees with the registry; that this survives a write
needs that nobody writes while a journal is pending, which holds because a
writer recovered first and has been alone since; and that needs to know what its
private copy of the registry is. The inductive invariant `IInv` says so: of the
one process inside the lock, `CallShape` (its arguments), `ReplayShape` (what it
replays is what is on disk), `WriteShape` (what it will write is the file with
one record changed, and no journal is pending, or the journal is its own) and
`OutcomeShape` (what it is about to report is already durable). There is one
lemma per action.

`ActiveTokensOpenTheirBatch` needs one thing more, and says so in its statement:
`OneFilePerBatch`, two batches are never published to the same session file. The code
does not enforce it, and the run `token_shared_file` shows that the property fails
without it. `BInv` is the invariant: the batch a published token names is in its file
(`Holds`), and a publisher has put it there before its registry file, and so the token,
can be seen (`BindingShape`). `BatchesStay` is where the hypothesis is used: a write or
a replay of one session file never takes another batch out of its own. `RecordsStay`
says that no operation on another token changes what a record names.

`TokenRegistryRefinement` proves `RegistryImplementsLifecycle`: every behaviour of
`Spec` is one of `TokenLifecycle` under the mapping of `ImplementsLifecycle`. From
`IInv`, the claims are those of the one process inside the lock, so there are none
until a consume was written (`NoClaimYet`) and a step is visible only at a commit
point: `WriteJournalStep` (a publication is issued), `WriteChangeStep` (issue,
consume, revoke), `ReleaseStep` (announced, completed) and `CrashStep`
(abandoned). All other steps, the whole replay among them, leave the mapped state
alone (`Invisible`); for the replay this is where `IInv` is needed.

The same module proves of `TokenRegistryClients` that clients which all take the lock
(`AllTakeTheLock`: neither `resolve` on the authority nor the fallback finalizer runs)
do nothing but steps of `Spec` (`LockedClientsAreTheRegistry`), and that nobody is then
told of a completion that another client made before. That is the docstring of
`TokenStore.consume`, and the argument is the `OutcomeShape` of the reporting process:
while it is inside the lock its completion is durable and still nobody else's. With
either client unlocked no such theorem can be had, since both put back a whole registry,
or consume from a whole registry, that another process has changed since.

### The hand-off

`HandoffProofs` proves, for any clients, any number of launches and events, and the one
to three attempts of the code: `TypeCorrect`, `ResultAlwaysWhole`, `WholeRequests`,
`SpentAfterResult`, `OneCompletion` and `NothingLeftBehind`. The invariant adds what a
client's place says of its data (`ClientShape`: past the fetch the request is whole,
past the UI the files hold what it wrote, past the rename something was returned), what
the programs on the host know (`TokenShape`: each was sent by a launch that had returned
something; and as long as no spent record was put back, nobody has consumed an active
token, and while a program is inside its lock nobody has consumed through that lock), and
what may lie in a sibling (`SiblingShape`: a
part of the upload only while the upload runs or is being cleaned up, so that a rename,
and above all a late one, finds a whole file or none). That launch numbers are not
shared (`Numbered`) keeps the steps of one client apart from the data of another; the
frame lemmas `OthersUntouched` and `HostUntouched` say that once for all actions.

How much of a session comes back is `LastEventReturned`: exactly one event, the last
one its UI wrote, which its journal may have refused. `NewestInv` says it of the three
places the answers pass through, the files of the client, the sibling and the event
file. It is inductive because a UI
records only before its launch has uploaded or returned anything, which `ClientShape`
knows of the sibling and `SendsNewest` of what was returned. `CompleteIfSingle` follows.

`OneCompletion` rests on the last part of `TokenShape`: a program that has read the token
active keeps the others out of its lock until it has written, and who comes after it
reads "consumed" or "revoked". It says nothing across the two locks, where two programs
both read the token active, and it cannot: `token_finalizer` is the counterexample. Nor
does it after `PutBack` has made a spent token active, which `restored` remembers.

### The session in the terminal

`LiveSessionProofs` proves, for any packet, any dependencies among its points (cycles
included), any capacity of the journal and any number of attempts, events, faults and
attaches: `TypeCorrect`, `ScreenIsAcknowledged`, `SelectionsAreReal`,
`PrerequisitesFirst`, `SavedCovers`, `JournalIsComplete`, `OutputIsCurrent` and
`QuitLeavesNothing`. From `LiveConstantsOK` it uses that a point has a proposal at
least (the packet demands two, `discussion.py:50`) and that `None` is no label;
`MarksAreDistinct` says that a torn or garbled line is not an event.

The properties speak of a session at rest, and most steps are taken while an event is
under way. The invariant therefore describes the delivery: `Wire` says that there is an
event exactly between its two writes, and `Anticipated` what the screen already shows
of it (the answer is on the screen, "saved" is off, a save's snapshot is the screen).
`Shown` is the screen with the answer under way taken off; `ShownIsAccounted` and
`SaveIsAccounted` are the two properties of the screen said of `Shown`, so that a
refusal restores what they say, and an acknowledgement makes the anticipated answer the
newest of the record. `Anticipated` also remembers that the answer put back still
selects an existing label, which is what a refusal needs, and that the prerequisites
were selected when the key was pressed, which is what `PrerequisitesFirst` needs when
the answer is acknowledged several steps later. Every step either leaves the record of
acknowledged events alone or appends one event to it; the lemmas about `Newest` say
what that does to "the last event such that".

Two more invariants are kept apart from `IInv`, since each needs it and it needs neither.
`RunInOrder` (`RunsCountUp`): the lines of the run, from `base` on, never count
backwards and never beyond the next number, for a line is only ever written under that
number, and a torn line only loses one. `DigestIsNewest`: the snapshot by which the
adapter tells a repeated save is that of the last acknowledged save; with
`SaveIsAccounted` it makes "saved" mean saved in a session that is complete.

`LiveSessionRefinement` proves `SessionKeepsLedger`: under the mapping of `Ledger`
every step is a step of `SessionLedger` or a stutter. Answers and saves are
made when a delivery is acknowledged (`AcceptSteps`); answers disappear when the person
drops one, adds a proposal or leaves (`WithdrawSteps`, `EndSteps`); a new answer before
its delivery only turns "saved" off (`RespondSteps`). Nothing else is seen: a save or a
remark before its delivery (`TellSteps`), the write of the output file, a failed write,
another attempt and a refusal (`FailSteps`) are stutters, because `Shown` does not move.

### The desktop window

`DecisionWindowProofs` proves, for any envelopes and dependencies, any size of the
audit and any number of events and of raising sinks: `TypeCorrect`,
`AnswersAreRecorded`, `SavedIsBacked`, `ArHasTheSession`, `NoOtherIsReplaced`,
`AuditEndsRight` and `RequestsAreShown`. `WindowConstantsOK` is what the code checks of
a request: it offers proposals (`discussion.py:50`). Nothing is assumed of their labels,
which may start with `User: ` like those of a person (`awg.py:50`, `live.py:277`).
`NoneIsDistinct` says that no answer is not an answer.

Here the properties choose "the last event that ..." from the whole record. The
invariant says instead that some event is as claimed and no such event is behind it
(`Told`, `LastSave`, `Shows`), which survives one event more by a lemma each
(`ToldStays`, `ToldNow`, `LastSaveNext`, ...). The rest of `IInv` ties places that the
handlers update one after the other. `SavesAreKnown`: the window's digest is the last
save of the record and the AR's session the last save among the applied events; when all
are applied the two are equal (`OneLastSave`). `ClosedIsSaved`: a window that closed
without a question was complete, and a complete view-model that is "saved" is the
digest, since an answer the last save holds can only have been dropped, not changed.
`EditIsOwn`: the proposal that a dialog opened for an edit will replace has an own
label. It is what `NoOtherIsReplaced` needs of an edit; every other handler leaves the
proposals or appends one, and a dialog opened to add can only replace at the index that
an abandoned edit left, which survives its dialog (`gui.py:276`). `AuditIsCurrent` needs
that the handlers write the audit as often as the sink was called, so it holds while the
sink never raised.

`RequestsAreShown` is a statement about a recursive function, `Distinct`. Its proof is
an induction over the requests, which the provers cannot take from the library (its
theorems quantify over predicates). `SetInduction` in `OrderFacts` says the same of a
set: one that holds 0 and the successor of each of its numbers holds all numbers. It
follows from the least-element form of the well-foundedness of `<`. The set used here is
that of the numbers up to which the function lists the requests, each once.

### The registry of devices

`AndroidRegistryProofs` proves, for any QR codes, devices, sessions, batches and any
number of failing saves, with the pairing tools running at any time, from
`AndroidConstantsOK` alone: `TypeCorrect`, `SpentForGood`, `RevokedForGood`,
`KeysMatchDevices`, `KeysAreExplained`, `TunnelsAreOwned`, and `AnswersAreKept`, the
refinement of `AnswerLog`. What an overwriting tool breaks is part of the statements:
the properties are about the behaviour up to the first step in which a tool saves over
changes made since it read the file.

The properties speak of the file, and a failed save parts the file from the memory, so
the invariant says the same of both: a state `Fits` the history if its identifiers were
drawn (`Drawn`), it offers nothing a second time (`Spent`), its active devices and the
keys agree (`Keyed`) and its log is in order and complete (`Logged`). `Kept` is that of
file and memory, with the file's log a prefix of the memory's; and the invariant is
`Basics /\ (~overwrote => Kept)`, where `Basics`, types and the tunnel, needs no
hypothesis. A tool's save that overwrites nothing keeps `Kept`, for the tool's copy is
then the file, with one QR code more. `SaveKeeps` is the argument of every method: the
new state fits the new history, and if the save raised, the old file still does, because
then nothing was promised (`GrownKept`). `FileGrows` is the step of the refinement.
`TunnelsAreOwned` is part of `Basics`: each way out of a start and each orderly end goes
through the `finally` block, and a kill leaves the tunnel `ownerless`.

`QrCodesAreKnown` alone assumes `Overlap = FALSE`, and says so in its statement.
`QrInv` says of the file, and of the memory while the service runs, that they know each
printed QR code: every method stores the codes it found (`MethodRedeems`), and a tool
prints one only after it wrote the file, from a copy that is still the file's, with no
service running that would not learn of it.

### What is only model-checked

`ConnectReturns`, `OperationsEnd` and `DeliveriesEnd` need fairness, which is out of the
prover's reach, and stay with TLC; so do the counterexamples of the runs that expect
one.

## 5. What is not modelled

Not modelled, and why:

- The phone app (`EventJournal.kt`, `WorkflowApp.kt`, `AndroidBridgeClient.kt`). Its
  client posts the event as the request's body; the service reads the event from the
  body's `message` field (`android_server.py:88`) and answers 400 to everything else, so
  no answer of the app is ever accepted. An outbox before a service that refuses
  everything has no behaviour worth checking; the client the service does accept,
  `android_client.py`, is in `AndroidRegistry`.
- The file operations of the key helper (`android_ssh.py:19`): one service runs them one
  at a time. Two services on one account could lose a key, since only the installation
  takes the lock.
- `coordinator.py` and the directive view: no command starts the first together with a
  terminal; the second has one field and one event.
- `dashboard.py` and `graph.py`: a cursor over one immutable tree.
- Endpoint discovery, markdown, anchors, themes and widgets; installers, CI, scenario
  and performance tools; and the cryptography of enrolment (signatures are valid or
  not).

Seen while modelling, and not runs of their own: Save + exit ends with exit status 0
after a refused save (`live.py:687`); in the proposal form `q` opens the exit dialogue
(`live.py:547`) and `R` resumes a session (`live.py:732`), where
`docs/AR_TUI_INTERACTION.md:41-42` has action letters inserted as text; Escape leaves
unguarded; reopening a point (`o`) keeps the response on the terminal's screen, unlike
`docs/BATCH_WORKSPACE.md:18-20`; `awui` attaches the first decision of a batch only in
the terminal (`live.py:1035`); a UI that stays open longer than the 30 seconds of
`AWUI_CONNECT_TIMEOUT` is cut off (`connect.py:82`); the launcher of the window fails
with `--output-json` (`launcher.py:67`), and without it its callback records nothing;
the window shows a selected point with the proposal under the cursor (`gui.py:343`),
which is the first one after the point was selected again (`gui.py:186`), whatever was
selected, where the terminal shows the selected one (`live.py:227`); an offered proposal
whose label starts with `User: ` is edited in place like one's own (`awg.py:50`,
`live.py:277`), and one of another point may be replaced after a cancelled edit
(`gui.py:276`); a killed service leaves its ssh process on the rendezvous host running
(`android_ssh.py:188`); a finalizer may overwrite a revocation (`shortcut.py:79`); a
revision that the Coordinator superseded can still be answered from a phone
(`android_server.py:89`); a lost answer to a registration strands the phone, whose QR
code is spent; each start of the service gets a new port on the rendezvous host
(`android_ssh.py:187`), while older QR codes and key lines keep the old one; and the
pairing command gives up after its time-out and leaves the service it started coming up
(`android_pair.py:82`).
