------------------------------- MODULE Handoff -------------------------------
(***************************************************************************)
(* A tokenized decision batch carried to a client and back: awui TOKEN     *)
(* (run of awtui/shortcut.py) and the SSH hand-off it calls (connect of    *)
(* awtui/connect.py).                                                      *)
(*                                                                         *)
(* A launch reads the token's record out of a copy of the registry, copies *)
(* the request here, runs the local UI on it, uploads what the UI wrote to *)
(* a sibling of the event file that is unique to the launch, renames it    *)
(* over the event file, removes the sibling, and only then asks the host   *)
(* to consume the token.  Every one of these is a separate ssh or scp that *)
(* can fail before, after or half way through its effect.  Those of        *)
(* connect are cut off after AWUI_CONNECT_TIMEOUT and some are tried       *)
(* again; a rename that was cut off may still run on the host later.       *)
(*                                                                         *)
(* Consuming is a program on the host that reads the registry and later    *)
(* replaces it, awui-token under one lock file, the fallback under another *)
(* one: the two may overlap, and either may run when its client has gone.  *)
(*                                                                         *)
(* Abstracted: one token, which other operations of the host revoke or put *)
(* back to what they read of it; the contents of a file are the numbers of *)
(* the events it holds; a command's exit code is zero or not.              *)
(***************************************************************************)
EXTENDS Naturals, FiniteSets

CONSTANTS
  Clients,      \* terminals that can run awui
  Attempts,     \* AWUI_CONNECT_RETRIES, clamped to 1..3
  MaxLaunches,  \* bound on launches
  MaxEvents     \* bound on the events one UI session records

ASSUME HandoffConstantsOK ==
  /\ Attempts \in 1..3
  /\ MaxLaunches \in Nat
  /\ MaxEvents \in Nat

VARIABLES
  status,    \* host: the status of the token's record
  pending,   \* host: <<launch, path>> of the programs sent to consume it
  critical,  \* host: critical[path]: the launch whose program has the lock of
             \* path and has read the token active, 0 for none
  restored,  \* PutBack made the token active again after it was consumed
  result,    \* host: the event file of the batch
  temps,     \* host: temps[k] is the sibling that launch k uploads to
  late,      \* launches with a rename that was not answered and may still run
  launches,  \* launches so far
  pc,        \* pc[c]: the next step of client c
  launch,    \* launch[c]: the number of c's launch
  tries,     \* tries[c]: attempts left of the command c is running
  request,   \* request[c]: how much of the request c has copied
  dir,       \* dir[c]: the files the UI wrote, by name
  sent,      \* sent[c]: the rename was reported done
  recorded,  \* recorded[k]: the journal of a UI session that exited with 0
  refused,   \* refused[k]: an event it wrote out that the journal refused
  returned,  \* returned[k]: what launch k put in the event file
  consumers, \* <<launch, path>> of the programs that consumed the token
  done,      \* launches that returned 0 to their user
  lost       \* launches that were killed or whose removal failed

registry == <<status, critical, restored>>
authority == <<registry, pending>>
host == <<authority, result, temps, late>>
client == <<launch, tries, request, dir, sent>>
history == <<recorded, refused, returned, consumers, done, lost>>
vars == <<host, launches, pc, client, history>>

Launches == 1..MaxLaunches
Events == 1..MaxEvents

\* The journal is request.json with another suffix for the UI that writes it
\* and events.json with another suffix for connect that looks for it.
FileNames == {"events.json", "request.events.jsonl", "events.events.jsonl"}
JournalLookedFor == "events.events.jsonl"
NoDir == [name \in FileNames |-> {}]

NoFile == [launch |-> 0, events |-> {}, torn |-> FALSE]
RemoteFile ==
  {NoFile} \cup [launch : Launches, events : SUBSET Events, torn : BOOLEAN]

ConnectSteps == {"prepare", "fetch", "ui", "upload", "rename", "cleanup"}
Steps == ConnectSteps \cup {"idle", "consume", "finalize"}

\* The two ways to consume the token, each with a lock file of its own:
\* TokenStore.consume of awui-token, and the finalizer of _consume_remote.
Paths == {"consume", "finalize"}

TypeOK ==
  /\ status \in {"active", "consumed", "revoked"}
  /\ pending \subseteq Launches \X Paths
  /\ critical \in [Paths -> 0..MaxLaunches]
  /\ restored \in BOOLEAN
  /\ result \in RemoteFile
  /\ temps \in [Launches -> RemoteFile]
  /\ late \subseteq Launches
  /\ launches \in 0..MaxLaunches
  /\ pc \in [Clients -> Steps]
  /\ launch \in [Clients -> 0..MaxLaunches]
  /\ tries \in [Clients -> 0..Attempts]
  /\ request \in [Clients -> {"none", "part", "whole"}]
  /\ dir \in [Clients -> [FileNames -> SUBSET Events]]
  /\ sent \in [Clients -> BOOLEAN]
  /\ recorded \in [Launches -> SUBSET Events]
  /\ refused \in [Launches -> SUBSET Events]
  /\ returned \in [Launches -> SUBSET Events]
  /\ consumers \subseteq Launches \X Paths
  /\ done \subseteq Launches
  /\ lost \subseteq Launches

Init ==
  /\ status = "active"
  /\ pending = {}
  /\ critical = [path \in Paths |-> 0]
  /\ restored = FALSE
  /\ result = NoFile
  /\ temps = [k \in Launches |-> NoFile]
  /\ late = {}
  /\ launches = 0
  /\ pc = [c \in Clients |-> "idle"]
  /\ launch = [c \in Clients |-> 0]
  /\ tries = [c \in Clients |-> 0]
  /\ request = [c \in Clients |-> "none"]
  /\ dir = [c \in Clients |-> NoDir]
  /\ sent = [c \in Clients |-> FALSE]
  /\ recorded = [k \in Launches |-> {}]
  /\ refused = [k \in Launches |-> {}]
  /\ returned = [k \in Launches |-> {}]
  /\ consumers = {}
  /\ done = {}
  /\ lost = {}

-----------------------------------------------------------------------------
\* Control of one client.

Goto(c, step) == pc' = [pc EXCEPT ![c] = step]

\* The launch is over: its private directory goes with it.
Leave(c) ==
  /\ Goto(c, "idle")
  /\ launch' = [launch EXCEPT ![c] = 0]
  /\ tries' = [tries EXCEPT ![c] = 0]
  /\ request' = [request EXCEPT ![c] = "none"]
  /\ dir' = [dir EXCEPT ![c] = NoDir]
  /\ sent' = [sent EXCEPT ![c] = FALSE]

\* Mutant: the attempts are not counted.
MayRetry_Uncounted(c) ==
  UNCHANGED <<tries, pc, launch, dir, sent>>

\* Mutant: the attempts are counted and not looked at.
MayRetry_Always(c) ==
  /\ tries' = [tries EXCEPT ![c] = @ - 1]
  /\ UNCHANGED <<pc, launch, dir, sent>>

\* A command answered with another code than 0, or not in time.
MayRetry(c) ==
  /\ tries[c] > 1
  /\ tries' = [tries EXCEPT ![c] = @ - 1]
  /\ UNCHANGED <<pc, launch, dir, sent>>

StartCommand(c, step) ==
  /\ Goto(c, step)
  /\ tries' = [tries EXCEPT ![c] = Attempts]

EndCommand(c, step) ==
  /\ Goto(c, step)
  /\ tries' = [tries EXCEPT ![c] = 0]

-----------------------------------------------------------------------------
\* The registry as it was copied shows the token active.
CopyShowsActive == status = "active"

\* run: fetch the registry and resolve the token in that copy.  A launch that
\* finds no active record in it, or no registry, ends with nothing done.
Launch(c) ==
  /\ pc[c] = "idle"
  /\ launches < MaxLaunches
  /\ CopyShowsActive
  /\ launches' = launches + 1
  /\ launch' = [launch EXCEPT ![c] = launches + 1]
  /\ Goto(c, "prepare")
  /\ UNCHANGED <<host, tries, request, dir, sent, history>>

\* connect chooses the UI: the one installed, the module of this Python, or
\* a runtime archive that it unpacks into a private directory of the launch.
Prepare(c) ==
  /\ pc[c] = "prepare"
  /\ StartCommand(c, "fetch")
  /\ UNCHANGED <<host, launches, launch, request, dir, sent, history>>

\* The archive is unsafe, too large, or made for another host; or a path, the
\* alias or a limit in the environment is refused.  The host was not asked.
PrepareFails(c) ==
  /\ pc[c] = "prepare"
  /\ Leave(c)
  /\ UNCHANGED <<host, launches, history>>

FetchRequest(c) ==
  /\ pc[c] = "fetch"
  /\ request' = [request EXCEPT ![c] = "whole"]
  /\ EndCommand(c, "ui")
  /\ UNCHANGED <<host, launches, launch, dir, sent, history>>

\* Mutant: the exit code of the last try is not looked at.
FetchFails_Unchecked(c) ==
  /\ pc[c] = "fetch"
  /\ \E got \in {"none", "part", "whole"} :
       request' = [request EXCEPT ![c] = got]
  /\ \/ tries[c] > 1 /\ tries' = [tries EXCEPT ![c] = @ - 1] /\ UNCHANGED pc
     \/ tries[c] <= 1 /\ Goto(c, "ui") /\ UNCHANGED tries
  /\ UNCHANGED <<host, launches, launch, dir, sent, history>>

\* Each try truncates the local packet; the bytes a failed one leaves are not
\* read.
FetchFails(c) ==
  /\ pc[c] = "fetch"
  /\ \/ /\ MayRetry(c)
        /\ \E got \in {"none", "part", "whole"} :
             request' = [request EXCEPT ![c] = got]
     \/ tries[c] <= 1 /\ Leave(c)
  /\ UNCHANGED <<host, launches, history>>

\* The UI puts each event into the output before it appends it to the
\* journal: n events are in the journal, and the output holds the last of
\* them, or the next one, which the journal refused.
Written(n, last) ==
  [NoDir EXCEPT !["events.json"] = {last},
                !["request.events.jsonl"] = 1..n]

\* The UI refuses a packet that is not one whole request of this schema.
Attached(c) == request[c] = "whole"

\* The UI ran and exited with 0: there is something to return if it wrote an
\* event.  It may have been left without a save, with "exit anyway" or by the
\* end of its input.
UiReturns(c) ==
  /\ pc[c] = "ui"
  /\ Attached(c)
  /\ \E n \in 0..MaxEvents : \E last \in {n, n + 1} \cap Events :
       /\ dir' = [dir EXCEPT ![c] = Written(n, last)]
       /\ recorded' = [recorded EXCEPT ![launch[c]] = 1..n]
       /\ refused' = [refused EXCEPT ![launch[c]] = {last} \ 1..n]
  /\ StartCommand(c, "upload")
  /\ UNCHANGED <<host, launches, launch, request, sent,
                 returned, consumers, done, lost>>

\* It wrote nothing, failed, was interrupted, or was open for longer than
\* AWUI_CONNECT_TIMEOUT, which bounds the UI like any other command.
UiFails(c) ==
  /\ pc[c] = "ui"
  /\ Leave(c)
  /\ UNCHANGED <<host, launches, history>>

Source(files) ==
  IF files[JournalLookedFor] # {} THEN files[JournalLookedFor]
  ELSE files["events.json"]

Packet(c) ==
  [launch |-> launch[c], events |-> Source(dir[c]), torn |-> FALSE]

Upload(c) ==
  /\ pc[c] = "upload"
  /\ temps' = [temps EXCEPT ![launch[c]] = Packet(c)]
  /\ StartCommand(c, "rename")
  /\ UNCHANGED <<authority, result, late, launches, launch, request, dir,
                 sent, history>>

\* Mutant: scp failed for the last time and the rename runs all the same.
UploadFails_Unchecked(c) ==
  /\ pc[c] = "upload"
  /\ \E arrived \in {temps[launch[c]], [Packet(c) EXCEPT !.torn = TRUE],
                     Packet(c)} :
       temps' = [temps EXCEPT ![launch[c]] = arrived]
  /\ \/ MayRetry(c)
     \/ tries[c] <= 1 /\ StartCommand(c, "rename")
                      /\ UNCHANGED <<launch, dir, sent>>
  /\ UNCHANGED <<authority, result, late, launches, request, history>>

\* Mutant: the removal runs after a rename only, not in a finally clause.
UploadFails_NoFinally(c) ==
  /\ pc[c] = "upload"
  /\ \E arrived \in {temps[launch[c]], [Packet(c) EXCEPT !.torn = TRUE]} :
       temps' = [temps EXCEPT ![launch[c]] = arrived]
  /\ \/ MayRetry(c) /\ UNCHANGED request
     \/ tries[c] <= 1 /\ Leave(c)
  /\ UNCHANGED <<authority, result, late, launches, history>>

\* scp was cut off: nothing, a part or all of the packet has arrived.
UploadFails(c) ==
  /\ pc[c] = "upload"
  /\ \E arrived \in {temps[launch[c]], [Packet(c) EXCEPT !.torn = TRUE],
                     Packet(c)} :
       temps' = [temps EXCEPT ![launch[c]] = arrived]
  /\ \/ MayRetry(c)
     \/ tries[c] <= 1 /\ Goto(c, "cleanup")
                      /\ UNCHANGED <<launch, tries, dir, sent>>
  /\ UNCHANGED <<authority, result, late, launches, request, history>>

\* mv -f runs on the host; another one that was sent finds nothing to move.
MoveIntoPlace(k) ==
  /\ temps[k] # NoFile
  /\ late' = late \ {k}
  /\ result' = temps[k]
  /\ temps' = [temps EXCEPT ![k] = NoFile]
  /\ returned' = [returned EXCEPT ![k] = temps[k].events]

Rename(c) ==
  /\ pc[c] = "rename"
  /\ MoveIntoPlace(launch[c])
  /\ sent' = [sent EXCEPT ![c] = TRUE]
  /\ EndCommand(c, "cleanup")
  /\ UNCHANGED <<authority, launches, launch, request, dir,
                 recorded, refused, consumers, done, lost>>

MayStillRun(k) == late' = late \cup {j \in {k} : temps[j] # NoFile}

\* Mutant: connect returns 0 whatever the rename answered.
RenameFails_Unchecked(c) ==
  /\ pc[c] = "rename"
  /\ MayStillRun(launch[c])
  /\ sent' = [sent EXCEPT ![c] = TRUE]
  /\ Goto(c, "cleanup")
  /\ UNCHANGED <<authority, result, temps, launches, launch, tries, request,
                 dir, history>>

\* No answer in time, or no source to rename, as after a rename that took
\* effect unanswered.
RenameFails(c) ==
  /\ pc[c] = "rename"
  /\ MayStillRun(launch[c])
  /\ \/ MayRetry(c)
     \/ tries[c] <= 1 /\ Goto(c, "cleanup")
                      /\ UNCHANGED <<launch, tries, dir, sent>>
  /\ UNCHANGED <<authority, result, temps, launches, request, history>>

\* The host runs a rename nobody waits for any more.
LateRename(k) ==
  /\ k \in late
  /\ MoveIntoPlace(k)
  /\ UNCHANGED <<authority, launches, pc, client,
                 recorded, refused, consumers, done, lost>>

\* The client sends the program that consumes the token along path.
Send(c, path) == pending' = pending \cup {<<launch[c], path>>}

\* The finally clause of connect, whose answer does not matter, and the
\* return of connect to run.
AfterCleanup(c) ==
  \/ /\ sent[c]
     /\ Goto(c, "consume")
     /\ Send(c, "consume")
     /\ UNCHANGED client
  \/ ~sent[c] /\ Leave(c) /\ UNCHANGED pending

Cleanup(c) ==
  /\ pc[c] = "cleanup"
  /\ temps' = [temps EXCEPT ![launch[c]] = NoFile]
  /\ late' = late \ {launch[c]}
  /\ AfterCleanup(c)
  /\ UNCHANGED <<registry, result, launches, history>>

CleanupFails(c) ==
  /\ pc[c] = "cleanup"
  /\ lost' = lost \cup {launch[c]}
  /\ AfterCleanup(c)
  /\ UNCHANGED <<registry, result, temps, late, launches,
                 recorded, refused, returned, consumers, done>>

-----------------------------------------------------------------------------
\* _consume_remote: the programs on the host.

\* Mutant: the finalizer takes a consumed record for its own work.
Read_AnyStatus(k, path) ==
  /\ <<k, path>> \in pending
  /\ critical[path] = 0
  /\ status # "revoked"
  /\ critical' = [critical EXCEPT ![path] = k]
  /\ pending' = pending \ {<<k, path>>}
  /\ UNCHANGED <<status, restored, result, temps, late, launches, pc, client,
                 history>>

\* The program gets its lock and reads the registry.  It goes no further with
\* a token that was consumed or revoked, or that expired: it then stays in
\* pending and does nothing, like one that never arrived.
Read(k, path) ==
  /\ <<k, path>> \in pending
  /\ critical[path] = 0
  /\ status = "active"
  /\ critical' = [critical EXCEPT ![path] = k]
  /\ pending' = pending \ {<<k, path>>}
  /\ UNCHANGED <<status, restored, result, temps, late, launches, pc, client,
                 history>>

\* It replaces the registry by what it read, with this token consumed.
Write(path) ==
  /\ critical[path] # 0
  /\ status' = "consumed"
  /\ consumers' = consumers \cup {<<critical[path], path>>}
  /\ critical' = [critical EXCEPT ![path] = 0]
  /\ UNCHANGED <<pending, restored, result, temps, late, launches, pc, client,
                 recorded, refused, returned, done, lost>>

\* It is killed or cannot write: the lock is free and nothing was replaced.
WriteFails(path) ==
  /\ critical[path] # 0
  /\ critical' = [critical EXCEPT ![path] = 0]
  /\ UNCHANGED <<status, pending, restored, result, temps, late, launches, pc,
                 client, history>>

HostStep(path) ==
  \/ \E k \in Launches : Read(k, path)
  \/ Write(path)
  \/ WriteFails(path)

-----------------------------------------------------------------------------
\* _consume_remote: the client.

\* Exit code 0: awui returns 0 to its user.
Answered(c) ==
  /\ <<launch[c], pc[c]>> \in consumers
  /\ done' = done \cup {launch[c]}
  /\ Leave(c)
  /\ UNCHANGED <<host, launches, recorded, refused, returned, consumers, lost>>

\* awui-token refused, is not installed, or could not be reached; or it is
\* still at work, or has consumed the token, and its answer was lost.
ConsumeFails(c) ==
  /\ pc[c] = "consume"
  /\ Goto(c, "finalize")
  /\ Send(c, "finalize")
  /\ UNCHANGED <<registry, result, temps, late, launches, client,
                 history>>

\* "retry finalization": the launch ends with an error.
FinalizeFails(c) ==
  /\ pc[c] = "finalize"
  /\ Leave(c)
  /\ UNCHANGED <<host, launches, history>>

-----------------------------------------------------------------------------
\* The client is killed at any step: no finally clause runs.
Kill(c) ==
  /\ pc[c] # "idle"
  /\ lost' = lost \cup {launch[c]}
  /\ Leave(c)
  /\ UNCHANGED <<host, launches, recorded, refused, returned, consumers, done>>

\* awui-token revoke on the host, under the lock that awui-token consume
\* takes.  A finalizer that has read the token active does not wait for it
\* and will write its consumed record over the revoked one.
Revoke ==
  /\ critical["consume"] = 0
  /\ status # "revoked"
  /\ status' = "revoked"
  /\ UNCHANGED <<pending, critical, restored, result, temps, late, launches, pc,
                 client, history>>

\* An operation about another token of the registry replaces it by what it
\* read, where this one was still active: the finalizer of that token, which
\* does not wait for awui-token, awui-token, which does not wait for the
\* finalizer, or a resolve that replays a journal and takes no lock.
PutBack ==
  /\ status # "active"
  /\ status' = "active"
  /\ restored' = (consumers # {})
  /\ UNCHANGED <<pending, critical, result, temps, late, launches, pc, client,
                 history>>

\* A step of connect: local work on a bounded archive, or a command, which a
\* time-out bounds.
ConnectStep(c) ==
  \/ Prepare(c)
  \/ PrepareFails(c)
  \/ FetchRequest(c)
  \/ FetchFails(c)
  \/ UiReturns(c)
  \/ UiFails(c)
  \/ Upload(c)
  \/ UploadFails(c)
  \/ Rename(c)
  \/ RenameFails(c)
  \/ Cleanup(c)
  \/ CleanupFails(c)

\* A command of shortcut.py, which may hang for ever.
LauncherStep(c) ==
  \/ Launch(c)
  \/ Answered(c)
  \/ ConsumeFails(c)
  \/ FinalizeFails(c)

Next ==
  \/ \E c \in Clients : ConnectStep(c) \/ LauncherStep(c) \/ Kill(c)
  \/ \E k \in Launches : LateRename(k)
  \/ \E path \in Paths : HostStep(path)
  \/ Revoke
  \/ PutBack

Spec == Init /\ [][Next]_vars

\* _run and _transport give every command of connect a time-out, so it
\* answers or fails; nothing bounds the commands of shortcut.py.
FairSpec == Spec /\ \A c \in Clients : WF_vars(ConnectStep(c))

-----------------------------------------------------------------------------
\* The event file is never torn, and holds the work of a UI that ended with
\* exit code 0, whatever was cut off, repeated or delayed on the way
\* (docs/REMOTE_ROUNDTRIP.md: "uploaded to a unique remote sibling and
\* atomically renamed").  It may be an event that the journal refused.
ResultIsWhole ==
  result # NoFile =>
    /\ ~result.torn
    /\ result.events # {}
    /\ result.events \subseteq recorded[result.launch] \cup refused[result.launch]

\* The UI is never started on a part of the request, although a failed fetch
\* leaves one in the file it will read (connect.py: "so a partial fetch can
\* never be mistaken for a valid revision-bound request").
UiReadsWholeRequest == \A c \in Clients : pc[c] = "ui" => request[c] = "whole"

\* A launch spends the token only after its answers are on the host: losing
\* an upload, a rename or their answers never loses the batch, and neither
\* does a program on the host that runs when its client has given it up.
ConsumedHasResult == \A e \in consumers : returned[e[1]] # {}

\* Of all the launches that read the token active, one at most consumes it
\* through awui-token and one at most through the finalizer, whichever
\* programs overlap, outlive their client or die between reading and writing;
\* and a launch that is told so did.  It may be one of each, for the two lock
\* different files; and one more after an operation about another token, in a
\* step not ordered by that lock, put the spent record back.
OneCompletionPerLock ==
  /\ \A k \in done : \E path \in Paths : <<k, path>> \in consumers
  /\ ~restored =>
       \A path \in Paths : \A j, k \in Launches :
         <<j, path>> \in consumers /\ <<k, path>> \in consumers => j = k

\* Private event material stays on the host in the event file only: a
\* sibling belongs to a launch under way, to one that was killed, or to one
\* whose removal failed (connect.py: "must not leave private event material
\* behind").
SiblingsAreAccounted ==
  \A k \in Launches :
    temps[k] # NoFile =>
      \/ k \in lost
      \/ \E c \in Clients :
           launch[c] = k /\ pc[c] \in {"upload", "rename", "cleanup"}

\* connect returns: no sequence of failures, time-outs and retries keeps a
\* user waiting for it for ever.
ConnectReturns ==
  \A c \in Clients : pc[c] \in ConnectSteps ~> pc[c] \notin ConnectSteps

\* What a completed launch returned is the journal of its UI.  The
\* docstring of TokenStore.consume says so of its callers: "callers invoke
\* this only after the complete event journal has been durably accepted".
CompletedReturnsJournal == \A k \in done : returned[k] = recorded[k]

=============================================================================
