---------------------------- MODULE HandoffProofs ----------------------------
(***************************************************************************)
(* Machine-checked proofs about Handoff, for any number of clients and     *)
(* launches, any number of attempts and any length of a session.           *)
(*                                                                         *)
(* The inductive invariant IInv ties each client to a launch number of its *)
(* own, says what the host may hold of a launch (SiblingShape) and what a  *)
(* client that has come to a step knows to be done (ClientShape).  A step  *)
(* of one client leaves the other clients and their launches alone         *)
(* (OthersUntouched, HostUntouched), which leaves one client and one       *)
(* launch to look at in each action.                                       *)
(***************************************************************************)
EXTENDS Handoff, TLAPS

BeforeUpload == {"prepare", "fetch", "ui"}

\* Before its upload the host has not heard of a launch, before its rename no
\* rename of it can be late, and what it uploads the UI recorded.
ClientShape(c) ==
  /\ launch[c] <= launches
  /\ pc[c] # "idle" => launch[c] # 0
  /\ pc[c] \in BeforeUpload =>
       temps[launch[c]] = NoFile /\ result.launch # launch[c]
  /\ pc[c] \in BeforeUpload \cup {"upload"} => launch[c] \notin late
  /\ pc[c] \in {"upload", "rename"} =>
       /\ Source(dir[c]) # {}
       /\ Source(dir[c]) \subseteq recorded[launch[c]] \cup refused[launch[c]]
  /\ pc[c] = "rename" => ~temps[launch[c]].torn
  /\ sent[c] => pc[c] # "idle" /\ returned[launch[c]] # {}
  /\ pc[c] \in {"consume", "finalize"} => returned[launch[c]] # {}
  /\ pc[c] = "ui" => request[c] = "whole"

\* A sibling holds a part of what its launch recorded, and is whole once a
\* rename was sent.
SiblingShape(k) ==
  /\ temps[k] # NoFile =>
       /\ temps[k].launch = k
       /\ temps[k].events # {}
       /\ temps[k].events \subseteq recorded[k] \cup refused[k]
  /\ k \in late => ~temps[k].torn
  /\ k > launches => temps[k] = NoFile /\ k \notin late /\ result.launch # k

Numbered == \A c, d \in Clients : launch[c] = launch[d] /\ launch[c] # 0 => c = d

\* Who was sent to consume the token has returned its answers; and while
\* nobody has put a spent record back, who has a lock found the token unspent
\* along its path, and an active token is unspent.
TokenShape ==
  /\ \A e \in pending : returned[e[1]] # {}
  /\ \A path \in Paths : critical[path] # 0 => returned[critical[path]] # {}
  /\ ~restored =>
       /\ status = "active" => consumers = {}
       /\ \A path \in Paths : critical[path] # 0 =>
            \A k \in Launches : <<k, path>> \notin consumers

IInv ==
  /\ TypeOK
  /\ Numbered
  /\ \A c \in Clients : ClientShape(c)
  /\ \A k \in Launches : SiblingShape(k)
  /\ TokenShape
  /\ ResultIsWhole
  /\ ConsumedHasResult
  /\ OneCompletionPerLock
  /\ SiblingsAreAccounted

\* A step of client c.
StepOf(c) == ConnectStep(c) \/ LauncherStep(c) \/ Kill(c)

-----------------------------------------------------------------------------
\* Types.

ClientTypes ==
  /\ pc \in [Clients -> Steps]
  /\ launch \in [Clients -> 0..MaxLaunches]
  /\ tries \in [Clients -> 0..Attempts]
  /\ request \in [Clients -> {"none", "part", "whole"}]
  /\ dir \in [Clients -> [FileNames -> SUBSET Events]]
  /\ sent \in [Clients -> BOOLEAN]

LEMMA LeaveTyped ==
  ASSUME TypeOK, NEW c \in Clients, Leave(c) PROVE ClientTypes'
<1>1. NoDir \in [FileNames -> SUBSET Events]
  BY DEF NoDir
<1>2. "idle" \in Steps
  BY DEF Steps
<1>3. 0 \in 0..MaxLaunches /\ 0 \in 0..Attempts
  BY HandoffConstantsOK
<1> QED
  BY <1>1, <1>2, <1>3 DEF TypeOK, ClientTypes, Leave, Goto

LEMMA RetryTyped ==
  ASSUME TypeOK, NEW c \in Clients, MayRetry(c)
  PROVE  /\ pc' \in [Clients -> Steps]
         /\ launch' \in [Clients -> 0..MaxLaunches]
         /\ tries' \in [Clients -> 0..Attempts]
         /\ dir' \in [Clients -> [FileNames -> SUBSET Events]]
         /\ sent' \in [Clients -> BOOLEAN]
<1>1. tries[c] - 1 \in 0..Attempts
  BY HandoffConstantsOK DEF TypeOK, MayRetry
<1> QED
  BY <1>1 DEF TypeOK, MayRetry

LEMMA GotoTyped ==
  ASSUME TypeOK, NEW c \in Clients, NEW step \in Steps, Goto(c, step)
  PROVE  pc' \in [Clients -> Steps]
BY DEF TypeOK, Goto

LEMMA CommandTyped ==
  ASSUME TypeOK, NEW c \in Clients, NEW step \in Steps, StartCommand(c, step)
  PROVE  pc' \in [Clients -> Steps] /\ tries' \in [Clients -> 0..Attempts]
BY HandoffConstantsOK DEF TypeOK, StartCommand, Goto

LEMMA EndTyped ==
  ASSUME TypeOK, NEW c \in Clients, NEW step \in Steps, EndCommand(c, step)
  PROVE  pc' \in [Clients -> Steps] /\ tries' \in [Clients -> 0..Attempts]
BY HandoffConstantsOK DEF TypeOK, EndCommand, Goto

\* What may be found in a file of the launch under way.
LEMMA FileTyped ==
  ASSUME TypeOK, NEW c \in Clients, launch[c] # 0
  PROVE  /\ launch[c] \in Launches
         /\ Packet(c) \in RemoteFile
         /\ [Packet(c) EXCEPT !.torn = TRUE] \in RemoteFile
         /\ Packet(c).launch = launch[c]
         /\ Packet(c).events = Source(dir[c])
         /\ ~Packet(c).torn
         /\ [Packet(c) EXCEPT !.torn = TRUE].launch = launch[c]
         /\ [Packet(c) EXCEPT !.torn = TRUE].events = Source(dir[c])
<1>1. launch[c] \in Launches
  BY HandoffConstantsOK DEF TypeOK, Launches
<1>2. Source(dir[c]) \in SUBSET Events
  BY DEF TypeOK, Source, FileNames, JournalLookedFor
<1> QED
  BY <1>1, <1>2 DEF Packet, RemoteFile

LEMMA WrittenTyped ==
  ASSUME NEW n \in 0..MaxEvents, NEW last \in {n, n + 1} \cap Events
  PROVE  /\ Written(n, last) \in [FileNames -> SUBSET Events]
         /\ 1..n \in SUBSET Events
         /\ {last} \ 1..n \in SUBSET Events
         /\ Source(Written(n, last)) = {last}
         /\ {last} \subseteq 1..n \cup ({last} \ 1..n)
<1>1. /\ {last} \in SUBSET Events
      /\ 1..n \in SUBSET Events
  BY HandoffConstantsOK DEF Events
<1>2. Written(n, last) \in [FileNames -> SUBSET Events]
  BY <1>1 DEF Written, NoDir, FileNames
<1>3. /\ Written(n, last)["events.json"] = {last}
      /\ Written(n, last)[JournalLookedFor] = {}
  BY <1>1 DEF Written, NoDir, FileNames, JournalLookedFor
<1> QED
  BY <1>1, <1>2, <1>3 DEF Source

AuthorityTypes ==
  /\ status \in {"active", "consumed", "revoked"}
  /\ pending \subseteq Launches \X Paths
  /\ critical \in [Paths -> 0..MaxLaunches]
  /\ restored \in BOOLEAN

HostTypes ==
  /\ result \in RemoteFile
  /\ temps \in [Launches -> RemoteFile]
  /\ late \subseteq Launches

HistoryTypes ==
  /\ launches \in 0..MaxLaunches
  /\ recorded \in [Launches -> SUBSET Events]
  /\ refused \in [Launches -> SUBSET Events]
  /\ returned \in [Launches -> SUBSET Events]
  /\ consumers \subseteq Launches \X Paths
  /\ done \subseteq Launches
  /\ lost \subseteq Launches

LEMMA TypeParts ==
  /\ TypeOK => ClientTypes /\ AuthorityTypes /\ HostTypes /\ HistoryTypes
  /\ ClientTypes' /\ AuthorityTypes' /\ HostTypes' /\ HistoryTypes' => TypeOK'
BY DEF TypeOK, ClientTypes, AuthorityTypes, HostTypes, HistoryTypes

LEMMA MoveTyped ==
  ASSUME TypeOK, NEW k \in Launches, MoveIntoPlace(k)
  PROVE  /\ result' \in RemoteFile
         /\ temps' \in [Launches -> RemoteFile]
         /\ returned' \in [Launches -> SUBSET Events]
         /\ late' \subseteq Launches
<1>1. NoFile \in RemoteFile
  BY DEF RemoteFile
<1>2. temps[k] \in RemoteFile /\ temps[k] # NoFile
  BY DEF TypeOK, MoveIntoPlace
<1>3. temps[k].events \in SUBSET Events
  BY <1>2 DEF RemoteFile
<1> QED
  BY <1>1, <1>2, <1>3 DEF TypeOK, MoveIntoPlace

\* What the host is asked for is asked along one of the paths.
LEMMA SendTyped ==
  ASSUME TypeOK, NEW c \in Clients, launch[c] # 0, NEW path \in Paths,
         Send(c, path)
  PROVE  pending' \subseteq Launches \X Paths
<1>1. launch[c] \in Launches
  BY FileTyped
<1> QED
  BY <1>1 DEF TypeOK, Send

LEMMA ConnectTyped ==
  ASSUME TypeOK, NEW c \in Clients, launch[c] # 0, ConnectStep(c) PROVE TypeOK'
<1> USE TypeParts DEF registry, authority
<1>0. launch[c] \in Launches
  BY FileTyped
<1>1. Steps = {"prepare", "fetch", "ui", "upload", "rename", "cleanup", "idle",
               "consume", "finalize"}
  BY DEF Steps, ConnectSteps
<1>2. NoFile \in RemoteFile /\ {} \in SUBSET Events
  BY DEF RemoteFile
<1>3. CASE Prepare(c)
  BY <1>1, <1>3, CommandTyped DEF Prepare, TypeOK, host, history
<1>4. CASE PrepareFails(c)
  BY <1>4, LeaveTyped DEF PrepareFails, ClientTypes, TypeOK, host, history
<1>5. CASE FetchRequest(c)
  BY <1>1, <1>5, EndTyped DEF FetchRequest, TypeOK, host, history
<1>6. CASE FetchFails(c)
  <2>1. CASE Leave(c)
    BY <1>6, <2>1, LeaveTyped
    DEF FetchFails, ClientTypes, TypeOK, host, history
  <2>2. CASE MayRetry(c) /\ \E got \in {"none", "part", "whole"} :
                              request' = [request EXCEPT ![c] = got]
    BY <1>6, <2>2, RetryTyped DEF FetchFails, TypeOK, host, history
  <2> QED
    BY <1>6, <2>1, <2>2 DEF FetchFails
<1>7. CASE UiReturns(c)
  <2>0. PICK n \in 0..MaxEvents : \E last \in {n, n + 1} \cap Events :
          /\ dir' = [dir EXCEPT ![c] = Written(n, last)]
          /\ recorded' = [recorded EXCEPT ![launch[c]] = 1..n]
          /\ refused' = [refused EXCEPT ![launch[c]] = {last} \ 1..n]
    BY <1>7 DEF UiReturns
  <2>1. PICK last \in {n, n + 1} \cap Events :
          /\ dir' = [dir EXCEPT ![c] = Written(n, last)]
          /\ recorded' = [recorded EXCEPT ![launch[c]] = 1..n]
          /\ refused' = [refused EXCEPT ![launch[c]] = {last} \ 1..n]
    BY <2>0
  <2>2. /\ dir' \in [Clients -> [FileNames -> SUBSET Events]]
        /\ recorded' \in [Launches -> SUBSET Events]
        /\ refused' \in [Launches -> SUBSET Events]
    BY <1>0, <2>1, WrittenTyped DEF TypeOK
  <2> QED
    BY <1>1, <1>7, <2>2, CommandTyped DEF UiReturns, TypeOK, host
<1>8. CASE UiFails(c)
  BY <1>8, LeaveTyped DEF UiFails, ClientTypes, TypeOK, host, history
<1>9. CASE Upload(c)
  BY <1>0, <1>1, <1>9, CommandTyped, FileTyped DEF Upload, TypeOK, history
<1>10. CASE UploadFails(c)
  <2>1. temps' \in [Launches -> RemoteFile]
    <3>1. temps[launch[c]] \in RemoteFile
      BY <1>0 DEF TypeOK
    <3>2. \A f \in {temps[launch[c]], [Packet(c) EXCEPT !.torn = TRUE],
                    Packet(c)} : f \in RemoteFile
      BY <3>1, FileTyped
    <3> QED
      BY <1>0, <1>10, <3>2 DEF UploadFails, TypeOK
  <2>2. CASE MayRetry(c)
    BY <1>10, <2>1, <2>2, RetryTyped DEF UploadFails, TypeOK, history
  <2>3. CASE Goto(c, "cleanup") /\ UNCHANGED <<launch, tries, dir, sent>>
    BY <1>1, <1>10, <2>1, <2>3, GotoTyped DEF UploadFails, TypeOK, history
  <2> QED
    BY <1>10, <2>2, <2>3 DEF UploadFails
<1>11. CASE Rename(c)
  BY <1>0, <1>1, <1>11, MoveTyped, EndTyped DEF Rename, TypeOK
<1>12. CASE RenameFails(c)
  <2>1. late' \subseteq Launches
    BY <1>0, <1>12 DEF RenameFails, MayStillRun, TypeOK
  <2>2. CASE MayRetry(c)
    BY <1>12, <2>1, <2>2, RetryTyped DEF RenameFails, TypeOK, history
  <2>3. CASE Goto(c, "cleanup") /\ UNCHANGED <<launch, tries, dir, sent>>
    BY <1>1, <1>12, <2>1, <2>3, GotoTyped DEF RenameFails, TypeOK, history
  <2> QED
    BY <1>12, <2>2, <2>3 DEF RenameFails
<1>13. ASSUME AfterCleanup(c), UNCHANGED registry
       PROVE  ClientTypes' /\ AuthorityTypes'
  <2>1. CASE Goto(c, "consume") /\ Send(c, "consume") /\ UNCHANGED client
    <3>1. "consume" \in Paths /\ "consume" \in Steps
      BY <1>1 DEF Paths
    <3> QED
      BY <1>13, <2>1, <3>1, GotoTyped, SendTyped
      DEF ClientTypes, AuthorityTypes, TypeOK, client
  <2>2. CASE Leave(c) /\ UNCHANGED pending
    BY <1>13, <2>2, LeaveTyped DEF AuthorityTypes, TypeOK
  <2> QED
    BY <1>13, <2>1, <2>2 DEF AfterCleanup
<1>14. CASE Cleanup(c)
  BY <1>0, <1>2, <1>13, <1>14 DEF Cleanup, HostTypes, HistoryTypes, history
<1>15. CASE CleanupFails(c)
  BY <1>0, <1>13, <1>15 DEF CleanupFails, HostTypes, HistoryTypes
<1> QED
  BY <1>3, <1>4, <1>5, <1>6, <1>7, <1>8, <1>9, <1>10, <1>11, <1>12, <1>14,
     <1>15 DEF ConnectStep

LEMMA LauncherTyped ==
  ASSUME TypeOK, NEW c \in Clients, pc[c] # "idle" => launch[c] # 0,
         LauncherStep(c) \/ Kill(c)
  PROVE  TypeOK'
<1> USE TypeParts DEF registry, authority
<1>1. Steps = {"prepare", "fetch", "ui", "upload", "rename", "cleanup", "idle",
               "consume", "finalize"}
  BY DEF Steps, ConnectSteps
<1>2. pc[c] # "idle" => launch[c] \in Launches
  BY FileTyped
<1>3. CASE Launch(c)
  <2>1. launches + 1 \in 0..MaxLaunches
    BY <1>3, HandoffConstantsOK DEF Launch, TypeOK
  <2> QED
    BY <1>1, <1>3, <2>1, GotoTyped DEF Launch, TypeOK, host, history
<1>4. CASE Answered(c)
  <2>1. pc[c] # "idle"
    BY <1>4 DEF Answered, TypeOK, Paths
  <2> QED
    BY <1>2, <1>4, <2>1, LeaveTyped
    DEF Answered, AuthorityTypes, HostTypes, HistoryTypes, host
<1>5. CASE ConsumeFails(c)
  <2>1. "finalize" \in Paths /\ "finalize" \in Steps /\ launch[c] # 0
    BY <1>1, <1>5 DEF Paths, ConsumeFails
  <2> QED
    BY <1>5, <2>1, GotoTyped, SendTyped DEF ConsumeFails, TypeOK, client, history
<1>9. CASE FinalizeFails(c)
  BY <1>9, LeaveTyped
  DEF FinalizeFails, AuthorityTypes, HostTypes, HistoryTypes, host, history
<1>10. CASE Kill(c)
  BY <1>2, <1>10, LeaveTyped
  DEF Kill, AuthorityTypes, HostTypes, HistoryTypes, host
<1> QED
  BY <1>3, <1>4, <1>5, <1>9, <1>10 DEF LauncherStep

-----------------------------------------------------------------------------
\* A step of one client leaves alone the others and what is theirs.

SameClient(d) ==
  /\ pc'[d] = pc[d]
  /\ launch'[d] = launch[d]
  /\ request'[d] = request[d]
  /\ dir'[d] = dir[d]
  /\ sent'[d] = sent[d]

SameLaunch(k) ==
  /\ temps'[k] = temps[k]
  /\ k \in late' <=> k \in late
  /\ recorded'[k] = recorded[k]
  /\ refused'[k] = refused[k]
  /\ returned'[k] = returned[k]

LEMMA OthersUntouched ==
  ASSUME TypeOK, NEW c \in Clients, StepOf(c), NEW d \in Clients, d # c
  PROVE  SameClient(d)
<1> USE DEF TypeOK, SameClient, Goto, StartCommand, EndCommand
<1>1. ASSUME Leave(c) PROVE SameClient(d)
  BY <1>1 DEF Leave
<1>2. ASSUME MayRetry(c), request' = request \/
             \E got \in {"none", "part", "whole"} :
               request' = [request EXCEPT ![c] = got]
      PROVE  SameClient(d)
  BY <1>2 DEF MayRetry
<1>3. CASE ConnectStep(c)
  <2>1. CASE Prepare(c) \/ FetchRequest(c)
    BY <2>1 DEF Prepare, FetchRequest
  <2>2. CASE PrepareFails(c) \/ UiFails(c)
    BY <1>1, <2>2 DEF PrepareFails, UiFails
  <2>3. CASE FetchFails(c)
    BY <1>1, <1>2, <2>3 DEF FetchFails
  <2>4. CASE UiReturns(c)
    BY <2>4 DEF UiReturns
  <2>5. CASE Upload(c)
    BY <2>5 DEF Upload
  <2>6. CASE UploadFails(c)
    BY <1>2, <2>6 DEF UploadFails
  <2>7. CASE Rename(c)
    BY <2>7 DEF Rename
  <2>8. CASE RenameFails(c)
    BY <1>2, <2>8 DEF RenameFails
  <2>9. CASE AfterCleanup(c)
    BY <1>1, <2>9 DEF AfterCleanup, client
  <2> QED
    BY <1>3, <2>1, <2>2, <2>3, <2>4, <2>5, <2>6, <2>7, <2>8, <2>9
    DEF ConnectStep, Cleanup, CleanupFails
<1>4. CASE LauncherStep(c)
  <2>1. CASE Launch(c)
    BY <2>1 DEF Launch
  <2>3. CASE ConsumeFails(c)
    BY <2>3 DEF ConsumeFails, client
  <2>4. CASE Answered(c) \/ FinalizeFails(c)
    BY <1>1, <2>4 DEF Answered, FinalizeFails
  <2> QED
    BY <1>4, <2>1, <2>3, <2>4 DEF LauncherStep
<1>5. CASE Kill(c)
  BY <1>1, <1>5 DEF Kill
<1> QED
  BY <1>3, <1>4, <1>5 DEF StepOf

LEMMA HostUntouched ==
  ASSUME TypeOK, NEW c \in Clients, pc[c] # "idle" => launch[c] # 0, StepOf(c)
  PROVE  /\ \A k \in Launches : k # launch[c] => SameLaunch(k)
         /\ \/ result' = result
            \/ /\ launch[c] \in Launches
               /\ temps[launch[c]] # NoFile
               /\ result' = temps[launch[c]]
         /\ launches' \in {launches, launches + 1}
<1> USE DEF SameLaunch
<1>a. pc[c] # "idle" => launch[c] \in Launches
  BY FileTyped
<1>b. launches \in Nat
  BY HandoffConstantsOK DEF TypeOK
<1>1. (pc[c] # "idle" => launch[c] \in Launches) /\ launches \in Nat
  BY <1>a, <1>b
<1>2. CASE UiReturns(c)
  BY <1>1, <1>2 DEF UiReturns, host, TypeOK
<1>3. CASE Upload(c)
  BY <1>1, <1>3 DEF Upload, history, TypeOK
<1>4. CASE UploadFails(c)
  BY <1>1, <1>4 DEF UploadFails, history, TypeOK
<1>5. CASE Rename(c)
  BY <1>1, <1>5 DEF Rename, MoveIntoPlace, TypeOK
<1>6. CASE RenameFails(c)
  BY <1>1, <1>6 DEF RenameFails, MayStillRun, history, TypeOK
<1>7. CASE Cleanup(c)
  BY <1>1, <1>7 DEF Cleanup, history, TypeOK
<1>8. CASE Launch(c)
  BY <1>1, <1>8 DEF Launch, host, history
<1>9. CASE Answered(c)
  BY <1>1, <1>9 DEF Answered, host
<1>10. CASE \/ Prepare(c) \/ PrepareFails(c) \/ FetchRequest(c)
            \/ FetchFails(c) \/ UiFails(c) \/ CleanupFails(c)
            \/ ConsumeFails(c) \/ FinalizeFails(c) \/ Kill(c)
  BY <1>1, <1>10
  DEF Prepare, PrepareFails, FetchRequest, FetchFails, UiFails, CleanupFails,
      ConsumeFails, FinalizeFails, Kill, host, history
<1> QED
  BY <1>2, <1>3, <1>4, <1>5, <1>6, <1>7, <1>8, <1>9, <1>10
  DEF StepOf, ConnectStep, LauncherStep

-----------------------------------------------------------------------------
\* What a step of client c does to the shapes of the others and of their
\* launches.

LEMMA LaunchNumbers ==
  ASSUME TypeOK, NEW c \in Clients
  PROVE  /\ launch[c] = 0 \/ launch[c] \in Launches
         /\ launch[c] \in Nat
         /\ launches \in Nat
         /\ \A k \in Launches : k \in Nat /\ k # 0
         /\ NoFile.launch = 0 /\ ~NoFile.torn
BY HandoffConstantsOK DEF TypeOK, Launches, NoFile

LEMMA OtherClientsKept ==
  ASSUME IInv, NEW c \in Clients, StepOf(c), NEW d \in Clients, d # c
  PROVE  ClientShape(d)'
<1>1. TypeOK /\ Numbered /\ ClientShape(c) /\ ClientShape(d)
  BY DEF IInv
<1>2. SameClient(d)
  BY <1>1, OthersUntouched
<1>3. /\ \A k \in Launches : k # launch[c] => SameLaunch(k)
      /\ \/ result' = result
         \/ /\ launch[c] \in Launches
            /\ temps[launch[c]] # NoFile
            /\ result' = temps[launch[c]]
      /\ launches' \in {launches, launches + 1}
  BY <1>1, HostUntouched DEF ClientShape
<1>4. launch[d] # 0 => launch[d] # launch[c] /\ launch[d] \in Launches
  BY <1>1, LaunchNumbers DEF Numbered
<1>5. result' = result \/ result'.launch = launch[c]
  BY <1>3 DEF IInv, SiblingShape
<1>6. launch[d] <= launches'
  <2>1. launches' \in Nat /\ launches \in Nat /\ launch[d] \in Nat
    BY <1>1, <1>3, LaunchNumbers
  <2> QED
    BY <2>1, <1>1, <1>3 DEF ClientShape
<1>7. CASE launch[d] = 0
  BY <1>1, <1>2, <1>6, <1>7 DEF ClientShape, SameClient, BeforeUpload
<1>8. CASE launch[d] # 0
  <2>1. SameLaunch(launch[d])
    BY <1>3, <1>4, <1>8
  <2>2. result'.launch = launch[d] => result.launch = launch[d]
    BY <1>4, <1>5, <1>8
  <2> QED
    BY <1>1, <1>2, <1>6, <1>8, <2>1, <2>2 DEF ClientShape, SameClient, SameLaunch
<1> QED
  BY <1>7, <1>8

LEMMA OtherLaunchesKept ==
  ASSUME IInv, NEW c \in Clients, StepOf(c), NEW k \in Launches, k # launch[c]
  PROVE  SiblingShape(k)'
<1>1. TypeOK /\ ClientShape(c) /\ SiblingShape(k)
  BY DEF IInv
<1>2. /\ SameLaunch(k)
      /\ \/ result' = result
         \/ /\ launch[c] \in Launches
            /\ temps[launch[c]] # NoFile
            /\ result' = temps[launch[c]]
      /\ launches' \in {launches, launches + 1}
  BY <1>1, HostUntouched DEF ClientShape
<1>3. result' = result \/ result'.launch = launch[c]
  BY <1>2 DEF IInv, SiblingShape
<1>4. k > launches' => k > launches
  BY <1>1, <1>2, LaunchNumbers
<1> QED
  BY <1>1, <1>2, <1>3, <1>4 DEF SiblingShape, SameLaunch

-----------------------------------------------------------------------------
\* What it does to its own.

\* A client that has left knows nothing.
LEMMA LeftShape ==
  ASSUME TypeOK, NEW c \in Clients, Leave(c), launches' = launches
  PROVE  ClientShape(c)'
<1>1. pc'[c] = "idle" /\ launch'[c] = 0 /\ ~sent'[c]
  BY DEF TypeOK, Leave, Goto
<1>2. 0 <= launches'
  BY LaunchNumbers
<1> QED
  BY <1>1, <1>2 DEF ClientShape, BeforeUpload

LEMMA OwnClientKept ==
  ASSUME IInv, NEW c \in Clients, StepOf(c) PROVE ClientShape(c)'
<1> USE DEF Goto, StartCommand, EndCommand, BeforeUpload
<1>1. TypeOK /\ ClientShape(c) /\ (\A k \in Launches : SiblingShape(k))
  BY DEF IInv
<1>2. pc[c] # "idle" => launch[c] \in Launches
  BY <1>1, LaunchNumbers DEF ClientShape
<1>3. CASE Launch(c)
  <2>1. launches + 1 \in Launches /\ launches + 1 > launches
    BY <1>1, <1>3, HandoffConstantsOK DEF Launch, TypeOK, Launches
  <2>2. SiblingShape(launches + 1)
    BY <1>1, <2>1
  <2>3. pc'[c] = "prepare" /\ launch'[c] = launches' /\ launches' = launches + 1
        /\ ~sent'[c]
    BY <1>1, <1>3 DEF Launch, TypeOK, ClientShape
  <2> QED
    BY <1>1, <1>3, <2>1, <2>2, <2>3, LaunchNumbers
    DEF Launch, SiblingShape, ClientShape, host, history
<1>4. CASE Prepare(c)
  <2>1. pc'[c] = "fetch" /\ launch' = launch /\ launches' = launches
        /\ sent' = sent
    BY <1>1, <1>4 DEF Prepare, TypeOK
  <2> QED
    BY <1>1, <1>4, <2>1 DEF Prepare, ClientShape, host, history
<1>5. CASE FetchRequest(c)
  <2>1. pc'[c] = "ui" /\ request'[c] = "whole"
    BY <1>1, <1>5 DEF FetchRequest, TypeOK
  <2> QED
    BY <1>1, <1>5, <2>1 DEF FetchRequest, ClientShape, host, history
<1>6. CASE FetchFails(c)
  <2>1. CASE Leave(c)
    BY <1>1, <1>6, <2>1, LeftShape DEF FetchFails
  <2>2. CASE MayRetry(c)
    BY <1>1, <1>6, <2>2 DEF FetchFails, MayRetry, ClientShape, host, history
  <2> QED
    BY <1>6, <2>1, <2>2 DEF FetchFails
<1>7. CASE UiReturns(c)
  <2>0. PICK n \in 0..MaxEvents : \E last \in {n, n + 1} \cap Events :
          /\ dir' = [dir EXCEPT ![c] = Written(n, last)]
          /\ recorded' = [recorded EXCEPT ![launch[c]] = 1..n]
          /\ refused' = [refused EXCEPT ![launch[c]] = {last} \ 1..n]
    BY <1>7 DEF UiReturns
  <2>1. PICK last \in {n, n + 1} \cap Events :
          /\ dir' = [dir EXCEPT ![c] = Written(n, last)]
          /\ recorded' = [recorded EXCEPT ![launch[c]] = 1..n]
          /\ refused' = [refused EXCEPT ![launch[c]] = {last} \ 1..n]
    BY <2>0
  <2>2. /\ pc'[c] = "upload"
        /\ dir'[c] = Written(n, last)
        /\ recorded'[launch[c]] = 1..n
        /\ refused'[launch[c]] = {last} \ 1..n
    BY <1>1, <1>2, <1>7, <2>1 DEF UiReturns, TypeOK
  <2>3. /\ Source(dir'[c]) # {}
        /\ Source(dir'[c]) \subseteq recorded'[launch[c]] \cup refused'[launch[c]]
    <3>1. /\ Source(Written(n, last)) = {last}
          /\ {last} \subseteq 1..n \cup ({last} \ 1..n)
      BY WrittenTyped
    <3> QED
      BY <2>2, <3>1
  <2> QED
    BY <1>1, <1>7, <2>2, <2>3 DEF UiReturns, ClientShape, host
<1>8. CASE Upload(c)
  <2>1. /\ pc'[c] = "rename"
        /\ temps'[launch[c]] = Packet(c)
    BY <1>1, <1>2, <1>8 DEF Upload, TypeOK
  <2>2. ~temps'[launch[c]].torn
    BY <1>1, <1>8, <2>1, FileTyped DEF Upload, ClientShape
  <2> QED
    BY <1>1, <1>8, <2>1, <2>2 DEF Upload, ClientShape, history
<1>9. CASE UploadFails(c)
  <2>1. CASE MayRetry(c)
    BY <1>1, <1>9, <2>1 DEF UploadFails, MayRetry, ClientShape, history
  <2>2. CASE Goto(c, "cleanup") /\ UNCHANGED <<launch, tries, dir, sent>>
    <3>1. pc'[c] = "cleanup"
      BY <1>1, <2>2 DEF TypeOK
    <3> QED
      BY <1>1, <1>9, <2>2, <3>1 DEF UploadFails, ClientShape, history
  <2> QED
    BY <1>9, <2>1, <2>2 DEF UploadFails
<1>10. CASE Rename(c)
  <2>1. /\ pc'[c] = "cleanup"
        /\ returned'[launch[c]] = temps[launch[c]].events
        /\ temps[launch[c]] # NoFile
    BY <1>1, <1>2, <1>10 DEF Rename, MoveIntoPlace, TypeOK
  <2>2. returned'[launch[c]] # {}
    BY <1>1, <1>2, <1>10, <2>1 DEF Rename, SiblingShape
  <2> QED
    BY <1>1, <1>10, <2>1, <2>2 DEF Rename, MoveIntoPlace, ClientShape
<1>11. CASE RenameFails(c)
  <2>1. CASE MayRetry(c)
    BY <1>1, <1>11, <2>1
    DEF RenameFails, MayStillRun, MayRetry, ClientShape, history
  <2>2. CASE Goto(c, "cleanup") /\ UNCHANGED <<launch, tries, dir, sent>>
    <3>1. pc'[c] = "cleanup"
      BY <1>1, <2>2 DEF TypeOK
    <3> QED
      BY <1>1, <1>11, <2>2, <3>1 DEF RenameFails, MayStillRun, ClientShape, history
  <2> QED
    BY <1>11, <2>1, <2>2 DEF RenameFails
<1>12. CASE Cleanup(c) \/ CleanupFails(c)
  <2>1. /\ pc[c] = "cleanup" /\ AfterCleanup(c)
        /\ launches' = launches /\ returned' = returned
    BY <1>12 DEF Cleanup, CleanupFails, history
  <2>2. CASE Leave(c)
    BY <1>1, <2>1, <2>2, LeftShape
  <2>3. CASE sent[c] /\ Goto(c, "consume") /\ UNCHANGED client
    <3>1. pc'[c] = "consume"
      BY <1>1, <2>3 DEF TypeOK
    <3> QED
      BY <1>1, <2>1, <2>3, <3>1 DEF ClientShape, client
  <2> QED
    BY <2>1, <2>2, <2>3 DEF AfterCleanup
<1>13. CASE ConsumeFails(c)
  <2>1. /\ pc[c] = "consume" /\ pc'[c] = "finalize"
        /\ launches' = launches /\ returned' = returned /\ UNCHANGED client
    BY <1>1, <1>13 DEF ConsumeFails, history, TypeOK
  <2> QED
    BY <1>1, <2>1 DEF ClientShape, client
<1>14. CASE Leave(c) /\ launches' = launches
  BY <1>1, <1>14, LeftShape
<1> QED
  BY <1>3, <1>4, <1>5, <1>6, <1>7, <1>8, <1>9, <1>10, <1>11, <1>12, <1>13, <1>14
  DEF StepOf, ConnectStep, LauncherStep, PrepareFails, UiFails, Answered,
      FinalizeFails, Kill

LEMMA OwnLaunchKept ==
  ASSUME IInv, NEW c \in Clients, StepOf(c), NEW k \in Launches, k = launch[c]
  PROVE  SiblingShape(k)'
<1>1. TypeOK /\ ClientShape(c) /\ SiblingShape(k)
  BY DEF IInv
<1>2. launches' \in {launches, launches + 1}
  BY <1>1, HostUntouched DEF ClientShape
<1>3. ~(k > launches')
  BY <1>1, <1>2, LaunchNumbers DEF ClientShape
<1>4. CASE UNCHANGED <<temps, late, recorded, refused>>
  BY <1>1, <1>3, <1>4 DEF SiblingShape
<1>5. CASE UiReturns(c)
  <2>1. temps'[k] = NoFile /\ late' = late
    BY <1>1, <1>5 DEF UiReturns, ClientShape, BeforeUpload, host
  <2> QED
    BY <1>1, <1>3, <2>1, LaunchNumbers DEF SiblingShape
<1>6. CASE Upload(c)
  <2>1. /\ temps'[k] = Packet(c) /\ late' = late
        /\ UNCHANGED <<recorded, refused>>
    BY <1>1, <1>6 DEF Upload, TypeOK, history
  <2>2. /\ Packet(c).launch = k /\ ~Packet(c).torn
        /\ Packet(c).events = Source(dir[c])
    BY <1>1, FileTyped, LaunchNumbers
  <2> QED
    BY <1>1, <1>3, <1>6, <2>1, <2>2 DEF SiblingShape, ClientShape, Upload
<1>7. CASE UploadFails(c)
  <2>1. /\ temps'[k] \in {temps[k], [Packet(c) EXCEPT !.torn = TRUE], Packet(c)}
        /\ late' = late /\ UNCHANGED <<recorded, refused>>
    BY <1>1, <1>7 DEF UploadFails, TypeOK, history
  <2>2. /\ Packet(c).launch = k
        /\ Packet(c).events = Source(dir[c])
        /\ [Packet(c) EXCEPT !.torn = TRUE].launch = k
        /\ [Packet(c) EXCEPT !.torn = TRUE].events = Source(dir[c])
    BY <1>1, FileTyped, LaunchNumbers
  <2>3. /\ k \notin late
        /\ Source(dir[c]) # {}
        /\ Source(dir[c]) \subseteq recorded[k] \cup refused[k]
    BY <1>1, <1>7 DEF UploadFails, ClientShape
  <2>4. temps'[k] # NoFile => /\ temps'[k].launch = k
                             /\ temps'[k].events # {}
                             /\ temps'[k].events
                                  \subseteq recorded'[k] \cup refused'[k]
    BY <1>1, <2>1, <2>2, <2>3 DEF SiblingShape
  <2> QED
    BY <1>3, <2>1, <2>3, <2>4 DEF SiblingShape
<1>8. CASE Rename(c) \/ Cleanup(c)
  <2>1. temps'[k] = NoFile /\ k \notin late'
    BY <1>1, <1>8 DEF Rename, Cleanup, MoveIntoPlace, TypeOK
  <2> QED
    BY <1>1, <1>3, <2>1, LaunchNumbers DEF SiblingShape
<1>9. CASE RenameFails(c)
  BY <1>1, <1>3, <1>9
  DEF RenameFails, MayStillRun, SiblingShape, ClientShape, history
<1> QED
  BY <1>4, <1>5, <1>6, <1>7, <1>8, <1>9
  DEF StepOf, ConnectStep, LauncherStep, Prepare, PrepareFails, FetchRequest,
      FetchFails, UiFails, CleanupFails, Launch, Answered, ConsumeFails,
      FinalizeFails, Kill, host, history

-----------------------------------------------------------------------------
\* The rest of the invariant, over a step of client c.

LEMMA NumberedKept ==
  ASSUME IInv, NEW c \in Clients, StepOf(c) PROVE Numbered'
<1>1. TypeOK /\ Numbered /\ \A d \in Clients : ClientShape(d)
  BY DEF IInv
<1>2. launch'[c] \in {launch[c], 0, launches + 1}
  BY <1>1
  DEF TypeOK, StepOf, ConnectStep, LauncherStep, Launch, Prepare, PrepareFails,
      FetchRequest, FetchFails, UiReturns, UiFails, Upload, UploadFails, Rename,
      RenameFails, Cleanup, CleanupFails, AfterCleanup, Answered, ConsumeFails,
      FinalizeFails, Kill, Leave, MayRetry, client
<1>3. \A d \in Clients \ {c} : launch'[d] = launch[d]
  BY <1>1, OthersUntouched DEF SameClient
<1>4. \A d \in Clients : launch[d] # launches + 1
  BY <1>1, LaunchNumbers DEF ClientShape
<1> QED
  BY <1>1, <1>2, <1>3, <1>4 DEF Numbered

LEMMA WholeKept ==
  ASSUME IInv, NEW c \in Clients, StepOf(c) PROVE ResultIsWhole'
<1>1. /\ TypeOK /\ ClientShape(c) /\ ResultIsWhole
      /\ \A k \in Launches : SiblingShape(k)
  BY DEF IInv
<1>2. CASE Rename(c)
  <2>1. /\ launch[c] \in Launches
        /\ temps[launch[c]] # NoFile
        /\ result' = temps[launch[c]]
        /\ UNCHANGED <<recorded, refused>>
        /\ ~temps[launch[c]].torn
    BY <1>1, <1>2, LaunchNumbers DEF Rename, MoveIntoPlace, ClientShape
  <2> QED
    BY <1>1, <2>1 DEF ResultIsWhole, SiblingShape
<1>3. CASE UiReturns(c)
  <2>1. /\ launch[c] \in Launches
        /\ result' = result
        /\ result.launch # launch[c]
    BY <1>1, <1>3, LaunchNumbers DEF UiReturns, host, ClientShape, BeforeUpload
  <2>2. result # NoFile => result.launch \in Launches
    BY <1>1 DEF TypeOK, RemoteFile
  <2>3. result # NoFile => /\ recorded'[result.launch] = recorded[result.launch]
                           /\ refused'[result.launch] = refused[result.launch]
    BY <1>1, <1>3, <2>1, <2>2 DEF UiReturns, TypeOK
  <2> QED
    BY <1>1, <2>1, <2>3 DEF ResultIsWhole
<1>4. CASE UNCHANGED <<result, recorded, refused>>
  BY <1>1, <1>4 DEF ResultIsWhole
<1> QED
  BY <1>2, <1>3, <1>4
  DEF StepOf, ConnectStep, LauncherStep, Launch, Prepare, PrepareFails,
      FetchRequest, FetchFails, UiFails, Upload, UploadFails, RenameFails,
      Cleanup, CleanupFails, Answered, ConsumeFails, FinalizeFails, Kill, host,
      history

\* What was returned stays returned, for those that count on it.
LEMMA ReturnedStays ==
  ASSUME TypeOK, TokenShape, ConsumedHasResult, OneCompletionPerLock,
         UNCHANGED <<authority, consumers, done>>,
         \A k \in Launches : returned[k] # {} => returned'[k] # {}
  PROVE  TokenShape' /\ ConsumedHasResult' /\ OneCompletionPerLock'
<1>1. \A e \in pending \cup consumers : e[1] \in Launches
  BY DEF TypeOK
<1>2. \A path \in Paths : critical[path] # 0 => critical[path] \in Launches
  BY HandoffConstantsOK DEF TypeOK, Launches
<1> QED
  BY <1>1, <1>2
  DEF TokenShape, ConsumedHasResult, OneCompletionPerLock, authority, registry

LEMMA TokenKept ==
  ASSUME IInv, NEW c \in Clients, StepOf(c)
  PROVE  TokenShape' /\ ConsumedHasResult' /\ OneCompletionPerLock'
<1>1. /\ TypeOK /\ ClientShape(c)
      /\ TokenShape /\ ConsumedHasResult /\ OneCompletionPerLock
      /\ \A k \in Launches : SiblingShape(k)
  BY DEF IInv
<1>2. CASE Answered(c)
  BY <1>1, <1>2
  DEF Answered, TokenShape, ConsumedHasResult, OneCompletionPerLock, host,
      authority, registry, TypeOK
<1>3. CASE Rename(c)
  <2>1. /\ UNCHANGED <<authority, consumers, done>>
        /\ launch[c] \in Launches
        /\ temps[launch[c]] # NoFile
        /\ returned' = [returned EXCEPT ![launch[c]] = temps[launch[c]].events]
    BY <1>1, <1>3, LaunchNumbers DEF Rename, MoveIntoPlace, ClientShape
  <2>2. temps[launch[c]].events # {}
    BY <1>1, <2>1 DEF SiblingShape
  <2>3. \A k \in Launches : returned[k] # {} => returned'[k] # {}
    BY <1>1, <2>1, <2>2 DEF TypeOK
  <2> QED
    BY <1>1, <2>1, <2>3, ReturnedStays
<1>4. CASE Cleanup(c) \/ CleanupFails(c) \/ ConsumeFails(c)
  <2>1. /\ UNCHANGED <<registry, consumers, done, returned>>
        /\ \/ pending' = pending
           \/ /\ returned[launch[c]] # {}
              /\ \E path : pending' = pending \cup {<<launch[c], path>>}
    BY <1>1, <1>4
    DEF Cleanup, CleanupFails, AfterCleanup, ConsumeFails, Send, ClientShape,
        history
  <2> QED
    BY <1>1, <2>1
    DEF TokenShape, ConsumedHasResult, OneCompletionPerLock, registry
<1>5. CASE UNCHANGED <<authority, consumers, done, returned>>
  BY <1>1, <1>5
  DEF TokenShape, ConsumedHasResult, OneCompletionPerLock, authority, registry
<1> QED
  BY <1>2, <1>3, <1>4, <1>5
  DEF StepOf, ConnectStep, LauncherStep, Launch, Prepare, PrepareFails,
      FetchRequest, FetchFails, UiReturns, UiFails, Upload, UploadFails,
      RenameFails, FinalizeFails, Kill, host, history

AtSibling(k) ==
  \E d \in Clients : launch[d] = k /\ pc[d] \in {"upload", "rename", "cleanup"}

LEMMA SiblingsKept ==
  ASSUME IInv, NEW c \in Clients, StepOf(c) PROVE SiblingsAreAccounted'
<1>1. /\ TypeOK /\ ClientShape(c) /\ Numbered
      /\ \A k \in Launches : temps[k] # NoFile => k \in lost \/ AtSibling(k)
  BY DEF IInv, SiblingsAreAccounted, AtSibling
<1>2. lost \subseteq lost'
  BY DEF StepOf, ConnectStep, LauncherStep, Launch, Prepare, PrepareFails,
         FetchRequest, FetchFails, UiReturns, UiFails, Upload, UploadFails,
         Rename, RenameFails, Cleanup, CleanupFails, Answered, ConsumeFails,
         FinalizeFails, Kill, history
<1>3. ASSUME NEW k \in Launches, temps'[k] # NoFile, k # launch[c]
      PROVE  k \in lost' \/ AtSibling(k)'
  <2>1. temps'[k] = temps[k]
    BY <1>1, <1>3, HostUntouched DEF SameLaunch, ClientShape
  <2>2. CASE k \in lost
    BY <1>2, <2>2
  <2>3. CASE AtSibling(k)
    <3>1. PICK d \in Clients :
            launch[d] = k /\ pc[d] \in {"upload", "rename", "cleanup"}
      BY <2>3 DEF AtSibling
    <3>2. SameClient(d)
      BY <1>1, <1>3, <3>1, OthersUntouched
    <3> QED
      BY <3>1, <3>2 DEF AtSibling, SameClient
  <2> QED
    BY <1>1, <1>3, <2>1, <2>2, <2>3
<1>4. ASSUME NEW k \in Launches, temps'[k] # NoFile, k = launch[c]
      PROVE  k \in lost' \/ AtSibling(k)'
  <2>1. k # 0
    BY <1>1, LaunchNumbers
  <2>2. AtSibling(k) => pc[c] \in {"upload", "rename", "cleanup"}
    BY <1>1, <1>4, <2>1 DEF AtSibling, Numbered
  <2>3. CASE launch'[c] = k /\ pc'[c] \in {"upload", "rename", "cleanup"}
    BY <2>3 DEF AtSibling
  <2>4. CASE k \in lost'
    BY <2>4
  <2>5. CASE Rename(c) \/ Cleanup(c)
    BY <1>1, <1>4, <2>5 DEF Rename, Cleanup, MoveIntoPlace, TypeOK
  <2>6. CASE /\ pc[c] \notin {"upload", "rename", "cleanup"}
             /\ temps' = temps
    BY <1>1, <1>2, <1>4, <2>2, <2>6
  <2>7. CASE UiReturns(c) \/ Upload(c)
    BY <1>1, <1>4, <2>3, <2>7
    DEF UiReturns, Upload, StartCommand, Goto, TypeOK
  <2>8. CASE UploadFails(c) \/ RenameFails(c)
    BY <1>1, <1>4, <2>3, <2>8 DEF UploadFails, RenameFails, MayRetry, Goto, TypeOK
  <2>9. CASE CleanupFails(c) \/ Kill(c)
    BY <1>4, <2>4, <2>9 DEF CleanupFails, Kill
  <2>10. CASE Answered(c)
    <3>1. pc[c] \notin {"upload", "rename", "cleanup"} /\ temps' = temps
      BY <1>1, <2>10 DEF Answered, TypeOK, Paths, host
    <3> QED
      BY <2>6, <3>1
  <2> QED
    BY <2>5, <2>6, <2>7, <2>8, <2>9, <2>10
    DEF StepOf, ConnectStep, LauncherStep, Launch, Prepare, PrepareFails,
        FetchRequest, FetchFails, UiFails, ConsumeFails, FinalizeFails, host
<1> QED
  BY <1>3, <1>4 DEF SiblingsAreAccounted, AtSibling

LEMMA ClientStepKept ==
  ASSUME IInv, NEW c \in Clients, StepOf(c) PROVE IInv'
<1>1. TypeOK'
  BY ConnectTyped, LauncherTyped
  DEF IInv, ClientShape, StepOf, ConnectStep, Prepare, PrepareFails,
      FetchRequest, FetchFails, UiReturns, UiFails, Upload, UploadFails, Rename,
      RenameFails, Cleanup, CleanupFails
<1>2. \A d \in Clients : ClientShape(d)'
  BY OtherClientsKept, OwnClientKept
<1>3. \A k \in Launches : SiblingShape(k)'
  BY OtherLaunchesKept, OwnLaunchKept
<1> QED
  BY <1>1, <1>2, <1>3, NumberedKept, WholeKept, TokenKept, SiblingsKept DEF IInv

-----------------------------------------------------------------------------
\* A rename that nobody waits for.

LEMMA LateRenameKept ==
  ASSUME IInv, NEW k \in Launches, LateRename(k) PROVE IInv'
<1>1. /\ TypeOK /\ SiblingShape(k)
      /\ \A c \in Clients : ClientShape(c)
      /\ \A j \in Launches : SiblingShape(j)
  BY DEF IInv
<1>2. /\ k \in late /\ temps[k] # NoFile
      /\ result' = temps[k]
      /\ temps' = [temps EXCEPT ![k] = NoFile]
      /\ returned' = [returned EXCEPT ![k] = temps[k].events]
      /\ late' = late \ {k}
      /\ UNCHANGED <<authority, launches, pc, client, recorded, refused,
                     consumers, done, lost>>
  BY DEF LateRename, MoveIntoPlace
<1>3. /\ temps[k].launch = k
      /\ temps[k].events # {}
      /\ temps[k].events \subseteq recorded[k] \cup refused[k]
      /\ ~temps[k].torn
  BY <1>1, <1>2 DEF SiblingShape
<1>4. TypeOK'
  BY <1>1, <1>2, MoveTyped DEF TypeOK, LateRename, client, authority, registry
<1>5. ResultIsWhole'
  BY <1>2, <1>3 DEF ResultIsWhole
<1>6. \A j \in Launches : returned[j] # {} => returned'[j] # {}
  BY <1>1, <1>2, <1>3 DEF TypeOK
<1>7. ASSUME NEW c \in Clients PROVE ClientShape(c)'
  <2>1. ClientShape(c) /\ (launch[c] = 0 \/ launch[c] \in Launches)
    BY <1>1, LaunchNumbers
  <2>2. CASE launch[c] = 0
    BY <1>2, <2>1, <2>2 DEF ClientShape, BeforeUpload, client
  <2>3. CASE launch[c] = k
    <3>1. temps'[k] = NoFile /\ ~NoFile.torn /\ pc[c] \notin BeforeUpload
      BY <1>1, <1>2, <2>1, <2>3, LaunchNumbers DEF TypeOK, ClientShape
    <3> QED
      BY <1>2, <1>6, <2>1, <2>3, <3>1 DEF ClientShape, client
  <2>4. CASE launch[c] # k /\ launch[c] \in Launches
    <3>1. temps'[launch[c]] = temps[launch[c]] /\ result'.launch # launch[c]
      BY <1>1, <1>2, <1>3, <2>4 DEF TypeOK
    <3> QED
      BY <1>2, <1>6, <2>1, <2>4, <3>1 DEF ClientShape, client
  <2> QED
    BY <2>1, <2>2, <2>3, <2>4
<1>8. ASSUME NEW j \in Launches PROVE SiblingShape(j)'
  <2>1. temps'[j] \in {temps[j], NoFile}
    BY <1>1, <1>2 DEF TypeOK
  <2>2. ~(k > launches) /\ ~NoFile.torn
    BY <1>1, <1>2 DEF SiblingShape, NoFile
  <2> QED
    BY <1>1, <1>2, <1>3, <2>1, <2>2 DEF SiblingShape
<1>9. SiblingsAreAccounted'
  BY <1>1, <1>2 DEF IInv, SiblingsAreAccounted, TypeOK, client
<1>10. TokenShape' /\ ConsumedHasResult' /\ OneCompletionPerLock'
  BY <1>1, <1>2, <1>6, ReturnedStays DEF IInv
<1>11. Numbered'
  BY <1>2 DEF IInv, Numbered, client
<1> QED
  BY <1>4, <1>5, <1>7, <1>8, <1>9, <1>10, <1>11 DEF IInv

-----------------------------------------------------------------------------
\* The programs that consume the token.

LEMMA HostStepKept ==
  ASSUME IInv, NEW path \in Paths, HostStep(path) PROVE IInv'
<1>1. /\ TypeOK /\ TokenShape /\ ConsumedHasResult /\ OneCompletionPerLock
      /\ UNCHANGED <<result, temps, late, launches, pc, client, recorded, refused,
                     returned, done, lost>>
  BY DEF IInv, HostStep, Read, Write, WriteFails, history
<1>2. /\ \A c \in Clients : ClientShape(c)'
      /\ \A k \in Launches : SiblingShape(k)'
      /\ Numbered' /\ ResultIsWhole' /\ SiblingsAreAccounted'
  BY <1>1
  DEF IInv, ClientShape, SiblingShape, Numbered, ResultIsWhole,
      SiblingsAreAccounted, client
<1>3. critical[path] # 0 => critical[path] \in Launches
  BY <1>1, HandoffConstantsOK DEF TypeOK, Launches
<1>4. 0 \in 0..MaxLaunches /\ Launches \subseteq 0..MaxLaunches
  BY HandoffConstantsOK DEF Launches
<1>5. ASSUME NEW k \in Launches, Read(k, path)
      PROVE  TypeOK' /\ TokenShape' /\ ConsumedHasResult' /\ OneCompletionPerLock'
  <2>1. /\ <<k, path>> \in pending /\ status = "active"
        /\ critical' = [critical EXCEPT ![path] = k]
        /\ pending' = pending \ {<<k, path>>}
        /\ UNCHANGED <<status, restored, consumers>>
    BY <1>5 DEF Read, history
  <2>2. TypeOK'
    BY <1>1, <1>4, <2>1 DEF TypeOK, client
  <2>3. (~restored => consumers = {}) /\ returned[k] # {}
    BY <1>1, <2>1 DEF TokenShape
  <2>4. TokenShape'
    BY <1>1, <2>1, <2>3 DEF TokenShape, TypeOK
  <2> QED
    BY <1>1, <2>1, <2>2, <2>4 DEF ConsumedHasResult, OneCompletionPerLock
<1>6. ASSUME Write(path)
      PROVE  TypeOK' /\ TokenShape' /\ ConsumedHasResult' /\ OneCompletionPerLock'
  <2>1. /\ critical[path] # 0 /\ status' = "consumed"
        /\ consumers' = consumers \cup {<<critical[path], path>>}
        /\ critical' = [critical EXCEPT ![path] = 0]
        /\ UNCHANGED <<pending, restored>>
    BY <1>6 DEF Write
  <2>2. TypeOK'
    BY <1>1, <1>3, <1>4, <2>1 DEF TypeOK, client
  <2>3. /\ returned[critical[path]] # {}
        /\ ~restored => \A k \in Launches : <<k, path>> \notin consumers
    BY <1>1, <2>1 DEF TokenShape
  <2>4. TokenShape'
    BY <1>1, <2>1 DEF TokenShape, TypeOK
  <2>5. ConsumedHasResult'
    BY <1>1, <2>1, <2>3 DEF ConsumedHasResult
  <2>6. OneCompletionPerLock'
    <3>1. ASSUME NEW q \in Paths, NEW j \in Launches, <<j, q>> \in consumers',
                 ~restored
          PROVE  IF q = path THEN j = critical[path] ELSE <<j, q>> \in consumers
      BY <2>1, <2>3, <3>1
    <3>2. \A k \in done : \E q \in Paths : <<k, q>> \in consumers'
      BY <1>1, <2>1 DEF OneCompletionPerLock
    <3> QED
      BY <1>1, <2>1, <3>1, <3>2 DEF OneCompletionPerLock
  <2> QED
    BY <2>2, <2>4, <2>5, <2>6
<1>7. ASSUME WriteFails(path)
      PROVE  TypeOK' /\ TokenShape' /\ ConsumedHasResult' /\ OneCompletionPerLock'
  <2>1. /\ critical' = [critical EXCEPT ![path] = 0]
        /\ UNCHANGED <<status, pending, restored, consumers>>
    BY <1>7 DEF WriteFails, history
  <2>2. TypeOK'
    BY <1>1, <1>4, <2>1 DEF TypeOK, client
  <2>3. \A q \in Paths : critical'[q] # 0 => critical'[q] = critical[q]
    BY <1>1, <2>1 DEF TypeOK
  <2>4. TokenShape'
    BY <1>1, <2>1, <2>3 DEF TokenShape
  <2> QED
    BY <1>1, <2>1, <2>2, <2>4 DEF ConsumedHasResult, OneCompletionPerLock
<1>8. TypeOK' /\ TokenShape' /\ ConsumedHasResult' /\ OneCompletionPerLock'
  BY <1>5, <1>6, <1>7 DEF HostStep
<1> QED
  BY <1>2, <1>8 DEF IInv

\* A revocation, or another token's operation: each changes the record only,
\* and the second gives up OneCompletionPerLock if the token was spent.
LEMMA RecordKept ==
  ASSUME IInv, Revoke \/ PutBack PROVE IInv'
<1>1. /\ \/ status' = "revoked" /\ restored' = restored
         \/ status' = "active" /\ restored' = (consumers # {})
      /\ UNCHANGED <<pending, critical, result, temps, late, launches, pc, client,
                     history>>
  BY DEF Revoke, PutBack
<1>2. TypeOK'
  BY <1>1 DEF IInv, TypeOK, client, history
<1>3. \A c \in Clients : ClientShape(c)'
  BY <1>1 DEF IInv, ClientShape, client, history
<1>4. \A k \in Launches : SiblingShape(k)'
  BY <1>1 DEF IInv, SiblingShape, client, history
<1>5. TokenShape' /\ OneCompletionPerLock'
  BY <1>1 DEF IInv, TokenShape, OneCompletionPerLock, history
<1> QED
  BY <1>1, <1>2, <1>3, <1>4, <1>5
  DEF IInv, Numbered, ResultIsWhole, ConsumedHasResult, SiblingsAreAccounted,
      client, history

LEMMA StutterKept ==
  ASSUME IInv, UNCHANGED vars PROVE IInv'
<1>1. TypeOK'
  BY DEF IInv, TypeOK, vars, host, authority, registry, client, history
<1>2. \A c \in Clients : ClientShape(c)'
  BY DEF IInv, ClientShape, vars, host, authority, registry, client, history
<1>3. \A k \in Launches : SiblingShape(k)'
  BY DEF IInv, SiblingShape, vars, host, authority, registry, client, history
<1> QED
  BY <1>1, <1>2, <1>3
  DEF IInv, Numbered, TokenShape, ResultIsWhole, ConsumedHasResult,
      OneCompletionPerLock, SiblingsAreAccounted, vars, host, authority, registry,
      client, history

-----------------------------------------------------------------------------
LEMMA InitialInvariant == Init => IInv
<1> SUFFICES ASSUME Init PROVE IInv
  OBVIOUS
<1>1. TypeOK
  <2>1. NoFile \in RemoteFile /\ NoDir \in [FileNames -> SUBSET Events]
        /\ 0 \in 0..MaxLaunches /\ 0 \in 0..Attempts /\ "idle" \in Steps
    BY HandoffConstantsOK DEF RemoteFile, NoDir, Steps
  <2> QED
    BY <2>1 DEF Init, TypeOK
<1>2. \A c \in Clients : ClientShape(c)
  BY DEF Init, ClientShape, BeforeUpload
<1>3. \A k \in Launches : SiblingShape(k)
  BY HandoffConstantsOK DEF Init, SiblingShape, NoFile, Launches
<1> QED
  BY <1>1, <1>2, <1>3
  DEF Init, IInv, Numbered, TokenShape, ResultIsWhole, ConsumedHasResult,
      OneCompletionPerLock, SiblingsAreAccounted

\* IInv holds in every state of the hand-off.
THEOREM Invariant == Spec => []IInv
<1>1. ASSUME IInv, [Next]_vars PROVE IInv'
  BY <1>1, ClientStepKept, LateRenameKept, HostStepKept, RecordKept, StutterKept
  DEF Next, StepOf
<1> QED
  BY <1>1, InitialInvariant, PTL DEF Spec

\* Every variable keeps its type.
THEOREM TypeCorrect == Spec => []TypeOK
<1>1. IInv => TypeOK
  BY DEF IInv
<1> QED
  BY <1>1, Invariant, PTL

\* The event file is whole and holds what its launch recorded.
THEOREM ResultAlwaysWhole == Spec => []ResultIsWhole
<1>1. IInv => ResultIsWhole
  BY DEF IInv
<1> QED
  BY <1>1, Invariant, PTL

\* The UI is given whole requests only.
THEOREM WholeRequests == Spec => []UiReadsWholeRequest
<1>1. IInv => UiReadsWholeRequest
  BY DEF IInv, ClientShape, UiReadsWholeRequest
<1> QED
  BY <1>1, Invariant, PTL

\* The token is spent after the answers have reached the host.
THEOREM SpentAfterResult == Spec => []ConsumedHasResult
<1>1. IInv => ConsumedHasResult
  BY DEF IInv
<1> QED
  BY <1>1, Invariant, PTL

\* At most one launch completes the batch under each of the two locks while
\* nobody puts the spent record back, and whoever is told so did.
THEOREM OneCompletion == Spec => []OneCompletionPerLock
<1>1. IInv => OneCompletionPerLock
  BY DEF IInv
<1> QED
  BY <1>1, Invariant, PTL

\* No launch leaves a sibling behind unless it was killed or its removal
\* failed.
THEOREM NothingLeftBehind == Spec => []SiblingsAreAccounted
<1>1. IInv => SiblingsAreAccounted
  BY DEF IInv
<1> QED
  BY <1>1, Invariant, PTL

-----------------------------------------------------------------------------
(* How much of a session a completed launch returns.                       *)

\* events is the last one that the UI of launch k wrote, and no other: the
\* last of its journal, or the one that its journal refused.
OnlyNewest(events, k) ==
  \E n \in Events :
    /\ events = {n}
    /\ \/ recorded[k] = 1..n /\ refused[k] = {}
       \/ recorded[k] = 1..(n - 1) /\ refused[k] = {n}

HoldsNewest(k) ==
  /\ temps[k] # NoFile => OnlyNewest(temps[k].events, k)
  /\ returned[k] # {} => OnlyNewest(returned[k], k)
  /\ k > launches => returned[k] = {}

SendsNewest(c) ==
  /\ pc[c] \in BeforeUpload => returned[launch[c]] = {}
  /\ pc[c] \in {"upload", "rename"} => OnlyNewest(Source(dir[c]), launch[c])

NewestInv ==
  /\ \A c \in Clients : SendsNewest(c)
  /\ \A k \in Launches : HoldsNewest(k)

\* connect looks for a journal under a name that no UI writes, and so sends
\* the output file, which holds one event.
LEMMA SourceIsNewest ==
  ASSUME NEW n \in 0..MaxEvents, NEW last \in {n, n + 1} \cap Events
  PROVE  \/ last = n /\ {last} \ 1..n = {}
         \/ n = last - 1 /\ {last} \ 1..n = {last}
<1>1. n \in Nat /\ last \in Nat /\ last >= 1
  BY HandoffConstantsOK DEF Events
<1>2. CASE last = n
  BY <1>1, <1>2
<1>3. CASE last = n + 1
  BY <1>1, <1>3
<1> QED
  BY <1>2, <1>3

\* A step of client c leaves what other launches recorded and returned.
LEMMA OtherNewestKept ==
  ASSUME IInv, NewestInv, NEW c \in Clients, StepOf(c)
  PROVE  /\ \A d \in Clients \ {c} : SendsNewest(d)'
         /\ \A k \in Launches : k # launch[c] => HoldsNewest(k)'
<1>1. TypeOK /\ Numbered /\ \A d \in Clients : ClientShape(d)
  BY DEF IInv
<1>2. /\ \A k \in Launches : k # launch[c] => SameLaunch(k)
      /\ launches' \in {launches, launches + 1}
  BY <1>1, HostUntouched DEF ClientShape
<1>3. ASSUME NEW d \in Clients \ {c}
      PROVE  SendsNewest(d)'
  <2>1. SameClient(d)
    BY <1>1, <1>3, OthersUntouched
  <2>2. CASE pc[d] = "idle"
    BY <2>1, <2>2 DEF SameClient, SendsNewest, BeforeUpload
  <2>3. CASE pc[d] # "idle"
    <3>1. launch[d] \in Launches /\ launch[d] # launch[c]
      BY <1>1, <1>3, <2>3, LaunchNumbers DEF ClientShape, Numbered
    <3>2. SameLaunch(launch[d])
      BY <1>2, <3>1
    <3> QED
      BY <2>1, <3>2 DEF NewestInv, SendsNewest, SameClient, SameLaunch, OnlyNewest
  <2> QED
    BY <2>2, <2>3
<1>4. ASSUME NEW k \in Launches, k # launch[c]
      PROVE  HoldsNewest(k)'
  <2>1. SameLaunch(k)
    BY <1>2, <1>4
  <2>2. k > launches' => k > launches
    BY <1>1, <1>2, LaunchNumbers
  <2> QED
    BY <2>1, <2>2 DEF NewestInv, HoldsNewest, SameLaunch, OnlyNewest
<1> QED
  BY <1>3, <1>4

\* k is the launch that the client works for before the step.
LEMMA OwnNewestKept ==
  ASSUME IInv, NewestInv, NEW c \in Clients, StepOf(c), NEW k, k = launch[c]
  PROVE  /\ SendsNewest(c)'
         /\ k \in Launches => HoldsNewest(k)'
<1>1. /\ k = launch[c] /\ TypeOK /\ ClientShape(c)
      /\ \A j \in Launches : SiblingShape(j) /\ HoldsNewest(j)
      /\ SendsNewest(c)
      /\ pc[c] # "idle" => k \in Launches
      /\ launches \in Nat /\ \A j \in Launches : j \in Nat
  <2>1. TypeOK /\ ClientShape(c)
    BY DEF IInv
  <2> QED
    BY <2>1, LaunchNumbers DEF IInv, NewestInv, ClientShape
<1>2. ASSUME Leave(c)
      PROVE  SendsNewest(c)'
  BY <1>1, <1>2 DEF Leave, Goto, SendsNewest, BeforeUpload, TypeOK
<1>3. ASSUME UNCHANGED <<temps, returned, recorded, refused, launches>>, k \in Launches
      PROVE  HoldsNewest(k)'
  BY <1>1, <1>3 DEF HoldsNewest, OnlyNewest
<1>4. CASE Launch(c)
  <2>1. /\ launch'[c] = launches + 1 /\ pc'[c] = "prepare"
        /\ launches + 1 \in Launches /\ launches' = launches + 1
        /\ UNCHANGED <<temps, returned, recorded, refused>>
    BY <1>1, <1>4, HandoffConstantsOK
    DEF Launch, Goto, TypeOK, Launches, host, history
  <2>2. returned[launches + 1] = {}
    BY <1>1, <2>1 DEF HoldsNewest
  <2>3. SendsNewest(c)'
    BY <2>1, <2>2 DEF SendsNewest
  <2>4. k \in Launches => HoldsNewest(k)'
    BY <1>1, <2>1 DEF HoldsNewest, OnlyNewest
  <2> QED
    BY <2>3, <2>4
<1>5. CASE UiReturns(c)
  <2>0. PICK n \in 0..MaxEvents : \E last \in {n, n + 1} \cap Events :
          /\ dir' = [dir EXCEPT ![c] = Written(n, last)]
          /\ recorded' = [recorded EXCEPT ![k] = 1..n]
          /\ refused' = [refused EXCEPT ![k] = {last} \ 1..n]
    BY <1>5 DEF UiReturns
  <2>1. PICK last \in {n, n + 1} \cap Events :
          /\ dir' = [dir EXCEPT ![c] = Written(n, last)]
          /\ recorded' = [recorded EXCEPT ![k] = 1..n]
          /\ refused' = [refused EXCEPT ![k] = {last} \ 1..n]
    BY <2>0
  <2>2. /\ pc[c] = "ui" /\ pc'[c] = "upload"
        /\ dir'[c] = Written(n, last) /\ k \in Launches
        /\ recorded'[k] = 1..n /\ refused'[k] = {last} \ 1..n
        /\ UNCHANGED <<temps, returned, launches, launch>>
    BY <1>1, <1>5, <2>1 DEF UiReturns, StartCommand, Goto, TypeOK, host
  <2>3. temps[k] = NoFile /\ returned[k] = {}
    BY <1>1, <2>2 DEF ClientShape, SendsNewest, BeforeUpload
  <2>a. Source(Written(n, last)) = {last}
    BY WrittenTyped
  <2>b. OnlyNewest({last}, k)'
    BY <2>2, SourceIsNewest DEF OnlyNewest
  <2>4. SendsNewest(c)'
    <3>1. launch'[c] = k
      BY <2>2
    <3> QED
      BY <2>2, <2>a, <2>b, <3>1 DEF SendsNewest, BeforeUpload
  <2>5. HoldsNewest(k)'
    BY <2>2, <2>3 DEF HoldsNewest
  <2> QED
    BY <2>4, <2>5
<1>6. CASE Upload(c) \/ UploadFails(c)
  <2>1. /\ pc[c] = "upload" /\ k \in Launches
        /\ OnlyNewest(Source(dir[c]), k)
        /\ UNCHANGED <<returned, recorded, refused, launches>>
    BY <1>1, <1>6 DEF Upload, UploadFails, SendsNewest, history
  <2>2. temps'[k] = temps[k] \/ temps'[k].events = Source(dir[c])
    BY <1>1, <1>6, <2>1 DEF Upload, UploadFails, Packet, TypeOK
  <2>3. /\ dir' = dir /\ launch' = launch
        /\ pc'[c] \in {"upload", "rename", "cleanup"}
    BY <1>1, <1>6
    DEF Upload, UploadFails, StartCommand, MayRetry, Goto, TypeOK
  <2>4. SendsNewest(c)'
    BY <2>1, <2>3 DEF SendsNewest, OnlyNewest, BeforeUpload
  <2>5. HoldsNewest(k)'
    BY <1>1, <2>1, <2>2 DEF HoldsNewest, OnlyNewest
  <2> QED
    BY <2>4, <2>5
<1>7. CASE Rename(c)
  <2>1. /\ k \in Launches /\ temps[k] # NoFile
        /\ temps'[k] = NoFile /\ returned'[k] = temps[k].events
        /\ pc'[c] = "cleanup"
        /\ UNCHANGED <<recorded, refused, launches>>
    BY <1>1, <1>7 DEF Rename, MoveIntoPlace, EndCommand, Goto, TypeOK
  <2>2. ~(k > launches)
    BY <1>1, <2>1 DEF SiblingShape
  <2> QED
    BY <1>1, <2>1, <2>2 DEF SendsNewest, HoldsNewest, OnlyNewest, BeforeUpload
<1>8. CASE RenameFails(c)
  <2>1. /\ dir' = dir /\ launch' = launch
        /\ pc[c] = "rename" /\ pc'[c] \in {"rename", "cleanup"}
        /\ UNCHANGED <<temps, returned, recorded, refused, launches>>
    BY <1>1, <1>8 DEF RenameFails, MayRetry, Goto, TypeOK, history
  <2> QED
    BY <1>1, <1>3, <2>1 DEF SendsNewest, OnlyNewest, BeforeUpload
<1>9. CASE Cleanup(c) \/ CleanupFails(c)
  <2>1. /\ k \in Launches
        /\ temps'[k] \in {temps[k], NoFile}
        /\ UNCHANGED <<returned, recorded, refused, launches>>
    BY <1>1, <1>9 DEF Cleanup, CleanupFails, TypeOK, host, history
  <2>2. HoldsNewest(k)'
    BY <1>1, <2>1 DEF HoldsNewest, OnlyNewest
  <2>3. SendsNewest(c)'
    <3>1. CASE sent[c] /\ Goto(c, "consume")
      BY <1>1, <3>1 DEF Goto, SendsNewest, BeforeUpload, TypeOK
    <3> QED
      BY <1>2, <1>9, <3>1 DEF Cleanup, CleanupFails, AfterCleanup
  <2> QED
    BY <2>2, <2>3
<1>10. CASE Prepare(c) \/ FetchRequest(c) \/ FetchFails(c)
  <2>1. UNCHANGED <<temps, returned, recorded, refused, launches>>
    BY <1>10 DEF Prepare, FetchRequest, FetchFails, host, history
  <2>2. \/ Leave(c)
        \/ /\ launch' = launch
           /\ pc[c] \in BeforeUpload /\ pc'[c] \in BeforeUpload
    BY <1>1, <1>10
    DEF Prepare, FetchRequest, FetchFails, StartCommand, EndCommand, MayRetry,
        Goto, BeforeUpload, TypeOK
  <2>3. SendsNewest(c)'
    BY <1>1, <1>2, <2>1, <2>2 DEF SendsNewest, BeforeUpload
  <2> QED
    BY <1>3, <2>1, <2>3
<1>11. CASE \/ PrepareFails(c) \/ UiFails(c) \/ FinalizeFails(c) \/ Kill(c)
  <2>1. Leave(c) /\ UNCHANGED <<temps, returned, recorded, refused, launches>>
    BY <1>11 DEF PrepareFails, UiFails, FinalizeFails, Kill, host, history
  <2> QED
    BY <1>2, <1>3, <2>1
<1>12. CASE Answered(c) \/ ConsumeFails(c)
  <2>1. UNCHANGED <<temps, returned, recorded, refused, launches>>
    BY <1>12 DEF Answered, ConsumeFails, host, history
  <2>2. Leave(c) \/ Goto(c, "finalize")
    BY <1>12 DEF Answered, ConsumeFails
  <2>3. SendsNewest(c)'
    BY <1>1, <1>2, <2>2 DEF Goto, SendsNewest, BeforeUpload, TypeOK
  <2> QED
    BY <1>3, <2>1, <2>3
<1> QED
  BY <1>4, <1>5, <1>6, <1>7, <1>8, <1>9, <1>10, <1>11, <1>12
  DEF StepOf, ConnectStep, LauncherStep

LEMMA NewestKept ==
  ASSUME IInv, NewestInv, [Next]_vars PROVE NewestInv'
<1>1. ASSUME NEW c \in Clients, StepOf(c)
      PROVE  NewestInv'
  <2>1. PICK k : k = launch[c]
    OBVIOUS
  <2>2. SendsNewest(c)' /\ (k \in Launches => HoldsNewest(k)')
    BY <1>1, <2>1, OwnNewestKept
  <2>3. /\ \A d \in Clients \ {c} : SendsNewest(d)'
        /\ \A j \in Launches : j # k => HoldsNewest(j)'
    BY <1>1, <2>1, OtherNewestKept
  <2> QED
    BY <2>2, <2>3 DEF NewestInv
<1>2. ASSUME NEW k \in Launches, LateRename(k)
      PROVE  NewestInv'
  <2>1. /\ TypeOK /\ temps[k] # NoFile /\ k \in late
        /\ temps' = [temps EXCEPT ![k] = NoFile]
        /\ returned' = [returned EXCEPT ![k] = temps[k].events]
        /\ UNCHANGED <<pc, launch, dir, recorded, refused, launches>>
    BY <1>2 DEF IInv, LateRename, MoveIntoPlace, client
  <2>2. ~(k > launches)
    BY <2>1 DEF IInv, SiblingShape
  <2>3. ASSUME NEW j \in Launches
        PROVE  HoldsNewest(j)'
    <3>1. CASE j = k
      BY <2>1, <2>2, <3>1 DEF NewestInv, HoldsNewest, OnlyNewest, TypeOK
    <3>2. CASE j # k
      <4>1. temps'[j] = temps[j] /\ returned'[j] = returned[j]
        BY <2>1, <3>2 DEF TypeOK
      <4> QED
        BY <2>1, <4>1 DEF NewestInv, HoldsNewest, OnlyNewest
    <3> QED
      BY <3>1, <3>2
  <2>4. ASSUME NEW c \in Clients
        PROVE  SendsNewest(c)'
    <3>1. pc[c] \in BeforeUpload => launch[c] # k
      BY <2>1 DEF IInv, ClientShape
    <3>2. pc[c] \in BeforeUpload => returned'[launch[c]] = returned[launch[c]]
      <4>1. pc[c] \in BeforeUpload => launch[c] \in Launches
        BY <2>1, LaunchNumbers DEF IInv, ClientShape, BeforeUpload
      <4> QED
        BY <2>1, <3>1, <4>1 DEF TypeOK
    <3> QED
      BY <2>1, <3>2 DEF NewestInv, SendsNewest, OnlyNewest
  <2> QED
    BY <2>3, <2>4 DEF NewestInv
<1>3. CASE \/ Revoke \/ PutBack \/ (\E path \in Paths : HostStep(path))
           \/ UNCHANGED vars
  <2>1. UNCHANGED <<pc, launch, dir, temps, returned, recorded, refused, launches>>
    BY <1>3
    DEF Revoke, PutBack, HostStep, Read, Write, WriteFails, vars, host, client, history
  <2> QED
    BY <2>1 DEF NewestInv, HoldsNewest, SendsNewest, OnlyNewest
<1> QED
  BY <1>1, <1>2, <1>3 DEF Next, StepOf

\* A launch that completed has returned exactly one event, the last that its
\* UI wrote: what the run handoff_journal shows of one session is so in every
\* one.
THEOREM LastEventReturned ==
  Spec => [](\A k \in done : OnlyNewest(returned[k], k))
<1>1. Init => NewestInv
  BY DEF Init, NewestInv, SendsNewest, HoldsNewest, BeforeUpload
<1>2. Spec => []NewestInv
  BY <1>1, NewestKept, Invariant, PTL DEF Spec
<1>3. IInv /\ NewestInv => \A k \in done : OnlyNewest(returned[k], k)
  <2> SUFFICES ASSUME IInv, NewestInv, NEW k \in done
               PROVE  OnlyNewest(returned[k], k)
    OBVIOUS
  <2>1. k \in Launches /\ \E path \in Paths : <<k, path>> \in consumers
    BY DEF IInv, TypeOK, OneCompletionPerLock
  <2>2. returned[k] # {}
    BY <2>1 DEF IInv, ConsumedHasResult
  <2> QED
    BY <2>1, <2>2 DEF NewestInv, HoldsNewest
<1> QED
  BY <1>2, <1>3, Invariant, PTL

\* The docstring of TokenStore.consume has its callers return "the complete
\* event journal".  This launcher does so exactly when the sessions that
\* completed wrote a single event, and their journal took it.
THEOREM CompleteIfSingle ==
  Spec => [](CompletedReturnsJournal <=>
               \A k \in done : recorded[k] = {1} /\ refused[k] = {})
<1>1. ASSUME \A k \in done : OnlyNewest(returned[k], k)
      PROVE  CompletedReturnsJournal <=>
               \A k \in done : recorded[k] = {1} /\ refused[k] = {}
  <2>1. ASSUME NEW k \in done
        PROVE  returned[k] = recorded[k] <=> recorded[k] = {1} /\ refused[k] = {}
    <3>1. PICK n \in Events :
            /\ returned[k] = {n}
            /\ \/ recorded[k] = 1..n /\ refused[k] = {}
               \/ recorded[k] = 1..(n - 1) /\ refused[k] = {n}
      BY <1>1, <2>1 DEF OnlyNewest
    <3>2. n \in Nat /\ n >= 1 /\ 1 \in 1..n /\ n \in 1..n /\ n \notin 1..(n - 1)
      BY HandoffConstantsOK DEF Events
    <3>3. 1..n = {n} => n = 1
      BY <3>2
    <3>4. 1..n = {1} => n = 1
      BY <3>2
    <3>5. n = 1 => 1..n = {1}
      BY <3>2
    <3>6. CASE recorded[k] = 1..n /\ refused[k] = {}
      BY <3>1, <3>3, <3>4, <3>5, <3>6
    <3>7. CASE recorded[k] = 1..(n - 1) /\ refused[k] = {n}
      BY <3>1, <3>2, <3>7
    <3> QED
      BY <3>1, <3>6, <3>7
  <2> QED
    BY <2>1 DEF CompletedReturnsJournal
<1> QED
  BY <1>1, LastEventReturned, PTL

=============================================================================
