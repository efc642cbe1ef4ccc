--------------------------- MODULE AndroidRegistry ---------------------------
(***************************************************************************)
(* The device registry of the Android service (AndroidDeviceRegistry of    *)
(* awtui/android_service.py), as the HTTPS service runs it                 *)
(* (awtui/android_server.py), with the tunnel it opens to an SSH           *)
(* rendezvous host and the authorized_keys file there                      *)
(* (awtui/android_ssh.py), and the pairing tools that open the same state  *)
(* file (awtui/android_pair.py, awtui/android_register.py).                *)
(*                                                                         *)
(* The service reads its state file once, when it starts, and works on the *)
(* state in memory.  A method runs under one lock: it checks, changes the  *)
(* memory, replaces the file, and answers.  The file write may raise, in   *)
(* which case the memory stays ahead of the file and nobody is answered;   *)
(* the service may stop at any time; an answer may be lost.  A request can *)
(* arrive at any time, more than once, or never: the phone repeats what    *)
(* was not answered, and the actions put no order on requests.             *)
(*                                                                         *)
(* The rendezvous half is that of the class, whose installer is given to   *)
(* it and may raise; as shipped, android_server gives it one that raises   *)
(* on every call and keeps the two challenge endpoints shut.               *)
(*                                                                         *)
(* Abstracted: keys and proofs (a request carries those its phone has),    *)
(* expiry (a refused request changes nothing); a batch stands for its      *)
(* session, revision and packet digest, and an answer is told from another *)
(* answer by the batch it names.                                           *)
(***************************************************************************)
EXTENDS Naturals, Sequences, SequencesExt

CONSTANTS
  Bootstraps,    \* one-time registrations the tools can draw
  Devices,       \* device ids a redemption can draw
  SshDevices,    \* those enrolled for the SSH rendezvous
  Streams,       \* (device, session) pairs with a numbering of their own
  DeviceOf,      \* DeviceOf[s]: the device of stream s
  Batches,       \* decision batches the Coordinator can publish
  None,          \* no batch, no answer
  Overlap,       \* the tools also run while the service is up
  MaxSeq,        \* bound on the sequence numbers of a stream
  MaxChallenges, \* bound on the challenges of a device
  MaxFaults      \* bound on state writes that raise

ASSUME AndroidConstantsOK ==
  /\ SshDevices \subseteq Devices
  /\ DeviceOf \in [Streams -> Devices]
  /\ None \notin Batches
  /\ Overlap \in BOOLEAN
  /\ MaxSeq \in Nat
  /\ MaxChallenges \in Nat
  /\ MaxFaults \in Nat

VARIABLES
  disk,        \* the state file
  mem,         \* the state of the running service
  up,          \* the service answers requests
  starting,    \* it is being started with an SSH rendezvous
  ssh,         \* it was started with an SSH rendezvous
  tunnel,      \* its reverse tunnel; "lost": ended, and nobody has noticed;
               \* "ownerless": of a service that was killed
  tool,        \* the state a pairing tool has read
  pairing,     \* a pairing tool is between its load and its save
  overwrote,   \* a tool saved over changes made since its load
  keys,        \* devices with a line in authorized_keys
  drawn,       \* device ids drawn so far
  challenged,  \* challenged[d]: challenges drawn for device d so far
  printed,     \* bootstraps on a printed QR code
  viaSsh,      \* those whose QR code names the SSH rendezvous
  registered,  \* the bootstraps a phone was told it redeemed, with its id
  released,    \* challenges answered with a credential
  served,      \* the batches a phone was given
  acked,       \* answers the phone knows to be accepted
  gone,        \* devices whose revocation returned to its caller
  strayed,     \* devices whose key a failure or a missing installer left
  faults       \* state writes that raised so far

service == <<up, starting, ssh, tunnel>>
tools == <<tool, pairing, overwrote>>
process == <<service, tools>>
issued == <<drawn, challenged, printed, viaSsh>>
told == <<registered, released, served, acked, gone>>
vars == <<disk, mem, process, keys, issued, told, strayed, faults>>

Seqs == 1..MaxSeq
Challenges == 1..MaxChallenges

Answer == [stream : Streams, seq : Seqs, batch : Batches]
State ==
  [boot : [Bootstraps -> {"unknown", "open", "redeemed"}],
   device : [Devices -> {"unknown", "active", "revoked"}],
   open : [Devices -> SUBSET Challenges],
   last : [Streams -> 0..MaxSeq],
   seen : [Streams -> [Seqs -> Batches \cup {None}]],
   events : Seq(Answer),
   batch : Batches \cup {None},
   rendezvous : BOOLEAN]

NewState ==
  [boot |-> [b \in Bootstraps |-> "unknown"],
   device |-> [d \in Devices |-> "unknown"],
   open |-> [d \in Devices |-> {}],
   last |-> [s \in Streams |-> 0],
   seen |-> [s \in Streams |-> [n \in Seqs |-> None]],
   events |-> <<>>,
   batch |-> None,
   rendezvous |-> FALSE]

TypeOK ==
  /\ disk \in State /\ mem \in State /\ tool \in State
  /\ up \in BOOLEAN /\ starting \in BOOLEAN /\ ssh \in BOOLEAN
  /\ tunnel \in {"none", "opening", "open", "lost", "ownerless"}
  /\ pairing \in BOOLEAN /\ overwrote \in BOOLEAN
  /\ keys \subseteq SshDevices
  /\ drawn \subseteq Devices
  /\ challenged \in [Devices -> 0..MaxChallenges]
  /\ printed \subseteq Bootstraps
  /\ viaSsh \subseteq printed
  /\ registered \subseteq Bootstraps \X Devices
  /\ released \subseteq Devices \X Challenges
  /\ served \subseteq Devices \X Batches
  /\ acked \subseteq Answer
  /\ gone \subseteq Devices
  /\ strayed \subseteq Devices
  /\ faults \in 0..MaxFaults

\* No service and no tool runs: what they would hold is not there.
Init ==
  /\ disk = NewState /\ mem = NewState /\ tool = NewState
  /\ up = FALSE /\ starting = FALSE /\ ssh = FALSE /\ tunnel = "none"
  /\ pairing = FALSE /\ overwrote = FALSE
  /\ keys = {}
  /\ drawn = {} /\ challenged = [d \in Devices |-> 0] /\ printed = {}
  /\ viaSsh = {}
  /\ registered = {} /\ released = {} /\ served = {}
  /\ acked = {} /\ gone = {}
  /\ strayed = {}
  /\ faults = 0

-----------------------------------------------------------------------------
\* _save, called with the new state in memory.

Saved(state) ==
  /\ mem' = state
  /\ disk' = state
  /\ UNCHANGED faults

SaveRaises(state) ==
  /\ faults < MaxFaults
  /\ faults' = faults + 1
  /\ mem' = state
  /\ UNCHANGED disk

\* Mutant: the answer is given whether the save raised or not.
SaveAndAnswer_Unsaved(state, answered, unanswered) ==
  (Saved(state) \/ SaveRaises(state)) /\ (answered \/ unanswered)

\* The method saves and then answers: the answer arrives, or is lost on the
\* way, or is never given because the save raised.
SaveAndAnswer(state, answered, unanswered) ==
  \/ Saved(state) /\ answered
  \/ (Saved(state) \/ SaveRaises(state)) /\ unanswered

-----------------------------------------------------------------------------
\* The service process.

Running == up \/ starting

\* A service that is up is reused.
Loads ==
  /\ ~Running
  /\ Overlap \/ ~pairing
  /\ mem' = disk
  /\ UNCHANGED <<disk, ssh, tunnel, tools, keys, issued, told, strayed, faults>>

Start == Loads /\ up' = TRUE /\ UNCHANGED starting

\* With --ssh-host the tunnel comes first, on a port the rendezvous host picks.
StartWithRendezvous == Loads /\ starting' = TRUE /\ UNCHANGED up

\* One that a killed service left is not looked for, and goes on beside it;
\* the model follows it no further.
OpenTunnel ==
  /\ starting
  /\ tunnel \in {"none", "ownerless"}
  /\ tunnel' = "opening"
  /\ UNCHANGED <<disk, mem, up, starting, ssh, tools, keys, issued, told,
                 strayed, faults>>

TunnelAllocated ==
  /\ tunnel = "opening"
  /\ tunnel' = "open"
  /\ UNCHANGED <<disk, mem, up, starting, ssh, tools, keys, issued, told,
                 strayed, faults>>

\* ssh ends by itself; nothing watches it once the port is known.
TunnelDrops ==
  /\ \/ tunnel = "open" /\ tunnel' = "lost"
     \/ tunnel = "ownerless" /\ tunnel' = "none"
  /\ UNCHANGED <<disk, mem, up, starting, ssh, tools, keys, issued, told,
                 strayed, faults>>

\* The rendezvous and the installer are stored before a request is served.
Configure ==
  /\ starting
  /\ tunnel \in {"open", "lost"}
  /\ Saved([mem EXCEPT !.rendezvous = TRUE])
  /\ up' = TRUE
  /\ starting' = FALSE
  /\ ssh' = TRUE
  /\ UNCHANGED <<tunnel, tools, keys, issued, told, strayed>>

\* The finally block ends the ssh process of this run.
CloseTunnel == tunnel' = IF tunnel = "ownerless" THEN tunnel ELSE "none"

\* Mutant: the tunnel is closed by a service that was up only.
StartFails_TunnelKept ==
  /\ starting
  /\ starting' = FALSE
  /\ mem' = NewState
  /\ UNCHANGED <<disk, up, ssh, tunnel, tools, keys, issued, told, strayed,
                 faults>>

\* No port in time, an alias without a trusted host key, a save that raises:
\* the tunnel is closed and the service exits.
StartFails ==
  /\ starting
  /\ starting' = FALSE
  /\ CloseTunnel
  /\ mem' = NewState
  /\ UNCHANGED <<disk, up, ssh, tools, keys, issued, told, strayed, faults>>

Ends ==
  /\ Running
  /\ up' = FALSE
  /\ starting' = FALSE
  /\ mem' = NewState
  /\ ssh' = FALSE
  /\ UNCHANGED <<disk, tools, keys, issued, told, strayed, faults>>

\* Interrupted, or ended by an exception.
Stop == Ends /\ CloseTunnel

\* Killed or terminated, for which it has no handler: the memory is gone, and
\* its ssh process, if it has one, goes on without it.
Kill ==
  /\ Ends
  /\ tunnel' = IF tunnel \in {"opening", "open", "ownerless"} THEN "ownerless"
               ELSE "none"

-----------------------------------------------------------------------------
\* The pairing tools: AndroidDeviceRegistry(state) and create_bootstrap.

ToolLoads ==
  /\ ~pairing
  /\ Overlap \/ ~Running
  /\ pairing' = TRUE
  /\ tool' = disk
  /\ UNCHANGED <<disk, mem, service, overwrote, keys, issued, told, strayed, faults>>

\* What was saved since the tool's load is lost with the tool's own save.
Overwrites == overwrote' = (overwrote \/ tool # disk)

\* The QR code names the rendezvous that a service has stored, at any time.
QrNamesRendezvous(state) == state.rendezvous

CreateBootstrap(b) ==
  /\ pairing
  /\ b \notin printed
  /\ disk' = [tool EXCEPT !.boot[b] = "open"]
  /\ printed' = printed \cup {b}
  /\ viaSsh' = IF QrNamesRendezvous(tool) THEN viaSsh \cup {b} ELSE viaSsh
  /\ pairing' = FALSE
  /\ tool' = NewState
  /\ Overwrites
  /\ UNCHANGED <<mem, service, keys, drawn, challenged, told, strayed, faults>>

\* The tool refuses its arguments, cannot write, or dies.
ToolFails ==
  /\ pairing
  /\ pairing' = FALSE
  /\ tool' = NewState
  /\ UNCHANGED <<disk, mem, service, overwrote, keys, issued, told, strayed,
                 faults>>

-----------------------------------------------------------------------------
\* The helper that runs on the rendezvous host, and redeem.

InstallKey(d) == keys' = keys \cup {d}
RemoveKey(d) == keys' = keys \ {d}

Enrolled(b, d) ==
  [mem EXCEPT !.boot[b] = "redeemed", !.device[d] = "active"]

\* The phone presents the QR code with its key: it enrolls for SSH if the QR
\* code names a rendezvous.
Presented(b, d) == d \in SshDevices <=> b \in viaSsh

CanRedeem(b, d) ==
  /\ up
  /\ Presented(b, d)
  /\ mem.boot[b] = "open"
  /\ d \notin drawn

\* A QR code without a rendezvous: the credential is in the answer.
Redeem(b, d) ==
  /\ CanRedeem(b, d)
  /\ d \notin SshDevices
  /\ drawn' = drawn \cup {d}
  /\ SaveAndAnswer(Enrolled(b, d),
                   registered' = registered \cup {<<b, d>>},
                   UNCHANGED registered)
  /\ UNCHANGED <<process, keys, challenged, printed, viaSsh,
                 released, served, acked, gone, strayed>>

\* Mutant: the key is left to be installed once the phone asks for it.
RedeemSsh_NoKey(b, d) ==
  /\ CanRedeem(b, d)
  /\ d \in SshDevices
  /\ ssh
  /\ drawn' = drawn \cup {d}
  /\ SaveAndAnswer(Enrolled(b, d),
                   registered' = registered \cup {<<b, d>>},
                   UNCHANGED registered)
  /\ UNCHANGED <<process, keys, challenged, printed, viaSsh, released, served,
                 acked, gone, strayed>>

\* A QR code with one: the phone's key is installed on the rendezvous host
\* before the redemption is recorded.
RedeemSsh(b, d) ==
  /\ CanRedeem(b, d)
  /\ d \in SshDevices
  /\ ssh
  /\ drawn' = drawn \cup {d}
  /\ InstallKey(d)
  /\ \/ /\ Saved(Enrolled(b, d))
        /\ registered' \in {registered, registered \cup {<<b, d>>}}
        /\ UNCHANGED strayed
     \/ /\ SaveRaises(Enrolled(b, d))
        /\ strayed' = strayed \cup {d}
        /\ UNCHANGED registered
  /\ UNCHANGED <<process, challenged, printed, viaSsh, released, served, acked,
                 gone>>

\* The installer raises, or the service dies in it; the remote helper may
\* have written the line.  Nothing is recorded.
InstallFails(b, d) ==
  /\ CanRedeem(b, d)
  /\ d \in SshDevices
  /\ ssh
  /\ drawn' = drawn \cup {d}
  /\ InstallKey(d) \/ UNCHANGED keys
  /\ strayed' = strayed \cup {d}
  /\ UNCHANGED <<disk, mem, process, challenged, printed, viaSsh, told, faults>>

-----------------------------------------------------------------------------
\* create_ssh_challenge and release_ssh_credential

ActiveSsh(d) == up /\ d \in SshDevices /\ mem.device[d] = "active"

\* The phone has been told its id.
Knows(d) == \E b \in Bootstraps : <<b, d>> \in registered

\* The challenge is a nonce, drawn for this request only.
CreateSshChallenge(d) ==
  /\ ActiveSsh(d)
  /\ Knows(d)
  /\ challenged[d] < MaxChallenges
  /\ challenged' = [challenged EXCEPT ![d] = @ + 1]
  /\ LET state == [mem EXCEPT !.open[d] = @ \cup {challenged'[d]}]
     IN  Saved(state) \/ SaveRaises(state)
  /\ UNCHANGED <<process, keys, drawn, printed, viaSsh, told, strayed>>

ReleaseSshCredential(d, n) ==
  /\ ActiveSsh(d)
  /\ n \in mem.open[d]
  /\ SaveAndAnswer([mem EXCEPT !.open[d] = @ \ {n}],
                   released' = released \cup {<<d, n>>}, UNCHANGED released)
  /\ UNCHANGED <<process, keys, issued, registered, served, acked, gone,
                 strayed>>

\* The phone holds its credential: from the registration, or from a challenge.
HasCredential(d) ==
  IF d \in SshDevices THEN \E n \in Challenges : <<d, n>> \in released
  ELSE Knows(d)

-----------------------------------------------------------------------------
\* Mutant: the revocation is not stored.
Revoke_NotStored(d) ==
  /\ up
  /\ mem.device[d] # "unknown"
  /\ mem' = [mem EXCEPT !.device[d] = "revoked"]
  /\ IF d \in SshDevices /\ ssh
     THEN /\ keys' = keys \ {d}
          /\ UNCHANGED strayed
     ELSE /\ strayed' = strayed \cup (keys \cap {d})
          /\ UNCHANGED keys
  /\ gone' = gone \cup {d}
  /\ UNCHANGED <<disk, faults, process, issued, registered, released, served,
                 acked>>

\* Mutant: the key stays on the rendezvous host.
Revoke_KeyKept(d) ==
  /\ up
  /\ mem.device[d] # "unknown"
  /\ Saved([mem EXCEPT !.device[d] = "revoked"])
  /\ gone' = gone \cup {d}
  /\ UNCHANGED <<process, keys, strayed, issued, registered, released, served,
                 acked>>

\* revoke: recorded first, then the key is removed, if this run of the
\* service has an installer.
Revoke(d) ==
  /\ up
  /\ mem.device[d] # "unknown"
  /\ Saved([mem EXCEPT !.device[d] = "revoked"])
  /\ IF d \in SshDevices /\ ssh
     THEN /\ RemoveKey(d)
          /\ UNCHANGED strayed
     ELSE /\ strayed' = strayed \cup (keys \cap {d})
          /\ UNCHANGED keys
  /\ gone' = gone \cup {d}
  /\ UNCHANGED <<process, issued, registered, released, served, acked>>

\* The save raises, or it succeeds and the installer raises, before or after
\* the line is removed; a second revocation finds no line and raises, too.
RevokeFails(d) ==
  /\ up
  /\ mem.device[d] # "unknown"
  /\ LET state == [mem EXCEPT !.device[d] = "revoked"]
     IN  \/ /\ SaveRaises(state)
            /\ strayed' = strayed \cup (keys \cap {d})
            /\ UNCHANGED keys
         \/ /\ Saved(state)
            /\ d \in SshDevices /\ ssh
            /\ RemoveKey(d) \/ UNCHANGED keys
            /\ strayed' = strayed \cup {d}
  /\ UNCHANGED <<process, issued, told>>

-----------------------------------------------------------------------------
\* publish_batch and get_batch

PublishBatch(b) ==
  /\ up
  /\ LET state == [mem EXCEPT !.batch = b]
     IN  Saved(state) \/ SaveRaises(state)
  /\ UNCHANGED <<process, keys, issued, told, strayed>>

\* Reading the batch stores the time the device was seen, and with it all
\* that an earlier save failed to store.
GetBatch(d) ==
  /\ up
  /\ mem.device[d] = "active"
  /\ HasCredential(d)
  /\ SaveAndAnswer(mem, served' = served \cup ({<<d, mem.batch>>} \ {<<d, None>>}),
                   UNCHANGED served)
  /\ UNCHANGED <<process, keys, issued, registered, released, acked, gone,
                 strayed>>

-----------------------------------------------------------------------------
\* route_event: message m of a phone, new or repeated.

\* Mutant: the session's next number is stored as its last.
Accepted_Next(m) ==
  [mem EXCEPT !.last[m.stream] = m.seq + 1,
              !.seen[m.stream][m.seq] = m.batch,
              !.events = Append(@, m)]

Accepted(m) ==
  [mem EXCEPT !.last[m.stream] = m.seq,
              !.seen[m.stream][m.seq] = m.batch,
              !.events = Append(@, m)]

\* The client answers a batch it was given, with its credential; what is not
\* answered it may send again.
Submits(m) ==
  LET d == DeviceOf[m.stream]
  IN  HasCredential(d) /\ <<d, m.batch>> \in served

FromActiveDevice(m) ==
  /\ up
  /\ mem.device[DeviceOf[m.stream]] = "active"
  /\ Submits(m)

\* Mutant: only an exact repetition is recognized.
RouteEvent_AnyOrder(m) ==
  /\ FromActiveDevice(m)
  /\ mem.seen[m.stream][m.seq] = None
  /\ SaveAndAnswer(Accepted(m), acked' = acked \cup {m}, UNCHANGED acked)
  /\ UNCHANGED <<process, keys, issued, registered, released, served, gone,
                 strayed>>

\* Nothing compares the batch the message names with the published one.
RouteEvent(m) ==
  /\ FromActiveDevice(m)
  /\ mem.seen[m.stream][m.seq] = None
  /\ m.seq > mem.last[m.stream]
  /\ SaveAndAnswer(Accepted(m), acked' = acked \cup {m}, UNCHANGED acked)
  /\ UNCHANGED <<process, keys, issued, registered, released, served, gone,
                 strayed>>

\* The same message again: acknowledged, after a save.
RepeatEvent(m) ==
  /\ FromActiveDevice(m)
  /\ mem.seen[m.stream][m.seq] = m.batch
  /\ SaveAndAnswer(mem, acked' = acked \cup {m}, UNCHANGED acked)
  /\ UNCHANGED <<process, keys, issued, registered, released, served, gone,
                 strayed>>

-----------------------------------------------------------------------------
Next ==
  \/ Start
  \/ StartWithRendezvous
  \/ OpenTunnel
  \/ TunnelAllocated
  \/ TunnelDrops
  \/ Configure
  \/ StartFails
  \/ Stop
  \/ Kill
  \/ ToolLoads
  \/ \E b \in Bootstraps : CreateBootstrap(b)
  \/ ToolFails
  \/ \E b \in Bootstraps, d \in Devices :
       Redeem(b, d) \/ RedeemSsh(b, d) \/ InstallFails(b, d)
  \/ \E d \in Devices :
       \/ CreateSshChallenge(d)
       \/ \E n \in Challenges : ReleaseSshCredential(d, n)
       \/ Revoke(d)
       \/ RevokeFails(d)
       \/ GetBatch(d)
  \/ \E b \in Batches : PublishBatch(b)
  \/ \E m \in Answer : RouteEvent(m) \/ RepeatEvent(m)

Spec == Init /\ [][Next]_vars

-----------------------------------------------------------------------------
\* As long as no tool has saved over what the service had stored:

\* What was answered once is spent, in memory and in the file that the next
\* start reads: a QR code that registered a phone and a challenge that
\* released a credential cannot do so again, whatever save failed or answer
\* was lost, and no QR code registers two phones (docs/ANDROID_SERVICE.md:
\* "Bootstrap redemption is atomic and one-time").
OneTimeIsSpent ==
  ~overwrote =>
    /\ \A r \in registered :
         /\ disk.boot[r[1]] = "redeemed"
         /\ up => mem.boot[r[1]] = "redeemed"
         /\ \A s \in registered : r[1] = s[1] => r = s
    /\ \A r \in released :
         /\ r[2] \notin disk.open[r[1]]
         /\ up => r[2] \notin mem.open[r[1]]

\* A device stays revoked over every later save and restart, once its
\* revocation has returned (android_service.py: "without losing revocation
\* and sequence state").
RevocationIsFinal ==
  ~overwrote =>
    \A d \in gone :
      /\ disk.device[d] = "revoked"
      /\ up => mem.device[d] = "revoked"
      /\ d \notin keys \/ d \in strayed

\* The rendezvous host knows the key of every SSH device that the file calls
\* active: a registration that was stored is one the phone can use.
EnrolledHasKey ==
  ~overwrote =>
    \A d \in SshDevices : disk.device[d] = "active" => d \in keys

\* A key that no active device owns was left by a save or an installer that
\* failed, or by a revocation without an installer.
KeysAreAccounted ==
  ~overwrote =>
    \A d \in keys : disk.device[d] = "active" \/ d \in strayed

\* The file is the log of answers the phones were promised.
Log == INSTANCE AnswerLog WITH log <- disk.events

\* Over lost answers, repeated messages, failed saves, kills and restarts, the
\* file only ever gains answers, in the order of their numbers, and holds each
\* answer that was acknowledged.
ImplementsAnswerLog ==
  Log!Init /\ [][~overwrote' => Log!Next]_<<disk.events, acked>>

\* And whatever the tools do:

\* No failure between the start of ssh and the first request, and no orderly
\* end of the service, leaves an ssh process into the service's host: one
\* that no service owns is that of a service that was killed.
TunnelHasService == tunnel \in {"opening", "open"} => Running

\* The running service can redeem every QR code the tools have printed
\* (docs/ANDROID_SERVICE.md: awui-android-pair starts or reuses the service
\* "and then creates the one-time QR").
PrintedQrIsKnown == up => \A b \in printed : mem.boot[b] # "unknown"

=============================================================================
