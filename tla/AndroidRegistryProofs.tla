------------------------ MODULE AndroidRegistryProofs ------------------------
(***************************************************************************)
(* Machine-checked proofs about AndroidRegistry, for any bootstraps,       *)
(* devices, sessions and batches and any number of failed writes, whether  *)
(* or not the pairing tools run beside the service.                        *)
(*                                                                         *)
(* The memory runs ahead of the file when a write fails, and the file is   *)
(* what the next start goes on from.  So the inductive invariant IInv says *)
(* one thing of both: a state Fits what was printed, drawn, answered and   *)
(* installed so far.  It also says that the log in the file is a prefix of *)
(* the one in memory.  It says this until a tool saves over what the       *)
(* service stored since the tool read the file (overwrote); the rest of    *)
(* it, types and tunnels, holds beyond that.                               *)
(***************************************************************************)
EXTENDS AndroidRegistry, SequenceTheorems, TLAPS

\* The identifiers in a state were drawn.
Drawn(m) ==
  /\ \A b \in Bootstraps : m.boot[b] # "unknown" => b \in printed
  /\ \A d \in Devices : m.device[d] # "unknown" => d \in drawn
  /\ \A d \in Devices : \A n \in m.open[d] : n <= challenged[d]

\* It gives nothing a second time that was given once.
Spent(m) ==
  /\ \A r \in registered : m.boot[r[1]] = "redeemed"
  /\ \A r \in released : r[2] \notin m.open[r[1]]
  /\ \A d \in gone : m.device[d] = "revoked"

\* Its active devices have their keys, and the keys have active devices.
Keyed(m) ==
  /\ \A d \in SshDevices : m.device[d] = "active" => d \in keys
  /\ \A d \in keys : m.device[d] = "active" \/ d \in strayed

\* Its log is in order and complete.
Logged(m) ==
  /\ Log!InOrder(m.events)
  /\ \A i \in DOMAIN m.events : m.events[i].seq <= m.last[m.events[i].stream]
  /\ \A a \in Answer :
       m.seen[a.stream][a.seq] = a.batch => a \in ToSet(m.events)
  /\ acked \subseteq ToSet(m.events)

Fits(m) == Drawn(m) /\ Spent(m) /\ Keyed(m) /\ Logged(m)

\* No bootstrap has registered two devices, no challenge is yet to be drawn
\* that has released a credential, and no key of a revoked device is unmarked.
Once ==
  /\ \A r, s \in registered : r[1] = s[1] => r = s
  /\ \A r \in released : r[2] <= challenged[r[1]]
  /\ \A d \in gone : d \in drawn /\ (d \notin keys \/ d \in strayed)

Kept ==
  /\ Fits(disk)
  /\ Running => Fits(mem) /\ IsPrefix(disk.events, mem.events)
  /\ Once

Basics == TypeOK /\ ~(up /\ starting) /\ TunnelHasService

Live == Basics /\ Kept

IInv == Basics /\ (~overwrote => Kept)

-----------------------------------------------------------------------------
\* Sequences.

LEMMA PrefixIs ==
  ASSUME NEW S, NEW s \in Seq(S), NEW t \in Seq(S)
  PROVE  IsPrefix(s, t) <=>
           Len(s) <= Len(t) /\ \A i \in 1..Len(s) : s[i] = t[i]
<1>1. Len(s) \in Nat /\ Len(t) \in Nat
  OBVIOUS
<1>2. SubSeq(s, 1, Len(s)) = s
  OBVIOUS
<1>3. ASSUME Len(s) <= Len(t)
      PROVE  /\ SubSeq(t, 1, Len(s)) \in Seq(S)
             /\ Len(SubSeq(t, 1, Len(s))) = Len(s)
             /\ \A i \in 1..Len(s) : SubSeq(t, 1, Len(s))[i] = t[i]
  BY <1>1, <1>3
<1>4. ASSUME Len(s) <= Len(t)
      PROVE  s = SubSeq(t, 1, Len(s)) <=> \A i \in 1..Len(s) : s[i] = t[i]
  BY <1>1, <1>3, <1>4, SeqEqual
<1>5. IsPrefix(s, t) <=> Len(s) <= Len(t) /\ s = SubSeq(t, 1, Len(s))
  BY <1>2, Zenon DEF IsPrefix
<1> QED
  BY <1>4, <1>5

LEMMA PrefixReflexive ==
  ASSUME NEW S, NEW s \in Seq(S) PROVE IsPrefix(s, s)
BY PrefixIs

LEMMA PrefixAppend ==
  ASSUME NEW S, NEW s \in Seq(S), NEW t \in Seq(S), NEW x \in S, IsPrefix(s, t)
  PROVE  Append(t, x) \in Seq(S) /\ IsPrefix(s, Append(t, x))
<1>1. /\ Append(t, x) \in Seq(S)
      /\ Len(Append(t, x)) = Len(t) + 1
      /\ \A i \in 1..Len(t) : Append(t, x)[i] = t[i]
      /\ Len(s) \in Nat /\ Len(t) \in Nat
  OBVIOUS
<1>2. Len(s) <= Len(t) /\ \A i \in 1..Len(s) : s[i] = t[i]
  BY PrefixIs
<1>3. \A i \in 1..Len(s) : s[i] = Append(t, x)[i]
  BY <1>1, <1>2
<1>4. Len(s) <= Len(Append(t, x))
  BY <1>1, <1>2
<1>5. ASSUME NEW u \in Seq(S), Len(s) <= Len(u), \A i \in 1..Len(s) : s[i] = u[i]
      PROVE  IsPrefix(s, u)
  BY <1>5, PrefixIs
<1> QED
  BY <1>1, <1>3, <1>4, <1>5

LEMMA PrefixElements ==
  ASSUME NEW S, NEW s \in Seq(S), NEW t \in Seq(S), IsPrefix(s, t)
  PROVE  ToSet(s) \subseteq ToSet(t)
<1>1. Len(s) <= Len(t) /\ \A i \in 1..Len(s) : s[i] = t[i]
  BY PrefixIs
<1> QED
  BY <1>1 DEF ToSet

LEMMA AppendElements ==
  ASSUME NEW S, NEW t \in Seq(S), NEW x \in S
  PROVE  ToSet(Append(t, x)) = ToSet(t) \cup {x}
<1>1. /\ Len(Append(t, x)) = Len(t) + 1
      /\ Append(t, x)[Len(t) + 1] = x
      /\ \A i \in 1..Len(t) : Append(t, x)[i] = t[i]
      /\ DOMAIN Append(t, x) = 1..Len(t) + 1 /\ DOMAIN t = 1..Len(t)
      /\ Len(t) \in Nat
  OBVIOUS
<1>2. \A i \in 1..Len(t) + 1 : i \in 1..Len(t) \/ i = Len(t) + 1
  BY <1>1
<1> QED
  BY <1>1, <1>2 DEF ToSet

-----------------------------------------------------------------------------
\* The states that the operations save.

LEMMA NewStateIs == NewState \in State
<1>1. <<>> \in Seq(Answer)
  OBVIOUS
<1> QED
  BY <1>1, AndroidConstantsOK DEF NewState, State, Challenges, Seqs

SameRest(m, s) == s.last = m.last /\ s.seen = m.seen /\ s.events = m.events

LEMMA EnrolledIs ==
  ASSUME mem \in State, NEW b \in Bootstraps, NEW d \in Devices
  PROVE  /\ Enrolled(b, d) \in State
         /\ Enrolled(b, d).boot = [mem.boot EXCEPT ![b] = "redeemed"]
         /\ Enrolled(b, d).device = [mem.device EXCEPT ![d] = "active"]
         /\ Enrolled(b, d).open = mem.open
         /\ SameRest(mem, Enrolled(b, d))
BY DEF State, Enrolled, SameRest

LEMMA OpenIs ==
  ASSUME NEW m \in State, NEW d \in Devices, NEW ns \in SUBSET Challenges
  PROVE  LET s == [m EXCEPT !.open[d] = ns]
         IN  /\ s \in State
             /\ s.open = [m.open EXCEPT ![d] = ns]
             /\ s.boot = m.boot /\ s.device = m.device
             /\ SameRest(m, s)
BY DEF State, SameRest

LEMMA RevokedIs ==
  ASSUME NEW m \in State, NEW d \in Devices
  PROVE  LET s == [m EXCEPT !.device[d] = "revoked"]
         IN  /\ s \in State
             /\ s.device = [m.device EXCEPT ![d] = "revoked"]
             /\ s.boot = m.boot /\ s.open = m.open
             /\ SameRest(m, s)
BY DEF State, SameRest

LEMMA BootIs ==
  ASSUME NEW m \in State, NEW b \in Bootstraps
  PROVE  LET s == [m EXCEPT !.boot[b] = "open"]
         IN  /\ s \in State
             /\ s.boot = [m.boot EXCEPT ![b] = "open"]
             /\ s.device = m.device /\ s.open = m.open
             /\ SameRest(m, s)
BY DEF State, SameRest

LEMMA PublishedIs ==
  ASSUME NEW m \in State, NEW x \in Batches
  PROVE  LET s == [m EXCEPT !.batch = x]
         IN  /\ s \in State
             /\ s.boot = m.boot /\ s.device = m.device /\ s.open = m.open
             /\ SameRest(m, s)
BY DEF State, SameRest

LEMMA ConfiguredIs ==
  ASSUME NEW m \in State
  PROVE  LET s == [m EXCEPT !.rendezvous = TRUE]
         IN  /\ s \in State
             /\ s.boot = m.boot /\ s.device = m.device /\ s.open = m.open
             /\ SameRest(m, s)
BY DEF State, SameRest

LEMMA AcceptedIs ==
  ASSUME mem \in State, NEW m \in Answer
  PROVE  /\ Accepted(m) \in State
         /\ Accepted(m).boot = mem.boot
         /\ Accepted(m).device = mem.device
         /\ Accepted(m).open = mem.open
         /\ Accepted(m).last = [mem.last EXCEPT ![m.stream] = m.seq]
         /\ Accepted(m).seen = [mem.seen EXCEPT ![m.stream][m.seq] = m.batch]
         /\ Accepted(m).events = Append(mem.events, m)
<1>1. m.stream \in Streams /\ m.seq \in Seqs /\ m.batch \in Batches
  BY DEF Answer
<1>2. m.seq \in 0..MaxSeq
  BY <1>1, AndroidConstantsOK DEF Seqs
<1>3. Append(mem.events, m) \in Seq(Answer)
  BY DEF State
<1>4. [mem.seen EXCEPT ![m.stream][m.seq] = m.batch]
        \in [Streams -> [Seqs -> Batches \cup {None}]]
  BY <1>1 DEF State
<1>5. [mem.last EXCEPT ![m.stream] = m.seq] \in [Streams -> 0..MaxSeq]
  BY <1>1, <1>2 DEF State
<1> QED
  BY <1>3, <1>4, <1>5 DEF State, Accepted

-----------------------------------------------------------------------------
\* Two states that agree, and a state under a history that only grew.

LEMMA FitsEqual ==
  ASSUME NEW s
  PROVE  /\ mem' = s /\ Fits(s)' => Fits(mem)'
         /\ disk' = s /\ Fits(s)' => Fits(disk)'
BY DEF Fits, Drawn, Spent, Keyed, Logged

LEMMA LoggedSame ==
  ASSUME NEW m, NEW s, SameRest(m, s), Logged(m), acked' = acked
  PROVE  Logged(s)'
BY DEF Logged, SameRest

LEMMA FitsSame ==
  ASSUME NEW m, NEW s, Fits(m), SameRest(m, s),
         s.boot = m.boot, s.device = m.device, s.open = m.open
  PROVE  Fits(s)
BY DEF Fits, Drawn, Spent, Keyed, Logged, SameRest

Grew ==
  /\ printed \subseteq printed' /\ drawn \subseteq drawn'
  /\ \A d \in Devices : challenged[d] <= challenged'[d]
  /\ UNCHANGED <<registered, released, gone, acked>>
  /\ keys \subseteq keys' /\ strayed \subseteq strayed'
  /\ \A d \in keys' : d \in keys \/ d \in strayed'

LEMMA FitsGrown ==
  ASSUME NEW m \in State, TypeOK, challenged' \in [Devices -> Nat], Fits(m), Grew
  PROVE  Fits(m)'
<1>1. \A d \in Devices : /\ challenged[d] \in Nat /\ challenged'[d] \in Nat
                         /\ \A n \in m.open[d] : n \in Nat
  BY AndroidConstantsOK DEF TypeOK, State, Challenges
<1>2. Drawn(m)'
  BY <1>1 DEF Fits, Drawn, Grew
<1>3. Spent(m)'
  BY DEF Fits, Spent, Grew
<1>4. Keyed(m)'
  BY DEF Fits, Keyed, Grew
<1>5. Logged(m)'
  BY DEF Fits, Logged, Grew
<1> QED
  BY <1>2, <1>3, <1>4, <1>5 DEF Fits

LEMMA GrownKept ==
  ASSUME TypeOK, challenged' \in [Devices -> Nat], Grew
  PROVE  /\ Fits(disk) /\ disk' = disk => Fits(disk)'
         /\ Fits(mem) /\ mem' = mem => Fits(mem)'
<1>1. \A m \in State : Fits(m) => Fits(m)'
  BY FitsGrown
<1>2. PICK m, f : m = mem /\ f = disk
  OBVIOUS
<1>3. m \in State /\ f \in State
  BY <1>2 DEF TypeOK
<1> QED
  BY <1>1, <1>2, <1>3, FitsEqual

-----------------------------------------------------------------------------
\* Types of what is neither a file nor a memory.

RestTypes ==
  /\ keys \subseteq SshDevices
  /\ drawn \subseteq Devices
  /\ challenged \in [Devices -> 0..MaxChallenges]
  /\ printed \subseteq Bootstraps
  /\ viaSsh \subseteq printed
  /\ registered \subseteq Bootstraps \X Devices
  /\ released \subseteq Devices \X Challenges
  /\ served \subseteq Devices \X Batches
  /\ acked \subseteq Answer
  /\ gone \subseteq Devices
  /\ strayed \subseteq Devices

ProcessTypes ==
  /\ tool \in State
  /\ up \in BOOLEAN /\ starting \in BOOLEAN /\ ssh \in BOOLEAN
  /\ tunnel \in {"none", "opening", "open", "lost", "ownerless"}
  /\ pairing \in BOOLEAN /\ overwrote \in BOOLEAN

LEMMA TypeParts ==
  /\ TypeOK => /\ disk \in State /\ mem \in State
               /\ ProcessTypes /\ RestTypes /\ faults \in 0..MaxFaults
  /\ /\ disk' \in State /\ mem' \in State
     /\ ProcessTypes' /\ RestTypes' /\ faults' \in 0..MaxFaults
     => TypeOK'
BY DEF TypeOK, ProcessTypes, RestTypes

\* What a method of the running service keeps that stores state s, or fails
\* to store it.
LEMMA SaveKeeps ==
  ASSUME Live, up, UNCHANGED process, NEW s \in State,
         \/ Saved(s)
         \/ SaveRaises(s) /\ Fits(disk)',
         IsPrefix(disk.events, s.events), Fits(s)', Once'
  PROVE  Kept'
<1>1. mem' = s /\ disk' \in {disk, s}
  BY DEF Saved, SaveRaises
<1>2. Fits(mem)' /\ Fits(disk)'
  BY <1>1, FitsEqual DEF Saved
<1>3. IsPrefix(disk'.events, mem'.events)
  <2>1. s.events \in Seq(Answer)
    BY DEF State
  <2> QED
    BY <1>1, <2>1, PrefixReflexive
<1> QED
  BY <1>2, <1>3, Zenon DEF Kept

-----------------------------------------------------------------------------
\* The methods of the service.

LEMMA Serving ==
  ASSUME Live, up
  PROVE  /\ TypeOK /\ RestTypes /\ Once
         /\ mem \in State /\ disk \in State
         /\ Fits(mem) /\ Fits(disk)
         /\ disk.events \in Seq(Answer) /\ mem.events \in Seq(Answer)
         /\ IsPrefix(disk.events, mem.events)
<1>1. TypeOK /\ Fits(mem) /\ Fits(disk) /\ Once
      /\ IsPrefix(disk.events, mem.events)
  BY DEF Live, Basics, Kept, Running
<1>2. mem \in State /\ disk \in State /\ RestTypes
  BY <1>1, TypeParts
<1> QED
  BY <1>1, <1>2 DEF State

\* A bootstrap that is open was not used, and a device id that was not drawn
\* is nowhere.
LEMMA Redeemable ==
  ASSUME Live, NEW b \in Bootstraps, NEW d \in Devices, CanRedeem(b, d)
  PROVE  /\ up /\ d \notin drawn /\ d \notin gone
         /\ \A r \in registered : r[1] # b
         /\ disk.device[d] = "unknown" /\ mem.device[d] = "unknown"
         /\ b \in printed
BY Serving DEF CanRedeem, Fits, Drawn, Spent, Once

\* The new state, its device keyed, fits a history with the redemption.
LEMMA EnrolledFits ==
  ASSUME Live, NEW b \in Bootstraps, NEW d \in Devices, CanRedeem(b, d),
         NEW s, s = Enrolled(b, d),
         drawn' = drawn \cup {d},
         registered' \in {registered, registered \cup {<<b, d>>}},
         d \in SshDevices => d \in keys',
         keys' \in {keys, keys \cup {d}},
         strayed' \in {strayed, strayed \cup {d}},
         UNCHANGED <<printed, challenged, released, gone, acked>>
  PROVE  s \in State /\ Fits(s)' /\ IsPrefix(disk.events, s.events)
<1>1. /\ TypeOK /\ RestTypes /\ mem \in State /\ Fits(mem)
      /\ IsPrefix(disk.events, mem.events)
      /\ d \notin gone /\ b \in printed
  BY Serving, Redeemable DEF CanRedeem
<1>2. /\ s \in State
      /\ s.boot = [mem.boot EXCEPT ![b] = "redeemed"]
      /\ s.device = [mem.device EXCEPT ![d] = "active"]
      /\ s.open = mem.open
      /\ SameRest(mem, s)
  BY <1>1, EnrolledIs
<1>3. mem.boot \in [Bootstraps -> {"unknown", "open", "redeemed"}]
      /\ mem.device \in [Devices -> {"unknown", "active", "revoked"}]
  BY <1>1 DEF State
<1>4. Drawn(s)'
  BY <1>1, <1>2, <1>3 DEF Fits, Drawn
<1>5. Spent(s)'
  BY <1>1, <1>2, <1>3 DEF Fits, Spent, RestTypes
<1>6. Keyed(s)'
  BY <1>1, <1>2, <1>3 DEF Fits, Keyed, RestTypes
<1>7. Logged(s)'
  BY <1>1, <1>2, LoggedSame DEF Fits
<1> QED
  BY <1>1, <1>2, <1>4, <1>5, <1>6, <1>7 DEF Fits, SameRest

LEMMA RedeemKept ==
  ASSUME Live, NEW b \in Bootstraps, NEW d \in Devices, Redeem(b, d)
  PROVE  Kept'
<1>1. CanRedeem(b, d) /\ up
  BY DEF Redeem, CanRedeem
<1>2. /\ TypeOK /\ RestTypes /\ Once /\ disk \in State /\ Fits(disk)
      /\ \A r \in registered : r[1] # b
  BY <1>1, Serving, Redeemable
<1>3. PICK s : s = Enrolled(b, d)
  OBVIOUS
<1>4. /\ Saved(s) \/ (SaveRaises(s) /\ registered' = registered)
      /\ registered' \in {registered, registered \cup {<<b, d>>}}
      /\ drawn' = drawn \cup {d} /\ d \notin SshDevices
      /\ UNCHANGED <<process, keys, challenged, printed, viaSsh,
                     released, served, acked, gone, strayed>>
  BY <1>3 DEF Redeem, SaveAndAnswer
<1>5. s \in State /\ Fits(s)' /\ IsPrefix(disk.events, s.events)
  BY <1>1, <1>3, <1>4, EnrolledFits
<1>6. Once'
  BY <1>2, <1>4 DEF Once
<1>7. SaveRaises(s) /\ registered' = registered => Fits(disk)'
  <2>1. challenged' \in [Devices -> Nat]
        /\ \A e \in Devices : challenged[e] <= challenged'[e]
    BY <1>2, <1>4, AndroidConstantsOK DEF RestTypes
  <2>2. registered' = registered /\ strayed \subseteq strayed'
        /\ (\A e \in keys' : e \in keys \/ e \in strayed') => Grew
    BY <1>2, <1>4, <2>1 DEF Grew
  <2>3. SaveRaises(s) => disk' = disk
    BY DEF SaveRaises
  <2> QED
    BY <1>2, <1>4, <2>1, <2>2, <2>3, GrownKept
<1> QED
  BY <1>1, <1>4, <1>5, <1>6, <1>7, SaveKeeps

LEMMA RedeemSshKept ==
  ASSUME Live, NEW b \in Bootstraps, NEW d \in Devices, RedeemSsh(b, d)
  PROVE  Kept'
<1>1. CanRedeem(b, d) /\ up
  BY DEF RedeemSsh, CanRedeem
<1>2. /\ TypeOK /\ RestTypes /\ Once /\ disk \in State /\ Fits(disk)
      /\ \A r \in registered : r[1] # b
      /\ d \notin gone
  BY <1>1, Serving, Redeemable
<1>3. PICK s : s = Enrolled(b, d)
  OBVIOUS
<1>4. /\ \/ Saved(s) /\ strayed' = strayed
         \/ /\ SaveRaises(s) /\ registered' = registered
            /\ strayed' = strayed \cup {d}
      /\ registered' \in {registered, registered \cup {<<b, d>>}}
      /\ drawn' = drawn \cup {d} /\ d \in SshDevices
      /\ keys' = keys \cup {d}
      /\ UNCHANGED <<process, challenged, printed, viaSsh, released, served,
                     acked, gone>>
  BY <1>3 DEF RedeemSsh, InstallKey
<1>5. s \in State /\ Fits(s)' /\ IsPrefix(disk.events, s.events)
  BY <1>1, <1>3, <1>4, EnrolledFits
<1>6. Once'
  BY <1>2, <1>4 DEF Once
<1>7. SaveRaises(s) /\ registered' = registered /\ strayed' = strayed \cup {d}
        => Fits(disk)'
  <2>1. challenged' \in [Devices -> Nat]
        /\ \A e \in Devices : challenged[e] <= challenged'[e]
    BY <1>2, <1>4, AndroidConstantsOK DEF RestTypes
  <2>2. registered' = registered /\ strayed \subseteq strayed'
        /\ (\A e \in keys' : e \in keys \/ e \in strayed') => Grew
    BY <1>2, <1>4, <2>1 DEF Grew
  <2>3. SaveRaises(s) => disk' = disk
    BY DEF SaveRaises
  <2> QED
    BY <1>2, <1>4, <2>1, <2>2, <2>3, GrownKept
<1> QED
  BY <1>1, <1>4, <1>5, <1>6, <1>7, SaveKeeps

LEMMA InstallFailsKept ==
  ASSUME Live, NEW b \in Bootstraps, NEW d \in Devices, InstallFails(b, d)
  PROVE  Kept'
<1>1. /\ CanRedeem(b, d) /\ up
      /\ drawn' = drawn \cup {d} /\ d \in SshDevices
      /\ keys' \in {keys, keys \cup {d}} /\ strayed' = strayed \cup {d}
      /\ UNCHANGED <<disk, mem, process, challenged, printed, viaSsh, told, faults>>
  BY DEF InstallFails, CanRedeem, InstallKey
<1>2. /\ TypeOK /\ RestTypes /\ Once /\ disk \in State /\ mem \in State
      /\ Fits(disk) /\ Fits(mem)
      /\ d \notin gone
  BY <1>1, Serving, Redeemable
<1>3. Grew /\ challenged' \in [Devices -> Nat]
  <2>1. challenged' = challenged /\ \A e \in Devices : challenged[e] \in Nat
    BY <1>1, <1>2, AndroidConstantsOK DEF RestTypes
  <2> QED
    BY <1>1, <1>2, <2>1, AndroidConstantsOK DEF Grew, told, RestTypes
<1>4. Fits(disk)' /\ Fits(mem)'
  BY <1>1, <1>2, <1>3, GrownKept
<1>5. Once'
  BY <1>1, <1>2 DEF Once, told
<1> QED
  BY <1>1, <1>4, <1>5 DEF Live, Kept, Running, process, service

-----------------------------------------------------------------------------
\* A method that stores what is in memory, or a change that Fits does not see.
LEMMA SameStored ==
  ASSUME Live, up, NEW s \in State, Saved(s) \/ SaveRaises(s),
         SameRest(mem, s),
         s.boot = mem.boot, s.device = mem.device, s.open = mem.open,
         UNCHANGED <<process, keys, issued, registered, released, acked, gone,
                     strayed>>
  PROVE  Kept'
<1>1. /\ TypeOK /\ RestTypes /\ Once
      /\ mem \in State /\ disk \in State /\ Fits(mem) /\ Fits(disk)
      /\ IsPrefix(disk.events, mem.events)
  BY Serving
<1>2. Fits(s)
  <2>1. \A m : Fits(m) /\ SameRest(m, s) /\ s.boot = m.boot
               /\ s.device = m.device /\ s.open = m.open => Fits(s)
    BY FitsSame
  <2> QED
    BY <1>1, <2>1
<1>3. Grew /\ challenged' \in [Devices -> Nat]
  <2>1. challenged' = challenged /\ \A e \in Devices : challenged[e] \in Nat
    BY <1>1, AndroidConstantsOK DEF issued, RestTypes
  <2> QED
    BY <1>1, <2>1, AndroidConstantsOK DEF Grew, issued, RestTypes
<1>4. Fits(s)'
  BY <1>1, <1>2, <1>3, FitsGrown
<1>5. SaveRaises(s) => Fits(disk)'
  BY <1>1, <1>3, GrownKept DEF SaveRaises
<1>6. Once'
  BY <1>1 DEF Once, issued
<1>7. IsPrefix(disk.events, s.events)
  BY <1>1 DEF SameRest
<1> QED
  BY <1>4, <1>5, <1>6, <1>7, SaveKeeps

LEMMA PublishBatchKept ==
  ASSUME Live, NEW b \in Batches, PublishBatch(b)
  PROVE  Kept'
<1>1. PICK s : s = [mem EXCEPT !.batch = b]
  OBVIOUS
<1>2. up /\ (Saved(s) \/ SaveRaises(s))
      /\ UNCHANGED <<process, keys, issued, told, strayed>>
  BY <1>1 DEF PublishBatch
<1>3. mem \in State /\ RestTypes
  BY <1>2, Serving
<1>4. /\ s \in State /\ SameRest(mem, s)
      /\ s.boot = mem.boot /\ s.device = mem.device /\ s.open = mem.open
  <2>1. \A m \in State :
          LET t == [m EXCEPT !.batch = b]
          IN  /\ t \in State /\ SameRest(m, t)
              /\ t.boot = m.boot /\ t.device = m.device /\ t.open = m.open
    BY PublishedIs
  <2> QED
    BY <1>1, <1>3, <2>1
<1> QED
  BY <1>2, <1>4, SameStored DEF told

LEMMA GetBatchKept ==
  ASSUME Live, NEW d \in Devices, GetBatch(d)
  PROVE  Kept'
<1>1. PICK s : s = mem
  OBVIOUS
<1>2. /\ up /\ (Saved(s) \/ SaveRaises(s))
      /\ served' \in {served, served \cup ({<<d, mem.batch>>} \ {<<d, None>>})}
      /\ UNCHANGED <<process, keys, issued, registered, released, acked, gone,
                     strayed>>
  BY <1>1 DEF GetBatch, SaveAndAnswer
<1>3. mem \in State /\ RestTypes
  BY <1>2, Serving
<1>4. /\ s \in State /\ SameRest(mem, s)
      /\ s.boot = mem.boot /\ s.device = mem.device /\ s.open = mem.open
  BY <1>1, <1>3 DEF SameRest
<1> QED
  BY <1>2, <1>4, SameStored

LEMMA CreateSshChallengeKept ==
  ASSUME Live, NEW d \in Devices, CreateSshChallenge(d)
  PROVE  Kept'
<1>1. PICK n : n = challenged[d] + 1
  OBVIOUS
<1>2. PICK s : s = [mem EXCEPT !.open[d] = mem.open[d] \cup {n}]
  OBVIOUS
<1>3. up
  BY DEF CreateSshChallenge, ActiveSsh
<1>4. /\ TypeOK /\ RestTypes /\ Once /\ mem \in State /\ disk \in State
      /\ Fits(mem) /\ Fits(disk) /\ IsPrefix(disk.events, mem.events)
  BY <1>3, Serving
<1>5. challenged[d] \in Nat /\ challenged[d] < MaxChallenges
  BY <1>4, AndroidConstantsOK DEF RestTypes, CreateSshChallenge
<1>6. n \in Challenges /\ n \in 0..MaxChallenges
  BY <1>1, <1>5, AndroidConstantsOK DEF Challenges
<1>7. /\ challenged' = [challenged EXCEPT ![d] = n]
      /\ UNCHANGED <<process, keys, drawn, printed, viaSsh, told, strayed>>
  BY <1>1 DEF CreateSshChallenge
<1>8. challenged'[d] = n
  BY <1>4, <1>7 DEF RestTypes
<1>9. Saved(s) \/ SaveRaises(s)
  BY <1>2, <1>8 DEF CreateSshChallenge
<1>10. /\ s \in State
       /\ s.open = [mem.open EXCEPT ![d] = mem.open[d] \cup {n}]
       /\ s.boot = mem.boot /\ s.device = mem.device
       /\ SameRest(mem, s)
  <2>1. \A m \in State, ns \in SUBSET Challenges :
          LET t == [m EXCEPT !.open[d] = ns]
          IN  /\ t \in State /\ t.open = [m.open EXCEPT ![d] = ns]
              /\ t.boot = m.boot /\ t.device = m.device /\ SameRest(m, t)
    BY OpenIs
  <2>2. mem.open[d] \cup {n} \in SUBSET Challenges
    BY <1>4, <1>6 DEF State
  <2> QED
    BY <1>2, <1>4, <2>1, <2>2
<1>11. /\ \A e \in Devices : challenged[e] \in Nat /\ challenged'[e] \in Nat
                             /\ challenged[e] <= challenged'[e]
       /\ challenged' \in [Devices -> Nat]
  BY <1>1, <1>4, <1>5, <1>7, AndroidConstantsOK DEF RestTypes
<1>12. Grew
  BY <1>7, <1>11 DEF Grew, told
<1>13. SaveRaises(s) => Fits(disk)'
  BY <1>4, <1>11, <1>12, GrownKept DEF SaveRaises
<1>14. Fits(s)'
  <2>1. mem.open \in [Devices -> SUBSET Challenges]
    BY <1>4 DEF State
  <2>2. \A e \in Devices : \A k \in mem.open[e] : k \in Nat
    BY <2>1 DEF Challenges
  <2>3. Drawn(s)'
    <3>1. \A e \in Devices : \A k \in s.open[e] : k <= challenged'[e]
      <4> SUFFICES ASSUME NEW e \in Devices, NEW k \in s.open[e]
                   PROVE  k <= challenged'[e]
        OBVIOUS
      <4>1. CASE k \in mem.open[e]
        BY <1>4, <1>11, <2>2, <4>1 DEF Fits, Drawn
      <4>2. CASE k \notin mem.open[e]
        BY <1>5, <1>1, <1>8, <1>10, <2>1, <4>2
      <4> QED
        BY <4>1, <4>2
    <3> QED
      BY <1>4, <1>7, <1>10, <3>1 DEF Fits, Drawn
  <2>4. Spent(s)'
    <3>1. \A r \in released : r[2] \notin s.open[r[1]]
      <4> SUFFICES ASSUME NEW r \in released PROVE r[2] \notin s.open[r[1]]
        OBVIOUS
      <4>1. /\ r[1] \in Devices /\ r[2] \in Nat
            /\ r[2] <= challenged[r[1]] /\ r[2] \notin mem.open[r[1]]
        BY <1>4 DEF RestTypes, Once, Fits, Spent, Challenges
      <4>2. r[1] = d => r[2] # n
        BY <1>1, <1>5, <4>1
      <4> QED
        BY <1>10, <2>1, <4>1, <4>2
    <3> QED
      BY <1>4, <1>7, <1>10, <3>1 DEF Fits, Spent, told
  <2>5. Keyed(s)'
    BY <1>4, <1>7, <1>10 DEF Fits, Keyed
  <2>6. Logged(s)'
    <3>1. \A m : SameRest(m, s) /\ Logged(m) /\ acked' = acked => Logged(s)'
      BY LoggedSame
    <3> QED
      BY <1>4, <1>7, <1>10, <3>1 DEF Fits, told
  <2> QED
    BY <2>3, <2>4, <2>5, <2>6 DEF Fits
<1>15. Once'
  <2>1. \A r \in released : r[2] <= challenged'[r[1]]
    BY <1>4, <1>11 DEF RestTypes, Once, Challenges
  <2> QED
    BY <1>4, <1>7, <2>1 DEF Once, told
<1>16. IsPrefix(disk.events, s.events)
  BY <1>4, <1>10 DEF SameRest
<1> QED
  BY <1>3, <1>7, <1>9, <1>10, <1>13, <1>14, <1>15, <1>16, SaveKeeps

LEMMA ReleaseSshCredentialKept ==
  ASSUME Live, NEW d \in Devices, NEW n \in Challenges,
         ReleaseSshCredential(d, n)
  PROVE  Kept'
<1>1. PICK s : s = [mem EXCEPT !.open[d] = mem.open[d] \ {n}]
  OBVIOUS
<1>2. /\ up /\ n \in mem.open[d]
      /\ Saved(s) \/ (SaveRaises(s) /\ released' = released)
      /\ released' \in {released, released \cup {<<d, n>>}}
      /\ UNCHANGED <<process, keys, issued, registered, served, acked, gone,
                     strayed>>
  BY <1>1 DEF ReleaseSshCredential, ActiveSsh, SaveAndAnswer
<1>3. /\ TypeOK /\ RestTypes /\ Once /\ mem \in State /\ disk \in State
      /\ Fits(mem) /\ Fits(disk) /\ IsPrefix(disk.events, mem.events)
  BY <1>2, Serving
<1>4. /\ s \in State
      /\ s.open = [mem.open EXCEPT ![d] = mem.open[d] \ {n}]
      /\ s.boot = mem.boot /\ s.device = mem.device
      /\ SameRest(mem, s)
  <2>1. \A m \in State, ns \in SUBSET Challenges :
          LET t == [m EXCEPT !.open[d] = ns]
          IN  /\ t \in State /\ t.open = [m.open EXCEPT ![d] = ns]
              /\ t.boot = m.boot /\ t.device = m.device /\ SameRest(m, t)
    BY OpenIs
  <2>2. mem.open[d] \ {n} \in SUBSET Challenges
    BY <1>3 DEF State
  <2> QED
    BY <1>1, <1>3, <2>1, <2>2
<1>5. challenged' = challenged /\ challenged' \in [Devices -> Nat]
      /\ \A e \in Devices : challenged[e] <= challenged'[e]
  BY <1>2, <1>3, AndroidConstantsOK DEF RestTypes, issued
<1>6. SaveRaises(s) /\ released' = released => Fits(disk)'
  <2>1. released' = released => Grew
    BY <1>2, <1>5 DEF Grew, issued
  <2> QED
    BY <1>3, <1>5, <2>1, GrownKept DEF SaveRaises
<1>7. mem.open \in [Devices -> SUBSET Challenges]
  BY <1>3 DEF State
<1>8. Drawn(s)'
  BY <1>2, <1>3, <1>4, <1>7 DEF Fits, Drawn, issued
<1>9. Spent(s)'
  <2>1. \A r \in released' : r[2] \notin s.open[r[1]]
    <3> SUFFICES ASSUME NEW r \in released' PROVE r[2] \notin s.open[r[1]]
      OBVIOUS
    <3>1. r \in released \/ (r[1] = d /\ r[2] = n)
      BY <1>2
    <3>2. r \in released => r[1] \in Devices /\ r[2] \notin mem.open[r[1]]
      BY <1>3 DEF RestTypes, Fits, Spent
    <3> QED
      BY <1>4, <1>7, <3>1, <3>2
  <2> QED
    BY <1>2, <1>3, <1>4, <2>1 DEF Fits, Spent
<1>10. Keyed(s)'
  BY <1>2, <1>3, <1>4 DEF Fits, Keyed
<1>11. Logged(s)'
  <2>1. \A m : SameRest(m, s) /\ Logged(m) /\ acked' = acked => Logged(s)'
    BY LoggedSame
  <2> QED
    BY <1>2, <1>3, <1>4, <2>1 DEF Fits
<1>12. Once'
  <2>1. n <= challenged[d]
    BY <1>2, <1>3 DEF Fits, Drawn
  <2> QED
    BY <1>2, <1>3, <1>5, <2>1 DEF Once, issued
<1>13. Fits(s)' /\ IsPrefix(disk.events, s.events)
  BY <1>3, <1>4, <1>8, <1>9, <1>10, <1>11 DEF Fits, SameRest
<1> QED
  BY <1>2, <1>4, <1>6, <1>12, <1>13, SaveKeeps

-----------------------------------------------------------------------------
\* Revocations.

\* The state with the device revoked fits a history with or without the
\* return of the revocation, if the key is removed or marked.
LEMMA RevokedFits ==
  ASSUME Live, up, NEW d \in Devices, mem.device[d] # "unknown",
         NEW s, s = [mem EXCEPT !.device[d] = "revoked"],
         gone' \in {gone, gone \cup {d}},
         d \notin keys' \/ d \in strayed',
         keys' \in {keys, keys \ {d}},
         strayed' \in {strayed, strayed \cup {d}},
         UNCHANGED <<issued, registered, released, acked>>
  PROVE  s \in State /\ Fits(s)' /\ Once' /\ IsPrefix(disk.events, s.events)
<1>1. /\ TypeOK /\ RestTypes /\ Once /\ mem \in State /\ Fits(mem)
      /\ IsPrefix(disk.events, mem.events)
  BY Serving
<1>2. /\ s \in State
      /\ s.device = [mem.device EXCEPT ![d] = "revoked"]
      /\ s.boot = mem.boot /\ s.open = mem.open /\ SameRest(mem, s)
  <2>1. \A m \in State :
          LET t == [m EXCEPT !.device[d] = "revoked"]
          IN  /\ t \in State
              /\ t.device = [m.device EXCEPT ![d] = "revoked"]
              /\ t.boot = m.boot /\ t.open = m.open /\ SameRest(m, t)
    BY RevokedIs
  <2> QED
    BY <1>1, <2>1
<1>3. mem.device \in [Devices -> {"unknown", "active", "revoked"}]
  BY <1>1 DEF State
<1>4. d \in drawn
  BY <1>1 DEF Fits, Drawn
<1>5. Drawn(s)'
  BY <1>1, <1>2, <1>3, <1>4 DEF Fits, Drawn, issued
<1>6. Spent(s)'
  BY <1>1, <1>2, <1>3 DEF Fits, Spent, RestTypes
<1>7. Keyed(s)'
  BY <1>1, <1>2, <1>3 DEF Fits, Keyed, RestTypes
<1>8. Logged(s)'
  <2>1. \A m : SameRest(m, s) /\ Logged(m) /\ acked' = acked => Logged(s)'
    BY LoggedSame
  <2> QED
    BY <1>1, <1>2, <2>1 DEF Fits
<1>9. Once'
  BY <1>1, <1>4 DEF Once, issued, RestTypes
<1> QED
  BY <1>1, <1>2, <1>5, <1>6, <1>7, <1>8, <1>9 DEF Fits, SameRest

LEMMA RevokeKept ==
  ASSUME Live, NEW d \in Devices, Revoke(d)
  PROVE  Kept'
<1>1. PICK s : s = [mem EXCEPT !.device[d] = "revoked"]
  OBVIOUS
<1>2. /\ up /\ mem.device[d] # "unknown" /\ Saved(s)
      /\ gone' = gone \cup {d}
      /\ UNCHANGED <<process, issued, registered, released, served, acked>>
  BY <1>1 DEF Revoke
<1>3. TypeOK /\ RestTypes
  BY <1>2, Serving
<1>4. /\ d \notin keys' \/ d \in strayed'
      /\ keys' \in {keys, keys \ {d}}
      /\ strayed' \in {strayed, strayed \cup {d}}
  BY DEF Revoke, RemoveKey
<1>5. s \in State /\ Fits(s)' /\ Once' /\ IsPrefix(disk.events, s.events)
  BY <1>1, <1>2, <1>4, RevokedFits
<1> QED
  BY <1>2, <1>5, SaveKeeps

LEMMA RevokeFailsKept ==
  ASSUME Live, NEW d \in Devices, RevokeFails(d)
  PROVE  Kept'
<1>1. PICK s : s = [mem EXCEPT !.device[d] = "revoked"]
  OBVIOUS
<1>2. /\ up /\ mem.device[d] # "unknown"
      /\ UNCHANGED <<process, issued, told>>
      /\ \/ Saved(s)
         \/ SaveRaises(s) /\ keys' = keys
  BY <1>1 DEF RevokeFails
<1>3. /\ TypeOK /\ RestTypes /\ mem \in State /\ disk \in State /\ Fits(disk)
  BY <1>2, Serving
<1>4. /\ d \notin keys' \/ d \in strayed'
      /\ keys' \in {keys, keys \ {d}}
      /\ strayed' \in {strayed, strayed \cup {d}}
  BY DEF RevokeFails, RemoveKey
<1>5. s \in State /\ Fits(s)' /\ Once' /\ IsPrefix(disk.events, s.events)
  BY <1>1, <1>2, <1>4, RevokedFits DEF told
<1>6. SaveRaises(s) /\ keys' = keys => Fits(disk)'
  <2>1. challenged' \in [Devices -> Nat]
        /\ \A e \in Devices : challenged[e] <= challenged'[e]
    BY <1>2, <1>3, AndroidConstantsOK DEF RestTypes, issued
  <2>2. keys' = keys => Grew
    BY <1>2, <1>4, <2>1 DEF Grew, issued, told
  <2> QED
    BY <1>3, <2>1, <2>2, GrownKept DEF SaveRaises
<1> QED
  BY <1>2, <1>5, <1>6, SaveKeeps

-----------------------------------------------------------------------------
\* The answers of the phones.

LEMMA AnswerIs ==
  ASSUME NEW a \in Answer, NEW b \in Answer,
         a.stream = b.stream, a.seq = b.seq, a.batch = b.batch
  PROVE  a = b
BY DEF Answer

\* An accepted answer goes behind all answers of its session.
LEMMA AcceptedLogged ==
  ASSUME mem \in State, Logged(mem), NEW m \in Answer,
         m.seq > mem.last[m.stream],
         NEW s, s = Accepted(m), acked' \in {acked, acked \cup {m}}
  PROVE  Logged(s)'
<1>1. /\ s \in State
      /\ s.last = [mem.last EXCEPT ![m.stream] = m.seq]
      /\ s.seen = [mem.seen EXCEPT ![m.stream][m.seq] = m.batch]
      /\ s.events = Append(mem.events, m)
  BY AcceptedIs
<1>2. /\ mem.events \in Seq(Answer)
      /\ mem.last \in [Streams -> 0..MaxSeq]
      /\ mem.seen \in [Streams -> [Seqs -> Batches \cup {None}]]
      /\ m.stream \in Streams /\ m.seq \in Seqs /\ m.seq \in Nat
  BY AndroidConstantsOK DEF State, Answer, Seqs
<1>3. ToSet(s.events) = ToSet(mem.events) \cup {m}
  BY <1>1, <1>2, AppendElements
<1>4. PICK n : n = Len(mem.events)
  OBVIOUS
<1>5. /\ n \in Nat
      /\ DOMAIN mem.events = 1..n /\ DOMAIN s.events = 1..n + 1
      /\ s.events[n + 1] = m
      /\ \A i \in 1..n : s.events[i] = mem.events[i]
      /\ \A i \in 1..n : mem.events[i] \in Answer
      /\ \A i \in 1..n + 1 : i \in 1..n \/ i = n + 1
  BY <1>1, <1>2, <1>4
<1>6. \A i \in 1..n : /\ mem.events[i].stream \in Streams
                      /\ mem.events[i].seq \in Nat
                      /\ mem.events[i].seq <= mem.last[mem.events[i].stream]
  BY <1>5, AndroidConstantsOK DEF Answer, Seqs, Logged
<1>7. \A r \in Streams : mem.last[r] \in Nat
  BY <1>2, AndroidConstantsOK
<1>8. Log!InOrder(s.events)
  <2> SUFFICES ASSUME NEW i \in 1..n + 1, NEW j \in 1..n + 1, i < j,
                      s.events[i].stream = s.events[j].stream
               PROVE  s.events[i].seq < s.events[j].seq
    BY <1>5 DEF Log!InOrder
  <2>1. i \in 1..n
    BY <1>5
  <2>2. CASE j \in 1..n
    BY <1>5, <2>1, <2>2 DEF Logged, Log!InOrder
  <2>3. CASE j = n + 1
    <3>1. s.events[j] = m /\ s.events[i] = mem.events[i]
      BY <1>5, <2>1, <2>3
    <3> QED
      BY <1>2, <1>6, <1>7, <2>1, <3>1
  <2> QED
    BY <1>5, <2>2, <2>3
<1>9. \A i \in DOMAIN s.events : s.events[i].seq <= s.last[s.events[i].stream]
  <2> SUFFICES ASSUME NEW i \in 1..n + 1
               PROVE  s.events[i].seq <= s.last[s.events[i].stream]
    BY <1>5
  <2>1. CASE i = n + 1
    BY <1>1, <1>2, <1>5, <2>1
  <2>2. CASE i \in 1..n /\ mem.events[i].stream = m.stream
    <3>1. s.events[i] = mem.events[i] /\ s.last[m.stream] = m.seq
      BY <1>1, <1>2, <1>5, <2>2
    <3> QED
      BY <1>2, <1>6, <1>7, <2>2, <3>1
  <2>3. CASE i \in 1..n /\ mem.events[i].stream # m.stream
    <3>1. s.events[i] = mem.events[i]
          /\ s.last[mem.events[i].stream] = mem.last[mem.events[i].stream]
      BY <1>1, <1>2, <1>5, <1>6, <2>3
    <3> QED
      BY <1>6, <2>3, <3>1
  <2> QED
    BY <1>5, <2>1, <2>2, <2>3
<1>10. \A a \in Answer :
         s.seen[a.stream][a.seq] = a.batch => a \in ToSet(s.events)
  <2> SUFFICES ASSUME NEW a \in Answer, s.seen[a.stream][a.seq] = a.batch
               PROVE  a \in ToSet(s.events)
    OBVIOUS
  <2>1. a.stream \in Streams /\ a.seq \in Seqs
    BY DEF Answer
  <2>2. CASE a.stream = m.stream /\ a.seq = m.seq
    <3>1. s.seen[a.stream][a.seq] = m.batch
      BY <1>1, <1>2, <2>1, <2>2
    <3> QED
      BY <1>3, <2>2, <3>1, AnswerIs
  <2>3. CASE ~(a.stream = m.stream /\ a.seq = m.seq)
    <3>1. s.seen[a.stream][a.seq] = mem.seen[a.stream][a.seq]
      BY <1>1, <1>2, <2>1, <2>3
    <3> QED
      BY <1>3, <3>1 DEF Logged
  <2> QED
    BY <2>2, <2>3
<1>11. acked' \subseteq ToSet(s.events)
  BY <1>3 DEF Logged
<1> QED
  BY <1>8, <1>9, <1>10, <1>11 DEF Logged

LEMMA RouteEventKept ==
  ASSUME Live, NEW m \in Answer, RouteEvent(m)
  PROVE  Kept'
<1>1. PICK s : s = Accepted(m)
  OBVIOUS
<1>2. /\ up /\ m.seq > mem.last[m.stream]
      /\ Saved(s) \/ (SaveRaises(s) /\ acked' = acked)
      /\ acked' \in {acked, acked \cup {m}}
      /\ UNCHANGED <<process, keys, issued, registered, released, served, gone,
                     strayed>>
  BY <1>1 DEF RouteEvent, FromActiveDevice, SaveAndAnswer
<1>3. /\ TypeOK /\ RestTypes /\ Once /\ mem \in State /\ disk \in State
      /\ Fits(mem) /\ Fits(disk)
      /\ disk.events \in Seq(Answer) /\ mem.events \in Seq(Answer)
      /\ IsPrefix(disk.events, mem.events)
  BY <1>2, Serving
<1>4. /\ s \in State
      /\ s.boot = mem.boot /\ s.device = mem.device /\ s.open = mem.open
      /\ s.events = Append(mem.events, m)
  BY <1>1, <1>3, AcceptedIs
<1>5. challenged' = challenged /\ challenged' \in [Devices -> Nat]
      /\ \A e \in Devices : challenged[e] <= challenged'[e]
  BY <1>2, <1>3, AndroidConstantsOK DEF RestTypes, issued
<1>6. SaveRaises(s) /\ acked' = acked => Fits(disk)'
  <2>1. acked' = acked => Grew
    BY <1>2, <1>5 DEF Grew, issued
  <2> QED
    BY <1>3, <1>5, <2>1, GrownKept DEF SaveRaises
<1>7. Drawn(s)' /\ Spent(s)' /\ Keyed(s)'
  BY <1>2, <1>3, <1>4 DEF Fits, Drawn, Spent, Keyed, issued
<1>8. Logged(s)'
  BY <1>1, <1>2, <1>3, AcceptedLogged DEF Fits
<1>9. Once'
  BY <1>2, <1>3 DEF Once, issued
<1>10. IsPrefix(disk.events, s.events)
  BY <1>3, <1>4, PrefixAppend
<1>11. Fits(s)'
  BY <1>7, <1>8 DEF Fits
<1> QED
  BY <1>2, <1>4, <1>6, <1>9, <1>10, <1>11, SaveKeeps

LEMMA RepeatEventKept ==
  ASSUME Live, NEW m \in Answer, RepeatEvent(m)
  PROVE  Kept'
<1>1. PICK s : s = mem
  OBVIOUS
<1>2. /\ up /\ mem.seen[m.stream][m.seq] = m.batch
      /\ Saved(s) \/ (SaveRaises(s) /\ acked' = acked)
      /\ acked' \in {acked, acked \cup {m}}
      /\ UNCHANGED <<process, keys, issued, registered, released, served, gone,
                     strayed>>
  BY <1>1 DEF RepeatEvent, FromActiveDevice, SaveAndAnswer
<1>3. /\ TypeOK /\ RestTypes /\ Once /\ mem \in State /\ disk \in State
      /\ Fits(mem) /\ Fits(disk)
      /\ IsPrefix(disk.events, mem.events)
  BY <1>2, Serving
<1>4. challenged' = challenged /\ challenged' \in [Devices -> Nat]
      /\ \A e \in Devices : challenged[e] <= challenged'[e]
  BY <1>2, <1>3, AndroidConstantsOK DEF RestTypes, issued
<1>5. SaveRaises(s) /\ acked' = acked => Fits(disk)'
  <2>1. acked' = acked => Grew
    BY <1>2, <1>4 DEF Grew, issued
  <2> QED
    BY <1>3, <1>4, <2>1, GrownKept DEF SaveRaises
<1>6. Drawn(s)' /\ Spent(s)' /\ Keyed(s)'
  BY <1>1, <1>2, <1>3 DEF Fits, Drawn, Spent, Keyed, issued
<1>7. Logged(s)'
  <2>1. m \in ToSet(mem.events)
    BY <1>2, <1>3 DEF Fits, Logged
  <2> QED
    BY <1>1, <1>2, <1>3, <2>1 DEF Fits, Logged
<1>8. Once'
  BY <1>2, <1>3 DEF Once, issued
<1>9. s \in State /\ IsPrefix(disk.events, s.events) /\ Fits(s)'
  BY <1>1, <1>3, <1>6, <1>7 DEF Fits
<1> QED
  BY <1>2, <1>5, <1>8, <1>9, SaveKeeps

-----------------------------------------------------------------------------
\* The process and the tools.  Nothing they do is part of the history, save
\* that a tool prints a QR code.

LEMMA HistorySame ==
  ASSUME TypeOK, Once, UNCHANGED <<keys, issued, told, strayed>>
  PROVE  /\ Once'
         /\ \A m \in State : Fits(m) => Fits(m)'
         /\ Fits(disk) /\ disk' = disk => Fits(disk)'
         /\ Fits(mem) /\ mem' = mem => Fits(mem)'
<1>1. RestTypes
  BY TypeParts
<1>2. Grew /\ challenged' \in [Devices -> Nat]
  <2>1. challenged' = challenged /\ \A e \in Devices : challenged[e] \in Nat
    BY <1>1, AndroidConstantsOK DEF issued, RestTypes
  <2> QED
    BY <1>1, <2>1, AndroidConstantsOK DEF Grew, issued, told, RestTypes
<1>3. Once'
  BY <1>1 DEF Once, issued, told
<1> QED
  BY <1>2, <1>3, FitsGrown, GrownKept

LEMMA StartKept ==
  ASSUME Live, Start \/ StartWithRendezvous
  PROVE  Kept'
<1>1. mem' = disk /\ UNCHANGED <<disk, keys, issued, told, strayed>>
  BY DEF Start, StartWithRendezvous, Loads
<1>2. TypeOK /\ Once /\ disk \in State /\ Fits(disk)
  BY TypeParts DEF Live, Basics, Kept
<1>3. Once' /\ Fits(disk)'
  BY <1>1, <1>2, HistorySame
<1>4. Fits(mem)'
  <2>1. PICK s : s = disk
    OBVIOUS
  <2>2. Fits(s)'
    BY <1>1, <1>2, <2>1, HistorySame
  <2> QED
    BY <1>1, <2>1, <2>2, FitsEqual
<1>5. IsPrefix(disk'.events, mem'.events)
  <2>1. disk.events \in Seq(Answer)
    BY <1>2 DEF State
  <2> QED
    BY <1>1, <2>1, PrefixReflexive
<1> QED
  BY <1>3, <1>4, <1>5 DEF Kept

LEMMA ConfigureKept ==
  ASSUME Live, Configure
  PROVE  Kept'
<1>1. PICK s : s = [mem EXCEPT !.rendezvous = TRUE]
  OBVIOUS
<1>2. Running /\ Saved(s) /\ UNCHANGED <<keys, issued, told, strayed>>
  BY <1>1 DEF Configure, Running
<1>3. TypeOK /\ Once /\ mem \in State /\ Fits(mem)
  BY <1>2, TypeParts DEF Live, Basics, Kept
<1>4. s \in State /\ Fits(s)
  <2>1. /\ s \in State /\ SameRest(mem, s)
        /\ s.boot = mem.boot /\ s.device = mem.device /\ s.open = mem.open
    <3>1. \A m \in State :
            LET t == [m EXCEPT !.rendezvous = TRUE]
            IN  /\ t \in State /\ SameRest(m, t)
                /\ t.boot = m.boot /\ t.device = m.device /\ t.open = m.open
      BY ConfiguredIs
    <3> QED
      BY <1>1, <1>3, <3>1
  <2>2. \A m : Fits(m) /\ SameRest(m, s) /\ s.boot = m.boot
               /\ s.device = m.device /\ s.open = m.open => Fits(s)
    BY FitsSame
  <2> QED
    BY <1>3, <2>1, <2>2
<1>5. Once' /\ Fits(s)'
  BY <1>2, <1>3, <1>4, HistorySame
<1>6. mem' = s /\ disk' = s
  BY <1>2 DEF Saved
<1>7. Fits(mem)' /\ Fits(disk)'
  BY <1>5, <1>6, FitsEqual
<1>8. IsPrefix(disk'.events, mem'.events)
  <2>1. s.events \in Seq(Answer)
    BY <1>4 DEF State
  <2> QED
    BY <1>6, <2>1, PrefixReflexive
<1> QED
  BY <1>5, <1>7, <1>8 DEF Kept

\* A service that ends leaves the file; so do the tunnel and a tool that does
\* not save.
LEMMA IdleKept ==
  ASSUME Live,
         \/ OpenTunnel \/ TunnelAllocated \/ TunnelDrops
         \/ StartFails \/ Stop \/ Kill
         \/ ToolLoads \/ ToolFails
         \/ UNCHANGED vars
  PROVE  Kept'
<1>1. /\ UNCHANGED <<disk, keys, issued, told, strayed>>
      /\ ~Running' \/ UNCHANGED <<mem, up, starting>>
  <2>1. CASE StartFails
    <3>1. up = FALSE
      BY <2>1, Zenon DEF StartFails, Live, Basics, TypeOK
    <3> QED
      BY <2>1, <3>1 DEF StartFails, Running
  <2>2. CASE Stop \/ Kill
    BY <2>2 DEF Stop, Kill, Ends, Running
  <2>3. CASE \/ OpenTunnel \/ TunnelAllocated \/ TunnelDrops
             \/ ToolLoads \/ ToolFails \/ UNCHANGED vars
    BY <2>3 DEF OpenTunnel, TunnelAllocated, TunnelDrops, ToolLoads, ToolFails,
                vars, process, service
  <2> QED
    BY <2>1, <2>2, <2>3
<1>2. TypeOK /\ Once /\ Fits(disk)
  BY DEF Live, Basics, Kept
<1>3. Once' /\ Fits(disk)' /\ (Fits(mem) /\ mem' = mem => Fits(mem)')
  BY <1>1, <1>2, HistorySame
<1>4. CASE ~Running'
  BY <1>3, <1>4 DEF Kept
<1>5. CASE UNCHANGED <<mem, up, starting>>
  <2>1. Running' = Running /\ disk' = disk /\ mem' = mem
    BY <1>1, <1>5 DEF Running
  <2> QED
    BY <1>3, <2>1 DEF Live, Kept
<1> QED
  BY <1>1, <1>4, <1>5

\* The tool adds a bootstrap to a file that is as it was read, beside a service
\* that may be running and does not learn of it.
LEMMA CreateBootstrapKept ==
  ASSUME Live, NEW b \in Bootstraps, CreateBootstrap(b), ~overwrote'
  PROVE  Kept'
<1>1. /\ tool = disk /\ b \notin printed
      /\ printed' = printed \cup {b}
      /\ UNCHANGED <<mem, up, starting, keys, drawn, challenged, told, strayed>>
  BY DEF CreateBootstrap, Overwrites, service
<1>2. TypeOK /\ RestTypes /\ Once /\ Fits(disk) /\ disk \in State
      /\ mem \in State
  BY TypeParts DEF Live, Basics, Kept
<1>3. PICK s : s = [disk EXCEPT !.boot[b] = "open"]
  OBVIOUS
<1>4. disk' = s
  BY <1>1, <1>3 DEF CreateBootstrap
<1>5. /\ s.boot = [disk.boot EXCEPT ![b] = "open"]
      /\ s.device = disk.device /\ s.open = disk.open /\ SameRest(disk, s)
  <2>1. \A m \in State :
          LET t == [m EXCEPT !.boot[b] = "open"]
          IN  /\ t \in State /\ t.boot = [m.boot EXCEPT ![b] = "open"]
              /\ t.device = m.device /\ t.open = m.open /\ SameRest(m, t)
    BY BootIs
  <2> QED
    BY <1>2, <1>3, <2>1
<1>6. disk.boot \in [Bootstraps -> {"unknown", "open", "redeemed"}]
      /\ disk.boot[b] = "unknown"
  BY <1>1, <1>2 DEF State, Fits, Drawn
<1>7. Drawn(s)'
  BY <1>1, <1>2, <1>5, <1>6 DEF Fits, Drawn
<1>8. Spent(s)'
  BY <1>1, <1>2, <1>5, <1>6 DEF Fits, Spent, RestTypes, told
<1>9. Keyed(s)'
  BY <1>1, <1>2, <1>5 DEF Fits, Keyed
<1>10. Logged(s)'
  <2>1. \A m : SameRest(m, s) /\ Logged(m) /\ acked' = acked => Logged(s)'
    BY LoggedSame
  <2> QED
    BY <1>1, <1>2, <1>5, <2>1 DEF Fits, told
<1>11. Fits(disk)'
  BY <1>4, <1>7, <1>8, <1>9, <1>10, FitsEqual DEF Fits
<1>12. Fits(mem) => Fits(mem)'
  <2>1. challenged' = challenged /\ \A e \in Devices : challenged[e] \in Nat
    BY <1>1, <1>2, AndroidConstantsOK DEF RestTypes
  <2>2. Grew /\ challenged' \in [Devices -> Nat]
    BY <1>1, <1>2, <2>1, AndroidConstantsOK DEF Grew, told, RestTypes
  <2> QED
    BY <1>1, <1>2, <2>2, GrownKept
<1>13. Once'
  BY <1>1, <1>2 DEF Once, told
<1>14. disk'.events = disk.events /\ mem'.events = mem.events
       /\ Running' = Running
  BY <1>1, <1>4, <1>5 DEF SameRest, Running
<1> QED
  BY <1>11, <1>12, <1>13, <1>14 DEF Live, Kept

LEMMA LiveKept ==
  ASSUME Live, [Next]_vars, ~overwrote'
  PROVE  Kept'
<1>1. CASE Start \/ StartWithRendezvous
  BY <1>1, StartKept
<1>2. CASE Configure
  BY <1>2, ConfigureKept
<1>3. CASE \/ OpenTunnel \/ TunnelAllocated \/ TunnelDrops
           \/ StartFails \/ Stop \/ Kill
           \/ ToolLoads \/ ToolFails
           \/ UNCHANGED vars
  BY <1>3, IdleKept
<1>4. CASE \E b \in Bootstraps : CreateBootstrap(b)
  BY <1>4, CreateBootstrapKept
<1>5. CASE \E b \in Bootstraps, d \in Devices :
             Redeem(b, d) \/ RedeemSsh(b, d) \/ InstallFails(b, d)
  BY <1>5, RedeemKept, RedeemSshKept, InstallFailsKept
<1>6. CASE \E d \in Devices :
             CreateSshChallenge(d)
             \/ \E n \in Challenges : ReleaseSshCredential(d, n)
  BY <1>6, CreateSshChallengeKept, ReleaseSshCredentialKept
<1>7. CASE \E d \in Devices : Revoke(d) \/ RevokeFails(d) \/ GetBatch(d)
  BY <1>7, RevokeKept, RevokeFailsKept, GetBatchKept
<1>8. CASE \E b \in Batches : PublishBatch(b)
  BY <1>8, PublishBatchKept
<1>9. CASE \E m \in Answer : RouteEvent(m) \/ RepeatEvent(m)
  BY <1>9, RouteEventKept, RepeatEventKept
<1> QED
  BY <1>1, <1>2, <1>3, <1>4, <1>5, <1>6, <1>7, <1>8, <1>9, Zenon DEF Next

-----------------------------------------------------------------------------
\* Types and tunnels, whatever the tools overwrote.

\* A method stores a state, and answers.
LEMMA SaveTypes ==
  ASSUME Basics, NEW s \in State, Saved(s) \/ SaveRaises(s),
         UNCHANGED process, RestTypes'
  PROVE  Basics'
<1>1. /\ disk \in State /\ mem \in State
      /\ ProcessTypes /\ faults \in 0..MaxFaults
  BY TypeParts DEF Basics
<1>2. disk' \in State /\ mem' \in State /\ faults' \in 0..MaxFaults
  BY <1>1, AndroidConstantsOK DEF Saved, SaveRaises
<1>3. ProcessTypes'
  BY <1>1 DEF ProcessTypes, process, service, tools
<1>4. TypeOK'
  BY <1>2, <1>3, TypeParts
<1> QED
  BY <1>4 DEF Basics, TunnelHasService, Running, process, service

LEMMA RedemptionTypes ==
  ASSUME Basics, NEW b \in Bootstraps, NEW d \in Devices,
         Redeem(b, d) \/ RedeemSsh(b, d) \/ InstallFails(b, d)
  PROVE  Basics'
<1>1. /\ disk \in State /\ mem \in State /\ RestTypes
      /\ ProcessTypes /\ faults \in 0..MaxFaults
  BY TypeParts DEF Basics
<1>2. /\ UNCHANGED <<process, challenged, printed, viaSsh, released, served,
                     acked, gone>>
      /\ drawn' = drawn \cup {d}
      /\ registered' \in {registered, registered \cup {<<b, d>>}}
      /\ keys' = keys \/ (d \in SshDevices /\ keys' = keys \cup {d})
      /\ strayed' \in {strayed, strayed \cup {d}}
  BY DEF Redeem, RedeemSsh, InstallFails, SaveAndAnswer, InstallKey, told
<1>3. RestTypes'
  BY <1>1, <1>2 DEF RestTypes
<1>4. PICK s : s = Enrolled(b, d)
  OBVIOUS
<1>5. s \in State
  BY <1>1, <1>4, EnrolledIs
<1>6. CASE Saved(s) \/ SaveRaises(s)
  BY <1>2, <1>3, <1>5, <1>6, SaveTypes
<1>7. CASE UNCHANGED <<disk, mem, faults>>
  <2>1. TypeOK'
    BY <1>1, <1>2, <1>3, <1>7, TypeParts
    DEF ProcessTypes, process, service, tools
  <2> QED
    BY <1>2, <2>1 DEF Basics, TunnelHasService, Running, process, service
<1>8. (Saved(s) \/ SaveRaises(s)) \/ UNCHANGED <<disk, mem, faults>>
  BY <1>4 DEF Redeem, RedeemSsh, InstallFails, SaveAndAnswer
<1> QED
  BY <1>6, <1>7, <1>8

LEMMA ChallengeTypes ==
  ASSUME Basics, NEW d \in Devices,
         \/ CreateSshChallenge(d)
         \/ \E n \in Challenges : ReleaseSshCredential(d, n)
  PROVE  Basics'
<1>1. mem \in State /\ RestTypes
  BY TypeParts DEF Basics
<1>2. ASSUME NEW ns \in SUBSET Challenges, NEW s, s = [mem EXCEPT !.open[d] = ns]
      PROVE  s \in State
  <2>1. \A m \in State : [m EXCEPT !.open[d] = ns] \in State
    BY OpenIs
  <2> QED
    BY <1>1, <1>2, <2>1
<1>3. mem.open[d] \in SUBSET Challenges
  BY <1>1 DEF State
<1>4. CASE CreateSshChallenge(d)
  <2>1. PICK n : n = challenged[d] + 1
    OBVIOUS
  <2>2. /\ challenged[d] \in Nat /\ challenged[d] < MaxChallenges
        /\ challenged' = [challenged EXCEPT ![d] = n]
        /\ UNCHANGED <<process, keys, drawn, printed, viaSsh, told, strayed>>
    BY <1>1, <1>4, <2>1, AndroidConstantsOK DEF RestTypes, CreateSshChallenge
  <2>3. n \in Challenges /\ n \in 0..MaxChallenges /\ challenged'[d] = n
    BY <1>1, <2>1, <2>2, AndroidConstantsOK DEF Challenges, RestTypes
  <2>4. PICK s : s = [mem EXCEPT !.open[d] = mem.open[d] \cup {n}]
    OBVIOUS
  <2>5. Saved(s) \/ SaveRaises(s)
    BY <1>4, <2>3, <2>4 DEF CreateSshChallenge
  <2>6. s \in State
    BY <1>2, <1>3, <2>3, <2>4
  <2>7. RestTypes'
    BY <1>1, <2>2, <2>3 DEF RestTypes, told
  <2> QED
    BY <2>2, <2>5, <2>6, <2>7, SaveTypes
<1>5. ASSUME NEW n \in Challenges, ReleaseSshCredential(d, n)
      PROVE  Basics'
  <2>1. PICK s : s = [mem EXCEPT !.open[d] = mem.open[d] \ {n}]
    OBVIOUS
  <2>2. /\ Saved(s) \/ SaveRaises(s)
        /\ released' \in {released, released \cup {<<d, n>>}}
        /\ UNCHANGED <<process, keys, issued, registered, served, acked, gone,
                       strayed>>
    BY <1>5, <2>1 DEF ReleaseSshCredential, SaveAndAnswer
  <2>3. s \in State
    BY <1>2, <1>3, <2>1
  <2>4. RestTypes'
    BY <1>1, <2>2 DEF RestTypes, issued
  <2> QED
    BY <2>2, <2>3, <2>4, SaveTypes
<1> QED
  BY <1>4, <1>5

LEMMA DeviceTypes ==
  ASSUME Basics, NEW d \in Devices, Revoke(d) \/ RevokeFails(d) \/ GetBatch(d)
  PROVE  Basics'
<1>1. mem \in State /\ RestTypes
  BY TypeParts DEF Basics
<1>2. CASE Revoke(d) \/ RevokeFails(d)
  <2>1. PICK s : s = [mem EXCEPT !.device[d] = "revoked"]
    OBVIOUS
  <2>2. /\ Saved(s) \/ SaveRaises(s)
        /\ gone' \in {gone, gone \cup {d}}
        /\ keys' \in {keys, keys \ {d}}
        /\ strayed' \in {strayed, strayed \cup {d}}
        /\ UNCHANGED <<process, issued, registered, released, served, acked>>
    BY <1>2, <2>1 DEF Revoke, RevokeFails, RemoveKey, told
  <2>3. s \in State
    <3>1. \A m \in State : [m EXCEPT !.device[d] = "revoked"] \in State
      BY RevokedIs
    <3> QED
      BY <1>1, <2>1, <3>1
  <2>4. RestTypes'
    BY <1>1, <2>2 DEF RestTypes, issued
  <2> QED
    BY <2>2, <2>3, <2>4, SaveTypes
<1>3. CASE GetBatch(d)
  <2>1. PICK s : s = mem
    OBVIOUS
  <2>2. /\ Saved(s) \/ SaveRaises(s)
        /\ served' \in {served, served \cup ({<<d, mem.batch>>} \ {<<d, None>>})}
        /\ UNCHANGED <<process, keys, issued, registered, released, acked, gone,
                       strayed>>
    BY <1>3, <2>1 DEF GetBatch, SaveAndAnswer
  <2>3. {<<d, mem.batch>>} \ {<<d, None>>} \subseteq Devices \X Batches
    <3>1. mem.batch \in Batches \cup {None}
      BY <1>1 DEF State
    <3> QED
      BY <3>1
  <2>4. RestTypes'
    BY <1>1, <2>2, <2>3 DEF RestTypes, issued
  <2> QED
    BY <1>1, <2>1, <2>2, <2>4, SaveTypes
<1> QED
  BY <1>2, <1>3

LEMMA BatchTypes ==
  ASSUME Basics,
         \/ \E b \in Batches : PublishBatch(b)
         \/ \E m \in Answer : RouteEvent(m) \/ RepeatEvent(m)
  PROVE  Basics'
<1>1. mem \in State /\ RestTypes
  BY TypeParts DEF Basics
<1>2. ASSUME NEW b \in Batches, PublishBatch(b)
      PROVE  Basics'
  <2>1. PICK s : s = [mem EXCEPT !.batch = b]
    OBVIOUS
  <2>2. /\ Saved(s) \/ SaveRaises(s)
        /\ UNCHANGED <<process, keys, issued, told, strayed>>
    BY <1>2, <2>1 DEF PublishBatch
  <2>3. s \in State
    <3>1. \A m \in State : [m EXCEPT !.batch = b] \in State
      BY PublishedIs
    <3> QED
      BY <1>1, <2>1, <3>1
  <2>4. RestTypes'
    BY <1>1, <2>2 DEF RestTypes, issued, told
  <2> QED
    BY <2>2, <2>3, <2>4, SaveTypes
<1>3. ASSUME NEW m \in Answer, RouteEvent(m) \/ RepeatEvent(m)
      PROVE  Basics'
  <2>1. PICK s : s \in {mem, Accepted(m)} /\ (Saved(s) \/ SaveRaises(s))
    BY <1>3 DEF RouteEvent, RepeatEvent, SaveAndAnswer
  <2>2. /\ acked' \in {acked, acked \cup {m}}
        /\ UNCHANGED <<process, keys, issued, registered, released, served, gone,
                       strayed>>
    BY <1>3 DEF RouteEvent, RepeatEvent, SaveAndAnswer
  <2>3. s \in State
    BY <1>1, <2>1, AcceptedIs
  <2>4. RestTypes'
    BY <1>1, <2>2 DEF RestTypes, issued
  <2> QED
    BY <2>1, <2>2, <2>3, <2>4, SaveTypes
<1> QED
  BY <1>2, <1>3

\* A tunnel is opened by a service that starts, closed by one that ends, and
\* ownerless behind one that was killed.
LEMMA ServiceTypes ==
  ASSUME Basics,
         \/ Start \/ StartWithRendezvous
         \/ OpenTunnel \/ TunnelAllocated \/ TunnelDrops
         \/ Configure
         \/ StartFails \/ Stop \/ Kill
  PROVE  Basics'
<1>1. /\ TypeOK /\ disk \in State /\ mem \in State /\ ProcessTypes /\ RestTypes
      /\ faults \in 0..MaxFaults
      /\ up \in BOOLEAN /\ starting \in BOOLEAN /\ ssh \in BOOLEAN
      /\ tunnel \in {"none", "opening", "open", "lost", "ownerless"}
      /\ ~(up /\ starting) /\ TunnelHasService
  BY TypeParts DEF Basics, ProcessTypes
<1>2. UNCHANGED <<tools, keys, issued, told, strayed>>
  BY DEF Start, StartWithRendezvous, Loads, OpenTunnel, TunnelAllocated,
         TunnelDrops, Configure, StartFails, Stop, Kill, Ends
<1>3. disk' \in State /\ mem' \in State /\ faults' \in 0..MaxFaults
  <2>1. CASE Configure
    <3>1. [mem EXCEPT !.rendezvous = TRUE] \in State
      BY <1>1, ConfiguredIs
    <3> QED
      BY <1>1, <2>1, <3>1 DEF Configure, Saved
  <2>2. CASE ~Configure
    BY <1>1, <2>2, NewStateIs
    DEF Start, StartWithRendezvous, Loads, OpenTunnel, TunnelAllocated,
        TunnelDrops, StartFails, Stop, Kill, Ends
  <2> QED
    BY <2>1, <2>2
<1>4. /\ up' \in BOOLEAN /\ starting' \in BOOLEAN /\ ssh' \in BOOLEAN
      /\ tunnel' \in {"none", "opening", "open", "lost", "ownerless"}
      /\ ~(up' /\ starting')
      /\ tunnel' \in {"opening", "open"} => Running'
  <2>1. CASE Start \/ StartWithRendezvous
    <3>1. up = FALSE /\ starting = FALSE
      BY <1>1, <2>1, Zenon DEF Start, StartWithRendezvous, Loads, Running
    <3>2. \/ up' = TRUE /\ starting' = FALSE
          \/ up' = FALSE /\ starting' = TRUE
      BY <2>1, <3>1 DEF Start, StartWithRendezvous
    <3> QED
      BY <1>1, <2>1, <3>2 DEF Start, StartWithRendezvous, Loads, Running
  <2>2. CASE OpenTunnel \/ TunnelAllocated \/ TunnelDrops
    BY <1>1, <2>2
    DEF OpenTunnel, TunnelAllocated, TunnelDrops, Running, TunnelHasService
  <2>3. CASE Configure
    BY <1>1, <2>3 DEF Configure, Running
  <2>4. CASE StartFails
    <3>1. up = FALSE
      BY <1>1, <2>4, Zenon DEF StartFails
    <3>2. up' = FALSE /\ starting' = FALSE /\ ssh' = ssh
          /\ tunnel' \in {"none", "ownerless"}
      BY <2>4, <3>1 DEF StartFails, CloseTunnel
    <3> QED
      BY <1>1, <3>2
  <2>5. CASE Stop \/ Kill
    <3>1. up' = FALSE /\ starting' = FALSE /\ ssh' = FALSE
          /\ tunnel' \in {"none", "ownerless"}
      BY <2>5 DEF Stop, Kill, Ends, CloseTunnel
    <3> QED
      BY <3>1
  <2> QED
    BY <2>1, <2>2, <2>3, <2>4, <2>5
<1>5. RestTypes' /\ ProcessTypes'
  BY <1>1, <1>2, <1>4 DEF RestTypes, ProcessTypes, tools, issued, told
<1>6. TypeOK'
  BY <1>3, <1>5, TypeParts
<1> QED
  BY <1>4, <1>6 DEF Basics, TunnelHasService

LEMMA ToolTypes ==
  ASSUME Basics,
         \/ ToolLoads \/ ToolFails
         \/ \E b \in Bootstraps : CreateBootstrap(b)
         \/ UNCHANGED vars
  PROVE  Basics'
<1>1. /\ disk \in State /\ mem \in State /\ ProcessTypes /\ RestTypes
      /\ faults \in 0..MaxFaults
  BY TypeParts DEF Basics
<1>2. UNCHANGED <<mem, service, faults>>
  BY DEF ToolLoads, ToolFails, CreateBootstrap, vars, process
<1>3. CASE ToolLoads \/ ToolFails \/ UNCHANGED vars
  <2>1. disk' = disk /\ ProcessTypes' /\ RestTypes'
    BY <1>1, <1>2, <1>3, NewStateIs
    DEF ToolLoads, ToolFails, vars, process, service, tools, issued, told,
        ProcessTypes, RestTypes
  <2>2. TypeOK'
    BY <1>1, <1>2, <2>1, TypeParts
  <2> QED
    BY <1>2, <2>2 DEF Basics, TunnelHasService, Running, service
<1>4. ASSUME NEW b \in Bootstraps, CreateBootstrap(b)
      PROVE  Basics'
  <2>1. disk' \in State
    <3>1. \A m \in State : [m EXCEPT !.boot[b] = "open"] \in State
      BY BootIs
    <3> QED
      BY <1>1, <1>4, <3>1 DEF CreateBootstrap, ProcessTypes
  <2>2. RestTypes'
    BY <1>1, <1>4 DEF CreateBootstrap, RestTypes, told
  <2>3. ProcessTypes'
    <3>1. overwrote' \in BOOLEAN
      BY <1>4 DEF CreateBootstrap, Overwrites
    <3> QED
      BY <1>1, <1>2, <1>4, <3>1, NewStateIs
      DEF CreateBootstrap, ProcessTypes, service
  <2>4. TypeOK'
    BY <1>1, <1>2, <2>1, <2>2, <2>3, TypeParts
  <2> QED
    BY <1>2, <2>4 DEF Basics, TunnelHasService, Running, service
<1> QED
  BY <1>3, <1>4

LEMMA BasicsKept ==
  ASSUME Basics, [Next]_vars
  PROVE  Basics'
<1>1. CASE \/ Start \/ StartWithRendezvous
           \/ OpenTunnel \/ TunnelAllocated \/ TunnelDrops
           \/ Configure
           \/ StartFails \/ Stop \/ Kill
  BY <1>1, ServiceTypes
<1>2. CASE \/ ToolLoads \/ ToolFails
           \/ \E b \in Bootstraps : CreateBootstrap(b)
           \/ UNCHANGED vars
  BY <1>2, ToolTypes
<1>3. CASE \E b \in Bootstraps, d \in Devices :
             Redeem(b, d) \/ RedeemSsh(b, d) \/ InstallFails(b, d)
  BY <1>3, RedemptionTypes
<1>4. CASE \E d \in Devices :
             CreateSshChallenge(d)
             \/ \E n \in Challenges : ReleaseSshCredential(d, n)
  BY <1>4, ChallengeTypes
<1>5. CASE \E d \in Devices : Revoke(d) \/ RevokeFails(d) \/ GetBatch(d)
  BY <1>5, DeviceTypes
<1>6. CASE \/ \E b \in Batches : PublishBatch(b)
           \/ \E m \in Answer : RouteEvent(m) \/ RepeatEvent(m)
  BY <1>6, BatchTypes
<1> QED
  BY <1>1, <1>2, <1>3, <1>4, <1>5, <1>6, Zenon DEF Next

-----------------------------------------------------------------------------
\* The theorems.

LEMMA InitHolds ==
  Init => IInv
<1> SUFFICES ASSUME Init PROVE IInv
  OBVIOUS
<1>1. /\ disk = NewState /\ ~Running /\ tunnel = "none"
      /\ keys = {} /\ registered = {} /\ released = {} /\ gone = {}
      /\ acked = {}
  BY DEF Init, Running
<1>2. Basics
  <2>1. RestTypes /\ faults \in 0..MaxFaults
    BY AndroidConstantsOK DEF Init, RestTypes
  <2>2. ProcessTypes
    BY NewStateIs DEF Init, ProcessTypes
  <2>3. TypeOK
    BY <2>1, <2>2, NewStateIs DEF Init, TypeOK, RestTypes, ProcessTypes
  <2> QED
    BY <1>1, <2>3 DEF Basics, TunnelHasService, Init
<1>3. Fits(disk)
  <2>1. Drawn(disk) /\ Spent(disk) /\ Keyed(disk)
    BY <1>1, AndroidConstantsOK DEF Drawn, Spent, Keyed, NewState
  <2>2. Logged(disk)
    <3>1. disk.events = <<>> /\ DOMAIN disk.events = {}
      BY <1>1 DEF NewState
    <3>2. \A a \in Answer : disk.seen[a.stream][a.seq] # a.batch
      BY <1>1, AndroidConstantsOK DEF NewState, Answer
    <3> QED
      BY <1>1, <3>1, <3>2 DEF Logged, Log!InOrder
  <2> QED
    BY <2>1, <2>2 DEF Fits
<1> QED
  BY <1>1, <1>2, <1>3 DEF IInv, Kept, Once

\* What was overwritten stays so.
LEMMA OverwroteStays ==
  ASSUME [Next]_vars, overwrote
  PROVE  overwrote'
<1>1. CASE \E b \in Bootstraps : CreateBootstrap(b)
  BY <1>1 DEF CreateBootstrap, Overwrites
<1>2. CASE UNCHANGED overwrote
  BY <1>2
<1>3. \/ Start \/ StartWithRendezvous \/ OpenTunnel \/ TunnelAllocated
      \/ TunnelDrops \/ Configure \/ StartFails \/ Stop \/ Kill
      \/ ToolLoads \/ ToolFails \/ UNCHANGED vars
      => UNCHANGED overwrote
  BY DEF Start, StartWithRendezvous, Loads, OpenTunnel, TunnelAllocated,
         TunnelDrops, Configure, StartFails, Stop, Kill, Ends, ToolLoads,
         ToolFails, vars, process, tools
<1>4. (\E b \in Bootstraps, d \in Devices :
         Redeem(b, d) \/ RedeemSsh(b, d) \/ InstallFails(b, d))
      => UNCHANGED overwrote
  BY DEF Redeem, RedeemSsh, InstallFails, process, tools
<1>5. (\E d \in Devices :
         \/ CreateSshChallenge(d)
         \/ \E n \in Challenges : ReleaseSshCredential(d, n)
         \/ Revoke(d) \/ RevokeFails(d) \/ GetBatch(d))
      => UNCHANGED overwrote
  BY DEF CreateSshChallenge, ReleaseSshCredential, Revoke, RevokeFails,
         GetBatch, process, tools
<1>6. \/ \E b \in Batches : PublishBatch(b)
      \/ \E m \in Answer : RouteEvent(m) \/ RepeatEvent(m)
      => UNCHANGED overwrote
  BY DEF PublishBatch, RouteEvent, RepeatEvent, process, tools
<1> QED
  BY <1>1, <1>2, <1>3, <1>4, <1>5, <1>6, Zenon DEF Next

LEMMA NextKept ==
  ASSUME IInv, [Next]_vars
  PROVE  IInv'
<1>1. Basics'
  BY BasicsKept DEF IInv
<1>2. ASSUME ~overwrote'
      PROVE  Kept'
  <2>1. Live
    BY <1>2, OverwroteStays DEF IInv, Live
  <2> QED
    BY <1>2, <2>1, LiveKept
<1> QED
  BY <1>1, <1>2 DEF IInv

\* The inductive invariant holds in every state that the service, its phones
\* and the pairing tools can reach.
THEOREM Invariant ==
  Spec => []IInv
<1>1. IInv /\ [Next]_vars => IInv'
  BY NextKept
<1> QED
  BY InitHolds, <1>1, PTL DEF Spec

\* The file, the memory and what the phones know keep their types over every
\* failed write, every restart and every save of a tool.
THEOREM TypeCorrect ==
  Spec => []TypeOK
<1>1. IInv => TypeOK
  BY DEF IInv, Basics
<1> QED
  BY <1>1, Invariant, PTL

\* Until a tool saves over changes made since its load: a QR code registers one
\* phone and a challenge releases one credential, in the memory of every later
\* service, too.
THEOREM SpentForGood ==
  Spec => []OneTimeIsSpent
<1>1. IInv => OneTimeIsSpent
  BY DEF IInv, Kept, OneTimeIsSpent, Fits, Spent, Once, Running
<1> QED
  BY <1>1, Invariant, PTL

\* Until a tool saves over changes made since its load: once revoke has
\* returned, no start and no later save gives the device back its place, and a
\* key that is left is a known one.
THEOREM RevokedForGood ==
  Spec => []RevocationIsFinal
<1>1. IInv => RevocationIsFinal
  BY DEF IInv, Kept, RevocationIsFinal, Fits, Spent, Once, Running
<1> QED
  BY <1>1, Invariant, PTL

\* Until a tool saves over changes made since its load: no crash between the
\* installer and the save leaves an active device without its line on the
\* rendezvous host.
THEOREM KeysMatchDevices ==
  Spec => []EnrolledHasKey
<1>1. IInv => EnrolledHasKey
  BY DEF IInv, Kept, EnrolledHasKey, Fits, Keyed
<1> QED
  BY <1>1, Invariant, PTL

\* Until a tool saves over changes made since its load: a line there that no
\* active device owns was left by a save or an installer that failed, or by a
\* revocation without an installer.
THEOREM KeysAreExplained ==
  Spec => []KeysAreAccounted
<1>1. IInv => KeysAreAccounted
  BY DEF IInv, Kept, KeysAreAccounted, Fits, Keyed
<1> QED
  BY <1>1, Invariant, PTL

\* No way out of the start of the service, and no orderly end of it, leaves its
\* tunnel open; one that a killed service leaves is ownerless.
THEOREM TunnelsAreOwned ==
  Spec => []TunnelHasService
<1>1. IInv => TunnelHasService
  BY DEF IInv, Basics
<1> QED
  BY <1>1, Invariant, PTL

-----------------------------------------------------------------------------
\* The file implements the answer log.

\* A save puts into the file what is in memory, whose log is no shorter.
LEMMA SaveExtends ==
  ASSUME Live, up, disk' = disk \/ disk' = mem', mem'.events = mem.events
  PROVE  IsPrefix(disk.events, disk'.events)
<1>1. disk.events \in Seq(Answer) /\ IsPrefix(disk.events, mem.events)
  BY Serving
<1>2. CASE disk' = disk
  BY <1>1, <1>2, PrefixReflexive
<1>3. CASE disk' = mem'
  BY <1>1, <1>3
<1> QED
  BY <1>2, <1>3

LEMMA SavesSame ==
  ASSUME Live, up, NEW s, Saved(s) \/ SaveRaises(s), s.events = mem.events
  PROVE  IsPrefix(disk.events, disk'.events)
<1>1. mem' = s /\ (disk' = disk \/ disk' = mem')
  BY DEF Saved, SaveRaises
<1> QED
  BY <1>1, SaveExtends

LEMMA FileKept ==
  ASSUME Live, disk'.events = disk.events
  PROVE  IsPrefix(disk.events, disk'.events)
<1>1. disk.events \in Seq(Answer)
  BY DEF Live, Basics, TypeOK, State
<1> QED
  BY <1>1, PrefixReflexive

\* The log in the file grows by appending, in every step that
\* overwrites nothing.
LEMMA FileGrows ==
  ASSUME Live, [Next]_vars, ~overwrote'
  PROVE  IsPrefix(disk.events, disk'.events) /\ acked \subseteq acked'
<1>1. CASE /\ disk' = disk /\ acked' = acked
  BY <1>1, FileKept
<1>2. \/ Start \/ StartWithRendezvous \/ OpenTunnel \/ TunnelAllocated
      \/ TunnelDrops \/ StartFails \/ Stop \/ Kill \/ ToolLoads \/ ToolFails
      \/ UNCHANGED vars
      \/ \E b \in Bootstraps, d \in Devices : InstallFails(b, d)
      => disk' = disk /\ acked' = acked
  BY DEF Start, StartWithRendezvous, Loads, OpenTunnel, TunnelAllocated,
         TunnelDrops, StartFails, Stop, Kill, Ends, ToolLoads, ToolFails,
         InstallFails, vars, told
<1>3. ASSUME NEW s, up, Saved(s) \/ SaveRaises(s), s.events = mem.events
      PROVE  IsPrefix(disk.events, disk'.events)
  BY <1>3, SavesSame
<1>4. mem \in State /\ disk \in State
  BY DEF Live, Basics, TypeOK
<1>5. CASE Configure
  <2>1. PICK s : s = [mem EXCEPT !.rendezvous = TRUE]
    OBVIOUS
  <2>2. disk' = s /\ acked' = acked /\ starting
    BY <2>1, <1>5 DEF Configure, Saved, told
  <2>3. s.events = mem.events
    BY <2>1, <1>4 DEF State
  <2>4. IsPrefix(disk.events, mem.events)
    BY <2>2 DEF Live, Kept, Running
  <2> QED
    BY <2>2, <2>3, <2>4
<1>6. CASE \E b \in Bootstraps : CreateBootstrap(b)
  <2>1. PICK b \in Bootstraps : CreateBootstrap(b)
    BY <1>6
  <2>2. disk' = [disk EXCEPT !.boot[b] = "open"] /\ acked' = acked
    BY <2>1 DEF CreateBootstrap, Overwrites, told
  <2>3. disk'.events = disk.events
    BY <2>2, <1>4 DEF State
  <2> QED
    BY <2>2, <2>3, FileKept
<1>7. CASE \E b \in Bootstraps, d \in Devices : Redeem(b, d) \/ RedeemSsh(b, d)
  <2>1. PICK b \in Bootstraps, d \in Devices : Redeem(b, d) \/ RedeemSsh(b, d)
    BY <1>7
  <2>2. PICK s : s = Enrolled(b, d)
    OBVIOUS
  <2>3. up /\ (Saved(s) \/ SaveRaises(s)) /\ acked' = acked
    BY <2>1, <2>2 DEF Redeem, RedeemSsh, CanRedeem, SaveAndAnswer
  <2>4. s.events = mem.events
    BY <2>2, <1>4 DEF Enrolled, State
  <2> QED
    BY <1>3, <2>3, <2>4
<1>8. CASE \E d \in Devices : CreateSshChallenge(d)
  <2>1. PICK d \in Devices : CreateSshChallenge(d)
    BY <1>8
  <2>2. PICK n : n = challenged'[d]
    OBVIOUS
  <2>3. PICK s : s = [mem EXCEPT !.open[d] = mem.open[d] \cup {n}]
    OBVIOUS
  <2>4. up /\ (Saved(s) \/ SaveRaises(s)) /\ acked' = acked
    BY <2>1, <2>2, <2>3 DEF CreateSshChallenge, ActiveSsh, told
  <2>5. s.events = mem.events
    BY <2>3, <1>4 DEF State
  <2> QED
    BY <1>3, <2>4, <2>5
<1>9. CASE \E d \in Devices, n \in Challenges : ReleaseSshCredential(d, n)
  <2>1. PICK d \in Devices, n \in Challenges : ReleaseSshCredential(d, n)
    BY <1>9
  <2>2. PICK s : s = [mem EXCEPT !.open[d] = mem.open[d] \ {n}]
    OBVIOUS
  <2>3. up /\ (Saved(s) \/ SaveRaises(s)) /\ acked' = acked
    BY <2>1, <2>2 DEF ReleaseSshCredential, ActiveSsh, SaveAndAnswer
  <2>4. s.events = mem.events
    BY <2>2, <1>4 DEF State
  <2> QED
    BY <1>3, <2>3, <2>4
<1>10. CASE \E d \in Devices : Revoke(d) \/ RevokeFails(d)
  <2>1. PICK d \in Devices : Revoke(d) \/ RevokeFails(d)
    BY <1>10
  <2>2. PICK s : s = [mem EXCEPT !.device[d] = "revoked"]
    OBVIOUS
  <2>3. up /\ (Saved(s) \/ SaveRaises(s)) /\ acked' = acked
    BY <2>1, <2>2 DEF Revoke, RevokeFails, told
  <2>4. s.events = mem.events
    BY <2>2, <1>4 DEF State
  <2> QED
    BY <1>3, <2>3, <2>4
<1>11. CASE \E b \in Batches : PublishBatch(b)
  <2>1. PICK b \in Batches : PublishBatch(b)
    BY <1>11
  <2>2. PICK s : s = [mem EXCEPT !.batch = b]
    OBVIOUS
  <2>3. up /\ (Saved(s) \/ SaveRaises(s)) /\ acked' = acked
    BY <2>1, <2>2 DEF PublishBatch, told
  <2>4. s.events = mem.events
    BY <2>2, <1>4 DEF State
  <2> QED
    BY <1>3, <2>3, <2>4
<1>12. CASE \/ \E d \in Devices : GetBatch(d)
            \/ \E m \in Answer : RepeatEvent(m)
  <2>1. PICK s : s = mem
    OBVIOUS
  <2>2. up /\ (Saved(s) \/ SaveRaises(s)) /\ acked \subseteq acked'
    BY <1>12, <2>1
    DEF GetBatch, RepeatEvent, FromActiveDevice, SaveAndAnswer
  <2> QED
    BY <1>3, <2>1, <2>2
<1>13. CASE \E m \in Answer : RouteEvent(m)
  <2>1. PICK m \in Answer : RouteEvent(m)
    BY <1>13
  <2>2. PICK s : s = Accepted(m)
    OBVIOUS
  <2>3. up /\ (disk' = disk \/ disk' = s) /\ acked \subseteq acked'
    BY <2>1, <2>2
    DEF RouteEvent, FromActiveDevice, SaveAndAnswer, Saved, SaveRaises
  <2>4. s.events = Append(mem.events, m)
    BY <2>2, <1>4, AcceptedIs
  <2>5. /\ disk.events \in Seq(Answer) /\ mem.events \in Seq(Answer)
        /\ IsPrefix(disk.events, mem.events)
    BY <2>3, Serving
  <2>6. IsPrefix(disk.events, s.events)
    BY <2>4, <2>5, PrefixAppend
  <2>7. CASE disk' = disk
    BY <2>3, <2>7, FileKept
  <2>8. CASE disk' = s
    BY <2>3, <2>6, <2>8
  <2> QED
    BY <2>3, <2>7, <2>8
<1> QED
  BY <1>1, <1>2, <1>5, <1>6, <1>7, <1>8, <1>9, <1>10, <1>11, <1>12, <1>13,
     Zenon DEF Next

\* What the file holds is the log of answers that the phones were promised:
\* until a tool saves over changes made since its load, it only grows, in the
\* order of the numbers, and never lacks an answer that was acknowledged, over
\* lost answers, failed writes and restarts.
THEOREM AnswersAreKept ==
  Spec => ImplementsAnswerLog
<1>1. Init => Log!Init
  BY DEF Init, NewState, Log!Init
<1>2. ASSUME IInv, IInv', [Next]_vars
      PROVE  [~overwrote' => Log!Next]_<<disk.events, acked>>
  <2> SUFFICES ASSUME ~overwrote' PROVE Log!Next
    OBVIOUS
  <2>1. Live
    BY <1>2, OverwroteStays DEF IInv, Live
  <2>2. IsPrefix(disk.events, disk'.events) /\ acked \subseteq acked'
    BY <1>2, <2>1, FileGrows
  <2>3. Log!InOrder(disk'.events) /\ acked' \subseteq ToSet(disk'.events)
    BY <1>2 DEF IInv, Kept, Fits, Logged, Log!InOrder
  <2>4. Log!IsPrefix(disk.events, disk'.events)
    BY <2>2 DEF IsPrefix, Log!IsPrefix
  <2>5. acked' \subseteq Log!ToSet(disk'.events)
    BY <2>3 DEF ToSet, Log!ToSet
  <2> QED
    BY <2>2, <2>3, <2>4, <2>5, Zenon DEF Log!Next
<1>3. IInv /\ IInv' /\ [Next]_vars
        => [~overwrote' => Log!Next]_<<disk.events, acked>>
  BY <1>2
<1> QED
  BY <1>1, <1>3, Invariant, PTL DEF Spec, ImplementsAnswerLog

-----------------------------------------------------------------------------
\* The QR codes that are out.

\* Every printed QR code has its bootstrap in m.
Redeems(m) == \A b \in printed : m.boot[b] # "unknown"

\* A tool that waits for the service to end holds what is in the file.
QrInv ==
  /\ Redeems(disk)
  /\ Running => Redeems(mem) /\ ~pairing
  /\ pairing => tool = disk

\* What a service stores keeps every bootstrap it has.
LEMMA SavedRedeems ==
  ASSUME QrInv, Running, printed \subseteq Bootstraps, NEW s,
         Saved(s) \/ SaveRaises(s),
         \A b \in Bootstraps : mem.boot[b] # "unknown" => s.boot[b] # "unknown",
         UNCHANGED <<printed, pairing>>
  PROVE  QrInv'
<1>1. mem' = s /\ (disk' = disk \/ disk' = mem')
  BY DEF Saved, SaveRaises
<1>2. \A b \in printed : s.boot[b] # "unknown"
  BY DEF QrInv, Redeems
<1> QED
  BY <1>1, <1>2 DEF QrInv, Redeems

\* The methods of the service that save, each with the bootstraps it stores.
LEMMA MethodRedeems ==
  ASSUME Basics, QrInv,
         \/ Configure
         \/ \E b \in Bootstraps, d \in Devices : Redeem(b, d) \/ RedeemSsh(b, d)
         \/ \E d \in Devices :
              \/ CreateSshChallenge(d)
              \/ \E n \in Challenges : ReleaseSshCredential(d, n)
              \/ Revoke(d) \/ RevokeFails(d) \/ GetBatch(d)
         \/ \E b \in Batches : PublishBatch(b)
         \/ \E m \in Answer : RouteEvent(m) \/ RepeatEvent(m)
  PROVE  QrInv'
<1>1. mem \in State /\ printed \subseteq Bootstraps
  BY DEF Basics, TypeOK
<1>2. ASSUME NEW s, Running, Saved(s) \/ SaveRaises(s), s.boot = mem.boot,
             UNCHANGED <<printed, pairing>>
      PROVE  QrInv'
  BY <1>1, <1>2, SavedRedeems
<1>3. CASE Configure
  <2>1. PICK s : s = [mem EXCEPT !.rendezvous = TRUE]
    OBVIOUS
  <2>2. Running /\ Saved(s) /\ UNCHANGED <<printed, pairing>>
    BY <1>3, <2>1 DEF Configure, Running, issued, process, tools
  <2>3. s.boot = mem.boot
    BY <1>1, <2>1 DEF State
  <2> QED
    BY <1>2, <2>2, <2>3
<1>4. CASE \E b \in Bootstraps, d \in Devices : Redeem(b, d) \/ RedeemSsh(b, d)
  <2>1. PICK b \in Bootstraps, d \in Devices : Redeem(b, d) \/ RedeemSsh(b, d)
    BY <1>4
  <2>2. PICK s : s = Enrolled(b, d)
    OBVIOUS
  <2>3. Running /\ (Saved(s) \/ SaveRaises(s)) /\ UNCHANGED <<printed, pairing>>
    BY <2>1, <2>2
    DEF Redeem, RedeemSsh, CanRedeem, SaveAndAnswer, Running, process, tools
  <2>4. s.boot = [mem.boot EXCEPT ![b] = "redeemed"]
    BY <1>1, <2>2, EnrolledIs
  <2>5. \A c \in Bootstraps : mem.boot[c] # "unknown" => s.boot[c] # "unknown"
    BY <1>1, <2>4 DEF State
  <2> QED
    BY <1>1, <2>3, <2>5, SavedRedeems
<1>5. CASE \E d \in Devices : CreateSshChallenge(d)
  <2>1. PICK d \in Devices : CreateSshChallenge(d)
    BY <1>5
  <2>2. PICK n : n = challenged'[d]
    OBVIOUS
  <2>3. PICK s : s = [mem EXCEPT !.open[d] = mem.open[d] \cup {n}]
    OBVIOUS
  <2>4. Running /\ (Saved(s) \/ SaveRaises(s)) /\ UNCHANGED <<printed, pairing>>
    BY <2>1, <2>2, <2>3
    DEF CreateSshChallenge, ActiveSsh, Running, process, tools
  <2>5. s.boot = mem.boot
    BY <1>1, <2>3 DEF State
  <2> QED
    BY <1>2, <2>4, <2>5
<1>6. CASE \E d \in Devices, n \in Challenges : ReleaseSshCredential(d, n)
  <2>1. PICK d \in Devices, n \in Challenges : ReleaseSshCredential(d, n)
    BY <1>6
  <2>2. PICK s : s = [mem EXCEPT !.open[d] = mem.open[d] \ {n}]
    OBVIOUS
  <2>3. Running /\ (Saved(s) \/ SaveRaises(s)) /\ UNCHANGED <<printed, pairing>>
    BY <2>1, <2>2
    DEF ReleaseSshCredential, ActiveSsh, SaveAndAnswer, Running, issued,
        process, tools
  <2>4. s.boot = mem.boot
    BY <1>1, <2>2 DEF State
  <2> QED
    BY <1>2, <2>3, <2>4
<1>7. CASE \E d \in Devices : Revoke(d) \/ RevokeFails(d)
  <2>1. PICK d \in Devices : Revoke(d) \/ RevokeFails(d)
    BY <1>7
  <2>2. PICK s : s = [mem EXCEPT !.device[d] = "revoked"]
    OBVIOUS
  <2>3. Running /\ (Saved(s) \/ SaveRaises(s)) /\ UNCHANGED <<printed, pairing>>
    BY <2>1, <2>2 DEF Revoke, RevokeFails, Running, issued, process, tools
  <2>4. s.boot = mem.boot
    BY <1>1, <2>2 DEF State
  <2> QED
    BY <1>2, <2>3, <2>4
<1>8. CASE \E b \in Batches : PublishBatch(b)
  <2>1. PICK b \in Batches : PublishBatch(b)
    BY <1>8
  <2>2. PICK s : s = [mem EXCEPT !.batch = b]
    OBVIOUS
  <2>3. Running /\ (Saved(s) \/ SaveRaises(s)) /\ UNCHANGED <<printed, pairing>>
    BY <2>1, <2>2 DEF PublishBatch, Running, issued, process, tools
  <2>4. s.boot = mem.boot
    BY <1>1, <2>2 DEF State
  <2> QED
    BY <1>2, <2>3, <2>4
<1>9. CASE \/ \E d \in Devices : GetBatch(d)
           \/ \E m \in Answer : RepeatEvent(m)
  <2>1. PICK s : s = mem
    OBVIOUS
  <2>2. Running /\ (Saved(s) \/ SaveRaises(s)) /\ UNCHANGED <<printed, pairing>>
    BY <1>9, <2>1
    DEF GetBatch, RepeatEvent, FromActiveDevice, SaveAndAnswer, Running,
        issued, process, tools
  <2> QED
    BY <1>2, <2>1, <2>2
<1>10. CASE \E m \in Answer : RouteEvent(m)
  <2>1. PICK m \in Answer : RouteEvent(m)
    BY <1>10
  <2>2. PICK s : s = Accepted(m)
    OBVIOUS
  <2>3. Running /\ (Saved(s) \/ SaveRaises(s)) /\ UNCHANGED <<printed, pairing>>
    BY <2>1, <2>2
    DEF RouteEvent, FromActiveDevice, SaveAndAnswer, Running, issued,
        process, tools
  <2>4. s.boot = mem.boot
    BY <1>1, <2>2, AcceptedIs
  <2> QED
    BY <1>2, <2>3, <2>4
<1> QED
  BY <1>3, <1>4, <1>5, <1>6, <1>7, <1>8, <1>9, <1>10, Zenon

\* The steps that save nothing, and those of the tools.
LEMMA RestRedeems ==
  ASSUME Basics, Overlap = FALSE, QrInv,
         \/ Start \/ StartWithRendezvous
         \/ OpenTunnel \/ TunnelAllocated \/ TunnelDrops
         \/ StartFails \/ Stop \/ Kill
         \/ ToolLoads \/ ToolFails
         \/ \E b \in Bootstraps : CreateBootstrap(b)
         \/ \E b \in Bootstraps, d \in Devices : InstallFails(b, d)
         \/ UNCHANGED vars
  PROVE  QrInv'
<1>1. CASE Start \/ StartWithRendezvous
  BY <1>1 DEF Start, StartWithRendezvous, Loads, QrInv, Redeems, issued, tools
<1>2. CASE StartFails \/ Stop \/ Kill
  <2>1. ~Running'
    <3>1. CASE StartFails
      <4>1. up = FALSE
        BY <3>1, Zenon DEF StartFails, Basics, TypeOK
      <4> QED
        BY <3>1, <4>1 DEF StartFails, Running
    <3>2. CASE Stop \/ Kill
      BY <3>2 DEF Stop, Kill, Ends, Running
    <3> QED
      BY <1>2, <3>1, <3>2
  <2>2. UNCHANGED <<disk, printed, pairing, tool>>
    BY <1>2 DEF StartFails, Stop, Kill, Ends, issued, tools
  <2> QED
    BY <2>1, <2>2 DEF QrInv, Redeems
<1>3. CASE \E b \in Bootstraps : CreateBootstrap(b)
  <2>1. PICK b \in Bootstraps : CreateBootstrap(b)
    BY <1>3
  <2>2. /\ disk' = [disk EXCEPT !.boot[b] = "open"]
        /\ printed' = printed \cup {b}
        /\ ~Running' /\ ~pairing'
    BY <2>1 DEF CreateBootstrap, QrInv, Running, service
  <2>3. disk \in State /\ printed \subseteq Bootstraps
    BY DEF Basics, TypeOK
  <2>4. disk'.boot = [disk.boot EXCEPT ![b] = "open"]
    BY <2>2, <2>3 DEF State
  <2>5. disk.boot \in [Bootstraps -> {"unknown", "open", "redeemed"}]
    BY <2>3 DEF State
  <2>6. \A c \in printed' : disk'.boot[c] # "unknown"
    BY <2>2, <2>3, <2>4, <2>5 DEF QrInv, Redeems
  <2> QED
    BY <2>2, <2>6 DEF QrInv, Redeems
<1>4. CASE \/ OpenTunnel \/ TunnelAllocated \/ TunnelDrops
           \/ \E b \in Bootstraps, d \in Devices : InstallFails(b, d)
           \/ UNCHANGED vars
  <2>1. UNCHANGED <<disk, mem, up, starting, printed, pairing, tool>>
    BY <1>4 DEF OpenTunnel, TunnelAllocated, TunnelDrops, InstallFails, vars,
                process, service, tools, issued
  <2> QED
    BY <2>1 DEF QrInv, Redeems, Running
<1>5. CASE ToolLoads \/ ToolFails
  <2>1. /\ UNCHANGED <<disk, mem, up, starting, printed>>
        /\ pairing' => ~Running /\ tool' = disk
    BY <1>5 DEF ToolLoads, ToolFails, issued, service
  <2> QED
    BY <2>1 DEF QrInv, Redeems, Running
<1> QED
  BY <1>1, <1>2, <1>3, <1>4, <1>5

\* A running service can redeem every QR code that is out, as
\* docs/ANDROID_SERVICE.md has it of awui-android-pair, provided that the
\* tools write the state file only while no service has read it: the run
\* android_pair shows that reusing a running service, as the pairing command
\* does, breaks it.
THEOREM QrCodesAreKnown ==
  ASSUME Overlap = FALSE
  PROVE  Spec => []PrintedQrIsKnown
<1>1. Init => QrInv
  BY DEF Init, QrInv, Redeems, Running
<1>2. ASSUME IInv, QrInv, [Next]_vars
      PROVE  QrInv'
  <2>1. Basics
    BY <1>2 DEF IInv
  <2> QED
    BY <1>2, <2>1, MethodRedeems, RestRedeems, Zenon DEF Next
<1>3. QrInv => PrintedQrIsKnown
  BY DEF QrInv, Redeems, PrintedQrIsKnown, Running
<1> QED
  BY <1>1, <1>2, <1>3, Invariant, PTL DEF Spec

=============================================================================
