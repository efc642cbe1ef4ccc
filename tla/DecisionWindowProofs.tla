------------------------- MODULE DecisionWindowProofs -------------------------
(***************************************************************************)
(* Machine-checked proofs about DecisionWindow, for any envelopes, any     *)
(* number of events and faults, and any size of the audit.                 *)
(*                                                                         *)
(* The safety properties speak of "the last event that ...", chosen from   *)
(* the record of the sink.  The inductive invariant says the same of some  *)
(* event with no such event after it (Told, LastSave, Shows), which is     *)
(* what a step keeps: it records one event more, or leaves the record      *)
(* alone.  What it adds to them is how far the answers, the digest of the  *)
(* last save and the AR are apart while the window is open, and what an    *)
(* edit that is under way may replace.                                     *)
(***************************************************************************)
EXTENDS DecisionWindow, SequenceTheorems, OrderFacts

\* Event e tells the answer of p.
Tells(e, p) == e.kind \in Telling /\ e.point = p

\* The last of the events s on the answer of p tells a.
Told(s, p, a) ==
  \E i \in DOMAIN s :
    /\ Tells(s[i], p) /\ s[i].answer = a
    /\ \A j \in DOMAIN s : Tells(s[j], p) => j <= i

\* d is the snapshot of the last save among the first n of the events s.
LastSave(s, n, d) ==
  \/ d = None /\ \A i \in 1..n : s[i].kind # "save"
  \/ \E i \in 1..n :
       /\ s[i].kind = "save" /\ s[i].snapshot = d
       /\ \A j \in 1..n : s[j].kind = "save" => j <= i

Audited(e) == e.kind \notin {"add-proposal", "audit-view"}

\* Entry n ends the audit of the events s: it is on the last audited one, or
\* on a save that was repeated.
Shows(s, n) ==
  \E i \in DOMAIN s :
    /\ Audited(s[i])
    /\ \A j \in DOMAIN s : Audited(s[j]) => j <= i
    /\ \/ n = Disposition(s[i])
       \/ n = "save" /\ \E j \in DOMAIN s : s[j].kind = "save"

-----------------------------------------------------------------------------
(* The inductive invariant.                                                *)

\* The window is built before anything happens in it, and a dialog keeps it
\* open.
Phase ==
  /\ window = "none" <=> point = None
  /\ window = "none" => packet = <<>> /\ cursor = 1
  /\ point # None => point \in ToSet(packet)
  /\ form # "none" => window = "open"

Filled == \A p \in Points : proposals[p] # <<>>

AnswersAreTold ==
  \A p \in Points :
    responses[p] # None => Told(sink, p, responses[p]) \/ p \in unsent

\* The window and the AR know the last save, each as far as it got, and a
\* point that the packet does not hold has no answer in either.
SavesAreKnown ==
  /\ LastSave(sink, Len(sink), digest)
  /\ LastSave(sink, applied, ar.session)
  /\ saved => digest # None
  /\ \A p \in Points \ ToSet(packet) :
       /\ responses[p] = None
       /\ digest # None => digest.responses[p] = None

\* A window closes on what was saved, unless its last save was lost.
ClosedIsSaved == window = "closed" /\ None \notin unsent => digest = Snapshot

\* While the dialog shows a proposal for an edit, it is an own one.
EditIsOwn ==
  form = "edit" =>
    editing \in DOMAIN proposals[point] /\ proposals[point][editing] \in Own

AuditIsCurrent ==
  faults = 0 =>
    \/ \A i \in DOMAIN sink : ~Audited(sink[i])
    \/ audit # <<>> /\ Shows(sink, audit[Len(audit)])

IInv ==
  /\ TypeOK
  /\ Phase
  /\ Filled
  /\ AnswersAreTold
  /\ SavedIsRecorded
  /\ SavesAreKnown
  /\ ClosedIsSaved
  /\ EditIsOwn
  /\ AuditIsCurrent

-----------------------------------------------------------------------------
(* The record of the sink.                                                 *)

\* A record of one event more.
LEMMA Longer ==
  ASSUME NEW s \in Seq(Events), NEW e \in Events
  PROVE  /\ Append(s, e) \in Seq(Events)
         /\ Len(s) \in Nat
         /\ Len(Append(s, e)) = Len(s) + 1
         /\ DOMAIN s = 1..Len(s)
         /\ DOMAIN Append(s, e) = 1..(Len(s) + 1)
         /\ Append(s, e)[Len(s) + 1] = e
         /\ \A i \in 1..Len(s) : Append(s, e)[i] = s[i]
OBVIOUS

\* An event on something else leaves what was told of a point.
LEMMA ToldStays ==
  ASSUME NEW s \in Seq(Events), NEW e \in Events, NEW p, NEW a,
         Told(s, p, a), ~Tells(e, p)
  PROVE  Told(Append(s, e), p, a)
<1> DEFINE t == Append(s, e)
<1>1. PICK i \in DOMAIN s :
        /\ Tells(s[i], p) /\ s[i].answer = a
        /\ \A j \in DOMAIN s : Tells(s[j], p) => j <= i
  BY DEF Told
<1>2. i \in DOMAIN t /\ t[i] = s[i]
  BY <1>1, Longer
<1>3. \A j \in DOMAIN t : Tells(t[j], p) => j \in DOMAIN s /\ t[j] = s[j]
  BY Longer
<1>4. \A j \in DOMAIN t : Tells(t[j], p) => j <= i
  BY <1>1, <1>3
<1> HIDE DEF t
<1>5. Told(t, p, a)
  BY <1>1, <1>2, <1>4 DEF Told
<1> QED
  BY <1>5 DEF t

\* An event on the answer of a point is the last one.
LEMMA ToldNow ==
  ASSUME NEW s \in Seq(Events), NEW e \in Events, NEW p, Tells(e, p)
  PROVE  Told(Append(s, e), p, e.answer)
<1> DEFINE t == Append(s, e)
           n == Len(s) + 1
<1>1. n \in DOMAIN t /\ t[n] = e /\ \A j \in DOMAIN t : j <= n
  BY Longer
<1> HIDE DEF t, n
<1>2. Told(t, p, e.answer)
  BY <1>1 DEF Told
<1> QED
  BY <1>2 DEF t

\* What the first n events say, they say in a longer record.
LEMMA LastSaveStays ==
  ASSUME NEW s \in Seq(Events), NEW e \in Events, NEW n \in 0..Len(s), NEW d,
         LastSave(s, n, d)
  PROVE  LastSave(Append(s, e), n, d)
<1> DEFINE t == Append(s, e)
<1>1. \A i \in 1..n : t[i] = s[i]
  BY Longer
<1> HIDE DEF t
<1>2. LastSave(t, n, d)
  BY <1>1 DEF LastSave
<1> QED
  BY <1>2 DEF t

\* One event more: a save is the last one, any other changes nothing.
LEMMA LastSaveNext ==
  ASSUME NEW s, NEW n \in Nat, NEW d, LastSave(s, n, d)
  PROVE  /\ s[n + 1].kind = "save" => LastSave(s, n + 1, s[n + 1].snapshot)
         /\ s[n + 1].kind # "save" => LastSave(s, n + 1, d)
<1>1. /\ n + 1 \in 1..(n + 1) /\ \A j \in 1..(n + 1) : j <= n + 1
      /\ \A j \in 1..(n + 1) : j = n + 1 \/ j \in 1..n
      /\ 1..n \subseteq 1..(n + 1)
  OBVIOUS
<1>2. ASSUME s[n + 1].kind = "save"
      PROVE  LastSave(s, n + 1, s[n + 1].snapshot)
  BY <1>1, <1>2 DEF LastSave
<1>3. ASSUME s[n + 1].kind # "save"
      PROVE  LastSave(s, n + 1, d)
  BY <1>1, <1>3 DEF LastSave
<1> QED
  BY <1>2, <1>3

\* There is one last save.
LEMMA OneLastSave ==
  ASSUME NEW s \in Seq(Events), NEW n \in Nat, NEW c, NEW d,
         LastSave(s, n, c), LastSave(s, n, d)
  PROVE  c = d
BY DEF LastSave

\* The event that was recorded last, if it is audited, ends the audit.
LEMMA ShowsNow ==
  ASSUME NEW s \in Seq(Events), NEW e \in Events, Audited(e)
  PROVE  Shows(Append(s, e), Disposition(e))
<1> DEFINE t == Append(s, e)
           n == Len(s) + 1
<1>1. n \in DOMAIN t /\ t[n] = e /\ \A j \in DOMAIN t : j <= n
  BY Longer
<1> HIDE DEF t, n
<1>2. Shows(t, Disposition(e))
  BY <1>1 DEF Shows
<1> QED
  BY <1>2 DEF t

\* An event that is not audited changes nothing for the audit.
LEMMA ShowsStays ==
  ASSUME NEW s \in Seq(Events), NEW e \in Events, ~Audited(e)
  PROVE  /\ \A n : Shows(s, n) => Shows(Append(s, e), n)
         /\ (\A i \in DOMAIN s : ~Audited(s[i])) =>
              \A i \in DOMAIN Append(s, e) : ~Audited(Append(s, e)[i])
<1> DEFINE t == Append(s, e)
<1>1. /\ \A i \in DOMAIN s : i \in DOMAIN t /\ t[i] = s[i]
      /\ \A i \in DOMAIN t : Audited(t[i]) => i \in DOMAIN s /\ t[i] = s[i]
  BY Longer
<1> HIDE DEF t
<1>2. ASSUME NEW n, Shows(s, n)
      PROVE  Shows(t, n)
  BY <1>1, <1>2, Zenon DEF Shows
<1>3. (\A i \in DOMAIN s : ~Audited(s[i])) => \A i \in DOMAIN t : ~Audited(t[i])
  BY <1>1
<1> QED
  BY <1>2, <1>3 DEF t

-----------------------------------------------------------------------------
(* The audit.                                                              *)

\* The audit keeps its bound and ends with what was written last.
LEMMA RecordedAll ==
  ASSUME audit \in Seq(EventTypes), NEW entries \in Seq(EventTypes), entries # <<>>
  PROVE  /\ Recorded(entries) \in Seq(EventTypes)
         /\ Len(Recorded(entries)) <= MaxAudit
         /\ Recorded(entries) # <<>>
         /\ Recorded(entries)[Len(Recorded(entries))] = entries[Len(entries)]
<1> DEFINE all == audit \o entries
           first == IF Len(all) > MaxAudit THEN Len(all) - MaxAudit + 1 ELSE 1
           kept == SubSeq(all, first, Len(all))
<1>1. /\ all \in Seq(EventTypes) /\ Len(all) \in Nat /\ Len(all) >= 1
      /\ all[Len(all)] = entries[Len(entries)]
  <2>1. Len(audit) \in Nat /\ Len(entries) \in Nat \ {0}
    OBVIOUS
  <2>2. /\ all \in Seq(EventTypes) /\ Len(all) = Len(audit) + Len(entries)
        /\ \A i \in 1..Len(entries) : all[Len(audit) + i] = entries[i]
    OBVIOUS
  <2> HIDE DEF all
  <2> QED
    BY <2>1, <2>2
<1>2. /\ MaxAudit \in Nat \ {0}
      /\ first \in 1..Len(all) /\ Len(all) - first + 1 <= MaxAudit
  BY <1>1, WindowConstantsOK
<1>3. Recorded(entries) = kept
  BY DEF Recorded
<1> HIDE DEF all, first
<1>4. /\ kept \in Seq(EventTypes)
      /\ Len(kept) = Len(all) - first + 1
      /\ kept[Len(all) - first + 1] = all[Len(all)]
  <2>1. /\ first \in Int /\ Len(all) \in Int /\ first <= Len(all)
        /\ \A i \in first..Len(all) : all[i] \in EventTypes
        /\ Len(all) - first + 1 \in 1..(Len(all) - first + 1)
        /\ first + (Len(all) - first + 1) - 1 = Len(all)
    BY <1>1, <1>2
  <2>2. /\ SubSeq(all, first, Len(all)) \in Seq(EventTypes)
        /\ Len(SubSeq(all, first, Len(all))) =
             IF first <= Len(all) THEN Len(all) - first + 1 ELSE 0
        /\ \A i \in 1..(Len(all) - first + 1) :
             SubSeq(all, first, Len(all))[i] = all[first + i - 1]
    BY <2>1, SubSeqProperties
  <2> QED
    BY <2>1, <2>2
<1>5. Len(kept) \in 1..MaxAudit /\ kept[Len(kept)] = entries[Len(entries)]
  BY <1>1, <1>2, <1>4
<1>6. kept # <<>>
  <2> HIDE DEF kept
  <2>1. Len(<<>>) = 0
    OBVIOUS
  <2> QED
    BY <1>5, <2>1
<1> HIDE DEF kept
<1> QED
  BY <1>3, <1>4, <1>5, <1>6

\* One entry, or the same one twice, is what the audit ends with.
LEMMA RecordedEnds ==
  ASSUME audit \in Seq(EventTypes), NEW n \in EventTypes,
         NEW a, a = Recorded(<<n>>) \/ a = Recorded(<<n, n>>)
  PROVE  a \in Seq(EventTypes) /\ Len(a) <= MaxAudit /\ a # <<>> /\ a[Len(a)] = n
<1>1. /\ <<n>> \in Seq(EventTypes) /\ <<n>> # <<>> /\ <<n>>[Len(<<n>>)] = n
      /\ <<n, n>> \in Seq(EventTypes) /\ <<n, n>> # <<>>
      /\ <<n, n>>[Len(<<n, n>>)] = n
  OBVIOUS
<1>2. CASE a = Recorded(<<n>>)
  BY <1>1, <1>2, RecordedAll, Zenon
<1>3. CASE a = Recorded(<<n, n>>)
  BY <1>1, <1>3, RecordedAll, Zenon
<1> QED
  BY <1>2, <1>3

-----------------------------------------------------------------------------
(* The packet of an envelope.                                              *)

\* u lists, without repetition, what the first n of the requests name.
Lists(u, requests, n) ==
  /\ u \in Seq(Points)
  /\ ToSet(u) = {requests[i] : i \in 1..n}
  /\ \A i, j \in DOMAIN u : u[i] = u[j] => i = j

Taking(u, r) == IF r \in ToSet(u) THEN u ELSE Append(u, r)

LEMMA TakingLists ==
  ASSUME NEW requests \in Seq(Points), NEW n \in Nat, n + 1 \in DOMAIN requests,
         NEW u, Lists(u, requests, n)
  PROVE  Lists(Taking(u, requests[n + 1]), requests, n + 1)
<1> DEFINE r == requests[n + 1]
           named == {requests[i] : i \in 1..n}
<1>1. r \in Points /\ u \in Seq(Points) /\ ToSet(u) = named
      /\ \A i, j \in DOMAIN u : u[i] = u[j] => i = j
  BY DEF Lists
<1>2. {requests[i] : i \in 1..(n + 1)} = named \cup {r}
  OBVIOUS
<1>3. CASE r \in ToSet(u)
  BY <1>1, <1>2, <1>3 DEF Lists, Taking
<1>4. CASE r \notin ToSet(u)
  <2> DEFINE v == Append(u, r)
  <2>1. /\ v \in Seq(Points) /\ Len(u) \in Nat /\ DOMAIN u = 1..Len(u)
        /\ DOMAIN v = 1..(Len(u) + 1) /\ v[Len(u) + 1] = r
        /\ \A i \in 1..Len(u) : v[i] = u[i]
    BY <1>1
  <2> HIDE DEF r, named, v
  <2>2. \A i \in DOMAIN u : u[i] # r
    BY <1>4 DEF ToSet
  <2>3. ToSet(v) = ToSet(u) \cup {r}
    BY <2>1 DEF ToSet
  <2>4. \A i, j \in DOMAIN v : v[i] = v[j] => i = j
    BY <1>1, <2>1, <2>2
  <2>5. Lists(v, requests, n + 1)
    BY <1>1, <1>2, <2>1, <2>3, <2>4 DEF Lists
  <2> QED
    BY <1>4, <2>5 DEF Taking, v, r
<1> QED
  BY <1>3, <1>4

\* g is the list as it grows over the first n requests.
Growing(g, requests, n) ==
  /\ DOMAIN g = 0..n
  /\ g[0] = <<>>
  /\ \A i \in 0..n : i # 0 => g[i] = Taking(g[i - 1], requests[i])

\* There is such a function, however long the requests are.
LEMMA GrowingExists ==
  ASSUME NEW requests
  PROVE  \A n \in Nat : \E g : Growing(g, requests, n)
<1> DEFINE S == {n \in Nat : \E g : Growing(g, requests, n)}
<1>1. 0 \in S
  <2> DEFINE g == [i \in 0..0 |-> <<>>]
  <2>1. DOMAIN g = 0..0 /\ g[0] = <<>> /\ \A i \in 0..0 : i = 0
    OBVIOUS
  <2> HIDE DEF g
  <2>2. Growing(g, requests, 0)
    BY <2>1 DEF Growing
  <2> QED
    BY <2>2
<1>2. ASSUME NEW n \in Nat, n \in S
      PROVE  n + 1 \in S
  <2>1. PICK g : Growing(g, requests, n)
    BY <1>2
  <2> DEFINE h == [i \in 0..(n + 1) |->
                     IF i = n + 1 THEN Taking(g[n], requests[n + 1]) ELSE g[i]]
  <2>2. /\ DOMAIN h = 0..(n + 1) /\ n + 1 # 0 /\ (n + 1) - 1 = n
        /\ h[n + 1] = Taking(g[n], requests[n + 1])
        /\ \A i \in 0..n : h[i] = g[i]
        /\ \A i \in 0..(n + 1) : i = n + 1 \/ i \in 0..n
        /\ \A i \in 0..n : i # 0 => i - 1 \in 0..n
    OBVIOUS
  <2> HIDE DEF h
  <2>3. Growing(h, requests, n + 1)
    BY <2>1, <2>2 DEF Growing
  <2> QED
    BY <2>3
<1> HIDE DEF S
<1>3. Nat \subseteq S
  BY <1>1, <1>2, SetInduction
<1> QED
  BY <1>3 DEF S

\* Every prefix of the requests is listed.
LEMMA GrowingLists ==
  ASSUME NEW requests \in Seq(Points), NEW g,
         Growing(g, requests, Len(requests))
  PROVE  \A n \in 0..Len(requests) : Lists(g[n], requests, n)
<1> DEFINE S == {n \in Nat : n <= Len(requests) => Lists(g[n], requests, n)}
<1>1. 0 \in S
  <2>1. g[0] = <<>> /\ 1..0 = {} /\ DOMAIN <<>> = {}
    BY DEF Growing
  <2>2. Lists(<<>>, requests, 0)
    BY <2>1 DEF Lists, ToSet
  <2> QED
    BY <2>1, <2>2
<1>2. ASSUME NEW n \in Nat, n \in S
      PROVE  n + 1 \in S
  <2>1. CASE n + 1 <= Len(requests)
    <3>1. /\ n + 1 \in DOMAIN requests /\ n + 1 \in 0..Len(requests)
          /\ n + 1 # 0 /\ (n + 1) - 1 = n /\ n <= Len(requests)
      BY <2>1
    <3>2. Lists(g[n], requests, n)
      BY <1>2, <3>1
    <3>3. g[n + 1] = Taking(g[n], requests[n + 1])
      BY <3>1 DEF Growing
    <3>4. Lists(g[n + 1], requests, n + 1)
      BY <3>1, <3>2, <3>3, TakingLists
    <3> QED
      BY <3>4
  <2> QED
    BY <2>1
<1> HIDE DEF S
<1>3. Nat \subseteq S
  BY <1>1, <1>2, SetInduction
<1> QED
  BY <1>3 DEF S

\* The packet names every request once.
LEMMA DistinctLists ==
  ASSUME NEW requests \in Seq(Points)
  PROVE  Lists(Distinct(requests), requests, Len(requests))
<1> DEFINE N == Len(requests)
           Grows(f) == f = [n \in 0..N |->
                        IF n = 0 THEN <<>>
                        ELSE IF requests[n] \in ToSet(f[n - 1]) THEN f[n - 1]
                        ELSE Append(f[n - 1], requests[n])]
<1>1. N \in Nat /\ N \in 0..N
  OBVIOUS
<1>2. \A f : Grows(f) <=> f = [n \in 0..N |->
                IF n = 0 THEN <<>> ELSE Taking(f[n - 1], requests[n])]
  BY DEF Taking
<1>3. ASSUME NEW f, Grows(f)
      PROVE  Growing(f, requests, N)
  <2>1. f = [n \in 0..N |->
               IF n = 0 THEN <<>> ELSE Taking(f[n - 1], requests[n])]
    BY <1>2, <1>3
  <2> HIDE DEF Grows
  <2>2. DOMAIN f = 0..N /\ 0 \in 0..N
    BY <1>1, <2>1
  <2>3. f[0] = <<>>
    BY <2>1, <2>2
  <2>4. \A n \in 0..N : n # 0 => f[n] = Taking(f[n - 1], requests[n])
    BY <2>1
  <2> QED
    BY <2>2, <2>3, <2>4 DEF Growing
<1>4. \E f : Grows(f)
  <2>1. PICK g : Growing(g, requests, N)
    BY <1>1, GrowingExists
  <2> DEFINE h == [n \in 0..N |-> g[n]]
  <2>2. h = [n \in 0..N |->
               IF n = 0 THEN <<>> ELSE Taking(h[n - 1], requests[n])]
    <3>1. \A n \in 0..N : h[n] =
             IF n = 0 THEN <<>> ELSE Taking(h[n - 1], requests[n])
      BY <1>1, <2>1 DEF Growing
    <3> QED
      BY <3>1
  <2> HIDE DEF h, Grows
  <2>3. Grows(h)
    BY <1>2, <2>2
  <2> QED
    BY <2>3
<1>5. PICK f : Grows(f) /\ Distinct(requests) = f[N]
  <2>1. Distinct(requests) = (CHOOSE f : Grows(f))[N]
    BY DEF Distinct
  <2> HIDE DEF Grows
  <2> QED
    BY <1>4, <2>1
<1>6. Lists(f[N], requests, N)
  <2> HIDE DEF Grows
  <2>1. Growing(f, requests, Len(requests))
    BY <1>3, <1>5
  <2> QED
    BY <1>1, <2>1, GrowingLists
<1> QED
  BY <1>5, <1>6

-----------------------------------------------------------------------------
(* What a step that hands one event to the sink, or none, keeps.           *)

Sent(e) == Delivered(e) \/ Raises(e)

\* An event is about points, or about the saved state.
LEMMA SubjectOf ==
  ASSUME NEW e \in Events
  PROVE  /\ Subject(e) \subseteq Points \cup {None}
         /\ \A p \in Points : p \in Subject(e) <=> Tells(e, p)
BY WindowConstantsOK DEF Subject, Tells, Telling, Events

\* The types of what the sink changes.
LEMMA SentTypes ==
  ASSUME TypeOK, NEW e \in Events, Sent(e)
  PROVE  /\ sink' \in Seq(Events)
         /\ unsent' \subseteq Points \cup {None}
         /\ faults' \in 0..MaxFaults
         /\ \A n \in 0..Len(sink) : n \in 0..Len(sink')
<1>1. /\ sink \in Seq(Events) /\ unsent \subseteq Points \cup {None}
      /\ faults \in 0..MaxFaults /\ MaxFaults \in Nat
  BY WindowConstantsOK DEF TypeOK
<1>2. Subject(e) \subseteq Points \cup {None}
  BY SubjectOf
<1>3. CASE Delivered(e)
  BY <1>1, <1>3, Longer DEF Delivered
<1>4. CASE Raises(e)
  BY <1>1, <1>2, <1>4 DEF Raises
<1> QED
  BY <1>3, <1>4 DEF Sent

\* An answer that is held is the one the event tells, or was there before.
LEMMA SentTold ==
  ASSUME TypeOK, AnswersAreTold, NEW e \in Events, Sent(e),
         \A p \in Points : responses'[p] # None =>
           IF Tells(e, p) THEN responses'[p] = e.answer
           ELSE responses'[p] = responses[p]
  PROVE  AnswersAreTold'
<1> SUFFICES ASSUME NEW p \in Points, responses'[p] # None, p \notin unsent'
             PROVE  Told(sink', p, responses'[p])
  BY DEF AnswersAreTold
<1>1. sink \in Seq(Events)
  BY DEF TypeOK
<1>2. CASE Delivered(e)
  <2>1. sink' = Append(sink, e) /\ unsent' = unsent \ Subject(e)
    BY <1>2 DEF Delivered
  <2>2. CASE Tells(e, p)
    BY <1>1, <2>1, <2>2, ToldNow
  <2>3. CASE ~Tells(e, p)
    <3>1. p \notin unsent
      BY <2>1, <2>3, SubjectOf
    <3>2. responses'[p] = responses[p] /\ Told(sink, p, responses[p])
      BY <2>3, <3>1 DEF AnswersAreTold
    <3>3. Told(Append(sink, e), p, responses[p])
      BY <1>1, <2>3, <3>2, ToldStays
    <3> QED
      BY <2>1, <3>2, <3>3
  <2> QED
    BY <2>2, <2>3
<1>3. CASE Raises(e)
  <2>1. sink' = sink /\ unsent' = unsent \cup Subject(e)
    BY <1>3 DEF Raises
  <2>2. p \notin unsent /\ ~Tells(e, p)
    BY <2>1, SubjectOf
  <2> QED
    BY <2>1, <2>2 DEF AnswersAreTold
<1> QED
  BY <1>2, <1>3 DEF Sent

\* Without an event, too, an answer that is held was there before.
LEMMA QuietTold ==
  ASSUME AnswersAreTold, UNCHANGED <<sink, unsent>>,
         \A p \in Points : responses'[p] \in {None, responses[p]}
  PROVE  AnswersAreTold'
BY DEF AnswersAreTold

\* A save that was recorded stays so while no new answer is given.
LEMMA SavedStays ==
  ASSUME TypeOK, SavedIsRecorded, saved' => saved, UNCHANGED <<digest, proposals>>,
         \A p \in Points : responses'[p] \in {None, responses[p]},
         sink' = sink \/ \E e \in Events : sink' = Append(sink, e)
  PROVE  SavedIsRecorded'
<1> SUFFICES ASSUME saved'
             PROVE  /\ \E i \in DOMAIN sink' :
                         sink'[i].kind = "save" /\ sink'[i].snapshot = digest'
                    /\ digest'.proposals = proposals'
                    /\ \A p \in Points : responses'[p] # None =>
                         digest'.responses[p] = responses'[p]
  BY DEF SavedIsRecorded
<1>1. PICK i \in DOMAIN sink : sink[i].kind = "save" /\ sink[i].snapshot = digest
  BY DEF SavedIsRecorded
<1>2. i \in DOMAIN sink' /\ sink'[i] = sink[i]
  <2>1. sink \in Seq(Events) /\ DOMAIN sink = 1..Len(sink)
    BY DEF TypeOK
  <2>2. ASSUME NEW e \in Events, sink' = Append(sink, e)
        PROVE  i \in DOMAIN sink' /\ sink'[i] = sink[i]
    <3>1. /\ DOMAIN sink' = 1..(Len(sink) + 1) /\ Len(sink) \in Nat
          /\ \A j \in 1..Len(sink) : sink'[j] = sink[j]
      BY <2>1, <2>2, Longer
    <3>2. i \in 1..Len(sink)
      BY <2>1, <1>1
    <3> QED
      BY <3>1, <3>2
  <2> QED
    BY <2>2
<1>3. /\ digest.proposals = proposals
      /\ \A p \in Points : responses[p] # None => digest.responses[p] = responses[p]
  BY DEF SavedIsRecorded
<1> QED
  BY <1>1, <1>2, <1>3

\* Any other event leaves the last save, and what the AR has seen of it.
LEMMA SavesStay ==
  ASSUME TypeOK, SavesAreKnown, saved' => saved,
         UNCHANGED <<digest, applied, ar, packet>>,
         \A p \in Points \ ToSet(packet) : responses'[p] = None,
         sink' = sink \/ \E e \in Events : e.kind # "save" /\ sink' = Append(sink, e)
  PROVE  SavesAreKnown'
<1>1. LastSave(sink', Len(sink'), digest) /\ LastSave(sink', applied, ar.session)
  <2>1. sink \in Seq(Events) /\ applied \in 0..Len(sink) /\ Len(sink) \in Nat
    BY DEF TypeOK
  <2>2. LastSave(sink, Len(sink), digest) /\ LastSave(sink, applied, ar.session)
    BY DEF SavesAreKnown
  <2>3. ASSUME NEW e \in Events, e.kind # "save", sink' = Append(sink, e)
        PROVE  LastSave(sink', Len(sink'), digest) /\ LastSave(sink', applied, ar.session)
    <3>1. LastSave(sink', Len(sink), digest)
      BY <2>1, <2>2, <2>3, LastSaveStays
    <3>2. LastSave(sink', applied, ar.session)
      BY <2>1, <2>2, <2>3, LastSaveStays
    <3>3. Len(sink') = Len(sink) + 1 /\ sink'[Len(sink) + 1] = e
      BY <2>1, <2>3, Longer
    <3>4. LastSave(sink', Len(sink) + 1, digest)
      BY <2>1, <2>3, <3>1, <3>3, LastSaveNext
    <3> QED
      BY <3>2, <3>3, <3>4
  <2> QED
    BY <2>2, <2>3
<1> QED
  BY <1>1 DEF SavesAreKnown

\* An audited event is what the audit ends with, if the sink took it.
LEMMA SentAudited ==
  ASSUME TypeOK, NEW e \in Events, Audited(e),
         \/ Raises(e)
         \/ /\ Delivered(e)
            /\ audit' # <<>> /\ audit'[Len(audit')] = Disposition(e)
  PROVE  AuditIsCurrent'
<1>1. CASE Raises(e)
  <2>1. faults \in Nat /\ faults' = faults + 1
    BY <1>1, WindowConstantsOK DEF Raises, TypeOK
  <2>2. faults' # 0
    BY <2>1
  <2> QED
    BY <2>2 DEF AuditIsCurrent
<1>2. CASE Delivered(e) /\ audit' # <<>> /\ audit'[Len(audit')] = Disposition(e)
  <2>1. sink' = Append(sink, e) /\ sink \in Seq(Events)
    BY <1>2 DEF Delivered, TypeOK
  <2>2. Shows(sink', Disposition(e))
    BY <2>1, ShowsNow
  <2> QED
    BY <1>2, <2>2 DEF AuditIsCurrent
<1> QED
  BY <1>1, <1>2

\* An event that is not audited leaves the audit as current as it was.
LEMMA SentUnaudited ==
  ASSUME TypeOK, AuditIsCurrent, NEW e \in Events, ~Audited(e), Sent(e),
         UNCHANGED audit
  PROVE  AuditIsCurrent'
<1>1. CASE Raises(e)
  <2>1. faults \in Nat /\ faults' = faults + 1
    BY <1>1, WindowConstantsOK DEF Raises, TypeOK
  <2>2. faults' # 0
    BY <2>1
  <2> QED
    BY <2>2 DEF AuditIsCurrent
<1>2. CASE Delivered(e)
  <2>1. sink' = Append(sink, e) /\ sink \in Seq(Events) /\ faults' = faults
    BY <1>2 DEF Delivered, TypeOK
  <2> QED
    BY <2>1, ShowsStays DEF AuditIsCurrent
<1> QED
  BY <1>1, <1>2 DEF Sent

\* A step that records nothing and writes nothing.
LEMMA QuietAudit ==
  ASSUME AuditIsCurrent, UNCHANGED <<sink, audit, faults>>
  PROVE  AuditIsCurrent'
BY DEF AuditIsCurrent

\* A step that leaves proposals, edits and the point alone.
LEMMA QuietProposals ==
  ASSUME Filled, EditIsOwn, UNCHANGED <<proposals, editing, form, point>>
  PROVE  Filled' /\ EditIsOwn'
BY DEF Filled, EditIsOwn

-----------------------------------------------------------------------------
(* The invariant holds initially.                                          *)

LEMMA InitInv == Init => IInv
<1> SUFFICES ASSUME Init PROVE IInv
  OBVIOUS
<1>1. TypeOK
  <2>1. proposals \in [Points -> Seq(Labels)]
    BY WindowConstantsOK DEF Init
  <2>2. <<>> \in Seq(Points) /\ <<>> \in Seq(Events) /\ <<>> \in Seq(EventTypes)
        /\ Len(<<>>) = 0
    OBVIOUS
  <2>3. 0 <= MaxAudit /\ 0 \in 0..MaxFaults
    BY WindowConstantsOK
  <2>4. /\ envelope \in Envelopes \cup {NoEnvelope}
        /\ packet \in Seq(Points) /\ point = None
        /\ responses \in [Points -> Answers \cup {None}]
        /\ saved \in BOOLEAN /\ digest \in Snapshots \cup {None}
        /\ unsent \subseteq Points \cup {None} /\ shown \in {"one", "all"}
    BY <2>2 DEF Init, NoResponses
  <2>5. /\ editing \in Nat /\ form \in {"none", "add", "edit"}
        /\ window \in {"none", "open", "prompt", "closed"}
    BY DEF Init
  <2>6. sink \in Seq(Events) /\ applied \in 0..Len(sink) /\ faults \in 0..MaxFaults
    BY <2>2, <2>3 DEF Init
  <2>7. audit \in Seq(EventTypes) /\ Len(audit) <= MaxAudit
    BY <2>2, <2>3 DEF Init
  <2>8. ar.status \in {"pending", "resolved"} /\ ar.session \in Snapshots \cup {None}
    BY DEF Init, NewAr
  <2> QED
    BY <2>1, <2>4, <2>5, <2>6, <2>7, <2>8 DEF Init, TypeOK
<1>2. Phase
  BY DEF Init, Phase
<1>3. Filled
  BY WindowConstantsOK DEF Init, Filled
<1>4. AnswersAreTold
  BY DEF Init, AnswersAreTold, NoResponses
<1>5. SavedIsRecorded /\ EditIsOwn /\ ClosedIsSaved
  BY DEF Init, SavedIsRecorded, EditIsOwn, ClosedIsSaved
<1>6. SavesAreKnown
  BY DEF Init, SavesAreKnown, LastSave, NoResponses, NewAr
<1>7. AuditIsCurrent
  BY DEF Init, AuditIsCurrent
<1> QED
  BY <1>1, <1>2, <1>3, <1>4, <1>5, <1>6, <1>7 DEF IInv

-----------------------------------------------------------------------------
(* Every step preserves it: one lemma per action.                          *)

\* Each point of a packet that is being built is a request of the envelope.
LEMMA CandidatesOf ==
  ASSUME NEW e \in Envelopes \cup {NoEnvelope}
  PROVE  /\ Candidates(e) \in Seq(Points)
         /\ ToSet(Candidates(e)) = ToSet(e.batch) \cup ({e.top} \ {None})
<1>1. e \in [top : Points \cup {None}, batch : Seq(Points)]
  <2>1. <<>> \in Seq(Points) /\ None \in Points \cup {None}
    OBVIOUS
  <2>2. NoEnvelope \in [top : Points \cup {None}, batch : Seq(Points)]
    BY <2>1 DEF NoEnvelope
  <2>3. Envelopes \subseteq [top : Points \cup {None}, batch : Seq(Points)]
    BY WindowConstantsOK
  <2> QED
    BY <2>2, <2>3
<1>2. e.top \in Points \cup {None} /\ e.batch \in Seq(Points)
  BY <1>1
<1>3. CASE e.top = None
  <2>1. Candidates(e) = <<>> \o e.batch /\ {e.top} \ {None} = {}
    BY <1>3 DEF Candidates
  <2>2. <<>> \o e.batch = e.batch
    BY <1>2
  <2> QED
    BY <1>2, <2>1, <2>2
<1>4. CASE e.top # None
  <2> DEFINE b == e.batch
             c == <<e.top>> \o b
  <2>1. Candidates(e) = c /\ e.top \in Points /\ {e.top} \ {None} = {e.top}
    BY <1>2, <1>4 DEF Candidates
  <2>2. /\ b \in Seq(Points) /\ Len(b) \in Nat /\ DOMAIN b = 1..Len(b)
        /\ <<e.top>> \in Seq(Points) /\ Len(<<e.top>>) = 1 /\ <<e.top>>[1] = e.top
    BY <1>2, <2>1
  <2>3. /\ c \in Seq(Points) /\ DOMAIN c = 1..(Len(b) + 1)
        /\ c[1] = e.top /\ \A i \in 1..Len(b) : c[1 + i] = b[i]
    BY <2>1, <2>2
  <2> HIDE DEF b, c
  <2>4. \A i \in 1..(Len(b) + 1) : i = 1 \/ \E j \in 1..Len(b) : i = 1 + j
    <3> SUFFICES ASSUME NEW i \in 1..(Len(b) + 1), i # 1
                 PROVE  \E j \in 1..Len(b) : i = 1 + j
      OBVIOUS
    <3>1. i - 1 \in 1..Len(b) /\ i = 1 + (i - 1)
      BY <2>2
    <3> QED
      BY <3>1
  <2>5. \A j \in 1..Len(b) : 1 + j \in 1..(Len(b) + 1)
    BY <2>2
  <2>6. 1 \in 1..(Len(b) + 1)
    BY <2>2
  <2>7. \A x \in ToSet(c) : x \in ToSet(b) \cup {e.top}
    <3> SUFFICES ASSUME NEW i \in 1..(Len(b) + 1)
                 PROVE  c[i] \in ToSet(b) \cup {e.top}
      BY <2>3 DEF ToSet
    <3>1. CASE i = 1
      BY <2>3, <3>1
    <3>2. CASE i # 1
      <4>1. PICK j \in 1..Len(b) : i = 1 + j
        BY <2>4, <3>2
      <4>2. c[i] = b[j]
        BY <2>3, <4>1
      <4> QED
        BY <2>2, <4>2 DEF ToSet
    <3> QED
      BY <3>1, <3>2
  <2>8. \A x \in ToSet(b) \cup {e.top} : x \in ToSet(c)
    <3>1. e.top \in ToSet(c)
      BY <2>3, <2>6 DEF ToSet
    <3>2. ASSUME NEW j \in 1..Len(b)
          PROVE  b[j] \in ToSet(c)
      <4>1. 1 + j \in DOMAIN c /\ c[1 + j] = b[j]
        BY <2>3, <2>5
      <4> QED
        BY <4>1 DEF ToSet
    <3> QED
      BY <2>2, <3>1, <3>2 DEF ToSet
  <2>9. ToSet(c) = ToSet(b) \cup {e.top}
    BY <2>7, <2>8
  <2> QED
    BY <2>1, <2>3, <2>9 DEF b
<1> QED
  BY <1>3, <1>4

\* The packet is the requests of the envelope, each once.
LEMMA PacketOf ==
  ASSUME NEW e \in Envelopes \cup {NoEnvelope}
  PROVE  /\ Decisions(e) \in Seq(Points)
         /\ ToSet(Decisions(e)) = ToSet(e.batch) \cup ({e.top} \ {None})
         /\ \A i, j \in DOMAIN Decisions(e) :
              Decisions(e)[i] = Decisions(e)[j] => i = j
<1> DEFINE c == Candidates(e)
<1>1. c \in Seq(Points) /\ ToSet(c) = ToSet(e.batch) \cup ({e.top} \ {None})
  BY CandidatesOf
<1>2. {c[i] : i \in 1..Len(c)} = ToSet(c)
  BY <1>1 DEF ToSet
<1> HIDE DEF c
<1>3. Lists(Distinct(c), c, Len(c))
  BY <1>1, DistinctLists
<1>4. Decisions(e) = Distinct(c)
  BY DEF Decisions, c
<1> QED
  BY <1>1, <1>2, <1>3, <1>4 DEF Lists

\* The list shows one proposal or all, drawn again or not.
LEMMA Redrawn ==
  ASSUME TypeOK, Refresh \/ RefreshOnceTaken \/ UNCHANGED shown
  PROVE  shown' \in {"one", "all"}
BY DEF TypeOK, Refresh, RefreshOnceTaken

LEMMA OpenInv ==
  ASSUME IInv, Open
  PROVE  IInv'
<1> USE DEF IInv, coordinator, delivery
<1>1. /\ packet' \in Seq(Points) /\ packet' # <<>>
      /\ point' \in Points /\ point' \in ToSet(packet')
  <2>1. packet' = Decisions(envelope) /\ packet' # <<>> /\ point' = packet'[1]
    BY DEF Open
  <2>2. packet' \in Seq(Points)
    BY <2>1, PacketOf DEF TypeOK
  <2>3. 1 \in DOMAIN packet'
    BY <2>1, <2>2
  <2> QED
    BY <2>1, <2>2, <2>3 DEF ToSet
<1>2. /\ cursor' = 1 /\ 1 \in DOMAIN proposals[point'] /\ form' = "none"
      /\ window' = "open" /\ form = "none" /\ packet = <<>>
  BY <1>1 DEF Open, Phase, Filled, TypeOK
<1>3. TypeOK'
  BY <1>1, <1>2, Redrawn DEF Open, TypeOK
<1>4. Phase'
  BY <1>1, <1>2, WindowConstantsOK DEF Phase
<1>5. Filled' /\ SavedIsRecorded' /\ AnswersAreTold' /\ AuditIsCurrent'
  BY DEF Open, Filled, SavedIsRecorded, AnswersAreTold, AuditIsCurrent
<1>6. SavesAreKnown'
  <2>1. ToSet(packet) = {}
    BY <1>2 DEF ToSet
  <2> QED
    BY <2>1 DEF Open, SavesAreKnown
<1>7. ClosedIsSaved' /\ EditIsOwn'
  BY <1>2 DEF Open, ClosedIsSaved, EditIsOwn
<1> QED
  BY <1>3, <1>4, <1>5, <1>6, <1>7

\* In the window there is a point, in the packet, with a proposal.
LEMMA InWindow ==
  ASSUME IInv, window # "none"
  PROVE  /\ point \in Points /\ point \in ToSet(packet)
         /\ cursor \in DOMAIN proposals[point]
         /\ proposals \in [Points -> Seq(Labels)]
         /\ proposals[point] \in Seq(Labels)
         /\ Label \in Labels
<1>1. point \in Points /\ point \in ToSet(packet)
  BY DEF IInv, TypeOK, Phase
<1>2. cursor \in DOMAIN proposals[point] /\ proposals \in [Points -> Seq(Labels)]
  BY <1>1, WindowConstantsOK DEF IInv, TypeOK
<1>3. proposals[point] \in Seq(Labels)
  BY <1>1, <1>2
<1> QED
  BY <1>1, <1>2, <1>3 DEF Label

LEMMA SelectPointInv ==
  ASSUME IInv, NEW p \in ToSet(packet), SelectPoint(p)
  PROVE  IInv'
<1> USE DEF IInv, SelectPoint, Ready, dialogs, coordinator, delivery
<1>1. p \in Points /\ 1 \in DOMAIN proposals[p]
  <2>1. p \in Points
    BY DEF TypeOK, ToSet
  <2> QED
    BY <2>1 DEF TypeOK, Filled
<1>2. TypeOK'
  BY <1>1, Redrawn DEF TypeOK
<1>3. Phase'
  BY <1>1, WindowConstantsOK DEF Phase
<1>4. EditIsOwn'
  BY DEF EditIsOwn
<1>5. /\ Filled' /\ AnswersAreTold' /\ SavedIsRecorded' /\ SavesAreKnown'
      /\ AuditIsCurrent'
  BY DEF Filled, AnswersAreTold, SavedIsRecorded, SavesAreKnown,
         AuditIsCurrent
<1>6. ClosedIsSaved'
  BY DEF ClosedIsSaved
<1> QED
  BY <1>2, <1>3, <1>4, <1>5, <1>6

LEMMA RedrawInv ==
  ASSUME IInv, Redraw
  PROVE  IInv'
<1> USE DEF IInv, Redraw, Ready, dialogs, coordinator, delivery
<1>1. TypeOK'
  BY Redrawn DEF TypeOK
<1>2. Phase' /\ EditIsOwn' /\ ClosedIsSaved'
  BY DEF Phase, EditIsOwn, ClosedIsSaved, Snapshot
<1>3. /\ Filled' /\ AnswersAreTold' /\ SavedIsRecorded' /\ SavesAreKnown'
      /\ AuditIsCurrent'
  BY DEF Filled, AnswersAreTold, SavedIsRecorded, SavesAreKnown, AuditIsCurrent
<1> QED
  BY <1>1, <1>2, <1>3

LEMMA SelectProposalInv ==
  ASSUME IInv, NEW i, SelectProposal(i)
  PROVE  IInv'
<1> USE DEF IInv, SelectProposal, Ready, dialogs, coordinator, delivery
<1>1. i \in DOMAIN proposals[point]
  BY InWindow DEF Rows
<1>2. TypeOK'
  BY <1>1 DEF TypeOK
<1>3. Phase' /\ EditIsOwn' /\ ClosedIsSaved'
  BY DEF Phase, EditIsOwn, ClosedIsSaved
<1>4. /\ Filled' /\ AnswersAreTold' /\ SavedIsRecorded' /\ SavesAreKnown'
      /\ AuditIsCurrent'
  BY DEF Filled, AnswersAreTold, SavedIsRecorded, SavesAreKnown,
         AuditIsCurrent
<1> QED
  BY <1>2, <1>3, <1>4

\* Moving drops the answer that was held, and nothing that was saved of it.
LEMMA MoveProposalInv ==
  ASSUME IInv, NEW i, MoveProposal(i)
  PROVE  IInv'
<1> USE DEF IInv, MoveProposal, Ready, dialogs, coordinator, delivery
<1>1. i \in DOMAIN proposals[point] /\ point \in Points
  BY InWindow
<1>2. /\ responses' \in [Points -> Answers \cup {None}]
      /\ \A p \in Points : responses'[p] \in {None, responses[p]}
  BY <1>1 DEF TypeOK
<1>3. TypeOK'
  BY <1>1, <1>2, Redrawn DEF TypeOK
<1>4. Phase' /\ EditIsOwn' /\ ClosedIsSaved'
  BY DEF Phase, EditIsOwn, ClosedIsSaved
<1>5. Filled' /\ AuditIsCurrent'
  BY DEF Filled, AuditIsCurrent
<1>6. AnswersAreTold'
  BY <1>2, QuietTold
<1>7. SavedIsRecorded'
  BY <1>2, SavedStays
<1>8. SavesAreKnown'
  <2>1. \A p \in Points \ ToSet(packet) : responses'[p] = None
    BY <1>2 DEF SavesAreKnown
  <2> QED
    BY <2>1, SavesStay
<1> QED
  BY <1>3, <1>4, <1>5, <1>6, <1>7, <1>8

LEMMA EditOwnInv ==
  ASSUME IInv, EditOwn
  PROVE  IInv'
<1> USE DEF IInv, EditOwn, Ready, view, coordinator, delivery
<1>1. /\ point \in Points /\ cursor \in DOMAIN proposals[point]
      /\ proposals[point] \in Seq(Labels)
  BY InWindow
<1>2. TypeOK'
  <2>1. editing' \in Nat /\ form' \in {"none", "add", "edit"}
    BY <1>1 DEF TypeOK
  <2> QED
    BY <2>1 DEF TypeOK
<1>3. Phase' /\ ClosedIsSaved'
  BY DEF Phase, ClosedIsSaved
<1>4. EditIsOwn'
  BY <1>1 DEF EditIsOwn, Label
<1>5. /\ Filled' /\ AnswersAreTold' /\ SavedIsRecorded' /\ SavesAreKnown'
      /\ AuditIsCurrent'
  BY DEF Filled, AnswersAreTold, SavedIsRecorded, SavesAreKnown,
         AuditIsCurrent
<1> QED
  BY <1>2, <1>3, <1>4, <1>5

LEMMA AbandonInv ==
  ASSUME IInv, AbandonForm
  PROVE  IInv'
<1> USE DEF IInv, AbandonForm, view, coordinator, delivery
<1>1. TypeOK'
  BY DEF TypeOK
<1>2. Phase' /\ ClosedIsSaved' /\ EditIsOwn'
  BY DEF Phase, ClosedIsSaved, EditIsOwn, Snapshot
<1>3. /\ Filled' /\ AnswersAreTold' /\ SavedIsRecorded' /\ SavesAreKnown'
      /\ AuditIsCurrent'
  BY DEF Filled, AnswersAreTold, SavedIsRecorded, SavesAreKnown, AuditIsCurrent
<1> QED
  BY <1>1, <1>2, <1>3

\* The events the window makes, and their fields.
LEMMA EventIs ==
  ASSUME NEW k \in Kinds, NEW p \in Points \cup {None},
         NEW a \in Answers \cup {None}, NEW s \in Snapshots \cup {None}
  PROVE  /\ Event(k, p, a, s) \in Events
         /\ Event(k, p, a, s).kind = k
         /\ Event(k, p, a, s).point = p
         /\ Event(k, p, a, s).answer = a
         /\ Event(k, p, a, s).snapshot = s
BY DEF Event, Events

\* The answer a button gives.
LEMMA AnswerIs ==
  ASSUME IInv, window # "none", NEW d \in {"select", "reject", "clarify"}
  PROVE  /\ AnswerWith(d) \in Answers /\ AnswerWith(d) # None
         /\ AnswerWith(d).disposition = d
<1>1. AnswerWith(d) \in Answers /\ AnswerWith(d).disposition = d
  BY InWindow DEF AnswerWith, Answers
<1> QED
  BY <1>1, NoneIsDistinct

LEMMA RespondInv ==
  ASSUME IInv, NEW d \in {"select", "reject", "clarify"}, Respond(d)
  PROVE  IInv'
<1> USE DEF IInv, dialogs, coordinator
<1>1. window = "open" /\ form = "none" /\ point \in Points /\ point \in ToSet(packet)
  BY InWindow DEF Respond, Ready
<1>2. AnswerWith(d) \in Answers /\ AnswerWith(d).disposition = d
  BY <1>1, AnswerIs
<1>3. PICK e \in Events :
        /\ e = Event("answer", point, AnswerWith(d), None)
        /\ e.kind = "answer" /\ e.point = point /\ e.answer = AnswerWith(d)
  BY <1>1, <1>2, EventIs DEF Kinds
<1>4. /\ \/ Delivered(e) /\ audit' = Recorded(<<d, d>>)
         \/ Raises(e) /\ audit' = Recorded(<<d>>)
      /\ responses' = [responses EXCEPT ![point] = AnswerWith(d)]
      /\ saved' = FALSE
      /\ UNCHANGED <<envelope, packet, point, cursor, proposals, digest,
                     dialogs, coordinator>>
      /\ RefreshOnceTaken
  BY <1>3 DEF Respond
<1>5. Sent(e) /\ ~(e.kind = "save") /\ Disposition(e) = d
  BY <1>2, <1>3, <1>4 DEF Sent, Disposition
<1>6. /\ audit' \in Seq(EventTypes) /\ Len(audit') <= MaxAudit
      /\ audit' # <<>> /\ audit'[Len(audit')] = d
  <2>1. d \in EventTypes /\ audit \in Seq(EventTypes)
    BY DEF TypeOK, EventTypes
  <2>2. audit' = Recorded(<<d>>) \/ audit' = Recorded(<<d, d>>)
    BY <1>4
  <2> QED
    BY <2>1, <2>2, RecordedEnds
<1>7. responses' \in [Points -> Answers \cup {None}]
  BY <1>2, <1>4 DEF TypeOK
<1>8. TypeOK'
  <2>1. /\ sink' \in Seq(Events) /\ unsent' \subseteq Points \cup {None}
        /\ faults' \in 0..MaxFaults /\ applied' \in 0..Len(sink')
    BY <1>4, <1>5, SentTypes DEF TypeOK
  <2> QED
    BY <1>4, <1>6, <1>7, <2>1, Redrawn DEF TypeOK
<1>9. Phase' /\ ClosedIsSaved' /\ SavedIsRecorded'
  BY <1>1, <1>4 DEF Phase, ClosedIsSaved, SavedIsRecorded
<1>10. Filled' /\ EditIsOwn'
  BY <1>4, QuietProposals
<1>11. AnswersAreTold'
  <2>1. \A p \in Points : Tells(e, p) <=> p = point
    BY <1>3 DEF Tells, Telling
  <2>2. \A p \in Points : responses'[p] =
          IF Tells(e, p) THEN e.answer ELSE responses[p]
    BY <1>3, <1>4, <2>1 DEF TypeOK
  <2> QED
    BY <1>5, <2>2, SentTold
<1>12. SavesAreKnown'
  <2>1. sink' = sink \/ sink' = Append(sink, e)
    BY <1>5 DEF Sent, Delivered, Raises
  <2>2. \A p \in Points \ ToSet(packet) : responses'[p] = None
    BY <1>1, <1>4 DEF SavesAreKnown, TypeOK
  <2> QED
    BY <1>4, <1>5, <2>1, <2>2, SavesStay
<1>13. AuditIsCurrent'
  <2>1. Audited(e)
    BY <1>3 DEF Audited
  <2> QED
    BY <1>4, <1>5, <1>6, <2>1, SentAudited
<1> QED
  BY <1>8, <1>9, <1>10, <1>11, <1>12, <1>13

\* Reopen and the request for evidence: one audited event, and at most an
\* answer less than before.
LEMMA AuditedEventInv ==
  ASSUME IInv, window = "open", form = "none", NEW e \in Events,
         e.kind \in {"reopen", "request-more-evidence"}, e.point = point,
         DeliverAndRecord(e, e.kind), saved' = FALSE,
         \/ UNCHANGED responses /\ e.kind # "reopen"
         \/ responses' = [responses EXCEPT ![point] = None],
         UNCHANGED <<envelope, packet, point, cursor, proposals, digest,
                     dialogs, coordinator>>,
         shown' \in {"one", "all"}
  PROVE  IInv'
<1> USE DEF IInv, dialogs, coordinator
<1>1. point \in Points
  BY InWindow
<1>2. /\ responses' \in [Points -> Answers \cup {None}]
      /\ \A p \in Points : responses'[p] \in {None, responses[p]}
      /\ e.kind = "reopen" => responses'[point] = None
  BY <1>1 DEF TypeOK
<1>3. Sent(e) /\ e.kind # "save" /\ Disposition(e) = e.kind /\ e.kind \in EventTypes
  <2>1. Sent(e)
    BY DEF DeliverAndRecord, Sent
  <2>2. e.kind # "save" /\ e.kind # "answer"
    OBVIOUS
  <2>3. e.kind \in EventTypes
    BY DEF EventTypes
  <2> QED
    BY <2>1, <2>2, <2>3 DEF Disposition
<1>4. /\ audit' \in Seq(EventTypes) /\ Len(audit') <= MaxAudit
      /\ \/ Raises(e)
         \/ Delivered(e) /\ audit' # <<>> /\ audit'[Len(audit')] = Disposition(e)
  <2>1. CASE Delivered(e) /\ audit' = Recorded(<<e.kind>>)
    BY <1>3, <2>1, RecordedEnds DEF TypeOK
  <2>2. CASE Raises(e) /\ UNCHANGED audit
    BY <2>2 DEF TypeOK
  <2> QED
    BY <2>1, <2>2 DEF DeliverAndRecord
<1>5. TypeOK'
  <2>1. /\ sink' \in Seq(Events) /\ unsent' \subseteq Points \cup {None}
        /\ faults' \in 0..MaxFaults /\ applied' \in 0..Len(sink')
    BY <1>3, SentTypes DEF TypeOK
  <2> QED
    BY <1>2, <1>4, <2>1 DEF TypeOK
<1>6. Phase' /\ ClosedIsSaved' /\ SavedIsRecorded'
  BY DEF Phase, ClosedIsSaved, SavedIsRecorded
<1>7. Filled' /\ EditIsOwn'
  BY QuietProposals
<1>8. AnswersAreTold'
  <2>1. \A p \in Points : Tells(e, p) => p = point /\ e.kind = "reopen"
    BY DEF Tells, Telling
  <2>2. \A p \in Points : responses'[p] # None =>
          ~Tells(e, p) /\ responses'[p] = responses[p]
    BY <1>2, <2>1
  <2> QED
    BY <1>3, <2>2, SentTold
<1>9. SavesAreKnown'
  <2>1. sink' = sink \/ sink' = Append(sink, e)
    BY <1>3 DEF Sent, Delivered, Raises
  <2>2. \A p \in Points \ ToSet(packet) : responses'[p] = None
    BY <1>2 DEF SavesAreKnown
  <2> QED
    BY <1>3, <2>1, <2>2, SavesStay
<1>10. AuditIsCurrent'
  <2>1. Audited(e)
    BY DEF Audited
  <2> QED
    BY <1>4, <2>1, SentAudited
<1> QED
  BY <1>5, <1>6, <1>7, <1>8, <1>9, <1>10

LEMMA EvidenceInv ==
  ASSUME IInv, RequestEvidence
  PROVE  IInv'
<1>1. window = "open" /\ form = "none" /\ point \in Points
  BY InWindow DEF RequestEvidence, Ready
<1>2. PICK e \in Events :
        /\ e = Event("request-more-evidence", point, None, None)
        /\ e.kind = "request-more-evidence" /\ e.point = point
  BY <1>1, EventIs DEF Kinds
<1> QED
  BY <1>1, <1>2, AuditedEventInv, Redrawn DEF RequestEvidence, IInv

LEMMA ReopenInv ==
  ASSUME IInv, Reopen
  PROVE  IInv'
<1>1. window = "open" /\ form = "none" /\ point \in Points
  BY InWindow DEF Reopen, Ready
<1>2. PICK e \in Events :
        /\ e = Event("reopen", point, None, None)
        /\ e.kind = "reopen" /\ e.point = point
  BY <1>1, EventIs DEF Kinds
<1> QED
  BY <1>1, <1>2, AuditedEventInv, Redrawn DEF Reopen, IInv

LEMMA ShowAuditInv ==
  ASSUME IInv, ShowAudit
  PROVE  IInv'
<1> USE DEF IInv, view, dialogs, coordinator
<1>1. window = "open" /\ form = "none"
  BY DEF ShowAudit, Ready
<1>2. PICK e \in Events :
        /\ e = Event("audit-view", None, None, None)
        /\ e.kind = "audit-view"
  BY EventIs DEF Kinds
<1>3. Sent(e) /\ UNCHANGED <<envelope, view, dialogs, audit, coordinator>>
  BY <1>2 DEF ShowAudit, Sent
<1>4. TypeOK'
  <2>1. /\ sink' \in Seq(Events) /\ unsent' \subseteq Points \cup {None}
        /\ faults' \in 0..MaxFaults /\ applied' \in 0..Len(sink')
    BY <1>3, SentTypes DEF TypeOK
  <2> QED
    BY <1>3, <2>1 DEF TypeOK
<1>5. Phase' /\ ClosedIsSaved'
  BY <1>1, <1>3 DEF Phase, ClosedIsSaved
<1>6. Filled' /\ EditIsOwn'
  BY <1>3, QuietProposals
<1>7. ~Tells(e, None) /\ (\A p \in Points : ~Tells(e, p)) /\ ~Audited(e)
  BY <1>2 DEF Tells, Telling, Audited
<1>8. AnswersAreTold'
  BY <1>3, <1>7, SentTold
<1>9. sink' = sink \/ sink' = Append(sink, e)
  BY <1>3 DEF Sent, Delivered, Raises
<1>10. SavesAreKnown'
  <2>1. \A p \in Points \ ToSet(packet) : responses'[p] = None
    BY <1>3 DEF SavesAreKnown
  <2> QED
    BY <1>2, <1>3, <1>9, <2>1, SavesStay
<1>11. SavedIsRecorded'
  BY <1>3, <1>9, SavedStays
<1>12. AuditIsCurrent'
  BY <1>3, <1>7, SentUnaudited
<1> QED
  BY <1>4, <1>5, <1>6, <1>8, <1>10, <1>11, <1>12

\* A proposal is added, or the one that is being edited replaced, which is
\* not one that was offered.
LEMMA ConfirmInv ==
  ASSUME IInv, NEW l \in Own, ConfirmForm(l)
  PROVE  IInv'
<1> USE DEF IInv, coordinator
<1> DEFINE old == proposals[point]
           new == proposals'[point]
<1>1. /\ window = "open" /\ point \in Points /\ point \in ToSet(packet)
      /\ proposals \in [Points -> Seq(Labels)] /\ old \in Seq(Labels)
      /\ cursor \in DOMAIN old
  BY InWindow DEF ConfirmForm, Phase
<1>2. PICK e \in Events :
        /\ e = Event("add-proposal", point, None, None)
        /\ e.kind = "add-proposal" /\ e.point = point
  <2>1. "add-proposal" \in Kinds /\ point \in Points \cup {None}
    BY <1>1 DEF Kinds
  <2> QED
    BY <2>1, EventIs
<1>3. /\ \/ /\ editing = 0
            /\ proposals' = [proposals EXCEPT ![point] = Append(@, l)]
            /\ cursor' = Len(proposals[point]) + 1
         \/ /\ editing \in DOMAIN proposals[point]
            /\ proposals' = [proposals EXCEPT ![point][editing] = l]
            /\ cursor' = editing
      /\ Sent(e)
      /\ editing' = 0 /\ saved' = FALSE /\ form' = "none"
      /\ responses' = [responses EXCEPT ![point] = None]
      /\ UNCHANGED <<envelope, packet, point, digest, window, audit, coordinator>>
      /\ Refresh
  BY <1>2 DEF ConfirmForm, Sent
<1>4. l \in Labels
  BY DEF Labels
<1>5. /\ proposals' \in [Points -> Seq(Labels)]
      /\ \A p \in Points : p # point => proposals'[p] = proposals[p]
      /\ new # <<>> /\ cursor' \in DOMAIN new
      /\ \/ editing = 0 /\ new = Append(old, l)
         \/ editing \in DOMAIN old /\ new = [old EXCEPT ![editing] = l]
  <2>1. CASE editing = 0 /\ proposals' = [proposals EXCEPT ![point] = Append(@, l)]
             /\ cursor' = Len(old) + 1
    <3>1. /\ Append(old, l) \in Seq(Labels) /\ Append(old, l) # <<>>
          /\ Len(old) + 1 \in DOMAIN Append(old, l)
      BY <1>1, <1>4, Grown
    <3> QED
      BY <1>1, <2>1, <3>1
  <2>2. CASE editing \in DOMAIN old /\ cursor' = editing
             /\ proposals' = [proposals EXCEPT ![point][editing] = l]
    <3>1. /\ [old EXCEPT ![editing] = l] \in Seq(Labels)
          /\ DOMAIN [old EXCEPT ![editing] = l] = DOMAIN old
          /\ [old EXCEPT ![editing] = l] # <<>>
      BY <1>1, <1>4, <2>2
    <3> QED
      BY <1>1, <2>2, <3>1
  <2> QED
    BY <1>3, <2>1, <2>2
<1>6. /\ responses' \in [Points -> Answers \cup {None}] /\ responses'[point] = None
      /\ \A p \in Points : responses'[p] \in {None, responses[p]}
  BY <1>1, <1>3 DEF TypeOK
<1>7. TypeOK'
  <2>1. /\ sink' \in Seq(Events) /\ unsent' \subseteq Points \cup {None}
        /\ faults' \in 0..MaxFaults /\ applied' \in 0..Len(sink')
    BY <1>3, SentTypes DEF TypeOK
  <2>2. point' \in Points \cup {None} /\ cursor' \in DOMAIN proposals'[point']
    BY <1>1, <1>3, <1>5
  <2> HIDE DEF new
  <2> QED
    BY <1>3, <1>5, <1>6, <2>1, <2>2, Redrawn DEF TypeOK
<1>8. Phase' /\ ClosedIsSaved' /\ SavedIsRecorded' /\ EditIsOwn'
  BY <1>1, <1>3, WindowConstantsOK
     DEF Phase, ClosedIsSaved, SavedIsRecorded, EditIsOwn
<1>9. Filled'
  BY <1>1, <1>5 DEF Filled
<1>10. AnswersAreTold'
  <2>1. \A p \in Points : Tells(e, p) => p = point
    BY <1>2 DEF Tells
  <2>2. \A p \in Points : responses'[p] # None =>
          ~Tells(e, p) /\ responses'[p] = responses[p]
    BY <1>6, <2>1
  <2> QED
    BY <1>3, <2>2, SentTold
<1>11. SavesAreKnown'
  <2>1. sink' = sink \/ sink' = Append(sink, e)
    BY <1>3 DEF Sent, Delivered, Raises
  <2>2. \A p \in Points \ ToSet(packet) : responses'[p] = None
    BY <1>6 DEF SavesAreKnown
  <2> QED
    BY <1>2, <1>3, <2>1, <2>2, SavesStay
<1>12. AuditIsCurrent'
  <2>1. ~Audited(e)
    BY <1>2 DEF Audited
  <2> QED
    BY <1>3, <2>1, SentUnaudited
<1> QED
  BY <1>7, <1>8, <1>9, <1>10, <1>11, <1>12

-----------------------------------------------------------------------------
(* Saving.                                                                 *)

\* The record s ends with a save of what the view-model holds, and says what the
\* record of the sink says.
SavedIn(s) ==
  /\ s \in Seq(Events) /\ applied \in 0..Len(s)
  /\ \A p \in Points : \A a : Told(sink, p, a) => Told(s, p, a)
  /\ LastSave(s, Len(s), Snapshot) /\ LastSave(s, applied, ar.session)
  /\ \E i \in DOMAIN s : s[i].kind = "save" /\ s[i].snapshot = Snapshot

LEMMA SaveEventIs ==
  ASSUME IInv
  PROVE  /\ Snapshot \in Snapshots /\ Snapshot # None
         /\ SaveEvent \in Events /\ SaveEvent.kind = "save"
         /\ SaveEvent.snapshot = Snapshot
         /\ \A p \in Points : ~Tells(SaveEvent, p)
         /\ Audited(SaveEvent) /\ Disposition(SaveEvent) = "save"
         /\ Subject(SaveEvent) = {None}
<1>1. Snapshot \in Snapshots
  BY DEF IInv, TypeOK, Snapshot, Snapshots
<1>2. Snapshot # None
  BY <1>1, NoneIsDistinct
<1>3. SaveEvent \in Events /\ SaveEvent.kind = "save" /\ SaveEvent.snapshot = Snapshot
  BY <1>1, EventIs DEF SaveEvent, Kinds
<1> HIDE DEF SaveEvent
<1>4. (\A p \in Points : ~Tells(SaveEvent, p)) /\ Subject(SaveEvent) = {None}
  BY <1>3 DEF Tells, Telling, Subject
<1>5. Audited(SaveEvent) /\ Disposition(SaveEvent) = "save"
  BY <1>3 DEF Audited, Disposition
<1> QED
  BY <1>1, <1>2, <1>3, <1>4, <1>5

\* Once the sink has taken it, the save is in the record.
LEMMA SaveIn ==
  ASSUME IInv
  PROVE  SavedIn(Append(sink, SaveEvent))
<1> DEFINE e == SaveEvent
           s == Append(sink, e)
<1>1. /\ e \in Events /\ e.kind = "save" /\ e.snapshot = Snapshot
      /\ \A p \in Points : ~Tells(e, p)
  BY SaveEventIs
<1>2. sink \in Seq(Events) /\ applied \in 0..Len(sink) /\ Len(sink) \in Nat
  BY DEF IInv, TypeOK
<1> HIDE DEF e
<1>3. /\ s \in Seq(Events) /\ Len(s) = Len(sink) + 1 /\ s[Len(sink) + 1] = e
      /\ DOMAIN s = 1..(Len(sink) + 1)
  BY <1>1, <1>2, Longer
<1>4. applied \in 0..Len(s) /\ Len(sink) + 1 \in DOMAIN s
  BY <1>2, <1>3
<1>5. \A p \in Points : \A a : Told(sink, p, a) => Told(s, p, a)
  BY <1>1, <1>2, ToldStays
<1>6. LastSave(sink, Len(sink), digest) /\ LastSave(sink, applied, ar.session)
  BY DEF IInv, SavesAreKnown
<1>7. LastSave(s, Len(sink), digest) /\ LastSave(s, applied, ar.session)
  BY <1>1, <1>2, <1>6, LastSaveStays
<1> HIDE DEF s
<1>8. LastSave(s, Len(s), Snapshot)
  BY <1>1, <1>2, <1>3, <1>7, LastSaveNext
<1>9. SavedIn(s)
  BY <1>1, <1>3, <1>4, <1>5, <1>7, <1>8 DEF SavedIn
<1> QED
  BY <1>9 DEF s, e

\* Saying goodbye takes nothing back.
LEMMA GoodbyeIn ==
  ASSUME NEW s, SavedIn(s), NEW e \in Events, e.kind = "safe-exit"
  PROVE  SavedIn(Append(s, e))
<1> DEFINE t == Append(s, e)
<1>1. /\ s \in Seq(Events) /\ applied \in 0..Len(s) /\ Len(s) \in Nat
      /\ LastSave(s, Len(s), Snapshot) /\ LastSave(s, applied, ar.session)
      /\ \A p \in Points : \A a : Told(sink, p, a) => Told(s, p, a)
  BY DEF SavedIn
<1>2. PICK i \in DOMAIN s : s[i].kind = "save" /\ s[i].snapshot = Snapshot
  BY DEF SavedIn
<1>3. /\ t \in Seq(Events) /\ Len(t) = Len(s) + 1 /\ t[Len(s) + 1] = e
      /\ i \in DOMAIN t /\ t[i] = s[i]
  BY <1>1, <1>2, Longer
<1>4. LastSave(t, Len(s), Snapshot) /\ LastSave(t, applied, ar.session)
  BY <1>1, LastSaveStays
<1>5. \A p \in Points : ~Tells(e, p)
  BY DEF Tells, Telling
<1>6. \A p \in Points : \A a : Told(s, p, a) => Told(t, p, a)
  BY <1>1, <1>5, ToldStays
<1> HIDE DEF t
<1>7. LastSave(t, Len(t), Snapshot)
  BY <1>1, <1>3, <1>4, LastSaveNext
<1>8. SavedIn(t)
  BY <1>1, <1>2, <1>3, <1>4, <1>6, <1>7 DEF SavedIn
<1> QED
  BY <1>8 DEF t

\* The status line and the digest after a save that was taken.
LEMMA TakenKeeps ==
  ASSUME IInv, Taken, SavedIn(sink'), unsent' = unsent \ {None},
         UNCHANGED <<packet, proposals, responses, coordinator>>
  PROVE  AnswersAreTold' /\ SavedIsRecorded' /\ SavesAreKnown'
<1> USE DEF coordinator
<1>1. digest' = Snapshot /\ Snapshot # None
  BY SaveEventIs DEF Taken
<1>2. digest'.responses = responses /\ digest'.proposals = proposals
  BY <1>1 DEF Snapshot
<1>3. AnswersAreTold'
  <2> SUFFICES ASSUME NEW p \in Points, responses[p] # None, p \notin unsent'
               PROVE  Told(sink', p, responses[p])
    BY DEF AnswersAreTold
  <2>1. p \notin unsent
    BY WindowConstantsOK
  <2>2. Told(sink, p, responses[p])
    BY <2>1 DEF IInv, AnswersAreTold
  <2> QED
    BY <2>2 DEF SavedIn
<1>4. SavedIsRecorded'
  BY <1>1, <1>2 DEF SavedIn, SavedIsRecorded
<1>5. SavesAreKnown'
  <2>1. LastSave(sink', Len(sink'), digest') /\ LastSave(sink', applied', ar'.session)
    BY <1>1 DEF SavedIn
  <2>2. \A p \in Points \ ToSet(packet) : responses[p] = None
    BY DEF IInv, SavesAreKnown
  <2>3. \A p \in Points \ ToSet(packet') : digest'.responses[p] = None /\ responses'[p] = None
    BY <1>2, <2>2
  <2> QED
    BY <1>1, <2>1, <2>3 DEF SavesAreKnown
<1> QED
  BY <1>3, <1>4, <1>5

\* A save that is repeated is in the record already.
LEMMA RepeatedSave ==
  ASSUME IInv, saved, UNCHANGED <<sink, faults>>, audit' = Recorded(<<"save">>)
  PROVE  AuditIsCurrent'
<1>1. PICK i \in DOMAIN sink : sink[i].kind = "save"
  BY DEF IInv, SavedIsRecorded
<1>2. Audited(sink[i])
  BY <1>1 DEF Audited
<1>3. audit' # <<>> /\ audit'[Len(audit')] = "save"
  BY RecordedEnds DEF IInv, TypeOK, EventTypes
<1>4. ASSUME faults = 0
      PROVE  Shows(sink, "save")
  <2>1. Shows(sink, audit[Len(audit)])
    BY <1>2, <1>4 DEF IInv, AuditIsCurrent
  <2> QED
    BY <1>1, <2>1 DEF Shows
<1> QED
  BY <1>3, <1>4 DEF AuditIsCurrent

\* What Save does, in the window or at its end.
SaveStep ==
  \/ /\ Durable
     /\ audit' = Recorded(<<"save">>)
     /\ UNCHANGED <<saved, digest, delivery>>
  \/ ~Durable /\ Delivered(SaveEvent) /\ Taken /\ audit' = Recorded(<<"save">>)
  \/ ~Durable /\ Raises(SaveEvent) /\ UNCHANGED <<saved, digest, audit>>

\* The types of what saving changes.
SavingTypes ==
  /\ sink' \in Seq(Events) /\ applied' \in 0..Len(sink')
  /\ unsent' \subseteq Points \cup {None} /\ faults' \in 0..MaxFaults
  /\ saved' \in BOOLEAN /\ digest' \in Snapshots \cup {None}
  /\ audit' \in Seq(EventTypes) /\ Len(audit') <= MaxAudit

\* A save that the sink refuses changes nothing but what is unsent.
LEMMA RefusedKeeps ==
  ASSUME IInv, NEW e \in Events, Raises(e), Audited(e),
         \A p \in Points : ~Tells(e, p),
         UNCHANGED <<packet, proposals, responses, saved, digest, audit, coordinator>>
  PROVE  /\ SavingTypes
         /\ AnswersAreTold' /\ SavedIsRecorded' /\ SavesAreKnown' /\ AuditIsCurrent'
<1> USE DEF IInv, coordinator
<1>1. Sent(e) /\ sink' = sink
  BY DEF Sent, Raises
<1>2. SavingTypes
  BY <1>1, SentTypes DEF SavingTypes, TypeOK
<1>3. AnswersAreTold'
  BY <1>1, SentTold
<1>4. SavedIsRecorded' /\ SavesAreKnown'
  BY <1>1 DEF SavedIsRecorded, SavesAreKnown
<1>5. AuditIsCurrent'
  BY SentAudited
<1> QED
  BY <1>2, <1>3, <1>4, <1>5

LEMMA SaveStepKeeps ==
  ASSUME IInv, SaveStep, UNCHANGED <<packet, proposals, responses, coordinator>>
  PROVE  /\ SavingTypes
         /\ AnswersAreTold' /\ SavedIsRecorded' /\ SavesAreKnown' /\ AuditIsCurrent'
         /\ None \in unsent' \/ digest' = Snapshot
<1> USE DEF IInv, coordinator
<1>1. PICK e \in Events :
        /\ e = SaveEvent /\ Audited(e) /\ Disposition(e) = "save"
        /\ e.kind = "save" /\ Subject(e) = {None}
        /\ \A p \in Points : ~Tells(e, p)
  BY SaveEventIs
<1>2. ASSUME audit' = Recorded(<<"save">>)
      PROVE  /\ audit' \in Seq(EventTypes) /\ Len(audit') <= MaxAudit
             /\ audit' # <<>> /\ audit'[Len(audit')] = "save"
  BY <1>2, RecordedEnds DEF TypeOK, EventTypes
<1>3. CASE Durable /\ audit' = Recorded(<<"save">>) /\ UNCHANGED <<saved, digest, delivery>>
  <2> USE DEF delivery
  <2>1. SavingTypes
    BY <1>2, <1>3 DEF SavingTypes, TypeOK
  <2>2. AnswersAreTold' /\ SavedIsRecorded' /\ SavesAreKnown'
    BY <1>3 DEF AnswersAreTold, SavedIsRecorded, SavesAreKnown
  <2>3. AuditIsCurrent'
    BY <1>3, RepeatedSave DEF Durable
  <2> QED
    BY <1>3, <2>1, <2>2, <2>3 DEF Durable
<1>4. CASE Delivered(e) /\ Taken /\ audit' = Recorded(<<"save">>)
  <2>1. sink' = Append(sink, SaveEvent) /\ unsent' = unsent \ {None} /\ faults' = faults
    BY <1>1, <1>4 DEF Delivered
  <2>2. SavedIn(sink')
    BY <2>1, SaveIn
  <2>3. AnswersAreTold' /\ SavedIsRecorded' /\ SavesAreKnown'
    BY <1>4, <2>1, <2>2, TakenKeeps
  <2>4. SavingTypes
    BY <1>2, <1>4, <2>1, <2>2, SaveEventIs DEF SavingTypes, TypeOK, SavedIn, Taken
  <2>5. AuditIsCurrent'
    BY <1>1, <1>2, <1>4, SentAudited
  <2> QED
    BY <1>4, <2>3, <2>4, <2>5 DEF Taken
<1>5. CASE Raises(e) /\ UNCHANGED <<saved, digest, audit>>
  <2>1. None \in unsent'
    BY <1>1, <1>5 DEF Raises
  <2> QED
    BY <1>1, <1>5, <2>1, RefusedKeeps
<1> QED
  BY <1>1, <1>3, <1>4, <1>5 DEF SaveStep

\* What remains of the invariant when only the saving and the window change.
LEMMA SavingInv ==
  ASSUME IInv, SavingTypes,
         AnswersAreTold', SavedIsRecorded', SavesAreKnown', AuditIsCurrent',
         window # "none", window' \in {"open", "prompt", "closed"},
         form # "none" => window' = "open",
         window' = "closed" /\ None \notin unsent' => digest' = Snapshot,
         UNCHANGED <<envelope, packet, point, cursor, proposals, responses,
                     editing, form, coordinator>>,
         shown' \in {"one", "all"}
  PROVE  IInv'
<1> USE DEF IInv, coordinator
<1>1. TypeOK'
  BY DEF SavingTypes, TypeOK
<1>2. Phase'
  BY DEF Phase
<1>3. Filled' /\ EditIsOwn'
  BY QuietProposals
<1>4. ClosedIsSaved'
  BY DEF ClosedIsSaved, Snapshot
<1> QED
  BY <1>1, <1>2, <1>3, <1>4

LEMMA SaveInv ==
  ASSUME IInv, Save
  PROVE  IInv'
<1>1. /\ SaveStep /\ window = "open" /\ form = "none"
      /\ shown' \in {"one", "all"}
      /\ UNCHANGED <<envelope, packet, point, cursor, proposals, responses,
                     editing, form, window, coordinator>>
  BY Redrawn DEF Save, SaveStep, Ready, dialogs, IInv
<1>2. /\ SavingTypes
      /\ AnswersAreTold' /\ SavedIsRecorded' /\ SavesAreKnown' /\ AuditIsCurrent'
  BY <1>1, SaveStepKeeps
<1> QED
  BY <1>1, <1>2, SavingInv

LEMMA PromptSaveInv ==
  ASSUME IInv, PromptSave
  PROVE  IInv'
<1>1. /\ SaveStep /\ window = "prompt" /\ window' = "closed"
      /\ shown' \in {"one", "all"}
      /\ UNCHANGED <<envelope, packet, point, cursor, proposals, responses,
                     editing, form, coordinator>>
  BY Redrawn DEF PromptSave, SaveStep, IInv
<1>2. /\ SavingTypes
      /\ AnswersAreTold' /\ SavedIsRecorded' /\ SavesAreKnown' /\ AuditIsCurrent'
      /\ None \in unsent' \/ digest' = Snapshot
  BY <1>1, SaveStepKeeps
<1>3. form = "none"
  BY <1>1 DEF IInv, Phase
<1> QED
  BY <1>1, <1>2, <1>3, SavingInv

\* The window closes by itself only when everything is selected and saved.
LEMMA CloseInv ==
  ASSUME IInv, Close
  PROVE  IInv'
<1> USE DEF IInv, Close, Ready, view, coordinator, delivery
<1>1. TypeOK'
  BY DEF TypeOK
<1>2. Phase'
  BY DEF Phase
<1>3. Filled' /\ EditIsOwn'
  BY QuietProposals
<1>4. /\ AnswersAreTold' /\ SavedIsRecorded' /\ SavesAreKnown' /\ AuditIsCurrent'
  BY DEF AnswersAreTold, SavedIsRecorded, SavesAreKnown, AuditIsCurrent
<1>5. ASSUME ~WorkRemains
      PROVE  digest = Snapshot
  <2>1. /\ saved /\ digest # None /\ digest.proposals = proposals
        /\ \A p \in ToSet(packet) : responses[p] # None
    BY <1>5 DEF WorkRemains, Complete, Selected, SavedIsRecorded, SavesAreKnown
  <2>2. /\ digest \in Snapshots /\ responses \in [Points -> Answers \cup {None}]
        /\ ToSet(packet) \subseteq Points
    BY <2>1 DEF TypeOK, ToSet
  <2>3. ASSUME NEW p \in Points PROVE digest.responses[p] = responses[p]
    <3>1. CASE p \in ToSet(packet)
      BY <2>1, <3>1 DEF SavedIsRecorded
    <3>2. CASE p \notin ToSet(packet)
      BY <2>1, <3>2 DEF SavesAreKnown
    <3> QED
      BY <3>1, <3>2
  <2>4. digest.responses = responses
    BY <2>2, <2>3 DEF Snapshots
  <2> QED
    BY <2>1, <2>2, <2>4 DEF Snapshots, Snapshot
<1>6. ClosedIsSaved'
  BY <1>5 DEF ClosedIsSaved, Snapshot
<1> QED
  BY <1>1, <1>2, <1>3, <1>4, <1>6

LEMMA PromptCancelInv ==
  ASSUME IInv, PromptCancel
  PROVE  IInv'
<1> USE DEF IInv, PromptCancel, view, coordinator, delivery
<1>1. TypeOK'
  BY DEF TypeOK
<1>2. Phase' /\ ClosedIsSaved'
  BY DEF Phase, ClosedIsSaved
<1>3. Filled' /\ EditIsOwn'
  BY QuietProposals
<1>4. /\ AnswersAreTold' /\ SavedIsRecorded' /\ SavesAreKnown' /\ AuditIsCurrent'
  BY DEF AnswersAreTold, SavedIsRecorded, SavesAreKnown, AuditIsCurrent
<1> QED
  BY <1>1, <1>2, <1>3, <1>4

\* Save + Exit: a save, unless there is nothing to save, and a goodbye.
LEMMA SaveExitInv ==
  ASSUME IInv, SaveExit
  PROVE  IInv'
<1> USE DEF coordinator
<1>1. /\ window = "open" /\ form = "none" /\ point \in Points
      /\ UNCHANGED <<envelope, packet, point, cursor, proposals, responses,
                     editing, form, coordinator>>
      /\ shown' \in {"one", "all"}
  BY InWindow, Redrawn DEF SaveExit, Ready, IInv
<1>2. PICK g \in Events :
        /\ g = Event("safe-exit", point, None, None)
        /\ g.kind = "safe-exit" /\ Audited(g) /\ Disposition(g) = "safe-exit"
        /\ \A p \in Points : ~Tells(g, p)
        /\ Subject(g) = {}
  <2>1. "safe-exit" \in Kinds /\ point \in Points \cup {None}
    BY <1>1 DEF Kinds
  <2>2. PICK g \in Events :
          g = Event("safe-exit", point, None, None) /\ g.kind = "safe-exit"
    BY <2>1, EventIs
  <2>3. Audited(g) /\ Disposition(g) = "safe-exit" /\ \A p \in Points : ~Tells(g, p)
    BY <2>2 DEF Audited, Disposition, Tells, Telling
  <2>4. Subject(g) = {}
    BY <2>2 DEF Subject, Telling
  <2> QED
    BY <2>2, <2>3, <2>4
<1>3. PICK e \in Events :
        /\ e = SaveEvent /\ Audited(e) /\ e.kind = "save"
        /\ \A p \in Points : ~Tells(e, p)
  BY SaveEventIs
<1>4. ASSUME audit' = Recorded(<<"safe-exit">>)
      PROVE  /\ audit' \in Seq(EventTypes) /\ Len(audit') <= MaxAudit
             /\ audit' # <<>> /\ audit'[Len(audit')] = "safe-exit"
  BY <1>4, RecordedEnds DEF IInv, TypeOK, EventTypes
<1> DEFINE Closing ==
             /\ window' = IF Complete THEN "closed" ELSE "prompt"
             /\ audit' = Recorded(<<"safe-exit">>)
<1>5. \/ Durable /\ UNCHANGED <<saved, digest>> /\ Delivered(g) /\ Closing
      \/ Durable /\ UNCHANGED <<saved, digest, window, audit>> /\ Raises(g)
      \/ /\ sink' = sink \o <<SaveEvent, g>> /\ unsent' = unsent \ {None}
         /\ Taken /\ Closing /\ UNCHANGED faults
      \/ /\ sink' = Append(sink, SaveEvent) /\ unsent' = unsent \ {None}
         /\ faults < MaxFaults /\ faults' = faults + 1
         /\ Taken /\ UNCHANGED <<window, audit>>
      \/ UNCHANGED <<saved, digest, window, audit>> /\ Raises(e)
  BY <1>2, <1>3 DEF SaveExit
<1>6. CASE Durable /\ UNCHANGED <<saved, digest>> /\ Delivered(g) /\ Closing
  <2> USE DEF IInv
  <2>1. Sent(g) /\ sink' = Append(sink, g)
    BY <1>6 DEF Sent, Delivered
  <2>2. SavingTypes
    BY <1>1, <1>4, <1>6, <2>1, SentTypes DEF SavingTypes, TypeOK
  <2>3. AnswersAreTold'
    BY <1>1, <1>2, <2>1, SentTold
  <2>4. SavedIsRecorded'
    BY <1>1, <1>6, <2>1, SavedStays
  <2>5. SavesAreKnown'
    <3>1. \A p \in Points \ ToSet(packet) : responses'[p] = None
      BY <1>1 DEF SavesAreKnown
    <3> QED
      BY <1>1, <1>2, <1>6, <2>1, <3>1, SavesStay
  <2>6. AuditIsCurrent'
    BY <1>2, <1>4, <1>6, SentAudited
  <2>7. digest' = Snapshot /\ window' \in {"prompt", "closed"}
    BY <1>6 DEF Durable
  <2> HIDE DEF IInv
  <2> QED
    BY <1>1, <2>2, <2>3, <2>4, <2>5, <2>6, <2>7, SavingInv
<1>7. CASE Durable /\ UNCHANGED <<saved, digest, window, audit>> /\ Raises(g)
  <2>1. /\ SavingTypes
        /\ AnswersAreTold' /\ SavedIsRecorded' /\ SavesAreKnown' /\ AuditIsCurrent'
    BY <1>1, <1>2, <1>7, RefusedKeeps
  <2> QED
    BY <1>1, <1>7, <2>1, SavingInv
<1>8. CASE /\ sink' = sink \o <<SaveEvent, g>> /\ unsent' = unsent \ {None}
           /\ Taken /\ Closing /\ UNCHANGED faults
  <2> DEFINE s == Append(sink, SaveEvent)
  <2>1. /\ s \in Seq(Events) /\ SavedIn(s) /\ sink \in Seq(Events)
    BY SaveIn DEF SavedIn, IInv, TypeOK
  <2>2. sink' = Append(s, g)
    BY <1>2, <1>3, <1>8, <2>1
  <2> HIDE DEF s
  <2>3. SavedIn(sink')
    BY <1>2, <2>1, <2>2, GoodbyeIn
  <2>4. AnswersAreTold' /\ SavedIsRecorded' /\ SavesAreKnown'
    BY <1>1, <1>8, <2>3, TakenKeeps
  <2>5. SavingTypes
    BY <1>1, <1>4, <1>8, <2>3, SaveEventIs
       DEF SavingTypes, SavedIn, Taken, IInv, TypeOK
  <2>6. Shows(sink', "safe-exit")
    BY <1>2, <2>1, <2>2, ShowsNow
  <2>7. AuditIsCurrent'
    BY <1>4, <1>8, <2>6 DEF AuditIsCurrent
  <2>8. digest' = Snapshot /\ window' \in {"prompt", "closed"}
    BY <1>8 DEF Taken
  <2> QED
    BY <1>1, <2>4, <2>5, <2>7, <2>8, SavingInv
<1>9. CASE /\ sink' = Append(sink, SaveEvent) /\ unsent' = unsent \ {None}
           /\ faults < MaxFaults /\ faults' = faults + 1
           /\ Taken /\ UNCHANGED <<window, audit>>
  <2>1. SavedIn(sink')
    BY <1>9, SaveIn
  <2>2. AnswersAreTold' /\ SavedIsRecorded' /\ SavesAreKnown'
    BY <1>1, <1>9, <2>1, TakenKeeps
  <2>3. faults \in Nat /\ faults' \in 0..MaxFaults /\ faults' # 0
    BY <1>9, WindowConstantsOK DEF IInv, TypeOK
  <2>4. SavingTypes
    BY <1>1, <1>9, <2>1, <2>3, SaveEventIs
       DEF SavingTypes, SavedIn, Taken, IInv, TypeOK
  <2>5. AuditIsCurrent'
    BY <2>3 DEF AuditIsCurrent
  <2> QED
    BY <1>1, <1>9, <2>2, <2>4, <2>5, SavingInv
<1>10. CASE UNCHANGED <<saved, digest, window, audit>> /\ Raises(e)
  <2>1. /\ SavingTypes
        /\ AnswersAreTold' /\ SavedIsRecorded' /\ SavesAreKnown' /\ AuditIsCurrent'
    BY <1>1, <1>3, <1>10, RefusedKeeps
  <2> QED
    BY <1>1, <1>10, <2>1, SavingInv
<1> QED
  BY <1>5, <1>6, <1>7, <1>8, <1>9, <1>10

-----------------------------------------------------------------------------
(* The Coordinator, and the whole.                                         *)

\* The AR goes through the record one event behind the other.
LEMMA ApplyInv ==
  ASSUME IInv, Apply
  PROVE  IInv'
<1> USE DEF IInv, view, dialogs, delivery
<1> DEFINE e == sink[applied + 1]
<1>1. /\ applied \in Nat /\ applied + 1 \in 0..Len(sink) /\ applied' = applied + 1
      /\ e \in Events
      /\ UNCHANGED <<envelope, view, dialogs, audit, delivery>>
  BY DEF Apply, TypeOK
<1>2. /\ ar'.status \in {"pending", "resolved"}
      /\ ar'.session = IF e.kind = "save" THEN e.snapshot ELSE ar.session
  <2>1. CASE e.kind \in {"safe-exit", "audit-view"}
    BY <2>1 DEF Apply, TypeOK
  <2>2. CASE e.kind \notin {"safe-exit", "audit-view"}
    <3>1. ar' = Projected(e)
      BY <2>2 DEF Apply
    <3> HIDE DEF e
    <3> QED
      BY <3>1 DEF Projected
  <2> QED
    BY <2>1, <2>2
<1>3. ar'.session \in Snapshots \cup {None}
  BY <1>1, <1>2 DEF Events, TypeOK
<1>4. TypeOK'
  BY <1>1, <1>2, <1>3 DEF TypeOK
<1>5. Phase' /\ ClosedIsSaved' /\ Filled' /\ EditIsOwn'
  BY <1>1 DEF Phase, ClosedIsSaved, Filled, EditIsOwn, Snapshot
<1>6. AnswersAreTold' /\ SavedIsRecorded' /\ AuditIsCurrent'
  BY <1>1 DEF AnswersAreTold, SavedIsRecorded, AuditIsCurrent
<1>7. SavesAreKnown'
  <2>1. LastSave(sink, applied, ar.session)
    BY DEF SavesAreKnown
  <2>2. LastSave(sink, applied + 1, ar'.session)
    BY <1>1, <1>2, <2>1, LastSaveNext
  <2> QED
    BY <1>1, <2>2 DEF SavesAreKnown
<1> QED
  BY <1>4, <1>5, <1>6, <1>7

\* A step that changes nothing.
LEMMA StutterInv ==
  ASSUME IInv, UNCHANGED vars
  PROVE  IInv'
BY DEF vars, view, dialogs, coordinator, delivery, IInv, TypeOK, Phase, Filled,
       AnswersAreTold, SavedIsRecorded, SavesAreKnown, ClosedIsSaved, EditIsOwn,
       AuditIsCurrent, Snapshot

LEMMA NextInv == IInv /\ [Next]_vars => IInv'
<1> SUFFICES ASSUME IInv, [Next]_vars PROVE IInv'
  OBVIOUS
<1>1. CASE UNCHANGED vars
  BY <1>1, StutterInv
<1>2. CASE Next
  BY <1>2, OpenInv, SelectPointInv, RedrawInv, SelectProposalInv, MoveProposalInv,
     RespondInv, EvidenceInv, ReopenInv, ShowAuditInv, EditOwnInv, AbandonInv,
     ConfirmInv, SaveInv, CloseInv, SaveExitInv, PromptSaveInv, PromptCancelInv,
     ApplyInv DEF Next
<1> QED
  BY <1>1, <1>2

-----------------------------------------------------------------------------
(* The theorems.                                                           *)

THEOREM Invariance == Spec => []IInv
BY InitInv, NextInv, PTL DEF Spec

\* Whatever is typed, clicked or refused by the sink, the window, its record
\* and the AR hold values of their types; above all, the cursor is on a
\* proposal of the point it is on.
THEOREM TypeCorrect == Spec => []TypeOK
<1>1. IInv => TypeOK
  BY DEF IInv
<1> QED
  BY <1>1, Invariance, PTL

\* The last event on a point is the one the property chooses.
LEMMA LastOnIs ==
  ASSUME sink \in Seq(Events), NEW p, NEW a, Told(sink, p, a)
  PROVE  LastOn(p) = a
<1> DEFINE on == {i \in DOMAIN sink : sink[i].kind \in Telling /\ sink[i].point = p}
<1>1. PICK i \in on : sink[i].answer = a /\ \A j \in on : j <= i
  BY DEF Told, Tells
<1>2. on \in SUBSET Nat
  OBVIOUS
<1>3. LastOn(p) = IF on = {} THEN None
                  ELSE sink[CHOOSE k \in on : \A j \in on : j <= k].answer
  BY DEF LastOn
<1> HIDE DEF on
<1>4. (CHOOSE k \in on : \A j \in on : j <= k) = i
  BY <1>1, <1>2, ChosenIs
<1> QED
  BY <1>1, <1>3, <1>4

\* An answer that the view-model holds is the last one recorded for its point,
\* unless the sink raised when it was given and nobody took the change back
\* (live.py, where respond() changes the answer before gui.py hands the event
\* to the sink).  It is the answer that a save sends, not the row that the
\* list of proposals shows.
THEOREM AnswersAreRecorded == Spec => []AnswersAreOnRecord
<1>1. IInv => AnswersAreOnRecord
  BY LastOnIs DEF IInv, TypeOK, AnswersAreTold, AnswersAreOnRecord
<1> QED
  BY <1>1, Invariance, PTL

\* "saved" is backed by a recorded save of every answer and every proposal,
\* the answers whose own events the sink refused among them (persistence.py).
THEOREM SavedIsBacked == Spec => []SavedIsRecorded
<1>1. IInv => SavedIsRecorded
  BY DEF IInv
<1> QED
  BY <1>1, Invariance, PTL

\* Once the window is closed and every event is applied, the AR holds the
\* session as the person left it, or, if its last save was not taken, the
\* last one that was (gui.py, which closes the window in either case).
THEOREM ArHasTheSession == Spec => []ClosedSessionReachesAr
<1>1. ASSUME IInv, window = "closed", applied = Len(sink)
      PROVE  ar.session = IF None \in unsent THEN digest ELSE Snapshot
  <2>1. /\ sink \in Seq(Events) /\ Len(sink) \in Nat
        /\ LastSave(sink, Len(sink), digest)
        /\ LastSave(sink, Len(sink), ar.session)
    BY <1>1 DEF IInv, TypeOK, SavesAreKnown
  <2>2. ar.session = digest
    BY <2>1, OneLastSave
  <2> QED
    BY <1>1, <2>2 DEF IInv, ClosedIsSaved
<1>2. IInv => ClosedSessionReachesAr
  BY <1>1 DEF ClosedSessionReachesAr
<1> QED
  BY <1>2, Invariance, PTL

\* However the proposal dialog is opened, cancelled and confirmed, whatever
\* labels a request offers, a proposal goes only when it is the person's own
\* and being edited, or stands at the index that a cancelled edit left behind
\* (gui.py).
THEOREM NoOtherIsReplaced == Spec => OnlyEditedIsReplaced
<1> DEFINE Kept ==
      \A p \in Points : \A i \in DOMAIN proposals[p] :
        \/ i \in DOMAIN proposals'[p] /\ proposals'[p][i] = proposals[p][i]
        \/ /\ p = point /\ i = editing
           /\ proposals[p][i] \in Own \/ form = "add"
<1>1. ASSUME IInv, NEW l \in Own, ConfirmForm(l)
      PROVE  Kept
  <2> DEFINE old == proposals[point]
  <2>1. /\ window = "open" /\ point \in Points /\ old \in Seq(Labels)
        /\ proposals \in [Points -> Seq(Labels)] /\ l \in Labels
    <3>1. window = "open"
      BY <1>1 DEF ConfirmForm, IInv, Phase
    <3>2. l \in Labels
      BY DEF Labels
    <3> QED
      BY <1>1, <3>1, <3>2, InWindow
  <2>2. form = "add" \/ (form = "edit" /\ old[editing] \in Own)
    <3>1. form \in {"none", "add", "edit"} /\ EditIsOwn
      BY <1>1 DEF IInv, TypeOK
    <3>2. form # "none"
      BY <1>1 DEF ConfirmForm
    <3> QED
      BY <3>1, <3>2 DEF EditIsOwn
  <2>3. CASE proposals' = [proposals EXCEPT ![point] = Append(@, l)]
    <3>1. \A i \in DOMAIN old : i \in DOMAIN Append(old, l) /\ Append(old, l)[i] = old[i]
      BY <2>1, Grown
    <3> QED
      BY <2>1, <2>3, <3>1
  <2>4. CASE editing \in DOMAIN old /\ proposals' = [proposals EXCEPT ![point][editing] = l]
    BY <2>1, <2>2, <2>4
  <2> QED
    BY <1>1, <2>3, <2>4 DEF ConfirmForm
<1>2. ASSUME IInv, Next, proposals' # proposals
      PROVE  \E l \in Own : ConfirmForm(l)
  BY <1>2 DEF Next, Open, SelectPoint, Redraw, SelectProposal, MoveProposal,
     Respond, RequestEvidence, Reopen, ShowAudit, EditOwn, AbandonForm, Save,
     Close, SaveExit, PromptSave, PromptCancel, Apply, view
<1>3. IInv /\ [Next]_vars => [Kept]_vars
  <2>1. UNCHANGED vars \/ proposals' = proposals => [Kept]_vars
    BY DEF vars, view
  <2> QED
    BY <1>1, <1>2, <2>1
<1> QED
  BY <1>3, Invariance, PTL DEF Spec, OnlyEditedIsReplaced

\* While the sink never raised, the audit ends with the last audited event
\* that it took, or with a save repeated since then, however small it is.
THEOREM AuditEndsRight == Spec => []AuditEndsWithLastEvent
<1> DEFINE audited == {i \in DOMAIN sink :
                         sink[i].kind \notin {"add-proposal", "audit-view"}}
           last == CHOOSE i \in audited : \A j \in audited : j <= i
           repeated == {"save" : i \in {j \in audited : sink[j].kind = "save"}}
<1>1. ASSUME IInv, faults = 0, audited # {}
      PROVE  audit # <<>> /\ audit[Len(audit)] \in {Disposition(sink[last])} \cup repeated
  <2>1. audited \in SUBSET Nat
    BY <1>1 DEF IInv, TypeOK
  <2>2. \A i : i \in audited <=> i \in DOMAIN sink /\ Audited(sink[i])
    BY DEF Audited
  <2>3. audit # <<>> /\ Shows(sink, audit[Len(audit)])
    BY <1>1, <2>2 DEF IInv, AuditIsCurrent
  <2>4. PICK i \in audited :
          /\ \A j \in audited : j <= i
          /\ \/ audit[Len(audit)] = Disposition(sink[i])
             \/ /\ audit[Len(audit)] = "save"
                /\ \E j \in DOMAIN sink : sink[j].kind = "save"
    BY <2>2, <2>3 DEF Shows
  <2>5. \A j \in DOMAIN sink : sink[j].kind = "save" => j \in audited
    OBVIOUS
  <2>6. (\E j \in audited : sink[j].kind = "save") => "save" \in repeated
    OBVIOUS
  <2> HIDE DEF audited, repeated
  <2>7. last = i
    BY <2>1, <2>4, ChosenIs
  <2> HIDE DEF last
  <2> QED
    BY <2>3, <2>4, <2>5, <2>6, <2>7
<1>2. IInv => AuditEndsWithLastEvent
  BY <1>1 DEF AuditEndsWithLastEvent
<1> QED
  BY <1>2, Invariance, PTL

\* The window shows every request of the envelope, each once: the request at
\* the top is neither dropped nor doubled by the batch, however long it is
\* (awg.py).
THEOREM RequestsAreShown == Spec => EveryRequestIsShown
<1> DEFINE listed ==
      packet' # packet =>
        /\ ToSet(packet') = ToSet(envelope.batch) \cup ({envelope.top} \ {None})
        /\ \A i, j \in DOMAIN packet' : packet'[i] = packet'[j] => i = j
<1>1. ASSUME IInv, Next, packet' # packet
      PROVE  Open
  BY <1>1 DEF Next, SelectPoint, SelectProposal, MoveProposal, Respond,
     Redraw, RequestEvidence, Reopen, ShowAudit, EditOwn, AbandonForm, ConfirmForm,
     Save, Close, SaveExit, PromptSave, PromptCancel, Apply, view
<1>2. ASSUME IInv, Open
      PROVE  listed
  <2>1. packet' = Decisions(envelope) /\ envelope \in Envelopes \cup {NoEnvelope}
    BY <1>2 DEF Open, IInv, TypeOK
  <2> QED
    BY <2>1, PacketOf
<1>3. IInv /\ [Next]_vars => [listed]_vars
  BY <1>1, <1>2 DEF vars, view
<1> QED
  BY <1>3, Invariance, PTL DEF Spec, EveryRequestIsShown

=============================================================================
