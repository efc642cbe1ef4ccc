----------------------------- MODULE OrderFacts -----------------------------
(***************************************************************************)
(* Facts about numbers and sequences that the proofs about sessions need:  *)
(* induction in a form that speaks of a set instead of a predicate, the    *)
(* greatest element of a set of positions, and what becomes of "the last   *)
(* position such that ..." when a sequence grows by one element.           *)
(***************************************************************************)
EXTENDS Naturals, Sequences, WellFoundedInduction, TLAPS

\* A set of natural numbers that is not empty has a least element.
LEMMA LeastNumber ==
  ASSUME NEW S \in SUBSET Nat, S # {}
  PROVE  \E m \in S : \A j \in S : m <= j
<1> DEFINE Less == {pair \in Nat \X Nat : pair[1] < pair[2]}
<1>1. IsWellFoundedOn(Less, Nat)
  BY NatLessThanWellFounded DEF OpToRel
<1>2. PICK m \in S : \A j \in S : ~ (<<j, m>> \in Less)
  <2> HIDE DEF Less
  <2> QED
    BY <1>1, WFMin, Zenon
<1>3. \A j \in S : ~ (j < m)
  BY <1>2
<1> QED
  BY <1>3

\* A set that holds 0 and the successor of each of its numbers holds them all.
LEMMA SetInduction ==
  ASSUME NEW S, 0 \in S, \A n \in Nat : n \in S => n + 1 \in S
  PROVE  Nat \subseteq S
<1> SUFFICES ASSUME Nat \ S # {}
             PROVE  FALSE
  OBVIOUS
<1>1. PICK m \in Nat \ S : \A j \in Nat \ S : m <= j
  BY LeastNumber
<1>2. m # 0 /\ m - 1 \in Nat
  BY <1>1
<1>3. m - 1 \in S
  BY <1>1, <1>2
<1>4. (m - 1) + 1 \in S
  BY <1>2, <1>3
<1> QED
  BY <1>1, <1>2, <1>4

\* A set of positions that is not empty has a greatest element.
LEMMA GreatestPosition ==
  ASSUME NEW n \in Nat, NEW S \in SUBSET (1..n), S # {}
  PROVE  \E m \in S : \A j \in S : j <= m
<1> DEFINE T == {k \in Nat : n - k \in S}
<1>1. \A j \in S : j \in Nat /\ n - j \in Nat /\ n - (n - j) = j /\ n - j \in T
  OBVIOUS
<1>2. PICK t \in T : \A k \in T : t <= k
  <2>1. T \in SUBSET Nat /\ T # {}
    BY <1>1
  <2> HIDE DEF T
  <2> QED
    BY <2>1, LeastNumber
<1>3. n - t \in S /\ t \in Nat
  OBVIOUS
<1>4. ASSUME NEW j \in S
      PROVE  j <= n - t
  <2>1. t <= n - j
    BY <1>1, <1>2
  <2> QED
    BY <1>1, <1>3, <2>1
<1> QED
  BY <1>3, <1>4

\* The position chosen as the greatest is one.
LEMMA GreatestChosen ==
  ASSUME NEW n \in Nat, NEW S \in SUBSET (1..n), S # {}
  PROVE  /\ (CHOOSE i \in S : \A j \in S : j <= i) \in S
         /\ \A j \in S : j <= (CHOOSE i \in S : \A k \in S : k <= i)
BY GreatestPosition

\* The greatest number of a set is the one that is chosen.
LEMMA ChosenIs ==
  ASSUME NEW S \in SUBSET Nat, NEW m \in S, \A j \in S : j <= m
  PROVE  (CHOOSE i \in S : \A j \in S : j <= i) = m
<1>1. \A i \in S : (\A j \in S : j <= i) => i = m
  OBVIOUS
<1> QED
  BY <1>1

\* Positions of a sequence that grew: the old ones hold what they held.
LEMMA Grown ==
  ASSUME NEW X, NEW s \in Seq(X), NEW e \in X
  PROVE  /\ Append(s, e) \in Seq(X)
         /\ Len(Append(s, e)) = Len(s) + 1
         /\ Len(s) \in Nat
         /\ DOMAIN s = 1..Len(s)
         /\ DOMAIN Append(s, e) = DOMAIN s \cup {Len(s) + 1}
         /\ Append(s, e)[Len(s) + 1] = e
         /\ \A i \in DOMAIN s : Append(s, e)[i] = s[i]
OBVIOUS

=============================================================================
