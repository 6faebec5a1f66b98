---------------------------- MODULE SequenceLemmas ----------------------------
(***************************************************************************)
(* Facts about sequences and natural numbers that the proofs about several *)
(* modules need.                                                           *)
(***************************************************************************)
EXTENDS Integers, Sequences, SequenceTheorems, WellFoundedInduction, TLAPS

(* A sequence without its i-th element: the elements before i keep their   *)
(* places, those after it move up.                                         *)
LEMMA RemoveProperties ==
  ASSUME NEW S, NEW s \in Seq(S), NEW i \in 1 .. Len(s)
  PROVE  LET t == SubSeq(s, 1, i - 1) \o SubSeq(s, i + 1, Len(s))
         IN  /\ t \in Seq(S)
             /\ Len(t) = Len(s) - 1
             /\ \A j \in 1 .. Len(t) : t[j] = IF j < i THEN s[j] ELSE s[j + 1]
<1> DEFINE before == SubSeq(s, 1, i - 1)
           after  == SubSeq(s, i + 1, Len(s))
<1>1. Len(s) \in Nat /\ \A k \in 1 .. Len(s) : s[k] \in S
  BY LenProperties, ElementOfSeq
<1>2. before \in Seq(S) /\ Len(before) = i - 1
      /\ \A k \in 1 .. i - 1 : before[k] = s[k]
  <2>1. \A k \in 1 .. i - 1 : s[k] \in S
    BY <1>1
  <2>2. i - 1 \in Int /\ 1 \in Int
    BY <1>1
  <2>3. /\ before \in Seq(S)
        /\ Len(before) = IF 1 <= i - 1 THEN (i - 1) - 1 + 1 ELSE 0
        /\ \A k \in 1 .. (i - 1) - 1 + 1 : before[k] = s[1 + k - 1]
    BY <2>1, <2>2, SubSeqProperties
  <2> HIDE DEF before
  <2> QED  BY <2>3, <1>1
<1>3. after \in Seq(S) /\ Len(after) = Len(s) - i
      /\ \A k \in 1 .. Len(s) - i : after[k] = s[i + k]
  <2>1. \A k \in i + 1 .. Len(s) : s[k] \in S
    BY <1>1
  <2>2. i + 1 \in Int /\ Len(s) \in Int
    BY <1>1
  <2>3. /\ after \in Seq(S)
        /\ Len(after) = IF i + 1 <= Len(s) THEN Len(s) - (i + 1) + 1 ELSE 0
        /\ \A k \in 1 .. Len(s) - (i + 1) + 1 : after[k] = s[(i + 1) + k - 1]
    BY <2>1, <2>2, SubSeqProperties
  <2> HIDE DEF after
  <2> QED  BY <2>3, <1>1
<1> HIDE DEF before, after
<1>4. /\ before \o after \in Seq(S)
      /\ Len(before \o after) = Len(before) + Len(after)
      /\ \A j \in 1 .. Len(before) + Len(after) :
           (before \o after)[j] = IF j <= Len(before) THEN before[j]
                                  ELSE after[j - Len(before)]
  BY <1>2, <1>3, ConcatProperties
<1>5. Len(before \o after) = Len(s) - 1
  <2>1. Len(before) + Len(after) = (i - 1) + (Len(s) - i)
    BY <1>2, <1>3
  <2> QED  BY <2>1, <1>1, <1>4
<1>6. ASSUME NEW j \in 1 .. Len(before \o after)
      PROVE  (before \o after)[j] = IF j < i THEN s[j] ELSE s[j + 1]
  <2>1. j \in Int /\ j >= 1 /\ j <= Len(s) - 1
    BY <1>1, <1>5
  <2>2. j \in 1 .. Len(before) + Len(after)
    BY <1>4
  <2>3. CASE j < i
    <3>1. (before \o after)[j] = before[j] /\ j \in 1 .. i - 1
      BY <1>1, <1>2, <1>4, <2>1, <2>2, <2>3
    <3> QED  BY <1>2, <2>3, <3>1
  <2>4. CASE ~(j < i)
    <3>1. (before \o after)[j] = after[j - (i - 1)]
      BY <1>1, <1>2, <1>4, <2>1, <2>2, <2>4
    <3>2. j - (i - 1) \in 1 .. Len(s) - i
      BY <1>1, <2>1, <2>4
    <3>3. (before \o after)[j] = s[i + (j - (i - 1))]
      BY <1>3, <3>1, <3>2
    <3>4. i + (j - (i - 1)) = j + 1
      BY <1>1, <2>1
    <3> QED  BY <2>4, <3>3, <3>4
  <2> QED  BY <2>3, <2>4
<1> QED  BY <1>4, <1>5, <1>6 DEF before, after

(* Some member of a set of natural numbers is the least.                   *)
LEMMA LeastNatural ==
  ASSUME NEW S \in SUBSET Nat, S # {}
  PROVE  \E m \in S : \A n \in S : m <= n
<1>1. PICK m \in S : \A n \in S : <<n, m>> \notin OpToRel(<, Nat)
  BY NatLessThanWellFounded, WFMin
<1>2. \A n \in S : ~(n < m)
  BY <1>1 DEF OpToRel
<1> QED  BY <1>2

(* A set of natural numbers that has a bound has a greatest member.        *)
LEMMA GreatestNatural ==
  ASSUME NEW S \in SUBSET Nat, S # {}, NEW b \in Nat, \A n \in S : n <= b
  PROVE  \E m \in S : \A n \in S : n <= m
<1> DEFINE bounds == {c \in Nat : \A n \in S : n <= c}
<1>1. PICK m \in bounds : \A c \in bounds : m <= c
  <2>1. b \in bounds
    OBVIOUS
  <2>2. bounds \in SUBSET Nat /\ bounds # {}
    BY <2>1
  <2> HIDE DEF bounds
  <2> QED  BY <2>2, LeastNatural
<1>2. m \in S
  <2> SUFFICES ASSUME m \notin S PROVE FALSE
    OBVIOUS
  <2>1. m \in Nat /\ \A n \in S : n \in Nat /\ n <= m
    OBVIOUS
  <2>2. \A n \in S : n \in Nat /\ n < m
    BY <2>1
  <2>3. PICK k \in S : TRUE
    OBVIOUS
  <2>4. m - 1 \in Nat /\ \A n \in S : n <= m - 1
    BY <2>1, <2>2, <2>3
  <2>5. m <= m - 1
    BY <1>1, <2>4
  <2> QED  BY <2>1, <2>5
<1> QED  BY <1>2

=============================================================================
