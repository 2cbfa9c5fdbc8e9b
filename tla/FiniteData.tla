----------------------------- MODULE FiniteData -----------------------------
(***************************************************************************)
(* Facts about natural numbers, finite sets and sequences that the proofs   *)
(* of several components need.  Induction is used through the least element *)
(* of a set, which a proof can name, in place of an induction rule, which   *)
(* would have to be given a formula.                                        *)
(***************************************************************************)
EXTENDS Integers, Sequences, FiniteSets, SequencesExt,
        FiniteSetTheorems, SequenceTheorems, WellFoundedInduction, TLAPS

(* The order of the natural numbers has no endless descent.                 *)
LEMMA LessOnNat == IsWellFoundedOn({p \in Nat \X Nat : p[1] < p[2]}, Nat)
  BY NatLessThanWellFounded DEF OpToRel

(* A set of natural numbers that is not empty has a least element.          *)
LEMMA LeastNatural ==
  ASSUME NEW S \in SUBSET Nat, S # {}
  PROVE  \E m \in S : \A k \in S : m <= k
<1> DEFINE R == {p \in Nat \X Nat : p[1] < p[2]}
<1>1. PICK m \in S : \A y \in S : <<y, m>> \notin R
  <2> HIDE DEF R
  <2>1. IsWellFoundedOn(R, Nat)
    BY LessOnNat DEF R
  <2> QED
    BY <2>1, WFMin
<1>2. \A y \in S : ~(y < m)
  BY <1>1
<1> QED
  BY <1>2

(* A set that has 0 and with every natural number the next has them all.    *)
LEMMA NaturalsOfSet ==
  ASSUME NEW S, 0 \in S, \A n \in Nat : n \in S => n + 1 \in S
  PROVE  Nat \subseteq S
<1> DEFINE Out == Nat \ S
<1>1. SUFFICES ASSUME Out # {} PROVE FALSE
  OBVIOUS
<1>2. PICK m \in Out : \A k \in Out : m <= k
  <2>1. Out \in SUBSET Nat
    OBVIOUS
  <2> HIDE DEF Out
  <2> QED
    BY <1>1, <2>1, LeastNatural
<1>3. m \in Nat /\ m # 0 /\ m - 1 \in Nat /\ m - 1 \notin Out
  BY <1>2
<1>4. m - 1 \in S /\ (m - 1) + 1 = m
  BY <1>3
<1> QED
  BY <1>2, <1>3, <1>4

(* Of the places that have something there is a first one.                  *)
LEMMA FirstPlace ==
  ASSUME NEW n \in Nat, NEW S \in SUBSET (1..n), S # {}
  PROVE  \E i \in S : \A j \in 1..(i - 1) : j \notin S
<1>1. PICK m \in S : \A k \in S : m <= k
  BY LeastNatural
<1> QED
  BY <1>1

(* The last of so many places is the greatest.                              *)
LEMMA MaxIsLast ==
  /\ \A k \in Nat \ {0} : Max(1..k) = k
  /\ \A n \in Nat : \A S \in SUBSET (1..n) : S # {} => Max(S) \in S
<1>1. ASSUME NEW k \in Nat \ {0} PROVE Max(1..k) = k
  <2>1. k \in 1..k /\ \A y \in 1..k : k >= y
    OBVIOUS
  <2>2. \A x \in 1..k : (\A y \in 1..k : x >= y) => x = k
    BY <2>1
  <2> QED
    BY <2>1, <2>2 DEF Max
<1>2. ASSUME NEW n \in Nat, NEW S \in SUBSET (1..n), S # {}
      PROVE  Max(S) \in S
  <2> DEFINE T == {n - i : i \in S}
  <2>1. T \in SUBSET Nat /\ T # {}
    <3>1. \A i \in 1..n : n - i \in Nat
      OBVIOUS
    <3>2. \A i \in S : i \in 1..n
      BY <1>2
    <3>3. \A i \in S : n - i \in Nat
      BY <3>1, <3>2
    <3> QED
      BY <1>2, <3>3
  <2>2. PICK m \in T : \A k \in T : m <= k
    <3> HIDE DEF T
    <3> QED
      BY <2>1, LeastNatural
  <2>3. PICK x \in S : m = n - x
    BY <2>2
  <2>4. \A y \in S : x >= y
    <3> TAKE y \in S
    <3>1. n - x <= n - y
      BY <2>2, <2>3
    <3> QED
      BY <3>1
  <2> QED
    BY <2>4 DEF Max
<1> QED
  BY <1>1, <1>2

(* The rank of a place among the chosen ones counts them from 1 on, without *)
(* a gap and in their order.                                                *)
LEMMA RankEnumerates ==
  ASSUME NEW n \in Nat, NEW S \in SUBSET (1..n)
  PROVE  LET rank == [i \in S |-> Cardinality({k \in S : k <= i})]
         IN  /\ IsFiniteSet(S) /\ Cardinality(S) \in Nat
             /\ \A i \in S : rank[i] \in 1..Cardinality(S)
             /\ \A i, j \in S : i < j => rank[i] < rank[j]
             /\ \A r \in 1..Cardinality(S) : \E i \in S : rank[i] = r
<1> DEFINE upTo(i) == {k \in S : k <= i}
           rank == [i \in S |-> Cardinality(upTo(i))]
<1>1. IsFiniteSet(S) /\ Cardinality(S) \in Nat
  <2>1. IsFiniteSet(1..n)
    BY FS_Interval
  <2>2. IsFiniteSet(S)
    BY <2>1, FS_Subset
  <2> QED
    BY <2>2, FS_CardinalityType
<1>2. \A i \in S : IsFiniteSet(upTo(i)) /\ Cardinality(upTo(i)) \in Nat
                   /\ Cardinality(upTo(i)) <= Cardinality(S)
  BY <1>1, FS_Subset, FS_CardinalityType
<1>3. \A i \in S : rank[i] \in 1..Cardinality(S)
  <2> TAKE i \in S
  <2>1. i \in upTo(i)
    OBVIOUS
  <2>2. Cardinality(upTo(i)) # 0
    BY <2>1, <1>2, FS_EmptySet
  <2> QED
    BY <2>2, <1>1, <1>2
<1>4. ASSUME NEW i \in S, NEW j \in S, i < j
      PROVE  rank[i] < rank[j]
  <2>0. i \in Int /\ j \in Int /\ \A k \in S : k \in Int
    OBVIOUS
  <2>1. upTo(i) \subseteq upTo(j) /\ j \in upTo(j) /\ j \notin upTo(i)
    <3>1. \A k \in S : k <= i => k <= j
      BY <2>0, <1>4
    <3>2. j <= j /\ ~(j <= i)
      BY <2>0, <1>4
    <3> QED
      BY <3>1, <3>2
  <2>2. Cardinality(upTo(i)) <= Cardinality(upTo(j)) /\ Cardinality(upTo(i)) # Cardinality(upTo(j))
    <3> HIDE DEF upTo
    <3> QED
      BY <2>1, <1>2, FS_Subset
  <2> QED
    BY <2>2, <1>2
<1>5. ASSUME NEW r \in 1..Cardinality(S)
      PROVE  \E i \in S : rank[i] = r
  <2> DEFINE T == 1..Cardinality(S)
  <2>1. IsFiniteSet(T) /\ Cardinality(T) = Cardinality(S)
    BY <1>1, FS_Interval
  <2>2. rank \in Injection(S, T)
    <3>1. rank \in [S -> T]
      BY <1>3
    <3>2. \A i, j \in S : rank[i] = rank[j] => i = j
      <4> SUFFICES ASSUME NEW i \in S, NEW j \in S, rank[i] = rank[j], i # j
                   PROVE FALSE
        OBVIOUS
      <4>1. i \in Int /\ j \in Int /\ rank[i] \in Int /\ rank[j] \in Int
        BY <1>3
      <4> QED
        BY <4>1, <1>4
    <3> QED
      BY <3>1, <3>2 DEF Injection, IsInjective
  <2>3. rank \in Surjection(S, T)
    <3> HIDE DEF rank, T
    <3> QED
      BY <2>1, <2>2, FS_Injection
  <2> QED
    BY <2>3 DEF Surjection
<1> QED
  BY <1>1, <1>3, <1>4, <1>5

-----------------------------------------------------------------------------
(* The elements of a sequence that are in a set, counted with their places. *)

Spots(s, X) == {i \in DOMAIN s : s[i] \in X}
Occurrences(s, X) == Cardinality(Spots(s, X))

LEMMA OccurrencesType ==
  ASSUME NEW S, NEW s \in Seq(S), NEW X
  PROVE  /\ IsFiniteSet(Spots(s, X))
         /\ Occurrences(s, X) \in Nat
         /\ Occurrences(s, X) # 0 <=> \E i \in 1..Len(s) : s[i] \in X
<1>1. IsFiniteSet(1..Len(s))
  BY FS_Interval
<1>2. Spots(s, X) \in SUBSET (1..Len(s))
  BY DEF Spots
<1>3. IsFiniteSet(Spots(s, X))
  BY <1>1, <1>2, FS_Subset
<1>4. Spots(s, X) # {} <=> \E i \in 1..Len(s) : s[i] \in X
  BY DEF Spots
<1> QED
  BY <1>3, <1>4, FS_CardinalityType, FS_EmptySet DEF Occurrences

LEMMA OccurrencesNone ==
  ASSUME NEW X
  PROVE  Occurrences(<<>>, X) = 0
<1>1. Spots(<<>>, X) = {}
  BY DEF Spots
<1> QED
  BY <1>1, FS_EmptySet DEF Occurrences

LEMMA OccurrencesOne ==
  ASSUME NEW e, NEW X
  PROVE  Occurrences(<<e>>, X) = IF e \in X THEN 1 ELSE 0
<1>1. DOMAIN <<e>> = {1} /\ <<e>>[1] = e
  OBVIOUS
<1>2. Spots(<<e>>, X) = IF e \in X THEN {1} ELSE {}
  BY <1>1 DEF Spots
<1> QED
  BY <1>2, FS_EmptySet, FS_Singleton DEF Occurrences

(* What two sequences have, they have together one after the other.         *)
LEMMA OccurrencesConcat ==
  ASSUME NEW S, NEW s \in Seq(S), NEW t \in Seq(S), NEW X
  PROVE  Occurrences(s \o t, X) = Occurrences(s, X) + Occurrences(t, X)
<1> DEFINE A == Spots(s, X)
           B == Spots(t, X)
           shift == [i \in B |-> Len(s) + i]
           C == {Len(s) + i : i \in B}
<1>1. /\ Len(s) \in Nat /\ Len(t) \in Nat
      /\ DOMAIN s = 1..Len(s) /\ DOMAIN t = 1..Len(t)
      /\ DOMAIN (s \o t) = 1..(Len(s) + Len(t))
      /\ \A i \in 1..(Len(s) + Len(t)) :
           (s \o t)[i] = IF i <= Len(s) THEN s[i] ELSE t[i - Len(s)]
  <2>1. /\ s \o t \in Seq(S) /\ Len(s \o t) = Len(s) + Len(t)
        /\ \A i \in 1..(Len(s) + Len(t)) :
             (s \o t)[i] = IF i <= Len(s) THEN s[i] ELSE t[i - Len(s)]
    BY ConcatProperties
  <2>2. /\ Len(s) \in Nat /\ Len(t) \in Nat
        /\ DOMAIN s = 1..Len(s) /\ DOMAIN t = 1..Len(t)
    BY LenProperties
  <2>3. DOMAIN (s \o t) = 1..Len(s \o t)
    BY <2>1, LenProperties
  <2> QED
    BY <2>1, <2>2, <2>3
<1>2. A \subseteq 1..Len(s) /\ B \subseteq 1..Len(t)
  BY <1>1 DEF Spots
<1>3. Spots(s \o t, X) = A \cup C
  <2>1. ASSUME NEW i \in Spots(s \o t, X) PROVE i \in A \cup C
    <3>1. i \in 1..(Len(s) + Len(t)) /\ (s \o t)[i] \in X
      BY <1>1, <2>1 DEF Spots
    <3>2. CASE i <= Len(s)
      <4>1. i \in 1..Len(s) /\ s[i] \in X
        BY <1>1, <3>1, <3>2
      <4> QED
        BY <1>1, <4>1 DEF Spots
    <3>3. CASE ~(i <= Len(s))
      <4>1. i - Len(s) \in 1..Len(t) /\ t[i - Len(s)] \in X /\ i = Len(s) + (i - Len(s))
        BY <1>1, <3>1, <3>3
      <4>2. i - Len(s) \in B
        BY <1>1, <4>1 DEF Spots
      <4> QED
        BY <4>1, <4>2
    <3> QED
      BY <3>2, <3>3
  <2>2. ASSUME NEW i \in A PROVE i \in Spots(s \o t, X)
    <3>1. i \in 1..Len(s) /\ s[i] \in X
      BY <1>1, <2>2 DEF Spots
    <3>2. i \in 1..(Len(s) + Len(t)) /\ i <= Len(s)
      BY <1>1, <3>1
    <3> QED
      BY <1>1, <3>1, <3>2 DEF Spots
  <2>3. ASSUME NEW i \in B PROVE Len(s) + i \in Spots(s \o t, X)
    <3>1. i \in 1..Len(t) /\ t[i] \in X
      BY <1>1, <2>3 DEF Spots
    <3>2. /\ Len(s) + i \in 1..(Len(s) + Len(t)) /\ ~(Len(s) + i <= Len(s))
          /\ (Len(s) + i) - Len(s) = i
      BY <1>1, <3>1
    <3> QED
      BY <1>1, <3>1, <3>2 DEF Spots
  <2> HIDE DEF A, B
  <2> QED
    BY <2>1, <2>2, <2>3
<1>4. IsFiniteSet(A) /\ IsFiniteSet(B)
  BY OccurrencesType
<1>5. IsFiniteSet(C) /\ Cardinality(C) = Cardinality(B)
  <2>0. \A i \in B : i \in Int
    BY <1>2
  <2>1. shift \in Bijection(B, C)
    <3> HIDE DEF A, B
    <3>1. shift \in [B -> C]
      OBVIOUS
    <3>2. \A i, j \in B : shift[i] = shift[j] => i = j
      <4> TAKE i \in B, j \in B
      <4>1. i \in Int /\ j \in Int /\ Len(s) \in Int
        BY <1>1, <2>0
      <4>2. shift[i] = Len(s) + i /\ shift[j] = Len(s) + j
        OBVIOUS
      <4> HIDE DEF shift
      <4> QED
        BY <4>1, <4>2
    <3>3. \A c \in C : \E i \in B : shift[i] = c
      OBVIOUS
    <3> QED
      BY <3>1, <3>2, <3>3 DEF Bijection, Injection, Surjection, IsInjective
  <2>2. ExistsBijection(B, C)
    BY <2>1 DEF ExistsBijection
  <2> HIDE DEF A, B, C
  <2> QED
    BY <1>4, <2>2, FS_Bijection
<1>6. A \cap C = {}
  <2> SUFFICES ASSUME NEW i \in A, NEW j \in B, i = Len(s) + j PROVE FALSE
    OBVIOUS
  <2>1. i \in 1..Len(s) /\ j \in 1..Len(t)
    BY <1>2
  <2> QED
    BY <1>1, <2>1
<1>7. Cardinality(A) \in Nat /\ Cardinality(B) \in Nat
  BY <1>4, FS_CardinalityType
<1> HIDE DEF A, B, C
<1>8. Cardinality(A \cup C) = Cardinality(A) + Cardinality(C) - Cardinality(A \cap C)
  BY <1>4, <1>5, FS_Union
<1>9. Cardinality(A \cap C) = 0
  BY <1>6, FS_EmptySet
<1>10. Occurrences(s \o t, X) = Cardinality(A) + Cardinality(B)
  BY <1>3, <1>5, <1>7, <1>8, <1>9 DEF Occurrences
<1> QED
  BY <1>10 DEF Occurrences, A, B

LEMMA OccurrencesAppend ==
  ASSUME NEW S, NEW s \in Seq(S), NEW e \in S, NEW X
  PROVE  Occurrences(Append(s, e), X)
           = Occurrences(s, X) + (IF e \in X THEN 1 ELSE 0)
<1>1. Append(s, e) = s \o <<e>> /\ <<e>> \in Seq(S)
  BY AppendIsConcat
<1>2. Occurrences(s \o <<e>>, X) = Occurrences(s, X) + Occurrences(<<e>>, X)
  BY <1>1, OccurrencesConcat
<1> QED
  BY <1>1, <1>2, OccurrencesOne

LEMMA OccurrencesTail ==
  ASSUME NEW S, NEW s \in Seq(S), s # <<>>, NEW X
  PROVE  Occurrences(s, X)
           = Occurrences(Tail(s), X) + (IF Head(s) \in X THEN 1 ELSE 0)
<1>1. s = <<Head(s)>> \o Tail(s) /\ Tail(s) \in Seq(S) /\ <<Head(s)>> \in Seq(S)
  <2>1. Head(s) \in S /\ Tail(s) \in Seq(S) /\ Len(s) >= 1
    BY HeadTailProperties, EmptySeq
  <2>2. s = SubSeq(s, 1, Len(s)) /\ Tail(s) = SubSeq(s, 2, Len(s))
    BY SubSeqFull, TailIsSubSeq
  <2>3. SubSeq(s, 1, Len(s)) = <<s[1]>> \o SubSeq(s, 2, Len(s))
    <3>1. Len(s) \in Nat /\ 1 \in 1..Len(s) /\ Len(s) \in 1..Len(s)
      BY <2>1, LenProperties
    <3>2. SubSeq(s, 1, Len(s)) = <<s[1]>> \o SubSeq(s, 1 + 1, Len(s))
      BY <3>1, SubSeqRecursiveFirst
    <3> QED
      BY <3>2
  <2>4. Head(s) = s[1]
    BY <2>1
  <2> QED
    BY <2>1, <2>2, <2>3, <2>4
<1>2. Occurrences(<<Head(s)>> \o Tail(s), X)
        = Occurrences(<<Head(s)>>, X) + Occurrences(Tail(s), X)
  BY <1>1, OccurrencesConcat
<1>3. Occurrences(Tail(s), X) \in Nat
  BY <1>1, OccurrencesType
<1>4. Occurrences(<<Head(s)>>, X) = IF Head(s) \in X THEN 1 ELSE 0
  BY OccurrencesOne
<1>5. Occurrences(s, X)
        = (IF Head(s) \in X THEN 1 ELSE 0) + Occurrences(Tail(s), X)
  BY <1>1, <1>2, <1>4
<1> QED
  BY <1>3, <1>5

LEMMA OccurrencesRemoveAt ==
  ASSUME NEW S, NEW s \in Seq(S), NEW i \in 1..Len(s), NEW X
  PROVE  Occurrences(s, X)
           = Occurrences(RemoveAt(s, i), X) + (IF s[i] \in X THEN 1 ELSE 0)
<1> DEFINE before == SubSeq(s, 1, i - 1)
           after == SubSeq(s, i + 1, Len(s))
<1>0. Len(s) \in Nat /\ i \in Nat /\ s[i] \in S
  BY LenProperties, ElementOfSeq
<1>1. before \in Seq(S) /\ after \in Seq(S) /\ <<s[i]>> \in Seq(S)
  OBVIOUS
<1>2. RemoveAt(s, i) = before \o after
  BY DEF RemoveAt
<1>3. s = before \o (<<s[i]>> \o after)
  <2>1. before \o SubSeq(s, i, Len(s)) = s
    <3>1. 1 \in 1..(Len(s) + 1) /\ i - 1 \in (1 - 1)..Len(s) /\ Len(s) \in (i - 1)..Len(s)
      BY <1>0
    <3>2. SubSeq(s, 1, i - 1) \o SubSeq(s, (i - 1) + 1, Len(s)) = SubSeq(s, 1, Len(s))
      BY <3>1, ConcatAdjacentSubSeq
    <3>3. (i - 1) + 1 = i
      BY <1>0
    <3> QED
      BY <3>2, <3>3, SubSeqFull
  <2>2. SubSeq(s, i, Len(s)) = <<s[i]>> \o after
    <3>1. Len(s) \in i..Len(s)
      BY <1>0
    <3> QED
      BY <3>1, SubSeqRecursiveFirst
  <2> QED
    BY <2>1, <2>2
<1> HIDE DEF before, after
<1>4. <<s[i]>> \o after \in Seq(S)
  BY <1>1, ConcatProperties
<1>5. /\ Occurrences(before \o (<<s[i]>> \o after), X)
           = Occurrences(before, X) + Occurrences(<<s[i]>> \o after, X)
      /\ Occurrences(<<s[i]>> \o after, X)
           = Occurrences(<<s[i]>>, X) + Occurrences(after, X)
      /\ Occurrences(before \o after, X) = Occurrences(before, X) + Occurrences(after, X)
  BY <1>1, <1>4, OccurrencesConcat
<1>6. Occurrences(before, X) \in Nat /\ Occurrences(after, X) \in Nat
  BY <1>1, OccurrencesType
<1>7. Occurrences(<<s[i]>>, X) = IF s[i] \in X THEN 1 ELSE 0
  BY OccurrencesOne
<1>8. /\ Occurrences(s, X) = Occurrences(before, X)
           + ((IF s[i] \in X THEN 1 ELSE 0) + Occurrences(after, X))
      /\ Occurrences(RemoveAt(s, i), X) = Occurrences(before, X) + Occurrences(after, X)
  BY <1>2, <1>3, <1>5, <1>7
<1> QED
  BY <1>6, <1>8

(* What is left of a sequence without the element at a place.               *)
LEMMA RemoveAtFacts ==
  ASSUME NEW S, NEW s \in Seq(S), NEW k \in 1..Len(s)
  PROVE  /\ RemoveAt(s, k) \in Seq(S)
         /\ Len(RemoveAt(s, k)) = Len(s) - 1
         /\ \A j \in 1..(Len(s) - 1) :
              RemoveAt(s, k)[j] = IF j < k THEN s[j] ELSE s[j + 1]
<1> DEFINE front == SubSeq(s, 1, k - 1)
           back == SubSeq(s, k + 1, Len(s))
<1>0. Len(s) \in Nat /\ k \in Int
  OBVIOUS
<1>1. /\ front \in Seq(S) /\ Len(front) = k - 1
      /\ \A i \in 1..(k - 1) : front[i] = s[i]
  <2>1. \A i \in 1..(k - 1) : s[i] \in S
    BY <1>0
  <2> QED
    BY <1>0, <2>1, SubSeqProperties
<1>2. /\ back \in Seq(S) /\ Len(back) = Len(s) - k
      /\ \A i \in 1..(Len(s) - k) : back[i] = s[k + i]
  <2>1. \A i \in (k + 1)..Len(s) : s[i] \in S
    BY <1>0
  <2>2. k + 1 \in Int /\ Len(s) \in Int
    BY <1>0
  <2>3. /\ back \in Seq(S)
        /\ Len(back) = IF k + 1 <= Len(s) THEN Len(s) - (k + 1) + 1 ELSE 0
        /\ \A i \in 1..(Len(s) - (k + 1) + 1) : back[i] = s[(k + 1) + i - 1]
    BY <2>1, <2>2, SubSeqProperties
  <2> QED
    BY <1>0, <2>3
<1>3. RemoveAt(s, k) = front \o back
  BY DEF RemoveAt
<1> HIDE DEF front, back
<1>4. /\ front \o back \in Seq(S) /\ Len(front \o back) = Len(s) - 1
      /\ \A j \in 1..(Len(s) - 1) :
           (front \o back)[j] = IF j <= k - 1 THEN front[j] ELSE back[j - (k - 1)]
  BY <1>0, <1>1, <1>2, ConcatProperties
<1>5. ASSUME NEW j \in 1..(Len(s) - 1)
      PROVE  (front \o back)[j] = IF j < k THEN s[j] ELSE s[j + 1]
  <2>1. CASE j < k
    BY <2>1, <1>0, <1>1, <1>4
  <2>2. CASE ~(j < k)
    <3>1. j - (k - 1) \in 1..(Len(s) - k) /\ k + (j - (k - 1)) = j + 1
      BY <2>2, <1>0
    <3>2. (front \o back)[j] = back[j - (k - 1)]
      <4>1. (front \o back)[j] = IF j <= k - 1 THEN front[j] ELSE back[j - (k - 1)]
        BY <1>4
      <4>2. ~(j <= k - 1)
        BY <2>2, <1>0
      <4> QED
        BY <4>1, <4>2
    <3> QED
      BY <2>2, <3>1, <3>2, <1>2
  <2> QED
    BY <2>1, <2>2
<1> QED
  BY <1>3, <1>4, <1>5

(* RemoveFirst removes the element at one place that has it.                *)
LEMMA RemoveFirstFacts ==
  ASSUME NEW S, NEW s \in Seq(S), NEW e, \E i \in 1..Len(s) : s[i] = e
  PROVE  \E k \in 1..Len(s) : s[k] = e /\ RemoveFirst(s, e) = RemoveAt(s, k)
<1> DEFINE I == {i \in 1..Len(s) : s[i] = e}
<1>1. Len(s) \in Nat /\ I \in SUBSET Nat /\ I # {}
  BY LenProperties
<1>2. PICK k \in I : \A j \in I : k <= j
  <2> HIDE DEF I
  <2> QED
    BY <1>1, LeastNatural
<1>3. Min(I) \in I
  <2>1. \E x \in I : \A y \in I : x <= y
    BY <1>2
  <2> HIDE DEF I
  <2> QED
    BY <2>1 DEF Min
<1>4. SelectInSeq(s, LAMBDA v : v = e) = Min(I)
  BY <1>1 DEF SelectInSeq
<1>5. RemoveFirst(s, e) = RemoveAt(s, Min(I))
  BY <1>4 DEF RemoveFirst
<1> QED
  BY <1>3, <1>5

(* An element of a sequence that has each element once, removed.            *)
LEMMA RemovedOnce ==
  ASSUME NEW S, NEW s \in Seq(S), NEW e, \E i \in 1..Len(s) : s[i] = e,
         \A i, j \in 1..Len(s) : s[i] = s[j] => i = j
  PROVE  /\ RemoveFirst(s, e) \in Seq(S) /\ Len(RemoveFirst(s, e)) = Len(s) - 1
         /\ \A i, j \in 1..(Len(s) - 1) :
              RemoveFirst(s, e)[i] = RemoveFirst(s, e)[j] => i = j
         /\ \A i \in 1..(Len(s) - 1) :
              /\ RemoveFirst(s, e)[i] # e
              /\ \E j \in 1..Len(s) : RemoveFirst(s, e)[i] = s[j]
         /\ \A j \in 1..Len(s) : s[j] # e =>
              \E i \in 1..(Len(s) - 1) : RemoveFirst(s, e)[i] = s[j]
<1> DEFINE left == RemoveFirst(s, e)
           Place(k, i) == IF i < k THEN i ELSE i + 1
<1>0. Len(s) \in Nat
  BY LenProperties
<1>1. PICK k \in 1..Len(s) : s[k] = e /\ left = RemoveAt(s, k)
  BY RemoveFirstFacts
<1>2. /\ left \in Seq(S) /\ Len(left) = Len(s) - 1
      /\ \A i \in 1..(Len(s) - 1) : left[i] = IF i < k THEN s[i] ELSE s[i + 1]
  <2> HIDE DEF left
  <2>1. /\ RemoveAt(s, k) \in Seq(S) /\ Len(RemoveAt(s, k)) = Len(s) - 1
        /\ \A i \in 1..(Len(s) - 1) :
             RemoveAt(s, k)[i] = IF i < k THEN s[i] ELSE s[i + 1]
    BY RemoveAtFacts
  <2> QED
    BY <1>1, <2>1
<1> HIDE DEF left
<1>3. ASSUME NEW i \in 1..(Len(s) - 1)
      PROVE  Place(k, i) \in 1..Len(s) /\ Place(k, i) # k /\ left[i] = s[Place(k, i)]
  <2>1. Place(k, i) \in 1..Len(s) /\ Place(k, i) # k
    BY <1>0, <1>1
  <2> QED
    BY <1>2, <2>1
<1>4. ASSUME NEW i \in 1..(Len(s) - 1), NEW j \in 1..(Len(s) - 1), left[i] = left[j]
      PROVE  i = j
  <2>1. Place(k, i) = Place(k, j)
    <3> HIDE DEF Place
    <3> QED
      BY <1>3, <1>4
  <2> QED
    BY <1>0, <1>1, <2>1
<1>5. ASSUME NEW i \in 1..(Len(s) - 1)
      PROVE  left[i] # e /\ \E j \in 1..Len(s) : left[i] = s[j]
  <2> HIDE DEF Place
  <2> QED
    BY <1>1, <1>3
<1>6. ASSUME NEW j \in 1..Len(s), s[j] # e
      PROVE  \E i \in 1..(Len(s) - 1) : left[i] = s[j]
  <2>1. CASE j < k
    <3>1. j \in 1..(Len(s) - 1) /\ left[j] = s[j]
      BY <1>0, <1>1, <1>2, <2>1
    <3> QED
      BY <3>1
  <2>2. CASE ~(j < k)
    <3>1. j - 1 \in 1..(Len(s) - 1) /\ ~(j - 1 < k) /\ (j - 1) + 1 = j
      BY <1>0, <1>1, <1>6, <2>2
    <3>2. left[j - 1] = s[j]
      BY <1>2, <3>1
    <3> QED
      BY <3>1, <3>2
  <2> QED
    BY <2>1, <2>2
<1> QED
  BY <1>2, <1>4, <1>5, <1>6 DEF left

-----------------------------------------------------------------------------
(* Prefixes.                                                                *)

LEMMA PrefixFacts ==
  ASSUME NEW S, NEW m \in Seq(S), NEW k \in 0..Len(m)
  PROVE  /\ SubSeq(m, 1, k) \in Seq(S) /\ Len(SubSeq(m, 1, k)) = k
         /\ \A i \in 1..k : SubSeq(m, 1, k)[i] = m[i]
<1>1. Len(m) \in Nat /\ k \in Nat /\ 1 \in Int
  BY LenProperties
<1>2. \A i \in 1..k : i \in 1..Len(m) /\ m[i] \in S
  BY <1>1, ElementOfSeq
<1>3. /\ SubSeq(m, 1, k) \in Seq(S)
      /\ Len(SubSeq(m, 1, k)) = IF 1 <= k THEN k - 1 + 1 ELSE 0
      /\ \A i \in 1..(k - 1 + 1) : SubSeq(m, 1, k)[i] = m[1 + i - 1]
  BY <1>1, <1>2, SubSeqProperties
<1>4. k - 1 + 1 = k /\ (~(1 <= k) => k = 0)
  BY <1>1
<1>5. \A i \in 1..k : 1 + i - 1 = i
  OBVIOUS
<1> QED
  BY <1>3, <1>4, <1>5

LEMMA PrefixTail ==
  ASSUME NEW S, NEW m \in Seq(S), m # <<>>, NEW k \in 0..(Len(m) - 1)
  PROVE  /\ SubSeq(m, 1, k + 1) \in Seq(S) /\ SubSeq(m, 1, k + 1) # <<>>
         /\ Head(SubSeq(m, 1, k + 1)) = Head(m)
         /\ Tail(SubSeq(m, 1, k + 1)) = SubSeq(Tail(m), 1, k)
<1> DEFINE p == SubSeq(m, 1, k + 1)
           t == SubSeq(Tail(m), 1, k)
<1>1. Len(m) \in Nat /\ k \in Nat /\ k + 1 \in 0..Len(m) /\ 1 \in 1..Len(m)
  BY LenProperties, EmptySeq
<1>2. Tail(m) \in Seq(S) /\ Len(Tail(m)) = Len(m) - 1
      /\ \A i \in 1..Len(Tail(m)) : Tail(m)[i] = m[i + 1]
  BY HeadTailProperties
<1>3. /\ p \in Seq(S) /\ Len(p) = k + 1
      /\ \A i \in 1..(k + 1) : p[i] = m[i]
  BY <1>1, PrefixFacts
<1>4. /\ t \in Seq(S) /\ Len(t) = k
      /\ \A i \in 1..k : t[i] = Tail(m)[i]
  BY <1>1, <1>2, PrefixFacts
<1> HIDE DEF p, t
<1>5. p # <<>>
  BY <1>1, <1>3
<1>6. Tail(p) \in Seq(S) /\ Len(Tail(p)) = k
      /\ \A i \in 1..k : Tail(p)[i] = p[i + 1]
  <2>1. Tail(p) \in Seq(S) /\ Len(Tail(p)) = Len(p) - 1
        /\ \A i \in 1..Len(Tail(p)) : Tail(p)[i] = p[i + 1]
    BY <1>3, <1>5, HeadTailProperties
  <2>2. Len(p) - 1 = k
    BY <1>1, <1>3
  <2> QED
    BY <2>1, <2>2
<1>7. \A i \in 1..k : Tail(p)[i] = t[i]
  <2> TAKE i \in 1..k
  <2>1. i + 1 \in 1..(k + 1) /\ i \in 1..Len(Tail(m))
    BY <1>1, <1>2
  <2> QED
    BY <1>2, <1>3, <1>4, <1>6, <2>1
<1>8. Tail(p) = t
  BY <1>4, <1>6, <1>7, SeqEqual
<1>9. Head(p) = p[1] /\ Head(m) = m[1] /\ p[1] = m[1]
  BY <1>1, <1>3
<1> QED
  BY <1>3, <1>5, <1>8, <1>9 DEF p, t

LEMMA PrefixAppend ==
  ASSUME NEW S, NEW m \in Seq(S), NEW e \in S, NEW k \in 0..Len(m)
  PROVE  SubSeq(Append(m, e), 1, k) = SubSeq(m, 1, k)
<1> DEFINE p == SubSeq(m, 1, k)
           a == SubSeq(Append(m, e), 1, k)
<1>1. Len(m) \in Nat /\ k \in Nat
  BY LenProperties
<1>2. Append(m, e) \in Seq(S) /\ Len(Append(m, e)) = Len(m) + 1
      /\ \A i \in 1..Len(m) : Append(m, e)[i] = m[i]
  BY AppendProperties
<1>3. /\ p \in Seq(S) /\ Len(p) = k
      /\ \A i \in 1..k : p[i] = m[i]
  BY PrefixFacts
<1>4. /\ a \in Seq(S) /\ Len(a) = k
      /\ \A i \in 1..k : a[i] = Append(m, e)[i]
  <2>1. k \in 0..Len(Append(m, e))
    BY <1>1, <1>2
  <2> QED
    BY <1>2, <2>1, PrefixFacts
<1> HIDE DEF p, a
<1>5. \A i \in 1..k : i \in 1..Len(m)
  BY <1>1
<1>6. \A i \in 1..k : a[i] = p[i]
  BY <1>2, <1>3, <1>4, <1>5
<1>7. a = p
  BY <1>3, <1>4, <1>6, SeqEqual
<1> QED
  BY <1>7 DEF a, p

(* A prefix agrees with the whole as far as it goes.                        *)
LEMMA PrefixAgrees ==
  ASSUME NEW S, NEW m \in Seq(S), NEW n \in Seq(S)
  PROVE  IsPrefix(m, n) <=> Len(m) <= Len(n) /\ \A i \in 1..Len(m) : m[i] = n[i]
<1>1. Len(m) \in Nat /\ Len(n) \in Nat
  BY LenProperties
<1>2. CASE Len(m) <= Len(n)
  <2> DEFINE a == SubSeq(m, 1, Len(m))
             b == SubSeq(n, 1, Len(m))
  <2>1. Len(m) \in 0..Len(m) /\ Len(m) \in 0..Len(n)
    BY <1>1, <1>2
  <2>2. a \in Seq(S) /\ Len(a) = Len(m) /\ \A i \in 1..Len(m) : a[i] = m[i]
    BY <2>1, PrefixFacts
  <2>3. b \in Seq(S) /\ Len(b) = Len(m) /\ \A i \in 1..Len(m) : b[i] = n[i]
    BY <2>1, PrefixFacts
  <2>4. IsPrefix(m, n) <=> a = b
    BY <1>2 DEF IsPrefix
  <2> HIDE DEF a, b
  <2>5. (\A i \in 1..Len(m) : m[i] = n[i]) => a = b
    BY <2>2, <2>3, SeqEqual
  <2> QED
    BY <1>2, <2>2, <2>3, <2>4, <2>5
<1>3. CASE ~(Len(m) <= Len(n))
  BY <1>3 DEF IsPrefix
<1> QED
  BY <1>2, <1>3

LEMMA PrefixOrder ==
  ASSUME NEW S, NEW m \in Seq(S), NEW n \in Seq(S), NEW o \in Seq(S)
  PROVE  /\ IsPrefix(m, m)
         /\ IsPrefix(m, n) /\ IsPrefix(n, o) => IsPrefix(m, o)
<1>1. Len(m) \in Nat /\ Len(n) \in Nat /\ Len(o) \in Nat
  BY LenProperties
<1>2. IsPrefix(m, m)
  BY <1>1, PrefixAgrees
<1>3. ASSUME IsPrefix(m, n), IsPrefix(n, o) PROVE IsPrefix(m, o)
  <2>1. Len(m) <= Len(n) /\ \A i \in 1..Len(m) : m[i] = n[i]
    BY <1>3, PrefixAgrees
  <2>2. Len(n) <= Len(o) /\ \A i \in 1..Len(n) : n[i] = o[i]
    BY <1>3, PrefixAgrees
  <2>3. Len(m) <= Len(o) /\ \A i \in 1..Len(m) : m[i] = o[i]
    BY <1>1, <2>1, <2>2
  <2> QED
    BY <2>3, PrefixAgrees
<1> QED
  BY <1>2, <1>3

LEMMA PrefixOfAppend ==
  ASSUME NEW S, NEW m \in Seq(S), NEW e \in S
  PROVE  IsPrefix(m, Append(m, e))
<1>1. Append(m, e) \in Seq(S) /\ Len(Append(m, e)) = Len(m) + 1
      /\ \A i \in 1..Len(m) : Append(m, e)[i] = m[i]
  BY AppendProperties
<1>2. Len(m) \in Nat
  BY LenProperties
<1>3. Len(m) <= Len(Append(m, e))
  BY <1>1, <1>2
<1> QED
  BY <1>1, <1>3, PrefixAgrees

-----------------------------------------------------------------------------
(* Sums over a finite set.                                                  *)

(* A sum over a finite set, and what the library's fold iterates to get it. *)
SumOver(f, S) == MapThenSumSet(LAMBDA x : f[x], S)

AnyOf(s) == CHOOSE x \in s : TRUE

SumsOf(f, S, it) ==
  it = [s \in SUBSET S |-> IF s = {} THEN 0 ELSE f[AnyOf(s)] + it[s \ {AnyOf(s)}]]

LEMMA SumIsIterated ==
  ASSUME NEW S, NEW f
  PROVE  SumOver(f, S) = (CHOOSE it : SumsOf(f, S, it))[S]
BY DEF SumOver, MapThenSumSet, MapThenFoldSet, SumsOf, AnyOf

LEMMA OneLess ==
  ASSUME NEW S, IsFiniteSet(S), NEW x \in S
  PROVE  /\ IsFiniteSet(S \ {x}) /\ Cardinality(S \ {x}) = Cardinality(S) - 1
         /\ Cardinality(S) \in Nat /\ Cardinality(S) # 0
         /\ Cardinality(S \ {x}) \in Nat
<1>1. IsFiniteSet(S \ {x}) /\ Cardinality(S \ {x}) = Cardinality(S) - 1
  BY FS_RemoveElement
<1>2. Cardinality(S) \in Nat /\ Cardinality(S \ {x}) \in Nat
  BY <1>1, FS_CardinalityType
<1> QED
  BY <1>1, <1>2

LEMMA SumsExist ==
  ASSUME NEW S, IsFiniteSet(S), NEW f
  PROVE  \E it : SumsOf(f, S, it)
<1> DEFINE Rule(it, s) == IF s = {} THEN 0 ELSE f[AnyOf(s)] + it[s \ {AnyOf(s)}]
           Upto(it, n) == \A s \in SUBSET S : Cardinality(s) <= n => it[s] = Rule(it, s)
           Reached == {n \in Nat : \E it : Upto(it, n)}
<1>0. \A s \in SUBSET S : IsFiniteSet(s) /\ Cardinality(s) \in Nat
                          /\ (Cardinality(s) = 0 <=> s = {})
  BY FS_Subset, FS_CardinalityType, FS_EmptySet
<1>1. \A s \in SUBSET S : s # {} =>
        /\ AnyOf(s) \in s /\ s \ {AnyOf(s)} \in SUBSET S
        /\ Cardinality(s \ {AnyOf(s)}) = Cardinality(s) - 1
  <2> SUFFICES ASSUME NEW s \in SUBSET S, s # {}
               PROVE  /\ AnyOf(s) \in s /\ s \ {AnyOf(s)} \in SUBSET S
                      /\ Cardinality(s \ {AnyOf(s)}) = Cardinality(s) - 1
    OBVIOUS
  <2>1. AnyOf(s) \in s
    BY DEF AnyOf
  <2> QED
    BY <1>0, <2>1, OneLess
<1>2. 0 \in Reached
  <2> DEFINE none == [s \in SUBSET S |-> 0]
  <2>1. \A s \in SUBSET S : Cardinality(s) <= 0 => none[s] = Rule(none, s)
    BY <1>0
  <2>2. Upto(none, 0)
    BY <2>1
  <2> QED
    BY <2>2
<1>3. ASSUME NEW n \in Nat, n \in Reached
      PROVE  n + 1 \in Reached
  <2>1. PICK it : Upto(it, n)
    BY <1>3
  <2> DEFINE next == [s \in SUBSET S |-> Rule(it, s)]
  <2>2. ASSUME NEW s \in SUBSET S, Cardinality(s) <= n + 1
        PROVE  next[s] = Rule(next, s)
    <3>1. CASE s = {}
      BY <3>1
    <3>2. CASE s # {}
      <4> DEFINE r == s \ {AnyOf(s)}
      <4>1. r \in SUBSET S /\ Cardinality(r) <= n
        BY <1>0, <1>1, <2>2, <3>2
      <4> HIDE DEF r
      <4>2. it[r] = Rule(it, r) /\ next[r] = Rule(it, r)
        BY <2>1, <4>1
      <4>3. next[s] = f[AnyOf(s)] + it[r]
        BY <3>2 DEF r
      <4>4. Rule(next, s) = f[AnyOf(s)] + next[r]
        BY <3>2 DEF r
      <4> HIDE DEF next, Rule
      <4> QED
        BY <4>2, <4>3, <4>4
    <3> QED
      BY <3>1, <3>2
  <2> HIDE DEF next, Rule
  <2>3. Upto(next, n + 1)
    BY <2>2
  <2> QED
    BY <2>3
<1> HIDE DEF Rule
<1>4. Cardinality(S) \in Reached
  <2> HIDE DEF Reached
  <2> QED
    BY <1>0, <1>2, <1>3, NaturalsOfSet
<1>5. PICK it : Upto(it, Cardinality(S))
  BY <1>4
<1>6. \A s \in SUBSET S : it[s] = Rule(it, s)
  <2>1. \A s \in SUBSET S : Cardinality(s) <= Cardinality(S)
    BY FS_Subset
  <2> QED
    BY <1>5, <2>1
<1> DEFINE all == [s \in SUBSET S |-> it[s]]
<1>7. all = [s \in SUBSET S |-> Rule(all, s)]
  <2>1. ASSUME NEW s \in SUBSET S PROVE all[s] = Rule(all, s)
    <3>1. all[s] = Rule(it, s)
      BY <1>6
    <3>2. Rule(it, s) = Rule(all, s)
      <4>1. s # {} => all[s \ {AnyOf(s)}] = it[s \ {AnyOf(s)}]
        BY <1>1
      <4> HIDE DEF all
      <4> QED
        BY <4>1 DEF Rule
    <3> QED
      BY <3>1, <3>2
  <2> HIDE DEF Rule
  <2>2. [s \in SUBSET S |-> Rule(all, s)] = [s \in SUBSET S |-> all[s]]
    <3> HIDE DEF all
    <3> QED
      BY <2>1
  <2> QED
    BY <2>2
<1> HIDE DEF all
<1> QED
  BY <1>7 DEF SumsOf, Rule

Iterated(f, S) == CHOOSE it : SumsOf(f, S, it)

(* The partial sums are natural numbers, and any element may come first.    *)
LEMMA SumSplits ==
  ASSUME NEW S, IsFiniteSet(S), NEW f, \A x \in S : f[x] \in Nat
  PROVE  /\ Iterated(f, S)[{}] = 0
         /\ \A s \in SUBSET S : Iterated(f, S)[s] \in Nat
         /\ \A s \in SUBSET S : \A x \in s :
              Iterated(f, S)[s] = f[x] + Iterated(f, S)[s \ {x}]
<1> DEFINE it == Iterated(f, S)
<1>1. it = [s \in SUBSET S |-> IF s = {} THEN 0 ELSE f[AnyOf(s)] + it[s \ {AnyOf(s)}]]
  <2>1. \E any : SumsOf(f, S, any)
    BY SumsExist
  <2>2. SumsOf(f, S, Iterated(f, S))
    BY <2>1 DEF Iterated
  <2> QED
    BY <2>2 DEF SumsOf
<1> HIDE DEF it
<1>2. it[{}] = 0 /\ \A s \in SUBSET S : s # {} => it[s] = f[AnyOf(s)] + it[s \ {AnyOf(s)}]
  BY <1>1
<1>3. \A s \in SUBSET S : IsFiniteSet(s) /\ Cardinality(s) \in Nat
                          /\ (Cardinality(s) = 0 <=> s = {})
  BY FS_Subset, FS_CardinalityType, FS_EmptySet
<1>4. \A s \in SUBSET S : \A x \in s :
        s \ {x} \in SUBSET S /\ Cardinality(s \ {x}) = Cardinality(s) - 1
  BY <1>3, OneLess
<1>5. \A s \in SUBSET S : s # {} => AnyOf(s) \in s
  BY DEF AnyOf
<1> DEFINE Good(s) == /\ it[s] \in Nat
                      /\ \A x \in s : it[s] = f[x] + it[s \ {x}]
           Sized(n) == \A s \in SUBSET S : Cardinality(s) <= n => Good(s)
           Reached == {n \in Nat : Sized(n)}
<1>6. 0 \in Reached
  <2>1. ASSUME NEW s \in SUBSET S, Cardinality(s) <= 0 PROVE Good(s)
    <3>1. s = {}
      BY <1>3, <2>1
    <3> QED
      BY <1>2, <3>1
  <2> HIDE DEF Good
  <2> QED
    BY <2>1
<1>7. ASSUME NEW n \in Nat, n \in Reached
      PROVE  n + 1 \in Reached
  <2>1. Sized(n)
    BY <1>7
  <2>2. ASSUME NEW s \in SUBSET S, Cardinality(s) <= n + 1, s # {}
        PROVE  Good(s)
    <3> DEFINE c == AnyOf(s)
    <3>1. c \in s /\ it[s] = f[c] + it[s \ {c}]
      BY <1>2, <1>5, <2>2
    <3> HIDE DEF c
    <3>2. \A x \in s : s \ {x} \in SUBSET S /\ Cardinality(s \ {x}) <= n
      BY <1>3, <1>4, <2>2
    <3>3. \A x \in s : Good(s \ {x})
      <4> HIDE DEF Good
      <4> QED
        BY <2>1, <3>2
    <3>4. \A x \in s : it[s \ {x}] \in Nat /\ f[x] \in Nat
      BY <3>3
    <3>5. ASSUME NEW x \in s PROVE it[s] = f[x] + it[s \ {x}]
      <4>1. CASE x = c
        BY <3>1, <4>1
      <4>2. CASE x # c
        <5> DEFINE r == (s \ {c}) \ {x}
        <5>1. it[s \ {c}] = f[x] + it[r]
          BY <3>1, <3>3, <4>2
        <5>2. it[s \ {x}] = f[c] + it[(s \ {x}) \ {c}]
          BY <3>1, <3>3, <4>2
        <5>3. (s \ {x}) \ {c} = r
          OBVIOUS
        <5>4. it[r] \in Nat
          <6>1. r \in SUBSET S /\ Cardinality(r) <= n
            <7>1. Cardinality((s \ {c}) \ {x}) = Cardinality(s \ {c}) - 1
              BY <1>4, <3>1, <3>2, <4>2
            <7> QED
              BY <1>3, <3>1, <3>2, <7>1
          <6> HIDE DEF r
          <6> QED
            BY <2>1, <6>1
        <5> HIDE DEF r
        <5>5. f[x] \in Nat /\ f[c] \in Nat
          BY <3>1, <3>4
        <5>6. it[s] = f[c] + (f[x] + it[r])
          BY <3>1, <5>1
        <5>7. it[s \ {x}] = f[c] + it[r]
          BY <5>2, <5>3
        <5> QED
          BY <5>4, <5>5, <5>6, <5>7
      <4> QED
        BY <4>1, <4>2
    <3>6. it[s] \in Nat
      BY <3>1, <3>4
    <3> QED
      BY <3>5, <3>6
  <2>3. ASSUME NEW s \in SUBSET S, Cardinality(s) <= n + 1
        PROVE  Good(s)
    <3>1. CASE s = {}
      BY <1>2, <3>1
    <3> HIDE DEF Good
    <3> QED
      BY <2>2, <2>3, <3>1
  <2> HIDE DEF Good
  <2> QED
    BY <2>3
<1> HIDE DEF Good
<1>8. \A s \in SUBSET S : Good(s)
  <2>1. Cardinality(S) \in Reached
    <3> HIDE DEF Reached
    <3> QED
      BY <1>3, <1>6, <1>7, NaturalsOfSet
  <2>2. \A s \in SUBSET S : Cardinality(s) <= Cardinality(S)
    BY FS_Subset
  <2> QED
    BY <2>1, <2>2
<1> QED
  BY <1>2, <1>8 DEF Good, it

LEMMA SumType ==
  ASSUME NEW S, IsFiniteSet(S), NEW f, \A x \in S : f[x] \in Nat
  PROVE  SumOver(f, S) \in Nat
BY SumIsIterated, SumSplits DEF Iterated

(* Functions that differ nowhere have the same sum, and at one place only,  *)
(* sums that differ as much.                                                *)
LEMMA SumDiffers ==
  ASSUME NEW S, IsFiniteSet(S), NEW f, \A x \in S : f[x] \in Nat,
         NEW g, \A x \in S : g[x] \in Nat,
         NEW z \in S, \A x \in S \ {z} : g[x] = f[x]
  PROVE  SumOver(g, S) + f[z] = SumOver(f, S) + g[z]
<1> DEFINE F == Iterated(f, S)
           G == Iterated(g, S)
<1>1. /\ F[{}] = 0 /\ G[{}] = 0
      /\ \A s \in SUBSET S : F[s] \in Nat /\ G[s] \in Nat
      /\ \A s \in SUBSET S : \A x \in s : F[s] = f[x] + F[s \ {x}] /\ G[s] = g[x] + G[s \ {x}]
  BY SumSplits
<1>2. SumOver(f, S) = F[S] /\ SumOver(g, S) = G[S]
  BY SumIsIterated DEF Iterated
<1> HIDE DEF F, G
<1> DEFINE Same(n) == \A s \in SUBSET (S \ {z}) : Cardinality(s) = n => F[s] = G[s]
           Reached == {n \in Nat : Same(n)}
<1>3. \A s \in SUBSET (S \ {z}) : IsFiniteSet(s) /\ Cardinality(s) \in Nat
                          /\ (Cardinality(s) = 0 <=> s = {})
  BY FS_Subset, FS_CardinalityType, FS_EmptySet
<1>4. 0 \in Reached
  BY <1>1, <1>3
<1>5. ASSUME NEW n \in Nat, n \in Reached
      PROVE  n + 1 \in Reached
  <2> SUFFICES ASSUME NEW s \in SUBSET (S \ {z}), Cardinality(s) = n + 1
               PROVE  F[s] = G[s]
    OBVIOUS
  <2>1. PICK x \in s : TRUE
    BY <1>3
  <2>2. s \ {x} \in SUBSET (S \ {z}) /\ Cardinality(s \ {x}) = n
    BY <1>3, <2>1, OneLess
  <2>3. F[s \ {x}] = G[s \ {x}]
    BY <1>5, <2>2
  <2>4. f[x] = g[x] /\ s \in SUBSET S
    BY <2>1
  <2> QED
    BY <1>1, <2>1, <2>3, <2>4
<1>6. F[S \ {z}] = G[S \ {z}]
  <2>1. Cardinality(S \ {z}) \in Reached
    <3> HIDE DEF Reached
    <3> QED
      BY <1>3, <1>4, <1>5, NaturalsOfSet
  <2> QED
    BY <2>1
<1>7. F[S] = f[z] + F[S \ {z}] /\ G[S] = g[z] + G[S \ {z}]
  BY <1>1
<1>8. F[S \ {z}] \in Nat /\ f[z] \in Nat /\ g[z] \in Nat
  BY <1>1
<1> QED
  BY <1>2, <1>6, <1>7, <1>8

LEMMA SumOfNothing ==
  ASSUME NEW S, IsFiniteSet(S), NEW f, \A x \in S : f[x] = 0
  PROVE  SumOver(f, S) = 0
<1> DEFINE F == Iterated(f, S)
<1>1. /\ F[{}] = 0
      /\ \A s \in SUBSET S : F[s] \in Nat
      /\ \A s \in SUBSET S : \A x \in s : F[s] = f[x] + F[s \ {x}]
  <2>1. \A x \in S : f[x] \in Nat
    OBVIOUS
  <2> QED
    BY <2>1, SumSplits
<1>2. SumOver(f, S) = F[S]
  BY SumIsIterated DEF Iterated
<1> HIDE DEF F
<1> DEFINE None(n) == \A s \in SUBSET S : Cardinality(s) = n => F[s] = 0
           Reached == {n \in Nat : None(n)}
<1>3. \A s \in SUBSET S : IsFiniteSet(s) /\ Cardinality(s) \in Nat
                          /\ (Cardinality(s) = 0 <=> s = {})
  BY FS_Subset, FS_CardinalityType, FS_EmptySet
<1>4. 0 \in Reached
  BY <1>1, <1>3
<1>5. ASSUME NEW n \in Nat, n \in Reached
      PROVE  n + 1 \in Reached
  <2> SUFFICES ASSUME NEW s \in SUBSET S, Cardinality(s) = n + 1
               PROVE  F[s] = 0
    OBVIOUS
  <2>1. PICK x \in s : TRUE
    BY <1>3
  <2>2. s \ {x} \in SUBSET S /\ Cardinality(s \ {x}) = n
    BY <1>3, <2>1, OneLess
  <2>3. F[s \ {x}] = 0
    BY <1>5, <2>2
  <2>4. f[x] = 0 /\ s \in SUBSET S
    BY <2>1
  <2>5. F[s] = f[x] + F[s \ {x}]
    BY <1>1, <2>4
  <2>6. f[x] + F[s \ {x}] = 0
    BY <2>3, <2>4
  <2> QED
    BY <2>5, <2>6
<1>6. Cardinality(S) \in Reached
  <2> HIDE DEF Reached
  <2> QED
    BY <1>3, <1>4, <1>5, NaturalsOfSet
<1> QED
  BY <1>2, <1>6

(* Functions that differ nowhere have the same sum.                         *)
LEMMA SameSum ==
  ASSUME NEW S, IsFiniteSet(S), NEW f, \A x \in S : f[x] \in Nat,
         NEW g, \A x \in S : g[x] = f[x]
  PROVE  SumOver(g, S) = SumOver(f, S)
<1>1. \A x \in S : g[x] \in Nat
  OBVIOUS
<1>2. SumOver(g, S) \in Nat /\ SumOver(f, S) \in Nat
  BY <1>1, SumType
<1>3. CASE S = {}
  <2>1. /\ \A x \in S : f[x] = 0
        /\ \A x \in S : g[x] = 0
    BY <1>3
  <2>2. SumOver(f, S) = 0 /\ SumOver(g, S) = 0
    BY <2>1, SumOfNothing
  <2> QED
    BY <2>2
<1>4. CASE S # {}
  <2>1. PICK z \in S : TRUE
    BY <1>4
  <2>2. \A x \in S \ {z} : g[x] = f[x]
    OBVIOUS
  <2>3. SumOver(g, S) + f[z] = SumOver(f, S) + g[z]
    BY <1>1, <2>2, SumDiffers
  <2>4. f[z] \in Nat /\ g[z] = f[z]
    OBVIOUS
  <2> QED
    BY <1>2, <2>3, <2>4
<1> QED
  BY <1>3, <1>4

-----------------------------------------------------------------------------
(* Loops.                                                                   *)

(* What the rounds 1..n do to S, and the states of S after each of them.    *)
Rounds(step, n, S) == step \in [(1..n) \X S -> S]

LoopOf(f, base, step, n, S) ==
  f \in [0..n -> S] /\ f[0] = base /\ \A k \in 1..n : f[k] = step[<<k, f[k - 1]>>]

(* A loop of n rounds, each of which maps S to S, has a state after each of *)
(* them: the recursive function of the number of rounds exists.             *)
LEMMA LoopExists ==
  ASSUME NEW n \in Nat, NEW S, NEW base \in S, NEW step, Rounds(step, n, S)
  PROVE  \E f : LoopOf(f, base, step, n, S)
<1> USE DEF Rounds, LoopOf
<1> DEFINE Upto(f, m) == LoopOf(f, base, step, m, S)
           Reached == {m \in Nat : m <= n => \E f : Upto(f, m)}
<1>1. 0 \in Reached
  <2>1. Upto([k \in 0..0 |-> base], 0)
    OBVIOUS
  <2> HIDE DEF Upto
  <2> QED
    BY <2>1
<1>2. ASSUME NEW m \in Nat, m \in Reached PROVE m + 1 \in Reached
  <2> SUFFICES ASSUME m + 1 <= n PROVE \E f : Upto(f, m + 1)
    OBVIOUS
  <2>1. PICK f : Upto(f, m)
    BY <1>2
  <2> DEFINE g == [k \in 0..(m + 1) |-> IF k = m + 1 THEN step[<<m + 1, f[m]>>] ELSE f[k]]
  <2>2. f[m] \in S /\ m + 1 \in 1..n
    BY <2>1
  <2>3. step[<<m + 1, f[m]>>] \in S
    BY <2>2
  <2>4. g \in [0..(m + 1) -> S]
    BY <2>1, <2>3
  <2>5. g[0] = base
    BY <2>1
  <2>6. ASSUME NEW k \in 1..(m + 1) PROVE g[k] = step[<<k, g[k - 1]>>]
    <3>1. k - 1 \in 0..m /\ k \in 0..(m + 1) /\ k - 1 # m + 1
      OBVIOUS
    <3>2. g[k - 1] = f[k - 1]
      BY <3>1
    <3>3. CASE k = m + 1
      <4>1. k - 1 = m /\ g[k] = step[<<m + 1, f[m]>>]
        BY <3>3
      <4> HIDE DEF g
      <4> QED
        BY <3>2, <3>3, <4>1
    <3>4. CASE k # m + 1
      <4>1. k \in 1..m /\ g[k] = f[k]
        BY <3>1, <3>4
      <4> QED
        BY <2>1, <3>2, <4>1
    <3> QED
      BY <3>3, <3>4
  <2> HIDE DEF g
  <2>7. Upto(g, m + 1)
    BY <2>4, <2>5, <2>6
  <2> QED
    BY <2>7
<1>3. n \in Reached
  <2> HIDE DEF Reached
  <2> QED
    BY <1>1, <1>2, NaturalsOfSet
<1> QED
  BY <1>3

=============================================================================
