----------------------------- MODULE ListLemmas -----------------------------
(***************************************************************************)
(* What the operators on lists that the call queue is built from return:   *)
(* List.delete/2 (RemoveFirst), and lists read from a set of rows.         *)
(***************************************************************************)
EXTENDS SequencesExt, SequenceTheorems, FiniteSetTheorems,
        NaturalsInduction, WellFoundedInduction, TLAPS

(* RemoveAt shifts what follows the position.                              *)
LEMMA RemoveAtIsSeq ==
  ASSUME NEW S, NEW s \in Seq(S), NEW k \in 1..Len(s)
  PROVE  /\ RemoveAt(s, k) \in Seq(S)
         /\ Len(RemoveAt(s, k)) = Len(s) - 1
         /\ \A i \in 1..(Len(s) - 1) :
              RemoveAt(s, k)[i] = IF i < k THEN s[i] ELSE s[i + 1]
<1> DEFINE u == SubSeq(s, 1, k - 1)
           v == SubSeq(s, k + 1, Len(s))
<1>1. /\ u \in Seq(S)
      /\ Len(u) = k - 1
      /\ \A i \in 1..(k - 1) : u[i] = s[i]
  OBVIOUS
<1>2. /\ v \in Seq(S)
      /\ Len(v) = Len(s) - k
      /\ \A i \in 1..(Len(s) - k) : v[i] = s[k + i]
  OBVIOUS
<1>3. RemoveAt(s, k) = u \o v
  BY DEF RemoveAt
<1> HIDE DEF u, v
<1>4. u \o v \in Seq(S) /\ Len(u \o v) = Len(s) - 1
  BY <1>1, <1>2
<1>5. ASSUME NEW i \in 1..(Len(s) - 1)
      PROVE  (u \o v)[i] = IF i < k THEN s[i] ELSE s[i + 1]
  <2>1. CASE i < k
    BY <2>1, <1>1, <1>2
  <2>2. CASE ~(i < k)
    <3>1. (u \o v)[i] = v[i - (k - 1)]
      BY <2>2, <1>1, <1>2
    <3>2. i - (k - 1) \in 1..(Len(s) - k)
      BY <2>2
    <3> QED
      BY <3>1, <3>2, <2>2, <1>2
  <2> QED
    BY <2>1, <2>2
<1> QED
  BY <1>3, <1>4, <1>5

(* A non-empty set of naturals has a minimum.                              *)
LEMMA MinOfNaturals ==
  ASSUME NEW I \in SUBSET Nat, I # {}
  PROVE  Min(I) \in I
<1>1. IsWellFoundedOn(OpToRel(<, Nat), Nat)
  BY NatLessThanWellFounded
<1>2. PICK x \in I : \A y \in I : ~(<<y, x>> \in OpToRel(<, Nat))
  BY <1>1, WFMin
<1>3. \A y \in I : ~(y < x)
  BY <1>2 DEF OpToRel
<1>4. \A y \in I : x <= y
  BY <1>3
<1> QED
  BY <1>4 DEF Min

(* List.delete/2 keeps the type of a list, adds no element, and of a list  *)
(* without duplicates leaves one that has none, and not the element.       *)
LEMMA RemoveFirstIsSeq ==
  ASSUME NEW S, NEW s \in Seq(S), NEW e
  PROVE  /\ RemoveFirst(s, e) \in Seq(S)
         /\ \A i \in 1..Len(RemoveFirst(s, e)) :
              \E j \in 1..Len(s) : RemoveFirst(s, e)[i] = s[j]
         /\ IsInjective(s) =>
              /\ IsInjective(RemoveFirst(s, e))
              /\ \A i \in 1..Len(RemoveFirst(s, e)) : RemoveFirst(s, e)[i] # e
<1>1. CASE ~Contains(s, e)
  BY <1>1 DEF RemoveFirst, Contains
<1>2. CASE Contains(s, e)
  <2> DEFINE w == RemoveFirst(s, e)
             I == {i \in 1..Len(s) : s[i] = e}
  <2>1. I \in SUBSET Nat /\ I # {}
    BY <1>2 DEF Contains
  <2>2. w = RemoveAt(s, Min(I))
    BY <1>2, <2>1 DEF Contains, RemoveFirst, SelectInSeq
  <2>3. PICK k \in 1..Len(s) : s[k] = e /\ w = RemoveAt(s, k)
    BY <2>1, <2>2, MinOfNaturals
  <2> HIDE DEF w, I
  <2>4. /\ w \in Seq(S)
        /\ Len(s) \in Nat
        /\ Len(w) = Len(s) - 1
        /\ \A i \in 1..Len(w) : w[i] = IF i < k THEN s[i] ELSE s[i + 1]
    <3>1. /\ w \in Seq(S) /\ Len(w) = Len(s) - 1
          /\ \A i \in 1..(Len(s) - 1) : w[i] = IF i < k THEN s[i] ELSE s[i + 1]
      BY <2>3, RemoveAtIsSeq
    <3> QED
      BY <3>1
  <2>6. DOMAIN s = 1..Len(s) /\ DOMAIN w = 1..Len(w)
    BY <2>4
  <2>7. IsInjective(s) => IsInjective(w) /\ \A i \in 1..Len(w) : w[i] # e
    <3> SUFFICES ASSUME IsInjective(s)
                 PROVE  IsInjective(w) /\ \A i \in 1..Len(w) : w[i] # e
      OBVIOUS
    <3>1. \A i, j \in 1..Len(s) : s[i] = s[j] => i = j
      BY <2>6 DEF IsInjective
    <3>2. ASSUME NEW i \in 1..Len(w), NEW j \in 1..Len(w), w[i] = w[j]
          PROVE  i = j
      <4>1. i \in 1..Len(s) /\ i + 1 \in 1..Len(s)
            /\ j \in 1..Len(s) /\ j + 1 \in 1..Len(s)
        BY <2>4
      <4>2. \/ i < k /\ j < k /\ s[i] = s[j]
            \/ i < k /\ ~(j < k) /\ s[i] = s[j + 1]
            \/ ~(i < k) /\ j < k /\ s[i + 1] = s[j]
            \/ ~(i < k) /\ ~(j < k) /\ s[i + 1] = s[j + 1]
        BY <2>4, <3>2
      <4> QED
        BY <3>1, <4>1, <4>2
    <3>3. ASSUME NEW i \in 1..Len(w)
          PROVE  w[i] # e
      <4>1. i \in 1..Len(s) /\ i + 1 \in 1..Len(s)
        BY <2>4
      <4>2. \/ i < k /\ w[i] = s[i]
            \/ ~(i < k) /\ w[i] = s[i + 1]
        BY <2>4
      <4> QED
        BY <2>3, <3>1, <4>1, <4>2
    <3> QED
      BY <2>6, <3>2, <3>3 DEF IsInjective
  <2>8. \A i \in 1..Len(w) : \E j \in 1..Len(s) : w[i] = s[j]
    <3> TAKE i \in 1..Len(w)
    <3>1. i \in 1..Len(s) /\ i + 1 \in 1..Len(s)
      BY <2>4
    <3> QED
      BY <3>1, <2>4
  <2> QED
    BY <2>4, <2>7, <2>8 DEF w
<1> QED
  BY <1>1, <1>2

(* The rows of a set in some order: a list without duplicates.             *)
LEMMA SetToSeqsOfSubset ==
  ASSUME NEW S, IsFiniteSet(S), NEW T \in SUBSET S, NEW s \in SetToSeqs(T)
  PROVE  s \in Seq(S) /\ IsInjective(s)
<1>1. Cardinality(T) \in Nat
  BY FS_Subset, FS_CardinalityType
<1>2. s \in [1..Cardinality(T) -> T]
  BY DEF SetToSeqs
<1>3. s \in Seq(S)
  BY <1>1, <1>2
<1>4. IsInjective(s)
  BY <1>2 DEF IsInjective, SetToSeqs
<1> QED
  BY <1>3, <1>4

(* A list of the elements of a set.                                        *)
LEMMA SetToSeqIsSeq ==
  ASSUME NEW S, NEW T \in SUBSET S, IsFiniteSet(T)
  PROVE  SetToSeq(T) \in Seq(S)
<1>1. Cardinality(T) \in Nat /\ ExistsBijection(1..Cardinality(T), T)
  BY FS_CardinalityType
<1>2. \E f \in [1..Cardinality(T) -> T] : IsInjective(f)
  BY <1>1 DEF ExistsBijection, Bijection, Injection
<1>3. SetToSeq(T) \in [1..Cardinality(T) -> T]
  BY <1>2 DEF SetToSeq
<1> QED
  BY <1>1, <1>3
=============================================================================
