----------------------------- MODULE ListLemmas -----------------------------
(***************************************************************************)
(* What the lists of the models hold, when no entry is in them twice: the  *)
(* lemmas about sequences that the proofs of several components cite.      *)
(***************************************************************************)
EXTENDS Integers, SequencesExt, FiniteSetTheorems, WellFoundedInduction, TLAPS

Distinct(list) == \A i, j \in DOMAIN list : list[i] = list[j] => i = j

LEMMA AppendElements ==
  ASSUME NEW S, NEW list \in Seq(S), NEW e \in S
  PROVE  /\ Append(list, e) \in Seq(S)
         /\ ToSet(Append(list, e)) = ToSet(list) \cup {e}
         /\ Distinct(list) /\ e \notin ToSet(list) => Distinct(Append(list, e))
         /\ Last(Append(list, e)) = e
BY DEF ToSet, Distinct, Last

LEMMA TailElements ==
  ASSUME NEW S, NEW list \in Seq(S), list # <<>>
  PROVE  /\ Tail(list) \in Seq(S) /\ Head(list) \in ToSet(list) /\ Head(list) \in S
         /\ Len(Tail(list)) = Len(list) - 1
         /\ ToSet(list) = ToSet(Tail(list)) \cup {Head(list)}
         /\ Distinct(list) => /\ Distinct(Tail(list))
                              /\ ToSet(Tail(list)) = ToSet(list) \ {Head(list)}
<1>1. /\ Tail(list) \in Seq(S) /\ Len(Tail(list)) = Len(list) - 1
      /\ \A i \in DOMAIN Tail(list) : i + 1 \in DOMAIN list /\ Tail(list)[i] = list[i + 1]
      /\ \A i \in DOMAIN list : i # 1 => i - 1 \in DOMAIN Tail(list)
      /\ Head(list) = list[1] /\ 1 \in DOMAIN list
      /\ \A i \in DOMAIN list : i \in Nat /\ list[i] \in S
  OBVIOUS
<1>2. ToSet(list) = ToSet(Tail(list)) \cup {Head(list)}
  BY <1>1 DEF ToSet
<1>3. ASSUME Distinct(list)
      PROVE  Distinct(Tail(list)) /\ Head(list) \notin ToSet(Tail(list))
  BY <1>1, <1>3 DEF ToSet, Distinct
<1>4. QED
  BY <1>1, <1>2, <1>3 DEF ToSet

LEMMA FrontElements ==
  ASSUME NEW S, NEW list \in Seq(S), list # <<>>
  PROVE  /\ Front(list) \in Seq(S) /\ Last(list) \in ToSet(list) /\ Last(list) \in S
         /\ Distinct(list) => /\ Distinct(Front(list))
                              /\ ToSet(Front(list)) = ToSet(list) \ {Last(list)}
<1>1. /\ Front(list) \in Seq(S) /\ DOMAIN Front(list) = 1 .. Len(list) - 1
      /\ \A i \in 1 .. Len(list) - 1 : Front(list)[i] = list[i]
      /\ Last(list) = list[Len(list)] /\ Len(list) \in Nat \ {0}
      /\ DOMAIN list = 1 .. Len(list)
      /\ \A i \in DOMAIN list : list[i] \in S
  BY DEF Front, Last
<1>2. QED
  BY <1>1 DEF ToSet, Distinct

\* A list without a double entry is as long as the set of its entries is large.
LEMMA DistinctLength ==
  ASSUME NEW S, NEW list \in Seq(S), Distinct(list)
  PROVE  IsFiniteSet(ToSet(list)) /\ Cardinality(ToSet(list)) = Len(list)
<1> DEFINE n == Len(list)
           elements == ToSet(list)
           f == [i \in 1 .. n |-> list[i]]
<1>1. n \in Nat /\ DOMAIN list = 1 .. n
  OBVIOUS
<1>2. f \in Bijection(1 .. n, elements)
  <2>1. f \in [1 .. n -> elements]
    BY <1>1 DEF ToSet
  <2>2. \A i, j \in 1 .. n : f[i] = f[j] => i = j
    BY <1>1 DEF Distinct
  <2>3. \A e \in elements : \E i \in 1 .. n : f[i] = e
    BY <1>1 DEF ToSet
  <2> HIDE DEF f, elements, n
  <2>4. QED
    BY <2>1, <2>2, <2>3 DEF Bijection, Injection, Surjection, IsInjective
<1>3. ExistsBijection(1 .. n, elements)
  BY <1>2 DEF ExistsBijection
<1> HIDE DEF f, elements, n
<1>4. Cardinality(1 .. n) = n /\ IsFiniteSet(1 .. n)
  BY <1>1, FS_Interval
<1>5. IsFiniteSet(elements) /\ Cardinality(elements) = n
  BY <1>3, <1>4, FS_Bijection
<1>6. QED
  BY <1>5 DEF elements, n

\* What takes the place of induction: the least number for which something fails.
LEMMA LeastElement ==
  ASSUME NEW S, \A n \in S : n \in Nat, NEW e \in S
  PROVE  \E n \in S : \A m \in S : n <= m
<1> DEFINE R == OpToRel(<, Nat)
<1>1. \A x, y \in Nat : <<x, y>> \in R <=> x < y
  BY DEF OpToRel
<1>2. IsWellFoundedOn(R, Nat)
  BY NatLessThanWellFounded
<1>3. S \subseteq Nat /\ S # {}
  OBVIOUS
<1> HIDE DEF R
<1>4. PICK x \in S : \A y \in S : ~(<<y, x>> \in R)
  BY <1>2, <1>3, WFMin
<1>5. \A y \in S : ~(y < x) /\ y \in Nat /\ x \in Nat
  BY <1>1, <1>3, <1>4
<1>6. \A y \in S : x <= y
  BY <1>5
<1>7. QED
  BY <1>6

=============================================================================
