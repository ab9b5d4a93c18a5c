------------------------------ MODULE FoldLemmas ------------------------------
(***************************************************************************)
(* What the proofs of several components need of numbers, maxima and sums. *)
(*                                                                         *)
(* The folds of the community modules are recursive functions over the     *)
(* subsets of a finite set.  The library's induction theorems take an      *)
(* operator, which no prover here instantiates; the lemmas below take the  *)
(* smallest counterexample instead.                                        *)
(***************************************************************************)
EXTENDS Integers, SequencesExt, WellFoundedInduction, FiniteSetTheorems, TLAPS

LEMMA SmallestElement ==
    ASSUME NEW T \in SUBSET Nat, T # {}
    PROVE  \E m \in T : \A k \in T : m <= k
<1>1. PICK m \in T : \A k \in T : <<k, m>> \notin OpToRel(<, Nat)
  BY NatLessThanWellFounded, WFMin
<1>2. \A k \in T : ~(k < m)
  BY <1>1 DEF OpToRel
<1> QED
  BY <1>2

LEMMA MaxMember ==
    ASSUME NEW n \in Nat, NEW T \in SUBSET (1..n), T # {}
    PROVE  Max(T) \in T /\ \A y \in T : Max(T) >= y
<1> DEFINE Bounds == {u \in Nat : \A y \in T : y <= u}
<1>1. n \in Bounds
  OBVIOUS
<1>2. PICK u \in Bounds : \A v \in Bounds : u <= v
  BY <1>1, SmallestElement
<1>3. u \in T
  <2> SUFFICES ASSUME u \notin T PROVE FALSE
    OBVIOUS
  <2>1. PICK y \in T : TRUE
    OBVIOUS
  <2>2. u - 1 \in Nat /\ \A x \in T : x <= u - 1
    BY <1>2, <2>1
  <2> QED
    BY <1>2, <2>2
<1>4. \A y \in T : u >= y
  BY <1>2
<1> QED
  BY <1>3, <1>4 DEF Max

-----------------------------------------------------------------------------
(* Sums *)

\* The element of a set that a fold takes first.
AnyOf(T) == CHOOSE x \in T : TRUE

\* "sum" adds up w over every subset of S, one chosen element after the other.
AddsUp(sum, w, S) ==
    sum = [T \in SUBSET S |->
             IF T = {} THEN 0 ELSE sum[T \ {AnyOf(T)}] + w[AnyOf(T)]]

LEMMA AnyOfMember == ASSUME NEW T, T # {} PROVE AnyOf(T) \in T
  BY DEF AnyOf

StepsUp(sum, w, S) ==
    /\ sum[{}] = 0
    /\ \A T \in SUBSET S : T # {} => sum[T] = sum[T \ {AnyOf(T)}] + w[AnyOf(T)]

LEMMA AddsUpSteps ==
    ASSUME NEW S, NEW w, NEW sum, AddsUp(sum, w, S)
    PROVE  StepsUp(sum, w, S)
<1>1. sum = [T \in SUBSET S |->
               IF T = {} THEN 0 ELSE sum[T \ {AnyOf(T)}] + w[AnyOf(T)]]
  BY DEF AddsUp
<1>2. sum[{}] = 0
  BY <1>1
<1>3. ASSUME NEW T \in SUBSET S, T # {}
      PROVE  sum[T] = sum[T \ {AnyOf(T)}] + w[AnyOf(T)]
  BY <1>1, <1>3
<1> QED
  BY <1>2, <1>3 DEF StepsUp

\* Every set of subsets of a finite set has one that contains no other.
LEMMA SmallestSubset ==
    ASSUME NEW S, IsFiniteSet(S), NEW B \in SUBSET (SUBSET S), B # {}
    PROVE  \E T \in B : \A U \in B : U \subseteq T => U = T
<1>1. B \subseteq FiniteSubsetsOf(S)
  BY FS_Subset DEF FiniteSubsetsOf
<1>2. \E T \in B : \A U \in B : ~ (<<U, T>> \in StrictSubsetOrdering(S))
  <2> HIDE DEF FiniteSubsetsOf, StrictSubsetOrdering
  <2> QED
    BY <1>1, FS_StrictSubsetOrderingWellFounded, WFMin
<1> QED
  BY <1>2 DEF StrictSubsetOrdering

\* Sums over two sets agree on what they have in common.
LEMMA SumsAgree ==
    ASSUME NEW S, NEW w, NEW sum, AddsUp(sum, w, S),
           NEW R, NEW v, NEW other, AddsUp(other, v, R),
           NEW C \in SUBSET (S \cap R), IsFiniteSet(C), \A x \in C : w[x] = v[x]
    PROVE  \A T \in SUBSET C : sum[T] = other[T]
<1>2. StepsUp(sum, w, S)
  BY AddsUpSteps
<1>3. StepsUp(other, v, R)
  BY AddsUpSteps
<1> DEFINE B == {T \in SUBSET C : sum[T] # other[T]}
<1> SUFFICES ASSUME B # {} PROVE FALSE
  OBVIOUS
<1>0. \E T \in B : \A U \in B : U \subseteq T => U = T
  <2>1. B \in SUBSET (SUBSET C)
    OBVIOUS
  <2> HIDE DEF B
  <2> QED
    BY <2>1, SmallestSubset
<1>1. PICK T \in B : \A U \in B : U \subseteq T => U = T
  BY <1>0
<1>4. T # {} /\ T \in SUBSET S /\ T \in SUBSET R
  BY <1>2, <1>3 DEF StepsUp
<1> DEFINE x == AnyOf(T)
<1>5. x \in T
  BY <1>4, AnyOfMember
<1>6. sum[T] = sum[T \ {x}] + w[x] /\ other[T] = other[T \ {x}] + v[x]
  BY <1>2, <1>3, <1>4 DEF StepsUp
<1> HIDE DEF x
<1>7. sum[T \ {x}] = other[T \ {x}]
  BY <1>1, <1>5
<1> QED
  BY <1>1, <1>5, <1>6, <1>7

LEMMA SumExists ==
    ASSUME NEW S, IsFiniteSet(S), NEW w
    PROVE  \E sum : AddsUp(sum, w, S)
<1> DEFINE B    == {T \in SUBSET S : ~ \E sum : AddsUp(sum, w, T)}
           G(T) == CHOOSE sum : AddsUp(sum, w, T)
<1> SUFFICES ASSUME B # {} PROVE FALSE
  OBVIOUS
<1>0. \E T \in B : \A U \in B : U \subseteq T => U = T
  <2>1. B \in SUBSET (SUBSET S)
    OBVIOUS
  <2> HIDE DEF B
  <2> QED
    BY <2>1, SmallestSubset
<1>1. PICK T \in B : \A U \in B : U \subseteq T => U = T
  BY <1>0
<1>2. ASSUME NEW U \in SUBSET T, U # T PROVE AddsUp(G(U), w, U)
  BY <1>1, <1>2
<1> HIDE DEF G
<1> DEFINE pick(U) == AnyOf(U)
           sum == [U \in SUBSET T |->
                     IF U # T THEN G(U)[U]
                     ELSE IF T = {} THEN 0 ELSE G(T \ {pick(T)})[T \ {pick(T)}] + w[pick(T)]]
<1>3. ASSUME NEW U \in SUBSET T, U # {} PROVE sum[U] = sum[U \ {pick(U)}] + w[pick(U)]
  <2>1. pick(U) \in U
    BY <1>3, AnyOfMember
  <2>2. U \ {pick(U)} \in SUBSET T /\ U \ {pick(U)} # T
    BY <2>1
  <2>3. sum[U \ {pick(U)}] = G(U \ {pick(U)})[U \ {pick(U)}]
    BY <2>2
  <2>4. CASE U = T
    BY <1>3, <2>3, <2>4
  <2>5. CASE U # T
    <3>1. sum[U] = G(U)[U]
      BY <2>5
    <3>2. AddsUp(G(U), w, U) /\ AddsUp(G(U \ {pick(U)}), w, U \ {pick(U)})
      BY <1>2, <2>2, <2>5
    <3>3. G(U)[U] = G(U)[U \ {pick(U)}] + w[pick(U)]
      BY <1>3, <3>2, AddsUpSteps DEF StepsUp
    <3>4. IsFiniteSet(U \ {pick(U)})
      BY FS_Subset
    <3>5. G(U)[U \ {pick(U)}] = G(U \ {pick(U)})[U \ {pick(U)}]
      <4> HIDE DEF pick
      <4> QED
        BY <3>2, <3>4, SumsAgree
    <3> QED
      BY <2>3, <3>1, <3>3, <3>5
  <2> QED
    BY <2>4, <2>5
<1>4. sum[{}] = 0
  <2>1. CASE T = {}
    BY <2>1
  <2>2. CASE T # {}
    <3>1. AddsUp(G({}), w, {})
      BY <1>2, <2>2
    <3>2. G({})[{}] = 0
      BY <3>1, AddsUpSteps DEF StepsUp
    <3> QED
      BY <2>2, <3>2
  <2> QED
    BY <2>1, <2>2
<1>5. sum = [U \in SUBSET T |->
              IF U = {} THEN 0 ELSE sum[U \ {AnyOf(U)}] + w[AnyOf(U)]]
  <2>1. \A U \in SUBSET T :
          sum[U] = IF U = {} THEN 0 ELSE sum[U \ {pick(U)}] + w[pick(U)]
    <3> HIDE DEF sum, pick
    <3> QED
      BY <1>3, <1>4
  <2>2. sum = [U \in SUBSET T |-> sum[U]]
    OBVIOUS
  <2> HIDE DEF sum
  <2> QED
    BY <2>1, <2>2
<1>6. AddsUp(sum, w, T)
  BY <1>5 DEF AddsUp
<1> QED
  BY <1>1, <1>6

LEMMA SumType ==
    ASSUME NEW S, IsFiniteSet(S), NEW w, \A x \in S : w[x] \in Nat,
           NEW sum, AddsUp(sum, w, S)
    PROVE  \A T \in SUBSET S : sum[T] \in Nat
<1>2. StepsUp(sum, w, S)
  BY AddsUpSteps
<1> DEFINE B == {T \in SUBSET S : sum[T] \notin Nat}
<1> SUFFICES ASSUME B # {} PROVE FALSE
  OBVIOUS
<1>0. \E T \in B : \A U \in B : U \subseteq T => U = T
  <2>1. B \in SUBSET (SUBSET S)
    OBVIOUS
  <2> HIDE DEF B
  <2> QED
    BY <2>1, SmallestSubset
<1>1. PICK T \in B : \A U \in B : U \subseteq T => U = T
  BY <1>0
<1>3. sum[{}] = 0
  BY <1>2 DEF StepsUp
<1>4. T # {} /\ T \in SUBSET S /\ sum[T] \notin Nat
  BY <1>3
<1> DEFINE x == AnyOf(T)
<1>5. x \in T
  BY <1>4, AnyOfMember
<1>6. sum[T] = sum[T \ {x}] + w[x]
  BY <1>2, <1>4 DEF StepsUp
<1> HIDE DEF x
<1>7. sum[T \ {x}] \in Nat /\ w[x] \in Nat
  BY <1>1, <1>4, <1>5
<1> HIDE DEF B
<1> QED
  BY <1>4, <1>6, <1>7

\* Any element may be added last.
LEMMA SumSplits ==
    ASSUME NEW S, IsFiniteSet(S), NEW w, \A x \in S : w[x] \in Nat,
           NEW sum, AddsUp(sum, w, S)
    PROVE  \A T \in SUBSET S : \A x \in T : sum[T] = sum[T \ {x}] + w[x]
<1>a. StepsUp(sum, w, S)
  BY AddsUpSteps
<1> DEFINE Splits(T) == \A x \in T : sum[T] = sum[T \ {x}] + w[x]
           B == {T \in SUBSET S : ~ Splits(T)}
<1> SUFFICES ASSUME B # {} PROVE FALSE
  OBVIOUS
<1>0. \E T \in B : \A U \in B : U \subseteq T => U = T
  <2>1. B \in SUBSET (SUBSET S)
    OBVIOUS
  <2> HIDE DEF B
  <2> QED
    BY <2>1, SmallestSubset
<1>1. PICK T \in B : \A U \in B : U \subseteq T => U = T
  BY <1>0
<1>2. PICK x \in T : sum[T] # sum[T \ {x}] + w[x]
  BY <1>1
<1>3. PICK y \in T : sum[T] = sum[T \ {y}] + w[y]
  <2>1. T # {} /\ T \in SUBSET S
    BY <1>2
  <2>2. AnyOf(T) \in T
    BY <2>1, AnyOfMember
  <2>3. sum[T] = sum[T \ {AnyOf(T)}] + w[AnyOf(T)]
    BY <1>a, <2>1 DEF StepsUp
  <2> QED
    BY <2>2, <2>3
<1>4. x # y
  BY <1>2, <1>3
<1>5. Splits(T \ {x}) /\ Splits(T \ {y})
  BY <1>1
<1>6. sum[T \ {y}] = sum[(T \ {y}) \ {x}] + w[x]
  BY <1>4, <1>5
<1>7. sum[T \ {x}] = sum[(T \ {x}) \ {y}] + w[y]
  BY <1>4, <1>5
<1> DEFINE rest == sum[(T \ {x}) \ {y}]
<1>8. (T \ {x}) \ {y} = (T \ {y}) \ {x}
  OBVIOUS
<1>9. rest \in Nat /\ w[x] \in Nat /\ w[y] \in Nat
  BY SumType
<1>10. sum[T \ {y}] = rest + w[x] /\ sum[T \ {x}] = rest + w[y]
  BY <1>6, <1>7, <1>8
<1> HIDE DEF rest, B
<1> QED
  BY <1>2, <1>3, <1>9, <1>10

\* The sum of w over S, whatever the order.
SumOver(w, S) == (CHOOSE sum : AddsUp(sum, w, S))[S]

LEMMA SumOverIs ==
    ASSUME NEW S, IsFiniteSet(S), NEW w, NEW sum, AddsUp(sum, w, S)
    PROVE  SumOver(w, S) = sum[S]
<1> DEFINE chosen == CHOOSE c : AddsUp(c, w, S)
<1>1. AddsUp(chosen, w, S)
  OBVIOUS
<1> HIDE DEF chosen
<1>2. chosen[S] = sum[S]
  <2>1. S \in SUBSET (S \cap S) /\ \A x \in S : w[x] = w[x]
    OBVIOUS
  <2> QED
    BY <1>1, <2>1, SumsAgree
<1> QED
  BY <1>2 DEF SumOver, chosen

LEMMA SumSame ==
    ASSUME NEW S, IsFiniteSet(S), NEW w, NEW v, \A x \in S : w[x] = v[x]
    PROVE  SumOver(w, S) = SumOver(v, S)
<1>1. PICK sum : AddsUp(sum, w, S)
  BY SumExists
<1>2. PICK other : AddsUp(other, v, S)
  BY SumExists
<1>3. S \in SUBSET (S \cap S)
  OBVIOUS
<1>4. sum[S] = other[S]
  BY <1>1, <1>2, <1>3, SumsAgree
<1> QED
  BY <1>1, <1>2, <1>4, SumOverIs

LEMMA SumFacts ==
    ASSUME NEW S, IsFiniteSet(S), NEW w, \A x \in S : w[x] \in Nat
    PROVE  /\ SumOver(w, S) \in Nat
           /\ \A x \in S : SumOver(w, S) = SumOver(w, S \ {x}) + w[x]
<1>1. PICK sum : AddsUp(sum, w, S)
  BY SumExists
<1>2. SumOver(w, S) = sum[S]
  BY <1>1, SumOverIs
<1>3. sum[S] \in Nat
  BY <1>1, SumType
<1>4. ASSUME NEW x \in S PROVE SumOver(w, S) = SumOver(w, S \ {x}) + w[x]
  <2>1. IsFiniteSet(S \ {x})
    BY FS_Subset
  <2>2. PICK rest : AddsUp(rest, w, S \ {x})
    BY <2>1, SumExists
  <2>3. SumOver(w, S \ {x}) = rest[S \ {x}]
    BY <2>1, <2>2, SumOverIs
  <2>4. S \ {x} \in SUBSET (S \cap (S \ {x})) /\ \A y \in S \ {x} : w[y] = w[y]
    OBVIOUS
  <2>5. sum[S \ {x}] = rest[S \ {x}]
    BY <1>1, <2>1, <2>2, <2>4, SumsAgree
  <2>6. sum[S] = sum[S \ {x}] + w[x]
    BY <1>1, SumSplits
  <2> QED
    BY <1>2, <2>3, <2>5, <2>6
<1> QED
  BY <1>2, <1>3, <1>4

LEMMA SumOfNothing ==
    ASSUME NEW S, IsFiniteSet(S), NEW w, \A x \in S : w[x] = 0
    PROVE  SumOver(w, S) = 0
<1> DEFINE none == [T \in SUBSET S |-> 0]
<1>1. \A T \in SUBSET S : T # {} => none[T \ {AnyOf(T)}] + w[AnyOf(T)] = 0
  <2> SUFFICES ASSUME NEW T \in SUBSET S, T # {} PROVE none[T \ {AnyOf(T)}] + w[AnyOf(T)] = 0
    OBVIOUS
  <2>1. AnyOf(T) \in S
    BY AnyOfMember
  <2>2. w[AnyOf(T)] = 0 /\ none[T \ {AnyOf(T)}] = 0
    BY <2>1
  <2> HIDE DEF none
  <2> QED
    BY <2>2
<1>2. AddsUp(none, w, S)
  BY <1>1 DEF AddsUp
<1> QED
  BY <1>2, SumOverIs

\* A sum that is written the other way round.
LEMMA SumReversed ==
    ASSUME NEW S, IsFiniteSet(S), NEW w, \A x \in S : w[x] \in Nat, NEW sum,
           sum = [T \in SUBSET S |->
                    IF T = {} THEN 0 ELSE w[AnyOf(T)] + sum[T \ {AnyOf(T)}]]
    PROVE  AddsUp(sum, w, S)
<1> DEFINE B == {T \in SUBSET S : sum[T] \notin Nat}
<1>1. sum[{}] = 0 /\ \A T \in SUBSET S : T # {} => sum[T] = w[AnyOf(T)] + sum[T \ {AnyOf(T)}]
  OBVIOUS
<1>2. B = {}
  <2> SUFFICES ASSUME B # {} PROVE FALSE
    OBVIOUS
  <2>1. B \in SUBSET (SUBSET S)
    OBVIOUS
  <2>2. \E T \in B : \A U \in B : U \subseteq T => U = T
    <3> HIDE DEF B
    <3> QED
      BY <2>1, SmallestSubset
  <2>3. PICK T \in B : \A U \in B : U \subseteq T => U = T
    BY <2>2
  <2>4. T # {} /\ T \in SUBSET S /\ sum[T] \notin Nat
    BY <1>1
  <2> DEFINE x == AnyOf(T)
  <2>5. x \in T
    BY <2>4, AnyOfMember
  <2>6. sum[T] = w[x] + sum[T \ {x}]
    BY <1>1, <2>4
  <2> HIDE DEF x
  <2>7. sum[T \ {x}] \in Nat /\ w[x] \in Nat
    BY <2>3, <2>4, <2>5
  <2> HIDE DEF B
  <2> QED
    BY <2>4, <2>6, <2>7
<1>3. \A T \in SUBSET S : sum[T] \in Nat
  BY <1>2
<1>4. ASSUME NEW T \in SUBSET S, T # {}
      PROVE  w[AnyOf(T)] + sum[T \ {AnyOf(T)}] = sum[T \ {AnyOf(T)}] + w[AnyOf(T)]
  <2>1. AnyOf(T) \in S
    BY <1>4, AnyOfMember
  <2>2. w[AnyOf(T)] \in Nat /\ sum[T \ {AnyOf(T)}] \in Nat
    BY <1>3, <2>1
  <2> QED
    BY <2>2
<1>5. [T \in SUBSET S |-> IF T = {} THEN 0 ELSE w[AnyOf(T)] + sum[T \ {AnyOf(T)}]]
      = [T \in SUBSET S |-> IF T = {} THEN 0 ELSE sum[T \ {AnyOf(T)}] + w[AnyOf(T)]]
  BY <1>4
<1> QED
  BY <1>5 DEF AddsUp

\* The sum of the community modules is this one.
LEMMA SumFunctionIsSum ==
    ASSUME NEW S, IsFiniteSet(S), NEW w, \A x \in S : w[x] \in Nat
    PROVE  SumFunctionOnSet(w, S) = SumOver(w, S)
<1> DEFINE Body(sum) == [T \in SUBSET S |->
             IF T = {} THEN 0
             ELSE LET x == CHOOSE x \in T : TRUE IN w[x] + sum[T \ {x}]]
           Reversed(sum) == [T \in SUBSET S |->
                    IF T = {} THEN 0 ELSE w[AnyOf(T)] + sum[T \ {AnyOf(T)}]]
           chosen == CHOOSE sum : sum = Body(sum)
<1>1. SumFunctionOnSet(w, S) = chosen[S]
  BY DEF SumFunctionOnSet, FoldFunctionOnSet, MapThenFoldSet
<1>2. ASSUME NEW sum PROVE Body(sum) = Reversed(sum)
  BY DEF AnyOf
<1>3. \E sum : sum = Reversed(sum)
  <2>1. PICK sum : AddsUp(sum, w, S)
    BY SumExists
  <2>2. ASSUME NEW T \in SUBSET S, T # {}
        PROVE  sum[T \ {AnyOf(T)}] + w[AnyOf(T)] = w[AnyOf(T)] + sum[T \ {AnyOf(T)}]
    <3>1. AnyOf(T) \in S /\ T \ {AnyOf(T)} \in SUBSET S
      BY <2>2, AnyOfMember
    <3>2. w[AnyOf(T)] \in Nat /\ sum[T \ {AnyOf(T)}] \in Nat
      BY <2>1, <3>1, SumType
    <3> QED
      BY <3>2
  <2>3. [T \in SUBSET S |-> IF T = {} THEN 0 ELSE sum[T \ {AnyOf(T)}] + w[AnyOf(T)]]
          = Reversed(sum)
    BY <2>2
  <2> QED
    BY <2>1, <2>3 DEF AddsUp
<1>4. chosen = Reversed(chosen)
  <2> HIDE DEF Body, Reversed
  <2>1. \E sum : sum = Body(sum)
    BY <1>2, <1>3
  <2>2. chosen = Body(chosen)
    BY <2>1
  <2> HIDE DEF chosen
  <2> QED
    BY <1>2, <2>2
<1> HIDE DEF chosen
<1>5. AddsUp(chosen, w, S)
  BY <1>4, SumReversed
<1> QED
  BY <1>1, <1>5, SumOverIs

\* One more element adds its weight; what the others weigh may be written otherwise.
LEMMA SumGrows ==
    ASSUME NEW S, IsFiniteSet(S), NEW x, x \notin S, NEW w, NEW v,
           \A y \in S : w[y] \in Nat /\ v[y] = w[y], v[x] \in Nat
    PROVE  /\ SumFunctionOnSet(w, S) \in Nat
           /\ SumFunctionOnSet(v, S \cup {x}) = SumFunctionOnSet(w, S) + v[x]
<1> DEFINE R == S \cup {x}
<1>1. IsFiniteSet(R) /\ x \in R /\ R \ {x} = S /\ \A y \in R : v[y] \in Nat
  BY FS_AddElement
<1> HIDE DEF R
<1>2. SumFunctionOnSet(v, R) = SumOver(v, R) /\ SumFunctionOnSet(w, S) = SumOver(w, S)
  BY <1>1, SumFunctionIsSum
<1>3. SumOver(v, R) = SumOver(v, R \ {x}) + v[x] /\ SumOver(w, S) \in Nat
  BY <1>1, SumFacts
<1>4. SumOver(v, S) = SumOver(w, S)
  BY SumSame
<1> QED
  BY <1>1, <1>2, <1>3, <1>4 DEF R

LEMMA SumIsSame ==
    ASSUME NEW S, IsFiniteSet(S), NEW w, NEW v, \A x \in S : w[x] \in Nat /\ v[x] = w[x]
    PROVE  SumFunctionOnSet(v, S) = SumFunctionOnSet(w, S)
<1>1. \A x \in S : v[x] \in Nat
  OBVIOUS
<1>2. SumFunctionOnSet(v, S) = SumOver(v, S) /\ SumFunctionOnSet(w, S) = SumOver(w, S)
  BY <1>1, SumFunctionIsSum
<1> QED
  BY <1>2, SumSame
=============================================================================
