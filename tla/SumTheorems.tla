---------------------------- MODULE SumTheorems ----------------------------
(***************************************************************************)
(* Sums over finite sets, as the aggregates of Pipeline and the scores of  *)
(* Grading and Assessment compute them with SumFunction.  The fold behind  *)
(* it is a CHOOSE of a recursive function.  The theorems on induction in   *)
(* the library take an operator as a parameter, which the provers cannot   *)
(* instantiate, so every induction here is by a smallest counterexample:   *)
(* the set Q of the subsets for which the statement fails has, unless it   *)
(* is empty, a member U with no smaller one (SmallestSet), and U is led to *)
(* a contradiction.                                                        *)
(***************************************************************************)
EXTENDS Functions, FiniteSetTheorems, WellFoundedInduction, TLAPS

\* The least number principle for a set.
LEMMA LeastNumber ==
    ASSUME NEW T \in SUBSET Nat, T # {}
    PROVE  \E m \in T : \A n \in T : m <= n
<1> DEFINE R == {ss \in Nat \X Nat : ss[1] < ss[2]}
<1>1. IsWellFoundedOn(R, Nat)
  BY NatLessThanWellFounded DEF OpToRel
<1>2. \A x, y \in Nat : <<y, x>> \in R <=> y < x
  OBVIOUS
<1> HIDE DEF R
<1>3. PICK x \in T : \A y \in T : ~ (<<y, x>> \in R)
  BY <1>1, WFMin
<1>4. \A y \in T : y \in Nat /\ x \in Nat /\ ~ (y < x)
  BY <1>2, <1>3
<1>5. \A y \in T : x <= y
  BY <1>4
<1> QED BY <1>5

\* Of the sets in Q, one that is smallest.
LEMMA SmallestSet ==
    ASSUME NEW S, IsFiniteSet(S), NEW Q \in SUBSET (SUBSET S), Q # {}
    PROVE  \E U \in Q : \A T \in SUBSET U : T # U => T \notin Q
<1>1. \A T \in SUBSET S : IsFiniteSet(T) /\ Cardinality(T) \in Nat
  BY FS_Subset, FS_CardinalityType
<1> DEFINE Sizes == {Cardinality(T) : T \in Q}
<1>2. Sizes \in SUBSET Nat /\ Sizes # {}
  BY <1>1
<1>3. PICK m \in Sizes : \A n \in Sizes : m <= n
  BY <1>2, LeastNumber
<1>4. PICK U \in Q : Cardinality(U) = m
  BY <1>3
<1>5. ASSUME NEW T \in SUBSET U, T # U PROVE T \notin Q
  <2>1. IsFiniteSet(U) /\ Cardinality(T) < Cardinality(U)
    BY <1>1, <1>5, FS_Subset
  <2>2. Cardinality(T) \in Nat /\ Cardinality(U) \in Nat /\ m \in Nat
    BY <1>1, <1>2
  <2> QED BY <1>3, <1>4, <2>1, <2>2
<1> QED BY <1>5
-----------------------------------------------------------------------------
\* The element that the fold of the community modules takes first.
Picked(T) == CHOOSE x \in T : TRUE

\* g computes the sums of f over the subsets of S.
Sums(g, f, S) == g = [T \in SUBSET S |-> IF T = {} THEN 0 ELSE f[Picked(T)] + g[T \ {Picked(T)}]]

\* SumFunctionOnSet is the fold, and the fold the value of such a g.
LEMMA SumUnfolds ==
    ASSUME NEW f, NEW S
    PROVE  SumFunctionOnSet(f, S) = (CHOOSE g : Sums(g, f, S))[S]
BY DEF SumFunctionOnSet, FoldFunctionOnSet, MapThenFoldSet, Picked, Sums

\* The element picked is one of the set.
LEMMA PickedIn ==
    ASSUME NEW T, T # {}
    PROVE  Picked(T) \in T
BY DEF Picked

\* The sum over a set does not depend on the set whose subsets g is for.
LEMMA SumsAgree ==
    ASSUME NEW f, NEW S, NEW V, NEW g, NEW h, Sums(g, f, S), Sums(h, f, V), IsFiniteSet(S)
    PROVE  \A T \in SUBSET S : T \in SUBSET V => g[T] = h[T]
<1> DEFINE Q == {T \in SUBSET S : T \in SUBSET V /\ g[T] # h[T]}
<1> SUFFICES ASSUME Q # {} PROVE FALSE
  OBVIOUS
<1>1. PICK U \in Q : \A T \in SUBSET U : T # U => T \notin Q
  <2>1. Q \in SUBSET (SUBSET S)
    OBVIOUS
  <2> HIDE DEF Q
  <2> QED BY <2>1, SmallestSet
<1>2. /\ g[U] = IF U = {} THEN 0 ELSE f[Picked(U)] + g[U \ {Picked(U)}]
      /\ h[U] = IF U = {} THEN 0 ELSE f[Picked(U)] + h[U \ {Picked(U)}]
  BY DEF Sums
<1>3. CASE U # {}
  <2>1. Picked(U) \in U
    BY <1>3, PickedIn
  <2>2. U \ {Picked(U)} \in SUBSET U /\ U \ {Picked(U)} # U
    BY <2>1
  <2>3. g[U \ {Picked(U)}] = h[U \ {Picked(U)}]
    BY <1>1, <2>2
  <2> QED BY <1>2, <1>3, <2>3
<1> QED BY <1>2, <1>3

\* Such a g exists for every finite set, so the CHOOSE chooses one.
LEMMA SumsExist ==
    ASSUME NEW f, NEW S, IsFiniteSet(S)
    PROVE  \E g : Sums(g, f, S)
<1> DEFINE Q == {T \in SUBSET S : ~ \E g : Sums(g, f, T)}
<1>1. SUFFICES ASSUME Q # {} PROVE FALSE
  <2>1. S \notin Q => \E g : Sums(g, f, S)
    OBVIOUS
  <2> QED BY <2>1
<1>2. PICK U \in Q : \A T \in SUBSET U : T # U => T \notin Q
  <2>1. Q \in SUBSET (SUBSET S)
    OBVIOUS
  <2> HIDE DEF Q
  <2> QED BY <1>1, <2>1, SmallestSet
<1> DEFINE G(T) == CHOOSE g : Sums(g, f, T)
           h == [T \in SUBSET U |-> IF T = {} THEN 0 ELSE f[Picked(T)] + G(T \ {Picked(T)})[T \ {Picked(T)}]]
<1>3. ASSUME NEW T \in SUBSET U, T # U PROVE Sums(G(T), f, T)
  <2>1. \E g : Sums(g, f, T)
    BY <1>2, <1>3
  <2> QED BY <2>1
<1> HIDE DEF G
<1>4. ASSUME NEW T \in SUBSET U, T # U PROVE h[T] = G(T)[T]
  <2>1. G(T)[T] = IF T = {} THEN 0 ELSE f[Picked(T)] + G(T)[T \ {Picked(T)}]
    BY <1>3, <1>4 DEF Sums
  <2>2. CASE T # {}
    <3> DEFINE W == T \ {Picked(T)}
    <3>1. W \in SUBSET T /\ W # T /\ W \in SUBSET U /\ W # U
      BY <1>4, <2>2, PickedIn
    <3>2. IsFiniteSet(W)
      BY <1>2, <3>1, FS_Subset
    <3>3. Sums(G(T), f, T) /\ Sums(G(W), f, W)
      BY <1>3, <1>4, <3>1
    <3>4. G(W)[W] = G(T)[W]
      BY <3>1, <3>2, <3>3, SumsAgree
    <3> QED BY <1>4, <2>1, <2>2, <3>4
  <2> QED BY <2>1, <2>2
<1>5. Sums(h, f, U)
  <2>1. ASSUME NEW T \in SUBSET U
        PROVE  h[T] = IF T = {} THEN 0 ELSE f[Picked(T)] + h[T \ {Picked(T)}]
    <3>1. CASE T # {}
      <4>1. T \ {Picked(T)} \in SUBSET U /\ T \ {Picked(T)} # U
        BY <3>1, PickedIn
      <4>2. h[T \ {Picked(T)}] = G(T \ {Picked(T)})[T \ {Picked(T)}]
        BY <1>4, <4>1
      <4> QED BY <3>1, <4>2
    <3> QED BY <3>1
  <2>2. h = [T \in SUBSET U |-> h[T]]
    OBVIOUS
  <2> HIDE DEF h
  <2> QED BY <2>1, <2>2 DEF Sums
<1> QED BY <1>2, <1>5

\* The sum over a set, by the element picked first.
LEMMA SumByPick ==
    ASSUME NEW f, NEW S, IsFiniteSet(S)
    PROVE  SumFunctionOnSet(f, S) =
             IF S = {} THEN 0 ELSE f[Picked(S)] + SumFunctionOnSet(f, S \ {Picked(S)})
<1> DEFINE G(T) == CHOOSE g : Sums(g, f, T)
           W == S \ {Picked(S)}
<1>1. IsFiniteSet(W)
  BY FS_Subset
<1>2. Sums(G(S), f, S) /\ Sums(G(W), f, W)
  BY <1>1, SumsExist
<1>3. SumFunctionOnSet(f, S) = G(S)[S] /\ SumFunctionOnSet(f, W) = G(W)[W]
  BY SumUnfolds
<1> HIDE DEF G
<1>4. G(S)[S] = IF S = {} THEN 0 ELSE f[Picked(S)] + G(S)[W]
  BY <1>2 DEF Sums
<1>5. G(W)[W] = G(S)[W]
  BY <1>1, <1>2, SumsAgree
<1> QED BY <1>3, <1>4, <1>5

\* The empty sum is 0.
LEMMA SumEmpty == \A f : SumFunctionOnSet(f, {}) = 0
<1>1. ASSUME NEW f PROVE SumFunctionOnSet(f, {}) = 0
  BY SumByPick, FS_EmptySet
<1> QED BY <1>1

\* A sum of integers is an integer, and of naturals a natural.
LEMMA SumType ==
    ASSUME NEW N \in {Nat, Int}, NEW f, NEW S, IsFiniteSet(S), \A x \in S : f[x] \in N
    PROVE  SumFunctionOnSet(f, S) \in N
<1> DEFINE Q == {T \in SUBSET S : SumFunctionOnSet(f, T) \notin N}
<1> SUFFICES ASSUME Q # {} PROVE FALSE
  OBVIOUS
<1>1. PICK U \in Q : \A T \in SUBSET U : T # U => T \notin Q
  <2>1. Q \in SUBSET (SUBSET S)
    OBVIOUS
  <2> HIDE DEF Q
  <2> QED BY <2>1, SmallestSet
<1>2. IsFiniteSet(U)
  BY FS_Subset
<1>3. SumFunctionOnSet(f, U) = IF U = {} THEN 0 ELSE f[Picked(U)] + SumFunctionOnSet(f, U \ {Picked(U)})
  BY <1>2, SumByPick
<1>4. CASE U # {}
  <2>1. Picked(U) \in U
    BY <1>4, PickedIn
  <2>2. SumFunctionOnSet(f, U \ {Picked(U)}) \in N /\ f[Picked(U)] \in N
    BY <1>1, <2>1
  <2> QED BY <1>3, <1>4, <2>2
<1> QED BY <1>3, <1>4

\* The order in which the elements are picked does not matter.
LEMMA SumRemove ==
    ASSUME NEW f, NEW S, IsFiniteSet(S), \A x \in S : f[x] \in Int
    PROVE  \A x \in S : SumFunctionOnSet(f, S) = f[x] + SumFunctionOnSet(f, S \ {x})
<1> DEFINE Q == {T \in SUBSET S : \E x \in T : SumFunctionOnSet(f, T) # f[x] + SumFunctionOnSet(f, T \ {x})}
<1> SUFFICES ASSUME Q # {} PROVE FALSE
  OBVIOUS
<1>1. PICK U \in Q : \A T \in SUBSET U : T # U => T \notin Q
  <2>1. Q \in SUBSET (SUBSET S)
    OBVIOUS
  <2> HIDE DEF Q
  <2> QED BY <2>1, SmallestSet
<1>2. PICK x \in U : SumFunctionOnSet(f, U) # f[x] + SumFunctionOnSet(f, U \ {x})
  OBVIOUS
<1> DEFINE y == Picked(U)
<1>3. y \in U
  BY <1>2, PickedIn
<1>4. \A T \in SUBSET U : IsFiniteSet(T) /\ SumFunctionOnSet(f, T) \in Int
  <2>1. ASSUME NEW T \in SUBSET U PROVE IsFiniteSet(T) /\ SumFunctionOnSet(f, T) \in Int
    <3>1. IsFiniteSet(T)
      BY FS_Subset
    <3> QED BY <3>1, SumType
  <2> QED BY <2>1
<1>5. SumFunctionOnSet(f, U) = f[y] + SumFunctionOnSet(f, U \ {y})
  BY <1>2, <1>4, SumByPick
<1> HIDE DEF y
<1>6. x # y
  BY <1>2, <1>5
<1>7. SumFunctionOnSet(f, U \ {y}) = f[x] + SumFunctionOnSet(f, (U \ {y}) \ {x})
  <2>1. U \ {y} \notin Q /\ U \ {y} \in SUBSET S
    BY <1>1, <1>3
  <2> QED BY <1>2, <1>6, <2>1
<1>8. SumFunctionOnSet(f, U \ {x}) = f[y] + SumFunctionOnSet(f, (U \ {x}) \ {y})
  <2>1. U \ {x} \notin Q /\ U \ {x} \in SUBSET S
    BY <1>1, <1>2
  <2> QED BY <1>3, <1>6, <2>1
<1>9. (U \ {x}) \ {y} = (U \ {y}) \ {x}
  OBVIOUS
<1>10. f[x] \in Int /\ f[y] \in Int /\ SumFunctionOnSet(f, (U \ {y}) \ {x}) \in Int
  <2>1. (U \ {y}) \ {x} \in SUBSET U
    OBVIOUS
  <2> QED BY <1>3, <1>4, <2>1
<1>11. \A a, b, c \in Int : a + (b + c) = b + (a + c)
  OBVIOUS
<1>12. SumFunctionOnSet(f, U) = f[y] + (f[x] + SumFunctionOnSet(f, (U \ {y}) \ {x}))
  BY <1>5, <1>7
<1>13. SumFunctionOnSet(f, U \ {x}) = f[y] + SumFunctionOnSet(f, (U \ {y}) \ {x})
  BY <1>8, <1>9
<1> QED BY <1>2, <1>10, <1>11, <1>12, <1>13

\* Functions that agree on a set have the same sum over it.
LEMMA SumOfEqual ==
    ASSUME NEW f, NEW g, NEW S, IsFiniteSet(S), \A x \in S : f[x] = g[x]
    PROVE  SumFunctionOnSet(f, S) = SumFunctionOnSet(g, S)
<1> DEFINE Q == {T \in SUBSET S : SumFunctionOnSet(f, T) # SumFunctionOnSet(g, T)}
<1> SUFFICES ASSUME Q # {} PROVE FALSE
  OBVIOUS
<1>1. PICK U \in Q : \A T \in SUBSET U : T # U => T \notin Q
  <2>1. Q \in SUBSET (SUBSET S)
    OBVIOUS
  <2> HIDE DEF Q
  <2> QED BY <2>1, SmallestSet
<1>2. IsFiniteSet(U)
  BY FS_Subset
<1>3. /\ SumFunctionOnSet(f, U) = IF U = {} THEN 0 ELSE f[Picked(U)] + SumFunctionOnSet(f, U \ {Picked(U)})
      /\ SumFunctionOnSet(g, U) = IF U = {} THEN 0 ELSE g[Picked(U)] + SumFunctionOnSet(g, U \ {Picked(U)})
  BY <1>2, SumByPick
<1>4. CASE U # {}
  <2>1. Picked(U) \in U
    BY <1>4, PickedIn
  <2>2. SumFunctionOnSet(f, U \ {Picked(U)}) = SumFunctionOnSet(g, U \ {Picked(U)})
    BY <1>1, <2>1
  <2> QED BY <1>3, <1>4, <2>1, <2>2
<1> QED BY <1>3, <1>4

\* An element more adds its summand.
LEMMA SumAdd ==
    ASSUME NEW f, NEW S, IsFiniteSet(S), NEW y, y \notin S, \A x \in S \cup {y} : f[x] \in Int
    PROVE  SumFunctionOnSet(f, S \cup {y}) = SumFunctionOnSet(f, S) + f[y]
<1>1. IsFiniteSet(S \cup {y})
  BY FS_AddElement
<1>2. SumFunctionOnSet(f, S \cup {y}) = f[y] + SumFunctionOnSet(f, (S \cup {y}) \ {y})
  BY <1>1, SumRemove
<1>3. (S \cup {y}) \ {y} = S
  OBVIOUS
<1>4. SumFunctionOnSet(f, S) \in Int /\ f[y] \in Int
  BY SumType
<1>5. SumFunctionOnSet(f, S \cup {y}) = f[y] + SumFunctionOnSet(f, S)
  BY <1>2, <1>3, Zenon
<1> QED BY <1>4, <1>5

\* No summand of a sum of naturals exceeds it.
LEMMA SummandBelowSum ==
    ASSUME NEW f, NEW S, IsFiniteSet(S), \A x \in S : f[x] \in Nat, NEW y \in S
    PROVE  f[y] <= SumFunctionOnSet(f, S)
<1>1. SumFunctionOnSet(f, S) = f[y] + SumFunctionOnSet(f, S \ {y})
  BY SumRemove
<1>2. SumFunctionOnSet(f, S \ {y}) \in Nat
  BY FS_Subset, SumType
<1> QED BY <1>1, <1>2
=============================================================================
