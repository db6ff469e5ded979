---------------------------- MODULE SumTheorems ----------------------------
(***************************************************************************)
(* Facts about SumFunction, the sum of the values of a function with a     *)
(* finite domain, for the proofs about sums over the rows of a table.      *)
(* SumFunction chooses one element after the other; the facts say that the *)
(* order of the choices does not matter.  They rest on induction over the  *)
(* size of the domain, taken from WFMin: a set of naturals that is not     *)
(* empty has a least element.  The last lemmas are about tables, kept as   *)
(* sequences of rows.                                                      *)
(***************************************************************************)
EXTENDS Integers, Sequences, FiniteSets, Functions, FiniteSetTheorems,
        SequenceTheorems, WellFoundedInduction, TLAPS

\* The element that is added next.
Pick(S) == CHOOSE x \in S : TRUE
Subsets(S, n) == {s \in SUBSET S : Cardinality(s) <= n}

\* What the recursive definition in SumFunction asks of g.
SumsUp(f, D, g) ==
  g = [s \in D |-> IF s = {} THEN 0 ELSE f[Pick(s)] + g[s \ {Pick(s)}]]

----------------------------------------------------------------------------
\* Induction over the natural numbers, for a set instead of a predicate.
LEMMA InductionOverNat ==
  ASSUME NEW G, 0 \in G, \A n \in Nat : n \in G => n + 1 \in G
  PROVE  Nat \subseteq G
<1> DEFINE B == Nat \ G
<1>1. SUFFICES ASSUME B # {}
               PROVE  FALSE
  OBVIOUS
<1>2. PICK m \in B : \A k \in B : ~ (<<k, m>> \in OpToRel(<, Nat))
  <2> HIDE DEF B
  <2>1. B \subseteq Nat
    BY DEF B
  <2> QED
    BY <1>1, <2>1, NatLessThanWellFounded, WFMin
<1>3. \A k \in B : ~ (k < m)
  BY <1>2 DEF OpToRel
<1>4. m # 0 /\ m - 1 \in Nat
  OBVIOUS
<1>5. m - 1 \in G
  BY <1>3, <1>4
<1> QED
  BY <1>4, <1>5

\* The element picked is one, and without it the set is smaller by one.
LEMMA PickSmaller ==
  ASSUME NEW S, IsFiniteSet(S), NEW x \in S
  PROVE  /\ Pick(S) \in S
         /\ IsFiniteSet(S \ {x})
         /\ Cardinality(S) \in Nat \ {0}
         /\ Cardinality(S \ {x}) = Cardinality(S) - 1
<1>1. Pick(S) \in S
  BY DEF Pick
<1>2. IsFiniteSet(S \ {x}) /\ Cardinality(S \ {x}) = Cardinality(S) - 1
  BY FS_RemoveElement
<1>3. Cardinality(S) \in Nat /\ Cardinality(S \ {x}) \in Nat
  BY <1>2, FS_CardinalityType
<1> QED
  BY <1>1, <1>2, <1>3

\* A set that is not of size zero has an element to pick.
LEMMA PickOne ==
  ASSUME NEW S, NEW n \in Nat, Cardinality(S) = n + 1
  PROVE  S # {} /\ Pick(S) \in S
<1>1. S # {}
  <2>1. Cardinality({}) = 0
    BY FS_EmptySet
  <2> QED
    BY <2>1
<1> QED
  BY <1>1 DEF Pick

\* A function that the recursion asks for exists.
LEMMA SumsUpExists ==
  ASSUME NEW S, IsFiniteSet(S), NEW f
  PROVE  \E g : SumsUp(f, SUBSET S, g)
<1> DEFINE G == {n \in Nat : \E g : SumsUp(f, Subsets(S, n), g)}
<1>0. \A s \in SUBSET S : IsFiniteSet(s) /\ Cardinality(s) \in Nat
  BY FS_Subset, FS_CardinalityType
<1>1. 0 \in G
  <2>1. \A s \in Subsets(S, 0) : s = {}
    BY <1>0, FS_EmptySet DEF Subsets
  <2>2. SumsUp(f, Subsets(S, 0), [s \in Subsets(S, 0) |-> 0])
    BY <2>1 DEF SumsUp
  <2> QED
    BY <2>2
<1>2. ASSUME NEW n \in Nat, n \in G
      PROVE  n + 1 \in G
  <2>1. PICK g : SumsUp(f, Subsets(S, n), g)
    BY <1>2
  <2> DEFINE h == [s \in Subsets(S, n + 1) |->
                     IF s = {} THEN 0 ELSE f[Pick(s)] + g[s \ {Pick(s)}]]
  <2>2. ASSUME NEW s \in Subsets(S, n + 1), s # {}
        PROVE  /\ s \ {Pick(s)} \in Subsets(S, n)
               /\ s \ {Pick(s)} \in Subsets(S, n + 1)
    <3>1. s \in SUBSET S /\ Cardinality(s) <= n + 1
      BY DEF Subsets
    <3>2. Pick(s) \in s
      BY <2>2 DEF Pick
    <3>3. /\ Cardinality(s \ {Pick(s)}) = Cardinality(s) - 1
          /\ Cardinality(s) \in Nat
      BY <1>0, <3>1, <3>2, PickSmaller
    <3> QED
      BY <3>1, <3>3 DEF Subsets
  <2>3. ASSUME NEW s \in Subsets(S, n)
        PROVE  s \in Subsets(S, n + 1) /\ h[s] = g[s]
    <3>1. s \in Subsets(S, n + 1)
      BY <1>0 DEF Subsets
    <3>2. g[s] = IF s = {} THEN 0 ELSE f[Pick(s)] + g[s \ {Pick(s)}]
      BY <2>1 DEF SumsUp
    <3> QED
      BY <3>1, <3>2
  <2> HIDE DEF h
  <2>4. \A s \in Subsets(S, n + 1) : s # {} =>
          h[s \ {Pick(s)}] = g[s \ {Pick(s)}]
    BY <2>2, <2>3
  <2>5. SumsUp(f, Subsets(S, n + 1), h)
    BY <2>4 DEF SumsUp, h
  <2> QED
    BY <2>5
<1>3. Nat \subseteq G
  <2> HIDE DEF G
  <2> QED
    BY <1>1, <1>2, InductionOverNat
<1>4. PICK g : SumsUp(f, Subsets(S, Cardinality(S)), g)
  BY <1>0, <1>3
<1>5. SUBSET S = Subsets(S, Cardinality(S))
  BY FS_Subset DEF Subsets
<1> QED
  BY <1>4, <1>5

\* Two such functions agree where both are defined.
LEMMA SumsUpUnique ==
  ASSUME NEW S, IsFiniteSet(S), NEW T \in SUBSET S, NEW f, NEW g, NEW h,
         SumsUp(f, SUBSET S, g), SumsUp(f, SUBSET T, h)
  PROVE  h[T] = g[T]
<1> DEFINE G == {n \in Nat : \A s \in SUBSET T : Cardinality(s) = n => h[s] = g[s]}
<1>0. \A s \in SUBSET T : IsFiniteSet(s) /\ Cardinality(s) \in Nat
  BY FS_Subset, FS_CardinalityType
<1>1. \A s \in SUBSET T :
        /\ g[s] = IF s = {} THEN 0 ELSE f[Pick(s)] + g[s \ {Pick(s)}]
        /\ h[s] = IF s = {} THEN 0 ELSE f[Pick(s)] + h[s \ {Pick(s)}]
  BY DEF SumsUp
<1>2. 0 \in G
  BY <1>0, <1>1, FS_EmptySet
<1>3. ASSUME NEW n \in Nat, n \in G
      PROVE  n + 1 \in G
  <2>1. SUFFICES ASSUME NEW s \in SUBSET T, Cardinality(s) = n + 1
                 PROVE  h[s] = g[s]
    OBVIOUS
  <2>2. s # {}
    BY <2>1, PickOne
  <2>3. Pick(s) \in s
    BY <2>1, PickOne
  <2>4. Cardinality(s \ {Pick(s)}) = n /\ s \ {Pick(s)} \in SUBSET T
    BY <1>0, <2>1, <2>3, PickSmaller
  <2>5. h[s \ {Pick(s)}] = g[s \ {Pick(s)}]
    BY <1>3, <2>4
  <2> QED
    BY <1>1, <2>2, <2>5
<1>4. Nat \subseteq G
  <2> HIDE DEF G
  <2> QED
    BY <1>2, <1>3, InductionOverNat
<1> QED
  BY <1>0, <1>4

\* SumFunctionOnSet is the value of such a function.
LEMMA SumIsRecursive ==
  ASSUME NEW S, IsFiniteSet(S), NEW f
  PROVE  \E g : SumsUp(f, SUBSET S, g) /\ SumFunctionOnSet(f, S) = g[S]
<1> DEFINE g == CHOOSE g : SumsUp(f, SUBSET S, g)
<1>1. SumsUp(f, SUBSET S, g)
  BY SumsUpExists
<1>2. SumFunctionOnSet(f, S) = g[S]
  BY DEF SumFunctionOnSet, FoldFunctionOnSet, MapThenFoldSet, SumsUp, Pick
<1> QED
  BY <1>1, <1>2

----------------------------------------------------------------------------
\* The sum over a set takes one element and the sum over the others.
LEMMA SumUnfold ==
  ASSUME NEW S, IsFiniteSet(S), NEW f
  PROVE  SumFunctionOnSet(f, S) =
           IF S = {} THEN 0
           ELSE f[Pick(S)] + SumFunctionOnSet(f, S \ {Pick(S)})
<1>1. PICK g : SumsUp(f, SUBSET S, g) /\ SumFunctionOnSet(f, S) = g[S]
  BY SumIsRecursive
<1>2. g[S] = IF S = {} THEN 0 ELSE f[Pick(S)] + g[S \ {Pick(S)}]
  BY <1>1 DEF SumsUp
<1>3. CASE S = {}
  BY <1>1, <1>2, <1>3
<1>4. CASE S # {}
  <2> DEFINE T == S \ {Pick(S)}
  <2>1. IsFiniteSet(T) /\ T \in SUBSET S
    BY FS_Subset
  <2>2. PICK h : SumsUp(f, SUBSET T, h) /\ SumFunctionOnSet(f, T) = h[T]
    BY <2>1, SumIsRecursive
  <2> HIDE DEF T
  <2>3. h[T] = g[T]
    BY <1>1, <2>1, <2>2, SumsUpUnique
  <2> QED
    BY <1>1, <1>2, <1>4, <2>2, <2>3 DEF T
<1> QED
  BY <1>3, <1>4

\* It does not matter which element is taken first.
LEMMA SumRemove ==
  ASSUME NEW S, IsFiniteSet(S), NEW f, \A y \in S : f[y] \in Int
  PROVE  /\ SumFunctionOnSet(f, S) \in Int
         /\ \A x \in S :
              SumFunctionOnSet(f, S) = f[x] + SumFunctionOnSet(f, S \ {x})
<1> DEFINE Sum(T) == SumFunctionOnSet(f, T)
           Right(T) == /\ Sum(T) \in Int
                       /\ \A x \in T : /\ Sum(T \ {x}) \in Int
                                      /\ Sum(T) = f[x] + Sum(T \ {x})
           G == {n \in Nat : \A T \in SUBSET S : Cardinality(T) = n => Right(T)}
<1>0. \A T \in SUBSET S : IsFiniteSet(T) /\ Cardinality(T) \in Nat
  BY FS_Subset, FS_CardinalityType
<1>1. Sum({}) = 0
  BY FS_EmptySet, SumUnfold
<1>2. 0 \in G
  BY <1>0, <1>1, FS_EmptySet
<1>3. ASSUME NEW n \in Nat, n \in G
      PROVE  n + 1 \in G
  <2>1. SUFFICES ASSUME NEW T \in SUBSET S, Cardinality(T) = n + 1
                 PROVE  Right(T)
    OBVIOUS
  <2> DEFINE p == Pick(T)
  <2>2. T # {} /\ p \in T
    BY <2>1, PickOne
  <2>3. Sum(T) = f[p] + Sum(T \ {p})
    BY <1>0, <2>2, SumUnfold
  <2> HIDE DEF p, Sum
  <2>4. \A x \in T : Cardinality(T \ {x}) = n /\ T \ {x} \in SUBSET S
    BY <1>0, <2>1, PickSmaller
  <2>5. \A x \in T : Right(T \ {x})
    BY <1>3, <2>4
  <2>6. f[p] \in Int /\ Sum(T \ {p}) \in Int
    BY <2>2, <2>5
  <2>7. ASSUME NEW x \in T, x # p
        PROVE  Sum(T) = f[x] + Sum(T \ {x})
    <3>1. Sum(T \ {p}) = f[x] + Sum((T \ {p}) \ {x})
      BY <2>2, <2>5, <2>7
    <3>2. Sum(T \ {x}) = f[p] + Sum((T \ {x}) \ {p})
      BY <2>2, <2>5, <2>7
    <3>3. Sum((T \ {p}) \ {x}) = Sum((T \ {x}) \ {p})
      <4>1. (T \ {p}) \ {x} = (T \ {x}) \ {p}
        OBVIOUS
      <4> QED
        BY <4>1, Zenon
    <3>4. f[x] \in Int /\ Sum((T \ {p}) \ {x}) \in Int
      BY <2>2, <2>5, <2>7
    <3>5. Sum(T \ {x}) = f[p] + Sum((T \ {p}) \ {x})
      BY <3>2, <3>3
    <3> QED
      BY <2>3, <2>6, <3>1, <3>4, <3>5
  <2>8. \A x \in T : Sum(T) = f[x] + Sum(T \ {x})
    BY <2>3, <2>7
  <2>9. Sum(T) \in Int
    BY <2>3, <2>6
  <2> QED
    BY <2>5, <2>8, <2>9
<1>4. Nat \subseteq G
  <2> HIDE DEF G
  <2> QED
    BY <1>2, <1>3, InductionOverNat
<1> QED
  BY <1>0, <1>4

\* The sum depends on the values of the function on the set only.
LEMMA SumSame ==
  ASSUME NEW S, IsFiniteSet(S), NEW f, NEW g,
         \A y \in S : f[y] \in Int /\ f[y] = g[y]
  PROVE  SumFunctionOnSet(f, S) = SumFunctionOnSet(g, S)
<1> DEFINE G == {n \in Nat : \A T \in SUBSET S : Cardinality(T) = n =>
                   SumFunctionOnSet(f, T) = SumFunctionOnSet(g, T)}
<1>0. \A T \in SUBSET S : IsFiniteSet(T) /\ Cardinality(T) \in Nat
  BY FS_Subset, FS_CardinalityType
<1>1. 0 \in G
  <2>1. SumFunctionOnSet(f, {}) = SumFunctionOnSet(g, {})
    BY FS_EmptySet, SumUnfold
  <2> QED
    BY <1>0, <2>1, FS_EmptySet
<1>2. ASSUME NEW n \in Nat, n \in G
      PROVE  n + 1 \in G
  <2>1. SUFFICES ASSUME NEW T \in SUBSET S, Cardinality(T) = n + 1
                 PROVE  SumFunctionOnSet(f, T) = SumFunctionOnSet(g, T)
    OBVIOUS
  <2> DEFINE p == Pick(T)
  <2>2. T # {} /\ p \in T
    BY <2>1, PickOne
  <2>3. /\ SumFunctionOnSet(f, T) = f[p] + SumFunctionOnSet(f, T \ {p})
        /\ SumFunctionOnSet(g, T) = g[p] + SumFunctionOnSet(g, T \ {p})
    BY <1>0, <2>2, SumUnfold
  <2> HIDE DEF p
  <2>4. Cardinality(T \ {p}) = n /\ T \ {p} \in SUBSET S
    BY SMTT(60), <1>0, <2>1, <2>2, PickSmaller
  <2>5. SumFunctionOnSet(f, T \ {p}) = SumFunctionOnSet(g, T \ {p})
    BY <1>2, <2>4
  <2> QED
    BY <2>2, <2>3, <2>5
<1>3. Nat \subseteq G
  <2> HIDE DEF G
  <2> QED
    BY <1>1, <1>2, InductionOverNat
<1> QED
  BY <1>0, <1>3

----------------------------------------------------------------------------
\* The facts that the proofs about the components cite.  The sum of integers
\* is an integer.
THEOREM SumType ==
  ASSUME NEW S, IsFiniteSet(S), NEW f \in [S -> Int]
  PROVE  SumFunction(f) \in Int
BY SumRemove DEF SumFunction

\* Nothing sums up to zero.
THEOREM SumEmpty ==
  ASSUME NEW f, DOMAIN f = {}
  PROVE  SumFunction(f) = 0
BY SumUnfold, FS_EmptySet DEF SumFunction

\* One more summand adds its value.
THEOREM SumAdd ==
  ASSUME NEW S, IsFiniteSet(S), NEW x, x \notin S, NEW f \in [S -> Int],
         NEW g \in [S \cup {x} -> Int], \A y \in S : g[y] = f[y]
  PROVE  SumFunction(g) = SumFunction(f) + g[x]
<1>1. IsFiniteSet(S \cup {x})
  BY FS_AddElement
<1>2. SumFunctionOnSet(g, S \cup {x})
        = g[x] + SumFunctionOnSet(g, (S \cup {x}) \ {x})
  BY <1>1, SumRemove
<1>3. SumFunctionOnSet(g, (S \cup {x}) \ {x}) = SumFunctionOnSet(g, S)
  <2>1. (S \cup {x}) \ {x} = S
    OBVIOUS
  <2> QED
    BY <2>1, Zenon
<1>4. SumFunctionOnSet(f, S) = SumFunctionOnSet(g, S)
  BY SumSame
<1>5. SumFunctionOnSet(g, S) \in Int
  BY SumRemove
<1>6. SumFunctionOnSet(g, S \cup {x}) = SumFunctionOnSet(f, S) + g[x]
  BY <1>2, <1>3, <1>4, <1>5
<1> QED
  BY <1>6 DEF SumFunction

\* The same, with a name for the larger domain.
LEMMA SumGrows ==
  ASSUME NEW S, IsFiniteSet(S), NEW x, x \notin S, NEW T, T = S \cup {x},
         NEW f \in [S -> Int], NEW g \in [T -> Int], \A y \in S : g[y] = f[y]
  PROVE  SumFunction(g) = SumFunction(f) + g[x]
BY SumAdd

\* A summand that changes changes the sum by the difference.
THEOREM SumChange ==
  ASSUME NEW S, IsFiniteSet(S), NEW x \in S, NEW f \in [S -> Int],
         NEW g \in [S -> Int], \A y \in S \ {x} : g[y] = f[y]
  PROVE  SumFunction(g) = SumFunction(f) + (g[x] - f[x])
<1> DEFINE T == S \ {x}
<1>1. IsFiniteSet(T)
  BY FS_Subset
<1>2. /\ SumFunctionOnSet(f, S) = f[x] + SumFunctionOnSet(f, T)
      /\ SumFunctionOnSet(g, S) = g[x] + SumFunctionOnSet(g, T)
  BY SumRemove
<1> HIDE DEF T
<1>3. T \subseteq S /\ \A y \in T : g[y] = f[y]
  BY DEF T
<1>4. /\ SumFunctionOnSet(f, T) = SumFunctionOnSet(g, T)
      /\ SumFunctionOnSet(f, T) \in Int
  BY <1>1, <1>3, SumSame, SumRemove
<1> QED
  BY <1>2, <1>4 DEF SumFunction

\* Larger summands have a larger sum.
THEOREM SumMonotone ==
  ASSUME NEW S, IsFiniteSet(S), NEW f \in [S -> Int], NEW g \in [S -> Int],
         \A y \in S : f[y] <= g[y]
  PROVE  SumFunction(f) <= SumFunction(g)
<1> DEFINE G == {n \in Nat : \A T \in SUBSET S : Cardinality(T) = n =>
                   SumFunctionOnSet(f, T) <= SumFunctionOnSet(g, T)}
<1>0. \A T \in SUBSET S : IsFiniteSet(T) /\ Cardinality(T) \in Nat
  BY FS_Subset, FS_CardinalityType
<1>1. 0 \in G
  <2>1. SumFunctionOnSet(f, {}) = 0 /\ SumFunctionOnSet(g, {}) = 0
    BY FS_EmptySet, SumUnfold
  <2> QED
    BY <1>0, <2>1, FS_EmptySet
<1>2. ASSUME NEW n \in Nat, n \in G
      PROVE  n + 1 \in G
  <2>1. SUFFICES ASSUME NEW T \in SUBSET S, Cardinality(T) = n + 1
                 PROVE  SumFunctionOnSet(f, T) <= SumFunctionOnSet(g, T)
    OBVIOUS
  <2> DEFINE p == Pick(T)
  <2>2. T # {} /\ p \in T
    BY <2>1, PickOne
  <2>3. /\ SumFunctionOnSet(f, T) = f[p] + SumFunctionOnSet(f, T \ {p})
        /\ SumFunctionOnSet(g, T) = g[p] + SumFunctionOnSet(g, T \ {p})
    BY <1>0, <2>2, SumUnfold
  <2> HIDE DEF p
  <2>4. Cardinality(T \ {p}) = n /\ T \ {p} \in SUBSET S
    BY SMTT(60), <1>0, <2>1, <2>2, PickSmaller
  <2>5. SumFunctionOnSet(f, T \ {p}) <= SumFunctionOnSet(g, T \ {p})
    BY <1>2, <2>4
  <2>6. /\ SumFunctionOnSet(f, T \ {p}) \in Int
        /\ SumFunctionOnSet(g, T \ {p}) \in Int
    BY <1>0, <2>4, SumRemove
  <2>7. f[p] \in Int /\ g[p] \in Int /\ f[p] <= g[p]
    BY <2>2
  <2> QED
    BY <2>3, <2>5, <2>6, <2>7
<1>3. Nat \subseteq G
  <2> HIDE DEF G
  <2> QED
    BY <1>1, <1>2, InductionOverNat
<1> QED
  BY <1>0, <1>3 DEF SumFunction

\* Zeros sum up to zero.
THEOREM SumZero ==
  ASSUME NEW S, IsFiniteSet(S), NEW f \in [S -> Int], \A y \in S : f[y] = 0
  PROVE  SumFunction(f) = 0
<1> DEFINE G == {n \in Nat : \A T \in SUBSET S : Cardinality(T) = n =>
                   SumFunctionOnSet(f, T) = 0}
<1>0. \A T \in SUBSET S : IsFiniteSet(T) /\ Cardinality(T) \in Nat
  BY FS_Subset, FS_CardinalityType
<1>1. 0 \in G
  <2>1. SumFunctionOnSet(f, {}) = 0
    BY FS_EmptySet, SumUnfold
  <2> QED
    BY <1>0, <2>1, FS_EmptySet
<1>2. ASSUME NEW n \in Nat, n \in G
      PROVE  n + 1 \in G
  <2>1. SUFFICES ASSUME NEW T \in SUBSET S, Cardinality(T) = n + 1
                 PROVE  SumFunctionOnSet(f, T) = 0
    OBVIOUS
  <2> DEFINE p == Pick(T)
  <2>2. T # {} /\ p \in T
    BY <2>1, PickOne
  <2>3. SumFunctionOnSet(f, T) = f[p] + SumFunctionOnSet(f, T \ {p})
    BY <1>0, <2>2, SumUnfold
  <2> HIDE DEF p
  <2>4. Cardinality(T \ {p}) = n /\ T \ {p} \in SUBSET S
    BY <1>0, <2>1, <2>2, PickSmaller
  <2>5. SumFunctionOnSet(f, T \ {p}) = 0
    BY <1>2, <2>4
  <2> QED
    BY <2>2, <2>3, <2>5
<1>3. Nat \subseteq G
  <2> HIDE DEF G
  <2> QED
    BY <1>1, <1>2, InductionOverNat
<1> QED
  BY <1>0, <1>3 DEF SumFunction

\* What is summed up is not negative if no summand is.
THEOREM SumNonNegative ==
  ASSUME NEW S, IsFiniteSet(S), NEW f \in [S -> Int], \A y \in S : f[y] >= 0
  PROVE  SumFunction(f) >= 0
<1> DEFINE zero == [y \in S |-> 0]
<1>1. zero \in [S -> Int] /\ \A y \in S : zero[y] = 0 /\ zero[y] <= f[y]
  OBVIOUS
<1> HIDE DEF zero
<1>2. SumFunction(zero) = 0
  BY <1>1, SumZero
<1>3. SumFunction(zero) <= SumFunction(f)
  BY <1>1, SumMonotone
<1>4. SumFunction(f) \in Int
  BY SumType
<1> QED
  BY <1>2, <1>3, <1>4

\* One function is the sum of two others, and so is its sum.
IsPlus(S, f, g, h) == \A y \in S : h[y] = f[y] + g[y]
SumIsPlus(T, f, g, h) ==
  SumFunctionOnSet(h, T) = SumFunctionOnSet(f, T) + SumFunctionOnSet(g, T)

\* SumPlus over a given finite set, by induction on the set.
LEMMA SumPlusOnSet ==
  ASSUME NEW S, IsFiniteSet(S), NEW f \in [S -> Int], NEW g \in [S -> Int],
         NEW h \in [S -> Int], IsPlus(S, f, g, h)
  PROVE  SumIsPlus(S, f, g, h)
<1> DEFINE G == {n \in Nat : \A T \in SUBSET S :
                               Cardinality(T) = n => SumIsPlus(T, f, g, h)}
<1>0. \A T \in SUBSET S : IsFiniteSet(T) /\ Cardinality(T) \in Nat
  BY FS_Subset, FS_CardinalityType
<1>1. 0 \in G
  <2>1. /\ SumFunctionOnSet(f, {}) = 0
        /\ SumFunctionOnSet(g, {}) = 0
        /\ SumFunctionOnSet(h, {}) = 0
    BY FS_EmptySet, SumUnfold
  <2>2. SumIsPlus({}, f, g, h)
    BY <2>1 DEF SumIsPlus
  <2> QED
    BY <1>0, <2>2, FS_EmptySet
<1>2. ASSUME NEW n \in Nat, n \in G
      PROVE  n + 1 \in G
  <2>1. SUFFICES ASSUME NEW T \in SUBSET S, Cardinality(T) = n + 1
                 PROVE  SumIsPlus(T, f, g, h)
    OBVIOUS
  <2> DEFINE p == Pick(T)
  <2>2. T # {} /\ p \in T
    BY <2>1, PickOne
  <2>3. /\ SumFunctionOnSet(f, T) = f[p] + SumFunctionOnSet(f, T \ {p})
        /\ SumFunctionOnSet(g, T) = g[p] + SumFunctionOnSet(g, T \ {p})
        /\ SumFunctionOnSet(h, T) = h[p] + SumFunctionOnSet(h, T \ {p})
    BY <1>0, <2>2, SumUnfold
  <2> HIDE DEF p
  <2>4. Cardinality(T \ {p}) = n /\ T \ {p} \in SUBSET S
    BY <1>0, <2>1, <2>2, PickSmaller
  <2>5. SumIsPlus(T \ {p}, f, g, h)
    BY <1>2, <2>4
  <2>6. /\ SumFunctionOnSet(f, T \ {p}) \in Int
        /\ SumFunctionOnSet(g, T \ {p}) \in Int
    BY <1>0, <2>4, SumRemove
  <2>7. f[p] \in Int /\ g[p] \in Int /\ h[p] = f[p] + g[p]
    BY <2>2 DEF IsPlus
  <2> QED
    BY <2>3, <2>5, <2>6, <2>7 DEF SumIsPlus
<1>3. Nat \subseteq G
  <2> HIDE DEF G
  <2> QED
    BY <1>1, <1>2, InductionOverNat
<1> QED
  BY <1>0, <1>3

\* The sum of sums.
THEOREM SumPlus ==
  ASSUME NEW S, IsFiniteSet(S), NEW f \in [S -> Int], NEW g \in [S -> Int],
         NEW h \in [S -> Int], \A y \in S : h[y] = f[y] + g[y]
  PROVE  SumFunction(h) = SumFunction(f) + SumFunction(g)
BY SumPlusOnSet DEF IsPlus, SumIsPlus, SumFunction

----------------------------------------------------------------------------
\* The tables of the models are sequences of rows in the order of insertion.
\* A row that is inserted comes last and leaves the others alone.
LEMMA RowAppended ==
  ASSUME NEW R, NEW rows \in Seq(R), NEW row \in R
  PROVE  /\ Append(rows, row) \in Seq(R)
         /\ \E n \in Nat \ {0} :
              /\ n \notin DOMAIN rows
              /\ DOMAIN Append(rows, row) = DOMAIN rows \cup {n}
              /\ Append(rows, row)[n] = row
              /\ \A i \in DOMAIN rows : Append(rows, row)[i] = rows[i]
<1> DEFINE n == Len(rows) + 1
           more == Append(rows, row)
<1>1. Len(rows) \in Nat /\ DOMAIN rows = 1..Len(rows)
  BY LenProperties
<1>2. /\ more \in Seq(R) /\ Len(more) = n /\ more[n] = row
      /\ \A i \in 1..Len(rows) : more[i] = rows[i]
  BY AppendProperties
<1>3. DOMAIN more = 1..n
  BY <1>2, LenProperties
<1>4. 1..n = 1..Len(rows) \cup {n} /\ n \notin 1..Len(rows)
  BY <1>1
<1>5. n \in Nat \ {0}
  BY <1>1
<1> HIDE DEF n, more
<1> QED
  BY <1>1, <1>2, <1>3, <1>4, <1>5 DEF more

\* A row that is updated leaves the others alone.
LEMMA RowUpdated ==
  ASSUME NEW R, NEW rows \in Seq(R), NEW n \in DOMAIN rows, NEW row \in R
  PROVE  LET changed == [rows EXCEPT ![n] = row]
         IN  /\ changed \in Seq(R)
             /\ DOMAIN changed = DOMAIN rows
             /\ changed[n] = row
             /\ \A i \in DOMAIN rows \ {n} : changed[i] = rows[i]
<1>1. DOMAIN rows = 1..Len(rows)
  BY LenProperties
<1> QED
  BY <1>1, ExceptSeq

\* A table has finitely many rows, numbered from one.
LEMMA RowsFinite ==
  ASSUME NEW R, NEW rows \in Seq(R)
  PROVE  /\ IsFiniteSet(DOMAIN rows)
         /\ DOMAIN rows \subseteq Nat \ {0}
         /\ \A n \in DOMAIN rows : rows[n] \in R
<1>1. DOMAIN rows = 1..Len(rows) /\ Len(rows) \in Nat
  BY LenProperties
<1>2. IsFiniteSet(1..Len(rows))
  BY <1>1, FS_Interval
<1>3. \A n \in DOMAIN rows : rows[n] \in R
  BY <1>1, ElementOfSeq
<1>4. DOMAIN rows \subseteq Nat \ {0}
  BY <1>1
<1> QED
  BY <1>1, <1>2, <1>3, <1>4

\* A table that is rewritten row by row.
LEMMA RowsRewritten ==
  ASSUME NEW R, NEW rows \in Seq(R), NEW new \in [DOMAIN rows -> R]
  PROVE  new \in Seq(R)
<1>1. DOMAIN rows = 1..Len(rows) /\ Len(rows) \in Nat
  BY LenProperties
<1>2. \A n \in Nat : \A s \in [1..n -> R] : s \in Seq(R)
  BY SeqDef
<1> QED
  BY <1>1, <1>2
=============================================================================
