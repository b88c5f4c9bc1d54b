-------------------------------- MODULE Sums --------------------------------
(***************************************************************************)
(* Facts about SumFunctionOnSet, the sum of a function's values over a     *)
(* finite set, for every finite set. The library defines the sum by        *)
(* recursion on the set with an element chosen each time; here it is shown *)
(* to exist, to be a number and not to depend on that choice. Each         *)
(* argument takes a smallest set for which the claim fails.                *)
(***************************************************************************)
EXTENDS Integers, FiniteSets, Functions, FiniteSetTheorems, WellFoundedInduction, TLAPS

\* A subset-minimal member of a set of finite sets.
LEMMA SmallestSet ==
    ASSUME NEW S, IsFiniteSet(S), NEW B \in SUBSET SUBSET S, B # {}
    PROVE  \E T \in B : \A U \in SUBSET T : U # T => U \notin B
<1>1. IsWellFoundedOn(StrictSubsetOrdering(S), SUBSET S)
  BY FS_StrictSubsetOrderingWellFounded, FS_FiniteSubsetsOfFinite
<1>2. PICK T \in B : \A U \in B : ~(<<U, T>> \in StrictSubsetOrdering(S))
  BY <1>1, WFMin
<1>3. ASSUME NEW U \in SUBSET T, U # T, U \in B PROVE FALSE
  <2>1. <<U, T>> \in (SUBSET S) \X (SUBSET S)
    BY <1>3
  <2>2. <<U, T>> \in StrictSubsetOrdering(S)
    BY <1>3, <2>1 DEF StrictSubsetOrdering
  <2> QED BY <1>2, <1>3, <2>2
<1> QED BY <1>3

Pick(T) == CHOOSE x \in T : TRUE

LEMMA PickIn == ASSUME NEW T, T # {} PROVE Pick(T) \in T
BY DEF Pick

\* g adds up f over the subsets of S, one picked element after the other.
Adds(g, f, S) ==
    g = [T \in SUBSET S |-> IF T = {} THEN 0 ELSE f[Pick(T)] + g[T \ {Pick(T)}]]

LEMMA AddsUnique ==
    ASSUME NEW S, IsFiniteSet(S), NEW f, NEW A, NEW B, S \subseteq A, S \subseteq B,
           NEW g, NEW h, Adds(g, f, A), Adds(h, f, B)
    PROVE  g[S] = h[S]
<1> DEFINE Bad == {T \in SUBSET S : g[T] # h[T]}
<1>1. SUFFICES ASSUME Bad # {} PROVE FALSE
  OBVIOUS
<1>2. PICK T \in Bad : \A U \in SUBSET T : U # T => U \notin Bad
  <2>1. Bad \in SUBSET SUBSET S
    OBVIOUS
  <2> HIDE DEF Bad
  <2> QED BY <1>1, <2>1, SmallestSet
<1>3. T \in SUBSET A /\ T \in SUBSET B
  OBVIOUS
<1>4. g[T] = (IF T = {} THEN 0 ELSE f[Pick(T)] + g[T \ {Pick(T)}])
  BY <1>3 DEF Adds
<1>5. h[T] = (IF T = {} THEN 0 ELSE f[Pick(T)] + h[T \ {Pick(T)}])
  BY <1>3 DEF Adds
<1>6. T # {} => g[T \ {Pick(T)}] = h[T \ {Pick(T)}]
  BY <1>2, PickIn
<1> QED BY <1>4, <1>5, <1>6

LEMMA AddsExists ==
    ASSUME NEW S, IsFiniteSet(S), NEW f
    PROVE  \E g : Adds(g, f, S)
<1> DEFINE Bad == {T \in SUBSET S : ~ \E g : Adds(g, f, T)}
<1>1. SUFFICES ASSUME Bad # {} PROVE FALSE
  OBVIOUS
<1>2. PICK T \in Bad : \A U \in SUBSET T : U # T => U \notin Bad
  <2>1. Bad \in SUBSET SUBSET S
    OBVIOUS
  <2> HIDE DEF Bad
  <2> QED BY <1>1, <2>1, SmallestSet
<1>3. \A U \in SUBSET T : U # T => \E g : Adds(g, f, U)
  BY <1>2
<1> DEFINE part(U) == CHOOSE g : Adds(g, f, U)
<1>4. \A U \in SUBSET T : U # T => Adds(part(U), f, U)
  BY <1>3
<1> HIDE DEF part
<1>5. \A V \in SUBSET T : IsFiniteSet(V)
  BY FS_Subset
<1> DEFINE whole == [U \in SUBSET T |->
        IF U = {} THEN 0
        ELSE f[Pick(U)] + part(U \ {Pick(U)})[U \ {Pick(U)}]]
<1>6. ASSUME NEW U \in SUBSET T, U # {}
      PROVE  whole[U \ {Pick(U)}] = part(U \ {Pick(U)})[U \ {Pick(U)}]
  <2> DEFINE V == U \ {Pick(U)}
  <2>1. V \in SUBSET T /\ V # T /\ V # U
    BY <1>6, PickIn
  <2>2. CASE V = {}
    <3>1. part(V)[V] = 0
      <4>1. Adds(part(V), f, V) /\ V \in SUBSET V
        BY <1>4, <2>1
      <4> QED BY <2>2, <4>1 DEF Adds
    <3> QED BY <2>1, <2>2, <3>1
  <2>3. CASE V # {}
    <3> DEFINE W == V \ {Pick(V)}
    <3>1. W \in SUBSET V /\ W \in SUBSET T /\ W # T
      BY <2>1, <2>3, PickIn
    <3>2. whole[V] = f[Pick(V)] + part(W)[W]
      BY <2>1, <2>3
    <3>3. part(V)[V] = f[Pick(V)] + part(V)[W]
      <4>1. Adds(part(V), f, V) /\ V \in SUBSET V
        BY <1>4, <2>1
      <4> QED BY <2>3, <4>1 DEF Adds
    <3>4. part(V)[W] = part(W)[W]
      BY <1>4, <1>5, <2>1, <3>1, AddsUnique
    <3> QED BY <3>2, <3>3, <3>4
  <2> QED BY <2>2, <2>3
<1>7. Adds(whole, f, T)
  BY <1>6 DEF Adds
<1> QED BY <1>2, <1>7

\* The sum of f over S, by its own recursion.
LEMMA SumRecursion ==
    ASSUME NEW S, IsFiniteSet(S), NEW f
    PROVE  SumFunctionOnSet(f, S) =
              IF S = {} THEN 0
              ELSE f[Pick(S)] + SumFunctionOnSet(f, S \ {Pick(S)})
<1> DEFINE g(T) == CHOOSE h : Adds(h, f, T)
<1>1. \A T \in SUBSET S : IsFiniteSet(T) /\ Adds(g(T), f, T)
  BY AddsExists, FS_Subset
<1>2. \A T \in SUBSET S : SumFunctionOnSet(f, T) = g(T)[T]
  BY DEF SumFunctionOnSet, FoldFunctionOnSet, MapThenFoldSet, Adds, Pick
<1> HIDE DEF g
<1>3. CASE S = {}
  BY <1>1, <1>2, <1>3 DEF Adds
<1>4. CASE S # {}
  <2> DEFINE T == S \ {Pick(S)}
  <2>1. g(S)[S] = f[Pick(S)] + g(S)[T]
    BY <1>1, <1>4 DEF Adds
  <2>2. g(S)[T] = g(T)[T]
    BY <1>1, AddsUnique
  <2> QED BY <1>2, <1>4, <2>1, <2>2
<1> QED BY <1>3, <1>4

LEMMA SumType ==
    ASSUME NEW S, IsFiniteSet(S), NEW f, \A x \in S : f[x] \in Nat
    PROVE  SumFunctionOnSet(f, S) \in Nat
<1> DEFINE Bad == {T \in SUBSET S : SumFunctionOnSet(f, T) \notin Nat}
<1>1. SUFFICES ASSUME Bad # {} PROVE FALSE
  OBVIOUS
<1>2. PICK T \in Bad : \A U \in SUBSET T : U # T => U \notin Bad
  <2>1. Bad \in SUBSET SUBSET S
    OBVIOUS
  <2> HIDE DEF Bad
  <2> QED BY <1>1, <2>1, SmallestSet
<1>3. IsFiniteSet(T)
  BY FS_Subset
<1>4. SumFunctionOnSet(f, T) = IF T = {} THEN 0
                               ELSE f[Pick(T)] + SumFunctionOnSet(f, T \ {Pick(T)})
  BY <1>3, SumRecursion
<1>5. T # {} => Pick(T) \in T /\ SumFunctionOnSet(f, T \ {Pick(T)}) \in Nat
  BY <1>2, PickIn
<1> QED BY <1>4, <1>5

\* Any element may be taken out first.
LEMMA SumRemove ==
    ASSUME NEW S, IsFiniteSet(S), NEW f, \A x \in S : f[x] \in Nat
    PROVE  \A x \in S : SumFunctionOnSet(f, S) = f[x] + SumFunctionOnSet(f, S \ {x})
<1> DEFINE Splits(T, x) == SumFunctionOnSet(f, T) = f[x] + SumFunctionOnSet(f, T \ {x})
           Bad == {T \in SUBSET S : ~ \A x \in T : Splits(T, x)}
<1>1. SUFFICES ASSUME Bad # {} PROVE FALSE
  OBVIOUS
<1>2. PICK T \in Bad : \A U \in SUBSET T : U # T => U \notin Bad
  <2>1. Bad \in SUBSET SUBSET S
    OBVIOUS
  <2> HIDE DEF Bad
  <2> QED BY <1>1, <2>1, SmallestSet
<1>3. \A U \in SUBSET S : IsFiniteSet(U) /\ SumFunctionOnSet(f, U) \in Nat
  BY FS_Subset, SumType
<1>4. PICK x \in T : ~Splits(T, x)
  BY <1>2
<1>5. PICK y \in T : Splits(T, y)
  BY <1>3, <1>4, SumRecursion, PickIn
<1>6. x # y
  BY <1>4, <1>5
<1>7. Splits(T \ {y}, x) /\ Splits(T \ {x}, y)
  BY <1>2, <1>6
<1>8. PICK rest \in Nat : rest = SumFunctionOnSet(f, (T \ {y}) \ {x})
                        /\ rest = SumFunctionOnSet(f, (T \ {x}) \ {y})
  <2>1. (T \ {y}) \ {x} = (T \ {x}) \ {y}
    OBVIOUS
  <2> QED BY <1>3, <2>1
<1>9. f[x] \in Nat /\ f[y] \in Nat
  OBVIOUS
<1>10. SumFunctionOnSet(f, T) = f[y] + (f[x] + rest)
  BY <1>5, <1>7, <1>8
<1>11. SumFunctionOnSet(f, T) # f[x] + (f[y] + rest)
  BY <1>4, <1>7, <1>8
<1> QED BY <1>9, <1>10, <1>11

\* A sum depends on the function's values on the set only.
LEMMA SumEqual ==
    ASSUME NEW S, IsFiniteSet(S), NEW f, NEW g, \A x \in S : f[x] = g[x]
    PROVE  SumFunctionOnSet(f, S) = SumFunctionOnSet(g, S)
<1> DEFINE Bad == {T \in SUBSET S : SumFunctionOnSet(f, T) # SumFunctionOnSet(g, T)}
<1>1. SUFFICES ASSUME Bad # {} PROVE FALSE
  OBVIOUS
<1>2. PICK T \in Bad : \A U \in SUBSET T : U # T => U \notin Bad
  <2>1. Bad \in SUBSET SUBSET S
    OBVIOUS
  <2> HIDE DEF Bad
  <2> QED BY <1>1, <2>1, SmallestSet
<1>3. IsFiniteSet(T)
  BY FS_Subset
<1>4. \A h : SumFunctionOnSet(h, T) = IF T = {} THEN 0
                               ELSE h[Pick(T)] + SumFunctionOnSet(h, T \ {Pick(T)})
  BY <1>3, SumRecursion
<1>5. T # {} => Pick(T) \in T /\ SumFunctionOnSet(f, T \ {Pick(T)}) = SumFunctionOnSet(g, T \ {Pick(T)})
  BY <1>2, PickIn
<1> QED BY <1>2, <1>4, <1>5

\* Nothing adds up to nothing.
LEMMA SumZero ==
    ASSUME NEW S, IsFiniteSet(S), NEW f, \A x \in S : f[x] = 0
    PROVE  SumFunctionOnSet(f, S) = 0
<1> DEFINE Bad == {T \in SUBSET S : SumFunctionOnSet(f, T) # 0}
<1>1. SUFFICES ASSUME Bad # {} PROVE FALSE
  OBVIOUS
<1>2. PICK T \in Bad : \A U \in SUBSET T : U # T => U \notin Bad
  <2>1. Bad \in SUBSET SUBSET S
    OBVIOUS
  <2> HIDE DEF Bad
  <2> QED BY <1>1, <2>1, SmallestSet
<1>3. IsFiniteSet(T)
  BY FS_Subset
<1>4. SumFunctionOnSet(f, T) = IF T = {} THEN 0
                               ELSE f[Pick(T)] + SumFunctionOnSet(f, T \ {Pick(T)})
  BY <1>3, SumRecursion
<1>5. T # {} => Pick(T) \in T /\ SumFunctionOnSet(f, T \ {Pick(T)}) = 0
  BY <1>2, PickIn
<1> QED BY <1>2, <1>4, <1>5

\* One summand changes.
LEMMA SumChange ==
    ASSUME NEW S, IsFiniteSet(S), NEW x \in S, NEW f, NEW g,
           \A y \in S : f[y] \in Nat /\ g[y] \in Nat /\ (y # x => f[y] = g[y])
    PROVE  SumFunctionOnSet(g, S) + f[x] = SumFunctionOnSet(f, S) + g[x]
<1>1. IsFiniteSet(S \ {x})
  BY FS_Subset
<1>2. SumFunctionOnSet(f, S \ {x}) = SumFunctionOnSet(g, S \ {x})
  BY <1>1, SumEqual
<1>3. SumFunctionOnSet(f, S \ {x}) \in Nat
  BY <1>1, SumType
<1>4. /\ SumFunctionOnSet(f, S) = f[x] + SumFunctionOnSet(f, S \ {x})
      /\ SumFunctionOnSet(g, S) = g[x] + SumFunctionOnSet(g, S \ {x})
  BY SumRemove
<1> QED BY <1>2, <1>3, <1>4

\* A sum over numbers, moved up by one.
LEMMA SumShift ==
    ASSUME NEW n \in Nat, NEW f, NEW g, \A i \in 1..n : g[i] \in Nat /\ f[i + 1] = g[i]
    PROVE  SumFunctionOnSet(f, 2..(n + 1)) = SumFunctionOnSet(g, 1..n)
<1> DEFINE Up(T) == {i + 1 : i \in T}
           Bad == {T \in SUBSET (1..n) : SumFunctionOnSet(f, Up(T)) # SumFunctionOnSet(g, T)}
<1>1. SUFFICES ASSUME Bad # {} PROVE FALSE
  <2>1. Up(1..n) = 2..(n + 1)
    <3>1. ASSUME NEW j \in 2..(n + 1) PROVE j \in Up(1..n)
      <4>1. j - 1 \in 1..n /\ j = (j - 1) + 1
        OBVIOUS
      <4> QED BY <4>1
    <3> QED BY <3>1
  <2> QED BY <2>1
<1>2. IsFiniteSet(1..n)
  BY FS_Interval
<1>3. PICK T \in Bad : \A U \in SUBSET T : U # T => U \notin Bad
  <2>1. Bad \in SUBSET SUBSET (1..n)
    OBVIOUS
  <2> HIDE DEF Bad
  <2> QED BY <1>1, <1>2, <2>1, SmallestSet
<1>4. CASE T = {}
  <2>1. Up(T) = {}
    BY <1>4
  <2>2. SumFunctionOnSet(f, {}) = 0 /\ SumFunctionOnSet(g, {}) = 0
    BY FS_EmptySet, SumZero
  <2> QED BY <1>3, <1>4, <2>1, <2>2
<1>5. CASE T # {}
  <2>1. PICK x \in T : TRUE
    BY <1>5
  <2> DEFINE U == T \ {x}
  <2>2. SumFunctionOnSet(f, Up(U)) = SumFunctionOnSet(g, U)
    BY <1>3
  <2>3. Up(U) = Up(T) \ {x + 1} /\ x + 1 \in Up(T) /\ f[x + 1] = g[x]
    OBVIOUS
  <2>4. IsFiniteSet(T) /\ IsFiniteSet(Up(T))
    <3>1. IsFiniteSet(T)
      BY <1>2, FS_Subset
    <3>2. IsFiniteSet(2..(n + 1))
      BY FS_Interval
    <3>3. Up(T) \subseteq 2..(n + 1)
      OBVIOUS
    <3> HIDE DEF Up
    <3> QED BY <3>1, <3>2, <3>3, FS_Subset
  <2>5. SumFunctionOnSet(g, T) = g[x] + SumFunctionOnSet(g, U)
    BY <2>4, SumRemove
  <2>6. SumFunctionOnSet(f, Up(T)) = f[x + 1] + SumFunctionOnSet(f, Up(T) \ {x + 1})
    <3>1. \A j \in Up(T) : f[j] \in Nat
      OBVIOUS
    <3> HIDE DEF Up
    <3> QED BY <2>3, <2>4, <3>1, SumRemove
  <2> QED BY <1>3, <2>2, <2>3, <2>5, <2>6
<1> QED BY <1>4, <1>5

\* Sums along a sequence: one more value behind, or before, the others.
LEMMA SumAppend ==
    ASSUME NEW n \in Nat, NEW f, NEW g,
           \A i \in 1..n : f[i] \in Nat /\ g[i] = f[i], g[n + 1] \in Nat
    PROVE  SumFunctionOnSet(g, 1..(n + 1)) = SumFunctionOnSet(f, 1..n) + g[n + 1]
<1>1. IsFiniteSet(1..n) /\ IsFiniteSet(1..(n + 1))
  BY FS_Interval
<1>2. (1..(n + 1)) \ {n + 1} = 1..n /\ n + 1 \in 1..(n + 1)
  OBVIOUS
<1>3. \A i \in 1..(n + 1) : g[i] \in Nat
  OBVIOUS
<1>4. SumFunctionOnSet(g, 1..(n + 1)) = g[n + 1] + SumFunctionOnSet(g, 1..n)
  BY <1>1, <1>2, <1>3, SumRemove
<1>5. SumFunctionOnSet(g, 1..n) = SumFunctionOnSet(f, 1..n)
  BY <1>1, SumEqual
<1>6. SumFunctionOnSet(f, 1..n) \in Nat
  BY <1>1, SumType
<1> QED BY <1>4, <1>5, <1>6

LEMMA SumBehead ==
    ASSUME NEW n \in Nat, NEW f, NEW g, f[1] \in Nat,
           \A i \in 1..n : g[i] \in Nat /\ f[i + 1] = g[i]
    PROVE  SumFunctionOnSet(f, 1..(n + 1)) = f[1] + SumFunctionOnSet(g, 1..n)
<1>1. IsFiniteSet(1..(n + 1))
  BY FS_Interval
<1>2. (1..(n + 1)) \ {1} = 2..(n + 1) /\ 1 \in 1..(n + 1)
  OBVIOUS
<1>3. \A i \in 1..(n + 1) : f[i] \in Nat
  <2>1. ASSUME NEW i \in 1..(n + 1), i # 1 PROVE f[i] \in Nat
    <3>1. i - 1 \in 1..n /\ i = (i - 1) + 1
      BY <2>1
    <3> QED BY <3>1
  <2> QED BY <2>1
<1>4. SumFunctionOnSet(f, 1..(n + 1)) = f[1] + SumFunctionOnSet(f, (1..(n + 1)) \ {1})
  BY <1>1, <1>2, <1>3, SumRemove
<1> QED BY <1>2, <1>4, SumShift
=============================================================================
