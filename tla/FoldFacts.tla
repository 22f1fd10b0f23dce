------------------------------ MODULE FoldFacts ------------------------------
(***************************************************************************)
(* What the folds of the community modules compute.  A fold is defined by  *)
(* recursion over the subsets of the indices; that such a recursion has a  *)
(* solution and that a sum does not depend on the order of its terms is    *)
(* shown from the least number principle, which needs no induction over an *)
(* operator.                                                               *)
(***************************************************************************)
EXTENDS Integers, SequencesExt, WellFoundedInduction, FiniteSetTheorems,
        SequenceTheorems, TLAPS

-----------------------------------------------------------------------------
(* Induction. *)

\* Every set of naturals that has one has a least one.
LEMMA LeastNatural ==
    ASSUME NEW S \in SUBSET Nat, S # {}
    PROVE  \E n \in S : \A m \in S : n <= m
<1> DEFINE R == OpToRel(<, Nat)
<1>1. IsWellFoundedOn(R, Nat)
  BY NatLessThanWellFounded
<1>2. \A x, y \in Nat : <<y, x>> \in R <=> y < x
  BY DEF OpToRel
<1> HIDE DEF R
<1>3. \E x \in S : \A y \in S : ~(<<y, x>> \in R)
  BY <1>1, WFMin
<1>4. \A x, y \in Nat : ~(y < x) <=> x <= y
  OBVIOUS
<1> QED BY <1>2, <1>3, <1>4

\* A set of naturals with 0 and every successor of a member is all of them.
LEMMA SetInduction ==
    ASSUME NEW G \in SUBSET Nat, 0 \in G, \A n \in G : n + 1 \in G
    PROVE  G = Nat
<1> SUFFICES ASSUME Nat \ G # {} PROVE FALSE
  OBVIOUS
<1>1. PICK n \in Nat \ G : \A m \in Nat \ G : n <= m
  BY LeastNatural
<1>2. n # 0 /\ n - 1 \in Nat
  BY <1>1
<1>3. n - 1 \in G
  BY <1>1, <1>2
<1> QED BY <1>1, <1>2, <1>3

-----------------------------------------------------------------------------
(* Recursion over the subsets of a finite set, as the folds define it. *)

\* pick chooses an element of each subset that has one.
Picks(pick, S) == \A T \in SUBSET S : T # {} => pick[T] \in T

\* g is a function and D its domain.
FunctionOn(g, D) == g = [x \in D |-> g[x]]

\* g[T] is the fold of T that takes the element of pick off first.
FoldsBy(g, S, pick, step, base) ==
    \A T \in SUBSET S :
        g[T] = IF T = {} THEN base
               ELSE step[<<pick[T], g[T \ {pick[T]}]>>]

\* There is such a fold, so the CHOOSE that defines one does not choose in vain.
LEMMA RecursionOverSubsets ==
    ASSUME NEW S, IsFiniteSet(S), NEW X, NEW base \in X,
           NEW pick, Picks(pick, S),
           NEW step \in [S \X X -> X]
    PROVE  \E g \in [SUBSET S -> X] : FoldsBy(g, S, pick, step, base)
<1> USE DEF Picks
<1> DEFINE D(n) == {T \in SUBSET S : Cardinality(T) <= n}
           N(g, T) == IF T = {} THEN base
                      ELSE step[<<pick[T], g[T \ {pick[T]}]>>]
           G == {n \in Nat : \E g \in [D(n) -> X] : \A T \in D(n) : g[T] = N(g, T)}
<1>1. \A T \in SUBSET S : IsFiniteSet(T) /\ Cardinality(T) \in Nat
  BY FS_Subset, FS_CardinalityType
<1>2. \A T \in SUBSET S : T # {} =>
         /\ T \ {pick[T]} \in SUBSET S
         /\ Cardinality(T \ {pick[T]}) = Cardinality(T) - 1
  BY <1>1, FS_RemoveElement
<1>3. \A T \in SUBSET S : Cardinality(T) = 0 <=> T = {}
  BY <1>1, FS_EmptySet
<1>4. 0 \in G
  <2> DEFINE g == [T \in D(0) |-> base]
  <2>1. \A T \in D(0) : T = {}
    BY <1>1, <1>3
  <2>2. g \in [D(0) -> X]
    OBVIOUS
  <2>3. \A T \in D(0) : g[T] = N(g, T)
    BY <2>1
  <2> HIDE DEF g, N, D
  <2> QED BY <2>2, <2>3
<1>5. ASSUME NEW n \in G PROVE n + 1 \in G
  <2>1. PICK g \in [D(n) -> X] : \A T \in D(n) : g[T] = N(g, T)
    OBVIOUS
  <2> DEFINE h == [T \in D(n + 1) |-> N(g, T)]
  <2>2. \A T \in D(n + 1) : T # {} =>
           pick[T] \in S /\ T \ {pick[T]} \in D(n)
    BY <1>1, <1>2
  <2>3. \A T \in D(n + 1) : N(g, T) \in X
    <3> TAKE T \in D(n + 1)
    <3>1. CASE T = {}
      BY <3>1
    <3>2. CASE T # {}
      BY <3>2, <2>2
    <3> QED BY <3>1, <3>2
  <2>4. h \in [D(n + 1) -> X]
    BY <2>3
  <2>5. D(n) \subseteq D(n + 1)
    BY <1>1
  <2>6. \A T \in D(n) : h[T] = g[T]
    BY <2>1, <2>5
  <2>7. \A T \in D(n + 1) : h[T] = N(h, T)
    <3> TAKE T \in D(n + 1)
    <3>1. h[T] = N(g, T)
      OBVIOUS
    <3> HIDE DEF h, D
    <3> QED BY <3>1, <2>2, <2>6
  <2> HIDE DEF h, N, D
  <2> QED BY <2>4, <2>7
<1>6. Cardinality(S) \in G
  <2> HIDE DEF G
  <2>1. G \in SUBSET Nat
    BY DEF G
  <2> QED BY <1>4, <1>5, <2>1, <1>1, SetInduction
<1>7. D(Cardinality(S)) = SUBSET S
  BY <1>1, FS_Subset
<1> QED BY <1>6, <1>7 DEF FoldsBy

\* Less one element, a subset is smaller.
LEMMA SmallerSubset ==
    ASSUME NEW S, IsFiniteSet(S), NEW T \in SUBSET S, NEW x \in T
    PROVE  /\ T \ {x} \in SUBSET S
           /\ Cardinality(T \ {x}) < Cardinality(T)
<1>1. IsFiniteSet(T) /\ Cardinality(T) \in Nat
  BY FS_Subset, FS_CardinalityType
<1>2. Cardinality(T \ {x}) = Cardinality(T) - 1
  BY <1>1, FS_RemoveElement
<1> QED BY <1>1, <1>2

\* What a subset has if all the smaller ones have it, every subset has.
LEMMA SubsetInduction ==
    ASSUME NEW S, IsFiniteSet(S), NEW G \in SUBSET SUBSET S, {} \in G,
           \A T \in SUBSET S : \A x \in T :
              (\A U \in SUBSET S : Cardinality(U) < Cardinality(T) => U \in G)
              => T \in G
    PROVE  G = SUBSET S
<1> SUFFICES ASSUME (SUBSET S) \ G # {} PROVE FALSE
  OBVIOUS
<1> DEFINE B == {Cardinality(T) : T \in (SUBSET S) \ G}
<1>1. \A T \in SUBSET S : Cardinality(T) \in Nat
  BY FS_Subset, FS_CardinalityType
<1>2. B \in SUBSET Nat /\ B # {}
  BY <1>1
<1>3. PICK n \in B : \A m \in B : n <= m
  <2> HIDE DEF B
  <2> QED BY <1>2, LeastNatural
<1>4. PICK T \in (SUBSET S) \ G : Cardinality(T) = n
  OBVIOUS
<1>5. \A U \in SUBSET S : Cardinality(U) < Cardinality(T) => U \in G
  BY <1>1, <1>3, <1>4
<1> QED BY <1>4, <1>5

\* A fold whose steps stay in X does.
LEMMA FoldIsTyped ==
    ASSUME NEW S, IsFiniteSet(S), NEW X, NEW pick, NEW h,
           Picks(pick, S),
           FunctionOn(h, SUBSET S),
           h[{}] \in X,
           \A T \in SUBSET S :
              T # {} /\ h[T \ {pick[T]}] \in X => h[T] \in X
    PROVE  h \in [SUBSET S -> X]
<1> USE DEF Picks
<1> DEFINE G == {T \in SUBSET S : h[T] \in X}
<1>1. ASSUME NEW T \in SUBSET S, NEW x \in T,
             \A U \in SUBSET S : Cardinality(U) < Cardinality(T) => U \in G
      PROVE  T \in G
  <2>1. /\ T \ {pick[T]} \in SUBSET S
        /\ Cardinality(T \ {pick[T]}) < Cardinality(T)
    BY SmallerSubset
  <2> QED BY <1>1, <2>1
<1>2. G = SUBSET S
  <2> HIDE DEF G
  <2>1. G \in SUBSET SUBSET S /\ {} \in G
    BY DEF G
  <2> QED BY <1>1, <2>1, SubsetInduction
<1>3. \A T \in SUBSET S : h[T] \in X
  BY <1>2
<1> HIDE DEF G
<1> DEFINE k == [T \in SUBSET S |-> h[T]]
<1>4. k \in [SUBSET S -> X]
  BY <1>3
<1> HIDE DEF k
<1>5. h = k
  BY DEF FunctionOn, k
<1> QED BY <1>4, <1>5

-----------------------------------------------------------------------------
(* Sums. *)

\* g[T] adds the values of f on T, the element of pick first.
AddsUp(g, f, S, pick) ==
    \A T \in SUBSET S :
        T # {} /\ g[T \ {pick[T]}] \in Int => g[T] = f[pick[T]] + g[T \ {pick[T]}]

NothingIsZero(g) == g[{}] = 0

\* Any element may be the first.
AddsInAnyOrder(g, f, S) ==
    \A T \in SUBSET S : \A x \in T : g[T] = f[x] + g[T \ {x}]

\* The order does not matter.
LEMMA AnyElementFirst ==
    ASSUME NEW S, IsFiniteSet(S), NEW f \in [S -> Int], NEW pick,
           NEW g \in [SUBSET S -> Int],
           Picks(pick, S),
           AddsUp(g, f, S, pick)
    PROVE  AddsInAnyOrder(g, f, S)
<1> USE DEF Picks, AddsUp
<1> DEFINE G == {T \in SUBSET S : \A x \in T : g[T] = f[x] + g[T \ {x}]}
<1>1. ASSUME NEW T \in SUBSET S, NEW t \in T,
             \A U \in SUBSET S : Cardinality(U) < Cardinality(T) => U \in G
      PROVE  T \in G
  <2> SUFFICES ASSUME NEW x \in T PROVE g[T] = f[x] + g[T \ {x}]
    OBVIOUS
  <2> DEFINE c == pick[T]
  <2>1. c \in T /\ g[T] = f[c] + g[T \ {c}]
    <3>1. c \in T
      OBVIOUS
    <3>2. g[T \ {c}] \in Int
      BY <3>1
    <3> QED BY <3>1, <3>2
  <2>2. CASE x = c
    BY <2>1, <2>2
  <2>3. CASE x # c
    <3> HIDE DEF c
    <3>1. \A y \in T : T \ {y} \in G
      <4> HIDE DEF G
      <4> QED BY <1>1, SmallerSubset
    <3>2. g[T \ {c}] = f[x] + g[(T \ {c}) \ {x}]
      BY <2>1, <2>3, <3>1
    <3>4. (T \ {x}) \ {c} = (T \ {c}) \ {x}
      OBVIOUS
    <3>3. g[T \ {x}] = f[c] + g[(T \ {c}) \ {x}]
      <4>1. g[T \ {x}] = f[c] + g[(T \ {x}) \ {c}]
        BY <2>1, <2>3, <3>1
      <4> QED BY <3>4, <4>1
    <3>5. f[x] \in Int /\ f[c] \in Int
      BY <2>1
    <3>6. g[(T \ {c}) \ {x}] \in Int
      OBVIOUS
    <3> QED BY <2>1, <3>2, <3>3, <3>4, <3>5, <3>6
  <2> QED BY <2>2, <2>3
<1>2. G = SUBSET S
  <2> HIDE DEF G
  <2>1. G \in SUBSET SUBSET S /\ {} \in G
    BY DEF G
  <2> QED BY <1>1, <2>1, SubsetInduction
<1> QED BY <1>2 DEF AddsInAnyOrder

\* p[i] is the sum of the first i values of f.
RunningTotal(p, f, n) ==
    /\ p \in [0..n -> Int]
    /\ p[0] = 0
    /\ \A i \in 1..n : p[i] = p[i - 1] + f[i]

\* So for any function that adds in some order.
LEMMA SumIsFree ==
    ASSUME NEW S, IsFiniteSet(S), NEW f \in [S -> Int],
           NEW pick, Picks(pick, S),
           NEW sum, FunctionOn(sum, SUBSET S), NothingIsZero(sum),
           AddsUp(sum, f, S, pick)
    PROVE  /\ sum \in [SUBSET S -> Int]
           /\ AddsInAnyOrder(sum, f, S)
<1>1. \A T \in SUBSET S :
         T # {} /\ sum[T \ {pick[T]}] \in Int => sum[T] \in Int
  <2> SUFFICES ASSUME NEW T \in SUBSET S, T # {}, sum[T \ {pick[T]}] \in Int
               PROVE  sum[T] \in Int
    OBVIOUS
  <2>1. sum[T] = f[pick[T]] + sum[T \ {pick[T]}]
    BY DEF AddsUp
  <2>2. f[pick[T]] \in Int
    BY DEF Picks
  <2> QED BY <2>1, <2>2
<1>2. sum \in [SUBSET S -> Int]
  <2>1. sum[{}] \in Int
    BY DEF NothingIsZero
  <2> QED BY <1>1, <2>1, FoldIsTyped
<1> QED BY <1>2, AnyElementFirst

\* The sum of all and the last running total are the same.
AgreeAt(g, p, n) == g[1..n] = p[n]

\* They are, for any order of adding.
LEMMA SumOfAll ==
    ASSUME NEW n \in Nat, NEW f \in [1..n -> Int],
           NEW p, RunningTotal(p, f, n),
           NEW pick, Picks(pick, 1..n),
           NEW sum, FunctionOn(sum, SUBSET (1..n)), NothingIsZero(sum),
           AddsUp(sum, f, 1..n, pick)
    PROVE  AgreeAt(sum, p, n)
<1>1. IsFiniteSet(1..n)
  BY FS_Interval
<1>2. /\ sum \in [SUBSET (1..n) -> Int]
      /\ AddsInAnyOrder(sum, f, 1..n)
  BY <1>1, SumIsFree
<1> DEFINE G == {i \in Nat : i <= n => sum[1..i] = p[i]}
<1>6. 0 \in G
  <2>1. 1..0 = {}
    OBVIOUS
  <2> QED BY <2>1 DEF RunningTotal, NothingIsZero
<1>7. ASSUME NEW i \in G, i < n PROVE sum[1..(i + 1)] = p[i + 1]
  <2>1. /\ 1..(i + 1) \in SUBSET (1..n)
        /\ i + 1 \in 1..(i + 1)
        /\ (1..(i + 1)) \ {i + 1} = 1..i
    BY <1>7
  <2>2. sum[1..(i + 1)] = f[i + 1] + sum[1..i]
    BY <1>2, <2>1 DEF AddsInAnyOrder
  <2>3. p[i + 1] = p[i] + f[i + 1] /\ p[i] \in Int /\ f[i + 1] \in Int
    BY <1>7 DEF RunningTotal
  <2> QED BY <1>7, <2>2, <2>3
<1>8. G = Nat
  <2>1. \A i \in G : i + 1 \in G
    BY <1>7
  <2>2. G \in SUBSET Nat
    OBVIOUS
  <2> HIDE DEF G
  <2> QED BY <1>6, <2>1, <2>2, SetInduction
<1> QED BY <1>8 DEF AgreeAt

\* Two folds that add: in any order, and from the left.
SumOf(f) == FoldFunction(LAMBDA x, y : x + y, 0, f)
SumFromLeft(f) == FoldLeft(LAMBDA x, y : x + y, 0, f)

\* The first is the last running total.
LEMMA SumOfIsLastTotal ==
    ASSUME NEW n \in Nat, NEW f \in [1..n -> Int],
           NEW p, RunningTotal(p, f, n)
    PROVE  SumOf(f) = p[n]
<1> DEFINE S == 1..n
           N(g) == [T \in SUBSET S |->
                      IF T = {} THEN 0
                      ELSE f[CHOOSE x \in T : TRUE]
                             + g[T \ {CHOOSE x \in T : TRUE}]]
           sum == CHOOSE g : g = N(g)
           pick == [T \in SUBSET S |-> CHOOSE x \in T : TRUE]
           step == [q \in S \X Int |-> f[q[1]] + q[2]]
<1>1. IsFiniteSet(S)
  BY FS_Interval
<1>2. Picks(pick, S)
  BY DEF Picks
<1>3. \E g : g = N(g)
  <2>1. PICK g \in [SUBSET S -> Int] : FoldsBy(g, S, pick, step, 0)
    <3>1. 0 \in Int /\ step \in [S \X Int -> Int]
      OBVIOUS
    <3> HIDE DEF S, pick, step
    <3> QED BY <1>1, <1>2, <3>1, RecursionOverSubsets
  <2>2. \A T \in SUBSET S : g[T] = N(g)[T]
    BY <1>2, <2>1 DEF FoldsBy, Picks
  <2> QED BY <2>2
<1>4. sum = N(sum)
  BY <1>3
<1>5. SumOf(f) = sum[S]
  BY DEF SumOf, FoldFunction, FoldFunctionOnSet, MapThenFoldSet
<1> HIDE DEF sum
<1>6. FunctionOn(sum, SUBSET S) /\ NothingIsZero(sum)
  BY <1>4 DEF FunctionOn, NothingIsZero
<1>7. AddsUp(sum, f, S, pick)
  BY <1>4 DEF AddsUp
<1>8. sum[S] = p[n]
  <2>1. /\ Picks(pick, 1..n)
        /\ FunctionOn(sum, SUBSET (1..n))
        /\ NothingIsZero(sum)
        /\ AddsUp(sum, f, 1..n, pick)
    BY <1>2, <1>6, <1>7
  <2> HIDE DEF pick, N, step
  <2>2. AgreeAt(sum, p, n)
    BY <2>1, SumOfAll
  <2> QED BY <2>2 DEF AgreeAt
<1> QED BY <1>5, <1>8

\* The fold from the left takes the largest index off first.
LEMMA MaxOfNumbers ==
    ASSUME NEW n \in Nat, NEW T \in SUBSET (0..n), T # {}
    PROVE  Max(T) \in T /\ \A y \in T : Max(T) >= y
<1> DEFINE B == {n - t : t \in T}
<1>1. B \in SUBSET Nat /\ B # {}
  <2>1. \A t \in T : t \in Nat /\ t <= n
    OBVIOUS
  <2>2. \A t \in T : n - t \in Nat
    BY <2>1
  <2> QED BY <2>2
<1>2. PICK b \in B : \A c \in B : b <= c
  <2> HIDE DEF B
  <2> QED BY <1>1, LeastNatural
<1>3. PICK t \in T : b = n - t
  OBVIOUS
<1>4. \A y \in T : t >= y
  <2> TAKE y \in T
  <2>1. n - t <= n - y
    BY <1>2, <1>3
  <2>2. t \in 0..n /\ y \in 0..n
    OBVIOUS
  <2> HIDE DEF B
  <2> QED BY <2>1, <2>2
<1> QED BY <1>4 DEF Max

LEMMA MaxIsMember ==
    ASSUME NEW n \in Nat, NEW T \in SUBSET (1..n), T # {}
    PROVE  Max(T) \in T /\ \A y \in T : Max(T) >= y
<1>1. T \in SUBSET (0..n)
  OBVIOUS
<1> QED BY <1>1, MaxOfNumbers

\* The second is the last running total, too.
LEMMA SumFromLeftIsLastTotal ==
    ASSUME NEW n \in Nat, NEW f \in [1..n -> Int],
           NEW p, RunningTotal(p, f, n)
    PROVE  SumFromLeft(f) = p[n]
<1> DEFINE S == 1..n
           N(g) == [T \in SUBSET S |->
                      IF T = {} THEN 0
                      ELSE g[T \ {Max(T)}] + f[Max(T)]]
           sum == CHOOSE g : g = N(g)
           pick == [T \in SUBSET S |-> Max(T)]
           step == [q \in S \X Int |-> q[2] + f[q[1]]]
<1>1. IsFiniteSet(S)
  BY FS_Interval
<1>2. Picks(pick, S)
  <2>1. \A T \in SUBSET S : T # {} => Max(T) \in T
    BY MaxIsMember
  <2> QED BY <2>1 DEF Picks
<1>3. \E g : g = N(g)
  <2>1. PICK g \in [SUBSET S -> Int] : FoldsBy(g, S, pick, step, 0)
    <3>1. 0 \in Int /\ step \in [S \X Int -> Int]
      OBVIOUS
    <3> HIDE DEF S, pick, step
    <3> QED BY <1>1, <1>2, <3>1, RecursionOverSubsets
  <2>2. \A T \in SUBSET S : g[T] = N(g)[T]
    <3> TAKE T \in SUBSET S
    <3>1. CASE T = {}
      BY <2>1, <3>1 DEF FoldsBy
    <3>2. CASE T # {}
      <4>1. pick[T] = Max(T) /\ Max(T) \in S /\ T \ {Max(T)} \in SUBSET S
        BY <1>2, <3>2 DEF Picks
      <4>2. g[T] = step[<<Max(T), g[T \ {Max(T)}]>>]
        BY <2>1, <3>2, <4>1 DEF FoldsBy
      <4>3. N(g)[T] = g[T \ {Max(T)}] + f[Max(T)]
        BY <3>2
      <4> HIDE DEF N, S
      <4> QED BY <4>1, <4>2, <4>3
    <3> QED BY <3>1, <3>2
  <2> QED BY <2>2
<1>4. sum = N(sum)
  BY <1>3
<1>5. SumFromLeft(f) = sum[S]
  BY DEF SumFromLeft, FoldLeft, MapThenFoldSet
<1> HIDE DEF sum
<1>6. FunctionOn(sum, SUBSET S) /\ NothingIsZero(sum)
  BY <1>4 DEF FunctionOn, NothingIsZero
<1>7. AddsUp(sum, f, S, pick)
  <2> SUFFICES ASSUME NEW T \in SUBSET S, T # {}, sum[T \ {pick[T]}] \in Int
               PROVE  sum[T] = f[pick[T]] + sum[T \ {pick[T]}]
    BY DEF AddsUp
  <2>1. pick[T] = Max(T) /\ f[pick[T]] \in Int
    BY <1>2 DEF Picks
  <2>2. sum[T] = sum[T \ {Max(T)}] + f[Max(T)]
    BY <1>4
  <2> QED BY <2>1, <2>2
<1>8. sum[S] = p[n]
  <2>1. /\ Picks(pick, 1..n)
        /\ FunctionOn(sum, SUBSET (1..n))
        /\ NothingIsZero(sum)
        /\ AddsUp(sum, f, 1..n, pick)
    BY <1>2, <1>6, <1>7
  <2> HIDE DEF pick, N, step
  <2>2. AgreeAt(sum, p, n)
    BY <2>1, SumOfAll
  <2> QED BY <2>2 DEF AgreeAt
<1> QED BY <1>5, <1>8

-----------------------------------------------------------------------------
(* How a sum changes with its terms. *)

\* Any sequence of integers has running totals.
LEMMA RunningTotalExists ==
    ASSUME NEW n \in Nat, NEW f \in [1..n -> Int]
    PROVE  \E p : RunningTotal(p, f, n)
<1> DEFINE G == {m \in Nat : m <= n => \E p : RunningTotal(p, f, m)}
<1>1. 0 \in G
  <2> DEFINE p == [i \in 0..0 |-> 0]
  <2>1. RunningTotal(p, f, 0)
    BY DEF RunningTotal
  <2> HIDE DEF p
  <2> QED BY <2>1
<1>2. ASSUME NEW m \in G PROVE m + 1 \in G
  <2> SUFFICES ASSUME m + 1 <= n PROVE \E q : RunningTotal(q, f, m + 1)
    OBVIOUS
  <2>1. PICK p : RunningTotal(p, f, m)
    OBVIOUS
  <2> DEFINE q == [i \in 0..(m + 1) |-> IF i <= m THEN p[i] ELSE p[m] + f[m + 1]]
  <2>2. m \in Nat /\ f[m + 1] \in Int /\ p \in [0..m -> Int]
    BY <2>1 DEF RunningTotal
  <2>3. q \in [0..(m + 1) -> Int] /\ q[0] = 0
    BY <2>1, <2>2 DEF RunningTotal
  <2>4. ASSUME NEW i \in 1..(m + 1) PROVE q[i] = q[i - 1] + f[i]
    <3>1. CASE i <= m
      BY <2>1, <2>2, <3>1 DEF RunningTotal
    <3>2. CASE i = m + 1
      BY <2>2, <3>2
    <3> QED BY <2>2, <3>1, <3>2
  <2>5. RunningTotal(q, f, m + 1)
    <3> HIDE DEF q
    <3> QED BY <2>3, <2>4 DEF RunningTotal
  <2> HIDE DEF q
  <2> QED BY <2>5
<1>3. G = Nat
  <2>1. G \in SUBSET Nat
    OBVIOUS
  <2> HIDE DEF G
  <2> QED BY <1>1, <1>2, <2>1, SetInduction
<1>4. n \in G
  <2> HIDE DEF G
  <2> QED BY <1>3
<1>5. n <= n
  OBVIOUS
<1> QED BY <1>4, <1>5

\* The sum of nothing is 0.
LEMMA SumOfNone ==
    ASSUME NEW f \in [1..0 -> Int]
    PROVE  SumOf(f) = 0
<1>1. PICK p : RunningTotal(p, f, 0)
  BY RunningTotalExists
<1> QED BY <1>1, SumOfIsLastTotal DEF RunningTotal

\* A sum of integers is one.
LEMMA SumOfIsInt ==
    ASSUME NEW n \in Nat, NEW f \in [1..n -> Int]
    PROVE  SumOf(f) \in Int
<1>1. PICK p : RunningTotal(p, f, n)
  BY RunningTotalExists
<1>2. p[n] \in Int
  BY <1>1 DEF RunningTotal
<1>3. SumOf(f) = p[n]
  BY <1>1, SumOfIsLastTotal
<1> QED BY <1>2, <1>3

\* A term more at the end is added.
LEMMA SumOfLonger ==
    ASSUME NEW n \in Nat, NEW f \in [1..n -> Int], NEW h \in [1..(n + 1) -> Int],
           \A i \in 1..n : h[i] = f[i]
    PROVE  SumOf(h) = SumOf(f) + h[n + 1]
<1>1. PICK p : RunningTotal(p, h, n + 1)
  BY RunningTotalExists
<1> DEFINE q == [i \in 0..n |-> p[i]]
<1>2. RunningTotal(q, f, n)
  BY <1>1 DEF RunningTotal
<1>3. q[n] = p[n] /\ p[n + 1] = p[n] + h[n + 1]
  BY <1>1 DEF RunningTotal
<1> HIDE DEF q
<1>4. SumOf(f) = q[n]
  BY <1>2, SumOfIsLastTotal
<1>5. SumOf(h) = p[n + 1]
  BY <1>1, SumOfIsLastTotal
<1> QED BY <1>3, <1>4, <1>5

\* Without the first term it is taken off.
LEMMA SumOfRest ==
    ASSUME NEW n \in Nat, NEW f \in [1..(n + 1) -> Int], NEW h \in [1..n -> Int],
           \A i \in 1..n : h[i] = f[i + 1]
    PROVE  SumOf(h) = SumOf(f) - f[1]
<1>1. PICK p : RunningTotal(p, f, n + 1)
  BY RunningTotalExists
<1> DEFINE q == [i \in 0..n |-> p[i + 1] - f[1]]
<1>2. p[1] = f[1] /\ f[1] \in Int /\ p \in [0..(n + 1) -> Int]
  BY <1>1 DEF RunningTotal
<1>3. RunningTotal(q, h, n)
  <2>1. q \in [0..n -> Int] /\ q[0] = 0
    BY <1>2
  <2>2. ASSUME NEW i \in 1..n PROVE q[i] = q[i - 1] + h[i]
    <3>1. p[i + 1] = p[i] + f[i + 1] /\ p[i] \in Int /\ f[i + 1] \in Int
      BY <1>1 DEF RunningTotal
    <3>2. q[i] = p[i + 1] - f[1] /\ q[i - 1] = p[i] - f[1]
      OBVIOUS
    <3> HIDE DEF q
    <3> QED BY <1>2, <3>1, <3>2
  <2> HIDE DEF q
  <2> QED BY <2>1, <2>2 DEF RunningTotal
<1>4. q[n] = p[n + 1] - f[1]
  OBVIOUS
<1> HIDE DEF q
<1>5. SumOf(h) = q[n]
  BY <1>3, SumOfIsLastTotal
<1>6. SumOf(f) = p[n + 1]
  BY <1>1, SumOfIsLastTotal
<1> QED BY <1>4, <1>5, <1>6

\* Moving a term to the end leaves it.
LEMMA SumOfMoved ==
    ASSUME NEW n \in Nat \ {0}, NEW f \in [1..n -> Int], NEW k \in 1..n,
           NEW h \in [1..n -> Int],
           \A i \in 1..(k - 1) : h[i] = f[i],
           \A i \in k..(n - 1) : h[i] = f[i + 1],
           h[n] = f[k]
    PROVE  SumOf(h) = SumOf(f)
<1>1. PICK p : RunningTotal(p, f, n)
  BY RunningTotalExists
<1> DEFINE q == [i \in 0..n |->
                    IF i < k THEN p[i] ELSE IF i < n THEN p[i + 1] - f[k] ELSE p[n]]
<1>2. /\ p \in [0..n -> Int] /\ p[0] = 0
      /\ \A i \in 1..n : p[i] = p[i - 1] + f[i] /\ f[i] \in Int
  BY <1>1 DEF RunningTotal
<1>3. RunningTotal(q, h, n)
  <2>1. q \in [0..n -> Int] /\ q[0] = 0
    <3>1. \A i \in 0..n : p[i] \in Int
      BY <1>2
    <3>2. \A i \in 0..n : i < n => p[i + 1] - f[k] \in Int
      <4>1. \A i \in 0..n : i < n => i + 1 \in 0..n
        OBVIOUS
      <4>2. f[k] \in Int
        OBVIOUS
      <4> QED BY <3>1, <4>1, <4>2
    <3> QED BY <1>2, <3>1, <3>2
  <2>2. ASSUME NEW i \in 1..n PROVE q[i] = q[i - 1] + h[i]
    <3>1. CASE i < k
      <4>1. q[i] = p[i] /\ q[i - 1] = p[i - 1] /\ h[i] = f[i]
        BY <3>1
      <4> QED BY <1>2, <4>1
    <3>2. CASE i = k /\ i < n
      <4>1. q[i] = p[i + 1] - f[k] /\ q[i - 1] = p[i - 1] /\ h[i] = f[i + 1]
        BY <3>2
      <4>2. p[i + 1] = p[i] + f[i + 1]
        BY <1>2, <3>2
      <4>3. p[i] = p[i - 1] + f[k]
        BY <1>2, <3>2
      <4>4. p[i + 1] \in Int /\ p[i] \in Int /\ f[k] \in Int /\ f[i + 1] \in Int
        BY <1>2, <3>2
      <4>5. p[i - 1] \in Int
        BY <1>2, <3>2
      <4> HIDE DEF q
      <4>6. p[i + 1] - f[k] = p[i - 1] + f[i + 1]
        <5> DEFINE a == p[i + 1]
                   b == p[i]
                   c == p[i - 1]
                   d == f[k]
                   e == f[i + 1]
        <5>1. a = b + e /\ b = c + d
          BY <4>2, <4>3
        <5>2. a \in Int /\ b \in Int /\ c \in Int /\ d \in Int /\ e \in Int
          BY <4>4, <4>5
        <5> HIDE DEF a, b, c, d, e
        <5>3. a - d = c + e
          BY <5>1, <5>2
        <5> QED BY <5>3 DEF a, c, d, e
      <4> QED BY <4>1, <4>6
    <3>3. CASE i > k /\ i < n
      <4>1. q[i] = p[i + 1] - f[k] /\ q[i - 1] = p[i] - f[k] /\ h[i] = f[i + 1]
        BY <3>3
      <4>2. p[i + 1] = p[i] + f[i + 1]
        BY <1>2, <3>3
      <4>3. p[i + 1] \in Int /\ p[i] \in Int /\ f[k] \in Int /\ f[i + 1] \in Int
        <5>1. i \in 0..n /\ i + 1 \in 0..n /\ i + 1 \in 1..n
          BY <3>3
        <5> HIDE DEF q
        <5> QED BY <1>2, <5>1
      <4> HIDE DEF q
      <4> QED BY <4>1, <4>2, <4>3
    <3>4. CASE i = n /\ k = n
      <4>1. q[i] = p[i] /\ q[i - 1] = p[i - 1] /\ h[i] = f[i]
        BY <3>4
      <4> QED BY <1>2, <4>1
    <3>5. CASE i = n /\ k < n
      <4>1. q[i] = p[i] /\ q[i - 1] = p[i] - f[k] /\ h[i] = f[k]
        BY <3>5
      <4>2. p[i] \in Int /\ f[k] \in Int
        BY <1>2
      <4> HIDE DEF q
      <4> QED BY <4>1, <4>2
    <3> QED BY <3>1, <3>2, <3>3, <3>4, <3>5
  <2> HIDE DEF q
  <2> QED BY <2>1, <2>2 DEF RunningTotal
<1>4. q[n] = p[n]
  OBVIOUS
<1> HIDE DEF q
<1>5. SumOf(h) = q[n]
  BY <1>3, SumOfIsLastTotal
<1>6. SumOf(f) = p[n]
  BY <1>1, SumOfIsLastTotal
<1> QED BY <1>4, <1>5, <1>6

\* Both folds give the same sum.
LEMMA SumsAgree ==
    ASSUME NEW n \in Nat, NEW f \in [1..n -> Int]
    PROVE  SumFromLeft(f) = SumOf(f)
<1>1. PICK p : RunningTotal(p, f, n)
  BY RunningTotalExists
<1>2. SumFromLeft(f) = p[n]
  BY <1>1, SumFromLeftIsLastTotal
<1>3. SumOf(f) = p[n]
  BY <1>1, SumOfIsLastTotal
<1> QED BY <1>2, <1>3

-----------------------------------------------------------------------------
(* A fold from the left, whatever it computes. *)

\* The values of a fold after each of n steps; step[<<i, x>>] is the i-th from x.
StepByStep(p, step, base, n) ==
    p[0] = base /\ \A i \in 1..n : p[i] = step[<<i, p[i - 1]>>]

\* h is a fold that takes the largest index off first, as long as it stays in X.
FoldsFromLeft(h, step, base, n, X) ==
    /\ h[{}] = base
    /\ \A T \in SUBSET (1..n) :
          T # {} /\ h[T \ {Max(T)}] \in X => h[T] = step[<<Max(T), h[T \ {Max(T)}]>>]

\* Each step leads from X to X.
StepsIn(step, n, X) == step \in [(1..n) \X X -> X]

\* The fold over all indices is the last of such values.
EndsAt(h, step, base, n, X) ==
    \E p \in [0..n -> X] : StepByStep(p, step, base, n) /\ h[1..n] = p[n]

\* An interval from 1 ends in its largest element.
LEMMA MaxOfInterval ==
    ASSUME NEW n \in Nat, NEW i \in 1..n
    PROVE  /\ 1..i \in SUBSET (1..n)
           /\ 1..i # {}
           /\ Max(1..i) = i
           /\ (1..i) \ {i} = 1..(i - 1)
<1>1. /\ 1..i \in SUBSET (1..n)
      /\ i \in 1..i
      /\ (1..i) \ {i} = 1..(i - 1)
  OBVIOUS
<1>2. Max(1..i) \in 1..i /\ Max(1..i) >= i
  BY <1>1, MaxIsMember
<1>3. Max(1..i) = i
  BY <1>2
<1> QED BY <1>1, <1>3

\* Its values after each step exist, and a fold over all indices is the last.
LEMMA FoldIsLastStep ==
    ASSUME NEW n \in Nat, NEW X, NEW base \in X,
           NEW step, StepsIn(step, n, X),
           NEW h, FoldsFromLeft(h, step, base, n, X)
    PROVE  EndsAt(h, step, base, n, X)
<1> DEFINE p == [i \in 0..n |-> h[1..i]]
           G == {i \in Nat : i <= n => h[1..i] \in X}
<1>1. h[1..0] = base
  <2>1. 1..0 = {}
    OBVIOUS
  <2> QED BY <2>1 DEF FoldsFromLeft
<1>2. ASSUME NEW i \in 1..n, h[1..(i - 1)] \in X
      PROVE  h[1..i] = step[<<i, h[1..(i - 1)]>>]
  <2> DEFINE T == 1..i
  <2>1. T \in SUBSET (1..n) /\ T # {} /\ Max(T) = i /\ T \ {i} = 1..(i - 1)
    BY MaxOfInterval
  <2> HIDE DEF T
  <2>2. h[T] = step[<<Max(T), h[T \ {Max(T)}]>>]
    BY <1>2, <2>1 DEF FoldsFromLeft
  <2> QED BY <2>1, <2>2 DEF T
<1>3. 0 \in G
  BY <1>1
<1>4. ASSUME NEW i \in G PROVE i + 1 \in G
  <2> SUFFICES ASSUME i + 1 <= n PROVE h[1..(i + 1)] \in X
    OBVIOUS
  <2>1. i + 1 \in 1..n /\ (i + 1) - 1 = i /\ h[1..i] \in X
    OBVIOUS
  <2>2. h[1..(i + 1)] = step[<<i + 1, h[1..i]>>]
    BY <1>2, <2>1
  <2> HIDE DEF G
  <2> QED BY <2>1, <2>2 DEF StepsIn
<1>5. G = Nat
  <2>1. G \in SUBSET Nat
    OBVIOUS
  <2> HIDE DEF G
  <2> QED BY <1>3, <1>4, <2>1, SetInduction
<1>6. \A i \in 0..n : h[1..i] \in X
  BY <1>5
<1>7. p \in [0..n -> X]
  BY <1>6
<1>8. StepByStep(p, step, base, n)
  <2>1. p[0] = base
    BY <1>1
  <2>2. ASSUME NEW i \in 1..n PROVE p[i] = step[<<i, p[i - 1]>>]
    <3>1. i - 1 \in 0..n /\ i \in 0..n
      OBVIOUS
    <3>2. h[1..i] = step[<<i, h[1..(i - 1)]>>]
      BY <1>2, <1>6, <3>1
    <3> QED BY <3>1, <3>2
  <2> HIDE DEF p
  <2> QED BY <2>1, <2>2 DEF StepByStep
<1>9. h[1..n] = p[n]
  OBVIOUS
<1> HIDE DEF p
<1> QED BY <1>7, <1>8, <1>9 DEF EndsAt

\* The values are determined by the steps.
LEMMA StepsAgree ==
    ASSUME NEW n \in Nat, NEW step, NEW base, NEW p, NEW q,
           StepByStep(p, step, base, n), StepByStep(q, step, base, n)
    PROVE  \A i \in 0..n : p[i] = q[i]
<1> DEFINE G == {i \in Nat : i <= n => p[i] = q[i]}
<1>1. 0 \in G
  BY DEF StepByStep
<1>2. ASSUME NEW i \in G PROVE i + 1 \in G
  <2> SUFFICES ASSUME i + 1 <= n PROVE p[i + 1] = q[i + 1]
    OBVIOUS
  <2>1. i + 1 \in 1..n /\ (i + 1) - 1 = i /\ p[i] = q[i]
    OBVIOUS
  <2> HIDE DEF G
  <2> QED BY <2>1 DEF StepByStep
<1>3. G = Nat
  <2>1. G \in SUBSET Nat
    OBVIOUS
  <2> HIDE DEF G
  <2> QED BY <1>1, <1>2, <2>1, SetInduction
<1> QED BY <1>3

-----------------------------------------------------------------------------
(* Sequences that are put one behind the other. *)

\* There are such values.
LEMMA StepsExist ==
    ASSUME NEW n \in Nat, NEW X, NEW base \in X, NEW step, StepsIn(step, n, X)
    PROVE  \E p \in [0..n -> X] : StepByStep(p, step, base, n)
<1> DEFINE G == {m \in Nat :
                   m <= n => \E p \in [0..m -> X] : StepByStep(p, step, base, m)}
<1>1. 0 \in G
  <2> DEFINE p == [i \in 0..0 |-> base]
  <2>1. p \in [0..0 -> X] /\ StepByStep(p, step, base, 0)
    BY DEF StepByStep
  <2> HIDE DEF p
  <2> QED BY <2>1
<1>2. ASSUME NEW m \in G PROVE m + 1 \in G
  <2> SUFFICES ASSUME m + 1 <= n
               PROVE  \E q \in [0..(m + 1) -> X] : StepByStep(q, step, base, m + 1)
    OBVIOUS
  <2>1. m \in Nat /\ m + 1 \in 1..n
    OBVIOUS
  <2>2. PICK p \in [0..m -> X] : StepByStep(p, step, base, m)
    BY <2>1
  <2> DEFINE q == [i \in 0..(m + 1) |-> IF i <= m THEN p[i]
                                        ELSE step[<<m + 1, p[m]>>]]
  <2>3. step[<<m + 1, p[m]>>] \in X
    <3>1. p[m] \in X
      BY <2>1
    <3> QED BY <2>1, <3>1 DEF StepsIn
  <2>4. q \in [0..(m + 1) -> X]
    BY <2>1, <2>3
  <2>5. q[0] = base /\ \A i \in 1..(m + 1) : q[i] = step[<<i, q[i - 1]>>]
    <3> HIDE DEF G
    <3>1. q[0] = base
      BY <2>1, <2>2 DEF StepByStep
    <3>2. ASSUME NEW i \in 1..(m + 1) PROVE q[i] = step[<<i, q[i - 1]>>]
      <4>1. CASE i <= m
        <5>1. i \in 1..m /\ i - 1 \in 0..m /\ i - 1 <= m
          BY <2>1, <4>1
        <5>2. p[i] = step[<<i, p[i - 1]>>]
          BY <2>2, <5>1 DEF StepByStep
        <5>3. q[i] = p[i] /\ q[i - 1] = p[i - 1]
          BY <2>1, <4>1, <5>1
        <5> HIDE DEF q
        <5> QED BY <5>2, <5>3
      <4>2. CASE i = m + 1
        <5>1. i - 1 = m /\ ~(i <= m)
          BY <2>1, <4>2
        <5>2. q[i] = step[<<m + 1, p[m]>>] /\ q[i - 1] = p[m]
          BY <2>1, <4>2, <5>1
        <5> HIDE DEF q
        <5> QED BY <4>2, <5>2
      <4> QED BY <2>1, <4>1, <4>2
    <3> QED BY <3>1, <3>2
  <2> HIDE DEF q
  <2> QED BY <2>4, <2>5 DEF StepByStep
<1>3. G = Nat
  <2>1. G \in SUBSET Nat
    OBVIOUS
  <2> HIDE DEF G
  <2> QED BY <1>1, <1>2, <2>1, SetInduction
<1>4. n \in G
  <2> HIDE DEF G
  <2> QED BY <1>3
<1>5. n <= n
  OBVIOUS
<1> QED BY <1>4, <1>5

-----------------------------------------------------------------------------
(* Sequences one after the other. *)

JoinStep(seqs, K) == [q \in (1..Len(seqs)) \X Seq(K) |-> q[2] \o seqs[q[1]]]

LEMMA FlattenSteps ==
    ASSUME NEW K, NEW seqs, seqs \in Seq(Seq(K))
    PROVE  \E p \in [0..Len(seqs) -> Seq(K)] :
              /\ StepByStep(p, JoinStep(seqs, K), <<>>, Len(seqs))
              /\ FlattenSeq(seqs) = p[Len(seqs)]
<1> DEFINE n == Len(seqs)
           X == Seq(K)
           step == JoinStep(seqs, K)
<1>1. /\ n \in Nat /\ <<>> \in X
      /\ \A i \in 1..n : seqs[i] \in X
  OBVIOUS
<1>2. \A i \in 1..n, x \in X : step[<<i, x>>] = x \o seqs[i]
  BY DEF JoinStep
<1>3. \A x \in X, y \in X : x \o y \in X
  OBVIOUS
<1>4. StepsIn(step, n, X)
  <2>1. \A q \in (1..n) \X X : q[2] \o seqs[q[1]] \in X
    <3> TAKE q \in (1..n) \X X
    <3> HIDE DEF X
    <3>1. q[2] \in X /\ seqs[q[1]] \in X
      BY <1>1
    <3> QED BY <1>3, <3>1
  <2> HIDE DEF X, n
  <2>2. step \in [(1..n) \X X -> X]
    BY <2>1 DEF JoinStep, X, n
  <2> QED BY <2>2 DEF StepsIn
<1>5. PICK p \in [0..n -> X] : StepByStep(p, step, <<>>, n)
  <2> HIDE DEF n, X, step
  <2> QED BY <1>1, <1>4, StepsExist
<1>6. CASE n = 0
  <2>1. seqs = <<>> /\ FlattenSeq(seqs) = seqs
    BY <1>6 DEF FlattenSeq
  <2>2. p[n] = <<>>
    BY <1>5, <1>6 DEF StepByStep
  <2> QED BY <1>5, <2>1, <2>2
<1>7. CASE n # 0
  <2> DEFINE N(f) == [i \in 1..n |->
                        IF i = 1 THEN seqs[i] ELSE f[i - 1] \o seqs[i]]
             flat == CHOOSE f : f = N(f)
             g == [i \in 1..n |-> p[i]]
  <2>1. \A i \in 1..n : p[i] = p[i - 1] \o seqs[i]
    <3> TAKE i \in 1..n
    <3>1. p[i - 1] \in X
      <4> HIDE DEF X, n
      <4>1. i - 1 \in 0..n
        BY <1>1
      <4> QED BY <4>1
    <3>2. p[i] = step[<<i, p[i - 1]>>]
      BY <1>5 DEF StepByStep
    <3> HIDE DEF X, step
    <3> QED BY <1>2, <3>1, <3>2
  <2>2. p[0] = <<>>
    BY <1>5 DEF StepByStep
  <2>3. \A i \in 1..n : g[i] = N(g)[i]
    <3> TAKE i \in 1..n
    <3>1. CASE i = 1
      <4>1. p[1] = p[0] \o seqs[1]
        <5> HIDE DEF X, n
        <5>1. 1 \in 1..n /\ 1 - 1 = 0
          BY <1>1, <1>7
        <5> QED BY <2>1, <5>1
      <4>2. <<>> \o seqs[1] = seqs[1]
        <5>1. seqs[1] \in Seq(K)
          BY <1>1, <1>7
        <5> QED BY <5>1
      <4> QED BY <1>7, <2>2, <3>1, <4>1, <4>2
    <3>2. CASE i # 1
      <4>1. i - 1 \in 1..n
        BY <1>1, <3>2
      <4> QED BY <2>1, <3>2, <4>1
    <3> QED BY <3>1, <3>2
  <2>4. g = N(g)
    <3>1. g = [i \in 1..n |-> g[i]] /\ N(g) = [i \in 1..n |-> N(g)[i]]
      OBVIOUS
    <3> HIDE DEF g, N
    <3> QED BY <2>3, <3>1
  <2>5. flat = N(flat)
    <3> HIDE DEF N, g
    <3> QED BY <2>4
  <2>6. FlattenSeq(seqs) = flat[n]
    BY <1>7 DEF FlattenSeq
  <2> HIDE DEF flat, g
  <2> DEFINE G == {i \in Nat : i + 1 <= n => flat[i + 1] = p[i + 1]}
  <2>7. \A i \in 1..n : flat[i] = IF i = 1 THEN seqs[i] ELSE flat[i - 1] \o seqs[i]
    BY <2>5
  <2>8. \A i \in 1..n : p[i] = IF i = 1 THEN seqs[i] ELSE p[i - 1] \o seqs[i]
    <3> TAKE i \in 1..n
    <3>1. g[i] = N(g)[i]
      BY <2>3
    <3>2. i # 1 => i - 1 \in 1..n
      BY <1>1
    <3> QED BY <3>1, <3>2 DEF g
  <2>9. 0 \in G
    BY <1>1, <2>7, <2>8
  <2>10. ASSUME NEW i \in G PROVE i + 1 \in G
    <3> SUFFICES ASSUME (i + 1) + 1 <= n
                 PROVE  flat[(i + 1) + 1] = p[(i + 1) + 1]
      OBVIOUS
    <3>1. /\ (i + 1) + 1 \in 1..n /\ (i + 1) + 1 # 1
          /\ ((i + 1) + 1) - 1 = i + 1 /\ flat[i + 1] = p[i + 1]
      BY <1>1
    <3> HIDE DEF G, N
    <3> QED BY <2>7, <2>8, <3>1
  <2>11. G = Nat
    <3>1. G \in SUBSET Nat
      OBVIOUS
    <3> HIDE DEF G
    <3> QED BY <2>9, <2>10, <3>1, SetInduction
  <2>12. flat[n] = p[n]
    <3>1. n - 1 \in G /\ (n - 1) + 1 = n /\ n <= n
      <4> HIDE DEF n, G
      <4> QED BY <1>1, <1>7, <2>11
    <3> HIDE DEF N, n
    <3> QED BY <3>1
  <2> QED BY <1>5, <2>6, <2>12
<1> QED BY <1>6, <1>7

LEMMA FlattenNone == FlattenSeq(<<>>) = <<>>
BY DEF FlattenSeq

LEMMA FlattenAppend ==
    ASSUME NEW K, NEW seqs, seqs \in Seq(Seq(K)), NEW x, x \in Seq(K)
    PROVE  /\ FlattenSeq(seqs) \in Seq(K)
           /\ FlattenSeq(Append(seqs, x)) = FlattenSeq(seqs) \o x
<1> DEFINE n == Len(seqs)
           X == Seq(K)
           more == Append(seqs, x)
<1>1. /\ n \in Nat /\ more \in Seq(X) /\ Len(more) = n + 1 /\ more[n + 1] = x
      /\ \A i \in 1..n : more[i] = seqs[i]
  <2> HIDE DEF X
  <2>1. seqs \in Seq(X) /\ x \in X
    BY DEF X
  <2> QED BY <2>1, AppendProperties
<1>2. PICK p \in [0..n -> X] : /\ StepByStep(p, JoinStep(seqs, K), <<>>, n)
                               /\ FlattenSeq(seqs) = p[n]
  BY FlattenSteps
<1>3. PICK q \in [0..(n + 1) -> X] :
         /\ StepByStep(q, JoinStep(more, K), <<>>, n + 1)
         /\ FlattenSeq(more) = q[n + 1]
  <2>1. \E q \in [0..Len(more) -> X] :
           /\ StepByStep(q, JoinStep(more, K), <<>>, Len(more))
           /\ FlattenSeq(more) = q[Len(more)]
    <3> HIDE DEF more, n
    <3> QED BY <1>1, FlattenSteps
  <2> HIDE DEF more, X, n
  <2> QED BY <1>1, <2>1
<1>4. \A i \in 1..(n + 1) : q[i] = q[i - 1] \o more[i]
  <2> TAKE i \in 1..(n + 1)
  <2>1. q[i - 1] \in X /\ i \in 1..Len(more)
    BY <1>1
  <2>2. q[i] = JoinStep(more, K)[<<i, q[i - 1]>>]
    BY <1>3 DEF StepByStep
  <2> HIDE DEF more, n
  <2> QED BY <2>1, <2>2 DEF JoinStep
<1> HIDE DEF more
<1>5. StepByStep(q, JoinStep(seqs, K), <<>>, n)
  <2>1. ASSUME NEW i \in 1..n
        PROVE  q[i] = JoinStep(seqs, K)[<<i, q[i - 1]>>]
    <3>1. i \in 1..(n + 1) /\ q[i - 1] \in X /\ more[i] = seqs[i]
      <4> HIDE DEF n, X
      <4>1. i \in 1..(n + 1) /\ i - 1 \in 0..(n + 1)
        BY <1>1
      <4> QED BY <1>1, <4>1
    <3>2. q[i] = q[i - 1] \o seqs[i]
      BY <1>4, <3>1
    <3> QED BY <3>1, <3>2 DEF JoinStep
  <2>2. q[0] = <<>>
    BY <1>3 DEF StepByStep
  <2> QED BY <2>1, <2>2 DEF StepByStep
<1>6. q[n] = p[n]
  <2>1. n \in 0..n
    BY <1>1
  <2> DEFINE step == JoinStep(seqs, K)
  <2>2. StepByStep(q, step, <<>>, n) /\ StepByStep(p, step, <<>>, n)
    BY <1>2, <1>5
  <2> HIDE DEF n, step, X
  <2>3. \A i \in 0..n : q[i] = p[i]
    BY <1>1, <2>2, StepsAgree
  <2> QED BY <2>1, <2>3
<1>7. q[n + 1] = q[n] \o more[n + 1]
  <2>1. n + 1 \in 1..(n + 1) /\ (n + 1) - 1 = n
    BY <1>1
  <2> QED BY <1>4, <2>1
<1> QED BY <1>1, <1>2, <1>3, <1>6, <1>7 DEF more
=============================================================================
