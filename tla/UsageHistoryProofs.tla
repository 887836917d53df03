--------------------------- MODULE UsageHistoryProofs ---------------------------
(***************************************************************************)
(* The usage history is exact for any number of observer windows and of    *)
(* reservations, any resolution and any length of the window.              *)
(*                                                                         *)
(* A recursive function is a CHOOSE: what the code's sum, merge and search *)
(* compute is known once a function with their equations exists, which is  *)
(* proved here by induction on a measure (a least counterexample), for a   *)
(* set in the place of a predicate.  Then the merge keeps its intervals    *)
(* apart and in order, so that the search by halving finds the one that    *)
(* covers a time; between two points nothing changes; and the sums of the  *)
(* slices are the sizes of sets of units that are apart.                   *)
(***************************************************************************)
EXTENDS UsageHistory, FiniteSetTheorems, TLAPS

(* Induction over the naturals, for a set. *)
LEMMA FirstOf == ASSUME NEW S \in SUBSET Nat, S # {} PROVE \E x \in S : \A y \in S : x <= y
<1>1. \E x \in S : \A y \in S : ~ (<<y, x>> \in OpToRel(<, Nat))
  BY WFMin, NatLessThanWellFounded
<1>2. PICK x \in S : \A y \in S : ~ (y < x)
  BY <1>1 DEF OpToRel
<1> QED
  BY <1>2

LEMMA CountUp ==
    ASSUME NEW T, 0 \in T, \A n \in Nat : n \in T => n + 1 \in T
    PROVE  Nat \subseteq T
<1> SUFFICES ASSUME Nat \ T # {} PROVE FALSE
  OBVIOUS
<1>1. PICK x \in Nat \ T : \A y \in Nat \ T : x <= y
  BY FirstOf
<1>2. x - 1 \in Nat /\ x - 1 \notin Nat \ T
  BY <1>1
<1> QED
  BY <1>1, <1>2

(* A function that is defined by recursion on a bounded measure exists. *)
Measured(D, m, bound) == m \in [D -> Nat] /\ bound \in Nat /\ \A x \in D : m[x] <= bound
Grounded(D, V, m, step) ==
    /\ step \in [D -> [[D -> V] -> V]]
    /\ \A x \in D : \A g, h \in [D -> V] :
           (\A y \in D : m[y] < m[x] => g[y] = h[y]) => step[x][g] = step[x][h]

LEMMA RecursionExists ==
    ASSUME NEW D, NEW V, V # {}, NEW m, NEW N, Measured(D, m, N), NEW step, Grounded(D, V, m, step)
    PROVE  \E f \in [D -> V] : \A x \in D : f[x] = step[x][f]
<1> USE DEF Measured, Grounded
<1> DEFINE Upto(f, n) == \A x \in D : m[x] < n => f[x] = step[x][f]
           T == {n \in Nat : \E f \in [D -> V] : Upto(f, n)}
<1>1. 0 \in T
  <2>1. PICK v \in V : TRUE
    OBVIOUS
  <2>2. [x \in D |-> v] \in [D -> V] /\ Upto([x \in D |-> v], 0)
    OBVIOUS
  <2> QED
    BY <2>2
<1>2. ASSUME NEW n \in Nat, n \in T PROVE n + 1 \in T
  <2>1. PICK f \in [D -> V] : Upto(f, n)
    BY <1>2
  <2> DEFINE g == [x \in D |-> step[x][f]]
  <2>2. g \in [D -> V]
    OBVIOUS
  <2>3. ASSUME NEW x \in D, m[x] < n + 1 PROVE g[x] = step[x][g]
    <3>1. ASSUME NEW y \in D, m[y] < m[x] PROVE f[y] = g[y]
      <4>1. m[y] < n
        BY <2>3, <3>1
      <4> QED
        BY <2>1, <4>1
    <3>2. step[x][f] = step[x][g]
      <4> HIDE DEF g
      <4> QED
        BY <2>1, <2>2, <3>1
    <3>3. g[x] = step[x][f]
      OBVIOUS
    <3> HIDE DEF g
    <3> QED
      BY <3>2, <3>3
  <2> HIDE DEF g
  <2>4. Upto(g, n + 1)
    BY <2>3
  <2> QED
    BY <2>2, <2>4
<1>3. N + 1 \in T
  BY <1>1, <1>2, CountUp
<1>4. PICK f \in [D -> V] : Upto(f, N + 1)
  BY <1>3
<1>5. ASSUME NEW x \in D PROVE f[x] = step[x][f]
  BY <1>4
<1> QED
  BY <1>5

(* Induction over the subsets of a finite set. *)
Grows(C, P) == \A T \in SUBSET C : (\A x \in T : T \ {x} \in P) => T \in P

LEMMA SubsetInduction ==
    ASSUME NEW C, IsFiniteSet(C), NEW P, Grows(C, P)
    PROVE  SUBSET C \subseteq P
<1> USE DEF Grows
<1> DEFINE Q == {n \in Nat : \A T \in SUBSET C : Cardinality(T) = n => T \in P}
<1>1. \A T \in SUBSET C : IsFiniteSet(T) /\ Cardinality(T) \in Nat
  BY FS_Subset, FS_CardinalityType
<1>2. 0 \in Q
  BY <1>1, FS_EmptySet
<1>3. ASSUME NEW n \in Nat, n \in Q PROVE n + 1 \in Q
  <2>1. ASSUME NEW T \in SUBSET C, Cardinality(T) = n + 1, NEW x \in T PROVE T \ {x} \in P
    <3>1. Cardinality(T \ {x}) = n
      BY <1>1, <2>1, FS_RemoveElement
    <3> QED
      BY <1>3, <3>1
  <2> QED
    BY <2>1
<1>4. Nat \subseteq Q
  BY <1>2, <1>3, CountUp
<1> QED
  BY <1>1, <1>4

(* A fold over a finite set, whatever element it picks, is well defined. *)
Picks(C, pick) == \A T \in SUBSET C : T # {} => pick[T] \in T
Folds(C, V, base, op) == base \in V /\ op \in [C -> [V -> V]]
Folded(C, base, op, pick, g) ==
    \A T \in SUBSET C : g[T] = IF T = {} THEN base ELSE op[pick[T]][g[T \ {pick[T]}]]

LEMMA FoldExists ==
    ASSUME NEW C, IsFiniteSet(C), NEW V, NEW base, NEW op, Folds(C, V, base, op), NEW pick, Picks(C, pick)
    PROVE  \E g \in [SUBSET C -> V] : Folded(C, base, op, pick, g)
<1> USE DEF Folds
<1> DEFINE D == SUBSET C
           m == [T \in D |-> Cardinality(T)]
           value(T, g) == IF T = {} THEN base ELSE op[pick[T]][g[T \ {pick[T]}]]
           step == [T \in D |-> [g \in [D -> V] |-> value(T, g)]]
<1>1. ASSUME NEW T \in D, T # {}
      PROVE  pick[T] \in C /\ T \ {pick[T]} \in D /\ m[T \ {pick[T]}] < m[T]
  <2>1. pick[T] \in T
    BY <1>1 DEF Picks
  <2>2. IsFiniteSet(T) /\ Cardinality(T) \in Nat
    BY FS_Subset, FS_CardinalityType
  <2>3. Cardinality(T \ {pick[T]}) = Cardinality(T) - 1
    BY <2>1, <2>2, FS_RemoveElement
  <2> QED
    BY <2>1, <2>2, <2>3
<1>2. Measured(D, m, Cardinality(C))
  BY FS_Subset, FS_CardinalityType DEF Measured
<1> HIDE DEF m
<1>4. ASSUME NEW T \in D, NEW g \in [D -> V] PROVE value(T, g) \in V
  <2>1. CASE T = {}
    BY <2>1
  <2>2. CASE T # {}
    <3>1. g[T \ {pick[T]}] \in V /\ op[pick[T]] \in [V -> V]
      BY <1>1, <2>2
    <3>2. op[pick[T]][g[T \ {pick[T]}]] \in V
      BY <3>1
    <3> QED
      BY <3>2, <2>2
  <2> QED
    BY <2>1, <2>2
<1>5. ASSUME NEW T \in D, NEW g \in [D -> V], NEW h \in [D -> V],
             \A U \in D : m[U] < m[T] => g[U] = h[U]
      PROVE  value(T, g) = value(T, h)
  BY <1>1, <1>5
<1> HIDE DEF value
<1>6. step \in [D -> [[D -> V] -> V]] /\ \A T \in D, g \in [D -> V] : step[T][g] = value(T, g)
  BY <1>4
<1> HIDE DEF step
<1>7. Grounded(D, V, m, step)
  <2>1. ASSUME NEW T \in D, NEW g \in [D -> V], NEW h \in [D -> V],
               \A U \in D : m[U] < m[T] => g[U] = h[U]
        PROVE  step[T][g] = step[T][h]
    <3>1. value(T, g) = value(T, h)
      BY <1>5, <2>1
    <3> QED
      BY <1>6, <3>1
  <2> QED
    BY <1>6, <2>1 DEF Grounded
<1>8. \E g \in [D -> V] : \A T \in D : g[T] = step[T][g]
  <2>1. V # {}
    OBVIOUS
  <2> HIDE DEF D
  <2> QED
    BY <1>2, <1>7, <2>1, RecursionExists
<1>9. PICK g \in [D -> V] : \A T \in D : g[T] = step[T][g]
  BY <1>8
<1>10. \A T \in D : g[T] = value(T, g)
  BY <1>6, <1>9
<1> QED
  BY <1>10 DEF value, D, Folded

(* The sum of a function over a finite set. *)
Adds(C, f, sum) ==
    /\ sum \in [SUBSET C -> Int]
    /\ sum[{}] = 0 /\ sum[C] = SumFunction(f)
    /\ \A T \in SUBSET C : T # {} => \E x \in T : sum[T] = f[x] + sum[T \ {x}]

LEMMA SumRecursion ==
    ASSUME NEW C, IsFiniteSet(C), NEW f, f \in [C -> Int]
    PROVE  \E sum : Adds(C, f, sum)
<1> DEFINE iter[s \in SUBSET C] == IF s = {} THEN 0 ELSE LET x == CHOOSE x \in s : TRUE IN f[x] + iter[s \ {x}]
           pick == [s \in SUBSET C |-> CHOOSE x \in s : TRUE]
           op == [x \in C |-> [v \in Int |-> f[x] + v]]
           Def(g) == [s \in SUBSET C |-> IF s = {} THEN 0 ELSE LET x == CHOOSE x \in s : TRUE IN f[x] + g[s \ {x}]]
<1>1. SumFunction(f) = iter[C]
  BY DEF SumFunction, SumFunctionOnSet, FoldFunctionOnSet, MapThenFoldSet
<1>2. Picks(C, pick)
  BY DEF Picks
<1>3. Folds(C, Int, 0, op)
  BY DEF Folds
<1>4. PICK g \in [SUBSET C -> Int] : Folded(C, 0, op, pick, g)
  <2> HIDE DEF op, pick
  <2> QED
    BY <1>2, <1>3, FoldExists
<1>5. ASSUME NEW T \in SUBSET C, T # {} PROVE g[T] = f[pick[T]] + g[T \ {pick[T]}]
  <2> HIDE DEF pick
  <2>1. pick[T] \in C /\ g[T \ {pick[T]}] \in Int
    BY <1>2, <1>5 DEF Picks
  <2> QED
    BY <1>4, <1>5, <2>1 DEF Folded
<1>6. g = Def(g)
  BY <1>4, <1>5 DEF Folded
<1>7. \E h : h = Def(h)
  BY <1>6
<1>8. iter = Def(iter)
  BY <1>7, Zenon
<1> HIDE DEF iter
<1>9. \A T \in SUBSET C : T # {} => pick[T] \in T /\ iter[T] = f[pick[T]] + iter[T \ {pick[T]}]
  BY <1>2, <1>8 DEF Picks
<1>10. iter[{}] = 0
  BY <1>8
<1> HIDE DEF pick
<1>11. \A T \in SUBSET C : iter[T] \in Int
  <2> DEFINE P == {T \in SUBSET C : iter[T] \in Int}
  <2>1. ASSUME NEW T \in SUBSET C, \A x \in T : T \ {x} \in P PROVE T \in P
    <3>1. CASE T = {}
      BY <1>10, <3>1
    <3>2. CASE T # {}
      <4>1. pick[T] \in T /\ iter[T] = f[pick[T]] + iter[T \ {pick[T]}]
        BY <1>9, <3>2
      <4>2. iter[T \ {pick[T]}] \in Int
        BY <2>1, <4>1
      <4> QED
        BY <4>1, <4>2
    <3> QED
      BY <3>1, <3>2
  <2> HIDE DEF P
  <2>2. Grows(C, P)
    BY <2>1 DEF Grows
  <2>3. SUBSET C \subseteq P
    BY <2>2, SubsetInduction
  <2> QED
    BY <2>3 DEF P
<1>12. iter \in [SUBSET C -> Int]
  BY <1>8, <1>11
<1>13. \A T \in SUBSET C : T # {} => \E x \in T : iter[T] = f[x] + iter[T \ {x}]
  BY <1>9
<1>14. Adds(C, f, iter)
  BY <1>1, <1>10, <1>12, <1>13, Zenon DEF Adds
<1> QED
  BY <1>14

(* The sizes of disjoint sets add up to that of their union. *)
Apart(C, slice) == \A c, d \in C : c # d => slice[c] \cap slice[d] = {}
Together(C, slice) == UNION {slice[c] : c \in C}

LEMMA SumIsCount ==
    ASSUME NEW C, IsFiniteSet(C), NEW f \in [C -> Int], NEW slice, Apart(C, slice),
           \A c \in C : IsFiniteSet(slice[c]) /\ f[c] = Cardinality(slice[c])
    PROVE  SumFunction(f) = Cardinality(Together(C, slice))
<1>1. PICK sum : Adds(C, f, sum)
  BY SumRecursion
<1> USE DEF Adds
<1> DEFINE P == {T \in SUBSET C : /\ IsFiniteSet(Together(T, slice))
                                 /\ sum[T] = Cardinality(Together(T, slice))}
<1>2. ASSUME NEW T \in SUBSET C, \A x \in T : T \ {x} \in P PROVE T \in P
  <2>1. CASE T = {}
    <3>1. Together(T, slice) = {}
      BY <2>1 DEF Together
    <3> QED
      BY <1>1, <2>1, <3>1, FS_EmptySet
  <2>2. CASE T # {}
    <3>1. PICK x \in T : sum[T] = f[x] + sum[T \ {x}]
      BY <1>1, <2>2
    <3> DEFINE rest == Together(T \ {x}, slice)
    <3>2. IsFiniteSet(rest) /\ sum[T \ {x}] = Cardinality(rest)
      BY <1>2
    <3>3. Together(T, slice) = rest \cup slice[x] /\ rest \cap slice[x] = {}
      BY DEF Together, Apart
    <3>4. IsFiniteSet(slice[x]) /\ f[x] = Cardinality(slice[x])
      OBVIOUS
    <3> HIDE DEF rest
    <3>5. /\ IsFiniteSet(rest \cup slice[x])
          /\ Cardinality(rest \cup slice[x]) = Cardinality(rest) + Cardinality(slice[x]) - Cardinality({})
      BY <3>2, <3>3, <3>4, FS_Union
    <3>6. Cardinality({}) = 0 /\ Cardinality(rest) \in Nat /\ Cardinality(slice[x]) \in Nat
      BY <3>2, <3>4, FS_EmptySet, FS_CardinalityType
    <3>7. sum[T] = Cardinality(Together(T, slice))
      BY <3>1, <3>2, <3>3, <3>4, <3>5, <3>6
    <3> QED
      BY <3>3, <3>5, <3>7
  <2> QED
    BY <2>1, <2>2
<1> HIDE DEF P
<1>3. Grows(C, P)
  BY <1>2 DEF Grows
<1>4. SUBSET C \subseteq P
  BY <1>3, SubsetInduction
<1> QED
  BY <1>1, <1>4 DEF P
--------------------------------------------------------------------------------
(* Merging: the intervals are joined one after the other. *)

Period == [from : Nat, to : Nat]

LEMMA LastOf == ASSUME NEW n \in Nat, NEW S \in SUBSET (1..n), S # {}
                PROVE  Max(S) \in S /\ \A x \in S : x <= Max(S)
<1> DEFINE R == {k \in Nat : n - k \in S}
<1>1. R # {}
  <2>1. PICK x \in S : TRUE
    OBVIOUS
  <2>2. n - x \in R
    BY <2>1
  <2> QED
    BY <2>2
<1>2. PICK k \in R : \A j \in R : k <= j
  BY <1>1, FirstOf
<1>3. ASSUME NEW x \in S PROVE n - k >= x
  <2>1. n - x \in R
    OBVIOUS
  <2> QED
    BY <1>2, <2>1
<1>4. n - k \in S
  OBVIOUS
<1>5. \E m \in S : \A x \in S : m >= x
  BY <1>3, <1>4
<1>6. Max(S) \in S /\ \A x \in S : Max(S) >= x
  BY <1>5, Zenon DEF Max
<1> QED
  BY <1>6

LEMMA JoinTyped == ASSUME NEW r \in Seq(Period), NEW i \in Period PROVE Join(r, i) \in Seq(Period)
<1>1. CASE r # <<>> /\ i.from <= Last(r).to
  <2>1. Len(r) \in 1..Len(r) /\ r[Len(r)] \in Period
    BY <1>1
  <2>2. [r[Len(r)] EXCEPT !.to = Larger(@, i.to)] \in Period
    BY <2>1 DEF Larger, Period
  <2> QED
    BY <1>1, <2>1, <2>2 DEF Join
<1>2. CASE ~(r # <<>> /\ i.from <= Last(r).to)
  BY <1>2 DEF Join
<1> QED
  BY <1>1, <1>2

(* What is joined after i intervals. *)
Joins(s, r) ==
    /\ r \in [0..Len(s) -> Seq(Period)]
    /\ r[0] = <<>> /\ r[Len(s)] = FoldLeft(Join, <<>>, s)
    /\ \A i \in 1..Len(s) : r[i] = Join(r[i - 1], s[i])

LEMMA JoinRecursion == ASSUME NEW s, s \in Seq(Period) PROVE \E r : Joins(s, r)
<1> DEFINE C == DOMAIN s
           iter[S \in SUBSET C] == IF S = {} THEN <<>> ELSE LET x == Max(S) IN Join(iter[S \ {x}], s[x])
           pick == [S \in SUBSET C |-> Max(S)]
           op == [x \in C |-> [v \in Seq(Period) |-> Join(v, s[x])]]
           Def(g) == [S \in SUBSET C |-> IF S = {} THEN <<>> ELSE LET x == Max(S) IN Join(g[S \ {x}], s[x])]
<1>1. FoldLeft(Join, <<>>, s) = iter[C]
  BY DEF FoldLeft, MapThenFoldSet
<1>2. C = 1..Len(s) /\ Len(s) \in Nat /\ IsFiniteSet(C)
  BY FS_Interval
<1>3. Picks(C, pick)
  BY <1>2, LastOf DEF Picks
<1>4. Folds(C, Seq(Period), <<>>, op)
  <2>1. ASSUME NEW x \in C, NEW v \in Seq(Period) PROVE Join(v, s[x]) \in Seq(Period)
    BY <1>2, JoinTyped
  <2> QED
    BY <2>1 DEF Folds
<1>5. PICK g \in [SUBSET C -> Seq(Period)] : Folded(C, <<>>, op, pick, g)
  <2> HIDE DEF op, pick
  <2> QED
    BY <1>2, <1>3, <1>4, FoldExists
<1>6. ASSUME NEW T \in SUBSET C, T # {} PROVE g[T] = Join(g[T \ {pick[T]}], s[pick[T]])
  <2> HIDE DEF pick
  <2>1. pick[T] \in C /\ g[T \ {pick[T]}] \in Seq(Period)
    BY <1>3, <1>6 DEF Picks
  <2> QED
    BY <1>5, <1>6, <2>1 DEF Folded
<1>7. g = Def(g)
  BY <1>5, <1>6 DEF Folded
<1>8. \E h : h = Def(h)
  BY <1>7
<1>9. iter = Def(iter)
  BY <1>8, Zenon
<1> HIDE DEF iter
<1>10. iter[{}] = <<>>
  BY <1>9
<1>11. ASSUME NEW i \in 1..Len(s) PROVE iter[1..i] = Join(iter[1..(i - 1)], s[i])
  <2>1. (1..i) \in SUBSET C /\ 1..i # {}
    BY <1>2
  <2>2. Max(1..i) = i
    <3>1. i \in Nat /\ (1..i) \in SUBSET (1..i) /\ i \in 1..i
      BY <1>2
    <3>2. Max(1..i) \in 1..i /\ \A x \in 1..i : x <= Max(1..i)
      BY <3>1, LastOf
    <3> QED
      BY <3>1, <3>2
  <2>3. (1..i) \ {i} = 1..(i - 1)
    BY <1>2
  <2>4. iter[1..i] = Join(iter[(1..i) \ {Max(1..i)}], s[Max(1..i)])
    BY <1>9, <2>1
  <2> QED
    BY <2>2, <2>3, <2>4
<1>12. \A i \in 0..Len(s) : iter[1..i] \in Seq(Period)
  <2> DEFINE T == {i \in Nat : i <= Len(s) => iter[1..i] \in Seq(Period)}
  <2>1. 1..0 = {}
    OBVIOUS
  <2>2. 0 \in T
    <3>1. iter[1..0] = <<>>
      BY <1>10, <2>1
    <3>2. <<>> \in Seq(Period)
      OBVIOUS
    <3>3. iter[1..0] \in Seq(Period)
      BY <3>1, <3>2, Zenon
    <3> QED
      BY <3>3
  <2>3. ASSUME NEW i \in Nat, i \in T PROVE i + 1 \in T
    <3>1. CASE i + 1 <= Len(s)
      <4>1. i + 1 \in 1..Len(s) /\ s[i + 1] \in Period
        BY <1>2, <3>1
      <4>2. iter[1..(i + 1)] = Join(iter[1..i], s[i + 1])
        BY <1>11, <4>1
      <4>3. iter[1..i] \in Seq(Period)
        BY <1>2, <2>3, <3>1
      <4>4. Join(iter[1..i], s[i + 1]) \in Seq(Period)
        BY <4>1, <4>3, JoinTyped
      <4> QED
        BY <4>2, <4>4
    <3> QED
      BY <3>1
  <2> HIDE DEF T
  <2>4. Nat \subseteq T
    BY <2>2, <2>3, CountUp
  <2> QED
    BY <1>2, <2>4 DEF T
<1> DEFINE r == [i \in 0..Len(s) |-> iter[1..i]]
<1>13. Joins(s, r)
  <2>1. r[0] = <<>>
    BY <1>2, <1>10
  <2>2. r[Len(s)] = FoldLeft(Join, <<>>, s)
    BY <1>1, <1>2
  <2>3. \A i \in 1..Len(s) : r[i] = Join(r[i - 1], s[i])
    BY <1>2, <1>11
  <2>4. r \in [0..Len(s) -> Seq(Period)]
    BY <1>12
  <2> QED
    BY <2>1, <2>2, <2>3, <2>4 DEF Joins
<1> QED
  BY <1>13

(* What a merge keeps: its intervals are apart and in order, and cover what *)
(* the joined ones cover.                                                   *)
Covering(i, t) == i.from <= t /\ t < i.to
Inside(w, t) == \E k \in 1..Len(w) : Covering(w[k], t)
Separate(w) ==
    /\ w \in Seq(Period)
    /\ \A k \in 1..Len(w) : w[k].from < w[k].to
    /\ \A j, k \in 1..Len(w) : j < k => w[j].to < w[k].from

LEMMA SeparateTimes ==
    ASSUME NEW w, Separate(w)
    PROVE  /\ Len(w) \in Nat
           /\ \A k \in 1..Len(w) : w[k].from \in Nat /\ w[k].to \in Nat /\ w[k].from < w[k].to
<1>1. w \in Seq(Period) /\ Len(w) \in Nat
  BY DEF Separate
<1>2. ASSUME NEW k \in 1..Len(w) PROVE w[k].from \in Nat /\ w[k].to \in Nat /\ w[k].from < w[k].to
  <2>1. w[k] \in Period
    BY <1>1
  <2> QED
    BY <2>1 DEF Period, Separate
<1> QED
  BY <1>1, <1>2

LEMMA JoinSeparates ==
    ASSUME NEW r, Separate(r), NEW i \in Period, i.from < i.to, r # <<>> => Last(r).from <= i.from
    PROVE  /\ Separate(Join(r, i)) /\ Join(r, i) # <<>> /\ Last(Join(r, i)).from <= i.from
           /\ \A t \in Nat : Inside(Join(r, i), t) <=> Inside(r, t) \/ Covering(i, t)
<1> DEFINE n == Len(r)
<1>1. r \in Seq(Period) /\ n \in Nat /\ Join(r, i) \in Seq(Period)
  BY JoinTyped DEF Separate
<1>2. CASE r # <<>> /\ i.from <= Last(r).to
  <2> DEFINE longer == [r[n] EXCEPT !.to = Larger(@, i.to)]
  <2>1. n \in 1..n /\ r[n] \in Period /\ Last(r) = r[n]
    BY <1>1, <1>2 DEF Last
  <2>2. longer.from = r[n].from /\ longer.to \in Nat /\ longer.to >= r[n].to /\ longer.to >= i.to
        /\ (longer.to = r[n].to \/ longer.to = i.to)
    BY <2>1 DEF Larger, Period
  <2>3. Join(r, i) = [r EXCEPT ![n] = longer]
    BY <1>2 DEF Join
  <2> HIDE DEF longer
  <2>4. /\ Len(Join(r, i)) = n /\ Join(r, i)[n] = longer
        /\ \A k \in 1..n : k # n => Join(r, i)[k] = r[k]
    BY <1>1, <2>1, <2>3
  <2>5. \A k \in 1..n : r[k].from \in Nat /\ r[k].to \in Nat /\ r[k].from < r[k].to
    BY SeparateTimes
  <2>6. Separate(Join(r, i))
    <3> DEFINE w == Join(r, i)
    <3>1. ASSUME NEW k \in 1..n PROVE w[k].from < w[k].to
      BY <2>1, <2>2, <2>4, <2>5
    <3>2. ASSUME NEW j \in 1..n, NEW k \in 1..n, j < k PROVE w[j].to < w[k].from
      <4>1. j # n /\ r[j].to < r[k].from
        BY <1>1, <3>2 DEF Separate
      <4> QED
        BY <2>2, <2>4, <4>1
    <3> QED
      BY <1>1, <2>4, <3>1, <3>2 DEF Separate
  <2>7. Join(r, i) # <<>> /\ Last(Join(r, i)).from <= i.from
    BY <1>1, <1>2, <2>1, <2>2, <2>4 DEF Last
  <2>8. ASSUME NEW t \in Nat PROVE Covering(longer, t) <=> Covering(r[n], t) \/ Covering(i, t)
    BY <1>2, <2>1, <2>2 DEF Covering, Period
  <2>9. ASSUME NEW t \in Nat PROVE Inside(Join(r, i), t) <=> Inside(r, t) \/ Covering(i, t)
    BY <2>1, <2>4, <2>8 DEF Inside
  <2> QED
    BY <2>6, <2>7, <2>9
<1>3. CASE ~(r # <<>> /\ i.from <= Last(r).to)
  <2>1. Join(r, i) = Append(r, i)
    BY <1>3 DEF Join
  <2>2. /\ Len(Join(r, i)) = n + 1 /\ Join(r, i)[n + 1] = i
        /\ \A k \in 1..n : Join(r, i)[k] = r[k]
    BY <1>1, <2>1
  <2>3. \A k \in 1..n : r[k].from \in Nat /\ r[k].to \in Nat /\ r[k].from < r[k].to
    BY SeparateTimes
  <2>4. ASSUME n # 0 PROVE n \in 1..n /\ r[n].to < i.from
    <3>1. n \in 1..n /\ r # <<>>
      BY <1>1, <2>4
    <3>2. ~(i.from <= r[n].to)
      BY <1>3, <3>1 DEF Last
    <3>3. r[n].to \in Nat /\ i.from \in Nat
      BY <2>3, <3>1 DEF Period
    <3> QED
      BY <3>1, <3>2, <3>3
  <2>5. \A k \in 1..n : r[k].to < i.from
    <3>1. ASSUME NEW k \in 1..n, k # n PROVE r[k].to < i.from
      <4>1. n \in 1..n /\ k < n
        BY <1>1, <3>1
      <4>2. r[k].to < r[n].from
        BY <4>1 DEF Separate
      <4> QED
        BY <2>3, <2>4, <4>1, <4>2 DEF Period
    <3> QED
      BY <2>4, <3>1
  <2>6. Separate(Join(r, i))
    <3> DEFINE w == Join(r, i)
    <3>1. ASSUME NEW k \in 1..(n + 1) PROVE w[k].from < w[k].to
      BY <1>1, <2>2, <2>3, SMTT(30)
    <3>2. ASSUME NEW j \in 1..(n + 1), NEW k \in 1..(n + 1), j < k PROVE w[j].to < w[k].from
      <4>1. CASE k = n + 1
        BY <1>1, <2>2, <2>5, <3>2, <4>1
      <4>2. CASE k # n + 1
        <5>1. j \in 1..n /\ k \in 1..n
          BY <1>1, <3>2, <4>2
        <5> QED
          BY <2>2, <3>2, <5>1 DEF Separate
      <4> QED
        BY <4>1, <4>2
    <3> QED
      BY <1>1, <2>2, <3>1, <3>2 DEF Separate
  <2>7. Join(r, i) # <<>> /\ Last(Join(r, i)).from <= i.from
    BY <1>1, <2>2 DEF Last, Period
  <2>8. ASSUME NEW t \in Nat PROVE Inside(Join(r, i), t) <=> Inside(r, t) \/ Covering(i, t)
    BY <1>1, <2>2 DEF Inside
  <2> QED
    BY <2>6, <2>7, <2>8
<1> QED
  BY <1>2, <1>3

LEMMA FoldSeparates ==
    ASSUME NEW s, s \in Seq(Period), \A k \in 1..Len(s) : s[k].from < s[k].to,
           \A j, k \in 1..Len(s) : j < k => s[j].from <= s[k].from
    PROVE  /\ Separate(FoldLeft(Join, <<>>, s))
           /\ \A t \in Nat : Inside(FoldLeft(Join, <<>>, s), t) <=> Inside(s, t)
<1>1. PICK r : Joins(s, r)
  BY JoinRecursion
<1> DEFINE Merged(i) ==
               /\ Separate(r[i])
               /\ i > 0 => r[i] # <<>> /\ Last(r[i]).from <= s[i].from
               /\ i = 0 => r[i] = <<>>
               /\ \A t \in Nat : Inside(r[i], t) <=> \E k \in 1..i : Covering(s[k], t)
           T == {i \in Nat : i <= Len(s) => Merged(i)}
<1>2. Len(s) \in Nat /\ \A k \in 1..Len(s) : s[k] \in Period /\ s[k].from \in Nat
  <2>1. ASSUME NEW k \in 1..Len(s) PROVE s[k] \in Period
    OBVIOUS
  <2> QED
    BY <2>1 DEF Period
<1>3. 0 \in T
  <2>1. r[0] = <<>>
    BY <1>1 DEF Joins
  <2>2. Separate(<<>>) /\ \A t \in Nat : ~Inside(<<>>, t)
    BY DEF Separate, Inside
  <2>3. Merged(0)
    BY <2>1, <2>2
  <2> QED
    BY <2>3
<1>4. ASSUME NEW i \in Nat, i \in T PROVE i + 1 \in T
  <2> SUFFICES ASSUME i + 1 <= Len(s) PROVE Merged(i + 1)
    OBVIOUS
  <2>1. Merged(i) /\ i + 1 \in 1..Len(s)
    BY <1>2, <1>4
  <2>2. r[i + 1] = Join(r[i], s[i + 1])
    BY <1>1, <2>1, SMTT(30) DEF Joins
  <2>3. r[i] # <<>> => Last(r[i]).from <= s[i + 1].from
    <3>1. CASE i > 0
      <4>1. i \in 1..Len(s) /\ s[i].from <= s[i + 1].from
        BY <1>2, <2>1, <3>1
      <4>2. Last(r[i]).from <= s[i].from /\ Last(r[i]).from \in Nat
        <5>1. Len(r[i]) \in 1..Len(r[i])
          BY <2>1, <3>1, SeparateTimes DEF Separate
        <5> QED
          BY <2>1, <3>1, <5>1, SeparateTimes DEF Last
      <4> QED
        BY <1>2, <2>1, <4>1, <4>2
    <3>2. CASE ~(i > 0)
      BY <2>1, <3>2
    <3> QED
      BY <3>1, <3>2
  <2>4. /\ Separate(Join(r[i], s[i + 1])) /\ Join(r[i], s[i + 1]) # <<>>
        /\ Last(Join(r[i], s[i + 1])).from <= s[i + 1].from
        /\ \A t \in Nat : Inside(Join(r[i], s[i + 1]), t) <=> Inside(r[i], t) \/ Covering(s[i + 1], t)
    BY <1>2, <2>1, <2>3, JoinSeparates
  <2>5. \A t \in Nat : Inside(r[i + 1], t) <=> \E k \in 1..(i + 1) : Covering(s[k], t)
    BY <2>1, <2>2, <2>4
  <2> QED
    BY <2>2, <2>4, <2>5
<1> HIDE DEF T
<1>5. Nat \subseteq T
  BY <1>3, <1>4, CountUp
<1>6. Merged(Len(s))
  BY <1>2, <1>5 DEF T
<1>7. r[Len(s)] = FoldLeft(Join, <<>>, s)
  BY <1>1 DEF Joins
<1> QED
  BY <1>6, <1>7 DEF Inside
--------------------------------------------------------------------------------
(* Sorting: a finite set of intervals can be put in order. *)

InOrder(S, s) == s \in SetToSeqs(S) /\ \A i, j \in DOMAIN s : i < j => s[i].from <= s[j].from

LEMMA SortedIsInOrder ==
    ASSUME NEW S, IsFiniteSet(S), S \subseteq Period
    PROVE  InOrder(S, Sorted(S))
<1> DEFINE P == {T \in SUBSET S : \E s : InOrder(T, s)}
<1>1. ASSUME NEW T \in SUBSET S, \A x \in T : T \ {x} \in P PROVE \E s : InOrder(T, s)
  <2>1. IsFiniteSet(T) /\ Cardinality(T) \in Nat
    BY FS_Subset, FS_CardinalityType
  <2>2. CASE T = {}
    <3>1. Cardinality(T) = 0
      BY <2>2, FS_EmptySet
    <3>2. InOrder(T, [i \in 1..0 |-> 0])
      BY <2>2, <3>1 DEF InOrder, SetToSeqs
    <3> QED
      BY <3>2
  <2>3. CASE T # {}
    <3> DEFINE begins == {x.from : x \in T}
    <3>1. begins \in SUBSET Nat /\ begins # {}
      BY <2>3 DEF Period
    <3>2. PICK b \in begins : \A c \in begins : b <= c
      BY <3>1, FirstOf
    <3>3. PICK x \in T : x.from = b
      BY <3>2
    <3>4. \A y \in T : x.from <= y.from
      BY <3>2, <3>3
    <3>5. PICK s : InOrder(T \ {x}, s)
      BY <1>1
    <3>6. PICK n \in Nat : n = Cardinality(T \ {x}) /\ Cardinality(T) = n + 1
      <4>1. /\ Cardinality(T \ {x}) = Cardinality(T) - 1 /\ IsFiniteSet(T \ {x})
        BY <2>1, FS_RemoveElement
      <4>2. Cardinality(T \ {x}) \in Nat
        BY <4>1, FS_CardinalityType
      <4> QED
        BY <2>1, <4>1, <4>2
    <3>7. s \in [1..n -> T \ {x}] /\ \A i, j \in 1..n : i # j => s[i] # s[j]
      BY <3>5, <3>6 DEF InOrder, SetToSeqs
    <3> DEFINE longer == [k \in 1..(n + 1) |-> IF k = 1 THEN x ELSE s[k - 1]]
    <3>8. ASSUME NEW k \in 2..(n + 1)
          PROVE  k - 1 \in 1..n /\ longer[k] = s[k - 1] /\ s[k - 1] \in T \ {x}
      <4>1. k - 1 \in 1..n /\ k \in 1..(n + 1)
        OBVIOUS
      <4> QED
        BY <3>7, <4>1
    <3>9. longer[1] = x /\ DOMAIN longer = 1..(n + 1)
      OBVIOUS
    <3>10. longer \in [1..(n + 1) -> T]
      <4>1. ASSUME NEW k \in 1..(n + 1) PROVE longer[k] \in T
        <5>1. k = 1 \/ k \in 2..(n + 1)
          OBVIOUS
        <5> HIDE DEF longer
        <5> QED
          BY <3>8, <3>9, <5>1
      <4> QED
        BY <4>1
    <3> HIDE DEF longer
    <3>11. ASSUME NEW i \in 1..(n + 1), NEW j \in 1..(n + 1), i < j
           PROVE  longer[i] # longer[j] /\ longer[i].from <= longer[j].from
      <4>1. j \in 2..(n + 1)
        BY <3>11
      <4>2. CASE i = 1
        BY <3>4, <3>8, <3>9, <4>1, <4>2
      <4>3. CASE i # 1
        <5>1. i \in 2..(n + 1)
          BY <4>3
        <5>2. i - 1 \in 1..n /\ j - 1 \in 1..n /\ i - 1 < j - 1
          BY <3>8, <3>11, <4>1, <5>1
        <5>3. s[i - 1] # s[j - 1] /\ s[i - 1].from <= s[j - 1].from
          BY <3>5, <3>7, <5>2 DEF InOrder
        <5> QED
          BY <3>8, <4>1, <5>1, <5>3
      <4> QED
        BY <4>2, <4>3
    <3>12. longer \in SetToSeqs(T)
      <4>1. \A i, j \in 1..(n + 1) : i # j => longer[i] # longer[j]
        BY <3>11
      <4> QED
        BY <3>6, <3>10, <4>1 DEF SetToSeqs
    <3>13. InOrder(T, longer)
      BY <3>10, <3>11, <3>12 DEF InOrder
    <3> QED
      BY <3>13
  <2> QED
    BY <2>2, <2>3
<1>2. Grows(S, P)
  BY <1>1 DEF Grows
<1> HIDE DEF P
<1>3. S \in P
  BY <1>2, SubsetInduction
<1>4. \E s : InOrder(S, s)
  BY <1>3 DEF P
<1>5. \E s \in SetToSeqs(S) : \A i, j \in DOMAIN s : i < j => s[i].from <= s[j].from
  BY <1>4 DEF InOrder
<1> QED
  BY <1>5, Zenon DEF Sorted, InOrder

LEMMA InOrderIsAll ==
    ASSUME NEW S, IsFiniteSet(S), NEW s, InOrder(S, s)
    PROVE  s \in Seq(S) /\ Len(s) \in Nat /\ \A x \in S : \E k \in 1..Len(s) : s[k] = x
<1> DEFINE n == Cardinality(S)
<1>1. n \in Nat
  BY FS_CardinalityType
<1>2. s \in [1..n -> S] /\ \A i, j \in 1..n : i # j => s[i] # s[j]
  BY DEF InOrder, SetToSeqs
<1>3. IsFiniteSet(1..n) /\ Cardinality(1..n) = n
  BY <1>1, FS_Interval
<1>4. s \in Injection(1..n, S)
  BY <1>2 DEF Injection, IsInjective
<1>5. s \in Surjection(1..n, S)
  BY <1>3, <1>4, FS_Injection
<1>6. \A x \in S : \E k \in 1..n : s[k] = x
  BY <1>5 DEF Surjection
<1>7. s \in Seq(S) /\ Len(s) = n
  BY <1>1, <1>2
<1> QED
  BY <1>1, <1>6, <1>7

Clipped(W, from, to) == {[from |-> Larger(from, i.from), to |-> Smaller(to, i.to)] : i \in W}

LEMMA MergeIsRight ==
    ASSUME NEW W, IsFiniteSet(W), W \subseteq Period, NEW from \in Nat, NEW to \in Nat
    PROVE  /\ Separate(MergeUsageIntervals(W, from, to))
           /\ \A t \in Nat : Inside(MergeUsageIntervals(W, from, to), t)
                             <=> from <= t /\ t < to /\ \E i \in W : Covering(i, t)
<1> DEFINE clip(i) == [from |-> Larger(from, i.from), to |-> Smaller(to, i.to)]
           S == {i \in Clipped(W, from, to) : i.to > i.from}
           s == Sorted(S)
<1>1. IsFiniteSet(Clipped(W, from, to))
  <2> DEFINE f == [i \in W |-> clip(i)]
  <2>1. f \in Surjection(W, Clipped(W, from, to))
    BY DEF Surjection, Clipped
  <2> QED
    BY <2>1, FS_Surjection
<1>2. ASSUME NEW i \in W
      PROVE  /\ clip(i) \in Period
             /\ \A t \in Nat : Covering(clip(i), t) <=> from <= t /\ t < to /\ Covering(i, t)
  <2>1. i.from \in Nat /\ i.to \in Nat
    BY DEF Period
  <2>2. clip(i).from \in Nat /\ clip(i).to \in Nat
    BY <2>1 DEF Larger, Smaller
  <2>3. ASSUME NEW t \in Nat
        PROVE  Covering(clip(i), t) <=> from <= t /\ t < to /\ Covering(i, t)
    BY <2>1 DEF Larger, Smaller, Covering
  <2> QED
    BY <2>2, <2>3 DEF Period
<1> HIDE DEF clip
<1>3. Clipped(W, from, to) = {clip(i) : i \in W}
  BY DEF Clipped, clip
<1>4. S \subseteq Period /\ IsFiniteSet(S)
  <2>1. S \in SUBSET Clipped(W, from, to)
    OBVIOUS
  <2> QED
    BY <1>1, <1>2, <1>3, <2>1, FS_Subset
<1>5. \A x \in S : x.from < x.to
  BY <1>4 DEF Period
<1> HIDE DEF S
<1>6. InOrder(S, s)
  BY <1>4, SortedIsInOrder
<1> HIDE DEF s
<1>7. s \in Seq(S) /\ Len(s) \in Nat /\ \A x \in S : \E k \in 1..Len(s) : s[k] = x
  BY <1>4, <1>6, InOrderIsAll
<1>8. DOMAIN s = 1..Len(s) /\ \A k \in 1..Len(s) : s[k] \in S
  BY <1>7
<1>9. /\ Separate(FoldLeft(Join, <<>>, s))
      /\ \A t \in Nat : Inside(FoldLeft(Join, <<>>, s), t) <=> Inside(s, t)
  <2>1. s \in Seq(Period)
    BY <1>4, <1>7
  <2>2. \A k \in 1..Len(s) : s[k].from < s[k].to
    BY <1>5, <1>8
  <2>3. \A j, k \in 1..Len(s) : j < k => s[j].from <= s[k].from
    BY <1>6, <1>8 DEF InOrder
  <2> QED
    BY <2>1, <2>2, <2>3, FoldSeparates
<1>10. MergeUsageIntervals(W, from, to) = FoldLeft(Join, <<>>, s)
  BY DEF MergeUsageIntervals, s, S, Clipped
<1>11. ASSUME NEW t \in Nat
       PROVE  Inside(s, t) <=> from <= t /\ t < to /\ \E i \in W : Covering(i, t)
  <2>1. Inside(s, t) <=> \E x \in S : Covering(x, t)
    BY <1>7, <1>8 DEF Inside
  <2>2. \A i \in W : Covering(clip(i), t) => clip(i).to > clip(i).from
    BY <1>2 DEF Covering, Period
  <2>3. (\E x \in S : Covering(x, t)) <=> \E i \in W : Covering(clip(i), t)
    BY <1>3, <2>2 DEF S
  <2> QED
    BY <1>2, <2>1, <2>3
<1> QED
  BY <1>9, <1>10, <1>11
--------------------------------------------------------------------------------
(* The search: it counts the intervals that begin at a value or before. *)
Counts(w, v, n) ==
    /\ n \in 0..Len(w)
    /\ \A k \in 1..Len(w) : w[k].from <= v <=> k <= n

LEMMA AfterCounts == ASSUME NEW w, Separate(w), NEW v \in Nat PROVE Counts(w, v, After(w, v))
<1> DEFINE L == Len(w)
           D == (0..L) \X (0..L)
           mid(range) == (range[1] + range[2]) \div 2
           half(range) == IF w[mid(range) + 1].from <= v THEN <<mid(range) + 1, range[2]>> ELSE <<range[1], mid(range)>>
           m == [range \in D |-> IF range[1] < range[2] THEN range[2] - range[1] ELSE 0]
           value(range, g) == IF range[1] >= range[2] THEN range[1] ELSE g[half(range)]
           step == [range \in D |-> [g \in [D -> 0..L] |-> value(range, g)]]
           Narrow(range) == /\ range[1] <= range[2]
                            /\ \A k \in 1..L : /\ k <= range[1] => w[k].from <= v
                                               /\ k > range[2] => v < w[k].from
<1>1. L \in Nat /\ \A k \in 1..L : w[k].from \in Nat /\ w[k].to \in Nat /\ w[k].from < w[k].to
  BY SeparateTimes
<1>2. \A j, k \in 1..L : j < k => w[j].from < w[k].from
  <2>1. ASSUME NEW j \in 1..L, NEW k \in 1..L, j < k PROVE w[j].from < w[k].from
    <3>1. w[j].to < w[k].from
      BY <2>1 DEF Separate
    <3> QED
      BY <1>1, <3>1
  <2> QED
    BY <2>1
<1>3. ASSUME NEW range \in D
      PROVE  range[1] \in 0..L /\ range[2] \in 0..L /\ m[range] \in Nat /\ m[range] <= L
  BY <1>1
<1>4. ASSUME NEW range \in D, range[1] < range[2]
      PROVE  /\ mid(range) \in 0..L /\ range[1] <= mid(range) /\ mid(range) < range[2]
             /\ half(range) \in D /\ m[half(range)] < m[range]
             /\ Narrow(range) => Narrow(half(range))
  <2>1. range[1] \in 0..L /\ range[2] \in 0..L
    BY <1>3
  <2>2. mid(range) \in 0..L /\ range[1] <= mid(range) /\ mid(range) < range[2]
    BY <1>1, <1>4, <2>1
  <2> HIDE DEF mid
  <2>3. m[range] = range[2] - range[1]
    BY <1>4
  <2>4. CASE w[mid(range) + 1].from <= v
    <3>1. half(range) = <<mid(range) + 1, range[2]>>
      BY <2>4
    <3>2. half(range) \in D /\ half(range)[1] = mid(range) + 1 /\ half(range)[2] = range[2]
      BY <1>1, <2>1, <2>2, <3>1
    <3> HIDE DEF half
    <3>3. m[half(range)] < m[range]
      BY <1>1, <2>1, <2>2, <2>3, <3>2
    <3>4. Narrow(range) => Narrow(half(range))
      BY <1>1, <1>2, <2>1, <2>2, <2>4, <3>2, SMTT(30)
    <3> QED
      BY <2>2, <3>2, <3>3, <3>4
  <2>5. CASE ~(w[mid(range) + 1].from <= v)
    <3>1. half(range) = <<range[1], mid(range)>>
      BY <2>5
    <3>2. half(range) \in D /\ half(range)[1] = range[1] /\ half(range)[2] = mid(range)
      BY <1>1, <2>1, <2>2, <3>1
    <3> HIDE DEF half
    <3>3. m[half(range)] < m[range]
      BY <1>1, <2>1, <2>2, <2>3, <3>2
    <3>4. Narrow(range) => Narrow(half(range))
      BY <1>1, <1>2, <2>1, <2>2, <2>5, <3>2, SMTT(30)
    <3> QED
      BY <2>2, <3>2, <3>3, <3>4
  <2> QED
    BY <2>4, <2>5
<1>5. Measured(D, m, L)
  BY <1>1, <1>3 DEF Measured
<1> HIDE DEF m, half, mid
<1>6. ASSUME NEW range \in D, NEW g \in [D -> 0..L] PROVE value(range, g) \in 0..L
  <2>1. CASE range[1] >= range[2]
    BY <1>3, <2>1
  <2>2. CASE ~(range[1] >= range[2])
    <3>1. half(range) \in D
      BY <1>3, <1>4, <2>2
    <3>2. g[half(range)] \in 0..L
      BY <3>1
    <3> QED
      BY <2>2, <3>2
  <2> QED
    BY <2>1, <2>2
<1>7. ASSUME NEW range \in D, NEW g \in [D -> 0..L], NEW h \in [D -> 0..L],
             \A x \in D : m[x] < m[range] => g[x] = h[x]
      PROVE  value(range, g) = value(range, h)
  <2>1. CASE range[1] >= range[2]
    BY <2>1
  <2>2. CASE ~(range[1] >= range[2])
    <3>1. half(range) \in D /\ m[half(range)] < m[range]
      BY <1>3, <1>4, <2>2
    <3>2. g[half(range)] = h[half(range)]
      BY <1>7, <3>1
    <3> QED
      BY <2>2, <3>2
  <2> QED
    BY <2>1, <2>2
<1> HIDE DEF value, D
<1>8. step \in [D -> [[D -> 0..L] -> 0..L]] /\ \A x \in D, g \in [D -> 0..L] : step[x][g] = value(x, g)
  BY <1>6
<1> HIDE DEF step
<1>9. Grounded(D, 0..L, m, step)
  <2>1. ASSUME NEW x \in D, NEW g \in [D -> 0..L], NEW h \in [D -> 0..L],
               \A y \in D : m[y] < m[x] => g[y] = h[y]
        PROVE  step[x][g] = step[x][h]
    <3>1. value(x, g) = value(x, h)
      BY <1>7, <2>1
    <3> QED
      BY <1>8, <3>1
  <2> QED
    BY <1>8, <2>1 DEF Grounded
<1>10. PICK f \in [D -> 0..L] : \A x \in D : f[x] = step[x][f]
  <2> DEFINE V == 0..L
  <2>1. V # {} /\ L \in Nat
    BY <1>1
  <2>2. Measured(D, m, L) /\ Grounded(D, V, m, step)
    BY <1>5, <1>9
  <2> HIDE DEF L, V
  <2>3. \E f \in [D -> V] : \A x \in D : f[x] = step[x][f]
    BY <2>1, <2>2, RecursionExists
  <2> QED
    BY <2>3 DEF V
<1>11. \A x \in D : f[x] = value(x, f)
  BY <1>8, <1>10
<1> DEFINE search[range \in (0..Len(w)) \X (0..Len(w))] ==
               LET low == range[1]
                   high == range[2]
                   at == (low + high) \div 2
               IN IF low >= high THEN low
                  ELSE search[IF w[at + 1].from <= v THEN <<at + 1, high>> ELSE <<low, at>>]
           Def(g) == [range \in (0..Len(w)) \X (0..Len(w)) |->
                       LET low == range[1]
                           high == range[2]
                           at == (low + high) \div 2
                       IN IF low >= high THEN low
                          ELSE g[IF w[at + 1].from <= v THEN <<at + 1, high>> ELSE <<low, at>>]]
<1>12. f = Def(f)
  BY <1>11 DEF value, half, mid, D
<1>13. \E g : g = Def(g)
  BY <1>12
<1>14. search = Def(search)
  BY <1>13, Zenon
<1>15. After(w, v) = search[<<0, L>>]
  BY DEF After
<1> HIDE DEF search
<1>16. \A x \in D : search[x] = value(x, search)
  BY <1>14 DEF value, half, mid, D
<1> HIDE DEF Def, L, Narrow
<1> DEFINE T == {n \in Nat : \A x \in D : Narrow(x) /\ m[x] < n => Counts(w, v, search[x])}
<1>17. 0 \in T
  BY <1>3
<1>18. ASSUME NEW n \in Nat, n \in T PROVE n + 1 \in T
  <2>1. ASSUME NEW x \in D, Narrow(x), m[x] < n + 1 PROVE Counts(w, v, search[x])
    <3>1. x[1] \in 0..L /\ x[2] \in 0..L
      BY <1>3
    <3>2. CASE x[1] >= x[2]
      <4>1. search[x] = x[1] /\ x[1] = x[2]
        BY <1>1, <1>16, <2>1, <3>1, <3>2 DEF value, Narrow
      <4>2. Counts(w, v, x[1])
        BY <1>1, <2>1, <3>1, <4>1 DEF Narrow, Counts, L
      <4> QED
        BY <4>1, <4>2
    <3>3. CASE ~(x[1] >= x[2])
      <4>1. x[1] < x[2]
        BY <3>1, <3>3
      <4>2. half(x) \in D /\ m[half(x)] < m[x] /\ Narrow(half(x))
        BY <1>4, <2>1, <4>1
      <4>3. m[half(x)] < n
        BY <1>3, <2>1, <4>2
      <4>4. Counts(w, v, search[half(x)])
        BY <1>18, <4>2, <4>3
      <4>5. search[x] = search[half(x)]
        BY <1>16, <3>3 DEF value
      <4> QED
        BY <4>4, <4>5
    <3> QED
      BY <3>2, <3>3
  <2> QED
    BY <2>1
<1>19. Nat \subseteq T
  <2> HIDE DEF T
  <2> QED
    BY <1>17, <1>18, CountUp
<1>20. <<0, L>> \in D /\ Narrow(<<0, L>>)
  BY <1>1 DEF Narrow, D, L
<1>21. m[<<0, L>>] \in Nat /\ m[<<0, L>>] + 1 \in Nat /\ m[<<0, L>>] < m[<<0, L>>] + 1
  BY <1>3, <1>20
<1>22. Counts(w, v, search[<<0, L>>])
  BY <1>19, <1>20, <1>21
<1> QED
  BY <1>15, <1>22

LEMMA CoversIsInside ==
    ASSUME NEW w, Separate(w), NEW t \in Nat
    PROVE  Covers(w, t) <=> Inside(w, t)
<1> DEFINE n == After(w, t)
<1>1. Counts(w, t, n)
  BY AfterCounts
<1> HIDE DEF n
<1>2. Len(w) \in Nat /\ \A k \in 1..Len(w) : w[k].from \in Nat /\ w[k].to \in Nat /\ w[k].from < w[k].to
  BY SeparateTimes
<1>3. Covers(w, t) <=> n > 0 /\ t < w[n].to
  BY DEF Covers, n
<1>4. ASSUME n > 0, t < w[n].to PROVE Inside(w, t)
  <2>1. n \in 1..Len(w)
    BY <1>1, <1>2, <1>4 DEF Counts
  <2>2. Covering(w[n], t)
    BY <1>1, <1>2, <1>4, <2>1 DEF Counts, Covering
  <2> QED
    BY <2>1, <2>2 DEF Inside
<1>5. ASSUME NEW k \in 1..Len(w), Covering(w[k], t) PROVE n > 0 /\ t < w[n].to
  <2>1. k <= n /\ n \in 1..Len(w)
    BY <1>1, <1>2, <1>5 DEF Counts, Covering
  <2>2. k = n
    <3>1. SUFFICES ASSUME k < n PROVE FALSE
      BY <1>2, <2>1
    <3>2. w[k].to < w[n].from /\ w[n].from <= t
      BY <1>1, <2>1, <3>1 DEF Separate, Counts
    <3> QED
      BY <1>2, <1>5, <2>1, <3>2 DEF Covering
  <2> QED
    BY <1>2, <1>5, <2>1, <2>2 DEF Covering
<1> QED
  BY <1>3, <1>4, <1>5 DEF Inside


(* A question that is asked: finite windows and times in the naturals. *)
Asked(q) ==
    /\ q.from \in Nat /\ q.to \in Nat /\ q.available \in Nat /\ q.now \in Nat
    /\ IsFiniteSet(q.windows) /\ q.windows \subseteq Period
    /\ \A s \in Sandbox : q.holds[s].from \in Nat /\ Released(q, s) \in Nat

LEMMA FiniteIntervals == ASSUME HistoryBounds PROVE IsFiniteSet(Interval)
<1> DEFINE pair == [i \in Interval |-> <<i.from, i.to>>]
<1>1. IsFiniteSet(Time \X Time)
  <2>1. IsFiniteSet(Time)
    BY FS_Interval DEF HistoryBounds, Time
  <2> QED
    BY <2>1, FS_Product
<1>2. pair \in Injection(Interval, Time \X Time)
  <2>1. \A i, j \in Interval : i.from = j.from /\ i.to = j.to => i = j
    BY DEF Interval
  <2>2. pair \in [Interval -> Time \X Time]
    BY DEF Interval
  <2> QED
    BY <2>1, <2>2 DEF Injection, IsInjective
<1> HIDE DEF pair
<1> QED
  BY <1>1, <1>2, FS_Injection

LEMMA QuestionIsAsked ==
    ASSUME HistoryBounds, NEW q \in Question([Sandbox -> Hold])
    PROVE  Asked(q)
<1>1. q.from \in Nat /\ q.to \in Nat /\ q.available \in Nat /\ q.now \in Nat
  BY DEF Question, HistoryBounds
<1>2. q.windows \in SUBSET Interval
  BY DEF Question
<1>3. Interval \subseteq Period
  BY DEF Interval, Period, Time, HistoryBounds
<1>4. IsFiniteSet(q.windows)
  BY <1>2, FiniteIntervals, FS_Subset
<1>5. ASSUME NEW s \in Sandbox PROVE q.holds[s].from \in Nat /\ Released(q, s) \in Nat
  <2>1. q.holds[s] \in Hold
    BY DEF Question
  <2>2. q.holds[s].from \in Nat /\ q.holds[s].to \in Nat
    BY <2>1 DEF Hold, Absent, Interval, Time, Open, HistoryBounds
  <2> QED
    BY <1>1, <2>2 DEF Released
<1> QED
  BY <1>1, <1>2, <1>3, <1>4, <1>5 DEF Asked

(* The search finds exactly the observed units of the window. *)
LEMMA CoversIsObserved ==
    ASSUME NEW q, Asked(q), NEW t \in Nat, q.from <= t, t < q.to
    PROVE  Covers(Windows(q), t) <=> Observed(q, t)
<1> DEFINE from == Larger(q.from, q.available)
           to == Smaller(q.to, q.now)
<1>1. /\ from \in Nat /\ to \in Nat
      /\ from <= t <=> q.available <= t
      /\ t < to <=> t < q.now
  BY DEF Asked, Larger, Smaller
<1>2. Windows(q) = MergeUsageIntervals(q.windows, from, to)
  BY DEF Windows
<1> HIDE DEF from, to
<1>3. /\ Separate(Windows(q))
      /\ Inside(Windows(q), t) <=> from <= t /\ t < to /\ \E i \in q.windows : Covering(i, t)
  BY <1>1, <1>2, MergeIsRight DEF Asked
<1>4. Covers(Windows(q), t) <=> Inside(Windows(q), t)
  BY <1>3, CoversIsInside
<1> QED
  BY <1>1, <1>3, <1>4 DEF Observed, Covering, Asked

LEMMA WindowsAreSeparate == ASSUME NEW q, Asked(q) PROVE Separate(Windows(q))
<1> DEFINE from == Larger(q.from, q.available)
           to == Smaller(q.to, q.now)
<1>1. /\ from \in Nat /\ to \in Nat
  BY DEF Asked, Larger, Smaller
<1>2. Windows(q) = MergeUsageIntervals(q.windows, from, to)
  BY DEF Windows
<1> HIDE DEF from, to
<1> QED
  BY <1>1, <1>2, MergeIsRight DEF Asked
--------------------------------------------------------------------------------
(* Slices: between two points that follow each other nothing changes. *)

LEMMA InUseIsHeld ==
    ASSUME NEW q, Asked(q), NEW t \in Nat, q.from <= t, t < q.to
    PROVE  InUse(q, t) = {s \in Holding(q) : From(q, s) <= t /\ t < To(q, s)}
<1>1. ASSUME NEW s \in Sandbox
      PROVE  /\ From(q, s) \in Nat /\ To(q, s) \in Nat
             /\ From(q, s) <= t <=> q.holds[s].from <= t
             /\ t < To(q, s) <=> t < Released(q, s)
  <2>1. q.holds[s].from \in Nat /\ Released(q, s) \in Nat /\ q.from \in Nat /\ q.to \in Nat
    BY DEF Asked
  <2> QED
    BY <2>1 DEF From, To, Larger, Smaller
<1>2. ASSUME NEW s \in Sandbox
      PROVE  s \in InUse(q, t) <=> s \in Holding(q) /\ From(q, s) <= t /\ t < To(q, s)
  BY <1>1 DEF InUse, Holding
<1>3. InUse(q, t) \subseteq Sandbox /\ Holding(q) \subseteq Sandbox
  BY DEF InUse, Holding
<1> QED
  BY <1>2, <1>3

LEMMA PointsAreTimes ==
    ASSUME NEW q, Asked(q)
    PROVE  /\ Points(q) \subseteq Nat /\ Starts(q) \subseteq Points(q)
           /\ q.from \in Points(q) /\ q.to \in Points(q)
           /\ \A k \in 1..Len(Windows(q)) : Windows(q)[k].from \in Points(q) /\ Windows(q)[k].to \in Points(q)
           /\ \A s \in Holding(q) : From(q, s) \in Points(q) /\ To(q, s) \in Points(q)
<1>1. q.from \in Nat /\ q.to \in Nat
  BY DEF Asked
<1>2. Starts(q) \subseteq Nat
  BY <1>1 DEF Starts
<1> DEFINE w == Windows(q)
<1>3. Separate(w)
  BY WindowsAreSeparate
<1> HIDE DEF w
<1>4. /\ DOMAIN w = 1..Len(w)
      /\ \A k \in 1..Len(w) : w[k].from \in Nat /\ w[k].to \in Nat
  BY <1>3, SeparateTimes DEF Separate
<1>5. \A s \in Holding(q) : From(q, s) \in Nat /\ To(q, s) \in Nat
  BY <1>1 DEF Asked, Holding, From, To, Larger, Smaller
<1>6. Points(q) = {q.from, q.to} \cup Starts(q)
                  \cup {w[k].from : k \in 1..Len(w)} \cup {w[k].to : k \in 1..Len(w)}
                  \cup {From(q, s) : s \in Holding(q)} \cup {To(q, s) : s \in Holding(q)}
  BY <1>4 DEF Points, w
<1>7. \A k \in 1..Len(w) : w[k].from \in Points(q) /\ w[k].to \in Points(q)
  BY <1>6
<1>8. \A s \in Holding(q) : From(q, s) \in Points(q) /\ To(q, s) \in Points(q)
  BY <1>6
<1>9. Points(q) \subseteq Nat
  BY <1>1, <1>2, <1>4, <1>5, <1>6
<1> QED
  BY <1>6, <1>7, <1>8, <1>9 DEF w

LEMMA NextPointFollows ==
    ASSUME NEW q, Asked(q), NEW at \in Nat, at < q.to
    PROVE  /\ NextPoint(q, at) \in Points(q) /\ NextPoint(q, at) \in Nat /\ at < NextPoint(q, at)
           /\ \A p \in Points(q) : at < p => NextPoint(q, at) <= p
<1> DEFINE S == {p \in Points(q) : p > at}
<1>1. S \in SUBSET Nat /\ q.to \in S
  BY PointsAreTimes DEF Asked
<1>2. \E x \in S : \A y \in S : x <= y
  BY <1>1, FirstOf
<1>3. Min(S) \in S /\ \A y \in S : Min(S) <= y
  BY <1>2, Zenon DEF Min
<1>4. NextPoint(q, at) = Min(S)
  BY DEF NextPoint
<1> QED
  BY <1>1, <1>3, <1>4

(* From a point to the next one. *)
Slice(q, at) == at..(NextPoint(q, at) - 1)

LEMMA SliceIsUniform ==
    ASSUME NEW q, Asked(q), NEW at \in Nat, q.from <= at, NEW t \in Slice(q, at), t < q.to, at < q.to
    PROVE  /\ Observed(q, at) <=> Observed(q, t)
           /\ InUse(q, at) = InUse(q, t)
<1> DEFINE w == Windows(q)
           next == NextPoint(q, at)
<1>1. t \in Nat /\ at <= t /\ t < next /\ next \in Nat /\ q.from \in Nat /\ q.from <= t
  BY NextPointFollows DEF Slice, Asked
<1>2. \A p \in Points(q) : p \in Nat /\ (p <= at <=> p <= t) /\ (at < p <=> t < p)
  BY <1>1, NextPointFollows, PointsAreTimes
<1>3. Separate(w)
  BY WindowsAreSeparate
<1>4. Inside(w, at) <=> Inside(w, t)
  BY <1>2, PointsAreTimes DEF Inside, Covering
<1>5. Observed(q, at) <=> Observed(q, t)
  BY <1>1, <1>3, <1>4, CoversIsInside, CoversIsObserved
<1>6. \A s \in Holding(q) : (From(q, s) <= at <=> From(q, s) <= t) /\ (at < To(q, s) <=> t < To(q, s))
  BY <1>2, PointsAreTimes
<1>7. InUse(q, at) = InUse(q, t)
  BY <1>1, <1>6, InUseIsHeld
<1> QED
  BY <1>5, <1>7

--------------------------------------------------------------------------------
(* The slices of a bucket. *)

LEMMA BucketEnds ==
    ASSUME HistoryBounds, NEW q, Asked(q), NEW start \in Starts(q)
    PROVE  /\ start \in Nat /\ q.from <= start /\ start < q.to /\ start \in Points(q)
           /\ EndOf(q, start) \in Nat /\ start < EndOf(q, start) /\ EndOf(q, start) <= q.to
           /\ EndOf(q, start) \in Points(q)
<1> DEFINE next == (start \div Step + 1) * Step
<1>1. start \in Nat /\ q.from <= start /\ start < q.to /\ q.from \in Nat /\ q.to \in Nat
  BY DEF Starts, Asked
<1>2. Step \in Nat \ {0}
  BY DEF HistoryBounds
<1>3. start \div Step \in Nat
  BY <1>1, <1>2
<1>4. next \in Nat /\ next > start
  BY <1>1, <1>2, <1>3, SMTT(20)
<1>5. next % Step = 0
  <2>1. \A k \in Nat : (k * Step) % Step = 0
    BY <1>2, SMTT(20)
  <2> QED
    BY <1>3, <2>1
<1> HIDE DEF next
<1>6. EndOf(q, start) = Smaller(q.to, next)
  BY DEF EndOf, next
<1>7. EndOf(q, start) = q.to \/ EndOf(q, start) \in Starts(q)
  BY <1>1, <1>4, <1>5, <1>6 DEF Smaller, Starts
<1>8. EndOf(q, start) \in Nat /\ start < EndOf(q, start) /\ EndOf(q, start) <= q.to
  BY <1>1, <1>4, <1>6 DEF Smaller
<1> QED
  BY <1>1, <1>7, <1>8, PointsAreTimes

(* The counted slices are apart and make up the observed units. *)
LEMMA SliceEnds ==
    ASSUME HistoryBounds, NEW q, Asked(q), NEW start \in Starts(q), NEW at \in Counted(q, start)
    PROVE  /\ at \in Points(q) /\ at \in Nat /\ start <= at /\ q.from <= at /\ at < q.to
           /\ NextPoint(q, at) \in Nat /\ at < NextPoint(q, at) /\ NextPoint(q, at) <= EndOf(q, start)
           /\ IsFiniteSet(Slice(q, at)) /\ Cardinality(Slice(q, at)) = NextPoint(q, at) - at
           /\ \A t \in Slice(q, at) : t \in Nat /\ t < EndOf(q, start) /\ start <= t /\ t < q.to
<1>1. /\ start \in Nat /\ q.from <= start
      /\ EndOf(q, start) \in Nat /\ EndOf(q, start) <= q.to /\ EndOf(q, start) \in Points(q)
  BY BucketEnds
<1>2. q.from \in Nat /\ q.to \in Nat
  BY DEF Asked
<1>3. at \in Points(q) /\ at \in start..(EndOf(q, start) - 1)
  BY DEF Counted
<1>4. at \in Nat /\ start <= at /\ q.from <= at /\ at < q.to /\ at < EndOf(q, start)
  BY <1>1, <1>2, <1>3
<1>5. NextPoint(q, at) \in Nat /\ at < NextPoint(q, at) /\ NextPoint(q, at) <= EndOf(q, start)
  BY <1>1, <1>4, NextPointFollows
<1>6. IsFiniteSet(Slice(q, at)) /\ Cardinality(Slice(q, at)) = NextPoint(q, at) - at
  <2> DEFINE last == NextPoint(q, at) - 1
  <2>1. at \in Int /\ last \in Int /\ ~(at > last) /\ last - at + 1 = NextPoint(q, at) - at
    BY <1>4, <1>5
  <2>2. Slice(q, at) = at..last
    BY DEF Slice
  <2> HIDE DEF last
  <2> QED
    BY <2>1, <2>2, FS_Interval
<1>7. \A t \in Slice(q, at) : t \in Nat /\ t < EndOf(q, start) /\ start <= t /\ t < q.to
  BY <1>1, <1>2, <1>4, <1>5 DEF Slice
<1> QED
  BY <1>3, <1>4, <1>5, <1>6, <1>7

LEMMA SlicesAreApart ==
    ASSUME HistoryBounds, NEW q, Asked(q), NEW start \in Starts(q),
           NEW c \in Counted(q, start), NEW d \in Counted(q, start), c # d
    PROVE  Slice(q, c) \cap Slice(q, d) = {}
<1>1. ASSUME NEW a \in Counted(q, start), NEW b \in Counted(q, start), a < b
      PROVE  Slice(q, a) \cap Slice(q, b) = {}
  <2>1. /\ a \in Nat /\ a < q.to /\ NextPoint(q, a) \in Nat
        /\ b \in Nat /\ b \in Points(q) /\ NextPoint(q, b) \in Nat
    BY SliceEnds
  <2>2. NextPoint(q, a) <= b
    BY <1>1, <2>1, NextPointFollows
  <2> QED
    BY <2>1, <2>2 DEF Slice
<1>2. c \in Nat /\ d \in Nat
  BY SliceEnds
<1>3. c < d \/ d < c
  BY <1>2
<1> QED
  BY <1>1, <1>3

LEMMA SlicesAreSeen ==
    ASSUME HistoryBounds, NEW q, Asked(q), NEW start \in Starts(q)
    PROVE  /\ \A at \in Counted(q, start) : Slice(q, at) \subseteq Seen(q, start)
           /\ \A t \in Seen(q, start) : \E at \in Counted(q, start) : t \in Slice(q, at)
<1>1. /\ start \in Nat /\ q.from <= start /\ start \in Points(q)
      /\ EndOf(q, start) \in Nat /\ EndOf(q, start) <= q.to /\ q.from \in Nat /\ q.to \in Nat
  BY BucketEnds DEF Asked
<1>2. ASSUME NEW at \in Counted(q, start), NEW t \in Slice(q, at) PROVE t \in Seen(q, start)
  <2>1. /\ at \in Nat /\ q.from <= at /\ at < q.to
        /\ t \in Nat /\ t < EndOf(q, start) /\ start <= t /\ t < q.to
    BY SliceEnds
  <2>2. Observed(q, at)
    BY <2>1, CoversIsObserved DEF Counted
  <2>3. Observed(q, t)
    BY <2>1, <2>2, SliceIsUniform
  <2> QED
    BY <1>1, <2>1, <2>3 DEF Seen
<1>3. ASSUME NEW t \in Seen(q, start) PROVE \E at \in Counted(q, start) : t \in Slice(q, at)
  <2>1. t \in Nat /\ start <= t /\ t < EndOf(q, start) /\ t < q.to /\ Observed(q, t)
    BY <1>1 DEF Seen
  <2> DEFINE back == {d \in Nat : t - d \in Points(q)}
  <2>2. back \in SUBSET Nat /\ t - start \in back
    BY <1>1, <2>1
  <2>3. PICK d \in back : \A e \in back : d <= e
    BY <2>2, FirstOf
  <2>4. PICK at \in Nat : at = t - d /\ at \in Points(q) /\ start <= at /\ at <= t
    BY <1>1, <2>1, <2>2, <2>3, PointsAreTimes, SMTT(30)
  <2>5. ASSUME NEW p \in Points(q), p <= t PROVE p <= at
    <3>1. p \in Nat
      BY PointsAreTimes
    <3>2. t - p \in back
      BY <2>1, <2>5, <3>1
    <3> QED
      BY <2>1, <2>3, <2>4, <3>1, <3>2
  <2>6. at < q.to /\ q.from <= at
    BY <1>1, <2>1, <2>4
  <2>7. t < NextPoint(q, at)
    BY <2>1, <2>4, <2>5, <2>6, NextPointFollows
  <2>8. t \in Slice(q, at)
    BY <2>1, <2>4, <2>6, <2>7, NextPointFollows DEF Slice
  <2>9. Observed(q, at)
    BY <2>1, <2>4, <2>6, <2>8, SliceIsUniform
  <2>10. at \in Counted(q, start)
    BY <1>1, <2>1, <2>4, <2>6, <2>9, CoversIsObserved DEF Counted
  <2> QED
    BY <2>8, <2>10
<1> QED
  BY <1>2, <1>3

(* The running sum of the deltas is the number of slots in use. *)
LEMMA HeldIsInUse ==
    ASSUME NEW q, Asked(q), IsFiniteSet(Sandbox), NEW at \in Nat, q.from <= at, at < q.to
    PROVE  IsFiniteSet(InUse(q, at)) /\ Held(q, at) = Cardinality(InUse(q, at))
<1> DEFINE begun == {s \in Holding(q) : From(q, s) <= at}
           ended == {s \in Holding(q) : To(q, s) <= at}
<1>1. IsFiniteSet(Holding(q))
  BY FS_Subset DEF Holding
<1>2. IsFiniteSet(begun) /\ IsFiniteSet(ended) /\ IsFiniteSet(InUse(q, at))
  <2>1. begun \in SUBSET Holding(q) /\ ended \in SUBSET Holding(q) /\ InUse(q, at) \in SUBSET Holding(q)
    BY InUseIsHeld
  <2> HIDE DEF begun, ended
  <2> QED
    BY <1>1, <2>1, FS_Subset
<1>3. \A s \in Holding(q) : From(q, s) \in Nat /\ To(q, s) \in Nat /\ From(q, s) < To(q, s)
  BY PointsAreTimes DEF Holding
<1>4. begun = ended \cup InUse(q, at) /\ ended \cap InUse(q, at) = {}
  BY <1>3, InUseIsHeld
<1>5. Held(q, at) = Cardinality(begun) - Cardinality(ended)
  BY DEF Held
<1> HIDE DEF begun, ended
<1>6. Cardinality(begun) = Cardinality(ended) + Cardinality(InUse(q, at)) - Cardinality({})
  BY <1>2, <1>4, FS_Union
<1>7. Cardinality(ended) \in Nat /\ Cardinality(InUse(q, at)) \in Nat /\ Cardinality({}) = 0
  BY <1>2, FS_CardinalityType, FS_EmptySet
<1> QED
  BY <1>2, <1>5, <1>6, <1>7


(* A bucket's sums and peak are those of its observed units. *)
LEMMA BucketIsExact ==
    ASSUME HistoryBounds, NEW q, Asked(q), NEW start \in Starts(q)
    PROVE  Bucket(q, start) = ExactBucket(q, start)
<1> DEFINE C == Counted(q, start)
           length == [at \in C |-> NextPoint(q, at) - at]
           slots == [at \in C |-> Held(q, at) * length[at]]
           slice == [at \in C |-> Slice(q, at)]
           held == [at \in C |-> Slice(q, at) \X InUse(q, at)]
           use == {p \in Seen(q, start) \X Sandbox : p[2] \in InUse(q, p[1])}
<1>1. IsFiniteSet(C)
  <2>1. start \in Nat /\ EndOf(q, start) \in Nat
    BY BucketEnds
  <2>2. IsFiniteSet(start..(EndOf(q, start) - 1))
    BY <2>1, FS_Interval
  <2>3. C \in SUBSET (start..(EndOf(q, start) - 1))
    BY DEF Counted
  <2> QED
    BY <2>2, <2>3, FS_Subset
<1>2. ASSUME NEW at \in C
      PROVE  /\ at \in Nat /\ q.from <= at /\ at < q.to
             /\ length[at] \in Nat /\ IsFiniteSet(Slice(q, at)) /\ length[at] = Cardinality(Slice(q, at))
             /\ IsFiniteSet(InUse(q, at)) /\ Held(q, at) = Cardinality(InUse(q, at))
             /\ Held(q, at) \in Nat
             /\ \A t \in Slice(q, at) : InUse(q, t) = InUse(q, at)
  <2>1. /\ at \in Nat /\ q.from <= at /\ at < q.to /\ at < NextPoint(q, at) /\ NextPoint(q, at) \in Nat
        /\ IsFiniteSet(Slice(q, at)) /\ Cardinality(Slice(q, at)) = NextPoint(q, at) - at
        /\ \A t \in Slice(q, at) : t < q.to
    BY SliceEnds
  <2>2. IsFiniteSet(InUse(q, at)) /\ Held(q, at) = Cardinality(InUse(q, at))
    BY <2>1, HeldIsInUse DEF HistoryBounds
  <2>3. Held(q, at) \in Nat
    BY <2>2, FS_CardinalityType
  <2>4. \A t \in Slice(q, at) : InUse(q, t) = InUse(q, at)
    BY <2>1, SliceIsUniform
  <2> QED
    BY <2>1, <2>2, <2>3, <2>4
<1>3. Apart(C, slice) /\ Apart(C, held)
  <2>1. \A c, d \in C : c # d => Slice(q, c) \cap Slice(q, d) = {}
    BY SlicesAreApart
  <2> QED
    BY <2>1 DEF Apart
<1>4. Together(C, slice) = Seen(q, start)
  BY SlicesAreSeen DEF Together
<1>5. Together(C, held) = use
  <2>1. ASSUME NEW p \in use PROVE p \in Together(C, held)
    <3>1. PICK at \in C : p[1] \in Slice(q, at)
      BY SlicesAreSeen
    <3>2. p[2] \in InUse(q, at)
      BY <1>2, <3>1
    <3>3. p \in held[at]
      BY <3>1, <3>2
    <3> QED
      BY <3>3 DEF Together
  <2>2. ASSUME NEW p \in Together(C, held) PROVE p \in use
    <3>1. PICK at \in C : p \in Slice(q, at) \X InUse(q, at)
      BY DEF Together
    <3>2. p[1] \in Seen(q, start)
      BY <3>1, SlicesAreSeen
    <3>3. p[2] \in InUse(q, p[1]) /\ p[2] \in Sandbox
      BY <1>2, <3>1 DEF InUse
    <3> QED
      BY <3>1, <3>2, <3>3
  <2> QED
    BY <2>1, <2>2
<1>6. SumFunction(length) = Cardinality(Seen(q, start))
  <2>1. length \in [C -> Int]
    BY <1>2
  <2>2. \A c \in C : IsFiniteSet(slice[c]) /\ length[c] = Cardinality(slice[c])
    BY <1>2
  <2> HIDE DEF C, length, slice
  <2> QED
    BY <1>1, <1>3, <1>4, <2>1, <2>2, SumIsCount
<1>7. SumFunction(slots) = Cardinality(use)
  <2>1. ASSUME NEW c \in C
        PROVE  /\ slots[c] \in Int /\ IsFiniteSet(held[c])
               /\ slots[c] = Cardinality(held[c])
    <3> DEFINE f == Cardinality(Slice(q, c))
               g == Cardinality(InUse(q, c))
    <3>1. f \in Nat /\ g \in Nat /\ slots[c] = g * f
      BY <1>2
    <3>2. IsFiniteSet(held[c]) /\ Cardinality(held[c]) = f * g
      BY <1>2, FS_Product
    <3> HIDE DEF f, g
    <3> QED
      BY <3>1, <3>2
  <2>2. slots \in [C -> Int]
    BY <2>1
  <2>3. \A c \in C : IsFiniteSet(held[c]) /\ slots[c] = Cardinality(held[c])
    BY <2>1
  <2> HIDE DEF C, slots, held, use
  <2> QED
    BY <1>1, <1>3, <1>5, <2>2, <2>3, SumIsCount
<1>8. {Held(q, at) : at \in C} = {Cardinality(InUse(q, t)) : t \in Seen(q, start)}
  <2>1. ASSUME NEW at \in C
        PROVE  \E t \in Seen(q, start) : Held(q, at) = Cardinality(InUse(q, t))
    <3>1. at \in Slice(q, at)
      BY SliceEnds DEF Slice
    <3> QED
      BY <1>2, <3>1, SlicesAreSeen
  <2>2. ASSUME NEW t \in Seen(q, start)
        PROVE  \E at \in C : Held(q, at) = Cardinality(InUse(q, t))
    <3>1. PICK at \in C : t \in Slice(q, at)
      BY SlicesAreSeen
    <3> QED
      BY <1>2, <3>1
  <2> HIDE DEF C
  <2> QED
    BY <2>1, <2>2
<1>9. Bucket(q, start) = [covered |-> SumFunction(length), held |-> SumFunction(slots),
                          peak |-> Max({0} \cup {Held(q, at) : at \in C})]
  BY DEF Bucket
<1>10. ExactBucket(q, start) = [covered |-> Cardinality(Seen(q, start)), held |-> Cardinality(use),
                                peak |-> Max({0} \cup {Cardinality(InUse(q, t)) : t \in Seen(q, start)})]
  BY DEF ExactBucket
<1> HIDE DEF C, length, slots, use
<1> QED
  BY <1>6, <1>7, <1>8, <1>9, <1>10
--------------------------------------------------------------------------------
(* Buckets: they are numbered one after the other. *)

LEMMA Multiples ==
    ASSUME HistoryBounds
    PROVE  /\ Step \in Nat /\ Step > 0
           /\ \A t \in Nat : /\ t \div Step \in Nat
                             /\ (t \div Step) * Step <= t /\ t < (t \div Step + 1) * Step
                             /\ t % Step = 0 => t = (t \div Step) * Step
           /\ \A k \in Nat : k * Step \in Nat /\ (k * Step) % Step = 0 /\ (k * Step) \div Step = k
           /\ \A j, k \in Nat : j < k => (j + 1) * Step <= k * Step /\ j * Step < k * Step
           /\ \A k, t \in Nat : k * Step <= t /\ t < (k + 1) * Step => t \div Step = k
<1>1. Step \in Nat /\ Step > 0
  BY DEF HistoryBounds
<1>2. ASSUME NEW t \in Nat
      PROVE  /\ t \div Step \in Nat
             /\ (t \div Step) * Step <= t /\ t < (t \div Step + 1) * Step
             /\ t % Step = 0 => t = (t \div Step) * Step
  BY <1>1, SMTT(30)
<1>3. ASSUME NEW k \in Nat PROVE k * Step \in Nat /\ (k * Step) % Step = 0 /\ (k * Step) \div Step = k
  BY <1>1, SMTT(30)
<1>4. ASSUME NEW j \in Nat, NEW k \in Nat, j < k PROVE (j + 1) * Step <= k * Step /\ j * Step < k * Step
  BY <1>1, <1>4, SMTT(30)
<1>5. ASSUME NEW k \in Nat, NEW t \in Nat, k * Step <= t, t < (k + 1) * Step PROVE t \div Step = k
  BY <1>1, <1>5, SMTT(30)
<1> QED
  BY <1>1, <1>2, <1>3, <1>4, <1>5

LEMMA NumberIsRight ==
    ASSUME HistoryBounds, NEW q, Asked(q), NEW start \in Starts(q),
           NEW t \in start..(EndOf(q, start) - 1)
    PROVE  t \div Step - q.from \div Step = NumberOf(q, start)
<1> DEFINE F == q.from \div Step
           K == start \div Step
           before == {s \in Starts(q) : s < start}
<1>1. /\ q.from \in Nat /\ q.to \in Nat /\ start \in Nat /\ q.from <= start /\ start < q.to
      /\ t \in Nat /\ start <= t /\ t < EndOf(q, start)
  BY BucketEnds DEF Asked
<1>2. /\ F \in Nat /\ F * Step <= q.from /\ q.from < (F + 1) * Step
      /\ K \in Nat /\ K * Step <= start /\ start < (K + 1) * Step
      /\ start % Step = 0 => start = K * Step
  BY <1>1, Multiples
<1>3. K * Step \in Nat /\ (K + 1) * Step \in Nat
  BY <1>2, Multiples
<1>4. EndOf(q, start) = Smaller(q.to, (K + 1) * Step)
  BY DEF EndOf
<1>5. F = q.from \div Step
  OBVIOUS
<1> HIDE DEF F, K
<1>6. t < (K + 1) * Step
  BY <1>1, <1>3, <1>4 DEF Smaller
<1>7. t \div Step = K
  BY <1>1, <1>2, <1>3, <1>6, Multiples
<1>8. NumberOf(q, start) = Cardinality(before)
  BY DEF NumberOf
<1>9. CASE start = q.from
  <2>1. F = K
    BY <1>9 DEF F, K
  <2>2. before = {}
    BY <1>1, <1>9 DEF Starts
  <2>3. NumberOf(q, start) = 0
    BY <1>8, <2>2, FS_EmptySet
  <2>4. K - F = 0
    BY <1>2, <2>1
  <2> QED
    BY <1>5, <1>7, <2>3, <2>4
<1>10. CASE start # q.from
  <2>1. start = K * Step /\ q.from < start
    BY <1>1, <1>2, <1>10 DEF Starts
  <2>2. F < K
    <3>1. SUFFICES ASSUME ~(F < K) PROVE FALSE
      OBVIOUS
    <3>2. F * Step \in Nat /\ (K < F => K * Step < F * Step)
      BY <1>2, Multiples
    <3>3. K = F \/ K < F
      BY <1>2, <3>1
    <3> QED
      BY <1>1, <1>2, <1>3, <2>1, <3>2, <3>3
  <2> DEFINE numbers == F..(K - 1)
             g == [j \in numbers |-> IF j = F THEN q.from ELSE j * Step]
  <2>3. \A j \in numbers : j \in Nat /\ F <= j /\ j < K
    BY <1>2
  <2>4. ASSUME NEW j \in numbers, j # F
        PROVE  /\ j * Step \in Nat /\ q.from < j * Step /\ j * Step < start
               /\ (j * Step) % Step = 0 /\ (j * Step) \div Step = j
    <3>1. F < j /\ j < K /\ j \in Nat
      BY <1>2, <2>3, <2>4
    <3>2. j * Step \in Nat /\ (j * Step) % Step = 0 /\ (j * Step) \div Step = j /\ (F + 1) * Step \in Nat
      <4>1. F + 1 \in Nat
        BY <1>2
      <4> QED
        BY <3>1, <4>1, Multiples
    <3>3. (F + 1) * Step <= j * Step /\ j * Step < K * Step
      BY <1>2, <3>1, Multiples
    <3> QED
      BY <1>1, <1>2, <2>1, <3>2, <3>3
  <2>5. F \in numbers
    BY <1>2, <2>2
  <2>6. ASSUME NEW j \in numbers PROVE g[j] \in before
    <3>1. CASE j = F
      BY <1>1, <2>1, <3>1 DEF Starts
    <3>2. CASE j # F
      BY <1>1, <2>4, <3>2 DEF Starts
    <3> QED
      BY <3>1, <3>2
  <2>7. ASSUME NEW j \in numbers, NEW k \in numbers, g[j] = g[k] PROVE j = k
    <3>1. CASE j = F /\ k = F
      BY <3>1
    <3>2. CASE j = F /\ k # F
      BY <1>1, <2>4, <2>7, <3>2
    <3>3. CASE j # F /\ k = F
      BY <1>1, <2>4, <2>7, <3>3
    <3>4. CASE j # F /\ k # F
      <4>1. j * Step = k * Step
        BY <2>7, <3>4
      <4>2. (j * Step) \div Step = j /\ (k * Step) \div Step = k
        BY <2>4, <3>4
      <4> QED
        BY <4>1, <4>2
    <3> QED
      BY <3>1, <3>2, <3>3, <3>4
  <2>8. ASSUME NEW s \in before PROVE \E j \in numbers : g[j] = s
    <3>1. CASE s = q.from
      BY <2>5, <3>1
    <3>2. CASE s # q.from
      <4>1. s \in Nat /\ q.from < s /\ s < start /\ s % Step = 0
        BY <1>1, <3>2 DEF Starts
      <4>2. PICK j \in Nat : j = s \div Step /\ s = j * Step
        BY <4>1, Multiples
      <4>3. F < j
        <5>1. SUFFICES ASSUME j <= F PROVE FALSE
          BY <1>2
        <5>2. F * Step \in Nat /\ (j < F => j * Step < F * Step)
          BY <1>2, Multiples
        <5> QED
          BY <1>1, <1>2, <4>1, <4>2, <5>1, <5>2
      <4>4. j < K
        <5>1. SUFFICES ASSUME K <= j PROVE FALSE
          BY <1>2
        <5>2. K < j => K * Step < j * Step
          BY <1>2, Multiples
        <5> QED
          BY <1>1, <1>2, <1>3, <2>1, <4>1, <4>2, <5>1, <5>2
      <4>5. j \in numbers /\ j # F
        BY <1>2, <4>3, <4>4
      <4> QED
        BY <4>2, <4>5
    <3> QED
      BY <3>1, <3>2
  <2>9. IsFiniteSet(numbers) /\ Cardinality(numbers) = K - F
    <3>1. F \in Int /\ K - 1 \in Int /\ ~(F > K - 1) /\ (K - 1) - F + 1 = K - F
      BY <1>2, <2>2
    <3> QED
      BY <3>1, FS_Interval
  <2> HIDE DEF numbers, before
  <2>10. g \in Bijection(numbers, before)
    BY <2>6, <2>7, <2>8 DEF Bijection, Injection, Surjection, IsInjective
  <2> HIDE DEF g
  <2>11. Cardinality(before) = K - F
    BY <2>9, <2>10, FS_Bijection DEF ExistsBijection
  <2> QED
    BY <1>5, <1>7, <1>8, <2>11
<1> QED
  BY <1>9, <1>10
--------------------------------------------------------------------------------
(* Gaps: the times of the window that no merged interval covers. *)
LEMMA GapsAreUnobserved ==
    ASSUME NEW q, Asked(q), NEW t \in Nat, q.from <= t, t < q.to
    PROVE  Observed(q, t) <=> \A g \in Gaps(q) : ~(g.from <= t /\ t < g.to)
<1> DEFINE w == Windows(q)
           L == Len(w)
           ends == <<q.from>> \o [i \in 1..L |-> w[i].to]
           begins == [i \in 1..L |-> w[i].from] \o <<q.to>>
<1>1. Separate(w)
  BY WindowsAreSeparate
<1>2. Gaps(q) = {[from |-> ends[i], to |-> begins[i]] : i \in {k \in 1..(L + 1) : ends[k] < begins[k]}}
  BY DEF Gaps
<1> HIDE DEF w
<1>3. L \in Nat /\ \A k \in 1..L : w[k].from \in Nat /\ w[k].to \in Nat /\ w[k].from < w[k].to
  BY <1>1, SeparateTimes
<1>4. q.from \in Nat /\ q.to \in Nat
  BY DEF Asked
<1>5. /\ ends[1] = q.from /\ begins[L + 1] = q.to
      /\ \A k \in 1..L : ends[k + 1] = w[k].to /\ begins[k] = w[k].from
  <2> DEFINE last == [i \in 1..L |-> w[i].to]
             first == [i \in 1..L |-> w[i].from]
  <2>1. last \in Seq(Nat) /\ first \in Seq(Nat) /\ Len(last) = L /\ Len(first) = L
    BY <1>3
  <2>2. \A k \in 1..L : last[k] = w[k].to /\ first[k] = w[k].from
    OBVIOUS
  <2>3. ends = <<q.from>> \o last /\ begins = first \o <<q.to>>
    OBVIOUS
  <2> HIDE DEF last, first, L, ends, begins
  <2>4. ends[1] = q.from /\ \A k \in 1..L : ends[k + 1] = last[k]
    BY <1>3, <1>4, <2>1, <2>3
  <2>5. begins[L + 1] = q.to /\ \A k \in 1..L : begins[k] = first[k]
    BY <1>3, <1>4, <2>1, <2>3
  <2> QED
    BY <2>2, <2>4, <2>5
<1> HIDE DEF ends, begins, L
<1>6. Observed(q, t) <=> Inside(w, t)
  BY <1>1, CoversIsInside, CoversIsObserved DEF w
<1>7. ASSUME NEW k \in 1..L, Covering(w[k], t), NEW i \in 1..(L + 1)
      PROVE  ~(ends[i] <= t /\ t < begins[i])
  <2>1. CASE k < i
    <3>1. PICK j \in 1..L : i = j + 1 /\ k <= j
      <4>1. i - 1 \in 1..L /\ i = (i - 1) + 1 /\ k <= i - 1
        BY <1>3, <2>1
      <4> QED
        BY <4>1
    <3>2. w[k].to <= w[j].to
      <4>1. k = j \/ w[k].to < w[j].from
        BY <1>1, <1>3, <3>1 DEF Separate, L
      <4> QED
        BY <1>3, <4>1
    <3> QED
      BY <1>3, <1>5, <1>7, <3>1, <3>2 DEF Covering
  <2>2. CASE ~(k < i)
    <3>1. i \in 1..L /\ i <= k
      BY <1>3, <2>2
    <3>2. w[i].from <= w[k].from
      <4>1. k = i \/ w[i].to < w[k].from
        BY <1>1, <1>3, <3>1 DEF Separate, L
      <4> QED
        BY <1>3, <3>1, <4>1
    <3> QED
      BY <1>3, <1>5, <1>7, <3>1, <3>2 DEF Covering
  <2> QED
    BY <2>1, <2>2
<1>8. ASSUME ~Inside(w, t) PROVE \E i \in 1..(L + 1) : ends[i] <= t /\ t < begins[i]
  <2>1. PICK n : Counts(w, t, n)
    BY <1>1, AfterCounts
  <2>2. n \in 0..L /\ n + 1 \in 1..(L + 1) /\ \A k \in 1..L : w[k].from <= t <=> k <= n
    BY <1>3, <2>1 DEF Counts, L
  <2>3. ends[n + 1] <= t
    <3>1. CASE n = 0
      BY <1>5, <3>1
    <3>2. CASE n # 0
      <4>1. n \in 1..L /\ w[n].from <= t
        BY <1>3, <2>2, <3>2
      <4>2. ~Covering(w[n], t)
        BY <1>8, <4>1 DEF Inside, L
      <4> QED
        BY <1>3, <1>5, <4>1, <4>2 DEF Covering
    <3> QED
      BY <3>1, <3>2
  <2>4. t < begins[n + 1]
    <3>1. CASE n = L
      BY <1>5, <3>1
    <3>2. CASE n # L
      <4>1. n + 1 \in 1..L /\ ~(w[n + 1].from <= t)
        BY <1>3, <2>2, <3>2
      <4> QED
        BY <1>3, <1>5, <4>1
    <3> QED
      BY <3>1, <3>2
  <2> QED
    BY <2>2, <2>3, <2>4
<1>9. \A i \in 1..(L + 1) : ends[i] \in Nat /\ begins[i] \in Nat
  <2>1. ASSUME NEW i \in 1..(L + 1) PROVE ends[i] \in Nat /\ begins[i] \in Nat
    <3>1. ends[i] \in Nat
      <4>1. i = 1 \/ (i - 1 \in 1..L /\ i = (i - 1) + 1)
        BY <1>3
      <4> QED
        BY <1>3, <1>4, <1>5, <4>1
    <3>2. begins[i] \in Nat
      <4>1. i = L + 1 \/ i \in 1..L
        BY <1>3
      <4> QED
        BY <1>3, <1>4, <1>5, <4>1
    <3> QED
      BY <3>1, <3>2
  <2> QED
    BY <2>1
<1>10. (\E g \in Gaps(q) : g.from <= t /\ t < g.to) <=> \E i \in 1..(L + 1) : ends[i] <= t /\ t < begins[i]
  <2>1. ASSUME NEW i \in 1..(L + 1), ends[i] <= t, t < begins[i]
        PROVE  [from |-> ends[i], to |-> begins[i]] \in Gaps(q)
    BY <1>2, <1>9, <2>1
  <2>2. ASSUME NEW g \in Gaps(q) PROVE \E i \in 1..(L + 1) : g.from = ends[i] /\ g.to = begins[i]
    BY <1>2
  <2> QED
    BY <2>1, <2>2
<1> QED
  BY <1>6, <1>7, <1>8, <1>10 DEF Inside, L

--------------------------------------------------------------------------------
(* Only well-typed questions are asked. *)
LEMMA QuestionsAreTyped == ASSUME HistoryBounds PROVE Spec => []TypeOK
<1>1. Init => TypeOK
  BY DEF Init, TypeOK
<1>2. TypeOK /\ [Next]_question => TypeOK'
  <2> SUFFICES ASSUME TypeOK, [Next]_question PROVE TypeOK'
    OBVIOUS
  <2>1. CASE Ask
    <3>1. PICK q \in Question({[s \in Sandbox |-> Absent]}) : question' = {q}
      BY <2>1 DEF Ask
    <3>2. [s \in Sandbox |-> Absent] \in [Sandbox -> Hold]
      BY DEF Hold
    <3>3. q \in Question([Sandbox -> Hold])
      BY <3>2 DEF Question
    <3> QED
      BY <3>1, <3>3 DEF TypeOK
  <2>2. CASE Reserve
    <3>1. PICK q \in question, s \in Sandbox, i \in Hold : question' = {[q EXCEPT !.holds[s] = i]}
      BY <2>2 DEF Reserve
    <3>2. q \in Question([Sandbox -> Hold])
      BY DEF TypeOK
    <3>3. [q.holds EXCEPT ![s] = i] \in [Sandbox -> Hold]
      BY <3>2 DEF Question
    <3>4. [q EXCEPT !.holds[s] = i] \in Question([Sandbox -> Hold])
      BY <3>2, <3>3 DEF Question
    <3> QED
      BY <3>1, <3>4 DEF TypeOK
  <2>3. CASE UNCHANGED question
    BY <2>3 DEF TypeOK
  <2> QED
    BY <2>1, <2>2, <2>3 DEF Next
<1> QED
  BY <1>1, <1>2, PTL DEF Spec

(* Every bucket reports the slot time, the peak and the coverage of exactly *)
(* its observed units, the gaps are the rest and an operation is counted in *)
(* the bucket of its moment, for any number of observer windows and         *)
(* reservations, any resolution and any length of the window                *)
(* (aggregateUsageHistory).                                                 *)
THEOREM UsageHistoryIsExact == ASSUME HistoryBounds PROVE Spec => []HistoryIsExact
<1>1. TypeOK => HistoryIsExact
  <2> SUFFICES ASSUME TypeOK, NEW q \in question PROVE
                 /\ \A start \in Starts(q) :
                       /\ Bucket(q, start) = ExactBucket(q, start)
                       /\ \A t \in start..(EndOf(q, start) - 1) :
                             FindBucket(q, t) = (IF Observed(q, t) THEN {NumberOf(q, start)} ELSE {})
                 /\ \A t \in q.from..(q.to - 1) :
                       Observed(q, t) <=> \A g \in Gaps(q) : ~(g.from <= t /\ t < g.to)
    BY DEF HistoryIsExact
  <2>1. Asked(q)
    BY QuestionIsAsked DEF TypeOK
  <2>2. q.from \in Nat /\ q.to \in Nat
    BY <2>1 DEF Asked
  <2>3. ASSUME NEW start \in Starts(q) PROVE Bucket(q, start) = ExactBucket(q, start)
    BY <2>1, BucketIsExact
  <2>4. ASSUME NEW start \in Starts(q), NEW t \in start..(EndOf(q, start) - 1)
        PROVE  FindBucket(q, t) = (IF Observed(q, t) THEN {NumberOf(q, start)} ELSE {})
    <3>1. /\ start \in Nat /\ q.from <= start
          /\ EndOf(q, start) \in Nat /\ EndOf(q, start) <= q.to
      BY <2>1, BucketEnds
    <3>2. t \in Nat /\ q.from <= t /\ t < q.to
      BY <2>2, <3>1
    <3>3. Covers(Windows(q), t) <=> Observed(q, t)
      BY <2>1, <3>2, CoversIsObserved
    <3>4. t \div Step - q.from \div Step = NumberOf(q, start)
      BY <2>1, NumberIsRight
    <3> QED
      BY <3>3, <3>4 DEF FindBucket
  <2>5. ASSUME NEW t \in q.from..(q.to - 1)
        PROVE  Observed(q, t) <=> \A g \in Gaps(q) : ~(g.from <= t /\ t < g.to)
    <3>1. t \in Nat /\ q.from <= t /\ t < q.to
      BY <2>2
    <3> QED
      BY <2>1, <3>1, GapsAreUnobserved
  <2> QED
    BY <2>3, <2>4, <2>5
<1> QED
  BY <1>1, QuestionsAreTyped, PTL
================================================================================
