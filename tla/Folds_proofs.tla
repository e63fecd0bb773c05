---------------------------- MODULE Folds_proofs -----------------------------
(***************************************************************************)
(* Facts about the operators of the community modules that the model is    *)
(* built from, for the proofs about its components.  A fold is a recursive *)
(* function, of which nothing is known before it is shown that there is    *)
(* one.  This is shown here once, for a fold of any function; a proof      *)
(* about the fold of an operator shows that it is one of these.            *)
(***************************************************************************)
EXTENDS Integers, Sequences, SequencesExt, TLAPS, NaturalsInduction,
        WellFoundedInduction, FiniteSetTheorems

-----------------------------------------------------------------------------
(***************************************************************************)
(* Natural numbers.                                                        *)
(***************************************************************************)
\* A set of natural numbers that is not empty has a least member, and Min is it.
LEMMA LeastNatural ==
    ASSUME NEW S \in SUBSET Nat, S # {}
    PROVE  \E i \in S : \A j \in S : i <= j
<1>1. PICK i \in S : \A j \in S : ~(<<j, i>> \in OpToRel(<, Nat))
  BY NatLessThanWellFounded, WFMin
<1>2. \A j \in S : ~(j < i)
  BY <1>1 DEF OpToRel
<1> QED
  BY <1>2

LEMMA MinOfNaturals ==
    ASSUME NEW S \in SUBSET Nat, S # {}
    PROVE  Min(S) \in S /\ \A j \in S : Min(S) <= j
BY LeastNatural DEF Min

\* One that is bounded has a greatest member, and Max is it.
LEMMA GreatestNatural ==
    ASSUME NEW S \in SUBSET Nat, S # {}, NEW n \in Nat, \A i \in S : i <= n
    PROVE  \E i \in S : \A j \in S : j <= i
<1> DEFINE D == {n - i : i \in S}
<1>1. D \in SUBSET Nat /\ D # {}
  <2>1. \A i \in S : n - i \in Nat
    OBVIOUS
  <2> QED
    BY <2>1
<1>2. PICK d \in D : \A j \in D : d <= j
  BY <1>1, LeastNatural
<1>3. PICK i \in S : d = n - i
  BY <1>2
<1>4. \A j \in S : n - j \in D
  OBVIOUS
<1>5. \A j \in S : j <= i
  BY <1>2, <1>3, <1>4
<1> QED
  BY <1>5

LEMMA MaxOfBounded ==
    ASSUME NEW S \in SUBSET Nat, S # {}, NEW n \in Nat, \A i \in S : i <= n
    PROVE  Max(S) \in S /\ \A j \in S : j <= Max(S)
BY GreatestNatural DEF Max

\* Induction: a set that holds 0 and with each number the next, up to n.
LEMMA Inductive ==
    ASSUME NEW n \in Nat, NEW S, 0 \in S, \A k \in 0..(n - 1) : k \in S => k + 1 \in S
    PROVE  \A k \in 0..n : k \in S
<1> SUFFICES ASSUME \E k \in 0..n : k \notin S
             PROVE  FALSE
  OBVIOUS
<1>1. PICK k \in {i \in 0..n : i \notin S} : \A j \in {i \in 0..n : i \notin S} : k <= j
  <2>1. {i \in 0..n : i \notin S} \in SUBSET Nat
    OBVIOUS
  <2> QED
    BY <2>1, LeastNatural
<1>2. k # 0 /\ k \in 0..n /\ k \notin S
  BY <1>1
<1>3. k - 1 \in 0..(n - 1) /\ k - 1 \in S
  BY <1>1, <1>2
<1> QED
  BY <1>2, <1>3

-----------------------------------------------------------------------------
(***************************************************************************)
(* FoldLeft, which takes the entries of a sequence by way of the sets of   *)
(* their places: the greatest place of a set comes last.                   *)
(***************************************************************************)
LEMMA MaxOfPlaces ==
    ASSUME NEW n \in Nat, NEW t \in SUBSET (1..n), t # {}
    PROVE  Max(t) \in t /\ Max(t) \in 1..n /\ \A j \in t : j <= Max(t)
<1>1. t \in SUBSET Nat /\ \A j \in t : j <= n
  OBVIOUS
<1> QED
  BY <1>1, MaxOfBounded

LEMMA MaxOfInterval ==
    ASSUME NEW n \in Nat \ {0}
    PROVE  Max(1..n) = n
<1>1. n \in 1..n /\ 1..n # {} /\ 1..n \in SUBSET (1..n)
  OBVIOUS
<1>2. Max(1..n) \in 1..n /\ n <= Max(1..n)
  BY <1>1, MaxOfPlaces
<1> QED
  BY <1>2

\* The function of a fold of F over s, on the sets of the first n places.
IsFold(F, b, s, n, g) ==
    g = [t \in SUBSET (1..n) |-> IF t = {} THEN b ELSE F[<<g[t \ {Max(t)}], s[Max(t)]>>]]

LEMMA FoldExists ==
    ASSUME NEW A, NEW B, NEW F \in [A \X B -> A], NEW b \in A, NEW s \in Seq(B)
    PROVE  \E g \in [SUBSET (1..Len(s)) -> A] : IsFold(F, b, s, Len(s), g)
<1> DEFINE S == {n \in 0..Len(s) : \E g \in [SUBSET (1..n) -> A] : IsFold(F, b, s, n, g)}
<1>1. 0 \in S
  <2> DEFINE g == [t \in SUBSET (1..0) |-> b]
  <2>1. \A t \in SUBSET (1..0) : t = {}
    OBVIOUS
  <2>2. IsFold(F, b, s, 0, g)
    BY <2>1 DEF IsFold
  <2>3. g \in [SUBSET (1..0) -> A]
    OBVIOUS
  <2> QED
    BY <2>2, <2>3
<1>2. ASSUME NEW n \in 0..(Len(s) - 1), n \in S
      PROVE  n + 1 \in S
  <2>1. PICK g \in [SUBSET (1..n) -> A] : IsFold(F, b, s, n, g)
    BY <1>2
  <2> DEFINE h == [t \in SUBSET (1..(n + 1)) |->
                     IF n + 1 \in t THEN F[<<g[t \ {n + 1}], s[n + 1]>>] ELSE g[t]]
  <2>2. n + 1 \in 1..Len(s) /\ s[n + 1] \in B
    OBVIOUS
  <2>3. \A t \in SUBSET (1..(n + 1)) : t \ {n + 1} \in SUBSET (1..n)
    OBVIOUS
  <2>4. ASSUME NEW t \in SUBSET (1..(n + 1)), n + 1 \in t
        PROVE  /\ Max(t) = n + 1 /\ t # {}
               /\ h[t] = F[<<h[t \ {Max(t)}], s[Max(t)]>>]
               /\ h[t] \in A
    <3>1. Max(t) = n + 1
      BY <2>4, MaxOfPlaces
    <3>2. h[t \ {n + 1}] = g[t \ {n + 1}] /\ g[t \ {n + 1}] \in A
      BY <2>3
    <3>3. h[t] = F[<<g[t \ {n + 1}], s[n + 1]>>]
      BY <2>4
    <3> QED
      BY <2>2, <2>4, <3>1, <3>2, <3>3
  <2>5. ASSUME NEW t \in SUBSET (1..(n + 1)), n + 1 \notin t
        PROVE  /\ h[t] = IF t = {} THEN b ELSE F[<<h[t \ {Max(t)}], s[Max(t)]>>]
               /\ h[t] \in A
    <3>1. t \in SUBSET (1..n)
      BY <2>5
    <3>0. t \ {Max(t)} \in SUBSET (1..n) /\ n + 1 \notin t \ {Max(t)}
      BY <3>1, <2>5
    <3>2. t \ {Max(t)} \in SUBSET (1..(n + 1))
      OBVIOUS
    <3>3. h[t] = g[t] /\ h[t \ {Max(t)}] = g[t \ {Max(t)}]
      BY <2>5, <3>0, <3>1, <3>2
    <3>4. g[t] = IF t = {} THEN b ELSE F[<<g[t \ {Max(t)}], s[Max(t)]>>]
      BY <2>1, <3>1 DEF IsFold
    <3> QED
      BY <3>1, <3>3, <3>4, <2>1
  <2>6. h \in [SUBSET (1..(n + 1)) -> A]
    BY <2>4, <2>5
  <2>7. IsFold(F, b, s, n + 1, h)
    <3>1. \A t \in SUBSET (1..(n + 1)) :
             h[t] = IF t = {} THEN b ELSE F[<<h[t \ {Max(t)}], s[Max(t)]>>]
      BY <2>4, <2>5
    <3> HIDE DEF h
    <3> QED
      BY <2>6, <3>1 DEF IsFold
  <2>8. n + 1 \in 0..Len(s)
    OBVIOUS
  <2> HIDE DEF h
  <2> QED
    BY <2>6, <2>7, <2>8
<1> HIDE DEF S
<1>3. Len(s) \in Nat /\ \A n \in 0..(Len(s) - 1) : n \in S => n + 1 \in S
  BY <1>2
<1>4. \A n \in 0..Len(s) : n \in S
  BY <1>1, <1>3, Inductive
<1>5. Len(s) \in S
  BY <1>3, <1>4
<1> QED
  BY <1>5 DEF S

(***************************************************************************)
(* The places up to k, as the greatest of them is taken away.              *)
(***************************************************************************)
LEMMA Places ==
    ASSUME NEW k \in Nat \ {0}
    PROVE  1..k # {} /\ Max(1..k) = k /\ (1..k) \ {k} = 1..(k - 1)
BY MaxOfInterval

-----------------------------------------------------------------------------
(***************************************************************************)
(* FlattenSeq: a sequence of sequences over S becomes a sequence over S.   *)
(***************************************************************************)
LEMMA FlattenType ==
    ASSUME NEW S, NEW seqs \in Seq(Seq(S))
    PROVE  FlattenSeq(seqs) \in Seq(S)
<1> DEFINE n == Len(seqs)
           Equation(g) == g = [i \in 1..n |-> IF i = 1 THEN seqs[i] ELSE g[i - 1] \o seqs[i]]
           Solution(k) == \E g \in [1..k -> Seq(S)] :
                            \A i \in 1..k : g[i] = IF i = 1 THEN seqs[i] ELSE g[i - 1] \o seqs[i]
           Solved == {k \in 0..n : Solution(k)}
<1>0. n \in Nat
  OBVIOUS
<1>1. 0 \in Solved
  <2>1. << >> \in [1..0 -> Seq(S)] /\ 1..0 = {}
    OBVIOUS
  <2>2. Solution(0)
    BY <2>1
  <2> HIDE DEF Solution
  <2> QED
    BY <1>0, <2>2
<1>2. ASSUME NEW k \in 0..(n - 1), k \in Solved
      PROVE  k + 1 \in Solved
  <2>1. PICK g \in [1..k -> Seq(S)] :
           \A i \in 1..k : g[i] = IF i = 1 THEN seqs[i] ELSE g[i - 1] \o seqs[i]
    BY <1>2
  <2> DEFINE next == IF k = 0 THEN seqs[1] ELSE g[k] \o seqs[k + 1]
             h == [i \in 1..(k + 1) |-> IF i = k + 1 THEN next ELSE g[i]]
  <2>2. k + 1 \in 1..n /\ seqs[k + 1] \in Seq(S) /\ (k # 0 => g[k] \in Seq(S))
    OBVIOUS
  <2>3. next \in Seq(S)
    BY <2>2
  <2>4. h \in [1..(k + 1) -> Seq(S)]
    BY <2>3
  <2>5. ASSUME NEW i \in 1..(k + 1)
        PROVE  h[i] = IF i = 1 THEN seqs[i] ELSE h[i - 1] \o seqs[i]
    <3>1. CASE i = k + 1
      BY <3>1
    <3>2. CASE i # k + 1
      <4>1. i \in 1..k /\ (i # 1 => i - 1 \in 1..k)
        BY <3>2
      <4>2. h[i] = g[i] /\ (i # 1 => h[i - 1] = g[i - 1])
        BY <3>2, <4>1
      <4>3. g[i] = IF i = 1 THEN seqs[i] ELSE g[i - 1] \o seqs[i]
        BY <2>1, <4>1
      <4> HIDE DEF h
      <4> QED
        BY <4>2, <4>3
    <3> QED
      BY <3>1, <3>2
  <2>6. Solution(k + 1)
    <3> HIDE DEF h
    <3> QED
      BY <2>4, <2>5
  <2>7. k + 1 \in 0..n
    OBVIOUS
  <2> HIDE DEF Solution
  <2> QED
    BY <2>6, <2>7
<1> HIDE DEF Solved
<1>3. n \in Nat /\ \A k \in 0..(n - 1) : k \in Solved => k + 1 \in Solved
  BY <1>0, <1>2
<1>4. \A k \in 0..n : k \in Solved
  BY <1>1, <1>3, Inductive
<1>5. n \in Solved
  BY <1>3, <1>4
<1>6. PICK g \in [1..n -> Seq(S)] :
         \A i \in 1..n : g[i] = IF i = 1 THEN seqs[i] ELSE g[i - 1] \o seqs[i]
  BY <1>5 DEF Solved
<1> DEFINE flatten == CHOOSE f : Equation(f)
<1>7. Equation(g)
  BY <1>6
<1>8. Equation(flatten)
  <2> HIDE DEF Equation
  <2> QED
    BY <1>7
<1>9. \A i \in 1..n : flatten[i] = IF i = 1 THEN seqs[i] ELSE flatten[i - 1] \o seqs[i]
  <2> HIDE DEF flatten
  <2> QED
    BY <1>8
<1> DEFINE Typed == {k \in 0..n : k = 0 \/ flatten[k] \in Seq(S)}
<1> HIDE DEF flatten
<1>10. 0 \in Typed
  BY <1>3
<1>11. ASSUME NEW k \in 0..(n - 1), k \in Typed
       PROVE  k + 1 \in Typed
  <2>1. k + 1 \in 1..n /\ seqs[k + 1] \in Seq(S)
    OBVIOUS
  <2>2. flatten[k + 1] = IF k + 1 = 1 THEN seqs[k + 1] ELSE flatten[k] \o seqs[k + 1]
    BY <1>9, <2>1
  <2>3. k = 0 \/ flatten[k] \in Seq(S)
    BY <1>11
  <2>4. flatten[k + 1] \in Seq(S)
    BY <2>1, <2>2, <2>3
  <2> QED
    BY <2>1, <2>4
<1>12. \A k \in 0..(n - 1) : k \in Typed => k + 1 \in Typed
  BY <1>11
<1> HIDE DEF Typed
<1>13. n \in Typed
  <2>1. \A k \in 0..n : k \in Typed
    BY <1>3, <1>10, <1>12, Inductive
  <2> QED
    BY <1>3, <2>1
<1>14. CASE n = 0
  BY <1>14 DEF FlattenSeq
<1>15. CASE n # 0
  <2>1. flatten[n] \in Seq(S)
    BY <1>13, <1>15 DEF Typed
  <2>2. FlattenSeq(seqs) = flatten[n]
    BY <1>15 DEF FlattenSeq, flatten
  <2> QED
    BY <2>1, <2>2
<1> QED
  BY <1>14, <1>15

-----------------------------------------------------------------------------
(***************************************************************************)
(* Sums over finite sets.  The fold takes the members of a set in an order *)
(* nothing is known of; that the sum does not depend on it is SumSplit.    *)
(***************************************************************************)
SumOver(f, S) == MapThenSumSet(LAMBDA x : f[x], S)

Chosen(T) == CHOOSE x \in T : TRUE

\* The function of the sums over the subsets of S.
IsSum(f, S, g) ==
    g = [T \in SUBSET S |-> IF T = {} THEN 0 ELSE f[Chosen(T)] + g[T \ {Chosen(T)}]]

LEMMA ChosenIsMember == ASSUME NEW T, T # {} PROVE Chosen(T) \in T
BY DEF Chosen

\* Without a member a finite set has one fewer.
LEMMA Smaller ==
    ASSUME NEW T, IsFiniteSet(T), NEW x \in T
    PROVE  /\ IsFiniteSet(T \ {x})
           /\ Cardinality(T) \in Nat \ {0}
           /\ Cardinality(T \ {x}) = Cardinality(T) - 1
<1>1. Cardinality(T) \in Nat /\ Cardinality(T) # 0
  BY FS_CardinalityType, FS_EmptySet
<1> QED
  BY <1>1, FS_RemoveElement

LEMMA SumExists ==
    ASSUME NEW D, IsFiniteSet(D), NEW f, \A x \in D : f[x] \in Int
    PROVE  \E g \in [SUBSET D -> Int] : IsSum(f, D, g)
<1> DEFINE Up(n) == {T \in SUBSET D : Cardinality(T) <= n}
           Next(g, T) == IF T = {} THEN 0 ELSE f[Chosen(T)] + g[T \ {Chosen(T)}]
           Solution(n) == \E g \in [Up(n) -> Int] : \A T \in Up(n) : g[T] = Next(g, T)
           Solved == {n \in 0..Cardinality(D) : Solution(n)}
<1>0. /\ Cardinality(D) \in Nat
      /\ \A T \in SUBSET D : /\ IsFiniteSet(T) /\ Cardinality(T) \in Nat
                             /\ Cardinality(T) <= Cardinality(D)
                             /\ Cardinality(T) = 0 <=> T = {}
  BY FS_CardinalityType, FS_Subset, FS_EmptySet
<1>01. ASSUME NEW T \in SUBSET D, T # {}
       PROVE  /\ Chosen(T) \in T /\ Chosen(T) \in D /\ f[Chosen(T)] \in Int
              /\ T \ {Chosen(T)} \in SUBSET D
              /\ Cardinality(T \ {Chosen(T)}) = Cardinality(T) - 1
  <2>1. Chosen(T) \in T /\ IsFiniteSet(T)
    BY <1>0, <1>01, ChosenIsMember
  <2> QED
    BY <2>1, Smaller
<1>1. 0 \in Solved
  <2>1. Up(0) = {{}}
    BY <1>0
  <2>2. [T \in Up(0) |-> 0] \in [Up(0) -> Int]
    OBVIOUS
  <2>3. Solution(0)
    BY <2>1, <2>2
  <2> HIDE DEF Solution
  <2> QED
    BY <1>0, <2>3
<1>2. ASSUME NEW n \in 0..(Cardinality(D) - 1), n \in Solved
      PROVE  n + 1 \in Solved
  <2> HIDE DEF Next, Up
  <2>1. PICK g \in [Up(n) -> Int] : \A T \in Up(n) : g[T] = Next(g, T)
    BY <1>2
  <2> DEFINE h == [T \in Up(n + 1) |-> IF T \in Up(n) THEN g[T] ELSE Next(g, T)]
  <2>2. \A T \in Up(n + 1) : T # {} => T \ {Chosen(T)} \in Up(n)
    BY <1>0, <1>01 DEF Up
  <2>3. Up(n) \subseteq Up(n + 1) /\ {} \in Up(n)
    BY <1>0 DEF Up
  <2>4. \A T \in Up(n + 1) : h[T] = Next(g, T) /\ Next(h, T) = Next(g, T)
    <3>1. \A T \in Up(n + 1) : h[T] = Next(g, T)
      BY <2>1
    <3>2. \A T \in Up(n) : h[T] = g[T]
      BY <2>3
    <3> HIDE DEF h
    <3> QED
      BY <2>2, <3>1, <3>2 DEF Next
  <2>5. \A T \in Up(n + 1) : Next(g, T) \in Int
    <3> SUFFICES ASSUME NEW T \in Up(n + 1), T # {}
                 PROVE  f[Chosen(T)] + g[T \ {Chosen(T)}] \in Int
      BY DEF Next
    <3>1. g[T \ {Chosen(T)}] \in Int
      BY <2>2
    <3>2. f[Chosen(T)] \in Int
      BY <1>01 DEF Up
    <3> QED
      BY <3>1, <3>2
  <2>6. Solution(n + 1)
    <3>1. h \in [Up(n + 1) -> Int]
      BY <2>1, <2>4, <2>5
    <3> HIDE DEF h
    <3> QED
      BY <2>4, <3>1
  <2>7. n + 1 \in 0..Cardinality(D)
    BY <1>0
  <2> HIDE DEF Solution
  <2> QED
    BY <2>6, <2>7
<1> HIDE DEF Solved
<1>3. \A n \in 0..(Cardinality(D) - 1) : n \in Solved => n + 1 \in Solved
  BY <1>2
<1>4. Cardinality(D) \in Solved
  <2>1. \A n \in 0..Cardinality(D) : n \in Solved
    BY <1>0, <1>1, <1>3, Inductive
  <2> QED
    BY <1>0, <2>1
<1>5. Up(Cardinality(D)) = SUBSET D
  BY <1>0
<1>6. PICK g \in [SUBSET D -> Int] : \A T \in SUBSET D : g[T] = Next(g, T)
  <2> HIDE DEF Up, Next
  <2> QED
    BY <1>4, <1>5 DEF Solved
<1>7. IsSum(f, D, g)
  BY <1>6 DEF IsSum
<1> QED
  BY <1>7

\* What the fold is.
LEMMA SumIs ==
    ASSUME NEW D, IsFiniteSet(D), NEW f, \A x \in D : f[x] \in Int
    PROVE  \E g : IsSum(f, D, g) /\ SumOver(f, D) = g[D]
<1> DEFINE iter == CHOOSE g : IsSum(f, D, g)
<1>1. IsSum(f, D, iter)
  BY SumExists
<1>2. SumOver(f, D) = iter[D]
  BY DEF SumOver, MapThenSumSet, MapThenFoldSet, IsSum, Chosen
<1> QED
  BY <1>1, <1>2

\* Any two of these functions agree where both are defined, and their values are numbers.
LEMMA SumsAgree ==
    ASSUME NEW D, IsFiniteSet(D), NEW E, IsFiniteSet(E),
           NEW f, NEW e, NEW g, NEW h, IsSum(f, D, g), IsSum(e, E, h),
           NEW T, T \subseteq D, T \subseteq E,
           \A x \in T : f[x] = e[x] /\ f[x] \in Int
    PROVE  g[T] = h[T] /\ g[T] \in Int
<1> DEFINE Good == {n \in 0..Cardinality(T) : \A U \in SUBSET T :
                       Cardinality(U) = n => g[U] = h[U] /\ g[U] \in Int}
<1>0. /\ Cardinality(T) \in Nat
      /\ \A U \in SUBSET T : IsFiniteSet(U) /\ (Cardinality(U) = 0 <=> U = {})
  BY FS_CardinalityType, FS_Subset, FS_EmptySet
<1>1. 0 \in Good
  BY <1>0 DEF IsSum
<1>2. ASSUME NEW n \in 0..(Cardinality(T) - 1), n \in Good
      PROVE  n + 1 \in Good
  <2>1. ASSUME NEW U \in SUBSET T, Cardinality(U) = n + 1
        PROVE  g[U] = h[U] /\ g[U] \in Int
    <3>1. U # {} /\ IsFiniteSet(U)
      BY <1>0, <2>1, FS_EmptySet
    <3>2. Chosen(U) \in U
      BY <3>1, ChosenIsMember
    <3>3. U \ {Chosen(U)} \in SUBSET T /\ Cardinality(U \ {Chosen(U)}) = n
      BY <1>0, <2>1, <3>1, <3>2, Smaller
    <3>4. g[U \ {Chosen(U)}] = h[U \ {Chosen(U)}] /\ g[U \ {Chosen(U)}] \in Int
      BY <1>2, <3>3
    <3>5. /\ g[U] = f[Chosen(U)] + g[U \ {Chosen(U)}]
          /\ h[U] = e[Chosen(U)] + h[U \ {Chosen(U)}]
      BY <3>1 DEF IsSum
    <3> QED
      BY <3>2, <3>4, <3>5
  <2> QED
    BY <1>0, <2>1
<1> HIDE DEF Good
<1>3. \A n \in 0..(Cardinality(T) - 1) : n \in Good => n + 1 \in Good
  BY <1>2
<1>4. Cardinality(T) \in Good
  <2>1. \A n \in 0..Cardinality(T) : n \in Good
    BY <1>0, <1>1, <1>3, Inductive
  <2> QED
    BY <1>0, <2>1
<1> QED
  BY <1>4 DEF Good

LEMMA SumType ==
    ASSUME NEW D, IsFiniteSet(D), NEW f, \A x \in D : f[x] \in Int
    PROVE  SumOver(f, D) \in Int
<1>1. PICK g : IsSum(f, D, g) /\ SumOver(f, D) = g[D]
  BY SumIs
<1> QED
  BY <1>1, SumsAgree

LEMMA SumEmpty == \A f : SumOver(f, {}) = 0
BY DEF SumOver, MapThenSumSet, MapThenFoldSet

\* Sums of what is the same are the same.
LEMMA SumSame ==
    ASSUME NEW D, IsFiniteSet(D), NEW f, NEW e, \A x \in D : f[x] = e[x] /\ f[x] \in Int
    PROVE  SumOver(f, D) = SumOver(e, D)
<1>1. PICK g : IsSum(f, D, g) /\ SumOver(f, D) = g[D]
  BY SumIs
<1>2. PICK h : IsSum(e, D, h) /\ SumOver(e, D) = h[D]
  BY SumIs
<1>3. g[D] = h[D]
  BY <1>1, <1>2, SumsAgree
<1> QED
  BY <1>1, <1>2, <1>3

\* One member of the set can be taken out, whichever it is.
LEMMA SumSplit ==
    ASSUME NEW D, IsFiniteSet(D), NEW f, \A x \in D : f[x] \in Int, NEW d \in D
    PROVE  SumOver(f, D) = f[d] + SumOver(f, D \ {d})
<1>1. PICK g : IsSum(f, D, g) /\ SumOver(f, D) = g[D]
  BY SumIs
<1> DEFINE Good == {n \in 0..Cardinality(D) : \A T \in SUBSET D : \A x \in T :
                       Cardinality(T) = n => g[T] = f[x] + g[T \ {x}]}
<1>0. /\ Cardinality(D) \in Nat
      /\ \A T \in SUBSET D : IsFiniteSet(T) /\ (Cardinality(T) = 0 <=> T = {})
  BY FS_CardinalityType, FS_Subset, FS_EmptySet
<1>2. \A T \in SUBSET D : g[T] \in Int
  BY <1>1, SumsAgree
<1>3. 0 \in Good
  BY <1>0
<1>4. ASSUME NEW n \in 0..(Cardinality(D) - 1), n \in Good
      PROVE  n + 1 \in Good
  <2>1. ASSUME NEW T \in SUBSET D, NEW x \in T, Cardinality(T) = n + 1
        PROVE  g[T] = f[x] + g[T \ {x}]
    <3> DEFINE c == Chosen(T)
    <3>1. c \in T /\ T # {}
      BY ChosenIsMember
    <3>2. g[T] = f[c] + g[T \ {c}]
      BY <1>1, <3>1 DEF IsSum
    <3>3. CASE x = c
      BY <3>2, <3>3
    <3>4. CASE x # c
      <4>1. /\ T \ {c} \in SUBSET D /\ x \in T \ {c} /\ Cardinality(T \ {c}) = n
            /\ T \ {x} \in SUBSET D /\ c \in T \ {x} /\ Cardinality(T \ {x}) = n
        BY <1>0, <2>1, <3>1, <3>4, Smaller
      <4>2. g[T \ {c}] = f[x] + g[(T \ {c}) \ {x}] /\ g[T \ {x}] = f[c] + g[(T \ {x}) \ {c}]
        BY <1>4, <4>1
      <4>3. (T \ {c}) \ {x} = (T \ {x}) \ {c} /\ (T \ {c}) \ {x} \in SUBSET D
        OBVIOUS
      <4>4. g[(T \ {c}) \ {x}] \in Int /\ f[c] \in Int /\ f[x] \in Int
        BY <1>2, <3>1, <4>3
      <4> DEFINE r == g[(T \ {c}) \ {x}]
      <4>5. /\ g[T] = f[c] + (f[x] + r) /\ g[T \ {x}] = f[c] + r
            /\ r \in Int /\ f[c] \in Int /\ f[x] \in Int
        <5> HIDE DEF c
        <5> QED
          BY <3>2, <4>2, <4>3, <4>4
      <4> HIDE DEF c, r
      <4> QED
        BY <4>5
    <3> QED
      BY <3>3, <3>4
  <2> QED
    BY <1>0, <2>1
<1> HIDE DEF Good
<1>5. \A n \in 0..(Cardinality(D) - 1) : n \in Good => n + 1 \in Good
  BY <1>4
<1>6. Cardinality(D) \in Good
  <2>1. \A n \in 0..Cardinality(D) : n \in Good
    BY <1>0, <1>3, <1>5, Inductive
  <2> QED
    BY <1>0, <2>1
<1>7. g[D] = f[d] + g[D \ {d}]
  BY <1>6 DEF Good
<1>8. g[D \ {d}] = SumOver(f, D \ {d})
  <2>1. IsFiniteSet(D \ {d}) /\ \A x \in D \ {d} : f[x] \in Int
    BY FS_RemoveElement
  <2>2. PICK h : IsSum(f, D \ {d}, h) /\ SumOver(f, D \ {d}) = h[D \ {d}]
    BY <2>1, SumIs
  <2>3. g[D \ {d}] = h[D \ {d}]
    BY <1>1, <2>1, <2>2, SumsAgree
  <2> QED
    BY <2>2, <2>3
<1> QED
  BY <1>1, <1>7, <1>8

\* One term changes, the others stay.
LEMMA SumChange ==
    ASSUME NEW D, IsFiniteSet(D), NEW f, NEW e, NEW d \in D, \A x \in D : f[x] \in Int,
           e[d] \in Int, \A x \in D : x # d => e[x] = f[x]
    PROVE  SumOver(e, D) = SumOver(f, D) + e[d] - f[d]
<1>1. IsFiniteSet(D \ {d}) /\ \A x \in D \ {d} : f[x] = e[x] /\ f[x] \in Int
  BY FS_RemoveElement
<1>2. SumOver(f, D \ {d}) = SumOver(e, D \ {d}) /\ SumOver(f, D \ {d}) \in Int
  BY <1>1, SumSame, SumType
<1>3. SumOver(f, D) = f[d] + SumOver(f, D \ {d})
  BY SumSplit
<1>4. \A x \in D : e[x] \in Int
  OBVIOUS
<1>5. SumOver(e, D) = e[d] + SumOver(e, D \ {d})
  BY <1>4, SumSplit
<1>6. f[d] \in Int /\ e[d] \in Int
  OBVIOUS
<1> QED
  BY <1>2, <1>3, <1>5, <1>6

\* Terms that are not negative.
LEMMA SumOfNaturals ==
    ASSUME NEW D, IsFiniteSet(D), NEW f, \A x \in D : f[x] \in Nat
    PROVE  SumOver(f, D) \in Nat /\ \A d \in D : f[d] <= SumOver(f, D)
<1> DEFINE Good == {n \in 0..Cardinality(D) : \A T \in SUBSET D :
                       Cardinality(T) = n => SumOver(f, T) \in Nat}
<1>0. /\ Cardinality(D) \in Nat
      /\ \A T \in SUBSET D : IsFiniteSet(T) /\ (Cardinality(T) = 0 <=> T = {})
      /\ \A T \in SUBSET D : \A x \in T : f[x] \in Nat
  BY FS_CardinalityType, FS_Subset, FS_EmptySet
<1>1. 0 \in Good
  BY <1>0, SumEmpty
<1>2. ASSUME NEW n \in 0..(Cardinality(D) - 1), n \in Good
      PROVE  n + 1 \in Good
  <2>1. ASSUME NEW T \in SUBSET D, Cardinality(T) = n + 1
        PROVE  SumOver(f, T) \in Nat
    <3>1. T # {} /\ IsFiniteSet(T)
      BY <1>0, <2>1, FS_EmptySet
    <3>2. PICK x : x \in T
      BY <3>1
    <3>3. T \ {x} \in SUBSET D /\ Cardinality(T \ {x}) = n
      BY <1>0, <2>1, <3>1, <3>2, Smaller
    <3>4. SumOver(f, T \ {x}) \in Nat
      BY <1>2, <3>3
    <3>5. \A y \in T : f[y] \in Int
      BY <1>0
    <3>6. SumOver(f, T) = f[x] + SumOver(f, T \ {x})
      BY <3>1, <3>2, <3>5, SumSplit
    <3>7. f[x] \in Nat
      BY <1>0, <3>2
    <3> QED
      BY <3>4, <3>6, <3>7
  <2> QED
    BY <1>0, <2>1
<1> HIDE DEF Good
<1>3. \A n \in 0..(Cardinality(D) - 1) : n \in Good => n + 1 \in Good
  BY <1>2
<1>4. \A n \in 0..Cardinality(D) : n \in Good
  BY <1>0, <1>1, <1>3, Inductive
<1>5. \A T \in SUBSET D : SumOver(f, T) \in Nat
  <2> SUFFICES ASSUME NEW T \in SUBSET D
               PROVE  SumOver(f, T) \in Nat
    OBVIOUS
  <2>1. Cardinality(T) \in 0..Cardinality(D)
    BY <1>0, FS_CardinalityType, FS_Subset
  <2> QED
    BY <1>4, <2>1 DEF Good
<1>6. ASSUME NEW d \in D
      PROVE  f[d] <= SumOver(f, D)
  <2>1. SumOver(f, D) = f[d] + SumOver(f, D \ {d})
    BY SumSplit
  <2>2. SumOver(f, D \ {d}) \in Nat /\ f[d] \in Nat
    BY <1>5
  <2> QED
    BY <2>1, <2>2
<1> QED
  BY <1>5, <1>6

\* A term for a new member.
LEMMA SumAdd ==
    ASSUME NEW D, IsFiniteSet(D), NEW f, NEW e, NEW d, d \notin D,
           \A x \in D : f[x] \in Int /\ e[x] = f[x], e[d] \in Int,
           NEW E, E = D \cup {d}
    PROVE  SumOver(e, E) = SumOver(f, D) + e[d]
<1>1. IsFiniteSet(E) /\ E \ {d} = D /\ d \in E /\ \A x \in E : e[x] \in Int
  BY FS_AddElement
<1>2. SumOver(e, E) = e[d] + SumOver(e, E \ {d})
  BY <1>1, SumSplit
<1>3. SumOver(e, D) = SumOver(f, D) /\ SumOver(f, D) \in Int
  BY SumSame, SumType
<1>4. SumOver(e, E \ {d}) = SumOver(e, D)
  BY <1>1, Zenon
<1> QED
  BY <1>2, <1>3, <1>4

\* A sum of zeros.
LEMMA SumOfZeros ==
    ASSUME NEW D, IsFiniteSet(D), NEW f, \A x \in D : f[x] = 0
    PROVE  SumOver(f, D) = 0
<1>1. PICK g : IsSum(f, D, g) /\ SumOver(f, D) = g[D]
  BY SumIs
<1> DEFINE Good == {n \in 0..Cardinality(D) : \A T \in SUBSET D : Cardinality(T) = n => g[T] = 0}
<1>2. Cardinality(D) \in Nat
  BY FS_CardinalityType
<1>3. 0 \in Good
  <2> SUFFICES ASSUME NEW T \in SUBSET D, Cardinality(T) = 0
               PROVE  g[T] = 0
    BY <1>2
  <2>1. T = {}
    BY FS_EmptySet, FS_Subset
  <2> QED
    BY <1>1, <2>1 DEF IsSum
<1>4. ASSUME NEW n \in 0..(Cardinality(D) - 1), n \in Good
      PROVE  n + 1 \in Good
  <2> SUFFICES ASSUME NEW T \in SUBSET D, Cardinality(T) = n + 1
               PROVE  g[T] = 0
    BY <1>2
  <2>1. T # {}
    BY FS_EmptySet
  <2>2. IsFiniteSet(T) /\ Chosen(T) \in T
    BY <2>1, FS_Subset, ChosenIsMember
  <2>3. T \ {Chosen(T)} \in SUBSET D /\ Cardinality(T \ {Chosen(T)}) = n
    BY <1>2, <2>2, Smaller
  <2>4. g[T \ {Chosen(T)}] = 0 /\ f[Chosen(T)] = 0
    BY <1>4, <2>2, <2>3
  <2>5. g[T] = f[Chosen(T)] + g[T \ {Chosen(T)}]
    <3> DEFINE c == Chosen(T)
    <3> HIDE DEF c
    <3> QED
      BY <1>1, <2>1 DEF IsSum, c
  <2> QED
    BY <2>4, <2>5
<1> HIDE DEF Good
<1>5. \A n \in 0..Cardinality(D) : n \in Good
  BY <1>2, <1>3, <1>4, Inductive
<1> QED
  BY <1>1, <1>2, <1>5 DEF Good

\* A sequence of numbers without the entry at one place: the later ones move down.
LEMMA SumWithout ==
    ASSUME NEW n \in Nat \ {0}, NEW f, \A i \in 1..n : f[i] \in Int, NEW k \in 1..n,
           NEW e, \A i \in 1..(n - 1) : e[i] = IF i < k THEN f[i] ELSE f[i + 1]
    PROVE  SumOver(e, 1..(n - 1)) = SumOver(f, 1..n) - f[k]
<1> DEFINE D == 1..(n - 1)
           Without(m) == [i \in D |-> IF i < m THEN f[i] ELSE f[i + 1]]
           Good == {j \in 0..(n - 1) : SumOver(Without(n - j), D) = SumOver(f, 1..n) - f[n - j]}
<1>0. n - 1 \in Nat /\ IsFiniteSet(D) /\ IsFiniteSet(1..n) /\ SumOver(f, 1..n) \in Int
  <2>1. n - 1 \in Nat /\ IsFiniteSet(D) /\ IsFiniteSet(1..n)
    BY FS_Interval
  <2> QED
    BY <2>1, SumType
<1>1. 0 \in Good
  <2>1. \A i \in D : Without(n)[i] = f[i] /\ f[i] \in Int
    BY <1>0
  <2>2. PICK g : g = Without(n)
    OBVIOUS
  <2>3. SumOver(g, D) = SumOver(f, D) /\ SumOver(f, D) \in Int
    BY <1>0, <2>1, <2>2, SumSame, SumType
  <2>4. (1..n) \ {n} = D /\ n \in 1..n /\ f[n] \in Int
    BY <1>0
  <2>5. SumOver(f, 1..n) = f[n] + SumOver(f, (1..n) \ {n})
    BY <1>0, <2>4, SumSplit
  <2>6. SumOver(g, D) = SumOver(f, 1..n) - f[n]
    <3>1. SumOver(f, (1..n) \ {n}) = SumOver(f, D)
      BY <2>4, Zenon
    <3> HIDE DEF D
    <3> QED
      BY <1>0, <2>3, <2>4, <2>5, <3>1
  <2>7. n - 0 = n /\ 0 \in 0..(n - 1)
    BY <1>0
  <2> QED
    BY <2>2, <2>6, <2>7
<1>2. ASSUME NEW j \in 0..(n - 1 - 1), j \in Good
      PROVE  j + 1 \in Good
  <2>1. PICK m : m \in 1..(n - 1) /\ n - (j + 1) = m /\ n - j = m + 1
    BY <1>0
  <2>2. PICK g, h : g = Without(m + 1) /\ h = Without(m)
    OBVIOUS
  <2>3. /\ m \in D /\ g[m] = f[m] /\ h[m] = f[m + 1] /\ f[m] \in Int /\ f[m + 1] \in Int
        /\ \A i \in D : g[i] \in Int
        /\ \A i \in D : i # m => h[i] = g[i]
    BY <1>0, <2>1, <2>2
  <2>4. SumOver(h, D) = SumOver(g, D) + h[m] - g[m]
    <3>1. IsFiniteSet(D) /\ m \in D /\ h[m] \in Int /\ (\A i \in D : g[i] \in Int)
          /\ \A i \in D : i # m => h[i] = g[i]
      BY <1>0, <2>3
    <3> HIDE DEF D
    <3> QED
      BY <3>1, SumChange
  <2>5. SumOver(g, D) = SumOver(f, 1..n) - f[m + 1]
    BY <1>2, <2>1, <2>2
  <2>6. SumOver(h, D) = SumOver(f, 1..n) - f[m]
    BY <1>0, <2>3, <2>4, <2>5
  <2> QED
    BY <1>0, <2>1, <2>2, <2>6
<1>3. \A j \in 0..(n - 1) : j \in Good
  <2> HIDE DEF Good
  <2> QED
    BY <1>0, <1>1, <1>2, Inductive
<1>4. n - k \in Good /\ n - (n - k) = k
  <2>1. n - k \in 0..(n - 1) /\ n - (n - k) = k
    BY <1>0
  <2> HIDE DEF Good
  <2> QED
    BY <1>3, <2>1
<1>5. SumOver(Without(k), D) = SumOver(f, 1..n) - f[k]
  BY <1>4
<1>6. PICK g : g = Without(k)
  OBVIOUS
<1>7. \A i \in D : e[i] = g[i] /\ e[i] \in Int
  BY <1>0, <1>6
<1>8. SumOver(e, D) = SumOver(g, D)
  BY <1>0, <1>7, SumSame
<1> QED
  BY <1>5, <1>6, <1>8
=============================================================================
