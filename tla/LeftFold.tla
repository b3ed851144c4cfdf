------------------------------ MODULE LeftFold ------------------------------
(***************************************************************************)
(* Induction for the folds of the models.  FoldLeft(Op, b, q) is defined   *)
(* by a recursive function on the sets of indices of q.  That there is     *)
(* one, and that what each step of the fold keeps holds of its result,     *)
(* follows by induction on the length of q.                                *)
(*                                                                         *)
(* The induction rests on the minimum principle of WellFoundedInduction,   *)
(* which is about sets (its other theorems have an operator for parameter, *)
(* and the provers cannot instantiate that).  Here the operators are       *)
(* constants of the module, which those who fold name in an INSTANCE.      *)
(***************************************************************************)
EXTENDS Integers, SequencesExt, WellFoundedInduction, TLAPS

CONSTANTS
    Op(_, _, _, _),         \* a step: from g to Op(x, y, g, r)
    P(_, _, _, _, _, _)     \* what it keeps: P(x, y, b, q, n, g) of the value g
                            \* after the first n elements of q

Fold(x, y, b, q) == FoldLeft(LAMBDA g, r : Op(x, y, g, r), b, q)

-----------------------------------------------------------------------------
(* Numbers.                                                                *)

\* A set that has 0, and with a number the next, has all numbers.
LEMMA AllNumbers ==
    ASSUME NEW T, 0 \in T, \A n \in Nat : n \in T => n + 1 \in T
    PROVE  Nat \subseteq T
<1> SUFFICES ASSUME Nat \ T # {} PROVE FALSE
  OBVIOUS
<1>1. PICK x \in Nat \ T : \A y \in Nat \ T : ~(<<y, x>> \in OpToRel(<, Nat))
  BY NatLessThanWellFounded, WFMin
<1>2. \A y \in Nat \ T : ~(y < x)
  BY <1>1 DEF OpToRel
<1>3. x # 0 /\ x - 1 \in Nat /\ x - 1 < x
  OBVIOUS
<1>4. x - 1 \in T
  BY <1>2, <1>3
<1> QED BY <1>3, <1>4

\* The greatest of a set that has n and none above it.
LEMMA MaxIs ==
    ASSUME NEW n \in Nat, NEW s \in SUBSET (1..n), n \in s
    PROVE  Max(s) = n
<1>1. s \subseteq Int /\ \A i \in s : n >= i
  OBVIOUS
<1>2. \E i \in s : \A j \in s : i >= j
  BY <1>1
<1>3. Max(s) \in s /\ \A j \in s : Max(s) >= j
  BY <1>2 DEF Max
<1>4. Max(s) \in Int /\ Max(s) >= n /\ n >= Max(s)
  BY <1>1, <1>3
<1> QED BY <1>4

\* A set of numbers up to n that is not empty has a greatest.
LEMMA MaxIn ==
    ASSUME NEW n \in Nat, NEW s \in SUBSET (1..n), s # {}
    PROVE  Max(s) \in s /\ \A i \in s : Max(s) >= i
<1> DEFINE T == {m \in Nat : \A t \in SUBSET (1..m) : t # {} => \E i \in t : \A j \in t : i >= j}
<1>1. 0 \in T
  <2>1. 1..0 = {}
    OBVIOUS
  <2> QED BY <2>1
<1>2. ASSUME NEW m \in Nat, m \in T PROVE m + 1 \in T
  <2> SUFFICES ASSUME NEW t \in SUBSET (1..m + 1), t # {} PROVE \E i \in t : \A j \in t : i >= j
    OBVIOUS
  <2>1. CASE m + 1 \in t
    BY <2>1
  <2>2. CASE m + 1 \notin t
    <3>1. t \in SUBSET (1..m)
      BY <2>2
    <3> QED BY <3>1, <1>2
  <2> QED BY <2>1, <2>2
<1> HIDE DEF T
<1>3. n \in T
  BY <1>1, <1>2, AllNumbers
<1>4. \E i \in s : \A j \in s : i >= j
  BY <1>3 DEF T
<1> QED BY <1>4 DEF Max

\* A property of numbers that does not hold of all from n to m has a first for
\* which it does not: up to there it holds.
LEMMA FirstFailing ==
    ASSUME NEW A, NEW n \in Nat, NEW m \in Nat, n <= m
    PROVE  \E i \in n..m : /\ \A j \in n + 1..i : j \in A
                           /\ i < m => i + 1 \notin A
<1> DEFINE T == {i \in Nat : n + i <= m => \/ \A j \in n + 1..n + i : j \in A
                                           \/ \E l \in n..n + i : /\ l < n + i
                                                                  /\ \A j \in n + 1..l : j \in A
                                                                  /\ l + 1 \notin A}
<1>1. 0 \in T
  OBVIOUS
<1>2. ASSUME NEW i \in Nat, i \in T PROVE i + 1 \in T
  <2> SUFFICES ASSUME n + (i + 1) <= m, ~ \A j \in n + 1..n + (i + 1) : j \in A
               PROVE  \E l \in n..n + (i + 1) : /\ l < n + (i + 1)
                                                /\ \A j \in n + 1..l : j \in A
                                                /\ l + 1 \notin A
    OBVIOUS
  <2>1. CASE \A j \in n + 1..n + i : j \in A
    <3>1. (n + i) + 1 \notin A
      BY <2>1
    <3> QED BY <2>1, <3>1
  <2>2. CASE ~ \A j \in n + 1..n + i : j \in A
    BY <1>2, <2>2
  <2> QED BY <2>1, <2>2
<1> HIDE DEF T
<1>3. m - n \in T
  BY <1>1, <1>2, AllNumbers
<1>4. n + (m - n) = m
  OBVIOUS
<1> QED BY <1>3, <1>4 DEF T

-----------------------------------------------------------------------------
(* The fold.                                                               *)

\* The function on the sets of indices up to n by which FoldLeft is defined.
Iter(f, x, y, b, q, n) ==
    f = [s \in SUBSET (1..n) |->
           IF s = {} THEN b ELSE Op(x, y, f[s \ {Max(s)}], q[Max(s)])]

\* For every n there is such a function.
LEMMA IterExists ==
    ASSUME NEW x, NEW y, NEW b, NEW q
    PROVE  \A n \in Nat : \E f : Iter(f, x, y, b, q, n)
<1> DEFINE T == {n \in Nat : \E f : Iter(f, x, y, b, q, n)}
<1>1. 0 \in T
  <2> DEFINE f == [s \in SUBSET (1..0) |-> b]
  <2>1. Iter(f, x, y, b, q, 0)
    BY DEF Iter
  <2> QED BY <2>1
<1>2. ASSUME NEW n \in Nat, n \in T PROVE n + 1 \in T
  <2>1. PICK f : Iter(f, x, y, b, q, n)
    BY <1>2
  <2> DEFINE g == [s \in SUBSET (1..n + 1) |->
                     IF n + 1 \in s THEN Op(x, y, f[s \ {n + 1}], q[n + 1]) ELSE f[s]]
  <2>2. ASSUME NEW s \in SUBSET (1..n + 1)
        PROVE  g[s] = IF s = {} THEN b ELSE Op(x, y, g[s \ {Max(s)}], q[Max(s)])
    <3>1. CASE n + 1 \in s
      <4>1. Max(s) = n + 1
        BY <3>1, MaxIs
      <4>2. s \ {n + 1} \in SUBSET (1..n) /\ n + 1 \notin s \ {n + 1} /\ s \ {n + 1} \in SUBSET (1..n + 1)
        OBVIOUS
      <4>3. g[s \ {n + 1}] = f[s \ {n + 1}]
        BY <4>2
      <4> QED BY <3>1, <4>1, <4>3
    <3>2. CASE n + 1 \notin s
      <4>1. s \in SUBSET (1..n)
        BY <3>2
      <4>2. f[s] = IF s = {} THEN b ELSE Op(x, y, f[s \ {Max(s)}], q[Max(s)])
        BY <2>1, <4>1 DEF Iter
      <4>3. CASE s = {}
        BY <3>2, <4>2, <4>3
      <4>4. CASE s # {}
        <5>1. s \ {Max(s)} \in SUBSET (1..n + 1) /\ n + 1 \notin s \ {Max(s)}
          BY <3>2
        <5>2. g[s \ {Max(s)}] = f[s \ {Max(s)}]
          BY <5>1
        <5> QED BY <3>2, <4>2, <4>4, <5>2
      <4> QED BY <4>3, <4>4
    <3> QED BY <3>1, <3>2
  <2>3. Iter(g, x, y, b, q, n + 1)
    BY <2>2 DEF Iter
  <2> QED BY <2>3
<1> HIDE DEF T
<1>3. Nat \subseteq T
  BY <1>1, <1>2, AllNumbers
<1> QED BY <1>3 DEF T

\* What holds at first and is kept by each step holds of the result.
THEOREM FoldKeeps ==
    ASSUME NEW x, NEW y, NEW b, NEW R, NEW q \in Seq(R),
           P(x, y, b, q, 0, b),
           \A n \in 1..Len(q) : \A g :
              P(x, y, b, q, n - 1, g) => P(x, y, b, q, n, Op(x, y, g, q[n]))
    PROVE  P(x, y, b, q, Len(q), Fold(x, y, b, q))
<1> DEFINE f == CHOOSE f : f = [s \in SUBSET (DOMAIN q) |->
                       IF s = {} THEN b ELSE Op(x, y, f[s \ {Max(s)}], q[Max(s)])]
<1>1. Fold(x, y, b, q) = f[DOMAIN q]
  BY DEF Fold, FoldLeft, MapThenFoldSet
<1>2. DOMAIN q = 1..Len(q) /\ Len(q) \in Nat
  OBVIOUS
<1>3. f = [s \in SUBSET (1..Len(q)) |->
                       IF s = {} THEN b ELSE Op(x, y, f[s \ {Max(s)}], q[Max(s)])]
  <2> DEFINE D == DOMAIN q
  <2>1. \E g : Iter(g, x, y, b, q, Len(q))
    BY <1>2, IterExists
  <2>2. \E g : g = [s \in SUBSET D |->
                       IF s = {} THEN b ELSE Op(x, y, g[s \ {Max(s)}], q[Max(s)])]
    BY <1>2, <2>1 DEF Iter
  <2>3. f = [s \in SUBSET D |->
                       IF s = {} THEN b ELSE Op(x, y, f[s \ {Max(s)}], q[Max(s)])]
    BY <2>2
  <2> QED BY <1>2, <2>3
<1> HIDE DEF f
<1> DEFINE T == {n \in Nat : n <= Len(q) => P(x, y, b, q, n, f[1..n])}
<1>4. 0 \in T
  BY <1>3
<1>5. ASSUME NEW n \in Nat, n \in T PROVE n + 1 \in T
  <2> SUFFICES ASSUME n + 1 <= Len(q) PROVE P(x, y, b, q, n + 1, f[1..n + 1])
    OBVIOUS
  <2>1. P(x, y, b, q, n, f[1..n])
    BY <1>5, <1>2
  <2>2. Max(1..n + 1) = n + 1
    BY MaxIs
  <2>3. 1..n + 1 \in SUBSET (1..Len(q)) /\ 1..n + 1 # {} /\ (1..n + 1) \ {n + 1} = 1..n
    <3>1. 1..n + 1 \subseteq 1..Len(q) /\ n + 1 \in 1..n + 1
      BY <1>2
    <3>2. (1..n + 1) \ {n + 1} = 1..n
      OBVIOUS
    <3> QED BY <3>1, <3>2
  <2>4. f[1..n + 1] = Op(x, y, f[1..n], q[n + 1])
    BY <1>3, <2>2, <2>3
  <2>5. n + 1 \in 1..Len(q) /\ (n + 1) - 1 = n
    BY <1>2
  <2> QED BY <2>1, <2>4, <2>5
<1> HIDE DEF T
<1>6. Len(q) \in T
  BY <1>2, <1>4, <1>5, AllNumbers
<1> QED BY <1>1, <1>2, <1>6 DEF T
=============================================================================
