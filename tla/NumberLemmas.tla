---------------------------- MODULE NumberLemmas ----------------------------
(***************************************************************************)
(* Induction and recursion on the natural numbers.  They speak of sets and *)
(* functions where the library's theorems speak of operators.              *)
(***************************************************************************)
EXTENDS Integers, WellFoundedInduction, TLAPS

\* Some numbers that are bounded from below have a least one.
LEMMA LeastNumber ==
    ASSUME NEW S, NEW low \in Int, \A s \in S : s \in Int /\ low <= s, S # {}
    PROVE  \E t \in S : \A s \in S : t <= s
<1> DEFINE T == {s - low : s \in S}
<1>1. T \subseteq Nat /\ T # {}
  OBVIOUS
<1>2. \E x \in T : \A y \in T : <<y, x>> \notin OpToRel(<, Nat)
  <2> HIDE DEF T
  <2> QED
    BY <1>1, NatLessThanWellFounded, WFMin, Zenon
<1>3. PICK x \in T : \A y \in T : <<y, x>> \notin OpToRel(<, Nat)
  BY <1>2, Zenon
<1>4. \A y \in T : ~(y < x)
  <2> SUFFICES ASSUME NEW y \in T, y < x
               PROVE  FALSE
    BY Zenon
  <2>1. <<y, x>> \in Nat \X Nat /\ <<y, x>>[1] < <<y, x>>[2]
    BY <1>1
  <2>2. <<y, x>> \in OpToRel(<, Nat)
    BY <2>1, Zenon DEF OpToRel
  <2> QED
    BY <2>2, <1>3, Zenon
<1>5. PICK t \in S : x = t - low
  BY Zenon
<1>6. \A s \in S : t <= s
  <2> SUFFICES ASSUME NEW s \in S
               PROVE  t <= s
    OBVIOUS
  <2>1. s - low \in T
    OBVIOUS
  <2>2. ~(s - low < t - low)
    BY <2>1, <1>4, <1>5
  <2> QED
    BY <2>2
<1> QED
  BY <1>6

\* What holds of 0, and of n + 1 if it holds of n, holds of all numbers.
LEMMA Induction ==
    ASSUME NEW S, 0 \in S, \A n \in Nat : n \in S => n + 1 \in S
    PROVE  Nat \subseteq S
<1> DEFINE T == Nat \ S
<1> SUFFICES ASSUME T # {}
             PROVE  FALSE
  OBVIOUS
<1>1. \A s \in T : s \in Int /\ 0 <= s
  OBVIOUS
<1>2. \E t \in T : \A s \in T : t <= s
  <2> HIDE DEF T
  <2> QED
    BY <1>1, LeastNumber
<1>3. PICK t \in T : \A s \in T : t <= s
  BY <1>2
<1>4. t # 0 /\ t - 1 \in Nat /\ t - 1 \notin T
  BY <1>3
<1> QED
  BY <1>3, <1>4

\* g is the sequence of values that begins with base and goes on with step.
IsRecursion(g, n, V, base, step) ==
    /\ g \in [0..n -> V]
    /\ g[0] = base
    /\ \A k \in 0..(n - 1) : g[k + 1] = step[k][g[k]]

\* There is such a sequence of any length ...
LEMMA RecursionExists ==
    ASSUME NEW V, NEW base \in V, NEW step \in [Nat -> [V -> V]], NEW n \in Nat
    PROVE  \E g : IsRecursion(g, n, V, base, step)
<1> DEFINE S == {m \in Nat : \E g : IsRecursion(g, m, V, base, step)}
<1>1. 0 \in S
  <2>1. IsRecursion([k \in 0..0 |-> base], 0, V, base, step)
    BY DEF IsRecursion
  <2> QED
    BY <2>1
<1>2. ASSUME NEW m \in Nat, m \in S
      PROVE  m + 1 \in S
  <2>1. PICK g : IsRecursion(g, m, V, base, step)
    BY <1>2
  <2> DEFINE h == [k \in 0..(m + 1) |->
                      IF k <= m THEN g[k] ELSE step[m][g[m]]]
  <2>2. g[m] \in V /\ step[m][g[m]] \in V
    BY <2>1 DEF IsRecursion
  <2>3. h \in [0..(m + 1) -> V]
    BY <2>1, <2>2 DEF IsRecursion
  <2>4. h[0] = base
    BY <2>1 DEF IsRecursion
  <2>5. \A k \in 0..m : h[k + 1] = step[k][h[k]]
    <3> SUFFICES ASSUME NEW k \in 0..m
                 PROVE  h[k + 1] = step[k][h[k]]
      OBVIOUS
    <3>1. CASE k < m
      BY <2>1, <3>1 DEF IsRecursion
    <3>2. CASE k = m
      BY <3>2
    <3> QED
      BY <3>1, <3>2
  <2>6. IsRecursion(h, m + 1, V, base, step)
    <3> HIDE DEF h
    <3> QED
      BY <2>3, <2>4, <2>5 DEF IsRecursion
  <2> HIDE DEF h
  <2> QED
    BY <2>6
<1>3. Nat \subseteq S
  <2> HIDE DEF S
  <2> QED
    BY <1>1, <1>2, Induction
<1> QED
  BY <1>3

\* ... and two of them agree as far as both go ...
LEMMA RecursionUnique ==
    ASSUME NEW V, NEW base, NEW step, NEW n \in Nat, NEW m \in Nat, n <= m,
           NEW g, IsRecursion(g, n, V, base, step),
           NEW h, IsRecursion(h, m, V, base, step)
    PROVE  g[n] = h[n]
<1> DEFINE S == {k \in Nat : k <= n => g[k] = h[k]}
<1>1. 0 \in S
  BY DEF IsRecursion
<1>2. ASSUME NEW k \in Nat, k \in S
      PROVE  k + 1 \in S
  <2>1. CASE k + 1 <= n
    BY <1>2, <2>1 DEF IsRecursion
  <2>2. CASE ~(k + 1 <= n)
    BY <2>2
  <2> QED
    BY <2>1, <2>2
<1>3. Nat \subseteq S
  <2> HIDE DEF S
  <2> QED
    BY <1>1, <1>2, Induction
<1> QED
  BY <1>3

\* ... so that there is one without an end.
Recurses(V, base, step) ==
    \E g \in [Nat -> V] :
        /\ g[0] = base
        /\ \A n \in Nat : g[n + 1] = step[n][g[n]]

LEMMA Recursion ==
    ASSUME NEW V, NEW base \in V, NEW step \in [Nat -> [V -> V]]
    PROVE  Recurses(V, base, step)
<1> DEFINE part(n) == CHOOSE g : IsRecursion(g, n, V, base, step)
           g == [n \in Nat |-> part(n)[n]]
<1>1. \A n \in Nat : IsRecursion(part(n), n, V, base, step)
  BY RecursionExists
<1> HIDE DEF part
<1>2. g \in [Nat -> V] /\ g[0] = base
  BY <1>1 DEF IsRecursion
<1>3. \A n \in Nat : g[n + 1] = step[n][g[n]]
  <2> SUFFICES ASSUME NEW n \in Nat
               PROVE  part(n + 1)[n + 1] = step[n][part(n)[n]]
    OBVIOUS
  <2>1. part(n)[n] = part(n + 1)[n]
    BY <1>1, RecursionUnique
  <2>2. part(n + 1)[n + 1] = step[n][part(n + 1)[n]]
    BY <1>1 DEF IsRecursion
  <2> QED
    BY <2>1, <2>2
<1> QED
  <2> HIDE DEF g
  <2> QED
    BY <1>2, <1>3 DEF Recurses
=============================================================================
