------------------------------ MODULE Induction ------------------------------
(***************************************************************************)
(* Induction over the natural numbers, stated for a set instead of a       *)
(* predicate so that it can be cited with any set of numbers.              *)
(***************************************************************************)
EXTENDS Integers, WellFoundedInduction, TLAPS

\* A set of natural numbers has a least element.
LEMMA LeastNumber ==
    ASSUME NEW S \in SUBSET Nat, S # {}
    PROVE  \E x \in S : \A y \in S : x <= y
<1>1. PICK x \in S : \A y \in S : ~(<<y, x>> \in OpToRel(<, Nat))
  BY NatLessThanWellFounded, WFMin
<1>2. \A y \in S : ~(y < x)
  BY <1>1 DEF OpToRel
<1>. QED  BY <1>2

\* The set of the numbers up to n that have a property contains them all if it contains
\* 0 and the successor of each of its elements.
LEMMA UpTo ==
    ASSUME NEW n \in Nat, NEW S, 0 \in S,
           \A i \in 0 .. n - 1 : i \in S => i + 1 \in S
    PROVE  \A i \in 0 .. n : i \in S
<1>. SUFFICES ASSUME NEW k \in 0 .. n, k \notin S PROVE FALSE
  OBVIOUS
<1>. DEFINE bad == {i \in 0 .. n : i \notin S}
<1>1. bad \in SUBSET Nat /\ bad # {}
  OBVIOUS
<1>2. PICK x \in bad : \A y \in bad : x <= y
  BY <1>1, LeastNumber
<1>3. x - 1 \in 0 .. n - 1 /\ x - 1 \notin bad
  BY <1>2
<1>4. x - 1 \in S
  BY <1>3
<1>. QED  BY <1>2, <1>3, <1>4

\* The same for all numbers.
LEMMA AllNumbers ==
    ASSUME NEW S, 0 \in S, \A i \in Nat : i \in S => i + 1 \in S
    PROVE  \A i \in Nat : i \in S
<1>. SUFFICES ASSUME NEW n \in Nat PROVE n \in S
  OBVIOUS
<1>1. \A i \in 0 .. n - 1 : i \in S => i + 1 \in S
  OBVIOUS
<1>. QED  BY <1>1, UpTo

\* The ways to go on, at each number up to n, from an element of A to the next, and the
\* way that step leads from a.
Steps(A, n) == [(1 .. n) \X A -> A]
LedBy(step, n, a, g) == g[0] = a /\ \A i \in 1 .. n : g[i] = step[<<i, g[i-1]>>]

\* What is defined step by step exists.
LEMMA Recursion ==
    ASSUME NEW A, NEW n \in Nat, NEW a \in A, NEW step \in Steps(A, n)
    PROVE  \E g \in [0 .. n -> A] : LedBy(step, n, a, g)
<1>. DEFINE Led(k, g) == LedBy(step, k, a, g)
            Done == {k \in Nat : \E g \in [0 .. k -> A] : Led(k, g)}
<1>. USE DEF LedBy, Steps
<1>1. 0 \in Done
  <2>. DEFINE g == [i \in 0 .. 0 |-> a]
  <2>1. g \in [0 .. 0 -> A] /\ Led(0, g)
    OBVIOUS
  <2>. QED  BY <2>1
<1>2. ASSUME NEW k \in 0 .. n - 1, k \in Done PROVE k + 1 \in Done
  <2>1. PICK g \in [0 .. k -> A] : Led(k, g)
    BY <1>2
  <2>. DEFINE next == step[<<k + 1, g[k]>>]
              h == [i \in 0 .. k + 1 |-> IF i = k + 1 THEN next ELSE g[i]]
  <2>2. next \in A
    <3>1. g[k] \in A /\ k + 1 \in 1 .. n
      BY <2>1
    <3>2. <<k + 1, g[k]>> \in (1 .. n) \X A
      BY <3>1
    <3>. HIDE DEF next
    <3>3. \A p \in (1 .. n) \X A : step[p] \in A
      OBVIOUS
    <3>. QED  BY <3>2, <3>3 DEF next
  <2>3. h \in [0 .. k + 1 -> A] /\ h[0] = a
    <3>. HIDE DEF next
    <3>. QED  BY <2>1, <2>2
  <2>4. ASSUME NEW i \in 1 .. k + 1 PROVE h[i] = step[<<i, h[i-1]>>]
    <3>1. CASE i = k + 1
      <4>1. h[i] = next /\ h[i-1] = g[k]
        <5>. HIDE DEF next
        <5>. QED  BY <3>1
      <4>. QED  BY <3>1, <4>1
    <3>2. CASE i # k + 1
      <4>1. h[i] = g[i] /\ h[i-1] = g[i-1] /\ i \in 1 .. k
        <5>. HIDE DEF next
        <5>. QED  BY <3>2
      <4>. HIDE DEF h
      <4>2. g[i] = step[<<i, g[i-1]>>]
        BY <2>1, <4>1
      <4>. QED  BY <4>1, <4>2
    <3>. QED  BY <3>1, <3>2
  <2>5. Led(k + 1, h)
    <3>. HIDE DEF h
    <3>. QED  BY <2>3, <2>4
  <2>6. k + 1 \in Nat
    OBVIOUS
  <2>. HIDE DEF Led, h
  <2>. QED  BY <2>3, <2>5, <2>6
<1>. HIDE DEF Done
<1>3. n \in Done
  <2>1. n \in 0 .. n
    OBVIOUS
  <2>. QED  BY <1>1, <1>2, <2>1, UpTo
<1>. QED  BY <1>3 DEF Done

=============================================================================
