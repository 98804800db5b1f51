------------------------------- MODULE Recursion -------------------------------
(***************************************************************************)
(* Loops as recursive functions: f[0] is what a loop starts from, and f[i] *)
(* what its i-th round makes of f[i - 1].  That such a function exists,    *)
(* what its rounds are, and induction along them.  The induction is stated *)
(* of sets, not of predicates, so that no lemma has an operator for a      *)
(* parameter.                                                              *)
(***************************************************************************)
EXTENDS Integers, WellFoundedInduction, TLAPS

(* A set of natural numbers has a least one.                               *)
LEMMA Least ==
  ASSUME NEW S \in SUBSET Nat, S # {}
  PROVE  \E n \in S : \A m \in S : n <= m
<1>1. IsWellFoundedOn(OpToRel(<, Nat), Nat)
  BY NatLessThanWellFounded
<1>2. PICK n \in S : \A m \in S : <<m, n>> \notin OpToRel(<, Nat)
  BY <1>1, WFMin
<1>3. \A m \in S : ~(m < n)
  BY <1>2 DEF OpToRel
<1> QED BY <1>3

(* Induction over the natural numbers.                                     *)
LEMMA SetInduction ==
  ASSUME NEW S, 0 \in S, \A n \in Nat : n \in S => n + 1 \in S
  PROVE Nat \subseteq S
<1> SUFFICES ASSUME Nat \ S # {} PROVE FALSE
  OBVIOUS
<1>1. PICK n \in Nat \ S : \A m \in Nat \ S : n <= m
  <2> Nat \ S \in SUBSET Nat
    OBVIOUS
  <2> QED BY Least
<1>2. n - 1 \in Nat /\ n - 1 \notin Nat \ S
  BY <1>1
<1> QED BY <1>2

(* f is what n rounds make of base, the i-th one by G[i].                  *)
Iterates(f, n, base, G) == f = [i \in 0 .. n |-> IF i = 0 THEN base ELSE G[i][f[i - 1]]]

(* The rounds of such a function.                                          *)
LEMMA IteratesSteps ==
  ASSUME NEW f, NEW n \in Nat, NEW base, NEW G, Iterates(f, n, base, G)
  PROVE  f[0] = base /\ \A i \in 1 .. n : f[i] = G[i][f[i - 1]]
<1>1. 0 \in 0 .. n /\ \A i \in 1 .. n : i \in 0 .. n /\ i # 0
  OBVIOUS
<1>2. f = [i \in 0 .. n |-> IF i = 0 THEN base ELSE G[i][f[i - 1]]]
  BY DEF Iterates
<1>3. f[0] = base
  BY <1>1, <1>2
<1>4. ASSUME NEW i \in 1 .. n PROVE f[i] = G[i][f[i - 1]]
  BY <1>1, <1>2
<1> QED BY <1>3, <1>4

(* There is one, if the rounds stay in a set.                              *)
LEMMA Recursion ==
  ASSUME NEW n \in Nat, NEW S, NEW base \in S, NEW G \in [1 .. n -> [S -> S]]
  PROVE  \E f \in [0 .. n -> S] : Iterates(f, n, base, G)
<1> DEFINE M == {m \in Nat : m <= n => \E f \in [0 .. m -> S] : Iterates(f, m, base, G)}
<1>1. 0 \in M
  <2> DEFINE f == [i \in 0 .. 0 |-> base]
  <2>1. f \in [0 .. 0 -> S] /\ Iterates(f, 0, base, G)
    BY DEF Iterates
  <2> QED BY <2>1
<1>2. ASSUME NEW m \in Nat, m \in M PROVE m + 1 \in M
  <2> SUFFICES ASSUME m + 1 <= n PROVE \E f \in [0 .. m + 1 -> S] : Iterates(f, m + 1, base, G)
    OBVIOUS
  <2>1. PICK f \in [0 .. m -> S] : Iterates(f, m, base, G)
    BY <1>2
  <2> DEFINE h == [i \in 0 .. m + 1 |-> IF i = m + 1 THEN G[m + 1][f[m]] ELSE f[i]]
  <2>2. h \in [0 .. m + 1 -> S]
    OBVIOUS
  <2>3. ASSUME NEW i \in 0 .. m + 1 PROVE h[i] = IF i = 0 THEN base ELSE G[i][h[i - 1]]
    <3>1. CASE i = m + 1
      BY <3>1
    <3>2. CASE i \in 0 .. m
      <4>1. f[i] = IF i = 0 THEN base ELSE G[i][f[i - 1]]
        BY <2>1, <3>2 DEF Iterates
      <4> QED BY <3>2, <4>1
    <3> QED BY <3>1, <3>2
  <2>4. Iterates(h, m + 1, base, G)
    BY <2>3 DEF Iterates
  <2> QED BY <2>2, <2>4
<1> HIDE DEF M
<1>3. Nat \subseteq M
  BY <1>1, <1>2, SetInduction
<1> QED BY <1>3 DEF M

(* Induction along the rounds: P[i] holds what is possible after i of them.*)
LEMMA Along ==
  ASSUME NEW f, NEW n \in Nat, NEW P, f[0] \in P[0],
         \A i \in 1 .. n : f[i - 1] \in P[i - 1] => f[i] \in P[i]
  PROVE  \A i \in 0 .. n : f[i] \in P[i]
<1> DEFINE M == {m \in Nat : m <= n => f[m] \in P[m]}
<1>1. 0 \in M
  OBVIOUS
<1>2. ASSUME NEW m \in Nat, m \in M PROVE m + 1 \in M
  <2> SUFFICES ASSUME m + 1 <= n PROVE f[m + 1] \in P[m + 1]
    OBVIOUS
  <2>1. f[m] \in P[m] /\ m + 1 \in 1 .. n /\ (m + 1) - 1 = m
    BY <1>2
  <2> QED BY <2>1
<1> HIDE DEF M
<1>3. Nat \subseteq M
  BY <1>1, <1>2, SetInduction
<1> QED BY <1>3 DEF M
===============================================================================
