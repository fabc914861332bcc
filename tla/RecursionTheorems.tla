-------------------------- MODULE RecursionTheorems --------------------------
(***************************************************************************)
(* Induction and recursion over the natural numbers in the form in which   *)
(* the other proof modules use them: with a set T in place of a predicate, *)
(* and with a function step in place of an operator.                       *)
(*                                                                         *)
(* The library's theorems of induction take an operator as a parameter.    *)
(* What needs none is that a nonempty set has a minimal element under a    *)
(* well-founded relation (WFMin); everything here follows from it.         *)
(***************************************************************************)
EXTENDS Integers, WellFoundedInduction, TLAPS

(* Every nonempty set of natural numbers has a least element.              *)
LEMMA Least ==
  ASSUME NEW T, T \subseteq Nat, T # {}
  PROVE  \E n \in T : \A m \in T : n <= m
<1>1. PICK R : R = OpToRel(<, Nat)
  OBVIOUS
<1>2. IsWellFoundedOn(R, Nat)
  BY <1>1, NatLessThanWellFounded
<1>3. PICK n \in T : \A m \in T : <<m, n>> \notin R
  BY <1>2, WFMin
<1>4. R = {ss \in Nat \X Nat : ss[1] < ss[2]}
  BY <1>1 DEF OpToRel
<1>5. \A m \in T : <<m, n>> \in R <=> m < n
  BY <1>4
<1>6. n \in Nat /\ \A m \in T : m \in Nat
  OBVIOUS
<1>7. \A m \in T : ~ (m < n)
  BY <1>3, <1>5
<1>8. \A m \in T : n <= m
  BY <1>6, <1>7
<1> QED
  BY <1>8

(* A set with 0 and with the successor of each of its elements up to n has *)
(* all numbers up to n.                                                    *)
LEMMA UpTo ==
  ASSUME NEW n \in Nat, NEW T, 0 \in T,
         \A i \in 0 .. n - 1 : i \in T => i + 1 \in T
  PROVE  0 .. n \subseteq T
<1> SUFFICES ASSUME ~ (0 .. n \subseteq T)  PROVE FALSE
  OBVIOUS
<1> DEFINE U == {i \in 0 .. n : i \notin T}
<1>1. PICK k \in U : \A m \in U : k <= m
  <2>1. U \subseteq Nat /\ U # {}
    OBVIOUS
  <2> QED
    BY <2>1, Least
<1>2. k \in 1 .. n /\ k \notin T
  BY <1>1
<1>3. k - 1 \notin U /\ k - 1 \in 0 .. n
  BY <1>1, <1>2
<1>4. k - 1 \in T /\ k - 1 \in 0 .. n - 1
  BY <1>2, <1>3
<1>5. k - 1 + 1 \in T
  BY <1>4
<1> QED
  BY <1>2, <1>5

(* The same downwards: each number of 0 .. n follows from all those above  *)
(* it.                                                                     *)
LEMMA DownTo ==
  ASSUME NEW n \in Nat, NEW T,
         \A i \in 0 .. n : (\A j \in 0 .. n : i < j => j \in T) => i \in T
  PROVE  0 .. n \subseteq T
<1> DEFINE V == {k \in 0 .. n : \A j \in 0 .. n : n - k <= j => j \in T}
<1>1. 0 \in V
  <2>1. n \in 0 .. n /\ \A j \in 0 .. n : ~ (n < j)
    OBVIOUS
  <2>2. n \in T
    BY <2>1
  <2>3. \A j \in 0 .. n : n - 0 <= j => j = n
    OBVIOUS
  <2> QED
    BY <2>2, <2>3
<1>2. \A k \in 0 .. n - 1 : k \in V => k + 1 \in V
  <2> SUFFICES ASSUME NEW k \in 0 .. n - 1, k \in V  PROVE k + 1 \in V
    OBVIOUS
  <2>1. PICK i \in 0 .. n : i = n - (k + 1)
    OBVIOUS
  <2>2. \A j \in 0 .. n : i < j => n - k <= j
    BY <2>1
  <2>3. i \in T
    BY <2>2
  <2>4. \A j \in 0 .. n : i <= j => j \in T
    <3> SUFFICES ASSUME NEW j \in 0 .. n, i <= j  PROVE j \in T
      OBVIOUS
    <3>1. j = i \/ i < j
      OBVIOUS
    <3> QED
      BY <2>2, <2>3, <3>1
  <2> QED
    BY <2>1, <2>4
<1>3. 0 .. n \subseteq V
  <2> HIDE DEF V
  <2> QED
    BY <1>1, <1>2, UpTo
<1>4. n \in V
  BY <1>3
<1> QED
  BY <1>4

Recurs(g, n, b, step) ==
  /\ g[0] = b
  /\ \A i \in 1 .. n : g[i] = step[<<g[i - 1], i>>]

(* A recursion in steps 1 .. n has a solution: the function that a         *)
(* recursive definition chooses exists.                                    *)
LEMMA Recursion ==
  ASSUME NEW n \in Nat, NEW S, NEW b \in S, NEW step \in [S \X (1 .. n) -> S]
  PROVE  \E g \in [0 .. n -> S] : Recurs(g, n, b, step)
<1> DEFINE Good(g, k) == /\ g[0] = b
                         /\ \A i \in 1 .. k : g[i] = step[<<g[i - 1], i>>]
           T == {k \in 0 .. n : \E g \in [0 .. n -> S] : Good(g, k)}
<1>1. 0 \in T
  <2>1. PICK g : g = [i \in 0 .. n |-> b]
    OBVIOUS
  <2>2. g \in [0 .. n -> S] /\ Good(g, 0)
    BY <2>1
  <2> QED
    BY <2>2
<1>2. \A k \in 0 .. n - 1 : k \in T => k + 1 \in T
  <2> SUFFICES ASSUME NEW k \in 0 .. n - 1, k \in T  PROVE k + 1 \in T
    OBVIOUS
  <2>1. PICK g \in [0 .. n -> S] : Good(g, k)
    OBVIOUS
  <2>2. PICK v \in S : v = step[<<g[k], k + 1>>]
    <3>1. g[k] \in S /\ k + 1 \in 1 .. n
      BY <2>1
    <3>2. <<g[k], k + 1>> \in S \X (1 .. n)
      BY <3>1
    <3> QED
      BY <3>2
  <2>3. PICK h : h = [i \in 0 .. n |-> IF i = k + 1 THEN v ELSE g[i]]
    OBVIOUS
  <2>4. h \in [0 .. n -> S]
    BY <2>1, <2>2, <2>3
  <2>5. h[0] = b
    BY <2>1, <2>3
  <2>6. ASSUME NEW i \in 1 .. k + 1  PROVE h[i] = step[<<h[i - 1], i>>]
    <3>1. h[i - 1] = g[i - 1]
      BY <2>3
    <3>2. CASE i = k + 1
      <4>1. i - 1 = k
        BY <3>2
      <4>2. h[i] = v
        BY <3>2, <2>3
      <4> QED
        BY <4>1, <4>2, <3>1, <3>2, <2>2
    <3>3. CASE i # k + 1
      <4>1. i \in 1 .. k /\ h[i] = g[i]
        BY <3>3, <2>3
      <4> QED
        BY <4>1, <2>1, <3>1
    <3> QED
      BY <3>2, <3>3
  <2> QED
    BY <2>4, <2>5, <2>6
<1>3. 0 .. n \subseteq T
  <2> HIDE DEF T
  <2> QED
    BY <1>1, <1>2, UpTo
<1>4. n \in T
  BY <1>3, SMTT(30)
<1> QED
  BY <1>4 DEF Recurs

(* g descends from n: g[i] is what step makes of the values above i.       *)
Descends(g, n, step) == \A i \in 0 .. n : g[i] = step[<<g, i>>]

(* A recursion by which every number refers to larger ones only has a      *)
(* solution.                                                               *)
LEMMA Descent ==
  ASSUME NEW n \in Nat, NEW S, NEW b \in S,
         NEW step \in [[0 .. n -> S] \X (0 .. n) -> S],
         \A g, h \in [0 .. n -> S], i \in 0 .. n :
           (\A j \in 0 .. n : i < j => g[j] = h[j]) => step[<<g, i>>] = step[<<h, i>>]
  PROVE  \E g \in [0 .. n -> S] : Descends(g, n, step)
<1> DEFINE F == [0 .. n -> S]
           Good(g, k) == \A i \in 0 .. n : n - k <= i => g[i] = step[<<g, i>>]
           T == {k \in 0 .. n : \E g \in F : Good(g, k)}
<1>1. ASSUME NEW g \in F, NEW m \in 0 .. n,
             \A i \in 0 .. n : m < i => g[i] = step[<<g, i>>]
      PROVE  \E h \in F : \A i \in 0 .. n : m <= i => h[i] = step[<<h, i>>]
  <2>1. PICK v \in S : v = step[<<g, m>>]
    <3>1. <<g, m>> \in F \X (0 .. n)
      OBVIOUS
    <3> QED
      BY <3>1
  <2>2. PICK h : h = [i \in 0 .. n |-> IF i = m THEN v ELSE g[i]]
    OBVIOUS
  <2>3. h \in F
    BY <2>1, <2>2
  <2>4. h[m] = v /\ \A i \in 0 .. n : m < i => h[i] = g[i]
    BY <2>2
  <2>5. ASSUME NEW i \in 0 .. n, m <= i  PROVE h[i] = step[<<h, i>>]
    <3>1. \A j \in 0 .. n : i < j => g[j] = h[j]
      BY <2>4, <2>5
    <3>2. step[<<g, i>>] = step[<<h, i>>]
      BY <2>3, <3>1
    <3>3. CASE i = m
      BY <2>1, <2>4, <3>2, <3>3
    <3>4. CASE m < i
      BY <1>1, <2>4, <3>2, <3>4
    <3> QED
      BY <2>5, <3>3, <3>4
  <2> QED
    BY <2>3, <2>5
<1>2. 0 \in T
  <2>1. PICK g : g = [i \in 0 .. n |-> b]
    OBVIOUS
  <2>2. g \in F /\ n \in 0 .. n /\ \A i \in 0 .. n : ~ (n < i)
    BY <2>1
  <2>3. \E h \in F : \A i \in 0 .. n : n <= i => h[i] = step[<<h, i>>]
    BY <1>1, <2>2
  <2>4. n - 0 = n
    OBVIOUS
  <2> QED
    BY <2>3, <2>4
<1>3. \A k \in 0 .. n - 1 : k \in T => k + 1 \in T
  <2> SUFFICES ASSUME NEW k \in 0 .. n - 1, k \in T  PROVE k + 1 \in T
    OBVIOUS
  <2>1. PICK g \in F : Good(g, k)
    OBVIOUS
  <2>2. PICK m \in 0 .. n : m = n - (k + 1)
    OBVIOUS
  <2>3. \A i \in 0 .. n : m < i => n - k <= i
    BY <2>2
  <2>4. \A i \in 0 .. n : m < i => g[i] = step[<<g, i>>]
    BY <2>1, <2>3
  <2>5. \E h \in F : \A i \in 0 .. n : m <= i => h[i] = step[<<h, i>>]
    BY <1>1, <2>4
  <2>6. PICK h \in F : \A i \in 0 .. n : m <= i => h[i] = step[<<h, i>>]
    BY <2>5
  <2>7. Good(h, k + 1)
    BY <2>2, <2>6
  <2> QED
    BY <2>6, <2>7
<1>4. 0 .. n \subseteq T
  <2> HIDE DEF T
  <2> QED
    BY <1>2, <1>3, UpTo
<1>5. n \in T /\ n - n = 0
  <2> HIDE DEF T
  <2> QED
    BY <1>4
<1>6. PICK g \in F : Good(g, n)
  BY <1>5
<1>7. \A i \in 0 .. n : g[i] = step[<<g, i>>]
  BY <1>5, <1>6
<1> QED
  BY <1>7 DEF Descends
=============================================================================
