------------------------------ MODULE Induction ------------------------------
(***************************************************************************)
(* Induction for the proofs of the other modules, about sets: a set is a   *)
(* value, which the first-order provers can instantiate.  Everything comes *)
(* from the fact that the natural numbers are well ordered.                *)
(***************************************************************************)
EXTENDS Integers, WellFoundedInduction, TLAPS

Smaller == {q \in Nat \X Nat : q[1] < q[2]}

(* A set of natural numbers has a least member.                             *)
LEMMA LeastNumber ==
    ASSUME NEW T, T \subseteq Nat, T # {}
    PROVE  \E n \in T : \A m \in T : n <= m
<1>1. IsWellFoundedOn(Smaller, Nat)
  BY NatLessThanWellFounded DEF OpToRel, Smaller
<1>2. PICK n \in T : \A m \in T : ~ (<<m, n>> \in Smaller)
  BY <1>1, WFMin
<1>3. ASSUME NEW m \in T  PROVE n <= m
  <2>1. ~ (<<m, n>> \in Smaller) /\ m \in Nat /\ n \in Nat
    BY <1>2
  <2>2. QED  BY <2>1 DEF Smaller
<1>4. QED  BY <1>3

(* A set that has 0 and is closed under the successor has every number.     *)
LEMMA Inductive ==
    ASSUME NEW S, 0 \in S, \A n \in Nat : n \in S => n + 1 \in S
    PROVE  Nat \subseteq S
<1> SUFFICES ASSUME Nat \ S # {}  PROVE FALSE
  OBVIOUS
<1>1. PICK n \in Nat \ S : \A m \in Nat \ S : n <= m
  BY LeastNumber
<1>2. n # 0 /\ n - 1 \in Nat /\ n - 1 \notin Nat \ S
  BY <1>1
<1>3. QED  BY <1>1, <1>2

(* The same up to a bound.                                                  *)
LEMMA InductiveTo ==
    ASSUME NEW k \in Nat, NEW S, 0 \in S,
           \A n \in 0 .. k - 1 : n \in S => n + 1 \in S
    PROVE  0 .. k \subseteq S
<1> DEFINE R == {n \in Nat : n <= k => n \in S}
<1>1. 0 \in R /\ \A n \in Nat : n \in R => n + 1 \in R
  OBVIOUS
<1> HIDE DEF R
<1>2. Nat \subseteq R
  BY <1>1, Inductive
<1>3. QED  BY <1>2 DEF R

(* There is a function on 0..k that starts at z and takes the step F[n]     *)
(* from n to n + 1: what a recursive function definition defines.           *)
Stepwise(k, M, z, F) ==
    \E g \in [0 .. k -> M] : g[0] = z /\ \A n \in 0 .. k - 1 : g[n + 1] = F[n][g[n]]
LEMMA StepwiseFunction ==
    ASSUME NEW k \in Nat, NEW M, NEW z \in M, NEW F,
           \A n \in 0 .. k - 1 : \A x \in M : F[n][x] \in M
    PROVE  Stepwise(k, M, z, F)
<1> DEFINE Upto(j) == {g \in [0 .. j -> M] : g[0] = z /\ \A n \in 0 .. j - 1 : g[n + 1] = F[n][g[n]]}
           S == {j \in 0 .. k : Upto(j) # {}}
<1>1. 0 \in S
  <2>1. [j \in 0 .. 0 |-> z] \in Upto(0)
    OBVIOUS
  <2>2. QED  BY <2>1
<1>2. ASSUME NEW j \in 0 .. k - 1, j \in S  PROVE j + 1 \in S
  <2>1. PICK g \in [0 .. j -> M] : g[0] = z /\ \A n \in 0 .. j - 1 : g[n + 1] = F[n][g[n]]
    BY <1>2
  <2> DEFINE h == [n \in 0 .. j + 1 |-> IF n <= j THEN g[n] ELSE F[j][g[j]]]
  <2>2. g[j] \in M /\ F[j][g[j]] \in M
    BY <2>1
  <2>3. h \in [0 .. j + 1 -> M] /\ h[0] = z
    BY <2>1, <2>2
  <2>4. ASSUME NEW n \in 0 .. j  PROVE h[n + 1] = F[n][h[n]]
    <3>1. CASE n < j
      BY <2>1, <3>1
    <3>2. CASE n = j
      BY <3>2
    <3>3. QED  BY <3>1, <3>2
  <2> HIDE DEF h
  <2>5. 0 .. (j + 1) - 1 = 0 .. j
    OBVIOUS
  <2>6. h \in Upto(j + 1)
    BY <2>3, <2>4, <2>5
  <2> HIDE DEF Upto
  <2>7. QED  BY <2>6
<1>3. 0 .. k \subseteq S
  <2> HIDE DEF S
  <2>1. QED  BY <1>1, <1>2, InductiveTo
<1>4. k \in 0 .. k
  OBVIOUS
<1>5. Upto(k) # {}
  <2> HIDE DEF Upto
  <2>1. QED  BY <1>3, <1>4
<1>6. QED  BY <1>5 DEF Stepwise
=============================================================================
