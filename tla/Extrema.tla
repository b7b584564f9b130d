------------------------------- MODULE Extrema -------------------------------
(***************************************************************************)
(* Least and greatest elements, on which the choices the code makes by     *)
(* sorting or by a running maximum rest: the newest revision of            *)
(* RolloutUndo, the first candidate of the Pod resolver.                   *)
(***************************************************************************)
EXTENDS Naturals, FiniteSets, FiniteSetTheorems, TLAPS

(* A set of natural numbers has a least element. *)
LEMMA MinExists ==
  ASSUME NEW T, T \subseteq Nat, T # {}
  PROVE  \E x \in T : \A y \in T : x <= y
<1> DEFINE R == OpToRel(<, Nat)
<1>1. IsWellFoundedOn(R, Nat)
  BY NatLessThanWellFounded
<1> HIDE DEF R
<1>2. PICK x \in T : \A y \in T : ~(<<y, x>> \in R)
  BY <1>1, WFMin
<1>3. \A y \in T : ~(y < x)
  BY <1>2 DEF R, OpToRel
<1>4. QED
  BY <1>3

(* A bounded function takes its greatest value. *)
LEMMA MaxExists ==
  ASSUME NEW P, P # {}, NEW f, \A t \in P : f[t] \in Nat,
         NEW n \in Nat, \A t \in P : f[t] <= n
  PROVE  \E t \in P : \A u \in P : f[u] <= f[t]
<1> DEFINE T == {n - f[t] : t \in P}
<1>1. T \subseteq Nat /\ T # {}
  OBVIOUS
<1> HIDE DEF T
<1>2. PICK x \in T : \A y \in T : x <= y
  BY <1>1, MinExists
<1>3. PICK t \in P : x = n - f[t]
  BY DEF T
<1>4. \A u \in P : n - f[u] \in T
  BY DEF T
<1>5. \A u \in P : n - f[t] <= n - f[u]
  BY <1>2, <1>3, <1>4
<1>6. QED
  BY <1>5

(* A finite set of natural numbers is bounded. *)
LEMMA FiniteIsBounded ==
  ASSUME NEW S, S \subseteq Nat, IsFiniteSet(S)
  PROVE  \E b \in Nat : \A x \in S : x <= b
<1>1. PICK n \in Nat : ExistsSurjection(1 .. n, S)
  BY FS_NatSurjection
<1>2. PICK f \in Surjection(1 .. n, S) : TRUE
  BY <1>1 DEF ExistsSurjection
<1>3. /\ \A i \in 1 .. n : f[i] \in S
      /\ \A x \in S : \E i \in 1 .. n : f[i] = x
  BY DEF Surjection
<1> DEFINE Bounded(k) == \E b \in Nat : \A i \in 1 .. k : f[i] <= b
           T == {k \in 0 .. n : ~Bounded(k)}
<1>4. CASE T = {}
  <2>1. Bounded(n)
    <3>1. n \in 0 .. n
      OBVIOUS
    <3>2. QED
      BY <1>4, <3>1
  <2>2. QED
    BY <1>3, <2>1
<1>5. CASE T # {}
  <2>1. T \subseteq Nat
    OBVIOUS
  <2>2. PICK k \in T : \A y \in T : k <= y
    <3> HIDE DEF T
    <3>1. QED
      BY <1>5, <2>1, MinExists
  <2>3. k \in 0 .. n /\ ~Bounded(k)
    BY <2>2
  <2>4. k # 0
    <3>1. Bounded(0)
      <4>1. \A i \in 1 .. 0 : f[i] <= 0
        OBVIOUS
      <4>2. QED
        BY <4>1
    <3>2. QED
      BY <2>3, <3>1
  <2>5. k - 1 \in 0 .. n /\ ~(k <= k - 1)
    BY <2>3, <2>4
  <2>6. Bounded(k - 1)
    BY <2>2, <2>5
  <2>7. PICK b \in Nat : \A i \in 1 .. k - 1 : f[i] <= b
    BY <2>6
  <2>8. k \in 1 .. n /\ f[k] \in Nat
    <3>1. k \in 1 .. n
      BY <2>3, <2>4
    <3>2. QED
      BY <1>3, <3>1
  <2>9. PICK c \in Nat : b <= c /\ f[k] <= c
    <3>1. ASSUME NEW m \in Nat
          PROVE  \E c \in Nat : b <= c /\ m <= c
      <4>1. b <= b + m /\ m <= b + m /\ b + m \in Nat
        OBVIOUS
      <4>2. QED
        BY <4>1
    <3>2. QED
      BY <2>8, <3>1
  <2>10. ASSUME NEW i \in 1 .. k
         PROVE  f[i] <= c
    <3>1. CASE i = k
      BY <2>9, <3>1
    <3>2. CASE i # k
      <4>1. i \in 1 .. k - 1 /\ i \in 1 .. n
        BY <2>8, <3>2
      <4>2. f[i] \in Nat /\ f[i] <= b
        BY <1>3, <2>7, <4>1
      <4>3. \A m \in Nat : m <= b /\ b <= c => m <= c
        OBVIOUS
      <4>4. QED
        BY <2>9, <4>2, <4>3
    <3>3. QED
      BY <3>1, <3>2
  <2>11. Bounded(k)
    BY <2>10
  <2>12. QED
    BY <2>3, <2>11
<1>6. QED
  BY <1>4, <1>5

=============================================================================
