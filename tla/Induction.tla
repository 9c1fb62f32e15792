------------------------------ MODULE Induction ------------------------------
(***************************************************************************)
(* Induction over numbers.  A theorem with an operator as its parameter    *)
(* cannot be used by the provers, so that the property to be proved is     *)
(* given as the set of the numbers that have it.                           *)
(***************************************************************************)
EXTENDS Integers, WellFoundedInduction, TLAPS

\* A set of natural numbers has a smallest element.
LEMMA Smallest ==
    ASSUME NEW T \in SUBSET Nat, T # {}
    PROVE  \E n \in T : \A m \in T : n <= m
<1>. DEFINE R == OpToRel(<, Nat)
<1>1. IsWellFoundedOn(R, Nat)
  BY NatLessThanWellFounded
<1>2. R = {pair \in Nat \X Nat : pair[1] < pair[2]}
  BY DEF OpToRel
<1>. HIDE DEF R
<1>3. PICK n \in T : \A m \in T : <<m, n>> \notin R
  BY <1>1, WFMin
<1>4. \A m \in T : n <= m
  <2>. TAKE m \in T
  <2>1. n \in Nat /\ m \in Nat
    OBVIOUS
  <2>2. ~(m < n)
    BY <1>2, <1>3, <2>1
  <2>. QED BY <2>1, <2>2
<1>. QED BY <1>4

\* Induction over the numbers up to n, and
LEMMA Upwards ==
    ASSUME NEW n \in Nat, NEW S, 0 \in S,
           \A m \in 0 .. n - 1 : m \in S => m + 1 \in S
    PROVE  0 .. n \subseteq S
<1>. DEFINE T == {m \in 0 .. n : m \notin S}
<1>. SUFFICES ASSUME T # {} PROVE FALSE
  OBVIOUS
<1>1. T \in SUBSET Nat
  OBVIOUS
<1>2. PICK m \in T : \A k \in T : m <= k
  BY <1>1, Smallest
<1>3. m \in 0 .. n /\ m \notin S /\ m # 0
  BY <1>2
<1>4. m - 1 \in 0 .. n - 1 /\ m - 1 + 1 = m /\ ~(m <= m - 1) /\ m - 1 \in 0 .. n
  BY <1>3
<1>5. m - 1 \notin T
  BY <1>2, <1>4
<1>. QED BY <1>3, <1>4, <1>5

\* from n down to 0.
LEMMA Downwards ==
    ASSUME NEW n \in Nat, NEW S, n \in S,
           \A m \in 0 .. n - 1 : m + 1 \in S => m \in S
    PROVE  0 .. n \subseteq S
<1>. DEFINE T == {m \in 0 .. n : n - m \in S}
<1>1. 0 \in T
  OBVIOUS
<1>2. \A m \in 0 .. n - 1 : m \in T => m + 1 \in T
  <2>. TAKE m \in 0 .. n - 1
  <2>. HAVE m \in T
  <2>1. n - (m + 1) \in 0 .. n - 1 /\ n - (m + 1) + 1 = n - m /\ m + 1 \in 0 .. n
    OBVIOUS
  <2>2. n - (m + 1) \in S
    BY <2>1
  <2>. QED BY <2>1, <2>2
<1>3. 0 .. n \subseteq T
  <2>. HIDE DEF T
  <2>. QED BY <1>1, <1>2, Upwards
<1>4. ASSUME NEW m \in 0 .. n PROVE m \in S
  <2>1. n - m \in 0 .. n /\ n - (n - m) = m
    OBVIOUS
  <2>2. n - m \in T
    BY <1>3, <2>1
  <2>. QED BY <2>1, <2>2
<1>. QED BY <1>4

\* The recursive function that doubles has a solution: it is the powers of two.
LEMMA Powers ==
    ASSUME NEW size \in Nat, NEW power,
           power = CHOOSE p : p = [k \in 0 .. size |-> IF k = 0 THEN 1 ELSE 2 * p[k - 1]]
    PROVE  /\ power[0] = 1
           /\ \A n \in 0 .. size - 1 : power[n + 1] = 2 * power[n]
           /\ \A n \in 0 .. size : power[n] \in Nat \ {0}
<1>. DEFINE Body(f, k) == IF k = 0 THEN 1 ELSE 2 * f[k - 1]
            Solves(m, f) == f = [k \in 0 .. m |-> Body(f, k)]
            S == {m \in 0 .. size : \E f : Solves(m, f)}
<1>1. 0 \in S
  <2>. DEFINE g == [k \in 0 .. 0 |-> 1]
  <2>1. ASSUME NEW k \in 0 .. 0 PROVE g[k] = Body(g, k)
    OBVIOUS
  <2>2. g = [k \in 0 .. 0 |-> g[k]]
    OBVIOUS
  <2>. HIDE DEF g
  <2>3. Solves(0, g)
    BY <2>1, <2>2
  <2>. QED BY <2>3
<1>2. ASSUME NEW m \in 0 .. size - 1, m \in S PROVE m + 1 \in S
  <2>1. PICK f : Solves(m, f)
    BY <1>2
  <2>. DEFINE g == [k \in 0 .. m + 1 |-> IF k = m + 1 THEN 2 * f[m] ELSE f[k]]
  <2>2. m \in 0 .. m + 1 /\ m # m + 1 /\ m + 1 # 0 /\ m + 1 - 1 = m
    OBVIOUS
  <2>3. ASSUME NEW k \in 0 .. m + 1 PROVE g[k] = Body(g, k)
    <3>1. CASE k = m + 1
      BY <2>2, <3>1
    <3>2. CASE k # m + 1 /\ k # 0
      <4>1. k \in 0 .. m /\ k - 1 \in 0 .. m + 1 /\ k - 1 # m + 1
        BY <3>2
      <4>2. f[k] = Body(f, k)
        BY <2>1, <4>1
      <4>. QED BY <3>2, <4>1, <4>2
    <3>3. CASE k = 0
      <4>1. 0 \in 0 .. m /\ 0 # m + 1
        OBVIOUS
      <4>. QED BY <2>1, <3>3, <4>1
    <3>. QED BY <3>1, <3>2, <3>3
  <2>4. g = [k \in 0 .. m + 1 |-> g[k]]
    OBVIOUS
  <2>. HIDE DEF g
  <2>5. Solves(m + 1, g)
    BY <2>3, <2>4
  <2>. QED BY <2>5
<1>3. size \in S
  <2>. HIDE DEF S
  <2>1. 0 .. size \subseteq S
    BY <1>1, <1>2, Upwards
  <2>. QED BY <2>1
<1>4. PICK f : Solves(size, f)
  BY <1>3
<1>5. power = CHOOSE p : p = [k \in 0 .. size |-> Body(p, k)]
  OBVIOUS
<1>6. Solves(size, power)
  BY <1>4, <1>5
<1>7. \A k \in 0 .. size : power[k] = Body(power, k)
  BY <1>6
<1>8. ASSUME NEW n \in 0 .. size - 1
      PROVE  power[n + 1] = 2 * power[n]
  <2>1. n + 1 \in 0 .. size /\ n + 1 # 0 /\ n + 1 - 1 = n
    OBVIOUS
  <2>. QED BY <1>7, <2>1
<1>9. power[0] = 1
  BY <1>7
<1>. DEFINE T == {n \in 0 .. size : power[n] \in Nat \ {0}}
<1>10. 0 \in T
  BY <1>9
<1>11. \A n \in 0 .. size - 1 : n \in T => n + 1 \in T
  BY <1>8
<1>12. 0 .. size \subseteq T
  <2>. HIDE DEF T
  <2>. QED BY <1>10, <1>11, Upwards
<1>. QED BY <1>8, <1>9, <1>12
=============================================================================
