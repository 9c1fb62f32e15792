---------------------------- MODULE ChecksumProofs ----------------------------
(***************************************************************************)
(* The checksum of the client is that of zlib, and tells every damage of   *)
(* up to Width bits in a row apart, for any widths, any polynomial with a  *)
(* top bit and contents of any length.                                     *)
(*                                                                         *)
(* That the recursive definitions have solutions, and what they compute,   *)
(* is proved by the inductions of module Induction.                        *)
(***************************************************************************)
EXTENDS Checksum, Induction

-----------------------------------------------------------------------------
(***************************************************************************)
(* Polynomials.                                                            *)
(***************************************************************************)
LEMMA Widths ==
    /\ Width \in Nat \ {0} /\ ByteWidth \in Nat \ {0} /\ ByteWidth <= Width
    /\ polynomial \subseteq Bits /\ Width - 1 \in polynomial
    /\ MaxLength \in Nat
BY ChecksumAssumption

\* The division is what it is defined to be: the recursion has a solution.
LEMMA DivisionIs ==
    ASSUME NEW n \in Nat, NEW p
    PROVE  LET rest == Division(p, n)
           IN  /\ rest[n] = p
               /\ \A k \in 0 .. n - 1 : rest[k] = Reduce(rest[k + 1], k)
<1>. DEFINE Body(f, k) == IF k = n THEN p ELSE Reduce(f[k + 1], k)
            Solves(m, f) == f = [k \in m .. n |-> Body(f, k)]
            S == {m \in 0 .. n : \E f : Solves(m, f)}
<1>1. n \in S
  <2>. DEFINE g == [k \in n .. n |-> p]
  <2>1. ASSUME NEW k \in n .. n PROVE g[k] = Body(g, k)
    OBVIOUS
  <2>2. g = [k \in n .. n |-> g[k]]
    OBVIOUS
  <2>. HIDE DEF g
  <2>3. Solves(n, g)
    BY <2>1, <2>2
  <2>4. n \in 0 .. n
    OBVIOUS
  <2>. QED BY <2>3, <2>4
<1>2. ASSUME NEW m \in 0 .. n - 1, m + 1 \in S PROVE m \in S
  <2>1. PICK f : Solves(m + 1, f)
    BY <1>2
  <2>. DEFINE g == [k \in m .. n |-> IF k = m THEN Reduce(f[m + 1], m) ELSE f[k]]
  <2>2. m + 1 \in m + 1 .. n /\ m + 1 \in m .. n /\ m + 1 # m /\ m # n
    OBVIOUS
  <2>3. ASSUME NEW k \in m .. n PROVE g[k] = Body(g, k)
    <3>1. CASE k = m
      BY <2>2, <3>1
    <3>2. CASE k # m /\ k # n
      <4>1. k \in m + 1 .. n /\ k + 1 \in m .. n /\ k + 1 # m
        BY <3>2
      <4>2. f[k] = Body(f, k)
        BY <2>1, <4>1
      <4>. QED BY <3>2, <4>1, <4>2
    <3>3. CASE k = n
      <4>1. n \in m + 1 .. n /\ n \in m .. n /\ n # m
        OBVIOUS
      <4>. QED BY <2>1, <3>3, <4>1
    <3>. QED BY <3>1, <3>2, <3>3
  <2>4. g = [k \in m .. n |-> g[k]]
    OBVIOUS
  <2>. HIDE DEF g
  <2>5. Solves(m, g)
    BY <2>3, <2>4
  <2>. QED BY <2>5
<1>3. 0 \in S
  <2>. HIDE DEF S
  <2>1. 0 .. n \subseteq S
    BY <1>1, <1>2, Downwards
  <2>. QED BY <2>1
<1>4. PICK f : Solves(0, f)
  BY <1>3
<1>5. Division(p, n) = CHOOSE rest : rest = [k \in 0 .. n |-> Body(rest, k)]
  BY DEF Division
<1>6. Solves(0, Division(p, n))
  BY <1>4, <1>5
<1>. DEFINE rest == Division(p, n)
<1>. HIDE DEF rest
<1>7. \A k \in 0 .. n : rest[k] = Body(rest, k)
  BY <1>6 DEF rest
<1>8. rest[n] = p
  BY <1>7
<1>9. \A k \in 0 .. n - 1 : rest[k] = Reduce(rest[k + 1], k)
  BY <1>7
<1>. QED BY <1>8, <1>9 DEF rest

LEMMA ReduceXor ==
    ASSUME NEW u, NEW v, NEW k \in Nat, Width + k \notin u
    PROVE  Reduce(Xor(u, v), k) = Xor(u, Reduce(v, k))
BY DEF Reduce, Xor

\* Division is linear.
LEMMA ReduceLinear ==
    ASSUME NEW u, NEW v, NEW k \in Nat
    PROVE  Reduce(Xor(u, v), k) = Xor(Reduce(u, k), Reduce(v, k))
BY DEF Reduce, Xor

LEMMA DivisionLinear ==
    ASSUME NEW u, NEW v, NEW n \in Nat
    PROVE  Remainder(Xor(u, v), n) = Xor(Remainder(u, n), Remainder(v, n))
<1>. DEFINE a == Division(u, n)
            b == Division(v, n)
            c == Division(Xor(u, v), n)
            S == {k \in 0 .. n : c[k] = Xor(a[k], b[k])}
<1>1. /\ a[n] = u /\ \A k \in 0 .. n - 1 : a[k] = Reduce(a[k + 1], k)
      /\ b[n] = v /\ \A k \in 0 .. n - 1 : b[k] = Reduce(b[k + 1], k)
      /\ c[n] = Xor(u, v) /\ \A k \in 0 .. n - 1 : c[k] = Reduce(c[k + 1], k)
  BY DivisionIs
<1>. HIDE DEF a, b, c
<1>2. n \in S
  BY <1>1
<1>3. \A k \in 0 .. n - 1 : k + 1 \in S => k \in S
  BY <1>1, ReduceLinear
<1>4. 0 \in S
  <2>. HIDE DEF S
  <2>1. 0 .. n \subseteq S
    BY <1>2, <1>3, Downwards
  <2>. QED BY <2>1
<1>. QED BY <1>4 DEF Remainder, a, b, c

\* The terms of p, moved up by n.
Moved(p, n) == {term + n : term \in p}

LEMMA ReduceMoved ==
    ASSUME NEW p \in SUBSET Int, NEW n \in Nat, NEW k \in Nat
    PROVE  Reduce(Moved(p, n), n + k) = Moved(Reduce(p, k), n)
<1>1. Width \in Nat /\ Generator \subseteq Int
  BY Widths DEF Generator, Bits
<1>2. Width + (n + k) \in Moved(p, n) <=> Width + k \in p
  <2>1. \A term \in p : Width + (n + k) = term + n <=> Width + k = term
    BY <1>1
  <2>. QED BY <2>1 DEF Moved
<1>3. {n + k + term : term \in Generator} = Moved({k + term : term \in Generator}, n)
  <2>1. \A term \in Generator : n + k + term = (k + term) + n
    BY <1>1
  <2>. QED BY <2>1 DEF Moved
<1>4. Xor(Moved(p, n), Moved({k + term : term \in Generator}, n))
         = Moved(Xor(p, {k + term : term \in Generator}), n)
  <2>. DEFINE q == {k + term : term \in Generator}
  <2>1. q \subseteq Int
    BY <1>1
  <2>. HIDE DEF q
  <2>2. \A x, y \in Int : x + n = y + n => x = y
    OBVIOUS
  <2>3. \A x \in p, y \in q : x + n = y + n => x = y
    BY <2>1, <2>2
  <2>. QED BY <2>3 DEF Moved, Xor, q
<1>. QED BY <1>2, <1>3, <1>4 DEF Reduce
-----------------------------------------------------------------------------
(***************************************************************************)
(* Numbers and the registers that stand for them.                          *)
(***************************************************************************)
LEMMA PowerIs ==
    /\ PowerOfTwo[0] = 1
    /\ \A n \in 0 .. Width - 1 : PowerOfTwo[n + 1] = 2 * PowerOfTwo[n]
BY Widths, Powers DEF PowerOfTwo

LEMMA PowerType == \A n \in 0 .. Width : PowerOfTwo[n] \in Nat \ {0}
BY Widths, Powers DEF PowerOfTwo

\* A power of two is an even multiple of every smaller one.
LEMMA PowerDivides ==
    ASSUME NEW n \in 0 .. Width, NEW m \in 0 .. n - 1
    PROVE  \E q \in Nat : PowerOfTwo[n] = (2 * q) * PowerOfTwo[m]
<1>. DEFINE Divides(k) == \E q \in Nat : PowerOfTwo[m + 1 + k] = (2 * q) * PowerOfTwo[m]
            S == {k \in 0 .. n - (m + 1) : Divides(k)}
<1>0. m \in 0 .. Width /\ m \in 0 .. Width - 1 /\ n - (m + 1) \in Nat /\ m + 1 + 0 = m + 1
  BY Widths
<1>1. 0 \in S
  <2>1. PowerOfTwo[m + 1 + 0] = 2 * PowerOfTwo[m]
    BY <1>0, PowerIs
  <2>2. PowerOfTwo[m + 1 + 0] = (2 * 1) * PowerOfTwo[m]
    BY <2>1
  <2>3. Divides(0)
    BY <2>2
  <2>. QED BY <1>0, <2>3
<1>2. ASSUME NEW k \in 0 .. n - (m + 1) - 1, k \in S PROVE k + 1 \in S
  <2>1. PICK q \in Nat : PowerOfTwo[m + 1 + k] = (2 * q) * PowerOfTwo[m]
    BY <1>2
  <2>2. m + 1 + k \in 0 .. Width - 1 /\ m + 1 + (k + 1) = m + 1 + k + 1
    BY <1>0, Widths
  <2>3. PowerOfTwo[m + 1 + (k + 1)] = 2 * PowerOfTwo[m + 1 + k]
    BY <2>2, PowerIs
  <2>. DEFINE r == 2 * q
              d == PowerOfTwo[m]
  <2>4. d \in Nat /\ r \in Nat
    BY <1>0, PowerType
  <2>. HIDE DEF r, d
  <2>5. 2 * (r * d) = (2 * r) * d
    BY <2>4
  <2>6. PowerOfTwo[m + 1 + (k + 1)] = (2 * r) * PowerOfTwo[m]
    BY <2>1, <2>3, <2>5 DEF r, d
  <2>. QED BY <2>4, <2>6, <1>0
<1>3. n - (m + 1) \in S
  <2>. HIDE DEF S
  <2>1. 0 .. n - (m + 1) \subseteq S
    BY <1>0, <1>1, <1>2, Upwards
  <2>. QED BY <1>0, <2>1
<1>4. m + 1 + (n - (m + 1)) = n
  BY <1>0
<1>. QED BY <1>3, <1>4

LEMMA PowerMonotone ==
    ASSUME NEW n \in 0 .. Width, NEW m \in 0 .. n
    PROVE  PowerOfTwo[m] <= PowerOfTwo[n]
<1>1. CASE m = n
  BY <1>1, PowerType
<1>2. CASE m # n
  <2>1. m \in 0 .. n - 1 /\ m \in 0 .. Width
    BY <1>2, Widths
  <2>2. PICK q \in Nat : PowerOfTwo[n] = (2 * q) * PowerOfTwo[m]
    BY <2>1, PowerDivides
  <2>. DEFINE d == PowerOfTwo[m]
              e == PowerOfTwo[n]
  <2>3. d \in Nat \ {0} /\ e \in Nat \ {0} /\ e = (2 * q) * d
    BY <2>1, <2>2, PowerType
  <2>. HIDE DEF d, e
  <2>4. q # 0
    BY <2>3
  <2>5. (2 * q) * d = d + ((2 * q) - 1) * d /\ ((2 * q) - 1) * d >= 0
    BY <2>3, <2>4
  <2>6. d <= e
    BY <2>3, <2>5
  <2>. QED BY <2>6 DEF d, e
<1>. QED BY <1>1, <1>2

LEMMA Quotient ==
    ASSUME NEW d \in Nat \ {0}, NEW q \in Nat, NEW r \in 0 .. d - 1
    PROVE  ((q * d) + r) \div d = q
OBVIOUS

LEMMA QuotientMoves ==
    ASSUME NEW d \in Nat \ {0}, NEW n \in Nat, NEW q \in Nat
    PROVE  (n + (q * d)) \div d = (n \div d) + q
OBVIOUS
\* The number of m bits needs no more than m bits.
LEMMA BitsOfType ==
    ASSUME NEW m \in 0 .. Width, NEW n \in 0 .. PowerOfTwo[m] - 1
    PROVE  BitsOf(n) \subseteq 0 .. m - 1
<1>. SUFFICES ASSUME NEW bit \in BitsOf(n), ~(bit \in 0 .. m - 1) PROVE FALSE
  OBVIOUS
<1>1. bit \in 0 .. Width /\ m \in 0 .. bit /\ (n \div PowerOfTwo[bit]) % 2 = 1
  BY Widths DEF BitsOf, Bits
<1>. DEFINE d == PowerOfTwo[bit]
            e == PowerOfTwo[m]
<1>2. e <= d /\ d \in Nat \ {0} /\ e \in Nat \ {0} /\ n \in 0 .. e - 1
  BY <1>1, PowerMonotone, PowerType
<1>3. (n \div d) % 2 = 1
  BY <1>1
<1>. HIDE DEF d, e
<1>4. n \in 0 .. d - 1 /\ (0 * d) + n = n
  BY <1>2
<1>5. n \div d = 0
  <2>1. ((0 * d) + n) \div d = 0
    BY <1>2, <1>4, Quotient
  <2>. QED BY <1>4, <2>1
<1>. QED BY <1>3, <1>5

\* A number of m bits, with bit m added.
LEMMA BitsOfSum ==
    ASSUME NEW m \in 0 .. Width - 1, NEW n \in 0 .. PowerOfTwo[m] - 1
    PROVE  /\ n + PowerOfTwo[m] \in 0 .. PowerOfTwo[m + 1] - 1
           /\ BitsOf(n + PowerOfTwo[m]) = BitsOf(n) \union {m}
<1>. DEFINE e == PowerOfTwo[m]
<1>1. /\ m \in 0 .. Width /\ m + 1 \in 0 .. Width /\ m \in Bits
      /\ e \in Nat \ {0} /\ PowerOfTwo[m + 1] = 2 * e
  BY PowerIs, PowerType, Widths DEF Bits
<1>2. n + e \in 0 .. PowerOfTwo[m + 1] - 1
  <2>. HIDE DEF e
  <2>1. n \in 0 .. e - 1
    BY DEF e
  <2>. QED BY <1>1, <2>1
<1>3. ASSUME NEW bit \in 0 .. m - 1
      PROVE  bit \in BitsOf(n + e) <=> bit \in BitsOf(n)
  <2>1. bit \in Bits /\ bit \in 0 .. Width
    BY Widths DEF Bits
  <2>. DEFINE d == PowerOfTwo[bit]
  <2>2. PICK q \in Nat : e = (2 * q) * d
    BY <1>1, PowerDivides
  <2>3. d \in Nat \ {0}
    BY <2>1, PowerType
  <2>. DEFINE x == n \div d
  <2>4. n \in Nat
    BY <1>1
  <2>. HIDE DEF d, e
  <2>5. 2 * q \in Nat
    OBVIOUS
  <2>6. (n + e) \div d = (n \div d) + (2 * q)
    BY <2>2, <2>3, <2>4, <2>5, QuotientMoves
  <2>7. x \in Nat
    BY <2>3, <2>4
  <2>8. ((n + e) \div d) % 2 = x % 2
    <3>. HIDE DEF x
    <3>1. (n + e) \div d = x + (2 * q)
      BY <2>6 DEF x
    <3>2. (x + (2 * q)) % 2 = x % 2
      BY <2>7
    <3>. QED BY <3>1, <3>2
  <2>. QED BY <2>1, <2>8 DEF BitsOf, d
<1>4. m \in BitsOf(n + e)
  <2>. HIDE DEF e
  <2>1. n \in 0 .. e - 1 /\ n + e = (1 * e) + n
    BY <1>1 DEF e
  <2>2. ((1 * e) + n) \div e = 1
    BY <1>1, <2>1, Quotient
  <2>3. (n + e) \div e = 1
    BY <2>1, <2>2
  <2>. QED BY <1>1, <2>3 DEF BitsOf, e
<1>5. BitsOf(n + e) \subseteq 0 .. m + 1 - 1
  BY <1>1, <1>2, BitsOfType
<1>6. BitsOf(n) \subseteq 0 .. m - 1
  BY <1>1, BitsOfType
<1>7. BitsOf(n + e) = BitsOf(n) \union {m}
  <2>. DEFINE new == BitsOf(n + e)
              old == BitsOf(n)
  <2>1. \A bit \in 0 .. m - 1 : bit \in new <=> bit \in old
    BY <1>3
  <2>2. 0 .. m + 1 - 1 = (0 .. m - 1) \union {m}
    BY <1>1
  <2>3. m \in new /\ new \subseteq (0 .. m - 1) \union {m} /\ old \subseteq 0 .. m - 1
    BY <1>4, <1>5, <1>6, <2>2
  <2>. HIDE DEF new, old
  <2>4. new = old \union {m}
    BY <2>1, <2>3
  <2>. QED BY <2>4 DEF new, old
<1>. QED BY <1>2, <1>7

\* Every set of m bits is that of a number.
LEMMA BitsOfOnto ==
    ASSUME NEW m \in 0 .. Width
    PROVE  \A bits \in SUBSET (0 .. m - 1) :
              \E n \in 0 .. PowerOfTwo[m] - 1 : BitsOf(n) = bits
<1>. DEFINE Onto(k) == \A bits \in SUBSET (0 .. k - 1) :
                          \E n \in 0 .. PowerOfTwo[k] - 1 : BitsOf(n) = bits
            S == {k \in 0 .. Width : Onto(k)}
<1>1. 0 \in S
  <2>1. 0 \in 0 .. PowerOfTwo[0] - 1 /\ 0 .. 0 - 1 = {}
    BY PowerIs
  <2>2. BitsOf(0) = {}
    BY <2>1, BitsOfType, Widths
  <2>3. Onto(0)
    BY <2>1, <2>2
  <2>. QED BY <2>3, Widths
<1>2. ASSUME NEW k \in 0 .. Width - 1, k \in S PROVE k + 1 \in S
  <2>1. ASSUME NEW bits \in SUBSET (0 .. k + 1 - 1)
        PROVE  \E n \in 0 .. PowerOfTwo[k + 1] - 1 : BitsOf(n) = bits
    <3>1. 0 .. k + 1 - 1 = (0 .. k - 1) \union {k}
      BY Widths
    <3>2. bits \ {k} \in SUBSET (0 .. k - 1)
      BY <3>1
    <3>3. PICK n \in 0 .. PowerOfTwo[k] - 1 : BitsOf(n) = bits \ {k}
      BY <1>2, <3>2
    <3>4. CASE k \in bits
      <4>1. BitsOf(n + PowerOfTwo[k]) = bits
        BY <3>3, <3>4, BitsOfSum
      <4>. QED BY <4>1, BitsOfSum
    <3>5. CASE k \notin bits
      <4>1. n \in 0 .. PowerOfTwo[k + 1] - 1
        BY PowerIs, PowerType, Widths
      <4>. QED BY <3>3, <3>5, <4>1
    <3>. QED BY <3>4, <3>5
  <2>2. k + 1 \in 0 .. Width
    BY Widths
  <2>. QED BY <2>1, <2>2
<1>3. 0 .. Width \subseteq S
  <2>. HIDE DEF S
  <2>. QED BY <1>1, <1>2, Upwards, Widths
<1>. QED BY <1>3
-----------------------------------------------------------------------------
(***************************************************************************)
(* Registers as polynomials.                                               *)
(***************************************************************************)
LEMMA XorFacts ==
    \A a, b, c :
        /\ Xor(a, b) = Xor(b, a)
        /\ Xor(Xor(a, b), c) = Xor(a, Xor(b, c))
        /\ Xor(a, Xor(a, b)) = b
        /\ Xor(a, {}) = a
        /\ Xor(a, a) = {}
BY DEF Xor

LEMMA PlaceXor ==
    ASSUME NEW a \in SUBSET Int, NEW b \in SUBSET Int, NEW n \in Int
    PROVE  Place(Xor(a, b), n) = Xor(Place(a, n), Place(b, n))
<1>1. \A x, y \in Int : Width - 1 + n - x = Width - 1 + n - y => x = y
  BY Widths
<1>2. \A x \in a, y \in b : Width - 1 + n - x = Width - 1 + n - y => x = y
  BY <1>1
<1>. QED BY <1>2 DEF Place, Xor

LEMMA PlaceType ==
    ASSUME NEW a \in SUBSET Int, NEW n \in Int
    PROVE  Place(a, n) \in SUBSET Int
BY Widths DEF Place

LEMMA PlaceMoved ==
    ASSUME NEW a \in SUBSET Int, NEW n \in Int, NEW m \in Int
    PROVE  Moved(Place(a, n), m) = Place(a, n + m)
<1>1. \A x \in Int : (Width - 1 + n - x) + m = Width - 1 + (n + m) - x
  BY Widths
<1>2. \A x \in a : (Width - 1 + n - x) + m = Width - 1 + (n + m) - x
  BY <1>1
<1>. QED BY <1>2 DEF Place, Moved

\* >> drops the low bits.
LEMMA PlaceShift ==
    ASSUME NEW a \in SUBSET Int, NEW n \in Int, NEW m \in Int
    PROVE  Place(ShiftRight(a, m), n) = Place({x \in a : x >= m}, n + m)
<1>. DEFINE high == {x \in a : x >= m}
<1>1. \A x \in Int : Width - 1 + n - (x - m) = Width - 1 + (n + m) - x
  BY Widths
<1>2. \A x \in high : Width - 1 + n - (x - m) = Width - 1 + (n + m) - x
  BY <1>1
<1>3. ShiftRight(a, m) = {x - m : x \in high}
  BY DEF ShiftRight
<1>. HIDE DEF high
<1>4. Place(ShiftRight(a, m), n) = {Width - 1 + n - (x - m) : x \in high}
  BY <1>3 DEF Place
<1>5. Place(high, n + m) = {Width - 1 + (n + m) - x : x \in high}
  BY DEF Place
<1>. QED BY <1>2, <1>4, <1>5 DEF high

\* The generator in front of k other bits.
LEMMA GeneratorAt ==
    ASSUME NEW k \in Int
    PROVE  {k + term : term \in Generator} = {Width + k} \union Place(polynomial, k)
<1>1. Width \in Int /\ polynomial \in SUBSET Int
  BY Widths DEF Bits
<1>2. k + Width = Width + k /\ \A x \in Int : k + (Width - 1 - x) = Width - 1 + k - x
  BY <1>1
<1>3. \A x \in polynomial : k + (Width - 1 - x) = Width - 1 + k - x
  BY <1>1, <1>2
<1>. QED BY <1>2, <1>3 DEF Generator, Place

\* A step of the inner loop of init_crc32_table divides by one more bit.
LEMMA DivideReduces ==
    ASSUME NEW register \in Register, NEW n \in Nat
    PROVE  Place(IF 0 \in register THEN Xor(ShiftRight(register, 1), polynomial)
                                   ELSE ShiftRight(register, 1), n)
              = Reduce(Place(register, n + 1), n)
<1>. DEFINE all == Place(register, n + 1)
            high == {x \in register : x >= 1}
            shifted == ShiftRight(register, 1)
<1>1. /\ register \in SUBSET Int /\ high \in SUBSET Int /\ shifted \in SUBSET Int
      /\ Width \in Nat \ {0} /\ polynomial \in SUBSET Int /\ n \in Int /\ 1 \in Int
  <2>1. Bits \subseteq Int /\ Width \in Nat \ {0} /\ polynomial \subseteq Bits
    BY Widths DEF Bits
  <2>2. register \subseteq Int /\ high \subseteq Int
    BY <2>1 DEF Register
  <2>3. shifted = {x - 1 : x \in high}
    BY DEF ShiftRight
  <2>4. shifted \subseteq Int
    <3>. HIDE DEF high, shifted
    <3>. QED BY <2>2, <2>3
  <2>. QED BY <2>1, <2>2, <2>4
<1>2. Place(shifted, n) = Place(high, n + 1)
  BY <1>1, PlaceShift
<1>3. \A x \in register : x >= 1 \/ x = 0
  BY Widths DEF Register, Bits
<1>4. Width + n \notin Place(high, n + 1)
  <2>1. \A x \in high : Width - 1 + (n + 1) - x # Width + n
    BY <1>1
  <2>. QED BY <2>1 DEF Place
<1>5. CASE 0 \in register
  <2>1. register = {0} \union high
    BY <1>3, <1>5
  <2>2. all = {Width + n} \union Place(high, n + 1)
    <3>1. Width - 1 + (n + 1) - 0 = Width + n
      BY <1>1
    <3>. HIDE DEF high
    <3>. QED BY <2>1, <3>1 DEF Place
  <2>3. Reduce(all, n) = Xor(all, {Width + n} \union Place(polynomial, n))
    BY <2>2, GeneratorAt, <1>1 DEF Reduce
  <2>4. Width + n \notin Place(polynomial, n)
    <3>1. \A x \in polynomial : Width - 1 + n - x # Width + n
      BY Widths DEF Bits
    <3>. QED BY <3>1 DEF Place
  <2>. DEFINE u == Place(high, n + 1)
              v == Place(polynomial, n)
              top == Width + n
  <2>5. Xor({top} \union u, {top} \union v) = Xor(u, v)
    <3>1. top \notin u /\ top \notin v
      BY <1>4, <2>4
    <3>. HIDE DEF u, v, top
    <3>. QED BY <3>1 DEF Xor
  <2>6. Place(Xor(shifted, polynomial), n) = Xor(u, v)
    BY <1>1, <1>2, PlaceXor
  <2>. QED BY <1>5, <2>2, <2>3, <2>5, <2>6
<1>6. CASE 0 \notin register
  <2>1. register = high
    BY <1>3, <1>6
  <2>2. all = Place(high, n + 1)
    BY <2>1
  <2>3. Reduce(all, n) = all
    BY <1>4, <2>2 DEF Reduce
  <2>. QED BY <1>2, <1>6, <2>2, <2>3
<1>. QED BY <1>5, <1>6

LEMMA DivisionType ==
    ASSUME NEW p \in SUBSET Int, NEW n \in Nat
    PROVE  \A k \in 0 .. n : Division(p, n)[k] \in SUBSET Int
<1>. DEFINE rest == Division(p, n)
            S == {k \in 0 .. n : rest[k] \in SUBSET Int}
<1>1. rest[n] = p /\ \A k \in 0 .. n - 1 : rest[k] = Reduce(rest[k + 1], k)
  BY DivisionIs
<1>. HIDE DEF rest
<1>2. n \in S
  <2>1. n \in 0 .. n
    OBVIOUS
  <2>. QED BY <1>1, <2>1
<1>3. ASSUME NEW k \in 0 .. n - 1, k + 1 \in S PROVE k \in S
  <2>1. Generator \in SUBSET Int
    BY Widths DEF Generator, Bits
  <2>2. {k + term : term \in Generator} \in SUBSET Int
    BY <2>1
  <2>3. Reduce(rest[k + 1], k) \in SUBSET Int
    BY <1>3, <2>2 DEF Reduce, Xor
  <2>. QED BY <1>1, <2>3
<1>. HIDE DEF S
<1>4. 0 .. n \subseteq S
  BY <1>2, <1>3, Downwards
<1>. QED BY <1>4 DEF S, rest

\* A byte is taken out of the dividend at once: what is behind it does not matter.
LEMMA ByteDivision ==
    ASSUME NEW rest, NEW base \in Nat, NEW fixed \in SUBSET Int, NEW low \in SUBSET Int,
           \A e \in fixed : e < Width + base,
           rest[base + ByteWidth] = Xor(fixed, Moved(low, base)),
           \A k \in base .. base + ByteWidth - 1 : rest[k] = Reduce(rest[k + 1], k)
    PROVE  rest[base] = Xor(fixed, Moved(Remainder(low, ByteWidth), base))
<1>. DEFINE part == Division(low, ByteWidth)
            S == {m \in 0 .. ByteWidth :
                    rest[base + m] = Xor(fixed, Moved(part[m], base))}
<1>1. ByteWidth \in Nat /\ Width \in Nat
  BY Widths
<1>2. /\ part[ByteWidth] = low
      /\ \A k \in 0 .. ByteWidth - 1 : part[k] = Reduce(part[k + 1], k)
      /\ \A k \in 0 .. ByteWidth : part[k] \in SUBSET Int
  BY <1>1, DivisionIs, DivisionType
<1>. HIDE DEF part
<1>3. ByteWidth \in S
  BY <1>1, <1>2
<1>4. ASSUME NEW m \in 0 .. ByteWidth - 1, m + 1 \in S PROVE m \in S
  <2>1. /\ base + m \in base .. base + ByteWidth - 1 /\ base + m \in Nat
        /\ base + m + 1 = base + (m + 1) /\ m \in Nat /\ m + 1 \in 0 .. ByteWidth
    BY <1>1
  <2>2. Width + (base + m) \notin fixed
    BY <1>1, <2>1
  <2>3. rest[base + m] = Reduce(rest[base + (m + 1)], base + m)
    BY <2>1
  <2>4. rest[base + (m + 1)] = Xor(fixed, Moved(part[m + 1], base))
    BY <1>4
  <2>5. Reduce(Xor(fixed, Moved(part[m + 1], base)), base + m)
           = Xor(fixed, Reduce(Moved(part[m + 1], base), base + m))
    BY <2>1, <2>2, ReduceXor
  <2>6. Reduce(Moved(part[m + 1], base), base + m) = Moved(part[m], base)
    <3>1. part[m + 1] \in SUBSET Int /\ Reduce(part[m + 1], m) = part[m]
      BY <1>2, <2>1
    <3>2. Reduce(Moved(part[m + 1], base), base + m) = Moved(Reduce(part[m + 1], m), base)
      BY <2>1, <3>1, ReduceMoved
    <3>. QED BY <3>1, <3>2
  <2>7. rest[base + m] = Xor(fixed, Moved(part[m], base))
    BY <2>3, <2>4, <2>5, <2>6
  <2>. QED BY <1>1, <2>7
<1>5. 0 \in S
  <2>. HIDE DEF S
  <2>1. 0 .. ByteWidth \subseteq S
    BY <1>1, <1>3, <1>4, Downwards
  <2>. QED BY <1>1, <2>1
<1>6. base + 0 = base
  OBVIOUS
<1>. QED BY <1>5, <1>6 DEF Remainder, part
-----------------------------------------------------------------------------
(***************************************************************************)
(* The bytes of a content as polynomials.                                  *)
(***************************************************************************)
LEMMA ContentIs ==
    ASSUME NEW bytes \in Content
    PROVE  /\ Len(bytes) \in 1 .. MaxLength
           /\ bytes \in [1 .. Len(bytes) -> Byte]
           /\ bytes # << >>
<1>1. PICK n \in 1 .. MaxLength : bytes \in [1 .. n -> Byte]
  BY DEF Content
<1>2. bytes \in Seq(Byte) /\ Len(bytes) = n
  BY <1>1, Widths
<1>. QED BY <1>1, <1>2

\* The bits that are left behind n bytes.
Behind(bytes, n) == ByteWidth * (Len(bytes) - n)

LEMMA BehindIs ==
    ASSUME NEW length \in Nat, NEW n \in 0 .. length - 1
    PROVE  /\ ByteWidth * (length - n) = ByteWidth * (length - (n + 1)) + ByteWidth
           /\ ByteWidth * (length - (n + 1)) \in Nat
           /\ ByteWidth * (length - n) \in Nat
           /\ ByteWidth * (length - n) <= ByteWidth * length
<1>1. ByteWidth \in Nat
  BY Widths
<1>. DEFINE m == length - (n + 1)
<1>2. m \in Nat /\ length - n = m + 1 /\ length = m + 1 + n
  OBVIOUS
<1>. HIDE DEF m
<1>3. /\ ByteWidth * (m + 1) = ByteWidth * m + ByteWidth
      /\ ByteWidth * m \in Nat
      /\ ByteWidth * (m + 1) \in Nat
  BY <1>1, <1>2
<1>4. ByteWidth * n \in Nat /\ ByteWidth * (m + 1 + n) = ByteWidth * (m + 1) + ByteWidth * n
  BY <1>1, <1>2
<1>5. ByteWidth * (m + 1) <= ByteWidth * length
  BY <1>2, <1>3, <1>4
<1>. QED BY <1>2, <1>3, <1>5 DEF m

\* A byte is placed as a register whose first bits it is.
LEMMA TermsAre ==
    ASSUME NEW bytes \in Content, NEW n \in 0 .. Len(bytes) - 1
    PROVE  Terms(bytes, n + 1) = Place(bytes[n + 1], Behind(bytes, n))
<1>. DEFINE length == Len(bytes)
            all == ByteWidth * length
            taken == n * ByteWidth
<1>1. length \in Nat /\ n \in Nat /\ Width \in Nat /\ ByteWidth \in Nat
  BY ContentIs, Widths
<1>2. n + 1 - 1 = n
  BY <1>1
<1>3. Behind(bytes, n) = all - taken
  BY <1>1 DEF Behind
<1>4. all \in Int /\ taken \in Int
  BY <1>1
<1>5. bytes[n + 1] \subseteq Int
  BY ContentIs, <1>1 DEF Byte
<1>6. Terms(bytes, n + 1) = {Width + all - 1 - (taken + bit) : bit \in bytes[n + 1]}
  BY <1>2 DEF Terms
<1>. HIDE DEF all, taken
<1>7. \A bit \in Int : Width + all - 1 - (taken + bit) = Width - 1 + (all - taken) - bit
  BY <1>1, <1>4
<1>8. \A bit \in bytes[n + 1] :
         Width + all - 1 - (taken + bit) = Width - 1 + (all - taken) - bit
  BY <1>5, <1>7
<1>. QED BY <1>3, <1>6, <1>8 DEF Place

\* Where the terms of a byte are.
LEMMA TermsRange ==
    ASSUME NEW bytes \in Content, NEW n \in 0 .. Len(bytes) - 1
    PROVE  Terms(bytes, n + 1) \subseteq
              Width + Behind(bytes, n + 1) .. Width + Behind(bytes, n) - 1
<1>. DEFINE big == Behind(bytes, n)
            small == Behind(bytes, n + 1)
<1>1. Len(bytes) \in Nat /\ n \in Nat /\ Width \in Nat /\ ByteWidth \in Nat
  BY ContentIs, Widths
<1>2. big = small + ByteWidth /\ small \in Nat
  BY <1>1, BehindIs DEF Behind
<1>3. bytes[n + 1] \subseteq 0 .. ByteWidth - 1
  BY ContentIs, <1>1 DEF Byte
<1>4. Terms(bytes, n + 1) = Place(bytes[n + 1], big)
  BY TermsAre
<1>. HIDE DEF big, small
<1>5. \A bit \in 0 .. ByteWidth - 1 :
         Width - 1 + big - bit \in Width + small .. Width + big - 1
  BY <1>1, <1>2
<1>6. \A bit \in bytes[n + 1] :
         Width - 1 + big - bit \in Width + small .. Width + big - 1
  BY <1>3, <1>5
<1>7. Place(bytes[n + 1], big) \subseteq Width + small .. Width + big - 1
  BY <1>6 DEF Place
<1>. QED BY <1>4, <1>7 DEF big, small

\* The bytes that are not read are behind the ones that are.
LEMMA UnreadRange ==
    ASSUME NEW bytes \in Content, NEW n \in 0 .. Len(bytes)
    PROVE  /\ Unread(bytes, n) \subseteq 0 .. Width + Behind(bytes, n) - 1
           /\ Unread(bytes, n) \in SUBSET Int
<1>. DEFINE length == Len(bytes)
            S == {k \in 0 .. length : Unread(bytes, k) \subseteq 0 .. Width + Behind(bytes, k) - 1}
<1>1. length \in Nat /\ Width \in Nat /\ ByteWidth \in Nat
  BY ContentIs, Widths
<1>2. length \in S
  <2>1. length + 1 .. length = {}
    BY <1>1
  <2>2. Unread(bytes, length) = {}
    BY <2>1 DEF Unread
  <2>. QED BY <1>1, <2>2
<1>3. ASSUME NEW k \in 0 .. length - 1, k + 1 \in S PROVE k \in S
  <2>. DEFINE big == Behind(bytes, k)
              small == Behind(bytes, k + 1)
  <2>1. big = small + ByteWidth /\ small \in Nat
    BY <1>1, BehindIs DEF Behind
  <2>2. k + 1 .. length = {k + 1} \union (k + 1 + 1 .. length)
    BY <1>1
  <2>3. Unread(bytes, k) = Terms(bytes, k + 1) \union Unread(bytes, k + 1)
    BY <2>2 DEF Unread
  <2>4. Terms(bytes, k + 1) \subseteq Width + small .. Width + big - 1
    BY TermsRange
  <2>5. Unread(bytes, k + 1) \subseteq 0 .. Width + small - 1
    BY <1>3
  <2>. HIDE DEF big, small
  <2>6. /\ Width + small .. Width + big - 1 \subseteq 0 .. Width + big - 1
        /\ 0 .. Width + small - 1 \subseteq 0 .. Width + big - 1
    BY <1>1, <2>1
  <2>7. Unread(bytes, k) \subseteq 0 .. Width + big - 1
    BY <2>3, <2>4, <2>5, <2>6
  <2>8. k \in 0 .. length
    BY <1>1
  <2>. QED BY <2>7, <2>8 DEF big
<1>4. n \in S
  <2>. HIDE DEF S
  <2>1. 0 .. length \subseteq S
    BY <1>1, <1>2, <1>3, Downwards
  <2>. QED BY <2>1
<1>. QED BY <1>4

LEMMA UnreadNext ==
    ASSUME NEW bytes \in Content, NEW n \in 0 .. Len(bytes) - 1
    PROVE  Unread(bytes, n) =
              Xor(Place(bytes[n + 1], Behind(bytes, n)), Unread(bytes, n + 1))
<1>. DEFINE length == Len(bytes)
            small == Behind(bytes, n + 1)
            big == Behind(bytes, n)
<1>1. length \in Nat /\ Width \in Nat /\ n + 1 \in 0 .. length
  BY ContentIs, Widths
<1>2. n + 1 .. length = {n + 1} \union (n + 1 + 1 .. length)
  BY <1>1
<1>3. Unread(bytes, n) = Terms(bytes, n + 1) \union Unread(bytes, n + 1)
  BY <1>2 DEF Unread
<1>4. Terms(bytes, n + 1) \subseteq Width + small .. Width + big - 1
  BY TermsRange
<1>5. Unread(bytes, n + 1) \subseteq 0 .. Width + small - 1
  BY <1>1, UnreadRange
<1>6. small \in Int /\ big \in Int
  <2>1. ByteWidth \in Int /\ length - n \in Int /\ length - (n + 1) \in Int
    BY <1>1, Widths
  <2>. QED BY <2>1 DEF Behind
<1>7. (Width + small .. Width + big - 1) \intersect (0 .. Width + small - 1) = {}
  <2>. HIDE DEF small, big
  <2>. QED BY <1>1, <1>6
<1>8. Terms(bytes, n + 1) \intersect Unread(bytes, n + 1) = {}
  <2>. HIDE DEF small, big
  <2>. QED BY <1>4, <1>5, <1>7
<1>9. Unread(bytes, n) = Xor(Terms(bytes, n + 1), Unread(bytes, n + 1))
  BY <1>3, <1>8 DEF Xor
<1>. QED BY <1>9, TermsAre
\* The first step: the bits that are inverted are a register of ones.
LEMMA DividendIs ==
    ASSUME NEW bytes \in Content
    PROVE  /\ ByteWidth * Len(bytes) \in Nat
           /\ Behind(bytes, 0) = ByteWidth * Len(bytes)
           /\ Dividend(bytes) = Xor(Place(All, Behind(bytes, 0)), Unread(bytes, 0))
           /\ Dividend(bytes) \in SUBSET Int
<1>. DEFINE all == ByteWidth * Len(bytes)
<1>1. Len(bytes) \in Nat /\ Width \in Nat /\ all \in Nat /\ Len(bytes) - 0 = Len(bytes)
  BY ContentIs, Widths
<1>2. Behind(bytes, 0) = all
  BY <1>1 DEF Behind
<1>3. Dividend(bytes) = Xor(Unread(bytes, 0), all .. all + Width - 1)
  BY DEF Dividend
<1>. HIDE DEF all
<1>4. Place(All, all) = all .. all + Width - 1
  <2>1. \A bit \in 0 .. Width - 1 : Width - 1 + all - bit \in all .. all + Width - 1
    BY <1>1
  <2>2. \A e \in all .. all + Width - 1 :
           /\ Width - 1 + all - e \in 0 .. Width - 1
           /\ e = Width - 1 + all - (Width - 1 + all - e)
    BY <1>1
  <2>. QED BY <2>1, <2>2 DEF Place, All, Bits
<1>5. Dividend(bytes) = Xor(Place(All, all), Unread(bytes, 0))
  BY <1>3, <1>4, XorFacts
<1>6. Unread(bytes, 0) \in SUBSET Int
  BY UnreadRange, <1>1
<1>7. Dividend(bytes) \in SUBSET Int
  BY <1>1, <1>3, <1>6 DEF Xor
<1>. QED BY <1>1, <1>2, <1>5, <1>7 DEF all

\* Every byte has its entry.
Entries == \A byte \in Byte : EntryIs(byte)

\* A byte of calculate_crc32.
Shifted(register, byte) ==
    Xor(ShiftRight(register, ByteWidth),
        table[Xor(register, byte) \intersect (0 .. ByteWidth - 1)])

\* A step of the loop over the bytes divides by the bits of a byte.
LEMMA UpdateDivides ==
    ASSUME NEW rest, NEW bytes \in Content, NEW n \in 0 .. Len(bytes) - 1,
           NEW register \in Register, table \in [Byte -> Register], Entries,
           rest[Behind(bytes, n)] = Xor(Place(register, Behind(bytes, n)), Unread(bytes, n)),
           \A k \in 0 .. Behind(bytes, n) - 1 : rest[k] = Reduce(rest[k + 1], k)
    PROVE  /\ Shifted(register, bytes[n + 1]) \in Register
           /\ rest[Behind(bytes, n + 1)] =
                 Xor(Place(Shifted(register, bytes[n + 1]), Behind(bytes, n + 1)),
                     Unread(bytes, n + 1))
<1>. DEFINE byte == bytes[n + 1]
            sum == Xor(register, byte)
            low == sum \intersect (0 .. ByteWidth - 1)
            high == {x \in sum : x >= ByteWidth}
            big == Behind(bytes, n)
            small == Behind(bytes, n + 1)
            behind == Unread(bytes, n + 1)
            fixed == Xor(Place(high, big), behind)
            shifted == ShiftRight(register, ByteWidth)
            entry == table[low]
<1>1. Len(bytes) \in Nat /\ n \in Nat /\ n + 1 \in 1 .. Len(bytes) /\ n + 1 \in 0 .. Len(bytes)
  BY ContentIs, Widths
<1>2. big = small + ByteWidth /\ small \in Nat /\ big \in Nat
  BY <1>1, BehindIs DEF Behind
<1>3. Width \in Nat /\ ByteWidth \in Nat /\ ByteWidth <= Width
  BY Widths
<1>4. byte \in Byte /\ byte \subseteq 0 .. ByteWidth - 1
  BY ContentIs, <1>1 DEF Byte
<1>5. register \subseteq 0 .. Width - 1 /\ sum \subseteq 0 .. Width - 1
  <2>1. register \subseteq 0 .. Width - 1
    BY DEF Register, Bits
  <2>2. 0 .. ByteWidth - 1 \subseteq 0 .. Width - 1
    BY <1>3
  <2>. QED BY <1>4, <2>1, <2>2 DEF Xor
<1>6. low \in Byte /\ entry \in Register
  BY DEF Byte
<1>7. /\ low \in SUBSET Int /\ high \in SUBSET Int /\ register \in SUBSET Int
      /\ byte \in SUBSET Int /\ sum \in SUBSET Int /\ entry \in SUBSET Int
  BY <1>4, <1>5, <1>6 DEF Register, Bits
<1>8. sum = Xor(high, low)
  <2>1. \A x \in 0 .. Width - 1 : x \in 0 .. ByteWidth - 1 <=> ~(x >= ByteWidth)
    BY <1>3
  <2>2. sum = high \union low /\ high \intersect low = {}
    BY <1>5, <2>1
  <2>. HIDE DEF sum, high, low
  <2>. QED BY <2>2 DEF Xor
<1>9. high = {x \in register : x >= ByteWidth}
  <2>1. \A x \in Int : x >= ByteWidth => x \notin 0 .. ByteWidth - 1
    BY <1>3
  <2>2. \A x \in sum \union register : x >= ByteWidth => x \notin byte
    BY <1>4, <1>7, <2>1
  <2>. QED BY <2>2 DEF Xor
<1>10. /\ shifted \in Register /\ shifted \in SUBSET Int
  <2>1. \A x \in 0 .. Width - 1 : x >= ByteWidth => x - ByteWidth \in 0 .. Width - 1
    BY <1>3
  <2>2. shifted = {x - ByteWidth : x \in high}
    BY <1>9 DEF ShiftRight
  <2>3. \A x \in high : x - ByteWidth \in 0 .. Width - 1
    BY <1>5, <2>1
  <2>4. shifted \subseteq 0 .. Width - 1
    <3>. HIDE DEF shifted, high
    <3>. QED BY <2>2, <2>3
  <2>. QED BY <2>4 DEF Register, Bits
<1>11. Place(shifted, small) = Place(high, big)
  BY <1>2, <1>3, <1>7, <1>9, PlaceShift
<1>12. behind \in SUBSET Int /\ behind \subseteq 0 .. Width + small - 1
  BY <1>1, UnreadRange
<1>13. fixed \in SUBSET Int
  BY <1>2, <1>7, <1>12, PlaceType DEF Xor
<1>14. \A e \in fixed : e < Width + small
  <2>1. \A e \in behind : e < Width + small
    BY <1>2, <1>3, <1>12
  <2>2. \A x \in 0 .. Width - 1 : x >= ByteWidth => Width - 1 + big - x < Width + small
    BY <1>2, <1>3
  <2>3. \A x \in high : Width - 1 + big - x < Width + small
    BY <1>5, <2>2
  <2>4. \A e \in Place(high, big) : e < Width + small
    <3>. HIDE DEF high, big, small
    <3>. QED BY <2>3 DEF Place
  <2>. QED BY <2>1, <2>4 DEF Xor
<1>15. rest[big] = Xor(fixed, Place(low, big))
  <2>1. rest[big] = Xor(Place(register, big), Xor(Place(byte, big), behind))
    BY UnreadNext
  <2>2. rest[big] = Xor(Place(sum, big), behind)
    <3>1. Place(sum, big) = Xor(Place(register, big), Place(byte, big))
      BY <1>2, <1>7, PlaceXor
    <3>. HIDE DEF sum, byte, big, behind
    <3>. QED BY <2>1, <3>1, XorFacts
  <2>3. Place(sum, big) = Xor(Place(high, big), Place(low, big))
    BY <1>2, <1>7, <1>8, PlaceXor
  <2>. DEFINE a == Place(high, big)
              b == Place(low, big)
  <2>4. rest[big] = Xor(Xor(a, b), behind)
    BY <2>2, <2>3
  <2>. HIDE DEF a, b, behind
  <2>5. rest[big] = Xor(Xor(a, behind), b)
    BY <2>4, XorFacts
  <2>. QED BY <2>5 DEF a, b
<1>. DEFINE first == Place(low, ByteWidth)
<1>16. first \in SUBSET Int /\ Moved(first, small) = Place(low, big)
  <2>1. small \in Int /\ ByteWidth \in Int /\ ByteWidth + small = big
    BY <1>2, <1>3
  <2>. HIDE DEF small, big, low
  <2>. QED BY <1>7, <2>1, PlaceMoved, PlaceType
<1>17. Remainder(first, ByteWidth) = Place(entry, 0)
  BY <1>6 DEF Entries, EntryIs
<1>18. rest[small] = Xor(fixed, Moved(Place(entry, 0), small))
  <2>1. rest[small + ByteWidth] = Xor(fixed, Moved(first, small))
    BY <1>2, <1>15, <1>16
  <2>2. \A k \in 0 .. big - 1 : rest[k] = Reduce(rest[k + 1], k)
    OBVIOUS
  <2>3. \A k \in small .. small + ByteWidth - 1 : k \in 0 .. big - 1
    BY <1>2, <1>3
  <2>. HIDE DEF small, big, fixed, first, entry
  <2>4. \A k \in small .. small + ByteWidth - 1 : rest[k] = Reduce(rest[k + 1], k)
    BY <2>2, <2>3
  <2>5. rest[small] = Xor(fixed, Moved(Remainder(first, ByteWidth), small))
    BY <1>2, <1>13, <1>14, <1>16, <2>1, <2>4, ByteDivision
  <2>. QED BY <1>17, <2>5
<1>19. Moved(Place(entry, 0), small) = Place(entry, small)
  <2>1. small \in Int /\ 0 + small = small
    BY <1>2
  <2>. HIDE DEF small, entry
  <2>. QED BY <1>7, <2>1, PlaceMoved
<1>20. Place(Xor(shifted, entry), small) = Xor(Place(shifted, small), Place(entry, small))
  BY <1>2, <1>7, <1>10, PlaceXor
<1>21. rest[small] = Xor(Place(Xor(shifted, entry), small), behind)
  <2>. DEFINE a == Place(shifted, small)
              b == Place(entry, small)
  <2>1. rest[small] = Xor(Xor(a, behind), b)
    BY <1>11, <1>18, <1>19
  <2>2. Place(Xor(shifted, entry), small) = Xor(a, b)
    BY <1>20
  <2>. HIDE DEF a, b, behind, small
  <2>. QED BY <2>1, <2>2, XorFacts
<1>22. Shifted(register, byte) = Xor(shifted, entry)
  BY DEF Shifted
<1>23. Xor(shifted, entry) \in Register
  BY <1>6, <1>10 DEF Xor, Register
<1>. QED BY <1>21, <1>22, <1>23
-----------------------------------------------------------------------------
(***************************************************************************)
(* The invariant.                                                          *)
(***************************************************************************)
LEMMA InitInv == Init => ChecksumInv
<1>. SUFFICES ASSUME Init PROVE ChecksumInv
  OBVIOUS
<1>. USE DEF Init
<1>1. 0 \in 0 .. PowerOfTwo[ByteWidth] - 1 /\ BitsOf(0) \in Byte
  <2>1. ByteWidth \in 0 .. Width
    BY Widths
  <2>2. 0 \in 0 .. PowerOfTwo[ByteWidth] - 1
    BY <2>1, PowerType
  <2>. QED BY <2>1, <2>2, BitsOfType DEF Byte
<1>2. TypeOK
  BY <1>1, Widths DEF TypeOK, Register
<1>. QED BY <1>2 DEF ChecksumInv, TableInv, RegisterInv, ChecksumIsRemainder

LEMMA ReadFileInv == ChecksumInv /\ ReadFile => ChecksumInv'
<1>. SUFFICES ASSUME ChecksumInv, ReadFile PROVE ChecksumInv'
  OBVIOUS
<1>. USE DEF ReadFile
<1>1. TypeOK
  BY DEF ChecksumInv
<1>2. 0 \in 0 .. PowerOfTwo[ByteWidth] - 1 /\ BitsOf(0) \in Byte /\ BitsOf(0) \in Register
  <2>1. ByteWidth \in 0 .. Width /\ ByteWidth <= Width
    BY Widths
  <2>2. 0 \in 0 .. PowerOfTwo[ByteWidth] - 1
    BY <2>1, PowerType
  <2>3. BitsOf(0) \subseteq Bits
    BY DEF BitsOf
  <2>. QED BY <2>1, <2>2, <2>3, BitsOfType DEF Byte, Register
<1>3. TypeOK'
  BY <1>1, <1>2, Widths DEF TypeOK
<1>4. TableInv'
  <2>1. content' # << >>
    BY ContentIs
  <2>2. Place(BitsOf(0), ByteWidth) = Division(Place(BitsOf(0), ByteWidth), ByteWidth)[ByteWidth]
    BY DivisionIs, Widths
  <2>3. crc' = BitsOf(i') /\ j' = ByteWidth /\ i' = 0
    BY <1>1
  <2>4. 0 .. i' - 1 = {}
    BY <2>3
  <2>. QED BY <2>1, <2>2, <2>3, <2>4 DEF TableInv
<1>. QED BY <1>3, <1>4 DEF ChecksumInv, RegisterInv, ChecksumIsRemainder

LEMMA DivideInv == ChecksumInv /\ Divide => ChecksumInv'
<1>. SUFFICES ASSUME ChecksumInv, Divide PROVE ChecksumInv'
  OBVIOUS
<1>. USE DEF Divide
<1>1. TypeOK /\ TableInv
  BY DEF ChecksumInv
<1>2. /\ j \in 1 .. ByteWidth /\ j - 1 \in 0 .. ByteWidth - 1 /\ j - 1 \in Nat
      /\ j - 1 + 1 = j /\ j - 1 \in 0 .. ByteWidth
  BY <1>1, Widths DEF TypeOK
<1>3. crc \in Register
  BY <1>1 DEF TypeOK
<1>4. crc' \in Register
  <2>1. polynomial \in Register
    BY Widths DEF Register
  <2>2. ShiftRight(crc, 1) \in Register
    <3>1. \A x \in Bits : x >= 1 => x - 1 \in Bits
      BY Widths DEF Bits
    <3>. QED BY <1>3, <3>1 DEF Register, ShiftRight
  <2>3. Xor(ShiftRight(crc, 1), polynomial) \in Register
    BY <2>1, <2>2 DEF Xor, Register
  <2>. QED BY <2>2, <2>3
<1>5. TypeOK'
  BY <1>1, <1>2, <1>4 DEF TypeOK
<1>. DEFINE p == Place(BitsOf(i), ByteWidth)
            rest == Division(p, ByteWidth)
<1>6. Place(crc', j - 1) = Reduce(Place(crc, j), j - 1)
  <2>1. Place(crc', j - 1) = Reduce(Place(crc, j - 1 + 1), j - 1)
    BY <1>2, <1>3, DivideReduces
  <2>. QED BY <1>2, <2>1
<1>7. Place(crc, j) = rest[j]
  BY <1>1 DEF TableInv
<1>8. rest[j - 1] = Reduce(rest[j], j - 1)
  <2>1. rest[j - 1] = Reduce(rest[j - 1 + 1], j - 1)
    BY <1>2, Widths, DivisionIs
  <2>. QED BY <1>2, <2>1
<1>9. Place(crc', j') = rest[j']
  BY <1>6, <1>7, <1>8
<1>10. \A n \in 0 .. i - 1 : EntryIs(BitsOf(n))'
  BY <1>1 DEF TableInv, EntryIs
<1>11. TableInv'
  BY <1>1, <1>9, <1>10 DEF TableInv
<1>. QED BY <1>5, <1>11 DEF ChecksumInv, RegisterInv, ChecksumIsRemainder

LEMMA EntryInv == ChecksumInv /\ Entry => ChecksumInv'
<1>. SUFFICES ASSUME ChecksumInv, Entry PROVE ChecksumInv'
  OBVIOUS
<1>1. TypeOK /\ TableInv
  BY DEF ChecksumInv
<1>. DEFINE byte == BitsOf(i)
            all == PowerOfTwo[ByteWidth]
<1>2. /\ ByteWidth \in 0 .. Width /\ ByteWidth \in Nat
      /\ all \in Nat \ {0} /\ i \in 0 .. all - 1 /\ byte \in Byte
      /\ table \in [Byte -> Register] /\ crc \in Register
      /\ pc = "init_crc32_table" /\ j = 0
      /\ content' = content /\ received' = received
  BY <1>1, Widths, PowerType DEF TypeOK, Entry
<1>3. table' = [table EXCEPT ![byte] = crc]
  BY DEF Entry
<1>4. table' \in [Byte -> Register] /\ table'[byte] = crc
  BY <1>2, <1>3
<1>5. Place(crc, 0) = Remainder(Place(byte, ByteWidth), ByteWidth)
  BY <1>1, <1>2 DEF TableInv, Remainder
<1>6. \A n \in 0 .. i : EntryIs(BitsOf(n))'
  <2>. TAKE n \in 0 .. i
  <2>1. CASE BitsOf(n) = byte
    BY <1>4, <1>5, <2>1 DEF EntryIs
  <2>2. CASE BitsOf(n) # byte
    <3>1. n \in 0 .. i - 1
      BY <1>2, <2>2
    <3>2. EntryIs(BitsOf(n))
      BY <1>1, <1>2, <3>1 DEF TableInv
    <3>3. table'[BitsOf(n)] = table[BitsOf(n)]
      <4>1. n \in 0 .. all - 1
        BY <1>2
      <4>2. BitsOf(n) \in Byte
        BY <1>2, <4>1, BitsOfType DEF Byte
      <4>. QED BY <1>2, <1>3, <2>2, <4>2
    <3>. QED BY <3>2, <3>3 DEF EntryIs
  <2>. QED BY <2>1, <2>2
<1>7. CASE i + 1 < all
  <2>1. /\ i' = i + 1 /\ j' = ByteWidth /\ crc' = BitsOf(i') /\ pc' = pc /\ at' = at
    BY <1>7 DEF Entry
  <2>2. i' \in 0 .. all - 1
    BY <1>2, <1>7, <2>1
  <2>3. BitsOf(i') \in Byte
    BY <1>2, <2>2, BitsOfType DEF Byte
  <2>4. BitsOf(i') \in Register
    BY DEF BitsOf, Register
  <2>5. j' \in 0 .. ByteWidth
    BY <1>2, <2>1
  <2>6. TypeOK'
    BY <1>1, <1>2, <1>4, <2>1, <2>2, <2>3, <2>4, <2>5 DEF TypeOK
  <2>7. Place(crc', j') = Division(Place(BitsOf(i'), ByteWidth), ByteWidth)[j']
    BY <1>2, <2>1, DivisionIs
  <2>8. 0 .. i' - 1 = 0 .. i
    BY <1>2, <2>1
  <2>9. content # << >>
    BY <1>1, <1>2 DEF TableInv
  <2>10. TableInv'
    BY <1>2, <1>6, <2>7, <2>8, <2>9 DEF TableInv
  <2>. QED BY <1>2, <2>1, <2>6, <2>10 DEF ChecksumInv, RegisterInv, ChecksumIsRemainder
<1>8. CASE ~(i + 1 < all)
  <2>1. /\ pc' = "calculate_crc32" /\ crc' = All /\ at' = 0 /\ i' = i /\ j' = j
    BY <1>8 DEF Entry
  <2>2. All \in Register
    BY DEF All, Register
  <2>3. 0 \in 0 .. MaxLength
    BY Widths
  <2>4. TypeOK'
    BY <1>1, <1>2, <1>4, <2>1, <2>2, <2>3 DEF TypeOK
  <2>5. content # << >> /\ content \in Content
    BY <1>1, <1>2 DEF TableInv, TypeOK
  <2>6. all - 1 = i
    BY <1>2, <1>8
  <2>7. \A bits \in Byte : EntryIs(bits)'
    <3>. TAKE bits \in Byte
    <3>1. PICK n \in 0 .. all - 1 : BitsOf(n) = bits
      BY <1>2, BitsOfOnto DEF Byte
    <3>2. n \in 0 .. i
      BY <2>6, <3>1
    <3>3. EntryIs(BitsOf(n))'
      BY <1>6, <3>2
    <3>. QED BY <3>1, <3>3 DEF EntryIs
  <2>8. Left' = Behind(content, 0)
    BY <1>2, <2>1 DEF Left, Behind
  <2>9. Division(Dividend(content), ByteWidth * Len(content))[Left']
           = Xor(Place(All, Behind(content, 0)), Unread(content, 0))
    <3>1. Division(Dividend(content), ByteWidth * Len(content))[ByteWidth * Len(content)]
             = Dividend(content)
      BY <2>5, DividendIs, DivisionIs
    <3>. QED BY <2>5, <2>8, <3>1, DividendIs
  <2>10. 0 \in 0 .. Len(content)
    BY <2>5, ContentIs
  <2>11. RegisterInv'
    BY <1>2, <2>1, <2>5, <2>7, <2>8, <2>9, <2>10 DEF RegisterInv
  <2>. QED BY <2>1, <2>4, <2>11 DEF ChecksumInv, TableInv, ChecksumIsRemainder
<1>. QED BY <1>7, <1>8

LEMMA UpdateInv == ChecksumInv /\ Update => ChecksumInv'
<1>. SUFFICES ASSUME ChecksumInv, Update PROVE ChecksumInv'
  OBVIOUS
<1>1. TypeOK /\ RegisterInv
  BY DEF ChecksumInv
<1>2. /\ pc = "calculate_crc32" /\ pc' = pc /\ at < Len(content) /\ at' = at + 1
      /\ table' = table /\ i' = i /\ j' = j
      /\ content' = content /\ received' = received
      /\ crc' = Shifted(crc, content[at + 1])
  BY DEF Update, Shifted
<1>3. content # << >> /\ at \in 0 .. Len(content) /\ Entries
  BY <1>1, <1>2 DEF RegisterInv, Entries
<1>4. content \in Content /\ crc \in Register /\ table \in [Byte -> Register]
  BY <1>1, <1>3 DEF TypeOK
<1>5. Len(content) \in 1 .. MaxLength
  BY <1>4, ContentIs
<1>6. at \in 0 .. Len(content) - 1 /\ at' \in 0 .. Len(content) /\ at' \in 0 .. MaxLength
  BY <1>2, <1>3, <1>5, Widths
<1>. DEFINE all == ByteWidth * Len(content)
            rest == Division(Dividend(content), all)
<1>7. all \in Nat
  BY <1>4, DividendIs
<1>8. \A k \in 0 .. all - 1 : rest[k] = Reduce(rest[k + 1], k)
  BY <1>7, DivisionIs
<1>9. \A k \in 0 .. Behind(content, at) - 1 : k \in 0 .. all - 1
  <2>1. Behind(content, at) \in Nat /\ Behind(content, at) <= all
    <3>1. Len(content) \in Nat
      BY <1>5
    <3>. DEFINE length == Len(content)
    <3>. HIDE DEF length
    <3>2. ByteWidth * (length - at) \in Nat /\ ByteWidth * (length - at) <= ByteWidth * length
      BY <1>6, <3>1, BehindIs DEF length
    <3>. QED BY <3>2 DEF Behind, length
  <2>. HIDE DEF all
  <2>. QED BY <1>7, <2>1
<1>10. rest[Behind(content, at)] = Xor(Place(crc, Behind(content, at)), Unread(content, at))
  BY <1>1, <1>2 DEF RegisterInv, Left, Behind
<1>11. /\ Shifted(crc, content[at + 1]) \in Register
       /\ rest[Behind(content, at + 1)] =
             Xor(Place(Shifted(crc, content[at + 1]), Behind(content, at + 1)),
                 Unread(content, at + 1))
  <2>. HIDE DEF rest, all
  <2>1. \A k \in 0 .. Behind(content, at) - 1 : rest[k] = Reduce(rest[k + 1], k)
    BY <1>8, <1>9
  <2>. QED BY <1>3, <1>4, <1>6, <1>10, <2>1, UpdateDivides
<1>12. TypeOK'
  BY <1>1, <1>2, <1>6, <1>11 DEF TypeOK
<1>13. Left' = Behind(content, at + 1)
  BY <1>2 DEF Left, Behind
<1>14. \A byte \in Byte : EntryIs(byte)'
  BY <1>2, <1>3 DEF Entries, EntryIs
<1>15. RegisterInv'
  BY <1>2, <1>3, <1>6, <1>11, <1>13, <1>14 DEF RegisterInv
<1>. QED BY <1>2, <1>12, <1>15 DEF ChecksumInv, TableInv, ChecksumIsRemainder
LEMMA SendInv == ChecksumInv /\ Send => ChecksumInv'
<1>. SUFFICES ASSUME ChecksumInv, Send PROVE ChecksumInv'
  OBVIOUS
<1>1. TypeOK /\ RegisterInv
  BY DEF ChecksumInv
<1>2. /\ pc = "calculate_crc32" /\ pc' = "handleServerResponse" /\ at = Len(content)
      /\ crc' = Xor(crc, All) /\ received' \in [1 .. Len(content) -> Byte]
      /\ table' = table /\ i' = i /\ j' = j /\ at' = at /\ content' = content
  BY DEF Send
<1>3. content # << >> /\ content \in Content /\ crc \in Register
  BY <1>1, <1>2 DEF RegisterInv, TypeOK
<1>4. Len(content) \in 1 .. MaxLength
  BY <1>3, ContentIs
<1>5. crc' \in Register /\ received' \in Content
  <2>1. All \in Register
    BY DEF All, Register
  <2>. QED BY <1>2, <1>3, <1>4, <2>1 DEF Xor, Register, Content
<1>6. TypeOK'
  BY <1>1, <1>2, <1>5 DEF TypeOK
<1>. DEFINE all == ByteWidth * Len(content)
            left == Remainder(Dividend(content), all)
<1>7. left = Place(crc, 0)
  <2>1. Left = 0
    <3>1. Len(content) - at = 0 /\ ByteWidth * 0 = 0
      BY <1>2, <1>4, Widths
    <3>. QED BY <3>1 DEF Left
  <2>2. Len(content) + 1 .. Len(content) = {}
    BY <1>4
  <2>3. Unread(content, at) = {}
    BY <1>2, <2>2 DEF Unread
  <2>4. left = Xor(Place(crc, 0), {})
    BY <1>1, <1>2, <2>1, <2>3 DEF RegisterInv, Remainder
  <2>. QED BY <2>4, XorFacts
<1>8. {Width - 1 - term : term \in Place(crc, 0)} = crc
  <2>1. \A x \in Bits : Width - 1 - (Width - 1 + 0 - x) = x
    BY Widths DEF Bits
  <2>2. \A x \in crc : Width - 1 - (Width - 1 + 0 - x) = x
    BY <1>3, <2>1 DEF Register
  <2>. QED BY <2>2 DEF Place
<1>9. crc32(content) = Xor(crc, All)
  <2>1. crc32(content) = Xor({Width - 1 - term : term \in left}, All)
    BY DEF crc32
  <2>. HIDE DEF left
  <2>. QED BY <1>7, <1>8, <2>1
<1>10. crc32(content)' = crc32(content')
  BY DEF crc32, Remainder, Division, Dividend, Unread, Terms
<1>11. ChecksumIsRemainder'
  BY <1>2, <1>9, <1>10 DEF ChecksumIsRemainder
<1>. QED BY <1>2, <1>3, <1>6, <1>11 DEF ChecksumInv, TableInv, RegisterInv

LEMMA AgainInv == ChecksumInv /\ Again => ChecksumInv'
<1>. SUFFICES ASSUME ChecksumInv, Again PROVE ChecksumInv'
  OBVIOUS
<1>1. TypeOK
  BY DEF ChecksumInv
<1>2. 0 \in 0 .. PowerOfTwo[ByteWidth] - 1 /\ BitsOf(0) \in Byte
  <2>1. ByteWidth \in 0 .. Width
    BY Widths
  <2>2. 0 \in 0 .. PowerOfTwo[ByteWidth] - 1
    BY <2>1, PowerType
  <2>. QED BY <2>1, <2>2, BitsOfType DEF Byte
<1>3. TypeOK'
  <2>1. table' \in [Byte -> Register]
    BY <1>1 DEF TypeOK, Again, Register
  <2>. QED BY <1>1, <1>2, <2>1, Widths DEF TypeOK, Again, Register
<1>. QED BY <1>3 DEF ChecksumInv, TableInv, RegisterInv, ChecksumIsRemainder, Again

LEMMA StutterInv == ChecksumInv /\ UNCHANGED vars => ChecksumInv'
<1>. SUFFICES ASSUME ChecksumInv, UNCHANGED vars PROVE ChecksumInv'
  OBVIOUS
<1>. USE DEF vars
<1>1. TypeOK'
  BY DEF ChecksumInv, TypeOK
<1>2. \A byte : EntryIs(byte)' <=> EntryIs(byte)
  BY DEF EntryIs
<1>3. TableInv'
  BY <1>2 DEF ChecksumInv, TableInv
<1>4. Left' = Left
  BY DEF Left
<1>5. RegisterInv'
  BY <1>2, <1>4 DEF ChecksumInv, RegisterInv
<1>6. ChecksumIsRemainder'
  BY DEF ChecksumInv, ChecksumIsRemainder
<1>. QED BY <1>1, <1>3, <1>5, <1>6 DEF ChecksumInv

LEMMA NextInv == ChecksumInv /\ [Next]_vars => ChecksumInv'
BY ReadFileInv, DivideInv, EntryInv, UpdateInv, SendInv, AgainInv, StutterInv DEF Next

-----------------------------------------------------------------------------
(***************************************************************************)
(* The theorems.                                                           *)
(***************************************************************************)
\* The loops of init_crc32_table and calculate_crc32 divide as the definition of
\* the checksum does, a byte of the content at a time.
THEOREM ChecksumCorrect == Spec => []ChecksumInv
BY InitInv, NextInv, PTL DEF Spec

\* The loops stay inside the table and the content.
THEOREM ChecksumType == Spec => []TypeOK
<1>1. ChecksumInv => TypeOK
  BY DEF ChecksumInv
<1>. QED BY <1>1, ChecksumCorrect, PTL

\* What the client computes with its table is what zlib computes.
THEOREM ChecksumsAgree == Spec => []ChecksumIsRemainder
<1>1. ChecksumInv => ChecksumIsRemainder
  BY DEF ChecksumInv
<1>. QED BY <1>1, ChecksumCorrect, PTL
-----------------------------------------------------------------------------
(***************************************************************************)
(* What a damage does to the remainder.                                    *)
(***************************************************************************)
\* A polynomial whose terms lie within Width places is no multiple of the generator:
\* the division leaves a term of it, for the generator has the terms Width and 0.
LEMMA BurstRemains ==
    ASSUME NEW n \in Nat, NEW burst \in SUBSET Nat, burst # {},
           \A e \in burst : e < Width + n,
           \A e, f \in burst : e < f + Width
    PROVE  Remainder(burst, n) # {}
<1>1. PICK s \in burst : \A e \in burst : s <= e
  BY Smallest
<1>. DEFINE rest == Division(burst, n)
            Within(k) == rest[k] \subseteq k .. k + Width - 1
            S == {k \in 0 .. n : rest[k] # {} /\ ((s <= k /\ rest[k] = burst) \/ Within(k))}
<1>2. s \in Nat /\ Width \in Nat \ {0}
  BY Widths
<1>3. rest[n] = burst /\ \A k \in 0 .. n - 1 : rest[k] = Reduce(rest[k + 1], k)
  BY DivisionIs
<1>4. /\ Generator \subseteq 0 .. Width
      /\ Width \in Generator /\ 0 \in Generator
  <2>1. \A x \in Bits : Width - 1 - x \in 0 .. Width
    BY <1>2 DEF Bits
  <2>2. polynomial \subseteq Bits /\ Width - 1 \in polynomial /\ Width - 1 - (Width - 1) = 0
    BY Widths
  <2>3. Width \in 0 .. Width
    BY <1>2
  <2>. QED BY <2>1, <2>2, <2>3 DEF Generator
<1>. HIDE DEF rest
<1>5. n \in S
  <2>1. CASE s <= n
    BY <1>3, <2>1
  <2>2. CASE ~(s <= n)
    <3>1. \A e \in burst : e \in n .. n + Width - 1
      BY <1>1, <1>2, <2>2
    <3>2. n \in 0 .. n /\ Within(n)
      BY <1>3, <3>1
    <3>. QED BY <1>3, <3>2
  <2>. QED BY <2>1, <2>2
<1>6. ASSUME NEW k \in 0 .. n - 1, k + 1 \in S PROVE k \in S
  <2>. DEFINE q == {k + term : term \in Generator}
  <2>1. /\ rest[k] = Reduce(rest[k + 1], k) /\ rest[k + 1] # {}
        /\ k \in 0 .. n /\ k \in Nat
    BY <1>3, <1>6
  <2>2. CASE s <= k /\ rest[k + 1] = burst
    <3>1. Width + k \notin burst
      <4>1. \A e \in burst : e < s + Width
        BY <1>1
      <4>2. ~(Width + k < s + Width)
        BY <1>2, <2>1, <2>2
      <4>. QED BY <4>1, <4>2
    <3>. QED BY <2>1, <2>2, <3>1 DEF Reduce
  <2>3. CASE rest[k + 1] \subseteq k + 1 .. k + Width
    <3>1. CASE Width + k \in rest[k + 1]
      <4>1. q \subseteq k .. k + Width /\ k + Width \in q /\ k \in q
        <5>1. \A term \in 0 .. Width : k + term \in k .. k + Width
          BY <1>2, <2>1
        <5>2. k + 0 = k
          BY <2>1
        <5>. QED BY <1>4, <5>1, <5>2
      <4>2. rest[k] = Xor(rest[k + 1], q)
        BY <2>1, <3>1 DEF Reduce
      <4>3. k \notin k + 1 .. k + Width /\ Width + k = k + Width
        BY <1>2, <2>1
      <4>4. \A x \in k .. k + Width : x # k + Width => x \in k .. k + Width - 1
        BY <1>2, <2>1
      <4>5. k + 1 .. k + Width \subseteq k .. k + Width
        BY <1>2, <2>1
      <4>. HIDE DEF q
      <4>6. k \in rest[k] /\ rest[k] \subseteq k .. k + Width /\ k + Width \notin rest[k]
        BY <2>3, <3>1, <4>1, <4>2, <4>3, <4>5 DEF Xor
      <4>7. Within(k)
        BY <4>4, <4>6
      <4>. QED BY <2>1, <4>6, <4>7
    <3>2. CASE Width + k \notin rest[k + 1]
      <4>1. rest[k] = rest[k + 1]
        BY <2>1, <3>2 DEF Reduce
      <4>2. \A x \in k + 1 .. k + Width : x # Width + k => x \in k .. k + Width - 1
        BY <1>2, <2>1
      <4>3. Within(k)
        BY <2>3, <3>2, <4>1, <4>2
      <4>. QED BY <2>1, <4>1, <4>3
    <3>. QED BY <3>1, <3>2
  <2>4. CASE s = k + 1 /\ rest[k + 1] = burst
    <3>1. \A e \in burst : e \in k + 1 .. k + Width
      <4>1. \A e \in burst : e < s + Width /\ s <= e
        BY <1>1
      <4>. QED BY <1>2, <2>1, <2>4, <4>1
    <3>. QED BY <2>3, <2>4, <3>1
  <2>5. CASE Within(k + 1)
    <3>1. k + 1 .. k + 1 + Width - 1 = k + 1 .. k + Width
      BY <1>2, <2>1
    <3>. QED BY <2>3, <2>5, <3>1
  <2>6. s <= k + 1 => s <= k \/ s = k + 1
    BY <1>2, <2>1
  <2>. QED BY <1>6, <2>2, <2>4, <2>5, <2>6
<1>7. 0 \in S
  <2>. HIDE DEF S
  <2>1. 0 .. n \subseteq S
    BY <1>5, <1>6, Downwards
  <2>. QED BY <2>1
<1>. QED BY <1>7 DEF Remainder, rest

\* The bits in which two contents differ, as a content.
BytesXor(a, b) == [k \in 1 .. Len(a) |-> Xor(a[k], b[k])]

LEMMA BytesXorType ==
    ASSUME NEW a \in Content, NEW b \in [1 .. Len(a) -> Byte]
    PROVE  /\ b \in Content /\ Len(b) = Len(a)
           /\ BytesXor(a, b) \in Content /\ Len(BytesXor(a, b)) = Len(a)
           /\ \A k \in 1 .. Len(a) : BytesXor(a, b)[k] = Xor(a[k], b[k])
<1>1. Len(a) \in 1 .. MaxLength /\ a \in [1 .. Len(a) -> Byte] /\ Len(a) \in Nat
  BY ContentIs
<1>2. \A k \in 1 .. Len(a) : Xor(a[k], b[k]) \in Byte
  BY <1>1 DEF Byte, Xor
<1>3. BytesXor(a, b) \in [1 .. Len(a) -> Byte]
  BY <1>2 DEF BytesXor
<1>4. \A c \in [1 .. Len(a) -> Byte] : c \in Content /\ c \in Seq(Byte) /\ Len(c) = Len(a)
  BY <1>1 DEF Content
<1>5. \A k \in 1 .. Len(a) : BytesXor(a, b)[k] = Xor(a[k], b[k])
  BY DEF BytesXor
<1>. QED BY <1>3, <1>4, <1>5

LEMMA UnreadXor ==
    ASSUME NEW a \in Content, NEW b \in [1 .. Len(a) -> Byte]
    PROVE  Unread(BytesXor(a, b), 0) = Xor(Unread(a, 0), Unread(b, 0))
<1>. DEFINE c == BytesXor(a, b)
            length == Len(a)
            S == {n \in 0 .. length : Unread(c, n) = Xor(Unread(a, n), Unread(b, n))}
<1>1. /\ length \in Nat /\ b \in Content /\ Len(b) = length
      /\ c \in Content /\ Len(c) = length
      /\ \A k \in 1 .. length : c[k] = Xor(a[k], b[k])
      /\ \A k \in 1 .. length : a[k] \in SUBSET Int /\ b[k] \in SUBSET Int
  <2>1. length \in Nat /\ a \in [1 .. length -> Byte]
    BY ContentIs
  <2>2. \A byte \in Byte : byte \in SUBSET Int
    BY DEF Byte
  <2>3. \A k \in 1 .. length : a[k] \in SUBSET Int /\ b[k] \in SUBSET Int
    BY <2>1, <2>2
  <2>. QED BY <2>1, <2>3, BytesXorType
<1>. HIDE DEF c
<1>2. length \in S
  <2>1. length + 1 .. length = {}
    BY <1>1
  <2>2. Unread(a, length) = {} /\ Unread(b, length) = {} /\ Unread(c, length) = {}
    BY <1>1, <2>1 DEF Unread
  <2>3. Unread(c, length) = Xor(Unread(a, length), Unread(b, length))
    BY <2>2 DEF Xor
  <2>. QED BY <1>1, <2>3
<1>3. ASSUME NEW n \in 0 .. length - 1, n + 1 \in S PROVE n \in S
  <2>. DEFINE big == Behind(a, n)
  <2>1. n + 1 \in 1 .. length /\ n \in 0 .. length
    BY <1>1
  <2>2. big = Behind(b, n) /\ big = Behind(c, n) /\ big \in Int
    <3>1. ByteWidth \in Int /\ length - n \in Int
      BY <1>1, Widths
    <3>. QED BY <1>1, <3>1 DEF Behind
  <2>. HIDE DEF big
  <2>3. Unread(a, n) = Xor(Place(a[n + 1], big), Unread(a, n + 1))
    BY UnreadNext DEF big
  <2>4. Unread(b, n) = Xor(Place(b[n + 1], big), Unread(b, n + 1))
    BY <1>1, <2>2, UnreadNext
  <2>5. Unread(c, n) = Xor(Place(c[n + 1], big), Unread(c, n + 1))
    BY <1>1, <2>2, UnreadNext
  <2>6. Place(c[n + 1], big) = Xor(Place(a[n + 1], big), Place(b[n + 1], big))
    <3>1. /\ c[n + 1] = Xor(a[n + 1], b[n + 1])
          /\ a[n + 1] \in SUBSET Int /\ b[n + 1] \in SUBSET Int
      BY <1>1, <2>1
    <3>. QED BY <2>2, <3>1, PlaceXor
  <2>7. Unread(c, n + 1) = Xor(Unread(a, n + 1), Unread(b, n + 1))
    BY <1>3
  <2>. DEFINE pa == Place(a[n + 1], big)
              pb == Place(b[n + 1], big)
              ua == Unread(a, n + 1)
              ub == Unread(b, n + 1)
  <2>8. Xor(Xor(pa, pb), Xor(ua, ub)) = Xor(Xor(pa, ua), Xor(pb, ub))
    <3>. HIDE DEF pa, pb, ua, ub
    <3>. QED BY DEF Xor
  <2>9. Unread(c, n) = Xor(Unread(a, n), Unread(b, n))
    BY <2>3, <2>4, <2>5, <2>6, <2>7, <2>8
  <2>. QED BY <2>1, <2>9
<1>4. 0 \in S
  <2>. HIDE DEF S
  <2>1. 0 .. length \subseteq S
    BY <1>1, <1>2, <1>3, Downwards
  <2>. QED BY <1>1, <2>1
<1>. QED BY <1>4 DEF c
LEMMA DifferenceIs ==
    ASSUME NEW a \in Content, NEW b \in [1 .. Len(a) -> Byte]
    PROVE  /\ Unread(BytesXor(a, b), 0) =
                 {Width + (ByteWidth * Len(a)) - 1 - d : d \in Difference(a, b)}
           /\ Difference(a, b) \in SUBSET Int
<1>. DEFINE c == BytesXor(a, b)
            length == Len(a)
            all == ByteWidth * length
            first(k) == (k - 1) * ByteWidth
<1>1. Len(c) = length /\ \A k \in 1 .. length : c[k] = Xor(a[k], b[k])
  BY BytesXorType
<1>2. \A k \in 1 .. length : c[k] \in Byte
  BY <1>1, BytesXorType, ContentIs
<1>3. \A k \in 1 .. length : first(k) \in Int /\ c[k] \in SUBSET Int
  <2>. TAKE k \in 1 .. length
  <2>1. k - 1 \in Int /\ ByteWidth \in Int
    BY Widths
  <2>. QED BY <1>2, <2>1 DEF Byte
<1>4. \A k \in 1 .. length :
         Terms(c, k) = {Width + all - 1 - (first(k) + bit) : bit \in c[k]}
  BY <1>1 DEF Terms
<1>5. Unread(c, 0) = UNION {Terms(c, k) : k \in 1 .. length}
  BY <1>1 DEF Unread
<1>6. ASSUME NEW d
      PROVE  d \in Difference(a, b) <=>
                \E k \in 1 .. length : \E bit \in c[k] : d = first(k) + bit
  <2>. DEFINE part(k) == {(k - 1) * ByteWidth + bit : bit \in Xor(a[k], b[k])}
  <2>0. Difference(a, b) = UNION {part(k) : k \in 1 .. length}
    BY DEF Difference
  <2>1. d \in Difference(a, b) <=>
           \E k \in 1 .. length : \E bit \in Xor(a[k], b[k]) : d = (k - 1) * ByteWidth + bit
    <3>1. \A k \in 1 .. length : d \in part(k) <=>
             \E bit \in Xor(a[k], b[k]) : d = (k - 1) * ByteWidth + bit
      OBVIOUS
    <3>. HIDE DEF part
    <3>2. d \in Difference(a, b) <=> \E k \in 1 .. length : d \in part(k)
      BY <2>0
    <3>. QED BY <3>1, <3>2
  <2>2. d \in Difference(a, b) <=>
           \E k \in 1 .. length : \E bit \in Xor(a[k], b[k]) : d = first(k) + bit
    BY <2>1
  <2>. HIDE DEF c, first
  <2>. QED BY <1>1, <2>2
<1>. HIDE DEF c, all, first
<1>7. ASSUME NEW e
      PROVE  e \in Unread(c, 0) <=>
                e \in {Width + all - 1 - d : d \in Difference(a, b)}
  <2>1. e \in Unread(c, 0) <=> \E k \in 1 .. length : e \in Terms(c, k)
    BY <1>5
  <2>2. e \in Unread(c, 0) <=>
           \E k \in 1 .. length : \E bit \in c[k] : e = Width + all - 1 - (first(k) + bit)
    BY <1>4, <2>1
  <2>3. e \in {Width + all - 1 - d : d \in Difference(a, b)} <=>
           \E k \in 1 .. length : \E bit \in c[k] : e = Width + all - 1 - (first(k) + bit)
    BY <1>6
  <2>. QED BY <2>2, <2>3
<1>8. Unread(c, 0) = {Width + all - 1 - d : d \in Difference(a, b)}
  BY <1>7
<1>9. Difference(a, b) \in SUBSET Int
  BY <1>3, <1>6
<1>. QED BY <1>8, <1>9 DEF c, all

\* Contents of one checksum differ by a polynomial without a remainder.
LEMMA EqualChecksums ==
    ASSUME NEW a \in Content, NEW b \in [1 .. Len(a) -> Byte], crc32(a) = crc32(b)
    PROVE  Remainder(Unread(BytesXor(a, b), 0), ByteWidth * Len(a)) = {}
<1>. DEFINE all == ByteWidth * Len(a)
            left(p) == Remainder(p, all)
            Bytes(p) == {Width - 1 - term : term \in left(p)}
            da == Dividend(a)
            db == Dividend(b)
<1>1. b \in Content /\ Len(b) = Len(a) /\ all \in Nat
  BY BytesXorType, DividendIs
<1>2. /\ da = Xor(Place(All, Behind(a, 0)), Unread(a, 0)) /\ da \in SUBSET Int
      /\ db = Xor(Place(All, Behind(a, 0)), Unread(b, 0)) /\ db \in SUBSET Int
  BY <1>1, DividendIs DEF Behind
<1>3. Xor(da, db) = Unread(BytesXor(a, b), 0)
  <2>. DEFINE first == Place(All, Behind(a, 0))
              ua == Unread(a, 0)
              ub == Unread(b, 0)
  <2>1. Xor(Xor(first, ua), Xor(first, ub)) = Xor(ua, ub)
    <3>. HIDE DEF first, ua, ub
    <3>. QED BY DEF Xor
  <2>. QED BY <1>2, <2>1, UnreadXor
<1>4. crc32(a) = Xor(Bytes(da), All) /\ crc32(b) = Xor(Bytes(db), All)
  BY <1>1 DEF crc32
<1>5. left(da) \in SUBSET Int /\ left(db) \in SUBSET Int
  <2>1. 0 \in 0 .. all
    BY <1>1
  <2>. HIDE DEF all, da, db
  <2>. QED BY <1>1, <1>2, <2>1, DivisionType DEF Remainder
<1>6. Bytes(da) = Bytes(db)
  <2>1. Xor(Bytes(da), All) = Xor(Bytes(db), All)
    BY <1>4
  <2>. DEFINE x == Bytes(da)
              y == Bytes(db)
  <2>2. Xor(x, All) = Xor(y, All)
    BY <2>1
  <2>. HIDE DEF x, y
  <2>3. x = y
    <3>1. x = Xor(All, Xor(All, x)) /\ y = Xor(All, Xor(All, y))
      BY XorFacts
    <3>2. Xor(All, x) = Xor(All, y)
      BY <2>2, XorFacts
    <3>. QED BY <3>1, <3>2
  <2>. QED BY <2>3 DEF x, y
<1>7. left(da) = left(db)
  <2>. DEFINE x == left(da)
              y == left(db)
  <2>1. x \in SUBSET Int /\ y \in SUBSET Int
    BY <1>5
  <2>2. {Width - 1 - term : term \in x} = {Width - 1 - term : term \in y}
    BY <1>6
  <2>. HIDE DEF x, y
  <2>3. \A s, t \in Int : Width - 1 - s = Width - 1 - t => s = t
    BY Widths
  <2>4. ASSUME NEW s \in x PROVE s \in y
    <3>1. Width - 1 - s \in {Width - 1 - term : term \in y}
      BY <2>2
    <3>2. PICK t \in y : Width - 1 - s = Width - 1 - t
      BY <3>1
    <3>. QED BY <2>1, <2>3, <3>2
  <2>5. ASSUME NEW s \in y PROVE s \in x
    <3>1. Width - 1 - s \in {Width - 1 - term : term \in x}
      BY <2>2
    <3>2. PICK t \in x : Width - 1 - s = Width - 1 - t
      BY <3>1
    <3>. QED BY <2>1, <2>3, <3>2
  <2>6. x = y
    BY <2>4, <2>5
  <2>. QED BY <2>6 DEF x, y
<1>8. left(Xor(da, db)) = Xor(left(da), left(db))
  <2>. HIDE DEF all, da, db
  <2>. QED BY <1>1, DivisionLinear
<1>9. left(Xor(da, db)) = {}
  BY <1>7, <1>8, XorFacts
<1>. QED BY <1>3, <1>9

LEMMA BurstIsSeen ==
    ASSUME NEW a \in Content, NEW b \in [1 .. Len(a) -> Byte], Difference(a, b) # {},
           \A c, d \in Difference(a, b) : c < d + Width
    PROVE  crc32(a) # crc32(b)
<1>. DEFINE difference == Difference(a, b)
            burst == Unread(BytesXor(a, b), 0)
            all == ByteWidth * Len(a)
<1>1. /\ burst = {Width + all - 1 - d : d \in difference}
      /\ difference \in SUBSET Int /\ difference # {}
      /\ \A c, d \in difference : c < d + Width
  BY DifferenceIs
<1>2. all \in Nat /\ Width \in Nat
  BY DividendIs, Widths
<1>3. burst \in SUBSET Nat /\ \A e \in burst : e < Width + all
  <2>1. BytesXor(a, b) \in Content /\ Len(BytesXor(a, b)) = Len(a)
    BY BytesXorType
  <2>2. 0 \in 0 .. Len(BytesXor(a, b)) /\ Behind(BytesXor(a, b), 0) = all
    BY <2>1, ContentIs, DividendIs
  <2>3. burst \subseteq 0 .. Width + all - 1
    BY <2>1, <2>2, UnreadRange
  <2>. HIDE DEF burst, all
  <2>. QED BY <1>2, <2>3
<1>. HIDE DEF burst, all, difference
<1>4. burst # {}
  BY <1>1
<1>5. ASSUME NEW e \in burst, NEW f \in burst PROVE e < f + Width
  <2>1. PICK c \in difference : e = Width + all - 1 - c
    BY <1>1
  <2>2. PICK d \in difference : f = Width + all - 1 - d
    BY <1>1
  <2>3. c \in Int /\ d \in Int /\ d < c + Width
    BY <1>1
  <2>. QED BY <1>2, <2>1, <2>2, <2>3
<1>6. Remainder(burst, all) # {}
  BY <1>2, <1>3, <1>4, <1>5, BurstRemains
<1>. QED BY <1>6, EqualChecksums DEF burst, all

LEMMA NoDifference ==
    ASSUME NEW a \in Content, NEW b \in [1 .. Len(a) -> Byte], Difference(a, b) = {}
    PROVE  a = b
<1>1. ASSUME NEW k \in 1 .. Len(a) PROVE a[k] = b[k]
  <2>1. {(k - 1) * ByteWidth + bit : bit \in Xor(a[k], b[k])} \subseteq Difference(a, b)
    BY DEF Difference
  <2>2. Xor(a[k], b[k]) = {}
    BY <2>1
  <2>. QED BY <2>2 DEF Xor
<1>2. a \in [1 .. Len(a) -> Byte]
  BY ContentIs
<1>. QED BY <1>1, <1>2

\* The answer of the server tells the file from everything of the same length that
\* differs from it in a burst of up to Width bits, wherever the burst is.
THEOREM DamageIsSeen == Spec => []AcceptedIfIntact
<1>1. ASSUME ChecksumInv PROVE AcceptedIfIntact
  <2>. SUFFICES ASSUME pc = "handleServerResponse"
                PROVE  LET difference == Difference(content, received)
                       IN  /\ difference = {} => accepted
                           /\ /\ difference # {}
                              /\ \A a, b \in difference : a < b + Width
                              => ~accepted
    BY DEF AcceptedIfIntact
  <2>1. /\ content \in Content /\ received \in [1 .. Len(content) -> Byte]
        /\ crc = crc32(content)
    BY <1>1 DEF ChecksumInv, TypeOK, ChecksumIsRemainder
  <2>2. Difference(content, received) = {} => accepted
    BY <2>1, NoDifference DEF accepted
  <2>3. ASSUME Difference(content, received) # {},
               \A a, b \in Difference(content, received) : a < b + Width
        PROVE  ~accepted
    BY <2>1, <2>3, BurstIsSeen DEF accepted
  <2>. QED BY <2>2, <2>3
<1>2. ChecksumInv => AcceptedIfIntact
  BY <1>1
<1>. QED BY <1>2, ChecksumCorrect, PTL
=============================================================================
