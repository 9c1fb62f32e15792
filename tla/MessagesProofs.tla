---------------------------- MODULE MessagesProofs ----------------------------
(***************************************************************************)
(* Proofs about Messages, for every size of the fields, every set of names *)
(* and of identifiers and any number of runs.                              *)
(*                                                                         *)
(* First the conversions: a number is known from its digits in a base, so  *)
(* that the bytes of a number are read back, in either order; the digits   *)
(* of an identifier are read back; a vector of padded text is read as the  *)
(* text.  Then whole messages: each field is found at its place behind     *)
(* those before it.  At last the invariant MessagesInv: one lemma per      *)
(* action, and the properties that follow from it.                         *)
(***************************************************************************)
EXTENDS Messages, Induction, SequenceTheorems

(***************************************************************************)
(* Numbers.                                                                *)
(***************************************************************************)
LEMMA Bases ==
    /\ Radix \in Nat /\ Radix > 1
    /\ Base \in Nat /\ Base > 3 /\ Base = Radix * Radix
    /\ Base * Base > 1607
    /\ Limit = Base * (Base * (Base * Base)) /\ Limit \in Nat
    /\ Byte = 0 .. Base - 1
<1>1. Radix \in Nat /\ Radix > 1 /\ Radix # 0 /\ Base = Radix * Radix
  BY MessagesAssumption DEF Base
<1>2. Base \in Nat
  BY <1>1
<1>3. Base * Base > 1607
  BY MessagesAssumption
<1>4. Base > 3
  <2>1. Base \in 0 .. 3 => Base * Base <= 9
    BY <1>2
  <2>. QED BY <1>2, <1>3, <2>1
<1>5. Limit = Base * (Base * (Base * Base)) /\ Limit \in Nat
  BY <1>2 DEF Limit
<1>. QED BY <1>1, <1>2, <1>3, <1>4, <1>5 DEF Byte

\* Division by any number, and what it makes of a sum.
LEMMA Division ==
    ASSUME NEW b \in Nat \ {0}, NEW n \in Nat
    PROVE  n \div b \in Nat /\ n % b \in 0 .. b - 1 /\ n = (b * (n \div b)) + (n % b)
OBVIOUS

LEMMA Quotient ==
    ASSUME NEW b \in Nat \ {0}, NEW q \in Nat, NEW r \in 0 .. b - 1
    PROVE  (r + (b * q)) \div b = q /\ (r + (b * q)) % b = r
OBVIOUS

\* The number of four bytes, the lowest one first, in base B.
Value(B, x, y, z, w) == x + (B * (y + (B * (z + (B * w)))))

\* The bytes of a number of four bytes, as shifts and masks find them.
LEMMA Shifts ==
    ASSUME NEW B \in Nat \ {0}, NEW x \in 0 .. B - 1, NEW y \in 0 .. B - 1,
           NEW z \in 0 .. B - 1, NEW w \in 0 .. B - 1
    PROVE  /\ Value(B, x, y, z, w) \in Nat
           /\ Value(B, x, y, z, w) % B = x
           /\ (Value(B, x, y, z, w) \div B) % B = y
           /\ (Value(B, x, y, z, w) \div (B * B)) % B = z
           /\ Value(B, x, y, z, w) \div (B * B * B) = w
           /\ w % B = w
<1>. DEFINE n == Value(B, x, y, z, w)
            zw == z + (B * w)
            yzw == y + (B * zw)
<1>1. zw \in Nat /\ zw \div B = w /\ zw % B = z
  BY Quotient
<1>. HIDE DEF zw
<1>2. yzw \in Nat /\ yzw \div B = zw /\ yzw % B = y
  BY <1>1, Quotient
<1>. HIDE DEF yzw
<1>3. n = x + (B * yzw)
  BY DEF Value, yzw, zw
<1>. HIDE DEF n
<1>4. n \in Nat /\ n \div B = yzw /\ n % B = x
  BY <1>2, <1>3, Quotient
<1>5. B * B \in Nat \ {0} /\ B * B * B \in Nat \ {0}
  OBVIOUS
<1>6. x + (B * y) \in 0 .. (B * B) - 1
  <2>1. y + 1 <= B /\ B * (y + 1) <= B * B /\ B * (y + 1) = (B * y) + B
    OBVIOUS
  <2>2. B * y \in Nat
    OBVIOUS
  <2>. QED BY <2>1, <2>2, <1>5
<1>7. n = (x + (B * y)) + ((B * B) * zw)
  <2>1. B * yzw = (B * y) + ((B * B) * zw)
    BY <1>1 DEF yzw
  <2>2. (B * B) * zw \in Nat /\ B * y \in Nat /\ B * yzw \in Nat
    BY <1>1, <1>2
  <2>3. \A p, q, r \in Nat : p = q + r => x + p = (x + q) + r
    OBVIOUS
  <2>4. x + (B * yzw) = (x + (B * y)) + ((B * B) * zw)
    BY <2>1, <2>2, <2>3
  <2>. QED BY <1>3, <2>4
<1>8. n \div (B * B) = zw
  BY <1>1, <1>5, <1>6, <1>7, Quotient
<1>9. (x + (B * y)) + ((B * B) * z) \in 0 .. (B * B * B) - 1
  <2>1. z + 1 <= B /\ (B * B) * (z + 1) <= (B * B) * B
        /\ (B * B) * (z + 1) = ((B * B) * z) + (B * B)
    BY <1>5
  <2>2. (B * B) * z \in Nat
    OBVIOUS
  <2>. QED BY <2>1, <2>2, <1>5, <1>6
<1>10. n = ((x + (B * y)) + ((B * B) * z)) + ((B * B * B) * w)
  <2>1. (B * B) * zw = ((B * B) * z) + ((B * B * B) * w)
    <3>1. ASSUME NEW c \in Nat PROVE c * (z + (B * w)) = (c * z) + ((c * B) * w)
      OBVIOUS
    <3>. QED BY <3>1 DEF zw
  <2>2. (B * B) * z \in Nat /\ (B * B * B) * w \in Nat
    OBVIOUS
  <2>. QED BY <1>7, <1>6, <2>1, <2>2
<1>11. n \div (B * B * B) = w
  BY <1>5, <1>9, <1>10, Quotient
<1>12. w % B = w
  OBVIOUS
<1>. QED BY <1>1, <1>2, <1>4, <1>8, <1>11, <1>12 DEF n

LEMMA FourBytes ==
    ASSUME NEW B \in Nat \ {0}, NEW n \in Nat, n < B * (B * (B * B))
    PROVE  \E x, y, z, w \in 0 .. B - 1 : n = Value(B, x, y, z, w)
<1>. DEFINE Q(q, p) == \E x \in 0 .. B - 1, m \in Nat : q = x + (B * m) /\ m < p
<1>1. ASSUME NEW q \in Nat, NEW p \in Nat, q < B * p
      PROVE  Q(q, p)
  <2>1. q \div B \in Nat /\ q % B \in 0 .. B - 1 /\ q = (B * (q \div B)) + (q % B)
    BY Division
  <2>. DEFINE m == q \div B
              x == q % B
  <2>. HIDE DEF m, x
  <2>2. m \in Nat /\ x \in 0 .. B - 1 /\ q = x + (B * m)
    <3>1. m \in Nat /\ x \in 0 .. B - 1 /\ q = (B * m) + x
      BY <2>1 DEF m, x
    <3>. QED BY <3>1
  <2>3. m < p
    <3>. SUFFICES ASSUME p <= m PROVE FALSE
      BY <2>2
    <3>1. PICK d \in Nat : m = p + d
      <4>1. m - p \in Nat /\ m = p + (m - p)
        BY <2>2
      <4>. QED BY <4>1
    <3>2. B * m = (B * p) + (B * d) /\ B * d \in Nat /\ B * p \in Nat
      BY <3>1
    <3>. QED BY <2>2, <3>2, <1>1
  <2>. QED BY <2>2, <2>3
<1>2. B * B \in Nat /\ B * (B * B) \in Nat
  OBVIOUS
<1>3. PICK x \in 0 .. B - 1, m \in Nat : n = x + (B * m) /\ m < B * (B * B)
  BY <1>1, <1>2
<1>4. PICK y \in 0 .. B - 1, k \in Nat : m = y + (B * k) /\ k < B * B
  BY <1>1, <1>2, <1>3
<1>5. PICK z \in 0 .. B - 1, w \in Nat : k = z + (B * w) /\ w < B
  BY <1>1, <1>4
<1>6. w \in 0 .. B - 1
  BY <1>5
<1>7. n = Value(B, x, y, z, w)
  BY <1>3, <1>4, <1>5 DEF Value
<1>. QED BY <1>6, <1>7

\* A number and the weights of its bytes.
LEMMA Weighted ==
    ASSUME NEW x \in Byte, NEW y \in Byte, NEW z \in Byte, NEW w \in Byte
    PROVE  x + (Weight[2] * y) + (Weight[3] * z) + (Weight[4] * w)
               = Value(Base, x, y, z, w)
<1>1. ASSUME NEW B \in Nat, NEW p \in Nat, NEW q \in Nat, NEW r \in Nat
      PROVE  (B * p) + ((B * B) * q) + ((B * B * B) * r) = B * (p + (B * (q + (B * r))))
  OBVIOUS
<1>2. x \in Nat /\ y \in Nat /\ z \in Nat /\ w \in Nat /\ Base \in Nat
  BY Bases
<1>3. (Base * y) + ((Base * Base) * z) + ((Base * Base * Base) * w)
          = Base * (y + (Base * (z + (Base * w))))
  BY <1>1, <1>2
<1>4. Weight[2] = Base /\ Weight[3] = Base * Base /\ Weight[4] = Base * Base * Base
  BY DEF Weight
<1>5. /\ Base * y \in Nat /\ (Base * Base) * z \in Nat
      /\ (Base * Base * Base) * w \in Nat
  BY <1>2
<1>6. \A p, q, r \in Nat : x + p + q + r = x + (p + q + r)
  BY <1>2
<1>7. x + (Base * y) + ((Base * Base) * z) + ((Base * Base * Base) * w)
          = x + ((Base * y) + ((Base * Base) * z) + ((Base * Base * Base) * w))
  BY <1>5, <1>6
<1>. QED BY <1>3, <1>4, <1>7 DEF Value

LEMMA MemoryType ==
    ASSUME NEW n \in Nat, NEW width \in 1 .. PAYLOAD_SIZE
    PROVE  /\ Memory(n, width) \in Seq(Byte) /\ Len(Memory(n, width)) = width
           /\ \A i \in 1 .. width : Memory(n, width)[i] = (n \div Weight[i]) % Base
<1>1. ASSUME NEW i \in 1 .. width PROVE (n \div Weight[i]) % Base \in Byte
  <2>1. i \in {1, 2, 3, 4}
    BY DEF PAYLOAD_SIZE
  <2>2. Weight[i] \in Nat \ {0}
    <3>1. /\ Base \in Nat \ {0} /\ Base * Base \in Nat \ {0}
          /\ Base * Base * Base \in Nat \ {0}
      BY Bases
    <3>. QED BY <2>1, <3>1 DEF Weight
  <2>. DEFINE q == n \div Weight[i]
  <2>3. q \in Nat
    BY <2>2, Division
  <2>. HIDE DEF q
  <2>4. Base \in Nat \ {0}
    BY Bases
  <2>5. q % Base \in 0 .. Base - 1
    BY <2>3, <2>4, Division
  <2>. QED BY <2>5, Bases DEF q
<1>2. Memory(n, width) \in [1 .. width -> Byte]
  BY <1>1 DEF Memory
<1>3. Memory(n, width) \in Seq(Byte) /\ Len(Memory(n, width)) = width
  BY <1>2, IsASeq, LenProperties DEF PAYLOAD_SIZE
<1>. QED BY <1>3 DEF Memory

LEMMA MemoryIs ==
    ASSUME NEW x \in Byte, NEW y \in Byte, NEW z \in Byte, NEW w \in Byte
    PROVE  /\ Value(Base, x, y, z, w) \in Nat
           /\ Memory(Value(Base, x, y, z, w), 4)[1] = x
           /\ Memory(Value(Base, x, y, z, w), 4)[2] = y
           /\ Memory(Value(Base, x, y, z, w), 4)[3] = z
           /\ Memory(Value(Base, x, y, z, w), 4)[4] = w
<1>. DEFINE n == Value(Base, x, y, z, w)
<1>1. Base \in Nat \ {0} /\ Byte = 0 .. Base - 1
  BY Bases
<1>2. /\ n \in Nat /\ n % Base = x
      /\ (n \div Base) % Base = y
      /\ (n \div (Base * Base)) % Base = z
      /\ n \div (Base * Base * Base) = w
      /\ w % Base = w
  BY <1>1, Shifts
<1>3. n \div 1 = n
  BY <1>2
<1>4. /\ Weight[1] = 1 /\ Weight[2] = Base
      /\ Weight[3] = Base * Base /\ Weight[4] = Base * Base * Base
  BY DEF Weight
<1>. QED BY <1>2, <1>3, <1>4 DEF Memory

\* Reading a sequence of four bytes from either end.
LEMMA Read32 ==
    ASSUME NEW s \in Seq(Byte), Len(s) = 4
    PROVE  /\ Number32(s) = Value(Base, s[1], s[2], s[3], s[4])
           /\ Unpack32(s) = Value(Base, s[4], s[3], s[2], s[1])
<1>1. \A i \in 1 .. 4 : s[i] \in Byte
  BY ElementOfSeq
<1>2. /\ Reverse(s)[1] = s[4] /\ Reverse(s)[2] = s[3]
      /\ Reverse(s)[3] = s[2] /\ Reverse(s)[4] = s[1]
  BY DEF Reverse
<1>. QED BY <1>1, <1>2, Weighted DEF Number32, Unpack32

\* The client swaps the bytes of the numbers that it sends, and twice those of
\* the numbers that it receives.
LEMMA Swap32 ==
    ASSUME NEW n \in 0 .. Limit - 1
    PROVE  /\ toLittleEndian32(n) \in Nat
           /\ Unpack32(Memory(toLittleEndian32(n), PAYLOAD_SIZE)) = n
           /\ ntohl(ntohl(Number32(Memory(n, PAYLOAD_SIZE)))) = n
<1>1. Base \in Nat \ {0} /\ Byte = 0 .. Base - 1 /\ n \in Nat
      /\ n < Base * (Base * (Base * Base))
  BY Bases
<1>2. PICK x, y, z, w \in Byte : n = Value(Base, x, y, z, w)
  BY <1>1, FourBytes
<1>. DEFINE m == Value(Base, w, z, y, x)
<1>3. m \in Nat
  BY <1>2, MemoryIs
<1>. HIDE DEF m
<1>4. toLittleEndian32(n) = m
  <2>1. /\ n % Base = x /\ (n \div Base) % Base = y
        /\ (n \div (Base * Base)) % Base = z /\ n \div (Base * Base * Base) = w
    BY <1>1, <1>2, Shifts
  <2>2. Weight[3] = Base * Base /\ Weight[4] = Base * Base * Base /\ Weight[2] = Base
    BY DEF Weight
  <2>3. toLittleEndian32(n) = w + (z * Weight[2]) + (y * Weight[3]) + (x * Weight[4])
    BY <2>1, <2>2 DEF toLittleEndian32
  <2>4. /\ z * Weight[2] = Weight[2] * z /\ y * Weight[3] = Weight[3] * y
        /\ x * Weight[4] = Weight[4] * x
    BY <1>1, <2>2
  <2>. QED BY <2>3, <2>4, Weighted DEF m
<1>5. ASSUME NEW a \in Byte, NEW b \in Byte, NEW c \in Byte, NEW d \in Byte, NEW k,
             k = Value(Base, a, b, c, d)
      PROVE  /\ k \in Nat /\ Number32(Memory(k, 4)) = k
             /\ Unpack32(Memory(k, 4)) = Value(Base, d, c, b, a)
  <2>1. k \in Nat
    BY <1>5, MemoryIs
  <2>2. Memory(k, 4) \in Seq(Byte) /\ Len(Memory(k, 4)) = 4
    BY <2>1, MemoryType DEF PAYLOAD_SIZE
  <2>3. /\ Memory(Value(Base, a, b, c, d), 4)[1] = a
        /\ Memory(Value(Base, a, b, c, d), 4)[2] = b
        /\ Memory(Value(Base, a, b, c, d), 4)[3] = c
        /\ Memory(Value(Base, a, b, c, d), 4)[4] = d
    BY MemoryIs
  <2>. QED BY <1>5, <2>1, <2>2, <2>3, Read32
<1>6. Unpack32(Memory(m, 4)) = n
  BY <1>2, <1>5 DEF m
<1>7. Number32(Memory(n, 4)) = n /\ Unpack32(Memory(n, 4)) = m
  BY <1>2, <1>5 DEF m
<1>. QED BY <1>3, <1>4, <1>6, <1>7 DEF ntohl, PAYLOAD_SIZE

\* A number of two bytes is one of four bytes, two of which are zero.
LEMMA ValueOfTwo ==
    ASSUME NEW x \in Byte, NEW y \in Byte
    PROVE  x + (Weight[2] * y) = Value(Base, x, y, 0, 0) /\ 0 \in Byte
<1>1. Base \in Nat \ {0} /\ Byte = 0 .. Base - 1
  BY Bases
<1>2. Base * 0 = 0 /\ 0 + 0 = 0 /\ y + 0 = y
  BY <1>1
<1>3. Base * (0 + (Base * 0)) = 0
  BY <1>1, <1>2
<1>4. y + (Base * (0 + (Base * 0))) = y
  BY <1>2, <1>3
<1>. QED BY <1>1, <1>4 DEF Value, Weight

LEMMA TwoBytes ==
    ASSUME NEW n \in 0 .. (Base * Base) - 1
    PROVE  \E x, y \in Byte : /\ n = Value(Base, x, y, 0, 0)
                              /\ n \div Base = y /\ n % Base = x
<1>1. Base \in Nat \ {0} /\ Byte = 0 .. Base - 1 /\ n \in Nat
  BY Bases
<1>. DEFINE y == n \div Base
            x == n % Base
<1>2. y \in Nat /\ x \in Byte /\ n = (Base * y) + x
  BY <1>1, Division
<1>. HIDE DEF x, y
<1>3. y < Base
  <2>. SUFFICES ASSUME Base <= y PROVE FALSE
    BY <1>1, <1>2
  <2>1. y - Base \in Nat /\ Base * y = (Base * Base) + (Base * (y - Base))
        /\ Base * (y - Base) \in Nat /\ Base * Base \in Nat
    BY <1>1, <1>2
  <2>. QED BY <1>1, <1>2, <2>1
<1>4. y \in Byte
  BY <1>1, <1>2, <1>3
<1>5. n = x + (Weight[2] * y)
  <2>1. Weight[2] = Base /\ Base * y \in Nat
    BY <1>1, <1>2 DEF Weight
  <2>. QED BY <1>1, <1>2, <2>1
<1>6. n = Value(Base, x, y, 0, 0)
  BY <1>2, <1>4, <1>5, ValueOfTwo
<1>. QED BY <1>2, <1>4, <1>6 DEF x, y

LEMMA Read16 ==
    ASSUME NEW s \in Seq(Byte), Len(s) = 2
    PROVE  /\ Number16(s) = Value(Base, s[1], s[2], 0, 0)
           /\ Unpack16(s) = Value(Base, s[2], s[1], 0, 0)
<1>1. s[1] \in Byte /\ s[2] \in Byte
  BY ElementOfSeq
<1>2. Reverse(s)[1] = s[2] /\ Reverse(s)[2] = s[1]
  BY DEF Reverse
<1>. QED BY <1>1, <1>2, ValueOfTwo DEF Number16, Unpack16

LEMMA Swap16 ==
    ASSUME NEW n \in 0 .. (Base * Base) - 1
    PROVE  /\ toLittleEndian16(n) \in Nat
           /\ Unpack16(Memory(toLittleEndian16(n), CODE_SIZE)) = n
           /\ ntohs(ntohs(Number16(Memory(n, CODE_SIZE)))) = n
<1>1. PICK x, y \in Byte : n = Value(Base, x, y, 0, 0) /\ n \div Base = y /\ n % Base = x
  BY TwoBytes
<1>2. x \in Nat /\ y \in Nat /\ 0 \in Byte /\ Base \in Nat
  BY Bases, ValueOfTwo
<1>. DEFINE m == Value(Base, y, x, 0, 0)
<1>3. m \in Nat
  BY <1>2, MemoryIs
<1>. HIDE DEF m
<1>4. toLittleEndian16(n) = m
  <2>1. x * Base = Weight[2] * x
    BY <1>2 DEF Weight
  <2>2. toLittleEndian16(n) = y + (Weight[2] * x)
    BY <1>1, <2>1 DEF toLittleEndian16
  <2>. QED BY <2>2, ValueOfTwo DEF m
<1>5. ASSUME NEW a \in Byte, NEW b \in Byte, NEW k, k = Value(Base, a, b, 0, 0)
      PROVE  /\ k \in Nat /\ Number16(Memory(k, 2)) = k
             /\ Unpack16(Memory(k, 2)) = Value(Base, b, a, 0, 0)
  <2>1. k \in Nat
    BY <1>2, <1>5, MemoryIs
  <2>2. /\ Memory(k, 2) \in Seq(Byte) /\ Len(Memory(k, 2)) = 2
        /\ \A i \in 1 .. 2 : Memory(k, 2)[i] = Memory(k, 4)[i]
    BY <2>1, MemoryType DEF PAYLOAD_SIZE
  <2>3. /\ Memory(Value(Base, a, b, 0, 0), 4)[1] = a
        /\ Memory(Value(Base, a, b, 0, 0), 4)[2] = b
    BY <1>2, MemoryIs
  <2>4. Memory(k, 2)[1] = a /\ Memory(k, 2)[2] = b
    BY <1>5, <2>2, <2>3
  <2>. QED BY <1>5, <2>1, <2>2, <2>4, Read16
<1>6. Unpack16(Memory(m, 2)) = n
  BY <1>1, <1>5 DEF m
<1>7. Number16(Memory(n, 2)) = n /\ Unpack16(Memory(n, 2)) = m
  BY <1>1, <1>5 DEF m
<1>. QED BY <1>3, <1>4, <1>6, <1>7 DEF ntohs, CODE_SIZE
-----------------------------------------------------------------------------
(***************************************************************************)
(* Text.                                                                   *)
(***************************************************************************)
LEMMA FunctionIsSeq ==
    ASSUME NEW n \in Nat, NEW S, NEW f \in [1 .. n -> S]
    PROVE  f \in Seq(S) /\ Len(f) = n
OBVIOUS

\* The bytes that are written as digits are read back.
LEMMA HexInverse ==
    ASSUME NEW bytes \in Seq(Byte)
    PROVE  /\ Len(decodeByteCodeToHexString(bytes)) = 2 * Len(bytes)
           /\ encodeHexStringToByteCode(decodeByteCodeToHexString(bytes)) = bytes
<1>. DEFINE n == Len(bytes)
            text == decodeByteCodeToHexString(bytes)
            back == encodeHexStringToByteCode(text)
<1>1. n \in Nat /\ Radix \in Nat \ {0}
  BY Bases
<1>2. \A i \in 1 .. n : bytes[i] \in Nat
  BY Bases, ElementOfSeq
<1>3. text \in [1 .. 2 * n -> Nat]
  <2>1. ASSUME NEW i \in 1 .. 2 * n, i % 2 = 1
        PROVE  bytes[(i + 1) \div 2] \div Radix \in Nat
    <3>1. (i + 1) \div 2 \in 1 .. n
      BY <1>1, <2>1
    <3>. QED BY <1>1, <1>2, <3>1, Division
  <2>2. ASSUME NEW i \in 1 .. 2 * n, i % 2 # 1
        PROVE  bytes[i \div 2] % Radix \in Nat
    <3>1. i \div 2 \in 1 .. n
      BY <1>1, <2>2
    <3>. DEFINE b == bytes[i \div 2]
    <3>2. b \in Nat
      BY <1>2, <3>1
    <3>. HIDE DEF b
    <3>3. b % Radix \in 0 .. Radix - 1
      BY <1>1, <3>2, Division
    <3>4. b % Radix \in Nat
      BY <1>1, <3>3
    <3>. QED BY <3>4 DEF b
  <2>. QED BY <2>1, <2>2 DEF decodeByteCodeToHexString
<1>4. Len(text) = 2 * n
  <2>1. 2 * n \in Nat
    BY <1>1
  <2>. QED BY <1>3, <2>1, FunctionIsSeq
<1>5. back = [i \in 1 .. n |-> (text[(2 * i) - 1] * Radix) + text[2 * i]]
  <2>1. Len(text) \div 2 = n
    BY <1>1, <1>4
  <2>. QED BY <2>1 DEF encodeHexStringToByteCode
<1>6. ASSUME NEW i \in 1 .. n PROVE back[i] = bytes[i]
  <2>1. /\ 2 * i \in 1 .. 2 * n /\ (2 * i) - 1 \in 1 .. 2 * n
        /\ (2 * i) % 2 = 0 /\ ((2 * i) - 1) % 2 = 1
        /\ (2 * i) \div 2 = i /\ ((2 * i) - 1 + 1) \div 2 = i
    BY <1>1
  <2>2. text[(2 * i) - 1] = bytes[i] \div Radix
    BY <2>1 DEF decodeByteCodeToHexString
  <2>3. text[2 * i] = bytes[i] % Radix
    BY <2>1 DEF decodeByteCodeToHexString
  <2>. DEFINE b == bytes[i]
  <2>4. b \in Nat
    BY <1>2
  <2>. HIDE DEF b
  <2>5. b \div Radix \in Nat /\ b = (Radix * (b \div Radix)) + (b % Radix)
    BY <1>1, <2>4, Division
  <2>6. (b \div Radix) * Radix = Radix * (b \div Radix)
    BY <1>1, <2>5
  <2>. QED BY <1>5, <2>2, <2>3, <2>5, <2>6 DEF b
<1>7. DOMAIN bytes = 1 .. n /\ bytes = [i \in 1 .. n |-> bytes[i]]
  BY LenProperties
<1>8. back = bytes
  BY <1>5, <1>6, <1>7
<1>. QED BY <1>4, <1>8

\* The text in a vector ends at a place, and the rest is zero.
EndsAt(vector, k) ==
    /\ k \in 0 .. Len(vector)
    /\ \A i \in 1 .. Len(vector) : vector[i] = 0 <=> i > k

LEMMA PaddedEnds ==
    ASSUME NEW v \in Seq(Byte), IsPadded(v)
    PROVE  \E k : EndsAt(v, k) /\ decodeByteCodeToString(v) = SubSeq(v, 1, k)
<1>. DEFINE zeros == {i \in 1 .. Len(v) : v[i] = 0}
            places == zeros \union {Len(v) + 1}
            m == Min(places)
<1>1. Len(v) \in Nat
  OBVIOUS
<1>2. \E x \in places : \A y \in places : x <= y
  <2>1. places \in SUBSET Nat /\ places # {}
    BY <1>1
  <2>. HIDE DEF places
  <2>. QED BY <2>1, Smallest
<1>3. m \in places /\ \A y \in places : m <= y
  <2>. HIDE DEF places
  <2>. QED BY <1>2 DEF Min
<1>. HIDE DEF m
<1>4. m \in 1 .. Len(v) + 1
  BY <1>1, <1>3
<1>5. ASSUME NEW i \in 1 .. Len(v) PROVE v[i] = 0 <=> i > m - 1
  <2>1. i < m => v[i] # 0
    BY <1>1, <1>3, <1>4
  <2>2. i = m => v[i] = 0
    BY <1>1, <1>3, <1>4
  <2>3. i > m => v[i] = 0
    <3>. HAVE i > m
    <3>1. m \in 1 .. Len(v) /\ v[m] = 0 /\ m < i
      BY <1>1, <1>3, <1>4
    <3>. QED BY <3>1 DEF IsPadded
  <2>. QED BY <1>4, <2>1, <2>2, <2>3
<1>6. EndsAt(v, m - 1)
  BY <1>1, <1>4, <1>5 DEF EndsAt
<1>7. decodeByteCodeToString(v) = SubSeq(v, 1, m - 1)
  BY DEF decodeByteCodeToString, m
<1>. QED BY <1>6, <1>7

LEMMA EndsReads ==
    ASSUME NEW s \in Seq(Byte), NEW k, EndsAt(s, k)
    PROVE  RStrip(s) = SubSeq(s, 1, k)
<1>. DEFINE places == {i \in 1 .. Len(s) : s[i] # 0} \union {0}
<1>1. Len(s) \in Nat /\ k \in 0 .. Len(s)
  BY DEF EndsAt
<1>2. places = 0 .. k
  <2>1. ASSUME NEW i \in 0 .. k PROVE i \in places
    <3>1. i # 0 => i \in 1 .. Len(s) /\ ~(i > k)
      BY <1>1
    <3>2. i # 0 => s[i] # 0
      BY <3>1 DEF EndsAt
    <3>. QED BY <3>1, <3>2
  <2>2. ASSUME NEW i \in places PROVE i \in 0 .. k
    BY <1>1 DEF EndsAt
  <2>. QED BY <2>1, <2>2
<1>. HIDE DEF places
<1>3. Max(places) = k
  <2>1. k \in places /\ \A y \in places : k >= y
    BY <1>1, <1>2
  <2>2. \A x \in places : (\A y \in places : x >= y) => x = k
    <3>. TAKE x \in places
    <3>. HAVE \A y \in places : x >= y
    <3>1. x >= k /\ k >= x /\ x \in Nat /\ k \in Nat
      BY <1>1, <1>2, <2>1
    <3>. QED BY <3>1
  <2>. QED BY <2>1, <2>2 DEF Max
<1>. QED BY <1>3 DEF RStrip, places

\* Text in a vector that is filled up with zeros.
LEMMA VectorType ==
    ASSUME NEW v \in Seq(Byte), NEW text \in Seq(Byte), NEW size \in Nat
    PROVE  /\ encodeStringToByteCode(v, text, size) \in Seq(Byte)
           /\ Len(encodeStringToByteCode(v, text, size)) = size
<1>1. 0 \in Byte
  BY Bases
<1>2. ASSUME NEW i \in 1 .. size
      PROVE  /\ i <= Len(text) => text[i] \in Byte
             /\ i <= Len(v) => v[i] \in Byte
  BY ElementOfSeq
<1>3. encodeStringToByteCode(v, text, size) \in [1 .. size -> Byte]
  BY <1>1, <1>2 DEF encodeStringToByteCode
<1>. QED BY <1>3, FunctionIsSeq

\* The server reads from the field of a name the text in the vector.
LEMMA NameField ==
    ASSUME NEW v \in Seq(Byte), IsPadded(v), NEW size \in Nat, Len(v) <= size
    PROVE  RStrip(encodeStringToByteCode(v, v, size)) = decodeByteCodeToString(v)
<1>. DEFINE field == encodeStringToByteCode(v, v, size)
<1>1. PICK k : EndsAt(v, k) /\ decodeByteCodeToString(v) = SubSeq(v, 1, k)
  BY PaddedEnds
<1>2. field \in Seq(Byte) /\ Len(field) = size
  BY VectorType
<1>3. \A i \in 1 .. size : field[i] = IF i <= Len(v) THEN v[i] ELSE 0
  BY DEF encodeStringToByteCode
<1>. HIDE DEF field
<1>4. Len(v) \in Nat /\ k \in 0 .. Len(v)
  BY <1>1 DEF EndsAt
<1>5. EndsAt(field, k)
  <2>1. ASSUME NEW i \in 1 .. Len(field) PROVE field[i] = 0 <=> i > k
    <3>1. CASE i <= Len(v)
      <4>1. i \in 1 .. Len(v)
        BY <1>2, <1>4, <3>1
      <4>. QED BY <1>1, <1>2, <1>3, <4>1, <3>1 DEF EndsAt
    <3>2. CASE ~(i <= Len(v))
      BY <1>2, <1>3, <1>4, <3>2
    <3>. QED BY <3>1, <3>2
  <2>. QED BY <1>2, <1>4, <2>1 DEF EndsAt
<1>6. RStrip(field) = SubSeq(field, 1, k)
  BY <1>2, <1>5, EndsReads
<1>7. SubSeq(field, 1, k) = SubSeq(v, 1, k)
  <2>1. \A i \in 1 .. k : field[i] \in Byte /\ v[i] \in Byte /\ field[i] = v[i]
    <3>. TAKE i \in 1 .. k
    <3>1. i \in 1 .. Len(v) /\ i \in 1 .. size
      BY <1>4
    <3>. QED BY <1>3, <3>1, ElementOfSeq
  <2>. DEFINE s == SubSeq(field, 1, k)
              t == SubSeq(v, 1, k)
  <2>2. k \in Int /\ 1 \in Int /\ k - 1 + 1 = k /\ (1 <= k => k >= 1)
    BY <1>4
  <2>3. /\ s \in Seq(Byte) /\ t \in Seq(Byte) /\ Len(s) = Len(t)
        /\ Len(s) = IF 1 <= k THEN k - 1 + 1 ELSE 0
        /\ \A i \in 1 .. k - 1 + 1 : s[i] = field[1 + i - 1] /\ t[i] = v[1 + i - 1]
    BY <2>1, <2>2, SubSeqProperties
  <2>. HIDE DEF s, t
  <2>4. \A i \in 1 .. Len(s) : i \in 1 .. k /\ 1 + i - 1 = i
    BY <1>4, <2>3
  <2>5. \A i \in 1 .. Len(s) : s[i] = t[i]
    BY <2>1, <2>2, <2>3, <2>4
  <2>6. s = t
    BY <2>3, <2>5, SeqEqual
  <2>. QED BY <2>6 DEF s, t
<1>. QED BY <1>1, <1>6, <1>7 DEF field

\* A name holds no zero byte: it is what is read from a vector of its length,
\* and zeros that follow it when it is copied over padded text are at the end.
LEMMA NameIsText ==
    ASSUME NEW text \in Seq(Byte \ {0}), NEW v \in Seq(Byte)
    PROVE  /\ text \in Seq(Byte) /\ IsPadded(text)
           /\ decodeByteCodeToString(text) = text
           /\ encodeStringToByteCode(v, text, Len(text)) = text
<1>1. text \in Seq(Byte)
  BY SeqMonotonic
<1>2. Len(text) \in Nat /\ \A i \in 1 .. Len(text) : text[i] # 0
  BY ElementOfSeq
<1>3. IsPadded(text)
  BY <1>2 DEF IsPadded
<1>4. PICK k : EndsAt(text, k) /\ decodeByteCodeToString(text) = SubSeq(text, 1, k)
  BY <1>1, <1>3, PaddedEnds
<1>5. k = Len(text)
  <2>1. k \in 0 .. Len(text)
    BY <1>4 DEF EndsAt
  <2>. SUFFICES ASSUME k < Len(text) PROVE FALSE
    BY <1>2, <2>1
  <2>2. k + 1 \in 1 .. Len(text) /\ k + 1 > k
    BY <1>2, <2>1
  <2>. QED BY <1>2, <1>4, <2>2 DEF EndsAt
<1>6. decodeByteCodeToString(text) = text
  BY <1>1, <1>4, <1>5, SubSeqFull
<1>7. encodeStringToByteCode(v, text, Len(text)) = text
  <2>1. text = [i \in 1 .. Len(text) |-> text[i]]
    BY <1>1, LenProperties
  <2>2. encodeStringToByteCode(v, text, Len(text)) = [i \in 1 .. Len(text) |-> text[i]]
    BY <1>2 DEF encodeStringToByteCode
  <2>. QED BY <2>1, <2>2
<1>. QED BY <1>1, <1>3, <1>6, <1>7

LEMMA OverlayIsPadded ==
    ASSUME NEW v \in Seq(Byte), IsPadded(v), NEW text \in Seq(Byte \ {0}), NEW size \in Nat
    PROVE  IsPadded(encodeStringToByteCode(v, text, size))
<1>. DEFINE field == encodeStringToByteCode(v, text, size)
<1>1. text \in Seq(Byte) /\ Len(text) \in Nat /\ Len(v) \in Nat
  BY SeqMonotonic
<1>2. Len(field) = size
  BY <1>1, VectorType
<1>3. \A i \in 1 .. size : field[i] = IF i <= Len(text) THEN text[i]
                                       ELSE IF i <= Len(v) THEN v[i] ELSE 0
  BY DEF encodeStringToByteCode
<1>. HIDE DEF field
<1>4. ASSUME NEW i \in 1 .. size, NEW j \in 1 .. size, i < j, field[i] = 0
      PROVE  field[j] = 0
  <2>1. ~(i <= Len(text))
    <3>1. i <= Len(text) => text[i] # 0
      BY <1>1, ElementOfSeq
    <3>. QED BY <1>3, <1>4, <3>1
  <2>2. ~(j <= Len(text))
    BY <1>1, <1>4, <2>1
  <2>3. CASE j <= Len(v)
    <3>1. i \in 1 .. Len(v) /\ j \in 1 .. Len(v) /\ v[i] = 0
      BY <1>1, <1>3, <1>4, <2>1, <2>3
    <3>. QED BY <1>3, <1>4, <2>2, <2>3, <3>1 DEF IsPadded
  <2>4. CASE ~(j <= Len(v))
    BY <1>3, <2>2, <2>4
  <2>. QED BY <2>3, <2>4
<1>. QED BY <1>2, <1>4 DEF IsPadded, field

\* A name is read from a field of any size that it is copied into.
LEMMA FieldIsText ==
    ASSUME NEW text \in Seq(Byte \ {0}), NEW size \in Nat, Len(text) <= size
    PROVE  decodeByteCodeToString(encodeStringToByteCode(text, text, size)) = text
<1>. DEFINE field == encodeStringToByteCode(text, text, size)
<1>1. text \in Seq(Byte)
  BY SeqMonotonic
<1>2. IsPadded(text) /\ decodeByteCodeToString(text) = text
  BY <1>1, NameIsText
<1>3. RStrip(field) = text
  BY <1>1, <1>2, NameField
<1>4. field \in Seq(Byte) /\ IsPadded(field)
  BY <1>1, <1>2, VectorType, OverlayIsPadded
<1>. HIDE DEF field
<1>5. PICK k : EndsAt(field, k) /\ decodeByteCodeToString(field) = SubSeq(field, 1, k)
  BY <1>4, PaddedEnds
<1>6. RStrip(field) = SubSeq(field, 1, k)
  BY <1>4, <1>5, EndsReads
<1>7. decodeByteCodeToString(field) = text
  BY <1>3, <1>5, <1>6
<1>. QED BY <1>7 DEF field

LEMMA ZerosArePadded ==
    ASSUME NEW n \in Nat
    PROVE  Zeros(n) \in Seq(Byte) /\ Len(Zeros(n)) = n /\ IsPadded(Zeros(n))
<1>1. Zeros(n) \in [1 .. n -> Byte]
  BY Bases DEF Zeros
<1>2. Zeros(n) \in Seq(Byte) /\ Len(Zeros(n)) = n
  BY <1>1, FunctionIsSeq
<1>. QED BY <1>2 DEF IsPadded, Zeros
-----------------------------------------------------------------------------
(***************************************************************************)
(* Messages.                                                               *)
(***************************************************************************)
\* A message c of p bytes becomes d with a field b of q bytes behind it.
Extends(c, b, d, p, q) ==
    /\ d \in Seq(Byte) /\ Len(d) = p + q
    /\ \A i \in 1 .. p : d[i] = c[i]
    /\ SubSeq(d, p + 1, p + q) = b
    /\ \A m, n \in 1 .. p : SubSeq(d, m, n) = SubSeq(c, m, n)

LEMMA FieldOf ==
    ASSUME NEW a \in Seq(Byte), NEW b \in Seq(Byte), NEW p, NEW q,
           p = Len(a), q = Len(b), q # 0
    PROVE  Extends(a, b, a \o b, p, q)
<1>1. Len(a) \in Nat /\ Len(b) \in Nat
  OBVIOUS
<1>2. /\ a \o b \in Seq(Byte) /\ Len(a \o b) = Len(a) + Len(b)
      /\ \A i \in 1 .. Len(a) + Len(b) :
            (a \o b)[i] = IF i <= Len(a) THEN a[i] ELSE b[i - Len(a)]
  BY ConcatProperties
<1>3. \A i \in 1 .. Len(a) : (a \o b)[i] = a[i]
  BY <1>1, <1>2
<1>4. SubSeq(a \o b, Len(a) + 1, Len(a) + Len(b)) = b
  <2>1. /\ Len(a) + 1 \in Len(a) + 1 .. Len(a) + Len(b)
        /\ Len(a) + Len(b) \in Len(a) + 1 .. Len(a) + Len(b)
        /\ Len(a) + 1 - Len(a) = 1 /\ Len(a) + Len(b) - Len(a) = Len(b)
    BY <1>1
  <2>2. SubSeq(a \o b, Len(a) + 1, Len(a) + Len(b)) = SubSeq(b, 1, Len(b))
    BY <2>1, SubSeqOfConcat2
  <2>. QED BY <2>2, SubSeqFull
<1>5. \A m, n \in 1 .. Len(a) : SubSeq(a \o b, m, n) = SubSeq(a, m, n)
  BY SubSeqOfConcat1
<1>. QED BY <1>2, <1>3, <1>4, <1>5 DEF Extends

LEMMA VersionByte ==
    /\ Memory(VERSION, VERSION_SIZE) \in Seq(Byte)
    /\ Len(Memory(VERSION, VERSION_SIZE)) = 1
    /\ Memory(VERSION, VERSION_SIZE)[1] = VERSION
<1>1. VERSION \in Nat /\ VERSION_SIZE \in 1 .. PAYLOAD_SIZE /\ VERSION_SIZE = 1
  BY DEF VERSION, VERSION_SIZE, PAYLOAD_SIZE
<1>2. /\ Memory(VERSION, VERSION_SIZE) \in Seq(Byte)
      /\ Len(Memory(VERSION, VERSION_SIZE)) = 1
      /\ Memory(VERSION, VERSION_SIZE)[1] = (VERSION \div Weight[1]) % Base
  <2>1. Weight[1] = 1 /\ 1 \in 1 .. 1
    BY DEF Weight
  <2>. QED BY <1>1, <2>1, MemoryType
<1>3. (VERSION \div Weight[1]) % Base = VERSION
  <2>1. Weight[1] = 1 /\ 3 \div 1 = 3
    BY DEF Weight
  <2>2. Base \in Nat \ {0} /\ 3 \in 0 .. Base - 1 /\ 0 \in Nat
        /\ 3 + (Base * 0) = 3
    BY Bases
  <2>3. 3 % Base = 3
    BY <2>2, Quotient
  <2>. QED BY <2>1, <2>3 DEF VERSION
<1>. QED BY <1>2, <1>3

LEMMA Sizes ==
    /\ ID_SIZE \in Nat \ {0} /\ NAME_SIZE \in Nat \ {0}
    /\ VERSION_SIZE = 1 /\ CODE_SIZE = 2 /\ PAYLOAD_SIZE = 4
    /\ HEADER_SIZE = ID_SIZE + 7 /\ HEADER_SIZE_SERVER = 7
    /\ MAX_NAME \in 1 .. NAME_SIZE
<1>1. ID_SIZE \in Nat \ {0} /\ NAME_SIZE \in Nat \ {0} /\ MAX_NAME \in 1 .. NAME_SIZE
  BY MessagesAssumption
<1>. QED BY <1>1 DEF VERSION_SIZE, CODE_SIZE, PAYLOAD_SIZE, HEADER_SIZE, HEADER_SIZE_SERVER

\* A request that can be written, and
CanBeSent(r) ==
    /\ r.id \in Seq(Byte) /\ Len(r.id) = ID_SIZE
    /\ r.version = VERSION
    /\ r.code \in 0 .. (Base * Base) - 1
    /\ r.size \in 0 .. Limit - 1
    /\ r.name \in Seq(Byte) /\ Len(r.name) <= NAME_SIZE /\ IsPadded(r.name)

\* what the server reads of it.
LEMMA RequestIsRead ==
    ASSUME NEW r, CanBeSent(r)
    PROVE  /\ Request(r) \in Seq(Byte) /\ Len(Request(r)) = HEADER_SIZE + NAME_SIZE
           /\ SubSeq(Request(r), 1, ID_SIZE) = r.id
           /\ RequestRead(Request(r)) =
                 [id |-> decodeByteCodeToHexString(r.id), version |-> VERSION,
                  code |-> r.code, size |-> r.size,
                  name |-> decodeByteCodeToString(r.name)]
<1>. DEFINE version == Memory(r.version, VERSION_SIZE)
            code == Memory(toLittleEndian16(r.code), CODE_SIZE)
            size == Memory(toLittleEndian32(r.size), PAYLOAD_SIZE)
            name == encodeStringToByteCode(r.name, r.name, NAME_SIZE)
            to1 == r.id \o version
            to2 == to1 \o code
            to3 == to2 \o size
            all == to3 \o name
<1>1. Request(r) = all
  BY DEF Request, createBufferHeader
<1>2. r.id \in Seq(Byte) /\ Len(r.id) = ID_SIZE
  BY DEF CanBeSent
<1>3. version \in Seq(Byte) /\ Len(version) = 1 /\ version[1] = VERSION
  BY VersionByte DEF CanBeSent
<1>4. code \in Seq(Byte) /\ Len(code) = 2 /\ Unpack16(code) = r.code
  <2>1. toLittleEndian16(r.code) \in Nat /\ Unpack16(code) = r.code
    BY Swap16 DEF CanBeSent
  <2>2. CODE_SIZE \in 1 .. PAYLOAD_SIZE /\ CODE_SIZE = 2
    BY Sizes
  <2>. QED BY <2>1, <2>2, MemoryType
<1>5. size \in Seq(Byte) /\ Len(size) = 4 /\ Unpack32(size) = r.size
  <2>1. toLittleEndian32(r.size) \in Nat /\ Unpack32(size) = r.size
    BY Swap32 DEF CanBeSent
  <2>2. PAYLOAD_SIZE \in 1 .. PAYLOAD_SIZE /\ PAYLOAD_SIZE = 4
    BY Sizes
  <2>. QED BY <2>1, <2>2, MemoryType
<1>6. name \in Seq(Byte) /\ Len(name) = NAME_SIZE
      /\ RStrip(name) = decodeByteCodeToString(r.name)
  BY Sizes, VectorType, NameField DEF CanBeSent
<1>. HIDE DEF version, code, size, name
<1>7. /\ to1 \in Seq(Byte) /\ Len(to1) = ID_SIZE + 1
      /\ SubSeq(to1, 1, ID_SIZE) = r.id
      /\ to1[ID_SIZE + 1] = VERSION
  <2>1. /\ to1 \in Seq(Byte) /\ Len(to1) = ID_SIZE + 1
        /\ \A m, n \in 1 .. ID_SIZE : SubSeq(to1, m, n) = SubSeq(r.id, m, n)
    <3>1. ID_SIZE = Len(r.id) /\ 1 = Len(version) /\ 1 # 0
      BY <1>2, <1>3
    <3>2. Extends(r.id, version, to1, ID_SIZE, 1)
      BY <1>2, <1>3, <3>1, FieldOf
    <3>. QED BY <3>2 DEF Extends
  <2>2. SubSeq(to1, 1, ID_SIZE) = r.id
    <3>. HIDE DEF to1
    <3>0. 1 \in 1 .. ID_SIZE /\ ID_SIZE \in 1 .. ID_SIZE
      BY Sizes
    <3>1. SubSeq(to1, 1, ID_SIZE) = SubSeq(r.id, 1, ID_SIZE)
      BY <2>1, <3>0
    <3>. QED BY <1>2, <3>1, SubSeqFull
  <2>3. to1[ID_SIZE + 1] = VERSION
    <3>1. /\ ID_SIZE + 1 \in 1 .. Len(r.id) + Len(version)
          /\ ~(ID_SIZE + 1 <= Len(r.id)) /\ ID_SIZE + 1 - Len(r.id) = 1
      BY <1>2, <1>3, Sizes
    <3>2. to1[ID_SIZE + 1] = IF ID_SIZE + 1 <= Len(r.id)
                             THEN r.id[ID_SIZE + 1] ELSE version[ID_SIZE + 1 - Len(r.id)]
      BY <1>2, <1>3, <3>1, ConcatProperties
    <3>. QED BY <1>3, <3>1, <3>2
  <2>. QED BY <2>1, <2>2, <2>3
<1>. HIDE DEF to1
<1>8. /\ to2 \in Seq(Byte) /\ Len(to2) = ID_SIZE + 3
      /\ SubSeq(to2, 1, ID_SIZE) = r.id
      /\ to2[ID_SIZE + 1] = VERSION
      /\ SubSeq(to2, ID_SIZE + 2, ID_SIZE + 3) = code
  <2>1. /\ to2 \in Seq(Byte) /\ Len(to2) = ID_SIZE + 1 + 2
        /\ to2[ID_SIZE + 1] = to1[ID_SIZE + 1]
        /\ SubSeq(to2, 1, ID_SIZE) = SubSeq(to1, 1, ID_SIZE)
        /\ SubSeq(to2, ID_SIZE + 1 + 1, ID_SIZE + 1 + 2) = code
    <3>. DEFINE p == ID_SIZE + 1
    <3>1. ID_SIZE + 1 \in 1 .. p /\ 1 \in 1 .. p /\ ID_SIZE \in 1 .. p
      BY Sizes
    <3>2. p = Len(to1) /\ 2 = Len(code) /\ 2 # 0
      BY <1>4, <1>7
    <3>. HIDE DEF p
    <3>3. Extends(to1, code, to1 \o code, p, 2)
      BY <1>4, <1>7, <3>2, FieldOf
    <3>. QED BY <3>1, <3>3 DEF Extends, p
  <2>2. ID_SIZE + 1 + 1 = ID_SIZE + 2 /\ ID_SIZE + 1 + 2 = ID_SIZE + 3
    BY Sizes
  <2>. QED BY <1>7, <2>1, <2>2
<1>. HIDE DEF to2
<1>9. /\ to3 \in Seq(Byte) /\ Len(to3) = ID_SIZE + 7
      /\ SubSeq(to3, 1, ID_SIZE) = r.id
      /\ to3[ID_SIZE + 1] = VERSION
      /\ SubSeq(to3, ID_SIZE + 2, ID_SIZE + 3) = code
      /\ SubSeq(to3, ID_SIZE + 4, ID_SIZE + 7) = size
  <2>1. /\ to3 \in Seq(Byte) /\ Len(to3) = ID_SIZE + 3 + 4
        /\ to3[ID_SIZE + 1] = to2[ID_SIZE + 1]
        /\ SubSeq(to3, 1, ID_SIZE) = SubSeq(to2, 1, ID_SIZE)
        /\ SubSeq(to3, ID_SIZE + 2, ID_SIZE + 3) = SubSeq(to2, ID_SIZE + 2, ID_SIZE + 3)
        /\ SubSeq(to3, ID_SIZE + 3 + 1, ID_SIZE + 3 + 4) = size
    <3>. DEFINE p == ID_SIZE + 3
    <3>1. /\ ID_SIZE + 1 \in 1 .. p /\ 1 \in 1 .. p /\ ID_SIZE \in 1 .. p
          /\ ID_SIZE + 2 \in 1 .. p /\ ID_SIZE + 3 \in 1 .. p
      BY Sizes
    <3>2. p = Len(to2) /\ 4 = Len(size) /\ 4 # 0
      BY <1>5, <1>8
    <3>. HIDE DEF p
    <3>3. Extends(to2, size, to2 \o size, p, 4)
      BY <1>5, <1>8, <3>2, FieldOf
    <3>. QED BY <3>1, <3>3 DEF Extends, p
  <2>2. ID_SIZE + 3 + 1 = ID_SIZE + 4 /\ ID_SIZE + 3 + 4 = ID_SIZE + 7
    BY Sizes
  <2>. QED BY <1>8, <2>1, <2>2
<1>. HIDE DEF to3
<1>10. /\ all \in Seq(Byte) /\ Len(all) = ID_SIZE + 7 + NAME_SIZE
       /\ SubSeq(all, 1, ID_SIZE) = r.id
       /\ all[ID_SIZE + 1] = VERSION
       /\ SubSeq(all, ID_SIZE + 2, ID_SIZE + 3) = code
       /\ SubSeq(all, ID_SIZE + 4, ID_SIZE + 7) = size
       /\ SubSeq(all, ID_SIZE + 7 + 1, ID_SIZE + 7 + NAME_SIZE) = name
  <2>1. /\ all \in Seq(Byte) /\ Len(all) = ID_SIZE + 7 + NAME_SIZE
        /\ all[ID_SIZE + 1] = to3[ID_SIZE + 1]
        /\ SubSeq(all, 1, ID_SIZE) = SubSeq(to3, 1, ID_SIZE)
        /\ SubSeq(all, ID_SIZE + 2, ID_SIZE + 3) = SubSeq(to3, ID_SIZE + 2, ID_SIZE + 3)
        /\ SubSeq(all, ID_SIZE + 4, ID_SIZE + 7) = SubSeq(to3, ID_SIZE + 4, ID_SIZE + 7)
        /\ SubSeq(all, ID_SIZE + 7 + 1, ID_SIZE + 7 + NAME_SIZE) = name
    <3>. DEFINE p == ID_SIZE + 7
    <3>1. /\ ID_SIZE + 1 \in 1 .. p /\ 1 \in 1 .. p /\ ID_SIZE \in 1 .. p
          /\ ID_SIZE + 2 \in 1 .. p /\ ID_SIZE + 3 \in 1 .. p
          /\ ID_SIZE + 4 \in 1 .. p /\ ID_SIZE + 7 \in 1 .. p
      BY Sizes
    <3>2. p = Len(to3) /\ NAME_SIZE = Len(name) /\ NAME_SIZE # 0
      BY <1>6, <1>9, Sizes
    <3>. HIDE DEF p
    <3>3. Extends(to3, name, to3 \o name, p, NAME_SIZE)
      BY <1>6, <1>9, <3>2, FieldOf
    <3>. QED BY <3>1, <3>3 DEF Extends, p
  <2>. QED BY <1>9, <2>1
<1>. HIDE DEF all
<1>11. RequestRead(all) =
          [id |-> decodeByteCodeToHexString(r.id), version |-> VERSION,
           code |-> r.code, size |-> r.size, name |-> decodeByteCodeToString(r.name)]
  <2>1. /\ ID_SIZE + VERSION_SIZE = ID_SIZE + 1
        /\ ID_SIZE + VERSION_SIZE + CODE_SIZE = ID_SIZE + 3
        /\ ID_SIZE + 1 + 1 = ID_SIZE + 2 /\ ID_SIZE + 3 + 1 = ID_SIZE + 4
        /\ HEADER_SIZE = ID_SIZE + 7
    BY Sizes
  <2>. QED BY <1>4, <1>5, <1>6, <1>10, <2>1 DEF RequestRead
<1>. QED BY <1>1, <1>10, <1>11, Sizes

\* A response that can be written, and
CanBeAnswered(r) ==
    /\ r.version = VERSION
    /\ r.code \in 0 .. (Base * Base) - 1
    /\ r.size \in 0 .. Limit - 1
    /\ r.id = << >> \/ (r.id \in Seq(Byte) /\ Len(r.id) = ID_SIZE)

\* what the client reads of it.
LEMMA ResponseIsRead ==
    ASSUME NEW r, CanBeAnswered(r)
    PROVE  /\ create_response(r) \in Seq(Byte)
           /\ ResponseRead(create_response(r)) =
                 [version |-> VERSION, code |-> r.code, size |-> r.size]
           /\ r.id # << >> =>
                 loadClientId(create_response(r)) = decodeByteCodeToHexString(r.id)
<1>. DEFINE version == Memory(r.version, VERSION_SIZE)
            code == Memory(r.code, CODE_SIZE)
            size == Memory(r.size, PAYLOAD_SIZE)
            to2 == version \o code
            to3 == to2 \o size
            all == to3 \o r.id
<1>1. create_response(r) = all
  BY DEF create_response, create_header_response
<1>2. version \in Seq(Byte) /\ Len(version) = 1 /\ version[1] = VERSION
  BY VersionByte DEF CanBeAnswered
<1>3. code \in Seq(Byte) /\ Len(code) = 2 /\ ntohs(ntohs(Number16(code))) = r.code
  <2>1. r.code \in Nat /\ ntohs(ntohs(Number16(code))) = r.code
    BY Swap16 DEF CanBeAnswered
  <2>2. CODE_SIZE \in 1 .. PAYLOAD_SIZE /\ CODE_SIZE = 2
    BY Sizes
  <2>. QED BY <2>1, <2>2, MemoryType
<1>4. size \in Seq(Byte) /\ Len(size) = 4 /\ ntohl(ntohl(Number32(size))) = r.size
  <2>1. r.size \in Nat /\ ntohl(ntohl(Number32(size))) = r.size
    BY Swap32 DEF CanBeAnswered
  <2>2. PAYLOAD_SIZE \in 1 .. PAYLOAD_SIZE /\ PAYLOAD_SIZE = 4
    BY Sizes
  <2>. QED BY <2>1, <2>2, MemoryType
<1>. HIDE DEF version, code, size
<1>5. /\ to2 \in Seq(Byte) /\ Len(to2) = 3 /\ to2[1] = VERSION
      /\ SubSeq(to2, 2, 3) = code
  <2>1. 1 = Len(version) /\ 2 = Len(code) /\ 2 # 0
    BY <1>2, <1>3
  <2>2. Extends(version, code, version \o code, 1, 2)
    BY <1>2, <1>3, <2>1, FieldOf
  <2>3. 1 + 1 = 2 /\ 1 + 2 = 3 /\ 1 \in 1 .. 1
    OBVIOUS
  <2>. QED BY <1>2, <2>2, <2>3 DEF Extends
<1>. HIDE DEF to2
<1>6. /\ to3 \in Seq(Byte) /\ Len(to3) = 7 /\ to3[1] = VERSION
      /\ SubSeq(to3, 2, 3) = code /\ SubSeq(to3, 4, 7) = size
  <2>1. 3 = Len(to2) /\ 4 = Len(size) /\ 4 # 0
    BY <1>4, <1>5
  <2>2. Extends(to2, size, to2 \o size, 3, 4)
    BY <1>4, <1>5, <2>1, FieldOf
  <2>3. 3 + 1 = 4 /\ 3 + 4 = 7 /\ 1 \in 1 .. 3 /\ 2 \in 1 .. 3 /\ 3 \in 1 .. 3
    OBVIOUS
  <2>. QED BY <1>5, <2>2, <2>3 DEF Extends
<1>. HIDE DEF to3
<1>7. /\ all \in Seq(Byte) /\ all[1] = VERSION
      /\ SubSeq(all, 2, 3) = code /\ SubSeq(all, 4, 7) = size
      /\ r.id # << >> => SubSeq(all, 8, 7 + ID_SIZE) = r.id
  <2>1. CASE r.id = << >>
    <3>1. all = to3
      BY <1>6, <2>1, ConcatEmptySeq
    <3>. QED BY <1>6, <2>1, <3>1
  <2>2. CASE r.id \in Seq(Byte) /\ Len(r.id) = ID_SIZE
    <3>1. 7 = Len(to3) /\ ID_SIZE = Len(r.id) /\ ID_SIZE # 0
      BY <1>6, <2>2, Sizes
    <3>2. Extends(to3, r.id, to3 \o r.id, 7, ID_SIZE)
      BY <1>6, <2>2, <3>1, FieldOf
    <3>3. /\ 7 + 1 = 8 /\ 1 \in 1 .. 7 /\ 2 \in 1 .. 7 /\ 3 \in 1 .. 7
          /\ 4 \in 1 .. 7 /\ 7 \in 1 .. 7
      OBVIOUS
    <3>. QED BY <1>6, <3>2, <3>3 DEF Extends
  <2>. QED BY <2>1, <2>2 DEF CanBeAnswered
<1>. HIDE DEF all
<1>8. ResponseRead(all) = [version |-> VERSION, code |-> r.code, size |-> r.size]
  <2>1. /\ VERSION_SIZE = 1 /\ VERSION_SIZE + CODE_SIZE = 3
        /\ 1 + 1 = 2 /\ 3 + 1 = 4 /\ HEADER_SIZE_SERVER = 7
    BY Sizes
  <2>. QED BY <1>3, <1>4, <1>7, <2>1 DEF ResponseRead
<1>9. r.id # << >> => loadClientId(all) = decodeByteCodeToHexString(r.id)
  <2>1. HEADER_SIZE_SERVER = 7 /\ 7 + 1 = 8
    BY Sizes
  <2>. QED BY <1>7, <2>1 DEF loadClientId
<1>. QED BY <1>1, <1>7, <1>8, <1>9
-----------------------------------------------------------------------------
(***************************************************************************)
(* What the invariant says of a message.                                   *)
(***************************************************************************)
LEMMA Codes ==
    /\ {825, 826, 827, 900, 1600, 1601, 1602, 1604, 1605, 1606} \subseteq 0 .. (Base * Base) - 1
    /\ {0, ID_SIZE, NAME_SIZE, NAME_SIZE + PUBLIC_KEY_SIZE, ID_SIZE + AES_CIPHER_SIZE}
          \subseteq 0 .. Limit - 1
<1>. DEFINE square == Base * Base
<1>1. square \in Nat /\ square > 1607
  BY Bases
<1>. HIDE DEF square
<1>2. {825, 826, 827, 900, 1600, 1601, 1602, 1604, 1605, 1606} \subseteq 0 .. square - 1
  BY <1>1
<1>3. /\ ID_SIZE \in Nat \ {0} /\ NAME_SIZE \in Nat \ {0}
      /\ PUBLIC_KEY_SIZE \in Nat \ {0} /\ AES_CIPHER_SIZE \in Nat \ {0}
      /\ NAME_SIZE + PUBLIC_KEY_SIZE < Limit /\ ID_SIZE + AES_CIPHER_SIZE < Limit
      /\ Limit \in Nat
  BY MessagesAssumption, Bases
<1>4. {0, ID_SIZE, NAME_SIZE, NAME_SIZE + PUBLIC_KEY_SIZE, ID_SIZE + AES_CIPHER_SIZE}
         \subseteq 0 .. Limit - 1
  BY <1>3
<1>. QED BY <1>2, <1>4 DEF square

LEMMA MeantCanBeSent ==
    ASSUME RequestIsMeant, pc = "request"
    PROVE  CanBeSent(meant)
<1>1. meant.version = VERSION
  BY DEF RequestIsMeant
<1>2. meant.code \in 0 .. (Base * Base) - 1
  BY Codes DEF RequestIsMeant
<1>. QED BY <1>1, <1>2 DEF RequestIsMeant, CanBeSent

LEMMA MeantCanBeAnswered ==
    ASSUME ResponseIsMeant, pc = "response"
    PROVE  CanBeAnswered(meant)
<1>1. meant.version = VERSION
  BY DEF ResponseIsMeant
<1>2. meant.code \in 0 .. (Base * Base) - 1
  BY Codes DEF ResponseIsMeant
<1>3. meant.id = << >> \/ (meant.id \in Seq(Byte) /\ Len(meant.id) = ID_SIZE)
  BY DEF ResponseIsMeant
<1>. QED BY <1>1, <1>2, <1>3 DEF ResponseIsMeant, CanBeAnswered

LEMMA RequestMeans ==
    ASSUME RequestIsMeant, pc = "request"
    PROVE  /\ wire \in Seq(Byte) /\ Len(wire) = HEADER_SIZE + NAME_SIZE
           /\ SubSeq(wire, 1, ID_SIZE) = meant.id
           /\ RequestRead(wire) =
                 [id |-> decodeByteCodeToHexString(meant.id), version |-> VERSION,
                  code |-> meant.code, size |-> meant.size,
                  name |-> decodeByteCodeToString(meant.name)]
<1>1. wire = Request(meant)
  BY DEF RequestIsMeant
<1>. QED BY <1>1, MeantCanBeSent, RequestIsRead

LEMMA ResponseMeans ==
    ASSUME ResponseIsMeant, pc = "response"
    PROVE  /\ wire \in Seq(Byte)
           /\ ResponseRead(wire) =
                 [version |-> VERSION, code |-> meant.code, size |-> meant.size]
           /\ meant.id # << >> => loadClientId(wire) = decodeByteCodeToHexString(meant.id)
<1>1. wire = create_response(meant)
  BY DEF ResponseIsMeant
<1>. QED BY <1>1, MeantCanBeAnswered, ResponseIsRead

\* The bytes of an identifier are known from its digits.
LEMMA SameHex ==
    ASSUME NEW a \in Seq(Byte), NEW b \in Seq(Byte),
           decodeByteCodeToHexString(a) = decodeByteCodeToHexString(b)
    PROVE  a = b
<1>1. /\ encodeHexStringToByteCode(decodeByteCodeToHexString(a)) = a
      /\ encodeHexStringToByteCode(decodeByteCodeToHexString(b)) = b
  BY HexInverse
<1>. QED BY <1>1

LEMMA RowIsIdentifier ==
    ASSUME RowsAreWritten, NEW name \in DOMAIN table
    PROVE  /\ table[name] \in Seq(Byte) /\ Len(table[name]) = ID_SIZE
           /\ table[name] \in drawn
           /\ name \in Seq(Byte \ {0}) /\ Len(name) \in 1 .. MAX_NAME
BY MessagesAssumption DEF RowsAreWritten, IsWritten

-----------------------------------------------------------------------------
(***************************************************************************)
(* What follows from the invariant.                                        *)
(***************************************************************************)
LEMMA InvType == MessagesInv => TypeOK
<1>. SUFFICES ASSUME MessagesInv PROVE TypeOK
  OBVIOUS
<1>1. me.exists => Len(me.id) = 2 * ID_SIZE
  <2>. HAVE me.exists
  <2>1. /\ table[me.name] \in Seq(Byte) /\ Len(table[me.name]) = ID_SIZE
        /\ me.id = decodeByteCodeToHexString(table[me.name])
    BY RowIsIdentifier DEF MessagesInv, MeInfoHasRow
  <2>. QED BY <2>1, HexInverse
<1>2. wire \in Seq(Byte)
  <2>1. CASE pc = "off"
    BY <2>1, EmptySeq DEF MessagesInv
  <2>2. CASE pc = "request"
    BY <2>2, RequestMeans DEF MessagesInv
  <2>3. CASE pc = "response"
    BY <2>3, ResponseMeans DEF MessagesInv
  <2>. QED BY <2>1, <2>2, <2>3 DEF MessagesInv
<1>3. pc = "request" => Len(wire) = HEADER_SIZE + NAME_SIZE
  BY RequestMeans DEF MessagesInv
<1>. QED BY <1>1, <1>2, <1>3 DEF MessagesInv, VectorsFit, RowsAreWritten, TypeOK

LEMMA InvRequest == MessagesInv => RequestUnderstood
<1>. DEFINE id == meant.id
            code == meant.code
            size == meant.size
            name == meant.name
            sent == decodeByteCodeToHexString(id)
            text == decodeByteCodeToString(name)
<1>. SUFFICES ASSUME MessagesInv, pc = "request"
              PROVE  RequestRead(wire) = [meant EXCEPT !.id = sent, !.name = text]
  BY Zenon DEF RequestUnderstood
<1>1. RequestRead(wire) = [id |-> sent, version |-> VERSION, code |-> code,
                           size |-> size, name |-> text]
  BY RequestMeans DEF MessagesInv
<1>2. meant = [id |-> id, version |-> VERSION, code |-> code, size |-> size,
               name |-> name]
  BY DEF MessagesInv, RequestIsMeant
<1>. HIDE DEF id, code, size, name, sent, text
<1>3. [meant EXCEPT !.id = sent]
         = [id |-> sent, version |-> VERSION, code |-> code, size |-> size,
            name |-> name]
  BY <1>2
<1>4. [[id |-> sent, version |-> VERSION, code |-> code, size |-> size,
        name |-> name] EXCEPT !.name = text]
         = [id |-> sent, version |-> VERSION, code |-> code, size |-> size,
            name |-> text]
  OBVIOUS
<1>5. [meant EXCEPT !.id = sent, !.name = text]
         = [[meant EXCEPT !.id = sent] EXCEPT !.name = text]
  OBVIOUS
<1>6. [meant EXCEPT !.id = sent, !.name = text]
         = [id |-> sent, version |-> VERSION, code |-> code, size |-> size,
            name |-> text]
  BY <1>3, <1>4, <1>5
<1>. QED BY <1>1, <1>6

LEMMA InvResponse == MessagesInv => ResponseUnderstood
<1>. SUFFICES ASSUME MessagesInv, pc = "response" PROVE ResponseUnderstood
  BY DEF ResponseUnderstood
<1>1. meant.version = VERSION
  BY DEF MessagesInv, ResponseIsMeant
<1>. QED BY <1>1, ResponseMeans DEF MessagesInv, ResponseUnderstood

LEMMA InvSurvives == MessagesInv => IdentifierSurvives
<1>. SUFFICES ASSUME MessagesInv, pc = "request", meant.id # Zeros(ID_SIZE)
              PROVE  /\ meant.id \in drawn
                     /\ me.name \in DOMAIN table /\ table[me.name] = meant.id
  BY DEF IdentifierSurvives
<1>1. me.exists /\ meant.id = info.id /\ me.id = decodeByteCodeToHexString(info.id)
  BY DEF MessagesInv, RequestIsMeant
<1>2. me.name \in DOMAIN table /\ me.id = decodeByteCodeToHexString(table[me.name])
  BY <1>1 DEF MessagesInv, MeInfoHasRow
<1>3. table[me.name] \in Seq(Byte) /\ table[me.name] \in drawn
  BY <1>2, RowIsIdentifier DEF MessagesInv
<1>4. table[me.name] = info.id
  BY <1>1, <1>2, <1>3, SameHex DEF MessagesInv, VectorsFit
<1>. QED BY <1>1, <1>2, <1>3, <1>4

LEMMA InvNames == MessagesInv => NamesAreWritten
BY DEF MessagesInv, RowsAreWritten, IsWritten, NamesAreWritten
-----------------------------------------------------------------------------
(***************************************************************************)
(* What several actions do.                                                *)
(***************************************************************************)
LEMMA FirstVectors ==
    /\ TransferInfo.name \in Seq(Byte) /\ Len(TransferInfo.name) = NAME_SIZE
    /\ IsPadded(TransferInfo.name)
    /\ TransferInfo.id \in Seq(Byte) /\ Len(TransferInfo.id) = ID_SIZE
    /\ TransferInfo = [name |-> TransferInfo.name, id |-> TransferInfo.id]
<1>1. ID_SIZE \in Nat /\ NAME_SIZE \in Nat
  BY Sizes
<1>2. TransferInfo.name = Zeros(NAME_SIZE) /\ TransferInfo.id = Zeros(ID_SIZE)
  BY DEF TransferInfo
<1>3. TransferInfo = [name |-> Zeros(NAME_SIZE), id |-> Zeros(ID_SIZE)]
  BY DEF TransferInfo
<1>. QED BY <1>1, <1>2, <1>3, ZerosArePadded

LEMMA FirstFit ==
    ASSUME info = TransferInfo
    PROVE  VectorsFit
<1>1. Len(info.name) <= NAME_SIZE
  BY FirstVectors, Sizes
<1>2. info = [name |-> info.name, id |-> info.id]
  BY FirstVectors
<1>. QED BY <1>1, <1>2, FirstVectors DEF VectorsFit

LEMMA InitInv == Init => MessagesInv
<1>. SUFFICES ASSUME Init PROVE MessagesInv
  OBVIOUS
<1>1. VectorsFit
  BY FirstFit DEF Init
<1>2. RowsAreWritten
  <2>1. table = << >> /\ drawn = {}
    BY DEF Init
  <2>2. DOMAIN table = {} /\ table = [name \in DOMAIN table |-> table[name]]
    BY <2>1
  <2>. QED BY <2>1, <2>2 DEF RowsAreWritten
<1>. QED BY <1>1, <1>2 DEF Init, MessagesInv, RequestIsMeant, ResponseIsMeant, MeInfoHasRow

\* The table and me.info stay as they are.
LEMMA RowsKept ==
    ASSUME RowsAreWritten, MeInfoHasRow, UNCHANGED <<me, table, drawn, keyed>>
    PROVE  RowsAreWritten' /\ MeInfoHasRow'
<1>1. RowsAreWritten'
  BY DEF RowsAreWritten
<1>. QED BY <1>1 DEF MeInfoHasRow

\* The run ends: every variable of the client is gone.
LEMMA RunEndsKeeps ==
    ASSUME MessagesInv, RunEnds, UNCHANGED <<transfer, me, table, drawn, keyed>>
    PROVE  MessagesInv'
<1>1. RowsAreWritten' /\ MeInfoHasRow'
  BY RowsKept DEF MessagesInv
<1>2. VectorsFit'
  <2>1. info' = TransferInfo
    BY DEF RunEnds
  <2>2. TransferInfo = [name |-> TransferInfo.name, id |-> TransferInfo.id]
    BY FirstVectors
  <2>. QED BY <2>1, <2>2, FirstVectors, Sizes DEF VectorsFit
<1>3. pc' = "off" /\ wire' = << >> /\ transfer' \in Name
  BY DEF RunEnds, MessagesInv
<1>. QED BY <1>1, <1>2, <1>3 DEF MessagesInv, RequestIsMeant, ResponseIsMeant

\* A request that agrees with the vectors and with me.info is sent.
LEMMA Asks ==
    ASSUME NEW code \in {825, 826, 827, 900}, NEW size \in 0 .. Limit - 1,
           NEW id \in Seq(Byte), Len(id) = ID_SIZE,
           NEW name \in Seq(Byte), Len(name) <= NAME_SIZE, IsPadded(name),
           Ask(code, size, id, name),
           IF code = 825
           THEN /\ id = Zeros(ID_SIZE)
                /\ name = info'.name /\ IsWritten(info'.name)
           ELSE /\ me'.exists
                /\ id = info'.id /\ me'.id = decodeByteCodeToHexString(info'.id),
           code = 826 => decodeByteCodeToString(name) = me'.name,
           code = 827 => me'.key
    PROVE  pc' = "request" /\ RequestIsMeant' /\ ResponseIsMeant'
<1>1. pc' = "request" /\ wire' = Request(meant')
  BY DEF Ask
<1>2. meant' = [id |-> id, version |-> VERSION, code |-> code, size |-> size,
                name |-> name]
  BY DEF Ask
<1>3. /\ meant'.id = id /\ meant'.code = code /\ meant'.size = size
      /\ meant'.name = name
  BY <1>2
<1>4. meant' = [id |-> meant'.id, version |-> VERSION, code |-> meant'.code,
                size |-> meant'.size, name |-> meant'.name]
  BY <1>2, <1>3
<1>5. RequestIsMeant'
  BY <1>1, <1>3, <1>4 DEF RequestIsMeant
<1>. QED BY <1>1, <1>5 DEF ResponseIsMeant

\* readTransferInfo leaves the vector at the length of the name, so that nothing
\* of what it held before is sent with the name.
LEMMA ReadsTransfer ==
    ASSUME NEW old \in Seq(Byte), NEW id, transfer \in Name, Len(transfer) <= MAX_NAME
    PROVE  /\ readTransferInfo([name |-> old, id |-> id]) = [name |-> transfer, id |-> id]
           /\ transfer \in Seq(Byte) /\ IsPadded(transfer) /\ Len(transfer) <= NAME_SIZE
<1>1. transfer \in Seq(Byte \ {0})
  BY MessagesAssumption
<1>2. /\ transfer \in Seq(Byte) /\ IsPadded(transfer)
      /\ encodeStringToByteCode(old, transfer, Len(transfer)) = transfer
  BY <1>1, NameIsText
<1>3. Len(transfer) <= NAME_SIZE
  <2>1. Len(transfer) \in Nat /\ NAME_SIZE \in Nat /\ MAX_NAME \in 1 .. NAME_SIZE
    BY <1>2, Sizes
  <2>. QED BY <2>1
<1>4. readTransferInfo([name |-> old, id |-> id])
         = [[name |-> old, id |-> id] EXCEPT
               !.name = encodeStringToByteCode(old, transfer, Len(transfer))]
  BY DEF readTransferInfo
<1>5. readTransferInfo([name |-> old, id |-> id]) = [name |-> transfer, id |-> id]
  BY <1>2, <1>4
<1>. QED BY <1>2, <1>3, <1>5

\* A name that is too long leaves the vectors as they were.
LEMMA ReadsNothing ==
    ASSUME NEW to, ~(Len(transfer) <= MAX_NAME)
    PROVE  readTransferInfo(to) = to
BY DEF readTransferInfo

\* What readMeInfo leaves in the vectors: the identifier of the file, and text
\* with nothing but zeros behind it.
LEMMA ReadsMeInfo ==
    ASSUME NEW file, NEW to, NEW id \in Seq(Byte),
           file.name \in Seq(Byte \ {0}), file.id = decodeByteCodeToHexString(id),
           to.name \in Seq(Byte), IsPadded(to.name)
    PROVE  /\ readMeInfo(file, to) = [name |-> readMeInfo(file, to).name, id |-> id]
           /\ readMeInfo(file, to).name \in Seq(Byte)
           /\ Len(readMeInfo(file, to).name) = NAME_SIZE
           /\ IsPadded(readMeInfo(file, to).name)
<1>. DEFINE name == encodeStringToByteCode(to.name, file.name, NAME_SIZE)
<1>1. encodeHexStringToByteCode(file.id) = id
  BY HexInverse
<1>2. readMeInfo(file, to) = [name |-> name, id |-> id]
  BY <1>1 DEF readMeInfo
<1>3. name \in Seq(Byte) /\ Len(name) = NAME_SIZE /\ IsPadded(name)
  <2>1. file.name \in Seq(Byte) /\ NAME_SIZE \in Nat
    BY SeqMonotonic, Sizes
  <2>. QED BY <2>1, VectorType, OverlayIsPadded
<1>. HIDE DEF name
<1>. QED BY <1>2, <1>3

\* A registration is sent under the name that the user wrote, and with that name
\* alone in the vector; without such a name the run ends.
LEMMA RegistrationKeeps ==
    ASSUME MessagesInv, UNCHANGED <<transfer, me, table, drawn, keyed>>,
           NEW old \in Seq(Byte), NEW id \in Seq(Byte), Len(id) = ID_SIZE,
           SendRegistration([name |-> old, id |-> id])
    PROVE  MessagesInv'
<1>1. CASE ~(Len(transfer) \in 1 .. MAX_NAME)
  BY <1>1, RunEndsKeeps DEF SendRegistration
<1>2. CASE Len(transfer) \in 1 .. MAX_NAME
  <2>1. /\ info' = readTransferInfo([name |-> old, id |-> id])
        /\ Ask(825, NAME_SIZE, Zeros(ID_SIZE), info'.name)
    BY <1>2 DEF SendRegistration
  <2>2. transfer \in Name /\ Len(transfer) <= MAX_NAME
    BY <1>2 DEF MessagesInv
  <2>3. /\ info' = [name |-> transfer, id |-> id]
        /\ transfer \in Seq(Byte) /\ IsPadded(transfer) /\ Len(transfer) <= NAME_SIZE
    BY <2>1, <2>2, ReadsTransfer
  <2>4. info'.name = transfer /\ info'.id = id
    BY <2>3
  <2>5. VectorsFit'
    BY <2>3, <2>4 DEF VectorsFit
  <2>6. Zeros(ID_SIZE) \in Seq(Byte) /\ Len(Zeros(ID_SIZE)) = ID_SIZE
    BY Sizes, ZerosArePadded
  <2>7. pc' = "request" /\ RequestIsMeant' /\ ResponseIsMeant'
    <3>1. IsWritten(info'.name)
      BY <1>2, <2>2, <2>4 DEF IsWritten
    <3>2. /\ NAME_SIZE \in 0 .. Limit - 1 /\ 825 \in {825, 826, 827, 900}
          /\ 825 # 826 /\ 825 # 827
      BY Codes
    <3>3. Ask(825, NAME_SIZE, Zeros(ID_SIZE), transfer)
      BY <2>1, <2>4
    <3>. QED BY <2>3, <2>4, <2>6, <3>1, <3>2, <3>3, Asks
  <2>8. RowsAreWritten' /\ MeInfoHasRow'
    BY RowsKept DEF MessagesInv
  <2>9. transfer' \in Name
    BY DEF MessagesInv
  <2>. QED BY <2>5, <2>7, <2>8, <2>9 DEF MessagesInv
<1>. QED BY <1>1, <1>2
-----------------------------------------------------------------------------
(***************************************************************************)
(* The steps of the client.                                                *)
(***************************************************************************)
LEMMA StartNewKeeps == MessagesInv /\ StartNew => MessagesInv'
<1>. SUFFICES ASSUME MessagesInv, StartNew PROVE MessagesInv'
  OBVIOUS
<1>. DEFINE old == TransferInfo.name
            id  == TransferInfo.id
<1>1. /\ TransferInfo = [name |-> old, id |-> id]
      /\ old \in Seq(Byte) /\ id \in Seq(Byte) /\ Len(id) = ID_SIZE
  BY FirstVectors
<1>. HIDE DEF old, id
<1>2. SendRegistration([name |-> old, id |-> id])
  BY <1>1 DEF StartNew
<1>. QED BY <1>1, <1>2, RegistrationKeeps DEF StartNew

\* The vectors after readTransferInfo hold text, whichever name there is.
LEMMA StartKnownKeeps == MessagesInv /\ StartKnown => MessagesInv'
<1>. SUFFICES ASSUME MessagesInv, StartKnown PROVE MessagesInv'
  OBVIOUS
<1>. DEFINE to  == readTransferInfo(TransferInfo)
            old == TransferInfo.name
            nil == TransferInfo.id
            id  == table[me.name]
<1>1. to.name \in Seq(Byte) /\ IsPadded(to.name)
  <2>1. CASE Len(transfer) <= MAX_NAME
    <3>1. TransferInfo = [name |-> old, id |-> nil] /\ old \in Seq(Byte)
      BY FirstVectors
    <3>2. transfer \in Name
      BY DEF MessagesInv
    <3>. HIDE DEF old, nil
    <3>3. /\ readTransferInfo([name |-> old, id |-> nil]) = [name |-> transfer, id |-> nil]
          /\ transfer \in Seq(Byte) /\ IsPadded(transfer)
      BY <2>1, <3>1, <3>2, ReadsTransfer
    <3>. QED BY <3>1, <3>3
  <2>2. CASE ~(Len(transfer) <= MAX_NAME)
    BY <2>2, ReadsNothing, FirstVectors
  <2>. QED BY <2>1, <2>2
<1>2. /\ me.key /\ me.exists /\ me.name \in DOMAIN table
      /\ me.id = decodeByteCodeToHexString(id)
  BY DEF StartKnown, SendReconnect, MessagesInv, MeInfoHasRow
<1>3. id \in Seq(Byte) /\ Len(id) = ID_SIZE /\ me.name \in Seq(Byte \ {0})
  BY <1>2, RowIsIdentifier DEF MessagesInv
<1>4. info' = readMeInfo(me, to) /\ Ask(827, NAME_SIZE, info'.id, info'.name)
  BY DEF StartKnown, SendReconnect
<1>. HIDE DEF to, id
<1>5. /\ readMeInfo(me, to) = [name |-> readMeInfo(me, to).name, id |-> id]
      /\ readMeInfo(me, to).name \in Seq(Byte)
      /\ Len(readMeInfo(me, to).name) = NAME_SIZE /\ IsPadded(readMeInfo(me, to).name)
  BY <1>1, <1>2, <1>3, ReadsMeInfo
<1>. DEFINE name == readMeInfo(me, to).name
<1>6. /\ info' = [name |-> name, id |-> id]
      /\ name \in Seq(Byte) /\ Len(name) <= NAME_SIZE /\ IsPadded(name)
  BY <1>4, <1>5, Sizes
<1>. HIDE DEF name
<1>7. info'.name = name /\ info'.id = id
  BY <1>6
<1>8. VectorsFit'
  BY <1>3, <1>6, <1>7 DEF VectorsFit
<1>9. pc' = "request" /\ RequestIsMeant' /\ ResponseIsMeant'
  <2>1. /\ NAME_SIZE \in 0 .. Limit - 1 /\ 827 \in {825, 826, 827, 900}
        /\ 827 # 825 /\ 827 # 826
    BY Codes
  <2>2. Ask(827, NAME_SIZE, id, name)
    BY <1>4, <1>7
  <2>3. me'.key /\ me'.exists /\ me'.id = decodeByteCodeToHexString(info'.id)
    BY <1>2, <1>7 DEF StartKnown
  <2>. QED BY <1>3, <1>6, <1>7, <2>1, <2>2, <2>3, Asks
<1>10. RowsAreWritten' /\ MeInfoHasRow'
  BY RowsKept DEF MessagesInv, StartKnown
<1>11. transfer' \in Name
  BY DEF MessagesInv, StartKnown
<1>. QED BY <1>8, <1>9, <1>10, <1>11 DEF MessagesInv

\* What the client reads is the code that the server means.
LEMMA AnswerIsMeant ==
    ASSUME MessagesInv, NEW codes, Answered(codes)
    PROVE  pc = "response" /\ ResponseIsMeant /\ meant.code \in codes
<1>1. pc = "response" /\ ResponseIsMeant /\ ResponseRead(wire).code \in codes
  BY DEF Answered, MessagesInv
<1>2. ResponseRead(wire) = [version |-> VERSION, code |-> meant.code, size |-> meant.size]
  BY <1>1, ResponseMeans
<1>. QED BY <1>1, <1>2

\* me.info gets the name that was sent, and the identifier of its row.
LEMMA RegisteredKeeps == MessagesInv /\ Registered => MessagesInv'
<1>. SUFFICES ASSUME MessagesInv, Registered PROVE MessagesInv'
  OBVIOUS
<1>. DEFINE id == meant.id
            name == readMeInfo(me', info).name
<1>1. pc = "response" /\ ResponseIsMeant /\ meant.code = 1600
  BY AnswerIsMeant DEF Registered
<1>2. /\ IsWritten(info.name) /\ info.name \in DOMAIN table /\ table[info.name] = id
      /\ id \in Seq(Byte) /\ Len(id) = ID_SIZE
  BY <1>1 DEF ResponseIsMeant
<1>3. /\ me' = [exists |-> TRUE, name |-> decodeByteCodeToString(info.name),
                id |-> loadClientId(wire), key |-> FALSE]
      /\ info' = readMeInfo(me', info)
      /\ Ask(826, NAME_SIZE + PUBLIC_KEY_SIZE, info'.id, info'.name)
      /\ UNCHANGED <<transfer, table, drawn, keyed>>
  BY DEF Registered
<1>4. info.name \in Seq(Byte \ {0}) /\ decodeByteCodeToString(info.name) = info.name
  BY <1>2, MessagesAssumption, NameIsText DEF IsWritten
<1>5. loadClientId(wire) = decodeByteCodeToHexString(id)
  <2>1. id # << >>
    BY <1>2, Sizes
  <2>. QED BY <1>1, <2>1, ResponseMeans
<1>. HIDE DEF id
<1>6. /\ me'.exists /\ me'.name = info.name /\ ~me'.key
      /\ me'.id = decodeByteCodeToHexString(id)
  BY <1>3, <1>4, <1>5
<1>7. /\ readMeInfo(me', info) = [name |-> name, id |-> id]
      /\ name \in Seq(Byte) /\ Len(name) = NAME_SIZE /\ IsPadded(name)
  BY <1>2, <1>4, <1>6, ReadsMeInfo DEF MessagesInv, VectorsFit
<1>8. /\ info' = [name |-> name, id |-> id]
      /\ name \in Seq(Byte) /\ Len(name) <= NAME_SIZE /\ IsPadded(name)
  BY <1>3, <1>7, Sizes
<1>. DEFINE text == info.name
<1>9. decodeByteCodeToString(name) = text
  <2>1. name = encodeStringToByteCode(text, me'.name, NAME_SIZE)
    BY DEF readMeInfo
  <2>2. text \in Seq(Byte \ {0}) /\ NAME_SIZE \in Nat /\ Len(text) <= NAME_SIZE
    BY <1>4, Sizes DEF MessagesInv, VectorsFit
  <2>3. me'.name = text
    BY <1>6
  <2>. HIDE DEF text, name
  <2>. QED BY <2>1, <2>2, <2>3, FieldIsText
<1>. HIDE DEF name, text
<1>10. info'.name = name /\ info'.id = id
  BY <1>8
<1>11. VectorsFit'
  BY <1>2, <1>8, <1>10 DEF VectorsFit
<1>12. pc' = "request" /\ RequestIsMeant' /\ ResponseIsMeant'
  <2>1. /\ NAME_SIZE + PUBLIC_KEY_SIZE \in 0 .. Limit - 1
        /\ 826 \in {825, 826, 827, 900} /\ 826 # 825 /\ 826 # 827
    BY Codes
  <2>2. Ask(826, NAME_SIZE + PUBLIC_KEY_SIZE, id, name)
    BY <1>3, <1>10
  <2>3. decodeByteCodeToString(name) = me'.name
    BY <1>6, <1>9 DEF text
  <2>. QED BY <1>2, <1>6, <1>8, <1>10, <2>1, <2>2, <2>3, Asks
<1>13. MeInfoHasRow'
  BY <1>2, <1>3, <1>6 DEF MeInfoHasRow
<1>14. RowsAreWritten' /\ transfer' \in Name
  BY <1>3 DEF MessagesInv, RowsAreWritten
<1>. QED BY <1>11, <1>12, <1>13, <1>14 DEF MessagesInv

LEMMA NameTakenKeeps == MessagesInv /\ NameTaken => MessagesInv'
<1>. SUFFICES ASSUME MessagesInv, NameTaken PROVE MessagesInv'
  OBVIOUS
<1>1. CASE ~(attempt < 2)
  BY <1>1, RunEndsKeeps DEF NameTaken
<1>2. CASE attempt < 2
  <2>1. /\ Ask(825, NAME_SIZE, Zeros(ID_SIZE), info.name)
        /\ UNCHANGED <<transfer, me, info, table, drawn, keyed>>
    BY <1>2 DEF NameTaken
  <2>2. IsWritten(info.name)
    <3>1. ResponseIsMeant /\ pc = "response" /\ meant.code = 1601
      BY AnswerIsMeant DEF NameTaken
    <3>. QED BY <3>1 DEF ResponseIsMeant
  <2>3. /\ VectorsFit' /\ transfer' \in Name
        /\ info.name \in Seq(Byte) /\ Len(info.name) <= NAME_SIZE /\ IsPadded(info.name)
    BY <2>1 DEF MessagesInv, VectorsFit
  <2>4. pc' = "request" /\ RequestIsMeant' /\ ResponseIsMeant'
    <3>1. Zeros(ID_SIZE) \in Seq(Byte) /\ Len(Zeros(ID_SIZE)) = ID_SIZE
      BY Sizes, ZerosArePadded
    <3>2. /\ NAME_SIZE \in 0 .. Limit - 1 /\ 825 \in {825, 826, 827, 900}
          /\ 825 # 826 /\ 825 # 827
      BY Codes
    <3>3. info.name = info'.name /\ IsWritten(info'.name)
      BY <2>1, <2>2
    <3>. QED BY <2>1, <2>3, <3>1, <3>2, <3>3, Asks
  <2>5. RowsAreWritten' /\ MeInfoHasRow'
    BY <2>1, RowsKept DEF MessagesInv
  <2>. QED BY <2>3, <2>4, <2>5 DEF MessagesInv
<1>. QED BY <1>1, <1>2

\* A report carries the name of the file and the identifier of the vectors.
LEMMA SendReportKeeps == MessagesInv /\ SendReport => MessagesInv'
<1>. SUFFICES ASSUME MessagesInv, SendReport PROVE MessagesInv'
  OBVIOUS
<1>. DEFINE field == encodeStringToByteCode(Zeros(NAME_SIZE), Path, NAME_SIZE)
<1>1. /\ Ask(900, NAME_SIZE, info.id, field)
      /\ me' = [exists |-> TRUE, name |-> me.name, id |-> me.id, key |-> TRUE]
      /\ UNCHANGED <<transfer, info, table, drawn, keyed>>
  BY DEF SendReport
<1>2. /\ me.exists /\ me.id = decodeByteCodeToHexString(info.id)
      /\ table[me.name] \in keyed
  <2>1. ResponseIsMeant /\ pc = "response" /\ meant.code \in {1602, 1605}
    BY AnswerIsMeant DEF SendReport
  <2>. QED BY <2>1 DEF ResponseIsMeant
<1>3. field \in Seq(Byte) /\ Len(field) <= NAME_SIZE /\ IsPadded(field)
  <2>1. /\ Zeros(NAME_SIZE) \in Seq(Byte) /\ IsPadded(Zeros(NAME_SIZE))
        /\ NAME_SIZE \in Nat
    BY Sizes, ZerosArePadded
  <2>2. Path \in Seq(Byte \ {0}) /\ Path \in Seq(Byte)
    BY MessagesAssumption, SeqMonotonic
  <2>3. field \in Seq(Byte) /\ Len(field) = NAME_SIZE /\ IsPadded(field)
    BY <2>1, <2>2, VectorType, OverlayIsPadded
  <2>. QED BY <2>1, <2>3
<1>. HIDE DEF field
<1>4. /\ VectorsFit' /\ transfer' \in Name
      /\ info.id \in Seq(Byte) /\ Len(info.id) = ID_SIZE
  BY <1>1 DEF MessagesInv, VectorsFit
<1>5. pc' = "request" /\ RequestIsMeant' /\ ResponseIsMeant'
  <2>1. /\ NAME_SIZE \in 0 .. Limit - 1 /\ 900 \in {825, 826, 827, 900}
        /\ 900 # 825 /\ 900 # 826 /\ 900 # 827
    BY Codes
  <2>2. /\ me'.exists /\ info.id = info'.id
        /\ me'.id = decodeByteCodeToHexString(info'.id)
    BY <1>1, <1>2
  <2>. QED BY <1>1, <1>3, <1>4, <2>1, <2>2, Asks
<1>6. RowsAreWritten'
  BY <1>1 DEF MessagesInv, RowsAreWritten
<1>7. MeInfoHasRow'
  <2>1. me'.exists /\ me'.name = me.name /\ me'.id = me.id
    BY <1>1
  <2>. QED BY <1>1, <1>2, <2>1 DEF MessagesInv, MeInfoHasRow
<1>. QED BY <1>4, <1>5, <1>6, <1>7 DEF MessagesInv

LEMMA ReconnectDeniedKeeps == MessagesInv /\ ReconnectDenied => MessagesInv'
<1>. SUFFICES ASSUME MessagesInv, ReconnectDenied PROVE MessagesInv'
  OBVIOUS
<1>. DEFINE old == info.name
            id  == info.id
<1>1. /\ info = [name |-> old, id |-> id]
      /\ old \in Seq(Byte) /\ id \in Seq(Byte) /\ Len(id) = ID_SIZE
  BY DEF MessagesInv, VectorsFit
<1>. HIDE DEF old, id
<1>2. SendRegistration([name |-> old, id |-> id])
  BY <1>1 DEF ReconnectDenied
<1>. QED BY <1>1, <1>2, RegistrationKeeps DEF ReconnectDenied

LEMMA OthersKeep ==
    MessagesInv /\ (ReportAnswered \/ Stop \/ Edit \/ Rest \/ UNCHANGED vars)
        => MessagesInv'
<1>1. ASSUME MessagesInv, ReportAnswered PROVE MessagesInv'
  BY <1>1, RunEndsKeeps DEF ReportAnswered
<1>2. ASSUME MessagesInv, Stop PROVE MessagesInv'
  BY <1>2, RunEndsKeeps DEF Stop
<1>3. ASSUME MessagesInv, transfer' \in Name,
             UNCHANGED <<pc, me, info, attempt, wire, meant, table, drawn, keyed, runs>>
      PROVE  MessagesInv'
  <2>1. RowsAreWritten' /\ MeInfoHasRow'
    BY <1>3, RowsKept DEF MessagesInv
  <2>2. VectorsFit'
    BY <1>3 DEF MessagesInv, VectorsFit
  <2>3. RequestIsMeant' /\ ResponseIsMeant'
    BY <1>3 DEF MessagesInv, RequestIsMeant, ResponseIsMeant
  <2>. QED BY <1>3, <2>1, <2>2, <2>3 DEF MessagesInv
<1>4. ASSUME MessagesInv, Edit PROVE MessagesInv'
  BY <1>3, <1>4 DEF Edit
<1>5. ASSUME MessagesInv, UNCHANGED vars PROVE MessagesInv'
  BY <1>3, <1>5 DEF MessagesInv, vars
<1>. QED BY <1>1, <1>2, <1>4, <1>5 DEF Rest
-----------------------------------------------------------------------------
(***************************************************************************)
(* The steps of the server.                                                *)
(***************************************************************************)
\* What the server reads is the code that the client means.
LEMMA RequestIsAsked ==
    ASSUME MessagesInv, NEW code, Asked(code)
    PROVE  /\ pc = "request" /\ RequestIsMeant /\ meant.code = code
           /\ RequestRead(wire).id = decodeByteCodeToHexString(meant.id)
           /\ RequestRead(wire).name = decodeByteCodeToString(meant.name)
<1>1. pc = "request" /\ RequestIsMeant /\ RequestRead(wire).code = code
  BY DEF Asked, MessagesInv
<1>2. RequestRead(wire) =
         [id |-> decodeByteCodeToHexString(meant.id), version |-> VERSION,
          code |-> meant.code, size |-> meant.size,
          name |-> decodeByteCodeToString(meant.name)]
  BY <1>1, RequestMeans
<1>. QED BY <1>1, <1>2

\* The identifier that a client with a me.info sends is the one of its row.
LEMMA IdentifierIsKnown ==
    ASSUME MessagesInv, pc = "request", meant.code # 825
    PROVE  /\ me.exists /\ me.id = decodeByteCodeToHexString(info.id)
           /\ me.name \in DOMAIN table
           /\ meant.code = 827 => table[me.name] \in keyed
           /\ decodeByteCodeToHexString(table[me.name])
                 = decodeByteCodeToHexString(meant.id)
BY DEF MessagesInv, RequestIsMeant, MeInfoHasRow

\* A response that agrees with the table is sent.
LEMMA Answers ==
    ASSUME MessagesInv,
           NEW code \in {1600, 1601, 1602, 1604, 1605, 1606},
           NEW size \in 0 .. Limit - 1, NEW id,
           IF code = 1601 THEN id = << >> ELSE id \in Seq(Byte) /\ Len(id) = ID_SIZE,
           Answer(code, size, id), RowsAreWritten', MeInfoHasRow',
           code \in {1600, 1601} => IsWritten(info.name),
           code = 1600 => info.name \in DOMAIN table' /\ table'[info.name] = id,
           code \in {1602, 1605} =>
               /\ me.exists /\ me.id = decodeByteCodeToHexString(info.id)
               /\ table'[me.name] \in keyed'
    PROVE  MessagesInv'
<1>1. /\ pc' = "response" /\ wire' = create_response(meant')
      /\ UNCHANGED <<transfer, me, info>>
  BY DEF Answer
<1>2. meant' = [id |-> id, version |-> VERSION, code |-> code, size |-> size]
  BY DEF Answer
<1>3. meant'.id = id /\ meant'.code = code /\ meant'.size = size
  BY <1>2
<1>4. meant' = [id |-> meant'.id, version |-> VERSION, code |-> meant'.code,
                size |-> meant'.size]
  BY <1>2, <1>3
<1>5. ResponseIsMeant'
  <2>1. IF meant'.code = 1601
        THEN meant'.id = << >>
        ELSE meant'.id \in Seq(Byte) /\ Len(meant'.id) = ID_SIZE
    BY <1>3
  <2>2. /\ meant'.code \in {1600, 1601} => IsWritten(info'.name)
        /\ meant'.code = 1600 =>
               info'.name \in DOMAIN table' /\ table'[info'.name] = meant'.id
        /\ meant'.code \in {1602, 1605} =>
               /\ me'.exists /\ me'.id = decodeByteCodeToHexString(info'.id)
               /\ table'[me'.name] \in keyed'
    BY <1>1, <1>3
  <2>. QED BY <1>1, <1>3, <1>4, <2>1, <2>2 DEF ResponseIsMeant
<1>6. VectorsFit' /\ transfer' \in Name
  BY <1>1 DEF MessagesInv, VectorsFit
<1>. QED BY <1>1, <1>5, <1>6 DEF MessagesInv, RequestIsMeant

\* A new row has the name that the user wrote, and takes no row away.
LEMMA RegisterKeeps == MessagesInv /\ Register => MessagesInv'
<1>. SUFFICES ASSUME MessagesInv, Register PROVE MessagesInv'
  OBVIOUS
<1>. DEFINE name == RequestRead(wire).name
<1>1. /\ pc = "request" /\ RequestIsMeant /\ meant.code = 825
      /\ name = decodeByteCodeToString(meant.name)
  BY RequestIsAsked DEF Register
<1>2. meant.name = info.name /\ IsWritten(info.name)
  BY <1>1 DEF RequestIsMeant
<1>3. name = info.name
  <2>1. info.name \in Seq(Byte \ {0}) /\ info.name \in Seq(Byte)
    BY <1>2, MessagesAssumption DEF IsWritten, MessagesInv, VectorsFit
  <2>. QED BY <1>1, <1>2, <2>1, NameIsText
<1>. HIDE DEF name
<1>4. CASE name \in DOMAIN table
  <2>1. Answer(1601, 0, << >>) /\ UNCHANGED <<table, drawn, keyed>>
    BY <1>4 DEF Register, name
  <2>2. UNCHANGED me
    BY <2>1 DEF Answer
  <2>3. RowsAreWritten' /\ MeInfoHasRow'
    BY <2>1, <2>2, RowsKept DEF MessagesInv
  <2>. QED BY <1>2, <2>1, <2>3, Codes, Answers
<1>5. CASE name \notin DOMAIN table
  <2>1. PICK id \in Identifier \ drawn :
           /\ table' = [n \in DOMAIN table \union {name} |->
                           IF n = name THEN id ELSE table[n]]
           /\ drawn' = drawn \union {id}
           /\ Answer(1600, ID_SIZE, id)
    BY <1>5 DEF Register, name
  <2>2. id \in Seq(Byte) /\ Len(id) = ID_SIZE
    BY MessagesAssumption
  <2>3. /\ DOMAIN table' = DOMAIN table \union {name} /\ table'[name] = id
        /\ \A n \in DOMAIN table : table'[n] = table[n]
    BY <1>5, <2>1
  <2>4. RowsAreWritten'
    <3>1. table' = [n \in DOMAIN table' |-> table'[n]]
      BY <2>1, <2>3
    <3>2. /\ drawn' \subseteq Identifier
          /\ \A n \in DOMAIN table' : IsWritten(n) /\ table'[n] \in drawn'
      BY <1>2, <1>3, <2>1, <2>3 DEF MessagesInv, RowsAreWritten
    <3>. QED BY <3>1, <3>2 DEF RowsAreWritten
  <2>5. MeInfoHasRow'
    <3>1. UNCHANGED <<me, keyed>>
      BY <2>1 DEF Answer, Register
    <3>. QED BY <2>3, <3>1 DEF MessagesInv, MeInfoHasRow
  <2>. QED BY <1>2, <1>3, <2>1, <2>2, <2>3, <2>4, <2>5, Codes, Answers
<1>. QED BY <1>4, <1>5

\* The public key goes to the row of me.info.
LEMMA SavePublicKeyKeeps == MessagesInv /\ SavePublicKey => MessagesInv'
<1>. SUFFICES ASSUME MessagesInv, SavePublicKey PROVE MessagesInv'
  OBVIOUS
<1>. DEFINE name == RequestRead(wire).name
            id   == table[name]
<1>1. /\ name \in DOMAIN table /\ UNCHANGED <<table, drawn>>
      /\ keyed' = keyed \union {id}
      /\ Answer(1602, ID_SIZE + AES_CIPHER_SIZE, id)
  BY DEF SavePublicKey
<1>2. id \in Seq(Byte) /\ Len(id) = ID_SIZE
  BY <1>1, RowIsIdentifier DEF MessagesInv
<1>3. /\ pc = "request" /\ RequestIsMeant /\ meant.code = 826
      /\ name = decodeByteCodeToString(meant.name)
  BY RequestIsAsked DEF SavePublicKey
<1>4. name = me.name
  BY <1>3 DEF RequestIsMeant
<1>5. me.exists /\ me.id = decodeByteCodeToHexString(info.id)
  BY <1>3, IdentifierIsKnown
<1>6. table'[me.name] \in keyed'
  BY <1>1, <1>4
<1>. HIDE DEF name, id
<1>7. UNCHANGED me
  BY <1>1 DEF Answer
<1>8. RowsAreWritten' /\ MeInfoHasRow'
  BY <1>1, <1>6, <1>7 DEF MessagesInv, RowsAreWritten, MeInfoHasRow
<1>. QED BY <1>1, <1>2, <1>5, <1>6, <1>8, Codes, Answers

LEMMA RekeyKeeps == MessagesInv /\ Rekey => MessagesInv'
<1>. SUFFICES ASSUME MessagesInv, Rekey PROVE MessagesInv'
  OBVIOUS
<1>. DEFINE name == RequestRead(wire).name
<1>1. /\ name \in DOMAIN table /\ UNCHANGED <<table, drawn, keyed>>
      /\ Answer(1605, ID_SIZE + AES_CIPHER_SIZE, table[name])
  BY DEF Rekey, Recognised
<1>2. table[name] \in Seq(Byte) /\ Len(table[name]) = ID_SIZE
  BY <1>1, RowIsIdentifier DEF MessagesInv
<1>3. /\ me.exists /\ me.id = decodeByteCodeToHexString(info.id)
      /\ table[me.name] \in keyed
  <2>1. pc = "request" /\ meant.code = 827
    BY RequestIsAsked DEF Rekey
  <2>. QED BY <2>1, IdentifierIsKnown
<1>. HIDE DEF name
<1>4. RowsAreWritten' /\ MeInfoHasRow'
  BY <1>1, RowsKept DEF Answer, MessagesInv
<1>. QED BY <1>1, <1>2, <1>3, <1>4, Codes, Answers

\* A client is denied only under another name than that of me.info: the row that
\* goes is not the row of me.info.
LEMMA DenyKeeps == MessagesInv /\ Deny => MessagesInv'
<1>. SUFFICES ASSUME MessagesInv, Deny PROVE MessagesInv'
  OBVIOUS
<1>. DEFINE r == RequestRead(wire)
            id == encodeHexStringToByteCode(r.id)
<1>1. /\ ~Recognised(r)
      /\ table' = [name \in DOMAIN table \ {r.name} |-> table[name]]
      /\ drawn' = drawn /\ keyed' = keyed
      /\ Answer(1606, ID_SIZE, id)
  BY DEF Deny
<1>2. /\ pc = "request" /\ RequestIsMeant /\ meant.code = 827
      /\ r.id = decodeByteCodeToHexString(meant.id)
  BY RequestIsAsked DEF Deny
<1>3. id \in Seq(Byte) /\ Len(id) = ID_SIZE
  <2>1. meant.id \in Seq(Byte) /\ Len(meant.id) = ID_SIZE
    BY <1>2 DEF RequestIsMeant
  <2>. QED BY <1>2, <2>1, HexInverse
<1>. HIDE DEF r, id
<1>4. r.name # me.name
  <2>1. /\ me.name \in DOMAIN table /\ table[me.name] \in keyed
        /\ decodeByteCodeToHexString(table[me.name]) = decodeByteCodeToHexString(meant.id)
    BY <1>2, IdentifierIsKnown
  <2>. QED BY <1>1, <1>2, <2>1 DEF Recognised
<1>5. /\ DOMAIN table' = DOMAIN table \ {r.name}
      /\ \A name \in DOMAIN table' : table'[name] = table[name]
  BY <1>1
<1>6. RowsAreWritten'
  <2>1. table' = [name \in DOMAIN table' |-> table'[name]]
    BY <1>1, <1>5
  <2>2. /\ drawn' \subseteq Identifier
        /\ \A name \in DOMAIN table' : IsWritten(name) /\ table'[name] \in drawn'
    BY <1>1, <1>5 DEF MessagesInv, RowsAreWritten
  <2>. QED BY <2>1, <2>2 DEF RowsAreWritten
<1>7. MeInfoHasRow'
  BY <1>1, <1>4, <1>5 DEF Answer, MessagesInv, MeInfoHasRow
<1>. QED BY <1>1, <1>3, <1>6, <1>7, Codes, Answers

LEMMA AcknowledgeReportKeeps == MessagesInv /\ AcknowledgeReport => MessagesInv'
<1>. SUFFICES ASSUME MessagesInv, AcknowledgeReport PROVE MessagesInv'
  OBVIOUS
<1>. DEFINE id   == meant.id
            sent == SubSeq(wire, 1, ID_SIZE)
<1>1. pc = "request" /\ RequestIsMeant
  BY RequestIsAsked DEF AcknowledgeReport
<1>2. sent = id
  BY <1>1, RequestMeans
<1>3. id \in Seq(Byte) /\ Len(id) = ID_SIZE
  BY <1>1 DEF RequestIsMeant
<1>4. Answer(1604, ID_SIZE, sent) /\ UNCHANGED <<table, drawn, keyed>>
  BY DEF AcknowledgeReport
<1>. HIDE DEF id, sent
<1>5. RowsAreWritten' /\ MeInfoHasRow'
  BY <1>4, RowsKept DEF Answer, MessagesInv
<1>6. sent \in Seq(Byte) /\ Len(sent) = ID_SIZE
  BY <1>2, <1>3
<1>. QED BY <1>4, <1>5, <1>6, Codes, Answers
-----------------------------------------------------------------------------
(***************************************************************************)
(* The theorems.                                                           *)
(***************************************************************************)
LEMMA NextKeeps == MessagesInv /\ [Next]_vars => MessagesInv'
BY StartNewKeeps, StartKnownKeeps, RegisteredKeeps, NameTakenKeeps, SendReportKeeps,
   ReconnectDeniedKeeps, OthersKeep, RegisterKeeps, SavePublicKeyKeeps, RekeyKeeps,
   DenyKeeps, AcknowledgeReportKeeps DEF Next

\* The messages, the vectors, the table and me.info always agree.
THEOREM MessagesCorrect == Spec => []MessagesInv
BY InitInv, NextKeeps, PTL DEF Spec

\* The vectors have the lengths that createBufferHeader and readMeInfo rely on,
\* and as many bytes are sent as the server waits for.
THEOREM MessagesType == Spec => []TypeOK
BY MessagesCorrect, InvType, PTL

\* For every size of the fields, the server unpacks from each request the code,
\* the size, the identifier and the name that the client meant.
THEOREM RequestsUnderstood == Spec => []RequestUnderstood
BY MessagesCorrect, InvRequest, PTL

\* The client reads from each response the code and the size that the server
\* packed, though it swaps their bytes twice, and the identifier that follows.
THEOREM ResponsesUnderstood == Spec => []ResponseUnderstood
BY MessagesCorrect, InvResponse, PTL

\* The identifier of a request is one that the server drew, and that of the row
\* of the name in me.info, whatever names the user wrote in between.
THEOREM IdentifiersSurvive == Spec => []IdentifierSurvives
BY MessagesCorrect, InvSurvives, PTL

\* The server registers no name but one that the user wrote.
THEOREM NamesWritten == Spec => []NamesAreWritten
BY MessagesCorrect, InvNames, PTL
=============================================================================
