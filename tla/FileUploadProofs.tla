--------------------------- MODULE FileUploadProofs ---------------------------
(***************************************************************************)
(* An upload whose recv()s are never short is assembled byte for byte, for *)
(* any sizes of fields, packets, buffers and files and any width of the    *)
(* packet numbers; and its steps are those of PacketTransfer.              *)
(*                                                                         *)
(* Every byte has a place in the upload, and two different bytes never     *)
(* have the same one.  So when the bytes on their way follow those that    *)
(* were received, a read of the right size takes the right bytes.          *)
(***************************************************************************)
EXTENDS FileUpload, SequenceTheorems, TLAPS

-----------------------------------------------------------------------------
(***************************************************************************)
(* Arithmetic.                                                             *)
(***************************************************************************)
LEMMA Constants ==
    /\ HEADER_SIZE \in Nat \ {0} /\ PAYLOAD_SIZE \in Nat \ {0}
    /\ PAYLOAD_SIZE <= HEADER_SIZE
    /\ CODE_SIZE \in Nat \ {0} /\ MESSAGE_CONTENT_SIZE \in Nat \ {0}
    /\ BLOCKSIZE \in Nat \ {0} /\ Window \in Nat \ {0}
    /\ NUMBER_PLACE \in Nat /\ FILE_NAME_SIZE \in Nat
    /\ Modulus \in Nat /\ Modulus >= 2
    /\ FixedSize \in Nat /\ FixedSize >= NUMBER_PLACE + 2 * CODE_SIZE
    /\ PacketSize \in Nat \ {0}
    /\ PacketSize = HEADER_SIZE + FixedSize + MESSAGE_CONTENT_SIZE
<1>1. /\ HEADER_SIZE \in Nat \ {0} /\ PAYLOAD_SIZE \in Nat \ {0}
      /\ CODE_SIZE \in Nat \ {0} /\ MESSAGE_CONTENT_SIZE \in Nat \ {0}
      /\ BLOCKSIZE \in Nat \ {0} /\ Window \in Nat \ {0}
  BY SizesAssumption DEF Sizes
<1>2. /\ NUMBER_PLACE \in Nat /\ FILE_NAME_SIZE \in Nat
      /\ PAYLOAD_SIZE <= HEADER_SIZE
      /\ Modulus \in Nat /\ Modulus >= 2
  BY SizesAssumption
<1>. QED BY <1>1, <1>2 DEF FixedSize, PacketSize

LEMMA Division ==
    ASSUME NEW n \in Nat, NEW d \in Nat \ {0}
    PROVE  /\ n \div d \in Nat /\ n % d \in 0 .. d - 1
           /\ n = d * (n \div d) + (n % d)
OBVIOUS

\* Multiples of d that are d apart do not overlap.
LEMMA Multiples ==
    ASSUME NEW d \in Nat \ {0}, NEW m \in Nat, NEW n \in Nat
    PROVE  /\ m * d \in Nat
           /\ (m + 1) * d = m * d + d
           /\ m < n => m * d + d <= n * d
           /\ m <= n => m * d <= n * d
<1>1. m * d \in Nat /\ (m + 1) * d = m * d + d
  OBVIOUS
<1>2. ASSUME m < n PROVE m * d + d <= n * d
  <2>1. n - m - 1 \in Nat
    BY <1>2
  <2>2. (n - m - 1) * d \in Nat
    BY <2>1
  <2>3. n * d = m * d + d + (n - m - 1) * d
    OBVIOUS
  <2>. QED BY <1>1, <2>2, <2>3
<1>3. ASSUME m <= n PROVE m * d <= n * d
  BY <1>1, <1>2, <1>3
<1>. QED BY <1>1, <1>2, <1>3

\* A place in a packet determines the packet and the place in it.
LEMMA SamePlace ==
    ASSUME NEW d \in Nat \ {0}, NEW m \in Nat, NEW n \in Nat,
           NEW i \in 1 .. d, NEW j \in 1 .. d, m * d + i = n * d + j
    PROVE  m = n /\ i = j
<1>1. m * d \in Nat /\ n * d \in Nat
  BY Multiples
<1>2. ~(m < n)
  <2>1. m < n => m * d + d <= n * d
    BY Multiples
  <2>. QED BY <1>1, <2>1
<1>3. ~(n < m)
  <2>1. n < m => n * d + d <= m * d
    BY Multiples
  <2>. QED BY <1>1, <2>1
<1>4. m = n
  BY <1>2, <1>3
<1>. QED BY <1>1, <1>4

-----------------------------------------------------------------------------
(***************************************************************************)
(* The packets.                                                            *)
(***************************************************************************)
LEMMA CipherSizePositive ==
    ASSUME cipherSize \in CipherSizes
    PROVE  cipherSize \in Nat \ {0}
<1>1. PICK length \in FileSizes : cipherSize = encrypt(length)
  BY DEF CipherSizes
<1>2. length \in Nat /\ length \div BLOCKSIZE \in Nat
  BY SizesAssumption, Constants, Division
<1>3. (length \div BLOCKSIZE + 1) * BLOCKSIZE
         = (length \div BLOCKSIZE) * BLOCKSIZE + BLOCKSIZE
      /\ (length \div BLOCKSIZE) * BLOCKSIZE \in Nat
  BY <1>2, Constants, Multiples
<1>. QED BY <1>1, <1>3, Constants DEF encrypt

\* Every packet has some of the cipher, and all but the last one are full.
LEMMA Packets ==
    ASSUME cipherSize \in CipherSizes
    PROVE  /\ TotalPackets \in Nat \ {0}
           /\ (TotalPackets - 1) * MESSAGE_CONTENT_SIZE < cipherSize
           /\ cipherSize <= TotalPackets * MESSAGE_CONTENT_SIZE
<1>. DEFINE M == MESSAGE_CONTENT_SIZE
            n == cipherSize \div M
            r == cipherSize % M
<1>1. cipherSize \in Nat \ {0} /\ M \in Nat \ {0}
  BY CipherSizePositive, Constants
<1>2. n \in Nat /\ r \in 0 .. M - 1 /\ cipherSize = M * n + r
  BY <1>1, Division
<1>3. TotalPackets = n + (IF r = 0 THEN 0 ELSE 1)
  BY DEF TotalPackets
<1>. HIDE DEF n, r, M
<1>4. M * n = n * M /\ n * M \in Nat /\ (n + 1) * M = n * M + M
  BY <1>1, <1>2, Multiples
<1>5. CASE r = 0
  <2>1. n # 0
    BY <1>1, <1>2, <1>4, <1>5
  <2>2. n - 1 \in Nat /\ ((n - 1) + 1) * M = (n - 1) * M + M
        /\ (n - 1) * M \in Nat
    BY <1>1, <1>2, <2>1, Multiples
  <2>3. n * M = (n - 1) * M + M
    BY <1>2, <2>2
  <2>. QED BY <1>1, <1>2, <1>3, <1>4, <1>5, <2>1, <2>2, <2>3 DEF M
<1>6. CASE r # 0
  <2>1. TotalPackets = n + 1 /\ TotalPackets - 1 = n
    BY <1>2, <1>3, <1>6
  <2>. QED BY <1>1, <1>2, <1>4, <1>6, <2>1 DEF M
<1>. QED BY <1>5, <1>6

LEMMA ContentSizes ==
    ASSUME cipherSize \in CipherSizes, NEW p \in 1 .. TotalPackets
    PROVE  /\ ContentOf(p) \in 1 .. MESSAGE_CONTENT_SIZE
           /\ (p - 1) * MESSAGE_CONTENT_SIZE \in Nat
           /\ p < TotalPackets => ContentOf(p) = MESSAGE_CONTENT_SIZE
           /\ (p - 1) * MESSAGE_CONTENT_SIZE + ContentOf(p)
                 = Smaller(cipherSize, p * MESSAGE_CONTENT_SIZE)
<1>. DEFINE M == MESSAGE_CONTENT_SIZE
            m == p - 1
<1>1. /\ cipherSize \in Nat \ {0} /\ M \in Nat \ {0}
      /\ TotalPackets \in Nat \ {0}
      /\ (TotalPackets - 1) * M < cipherSize
      /\ cipherSize <= TotalPackets * M
  BY CipherSizePositive, Constants, Packets
<1>2. p \in Nat /\ m \in Nat /\ p = m + 1 /\ p <= TotalPackets
      /\ TotalPackets - 1 \in Nat
  BY <1>1
<1>. HIDE DEF M, m
<1>3. m * M \in Nat /\ p * M = m * M + M /\ p * M \in Nat
  BY <1>1, <1>2, Multiples
<1>4. m * M <= (TotalPackets - 1) * M
  <2>1. m <= TotalPackets - 1
    BY <1>1, <1>2
  <2>. QED BY <1>1, <1>2, <2>1, Multiples
<1>5. m * M < cipherSize
  <2>1. (TotalPackets - 1) * M \in Nat
    BY <1>1, <1>2, Multiples
  <2>. QED BY <1>1, <1>3, <1>4, <2>1
<1>6. ContentOf(p) = IF M < cipherSize - m * M THEN M ELSE cipherSize - m * M
  BY DEF ContentOf, Smaller, M, m
<1>7. p < TotalPackets => p * M < cipherSize
  <2>. SUFFICES ASSUME p < TotalPackets PROVE p * M < cipherSize
    OBVIOUS
  <2>1. p <= TotalPackets - 1
    BY <1>1, <1>2
  <2>2. p * M <= (TotalPackets - 1) * M /\ (TotalPackets - 1) * M \in Nat
    BY <1>1, <1>2, <2>1, Multiples
  <2>. QED BY <1>1, <1>3, <2>2
<1>8. ContentOf(p) \in 1 .. M
  BY <1>1, <1>3, <1>5, <1>6
<1>9. p < TotalPackets => ContentOf(p) = M
  BY <1>1, <1>3, <1>6, <1>7
<1>10. m * M + ContentOf(p) = Smaller(cipherSize, p * M)
  BY <1>1, <1>3, <1>6 DEF Smaller
<1>. QED BY <1>3, <1>8, <1>9, <1>10 DEF M, m

LEMMA SliceType ==
    ASSUME NEW p, NEW first \in Nat \ {0}, NEW last \in Nat, first <= last + 1,
           \A i \in first .. last : <<p, i>> \in Byte
    PROVE  /\ Slice(p, first, last) \in Seq(Byte)
           /\ Len(Slice(p, first, last)) = last - first + 1
           /\ \A i \in 1 .. last - first + 1 :
                 Slice(p, first, last)[i] = <<p, first + i - 1>>
<1>. DEFINE n == last - first + 1
<1>1. n \in Nat
  OBVIOUS
<1>2. Slice(p, first, last) = [i \in 1 .. n |-> <<p, first + i - 1>>]
  BY DEF Slice
<1>3. \A i \in 1 .. n : first + i - 1 \in first .. last
  OBVIOUS
<1>. HIDE DEF n
<1>4. \A i \in 1 .. n : <<p, first + i - 1>> \in Byte
  BY <1>3
<1>. DEFINE e(i) == <<p, first + i - 1>>
<1>5. [i \in 1 .. n |-> e(i)] \in Seq(Byte) /\ Len([i \in 1 .. n |-> e(i)]) = n
  <2>1. \A i \in 1 .. n : e(i) \in Byte
    BY <1>4
  <2>. HIDE DEF e
  <2>. QED BY <1>1, <2>1
<1>. QED BY <1>2, <1>5 DEF n

LEMMA MessageType ==
    ASSUME cipherSize \in CipherSizes, NEW p \in 1 .. TotalPackets
    PROVE  /\ PayloadOf(p) = FixedSize + ContentOf(p)
           /\ PayloadOf(p) \in Nat \ {0}
           /\ Message(p) \in Seq(Byte)
           /\ Len(Message(p)) = HEADER_SIZE + PayloadOf(p)
           /\ Len(Message(p)) \in 1 .. PacketSize
           /\ p < TotalPackets => Len(Message(p)) = PacketSize
           /\ \A i \in 1 .. HEADER_SIZE + PayloadOf(p) : Message(p)[i] = <<p, i>>
<1>. DEFINE n == HEADER_SIZE + PayloadOf(p)
<1>1. /\ HEADER_SIZE \in Nat \ {0} /\ FixedSize \in Nat
      /\ MESSAGE_CONTENT_SIZE \in Nat
      /\ PacketSize = HEADER_SIZE + FixedSize + MESSAGE_CONTENT_SIZE
  BY Constants
<1>2. /\ ContentOf(p) \in 1 .. MESSAGE_CONTENT_SIZE
      /\ p < TotalPackets => ContentOf(p) = MESSAGE_CONTENT_SIZE
  BY ContentSizes
<1>3. PayloadOf(p) = FixedSize + ContentOf(p) /\ PayloadOf(p) \in Nat \ {0}
  BY <1>1, <1>2 DEF PayloadOf
<1>4. n \in 1 .. PacketSize /\ (p < TotalPackets => n = PacketSize)
  BY <1>1, <1>2, <1>3
<1>5. \A i \in 1 .. n : <<p, i>> \in Byte
  BY <1>1, <1>4 DEF Byte
<1>. HIDE DEF n
<1>6. /\ Slice(p, 1, n) \in Seq(Byte) /\ Len(Slice(p, 1, n)) = n
      /\ \A i \in 1 .. n : Slice(p, 1, n)[i] = <<p, i>>
  <2>1. 1 \in Nat \ {0} /\ n \in Nat /\ 1 <= n + 1 /\ n - 1 + 1 = n
        /\ \A i \in 1 .. n : 1 + i - 1 = i
    BY <1>4
  <2>2. /\ Slice(p, 1, n) \in Seq(Byte) /\ Len(Slice(p, 1, n)) = n - 1 + 1
        /\ \A i \in 1 .. n - 1 + 1 : Slice(p, 1, n)[i] = <<p, 1 + i - 1>>
    BY <1>5, <2>1, SliceType
  <2>. QED BY <2>1, <2>2
<1>. QED BY <1>3, <1>4, <1>6 DEF Message, n

-----------------------------------------------------------------------------
(***************************************************************************)
(* The bytes that a recv() returns.                                        *)
(***************************************************************************)
LEMMA BytePlace ==
    ASSUME cipherSize \in CipherSizes, NEW byte \in Byte
    PROVE  /\ byte[1] \in 1 .. TotalPackets /\ byte[2] \in 1 .. PacketSize
           /\ byte = <<byte[1], byte[2]>>
           /\ Place(byte) = (byte[1] - 1) * PacketSize + byte[2]
BY Packets, Constants DEF Byte, Place

LEMMA RecvBytes ==
    ASSUME stream \in Seq(Byte), NEW n \in Nat, Recv(n)
    PROVE  /\ stream' \in Seq(Byte) /\ Len(stream') <= Len(stream)
           /\ Bytes(n) \in Seq(Byte) /\ Len(Bytes(n)) <= n
           /\ short \in BOOLEAN => short' \in BOOLEAN
           /\ short => short'
           /\ ~short' /\ ~EndsHere =>
                 /\ n <= Len(stream)
                 /\ Len(Bytes(n)) = n
                 /\ \A i \in 1 .. n : Bytes(n)[i] = stream[i]
                 /\ Len(stream') = Len(stream) - n
                 /\ \A i \in 1 .. Len(stream') : stream'[i] = stream[n + i]
<1>. DEFINE m == Smaller(n, Len(stream))
            k == Len(stream)
<1>1. k \in Nat /\ m \in 0 .. k /\ m <= n /\ (~(k < n) => m = n)
  BY DEF Smaller
<1>2. /\ stream' = SubSeq(stream, n + 1, k)
      /\ short' = (short \/ (k < n /\ ~EndsHere))
  BY DEF Recv
<1>3. Bytes(n) = SubSeq(stream, 1, m)
  BY DEF Bytes
<1>. HIDE DEF m
<1>4. /\ SubSeq(stream, 1, m) \in Seq(Byte) /\ Len(SubSeq(stream, 1, m)) = m
      /\ \A i \in 1 .. m : SubSeq(stream, 1, m)[i] = stream[i]
  BY <1>1
<1>5. CASE k < n
  <2>1. SubSeq(stream, n + 1, k) = << >>
    <3>1. k < n + 1 /\ n + 1 \in Int /\ k \in Int
      BY <1>1, <1>5
    <3>. QED BY <3>1, SubSeqEmpty
  <2>2. stream' = << >> /\ << >> \in Seq(Byte) /\ Len(<< >>) = 0
    BY <1>2, <2>1
  <2>3. short' \/ EndsHere
    BY <1>2, <1>5
  <2>4. short' \in BOOLEAN /\ (short => short')
    BY <1>2
  <2>. QED BY <1>1, <1>3, <1>4, <2>2, <2>3, <2>4
<1>6. CASE ~(k < n)
  <2>1. /\ SubSeq(stream, n + 1, k) \in Seq(Byte)
        /\ Len(SubSeq(stream, n + 1, k)) = k - n
        /\ \A i \in 1 .. k - n : SubSeq(stream, n + 1, k)[i] = stream[n + i]
    BY <1>1, <1>6
  <2>2. m = n
    BY <1>1, <1>6
  <2>. HIDE DEF k
  <2>3. stream' \in Seq(Byte) /\ Len(stream') = k - n
        /\ \A i \in 1 .. Len(stream') : stream'[i] = stream[n + i]
    BY <1>2, <2>1
  <2>4. /\ Bytes(n) \in Seq(Byte) /\ Len(Bytes(n)) = n
        /\ \A i \in 1 .. n : Bytes(n)[i] = stream[i]
    BY <1>3, <1>4, <2>2
  <2>5. n <= k /\ k - n <= k
    BY <1>1, <1>6
  <2>6. short => short'
    BY <1>2
  <2>7. short' \in BOOLEAN
    BY <1>2
  <2>. QED BY <1>1, <2>3, <2>4, <2>5, <2>6, <2>7 DEF k
<1>. QED BY <1>5, <1>6

\* Behind the last byte of a client that is gone there is none.
LEMMA RecvNothing ==
    ASSUME stream \in Seq(Byte), short \in BOOLEAN,
           NEW n \in Nat \ {0}, Recv(n), EndsHere
    PROVE  Bytes(n) = << >> /\ Gone /\ (short' = short)
<1>1. stream = << >> /\ Len(stream) = 0
  BY DEF EndsHere
<1>2. Smaller(n, Len(stream)) = 0
  BY <1>1 DEF Smaller
<1>3. SubSeq(stream, 1, 0) = << >>
  BY <1>1, SubSeqEmpty
<1>4. Bytes(n) = << >>
  BY <1>2, <1>3 DEF Bytes
<1>5. Gone /\ (short' = (short \/ (Len(stream) < n /\ ~EndsHere)))
  BY <1>1 DEF Recv
<1>6. EndsHere
  OBVIOUS
<1>. QED BY <1>4, <1>5, <1>6

\* Bytes that follow those of the first packets, up to a place in the next one,
\* are bytes of this packet.
LEMMA FollowSlice ==
    ASSUME cipherSize \in CipherSizes, NEW bytes \in Seq(Byte),
           NEW k \in Nat, NEW at \in Nat, at + Len(bytes) <= PacketSize,
           Len(bytes) > 0, Follow(bytes, k * PacketSize + at)
    PROVE  /\ k + 1 \in 1 .. TotalPackets
           /\ bytes = Slice(k + 1, at + 1, at + Len(bytes))
           /\ \A i \in 1 .. Len(bytes) : bytes[i] = <<k + 1, at + i>>
<1>. DEFINE n == Len(bytes)
<1>1. n \in Nat /\ PacketSize \in Nat \ {0} /\ TotalPackets \in Nat
  BY Constants, Packets
<1>2. ASSUME NEW i \in 1 .. n
      PROVE  bytes[i][1] = k + 1 /\ bytes[i][2] = at + i /\ bytes[i] = <<k + 1, at + i>>
             /\ k + 1 \in 1 .. TotalPackets
  <2>1. bytes[i] \in Byte
    BY <1>1, ElementOfSeq
  <2>. DEFINE byte == bytes[i]
  <2>. HIDE DEF byte
  <2>2. /\ byte[1] \in 1 .. TotalPackets /\ byte[2] \in 1 .. PacketSize
        /\ byte = <<byte[1], byte[2]>>
        /\ Place(byte) = (byte[1] - 1) * PacketSize + byte[2]
    BY <2>1, BytePlace DEF byte
  <2>3. Place(byte) = k * PacketSize + at + i
    BY <1>1 DEF Follow, byte
  <2>. DEFINE m == byte[1] - 1
              a == byte[2]
              b == at + i
  <2>4. m \in Nat /\ a \in 1 .. PacketSize /\ b \in 1 .. PacketSize
    <3>1. byte[1] \in Nat \ {0} /\ a \in 1 .. PacketSize
      BY <1>1, <2>2
    <3>2. i \in Nat \ {0} /\ i <= n /\ at + n <= PacketSize
      BY <1>1
    <3>3. at + i \in 1 .. PacketSize
      BY <1>1, <3>2
    <3>. QED BY <3>1, <3>3
  <2>5. m * PacketSize + a = k * PacketSize + b
    BY <1>1, <2>2, <2>3, Multiples
  <2>. HIDE DEF m, a, b
  <2>6. m = k /\ a = b
    BY <1>1, <2>4, <2>5, SamePlace
  <2>7. byte[1] = k + 1 /\ byte[2] = at + i
    BY <1>1, <2>2, <2>6 DEF m, a, b
  <2>. QED BY <2>2, <2>7 DEF byte
<1>3. k + 1 \in 1 .. TotalPackets
  BY <1>1, <1>2
<1>4. bytes = Slice(k + 1, at + 1, at + n)
  <2>1. (at + n) - (at + 1) + 1 = n /\ \A i \in 1 .. n : at + 1 + i - 1 = at + i
    BY <1>1
  <2>2. Slice(k + 1, at + 1, at + n) = [i \in 1 .. n |-> <<k + 1, at + i>>]
    BY <2>1 DEF Slice
  <2>3. bytes = [i \in 1 .. n |-> bytes[i]]
    OBVIOUS
  <2>. QED BY <1>2, <2>2, <2>3
<1>. QED BY <1>2, <1>3, <1>4

LEMMA SliceOf ==
    ASSUME cipherSize \in CipherSizes, NEW p \in 1 .. TotalPackets,
           NEW first \in Nat \ {0}, NEW last \in Nat,
           first <= last + 1, last <= PacketSize
    PROVE  /\ Slice(p, first, last) \in Seq(Byte)
           /\ Len(Slice(p, first, last)) = last - first + 1
           /\ \A i \in 1 .. last - first + 1 :
                 Slice(p, first, last)[i] = <<p, first + i - 1>>
<1>1. \A i \in first .. last : <<p, i>> \in Byte
  <2>. TAKE i \in first .. last
  <2>1. PacketSize \in Nat /\ PacketSize = HEADER_SIZE + FixedSize + MESSAGE_CONTENT_SIZE
    BY Constants
  <2>2. i \in 1 .. PacketSize
    BY <2>1
  <2>. QED BY <2>1, <2>2 DEF Byte
<1>. QED BY <1>1, SliceType

\* A part of the bytes of a packet that follow the first n ones.
LEMMA SubSlice ==
    ASSUME cipherSize \in CipherSizes, NEW n \in Nat,
           NEW p \in 1 .. TotalPackets, NEW last \in Nat, last <= PacketSize
    PROVE  \A i \in Nat \ {0}, j \in Nat : i <= j /\ n + j <= last =>
              SubSeq(Slice(p, n + 1, last), i, j) = Slice(p, n + i, n + j)
<1>. TAKE i \in Nat \ {0}, j \in Nat
<1>. HAVE i <= j /\ n + j <= last
<1>. DEFINE s == Slice(p, n + 1, last)
            t == Slice(p, n + i, n + j)
            k == j - i + 1
            m == last - n
<1>1. k \in Nat /\ m \in Nat /\ j <= m /\ PacketSize \in Nat
  BY Constants
<1>2. /\ s \in Seq(Byte) /\ Len(s) = m
      /\ \A x \in 1 .. m : s[x] = <<p, n + x>>
  <2>1. /\ n + 1 \in Nat \ {0} /\ n + 1 <= last + 1 /\ last - (n + 1) + 1 = m
        /\ \A x \in 1 .. m : (n + 1) + x - 1 = n + x
    BY <1>1
  <2>2. /\ s \in Seq(Byte) /\ Len(s) = last - (n + 1) + 1
        /\ \A x \in 1 .. last - (n + 1) + 1 : s[x] = <<p, (n + 1) + x - 1>>
    BY <2>1, SliceOf
  <2>. QED BY <2>1, <2>2
<1>3. /\ t \in Seq(Byte) /\ Len(t) = k
      /\ \A x \in 1 .. k : t[x] = <<p, n + i + x - 1>>
  <2>1. /\ n + i \in Nat \ {0} /\ n + j \in Nat /\ n + i <= n + j + 1
        /\ n + j <= PacketSize /\ (n + j) - (n + i) + 1 = k
    BY <1>1
  <2>2. /\ t \in Seq(Byte) /\ Len(t) = (n + j) - (n + i) + 1
        /\ \A x \in 1 .. (n + j) - (n + i) + 1 : t[x] = <<p, (n + i) + x - 1>>
    BY <2>1, SliceOf
  <2>. QED BY <2>1, <2>2
<1>. HIDE DEF s, t
<1>4. /\ SubSeq(s, i, j) \in Seq(Byte) /\ Len(SubSeq(s, i, j)) = k
      /\ \A x \in 1 .. k : SubSeq(s, i, j)[x] = s[i + x - 1]
  <2>1. i \in Int /\ j \in Int /\ i <= j /\ (\A x \in i .. j : s[x] \in Byte)
    BY <1>1, <1>2
  <2>. QED BY <2>1, SubSeqProperties
<1>5. ASSUME NEW x \in 1 .. k PROVE SubSeq(s, i, j)[x] = t[x]
  <2>1. i + x - 1 \in 1 .. m /\ n + (i + x - 1) = n + i + x - 1
    BY <1>1
  <2>. QED BY <1>2, <1>3, <1>4, <2>1
<1>6. SubSeq(s, i, j) = t
  BY <1>3, <1>4, <1>5
<1>. QED BY <1>6 DEF s, t

LEMMA FieldIs ==
    ASSUME cipherSize \in CipherSizes, NEW p \in 1 .. TotalPackets,
           NEW first \in Nat \ {0}, NEW n \in Nat \ {0}, first + n - 1 <= PacketSize
    PROVE  FieldOf(Slice(p, first, first + n - 1), first) = {p}
<1>. DEFINE last == first + n - 1
<1>1. last \in Nat /\ first <= last + 1 /\ last - first + 1 = n /\ 1 \in 1 .. n
      /\ first + 1 - 1 = first
  OBVIOUS
<1>. HIDE DEF last
<1>2. ASSUME NEW q \in 1 .. TotalPackets, last <= PacketSize
      PROVE  Len(Slice(q, first, last)) = n /\ Slice(q, first, last)[1] = <<q, first>>
  <2>1. /\ Len(Slice(q, first, last)) = last - first + 1
        /\ \A i \in 1 .. last - first + 1 :
              Slice(q, first, last)[i] = <<q, first + i - 1>>
    BY <1>1, <1>2, SliceOf
  <2>2. Slice(q, first, last)[1] = <<q, first + 1 - 1>>
    BY <1>1, <2>1
  <2>. QED BY <1>1, <2>1, <2>2
<1>3. last <= PacketSize /\ first + n - 1 = last
  BY DEF last
<1>4. \A q \in 1 .. TotalPackets :
         Slice(p, first, last) = Slice(q, first, last) => p = q
  <2>. TAKE q \in 1 .. TotalPackets
  <2>1. Slice(p, first, last)[1] = <<p, first>> /\ Slice(q, first, last)[1] = <<q, first>>
    BY <1>2, <1>3
  <2>. QED BY <2>1
<1>5. Len(Slice(p, first, last)) = n
  BY <1>2, <1>3
<1>6. FieldOf(Slice(p, first, last), first)
         = {q \in 1 .. TotalPackets : Slice(p, first, last) = Slice(q, first, last)}
  BY <1>3, <1>5 DEF FieldOf
<1>7. FieldOf(Slice(p, first, last), first) = {p}
  BY <1>4, <1>6
<1>. QED BY <1>7 DEF last

\* The header of a packet names the size of its payload.
LEMMA HeaderRead ==
    ASSUME cipherSize \in CipherSizes, NEW p \in 1 .. TotalPackets
    PROVE  SizesIn(Slice(p, 1, HEADER_SIZE)) = {PayloadOf(p)}
<1>. DEFINE header == Slice(p, 1, HEADER_SIZE)
            place  == HEADER_SIZE - PAYLOAD_SIZE + 1
<1>1. /\ HEADER_SIZE \in Nat \ {0} /\ PAYLOAD_SIZE \in Nat \ {0}
      /\ place \in Nat \ {0} /\ place <= HEADER_SIZE
      /\ place + PAYLOAD_SIZE - 1 = HEADER_SIZE
      /\ HEADER_SIZE <= PacketSize /\ PacketSize \in Nat
      /\ 0 + 1 = 1 /\ 0 + place = place /\ 0 + HEADER_SIZE = HEADER_SIZE
  BY Constants
<1>. HIDE DEF place
<1>2. SubSeq(header, place, HEADER_SIZE) = Slice(p, place, HEADER_SIZE)
  <2>1. \A i \in Nat \ {0}, j \in Nat : i <= j /\ 0 + j <= HEADER_SIZE =>
           SubSeq(Slice(p, 0 + 1, HEADER_SIZE), i, j) = Slice(p, 0 + i, 0 + j)
    BY <1>1, SubSlice
  <2>. QED BY <1>1, <2>1
<1>3. FieldOf(Slice(p, place, place + PAYLOAD_SIZE - 1), place) = {p}
  BY <1>1, FieldIs
<1>4. FieldOf(SubSeq(header, place, HEADER_SIZE), place) = {p}
  BY <1>1, <1>2, <1>3
<1>. HIDE DEF header
<1>5. SizesIn(header) = {PayloadOf(q) : q \in {p}}
  BY <1>4 DEF SizesIn, place
<1>. QED BY <1>5 DEF header

\* The payload of a packet names its number.
LEMMA PayloadRead ==
    ASSUME cipherSize \in CipherSizes, NEW p \in 1 .. TotalPackets,
           NEW payload,
           payload = Slice(p, HEADER_SIZE + 1, HEADER_SIZE + PayloadOf(p))
    PROVE  /\ Len(payload) = PayloadOf(p)
           /\ Len(payload) >= NUMBER_PLACE + 2 * CODE_SIZE
           /\ NumbersIn(payload) = {Number(p)}
           /\ WholePacket(payload) = {p}
           /\ SubSeq(payload, FixedSize + 1, Len(payload)) = Content(p)
<1>. DEFINE place == NUMBER_PLACE + 1
            last  == NUMBER_PLACE + CODE_SIZE
            end   == HEADER_SIZE + PayloadOf(p)
            first == HEADER_SIZE + NUMBER_PLACE + 1
<1>1. /\ HEADER_SIZE \in Nat \ {0} /\ NUMBER_PLACE \in Nat /\ CODE_SIZE \in Nat \ {0}
      /\ FixedSize \in Nat /\ FixedSize >= NUMBER_PLACE + 2 * CODE_SIZE
      /\ PacketSize \in Nat
  BY Constants
<1>2. /\ ContentOf(p) \in Nat \ {0} /\ PayloadOf(p) = FixedSize + ContentOf(p)
      /\ end \in Nat /\ end <= PacketSize
  BY <1>1, ContentSizes, MessageType, Constants
<1>3. Len(payload) = PayloadOf(p)
  <2>1. HEADER_SIZE + 1 \in Nat \ {0} /\ HEADER_SIZE + 1 <= end + 1
        /\ end - (HEADER_SIZE + 1) + 1 = PayloadOf(p)
    BY <1>1, <1>2
  <2>. HIDE DEF end
  <2>2. Len(Slice(p, HEADER_SIZE + 1, end)) = end - (HEADER_SIZE + 1) + 1
    BY <1>2, <2>1, SliceOf
  <2>. QED BY <2>1, <2>2 DEF end
<1>4. Len(payload) >= NUMBER_PLACE + 2 * CODE_SIZE
  BY <1>1, <1>2, <1>3
<1>5. \A i \in Nat \ {0}, j \in Nat : i <= j /\ HEADER_SIZE + j <= end =>
         SubSeq(Slice(p, HEADER_SIZE + 1, end), i, j)
            = Slice(p, HEADER_SIZE + i, HEADER_SIZE + j)
  <2>. HIDE DEF end
  <2>. QED BY <1>1, <1>2, SubSlice
<1>6. NumbersIn(payload) = {Number(p)}
  <2>1. /\ place \in Nat \ {0} /\ last \in Nat /\ place <= last
        /\ HEADER_SIZE + 1 \in Nat \ {0}
        /\ first = HEADER_SIZE + place
        /\ first + CODE_SIZE - 1 = HEADER_SIZE + last
        /\ HEADER_SIZE + last <= end
        /\ first \in Nat \ {0} /\ first + CODE_SIZE - 1 <= PacketSize
    BY <1>1, <1>2
  <2>. HIDE DEF place, last, first, end
  <2>2. SubSeq(Slice(p, HEADER_SIZE + 1, end), place, last)
           = Slice(p, HEADER_SIZE + place, HEADER_SIZE + last)
    BY <2>1, <1>5
  <2>3. SubSeq(payload, place, last) = Slice(p, first, first + CODE_SIZE - 1)
    BY <2>1, <2>2 DEF end
  <2>4. FieldOf(SubSeq(payload, place, last), first) = {p}
    BY <1>1, <2>1, <2>3, FieldIs
  <2>5. NumbersIn(payload) = {Number(q) : q \in {p}}
    BY <2>4 DEF NumbersIn, place, last, first
  <2>. QED BY <2>5
<1>7. WholePacket(payload) = {p}
  <2>1. /\ HEADER_SIZE + 1 \in Nat \ {0} /\ PayloadOf(p) \in Nat \ {0}
        /\ (HEADER_SIZE + 1) + PayloadOf(p) - 1 = end
    BY <1>1, <1>2
  <2>. HIDE DEF end
  <2>2. FieldOf(Slice(p, HEADER_SIZE + 1, (HEADER_SIZE + 1) + PayloadOf(p) - 1),
                HEADER_SIZE + 1) = {p}
    BY <1>2, <2>1, FieldIs
  <2>3. FieldOf(payload, HEADER_SIZE + 1) = {p}
    BY <2>1, <2>2 DEF end
  <2>. QED BY <1>3, <2>3 DEF WholePacket
<1>8. SubSeq(payload, FixedSize + 1, Len(payload)) = Content(p)
  <2>1. /\ HEADER_SIZE + 1 \in Nat \ {0} /\ FixedSize + 1 \in Nat \ {0}
        /\ PayloadOf(p) \in Nat /\ FixedSize + 1 <= PayloadOf(p)
        /\ end = HEADER_SIZE + PayloadOf(p) /\ HEADER_SIZE + PayloadOf(p) <= end
        /\ HEADER_SIZE + FixedSize + 1 = HEADER_SIZE + (FixedSize + 1)
    BY <1>1, <1>2
  <2>. HIDE DEF end
  <2>2. SubSeq(Slice(p, HEADER_SIZE + 1, end), FixedSize + 1, PayloadOf(p))
           = Slice(p, HEADER_SIZE + (FixedSize + 1), HEADER_SIZE + PayloadOf(p))
    BY <1>2, <1>5, <2>1
  <2>. QED BY <1>3, <2>1, <2>2 DEF Content, end
<1>. QED BY <1>3, <1>4, <1>6, <1>7, <1>8

-----------------------------------------------------------------------------
(***************************************************************************)
(* Types.                                                                  *)
(***************************************************************************)
\* The packets are those of the whole upload.
LEMMA SameUpload ==
    ASSUME UNCHANGED cipherSize
    PROVE  /\ TotalPackets' = TotalPackets /\ LastPacket' = LastPacket
           /\ Byte' = Byte
           /\ \A p : /\ ContentOf(p)' = ContentOf(p)
                     /\ PayloadOf(p)' = PayloadOf(p)
                     /\ Message(p)' = Message(p)
BY DEF TotalPackets, LastPacket, Byte, ContentOf, PayloadOf, Message

LEMMA NumberType ==
    ASSUME NEW n \in Nat
    PROVE  /\ Number(n) \in 0 .. Modulus - 1
           /\ n < Modulus => Number(n) = n
<1>1. Modulus \in Nat \ {0}
  BY Constants
<1>2. n % Modulus \in 0 .. Modulus - 1 /\ (n < Modulus => n % Modulus = n)
  BY <1>1
<1>. QED BY <1>2 DEF Number

LEMMA TakeType ==
    ASSUME cipherSize \in CipherSizes, cipher \in Seq(Byte),
           taken \in Seq(0 .. TotalPackets), NEW payload \in Seq(Byte), Take(payload)
    PROVE  cipher' \in Seq(Byte) /\ taken' \in Seq(0 .. TotalPackets)
<1>1. SubSeq(payload, FixedSize + 1, Len(payload)) \in Seq(Byte)
  <2>1. FixedSize + 1 \in Int /\ Len(payload) \in Int
        /\ \A i \in FixedSize + 1 .. Len(payload) : payload[i] \in Byte
    BY Constants
  <2>. QED BY <2>1, SubSeqProperties
<1>2. cipher' = cipher \o SubSeq(payload, FixedSize + 1, Len(payload))
  BY DEF Take
<1>3. cipher' \in Seq(Byte)
  BY <1>1, <1>2
<1>4. taken' = taken \/ \E p \in 0 .. TotalPackets : taken' = Append(taken, p)
  <2>1. 0 \in 0 .. TotalPackets
    BY Packets
  <2>2. WholePacket(payload) \subseteq 0 .. TotalPackets
    BY DEF WholePacket, FieldOf
  <2>. QED BY <2>1, <2>2 DEF Take, Record
<1>5. taken' \in Seq(0 .. TotalPackets)
  <2>1. CASE taken' = taken
    BY <2>1
  <2>2. ASSUME NEW p \in 0 .. TotalPackets, taken' = Append(taken, p)
        PROVE  taken' \in Seq(0 .. TotalPackets)
    BY <2>2
  <2>. QED BY <1>4, <2>1, <2>2
<1>. QED BY <1>3, <1>5

LEMMA TypeInit == Init => TypeOK
<1>. SUFFICES ASSUME Init PROVE TypeOK
  OBVIOUS
<1>1. cipherSize \in CipherSizes /\ TotalPackets \in Nat \ {0}
  BY Packets DEF Init
<1>2. 1 \in 1 .. TotalPackets
  BY <1>1
<1>3. unsent \in Seq(Byte)
  BY <1>1, <1>2, MessageType DEF Init
<1>4. << >> \in Seq(Byte) /\ << >> \in Seq(0 .. TotalPackets) /\ Len(<< >>) = 0
  OBVIOUS
<1>5. 0 \in 0 .. Modulus - 1 /\ 0 <= Window /\ 0 \in Nat
  BY Constants
<1>. QED BY <1>1, <1>2, <1>3, <1>4, <1>5 DEF Init, TypeOK

\* What a server step leaves alone, and what it may do to its own variables.
LEMMA TypeServer ==
    ASSUME TypeOK, UNCHANGED <<cipherSize, clientVars>>,
           stream' \in Seq(Byte), Len(stream') <= Window, short' \in BOOLEAN,
           step' \in {"accept", "data", "header", "payload", "respond", "closed",
                      "died"},
           size' \in Nat, number' \in 0 .. Modulus - 1, total' \in 0 .. Modulus - 1,
           cipher' \in Seq(Byte), taken' \in Seq(0 .. TotalPackets)
    PROVE  TypeOK'
<1>1. TotalPackets' = TotalPackets /\ Byte' = Byte /\ CipherSizes' = CipherSizes
  BY SameUpload DEF CipherSizes, encrypt
<1>. QED BY <1>1 DEF TypeOK, clientVars

LEMMA HeaderSizes ==
    ASSUME cipherSize \in CipherSizes, NEW header
    PROVE  SizesIn(header) \subseteq Nat
<1>1. 0 .. Window \subseteq Nat
  BY Constants
<1>2. \A p \in 1 .. TotalPackets : PayloadOf(p) \in Nat
  BY MessageType
<1>3. \A bytes, first : FieldOf(bytes, first) \subseteq 1 .. TotalPackets
  BY DEF FieldOf
<1>. QED BY <1>1, <1>2, <1>3 DEF SizesIn

LEMMA PayloadNumbers ==
    ASSUME cipherSize \in CipherSizes, NEW payload
    PROVE  NumbersIn(payload) \subseteq 0 .. Modulus - 1
<1>1. \A p \in 1 .. TotalPackets : Number(p) \in 0 .. Modulus - 1
  BY NumberType, Packets
<1>2. \A bytes, first : FieldOf(bytes, first) \subseteq 1 .. TotalPackets
  BY DEF FieldOf
<1>. QED BY <1>1, <1>2 DEF NumbersIn

LEMMA TypeStep == TypeOK /\ [Next]_vars => TypeOK'
<1>. SUFFICES ASSUME TypeOK, [Next]_vars PROVE TypeOK'
  OBVIOUS
<1>1. /\ cipherSize \in CipherSizes /\ TotalPackets \in Nat \ {0}
      /\ unsent \in Seq(Byte) /\ stream \in Seq(Byte) /\ Len(stream) <= Window
      /\ cipher \in Seq(Byte) /\ taken \in Seq(0 .. TotalPackets)
      /\ size \in Nat /\ packet \in 1 .. TotalPackets /\ short \in BOOLEAN
      /\ number \in 0 .. Modulus - 1 /\ total \in 0 .. Modulus - 1
  BY Packets DEF TypeOK
<1>2. /\ << >> \in Seq(Byte) /\ Window \in Nat
      /\ NUMBER_PLACE \in Nat /\ CODE_SIZE \in Nat \ {0}
  BY Constants
<1>3. ASSUME NEW n \in Nat, Recv(n)
      PROVE  /\ stream' \in Seq(Byte) /\ Len(stream') <= Window
             /\ short' \in BOOLEAN /\ Bytes(n) \in Seq(Byte)
  <2>1. /\ stream' \in Seq(Byte) /\ Len(stream') <= Len(stream)
        /\ Bytes(n) \in Seq(Byte) /\ short' \in BOOLEAN
    BY <1>1, <1>3, RecvBytes
  <2>2. Len(stream') \in Nat /\ Len(stream) \in Nat
    BY <1>1, <2>1
  <2>. QED BY <1>1, <1>2, <2>1, <2>2
<1>4. CASE Write
  <2>1. PICK n \in 1 .. Smaller(Len(unsent), Window - Len(stream)) :
           /\ stream' = stream \o SubSeq(unsent, 1, n)
           /\ IF n < Len(unsent)
              THEN /\ unsent' = SubSeq(unsent, n + 1, Len(unsent))
                   /\ UNCHANGED <<client, packet>>
              ELSE AfterPacket
    BY <1>4 DEF Write
  <2>2. UNCHANGED <<cipherSize, serverVars, short>> /\ client = "write"
    BY <1>4 DEF Write
  <2>3. n \in 1 .. Len(unsent) /\ Len(stream) + n <= Window /\ Len(unsent) \in Nat
    BY <1>1, <1>2 DEF Smaller
  <2>4. SubSeq(unsent, 1, n) \in Seq(Byte) /\ Len(SubSeq(unsent, 1, n)) = n
    BY <1>1, <2>3
  <2>5. stream' \in Seq(Byte) /\ Len(stream') <= Window
    BY <1>1, <2>1, <2>3, <2>4
  <2>6. /\ unsent' \in Seq(Byte) /\ packet' \in 1 .. TotalPackets
        /\ client' \in {"write", "read"}
    <3>1. CASE n < Len(unsent)
      <4>1. SubSeq(unsent, n + 1, Len(unsent)) \in Seq(Byte)
        BY <1>1, <2>3, <3>1
      <4>. QED BY <1>1, <2>1, <2>2, <3>1, <4>1
    <3>2. CASE ~(n < Len(unsent)) /\ packet < TotalPackets
      <4>1. packet + 1 \in 1 .. TotalPackets
        BY <1>1, <3>2
      <4>2. Message(packet + 1) \in Seq(Byte)
        BY <1>1, <4>1, MessageType
      <4>. QED BY <2>1, <2>2, <3>2, <4>1, <4>2 DEF AfterPacket
    <3>3. CASE ~(n < Len(unsent)) /\ ~(packet < TotalPackets)
      BY <1>1, <1>2, <2>1, <3>3 DEF AfterPacket
    <3>. QED BY <3>1, <3>2, <3>3
  <2>7. TotalPackets' = TotalPackets /\ Byte' = Byte /\ CipherSizes' = CipherSizes
    BY <2>2, SameUpload DEF CipherSizes, encrypt
  <2>. QED BY <2>2, <2>5, <2>6, <2>7 DEF TypeOK, serverVars
<1>5. CASE Finish \/ Killed
  <2>1. /\ client' \in {"done", "killed"}
        /\ UNCHANGED <<cipherSize, packet, unsent, stream, serverVars, short>>
    BY <1>5 DEF Finish, Killed
  <2>2. TotalPackets' = TotalPackets /\ Byte' = Byte /\ CipherSizes' = CipherSizes
    BY <2>1, SameUpload DEF CipherSizes, encrypt
  <2>. QED BY <2>1, <2>2 DEF TypeOK, serverVars
<1>6. CASE ReceiveHeader
  <2>1. Recv(HEADER_SIZE) /\ HEADER_SIZE \in Nat
    BY <1>6, Constants DEF ReceiveHeader
  <2>2. UNCHANGED <<cipherSize, clientVars, number, total, cipher, taken>>
    BY <1>6 DEF ReceiveHeader
  <2>3. step' \in {"closed", "data"} /\ size' \in Nat
    BY <1>1, <1>6, HeaderSizes DEF ReceiveHeader
  <2>. QED BY <1>1, <1>3, <2>1, <2>2, <2>3, TypeServer
<1>7. CASE ReceiveFirst
  <2>. DEFINE payload == Bytes(size)
  <2>1. Recv(size) /\ UNCHANGED <<cipherSize, clientVars, size>>
    BY <1>7 DEF ReceiveFirst
  <2>2. payload \in Seq(Byte)
    BY <1>1, <1>3, <2>1
  <2>3. /\ step' \in {"died", "header", "respond"}
        /\ number' \in 0 .. Modulus - 1 /\ total' \in 0 .. Modulus - 1
        /\ cipher' \in Seq(Byte) /\ taken' \in Seq(0 .. TotalPackets)
    <3>1. CASE Len(payload) < NUMBER_PLACE + 2 * CODE_SIZE
      BY <1>1, <1>7, <3>1 DEF ReceiveFirst, Raise
    <3>2. CASE ~(Len(payload) < NUMBER_PLACE + 2 * CODE_SIZE)
      <4>1. /\ number' = Number(1) /\ total' = Number(TotalPackets)
            /\ Take(payload) /\ LoopTest(number', total')
        BY <1>7, <3>2 DEF ReceiveFirst
      <4>3. cipher' \in Seq(Byte) /\ taken' \in Seq(0 .. TotalPackets)
        BY <1>1, <2>2, <4>1, TakeType
      <4>. QED BY <1>1, <4>1, <4>3, NumberType DEF LoopTest
    <3>. QED BY <3>1, <3>2
  <2>. QED BY <1>1, <1>3, <2>1, <2>3, TypeServer
<1>8. CASE NextHeader
  <2>1. Recv(HEADER_SIZE) /\ HEADER_SIZE \in Nat
    BY <1>8, Constants DEF NextHeader
  <2>2. UNCHANGED <<cipherSize, clientVars, number, total, cipher, taken>>
    BY <1>8 DEF NextHeader
  <2>3. step' \in {"respond", "died", "payload"} /\ size' \in Nat
    BY <1>1, <1>8, HeaderSizes DEF NextHeader
  <2>. QED BY <1>1, <1>3, <2>1, <2>2, <2>3, TypeServer
<1>9. CASE NextPacket
  <2>. DEFINE payload == Bytes(size)
  <2>1. Recv(size) /\ UNCHANGED <<cipherSize, clientVars, size>>
    BY <1>9 DEF NextPacket
  <2>2. payload \in Seq(Byte)
    BY <1>1, <1>3, <2>1
  <2>3. /\ step' \in {"died", "header", "respond"}
        /\ number' \in 0 .. Modulus - 1 /\ total' \in 0 .. Modulus - 1
        /\ cipher' \in Seq(Byte) /\ taken' \in Seq(0 .. TotalPackets)
    <3>1. CASE Len(payload) < NUMBER_PLACE + CODE_SIZE
      BY <1>1, <1>9, <3>1 DEF NextPacket, Raise
    <3>2. CASE ~(Len(payload) < NUMBER_PLACE + CODE_SIZE)
      <4>1. /\ number' \in NumbersIn(payload) /\ total' = total
            /\ Take(payload) /\ LoopTest(number', total)
        BY <1>9, <3>2 DEF NextPacket
      <4>3. cipher' \in Seq(Byte) /\ taken' \in Seq(0 .. TotalPackets)
        BY <1>1, <2>2, <4>1, TakeType
      <4>. QED BY <1>1, <4>1, <4>3, PayloadNumbers DEF LoopTest
    <3>. QED BY <3>1, <3>2
  <2>. QED BY <1>1, <1>3, <2>1, <2>3, TypeServer
<1>10. CASE Respond
  <2>1. /\ step' = "closed"
        /\ UNCHANGED <<cipherSize, clientVars, stream, size, number, total, cipher,
                       taken, short>>
    BY <1>10 DEF Respond
  <2>. QED BY <1>1, <2>1, TypeServer
<1>11. CASE UNCHANGED vars
  <2>1. /\ UNCHANGED <<cipherSize, clientVars, serverVars, stream, short>>
    BY <1>11 DEF vars
  <2>2. UNCHANGED <<step, size, number, total, cipher, taken>>
    BY <2>1 DEF serverVars
  <2>. QED BY <1>1, <2>1, <2>2, TypeServer DEF TypeOK
<1>. QED BY <1>4, <1>5, <1>6, <1>7, <1>8, <1>9, <1>10, <1>11
         DEF Next, ClientNext, ServerNext, Rest, Stuck

-----------------------------------------------------------------------------
(***************************************************************************)
(* The inductive invariant.                                                *)
(***************************************************************************)
LEMMA Progress ==
    ASSUME TypeOK
    PROVE  /\ cipherSize \in CipherSizes /\ TotalPackets \in Nat \ {0}
           /\ PacketSize \in Nat \ {0} /\ HEADER_SIZE \in Nat \ {0}
           /\ stream \in Seq(Byte) /\ Len(stream) \in Nat
           /\ unsent \in Seq(Byte) /\ Len(unsent) \in Nat
           /\ Len(taken) \in Nat /\ Len(taken) * PacketSize \in Nat
           /\ Received \in Nat
<1>1. /\ cipherSize \in CipherSizes /\ TotalPackets \in Nat \ {0}
      /\ PacketSize \in Nat \ {0} /\ HEADER_SIZE \in Nat \ {0}
      /\ stream \in Seq(Byte) /\ unsent \in Seq(Byte)
      /\ taken \in Seq(0 .. TotalPackets)
  BY Packets, Constants DEF TypeOK
<1>2. Len(taken) \in Nat
  BY <1>1
<1>3. Len(taken) * PacketSize \in Nat
  BY <1>1, <1>2, Multiples
<1>. QED BY <1>1, <1>2, <1>3 DEF Received

\* The last packet that the server takes is one of the upload, and its number
\* fits into the field.
LEMMA LastIsThere ==
    ASSUME cipherSize \in CipherSizes
    PROVE  /\ LastPacket \in 1 .. TotalPackets /\ LastPacket < Modulus
           /\ Number(TotalPackets) \in {0, LastPacket}
           /\ Number(TotalPackets) = 0 => LastPacket = 1
<1>1. TotalPackets \in Nat \ {0} /\ Modulus \in Nat \ {0} /\ Modulus >= 2
  BY Packets, Constants
<1>. DEFINE n == TotalPackets
            t == n % Modulus
            q == n \div Modulus
<1>2. t \in 0 .. Modulus - 1 /\ q \in Nat /\ n = Modulus * q + t
  BY <1>1, Division
<1>3. Modulus * q \in Nat
  <2>. HIDE DEF q
  <2>. QED BY <1>1, <1>2, Multiples
<1>4. Number(n) = t
  BY DEF Number
<1>5. LastPacket = IF t = 0 THEN 1 ELSE t
  BY <1>4 DEF LastPacket
<1>. HIDE DEF n, t, q
<1>6. t <= n /\ n \in Nat \ {0}
  <2>1. n \in Nat \ {0}
    BY <1>1 DEF n
  <2>. QED BY <1>2, <1>3, <2>1
<1>7. /\ LastPacket \in 1 .. n /\ LastPacket < Modulus
      /\ t \in {0, LastPacket} /\ (t = 0 => LastPacket = 1)
  BY <1>1, <1>2, <1>5, <1>6
<1>. QED BY <1>4, <1>7 DEF n

LEMMA MessageFollows ==
    ASSUME cipherSize \in CipherSizes, NEW p \in 1 .. TotalPackets
    PROVE  /\ Follow(Message(p), (p - 1) * PacketSize)
           /\ Message(p) # << >>
<1>. DEFINE n == HEADER_SIZE + PayloadOf(p)
<1>1. /\ Len(Message(p)) = n /\ Len(Message(p)) \in 1 .. PacketSize
      /\ \A i \in 1 .. n : Message(p)[i] = <<p, i>>
  BY MessageType
<1>. HIDE DEF n
<1>2. ASSUME NEW i \in 1 .. n PROVE Place(Message(p)[i]) = (p - 1) * PacketSize + i
  BY <1>1 DEF Place
<1>. QED BY <1>1, <1>2 DEF Follow

LEMMA UploadInit == Init => UploadInv
<1>. SUFFICES ASSUME Init PROVE UploadInv
  OBVIOUS
<1>1. TypeOK /\ cipherSize \in CipherSizes /\ TotalPackets \in Nat \ {0}
  BY TypeInit, Packets DEF TypeOK
<1>2. 1 \in 1 .. TotalPackets /\ PacketSize \in Nat /\ MESSAGE_CONTENT_SIZE \in Nat
      /\ cipherSize \in Nat \ {0}
  BY <1>1, Constants, CipherSizePositive
<1>3. /\ Follow(Message(1), (1 - 1) * PacketSize) /\ Message(1) # << >>
      /\ Message(1) \in Seq(Byte)
  BY <1>1, <1>2, MessageFollows, MessageType
<1>4. (1 - 1) * PacketSize = 0 /\ Len(taken) = 0 /\ 0 * PacketSize = 0
      /\ Len(stream) = 0 /\ 0 * MESSAGE_CONTENT_SIZE = 0
  BY <1>2 DEF Init
<1>5. Received = 0
  BY <1>4 DEF Received, Init
<1>6. StreamFollows
  <2>1. Follow(stream, 0)
    BY <1>4 DEF Follow
  <2>2. Follow(unsent, 0) /\ unsent # << >>
    BY <1>3, <1>4 DEF Init
  <2>3. Len(unsent) = Len(Message(packet)) /\ Len(unsent) \in Nat
        /\ (packet - 1) * PacketSize = 0 /\ 0 + Len(stream) = 0
    BY <1>3, <1>4 DEF Init
  <2>. QED BY <1>5, <2>1, <2>2, <2>3 DEF StreamFollows
<1>7. CountsMatch
  BY DEF CountsMatch, Init
<1>8. CipherHasContents
  <2>1. Smaller(cipherSize, 0) = 0 /\ Len(cipher) = 0
    BY <1>2 DEF Smaller, Init
  <2>. QED BY <1>4, <2>1 DEF CipherHasContents
<1>. QED BY <1>1, <1>6, <1>7, <1>8 DEF UploadInv

\* What the server does not do leaves its part of the invariant alone.
LEMMA SameServer ==
    ASSUME UploadInv, UNCHANGED <<cipherSize, serverVars, short>>,
           client = "killed" => client' = "killed",
           client' = "done" => client = "done" \/ Ended
    PROVE  CountsMatch' /\ CipherHasContents' /\ Received' = Received
           /\ Receiving' = Receiving
<1>1. UNCHANGED <<cipherSize, step, size, number, total, cipher, taken, short>>
  BY DEF serverVars
<1>2. /\ TotalPackets' = TotalPackets /\ LastPacket' = LastPacket
      /\ \A p : ContentOf(p)' = ContentOf(p) /\ PayloadOf(p)' = PayloadOf(p)
  BY <1>1, SameUpload
<1>3. CountsMatch'
  BY <1>1, <1>2 DEF UploadInv, CountsMatch, Ended
<1>4. CipherHasContents'
  BY <1>1, <1>2 DEF UploadInv, CipherHasContents
<1>5. Received' = Received
  BY <1>1 DEF Received
<1>6. Receiving' = Receiving
  BY <1>1 DEF Receiving
<1>. QED BY <1>3, <1>4, <1>5, <1>6

\* What the client does leaves the server's variables alone.
LEMMA ClientMoves ==
    ASSUME Write \/ Finish \/ Killed
    PROVE  /\ UNCHANGED <<cipherSize, serverVars, short>>
           /\ client = "killed" => client' = "killed"
           /\ client' = "done" => client = "done" \/ Ended
<1>1. CASE Write
  <2>1. client = "write" /\ UNCHANGED <<cipherSize, serverVars, short>>
    BY <1>1 DEF Write
  <2>2. client' \in {"write", "read"}
    BY <1>1, <2>1 DEF Write, AfterPacket
  <2>. QED BY <2>1, <2>2
<1>2. CASE Finish \/ Killed
  BY <1>2 DEF Finish, Killed, Gone
<1>. QED BY <1>1, <1>2

\* A write() moves the first bytes that are left of the packet to the end of the
\* stream; behind the last one comes the next packet.
LEMMA WriteFollows ==
    ASSUME UploadInv, Write
    PROVE  StreamFollows'
<1>. SUFFICES ASSUME Receiving' PROVE StreamFollows'
  BY DEF StreamFollows
<1>1. TypeOK /\ StreamFollows /\ UNCHANGED <<cipherSize, serverVars, short>>
      /\ client = "write"
  BY DEF UploadInv, Write
<1>2. Receiving /\ Received' = Received
  BY SameServer, ClientMoves
<1>. DEFINE r == Received
            k == Len(stream)
            m == Len(unsent)
<1>3. /\ cipherSize \in CipherSizes /\ TotalPackets \in Nat \ {0}
      /\ PacketSize \in Nat \ {0} /\ packet \in 1 .. TotalPackets
      /\ stream \in Seq(Byte) /\ unsent \in Seq(Byte)
      /\ r \in Nat /\ k \in Nat /\ m \in Nat /\ Window \in Nat /\ k <= Window
  BY <1>1, Progress, Constants DEF TypeOK
<1>4. /\ Follow(stream, r) /\ Follow(unsent, r + k)
      /\ r + k + m = (packet - 1) * PacketSize + Len(Message(packet))
  BY <1>1, <1>2 DEF StreamFollows
<1>5. PICK n \in 1 .. Smaller(Len(unsent), Window - Len(stream)) :
         /\ stream' = stream \o SubSeq(unsent, 1, n)
         /\ IF n < Len(unsent)
            THEN /\ unsent' = SubSeq(unsent, n + 1, Len(unsent))
                 /\ UNCHANGED <<client, packet>>
            ELSE AfterPacket
  BY DEF Write
<1>6. n \in 1 .. m
  BY <1>3, <1>5 DEF Smaller
<1>7. /\ SubSeq(unsent, 1, n) \in Seq(Byte) /\ Len(SubSeq(unsent, 1, n)) = n
      /\ \A i \in 1 .. n : SubSeq(unsent, 1, n)[i] = unsent[i]
  BY <1>3, <1>6
<1>8. /\ Len(stream') = k + n
      /\ \A i \in 1 .. k : stream'[i] = stream[i]
      /\ \A i \in k + 1 .. k + n : stream'[i] = unsent[i - k]
  <2>. DEFINE part == SubSeq(unsent, 1, n)
  <2>1. part \in Seq(Byte) /\ Len(part) = n /\ \A i \in 1 .. n : part[i] = unsent[i]
    BY <1>7
  <2>2. stream' = stream \o part
    BY <1>5
  <2>. HIDE DEF part
  <2>3. /\ Len(stream') = k + n
        /\ \A i \in 1 .. k : stream'[i] = stream[i]
        /\ \A i \in k + 1 .. k + n : stream'[i] = part[i - k]
    <3>1. /\ Len(stream \o part) = Len(stream) + Len(part)
          /\ \A i \in 1 .. Len(stream) + Len(part) :
                (stream \o part)[i] = IF i <= Len(stream) THEN stream[i]
                                     ELSE part[i - Len(stream)]
      BY <1>3, <2>1, ConcatProperties
    <3>2. k = Len(stream)
      OBVIOUS
    <3>. HIDE DEF k
    <3>3. \A i \in 1 .. k : i \in 1 .. k + n /\ i <= k
      BY <1>3, <1>6
    <3>4. \A i \in k + 1 .. k + n : i \in 1 .. k + n /\ ~(i <= k)
      BY <1>3, <1>6
    <3>. QED BY <2>1, <2>2, <3>1, <3>2, <3>3, <3>4
  <2>4. \A i \in k + 1 .. k + n : i - k \in 1 .. n
    BY <1>3, <1>6
  <2>. QED BY <2>1, <2>3, <2>4
<1>. HIDE DEF r, k, m
<1>9. Follow(stream', r)
  <2>. SUFFICES ASSUME NEW i \in 1 .. k + n PROVE Place(stream'[i]) = r + i
    BY <1>8 DEF Follow
  <2>1. CASE i \in 1 .. k
    BY <1>4, <1>8, <2>1 DEF Follow, k
  <2>2. CASE i \in k + 1 .. k + n
    <3>1. i - k \in 1 .. m /\ r + k + (i - k) = r + i
      BY <1>3, <1>6, <2>2
    <3>2. Place(unsent[i - k]) = r + k + (i - k)
      BY <1>4, <3>1 DEF Follow, m
    <3>. QED BY <1>8, <2>2, <3>1, <3>2
  <2>. QED BY <1>3, <1>6, <2>1, <2>2
<1>10. client' = "write" =>
          /\ unsent' # << >>
          /\ Follow(unsent', r + Len(stream'))
          /\ r + Len(stream') + Len(unsent')
                = (packet' - 1) * PacketSize + Len(Message(packet)')
  <2>1. CASE n < m
    <3>. DEFINE rest == SubSeq(unsent, n + 1, m)
    <3>1. unsent' = rest /\ packet' = packet /\ Message(packet)' = Message(packet)
      BY <1>1, <1>5, <2>1 DEF m, Message, Slice, PayloadOf, ContentOf, Smaller
    <3>2. /\ rest \in Seq(Byte) /\ Len(rest) = m - n
          /\ \A i \in 1 .. m - n : rest[i] = unsent[n + i]
      BY <1>3, <1>6, <2>1 DEF m
    <3>. HIDE DEF rest
    <3>3. rest # << >>
      BY <1>3, <1>6, <2>1, <3>2
    <3>4. Follow(rest, r + Len(stream'))
      <4>. SUFFICES ASSUME NEW i \in 1 .. m - n
                    PROVE  Place(rest[i]) = r + Len(stream') + i
        BY <3>2 DEF Follow
      <4>1. n + i \in 1 .. m /\ r + k + (n + i) = r + (k + n) + i
        BY <1>3, <1>6, <2>1
      <4>2. Place(unsent[n + i]) = r + k + (n + i)
        BY <1>4, <4>1 DEF Follow, m
      <4>. QED BY <1>8, <3>2, <4>1, <4>2
    <3>5. r + Len(stream') + Len(rest) = r + k + m
      BY <1>3, <1>6, <1>8, <3>2
    <3>. QED BY <1>4, <3>1, <3>3, <3>4, <3>5
  <2>2. CASE ~(n < m) /\ packet < TotalPackets
    <3>1. packet' = packet + 1 /\ unsent' = Message(packet + 1)
      BY <1>5, <2>2 DEF AfterPacket, m
    <3>2. /\ packet \in Nat \ {0} /\ packet + 1 \in 1 .. TotalPackets
          /\ (packet + 1) - 1 = packet /\ packet - 1 \in Nat
          /\ packet - 1 + 1 = packet /\ n = m
      BY <1>3, <1>6, <2>2
    <3>3. Len(Message(packet)) = PacketSize
      BY <1>3, <2>2, MessageType
    <3>4. packet * PacketSize = (packet - 1) * PacketSize + PacketSize
      BY <1>3, <3>2, Multiples
    <3>5. r + Len(stream') = packet * PacketSize
      BY <1>3, <1>4, <1>8, <3>2, <3>3, <3>4
    <3>6. Message(packet)' = Message(packet + 1)
      BY <1>1, <3>1 DEF Message, Slice, PayloadOf, ContentOf, Smaller
    <3>7. /\ Follow(Message(packet + 1), ((packet + 1) - 1) * PacketSize)
          /\ Message(packet + 1) # << >>
      BY <1>3, <3>2, MessageFollows
    <3>. QED BY <3>1, <3>2, <3>5, <3>6, <3>7
  <2>3. CASE ~(n < m) /\ ~(packet < TotalPackets)
    BY <1>5, <2>3 DEF AfterPacket, m
  <2>. QED BY <2>1, <2>2, <2>3
<1>. QED BY <1>2, <1>9, <1>10 DEF StreamFollows, r

LEMMA EndFollows ==
    ASSUME UploadInv, Finish \/ Killed
    PROVE  StreamFollows'
<1>1. /\ client' # "write"
      /\ UNCHANGED <<cipherSize, packet, unsent, stream, serverVars, short>>
  BY DEF Finish, Killed
<1>2. Received' = Received /\ Receiving' = Receiving
  BY SameServer, ClientMoves
<1>. QED BY <1>1, <1>2 DEF UploadInv, StreamFollows, Follow, Place

\* A recv() that is not short takes the next bytes of the upload.
LEMMA RecvFollows ==
    ASSUME UploadInv, NEW n \in Nat, Recv(n), ~short', ~EndsHere, Receiving,
           UNCHANGED <<cipherSize, clientVars>>
    PROVE  /\ Bytes(n) \in Seq(Byte) /\ Len(Bytes(n)) = n
           /\ Follow(Bytes(n), Received)
           /\ Received' = Received + n => StreamFollows'
<1>. DEFINE r == Received
            k == Len(stream)
<1>1. /\ stream \in Seq(Byte) /\ r \in Nat /\ k \in Nat /\ unsent \in Seq(Byte)
      /\ Len(unsent) \in Nat
  BY Progress DEF UploadInv
<1>2. /\ n <= Len(stream) /\ Len(Bytes(n)) = n /\ Bytes(n) \in Seq(Byte)
      /\ \A i \in 1 .. n : Bytes(n)[i] = stream[i]
      /\ Len(stream') = Len(stream) - n
      /\ \A i \in 1 .. Len(stream') : stream'[i] = stream[n + i]
  BY <1>1, RecvBytes
<1>3. Follow(stream, r)
  BY DEF UploadInv, StreamFollows
<1>4. Follow(Bytes(n), r)
  <2>1. \A i \in 1 .. n : i \in 1 .. k
    BY <1>1, <1>2
  <2>2. \A i \in 1 .. n : Place(Bytes(n)[i]) = r + i
    BY <1>2, <1>3, <2>1 DEF Follow
  <2>. QED BY <1>2, <2>2 DEF Follow
<1>5. ASSUME Received' = r + n PROVE StreamFollows'
  <2>. DEFINE q == Received'
  <2>1. Follow(stream', q)
    <3>. SUFFICES ASSUME NEW i \in 1 .. Len(stream') PROVE Place(stream'[i]) = q + i
      BY DEF Follow
    <3>1. n + i \in 1 .. k /\ r + (n + i) = r + n + i
      BY <1>1, <1>2
    <3>2. Place(stream[n + i]) = r + (n + i)
      BY <1>3, <3>1 DEF Follow
    <3>. QED BY <1>2, <1>5, <3>1, <3>2
  <2>2. q + Len(stream') = r + k
    BY <1>1, <1>2, <1>5
  <2>3. UNCHANGED <<client, packet, unsent>> /\ Message(packet)' = Message(packet)
    BY DEF clientVars, Message, Slice, PayloadOf, ContentOf, Smaller
  <2>4. client = "write" =>
           /\ unsent # << >>
           /\ Follow(unsent, r + k)
           /\ r + k + Len(unsent) = (packet - 1) * PacketSize + Len(Message(packet))
    BY DEF UploadInv, StreamFollows
  <2>. HIDE DEF q, r, k
  <2>5. client' = "write" =>
           /\ unsent' # << >>
           /\ Follow(unsent', q + Len(stream'))
           /\ q + Len(stream') + Len(unsent')
                 = (packet' - 1) * PacketSize + Len(Message(packet)')
    BY <2>2, <2>3, <2>4
  <2>. QED BY <2>1, <2>5 DEF StreamFollows, q
<1>. QED BY <1>2, <1>4, <1>5

\* A header that is read whole is that of the packet which is next.
LEMMA HeaderFollows ==
    ASSUME UploadInv, Recv(HEADER_SIZE), ~short', ~EndsHere, Receiving,
           step \in {"accept", "header"},
           UNCHANGED <<cipherSize, clientVars, taken>>
    PROVE  /\ Len(Bytes(HEADER_SIZE)) = HEADER_SIZE
           /\ Len(taken) < TotalPackets
           /\ SizesIn(Bytes(HEADER_SIZE)) = {PayloadOf(Len(taken) + 1)}
           /\ step' \in {"data", "payload"} => StreamFollows'
<1>. DEFINE n == Len(taken)
            header == Bytes(HEADER_SIZE)
<1>1. /\ cipherSize \in CipherSizes /\ HEADER_SIZE \in Nat \ {0}
      /\ TotalPackets \in Nat /\ n \in Nat /\ n * PacketSize \in Nat
      /\ HEADER_SIZE <= PacketSize /\ PacketSize \in Nat
  BY Progress, Constants DEF UploadInv
<1>2. Received = n * PacketSize + 0
  BY <1>1 DEF Received
<1>3. /\ header \in Seq(Byte) /\ Len(header) = HEADER_SIZE
      /\ Follow(header, Received)
      /\ Received' = Received + HEADER_SIZE => StreamFollows'
  <2>1. UNCHANGED <<cipherSize, clientVars>> /\ HEADER_SIZE \in Nat
    BY <1>1
  <2>. QED BY <2>1, RecvFollows
<1>. HIDE DEF n, header
<1>4. /\ n + 1 \in 1 .. TotalPackets
      /\ header = Slice(n + 1, 0 + 1, 0 + Len(header))
  <2>1. 0 + Len(header) <= PacketSize /\ Len(header) > 0 /\ 0 \in Nat
    BY <1>1, <1>3
  <2>. QED BY <1>1, <1>2, <1>3, <2>1, FollowSlice
<1>5. n < TotalPackets
  BY <1>1, <1>4
<1>6. header = Slice(n + 1, 1, HEADER_SIZE)
  <2>1. 0 + 1 = 1 /\ 0 + HEADER_SIZE = HEADER_SIZE
    BY <1>1
  <2>. QED BY <1>3, <1>4, <2>1
<1>7. SizesIn(header) = {PayloadOf(n + 1)}
  BY <1>1, <1>4, <1>6, HeaderRead
<1>8. step' \in {"data", "payload"} => Received' = Received + HEADER_SIZE
  BY <1>1, <1>2 DEF Received, n
<1>. QED BY <1>3, <1>5, <1>7, <1>8 DEF n, header

\* A payload that is read whole is that of the packet which is next, and its
\* content is appended to the cipher.
LEMMA PayloadFollows ==
    ASSUME UploadInv, Recv(size), ~short', Receiving,
           step \in {"data", "payload"},
           UNCHANGED <<cipherSize, clientVars>>
    PROVE  /\ Len(taken) + 1 \in 1 .. TotalPackets
           /\ Len(Bytes(size)) >= NUMBER_PLACE + 2 * CODE_SIZE
           /\ NumbersIn(Bytes(size)) = {Number(Len(taken) + 1)}
           /\ Take(Bytes(size)) =>
                 /\ cipher' = cipher \o Content(Len(taken) + 1)
                 /\ taken' = Append(taken, Len(taken) + 1)
           /\ Len(taken') = Len(taken) + 1 /\ Len(taken) + 1 < TotalPackets
                 /\ step' = "header" => StreamFollows'
<1>. DEFINE n == Len(taken)
            p == n + 1
            payload == Bytes(size)
<1>1. /\ cipherSize \in CipherSizes /\ HEADER_SIZE \in Nat \ {0}
      /\ TotalPackets \in Nat /\ n \in Nat /\ n * PacketSize \in Nat
      /\ PacketSize \in Nat \ {0} /\ size \in Nat /\ ~EndsHere
  BY Progress DEF UploadInv, TypeOK, EndsHere
<1>2. size = PayloadOf(p) /\ n < TotalPackets
  BY DEF UploadInv, CountsMatch, Receiving
<1>3. p \in 1 .. TotalPackets
  BY <1>1, <1>2
<1>4. Received = n * PacketSize + HEADER_SIZE
  BY DEF Received
<1>5. /\ payload \in Seq(Byte) /\ Len(payload) = size
      /\ Follow(payload, Received)
      /\ Received' = Received + size => StreamFollows'
  BY <1>1, RecvFollows
<1>. HIDE DEF p, payload
<1>6. /\ PayloadOf(p) \in Nat \ {0}
      /\ HEADER_SIZE + PayloadOf(p) <= PacketSize
      /\ p < TotalPackets => HEADER_SIZE + PayloadOf(p) = PacketSize
  BY <1>1, <1>3, MessageType
<1>. HIDE DEF n
<1>7. payload = Slice(n + 1, HEADER_SIZE + 1, HEADER_SIZE + Len(payload))
  <2>1. HEADER_SIZE + Len(payload) <= PacketSize /\ Len(payload) > 0
        /\ HEADER_SIZE \in Nat
    BY <1>1, <1>2, <1>5, <1>6
  <2>. QED BY <1>1, <1>4, <1>5, <2>1, FollowSlice
<1>8. payload = Slice(p, HEADER_SIZE + 1, HEADER_SIZE + PayloadOf(p))
  BY <1>2, <1>5, <1>7 DEF p
<1>9. /\ Len(payload) >= NUMBER_PLACE + 2 * CODE_SIZE
      /\ NumbersIn(payload) = {Number(p)}
      /\ WholePacket(payload) = {p}
      /\ SubSeq(payload, FixedSize + 1, Len(payload)) = Content(p)
  BY <1>1, <1>3, <1>8, PayloadRead
<1>10. Take(payload) => cipher' = cipher \o Content(p) /\ taken' = Append(taken, p)
  <2>1. WholePacket(payload) # {} /\ ~short'
    BY <1>9
  <2>. QED BY <1>9, <2>1 DEF Take, Record
<1>11. ASSUME Len(taken') = p, p < TotalPackets, step' = "header"
       PROVE  Received' = Received + size
  <2>1. Received' = p * PacketSize + 0
    BY <1>11 DEF Received
  <2>2. p * PacketSize = n * PacketSize + PacketSize
    BY <1>1, Multiples DEF p
  <2>3. HEADER_SIZE + size = PacketSize
    BY <1>2, <1>6, <1>11
  <2>. DEFINE a == n * PacketSize
              b == p * PacketSize
  <2>4. a \in Nat /\ b = a + PacketSize /\ Received = a + HEADER_SIZE /\ Received' = b + 0
    BY <1>1, <1>4, <2>1, <2>2
  <2>. HIDE DEF a, b
  <2>. QED BY <1>1, <2>3, <2>4
<1>. QED BY <1>3, <1>5, <1>9, <1>10, <1>11 DEF p, n, payload

LEMMA ContentType ==
    ASSUME cipherSize \in CipherSizes, NEW p \in 1 .. TotalPackets
    PROVE  /\ Content(p) \in Seq(Byte) /\ Len(Content(p)) = ContentOf(p)
           /\ \A i \in 1 .. ContentOf(p) :
                 Content(p)[i] = <<p, HEADER_SIZE + FixedSize + i>>
<1>. DEFINE first == HEADER_SIZE + FixedSize + 1
            last  == HEADER_SIZE + PayloadOf(p)
            n     == ContentOf(p)
<1>1. /\ HEADER_SIZE \in Nat \ {0} /\ FixedSize \in Nat
      /\ MESSAGE_CONTENT_SIZE \in Nat
      /\ PacketSize = HEADER_SIZE + FixedSize + MESSAGE_CONTENT_SIZE
  BY Constants
<1>2. n \in 1 .. MESSAGE_CONTENT_SIZE /\ PayloadOf(p) = FixedSize + n
  BY ContentSizes, MessageType
<1>. HIDE DEF n
<1>3. /\ first \in Nat \ {0} /\ last \in Nat /\ first <= last + 1
      /\ last <= PacketSize /\ last - first + 1 = n
      /\ \A i \in 1 .. n : first + i - 1 = HEADER_SIZE + FixedSize + i
  BY <1>1, <1>2
<1>4. Content(p) = Slice(p, first, last)
  BY DEF Content
<1>. HIDE DEF first, last
<1>5. /\ Slice(p, first, last) \in Seq(Byte)
      /\ Len(Slice(p, first, last)) = last - first + 1
      /\ \A i \in 1 .. last - first + 1 :
            Slice(p, first, last)[i] = <<p, first + i - 1>>
  BY <1>3, SliceOf
<1>. QED BY <1>3, <1>4, <1>5 DEF n

\* The content of the next packet behind those of the ones before.
LEMMA ContentAppended ==
    ASSUME TypeOK, CipherHasContents, ~short, UNCHANGED cipherSize,
           Len(taken) + 1 \in 1 .. TotalPackets,
           Len(taken') = Len(taken) + 1,
           cipher' = cipher \o Content(Len(taken) + 1)
    PROVE  CipherHasContents'
<1>. DEFINE n == Len(taken)
            p == n + 1
            M == MESSAGE_CONTENT_SIZE
            c == ContentOf(p)
            H == HEADER_SIZE + FixedSize
<1>1. /\ cipherSize \in CipherSizes /\ cipherSize \in Nat \ {0}
      /\ n \in Nat /\ M \in Nat \ {0} /\ n * M \in Nat
      /\ cipher \in Seq(Byte) /\ Len(cipher) \in Nat
      /\ (n + 1) - 1 = n /\ H \in Nat
  BY Progress, CipherSizePositive, Constants, Multiples DEF TypeOK
<1>2. /\ Len(cipher) = Smaller(cipherSize, n * M)
      /\ \A q \in 1 .. n : \A i \in 1 .. ContentOf(q) :
            cipher[(q - 1) * M + i] = <<q, H + i>>
  BY DEF CipherHasContents
<1>3. c \in 1 .. M /\ n * M + c = Smaller(cipherSize, p * M)
  BY <1>1, ContentSizes
<1>4. Content(p) \in Seq(Byte) /\ Len(Content(p)) = c
      /\ \A i \in 1 .. c : Content(p)[i] = <<p, H + i>>
  BY <1>1, ContentType
<1>5. p * M = n * M + M
  BY <1>1, Multiples
<1>6. \A q \in 1 .. n : ContentOf(q) \in 1 .. M /\ (q - 1) * M \in Nat
                        /\ (q - 1) * M + M <= n * M
  <2>. TAKE q \in 1 .. n
  <2>1. q \in 1 .. TotalPackets /\ q \in Nat /\ q - 1 \in Nat /\ q - 1 < n
        /\ TotalPackets \in Nat
    BY <1>1, Packets
  <2>. QED BY <1>1, <2>1, ContentSizes, Multiples
<1>. DEFINE content == Content(p)
            nm == n * M
<1>7. cipher' = cipher \o content
  OBVIOUS
<1>8. \A q : ContentOf(q)' = ContentOf(q)
  BY SameUpload
<1>9. /\ Len(cipher \o content) = Len(cipher) + Len(content)
      /\ \A i \in 1 .. Len(cipher) + Len(content) :
            (cipher \o content)[i] = IF i <= Len(cipher) THEN cipher[i]
                                     ELSE content[i - Len(cipher)]
  BY <1>1, <1>4, ConcatProperties
<1>. HIDE DEF n, p, M, c, H, content
<1>10. Len(cipher) = nm /\ nm \in Nat
  <2>. HIDE DEF nm
  <2>1. nm \in Nat /\ nm + c <= cipherSize /\ c \in Nat
    BY <1>1, <1>3 DEF Smaller, nm
  <2>2. Len(cipher) = Smaller(cipherSize, nm)
    BY <1>2 DEF nm
  <2>. QED BY <1>1, <2>1, <2>2 DEF Smaller
<1>11. Len(cipher') = Smaller(cipherSize, p * M)
  <2>1. Len(content) = c
    BY <1>4 DEF content
  <2>. QED BY <1>3, <1>7, <1>9, <1>10, <2>1 DEF nm
<1>12. ASSUME NEW q \in 1 .. p, NEW i \in 1 .. ContentOf(q)
       PROVE  cipher'[(q - 1) * M + i] = <<q, H + i>>
  <2>1. CASE q = p
    <3>1. i \in 1 .. c /\ q - 1 = n
      BY <1>1, <2>1 DEF c, p
    <3>2. /\ nm + i \in 1 .. nm + c /\ ~(nm + i <= nm) /\ nm + i - nm = i
          /\ c \in Nat
      BY <1>3, <1>10, <3>1
    <3>3. Len(content) = c /\ content[i] = <<p, H + i>>
      BY <1>4, <3>1 DEF content
    <3>. HIDE DEF nm
    <3>4. (cipher \o content)[nm + i] = content[i]
      BY <1>9, <1>10, <3>2, <3>3
    <3>5. (q - 1) * M + i = nm + i
      BY <3>1 DEF nm
    <3>. QED BY <1>7, <2>1, <3>3, <3>4, <3>5
  <2>2. CASE q # p
    <3>1. q \in 1 .. n
      BY <1>1, <2>2 DEF p
    <3>. DEFINE at == (q - 1) * M + i
    <3>2. at \in 1 .. nm
      <4>. DEFINE b == (q - 1) * M
      <4>1. b \in Nat /\ b + M <= nm /\ i \in 1 .. M
        BY <1>1, <1>6, <3>1
      <4>. HIDE DEF b, nm
      <4>. QED BY <1>1, <1>10, <4>1 DEF b
    <3>. HIDE DEF at, nm
    <3>3. Len(content) \in Nat
      BY <1>3, <1>4 DEF content
    <3>4. at \in 1 .. Len(cipher) + Len(content) /\ at <= Len(cipher)
      BY <1>10, <3>2, <3>3
    <3>5. cipher'[at] = cipher[at]
      BY <1>7, <1>9, <3>4
    <3>. QED BY <1>2, <3>1, <3>5 DEF at
  <2>. QED BY <2>1, <2>2
<1>13. Len(taken') = p
  BY DEF p, n
<1>. QED BY <1>8, <1>11, <1>12, <1>13 DEF CipherHasContents, M, H, p

\* The loop goes on until the last packet was taken.
LEMMA LoopEnds ==
    ASSUME cipherSize \in CipherSizes, NEW p \in 1 .. LastPacket
    PROVE  /\ Number(p) = p
           /\ p < Number(TotalPackets) => p \in 1 .. LastPacket - 1
                                          /\ p < TotalPackets
           /\ ~(p < Number(TotalPackets)) => p = LastPacket
<1>1. /\ LastPacket \in 1 .. TotalPackets /\ LastPacket < Modulus
      /\ Number(TotalPackets) \in {0, LastPacket}
      /\ Number(TotalPackets) = 0 => LastPacket = 1
      /\ TotalPackets \in Nat /\ Modulus \in Nat
  BY LastIsThere, Packets, Constants
<1>2. p \in Nat /\ LastPacket \in Nat /\ p < Modulus
  BY <1>1
<1>3. Number(p) = p
  BY <1>2, NumberType
<1>. QED BY <1>1, <1>2, <1>3

\* Behind a short recv() nothing is claimed.
LEMMA ShortRecv ==
    ASSUME short'
    PROVE  StreamFollows' /\ CountsMatch' /\ CipherHasContents'
BY DEF StreamFollows, Receiving, CountsMatch, CipherHasContents

\* Where the stream ends, the loop ends with the packets taken so far.
LEMMA HeaderEnds ==
    ASSUME UploadInv, ReceiveHeader \/ NextHeader, EndsHere
    PROVE  StreamFollows' /\ CountsMatch' /\ CipherHasContents'
<1>1. /\ Recv(HEADER_SIZE)
      /\ UNCHANGED <<cipherSize, clientVars, number, total, cipher, taken>>
  BY DEF ReceiveHeader, NextHeader
<1>2. /\ TypeOK /\ CountsMatch /\ CipherHasContents /\ HEADER_SIZE \in Nat \ {0}
      /\ stream \in Seq(Byte) /\ short \in BOOLEAN
  BY Constants DEF UploadInv, TypeOK
<1>3. Bytes(HEADER_SIZE) = << >> /\ Gone /\ (short' = short)
  BY <1>1, <1>2, RecvNothing
<1>4. Len(Bytes(HEADER_SIZE)) = 0 /\ 0 < HEADER_SIZE /\ ~(0 \in 1 .. HEADER_SIZE - 1)
      /\ 0 # HEADER_SIZE
  BY <1>2, <1>3
<1>5. \/ step = "accept" /\ step' = "closed"
      \/ step = "header" /\ step' = "respond"
  BY <1>3, <1>4 DEF ReceiveHeader, NextHeader
<1>. SUFFICES ASSUME ~short'
              PROVE  StreamFollows' /\ CountsMatch' /\ CipherHasContents'
  BY ShortRecv
<1>6. /\ TotalPackets' = TotalPackets /\ LastPacket' = LastPacket
      /\ \A p : ContentOf(p)' = ContentOf(p) /\ PayloadOf(p)' = PayloadOf(p)
  BY <1>1, SameUpload
<1>7. StreamFollows'
  BY <1>5 DEF StreamFollows, Receiving
<1>8. step = "header" => client' = "killed"
  BY <1>1, <1>2, <1>3 DEF CountsMatch, Gone, clientVars
<1>9. step = "header" => Len(taken) \in 1 .. LastPacket
  <2>1. LastPacket \in Nat
    <3>1. LastPacket \in 1 .. TotalPackets /\ TotalPackets \in Nat
      BY <1>2, LastIsThere, Packets DEF TypeOK
    <3>. QED BY <3>1
  <2>. QED BY <1>2, <1>3, <2>1 DEF CountsMatch
<1>10. CountsMatch'
  BY <1>1, <1>2, <1>3, <1>5, <1>6, <1>8, <1>9 DEF CountsMatch, clientVars
<1>11. CipherHasContents'
  BY <1>1, <1>2, <1>3, <1>6 DEF CipherHasContents
<1>. QED BY <1>7, <1>10, <1>11

LEMMA HeaderStep ==
    ASSUME UploadInv, ReceiveHeader \/ NextHeader, ~EndsHere
    PROVE  StreamFollows' /\ CountsMatch' /\ CipherHasContents'
<1>1. /\ Recv(HEADER_SIZE) /\ step \in {"accept", "header"}
      /\ UNCHANGED <<cipherSize, clientVars, number, total, cipher, taken>>
  BY DEF ReceiveHeader, NextHeader
<1>2. TypeOK /\ CountsMatch /\ CipherHasContents /\ HEADER_SIZE \in Nat \ {0}
  BY Constants DEF UploadInv
<1>. SUFFICES ASSUME ~short'
              PROVE  StreamFollows' /\ CountsMatch' /\ CipherHasContents'
  BY ShortRecv
<1>3. ~short /\ Receiving
  <2>1. ~short
    BY <1>1 DEF Recv
  <2>. QED BY <1>1, <2>1 DEF Receiving
<1>4. /\ Len(Bytes(HEADER_SIZE)) = HEADER_SIZE
      /\ Len(taken) < TotalPackets
      /\ SizesIn(Bytes(HEADER_SIZE)) = {PayloadOf(Len(taken) + 1)}
      /\ step' \in {"data", "payload"} => StreamFollows'
  BY <1>1, <1>3, HeaderFollows
<1>. DEFINE header == Bytes(HEADER_SIZE)
            n == PayloadOf(Len(taken) + 1)
<1>5. /\ step' = (IF step = "accept" THEN "data" ELSE "payload")
      /\ size' = n
  <2>1. CASE ReceiveHeader
    <3>1. ~(Len(header) < HEADER_SIZE)
      BY <1>2, <1>4
    <3>2. step = "accept" /\ step' = "data" /\ size' \in SizesIn(header)
      BY <2>1, <3>1 DEF ReceiveHeader
    <3>. QED BY <1>4, <3>2
  <2>2. CASE NextHeader
    <3>1. header # << >> /\ ~(Len(header) \in 1 .. HEADER_SIZE - 1)
      BY <1>2, <1>4
    <3>2. step = "header" /\ step' = "payload" /\ size' \in SizesIn(header)
      BY <2>2, <3>1 DEF NextHeader
    <3>. QED BY <1>4, <3>2
  <2>. QED BY <2>1, <2>2
<1>6. /\ TotalPackets' = TotalPackets /\ LastPacket' = LastPacket
      /\ \A p : ContentOf(p)' = ContentOf(p) /\ PayloadOf(p)' = PayloadOf(p)
  BY <1>1, SameUpload
<1>7. StreamFollows'
  BY <1>4, <1>5
<1>8. CountsMatch'
  <2>1. UNCHANGED <<number, total, taken>>
    BY <1>1
  <2>2. size' = PayloadOf(Len(taken) + 1)'
    BY <1>5, <1>6, <2>1
  <2>. QED BY <1>1, <1>2, <1>3, <1>4, <1>5, <1>6, <2>1, <2>2
           DEF CountsMatch, clientVars
<1>9. CipherHasContents'
  BY <1>1, <1>2, <1>3, <1>6 DEF CipherHasContents
<1>. QED BY <1>7, <1>8, <1>9

LEMMA PayloadStep ==
    ASSUME UploadInv, ReceiveFirst \/ NextPacket
    PROVE  StreamFollows' /\ CountsMatch' /\ CipherHasContents'
<1>. DEFINE payload == Bytes(size)
            p == Len(taken) + 1
<1>1. /\ Recv(size) /\ step \in {"data", "payload"}
      /\ UNCHANGED <<cipherSize, clientVars, size>>
  BY DEF ReceiveFirst, NextPacket
<1>2. TypeOK /\ CountsMatch /\ CipherHasContents
      /\ NUMBER_PLACE \in Nat /\ CODE_SIZE \in Nat
  BY Constants DEF UploadInv
<1>. SUFFICES ASSUME ~short'
              PROVE  StreamFollows' /\ CountsMatch' /\ CipherHasContents'
  BY ShortRecv
<1>3. ~short /\ Receiving
  <2>1. ~short
    BY <1>1 DEF Recv
  <2>. QED BY <1>1, <2>1 DEF Receiving
<1>4. cipherSize \in CipherSizes /\ Len(taken) \in Nat
      /\ LastPacket \in 1 .. TotalPackets /\ TotalPackets \in Nat
      /\ taken \in Seq(0 .. TotalPackets)
  BY <1>2, Progress, LastIsThere DEF TypeOK
<1>5. p \in 1 .. LastPacket
  BY <1>1, <1>2, <1>3, <1>4 DEF CountsMatch
<1>6. /\ p \in 1 .. TotalPackets
      /\ Len(payload) >= NUMBER_PLACE + 2 * CODE_SIZE
      /\ NumbersIn(payload) = {Number(p)}
      /\ Take(payload) =>
            cipher' = cipher \o Content(p) /\ taken' = Append(taken, p)
      /\ Len(taken') = p /\ p < TotalPackets /\ step' = "header" => StreamFollows'
  BY <1>1, <1>3, PayloadFollows
<1>7. /\ Number(p) = p
      /\ p < Number(TotalPackets) => p \in 1 .. LastPacket - 1 /\ p < TotalPackets
      /\ ~(p < Number(TotalPackets)) => p = LastPacket
  BY <1>4, <1>5, LoopEnds
<1>8. /\ Take(payload)
      /\ number' = p /\ total' = Number(TotalPackets)
      /\ step' = IF p < Number(TotalPackets) THEN "header" ELSE "respond"
  <2>1. CASE ReceiveFirst
    <3>1. step = "data" /\ taken = << >>
      BY <1>2, <1>3, <2>1 DEF ReceiveFirst, CountsMatch
    <3>2. p = 1
      BY <3>1
    <3>3. ~(Len(payload) < NUMBER_PLACE + 2 * CODE_SIZE)
      <4>. HIDE DEF payload
      <4>1. NUMBER_PLACE + 2 * CODE_SIZE \in Nat
        BY <1>2
      <4>2. Len(payload) \in Nat
        <5>1. size \in Nat /\ stream \in Seq(Byte)
          BY <1>2 DEF TypeOK
        <5>. QED BY <1>1, <5>1, RecvBytes DEF payload
      <4>. QED BY <1>6, <4>1, <4>2
    <3>4. /\ number' = Number(1) /\ total' = Number(TotalPackets)
          /\ Take(payload) /\ LoopTest(number', total')
      BY <2>1, <3>3 DEF ReceiveFirst
    <3>. QED BY <1>7, <3>2, <3>4 DEF LoopTest
  <2>2. CASE NextPacket
    <3>1. step = "payload" /\ total = Number(TotalPackets)
      BY <1>2, <1>3, <2>2 DEF NextPacket, CountsMatch
    <3>2. ~(Len(payload) < NUMBER_PLACE + CODE_SIZE)
      <4>1. Len(payload) \in Nat
        <5>1. size \in Nat /\ stream \in Seq(Byte)
          BY <1>2 DEF TypeOK
        <5>. QED BY <1>1, <5>1, RecvBytes
      <4>. HIDE DEF payload
      <4>. QED BY <1>2, <1>6, <4>1
    <3>3. /\ number' \in NumbersIn(payload) /\ total' = total
          /\ Take(payload) /\ LoopTest(number', total)
      BY <2>2, <3>2 DEF NextPacket
    <3>. QED BY <1>6, <1>7, <3>1, <3>3 DEF LoopTest
  <2>. QED BY <2>1, <2>2
<1>9. cipher' = cipher \o Content(p) /\ taken' = Append(taken, p)
  BY <1>6, <1>8
<1>10. /\ Len(taken') = p /\ taken' # << >>
       /\ \A i \in 1 .. Len(taken') : taken'[i] = i
  <2>1. \A i \in 1 .. Len(taken) : taken[i] = i
    BY <1>2, <1>3 DEF CountsMatch
  <2>. QED BY <1>4, <1>6, <1>9, <2>1
<1>11. StreamFollows'
  <2>1. CASE p < Number(TotalPackets)
    BY <1>6, <1>7, <1>8, <1>10, <2>1
  <2>2. CASE ~(p < Number(TotalPackets))
    BY <1>8, <2>2 DEF StreamFollows, Receiving
  <2>. QED BY <2>1, <2>2
<1>12. /\ TotalPackets' = TotalPackets /\ LastPacket' = LastPacket
       /\ Number(TotalPackets)' = Number(TotalPackets)
  BY <1>1, SameUpload DEF Number
<1>13. CountsMatch'
  <2>1. p \in 1 .. LastPacket
    BY <1>5
  <2>2. client' # "done"
    BY <1>1, <1>2, <1>3 DEF CountsMatch, clientVars
  <2>. HIDE DEF p
  <2>. QED BY <1>7, <1>8, <1>10, <1>12, <2>1, <2>2 DEF CountsMatch
<1>14. CipherHasContents'
  BY <1>1, <1>2, <1>3, <1>6, <1>9, <1>10, ContentAppended
<1>. QED BY <1>11, <1>13, <1>14

LEMMA UploadStep == UploadInv /\ [Next]_vars => UploadInv'
<1>. SUFFICES ASSUME UploadInv, [Next]_vars PROVE UploadInv'
  OBVIOUS
<1>1. TypeOK'
  BY TypeStep DEF UploadInv
<1>2. StreamFollows' /\ CountsMatch' /\ CipherHasContents'
  <2>1. CASE Write
    BY <2>1, WriteFollows, SameServer, ClientMoves
  <2>2. CASE Finish \/ Killed
    BY <2>2, EndFollows, SameServer, ClientMoves
  <2>3. CASE ReceiveHeader \/ NextHeader
    BY <2>3, HeaderStep, HeaderEnds
  <2>4. CASE ReceiveFirst \/ NextPacket
    BY <2>4, PayloadStep
  <2>5. CASE Respond
    <3>1. /\ step = "respond" /\ step' = "closed"
          /\ UNCHANGED <<cipherSize, size, number, total, cipher, taken, short>>
      BY <2>5 DEF Respond
    <3>2. \A p : ContentOf(p)' = ContentOf(p)
      BY <3>1, SameUpload
    <3>3. StreamFollows'
      BY <3>1 DEF StreamFollows, Receiving
    <3>4. CountsMatch'
      <4>1. UNCHANGED clientVars
        BY <2>5 DEF Respond
      <4>. QED BY <3>1, <4>1 DEF UploadInv, CountsMatch, clientVars
    <3>5. CipherHasContents'
      BY <3>1, <3>2 DEF UploadInv, CipherHasContents
    <3>. QED BY <3>3, <3>4, <3>5
  <2>6. CASE UNCHANGED vars
    <3>1. UNCHANGED <<cipherSize, client, packet, unsent, stream, serverVars, short>>
      BY <2>6 DEF vars, clientVars
    <3>2. CountsMatch' /\ CipherHasContents' /\ Received' = Received
          /\ Receiving' = Receiving
      BY <3>1, SameServer
    <3>3. Message(packet)' = Message(packet)
      BY <3>1 DEF Message, Slice, PayloadOf, ContentOf, Smaller
    <3>4. StreamFollows'
      BY <3>1, <3>2, <3>3 DEF UploadInv, StreamFollows, Follow, Place
    <3>. QED BY <3>2, <3>4
  <2>. QED BY <2>1, <2>2, <2>3, <2>4, <2>5, <2>6
           DEF Next, ClientNext, ServerNext, Rest, Stuck
<1>. QED BY <1>1, <1>2 DEF UploadInv

-----------------------------------------------------------------------------
(***************************************************************************)
(* The theorems.                                                           *)
(***************************************************************************)
\* Every variable has its type and no buffer grows beyond its bound, however the
\* stream is cut.
THEOREM UploadType == Spec => []TypeOK
BY TypeInit, TypeStep, PTL DEF Spec

\* The inductive invariant of an upload: what is on its way follows what was
\* received, the size that was read is that of the packet which is there, and the
\* cipher has the contents of the packets that were taken.
THEOREM UploadCorrect == Spec => []UploadInv
BY UploadInit, UploadStep, PTL DEF Spec

LEMMA AssembledAtTheEnd == UploadInv => CipherIsAssembled
<1>. SUFFICES ASSUME UploadInv, step = "respond", ~short
              PROVE  cipher = Contents(Len(taken))
  BY DEF CipherIsAssembled, UploadInv, CountsMatch
<1>. DEFINE M == MESSAGE_CONTENT_SIZE
            H == HEADER_SIZE + FixedSize
            l == Len(taken)
            n == Smaller(cipherSize, l * M)
            P(i) == (i - 1) \div M + 1
            J(i) == i - (P(i) - 1) * M
<1>1. /\ cipherSize \in CipherSizes /\ cipherSize \in Nat \ {0}
      /\ M \in Nat \ {0} /\ l \in 1 .. TotalPackets /\ TotalPackets \in Nat
      /\ l \in Nat /\ l * M \in Nat /\ cipher \in Seq(Byte)
  <2>1. /\ cipherSize \in CipherSizes /\ cipherSize \in Nat \ {0}
        /\ M \in Nat \ {0} /\ TotalPackets \in Nat /\ cipher \in Seq(Byte)
        /\ LastPacket \in 1 .. TotalPackets
    BY Packets, LastIsThere, CipherSizePositive, Constants DEF UploadInv, TypeOK
  <2>2. l \in 1 .. LastPacket
    BY DEF UploadInv, CountsMatch
  <2>3. l \in 1 .. TotalPackets /\ l \in Nat
    <3>. HIDE DEF l
    <3>. QED BY <2>1, <2>2
  <2>. QED BY <2>1, <2>3, Multiples
<1>2. n \in Nat /\ n <= cipherSize /\ n <= l * M
  BY <1>1 DEF Smaller
<1>3. n = Smaller(cipherSize, Len(taken) * MESSAGE_CONTENT_SIZE)
  OBVIOUS
<1>4. /\ Len(cipher) = n
      /\ \A p \in 1 .. l : \A i \in 1 .. ContentOf(p) :
            cipher[(p - 1) * M + i] = <<p, H + i>>
  BY <1>3 DEF UploadInv, CipherHasContents
<1>. HIDE DEF M, H, l, n
<1>5. ASSUME NEW i \in 1 .. n
      PROVE  P(i) \in 1 .. l /\ J(i) \in 1 .. ContentOf(P(i))
             /\ (P(i) - 1) * M + J(i) = i
  <2>. DEFINE q == (i - 1) \div M
              r == (i - 1) % M
              qm == q * M
  <2>1. i - 1 \in Nat
    BY <1>2
  <2>2. q \in Nat /\ r \in 0 .. M - 1 /\ i - 1 = M * q + r
    BY <1>1, <2>1, Division
  <2>3. P(i) = q + 1
    OBVIOUS
  <2>. HIDE DEF q, r, P
  <2>4. M * q = q * M /\ qm \in Nat /\ P(i) - 1 = q
    BY <1>1, <2>2, <2>3, Multiples
  <2>5. J(i) = i - qm
    BY <2>4
  <2>. HIDE DEF J
  <2>6. P(i) * M = qm + M /\ P(i) \in Nat \ {0}
    BY <1>1, <2>2, <2>3, Multiples
  <2>7. P(i) <= l
    <3>1. ~(l <= q)
      <4>1. l <= q => l * M <= qm
        BY <1>1, <2>2, Multiples
      <4>. HIDE DEF qm
      <4>. QED BY <1>1, <1>2, <2>1, <2>2, <2>4, <4>1
    <3>. QED BY <1>1, <2>2, <2>3, <3>1
  <2>8. P(i) \in 1 .. l /\ P(i) \in 1 .. TotalPackets
    BY <1>1, <2>6, <2>7
  <2>9. /\ ContentOf(P(i)) \in Nat
        /\ qm + ContentOf(P(i)) = Smaller(cipherSize, P(i) * M)
    <3>. DEFINE p == P(i)
    <3>1. p \in 1 .. TotalPackets /\ qm = (p - 1) * M
      BY <2>4, <2>8
    <3>. HIDE DEF p, qm
    <3>2. /\ ContentOf(p) \in 1 .. M
          /\ (p - 1) * M + ContentOf(p) = Smaller(cipherSize, p * M)
      BY <1>1, <3>1, ContentSizes DEF M
    <3>. QED BY <1>1, <3>1, <3>2 DEF p
  <2>. DEFINE c == ContentOf(P(i))
              pm == P(i) * M
  <2>10. c \in Nat /\ pm = qm + M /\ qm \in Nat
         /\ qm + c = Smaller(cipherSize, pm) /\ i - 1 = qm + r
    BY <2>2, <2>4, <2>6, <2>9
  <2>. HIDE DEF c, pm, qm
  <2>11. i - qm \in 1 .. c
    BY <1>1, <1>2, <2>1, <2>2, <2>10 DEF Smaller
  <2>. QED BY <2>4, <2>5, <2>8, <2>10, <2>11 DEF c, qm
<1>6. ASSUME NEW i \in 1 .. n PROVE cipher[i] = Content(P(i))[J(i)]
  <2>. HIDE DEF P, J
  <2>1. cipher[(P(i) - 1) * M + J(i)] = <<P(i), H + J(i)>>
    BY <1>4, <1>5
  <2>2. P(i) \in 1 .. TotalPackets
    BY <1>1, <1>5
  <2>3. Content(P(i))[J(i)] = <<P(i), H + J(i)>>
    BY <1>1, <1>5, <2>2, ContentType DEF H
  <2>. QED BY <1>5, <2>1, <2>3
<1>7. cipher = [i \in 1 .. n |-> Content(P(i))[J(i)]]
  <2>. DEFINE e(i) == Content(P(i))[J(i)]
  <2>1. \A i \in 1 .. n : cipher[i] = e(i)
    BY <1>6
  <2>2. cipher = [i \in 1 .. n |-> cipher[i]]
    BY <1>1, <1>4
  <2>. HIDE DEF e
  <2>3. cipher = [i \in 1 .. n |-> e(i)]
    BY <2>1, <2>2
  <2>. QED BY <2>3 DEF e
<1>. QED BY <1>7 DEF Contents, M, l, n

\* Unless a recv() is short, the server returns the cipher byte for byte, for any
\* sizes of fields, packets, blocks, buffers and files and any width of the
\* packet numbers, however the packets are cut on their way.
THEOREM CipherAssembled == Spec => []CipherIsAssembled
BY UploadCorrect, AssembledAtTheEnd, PTL

\* A connection that is broken stays so.
LEMMA BreaksForGood ==
    ASSUME TypeOK, [Next]_vars
    PROVE  /\ UNCHANGED cipherSize
           /\ short => short'
           /\ client = "killed" => client' = "killed"
<1>1. CASE ClientNext
  <2>1. UNCHANGED <<cipherSize, short>> /\ client \in {"write", "read"}
    BY <1>1 DEF ClientNext, Write, Finish
  <2>. QED BY <2>1
<1>2. CASE Killed
  BY <1>2 DEF Killed
<1>3. CASE ServerNext
  <2>1. UNCHANGED <<cipherSize, client>>
    BY <1>3 DEF ServerNext, ReceiveHeader, ReceiveFirst, NextHeader, NextPacket,
                Respond, clientVars
  <2>2. short => short'
    BY <1>3 DEF ServerNext, ReceiveHeader, ReceiveFirst, NextHeader, NextPacket,
                Respond, Recv
  <2>. QED BY <2>1, <2>2
<1>4. CASE UNCHANGED vars
  BY <1>4 DEF vars, clientVars
<1>. QED BY <1>1, <1>2, <1>3, <1>4 DEF Next, Rest, Stuck

\* A step takes the next packet, if it is not behind the last one, or none.
LEMMA PacketsInOrder ==
    ASSUME UploadInv, [Next]_vars, ~short'
    PROVE  \/ taken' = taken
           \/ Len(taken) < LastPacket /\ taken' = Append(taken, Len(taken) + 1)
<1>1. CASE ReceiveFirst \/ NextPacket
  <2>1. /\ step \in {"data", "payload"} /\ Recv(size)
        /\ UNCHANGED <<cipherSize, clientVars>>
        /\ taken' = taken \/ Take(Bytes(size))
    BY <1>1 DEF ReceiveFirst, NextPacket, Raise
  <2>2. ~short /\ Receiving
    BY <2>1 DEF Recv, Receiving
  <2>3. Take(Bytes(size)) => taken' = Append(taken, Len(taken) + 1)
    BY <2>1, <2>2, PayloadFollows
  <2>4. Len(taken) < LastPacket
    <3>1. LastPacket \in 1 .. TotalPackets /\ TotalPackets \in Nat
          /\ Len(taken) \in Nat
      BY LastIsThere, Progress DEF UploadInv
    <3>2. step = "data" => Len(taken) = 0
      BY <2>2 DEF UploadInv, CountsMatch
    <3>3. step = "payload" => Len(taken) \in 1 .. LastPacket - 1
      BY <2>2 DEF UploadInv, CountsMatch
    <3>. QED BY <2>1, <3>1, <3>2, <3>3
  <2>. QED BY <2>1, <2>3, <2>4
<1>2. CASE ~(ReceiveFirst \/ NextPacket)
  BY <1>2 DEF Next, ClientNext, ServerNext, Rest, Stuck, Write, Finish, Killed,
              ReceiveHeader, NextHeader, Respond, vars, serverVars
<1>. QED BY <1>1, <1>2

LEMMA NextTransfer ==
    ASSUME UploadInv, [Next]_vars
    PROVE  [Transfer!Next]_(Transfer!vars)
<1>. DEFINE b == short \/ client = "killed"
<1>1. TypeOK /\ UNCHANGED cipherSize /\ (b => b')
  BY BreaksForGood DEF UploadInv
<1>2. LastPacket' = LastPacket
  BY <1>1, SameUpload
<1>3. CASE b
  BY <1>1, <1>2, <1>3 DEF Transfer!vars
<1>4. CASE ~b /\ b'
  BY <1>2, <1>4 DEF Transfer!Next, Transfer!Break
<1>5. CASE ~b /\ ~b'
  <2>1. CASE taken' = taken
    BY <1>2, <1>5, <2>1 DEF Transfer!vars
  <2>2. CASE Len(taken) < LastPacket /\ taken' = Append(taken, Len(taken) + 1)
    BY <1>2, <1>5, <2>2 DEF Transfer!Next, Transfer!Receive
  <2>. QED BY <1>5, <2>1, <2>2, PacketsInOrder
<1>. QED BY <1>3, <1>4, <1>5

\* The upload implements the steps of PacketTransfer: whatever write() hands over
\* and recv() returns, the server takes the packets in order, each one once, and
\* none behind the last one.
THEOREM TransferCorrect == Spec => TransfersPackets
<1>1. Init => Transfer!Init
  <2>. SUFFICES ASSUME Init PROVE Transfer!Init
    OBVIOUS
  <2>1. LastPacket \in 1 .. TotalPackets /\ TotalPackets \in Nat
    BY LastIsThere, Packets DEF Init
  <2>2. LastPacket \in Nat \ {0}
    BY <2>1
  <2>. QED BY <2>2 DEF Init, Transfer!Init
<1>2. UploadInv /\ [Next]_vars => [Transfer!Next]_(Transfer!vars)
  BY NextTransfer
<1>. QED BY <1>1, <1>2, UploadCorrect, PTL
         DEF Spec, TransfersPackets, Transfer!Steps
=============================================================================
