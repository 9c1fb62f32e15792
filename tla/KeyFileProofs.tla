---------------------------- MODULE KeyFileProofs ----------------------------
(***************************************************************************)
(* The private key in me.info and priv.key is the one whose public half    *)
(* was sent, for any sizes of keys and buffers and any number of starts.   *)
(*                                                                         *)
(* The text of me.info begins with all of one key from its first write()   *)
(* on, and whatever follows only makes it longer: the units that Decode    *)
(* drops, and those that Encode adds, are at the end of a text that has    *)
(* the key in front of them.                                               *)
(***************************************************************************)
EXTENDS KeyFile, Induction, SequenceTheorems

USE KeyFileAssumption DEF UnitsOfByte, UnitsOfChar

-----------------------------------------------------------------------------
(***************************************************************************)
(* Texts.                                                                  *)
(***************************************************************************)
LEMMA SaveType ==
    ASSUME NEW key \in Nat, NEW size \in Sizes
    PROVE  /\ Save(key, size) \in Seq(Unit)
           /\ Len(Save(key, size)) = 4 * size
           /\ \A i \in 1 .. 4 * size :
                 Save(key, size)[i] = [key |-> key, at |-> i, of |-> 4 * size]
<1>1. size \in Nat /\ 4 * size \in Nat
  OBVIOUS
<1>2. \A i \in 1 .. 4 * size : [key |-> key, at |-> i, of |-> 4 * size] \in Unit
  BY <1>1 DEF Unit
<1>. QED BY <1>1, <1>2 DEF Save

\* What Encode appends fills up the last character, and no more.
LEMMA EncodeType ==
    ASSUME NEW bytes \in Seq(Unit)
    PROVE  /\ Encode(bytes) \in Seq(Unit)
           /\ Len(Encode(bytes)) % 3 = 0
           /\ Len(Encode(bytes)) \in Len(bytes) .. Len(bytes) + 2
           /\ \A i \in 1 .. Len(bytes) : Encode(bytes)[i] = bytes[i]
<1>. DEFINE n    == Len(bytes)
            fill == (2 * n) % 3
            pad  == [i \in 1 .. fill |-> Zero]
<1>1. n \in Nat /\ fill \in 0 .. 2 /\ (n + fill) % 3 = 0
  OBVIOUS
<1>2. pad \in Seq(Unit) /\ Len(pad) = fill
  BY <1>1 DEF Zero, Unit, NoKey
<1>3. Encode(bytes) = bytes \o pad
  BY DEF Encode
<1>. QED BY <1>1, <1>2, <1>3

\* What Decode drops is less than a byte.
LEMMA DecodeType ==
    ASSUME NEW text \in Seq(Unit)
    PROVE  /\ Decode(text) \in Seq(Unit)
           /\ Len(Decode(text)) = Len(text) - (Len(text) % 4)
           /\ Len(Decode(text)) % 4 = 0
           /\ \A i \in 1 .. Len(Decode(text)) : Decode(text)[i] = text[i]
<1>. DEFINE n == Len(text)
            k == n - (n % 4)
<1>1. n \in Nat /\ k \in 0 .. n /\ k % 4 = 0
  OBVIOUS
<1>2. Decode(text) = SubSeq(text, 1, k)
  BY DEF Decode
<1>3. k = Len(text) - (Len(text) % 4)
  OBVIOUS
<1>. HIDE DEF k
<1>4. /\ SubSeq(text, 1, k) \in Seq(Unit)
      /\ Len(SubSeq(text, 1, k)) = k
      /\ \A i \in 1 .. k : SubSeq(text, 1, k)[i] = text[i]
  BY <1>1
<1>. QED BY <1>1, <1>2, <1>3, <1>4

\* A text of whole characters is no longer after it was decoded and encoded.
LEMMA CodeAgain ==
    ASSUME NEW text \in Seq(Unit), Len(text) % 3 = 0
    PROVE  Len(Encode(Decode(text))) <= Len(text)
<1>. DEFINE n == Len(text)
            k == n - (n % 4)
<1>1. n \in Nat /\ k \in 0 .. n /\ n % 3 = 0
  OBVIOUS
<1>2. Len(Encode(Decode(text))) % 3 = 0
      /\ Len(Encode(Decode(text))) \in k .. k + 2
  BY DecodeType, EncodeType
<1>. QED BY <1>1, <1>2

-----------------------------------------------------------------------------
(***************************************************************************)
(* Texts that begin with the key.                                          *)
(***************************************************************************)
LEMMA LongerBegins ==
    ASSUME NEW units \in Seq(Unit), NEW longer \in Seq(Unit),
           Len(units) <= Len(longer),
           \A i \in 1 .. Len(units) : longer[i] = units[i],
           BeginsWithKey(units)
    PROVE  BeginsWithKey(longer)
BY DEF BeginsWithKey

LEMMA EncodeBegins ==
    ASSUME NEW bytes \in Seq(Unit), BeginsWithKey(bytes)
    PROVE  BeginsWithKey(Encode(bytes))
<1>1. /\ Encode(bytes) \in Seq(Unit)
      /\ Len(bytes) <= Len(Encode(bytes))
      /\ \A i \in 1 .. Len(bytes) : Encode(bytes)[i] = bytes[i]
  BY EncodeType
<1>. QED BY <1>1, LongerBegins

\* A key is a number of whole bytes.
LEMMA DecodeBegins ==
    ASSUME NEW text \in Seq(Unit), BeginsWithKey(text)
    PROVE  BeginsWithKey(Decode(text))
<1>1. PICK size \in Sizes :
          /\ 4 * size <= Len(text)
          /\ \A i \in 1 .. 4 * size : text[i] = Save(sent, size)[i]
  BY DEF BeginsWithKey
<1>2. size \in Nat /\ Len(text) \in Nat
  OBVIOUS
<1>3. 4 * size <= Len(text) - (Len(text) % 4)
  BY <1>1, <1>2
<1>4. /\ 4 * size <= Len(Decode(text))
      /\ \A i \in 1 .. Len(Decode(text)) : Decode(text)[i] = text[i]
  BY <1>3, DecodeType
<1>5. \A i \in 1 .. 4 * size : Decode(text)[i] = Save(sent, size)[i]
  <2>. TAKE i \in 1 .. 4 * size
  <2>1. i \in 1 .. Len(Decode(text))
    BY <1>2, <1>4, DecodeType
  <2>. QED BY <1>1, <1>4, <2>1
<1>. QED BY <1>4, <1>5 DEF BeginsWithKey

\* Load takes the key from the front, whatever follows it.
LEMMA LoadBegins ==
    ASSUME NEW bytes \in Seq(Unit), sent \in Nat, BeginsWithKey(bytes)
    PROVE  Load(bytes) = sent
<1>1. PICK size \in Sizes :
          /\ 4 * size <= Len(bytes)
          /\ \A i \in 1 .. 4 * size : bytes[i] = Save(sent, size)[i]
  BY DEF BeginsWithKey
<1>2. size \in Nat \ {0} /\ Len(bytes) \in Nat
  OBVIOUS
<1>3. \A i \in 1 .. 4 * size : bytes[i] = [key |-> sent, at |-> i, of |-> 4 * size]
  BY <1>1, SaveType
<1>4. bytes[1] = [key |-> sent, at |-> 1, of |-> 4 * size]
  BY <1>2, <1>3
<1>5. bytes # << >>
  BY <1>1, <1>2
<1>6. bytes[1].of = 4 * size /\ bytes[1].key = sent
  BY <1>4
<1>. QED BY <1>1, <1>3, <1>5, <1>6 DEF Load

\* Nothing can be loaded from an empty text.
LEMMA LoadEmpty == Load(Decode(<< >>)) = NoKey
<1>1. << >> \in Seq(Unit) /\ Len(<< >>) = 0
  OBVIOUS
<1>2. Decode(<< >>) = SubSeq(<< >>, 1, 0)
  BY <1>1 DEF Decode
<1>3. Decode(<< >>) = << >>
  BY <1>1, <1>2
<1>. QED BY <1>3 DEF Load

-----------------------------------------------------------------------------
(***************************************************************************)
(* The inductive invariant.                                                *)
(***************************************************************************)
\* A step that changes no text and no key.
LEMMA Quiet ==
    ASSUME KeyInv, UNCHANGED <<priv, keys, sent>>, TypeOK', PairIsToCome',
           me'.text = me.text \/ me'.text = << >>,
           pc' \in {"off", "register"}
    PROVE  KeyInv'
<1>1. MeInfoHasKey'
  BY DEF KeyInv, MeInfoHasKey, BeginsWithKey
<1>2. MemoryHasKey'
  BY DEF MemoryHasKey
<1>. QED BY <1>1, <1>2 DEF KeyInv

LEMMA Thirds ==
    ASSUME NEW m \in Nat, NEW n \in Nat, m % 3 = 0, n % 3 = 0
    PROVE  (m + n) % 3 = 0 /\ (n <= m => (m - n) % 3 = 0)
OBVIOUS

LEMMA Extend ==
    ASSUME NEW s \in Seq(Unit), NEW t \in Seq(Unit)
    PROVE  /\ s \o t \in Seq(Unit) /\ Len(s \o t) = Len(s) + Len(t)
           /\ \A i \in 1 .. Len(s) : (s \o t)[i] = s[i]
OBVIOUS

LEMMA Associate ==
    ASSUME NEW s \in Seq(Unit), NEW t \in Seq(Unit), NEW u \in Seq(Unit)
    PROVE  (s \o t) \o u = s \o (t \o u)
BY ConcatAssociative

LEMMA WrittenLengths ==
    ASSUME rest \in Seq(Unit), NEW file \in Seq(Unit)
    PROVE  /\ Written \in 0 .. Len(rest)
           /\ SubSeq(rest, 1, Written) \in Seq(Unit)
           /\ Len(SubSeq(rest, 1, Written)) = Written
           /\ SubSeq(rest, Written + 1, Len(rest)) \in Seq(Unit)
           /\ Len(SubSeq(rest, Written + 1, Len(rest))) = Len(rest) - Written
           /\ Len(file \o SubSeq(rest, 1, Written)) = Len(file) + Written
<1>1. Written \in 0 .. Len(rest)
  BY DEF Written
<1>. HIDE DEF Written
<1>2. SubSeq(rest, 1, Written) \in Seq(Unit) /\ Len(SubSeq(rest, 1, Written)) = Written
  BY <1>1
<1>3. /\ SubSeq(rest, Written + 1, Len(rest)) \in Seq(Unit)
      /\ Len(SubSeq(rest, Written + 1, Len(rest))) = Len(rest) - Written
  BY <1>1
<1>. QED BY <1>1, <1>2, <1>3, Extend

\* A write() appends whole characters to the text of a file; put together with
\* what it leaves, they are all of the text.
LEMMA WriteSome ==
    ASSUME TypeOK, NEW file \in Seq(Unit), Len(file) % 3 = 0
    PROVE  LET now  == file \o SubSeq(rest, 1, Written)
               left == SubSeq(rest, Written + 1, Len(rest))
           IN  /\ now \in Seq(Unit) /\ Len(now) % 3 = 0
               /\ Len(file) <= Len(now)
               /\ \A i \in 1 .. Len(file) : now[i] = file[i]
               /\ left \in Seq(Unit) /\ Len(left) % 3 = 0
               /\ now \o left = file \o rest
               /\ Len(rest) <= UnitsOfChar * BufferSize => Written = Len(rest)
               /\ Written = Len(rest) => now = file \o rest /\ left = << >>
<1>1. rest \in Seq(Unit) /\ Len(rest) % 3 = 0 /\ Len(rest) \in Nat
  BY DEF TypeOK
<1>2. Written \in 0 .. Len(rest) /\ Written % 3 = 0
  <2>1. BufferSize \in Nat /\ (3 * BufferSize) % 3 = 0
    OBVIOUS
  <2>2. CASE Len(rest) < 3 * BufferSize
    BY <1>1, <2>1, <2>2 DEF Written
  <2>3. CASE ~(Len(rest) < 3 * BufferSize)
    BY <1>1, <2>1, <2>3 DEF Written
  <2>. QED BY <2>2, <2>3
<1>3. Len(rest) <= UnitsOfChar * BufferSize => Written = Len(rest)
  BY <1>1 DEF Written
<1>. DEFINE first == SubSeq(rest, 1, Written)
            left  == SubSeq(rest, Written + 1, Len(rest))
            now   == file \o first
<1>4. first \in Seq(Unit) /\ Len(first) = Written
  BY <1>1, WrittenLengths
<1>5. left \in Seq(Unit) /\ Len(left) = Len(rest) - Written
  BY <1>1, WrittenLengths
<1>6. first \o left = rest
  <2>1. /\ 1 \in 1 .. Len(rest) + 1
        /\ Written \in 1 - 1 .. Len(rest)
        /\ Len(rest) \in Written .. Len(rest)
    BY <1>1, <1>2
  <2>2. first \o left = SubSeq(rest, 1, Len(rest))
    BY <1>1, <2>1, ConcatAdjacentSubSeq, Zenon
  <2>. QED BY <1>1, <2>2, SubSeqFull, Zenon
<1>7. now = file \o first
  OBVIOUS
<1>. HIDE DEF first, left, now
<1>8. /\ now \in Seq(Unit) /\ Len(now) = Len(file) + Written
      /\ \A i \in 1 .. Len(file) : now[i] = file[i]
  BY <1>4, <1>7, Extend
<1>9. Len(now) % 3 = 0 /\ Len(left) % 3 = 0 /\ Len(file) <= Len(now)
  <2>1. Len(file) \in Nat
    OBVIOUS
  <2>2. (Len(file) + Written) % 3 = 0 /\ (Len(rest) - Written) % 3 = 0
    <3>1. Written \in Nat /\ Written <= Len(rest) /\ Written % 3 = 0
      BY <1>1, <1>2
    <3>. QED BY <1>1, <2>1, <3>1, Thirds
  <2>3. Len(now) % 3 = 0
    BY <1>8, <2>2
  <2>4. Len(left) % 3 = 0
    BY <1>5, <2>2
  <2>5. Len(file) <= Len(now)
    BY <1>2, <1>8, <2>1
  <2>. QED BY <2>3, <2>4, <2>5
<1>10. now \o left = file \o rest
  <2>1. (file \o first) \o left = file \o (first \o left)
    BY <1>4, <1>5, Associate
  <2>. QED BY <1>6, <1>7, <2>1
<1>11. Written = Len(rest) => now = file \o rest /\ left = << >>
  <2>. SUFFICES ASSUME Written = Len(rest)
                PROVE  now = file \o rest /\ left = << >>
    OBVIOUS
  <2>1. left = << >>
    BY <1>5
  <2>2. now \o left = now
    BY <1>8, <2>1, ConcatEmptySeq, Zenon
  <2>. QED BY <1>10, <2>1, <2>2
<1>. QED BY <1>3, <1>5, <1>8, <1>9, <1>10, <1>11 DEF first, left, now

LEMMA KeyInvInit == Init => KeyInv
<1>. SUFFICES ASSUME Init PROVE KeyInv
  OBVIOUS
<1>1. << >> \in Seq(Unit) /\ Len(<< >>) = 0
  OBVIOUS
<1>. QED BY <1>1 DEF Init, KeyInv, TypeOK, PairIsToCome, MeInfoHasKey,
                     MemoryHasKey, NoKey

LEMMA KeyInvStep == KeyInv /\ [Next]_vars => KeyInv'
<1>. SUFFICES ASSUME KeyInv, [Next]_vars PROVE KeyInv'
  OBVIOUS
<1>. USE DEF KeyInv
<1>0. << >> \in Seq(Unit) /\ Len(<< >>) = 0 /\ 0 % 3 = 0 /\ 0 % 4 = 0
  OBVIOUS
<1>1. CASE StartNew
  <2>1. TypeOK' /\ PairIsToCome'
    BY <1>1 DEF StartNew, Start, TypeOK, PairIsToCome
  <2>. QED BY <1>1, <2>1, Quiet DEF StartNew, Start
<1>2. CASE StartKnown
  <2>1. BeginsWithKey(me.text)
    BY <1>2, LoadEmpty DEF StartKnown, MeInfoHasKey
  <2>2. data' = Decode(me.text) /\ me.text \in Seq(Unit)
    BY <1>2 DEF StartKnown, TypeOK
  <2>3. TypeOK' /\ PairIsToCome'
    BY <1>2, <2>2, DecodeType DEF StartKnown, Start, TypeOK, PairIsToCome
  <2>4. BeginsWithKey(data)'
    BY <1>2, <2>1, <2>2, DecodeBegins DEF StartKnown, BeginsWithKey
  <2>5. MeInfoHasKey' /\ MemoryHasKey'
    BY <1>2, <2>1, <2>4
    DEF StartKnown, Start, MeInfoHasKey, MemoryHasKey, BeginsWithKey
  <2>. QED BY <2>3, <2>5
<1>3. CASE Registered
  <2>1. TypeOK' /\ PairIsToCome'
    BY <1>0, <1>3 DEF Registered, TypeOK, PairIsToCome, NoKey
  <2>2. MeInfoHasKey' /\ MemoryHasKey'
    BY <1>3 DEF Registered, MeInfoHasKey, MemoryHasKey
  <2>. QED BY <2>1, <2>2
<1>4. CASE SendPublicKey
  <2>1. PICK size \in Sizes : data' = Save(keys + 1, size)
    BY <1>4 DEF SendPublicKey
  <2>2. keys + 1 \in 0 .. starts /\ keys + 1 \in Nat
    BY <1>4 DEF SendPublicKey, TypeOK, PairIsToCome
  <2>3. data' \in Seq(Unit) /\ Len(data') = 4 * size /\ size \in Nat
    BY <2>1, <2>2, SaveType
  <2>4. TypeOK' /\ PairIsToCome'
    <3>1. keys' = keys + 1 /\ sent' = keys + 1 /\ pc' = "sent"
          /\ UNCHANGED <<me, priv, rest, starts>>
      BY <1>4 DEF SendPublicKey
    <3>2. Len(data') % 4 = 0
      BY <2>3
    <3>3. keys \in Nat /\ sent' \in 0 .. keys'
      BY <3>1 DEF TypeOK
    <3>. QED BY <2>2, <2>3, <3>1, <3>2, <3>3 DEF TypeOK, PairIsToCome
  <2>5. data' = Save(sent', size)
    BY <1>4, <2>1 DEF SendPublicKey
  <2>6. BeginsWithKey(data)'
    BY <2>3, <2>5 DEF BeginsWithKey
  <2>7. MeInfoHasKey' /\ MemoryHasKey'
    BY <1>4, <2>5, <2>6 DEF SendPublicKey, MeInfoHasKey, MemoryHasKey
  <2>. QED BY <2>4, <2>7
<1>5. CASE Denied
  <2>1. TypeOK' /\ PairIsToCome'
    BY <1>5 DEF Denied, TypeOK, PairIsToCome
  <2>. QED BY <1>5, <2>1, Quiet DEF Denied
<1>6. CASE KeyReceived
  <2>1. rest' = Encode(data) /\ data \in Seq(Unit) /\ me.text \in Seq(Unit)
    BY <1>6 DEF KeyReceived, TypeOK
  <2>2. rest' \in Seq(Unit) /\ Len(rest') % 3 = 0
    BY <2>1, EncodeType
  <2>3. TypeOK' /\ PairIsToCome'
    BY <1>6, <2>2 DEF KeyReceived, TypeOK, PairIsToCome
  <2>4. BeginsWithKey(data)'
    BY <1>6 DEF KeyReceived, MemoryHasKey, BeginsWithKey
  <2>5. BeginsWithKey(rest')
    BY <1>6, <2>1, EncodeBegins DEF KeyReceived, MemoryHasKey
  <2>6. BeginsWithKey(me.text \o rest')
    <3>1. CASE me.text = << >>
      <4>1. me.text \o rest' = rest'
        BY <2>2, <3>1
      <4>. QED BY <2>5, <4>1
    <3>2. CASE me.text # << >>
      <4>1. BeginsWithKey(me.text)
        BY <3>2 DEF MeInfoHasKey
      <4>2. /\ me.text \o rest' \in Seq(Unit)
            /\ Len(me.text) <= Len(me.text \o rest')
            /\ \A i \in 1 .. Len(me.text) : (me.text \o rest')[i] = me.text[i]
        BY <2>1, <2>2
      <4>. QED BY <2>1, <4>1, <4>2, LongerBegins
    <3>. QED BY <3>1, <3>2
  <2>7. me.text = << >> => Len(rest') <= UnitsOfChar * BufferSize
    <3>. SUFFICES ASSUME me.text = << >> PROVE Len(rest') <= 3 * BufferSize
      OBVIOUS
    <3>1. pc = "sent"
      <4>1. pc # "reconnect"
        BY <1>0 DEF MeInfoHasKey, BeginsWithKey
      <4>. QED BY <1>6, <4>1 DEF KeyReceived
    <3>2. PICK size \in Sizes : data = Save(sent, size)
      BY <3>1 DEF MemoryHasKey
    <3>3. Len(data) = 4 * size
      BY <3>2, SaveType DEF TypeOK
    <3>4. Len(rest') \in 4 * size .. 4 * size + 2 /\ Len(rest') % 3 = 0
      BY <2>1, <3>3, EncodeType
    <3>5. 4 * size <= 3 * BufferSize /\ size \in Nat /\ BufferSize \in Nat
      OBVIOUS
    <3>. QED BY <3>4, <3>5
  <2>8. MeInfoHasKey' /\ MemoryHasKey'
    BY <1>6, <2>4, <2>6, <2>7
    DEF KeyReceived, MeInfoHasKey, MemoryHasKey, BeginsWithKey
  <2>. QED BY <2>3, <2>8
<1>7. CASE AppendToMeInfo
  <2>. DEFINE now == me.text \o SubSeq(rest, 1, Written)
              left == SubSeq(rest, Written + 1, Len(rest))
  <2>1. /\ pc = "append" /\ me.text \in Seq(Unit) /\ rest \in Seq(Unit)
        /\ Len(me.text) % 3 = 0 /\ Len(rest) % 3 = 0
    BY <1>7 DEF AppendToMeInfo, TypeOK
  <2>2. /\ now \in Seq(Unit) /\ Len(now) % 3 = 0
        /\ Len(me.text) <= Len(now)
        /\ \A i \in 1 .. Len(me.text) : now[i] = me.text[i]
        /\ Len(rest) <= UnitsOfChar * BufferSize => Written = Len(rest)
        /\ Written = Len(rest) => now = me.text \o rest
    BY <2>1, WriteSome
  <2>3. left \in Seq(Unit) /\ Len(left) % 3 = 0
    BY <2>1, WriteSome
  <2>4. now \o left = me.text \o rest
    BY <2>1, WriteSome
  <2>5. /\ me' = [me EXCEPT !.text = now]
        /\ me'.text = now
        /\ me' \in [exists : BOOLEAN, id : 0 .. starts, text : Seq(Unit)]
    BY <1>7, <2>2 DEF AppendToMeInfo, TypeOK
  <2>6. BeginsWithKey(now)
    <3>1. CASE me.text = << >>
      <4>1. Written = Len(rest)
        BY <2>1, <2>2, <3>1 DEF MeInfoHasKey
      <4>2. now = me.text \o rest
        BY <2>2, <4>1
      <4>. QED BY <2>1, <4>2 DEF MeInfoHasKey
    <3>2. CASE me.text # << >>
      <4>1. BeginsWithKey(me.text) /\ Len(me.text) <= Len(now)
        BY <2>1, <2>2, <3>2 DEF MeInfoHasKey
      <4>. QED BY <2>1, <2>2, <4>1, LongerBegins
    <3>. QED BY <3>1, <3>2
  <2>. HIDE DEF now, left
  <2>7. BeginsWithKey(me'.text) /\ UNCHANGED <<data, keys, sent, starts>>
    BY <1>7, <2>5, <2>6 DEF AppendToMeInfo
  <2>8. BeginsWithKey(data) /\ data \in Seq(Unit)
    BY <2>1 DEF MemoryHasKey, TypeOK
  <2>9. CASE Written = Len(rest)
    <3>1. pc' = "private" /\ priv' = << >> /\ rest' = Encode(data)
      BY <1>7, <2>9 DEF AppendToMeInfo
    <3>2. rest' \in Seq(Unit) /\ Len(rest') % 3 = 0
      BY <2>8, <3>1, EncodeType
    <3>3. TypeOK' /\ PairIsToCome'
      BY <1>0, <2>2, <2>5, <2>7, <3>1, <3>2 DEF TypeOK, PairIsToCome
    <3>4. MeInfoHasKey'
      BY <2>7, <3>1 DEF MeInfoHasKey, BeginsWithKey
    <3>5. priv' \o rest' = Encode(data)'
      BY <2>7, <3>1, <3>2 DEF Encode
    <3>6. MemoryHasKey'
      BY <2>7, <2>8, <3>1, <3>5 DEF MemoryHasKey, BeginsWithKey
    <3>. QED BY <3>3, <3>4, <3>6
  <2>10. CASE Written # Len(rest)
    <3>1. rest' = left /\ UNCHANGED <<pc, priv>>
      BY <1>7, <2>10 DEF AppendToMeInfo, left
    <3>2. TypeOK' /\ PairIsToCome'
      BY <2>2, <2>3, <2>5, <2>7, <3>1 DEF TypeOK, PairIsToCome
    <3>3. BeginsWithKey(me'.text \o rest')
      BY <2>1, <2>4, <2>5, <3>1 DEF MeInfoHasKey
    <3>4. me'.text # << >>
      BY <1>0, <2>7 DEF BeginsWithKey
    <3>5. MeInfoHasKey'
      BY <2>1, <2>7, <3>1, <3>3, <3>4 DEF MeInfoHasKey, BeginsWithKey
    <3>6. MemoryHasKey'
      BY <2>1, <2>7, <2>8, <3>1 DEF MemoryHasKey, BeginsWithKey
    <3>. QED BY <3>2, <3>5, <3>6
  <2>. QED BY <2>9, <2>10
<1>8. CASE WritePrivate
  <2>. DEFINE now == priv \o SubSeq(rest, 1, Written)
              left == SubSeq(rest, Written + 1, Len(rest))
  <2>1. /\ pc = "private" /\ priv \in Seq(Unit) /\ rest \in Seq(Unit)
        /\ Len(priv) % 3 = 0 /\ Len(rest) % 3 = 0
    BY <1>8 DEF WritePrivate, TypeOK
  <2>2. now \in Seq(Unit) /\ Len(now) % 3 = 0
    BY <2>1, WriteSome
  <2>3. left \in Seq(Unit) /\ Len(left) % 3 = 0
    BY <2>1, WriteSome
  <2>4. now \o left = priv \o rest
    BY <2>1, WriteSome
  <2>5. Written = Len(rest) => left = << >>
    BY <2>1, WriteSome
  <2>. HIDE DEF now, left
  <2>6. /\ priv' = now /\ rest' = left
        /\ pc' = IF Written = Len(rest) THEN "decrypt" ELSE "private"
        /\ UNCHANGED <<me, data, keys, sent, starts>>
    BY <1>8 DEF WritePrivate, now, left
  <2>7. TypeOK' /\ PairIsToCome'
    BY <2>2, <2>3, <2>6 DEF TypeOK, PairIsToCome
  <2>8. MeInfoHasKey'
    BY <2>1, <2>6 DEF MeInfoHasKey, BeginsWithKey
  <2>9. BeginsWithKey(data)'
    BY <2>1, <2>6 DEF MemoryHasKey, BeginsWithKey
  <2>10. priv' \o rest' = Encode(data)'
    BY <2>1, <2>4, <2>6 DEF MemoryHasKey, Encode
  <2>11. MemoryHasKey'
    BY <2>5, <2>6, <2>9, <2>10 DEF MemoryHasKey
  <2>. QED BY <2>7, <2>8, <2>11
<1>9. CASE Return
  <2>1. TypeOK' /\ PairIsToCome'
    BY <1>0, <1>9 DEF Return, TypeOK, PairIsToCome
  <2>. QED BY <1>9, <2>1, Quiet DEF Return
<1>10. CASE Kill
  <2>1. me'.text = me.text \/ me'.text = << >>
    BY <1>10 DEF Kill
  <2>2. me' \in [exists : BOOLEAN, id : 0 .. starts, text : Seq(Unit)]
        /\ Len(me'.text) % 3 = 0
    <3>1. CASE UNCHANGED me
      BY <3>1 DEF TypeOK
    <3>2. CASE me' = [exists |-> TRUE, id |-> 0, text |-> << >>]
      <4>1. 0 \in 0 .. starts /\ TRUE \in BOOLEAN
        BY DEF TypeOK
      <4>. QED BY <1>0, <3>2, <4>1
    <3>. QED BY <1>10, <3>1, <3>2 DEF Kill
  <2>3. TypeOK' /\ PairIsToCome'
    BY <1>0, <1>10, <2>2 DEF Kill, TypeOK, PairIsToCome
  <2>. QED BY <1>10, <2>1, <2>3, Quiet DEF Kill
<1>11. CASE Rest \/ UNCHANGED vars
  <2>1. UNCHANGED vars
    BY <1>11 DEF Rest
  <2>2. TypeOK' /\ PairIsToCome'
    BY <2>1 DEF vars, TypeOK, PairIsToCome
  <2>3. MeInfoHasKey'
    BY <2>1 DEF vars, MeInfoHasKey, BeginsWithKey, Save
  <2>4. MemoryHasKey'
    BY <2>1 DEF vars, MemoryHasKey, BeginsWithKey
  <2>. QED BY <2>2, <2>3, <2>4
<1>. QED BY <1>1, <1>2, <1>3, <1>4, <1>5, <1>6, <1>7, <1>8, <1>9, <1>10, <1>11
         DEF Next

-----------------------------------------------------------------------------
(***************************************************************************)
(* What follows from it.                                                   *)
(***************************************************************************)
\* The invariant holds in every state: what the files, the memory and the open
\* stream have is always the key whose public half was sent, and then bytes
\* that no decoder of a key looks at.
THEOREM KeyFileCorrect == Spec => []KeyInv
BY KeyInvInit, KeyInvStep, PTL DEF Spec

\* Every variable has its type: whole characters in the files, whole bytes in
\* the memory.
THEOREM KeyFileType == Spec => []TypeOK
BY KeyFileCorrect, PTL DEF KeyInv

\* The first key of me.info is the one that the server has the public half of,
\* or there is none that can be loaded.
THEOREM KeySentIsKept == Spec => []KeyIsTheOneSent
<1>1. KeyInv => KeyIsTheOneSent
  <2>. SUFFICES ASSUME KeyInv PROVE Load(Decode(me.text)) \in {NoKey, sent}
    BY DEF KeyIsTheOneSent
  <2>1. me.text \in Seq(Unit) /\ sent \in Nat
    BY DEF KeyInv, TypeOK
  <2>2. CASE me.text = << >>
    BY <2>2, LoadEmpty
  <2>3. CASE BeginsWithKey(me.text)
    BY <2>1, <2>3, DecodeBegins, DecodeType, LoadBegins
  <2>. QED BY <2>2, <2>3 DEF KeyInv, MeInfoHasKey
<1>. QED BY <1>1, KeyFileCorrect, PTL

\* hundlePrivateKey leaves the key that was sent in both files, and decrypts the
\* AES key with it.
THEOREM FilesKeepTheKey == Spec => []FilesHaveTheKey
<1>1. KeyInv => FilesHaveTheKey
  <2>. SUFFICES ASSUME KeyInv, pc = "decrypt"
                PROVE  /\ Load(Decode(me.text)) = sent
                       /\ Load(Decode(priv)) = sent
                       /\ Decryptor = sent
    BY DEF FilesHaveTheKey
  <2>1. /\ me.text \in Seq(Unit) /\ priv \in Seq(Unit) /\ data \in Seq(Unit)
        /\ sent \in Nat
    BY DEF KeyInv, TypeOK
  <2>2. BeginsWithKey(me.text) /\ BeginsWithKey(data)
    BY DEF KeyInv, MeInfoHasKey, MemoryHasKey
  <2>3. Load(Decode(me.text)) = sent
    BY <2>1, <2>2, DecodeBegins, DecodeType, LoadBegins
  <2>4. priv = Encode(data)
    <3>1. priv \o << >> = Encode(data)
      BY DEF KeyInv, MemoryHasKey
    <3>2. priv \o << >> = priv
      BY <2>1
    <3>. QED BY <3>1, <3>2
  <2>5. Load(Decode(Encode(data))) = sent
    BY <2>1, <2>2, EncodeBegins, EncodeType, DecodeBegins, DecodeType, LoadBegins
  <2>. QED BY <2>3, <2>4, <2>5 DEF Decryptor
<1>. QED BY <1>1, KeyFileCorrect, PTL

-----------------------------------------------------------------------------
(***************************************************************************)
(* How long me.info gets.                                                  *)
(***************************************************************************)
\* What a run still appends to me.info.
ToCome == IF pc = "append" THEN Len(rest)
          ELSE IF pc = "reconnect" THEN Len(Encode(data)) ELSE 0

\* With most units in the text of one key, there is room for what is to come.
RoomFor(most) ==
    /\ 2 * (Len(me.text) + ToCome) <= most * PowerOfTwo[starts]
    /\ PowerOfTwo[starts] >= 1
    /\ pc # "off" => PowerOfTwo[starts] >= 2

LEMMA PowerIs ==
    /\ PowerOfTwo[0] = 1
    /\ \A n \in 0 .. MaxStarts - 1 : PowerOfTwo[n + 1] = 2 * PowerOfTwo[n]
    /\ \A n \in 0 .. MaxStarts : PowerOfTwo[n] \in Nat
BY Powers DEF PowerOfTwo

LEMMA Times ==
    ASSUME NEW m \in Nat, NEW p \in Nat
    PROVE  /\ m * p \in Nat
           /\ m * (2 * p) = 2 * (m * p)
           /\ p >= 2 => 2 * m <= m * p
<1>1. m * p \in Nat /\ m * (2 * p) = 2 * (m * p)
  OBVIOUS
<1>2. ASSUME p >= 2 PROVE 2 * m <= m * p
  <2>1. m * (p - 2) \in Nat /\ m * p = 2 * m + m * (p - 2)
    BY <1>2
  <2>2. \A x, y, z \in Nat : x = y + z => y <= x
    OBVIOUS
  <2>. QED BY <1>1, <2>1, <2>2
<1>. QED BY <1>1, <1>2

\* The text of a smaller key is no longer.
LEMMA SmallerText ==
    ASSUME NEW size \in Sizes, NEW largest \in Sizes, size <= largest,
           NEW key \in Nat
    PROVE  Len(Encode(Save(key, size))) <= Len(Encode(Save(1, largest)))
<1>1. /\ Len(Encode(Save(key, size))) \in 4 * size .. 4 * size + 2
      /\ Len(Encode(Save(key, size))) % 3 = 0
  BY SaveType, EncodeType
<1>2. /\ Len(Encode(Save(1, largest))) \in 4 * largest .. 4 * largest + 2
      /\ Len(Encode(Save(1, largest))) % 3 = 0
  BY SaveType, EncodeType
<1>3. \A x, y \in Nat : \A m, n \in Nat :
         /\ m <= n /\ x \in 4 * m .. 4 * m + 2 /\ y \in 4 * n .. 4 * n + 2
         /\ x % 3 = 0 /\ y % 3 = 0
         => x <= y
  OBVIOUS
<1>. QED BY <1>1, <1>2, <1>3

LEMMA RoomStep ==
    ASSUME NEW most \in Nat,
           \A size \in Sizes, key \in Nat : Len(Encode(Save(key, size))) <= most,
           KeyInv, KeyInv', RoomFor(most), [Next]_vars
    PROVE  RoomFor(most)'
<1>. DEFINE power == PowerOfTwo[starts]
            now   == 2 * (Len(me.text) + ToCome)
            next  == 2 * (Len(me'.text) + ToCome')
<1>1. /\ me.text \in Seq(Unit) /\ rest \in Seq(Unit) /\ data \in Seq(Unit)
      /\ Len(me.text) % 3 = 0
      /\ starts \in 0 .. MaxStarts /\ MaxStarts \in Nat
      /\ pc \in {"off", "register", "key", "sent", "reconnect", "append",
                 "private", "decrypt"}
  BY DEF KeyInv, TypeOK
<1>2. /\ Len(me.text) \in Nat /\ Len(rest) \in Nat /\ Len(Encode(data)) \in Nat
      /\ power \in Nat
      /\ starts < MaxStarts => PowerOfTwo[starts + 1] = 2 * power
  <2>1. Len(me.text) \in Nat /\ Len(rest) \in Nat /\ Len(Encode(data)) \in Nat
    BY <1>1, EncodeType
  <2>2. power \in Nat
    BY <1>1, PowerIs
  <2>3. ASSUME starts < MaxStarts PROVE PowerOfTwo[starts + 1] = 2 * power
    <3>1. starts \in 0 .. MaxStarts - 1
      BY <1>1, <2>3
    <3>. QED BY <3>1, PowerIs
  <2>. QED BY <2>1, <2>2, <2>3
<1>3. ToCome \in Nat /\ now \in Nat
  <2>1. ToCome \in Nat
    BY <1>2 DEF ToCome
  <2>. QED BY <1>2, <2>1
<1>4. now <= most * power /\ power >= 1 /\ (pc # "off" => power >= 2)
  BY DEF RoomFor
<1>5. /\ most * power \in Nat
      /\ most * (2 * power) = 2 * (most * power)
      /\ power >= 2 => 2 * most <= most * power
  BY <1>2, Times
<1>6. /\ Len(me'.text) \in Nat /\ Len(rest') \in Nat /\ Len(Encode(data)') \in Nat
      /\ ToCome' \in Nat
  <2>1. /\ me'.text \in Seq(Unit) /\ rest' \in Seq(Unit) /\ data' \in Seq(Unit)
        /\ pc' \in {"off", "register", "key", "sent", "reconnect", "append",
                    "private", "decrypt"}
    BY DEF KeyInv, TypeOK
  <2>2. Len(me'.text) \in Nat /\ Len(rest') \in Nat /\ Len(Encode(data)') \in Nat
    BY <2>1, EncodeType DEF Encode
  <2>. QED BY <2>1, <2>2 DEF ToCome
<1>. HIDE DEF power
<1>7. ASSUME UNCHANGED starts, next <= now \/ (pc # "off" /\ next <= 2 * most),
             pc = "off" => pc' = "off"
      PROVE  RoomFor(most)'
  <2>1. power' = power
    BY <1>7 DEF power
  <2>2. pc' # "off" => power >= 2
    BY <1>4, <1>7
  <2>3. next <= most * power
    <3>1. CASE next <= now
      BY <1>3, <1>4, <1>5, <1>6, <3>1
    <3>2. CASE pc # "off" /\ next <= 2 * most
      BY <1>4, <1>5, <1>6, <3>2
    <3>. QED BY <1>7, <3>1, <3>2
  <2>. HIDE DEF next
  <2>4. next <= most * power' /\ power' >= 1 /\ (pc' # "off" => power' >= 2)
    BY <1>4, <2>1, <2>2, <2>3
  <2>. QED BY <2>4 DEF RoomFor, power, next
<1>8. ASSUME starts < MaxStarts, starts' = starts + 1, next <= 2 * now
      PROVE  RoomFor(most)'
  <2>1. power' = 2 * power
    BY <1>2, <1>8 DEF power
  <2>2. next <= most * (2 * power)
    <3>1. next \in Nat /\ next <= 2 * now
      BY <1>6, <1>8
    <3>. HIDE DEF now, next
    <3>2. next <= 2 * (most * power)
      BY <1>3, <1>4, <1>5, <3>1
    <3>. QED BY <1>5, <3>2
  <2>. HIDE DEF next
  <2>3. next <= most * power' /\ power' >= 1 /\ power' >= 2
    BY <1>2, <1>4, <2>1, <2>2
  <2>. QED BY <2>3 DEF RoomFor, power, next
<1>9. CASE StartNew
  <2>1. /\ Len(me'.text) = Len(me.text) /\ ToCome' = 0
        /\ starts < MaxStarts /\ starts' = starts + 1
    BY <1>9 DEF StartNew, Start, ToCome
  <2>. QED BY <1>2, <1>3, <1>8, <2>1
<1>10. CASE StartKnown
  <2>1. /\ Len(me'.text) = Len(me.text)
        /\ starts < MaxStarts /\ starts' = starts + 1
        /\ ToCome' = Len(Encode(Decode(me.text)))
    BY <1>10 DEF StartKnown, Start, ToCome, Encode
  <2>2. ToCome' <= Len(me.text)
    BY <1>1, <2>1, CodeAgain
  <2>3. next <= 2 * now
    <3>1. \A l, a, b \in Nat : b <= l => 2 * (l + b) <= 2 * (2 * (l + a))
      OBVIOUS
    <3>2. 2 * (Len(me.text) + ToCome') <= 2 * (2 * (Len(me.text) + ToCome))
      BY <1>2, <1>3, <1>6, <2>2, <3>1
    <3>. QED BY <2>1, <3>2
  <2>. QED BY <1>8, <2>1, <2>3
<1>11. CASE Registered
  <2>1. Len(me'.text) = 0 /\ ToCome' = 0 /\ UNCHANGED starts /\ pc # "off"
    BY <1>11 DEF Registered, ToCome
  <2>. QED BY <1>3, <1>7, <2>1
<1>12. CASE SendPublicKey
  <2>1. UNCHANGED <<me, starts>> /\ ToCome' = 0 /\ pc # "off"
    BY <1>12 DEF SendPublicKey, ToCome
  <2>. QED BY <1>2, <1>3, <1>7, <2>1
<1>13. CASE Denied
  <2>1. UNCHANGED <<me, starts>> /\ ToCome' = 0 /\ pc # "off"
    BY <1>13 DEF Denied, ToCome
  <2>. QED BY <1>2, <1>3, <1>7, <2>1
<1>14. CASE KeyReceived
  <2>1. UNCHANGED <<me, starts>> /\ ToCome' = Len(Encode(data)) /\ pc # "off"
    BY <1>14 DEF KeyReceived, ToCome
  <2>2. CASE pc = "reconnect"
    <3>1. ToCome = Len(Encode(data))
      BY <2>2 DEF ToCome
    <3>. QED BY <1>7, <2>1, <3>1
  <2>3. CASE pc = "sent"
    <3>1. PICK size \in Sizes : data = Save(sent, size)
      BY <2>3 DEF KeyInv, MemoryHasKey
    <3>2. sent \in Nat /\ Len(me.text) = 0
      BY <2>3 DEF KeyInv, MeInfoHasKey, TypeOK
    <3>3. ToCome' <= most
      BY <2>1, <3>1, <3>2
    <3>. QED BY <1>6, <1>7, <2>1, <3>2, <3>3
  <2>. QED BY <1>14, <2>2, <2>3 DEF KeyReceived
<1>15. CASE AppendToMeInfo
  <2>1. pc = "append" /\ ToCome = Len(rest) /\ UNCHANGED starts
    BY <1>15 DEF AppendToMeInfo, ToCome
  <2>2. Len(me'.text) + ToCome' <= Len(me.text) + Len(rest)
    <3>1. /\ Written \in 0 .. Len(rest)
          /\ Len(SubSeq(rest, 1, Written)) = Written
          /\ Len(SubSeq(rest, Written + 1, Len(rest))) = Len(rest) - Written
          /\ Len(me.text \o SubSeq(rest, 1, Written)) = Len(me.text) + Written
      BY <1>1, WrittenLengths
    <3>2. me'.text = me.text \o SubSeq(rest, 1, Written)
      BY <1>15 DEF AppendToMeInfo, KeyInv, TypeOK
    <3>3. ToCome' = 0 \/ ToCome' = Len(SubSeq(rest, Written + 1, Len(rest)))
      BY <1>15 DEF AppendToMeInfo, ToCome
    <3>4. ToCome' = 0 \/ ToCome' = Len(rest) - Written
      BY <3>1, <3>3
    <3>5. Len(me'.text) = Len(me.text) + Written
      BY <3>1, <3>2
    <3>6. Written \in Nat /\ Written <= Len(rest)
      BY <1>2, <3>1
    <3>. QED BY <1>2, <3>4, <3>5, <3>6
  <2>. QED BY <1>6, <1>7, <2>1, <2>2
<1>16. CASE WritePrivate
  <2>1. UNCHANGED <<me, starts>> /\ ToCome' = 0 /\ pc # "off"
    BY <1>16 DEF WritePrivate, ToCome
  <2>. QED BY <1>2, <1>3, <1>7, <2>1
<1>17. CASE Return
  <2>1. UNCHANGED <<me, starts>> /\ ToCome' = 0 /\ pc # "off"
    BY <1>17 DEF Return, ToCome
  <2>. QED BY <1>2, <1>3, <1>7, <2>1
<1>18. CASE Kill
  <2>1. /\ Len(me'.text) <= Len(me.text) /\ ToCome' = 0 /\ UNCHANGED starts
        /\ pc # "off"
    BY <1>2, <1>18 DEF Kill, ToCome
  <2>. QED BY <1>2, <1>3, <1>6, <1>7, <2>1
<1>19. CASE Rest \/ UNCHANGED vars
  <2>1. UNCHANGED <<pc, me, rest, data, starts>>
    BY <1>19 DEF Rest, vars
  <2>2. ToCome' = ToCome /\ Len(me'.text) = Len(me.text)
    BY <2>1 DEF ToCome, Encode
  <2>. QED BY <1>3, <1>7, <2>1, <2>2
<1>. QED BY <1>9, <1>10, <1>11, <1>12, <1>13, <1>14, <1>15, <1>16, <1>17, <1>18,
            <1>19 DEF Next

Largest(size) == size \in Sizes /\ \A n \in Sizes : n <= size

UnitsInText(size) == Len(Encode(Save(1, size)))

Room == \A largest \in Sizes : Largest(largest) => RoomFor(UnitsInText(largest))

LEMMA RoomInit == Init => Room
<1>. SUFFICES ASSUME Init, NEW largest \in Sizes PROVE RoomFor(UnitsInText(largest))
  BY DEF Room
<1>1. UnitsInText(largest) \in Nat
  BY SaveType, EncodeType DEF UnitsInText
<1>2. Len(me.text) = 0 /\ ToCome = 0 /\ pc = "off" /\ PowerOfTwo[starts] = 1
  BY PowerIs DEF Init, ToCome
<1>. QED BY <1>1, <1>2 DEF RoomFor

LEMMA RoomKept == KeyInv /\ KeyInv' /\ Room /\ [Next]_vars => Room'
<1>. SUFFICES ASSUME KeyInv, KeyInv', Room, [Next]_vars,
                     NEW largest \in Sizes, Largest(largest)
              PROVE  RoomFor(UnitsInText(largest))'
  BY DEF Room, Largest, UnitsInText, Encode, Save
<1>. DEFINE most == UnitsInText(largest)
<1>1. most \in Nat
  BY SaveType, EncodeType DEF UnitsInText
<1>2. \A size \in Sizes, key \in Nat : Len(Encode(Save(key, size))) <= most
  BY SmallerText DEF Largest, UnitsInText
<1>3. RoomFor(most)
  BY DEF Room
<1>. HIDE DEF most
<1>4. RoomFor(most)'
  BY <1>1, <1>2, <1>3, RoomStep
<1>. QED BY <1>4 DEF most

LEMMA RoomDoubles == KeyInv /\ Room => Doubles
<1>. SUFFICES ASSUME KeyInv, Room, NEW largest \in Sizes, Largest(largest)
              PROVE  2 * Len(me.text) <= UnitsInText(largest) * PowerOfTwo[starts]
  BY DEF Doubles, Largest, UnitsInText
<1>1. /\ me.text \in Seq(Unit) /\ rest \in Seq(Unit) /\ data \in Seq(Unit)
      /\ starts \in 0 .. MaxStarts
  BY DEF KeyInv, TypeOK
<1>2. PowerOfTwo[starts] \in Nat /\ Len(Encode(data)) \in Nat
  <2>1. PowerOfTwo[starts] \in Nat
    BY <1>1, PowerIs
  <2>. QED BY <1>1, <2>1, EncodeType
<1>3. UnitsInText(largest) \in Nat
  BY SaveType, EncodeType DEF UnitsInText
<1>4. Len(me.text) \in Nat /\ ToCome \in Nat
  BY <1>1, <1>2 DEF ToCome
<1>5. UnitsInText(largest) * PowerOfTwo[starts] \in Nat
  BY <1>2, <1>3, Times
<1>6. 2 * (Len(me.text) + ToCome) <= UnitsInText(largest) * PowerOfTwo[starts]
  BY DEF Room, RoomFor
<1>7. \A l, t, m \in Nat : 2 * (l + t) <= m => 2 * l <= m
  OBVIOUS
<1>. QED BY <1>4, <1>5, <1>6, <1>7

\* Every run at most doubles the key text of me.info, and the first one writes
\* the text of one key.
THEOREM KeyTextDoubles == Spec => []Doubles
BY RoomInit, RoomKept, RoomDoubles, KeyFileCorrect, PTL DEF Spec
=============================================================================
