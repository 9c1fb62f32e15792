------------------------------- MODULE KeyFile -------------------------------
(***************************************************************************)
(* How the client keeps its RSA private key: the text of me.info and       *)
(* priv.key, through registrations, reconnections and kills.               *)
(*                                                                         *)
(* Every reconnection decodes all of the text that follows the identifier  *)
(* in me.info, and appends the encoding of what it decoded.  A text is a   *)
(* sequence of units of two bits: a character of base64 has three of them, *)
(* a byte four, and so an appended text does not start where the bytes of  *)
(* the text before it ended.  The decoder skips line breaks and padding.   *)
(***************************************************************************)
EXTENDS Naturals, Sequences

CONSTANTS
    Sizes,      \* the sizes in bytes that the DER form of a private key may have
    BufferSize, \* the characters that a file stream writes at once
    MaxStarts   \* bound: how often the program is started

UnitsOfByte == 4
UnitsOfChar == 3

\* The text of one key fits in the buffer of a file stream.
ASSUME KeyFileAssumption ==
    /\ Sizes \subseteq Nat \ {0}
    /\ BufferSize \in Nat \ {0}
    /\ \A n \in Sizes : UnitsOfByte * n <= UnitsOfChar * BufferSize
    /\ MaxStarts \in Nat

VARIABLES
    pc,     \* what the process is busy with, or "off"
    me,     \* the file me.info: does it exist, its identifier, its key text
    priv,   \* the text of the file priv.key
    data,   \* the bytes of the private key in memory
    rest,   \* the text that is still to be written to the open file
    keys,   \* how many RSA pairs were generated
    sent,   \* the pair whose public half the server has for the identifier
    starts  \* how often the program was started

vars == <<pc, me, priv, data, rest, keys, sent, starts>>

-----------------------------------------------------------------------------
(***************************************************************************)
(* Keys and texts.  A unit says which key it is part of, where, and of how *)
(* many units: the DER form begins with its length, so that Load() takes a *)
(* key from the front of the bytes and ignores the bytes that follow.      *)
(***************************************************************************)
NoKey == 0

Zero == [key |-> NoKey, at |-> 0, of |-> 0]

Unit == [key : Nat, at : Nat, of : Nat]

Save(key, size) ==
    LET n == UnitsOfByte * size
    IN  [i \in 1 .. n |-> [key |-> key, at |-> i, of |-> n]]

\* MUTANT of Encode: the units of an unfinished character are not written.
EncodeUnpadded(bytes) == bytes

\* The last character is filled up with zero bits.
Encode(bytes) ==
    bytes \o [i \in 1 .. (2 * Len(bytes)) % UnitsOfChar |-> Zero]

\* The bits of an unfinished byte are dropped.
Decode(text) == SubSeq(text, 1, Len(text) - (Len(text) % UnitsOfByte))

Load(bytes) ==
    IF /\ bytes # << >>
       /\ bytes[1].of <= Len(bytes)
       /\ \A i \in 1 .. bytes[1].of :
             bytes[i] = [key |-> bytes[1].key, at |-> i, of |-> bytes[1].of]
    THEN bytes[1].key
    ELSE NoKey

Written == IF Len(rest) < UnitsOfChar * BufferSize
           THEN Len(rest) ELSE UnitsOfChar * BufferSize

-----------------------------------------------------------------------------
(***************************************************************************)
(* The program.                                                            *)
(***************************************************************************)
Init ==
    /\ pc = "off"
    /\ me = [exists |-> FALSE, id |-> 0, text |-> << >>]
    /\ priv = << >>
    /\ data = << >>
    /\ rest = << >>
    /\ keys = 0
    /\ sent = NoKey
    /\ starts = 0

Start(next) ==
    /\ pc = "off"
    /\ starts < MaxStarts
    /\ starts' = starts + 1
    /\ pc' = next

StartNew ==
    /\ ~me.exists
    /\ Start("register")
    /\ UNCHANGED <<me, priv, data, rest, keys, sent>>

\* Without an identifier or a key in me.info, the start fails with an exception.
StartKnown ==
    /\ me.id # 0
    /\ Load(Decode(me.text)) # NoKey
    /\ Start("reconnect")
    /\ data' = Decode(me.text)
    /\ UNCHANGED <<me, priv, rest, keys, sent>>

\* MUTANT of Registered: me.info is opened in append mode, and its first two
\* lines replaced.
RegisteredInPlace ==
    /\ pc = "register"
    /\ me' = [exists |-> TRUE, id |-> starts, text |-> me.text]
    /\ pc' = "key"
    /\ sent' = NoKey
    /\ UNCHANGED <<priv, data, rest, keys, starts>>

\* 1600: me.info is written anew.
Registered ==
    /\ pc = "register"
    /\ me' = [exists |-> TRUE, id |-> starts, text |-> << >>]
    /\ pc' = "key"
    /\ sent' = NoKey
    /\ UNCHANGED <<priv, data, rest, keys, starts>>

\* 826: a pair is generated and its public half sent.
SendPublicKey ==
    /\ pc = "key"
    /\ \E size \in Sizes : data' = Save(keys + 1, size)
    /\ keys' = keys + 1
    /\ sent' = keys'
    /\ pc' = "sent"
    /\ UNCHANGED <<me, priv, rest, starts>>

\* 1606: the user is registered as a new one.
Denied ==
    /\ pc = "reconnect"
    /\ pc' = "register"
    /\ UNCHANGED <<me, priv, data, rest, keys, sent, starts>>

\* MUTANT of KeyReceived: what me.info holds already is not left out.
KeyReceivedTwice ==
    /\ pc \in {"sent", "reconnect"}
    /\ rest' = Encode(data \o data)
    /\ pc' = "append"
    /\ UNCHANGED <<me, priv, data, keys, sent, starts>>

\* 1602 or 1605, with an AES key that is encrypted for the pair sent.
KeyReceived ==
    /\ pc \in {"sent", "reconnect"}
    /\ rest' = Encode(data)
    /\ pc' = "append"
    /\ UNCHANGED <<me, priv, data, keys, sent, starts>>

\* One write() of the stream that appends to me.info; after the last one
\* priv.key is opened, which empties it.
AppendToMeInfo ==
    /\ pc = "append"
    /\ me' = [me EXCEPT !.text = @ \o SubSeq(rest, 1, Written)]
    /\ IF Written = Len(rest)
       THEN pc' = "private" /\ priv' = << >> /\ rest' = Encode(data)
       ELSE /\ rest' = SubSeq(rest, Written + 1, Len(rest))
            /\ UNCHANGED <<pc, priv>>
    /\ UNCHANGED <<data, keys, sent, starts>>

\* MUTANT of WritePrivate: the last buffer of priv.key is not flushed.
WritePrivateUnflushed ==
    /\ pc = "private"
    /\ IF Written = Len(rest)
       THEN pc' = "decrypt" /\ rest' = << >> /\ UNCHANGED priv
       ELSE /\ rest' = SubSeq(rest, Written + 1, Len(rest))
            /\ priv' = priv \o SubSeq(rest, 1, Written)
            /\ UNCHANGED pc
    /\ UNCHANGED <<me, data, keys, sent, starts>>

WritePrivate ==
    /\ pc = "private"
    /\ priv' = priv \o SubSeq(rest, 1, Written)
    /\ rest' = SubSeq(rest, Written + 1, Len(rest))
    /\ pc' = IF Written = Len(rest) THEN "decrypt" ELSE "private"
    /\ UNCHANGED <<me, data, keys, sent, starts>>

\* The key that the AES key is decrypted with: encoded, decoded and loaded.
Decryptor == Load(Decode(Encode(data)))

\* The AES key is decrypted, and used until the run ends; or an exception ends
\* the run, as it does when a request is not answered.
Return ==
    /\ pc \in {"register", "key", "sent", "reconnect", "decrypt"}
    /\ pc' = "off"
    /\ data' = << >>
    /\ UNCHANGED <<me, priv, rest, keys, sent, starts>>

\* The process is killed; if it was writing me.info for a registration, the
\* file may be left empty.
Kill ==
    /\ pc # "off"
    /\ pc' = "off"
    /\ data' = << >>
    /\ rest' = << >>
    /\ \/ UNCHANGED me
       \/ /\ pc = "register"
          /\ me' = [exists |-> TRUE, id |-> 0, text |-> << >>]
    /\ UNCHANGED <<priv, keys, sent, starts>>

\* The program is not started again.
Rest == pc = "off" /\ UNCHANGED vars

Next ==
    \/ StartNew \/ StartKnown \/ Registered \/ SendPublicKey \/ Denied
    \/ KeyReceived \/ AppendToMeInfo \/ WritePrivate \/ Return \/ Kill \/ Rest

Spec == Init /\ [][Next]_vars

-----------------------------------------------------------------------------
\* The files hold whole characters, and the memory whole bytes.
TypeOK ==
    /\ pc \in {"off", "register", "key", "sent", "reconnect", "append",
               "private", "decrypt"}
    /\ me \in [exists : BOOLEAN, id : 0 .. starts, text : Seq(Unit)]
    /\ \A text \in {me.text, priv, rest} :
          text \in Seq(Unit) /\ Len(text) % UnitsOfChar = 0
    /\ data \in Seq(Unit) /\ Len(data) % UnitsOfByte = 0
    /\ keys \in 0 .. starts
    /\ sent \in 0 .. keys
    /\ starts \in 0 .. MaxStarts

\* The first key in me.info, if it is readable, is the one whose public half
\* the server got for the identifier there: not one of an earlier registration,
\* and not a mixture of keys, though each reconnection appends all keys again
\* at another offset of bits and may be killed in the middle of the writing.
KeyIsTheOneSent == Load(Decode(me.text)) \in {NoKey, sent}

\* hundlePrivateKey leaves the same key in me.info and in priv.key, and it is
\* the one that the AES key is decrypted with, and the next run loads.
FilesHaveTheKey ==
    pc = "decrypt" =>
        /\ Load(Decode(me.text)) = sent
        /\ Load(Decode(priv)) = sent
        /\ Decryptor = sent

\* The powers of two, in a form that can be reasoned about.
PowerOfTwo[n \in 0 .. MaxStarts] == IF n = 0 THEN 1 ELSE 2 * PowerOfTwo[n - 1]

\* hundlePrivateKey appends what it was given, all of the text before it when
\* the user reconnects: the file doubles, and no more than that.
Doubles ==
    \A largest \in Sizes :
        (\A n \in Sizes : n <= largest) =>
            2 * Len(me.text) <= Len(Encode(Save(1, largest))) * PowerOfTwo[starts]

-----------------------------------------------------------------------------
(***************************************************************************)
(* The inductive invariant.                                                *)
(***************************************************************************)
\* These units begin with all units of the pair whose public half was sent.
BeginsWithKey(units) ==
    \E size \in Sizes :
        /\ UnitsOfByte * size <= Len(units)
        /\ \A i \in 1 .. UnitsOfByte * size : units[i] = Save(sent, size)[i]

\* A run generates one pair at the most.
PairIsToCome == pc \in {"register", "key", "reconnect"} => keys < starts

\* me.info begins with the key, unless it has no key yet: the first write() of
\* a text that is not there yet has all of the key.
MeInfoHasKey ==
    /\ me.text = << >> \/ BeginsWithKey(me.text)
    /\ pc \in {"key", "sent"} => me.text = << >>
    /\ pc = "append" =>
          /\ BeginsWithKey(me.text \o rest)
          /\ me.text = << >> => Len(rest) <= UnitsOfChar * BufferSize
    /\ pc \in {"reconnect", "private", "decrypt"} => BeginsWithKey(me.text)

\* The bytes in memory begin with the key from its generation on, or from the
\* start that reads it, and priv.key is going to have all of them.
MemoryHasKey ==
    /\ pc \in {"sent", "reconnect", "append", "private", "decrypt"} =>
          BeginsWithKey(data)
    /\ pc = "sent" => \E size \in Sizes : data = Save(sent, size)
    /\ pc \in {"private", "decrypt"} => priv \o rest = Encode(data)
    /\ pc = "decrypt" => rest = << >>

\* Together they are inductive, and KeyIsTheOneSent and FilesHaveTheKey follow.
KeyInv == TypeOK /\ PairIsToCome /\ MeInfoHasKey /\ MemoryHasKey
=============================================================================
