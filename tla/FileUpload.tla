----------------------------- MODULE FileUpload -----------------------------
(***************************************************************************)
(* Inside one request 828: the client cuts the encrypted file into packets *)
(* and writes them one after another; the server reads a header and the    *)
(* first packet, then headers and packets until the number of the packet   *)
(* is the total that the first one named.                                  *)
(*                                                                         *)
(* TCP carries bytes, not packets: recv(n) of the server returns what has  *)
(* arrived, at most n bytes, and the server never asks for the rest.  A    *)
(* byte of the stream is named by its packet and its place in it, so that  *)
(* a read that is out of step with the packets is seen to be.              *)
(***************************************************************************)
EXTENDS Naturals, Sequences

CONSTANTS
    HEADER_SIZE, PAYLOAD_SIZE,   \* the last bytes of a header: payload_size
    NUMBER_PLACE, CODE_SIZE,     \* packetNumber, then totalPackets
    FILE_NAME_SIZE,
    MESSAGE_CONTENT_SIZE,        \* the most of the cipher that a packet has
    FileSizes,    \* the lengths that the file may have
    BLOCKSIZE,    \* the bytes of a block of AES
    Modulus,      \* packet numbers and their total are kept modulo 2^16
    Window,       \* bytes that fit between a write() and the recv()s
    Kills         \* may the client process be killed?

Sizes == {HEADER_SIZE, PAYLOAD_SIZE, CODE_SIZE, MESSAGE_CONTENT_SIZE, BLOCKSIZE,
          Window}

ASSUME SizesAssumption ==
    /\ Sizes \cup FileSizes \subseteq Nat \ {0}
    /\ {NUMBER_PLACE, FILE_NAME_SIZE} \subseteq Nat
    /\ PAYLOAD_SIZE <= HEADER_SIZE
    /\ Modulus \in Nat \ {0, 1}
    /\ Kills \in BOOLEAN

VARIABLES
    cipherSize, \* the length of encryptedContent
    client,     \* what runFileSendingRequest is doing
    packet,     \* the packet that it is writing
    unsent,     \* the bytes of it that write() has not handed over yet
    stream,     \* the bytes that were written and not received
    step,       \* what the server does with this connection
    size,       \* payload_size of the header it read last
    number,     \* packet_number
    total,      \* total_packets
    cipher,     \* complete_cipher
    taken,      \* history: the packets whose payloads were taken, 0 for another
    short       \* history: a recv() cut the stream within a packet

clientVars == <<client, packet, unsent>>
serverVars == <<step, size, number, total, cipher, taken>>
vars == <<cipherSize, clientVars, stream, serverVars, short>>

Smaller(m, n) == IF m < n THEN m ELSE n

(***************************************************************************)
(* The packets.                                                            *)
(***************************************************************************)
\* contentSize, origFileSize, packetNumber, totalPackets, fileName
FixedSize == NUMBER_PLACE + 2 * CODE_SIZE + FILE_NAME_SIZE

\* AES in CBC mode fills the last block up, or adds one: a byte at least.
encrypt(length) == (length \div BLOCKSIZE + 1) * BLOCKSIZE

CipherSizes == {encrypt(length) : length \in FileSizes}

TotalPackets == cipherSize \div MESSAGE_CONTENT_SIZE
                + (IF cipherSize % MESSAGE_CONTENT_SIZE = 0 THEN 0 ELSE 1)

ContentOf(p) ==
    Smaller(MESSAGE_CONTENT_SIZE, cipherSize - (p - 1) * MESSAGE_CONTENT_SIZE)

PayloadOf(p) == FixedSize + ContentOf(p)

\* The bytes of packet p at the places from first to last of the message.
Slice(p, first, last) == [i \in 1 .. last - first + 1 |-> <<p, first + i - 1>>]

Message(p) == Slice(p, 1, HEADER_SIZE + PayloadOf(p))
Content(p) == Slice(p, HEADER_SIZE + FixedSize + 1, HEADER_SIZE + PayloadOf(p))

\* A 16-bit packet number, as toLittleEndian16 takes it.
Number(n) == n % Modulus

\* The packet that these bytes are the field of, at its place; none if they were
\* read from somewhere else, and then the number in the field may be any.
FieldOf(bytes, first) ==
    {p \in 1 .. TotalPackets : bytes = Slice(p, first, first + Len(bytes) - 1)}

\* header[payload_size_place : payload_size_place + PAYLOAD_SIZE]; a number too
\* large for the stream asks for all of it, like Window.
SizesIn(header) ==
    LET place == HEADER_SIZE - PAYLOAD_SIZE + 1
        field == FieldOf(SubSeq(header, place, HEADER_SIZE), place)
    IN IF field = {} THEN 0 .. Window ELSE {PayloadOf(p) : p \in field}

\* payload[packet_number_place : packet_number_place + PACKET_NUMBER_SIZE]
NumbersIn(payload) ==
    LET bytes == SubSeq(payload, NUMBER_PLACE + 1, NUMBER_PLACE + CODE_SIZE)
        field == FieldOf(bytes, HEADER_SIZE + NUMBER_PLACE + 1)
    IN IF field = {} THEN 0 .. Modulus - 1 ELSE {Number(p) : p \in field}

(***************************************************************************)
(* The client.                                                             *)
(***************************************************************************)
Gone == client \in {"done", "killed"}

\* The server has closed the connection, or its process has ended and so has it.
Ended == step \in {"closed", "died"}

\* MUTANT of AfterPacket: the loop of runFileSendingRequest goes once too often.
AfterPacketTooFar ==
    IF packet <= TotalPackets
    THEN packet' = packet + 1 /\ unsent' = Message(packet + 1) /\ UNCHANGED client
    ELSE client' = "read" /\ unsent' = << >> /\ UNCHANGED packet

\* MUTANT of AfterPacket: the packet is counted, and the one before it sent again.
AfterPacketAgain ==
    IF packet < TotalPackets
    THEN packet' = packet + 1 /\ unsent' = Message(packet) /\ UNCHANGED client
    ELSE client' = "read" /\ unsent' = << >> /\ UNCHANGED packet

\* The next packet; after the last one the client reads until the server closes.
AfterPacket ==
    IF packet < TotalPackets
    THEN packet' = packet + 1 /\ unsent' = Message(packet + 1) /\ UNCHANGED client
    ELSE client' = "read" /\ unsent' = << >> /\ UNCHANGED packet

\* write() hands over some of the packet, as far as there is room.
Write ==
    /\ client = "write"
    /\ ~Ended
    /\ \E n \in 1 .. Smaller(Len(unsent), Window - Len(stream)) :
         /\ stream' = stream \o SubSeq(unsent, 1, n)
         /\ IF n < Len(unsent)
            THEN /\ unsent' = SubSeq(unsent, n + 1, Len(unsent))
                 /\ UNCHANGED <<client, packet>>
            ELSE AfterPacket
    /\ UNCHANGED <<cipherSize, serverVars, short>>

\* The answer, the end of the connection or its reset ends write() and read().
Finish ==
    /\ client \in {"write", "read"}
    /\ Ended
    /\ client' = "done"
    /\ UNCHANGED <<cipherSize, packet, unsent, stream, serverVars, short>>

Killed ==
    /\ Kills
    /\ ~Gone
    /\ client' = "killed"
    /\ UNCHANGED <<cipherSize, packet, unsent, stream, serverVars, short>>

(***************************************************************************)
(* The server.                                                             *)
(***************************************************************************)
\* The stream ends where a header would begin.
EndsHere == stream = << >> /\ step \in {"accept", "header"}

\* recv(n) returns at once for n = 0 and after the end of the connection, and
\* waits for the first byte otherwise.  It is short if it returns fewer bytes,
\* other than none at all in the place of a header.
Recv(n) ==
    /\ n = 0 \/ stream # << >> \/ Gone
    /\ stream' = SubSeq(stream, n + 1, Len(stream))
    /\ short' = (short \/ (Len(stream) < n /\ ~EndsHere))

Bytes(n) == SubSeq(stream, 1, Smaller(n, Len(stream)))

\* MUTANT of LoopTest: the loop goes on while packet_number <= total_packets.
LoopOnceMore(n, m) == step' = IF n <= m THEN "header" ELSE "respond"

\* MUTANT of LoopTest: the loop stops one packet early.
LoopOnceLess(n, m) == step' = IF n + 1 < m THEN "header" ELSE "respond"

LoopTest(n, m) == step' = IF n < m THEN "header" ELSE "respond"

\* start_server reads a header and leaves the connection if it is not complete.
ReceiveHeader ==
    /\ step = "accept"
    /\ Recv(HEADER_SIZE)
    /\ IF Len(Bytes(HEADER_SIZE)) < HEADER_SIZE
       THEN step' = "closed" /\ UNCHANGED size
       ELSE step' = "data" /\ size' \in SizesIn(Bytes(HEADER_SIZE))
    /\ UNCHANGED <<cipherSize, clientVars, number, total, cipher, taken>>

\* The packet whose payload this is, from its first byte to its last.
WholePacket(payload) ==
    {p \in FieldOf(payload, HEADER_SIZE + 1) : Len(payload) = PayloadOf(p)}

\* The history of what was taken, whichever packet it was; it ends with the first
\* recv() that is short.
Record(payload) ==
    IF short' THEN UNCHANGED taken
    ELSE IF WholePacket(payload) = {}
    THEN taken' = Append(taken, 0)
    ELSE \E p \in WholePacket(payload) : taken' = Append(taken, p)

\* MUTANT of Take: the slice of the content is one byte off.
TakeOneOff(payload) ==
    /\ cipher' = cipher \o SubSeq(payload, FixedSize + 2, Len(payload))
    /\ Record(payload)

\* complete_cipher += payload[complete_cipher_place:]
Take(payload) ==
    /\ cipher' = cipher \o SubSeq(payload, FixedSize + 1, Len(payload))
    /\ Record(payload)

\* A field that is not there raises in struct.unpack, which nobody catches.
Raise == step' = "died" /\ UNCHANGED <<number, total, cipher, taken>>

\* handle_data
ReceiveFirst ==
    /\ step = "data"
    /\ Recv(size)
    /\ LET payload == Bytes(size) IN
       IF Len(payload) < NUMBER_PLACE + 2 * CODE_SIZE
       THEN Raise
       ELSE /\ number' = Number(1)
            /\ total' = Number(TotalPackets)
            /\ Take(payload)
            /\ LoopTest(number', total')
    /\ UNCHANGED <<cipherSize, clientVars, size>>


\* get_complete_cipher: a header; the loop ends where the stream has ended.
NextHeader ==
    /\ step = "header"
    /\ Recv(HEADER_SIZE)
    /\ LET header == Bytes(HEADER_SIZE) IN
       \/ header = << >> /\ step' = "respond" /\ UNCHANGED size
       \/ Len(header) \in 1 .. HEADER_SIZE - 1 /\ step' = "died" /\ UNCHANGED size
       \/ Len(header) = HEADER_SIZE /\ step' = "payload" /\ size' \in SizesIn(header)
    /\ UNCHANGED <<cipherSize, clientVars, number, total, cipher, taken>>

\* get_complete_cipher: the packet that belongs to it.
NextPacket ==
    /\ step = "payload"
    /\ Recv(size)
    /\ LET payload == Bytes(size) IN
       IF Len(payload) < NUMBER_PLACE + CODE_SIZE
       THEN Raise
       ELSE /\ number' \in NumbersIn(payload)
            /\ UNCHANGED total
            /\ Take(payload)
            /\ LoopTest(number', total)
    /\ UNCHANGED <<cipherSize, clientVars, size>>

\* The cipher is decrypted, the response sent and the connection closed, with
\* what else has arrived on it.
Respond ==
    /\ step = "respond"
    /\ step' = "closed"
    /\ UNCHANGED <<cipherSize, clientVars, stream, size, number, total, cipher,
                   taken, short>>

-----------------------------------------------------------------------------
Init ==
    /\ cipherSize \in CipherSizes
    /\ client = "write"
    /\ packet = 1
    /\ unsent = Message(1)
    /\ stream = << >>
    /\ step = "accept"
    /\ size = 0
    /\ number = 0
    /\ total = 0
    /\ cipher = << >>
    /\ taken = << >>
    /\ short = FALSE

ClientNext == Write \/ Finish

ServerNext ==
    ReceiveHeader \/ ReceiveFirst \/ NextHeader \/ NextPacket \/ Respond

\* Both sides are done with the connection.
Rest == Gone /\ Ended /\ UNCHANGED vars

\* After a short recv() the server may wait for bytes that the client has sent
\* already, and the client for the answer.
Stuck ==
    /\ short
    /\ client = "read"
    /\ stream = << >>
    /\ step \in {"data", "header", "payload"}
    /\ UNCHANGED vars

Next == ClientNext \/ Killed \/ ServerNext \/ Rest \/ Stuck

Spec == Init /\ [][Next]_vars /\ WF_vars(ClientNext) /\ WF_vars(ServerNext)

-----------------------------------------------------------------------------
Byte == (1 .. TotalPackets)
            \X (1 .. HEADER_SIZE + FixedSize + MESSAGE_CONTENT_SIZE)

\* Every variable has its type, and the buffers between the two are bounded.
TypeOK ==
    /\ cipherSize \in CipherSizes
    /\ client \in {"write", "read", "done", "killed"}
    /\ packet \in 1 .. TotalPackets
    /\ unsent \in Seq(Byte)
    /\ stream \in Seq(Byte) /\ Len(stream) <= Window
    /\ step \in {"accept", "data", "header", "payload", "respond", "closed",
                 "died"}
    /\ size \in Nat
    /\ number \in 0 .. Modulus - 1 /\ total \in 0 .. Modulus - 1
    /\ cipher \in Seq(Byte)
    /\ taken \in Seq(0 .. TotalPackets)
    /\ short \in BOOLEAN

\* The packet at which the loop of get_complete_cipher stops: the last one,
\* unless the total does not fit into 16 bits.
LastPacket == IF Number(TotalPackets) = 0 THEN 1 ELSE Number(TotalPackets)

\* The contents of the first n packets.
Contents(n) ==
    [i \in 1 .. Smaller(cipherSize, n * MESSAGE_CONTENT_SIZE) |->
        LET p == (i - 1) \div MESSAGE_CONTENT_SIZE + 1
        IN  Content(p)[i - (p - 1) * MESSAGE_CONTENT_SIZE]]

\* As long as no recv() cut a packet, the cipher that get_complete_cipher returns
\* is, byte for byte, that of the packets up to LastPacket (below 2^16 packets,
\* all of it), or, if the client was killed before it had written them, that of
\* the packets it had written, none of them in part.
CipherIsAssembled ==
    step = "respond" /\ ~short =>
        \E n \in 1 .. LastPacket :
            /\ cipher = Contents(n)
            /\ n = LastPacket \/ client = "killed"


Transfer == INSTANCE PacketTransfer WITH
    last     <- LastPacket,
    broken   <- short \/ client = "killed",
    received <- IF short \/ client = "killed" THEN << >> ELSE taken

\* The first half of Transfer!Spec: what get_complete_cipher takes are the whole
\* payloads of the packets 1, 2, ... as runFileSendingRequest numbered them, none
\* twice, none out of order and none behind LastPacket, unless a recv() is short
\* or the client is killed.
TransfersPackets == Transfer!Steps

\* The other half: get_complete_cipher goes on until it has taken LastPacket.
TransferGoesOn == Transfer!Progress

\* A client that has written everything gets its answer, or an end of the
\* connection, as long as no recv() is short.
UploadAnswered == client = "read" ~> client # "read" \/ short

\* README.md:206: the server waits for requests and handles them; the upload of
\* a client that stays there ends.
UploadEnds == client = "read" ~> client # "read"

-----------------------------------------------------------------------------
(***************************************************************************)
(* The inductive invariant: as long as no recv() was short, the bytes that *)
(* are on their way follow those that the server has received.             *)
(***************************************************************************)
\* The bytes of a packet that is full, and the place of a byte in the upload.
PacketSize == HEADER_SIZE + FixedSize + MESSAGE_CONTENT_SIZE

Place(byte) == (byte[1] - 1) * PacketSize + byte[2]

\* These bytes are those of the upload that follow the first n.
Follow(bytes, n) == \A i \in 1 .. Len(bytes) : Place(bytes[i]) = n + i

Receiving == ~short /\ step \in {"accept", "data", "header", "payload"}

\* The bytes that the server has received: it is between two packets or behind
\* a header.
Received == (Len(taken) * PacketSize)
            + (IF step \in {"data", "payload"} THEN HEADER_SIZE ELSE 0)

StreamFollows ==
    Receiving =>
        /\ Follow(stream, Received)
        /\ client = "write" =>
              /\ unsent # << >>
              /\ Follow(unsent, Received + Len(stream))
              /\ Received + Len(stream) + Len(unsent)
                    = (packet - 1) * PacketSize + Len(Message(packet))

\* The size that was read is that of the packet which is there, and the numbers
\* agree with the packets taken, which are the first ones in their order.  Only a
\* killed client ends the loop early.
CountsMatch ==
    ~short =>
        /\ \A i \in 1 .. Len(taken) : taken[i] = i
        /\ client = "done" => step = "closed"
        /\ step \in {"accept", "data"} => taken = << >>
        /\ step \in {"data", "payload"} => /\ size = PayloadOf(Len(taken) + 1)
                                          /\ Len(taken) < TotalPackets
        /\ step \in {"header", "payload"} => /\ number = Len(taken)
                                            /\ total = Number(TotalPackets)
                                            /\ Len(taken) \in 1 .. LastPacket - 1
        /\ step = "respond" => /\ Len(taken) \in 1 .. LastPacket
                               /\ Len(taken) = LastPacket \/ client = "killed"
        /\ step # "died"

\* The cipher has the contents of the packets taken, in their order.
CipherHasContents ==
    ~short =>
        /\ Len(cipher) = Smaller(cipherSize, Len(taken) * MESSAGE_CONTENT_SIZE)
        /\ \A p \in 1 .. Len(taken) : \A i \in 1 .. ContentOf(p) :
              cipher[(p - 1) * MESSAGE_CONTENT_SIZE + i]
                  = <<p, HEADER_SIZE + FixedSize + i>>

\* Together they are inductive, and CipherIsAssembled follows.
UploadInv == TypeOK /\ StreamFollows /\ CountsMatch /\ CipherHasContents
=============================================================================
