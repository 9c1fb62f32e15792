------------------------------- MODULE Messages -------------------------------
(***************************************************************************)
(* How names, identifiers and numbers travel: from transfer.info and       *)
(* me.info through the fields of a request to the Python server, and from  *)
(* the fields of its response back to me.info and into the next request.   *)
(*                                                                         *)
(* One client whose user may edit transfer.info.  It runs on a little-     *)
(* endian machine, swaps the bytes of the numbers it sends, and those of   *)
(* the numbers it receives twice.  A byte has two digits: 16 values each   *)
(* in the code, Radix here.  Of the keys that follow the fields only       *)
(* remains whether me.info and the row have one; the upload is left out    *)
(* (FileUpload).                                                           *)
(***************************************************************************)
EXTENDS Naturals, SequencesExt

CONSTANTS
    Radix,           \* the values of a hexadecimal digit
    ID_SIZE,         \* the bytes of an identifier
    NAME_SIZE,       \* the bytes of the name field of a request
    PUBLIC_KEY_SIZE, \* the bytes of the public key, and
    AES_CIPHER_SIZE, \* of the encrypted AES key, that a payload size counts
    MAX_NAME,        \* the longest name that readTransferInfo takes
    Name,            \* the names that the user may write in transfer.info
    Path,            \* the name of the file to send
    Identifier,      \* the identifiers that the server may draw
    MaxRuns          \* bound: how often the program is started

Base == Radix * Radix
Byte == 0 .. Base - 1

VERSION == 3
VERSION_SIZE == 1
CODE_SIZE == 2
PAYLOAD_SIZE == 4
HEADER_SIZE == ID_SIZE + VERSION_SIZE + CODE_SIZE + PAYLOAD_SIZE
HEADER_SIZE_SERVER == VERSION_SIZE + CODE_SIZE + PAYLOAD_SIZE

\* What a byte counts by its place in a number, the lowest one first, and what
\* four bytes can count.
Weight == <<1, Base, Base * Base, Base * Base * Base>>
Limit  == Base * Base * Base * Base

\* The numbers fit their fields; names are text, so they hold no zero byte.
ASSUME MessagesAssumption ==
    /\ Radix \in Nat \ {0, 1} /\ Base * Base > 1607
    /\ {ID_SIZE, NAME_SIZE, PUBLIC_KEY_SIZE, AES_CIPHER_SIZE} \subseteq Nat \ {0}
    /\ NAME_SIZE + PUBLIC_KEY_SIZE < Limit
    /\ ID_SIZE + AES_CIPHER_SIZE < Limit
    /\ MAX_NAME \in 1 .. NAME_SIZE
    /\ Name \subseteq Seq(Byte \ {0})
    /\ Path \in Seq(Byte \ {0}) /\ Len(Path) <= NAME_SIZE
    /\ \A id \in Identifier : id \in Seq(Byte) /\ Len(id) = ID_SIZE
    /\ MaxRuns \in Nat

VARIABLES
    pc,       \* "off", a request is on its way, or a response is
    transfer, \* the name in the file transfer.info
    me,       \* the file me.info: its name, its identifier, has it a key
    info,     \* the vectors name and id of the client's TransferInfo
    attempt,  \* the retries of the registration
    wire,     \* the bytes on their way
    meant,    \* what their sender means by them
    table,    \* the rows of the table clients: the identifier of each name
    drawn,    \* the identifiers that the server has drawn, and
    keyed,    \* those whose rows were given a public key
    runs      \* how often the program was started

vars ==
    <<pc, transfer, me, info, attempt, wire, meant, table, drawn, keyed, runs>>

Zeros(n) == [i \in 1 .. n |-> 0]

-----------------------------------------------------------------------------
(***************************************************************************)
(* Numbers.                                                                *)
(***************************************************************************)
\* The bytes of an unsigned number in the client's memory, and the number that
\* bytes there are; struct.pack with '<'.
Memory(n, width) == [i \in 1 .. width |-> (n \div Weight[i]) % Base]

Number16(bytes) == bytes[1] + (Weight[2] * bytes[2])
Number32(bytes) ==
    bytes[1] + (Weight[2] * bytes[2]) + (Weight[3] * bytes[3])
        + (Weight[4] * bytes[4])

\* struct.unpack with '!': the first byte is the most significant one.
Unpack16(bytes) == Number16(Reverse(bytes))
Unpack32(bytes) == Number32(Reverse(bytes))

\* The bytes of a number in reverse order, by shifts and masks.
toLittleEndian16(n) == (n \div Base) + ((n % Base) * Base)

\* MUTANT of toLittleEndian32: the bytes in the middle stay where they are.
SwapOuterBytes(n) ==
    (n \div Weight[4]) + (((n \div Base) % Base) * Base)
        + (((n \div Weight[3]) % Base) * Weight[3]) + ((n % Base) * Weight[4])

toLittleEndian32(n) ==
    (n \div Weight[4]) + (((n \div Weight[3]) % Base) * Base)
        + (((n \div Base) % Base) * Weight[3]) + ((n % Base) * Weight[4])

\* The macros of the socket library, on a little-endian machine.
ntohs(n) == Unpack16(Memory(n, CODE_SIZE))
ntohl(n) == Unpack32(Memory(n, PAYLOAD_SIZE))

(***************************************************************************)
(* Text.                                                                   *)
(***************************************************************************)
\* Two digits of a byte, the higher one first; binascii.hexlify.
decodeByteCodeToHexString(bytes) ==
    [i \in 1 .. 2 * Len(bytes) |->
        IF i % 2 = 1 THEN bytes[(i + 1) \div 2] \div Radix
                     ELSE bytes[i \div 2] % Radix]

\* MUTANT of encodeHexStringToByteCode: the digits of a byte are exchanged.
LowDigitFirst(text) ==
    [i \in 1 .. Len(text) \div 2 |-> (text[2 * i] * Radix) + text[(2 * i) - 1]]

encodeHexStringToByteCode(text) ==
    [i \in 1 .. Len(text) \div 2 |-> (text[(2 * i) - 1] * Radix) + text[2 * i]]

\* The vector is cut off or filled up with zeros, and the text copied over it:
\* bytes that it holds and that the text does not reach stay.
encodeStringToByteCode(vector, text, size) ==
    [i \in 1 .. size |-> IF i <= Len(text)        THEN text[i]
                         ELSE IF i <= Len(vector) THEN vector[i]
                         ELSE 0]

\* Up to the first zero byte.
decodeByteCodeToString(vector) ==
    SubSeq(vector, 1,
           Min({i \in 1 .. Len(vector) : vector[i] = 0} \union {Len(vector) + 1}) - 1)

\* str.rstrip('\x00'): up to the last byte that is not zero.
RStrip(bytes) ==
    SubSeq(bytes, 1, Max({i \in 1 .. Len(bytes) : bytes[i] # 0} \union {0}))

(***************************************************************************)
(* Messages.  The buffer is cleared first: a vector that is shorter than   *)
(* the field leaves zeros behind it.                                       *)
(***************************************************************************)
createBufferHeader(r) ==
    r.id \o Memory(r.version, VERSION_SIZE)
         \o Memory(toLittleEndian16(r.code), CODE_SIZE)
         \o Memory(toLittleEndian32(r.size), PAYLOAD_SIZE)

\* MUTANT of Request: the name is sent at the length of its vector.
RequestUnpadded(r) == createBufferHeader(r) \o r.name

Request(r) ==
    createBufferHeader(r) \o encodeStringToByteCode(r.name, r.name, NAME_SIZE)

RequestRead(bytes) ==
    LET code == ID_SIZE + VERSION_SIZE
        size == code + CODE_SIZE
    IN  [id      |-> decodeByteCodeToHexString(SubSeq(bytes, 1, ID_SIZE)),
         version |-> bytes[code],
         code    |-> Unpack16(SubSeq(bytes, code + 1, size)),
         size    |-> Unpack32(SubSeq(bytes, size + 1, HEADER_SIZE)),
         name    |-> RStrip(SubSeq(bytes, HEADER_SIZE + 1, HEADER_SIZE + NAME_SIZE))]

create_header_response(r) ==
    Memory(r.version, VERSION_SIZE) \o Memory(r.code, CODE_SIZE)
        \o Memory(r.size, PAYLOAD_SIZE)

create_response(r) == create_header_response(r) \o r.id

\* MUTANT of ResponseRead: the bytes are swapped once.
ResponseReadOnce(bytes) ==
    LET size == VERSION_SIZE + CODE_SIZE
    IN  [version |-> bytes[1],
         code    |-> ntohs(Number16(SubSeq(bytes, VERSION_SIZE + 1, size))),
         size    |-> ntohl(Number32(SubSeq(bytes, size + 1, HEADER_SIZE_SERVER)))]

\* handlingHeaderResponse.
ResponseRead(bytes) ==
    LET size == VERSION_SIZE + CODE_SIZE
    IN  [version |-> bytes[1],
         code    |-> ntohs(ntohs(Number16(SubSeq(bytes, VERSION_SIZE + 1, size)))),
         size    |-> ntohl(ntohl(Number32(SubSeq(bytes, size + 1, HEADER_SIZE_SERVER))))]

loadClientId(bytes) ==
    decodeByteCodeToHexString(
        SubSeq(bytes, HEADER_SIZE_SERVER + 1, HEADER_SIZE_SERVER + ID_SIZE))

-----------------------------------------------------------------------------
(***************************************************************************)
(* The client.                                                             *)
(***************************************************************************)
TransferInfo == [name |-> Zeros(NAME_SIZE), id |-> Zeros(ID_SIZE)]

\* MUTANT of readTransferInfo: the vector keeps its full length, as readMeInfo
\* leaves it.
ReadToFullLength(to) ==
    IF Len(transfer) <= MAX_NAME
    THEN [to EXCEPT !.name = encodeStringToByteCode(@, transfer, NAME_SIZE)]
    ELSE to

\* The vector shrinks to the length of the name; a name that is too long is not
\* taken.
readTransferInfo(to) ==
    IF Len(transfer) <= MAX_NAME
    THEN [to EXCEPT !.name = encodeStringToByteCode(@, transfer, Len(transfer))]
    ELSE to

readMeInfo(file, to) ==
    [name |-> encodeStringToByteCode(to.name, file.name, NAME_SIZE),
     id   |-> encodeHexStringToByteCode(file.id)]

Init ==
    /\ pc = "off"
    /\ transfer \in Name
    /\ me = [exists |-> FALSE, name |-> << >>, id |-> << >>, key |-> FALSE]
    /\ info = TransferInfo
    /\ attempt = 0
    /\ wire = << >>
    /\ meant = << >>
    /\ table = << >>
    /\ drawn = {}
    /\ keyed = {}
    /\ runs = 0

Ask(code, size, id, name) ==
    /\ meant' = [id |-> id, version |-> VERSION, code |-> code, size |-> size,
                 name |-> name]
    /\ wire' = Request(meant')
    /\ pc' = "request"

RunEnds ==
    /\ pc' = "off"
    /\ info' = TransferInfo
    /\ attempt' = 0
    /\ wire' = << >>
    /\ meant' = << >>

\* runHundleNewClientConnect: nothing is sent without a name.
SendRegistration(to) ==
    IF Len(transfer) \in 1 .. MAX_NAME
    THEN /\ info' = readTransferInfo(to)
         /\ Ask(825, NAME_SIZE, Zeros(ID_SIZE), info'.name)
         /\ attempt' = 0
    ELSE RunEnds

StartNew ==
    /\ pc = "off" /\ ~me.exists
    /\ runs < MaxRuns
    /\ runs' = runs + 1
    /\ SendRegistration(TransferInfo)
    /\ UNCHANGED <<transfer, me, table, drawn, keyed>>

\* runReconnectRequest: nothing is sent without a key in me.info.
SendReconnect(to) ==
    /\ me.key
    /\ info' = to
    /\ Ask(827, NAME_SIZE, info'.id, info'.name)

StartKnown ==
    /\ pc = "off" /\ me.exists
    /\ runs < MaxRuns
    /\ runs' = runs + 1
    /\ SendReconnect(readMeInfo(me, readTransferInfo(TransferInfo)))
    /\ UNCHANGED <<transfer, me, attempt, table, drawn, keyed>>

Answered(codes) == pc = "response" /\ ResponseRead(wire).code \in codes

Registered ==
    /\ Answered({1600})
    /\ me' = [exists |-> TRUE, name |-> decodeByteCodeToString(info.name),
              id |-> loadClientId(wire), key |-> FALSE]
    /\ info' = readMeInfo(me', info)
    /\ Ask(826, NAME_SIZE + PUBLIC_KEY_SIZE, info'.id, info'.name)
    /\ UNCHANGED <<transfer, attempt, table, drawn, keyed, runs>>

NameTaken ==
    /\ Answered({1601})
    /\ IF attempt < 2
       THEN /\ attempt' = attempt + 1
            /\ Ask(825, NAME_SIZE, Zeros(ID_SIZE), info.name)
            /\ UNCHANGED info
       ELSE RunEnds
    /\ UNCHANGED <<transfer, me, table, drawn, keyed, runs>>

\* The AES key was received, me.info has the private key, and the file was
\* accepted.
SendReport ==
    /\ Answered({1602, 1605})
    /\ Ask(900, NAME_SIZE, info.id,
           encodeStringToByteCode(Zeros(NAME_SIZE), Path, NAME_SIZE))
    /\ me' = [exists |-> TRUE, name |-> me.name, id |-> me.id, key |-> TRUE]
    /\ UNCHANGED <<transfer, info, attempt, table, drawn, keyed, runs>>

ReconnectDenied ==
    /\ Answered({1606})
    /\ SendRegistration(info)
    /\ UNCHANGED <<transfer, me, table, drawn, keyed, runs>>

ReportAnswered ==
    /\ Answered({1604})
    /\ RunEnds
    /\ UNCHANGED <<transfer, me, table, drawn, keyed, runs>>

-----------------------------------------------------------------------------
(***************************************************************************)
(* The server.                                                             *)
(***************************************************************************)
Asked(code) == pc = "request" /\ RequestRead(wire).code = code

Answer(code, size, id) ==
    /\ meant' = [id |-> id, version |-> VERSION, code |-> code, size |-> size]
    /\ wire' = create_response(meant')
    /\ pc' = "response"
    /\ UNCHANGED <<transfer, me, info, attempt, runs>>

Register ==
    /\ Asked(825)
    /\ LET name == RequestRead(wire).name
       IN  IF name \in DOMAIN table
           THEN Answer(1601, 0, << >>) /\ UNCHANGED <<table, drawn>>
           ELSE \E id \in Identifier \ drawn :
                   /\ table' = [n \in DOMAIN table \union {name} |->
                                   IF n = name THEN id ELSE table[n]]
                   /\ drawn' = drawn \union {id}
                   /\ Answer(1600, ID_SIZE, id)
    /\ UNCHANGED keyed

\* The row is there: the client has just registered.
SavePublicKey ==
    /\ Asked(826)
    /\ LET name == RequestRead(wire).name
       IN  /\ name \in DOMAIN table
           /\ keyed' = keyed \union {table[name]}
           /\ Answer(1602, ID_SIZE + AES_CIPHER_SIZE, table[name])
    /\ UNCHANGED <<table, drawn>>

Recognised(r) ==
    /\ r.name \in DOMAIN table
    /\ decodeByteCodeToHexString(table[r.name]) = r.id
    /\ table[r.name] \in keyed

Rekey ==
    /\ Asked(827)
    /\ LET r == RequestRead(wire)
       IN  /\ Recognised(r)
           /\ Answer(1605, ID_SIZE + AES_CIPHER_SIZE, table[r.name])
    /\ UNCHANGED <<table, drawn, keyed>>

\* The row of that name goes, if there is one; the answer has the identifier
\* that was sent.
Deny ==
    /\ Asked(827)
    /\ LET r == RequestRead(wire)
       IN  /\ ~Recognised(r)
           /\ table' = [name \in DOMAIN table \ {r.name} |-> table[name]]
           /\ Answer(1606, ID_SIZE, encodeHexStringToByteCode(r.id))
    /\ UNCHANGED <<drawn, keyed>>

AcknowledgeReport ==
    /\ Asked(900)
    /\ Answer(1604, ID_SIZE, SubSeq(wire, 1, ID_SIZE))
    /\ UNCHANGED <<table, drawn, keyed>>

-----------------------------------------------------------------------------
\* The user writes another name into transfer.info.
Edit ==
    /\ pc # "response"
    /\ transfer' \in Name \ {transfer}
    /\ UNCHANGED <<pc, me, info, attempt, wire, meant, table, drawn, keyed, runs>>

\* The client is killed, or a request fails.
Stop ==
    /\ pc # "off"
    /\ RunEnds
    /\ UNCHANGED <<transfer, me, table, drawn, keyed, runs>>

\* The program is not started again.
Rest == pc = "off" /\ UNCHANGED vars

Next ==
    \/ StartNew \/ StartKnown \/ Registered \/ NameTaken \/ SendReport
    \/ ReconnectDenied \/ ReportAnswered
    \/ Register \/ SavePublicKey \/ Rekey \/ Deny \/ AcknowledgeReport
    \/ Edit \/ Stop \/ Rest

Spec == Init /\ [][Next]_vars

-----------------------------------------------------------------------------
\* The vectors of TransferInfo have the lengths that createBufferHeader and
\* readMeInfo rely on, and as many bytes are sent as the reader waits for.
TypeOK ==
    /\ pc \in {"off", "request", "response"}
    /\ info.name \in Seq(Byte) /\ Len(info.name) <= NAME_SIZE
    /\ info.id \in Seq(Byte) /\ Len(info.id) = ID_SIZE
    /\ me.exists => Len(me.id) = 2 * ID_SIZE
    /\ wire \in Seq(Byte)
    /\ pc = "request" => Len(wire) = HEADER_SIZE + NAME_SIZE
    /\ \A name \in DOMAIN table : table[name] \in drawn

\* The server unpacks from a request what the client means: the code and the
\* payload size, whose bytes the client swaps and the server reads in network
\* order, the identifier, and the name that the client decodes from its vector.
RequestUnderstood ==
    pc = "request" =>
        RequestRead(wire) =
            [meant EXCEPT !.id   = decodeByteCodeToHexString(@),
                          !.name = decodeByteCodeToString(@)]

\* The client reads from a response the numbers that the server packed with the
\* least significant byte first, though it swaps their bytes twice.
ResponseUnderstood ==
    pc = "response" =>
        /\ ResponseRead(wire) = [version |-> meant.version, code |-> meant.code,
                                 size |-> meant.size]
        /\ meant.id # << >> => loadClientId(wire) = decodeByteCodeToHexString(meant.id)

\* An identifier gets back to the server as the bytes that it drew, through the
\* digits of me.info and runs of the program that end anywhere: it is the one
\* of the row of the name in me.info, which no denial has deleted, though a
\* reconnection may be sent under the name of another row.
IdentifierSurvives ==
    pc = "request" /\ meant.id # Zeros(ID_SIZE) =>
        /\ meant.id \in drawn
        /\ me.name \in DOMAIN table /\ table[me.name] = meant.id

\* The server registers no name but one that the user wrote: not one mixed from
\* the names of transfer.info and me.info, and none that is too long.
NamesAreWritten ==
    \A name \in DOMAIN table : name \in Name /\ Len(name) \in 1 .. MAX_NAME

\* Text in a vector: the bytes after the first zero are zero as well.
IsPadded(vector) ==
    \A i, j \in 1 .. Len(vector) : i < j /\ vector[i] = 0 => vector[j] = 0

\* The text that a vector holds fills it, and is a name that may be registered.
IsWritten(name) == name \in Name /\ Len(name) \in 1 .. MAX_NAME

\* The parts of the inductive invariant.  What the sender of a request means has
\* a place in the fields, and agrees with the vectors and with me.info,
RequestIsMeant ==
    pc = "request" =>
        /\ wire = Request(meant)
        /\ meant = [id |-> meant.id, version |-> VERSION, code |-> meant.code,
                    size |-> meant.size, name |-> meant.name]
        /\ meant.code \in {825, 826, 827, 900}
        /\ meant.size \in 0 .. Limit - 1
        /\ meant.id \in Seq(Byte) /\ Len(meant.id) = ID_SIZE
        /\ meant.name \in Seq(Byte) /\ Len(meant.name) <= NAME_SIZE
        /\ IsPadded(meant.name)
        /\ IF meant.code = 825
           THEN /\ meant.id = Zeros(ID_SIZE)
                /\ meant.name = info.name /\ IsWritten(info.name)
           ELSE /\ me.exists
                /\ meant.id = info.id /\ me.id = decodeByteCodeToHexString(info.id)
        /\ meant.code = 826 => decodeByteCodeToString(meant.name) = me.name
        /\ meant.code = 827 => me.key

\* what the sender of a response means agrees with the table as well,
ResponseIsMeant ==
    pc = "response" =>
        /\ wire = create_response(meant)
        /\ meant = [id |-> meant.id, version |-> VERSION, code |-> meant.code,
                    size |-> meant.size]
        /\ meant.code \in {1600, 1601, 1602, 1604, 1605, 1606}
        /\ meant.size \in 0 .. Limit - 1
        /\ IF meant.code = 1601
           THEN meant.id = << >>
           ELSE meant.id \in Seq(Byte) /\ Len(meant.id) = ID_SIZE
        /\ meant.code \in {1600, 1601} => IsWritten(info.name)
        /\ meant.code = 1600 =>
               info.name \in DOMAIN table /\ table[info.name] = meant.id
        /\ meant.code \in {1602, 1605} =>
               /\ me.exists /\ me.id = decodeByteCodeToHexString(info.id)
               /\ table[me.name] \in keyed

\* and me.info has a row, with a public key if it has a private one: a denied
\* client has sent another name than that.
MeInfoHasRow ==
    /\ me.exists =>
          me.name \in DOMAIN table /\ me.id = decodeByteCodeToHexString(table[me.name])
    /\ me.key => me.exists /\ table[me.name] \in keyed

\* Every row is that of a name somebody wrote, with an identifier drawn for it.
RowsAreWritten ==
    /\ table = [name \in DOMAIN table |-> table[name]]
    /\ drawn \subseteq Identifier
    /\ \A name \in DOMAIN table : IsWritten(name) /\ table[name] \in drawn

VectorsFit ==
    /\ info = [name |-> info.name, id |-> info.id]
    /\ info.name \in Seq(Byte) /\ Len(info.name) <= NAME_SIZE /\ IsPadded(info.name)
    /\ info.id \in Seq(Byte) /\ Len(info.id) = ID_SIZE

\* The inductive invariant: messages, vectors, table and me.info agree.
MessagesInv ==
    /\ pc \in {"off", "request", "response"}
    /\ transfer \in Name
    /\ pc = "off" => wire = << >>
    /\ VectorsFit /\ RowsAreWritten
    /\ RequestIsMeant /\ ResponseIsMeant /\ MeInfoHasRow

\* "This function read the file me.info and load the elements to info": what is
\* sent when the program starts with a me.info is the name and the identifier
\* there.  It is false: readTransferInfo has put the name of transfer.info into
\* the vector, and what is longer than the name in me.info stays.
MeInfoIsLoaded ==
    pc = "request" /\ meant.code = 827 =>
        /\ decodeByteCodeToString(meant.name) = me.name
        /\ meant.id = encodeHexStringToByteCode(me.id)
=============================================================================
