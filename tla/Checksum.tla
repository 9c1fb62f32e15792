------------------------------- MODULE Checksum ------------------------------
(***************************************************************************)
(* The checksum that decides whether an upload was correct: the client     *)
(* computes it with a table that it builds bit by bit, and the server, by  *)
(* zlib.crc32, over the content that it decrypted.                         *)
(*                                                                         *)
(* A register is the set of its bits that are 1, bit 0 the least           *)
(* significant one; >> moves the bits down, ^ is Xor.  Registers and bytes *)
(* have 32 and 8 bits in the code.                                         *)
(***************************************************************************)
EXTENDS Naturals, Sequences

CONSTANTS
    Width,      \* the bits of a register
    ByteWidth,  \* the bits of a byte
    polynomial, \* the register 0xEDB88320
    MaxLength   \* bound: the bytes of a file

Bits == 0 .. Width - 1

ASSUME ChecksumAssumption ==
    /\ Width \in Nat /\ ByteWidth \in 1 .. Width
    /\ polynomial \subseteq Bits
    /\ Width - 1 \in polynomial
    /\ MaxLength \in Nat

Register == SUBSET Bits
Byte == SUBSET (0 .. ByteWidth - 1)

\* readFileToBuffer refuses an empty file.
Content == UNION {[1 .. n -> Byte] : n \in 1 .. MaxLength}

VARIABLES
    pc,      \* what runFileSendingRequest is doing
    table,   \* crc32_table
    i, j,    \* the counters of init_crc32_table
    crc,     \* the register of init_crc32_table and calculate_crc32
    content, \* the file
    at,      \* how many of its bytes calculate_crc32 has taken
    received \* the content that the server decrypted

vars == <<pc, table, i, j, crc, content, at, received>>

Xor(a, b) == (a \ b) \union (b \ a)

ShiftRight(a, n) == {bit - n : bit \in {x \in a : x >= n}}

\* The powers of two, in a form that can be reasoned about.
PowerOfTwo[n \in 0 .. Width] == IF n = 0 THEN 1 ELSE 2 * PowerOfTwo[n - 1]

\* The register of a number.
BitsOf(n) == {bit \in Bits : (n \div PowerOfTwo[bit]) % 2 = 1}

All == Bits

-----------------------------------------------------------------------------
(***************************************************************************)
(* The definition of the checksum, which zlib.crc32 implements: the        *)
(* remainder of a division of polynomials over the field of two elements.  *)
(* A polynomial is the set of its exponents.                               *)
(***************************************************************************)
Generator == {Width} \union {Width - 1 - bit : bit \in polynomial}

\* The bits of byte k of the content, the lowest bit first: they are followed by
\* those of the bytes behind it and by Width zeros.
Terms(bytes, k) ==
    {Width + (ByteWidth * Len(bytes)) - 1 - (((k - 1) * ByteWidth) + bit) :
        bit \in bytes[k]}

\* The bytes behind the first n ones.
Unread(bytes, n) == UNION {Terms(bytes, k) : k \in n + 1 .. Len(bytes)}

\* The first Width bits are inverted.
Dividend(bytes) ==
    LET length == ByteWidth * Len(bytes)
    IN  Xor(Unread(bytes, 0), length .. length + Width - 1)

\* A multiple of the generator takes the term of degree Width + k away.
Reduce(p, k) ==
    IF Width + k \in p THEN Xor(p, {k + term : term \in Generator}) ELSE p

\* Of a polynomial of a degree less than Width + n: what is left of it when it
\* has no terms of degree Width + k or more.
Division(p, n) ==
    LET rest[k \in 0 .. n] == IF k = n THEN p ELSE Reduce(rest[k + 1], k)
    IN  rest

Remainder(p, n) == Division(p, n)[0]

crc32(bytes) ==
    LET remainder == Remainder(Dividend(bytes), ByteWidth * Len(bytes))
    IN  Xor({Width - 1 - term : term \in remainder}, All)

-----------------------------------------------------------------------------
Init ==
    /\ pc = "ready"
    /\ table = [byte \in Byte |-> {}]
    /\ i = 0 /\ j = 0
    /\ crc = {}
    /\ content = << >> /\ received = << >>
    /\ at = 0

\* An attempt to send a file that was read.
ReadFile ==
    /\ pc = "ready"
    /\ content' \in Content
    /\ i' = 0 /\ j' = ByteWidth
    /\ crc' = BitsOf(0)
    /\ pc' = "init_crc32_table"
    /\ UNCHANGED <<table, at, received>>

\* MUTANT of Divide: the bit is tested after the shift.
DivideLate ==
    /\ pc = "init_crc32_table" /\ j > 0
    /\ crc' = IF 1 \in crc THEN Xor(ShiftRight(crc, 1), polynomial)
                           ELSE ShiftRight(crc, 1)
    /\ j' = j - 1
    /\ UNCHANGED <<pc, table, i, content, at, received>>

\* The inner loop.
Divide ==
    /\ pc = "init_crc32_table" /\ j > 0
    /\ crc' = IF 0 \in crc THEN Xor(ShiftRight(crc, 1), polynomial)
                           ELSE ShiftRight(crc, 1)
    /\ j' = j - 1
    /\ UNCHANGED <<pc, table, i, content, at, received>>

\* MUTANT of Entry: the loop goes once too often.
EntryTooMany ==
    /\ pc = "init_crc32_table" /\ j = 0
    /\ table' = [table EXCEPT ![BitsOf(i)] = crc]
    /\ IF i < PowerOfTwo[ByteWidth]
       THEN i' = i + 1 /\ j' = ByteWidth /\ crc' = BitsOf(i') /\ UNCHANGED <<pc, at>>
       ELSE pc' = "calculate_crc32" /\ crc' = All /\ at' = 0 /\ UNCHANGED <<i, j>>
    /\ UNCHANGED <<content, received>>

\* The outer loop; calculate_crc32 starts with all ones.
Entry ==
    /\ pc = "init_crc32_table" /\ j = 0
    /\ table' = [table EXCEPT ![BitsOf(i)] = crc]
    /\ IF i + 1 < PowerOfTwo[ByteWidth]
       THEN i' = i + 1 /\ j' = ByteWidth /\ crc' = BitsOf(i') /\ UNCHANGED <<pc, at>>
       ELSE pc' = "calculate_crc32" /\ crc' = All /\ at' = 0 /\ UNCHANGED <<i, j>>
    /\ UNCHANGED <<content, received>>

\* MUTANT of Update: the register keeps the byte that the table stands for.
UpdateUnshifted ==
    /\ pc = "calculate_crc32" /\ at < Len(content)
    /\ LET low == Xor(crc, content[at + 1]) \intersect (0 .. ByteWidth - 1)
       IN  crc' = Xor(crc, table[low])
    /\ at' = at + 1
    /\ UNCHANGED <<pc, table, i, j, content, received>>

\* One byte of the content.
Update ==
    /\ pc = "calculate_crc32" /\ at < Len(content)
    /\ LET low == Xor(crc, content[at + 1]) \intersect (0 .. ByteWidth - 1)
       IN  crc' = Xor(ShiftRight(crc, ByteWidth), table[low])
    /\ at' = at + 1
    /\ UNCHANGED <<pc, table, i, j, content, received>>

\* The file is sent; the server decrypts some content of that length.
Send ==
    /\ pc = "calculate_crc32" /\ at = Len(content)
    /\ crc' = Xor(crc, All)
    /\ received' \in [1 .. Len(content) -> Byte]
    /\ pc' = "handleServerResponse"
    /\ UNCHANGED <<table, i, j, content, at>>

accepted == crc = crc32(received)

\* The next attempt, or the next run in a new process.
Again ==
    /\ pc = "handleServerResponse"
    /\ pc' = "ready"
    /\ table' \in {table, [byte \in Byte |-> {}]}
    /\ i' = 0 /\ j' = 0
    /\ crc' = {}
    /\ content' = << >> /\ received' = << >>
    /\ at' = 0

Next == ReadFile \/ Divide \/ Entry \/ Update \/ Send \/ Again

Spec == Init /\ [][Next]_vars

-----------------------------------------------------------------------------
\* The loops stay inside the table and the content, and the numbers they compute
\* inside a register.
TypeOK ==
    /\ pc \in {"ready", "init_crc32_table", "calculate_crc32", "handleServerResponse"}
    /\ table \in [Byte -> Register]
    /\ i \in 0 .. PowerOfTwo[ByteWidth] - 1 /\ BitsOf(i) \in Byte
    /\ j \in 0 .. ByteWidth
    /\ crc \in Register
    /\ {content, received} \subseteq Content \union {<< >>}
    /\ at \in 0 .. MaxLength

\* The table and the loop over the bytes compute the checksum of zlib.
ChecksumIsRemainder == pc = "handleServerResponse" => crc = crc32(content)

\* The places of the bits in which two contents differ.
Difference(a, b) ==
    UNION {{(k - 1) * ByteWidth + bit : bit \in Xor(a[k], b[k])} : k \in 1 .. Len(a)}

\* An upload is accepted if the server has the content of the file, and is not
\* if what the server has, which is as long, differs from it in a burst of up to
\* 32 bits.
AcceptedIfIntact ==
    pc = "handleServerResponse" =>
        LET difference == Difference(content, received)
        IN  /\ difference = {} => accepted
            /\ /\ difference # {}
               /\ \A a, b \in difference : a < b + Width
               => ~accepted

-----------------------------------------------------------------------------
(***************************************************************************)
(* The inductive invariant: the loops divide as the definition does, Width *)
(* bits of the dividend at a time.                                         *)
(***************************************************************************)
\* The polynomial that a register is, when it stands in front of n other bits.
Place(register, n) == {Width - 1 + n - bit : bit \in register}

\* An entry of the table is the remainder of its byte.
EntryIs(byte) ==
    Place(table[byte], 0) = Remainder(Place(byte, ByteWidth), ByteWidth)

\* The bits that are not taken yet.
Left == ByteWidth * (Len(content) - at)

TableInv ==
    pc = "init_crc32_table" =>
        /\ content # << >>
        /\ Place(crc, j) = Division(Place(BitsOf(i), ByteWidth), ByteWidth)[j]
        /\ \A n \in 0 .. i - 1 : EntryIs(BitsOf(n))

\* The register and the bytes that are left make up what is left of the dividend.
RegisterInv ==
    pc = "calculate_crc32" =>
        /\ content # << >> /\ at \in 0 .. Len(content)
        /\ \A byte \in Byte : EntryIs(byte)
        /\ Division(Dividend(content), ByteWidth * Len(content))[Left]
              = Xor(Place(crc, Left), Unread(content, at))

\* Together with the checksum at the end they are inductive.
ChecksumInv ==
    /\ TypeOK
    /\ TableInv
    /\ RegisterInv
    /\ ChecksumIsRemainder
    /\ pc = "handleServerResponse" =>
          content # << >> /\ received \in [1 .. Len(content) -> Byte]
=============================================================================
