SPECIFICATION Spec
CONSTANTS
    Width = 6
    ByteWidth = 2
    polynomial = {4, 5}
    MaxLength = 4
INVARIANTS
    TypeOK
    ChecksumIsRemainder
    AcceptedIfIntact
    ChecksumInv
