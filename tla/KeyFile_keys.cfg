SPECIFICATION Spec
CONSTANTS
    Sizes = {1, 2, 3}
    BufferSize = 4
    MaxStarts = 5
INVARIANTS
    TypeOK
    KeyIsTheOneSent
    FilesHaveTheKey
    Doubles
    KeyInv
