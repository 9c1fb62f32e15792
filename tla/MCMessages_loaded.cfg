SPECIFICATION Spec
CONSTANTS
    Radix = 8
    ID_SIZE = 2
    NAME_SIZE = 5
    PUBLIC_KEY_SIZE = 70
    AES_CIPHER_SIZE = 67
    MAX_NAME = 3
    Name <- Names
    Path <- File
    Identifier <- Identifiers
    MaxRuns = 3
INVARIANTS
    MeInfoIsLoaded
