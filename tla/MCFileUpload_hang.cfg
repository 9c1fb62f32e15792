SPECIFICATION Spec
CONSTANTS
    HEADER_SIZE = 2
    PAYLOAD_SIZE = 1
    NUMBER_PLACE = 1
    CODE_SIZE = 1
    FILE_NAME_SIZE = 0
    MESSAGE_CONTENT_SIZE = 2
    FileSizes = {1, 2, 3, 4, 5, 7, 8}
    BLOCKSIZE = 1
    Modulus = 4
    Window = 8
    Kills = TRUE
PROPERTIES
    UploadEnds
