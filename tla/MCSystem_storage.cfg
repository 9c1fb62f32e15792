SPECIFICATION Spec
CONSTANTS
    c1 = c1
    c2 = c2
    n1 = n1
    n2 = n2
    f1 = f1
    plain = plain
    escape = escape
    Garbage = Garbage
    Truncated = Truncated
    NoContent = NoContent
    Client <- TwoClients
    NameOf <- SharedName
    FileOf <- SameFile
    Content <- TwoContents
    Unprintable <- Escape
    BadName <- None
    BadFile <- None
    Faults = {"kill", "crash", "short", "unreadable", "db", "disk", "fresh_db"}
    Attempts = 2
    Backlog = 1
    MaxRuns <- TwoAndOneRun
    MaxFaults = 2
INVARIANTS
    DeliveredIsStored
    DeliveredIsRecorded
    DeliveryInv
    RecordInv
PROPERTIES
    DepositsFiles
