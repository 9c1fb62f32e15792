SPECIFICATION Spec
CONSTANTS
    c1 = c1
    c2 = c2
    n1 = n1
    n2 = n2
    f1 = f1
    plain = plain
    escape = escape
    Garbage = Garbage
    Truncated = Truncated
    NoContent = NoContent
    Client <- OneClient
    NameOf <- DistinctNames
    FileOf <- SameFile
    Content <- PlainOnly
    Unprintable <- None
    BadName <- None
    BadFile <- None
    Faults = {"crash", "fresh_db"}
    Attempts = 3
    Backlog = 1
    MaxRuns <- TwoRuns
    MaxFaults = 2
PROPERTIES
    ServerStaysUp
