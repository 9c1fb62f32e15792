SPECIFICATION FairSpec
CONSTANTS
    c1 = c1
    c2 = c2
    n1 = n1
    n2 = n2
    f1 = f1
    plain = plain
    escape = escape
    Garbage = Garbage
    Truncated = Truncated
    NoContent = NoContent
    Client <- OneClient
    NameOf <- DistinctNames
    FileOf <- SameFile
    Content <- PlainOnly
    Unprintable <- None
    BadName <- None
    BadFile <- None
    Faults = {"kill", "crash", "fresh_db", "short", "unreadable"}
    Attempts = 3
    Backlog = 1
    MaxRuns <- FourRuns
    MaxFaults = 5
INVARIANTS
    KeyAgreement
    KeyPairAgreement
    ExchangeInv
PROPERTIES
    DenialsDeleteOrphans
    RunEnds
    EveryRunDelivers
