SPECIFICATION Spec
CONSTANTS
    c1 = c1
    c2 = c2
    n1 = n1
    n2 = n2
    f1 = f1
    plain = plain
    escape = escape
    Garbage = Garbage
    Truncated = Truncated
    NoContent = NoContent
    Client <- TwoClients
    NameOf <- DistinctNames
    FileOf <- SameFile
    Content <- PlainOnly
    Unprintable <- None
    BadName <- None
    BadFile <- FirstClient
    Faults = {"kill", "crash", "fresh_db"}
    Attempts = 1
    Backlog = 1
    MaxRuns <- ThreeAndOneRun
    MaxFaults = 2
INVARIANTS
    TypeOK
    KeyAgreement
    KeyPairAgreement
    ExchangeInv
PROPERTIES
    DenialsDeleteOrphans
    SessionRowSurvives
