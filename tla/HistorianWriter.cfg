SPECIFICATION FairSpec
CONSTANTS
    s1 = s1
    s2 = s2
    Scan = {s1, s2}
    Late = {s2}
    BufferSize = 1
    BatchSize = 2
    MaxSamples = 3
INVARIANTS
    TypeOK
    NoHole
    NoSendOnClosed
PROPERTIES
    ScanGoesOn
    ShutdownEnds
    AcceptedIsStored
