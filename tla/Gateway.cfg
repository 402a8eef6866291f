SPECIFICATION FairSpec
CONSTANTS
    Source = {s1}
    Conn = {c1}
    Cap = 2
    MaxUpdates = 3
    Role = {viewer, admin}
    Tag = {t1}
    HttpWrite = {h1}
    DcmdWrite = {d1}
    NoTag = NoTag
    SeedMeta <- MCSeedMeta
    SomeRole = viewer
    SomeTag = t1
    MaxEdits = 2
    NRepo = 2
    MaxBackups = 2
    Deployments <- MCDeployments
INVARIANTS
    TypeOK
    NoWriteAfterRevocation
    StoresOutliveHandlers
    NoSendOnClosedSub
    DeliveredInOrder
    BackupStopsFirst
PROPERTIES
    ScanIsNotBlocked
    DeadClientIsForgotten
    ShutdownEnds
