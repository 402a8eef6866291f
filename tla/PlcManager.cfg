SPECIFICATION FairSpec
CONSTANTS
    p1 = p1
    p2 = p2
    c1 = c1
    c2 = c2
    t1 = t1
    t2 = t2
    PLC = {p1}
    Cfg = {c1, c2}
    Tag = {t1, t2}
    TagsOf <- MCTagsOf
    NoCfg = NoCfg
    InitCfg <- MCInitCfg
    RootCtx = root
    RequestCtx = {r1}
    Writer = {x1}
    MaxGen = 2
INVARIANTS
    TypeOK
    OneRoutinePerPLC
    NoLeakedConnection
    QualityIsPublished
    RegisteredIsServed
    QuietAfterStop
PROPERTIES
    ImplementsRegistry
    NeverOlderReading
    StopReturns
    ReloadReturns
    ConfiguredIsConnected
