SPECIFICATION FairSpec
CONSTANTS
    Device <- OneDevice
    QueueCap = 1
    MaxConnects = 2
    MaxCommands = 2
    MaxEvents = 4
INVARIANTS
    TypeOK
    SettledIsBorn
    OnlineAfterBirth
    BirthsAreDistinct
PROPERTIES
    StopReturns
