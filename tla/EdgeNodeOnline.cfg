SPECIFICATION Spec
CONSTANTS
    Device <- OneDevice
    QueueCap = 1
    MaxConnects = 2
    MaxCommands = 0
    MaxEvents = 4
INVARIANTS
    SettledIsOnline
