SPECIFICATION BrokerSpec
CONSTANTS
    Device <- OneDevice
    QueueCap = 1
    MaxConnects = 3
    MaxCommands = 0
    MaxEvents = 6
PROPERTIES
    LostLinkIsRestored
