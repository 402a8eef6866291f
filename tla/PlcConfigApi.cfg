SPECIFICATION FairSpec
CONSTANTS
    v1 = v1
    v2 = v2
    MaxName = 2
    Value = {v1, v2}
    Client = {c1}
    Watcher = {w1}
    Yaml <- MCYaml
    NoPlc = NoPlc
    MaxWrites = 3
INVARIANTS
    TypeOK
    FreshReloadConverges
PROPERTIES
    HandlersReturn
