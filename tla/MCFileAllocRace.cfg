SPECIFICATION Spec
CONSTANTS
    c1 = c1
    c2 = c2
    Nobody = Nobody
    Chans <- TwoChans
    FILES = 3
    LOGS = 2
    CAP = 3
    NONE = 15
    OVERWRITE = FALSE
    Types <- Videos
    OneOpener = FALSE
    MaxTorn = 0
    MaxLogs = 2
PROPERTY NeverOverwrites
