SPECIFICATION Spec
CONSTANTS
    c1 = c1
    c2 = c2
    Nobody = Nobody
    Chans <- OneChan
    FILES = 2
    LOGS = 3
    CAP = 2
    NONE = 15
    OVERWRITE = TRUE
    Types <- VideosAndShots
    OneOpener = FALSE
    MaxTorn = 2
    MaxLogs = 2
INVARIANTS
    TypeOK
    CountsExact
    AllListed
    AppendOnly
    SearchFinds
PROPERTY NoEarlyOverwrite
