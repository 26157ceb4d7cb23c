SPECIFICATION Spec
CONSTANTS
    Blocks = 2
    Full = 2
    LastLen = 1
    BlockMod = 8
    Word = 64
    HeaderStep = 1
    TIMEOUT_COUNT = 2
    Ports = {1024}
    Tids = {2000}
    Stray = FALSE
    MaxFaults = 0
CHECK_DEADLOCK FALSE
PROPERTY LoadEnds
