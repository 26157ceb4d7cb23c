SPECIFICATION Spec
CONSTANTS
    Blocks = 3
    Full = 2
    LastLen = 1
    BlockMod = 8
    Word = 64
    HeaderStep = 2
    TIMEOUT_COUNT = 2
    Ports = {1024, 1025}
    Tids = {2000, 2001}
    Stray = TRUE
    MaxFaults = 2
CHECK_DEADLOCK FALSE
INVARIANTS WholeThing
PROPERTY LoadEnds
