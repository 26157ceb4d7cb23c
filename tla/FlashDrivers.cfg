SPECIFICATION Spec
CONSTANTS
    Boards <- MCBoards
    Sectors = 2
    SectorSize = 4
    Bits = {0, 7}
    Puzzle <- MCPuzzle
    Contents <- MCContents
    Sources <- MCSources
    Calls <- MCCalls
    MaxCalls = 2
    MaxFaults = 2
CHECK_DEADLOCK FALSE
INVARIANTS FlashReadable DoneMeansDone ErrorIsOwn
PROPERTY CallEnds
