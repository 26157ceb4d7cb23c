SPECIFICATION Spec
CONSTANTS
    Boards <- MCBoards
    Pages = {1, 2}
    Fifo = {3, 4}
    SMC_ALLOC_MAX_TRY = 2
    MaxFrames = 3
    MaxSends = 2
    MaxFaults = 1
CHECK_DEADLOCK FALSE
INVARIANTS DeliveredOnce  PagesReturned
PROPERTY SendEnds
