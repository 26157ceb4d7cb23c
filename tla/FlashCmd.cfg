SPECIFICATION Spec
CONSTANTS
    Banks = 2
    NSect <- MCNSect
    Start <- MCStart
    End <- MCEnd
    Value = {0, 1}
    Erased = 1
    Noise = {0, 1}
    Fits <- MCFits
    BootProtect <- MCBootProtect
    Ranges <- MCRanges
    Sources <- MCSources
INVARIANTS
    TypeOK
    CopyComplete
    EraseComplete
PROPERTIES
    ProtectedKept
    OnlyTargetModified
    CommandEnds
