SPECIFICATION Spec
CONSTANTS
    Banks = 1
    NSect <- MCNSect
    Start <- MCStart
    End <- MCEnd
    Value <- MCValue
    Erased = Erased
    Garbage = Garbage
    Noise <- MCNoise
    Fits <- MCFits
    BootProtect <- MCBootProtect
    ip = ip
    baudrate = baudrate
    fast = fast
    odd = odd
    Baudrate = baudrate
    Rates <- MCRates
    ConfigRate = fast
    ethaddr = ethaddr
    v1 = v1
    v2 = v2
    Absent = Absent
    Builds <- MCBuilds
    Size <- MCSize
    DataSize <- MCDataSize
    Default <- MCDefault
    Mirrored <- MCMirrored
    EnvFirst = 1
    EnvLast = 3
INVARIANTS
    DoneMeansStored
    BootSectorsProtected
    
PROPERTIES
    StoredAsEdited
    
    SaveEnds
