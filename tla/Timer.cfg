SPECIFICATION Spec
CONSTANTS
    Reload = 3
    Width = 16
    Hz = 6
    Kilo = 4
    Delays = {2, 8, 20}
    RxDelays = {4}
    TimeOuts = {1, 5}
    Boards <- MCBoards
    MaxGap = 2
    MaxSince = 17
INVARIANT InTime
PROPERTIES NeverEarly WaitsEnd
