SPECIFICATION KermitSpec
CHECK_DEADLOCK FALSE
CONSTANTS
    a = a
    x = x
    hash = hash
    amp = amp
    ctl = ctl
    Byte <- MCByte
    Char <- MCChar
    Blank = Blank
    K_ESCAPE = hash
    Quote = amp
    Ktrans <- MCKtrans
    Encode <- MCEncode
    FileName <- MCFileName
    File <- MCFile
    Room = 6
    Damage = {"type", "data", "check"}
    Impatient = FALSE
    InFlight = 1
    MaxLineFaults = 3
INVARIANTS
    TransferIntact
PROPERTIES
    TransferEnds
