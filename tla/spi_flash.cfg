SPECIFICATION Spec
CONSTANTS
    t1 = t1  t2 = t2  none = none
    epcs = epcs  mx = mx  fm = fm  mr = mr  zl = zl
    v1 = v1  v2 = v2  v3 = v3  v4 = v4
    blank = blank  garbage = garbage  busyByte = busyByte  readyByte = readyByte  idByte = idByte
    Threads = {t1, t2}
    NoThread = none
    Chips = {epcs, mx}
    CsChips = {epcs, mx}
    Part <- MCPart
    MemSize = 4
    ReadSize = 2
    WriteSize = 2
    DelayMax = 1
    Values <- MCValues
    Blank = blank
    Garbage = garbage
    BusyByte = busyByte
    ReadyByte = readyByte
    IdByte = idByte
    ShortTransfers = FALSE
    InitMem <- MCInitMem
    Requests <- FlashRequests
INVARIANTS TypeOK BusOwned ReadsMemory WritesStored QuietBetweenCalls ReturnsLength
PROPERTIES HolderChangesMemory StoreImplements
SYMMETRY Symmetric
