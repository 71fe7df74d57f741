SPECIFICATION Spec
CONSTANTS
    t1 = t1  t2 = t2  none = none  c1 = c1  c2 = c2
    v0 = v0  v1 = v1  v2 = v2  v3 = v3  v4 = v4  v5 = v5  blank = blank  garbage = garbage
    Threads = {t1, t2}
    NoThread = none
    Chips = {c1, c2}
    Pages = {0, 1}
    Size = 4
    ReadSize = 2
    WriteSize = 2
    LatchSize = 2
    DelayMax = 1
    Values = {v0, v1, v2, v3, v4, v5}
    Blank = blank
    Garbage = garbage
    InitRegs <- MCInitRegs
    ShortTransfers = TRUE
    Programs <- MCPrograms
INVARIANTS TypeOK BusOwned ReadsRegisters WritesRegisters ModeIsPara
SYMMETRY Symmetric
