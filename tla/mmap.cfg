SPECIFICATION Spec
CONSTANTS
    t1 = t1  t2 = t2  t3 = t3  none = none  null = null
    cpu = cpu  cpld = cpld  u1 = u1  u2 = u2  u3 = u3
    v0 = v0  v1 = v1  v2 = v2  blank = blank
    Threads = {t1, t2, t3}
    NoThread = none
    Regions = {cpu, cpld}
    Units = {u1, u2, u3}
    NoUnit = null
    Size = 4
    MaxLen = 3
    Values = {v0, v1, v2}
    Blank = blank
    InitRegs <- MCInitRegs
    Programs <- MCPrograms
INVARIANTS TypeOK PublishedWhole NoLeak NoFault
PROPERTY Implements
SYMMETRY Symmetric
CHECK_DEADLOCK FALSE
