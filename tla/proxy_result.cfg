SPECIFICATION Spec
CONSTANTS
    t1 = t1  t2 = t2  none = none  v0 = v0  v1 = v1  v2 = v2
    zero = zero  blank = blank  garbage = garbage
    Threads = {t1, t2}
    NoThread = none
    MaxFds = 4
    Programs <- MCPrograms
    Buses = {0}
    I2cSize = 4
    ByteMod = 4
    LenMod = 6
    MaxLen = 7
    Values = {v0, v1, v2}
    Zero = zero
    Blank = blank
    Garbage = garbage
    InitI2c <- MCInitI2c
    MaxBlock = 2
    EngineLen = 2
    ProxyLen = 3
    WordMod = 8
    MaxHandles = 1
    Controllers = {0, 1, 2}
    NumMod = 8
    PollMax = 2
    NumCpus = 2
    CounterMod = 8
    Counters <- MCCounters
    Elapsed <- MCElapsed
    LongMod = 4000
    Memory <- MCMemory
    Spaces <- MCSpaces
    unread = unread
    Unread = unread
INVARIANT ProxyResult
