------------------------------ MODULE SpiStore ------------------------------
(***************************************************************************)
(* What the memory chips of eos_spi promise their callers: one call at a   *)
(* time, over stores of bytes that keep what was written.  A call that     *)
(* returns an error may have stored any part of what it was given; a call  *)
(* that succeeds has stored or delivered all of it.  The promise lapses    *)
(* for a chip that was left to itself in the middle of a write (loose).    *)
(***************************************************************************)
EXTENDS Integers

CONSTANTS
    Threads,    \* threads that call into the library
    NoThread,   \* nobody
    Chips, Cells, Bytes,
    Blank,      \* an erased cell, and a byte of the caller's untouched buffer
    IdByte,     \* what identifies a chip
    InitMem,    \* what the stores hold at first
    Requests,   \* the calls: records with the fields kind, chip, addr, len, data
    Area,       \* Area[r]: the cells that r may change
    Exact,      \* the requests whose data the store keeps byte by byte
    Unawaited,  \* the requests that return while the chip still works
    Whole       \* a transfer moves all its bytes or fails

VARIABLES
    holder,   \* the thread whose call is served
    call,     \* its request
    mem,      \* the stores
    loose,    \* loose[c]: nobody knows whether chip c still works
    outcome,  \* outcome[t]: how the call of t ended, until t takes it
    data      \* data[t]: what it delivered

vars == <<holder, call, mem, loose, outcome, data>>

NoData == [k \in Cells |-> Blank]
NoCall == [kind |-> "none"]

Init ==
    /\ holder = NoThread
    /\ call = NoCall
    /\ mem = InitMem
    /\ loose = [c \in Chips |-> FALSE]
    /\ outcome = [t \in Threads |-> "none"]
    /\ data = [t \in Threads |-> NoData]

Begin(t) ==
    /\ holder = NoThread /\ outcome[t] = "none"
    /\ holder' = t
    /\ call' \in Requests
    /\ UNCHANGED <<mem, loose, outcome, data>>

\* What a call asks of a cell of its area.
Asked(a) == IF call.kind = "erase" THEN Blank ELSE call.data[a - call.addr]

\* A part of what was asked for reaches the store.
Store(t) ==
    /\ holder = t
    /\ mem' \in [Chips -> [Cells -> Bytes]]
    /\ \A c \in Chips, a \in Cells : mem'[c][a] # mem[c][a] =>
           /\ c = call.chip /\ a \in Area[call]
           /\ call \in Exact /\ ~loose[c] => mem'[c][a] = Asked(a)
    /\ UNCHANGED <<holder, call, loose, outcome, data>>

Settled == ~loose[call.chip]

\* d is a part of what a call reads, or all of it.
Delivers(d, all) ==
    \A k \in Cells :
        IF k < call.len
        THEN Settled /\ Whole => \/ d[k] = mem[call.chip][call.addr + k]
                                 \/ ~all /\ d[k] = Blank
        ELSE d[k] = Blank

Identifies(d, all) ==
    /\ \A k \in Cells \ {0} : d[k] = Blank
    /\ Settled /\ Whole => d[0] = IdByte \/ (~all /\ d[0] = Blank)

Stored == \A a \in Area[call] : mem[call.chip][a] = Asked(a)

\* A call that changed the chip leaves it settled if it succeeds and waited.
Alters == call.kind \in {"erase", "write_status"} \/ (call.kind = "write" /\ call.len > 0)
Leaves(ok) ==
    \E b \in BOOLEAN :
        /\ b => IF Alters THEN ~ok \/ call \in Unawaited ELSE loose[call.chip]
        /\ ~b => Alters \/ Settled
        /\ loose' = [loose EXCEPT ![call.chip] = b]

End(t) ==
    /\ holder = t
    /\ \E ok \in BOOLEAN :
         /\ outcome' = [outcome EXCEPT ![t] = IF ok THEN "ok" ELSE "failed"]
         /\ data' \in [Threads -> [Cells -> Bytes]]
         /\ \A u \in Threads \ {t} : data'[u] = data[u]
         /\ CASE call.kind = "read"    -> Delivers(data'[t], ok)
              [] call.kind = "read_id" -> Identifies(data'[t], ok)
              [] OTHER                 -> data'[t] = NoData
         /\ ok /\ Settled /\ Whole /\ call \in Exact => Stored
         /\ Leaves(ok)
    /\ holder' = NoThread
    /\ call' = NoCall
    /\ UNCHANGED mem

\* The caller takes the result.
Leave(t) ==
    /\ outcome[t] # "none"
    /\ outcome' = [outcome EXCEPT ![t] = "none"]
    /\ data' = [data EXCEPT ![t] = NoData]
    /\ UNCHANGED <<holder, call, mem, loose>>

Next == \E t \in Threads : Begin(t) \/ Store(t) \/ End(t) \/ Leave(t)

Spec == Init /\ [][Next]_vars
============================================================================
