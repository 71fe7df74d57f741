----------------------------- MODULE Registers -----------------------------
(***************************************************************************)
(* What the register functions of libeos promise their callers: a call     *)
(* reads or writes its block of registers in one step, or returns -1 and   *)
(* touches nothing.                                                        *)
(***************************************************************************)
EXTENDS Integers

CONSTANTS
    Threads,    \* threads that call into the library
    Regions,    \* the mapped regions: CPU registers, core CPLD
    Size,       \* registers of a region
    MaxLen,     \* longest block
    Values,     \* contents of a register
    Blank,      \* contents of the caller's buffer before a read
    InitRegs,   \* what the registers hold at first
    Accesses    \* the calls the threads make: records with the fields op, region,
                \* off, len, data and null (the caller passes a null pointer)

Words  == 0 .. Size - 1
Places == 0 .. MaxLen - 1

VARIABLES regs, stage, call, out, ret
vars == <<regs, stage, call, out, ret>>

NoBlock == [k \in Places |-> Blank]
NoCall  == [op |-> "none"]

Init ==
    /\ regs = InitRegs
    /\ stage = [t \in Threads |-> "idle"]
    /\ call = [t \in Threads |-> NoCall]
    /\ out = [t \in Threads |-> NoBlock]
    /\ ret = [t \in Threads |-> 0]

Invoke(t) ==
    /\ stage[t] = "idle"
    /\ \E r \in Accesses : call' = [call EXCEPT ![t] = r]
    /\ stage' = [stage EXCEPT ![t] = "called"]
    /\ UNCHANGED <<regs, out, ret>>

Rejected(r) == r.off > Size \/ r.null

ReadBlock(r)  == [k \in Places |-> IF k < r.len THEN regs[r.region][r.off + k] ELSE Blank]
WriteBlock(r) == [a \in Words |-> IF a \in r.off .. r.off + r.len - 1
                                  THEN r.data[a - r.off] ELSE regs[r.region][a]]

Refuse(t) ==
    /\ stage[t] = "called" /\ Rejected(call[t])
    /\ ret' = [ret EXCEPT ![t] = -1]
    /\ stage' = [stage EXCEPT ![t] = "performed"]
    /\ UNCHANGED <<regs, call, out>>

Read(t) ==
    /\ stage[t] = "called" /\ ~Rejected(call[t]) /\ call[t].op = "read"
    /\ out' = [out EXCEPT ![t] = ReadBlock(call[t])]
    /\ stage' = [stage EXCEPT ![t] = "performed"]
    /\ UNCHANGED <<regs, call, ret>>

Write(t) ==
    /\ stage[t] = "called" /\ ~Rejected(call[t]) /\ call[t].op = "write"
    /\ regs' = [regs EXCEPT ![call[t].region] = WriteBlock(call[t])]
    /\ stage' = [stage EXCEPT ![t] = "performed"]
    /\ UNCHANGED <<call, out, ret>>

Return(t) ==
    /\ stage[t] = "performed"
    /\ stage' = [stage EXCEPT ![t] = "idle"]
    /\ call' = [call EXCEPT ![t] = NoCall]
    /\ out' = [out EXCEPT ![t] = NoBlock]
    /\ ret' = [ret EXCEPT ![t] = 0]
    /\ UNCHANGED regs

Next == \E t \in Threads : Invoke(t) \/ Refuse(t) \/ Read(t) \/ Write(t) \/ Return(t)

Spec == Init /\ [][Next]_vars
============================================================================
