------------------------------ MODULE EosCalls ------------------------------
(***************************************************************************)
(* The device functions of eos_lib in one process: I2C, DMA, PCI Express   *)
(* and the system resources share its threads and its descriptors, and     *)
(* nothing else.                                                           *)
(***************************************************************************)
EXTENDS EosI2c, EosDma, EosPcie, EosSysRes

ASSUME ProgramAssumption ==
    \A p \in Programs : p \subseteq I2cRequest \cup DmaRequest \cup PcieRequest \cup SysRequest

vars == <<process, i2c, dma, pcie, sys>>

Init == ProcessInit /\ I2cInit /\ DmaInit /\ PcieInit /\ SysInit

\* A write through the null pointer, or a division by zero, ends the process.
Crashed == \E t \in Threads : pc[t] = "fault"

Step(t) ==
    \/ I2cNext(t) /\ UNCHANGED <<dma, pcie, sys>>
    \/ DmaNext(t) /\ UNCHANGED <<i2c, pcie, sys>>
    \/ PcieNext(t) /\ UNCHANGED <<i2c, dma, sys>>
    \/ SysNext(t) /\ UNCHANGED <<i2c, dma, pcie>>

Next ==
    \/ ~Crashed /\ \E t \in Threads : Step(t)
    \/ ~Crashed /\ SerdesReady /\ UNCHANGED <<i2c, dma, sys>>
    \/ Crashed /\ UNCHANGED vars

Spec == Init /\ [][Next]_vars

\* A thread in a call is scheduled, and a driver answers.  Nobody has to make a
\* call, the SerDes need not get ready, and a mutex need not be fair.
FairSpec == Spec /\ \A t \in Threads : WF_vars(~Crashed /\ pc[t] # "idle" /\ Step(t))
----------------------------------------------------------------------------
(* Properties. *)

\* Types; in particular no poll of the SerDes runs past its limit, no open gets
\* a descriptor beyond those of the process, and none is closed twice.
TypeOK ==
    /\ calls \in Programs
    /\ \A t \in Threads : req[t] \in calls \cup {NoCall}
    /\ ret \in [Threads -> -1 .. 1]
    /\ held \in [Threads -> SUBSET Resources]
    /\ fds \in 0 .. MaxFds
    /\ starved \in BOOLEAN
    /\ I2cTypeOK /\ DmaTypeOK /\ PcieTypeOK /\ SysTypeOK

\* The calls that lose something: the descriptor of /dev/mem behind a buffer of
\* the engine; all that a bring-up holds when it fails, and its mapping when it
\* cannot be unmapped; and the unit of a group id, whole, which has no mutex or
\* cannot be unmapped.
KnownLoss(l) ==
    \/ l.op = "dma_addr" /\ l.what = "mem"
    \/ l.op = "bring_up" /\ (l.ret = -1 \/ l.what = "map")
    \/ l.op = "gid" /\ \A x \in {"fd", "map", "unit"} : [l EXCEPT !.what = x] \in lost

\* Every other call gives back what it takes, descriptors, mappings and
\* buffers, on each of its error paths.
LosesNothing == \A l \in lost : KnownLoss(l)

\* A descriptor is wanting only if calls have lost descriptors: as long as
\* they do not, any number of calls of all components can go on.
StarvedByLoss == starved => \E l \in lost : KnownLoss(l) /\ l.what \in {"fd", "mem"}

\* Every call returns, unless it waits for the lock of I2C; and whoever has this
\* lock gives it back.  No poll waits for a device for ever.
Outside(t) == pc[t] \in {"idle", "i2c_lock"}
CallsEnd == \A t \in Threads : ~Outside(t) ~> (Outside(t) \/ Crashed)
=============================================================================
