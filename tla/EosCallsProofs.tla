--------------------------- MODULE EosCallsProofs ---------------------------
(***************************************************************************)
(* Proofs about EosCalls, for every number of threads, descriptors, buses  *)
(* and controllers, and every set of calls that the threads make.          *)
(***************************************************************************)
EXTENDS EosCalls, ChunkLemmas, FiniteSetTheorems, WellFoundedInduction

I2cPcs  == {"i2c_open", "i2c_lock", "i2c_prepare", "i2c_transfer", "i2c_free", "i2c_unlock",
            "i2c_close"}
DmaPcs  == {"dma_open", "dma_close", "dma_check", "dma_ask", "mem_open", "mem_map", "mem_close",
            "print_open", "print_close", "dma_map", "proxy_ioctl", "proxy_status", "proxy_unmap"}
HotPcs  == {"hot_check", "hot_read", "hot_set", "hot_clear"}
BusPcs  == {"bus_open", "bus_ioctl", "bus_close"}
UpPcs   == {"up_open", "up_map", "up_serdes", "up_poll", "up_core_off", "up_core_on", "up_windows",
            "up_master", "up_link", "up_unmap", "up_close"}
GidPcs  == {"gid_init", "gid_map", "gid_mutex", "gid_exit", "gid_close"}
PciePcs == HotPcs \cup BusPcs \cup UpPcs \cup GidPcs
SysPcs  == {"sys_open", "sys_pipe", "sys_spawn", "sys_ask", "sys_close", "sys_next", "sys_report"}
Ends    == {"return", "fault"}
Pcs     == {"idle"} \cup Ends \cup I2cPcs \cup DmaPcs \cup PciePcs \cup SysPcs

\* What a call of each component holds at each of its steps.
I2cAt(t) ==
    /\ req[t] \in I2cRequest /\ pc[t] \in I2cPcs \cup Ends
    /\ pc[t] \in {"i2c_open", "return"} => held[t] = {}
    /\ pc[t] \in {"i2c_lock", "i2c_unlock"} => held[t] = IF IsWrite(t) THEN {} ELSE {"fd"}
    /\ pc[t] \in {"i2c_prepare", "i2c_close", "fault"} => held[t] = {"fd"}
    /\ pc[t] = "fault" => IsWrite(t)
    /\ pc[t] \in {"i2c_transfer", "i2c_free"} => held[t] = {"fd"} \cup Buffers(t)

DmaAt(t) ==
    /\ req[t] \in DmaRequest /\ pc[t] \in DmaPcs \cup {"return"}
    /\ pc[t] \in {"dma_open", "dma_close", "dma_check", "dma_ask", "mem_open", "print_open",
                  "dma_map"} => held[t] = {}
    /\ pc[t] \in {"mem_map", "mem_close"} => held[t] = {"mem"}
    /\ pc[t] = "print_close" => held[t] = {"fd"}
    /\ pc[t] \in {"proxy_ioctl", "proxy_status", "proxy_unmap"} => held[t] = {"map"}
    /\ pc[t] \in {"mem_open", "mem_map", "mem_close"} => Op(t) = "dma_addr"
    /\ pc[t] = "dma_open" => Op(t) \in OpenOps
    /\ pc[t] = "dma_close" => Op(t) \in CloseOps
    /\ pc[t] = "dma_check" => Op(t) \in {"dma_init", "proxy_sg", "proxy_memcpy"}
    /\ pc[t] = "dma_map" => Op(t) \in {"proxy_addr", "proxy_sg", "proxy_memcpy"}
    /\ pc[t] \in {"proxy_ioctl", "proxy_status", "proxy_unmap"} => Op(t) \in {"proxy_sg", "proxy_memcpy"}
    /\ pc[t] = "dma_ask" => Op(t) \in {"dma_init", "dma_start", "dma_addr", "dma_status"}
    /\ pc[t] \in {"print_open", "print_close"} => Op(t) = "dma_print"
    /\ pc[t] = "return" =>
         /\ Op(t) \in OpenOps => held[t] \in {{}, {"handle"}}
         /\ Op(t) = "dma_addr" => held[t] \in {{}, {"mem", "view"}}
         /\ Op(t) = "proxy_addr" => held[t] \in {{}, {"view"}}
         /\ Op(t) \notin OpenOps \cup {"dma_addr", "proxy_addr"} => held[t] = {}

PcieAt(t) ==
    /\ req[t] \in PcieRequest /\ pc[t] \in PciePcs \cup {"return"}
    /\ pc[t] \in HotPcs => Op(t) = "hot_reset"
    /\ pc[t] \in BusPcs => Op(t) \in {"scan", "remove"}
    /\ pc[t] \in UpPcs => Op(t) = "bring_up" /\ ret[t] = 0
    /\ pc[t] \in GidPcs => Op(t) = "gid"
    /\ pc[t] \in HotPcs \cup {"bus_open", "up_open", "gid_init"} => held[t] = {}
    /\ pc[t] \in {"bus_ioctl", "bus_close", "gid_map", "gid_close"} => held[t] = {"fd"}
    /\ pc[t] = "up_map" => held[t] = {"mem"}
    /\ pc[t] = "up_close" => held[t] \in {{"mem"}, {"mem", "map"}}
    /\ pc[t] \in UpPcs \ {"up_open", "up_map", "up_close"} => held[t] = {"mem", "map"}
    /\ pc[t] \in {"gid_mutex", "gid_exit"} => held[t] = {"fd", "map", "unit"}
    /\ pc[t] = "return" =>
         /\ Op(t) = "bring_up" => held[t] \in {{}, {"map"}} \/ (ret[t] = -1 /\ held[t] \in {{"mem"}, {"mem", "map"}})
         /\ Op(t) = "gid" => held[t] \in {{}, {"fd", "map", "unit"}}
         /\ Op(t) \notin {"bring_up", "gid"} => held[t] = {}

SysAt(t) ==
    /\ req[t] \in SysRequest /\ pc[t] \in SysPcs \cup Ends
    /\ pc[t] \in {"sys_open", "sys_next", "sys_report"} \cup Ends => held[t] = {}
    /\ pc[t] \in {"sys_open", "sys_close", "sys_next"} => Op(t) # "mem_sysinfo"
    /\ pc[t] \in {"sys_pipe", "sys_spawn"} => Op(t) = "mem_popen"
    /\ pc[t] = "sys_pipe" => held[t] = {"fd"}
    /\ pc[t] = "sys_spawn" => held[t] = {"fd", "pipe"}
    /\ pc[t] = "sys_ask" => held[t] = IF Op(t) = "mem_sysinfo" THEN {} ELSE {"fd"}
    /\ pc[t] = "sys_close" => held[t] = {"fd"}

IdleAt(t) == pc[t] = "idle" /\ req[t] = NoCall /\ ret[t] = 0 /\ held[t] = {}
CallAt(t) == IdleAt(t) \/ I2cAt(t) \/ DmaAt(t) \/ PcieAt(t) \/ SysAt(t)

ProcessType ==
    /\ calls \in Programs
    /\ pc \in [Threads -> Pcs]
    /\ req \in [Threads -> calls \cup {NoCall}]
    /\ ret \in [Threads -> -1 .. 1]
    /\ held \in [Threads -> SUBSET Resources]
CallInv == ProcessType /\ \A t \in Threads : CallAt(t)

----------------------------------------------------------------------------
(* A step of a thread. *)

\* The other threads are where they were, and t makes a call of the program.
OnlyMoves(t) ==
    /\ pc' = [pc EXCEPT ![t] = pc'[t]]
    /\ req' = [req EXCEPT ![t] = req'[t]]
    /\ ret' = [ret EXCEPT ![t] = ret'[t]]
    /\ held' = [held EXCEPT ![t] = held'[t]]
    /\ calls' = calls /\ req'[t] \in calls \cup {NoCall} /\ ret'[t] \in -1 .. 1

\* A step within a call leads to l, with result v, and h in hand; it may open
\* or close a descriptor w on the way, or fail to open one.
Within(t, l) == pc'[t] = l /\ req' = req /\ lost' = lost /\ OnlyMoves(t)
Leads(t, l, v, h) ==
    Within(t, l) /\ ret'[t] = v /\ held'[t] = h /\ fds' = fds /\ starved' = starved
Opens(t, w, l) ==
    /\ Within(t, l) /\ ret' = ret /\ held'[t] = held[t] \cup {w}
    /\ fds < MaxFds /\ fds' = fds + 1 /\ starved' = starved
Fails(t, l) ==
    /\ Within(t, l) /\ ret'[t] = -1 /\ held' = held
    /\ fds' = fds /\ starved' = (starved \/ fds = MaxFds)
Closes(t, w, l) ==
    /\ Within(t, l) /\ ret' = ret /\ held'[t] = held[t] \ {w}
    /\ fds' = fds - 1 /\ starved' = starved

\* What the steps of EosProcess that are parts of a call amount to.
LEMMA Leading ==
    ASSUME ProcessType, NEW t \in Threads, NEW l, NEW m, NEW v, NEW w
    PROVE  /\ Move(t, l) => Leads(t, l, ret[t], held[t])
           /\ v \in {-1, 0, 1} /\ MoveWith(t, l, v) => Leads(t, l, v, held[t])
           /\ Take(t, w, l) => Leads(t, l, ret[t], held[t] \cup w)
           /\ Give(t, w, l) => Leads(t, l, ret[t], held[t] \ w)
           /\ Close(t, w, l) => Closes(t, w, l)
           /\ Open(t, w, l, m) => Opens(t, w, l) \/ Fails(t, m)
BY DEF ProcessType, Within, Leads, Opens, Fails, Closes, OnlyMoves,
       Move, MoveWith, Take, Give, Close, Open, Goto, Result

\* A call begins, with nothing in hand.
LEMMA Beginning ==
    ASSUME ProcessType, NEW t \in Threads, NEW r \in calls, NEW l, Begin(t, r, l)
    PROVE  /\ pc[t] = "idle" /\ pc'[t] = l /\ req'[t] = r /\ ret' = ret /\ held' = held /\ OnlyMoves(t)
           /\ fds' = fds /\ lost' = lost /\ starved' = starved
BY DEF ProcessType, OnlyMoves, Begin, Goto

\* A call ends.
LEMMA Returning ==
    ASSUME ProcessType, NEW t \in Threads, Return(t)
    PROVE  pc[t] = "return" /\ IdleAt(t)' /\ OnlyMoves(t)
BY DEF ProcessType, OnlyMoves, IdleAt, Return, Goto, Result

\* A step of t keeps what is said of all threads, if it keeps it of t.
LEMMA Resting ==
    ASSUME ProcessType, NEW t \in Threads, OnlyMoves(t)
    PROVE  \A u \in Threads \ {t} : pc'[u] = pc[u] /\ req'[u] = req[u] /\ ret'[u] = ret[u] /\ held'[u] = held[u]
BY DEF ProcessType, OnlyMoves

\* The component that a step belongs to.
LEMMA Whose ==
    ASSUME NEW t \in Threads, CallAt(t)
    PROVE  /\ pc[t] \in I2cPcs => I2cAt(t)
           /\ pc[t] \in DmaPcs => DmaAt(t)
           /\ pc[t] \in PciePcs => PcieAt(t)
           /\ pc[t] \in SysPcs => SysAt(t)
           /\ pc[t] = "idle" => IdleAt(t)
           /\ I2cAt(t) => Op(t) \in I2cOps
           /\ DmaAt(t) => Op(t) \in DmaOps
           /\ PcieAt(t) => Op(t) \in PcieOps
           /\ SysAt(t) => Op(t) \in SysOps
<1>1. /\ I2cAt(t) => Op(t) \in I2cOps
      /\ DmaAt(t) => Op(t) \in DmaOps
      /\ PcieAt(t) => Op(t) \in PcieOps
      /\ SysAt(t) => Op(t) \in SysOps
  BY DEF I2cAt, DmaAt, PcieAt, SysAt, Op, I2cRequest, DmaRequest, PcieRequest, SysRequest, I2cOps
<1>2. /\ pc[t] \in I2cPcs => ~IdleAt(t) /\ ~DmaAt(t) /\ ~PcieAt(t) /\ ~SysAt(t)
      /\ pc[t] \in DmaPcs => ~IdleAt(t) /\ ~I2cAt(t) /\ ~PcieAt(t) /\ ~SysAt(t)
      /\ pc[t] \in PciePcs => ~IdleAt(t) /\ ~I2cAt(t) /\ ~DmaAt(t) /\ ~SysAt(t)
      /\ pc[t] \in SysPcs => ~IdleAt(t) /\ ~I2cAt(t) /\ ~DmaAt(t) /\ ~PcieAt(t)
      /\ pc[t] = "idle" => ~I2cAt(t) /\ ~DmaAt(t) /\ ~PcieAt(t) /\ ~SysAt(t)
  BY DEF IdleAt, I2cAt, DmaAt, PcieAt, SysAt, I2cPcs, DmaPcs, PciePcs, HotPcs, BusPcs, UpPcs, GidPcs, SysPcs, Ends
<1> QED
  BY <1>1, <1>2 DEF CallAt

\* A call of the program is one of a component.
LEMMA CallOf ==
    ASSUME ProcessType, NEW r \in calls
    PROVE  /\ r.op \in I2cOps => r \in I2cRequest
           /\ r.op \in DmaOps => r \in DmaRequest
           /\ r.op \in PcieOps => r \in PcieRequest
           /\ r.op \in SysOps => r \in SysRequest
<1>1. r \in I2cRequest \cup DmaRequest \cup PcieRequest \cup SysRequest
  BY ProgramAssumption DEF ProcessType
<1>2. /\ r \in I2cRequest => r.op \in I2cOps
      /\ r \in DmaRequest => r.op \in DmaOps
      /\ r \in PcieRequest => r.op \in PcieOps
      /\ r \in SysRequest => r.op \in SysOps
  BY DEF I2cRequest, DmaRequest, PcieRequest, SysRequest, I2cOps
<1> QED
  BY <1>1, <1>2 DEF I2cOps, DmaOps, ProxyOps, PcieOps, SysOps

\* No two components have a function of the same name.
LEMMA OpsDiffer ==
    /\ I2cOps \cap DmaOps = {} /\ I2cOps \cap PcieOps = {} /\ I2cOps \cap SysOps = {}
    /\ DmaOps \cap PcieOps = {} /\ DmaOps \cap SysOps = {} /\ PcieOps \cap SysOps = {}
BY DEF I2cOps, DmaOps, ProxyOps, PcieOps, SysOps

\* What a step does to the descriptors of t and to all that are open.
HasFd(t) == "fd" \in held[t] \/ "mem" \in held[t] \/ "handle" \in held[t]
HasPipe(t) == "pipe" \in held[t]
CountsFd(t) ==
    /\ HasPipe(t)' <=> HasPipe(t)
    /\ \/ fds' = fds /\ starved' = starved /\ (HasFd(t)' <=> HasFd(t))
       \/ fds' = fds /\ starved' = (starved \/ fds = MaxFds) /\ ~HasFd(t) /\ ~HasFd(t)'
       \/ fds < MaxFds /\ fds' = fds + 1 /\ starved' = starved /\ ~HasFd(t) /\ HasFd(t)'
       \/ fds' = fds - 1 /\ starved' = starved /\ HasFd(t) /\ ~HasFd(t)'
CountsPipe(t) ==
    /\ HasFd(t)' <=> HasFd(t)
    /\ \/ fds' = fds /\ starved' = (starved \/ fds = MaxFds) /\ ~HasPipe(t) /\ ~HasPipe(t)'
       \/ fds < MaxFds /\ fds' = fds + 1 /\ starved' = starved /\ ~HasPipe(t) /\ HasPipe(t)'
       \/ fds' = fds - 1 /\ starved' = starved /\ HasPipe(t) /\ ~HasPipe(t)'
Counts(t) == lost' = lost /\ (CountsFd(t) \/ CountsPipe(t))

\* A step that neither ends a call nor closes a handle; it begins a call of the
\* DMA engine, goes on with one, or has nothing to do with it.
WithinDma(t) == pc'[t] # "dma_close" /\ (req' = req \/ Op(t)' \notin DmaOps)
Passes(t) == Counts(t) /\ handles' = handles /\ (DmaCall(t) \/ WithinDma(t))

\* What it does to the lock of I2C.
Locks(t) ==
    \/ i2cLock' = i2cLock /\ (InI2c(t)' <=> InI2c(t))
    \/ i2cLock = NoThread /\ i2cLock' = t /\ InI2c(t)'
    \/ i2cLock' = NoThread /\ InI2c(t) /\ ~InI2c(t)'

\* A step of a call of I2C leads from one of its places to another.
LEMMA I2cSteps ==
    ASSUME CallInv, NEW t \in Threads, I2cNext(t)
    PROVE  /\ OnlyMoves(t) /\ (IdleAt(t) \/ I2cAt(t)) /\ (IdleAt(t)' \/ I2cAt(t)')
           /\ (Counts(t) \/ I2cReturn(t)) /\ Locks(t)
<1>1. ProcessType /\ CallAt(t)
  BY DEF CallInv
<1>2. CASE I2cCall(t)
  <2>1. PICK r \in calls : /\ r.op \in I2cOps
                           /\ Begin(t, r, IF r.op = "i2c_write" THEN "i2c_lock" ELSE "i2c_open")
    BY <1>2 DEF I2cCall
  <2>2. r \in I2cRequest /\ IdleAt(t)
    BY <1>1, <2>1, Beginning, Whose, CallOf
  <2>3. /\ pc'[t] = IF r.op = "i2c_write" THEN "i2c_lock" ELSE "i2c_open"
        /\ req'[t] = r /\ held' = held /\ OnlyMoves(t) /\ fds' = fds /\ lost' = lost
        /\ starved' = starved
    BY <1>1, <2>1, <2>2, Beginning DEF IdleAt
  <2> QED
    BY <1>2, <2>2, <2>3 DEF I2cCall, i2c, I2cAt, IsWrite, Op, I2cPcs, IdleAt, Counts, CountsFd, HasFd, HasPipe, Locks, InI2c, I2cOps, NoCall
<1>3. CASE I2cOpen(t)
  <2>1. pc[t] = "i2c_open" /\ I2cAt(t) /\ Op(t) \in I2cOps /\ i2cLock' = i2cLock
    BY <1>1, <1>3, Whose DEF I2cOpen, I2cPcs, i2c
  <2>2. \/ Opens(t, "fd", AfterOpen(t))
        \/ Fails(t, IF IsWrite(t) THEN "i2c_unlock" ELSE "return")
    BY <1>1, <1>3, Leading DEF I2cOpen
  <2> QED
    BY <2>1, <2>2
    DEF Within, Opens, Fails, HasFd, HasPipe, CountsFd, Counts, Locks, InI2c, I2cOps, I2cAt, Op, AfterOpen, IsWrite, I2cPcs, Ends
<1>4. CASE I2cLock(t)
  <2>1. pc[t] = "i2c_lock" /\ I2cAt(t) /\ Op(t) \in I2cOps /\ i2cLock = NoThread /\ i2cLock' = t
    BY <1>1, <1>4, Whose DEF I2cLock, I2cPcs, I2cFree
  <2>2. Leads(t, AfterLock(t), ret[t], held[t])
    BY <1>1, <1>4, Leading DEF I2cLock
  <2> QED
    BY <2>1, <2>2
    DEF Within, Leads, HasFd, HasPipe, CountsFd, Counts, Locks, InI2c, I2cOps, I2cAt, Op, AfterLock, IsWrite, I2cPcs, Ends
<1>5. CASE I2cPrepare(t)
  <2>1. pc[t] = "i2c_prepare" /\ I2cAt(t) /\ Op(t) \in I2cOps /\ i2cLock' = i2cLock
    BY <1>1, <1>5, Whose DEF I2cPrepare, I2cPcs, i2c
  <2>2. \/ Leads(t, AfterFree(t), -1, held[t])
        \/ Leads(t, "i2c_transfer", ret[t], held[t] \cup Buffers(t))
        \/ IsWrite(t) /\ Leads(t, "fault", ret[t], held[t])
    BY <1>1, <1>5, Leading DEF I2cPrepare
  <2> QED
    BY <2>1, <2>2
    DEF Within, Leads, HasFd, HasPipe, CountsFd, Counts, Locks, InI2c, I2cOps, I2cAt, Op, AfterFree, Buffers, IsWrite, I2cPcs, Ends
<1>6. CASE I2cTransfer(t)
  <2>1. pc[t] = "i2c_transfer" /\ I2cAt(t) /\ Op(t) \in I2cOps /\ i2cLock' = i2cLock
    BY <1>1, <1>6, Whose DEF I2cTransfer, I2cPcs
  <2>2. \/ Leads(t, "i2c_free", ret[t], held[t])
        \/ Leads(t, "i2c_free", -1, held[t])
    BY <1>1, <1>6, Leading DEF I2cTransfer
  <2> QED
    BY <2>1, <2>2
    DEF Within, Leads, HasFd, HasPipe, CountsFd, Counts, Locks, InI2c, I2cOps, I2cAt, Op, Buffers, IsWrite, I2cPcs, Ends
<1>7. CASE I2cFreeBuffers(t)
  <2>1. pc[t] = "i2c_free" /\ I2cAt(t) /\ Op(t) \in I2cOps /\ i2cLock' = i2cLock
    BY <1>1, <1>7, Whose DEF I2cFreeBuffers, I2cPcs, i2c
  <2>2. Leads(t, AfterFree(t), ret[t], held[t] \ {"first", "second"})
    BY <1>1, <1>7, Leading DEF I2cFreeBuffers
  <2> QED
    BY <2>1, <2>2
    DEF Within, Leads, HasFd, HasPipe, CountsFd, Counts, Locks, InI2c, I2cOps, I2cAt, Op, AfterFree, Buffers, IsWrite, I2cPcs, Ends
<1>8. CASE I2cUnlock(t)
  <2>1. pc[t] = "i2c_unlock" /\ I2cAt(t) /\ Op(t) \in I2cOps /\ i2cLock' = NoThread
    BY <1>1, <1>8, Whose DEF I2cUnlock, I2cPcs
  <2>2. Leads(t, AfterUnlock(t), ret[t], held[t])
    BY <1>1, <1>8, Leading DEF I2cUnlock
  <2> QED
    BY <2>1, <2>2
    DEF Within, Leads, HasFd, HasPipe, CountsFd, Counts, Locks, InI2c, I2cOps, I2cAt, Op, AfterUnlock, IsWrite, I2cPcs, Ends
<1>9. CASE I2cClose(t)
  <2>1. pc[t] = "i2c_close" /\ I2cAt(t) /\ Op(t) \in I2cOps /\ i2cLock' = i2cLock
    BY <1>1, <1>9, Whose DEF I2cClose, I2cPcs, i2c
  <2>2. Closes(t, "fd", AfterClose(t))
    BY <1>1, <1>9, Leading DEF I2cClose
  <2> QED
    BY <2>1, <2>2
    DEF Within, Closes, HasFd, HasPipe, CountsFd, Counts, Locks, InI2c, I2cOps, I2cAt, Op, AfterClose, IsWrite, I2cPcs, Ends
<1>10. CASE I2cReturn(t)
  <2>1. Return(t) /\ Op(t) \in I2cOps /\ i2cLock' = i2cLock
    BY <1>10 DEF I2cReturn
  <2>2. pc[t] = "return" /\ IdleAt(t)' /\ OnlyMoves(t)
    BY <1>1, <2>1, Returning
  <2>3. I2cAt(t)
    BY <1>1, <2>1, Whose, OpsDiffer DEF CallAt, IdleAt, Op, NoCall, I2cOps
  <2> QED
    BY <1>10, <2>1, <2>2, <2>3 DEF Locks, InI2c, IdleAt, Op, IsWrite, I2cOps, NoCall
<1> QED
  BY <1>2, <1>3, <1>4, <1>5, <1>6, <1>7, <1>8, <1>9, <1>10 DEF I2cNext

\* A step of a call of the DMA engine or of its proxy.
LEMMA DmaSteps ==
    ASSUME CallInv, NEW t \in Threads, DmaNext(t)
    PROVE  /\ OnlyMoves(t) /\ (IdleAt(t) \/ DmaAt(t)) /\ (IdleAt(t)' \/ DmaAt(t)')
           /\ (Passes(t) \/ DmaReturn(t) \/ DmaClose(t))
<1>1. ProcessType /\ CallAt(t)
  BY DEF CallInv
<1>2. CASE DmaCall(t)
  <2>1. PICK r \in calls : r.op \in DmaOps /\ Begin(t, r, FirstDma(r.op))
    BY <1>2 DEF DmaCall
  <2>2. r \in DmaRequest /\ IdleAt(t)
    BY <1>1, <2>1, Beginning, Whose, CallOf
  <2>3. /\ FirstDma(r.op) \in {"dma_open", "dma_close", "dma_check", "dma_map", "print_open", "dma_ask"}
        /\ FirstDma(r.op) = "dma_open" => r.op \in OpenOps
        /\ FirstDma(r.op) = "dma_close" => r.op \in CloseOps
        /\ FirstDma(r.op) = "dma_check" => r.op \in {"dma_init", "proxy_sg", "proxy_memcpy"}
        /\ FirstDma(r.op) = "dma_map" => r.op = "proxy_addr"
        /\ FirstDma(r.op) = "print_open" => r.op = "dma_print"
        /\ FirstDma(r.op) = "dma_ask" => r.op \in {"dma_start", "dma_addr", "dma_status"}
    BY <2>1 DEF FirstDma, OpenOps, CloseOps, DmaOps, ProxyOps
  <2>4. /\ pc'[t] = FirstDma(r.op) /\ req'[t] = r /\ held' = held /\ OnlyMoves(t) /\ fds' = fds /\ lost' = lost
        /\ starved' = starved
    BY <1>1, <2>1, <2>2, Beginning DEF IdleAt
  <2> QED
    BY <1>2, <2>2, <2>3, <2>4 DEF dma, DmaCall, Passes, DmaAt, Op, DmaPcs, IdleAt, Counts, CountsFd, HasFd, HasPipe
<1>3. CASE DmaOpen(t)
  <2>1. pc[t] = "dma_open" /\ DmaAt(t) /\ handles' = handles
    BY <1>1, <1>3, Whose DEF DmaOpen, DmaPcs, dma
  <2>2. \/ Opens(t, "handle", "return")
        \/ Fails(t, "return")
    BY <1>1, <1>3, Leading DEF DmaOpen
  <2> QED
    BY <2>1, <2>2
    DEF Within, Opens, Fails, HasFd, HasPipe, CountsFd, Counts, Passes, WithinDma, DmaAt, Op, OpenOps, DmaPcs
<1>4. CASE DmaClose(t)
  <2>1. pc[t] = "dma_close" /\ DmaAt(t)
    BY <1>1, <1>4, Whose DEF DmaClose, DmaPcs
  <2>2. Closes(t, "handle", "return")
    BY <1>1, <1>4, Leading DEF DmaClose
  <2> QED
    BY <2>1, <2>2, <1>4
    DEF Within, Closes, HasFd, HasPipe, CountsFd, Counts, Passes, WithinDma, DmaAt, Op, OpenOps, CloseOps, DmaPcs
<1>5. CASE DmaCheck(t)
  <2>1. pc[t] = "dma_check" /\ DmaAt(t) /\ handles' = handles
    BY <1>1, <1>5, Whose DEF DmaCheck, DmaPcs, dma
  <2>2. \/ Leads(t, "return", -1, held[t])
        \/ Op(t) = "dma_init" /\ Leads(t, "dma_ask", ret[t], held[t])
        \/ Op(t) # "dma_init" /\ Leads(t, "dma_map", -1, held[t])
    BY <1>1, <1>5, Leading DEF DmaCheck
  <2> QED
    BY <2>1, <2>2
    DEF Within, Leads, HasFd, HasPipe, CountsFd, Counts, Passes, WithinDma, DmaAt, Op, OpenOps, DmaPcs
<1>6. CASE DmaAsk(t)
  <2>1. pc[t] = "dma_ask" /\ DmaAt(t) /\ handles' = handles
    BY <1>1, <1>6, Whose DEF DmaAsk, DmaPcs, dma
  <2>2. \/ \E v \in {-1, 0, 1} : Leads(t, "return", v, held[t])
        \/ Leads(t, "return", ret[t], held[t])
        \/ Op(t) = "dma_addr" /\ Leads(t, "mem_open", ret[t], held[t])
    BY <1>1, <1>6, Leading DEF DmaAsk
  <2> QED
    BY <2>1, <2>2
    DEF Within, Leads, HasFd, HasPipe, CountsFd, Counts, Passes, WithinDma, DmaAt, Op, OpenOps, DmaPcs
<1>7. CASE MemOpen(t)
  <2>1. pc[t] = "mem_open" /\ DmaAt(t) /\ handles' = handles
    BY <1>1, <1>7, Whose DEF MemOpen, DmaPcs, dma
  <2>2. \/ Opens(t, "mem", "mem_map")
        \/ Fails(t, "return")
    BY <1>1, <1>7, Leading DEF MemOpen
  <2> QED
    BY <2>1, <2>2
    DEF Within, Opens, Fails, HasFd, HasPipe, CountsFd, Counts, Passes, WithinDma, DmaAt, Op, OpenOps, DmaPcs
<1>8. CASE MemMap(t)
  <2>1. pc[t] = "mem_map" /\ DmaAt(t) /\ handles' = handles
    BY <1>1, <1>8, Whose DEF MemMap, DmaPcs, dma
  <2>2. \/ Leads(t, "return", ret[t], held[t] \cup {"view"})
        \/ Leads(t, "mem_close", -1, held[t])
    BY <1>1, <1>8, Leading DEF MemMap
  <2> QED
    BY <2>1, <2>2
    DEF Within, Leads, HasFd, HasPipe, CountsFd, Counts, Passes, WithinDma, DmaAt, Op, OpenOps, DmaPcs
<1>9. CASE MemClose(t)
  <2>1. pc[t] = "mem_close" /\ DmaAt(t) /\ handles' = handles
    BY <1>1, <1>9, Whose DEF MemClose, DmaPcs, dma
  <2>2. Closes(t, "mem", "return")
    BY <1>1, <1>9, Leading DEF MemClose
  <2> QED
    BY <2>1, <2>2
    DEF Within, Closes, HasFd, HasPipe, CountsFd, Counts, Passes, WithinDma, DmaAt, Op, OpenOps, DmaPcs
<1>10. CASE PrintOpen(t)
  <2>1. pc[t] = "print_open" /\ DmaAt(t) /\ handles' = handles
    BY <1>1, <1>10, Whose DEF PrintOpen, DmaPcs, dma
  <2>2. \/ Opens(t, "fd", "print_close")
        \/ Fails(t, "return")
    BY <1>1, <1>10, Leading DEF PrintOpen
  <2> QED
    BY <2>1, <2>2
    DEF Within, Opens, Fails, HasFd, HasPipe, CountsFd, Counts, Passes, WithinDma, DmaAt, Op, OpenOps, DmaPcs
<1>11. CASE PrintClose(t)
  <2>1. pc[t] = "print_close" /\ DmaAt(t) /\ handles' = handles
    BY <1>1, <1>11, Whose DEF PrintClose, DmaPcs, dma
  <2>2. Closes(t, "fd", "return")
    BY <1>1, <1>11, Leading DEF PrintClose
  <2> QED
    BY <2>1, <2>2
    DEF Within, Closes, HasFd, HasPipe, CountsFd, Counts, Passes, WithinDma, DmaAt, Op, OpenOps, DmaPcs
<1>12. CASE DmaMap(t)
  <2>1. pc[t] = "dma_map" /\ DmaAt(t) /\ handles' = handles
    BY <1>1, <1>12, Whose DEF DmaMap, DmaPcs, dma
  <2>2. \/ Leads(t, "return", -1, held[t])
        \/ Op(t) = "proxy_addr" /\ Leads(t, "return", ret[t], held[t] \cup {"view"})
        \/ Op(t) # "proxy_addr" /\ Leads(t, "proxy_ioctl", ret[t], held[t] \cup {"map"})
    BY <1>1, <1>12, Leading DEF DmaMap
  <2> QED
    BY <2>1, <2>2
    DEF Within, Leads, HasFd, HasPipe, CountsFd, Counts, Passes, WithinDma, DmaAt, Op, OpenOps, DmaPcs
<1>13. CASE ProxyIoctl(t)
  <2>1. pc[t] = "proxy_ioctl" /\ DmaAt(t) /\ handles' = handles
    BY <1>1, <1>13, Whose DEF ProxyIoctl, DmaPcs, dma
  <2>2. Leads(t, "proxy_status", ret[t], held[t])
    BY <1>1, <1>13, Leading DEF ProxyIoctl
  <2> QED
    BY <2>1, <2>2
    DEF Within, Leads, HasFd, HasPipe, CountsFd, Counts, Passes, WithinDma, DmaAt, Op, OpenOps, DmaPcs
<1>14. CASE ProxyStatus(t)
  <2>1. pc[t] = "proxy_status" /\ DmaAt(t) /\ handles' = handles
    BY <1>1, <1>14, Whose DEF ProxyStatus, DmaPcs, dma
  <2>2. \/ Leads(t, "proxy_unmap", -1, held[t])
        \/ Leads(t, "proxy_unmap", ret[t], held[t])
    BY <1>1, <1>14, Leading DEF ProxyStatus
  <2> QED
    BY <2>1, <2>2
    DEF Within, Leads, HasFd, HasPipe, CountsFd, Counts, Passes, WithinDma, DmaAt, Op, OpenOps, DmaPcs
<1>15. CASE ProxyUnmap(t)
  <2>1. pc[t] = "proxy_unmap" /\ DmaAt(t) /\ handles' = handles
    BY <1>1, <1>15, Whose DEF ProxyUnmap, DmaPcs, dma
  <2>2. Leads(t, "return", ret[t], held[t] \ {"map"})
    BY <1>1, <1>15, Leading DEF ProxyUnmap
  <2> QED
    BY <2>1, <2>2
    DEF Within, Leads, HasFd, HasPipe, CountsFd, Counts, Passes, WithinDma, DmaAt, Op, OpenOps, DmaPcs
<1>16. CASE DmaReturn(t)
  <2>1. Return(t) /\ Op(t) \in DmaOps
    BY <1>16 DEF DmaReturn
  <2>2. IdleAt(t)' /\ OnlyMoves(t)
    BY <1>1, <2>1, Returning
  <2> QED
    BY <1>1, <1>16, <2>1, <2>2, Whose, OpsDiffer DEF CallAt, IdleAt, Op, NoCall, DmaOps, ProxyOps
<1> QED
  BY <1>2, <1>3, <1>4, <1>5, <1>6, <1>7, <1>8, <1>9, <1>10, <1>11, <1>12, <1>13, <1>14, <1>15, <1>16 DEF DmaNext

\* A step of a call of PCI Express or of eos_get_gid.
LEMMA PcieSteps ==
    ASSUME CallInv, NEW t \in Threads, PcieNext(t)
    PROVE  /\ OnlyMoves(t) /\ (IdleAt(t) \/ PcieAt(t)) /\ (IdleAt(t)' \/ PcieAt(t)')
           /\ (Counts(t) \/ PcieReturn(t))
<1>1. ProcessType /\ CallAt(t)
  BY DEF CallInv
<1>2. CASE PcieCall(t)
  <2>1. PICK r \in calls : r.op \in PcieOps /\ Begin(t, r, FirstPcie(r.op))
    BY <1>2 DEF PcieCall
  <2>2. r \in PcieRequest /\ IdleAt(t)
    BY <1>1, <2>1, Beginning, Whose, CallOf
  <2>3. /\ FirstPcie(r.op) \in {"hot_check", "bus_open", "up_open", "gid_init"}
        /\ FirstPcie(r.op) = "hot_check" => r.op = "hot_reset"
        /\ FirstPcie(r.op) = "bus_open" => r.op \in {"scan", "remove"}
        /\ FirstPcie(r.op) = "up_open" => r.op = "bring_up"
        /\ FirstPcie(r.op) = "gid_init" => r.op = "gid"
    BY <2>1 DEF FirstPcie, PcieOps
  <2>4. /\ pc'[t] = FirstPcie(r.op) /\ req'[t] = r /\ held' = held /\ ret'[t] = 0 /\ OnlyMoves(t) /\ fds' = fds
        /\ lost' = lost /\ starved' = starved
    BY <1>1, <2>1, <2>2, Beginning DEF IdleAt
  <2> QED
    BY <2>2, <2>3, <2>4 DEF PcieAt, Op, PciePcs, HotPcs, BusPcs, UpPcs, GidPcs, IdleAt, Counts, CountsFd, HasFd, HasPipe
<1>3. CASE HotCheck(t)
  <2>1. pc[t] = "hot_check" /\ PcieAt(t)
    BY <1>1, <1>3, Whose DEF HotCheck, PciePcs, HotPcs
  <2>2. \/ Leads(t, "hot_read", ret[t], held[t])
        \/ Leads(t, "return", -1, held[t])
    BY <1>1, <1>3, Leading DEF HotCheck
  <2> QED
    BY <2>1, <2>2
    DEF Within, Leads, HasFd, HasPipe, CountsFd, Counts, PcieAt, Op, HotPcs, PciePcs, BusPcs, UpPcs, GidPcs
<1>4. CASE HotRead(t)
  <2>1. pc[t] = "hot_read" /\ PcieAt(t)
    BY <1>1, <1>4, Whose DEF HotRead, PciePcs, HotPcs
  <2>2. Leads(t, "hot_set", ret[t], held[t])
    BY <1>1, <1>4, Leading DEF HotRead
  <2> QED
    BY <2>1, <2>2
    DEF Within, Leads, HasFd, HasPipe, CountsFd, Counts, PcieAt, Op, HotPcs, PciePcs, BusPcs, UpPcs, GidPcs
<1>5. CASE HotSet(t)
  <2>1. pc[t] = "hot_set" /\ PcieAt(t)
    BY <1>1, <1>5, Whose DEF HotSet, PciePcs, HotPcs
  <2>2. Leads(t, "hot_clear", ret[t], held[t])
    BY <1>1, <1>5, Leading DEF HotSet
  <2> QED
    BY <2>1, <2>2
    DEF Within, Leads, HasFd, HasPipe, CountsFd, Counts, PcieAt, Op, HotPcs, PciePcs, BusPcs, UpPcs, GidPcs
<1>6. CASE HotClear(t)
  <2>1. pc[t] = "hot_clear" /\ PcieAt(t)
    BY <1>1, <1>6, Whose DEF HotClear, PciePcs, HotPcs
  <2>2. Leads(t, "return", ret[t], held[t])
    BY <1>1, <1>6, Leading DEF HotClear
  <2> QED
    BY <2>1, <2>2
    DEF Within, Leads, HasFd, HasPipe, CountsFd, Counts, PcieAt, Op, HotPcs, PciePcs, BusPcs, UpPcs, GidPcs
<1>7. CASE BusOpen(t)
  <2>1. pc[t] = "bus_open" /\ PcieAt(t)
    BY <1>1, <1>7, Whose DEF BusOpen, PciePcs, BusPcs
  <2>2. \/ Opens(t, "fd", "bus_ioctl")
        \/ Fails(t, "return")
    BY <1>1, <1>7, Leading DEF BusOpen
  <2> QED
    BY <2>1, <2>2
    DEF Within, Opens, Fails, HasFd, HasPipe, CountsFd, Counts, PcieAt, Op, BusPcs, PciePcs, HotPcs, UpPcs, GidPcs
<1>8. CASE BusIoctl(t)
  <2>1. pc[t] = "bus_ioctl" /\ PcieAt(t)
    BY <1>1, <1>8, Whose DEF BusIoctl, PciePcs, BusPcs
  <2>2. \E v \in {-1, 0, 1} : Leads(t, "bus_close", v, held[t])
    BY <1>1, <1>8, Leading DEF BusIoctl
  <2> QED
    BY <2>1, <2>2
    DEF Within, Leads, HasFd, HasPipe, CountsFd, Counts, PcieAt, Op, BusPcs, PciePcs, HotPcs, UpPcs, GidPcs
<1>9. CASE BusClose(t)
  <2>1. pc[t] = "bus_close" /\ PcieAt(t)
    BY <1>1, <1>9, Whose DEF BusClose, PciePcs, BusPcs
  <2>2. Closes(t, "fd", "return")
    BY <1>1, <1>9, Leading DEF BusClose
  <2> QED
    BY <2>1, <2>2
    DEF Within, Closes, HasFd, HasPipe, CountsFd, Counts, PcieAt, Op, BusPcs, PciePcs, HotPcs, UpPcs, GidPcs
<1>10. CASE UpOpen(t)
  <2>1. pc[t] = "up_open" /\ PcieAt(t)
    BY <1>1, <1>10, Whose DEF UpOpen, PciePcs, UpPcs
  <2>2. \/ Opens(t, "mem", "up_map")
        \/ Fails(t, "return")
    BY <1>1, <1>10, Leading DEF UpOpen
  <2> QED
    BY <2>1, <2>2
    DEF Within, Opens, Fails, HasFd, HasPipe, CountsFd, Counts, PcieAt, Op, UpPcs, PciePcs, HotPcs, BusPcs, GidPcs
<1>11. CASE UpMap(t)
  <2>1. pc[t] = "up_map" /\ PcieAt(t)
    BY <1>1, <1>11, Whose DEF UpMap, PciePcs, UpPcs
  <2>2. \/ Leads(t, "up_serdes", ret[t], held[t] \cup {"map"})
        \/ Leads(t, "return", -1, held[t])
    BY <1>1, <1>11, Leading DEF UpMap
  <2> QED
    BY <2>1, <2>2
    DEF Within, Leads, HasFd, HasPipe, CountsFd, Counts, PcieAt, Op, UpPcs, PciePcs, HotPcs, BusPcs, GidPcs
<1>12. CASE UpSerdes(t)
  <2>1. pc[t] = "up_serdes" /\ PcieAt(t)
    BY <1>1, <1>12, Whose DEF UpSerdes, PciePcs, UpPcs
  <2>2. Leads(t, "up_poll", ret[t], held[t])
    BY <1>1, <1>12, Leading DEF UpSerdes
  <2> QED
    BY <2>1, <2>2
    DEF Within, Leads, HasFd, HasPipe, CountsFd, Counts, PcieAt, Op, UpPcs, PciePcs, HotPcs, BusPcs, GidPcs
<1>13. CASE UpPoll(t)
  <2>1. pc[t] = "up_poll" /\ PcieAt(t)
    BY <1>1, <1>13, Whose DEF UpPoll, PciePcs, UpPcs
  <2>2. \/ Leads(t, "up_core_off", ret[t], held[t])
        \/ Leads(t, "return", -1, held[t])
        \/ Leads(t, "up_poll", ret[t], held[t])
    BY <1>1, <1>13, Leading DEF UpPoll
  <2> QED
    BY <2>1, <2>2
    DEF Within, Leads, HasFd, HasPipe, CountsFd, Counts, PcieAt, Op, UpPcs, PciePcs, HotPcs, BusPcs, GidPcs
<1>14. CASE UpCoreOff(t)
  <2>1. pc[t] = "up_core_off" /\ PcieAt(t)
    BY <1>1, <1>14, Whose DEF UpCoreOff, PciePcs, UpPcs
  <2>2. Leads(t, "up_core_on", ret[t], held[t])
    BY <1>1, <1>14, Leading DEF UpCoreOff
  <2> QED
    BY <2>1, <2>2
    DEF Within, Leads, HasFd, HasPipe, CountsFd, Counts, PcieAt, Op, UpPcs, PciePcs, HotPcs, BusPcs, GidPcs
<1>15. CASE UpCoreOn(t)
  <2>1. pc[t] = "up_core_on" /\ PcieAt(t)
    BY <1>1, <1>15, Whose DEF UpCoreOn, PciePcs, UpPcs
  <2>2. Leads(t, "up_windows", ret[t], held[t])
    BY <1>1, <1>15, Leading DEF UpCoreOn
  <2> QED
    BY <2>1, <2>2
    DEF Within, Leads, HasFd, HasPipe, CountsFd, Counts, PcieAt, Op, UpPcs, PciePcs, HotPcs, BusPcs, GidPcs
<1>16. CASE UpWindows(t)
  <2>1. pc[t] = "up_windows" /\ PcieAt(t)
    BY <1>1, <1>16, Whose DEF UpWindows, PciePcs, UpPcs
  <2>2. Leads(t, "up_master", ret[t], held[t])
    BY <1>1, <1>16, Leading DEF UpWindows
  <2> QED
    BY <2>1, <2>2
    DEF Within, Leads, HasFd, HasPipe, CountsFd, Counts, PcieAt, Op, UpPcs, PciePcs, HotPcs, BusPcs, GidPcs
<1>17. CASE UpMaster(t)
  <2>1. pc[t] = "up_master" /\ PcieAt(t)
    BY <1>1, <1>17, Whose DEF UpMaster, PciePcs, UpPcs
  <2>2. Leads(t, "up_link", ret[t], held[t])
    BY <1>1, <1>17, Leading DEF UpMaster
  <2> QED
    BY <2>1, <2>2
    DEF Within, Leads, HasFd, HasPipe, CountsFd, Counts, PcieAt, Op, UpPcs, PciePcs, HotPcs, BusPcs, GidPcs
<1>18. CASE UpLink(t)
  <2>1. pc[t] = "up_link" /\ PcieAt(t)
    BY <1>1, <1>18, Whose DEF UpLink, PciePcs, UpPcs
  <2>2. \/ Leads(t, "up_unmap", ret[t], held[t])
        \/ Leads(t, "return", -1, held[t])
    BY <1>1, <1>18, Leading DEF UpLink
  <2> QED
    BY <2>1, <2>2
    DEF Within, Leads, HasFd, HasPipe, CountsFd, Counts, PcieAt, Op, UpPcs, PciePcs, HotPcs, BusPcs, GidPcs
<1>19. CASE UpUnmap(t)
  <2>1. pc[t] = "up_unmap" /\ PcieAt(t)
    BY <1>1, <1>19, Whose DEF UpUnmap, PciePcs, UpPcs
  <2>2. \/ Leads(t, "up_close", ret[t], held[t] \ {"map"})
        \/ Leads(t, "up_close", ret[t], held[t])
    BY <1>1, <1>19, Leading DEF UpUnmap
  <2> QED
    BY <2>1, <2>2
    DEF Within, Leads, HasFd, HasPipe, CountsFd, Counts, PcieAt, Op, UpPcs, PciePcs, HotPcs, BusPcs, GidPcs
<1>20. CASE UpClose(t)
  <2>1. pc[t] = "up_close" /\ PcieAt(t)
    BY <1>1, <1>20, Whose DEF UpClose, PciePcs, UpPcs
  <2>2. Closes(t, "mem", "return")
    BY <1>1, <1>20, Leading DEF UpClose
  <2> QED
    BY <2>1, <2>2
    DEF Within, Closes, HasFd, HasPipe, CountsFd, Counts, PcieAt, Op, UpPcs, PciePcs, HotPcs, BusPcs, GidPcs
<1>21. CASE GidInit(t)
  <2>1. pc[t] = "gid_init" /\ PcieAt(t)
    BY <1>1, <1>21, Whose DEF GidInit, PciePcs, GidPcs
  <2>2. \/ Opens(t, "fd", "gid_map")
        \/ Fails(t, "return")
    BY <1>1, <1>21, Leading DEF GidInit
  <2> QED
    BY <2>1, <2>2
    DEF Within, Opens, Fails, HasFd, HasPipe, CountsFd, Counts, PcieAt, Op, GidPcs, PciePcs, HotPcs, BusPcs, UpPcs
<1>22. CASE GidMap(t)
  <2>1. pc[t] = "gid_map" /\ PcieAt(t)
    BY <1>1, <1>22, Whose DEF GidMap, PciePcs, GidPcs
  <2>2. \/ Leads(t, "gid_mutex", ret[t], held[t] \cup {"map", "unit"})
        \/ Leads(t, "gid_close", -1, held[t])
    BY <1>1, <1>22, Leading DEF GidMap
  <2> QED
    BY <2>1, <2>2
    DEF Within, Leads, HasFd, HasPipe, CountsFd, Counts, PcieAt, Op, GidPcs, PciePcs, HotPcs, BusPcs, UpPcs
<1>23. CASE GidExit(t)
  <2>1. pc[t] = "gid_exit" /\ PcieAt(t)
    BY <1>1, <1>23, Whose DEF GidExit, PciePcs, GidPcs
  <2>2. \/ Leads(t, "gid_close", ret[t], held[t] \ {"map", "unit"})
        \/ Leads(t, "return", ret[t], held[t])
    BY <1>1, <1>23, Leading DEF GidExit
  <2> QED
    BY <2>1, <2>2
    DEF Within, Leads, HasFd, HasPipe, CountsFd, Counts, PcieAt, Op, GidPcs, PciePcs, HotPcs, BusPcs, UpPcs
<1>24. CASE GidClose(t)
  <2>1. pc[t] = "gid_close" /\ PcieAt(t)
    BY <1>1, <1>24, Whose DEF GidClose, PciePcs, GidPcs
  <2>2. Closes(t, "fd", "return")
    BY <1>1, <1>24, Leading DEF GidClose
  <2> QED
    BY <2>1, <2>2
    DEF Within, Closes, HasFd, HasPipe, CountsFd, Counts, PcieAt, Op, GidPcs, PciePcs, HotPcs, BusPcs, UpPcs
<1>26. CASE GidMutex(t)
  <2>1. pc[t] = "gid_mutex" /\ PcieAt(t)
    BY <1>1, <1>26, Whose DEF GidMutex, PciePcs, GidPcs
  <2>2. \/ Leads(t, "gid_exit", ret[t], held[t])
        \/ Leads(t, "return", -1, held[t])
    BY <1>1, <1>26, Leading DEF GidMutex
  <2> QED
    BY <2>1, <2>2
    DEF Within, Leads, HasFd, HasPipe, CountsFd, Counts, PcieAt, Op, GidPcs, PciePcs, HotPcs, BusPcs, UpPcs
<1>25. CASE PcieReturn(t)
  <2>1. Return(t) /\ Op(t) \in PcieOps
    BY <1>25 DEF PcieReturn
  <2>2. IdleAt(t)' /\ OnlyMoves(t)
    BY <1>1, <2>1, Returning
  <2> QED
    BY <1>1, <1>25, <2>1, <2>2, Whose, OpsDiffer DEF CallAt, IdleAt, Op, NoCall, PcieOps
<1> QED
  BY <1>2, <1>3, <1>4, <1>5, <1>6, <1>7, <1>8, <1>9, <1>10, <1>11, <1>12, <1>13, <1>14, <1>15, <1>16, <1>17, <1>18, <1>19, <1>20, <1>21, <1>22, <1>23, <1>24, <1>25, <1>26 DEF PcieNext, HotReset, Bus, BringUp, Gid

\* A step of a call that asks for a resource of the system.
LEMMA SysSteps ==
    ASSUME CallInv, NEW t \in Threads, SysNext(t)
    PROVE  /\ OnlyMoves(t) /\ (IdleAt(t) \/ SysAt(t)) /\ (IdleAt(t)' \/ SysAt(t)')
           /\ (Counts(t) \/ SysReturn(t))
<1>1. ProcessType /\ CallAt(t)
  BY DEF CallInv
<1>2. CASE SysCall(t)
  <2>1. PICK r \in calls : /\ r.op \in SysOps
                           /\ Begin(t, r, IF r.op = "mem_sysinfo" THEN "sys_ask" ELSE "sys_open")
    BY <1>2 DEF SysCall
  <2>2. r \in SysRequest /\ IdleAt(t)
    BY <1>1, <2>1, Beginning, Whose, CallOf
  <2>3. /\ pc'[t] = IF r.op = "mem_sysinfo" THEN "sys_ask" ELSE "sys_open"
        /\ req'[t] = r /\ held' = held /\ OnlyMoves(t) /\ fds' = fds /\ lost' = lost
        /\ starved' = starved
    BY <1>1, <2>1, <2>2, Beginning DEF IdleAt
  <2> QED
    BY <2>2, <2>3 DEF SysAt, Op, SysPcs, IdleAt, Counts, CountsFd, HasFd, HasPipe
<1>3. CASE SysOpen(t)
  <2>1. pc[t] = "sys_open" /\ SysAt(t)
    BY <1>1, <1>3, Whose DEF SysOpen, SysPcs
  <2>2. \/ Opens(t, "fd", IF Popens(t) THEN "sys_pipe" ELSE "sys_ask")
        \/ Fails(t, IF Popens(t) THEN "return" ELSE "sys_next")
    BY <1>1, <1>3, Leading DEF SysOpen
  <2> QED
    BY <2>1, <2>2
    DEF Within, Opens, Fails, HasFd, HasPipe, CountsFd, Counts, SysAt, Op, SysPcs, Ends, Popens
<1>9. CASE SysPipe(t)
  <2>1. pc[t] = "sys_pipe" /\ SysAt(t)
    BY <1>1, <1>9, Whose DEF SysPipe, SysPcs
  <2>2. \/ Opens(t, "pipe", "sys_spawn")
        \/ Fails(t, "sys_close")
    BY <1>1, <1>9, Leading DEF SysPipe
  <2> QED
    BY <2>1, <2>2
    DEF Within, Opens, Fails, HasFd, HasPipe, CountsPipe, Counts, SysAt, Op, SysPcs, Ends
<1>10. CASE SysSpawn(t)
  <2>1. pc[t] = "sys_spawn" /\ SysAt(t)
    BY <1>1, <1>10, Whose DEF SysSpawn, SysPcs
  <2>2. Closes(t, "pipe", "sys_ask")
    BY <1>1, <1>10, Leading DEF SysSpawn
  <2> QED
    BY <2>1, <2>2
    DEF Within, Closes, HasFd, HasPipe, CountsPipe, Counts, SysAt, Op, SysPcs, Ends
<1>4. CASE SysAsk(t)
  <2>1. pc[t] = "sys_ask" /\ SysAt(t)
    BY <1>1, <1>4, Whose DEF SysAsk, SysPcs
  <2>2. Leads(t, IF Op(t) = "mem_sysinfo" THEN "sys_report" ELSE "sys_close", ret[t], held[t])
    BY <1>1, <1>4, Leading DEF SysAsk
  <2> QED
    BY <2>1, <2>2
    DEF Within, Leads, HasFd, HasPipe, CountsFd, Counts, SysAt, Op, SysPcs, Ends
<1>5. CASE SysClose(t)
  <2>1. pc[t] = "sys_close" /\ SysAt(t)
    BY <1>1, <1>5, Whose DEF SysClose, SysPcs
  <2>2. Closes(t, "fd", IF Popens(t) /\ ret[t] = -1 THEN "return" ELSE "sys_next")
    BY <1>1, <1>5, Leading DEF SysClose
  <2> QED
    BY <2>1, <2>2
    DEF Within, Closes, HasFd, HasPipe, CountsFd, Counts, SysAt, Op, SysPcs, Ends
<1>6. CASE SysMore(t)
  <2>1. pc[t] = "sys_next" /\ SysAt(t)
    BY <1>1, <1>6, Whose DEF SysMore, SysPcs
  <2>2. \/ Leads(t, "sys_report", ret[t], held[t])
        \/ Leads(t, "sys_open", ret[t], held[t])
    BY <1>1, <1>6, Leading DEF SysMore
  <2> QED
    BY <2>1, <2>2
    DEF Within, Leads, HasFd, HasPipe, CountsFd, Counts, SysAt, Op, SysPcs, Ends
<1>7. CASE SysReport(t)
  <2>1. pc[t] = "sys_report" /\ SysAt(t)
    BY <1>1, <1>7, Whose DEF SysReport, SysPcs
  <2>2. \/ Leads(t, "return", 0, held[t])
        \/ Leads(t, "fault", ret[t], held[t])
        \/ Leads(t, "return", -1, held[t])
    BY <1>1, <1>7, Leading DEF SysReport
  <2> QED
    BY <2>1, <2>2
    DEF Within, Leads, HasFd, HasPipe, CountsFd, Counts, SysAt, Op, SysPcs, Ends
<1>8. CASE SysReturn(t)
  <2>1. Return(t) /\ Op(t) \in SysOps
    BY <1>8 DEF SysReturn
  <2>2. IdleAt(t)' /\ OnlyMoves(t)
    BY <1>1, <2>1, Returning
  <2> QED
    BY <1>1, <1>8, <2>1, <2>2, Whose, OpsDiffer DEF CallAt, IdleAt, Op, NoCall, SysOps
<1> QED
  BY <1>2, <1>3, <1>4, <1>5, <1>6, <1>7, <1>8, <1>9, <1>10 DEF SysNext

\* Only a call of I2C is in its critical section.
LEMMA NotInI2c ==
    ASSUME NEW t \in Threads, IdleAt(t) \/ DmaAt(t) \/ PcieAt(t) \/ SysAt(t)
    PROVE  ~InI2c(t)
<1>1. Op(t) \notin I2cOps
  BY Whose, OpsDiffer DEF CallAt, IdleAt, Op, NoCall, I2cOps
<1> QED
  BY <1>1 DEF InI2c, IsWrite, I2cOps

\* The same after a step.
LEMMA NotInI2cNext ==
    ASSUME NEW t \in Threads, IdleAt(t)' \/ DmaAt(t)' \/ PcieAt(t)' \/ SysAt(t)'
    PROVE  ~InI2c(t)'
<1>1. Op(t)' \notin I2cOps
  BY DEF IdleAt, DmaAt, PcieAt, SysAt, Op, NoCall, DmaRequest, PcieRequest, SysRequest, I2cOps,
         DmaOps, ProxyOps, PcieOps, SysOps
<1> QED
  BY <1>1 DEF InI2c, IsWrite, Op, I2cOps

\* A step to a place outside the DMA engine has nothing to do with it.
LEMMA NotInDmaNext ==
    ASSUME NEW t \in Threads, IdleAt(t)' \/ I2cAt(t)' \/ PcieAt(t)' \/ SysAt(t)'
    PROVE  WithinDma(t)
<1>1. Op(t)' \notin DmaOps
  BY DEF IdleAt, I2cAt, PcieAt, SysAt, Op, NoCall, I2cRequest, PcieRequest, SysRequest, I2cOps,
         DmaOps, ProxyOps, PcieOps, SysOps
<1>2. pc'[t] # "dma_close"
  BY DEF IdleAt, I2cAt, PcieAt, SysAt, I2cPcs, PciePcs, HotPcs, BusPcs, UpPcs, GidPcs, SysPcs, Ends
<1> QED
  BY <1>1, <1>2 DEF WithinDma

\* The end of a call; that of one of the DMA engine hands out a handle.
EndsCall(t) == Return(t) /\ (DmaReturn(t) \/ (Op(t) \notin DmaOps /\ handles' = handles))

\* A step of the system moves one thread, or none.
LEMMA Stepping ==
    ASSUME CallInv, [Next]_vars
    PROVE  \/ UNCHANGED <<process, i2c, handles>>
           \/ \E t \in Threads : /\ Step(t) /\ OnlyMoves(t) /\ CallAt(t)' /\ Locks(t)
                                 /\ Passes(t) \/ DmaClose(t) \/ EndsCall(t)
<1>1. ASSUME NEW t \in Threads, Step(t)
      PROVE  OnlyMoves(t) /\ CallAt(t)' /\ Locks(t) /\ (Passes(t) \/ DmaClose(t) \/ EndsCall(t))
  <2>1. CASE I2cNext(t) /\ UNCHANGED dma
    <3>1. I2cReturn(t) => Return(t) /\ Op(t) \notin DmaOps
      BY OpsDiffer DEF I2cReturn
    <3> QED
      BY <2>1, <3>1, I2cSteps, NotInDmaNext DEF CallAt, Passes, EndsCall, dma
  <2>2. CASE DmaNext(t) /\ UNCHANGED i2c
    BY <2>2, DmaSteps, NotInI2c, NotInI2cNext DEF CallAt, Locks, i2c, EndsCall, DmaReturn
  <2>3. CASE PcieNext(t) /\ UNCHANGED <<i2c, dma>>
    <3>1. PcieReturn(t) => Return(t) /\ Op(t) \notin DmaOps
      BY OpsDiffer DEF PcieReturn
    <3> QED
      BY <2>3, <3>1, PcieSteps, NotInI2c, NotInI2cNext, NotInDmaNext DEF CallAt, Locks, i2c, Passes, EndsCall, dma
  <2>4. CASE SysNext(t) /\ UNCHANGED <<i2c, dma>>
    <3>1. SysReturn(t) => Return(t) /\ Op(t) \notin DmaOps
      BY OpsDiffer DEF SysReturn
    <3> QED
      BY <2>4, <3>1, SysSteps, NotInI2c, NotInI2cNext, NotInDmaNext DEF CallAt, Locks, i2c, Passes, EndsCall, dma
  <2> QED
    BY <1>1, <2>1, <2>2, <2>3, <2>4 DEF Step
<1>2. SerdesReady => UNCHANGED process
  BY DEF SerdesReady
<1>3. UNCHANGED vars => UNCHANGED <<process, i2c, handles>>
  BY DEF vars, dma
<1> QED
  BY <1>1, <1>2, <1>3 DEF Next, dma

\* The places of a call are labels of the model, and what it holds are resources.
LEMMA Placed ==
    ASSUME NEW t \in Threads, CallAt(t)'
    PROVE  pc'[t] \in Pcs /\ held'[t] \subseteq Resources
<1>1. CASE IdleAt(t)'
  BY <1>1 DEF IdleAt, Pcs
<1>2. CASE I2cAt(t)'
  BY <1>2 DEF I2cAt, Pcs, I2cPcs, Ends, Buffers, Resources
<1>3. CASE DmaAt(t)'
  <2>1. held'[t] \in {{}, {"handle"}, {"mem"}, {"fd"}, {"map"}, {"mem", "view"}, {"view"}}
    BY <1>3 DEF DmaAt, DmaPcs
  <2> QED
    BY <1>3, <2>1 DEF DmaAt, Pcs, Ends, Resources, Kept
<1>4. CASE PcieAt(t)'
  <2>1. held'[t] \in {{}, {"fd"}, {"mem"}, {"map"}, {"mem", "map"}, {"fd", "map", "unit"}}
    BY <1>4 DEF PcieAt, PciePcs, HotPcs, BusPcs, UpPcs, GidPcs
  <2> QED
    BY <1>4, <2>1 DEF PcieAt, Pcs, Ends, Resources
<1>5. CASE SysAt(t)'
  BY <1>5 DEF SysAt, Pcs, SysPcs, Ends, Resources
<1> QED
  BY <1>1, <1>2, <1>3, <1>4, <1>5 DEF CallAt

\* At first no thread makes a call.
LEMMA CallInit == Init => CallInv
BY DEF Init, ProcessInit, CallInv, ProcessType, CallAt, IdleAt, Pcs

\* A step leaves the threads that do not move where they are, and moves one
\* of them from place to place.
LEMMA CallNext == CallInv /\ [Next]_vars => CallInv'
<1> SUFFICES ASSUME CallInv, [Next]_vars PROVE CallInv'
  OBVIOUS
<1>0. ProcessType /\ \A u \in Threads : CallAt(u)
  BY DEF CallInv
<1>1. CASE UNCHANGED process
  <2>1. calls' = calls /\ pc' = pc /\ req' = req /\ ret' = ret /\ held' = held
    BY <1>1 DEF process
  <2>2. \A u \in Threads : CallAt(u)'
    BY <1>0, <2>1 DEF CallAt, IdleAt, I2cAt, DmaAt, PcieAt, SysAt, Op, IsWrite, Buffers
  <2> QED
    BY <1>0, <2>1, <2>2 DEF CallInv, ProcessType
<1>2. ASSUME NEW t \in Threads, OnlyMoves(t), CallAt(t)' PROVE CallInv'
  <2>1. pc'[t] \in Pcs /\ held'[t] \subseteq Resources
    BY <1>2, Placed
  <2>2. ProcessType'
    BY <1>0, <1>2, <2>1 DEF ProcessType, OnlyMoves
  <2>3. ASSUME NEW u \in Threads, u # t PROVE CallAt(u)'
    <3>1. pc'[u] = pc[u] /\ req'[u] = req[u] /\ ret'[u] = ret[u] /\ held'[u] = held[u] /\ CallAt(u)
      BY <1>0, <1>2, <2>3, Resting
    <3> QED
      BY <3>1 DEF CallAt, IdleAt, I2cAt, DmaAt, PcieAt, SysAt, Op, IsWrite, Buffers
  <2> QED
    BY <1>2, <2>2, <2>3 DEF CallInv
<1> QED
  BY <1>1, <1>2, Stepping

\* At each step of each call it is known what the call holds, on its error
\* paths too; nobody closes or unmaps what is not there.
THEOREM CallsPlaced == Spec => []CallInv
BY CallInit, CallNext, PTL DEF Spec

----------------------------------------------------------------------------
(* The lock of I2C. *)

\* At first nobody has the lock.
LEMMA ExclusiveInit == Init => I2cExclusive
BY I2cAssumption DEF Init, ProcessInit, I2cInit, I2cExclusive, InI2c, IsWrite, Op, NoCall, I2cOps

\* Only the thread that moves takes the lock, when it is free, or releases it.
LEMMA ExclusiveNext == CallInv /\ I2cExclusive /\ [Next]_vars => I2cExclusive'
<1> SUFFICES ASSUME CallInv, I2cExclusive, [Next]_vars PROVE I2cExclusive'
  OBVIOUS
<1>1. CASE UNCHANGED <<process, i2c>>
  BY <1>1 DEF process, i2c, I2cExclusive, InI2c, IsWrite, Op
<1>2. ASSUME NEW t \in Threads, OnlyMoves(t), Locks(t) PROVE I2cExclusive'
  <2>1. \A u \in Threads \ {t} : InI2c(u)' <=> InI2c(u)
    BY <1>2, Resting DEF CallInv, InI2c, IsWrite, Op
  <2> QED
    BY <1>2, <2>1, I2cAssumption DEF I2cExclusive, Locks
<1> QED
  BY <1>1, <1>2, Stepping

\* At most one thread at a time makes a transfer on any of the buses, from
\* eos_mutex_lock to eos_mutex_unlock; whatever fails on the way, the thread
\* that has the lock is about to release it.
THEOREM OneTransferAtATime == Spec => []I2cExclusive
BY CallsPlaced, ExclusiveInit, ExclusiveNext, PTL DEF Spec

----------------------------------------------------------------------------
(* What calls do not give back. *)

\* What a call has not given back when it returns.
LEMMA ReturnLoses ==
    ASSUME CallInv, NEW t \in Threads, Return(t), NEW x \in held[t] \ Kept,
           NEW l, l = [op |-> Op(t), ret |-> ret[t], what |-> x]
    PROVE  KnownLoss(l)'
<1>1. pc[t] = "return" /\ CallAt(t)
  BY DEF CallInv, Return
<1>2. \/ Op(t) = "dma_addr" /\ x = "mem"
      \/ Op(t) = "bring_up" /\ (ret[t] = -1 \/ x = "map")
      \/ Op(t) = "gid" /\ held[t] = {"fd", "map", "unit"}
  BY <1>1 DEF CallAt, IdleAt, I2cAt, DmaAt, PcieAt, SysAt, Ends, Kept
<1>3. CASE Op(t) = "gid" /\ held[t] = {"fd", "map", "unit"}
  <2>1. ASSUME NEW y \in {"fd", "map", "unit"} PROVE [l EXCEPT !.what = y] \in lost'
    <3>1. y \in held[t] \ Kept /\ [l EXCEPT !.what = y] = [op |-> Op(t), ret |-> ret[t], what |-> y]
      BY <1>3 DEF Kept
    <3> QED
      BY <3>1 DEF Return
  <2> QED
    BY <1>3, <2>1 DEF KnownLoss
<1> QED
  BY <1>2, <1>3 DEF KnownLoss

\* What has been lost remains so.
LEMMA LossStays ==
    ASSUME lost \subseteq lost', NEW l, KnownLoss(l)
    PROVE  KnownLoss(l)'
BY DEF KnownLoss

\* At first nothing is lost.
LEMMA LossInit == Init => LosesNothing
BY DEF Init, ProcessInit, LosesNothing

\* Only a call that returns can lose something.
LEMMA LossNext == CallInv /\ LosesNothing /\ [Next]_vars => LosesNothing'
<1> SUFFICES ASSUME CallInv, LosesNothing, [Next]_vars PROVE LosesNothing'
  OBVIOUS
<1>2. ASSUME NEW t \in Threads, Return(t) PROVE LosesNothing'
  <2>1. lost \subseteq lost'
    BY <1>2 DEF Return
  <2>2. ASSUME NEW l \in lost' PROVE KnownLoss(l)'
    <3>1. CASE l \in lost
      BY <2>1, <3>1, LossStays DEF LosesNothing
    <3>2. CASE l \notin lost
      <4>1. PICK x \in held[t] \ Kept : l = [op |-> Op(t), ret |-> ret[t], what |-> x]
        BY <1>2, <3>2 DEF Return
      <4> QED
        BY <1>2, <4>1, ReturnLoses
    <3> QED
      BY <3>1, <3>2
  <2> QED
    BY <2>2 DEF LosesNothing
<1>3. ASSUME lost' = lost PROVE LosesNothing'
  BY <1>3 DEF LosesNothing, KnownLoss
<1>4. ASSUME NEW t \in Threads, DmaClose(t) PROVE lost' = lost
  BY <1>4 DEF DmaClose, Close
<1> QED
  BY <1>2, <1>3, <1>4, Stepping DEF Passes, Counts, EndsCall, process

\* Whatever fails, a call gives back the descriptors, mappings and buffers that
\* it has taken; only eos_get_dma_buffer_addr, a bring-up that fails and an
\* eos_get_gid that cannot unmap do not.
THEOREM GivenBack == Spec => []LosesNothing
BY CallsPlaced, LossInit, LossNext, PTL DEF Spec

----------------------------------------------------------------------------
(* Descriptors. *)

\* A handle that a call opens has a place, and one that a call closes is there;
\* no two calls open a handle of a device, or use one that a third closes.
HandleInv ==
    /\ handles \in [Devices -> 0 .. MaxHandles]
    /\ \A t \in Threads : Op(t) \in OpenOps => handles[Device(Op(t))] < MaxHandles
    /\ \A t, u \in Threads : Op(t) \in OpenOps /\ Op(u) = Op(t) => u = t
    /\ \A t \in Threads : pc[t] = "dma_close" => handles[Device(Op(t))] > 0
    /\ \A t, u \in Threads : Op(t) \in CloseOps /\ Uses(Op(u), Device(Op(t))) => u = t

\* The functions of the two devices are told apart.
LEMMA DeviceFacts ==
    /\ \A op : Device(op) \in Devices
    /\ OpenOps \subseteq DmaOps /\ CloseOps \subseteq DmaOps /\ OpenOps \cap CloseOps = {}
    /\ \A op, d : Uses(op, d) => op \in DmaOps /\ op \notin OpenOps /\ Device(op) = d
    /\ \A op \in CloseOps : Uses(op, Device(op))
    /\ \A o, p \in OpenOps : Device(o) = Device(p) => o = p
BY DEF Device, Devices, OpenOps, CloseOps, DmaOps, ProxyOps, Uses

\* At first the caller has no handles.
LEMMA HandleInit == Init => HandleInv
BY DmaAssumption DEF Init, ProcessInit, DmaInit, HandleInv, Op, NoCall, OpenOps, CloseOps

\* A call that opens finds a place for its handle, since it is the only one that
\* opens that device; one that closes finds the handle, since nobody else closes.
LEMMA HandleNext == CallInv /\ HandleInv /\ [Next]_vars => HandleInv'
<1> SUFFICES ASSUME CallInv, HandleInv, [Next]_vars PROVE HandleInv'
  OBVIOUS
<1>0. ProcessType /\ \A t \in Threads : CallAt(t)
  BY DEF CallInv
<1>1. CASE UNCHANGED <<process, i2c, handles>>
  BY <1>1 DEF process, HandleInv, Op, Uses, Device
<1>2. ASSUME NEW t \in Threads, OnlyMoves(t), CallAt(t)', Passes(t) \/ DmaClose(t) \/ EndsCall(t)
      PROVE  HandleInv'
  <2>0. /\ \A u \in Threads \ {t} : Op(u)' = Op(u) /\ pc'[u] = pc[u]
        /\ \A op, d : Uses(op, d)' = Uses(op, d) /\ Device(op)' = Device(op)
    BY <1>0, <1>2, Resting DEF Op, Uses, Device
  <2>1. CASE handles' = handles /\ WithinDma(t)
    <3>1. Op(t)' = Op(t) \/ Op(t)' \notin DmaOps
      BY <2>1 DEF WithinDma, Op
    <3>2. pc'[t] # "dma_close"
      BY <2>1 DEF WithinDma
    <3> QED
      BY <2>0, <2>1, <3>1, <3>2, DeviceFacts DEF HandleInv
  <2>2. CASE handles' = handles /\ DmaCall(t)
    <3>1. PICK r \in calls :
            /\ r.op \in DmaOps
            /\ r.op \in OpenOps => /\ handles[Device(r.op)] < MaxHandles
                                  /\ \A u \in Threads : Op(u) # r.op
            /\ \A d \in Devices : Uses(r.op, d) =>
                 /\ handles[d] > 0
                 /\ \A u \in Threads : ~(Uses(Op(u), d) /\ (Op(u) \in CloseOps \/ r.op \in CloseOps))
            /\ Begin(t, r, FirstDma(r.op))
      BY <2>2 DEF DmaCall
    <3>2. Op(t)' = r.op /\ pc'[t] = FirstDma(r.op)
      BY <1>0, <3>1, Beginning DEF Op
    <3>3. FirstDma(r.op) = "dma_close" => r.op \in CloseOps
      BY DEF FirstDma
    <3>4. \A u \in Threads : Op(u) \in CloseOps /\ Uses(r.op, Device(Op(u))) => FALSE
      BY <3>1, DeviceFacts
    <3>5. \A u \in Threads : r.op \in CloseOps /\ Uses(Op(u), Device(r.op)) => FALSE
      BY <3>1, DeviceFacts
    <3> QED
      BY <2>0, <2>2, <3>1, <3>2, <3>3, <3>4, <3>5, DeviceFacts DEF HandleInv
  <2>3. CASE DmaClose(t)
    <3>1. /\ pc[t] = "dma_close" /\ Op(t)' = Op(t) /\ pc'[t] = "return"
          /\ handles' = [handles EXCEPT ![Device(Op(t))] = @ - 1]
      BY <1>0, <2>3, Leading DEF DmaClose, Closes, Within, Op
    <3>2. Op(t) \in CloseOps
      BY <1>0, <3>1, Whose DEF DmaAt, DmaPcs
    <3>3. \A u \in Threads \ {t} : pc[u] = "dma_close" => Op(u) \in CloseOps
      BY <1>0, Whose DEF DmaAt, DmaPcs
    <3>4. handles[Device(Op(t))] \in 1 .. MaxHandles
      BY <3>1, DeviceFacts DEF HandleInv
    <3>5. /\ handles' \in [Devices -> 0 .. MaxHandles]
          /\ \A d \in Devices : handles'[d] <= handles[d] /\ (d # Device(Op(t)) => handles'[d] = handles[d])
      BY <3>1, <3>4, DeviceFacts, DmaAssumption DEF HandleInv
    <3>6. \A u \in Threads : pc'[u] = "dma_close" => handles'[Device(Op(u))] > 0
      BY <2>0, <3>1, <3>2, <3>3, <3>5, DeviceFacts DEF HandleInv
    <3>7. \A u \in Threads : Op(u) \in OpenOps => handles'[Device(Op(u))] < MaxHandles
      BY <3>5, DeviceFacts, DmaAssumption DEF HandleInv
    <3>8. \A u \in Threads : Op(u)' = Op(u)
      BY <2>0, <3>1
    <3> QED
      BY <2>0, <3>5, <3>6, <3>7, <3>8 DEF HandleInv
  <2>4. CASE EndsCall(t)
    <3>1. Op(t)' = "none" /\ pc'[t] = "idle"
      BY <1>0, <2>4, Returning DEF EndsCall, IdleAt, Op, NoCall
    <3>2. CASE handles' = handles
      BY <2>0, <3>1, <3>2, DeviceFacts DEF HandleInv, DmaOps, ProxyOps
    <3>3. CASE DmaReturn(t) /\ "handle" \in held[t]
      <4>1. Op(t) \in OpenOps
        BY <1>0, <2>4, <3>3, Whose, OpsDiffer DEF EndsCall, Return, DmaReturn, CallAt, IdleAt, DmaAt
      <4>2. handles' = [handles EXCEPT ![Device(Op(t))] = @ + 1]
        BY <3>3 DEF DmaReturn
      <4>3. \A u \in Threads : Op(u)' \in OpenOps => Op(u) \in OpenOps /\ Device(Op(u)) # Device(Op(t))
        BY <2>0, <3>1, <4>1, DeviceFacts DEF HandleInv, DmaOps, ProxyOps
      <4>4. \A d \in Devices : handles'[d] >= handles[d] /\ (d # Device(Op(t)) => handles'[d] = handles[d])
        BY <4>1, <4>2, DeviceFacts DEF HandleInv
      <4>5. handles' \in [Devices -> 0 .. MaxHandles]
        BY <4>1, <4>2, DeviceFacts, DmaAssumption DEF HandleInv
      <4> QED
        BY <2>0, <3>1, <4>3, <4>4, <4>5, DeviceFacts DEF HandleInv, DmaOps, ProxyOps
    <3>4. CASE DmaReturn(t) /\ "handle" \notin held[t]
      <4>1. handles' = handles
        BY <3>4, DeviceFacts, DmaAssumption DEF DmaReturn, HandleInv
      <4> QED
        BY <3>2, <4>1
    <3> QED
      BY <2>4, <3>2, <3>3, <3>4 DEF EndsCall
  <2> QED
    BY <1>2, <2>1, <2>2, <2>3, <2>4 DEF Passes
<1> QED
  BY <1>1, <1>2, Stepping

\* A descriptor that is open is one that a call holds, a handle of the caller,
\* or has been lost.
WithFd   == {t \in Threads : HasFd(t)}
WithPipe == {t \in Threads : HasPipe(t)}
InUse  == Cardinality(WithFd) + Cardinality(WithPipe) + handles["engine"] + handles["proxy"]
FdLost == \E l \in lost : KnownLoss(l) /\ l.what \in {"fd", "mem"}
FdInv ==
    /\ fds \in 0 .. MaxFds /\ InUse <= fds
    /\ fds = InUse \/ FdLost

\* Two descriptors for each thread, since a popen has both ends of its pipe for a
\* moment, and the handles that the caller may keep, are enough.
EnoughFds == IsFiniteSet(Threads) /\ 2 * Cardinality(Threads) + 2 * MaxHandles <= MaxFds

\* The size of a set of threads, after a step in which only t enters or leaves it.
LEMMA Recounted ==
    ASSUME IsFiniteSet(Threads), NEW t \in Threads, NEW A \in SUBSET Threads, NEW B \in SUBSET Threads,
           A \ {t} = B \ {t}
    PROVE  /\ Cardinality(A) \in Nat /\ Cardinality(A) <= Cardinality(Threads)
           /\ Cardinality(B) = Cardinality(A) + (IF t \in B THEN 1 ELSE 0) - (IF t \in A THEN 1 ELSE 0)
           /\ t \notin A => Cardinality(A) + 1 <= Cardinality(Threads)
           /\ t \in A => Cardinality(A) >= 1
<1> DEFINE rest == A \ {t}
<1>1. IsFiniteSet(A) /\ IsFiniteSet(rest) /\ rest \cup {t} \in SUBSET Threads /\ t \notin rest
  BY FS_Subset
<1>2. A = (IF t \in A THEN rest \cup {t} ELSE rest) /\ B = IF t \in B THEN rest \cup {t} ELSE rest
  OBVIOUS
<1> HIDE DEF rest
<1>3. Cardinality(rest) \in Nat /\ Cardinality(Threads) \in Nat
  BY <1>1, FS_CardinalityType
<1>4. Cardinality(rest \cup {t}) = Cardinality(rest) + 1
  BY <1>1, FS_AddElement
<1>5. Cardinality(rest \cup {t}) <= Cardinality(Threads)
  BY <1>1, FS_Subset
<1>6. /\ t \in A => Cardinality(A) = Cardinality(rest) + 1
      /\ t \notin A => Cardinality(A) = Cardinality(rest)
      /\ t \in B => Cardinality(B) = Cardinality(rest) + 1
      /\ t \notin B => Cardinality(B) = Cardinality(rest)
  BY <1>2, <1>4
<1> QED
  BY <1>3, <1>4, <1>5, <1>6

\* The threads that hold a descriptor, and both ends of a pipe, after a step of
\* one of them.
LEMMA WithFdMoves ==
    ASSUME IsFiniteSet(Threads), ProcessType, NEW t \in Threads, OnlyMoves(t)
    PROVE  /\ Cardinality(WithFd) \in Nat /\ Cardinality(WithFd) <= Cardinality(Threads)
           /\ Cardinality(WithFd)' = Cardinality(WithFd)
                + (IF HasFd(t)' THEN 1 ELSE 0) - (IF HasFd(t) THEN 1 ELSE 0)
           /\ ~HasFd(t) => Cardinality(WithFd) + 1 <= Cardinality(Threads)
           /\ HasFd(t) => Cardinality(WithFd) >= 1
           /\ Cardinality(WithPipe) \in Nat /\ Cardinality(WithPipe) <= Cardinality(Threads)
           /\ Cardinality(WithPipe)' = Cardinality(WithPipe)
                + (IF HasPipe(t)' THEN 1 ELSE 0) - (IF HasPipe(t) THEN 1 ELSE 0)
           /\ ~HasPipe(t) => Cardinality(WithPipe) + 1 <= Cardinality(Threads)
           /\ HasPipe(t) => Cardinality(WithPipe) >= 1
<1>1. \A u \in Threads \ {t} : (HasFd(u)' <=> HasFd(u)) /\ (HasPipe(u)' <=> HasPipe(u))
  BY Resting DEF HasFd, HasPipe
<1>2. /\ WithFd \in SUBSET Threads /\ WithFd' \in SUBSET Threads /\ WithFd \ {t} = WithFd' \ {t}
      /\ (t \in WithFd <=> HasFd(t)) /\ (t \in WithFd' <=> HasFd(t)')
  BY <1>1 DEF WithFd
<1>3. /\ WithPipe \in SUBSET Threads /\ WithPipe' \in SUBSET Threads /\ WithPipe \ {t} = WithPipe' \ {t}
      /\ (t \in WithPipe <=> HasPipe(t)) /\ (t \in WithPipe' <=> HasPipe(t)')
  BY <1>1 DEF WithPipe
<1>4. Cardinality(WithFd)' = Cardinality(WithFd') /\ Cardinality(WithPipe)' = Cardinality(WithPipe')
  OBVIOUS
<1>5. /\ Cardinality(WithFd) \in Nat /\ Cardinality(WithFd) <= Cardinality(Threads)
      /\ Cardinality(WithFd)' = Cardinality(WithFd)
           + (IF HasFd(t)' THEN 1 ELSE 0) - (IF HasFd(t) THEN 1 ELSE 0)
      /\ ~HasFd(t) => Cardinality(WithFd) + 1 <= Cardinality(Threads)
      /\ HasFd(t) => Cardinality(WithFd) >= 1
  BY <1>2, <1>4, Recounted
<1>6. /\ Cardinality(WithPipe) \in Nat /\ Cardinality(WithPipe) <= Cardinality(Threads)
      /\ Cardinality(WithPipe)' = Cardinality(WithPipe)
           + (IF HasPipe(t)' THEN 1 ELSE 0) - (IF HasPipe(t) THEN 1 ELSE 0)
      /\ ~HasPipe(t) => Cardinality(WithPipe) + 1 <= Cardinality(Threads)
      /\ HasPipe(t) => Cardinality(WithPipe) >= 1
  BY <1>3, <1>4, Recounted
<1> QED
  BY <1>5, <1>6

\* At first no descriptor is open.
LEMMA FdInit == IsFiniteSet(Threads) /\ Init => FdInv
<1> SUFFICES ASSUME Init PROVE FdInv
  OBVIOUS
<1>1. WithFd = {} /\ WithPipe = {} /\ handles["engine"] = 0 /\ handles["proxy"] = 0 /\ fds = 0
  BY DEF Init, ProcessInit, DmaInit, WithFd, WithPipe, HasFd, HasPipe, Devices
<1>2. Cardinality(WithFd) = 0 /\ Cardinality(WithPipe) = 0
  BY <1>1, FS_EmptySet
<1> QED
  BY <1>1, <1>2, FdAssumption DEF FdInv, InUse

\* The handle of a closing call is one of the caller; that of an opening call
\* becomes one.
LEMMA FdCloses ==
    ASSUME CallInv, HandleInv, NEW t \in Threads, DmaClose(t)
    PROVE  /\ fds' = fds - 1 /\ lost' = lost /\ starved' = starved /\ ~HasFd(t) /\ ~HasFd(t)'
           /\ ~HasPipe(t) /\ ~HasPipe(t)'
           /\ handles'["engine"] + handles'["proxy"] = handles["engine"] + handles["proxy"] - 1
           /\ handles["engine"] + handles["proxy"] >= 1
<1>1. ProcessType /\ CallAt(t) /\ pc[t] = "dma_close" /\ DmaAt(t)
  BY Whose DEF CallInv, DmaClose, DmaPcs
<1>2. Closes(t, "handle", "return") /\ held[t] = {}
  BY <1>1, Leading DEF DmaClose, DmaAt
<1>3. handles' = [handles EXCEPT ![Device(Op(t))] = @ - 1] /\ Device(Op(t)) \in Devices
  BY DeviceFacts DEF DmaClose
<1>4. handles[Device(Op(t))] > 0 /\ handles["engine"] \in Nat /\ handles["proxy"] \in Nat
  BY <1>1, DmaAssumption DEF HandleInv, Devices
<1> QED
  BY <1>2, <1>3, <1>4 DEF Closes, Within, HasFd, HasPipe, Devices, HandleInv

\* What a call that ends does to the descriptors: it leaves a handle to the
\* caller, loses a descriptor or holds none.
LEMMA FdEnds ==
    ASSUME CallInv, HandleInv, NEW t \in Threads, EndsCall(t)
    PROVE  /\ fds' = fds /\ starved' = starved /\ lost \subseteq lost' /\ ~HasFd(t)'
           /\ ~HasPipe(t) /\ ~HasPipe(t)'
           /\ \/ FdLost'
              \/ handles'["engine"] + handles'["proxy"] =
                    handles["engine"] + handles["proxy"] + (IF HasFd(t) THEN 1 ELSE 0)
           /\ handles'["engine"] + handles'["proxy"] <=
                    handles["engine"] + handles["proxy"] + (IF HasFd(t) THEN 1 ELSE 0)
<1>1. ProcessType /\ CallAt(t) /\ pc[t] = "return" /\ Return(t)
  BY DEF CallInv, EndsCall, Return
<1>2. /\ fds' = fds /\ starved' = starved /\ lost \subseteq lost' /\ ~HasFd(t)'
      /\ ~HasPipe(t) /\ ~HasPipe(t)'
  <2>1. fds' = fds /\ starved' = starved /\ lost \subseteq lost' /\ ~HasFd(t)' /\ ~HasPipe(t)'
    BY <1>1 DEF ProcessType, Return, HasFd, HasPipe
  <2>2. ~HasPipe(t)
    BY <1>1 DEF CallAt, IdleAt, I2cAt, DmaAt, PcieAt, SysAt, Ends, HasPipe
  <2> QED
    BY <2>1, <2>2
<1>3. handles["engine"] \in Nat /\ handles["proxy"] \in Nat
  BY DmaAssumption DEF HandleInv, Devices
<1>4. CASE "handle" \in held[t]
  <2>1. DmaAt(t) /\ Op(t) \in DmaOps /\ HasFd(t)
    BY <1>1, <1>4, Whose DEF CallAt, IdleAt, I2cAt, PcieAt, SysAt, Ends, HasFd
  <2>2. handles' = [handles EXCEPT ![Device(Op(t))] = @ + 1] /\ Device(Op(t)) \in Devices
    BY <1>4, <2>1, DeviceFacts DEF EndsCall, DmaReturn
  <2> QED
    BY <1>2, <1>3, <2>1, <2>2 DEF Devices, HandleInv
<1>5. CASE "handle" \notin held[t]
  <2>1. handles' = handles
    BY <1>5, DeviceFacts, DmaAssumption DEF EndsCall, DmaReturn, HandleInv
  <2>2. ASSUME HasFd(t) PROVE FdLost'
    <3>1. PICK x \in {"fd", "mem"} : x \in held[t] \ Kept
      BY <1>5, <2>2 DEF HasFd, Kept
    <3>2. PICK l : l = [op |-> Op(t), ret |-> ret[t], what |-> x]
      OBVIOUS
    <3>3. l \in lost' /\ l.what \in {"fd", "mem"}
      BY <1>1, <3>1, <3>2 DEF Return
    <3>4. KnownLoss(l)'
      BY <1>1, <3>1, <3>2, ReturnLoses DEF CallInv
    <3> QED
      BY <3>3, <3>4 DEF FdLost
  <2> QED
    BY <1>2, <1>3, <2>1, <2>2
<1> QED
  BY <1>4, <1>5

\* The handles of both devices are counted.
LEMMA HandlesInt ==
    ASSUME CallInv, HandleInv, [Next]_vars
    PROVE  handles'["engine"] \in Int /\ handles'["proxy"] \in Int
BY HandleNext, DmaAssumption DEF HandleInv, Devices

\* Each step keeps the count of the open descriptors.
LEMMA FdNext ==
    ASSUME IsFiniteSet(Threads), CallInv, HandleInv, FdInv, [Next]_vars
    PROVE  FdInv'
<1>0. ProcessType /\ handles["engine"] \in Nat /\ handles["proxy"] \in Nat
  BY DmaAssumption DEF CallInv, HandleInv, Devices
<1>1. CASE UNCHANGED <<process, i2c, handles>>
  BY <1>1 DEF process, FdInv, InUse, WithFd, WithPipe, HasFd, HasPipe, FdLost, KnownLoss
<1>2. ASSUME NEW t \in Threads, OnlyMoves(t), Passes(t) \/ DmaClose(t) \/ EndsCall(t)
      PROVE  FdInv'
  <2> DEFINE n == Cardinality(WithFd)
             p == Cardinality(WithPipe)
  <2>1. /\ n \in Nat /\ p \in Nat
        /\ n' = n + (IF HasFd(t)' THEN 1 ELSE 0) - (IF HasFd(t) THEN 1 ELSE 0)
        /\ p' = p + (IF HasPipe(t)' THEN 1 ELSE 0) - (IF HasPipe(t) THEN 1 ELSE 0)
        /\ (HasFd(t) => n >= 1) /\ (HasPipe(t) => p >= 1)
    BY <1>0, <1>2, WithFdMoves
  <2>2. InUse = n + p + handles["engine"] + handles["proxy"] /\ fds \in 0 .. MaxFds /\ MaxFds \in Nat
    BY FdAssumption DEF InUse, FdInv
  <2>3. InUse' = n' + p' + handles'["engine"] + handles'["proxy"]
    BY DEF InUse
  <2> HIDE DEF n, p
  <2>4. CASE Passes(t)
    <3>1. lost' = lost => (FdLost' <=> FdLost)
      BY DEF FdLost, KnownLoss
    <3>2. /\ lost' = lost /\ handles' = handles
          /\ \/ fds' = fds /\ (HasFd(t)' <=> HasFd(t)) /\ (HasPipe(t)' <=> HasPipe(t))
             \/ fds < MaxFds /\ fds' = fds + 1 /\ ~HasFd(t) /\ HasFd(t)' /\ (HasPipe(t)' <=> HasPipe(t))
             \/ fds' = fds - 1 /\ HasFd(t) /\ ~HasFd(t)' /\ (HasPipe(t)' <=> HasPipe(t))
             \/ fds < MaxFds /\ fds' = fds + 1 /\ ~HasPipe(t) /\ HasPipe(t)' /\ (HasFd(t)' <=> HasFd(t))
             \/ fds' = fds - 1 /\ HasPipe(t) /\ ~HasPipe(t)' /\ (HasFd(t)' <=> HasFd(t))
      BY <2>4 DEF Passes, Counts, CountsFd, CountsPipe
    <3>3. InUse' - InUse = fds' - fds /\ InUse \in Nat /\ InUse' \in Nat
      BY <1>0, <2>1, <2>2, <2>3, <3>2
    <3>4. fds' \in 0 .. MaxFds /\ InUse' <= fds' /\ (fds = InUse => fds' = InUse')
      BY <2>2, <3>2, <3>3 DEF FdInv
    <3> QED
      BY <3>1, <3>2, <3>4 DEF FdInv
  <2>5. CASE DmaClose(t)
    <3>1. lost' = lost => (FdLost' <=> FdLost)
      BY DEF FdLost, KnownLoss
    <3>2. /\ lost' = lost /\ fds' = fds - 1 /\ ~HasFd(t) /\ ~HasFd(t)'
          /\ ~HasPipe(t) /\ ~HasPipe(t)'
          /\ handles'["engine"] + handles'["proxy"] = handles["engine"] + handles["proxy"] - 1
          /\ handles["engine"] + handles["proxy"] >= 1
      BY <2>5, FdCloses
    <3>3. handles'["engine"] \in Int /\ handles'["proxy"] \in Int
      BY HandlesInt
    <3>4. InUse' = InUse - 1 /\ InUse \in Nat /\ InUse' \in Nat
      BY <1>0, <2>1, <2>2, <2>3, <3>2, <3>3
    <3>5. fds' \in 0 .. MaxFds /\ InUse' <= fds' /\ (fds = InUse => fds' = InUse')
      BY <2>2, <3>2, <3>4 DEF FdInv
    <3> QED
      BY <3>1, <3>2, <3>5 DEF FdInv
  <2>6. CASE EndsCall(t)
    <3>1. lost \subseteq lost' => (FdLost => FdLost')
      BY LossStays DEF FdLost
    <3>2. /\ fds' = fds /\ lost \subseteq lost' /\ ~HasFd(t)'
          /\ ~HasPipe(t) /\ ~HasPipe(t)'
          /\ \/ FdLost'
             \/ handles'["engine"] + handles'["proxy"] =
                   handles["engine"] + handles["proxy"] + (IF HasFd(t) THEN 1 ELSE 0)
          /\ handles'["engine"] + handles'["proxy"] <=
                   handles["engine"] + handles["proxy"] + (IF HasFd(t) THEN 1 ELSE 0)
      BY <2>6, FdEnds
    <3>3. handles'["engine"] \in Int /\ handles'["proxy"] \in Int
      BY HandlesInt
    <3>4. InUse' <= InUse /\ (InUse' = InUse \/ FdLost') /\ InUse \in Nat /\ InUse' \in Int
      BY <1>0, <2>1, <2>2, <2>3, <3>2, <3>3
    <3>5. InUse' <= fds'
      BY <2>2, <3>2, <3>4 DEF FdInv
    <3> QED
      BY <2>2, <3>1, <3>2, <3>4, <3>5 DEF FdInv
  <2> QED
    BY <1>2, <2>4, <2>5, <2>6
<1> QED
  BY <1>1, <1>2, Stepping

\* An open that finds no descriptor left finds that some are lost.
LEMMA StarvedNext ==
    ASSUME EnoughFds, CallInv, HandleInv, FdInv, StarvedByLoss, [Next]_vars
    PROVE  StarvedByLoss'
<1>0. ProcessType /\ handles["engine"] \in 0 .. MaxHandles /\ handles["proxy"] \in 0 .. MaxHandles
  BY DEF CallInv, HandleInv, Devices
<1>1. StarvedByLoss <=> (starved => FdLost)
  BY DEF StarvedByLoss, FdLost
<1>2. StarvedByLoss' <=> (starved' => FdLost')
  BY DEF StarvedByLoss, FdLost
<1>3. lost \subseteq lost' => (FdLost => FdLost')
  BY LossStays DEF FdLost
<1>4. CASE UNCHANGED <<process, i2c, handles>>
  BY <1>1, <1>2, <1>3, <1>4 DEF process
<1>5. ASSUME NEW t \in Threads, OnlyMoves(t), Passes(t) PROVE StarvedByLoss'
  <2>1. ASSUME ~HasFd(t) \/ ~HasPipe(t), fds = MaxFds PROVE FdLost
    <3>1. /\ Cardinality(WithFd) \in Nat /\ Cardinality(WithPipe) \in Nat
          /\ Cardinality(WithFd) + Cardinality(WithPipe) + 1 <= 2 * Cardinality(Threads)
      <4>1. Cardinality(Threads) \in Nat
        BY FS_CardinalityType DEF EnoughFds
      <4> QED
        BY <1>0, <1>5, <2>1, <4>1, WithFdMoves DEF EnoughFds
    <3>2. Cardinality(Threads) \in Nat
      BY FS_CardinalityType DEF EnoughFds
    <3>3. InUse < MaxFds
      BY <1>0, <3>1, <3>2, DmaAssumption, FdAssumption DEF InUse, EnoughFds
    <3> QED
      BY <2>1, <3>3, FdAssumption DEF FdInv
  <2> QED
    BY <1>1, <1>2, <1>3, <1>5, <2>1 DEF Passes, Counts, CountsFd, CountsPipe
<1>6. ASSUME NEW t \in Threads, DmaClose(t) \/ EndsCall(t) PROVE StarvedByLoss'
  BY <1>1, <1>2, <1>3, <1>6, FdCloses, FdEnds
<1> QED
  BY <1>4, <1>5, <1>6, Stepping

\* The three invariants together.
LEMMA DescriptorInvariant == IsFiniteSet(Threads) /\ Spec => [](CallInv /\ HandleInv /\ FdInv)
<1>1. CASE IsFiniteSet(Threads)
  <2>1. Init => CallInv /\ HandleInv /\ FdInv
    BY <1>1, CallInit, HandleInit, FdInit
  <2>2. CallInv /\ HandleInv /\ FdInv /\ [Next]_vars => (CallInv /\ HandleInv /\ FdInv)'
    BY <1>1, CallNext, HandleNext, FdNext
  <2> QED
    BY <1>1, <2>1, <2>2, PTL DEF Spec
<1>2. CASE ~IsFiniteSet(Threads)
  BY <1>2
<1> QED
  BY <1>1, <1>2

\* A process of finitely many threads never has more descriptors open than it
\* may, and none is closed twice, also when calls of all components open and
\* close theirs at the same time and some of them fail.
THEOREM DescriptorsCounted == IsFiniteSet(Threads) /\ Spec => [](fds \in 0 .. MaxFds)
<1>1. FdInv => fds \in 0 .. MaxFds
  BY DEF FdInv
<1> QED
  BY <1>1, DescriptorInvariant, PTL

\* With two descriptors for each thread and one for each handle, none is ever
\* wanting unless calls have lost some: every open that fails then has another
\* reason.
THEOREM StarvedOnlyByLoss == EnoughFds /\ Spec => []StarvedByLoss
<1>1. CASE EnoughFds
  <2>1. Init => StarvedByLoss
    BY DEF Init, ProcessInit, StarvedByLoss
  <2>2. CallInv /\ HandleInv /\ FdInv /\ StarvedByLoss /\ [Next]_vars => StarvedByLoss'
    BY <1>1, StarvedNext
  <2>3. IsFiniteSet(Threads)
    BY <1>1 DEF EnoughFds
  <2> QED
    BY <2>1, <2>2, <2>3, DescriptorInvariant, PTL DEF Spec
<1>2. CASE ~EnoughFds
  BY <1>2
<1> QED
  BY <1>1, <1>2

----------------------------------------------------------------------------
(* Sums. *)

\* The sums of the model are folds: what a fold over a finite set adds next.
First(s) == CHOOSE x \in s : TRUE
\* g[s] is the sum of f over s, for the sets s of elements of D.
Adds(f, D, g) == g = [s \in SUBSET D |-> IF s = {} THEN 0 ELSE f[First(s)] + g[s \ {First(s)}]]

\* Sets of finite sets have minimal elements, by which we reason about folds.
LEMMA Minimal ==
    ASSUME NEW D, IsFiniteSet(D), NEW B \in SUBSET SUBSET D, B # {}
    PROVE  \E s \in B : \A u \in B : u \subseteq s => u = s
<1>1. B \subseteq FiniteSubsetsOf(D)
  BY FS_FiniteSubsetsOfFinite
<1>2. PICK s \in B : \A u \in B : <<u, s>> \notin StrictSubsetOrdering(D)
  BY <1>1, FS_StrictSubsetOrderingWellFounded, WFMin
<1> QED
  BY <1>2 DEF StrictSubsetOrdering

\* A sum is that of one element and of the others.
LEMMA AddsStep ==
    ASSUME NEW f, NEW D, NEW g, Adds(f, D, g), NEW s \in SUBSET D, s # {}
    PROVE  /\ First(s) \in s
           /\ g[s] = f[First(s)] + g[s \ {First(s)}]
BY DEF Adds, First

\* Two such functions agree where both are defined.
LEMMA AddsAgree ==
    ASSUME NEW f, NEW C, NEW D, NEW g, NEW h, IsFiniteSet(C), Adds(f, C, g), Adds(f, D, h)
    PROVE  \A s \in SUBSET (C \cap D) : g[s] = h[s]
<1> DEFINE B == {s \in SUBSET (C \cap D) : g[s] # h[s]}
<1>1. SUFFICES ASSUME B # {} PROVE FALSE
  OBVIOUS
<1>2. B \in SUBSET SUBSET C
  OBVIOUS
<1> HIDE DEF B
<1>3. PICK s \in B : \A u \in B : u \subseteq s => u = s
  BY <1>1, <1>2, Minimal
<1> USE DEF B
<1>4. s # {}
  BY DEF Adds
<1>5. First(s) \in s /\ g[s] = f[First(s)] + g[s \ {First(s)}] /\ h[s] = f[First(s)] + h[s \ {First(s)}]
  BY <1>4, AddsStep
<1>6. s \ {First(s)} \notin B
  BY <1>3, <1>5
<1> QED
  BY <1>5, <1>6

\* There is such a function: a smallest set without one would have one, made of
\* those of its subsets.
LEMMA AddsExist ==
    ASSUME NEW f, NEW D, IsFiniteSet(D)
    PROVE  \E g : Adds(f, D, g)
<1> DEFINE B == {s \in SUBSET D : ~\E g : Adds(f, s, g)}
<1>1. SUFFICES ASSUME B # {} PROVE FALSE
  OBVIOUS
<1>0. B \in SUBSET SUBSET D
  OBVIOUS
<1> HIDE DEF B
<1>2. PICK t \in B : \A u \in B : u \subseteq t => u = t
  BY <1>0, <1>1, Minimal
<1> USE DEF B
<1> DEFINE G(u) == CHOOSE g : Adds(f, u, g)
           h == [s \in SUBSET t |-> IF s = {} THEN 0
                                    ELSE f[First(s)] + G(s \ {First(s)})[s \ {First(s)}]]
<1>3. ASSUME NEW u \in SUBSET t, u # t PROVE Adds(f, u, G(u))
  <2>1. \E g : Adds(f, u, g)
    BY <1>2, <1>3
  <2> QED
    BY <2>1
<1> HIDE DEF G
<1>4. ASSUME NEW s \in SUBSET t, s # {} PROVE h[s \ {First(s)}] = G(s \ {First(s)})[s \ {First(s)}]
  <2> DEFINE u == s \ {First(s)}
  <2>1. First(s) \in s
    BY <1>4 DEF First
  <2>2. u \in SUBSET t /\ u # t /\ Adds(f, u, G(u))
    BY <1>3, <2>1
  <2>3. CASE u = {}
    BY <2>2, <2>3 DEF Adds
  <2>4. CASE u # {}
    <3> DEFINE v == u \ {First(u)}
    <3>1. First(u) \in u /\ G(u)[u] = f[First(u)] + G(u)[v]
      <4>1. u \in SUBSET u /\ Adds(f, u, G(u))
        BY <2>2
      <4> HIDE DEF u
      <4> QED
        BY <2>4, <4>1, AddsStep
    <3>2. v \in SUBSET t /\ v # t /\ Adds(f, v, G(v)) /\ IsFiniteSet(v)
      BY <1>3, <2>2, <3>1, FS_Subset
    <3>3. G(v)[v] = G(u)[v]
      BY <2>2, <3>2, AddsAgree
    <3>4. h[u] = f[First(u)] + G(v)[v]
      BY <2>2, <2>4
    <3> QED
      BY <3>1, <3>3, <3>4
  <2> QED
    BY <2>3, <2>4
<1>5. Adds(f, t, h)
  <2>1. h = [s \in SUBSET t |-> IF s = {} THEN 0 ELSE f[First(s)] + h[s \ {First(s)}]]
    BY <1>4
  <2> QED
    BY <2>1 DEF Adds
<1> QED
  BY <1>2, <1>5

\* What adds up natural numbers is natural.
LEMMA AddsNatural ==
    ASSUME NEW D, IsFiniteSet(D), NEW f \in [D -> Nat], NEW g, Adds(f, D, g)
    PROVE  g[D] \in Nat
<1> DEFINE B == {s \in SUBSET D : g[s] \notin Nat}
<1>1. SUFFICES ASSUME B # {} PROVE FALSE
  OBVIOUS
<1>0. B \in SUBSET SUBSET D
  OBVIOUS
<1> HIDE DEF B
<1>2. PICK s \in B : \A u \in B : u \subseteq s => u = s
  BY <1>0, <1>1, Minimal
<1> USE DEF B
<1>3. s # {}
  BY DEF Adds
<1>4. First(s) \in s /\ g[s] = f[First(s)] + g[s \ {First(s)}]
  BY <1>3, AddsStep
<1>5. s \ {First(s)} \notin B
  BY <1>2, <1>4
<1> QED
  BY <1>4, <1>5

\* The sum of natural numbers is natural.
LEMMA SumNatural ==
    ASSUME NEW D, IsFiniteSet(D), NEW f \in [D -> Nat]
    PROVE  FoldFunction(+, 0, f) \in Nat
<1> DEFINE it == CHOOSE g : g = [s \in SUBSET D |-> IF s = {} THEN 0 ELSE f[First(s)] + g[s \ {First(s)}]]
<1>1. \E g : Adds(f, D, g)
  BY AddsExist
<1>2. Adds(f, D, it)
  BY <1>1 DEF Adds
<1>3. FoldFunction(+, 0, f) = it[D]
  BY DEF FoldFunction, FoldFunctionOnSet, MapThenFoldSet, First
<1> QED
  BY <1>2, <1>3, AddsNatural

----------------------------------------------------------------------------
(* What a transfer of I2C leaves. *)

\* The address that is sent is a natural number.
LEMMA AddressNatural ==
    ASSUME NEW r, r.addr \in Nat, r.alen \in 0 .. MaxAddrLen
    PROVE  SentAddress(r) \in Nat
<1> DEFINE D == 0 .. r.alen - 1
           f == [k \in D |-> AddressByte(r.addr, k) * ByteMod^k]
           it == CHOOSE g : g = [s \in SUBSET D |-> IF s = {} THEN 0
                    ELSE AddressByte(r.addr, First(s)) * ByteMod^First(s) + g[s \ {First(s)}]]
<1>1. ASSUME NEW k \in D PROVE AddressByte(r.addr, k) * ByteMod^k \in Nat
  <2>1. ByteMod \in Nat \ {0} /\ ByteMod^k \in Nat \ {0}
    BY I2cAssumption DEF MaxAddrLen
  <2> DEFINE b == ByteMod
             w == ByteMod^k
             x == r.addr \div w
  <2>2. x \in Nat
    BY <2>1
  <2> HIDE DEF x, w, b
  <2>3. x % b \in Nat
    BY <2>1, <2>2, ModRange DEF b
  <2>4. (x % b) * w \in Nat
    BY <2>1, <2>3 DEF w
  <2> DEFINE y == (x % b) * w
  <2> HIDE DEF y
  <2>5. y % b \in Nat
    <3>1. y \in Nat /\ b \in Nat \ {0}
      BY <2>1, <2>4 DEF b, y
    <3>2. y % b \in 0 .. b - 1
      BY <3>1, ModRange
    <3> QED
      BY <3>1, <3>2
  <2>6. (y % b) * w \in Nat
    BY <2>1, <2>5 DEF w
  <2> QED
    BY <2>6 DEF AddressByte, x, y, w, b
<1>2. f \in [D -> Nat] /\ IsFiniteSet(D)
  <2>1. IsFiniteSet(D)
    <3>1. 0 \in Int /\ r.alen - 1 \in Int
      BY DEF MaxAddrLen
    <3> QED
      BY <3>1, FS_Interval
  <2> HIDE DEF D
  <2> QED
    BY <1>1, <2>1
<1>3. \A g : Adds(f, D, g) <=>
         g = [s \in SUBSET D |-> IF s = {} THEN 0
                ELSE AddressByte(r.addr, First(s)) * ByteMod^First(s) + g[s \ {First(s)}]]
  <2>1. \A s \in SUBSET D : s # {} => f[First(s)] = AddressByte(r.addr, First(s)) * ByteMod^First(s)
    BY DEF First
  <2> HIDE DEF f
  <2> QED
    BY <2>1 DEF Adds
<1>4. Adds(f, D, it)
  <2>1. \E g : Adds(f, D, g)
    BY <1>2, AddsExist
  <2> HIDE DEF f
  <2> QED
    BY <1>3, <2>1
<1>5. SentAddress(r) = it[D]
  BY DEF SentAddress, MapThenSumSet, MapThenFoldSet, First
<1> HIDE DEF f, it
<1> QED
  BY <1>2, <1>4, <1>5, AddsNatural

\* The last of the places that a byte of the device is written from.
LEMMA MaxIs ==
    ASSUME NEW S \in SUBSET Int, NEW k \in S, \A j \in S : j <= k
    PROVE  Max(S) = k
<1>1. \A j \in S : k >= j
  OBVIOUS
<1>2. Max(S) \in S /\ \A j \in S : Max(S) >= j
  <2>1. \E x \in S : \A y \in S : x >= y
    BY <1>1
  <2> QED
    BY <2>1, Zenon DEF Max
<1>3. Max(S) \in Int /\ k \in Int /\ Max(S) <= k /\ Max(S) >= k
  BY <1>2
<1> QED
  BY <1>3

\* Every set of natural numbers below a bound has a largest element.
LEMMA MaxIn ==
    ASSUME NEW n \in Nat, NEW S \in SUBSET (0 .. n - 1), S # {}
    PROVE  Max(S) \in S
<1> DEFINE B == {j .. n - 1 : j \in S}
           D == 0 .. n - 1
<1>1. B \in SUBSET SUBSET (0 .. n - 1) /\ B # {}
  <2>1. \A j \in S : j .. n - 1 \subseteq 0 .. n - 1
    OBVIOUS
  <2>2. PICK j \in S : TRUE
    OBVIOUS
  <2> QED
    BY <2>1, <2>2
<1>5. IsFiniteSet(D) /\ B \in SUBSET SUBSET D /\ B # {}
  BY <1>1, FS_Interval
<1> HIDE DEF B, D
<1>2. PICK u \in B : \A v \in B : v \subseteq u => v = u
  BY <1>5, Minimal
<1>3. PICK k \in S : u = k .. n - 1
  BY DEF B
<1>4. ASSUME NEW j \in S PROVE j <= k
  <2>1. SUFFICES ASSUME j > k PROVE FALSE
    OBVIOUS
  <2>2. j .. n - 1 \in B /\ j .. n - 1 \subseteq u
    BY <1>3, <2>1 DEF B
  <2>3. k \in u /\ k \notin j .. n - 1
    BY <1>3, <2>1
  <2> QED
    BY <1>2, <2>2, <2>3
<1> QED
  BY <1>4, MaxIs

\* Two places of a device are the same only after a full round.
LEMMA SameCell ==
    ASSUME NEW p \in Nat, NEW j \in Nat, NEW k \in Nat, NEW w \in Nat \ {0},
           (p + j) % w = (p + k) % w, j > k
    PROVE  j >= k + w
<1>1. SUFFICES ASSUME j - k < w PROVE FALSE
  OBVIOUS
<1>2. (((p + j) % w) - ((p + k) % w)) % w = j - k
  <2>1. p + j \in Nat /\ p + k \in Nat /\ p + j >= p + k /\ (p + j) - (p + k) = j - k /\ j - k < w
    BY <1>1
  <2> DEFINE x == p + j
             y == p + k
  <2> HIDE DEF x, y
  <2>2. ((x % w) - (y % w)) % w = x - y
    BY <2>1, RingDistance DEF x, y
  <2> QED
    BY <2>1, <2>2 DEF x, y
<1>3. (p + j) % w \in Int /\ ((p + j) % w) - ((p + k) % w) = 0
  BY ModRange
<1>4. 0 % w = 0
  BY SmallMod
<1> QED
  BY <1>2, <1>3, <1>4

\* A device that has moved n places on from p, seen n places back.
LEMMA BackAgain ==
    ASSUME NEW p \in Nat, NEW n \in Nat, NEW k \in Nat, NEW w \in Nat \ {0}
    PROVE  (((p + n) % w) - n + k) % w = (p + k) % w
<1> DEFINE x == (p + n) % w
           q == (p + n) \div w
           z == x - n + k
<1>1. p + n = w * q + x /\ q \in Nat /\ x \in 0 .. w - 1
  <2> DEFINE a == p + n
  <2>1. a \in Nat
    OBVIOUS
  <2> HIDE DEF a
  <2> QED
    <3>1. a = w * (a \div w) + (a % w) /\ a \div w \in Nat
      BY <2>1, DivMod
    <3>2. a % w \in 0 .. w - 1
      BY <2>1, ModRange
    <3> QED
      BY <3>1, <3>2 DEF a, q, x
<1> HIDE DEF x, q
<1>2. z + q * w = p + k
  <2>1. w * q = q * w /\ q * w \in Nat
    BY <1>1
  <2> QED
    BY <1>1, <2>1
<1> HIDE DEF z
<1>3. (z + q * w) % w = z % w
  <2>1. z \in Int /\ q \in Int
    BY <1>1 DEF z
  <2> QED
    BY <2>1, ModShiftInt
<1>4. z % w = (p + k) % w
  BY <1>2, <1>3
<1> QED
  BY <1>4 DEF z, x

\* A call that has succeeded in full and has not released the lock; a write closes the
\* bus before it does.
Holding(t) == /\ Op(t) \in I2cOps /\ ret[t] = 0 /\ t \notin partial
              /\ pc[t] \in {"i2c_free", "i2c_unlock"} \/ (IsWrite(t) /\ pc[t] = "i2c_close")
\* What I2cTransfers says of it.
Arrived(t) ==
    LET r == req[t]
        s == slave[r.bus]
        p == IF r.op = "i2c_receive" THEN s.pos - r.len ELSE SentAddress(r)
        n == IF r.op = "i2c_write" THEN r.alen + r.len ELSE r.len
    IN n < LenMod => \A k \in 0 .. r.len - 1 :
         (k + I2cSize >= r.len) =>
             s.regs[(p + k) % I2cSize] = IF r.op = "i2c_write" THEN r.data[k] ELSE out[t][k]

\* A call is only made with an address that can be sent.
Sendable(t) == pc[t] = "i2c_transfer" => Op(t) = "i2c_receive" \/ req[t].alen <= MaxAddrLen
TransferInv ==
    /\ I2cTypeOK
    /\ \A t \in Threads : Sendable(t)
    /\ \A t \in Threads : Holding(t) => Arrived(t)

\* A device on a bus.
SlaveType == [regs : [I2cCells -> Values \cup {Zero}], pos : I2cCells]

\* A message never takes more data than the request has, and all of it if its
\* length fits.
LEMMA SentLenBound ==
    ASSUME NEW r \in I2cRequest
    PROVE  /\ SentLen(r) \in Int /\ SentLen(r) <= r.len
           /\ r.op = "i2c_write" /\ r.alen + r.len < LenMod => SentLen(r) = r.len
           /\ r.op # "i2c_write" /\ r.len < LenMod => SentLen(r) = r.len
<1>1. r.len \in Nat /\ r.alen \in Nat /\ LenMod \in Nat \ {0}
  BY I2cAssumption DEF I2cRequest
<1> DEFINE both == r.alen + r.len
<1>2. both \in Nat
  BY <1>1
<1> HIDE DEF both
<1>3. both % LenMod \in Nat /\ both % LenMod <= both /\ (both < LenMod => both % LenMod = both)
  BY <1>1, <1>2, ModBelow
<1>4. r.len % LenMod \in Nat /\ r.len % LenMod <= r.len /\ (r.len < LenMod => r.len % LenMod = r.len)
  BY <1>1, ModBelow
<1>5. SentLen(r) = IF r.op = "i2c_write" THEN (both % LenMod) - r.alen ELSE r.len % LenMod
  BY DEF SentLen, both
<1> QED
  BY <1>1, <1>3, <1>4, <1>5 DEF both

\* Where a device may start.
LEMMA StartIn ==
    ASSUME I2cTypeOK, NEW r \in I2cRequest, r.op = "i2c_receive" \/ r.alen <= MaxAddrLen, NEW p \in Start(r)
    PROVE  p \in I2cCells /\ (r.op # "i2c_receive" => SentAddress(r) \in Nat)
<1>1. slave[r.bus].pos \in I2cCells
  BY DEF I2cTypeOK, I2cRequest
<1>2. ASSUME r.op # "i2c_receive" PROVE SentAddress(r) \in Nat /\ SentAddress(r) % I2cSize \in I2cCells
  <2>1. r.addr \in Nat /\ r.alen \in 0 .. MaxAddrLen
    BY <1>2 DEF I2cRequest, MaxAddrLen
  <2>2. SentAddress(r) \in Nat
    BY <2>1, AddressNatural
  <2>3. I2cSize \in Nat \ {0}
    BY I2cAssumption
  <2> QED
    BY <2>2, <2>3, ModRange DEF I2cCells
<1> QED
  BY <1>1, <1>2 DEF Start

\* A device that was one remains one.
LEMMA ReachedType ==
    ASSUME I2cTypeOK, NEW r \in I2cRequest, NEW p \in I2cCells, NEW n \in Int, n <= r.len
    PROVE  Reached(r, p, n) \in SlaveType
<1>1. /\ slave[r.bus].regs \in [I2cCells -> Values \cup {Zero}] /\ r.len \in 0 .. MaxLen /\ MaxLen \in Nat
      /\ I2cSize \in Nat \ {0} /\ p \in Nat /\ r.data \in [I2cPlaces -> Values \cup {Zero}]
  BY I2cAssumption DEF I2cTypeOK, I2cRequest, I2cCells
<1>2. (p + n) % I2cSize \in I2cCells
  <2> DEFINE x == p + n
  <2>1. x \in Int
    BY <1>1
  <2> HIDE DEF x
  <2>2. x % I2cSize \in 0 .. I2cSize - 1
    BY <1>1, <2>1, ModRange
  <2> QED
    BY <2>2 DEF x, I2cCells
<1> DEFINE at(c) == {k \in 0 .. n - 1 : (p + k) % I2cSize = c}
<1>3. ASSUME NEW c \in I2cCells, at(c) # {} PROVE r.data[Max(at(c))] \in Values \cup {Zero}
  <2>1. n \in Nat /\ at(c) \in SUBSET (0 .. n - 1)
    BY <1>3
  <2> HIDE DEF at
  <2>2. Max(at(c)) \in at(c)
    BY <1>3, <2>1, MaxIn
  <2>3. Max(at(c)) \in I2cPlaces
    BY <1>1, <2>1, <2>2 DEF I2cPlaces
  <2> QED
    BY <1>1, <2>3
<1>4. [c \in I2cCells |-> IF r.op = "i2c_write" /\ at(c) # {} THEN r.data[Max(at(c))]
                          ELSE slave[r.bus].regs[c]] \in [I2cCells -> Values \cup {Zero}]
  <2> HIDE DEF at
  <2> QED
    BY <1>1, <1>3
<1> QED
  BY <1>2, <1>4 DEF Reached, SlaveType

\* The bytes of the message are those of the device.
LEMMA DeliveredAt ==
    ASSUME NEW r, NEW p, NEW n, NEW k \in I2cPlaces, ~(k >= r.len), k < n
    PROVE  Delivered(r, p, n)[k] = slave[r.bus].regs[(p + k) % I2cSize]
BY DEF Delivered

\* What the caller gets are values, or what its buffer held.
LEMMA DeliveredType ==
    ASSUME I2cTypeOK, NEW r \in I2cRequest, NEW p \in I2cCells, NEW n
    PROVE  Delivered(r, p, n) \in [I2cPlaces -> Values \cup {Zero, Blank, Garbage}]
<1>1. slave[r.bus].regs \in [I2cCells -> Values \cup {Zero}] /\ I2cSize \in Nat \ {0} /\ p \in Nat
  BY I2cAssumption DEF I2cTypeOK, I2cRequest, I2cCells
<1>2. ASSUME NEW k \in I2cPlaces PROVE (p + k) % I2cSize \in I2cCells
  <2> DEFINE x == p + k
  <2>1. x \in Int
    BY <1>1 DEF I2cPlaces
  <2> HIDE DEF x
  <2>2. x % I2cSize \in 0 .. I2cSize - 1
    BY <1>1, <2>1, ModRange
  <2> QED
    BY <2>2 DEF x, I2cCells
<1> QED
  BY <1>1, <1>2 DEF Delivered

\* A transfer that succeeds delivers what it should, whether or not its message
\* goes around the device several times.
LEMMA TransferArrives ==
    ASSUME I2cTypeOK, NEW t \in Threads, req[t] \in I2cRequest, Sendable(t), pc[t] = "i2c_transfer",
           NEW p \in Start(req[t]), req'[t] = req[t],
           slave' = [slave EXCEPT ![req[t].bus] = Reached(req[t], p, SentLen(req[t]))],
           out' = IF IsWrite(t) THEN out ELSE [out EXCEPT ![t] = Delivered(req[t], p, SentLen(req[t]))]
    PROVE  Arrived(t)'
<1> DEFINE r == req[t]
           n == IF r.op = "i2c_write" THEN r.alen + r.len ELSE r.len
           w == I2cSize
           new == Reached(r, p, SentLen(r))
           q == IF r.op = "i2c_receive" THEN new.pos - r.len ELSE SentAddress(r)
<1>1. r \in I2cRequest /\ (r.op = "i2c_receive" \/ r.alen <= MaxAddrLen) /\ r.op = Op(t)
  BY DEF Sendable, Op
<1>2. p \in I2cCells /\ (r.op # "i2c_receive" => SentAddress(r) \in Nat) /\ p \in Nat /\ w \in Nat \ {0}
  BY <1>1, StartIn, I2cAssumption DEF I2cCells
<1>3. slave'[r.bus] = new
  BY <1>1 DEF I2cTypeOK, I2cRequest
<1> SUFFICES ASSUME n < LenMod, NEW k \in 0 .. r.len - 1, k + w >= r.len
             PROVE  new.regs[(q + k) % w] = IF r.op = "i2c_write" THEN r.data[k] ELSE out'[t][k]
  BY <1>3 DEF Arrived
<1>4. SentLen(r) = r.len /\ r.len \in Nat /\ k \in Nat /\ k < r.len /\ k \in I2cPlaces
  <2>1. r.len \in 0 .. MaxLen /\ r.alen \in Nat /\ MaxLen \in Nat
    BY <1>1, I2cAssumption DEF I2cRequest
  <2>2. SentLen(r) = r.len
    <3>1. n < LenMod
      OBVIOUS
    <3> HIDE DEF r
    <3> QED
      BY <1>1, <3>1, SentLenBound DEF n
  <2> QED
    BY <2>1, <2>2 DEF I2cPlaces
<1>5. p = slave[r.bus].pos \/ (r.op # "i2c_receive" /\ p = SentAddress(r) % w)
  BY <1>1, <1>4 DEF Start
<1>6. (q + k) % w = (p + k) % w
  <2>1. CASE r.op = "i2c_receive"
    <3>1. q = ((p + r.len) % w) - r.len
      BY <1>4, <2>1 DEF Reached
    <3> HIDE DEF q, r
    <3> QED
      BY <1>2, <1>4, <3>1, BackAgain
  <2>2. CASE r.op # "i2c_receive"
    <3>1. q = SentAddress(r) /\ p = SentAddress(r) % w
      BY <1>4, <2>2 DEF Start
    <3> HIDE DEF q, r
    <3> QED
      BY <1>2, <1>4, <2>2, <3>1, ModAdd
  <2> QED
    BY <2>1, <2>2
<1> DEFINE c == (p + k) % w
           at == {j \in 0 .. r.len - 1 : (p + j) % w = c}
<1>7. c \in I2cCells
  <2> DEFINE x == p + k
  <2>1. x \in Int
    BY <1>2, <1>4
  <2> HIDE DEF x
  <2>2. x % w \in 0 .. w - 1
    BY <1>2, <2>1, ModRange
  <2> QED
    BY <2>2 DEF x, I2cCells
<1>8. Max(at) = k /\ at # {}
  <2>1. k \in at /\ at \in SUBSET Int
    BY <1>4
  <2>2. ASSUME NEW j \in at PROVE j <= k
    <3>1. SUFFICES ASSUME j > k PROVE FALSE
      BY <1>4
    <3>2. j \in Nat /\ j < r.len /\ (p + j) % w = (p + k) % w
      BY <1>4
    <3>3. j >= k + w
      BY <1>2, <1>4, <3>1, <3>2, SameCell
    <3> QED
      BY <1>2, <1>4, <3>2, <3>3
  <2> HIDE DEF at
  <2> QED
    BY <2>1, <2>2, MaxIs
<1>9. new.regs[c] = IF r.op = "i2c_write" /\ at # {} THEN r.data[Max(at)] ELSE slave[r.bus].regs[c]
  BY <1>4, <1>7 DEF Reached
<1>10. r.op # "i2c_write" => out'[t][k] = slave[r.bus].regs[c]
  <2>1. ASSUME r.op # "i2c_write" PROVE out'[t] = Delivered(r, p, SentLen(r))
    BY <1>1, <2>1 DEF IsWrite, I2cTypeOK
  <2>2. Delivered(r, p, SentLen(r))[k] = slave[r.bus].regs[c]
    <3> DEFINE m == SentLen(r)
    <3>1. ~(k >= r.len) /\ k < m /\ k \in I2cPlaces
      BY <1>4
    <3> HIDE DEF r, m
    <3>2. Delivered(r, p, m)[k] = slave[r.bus].regs[(p + k) % I2cSize]
      BY <3>1, DeliveredAt
    <3> QED
      BY <3>2 DEF m, r
  <2> QED
    BY <2>1, <2>2
<1> QED
  BY <1>6, <1>8, <1>9, <1>10

\* At first there has been no transfer.
LEMMA TransferInit == Init => TransferInv
<1> SUFFICES ASSUME Init PROVE TransferInv
  OBVIOUS
<1>1. I2cTypeOK
  BY I2cAssumption DEF Init, I2cInit, I2cTypeOK, I2cCells, I2cPlaces, NoBlock
<1>2. \A t \in Threads : ~Holding(t) /\ Sendable(t)
  BY DEF Init, ProcessInit, Holding, Sendable
<1> QED
  BY <1>1, <1>2 DEF TransferInv

\* Only the thread that has the lock changes a device, and then nobody else has
\* a transfer that somebody still relies on.
LEMMA TransferNext ==
    ASSUME CallInv, I2cExclusive, TransferInv, [Next]_vars
    PROVE  TransferInv'
<1>0. ProcessType /\ I2cTypeOK /\ \A t \in Threads : CallAt(t)
  BY DEF CallInv, TransferInv
<1>1. CASE UNCHANGED <<process, i2c>>
  <2>1. /\ calls' = calls /\ pc' = pc /\ req' = req /\ ret' = ret
        /\ i2cLock' = i2cLock /\ slave' = slave /\ out' = out /\ partial' = partial
    BY <1>1 DEF process, i2c
  <2>2. I2cTypeOK'
    BY <1>0, <2>1 DEF I2cTypeOK
  <2>3. ASSUME NEW t \in Threads PROVE Sendable(t)' /\ (Holding(t)' => Arrived(t)')
    <3>1. Sendable(t)' = Sendable(t) /\ Holding(t)' = Holding(t) /\ Arrived(t)' = Arrived(t)
      BY <2>1 DEF Sendable, Holding, Arrived, Op, IsWrite
    <3> QED
      BY <3>1 DEF TransferInv
  <2> QED
    BY <2>2, <2>3 DEF TransferInv
<1>2. ASSUME NEW t \in Threads, OnlyMoves(t), Locks(t), Sendable(t)', Holding(t)' => Arrived(t)',
             slave' \in [Buses -> SlaveType], out' \in [Threads -> [I2cPlaces -> Values \cup {Zero, Blank, Garbage}]],
             \A u \in Threads \ {t} : out'[u] = out[u] /\ (u \in partial' <=> u \in partial),
             partial' \subseteq Threads,
             slave' = slave \/ \A u \in Threads \ {t} : ~Holding(u)
      PROVE  TransferInv'
  <2>1. I2cTypeOK'
    BY <1>0, <1>2 DEF I2cTypeOK, Locks, SlaveType
  <2>2. ASSUME NEW u \in Threads \ {t} PROVE Sendable(u)' /\ (Holding(u)' => Arrived(u)')
    <3>1. /\ pc'[u] = pc[u] /\ req'[u] = req[u] /\ ret'[u] = ret[u] /\ out'[u] = out[u]
          /\ (u \in partial' <=> u \in partial)
      BY <1>0, <1>2, <2>2, Resting
    <3>2. Sendable(u)' = Sendable(u) /\ Holding(u)' = Holding(u)
      BY <3>1 DEF Sendable, Holding, Op, IsWrite
    <3>3. slave' = slave => Arrived(u)' = Arrived(u)
      BY <3>1 DEF Arrived
    <3> QED
      BY <1>2, <2>2, <3>2, <3>3 DEF TransferInv
  <2> QED
    BY <1>2, <2>1, <2>2 DEF TransferInv
<1>3. ASSUME NEW t \in Threads, OnlyMoves(t), Locks(t), Sendable(t)', Holding(t)' => Arrived(t)',
             slave' = slave, out' = out, partial' = partial
      PROVE  TransferInv'
  <2>1. slave' \in [Buses -> SlaveType] /\ out' \in [Threads -> [I2cPlaces -> Values \cup {Zero, Blank, Garbage}]]
    BY <1>0, <1>3 DEF I2cTypeOK, SlaveType
  <2>2. partial' \subseteq Threads
    BY <1>0, <1>3 DEF I2cTypeOK
  <2> QED
    BY <1>2, <1>3, <2>1, <2>2
<1>4. ASSUME NEW t \in Threads, OnlyMoves(t), Locks(t), slave' = slave, out' = out, partial' = partial,
             \/ ret'[t] # 0 /\ pc'[t] # "i2c_transfer"
             \/ pc'[t] \notin {"i2c_transfer", "i2c_free", "i2c_unlock", "i2c_close"}
      PROVE  TransferInv'
  BY <1>3, <1>4 DEF Sendable, Holding
<1>5. ASSUME NEW t \in Threads, OnlyMoves(t), Locks(t), slave' = slave, out' = out, partial' = partial, req' = req, ret' = ret,
             Holding(t)' => Holding(t), pc'[t] # "i2c_transfer"
      PROVE  TransferInv'
  <2>1. Arrived(t)' = Arrived(t)
    BY <1>5 DEF Arrived
  <2> QED
    BY <1>3, <1>5, <2>1 DEF TransferInv, Sendable
<1>6. ASSUME NEW t \in Threads, I2cTransfer(t), OnlyMoves(t), Locks(t) PROVE TransferInv'
  <2> DEFINE r == req[t]
  <2>1. pc[t] = "i2c_transfer" /\ I2cAt(t) /\ r \in I2cRequest /\ r.op \in I2cOps /\ Op(t) = r.op
    BY <1>0, <1>6, Whose DEF I2cTransfer, I2cPcs, I2cAt, Op
  <2>2. Sendable(t) /\ (r.op = "i2c_receive" \/ r.alen <= MaxAddrLen)
    BY <2>1 DEF TransferInv, Sendable, Op
  <2>3. ASSUME NEW u \in Threads \ {t} PROVE ~Holding(u)
    <3>1. i2cLock = t
      BY <2>1 DEF I2cExclusive, InI2c
    <3>2. Holding(u) => InI2c(u)
      BY DEF Holding, InI2c
    <3> QED
      BY <2>3, <3>1, <3>2 DEF I2cExclusive
  <2>4. ASSUME NEW p \in Start(r), NEW n \in Int, n <= r.len
        PROVE  [slave EXCEPT ![r.bus] = Reached(r, p, n)] \in [Buses -> SlaveType]
    <3>1. Reached(r, p, n) \in SlaveType
      BY <1>0, <2>1, <2>2, <2>4, StartIn, ReachedType
    <3> QED
      BY <1>0, <3>1 DEF I2cTypeOK, SlaveType
  <2>5. slave \in [Buses -> SlaveType] /\ out \in [Threads -> [I2cPlaces -> Values \cup {Zero, Blank, Garbage}]]
    BY <1>0 DEF I2cTypeOK, SlaveType
  <2>6. partial \subseteq Threads
    BY <1>0 DEF I2cTypeOK
  <2>7. CASE \E p \in Start(r) :
               /\ slave' = [slave EXCEPT ![r.bus] = Reached(r, p, SentLen(r))]
               /\ out' = IF IsWrite(t) THEN out ELSE [out EXCEPT ![t] = Delivered(r, p, SentLen(r))]
               /\ partial' = partial
               /\ Move(t, "i2c_free")
    <3>1. PICK p \in Start(r) :
               /\ slave' = [slave EXCEPT ![r.bus] = Reached(r, p, SentLen(r))]
               /\ out' = IF IsWrite(t) THEN out ELSE [out EXCEPT ![t] = Delivered(r, p, SentLen(r))]
               /\ partial' = partial
               /\ Move(t, "i2c_free")
      BY <2>7
    <3>2. pc'[t] = "i2c_free" /\ req' = req
      BY <1>0, <3>1, Leading DEF Leads, Within
    <3>3. Arrived(t)'
      BY <1>0, <2>1, <2>2, <3>1, <3>2, TransferArrives
    <3>4. slave' \in [Buses -> SlaveType]
      BY <2>1, <2>4, <3>1, SentLenBound
    <3>5. Delivered(r, p, SentLen(r)) \in [I2cPlaces -> Values \cup {Zero, Blank, Garbage}]
      BY <1>0, <2>1, <2>2, StartIn, DeliveredType
    <3>6. /\ out' \in [Threads -> [I2cPlaces -> Values \cup {Zero, Blank, Garbage}]]
          /\ \A u \in Threads \ {t} : out'[u] = out[u]
      BY <2>5, <3>1, <3>5
    <3> QED
      BY <1>2, <1>6, <2>3, <2>6, <3>1, <3>2, <3>3, <3>4, <3>6 DEF Sendable
  <2>8. CASE \E p \in Start(r) :
               /\ \/ slave' = slave
                  \/ Op(t) = "i2c_read" /\ slave' = [slave EXCEPT ![r.bus] = Reached(r, p, 0)]
               /\ out' = IF IsWrite(t) THEN out ELSE [out EXCEPT ![t] = Delivered(r, p, 0)]
               /\ partial' = partial \cup {t}
               /\ Move(t, "i2c_free")
    <3>1. PICK p \in Start(r) :
               /\ \/ slave' = slave
                  \/ Op(t) = "i2c_read" /\ slave' = [slave EXCEPT ![r.bus] = Reached(r, p, 0)]
               /\ out' = IF IsWrite(t) THEN out ELSE [out EXCEPT ![t] = Delivered(r, p, 0)]
               /\ partial' = partial \cup {t}
               /\ Move(t, "i2c_free")
      BY <2>8
    <3>2. pc'[t] = "i2c_free" /\ t \in partial'
      BY <1>0, <3>1, Leading DEF Leads, Within
    <3>3. Sendable(t)' /\ ~Holding(t)'
      BY <3>2 DEF Sendable, Holding
    <3>4. slave' \in [Buses -> SlaveType]
      <4>1. 0 \in Int /\ 0 <= r.len
        BY <2>1, I2cAssumption DEF I2cRequest
      <4> QED
        BY <2>4, <2>5, <3>1, <4>1
    <3>5. Delivered(r, p, 0) \in [I2cPlaces -> Values \cup {Zero, Blank, Garbage}]
      BY <1>0, <2>1, <2>2, StartIn, DeliveredType
    <3>6. /\ out' \in [Threads -> [I2cPlaces -> Values \cup {Zero, Blank, Garbage}]]
          /\ \A u \in Threads \ {t} : out'[u] = out[u]
      BY <2>5, <3>1, <3>5
    <3>7. partial' \subseteq Threads /\ \A u \in Threads \ {t} : u \in partial' <=> u \in partial
      BY <2>6, <3>1
    <3> QED
      BY <1>2, <1>6, <2>3, <3>3, <3>4, <3>6, <3>7
  <2>9. CASE /\ \/ slave' = slave
                \/ \E p \in Start(r), n \in 0 .. SentLen(r) :
                     slave' = [slave EXCEPT ![r.bus] = Reached(r, p, n)]
             /\ out' = out /\ partial' = partial
             /\ MoveWith(t, "i2c_free", -1)
    <3>1. pc'[t] = "i2c_free" /\ ret'[t] = -1
      <4>1. MoveWith(t, "i2c_free", -1) => Leads(t, "i2c_free", -1, held[t])
        BY <1>0, Leading
      <4> QED
        BY <2>9, <4>1 DEF Leads, Within
    <3>2. slave' \in [Buses -> SlaveType]
      <4>1. SentLen(r) \in Int /\ SentLen(r) <= r.len /\ r.len \in Int
        BY <2>1, SentLenBound, I2cAssumption DEF I2cRequest
      <4>2. \A n \in 0 .. SentLen(r) : n \in Int /\ n <= r.len
        BY <4>1
      <4> QED
        BY <2>4, <2>5, <2>9, <4>2
    <3>3. Sendable(t)' /\ ~Holding(t)'
      BY <3>1 DEF Sendable, Holding
    <3> QED
      BY <1>2, <1>6, <2>3, <2>5, <2>6, <2>9, <3>2, <3>3
  <2> QED
    BY <1>6, <2>7, <2>8, <2>9 DEF I2cTransfer
<1>7. ASSUME NEW t \in Threads, I2cNext(t), OnlyMoves(t), Locks(t) PROVE TransferInv'
  <2>1. CASE I2cCall(t)
    <3>1. pc'[t] \in {"i2c_lock", "i2c_open"} /\ slave' = slave /\ out' = out /\ partial' = partial
      BY <1>0, <2>1, Beginning DEF I2cCall, i2c
    <3> QED
      BY <1>4, <1>7, <3>1
  <2>2. CASE I2cOpen(t)
    <3>1. slave' = slave /\ out' = out /\ partial' = partial
      BY <2>2 DEF I2cOpen, i2c
    <3>2. Opens(t, "fd", AfterOpen(t)) \/ Fails(t, IF IsWrite(t) THEN "i2c_unlock" ELSE "return")
      BY <1>0, <2>2, Leading DEF I2cOpen
    <3>3. pc'[t] \in {"i2c_prepare", "i2c_lock"} \/ (pc'[t] \in {"i2c_unlock", "return"} /\ ret'[t] = -1)
      BY <3>2 DEF Opens, Fails, Within, AfterOpen
    <3> QED
      BY <1>4, <1>7, <3>1, <3>3
  <2>3. CASE I2cLock(t) \/ I2cUnlock(t)
    <3>1. slave' = slave /\ out' = out /\ partial' = partial
      BY <2>3 DEF I2cLock, I2cUnlock
    <3>2. Leads(t, AfterLock(t), ret[t], held[t]) \/ Leads(t, AfterUnlock(t), ret[t], held[t])
      BY <1>0, <2>3, Leading DEF I2cLock, I2cUnlock
    <3>3. pc'[t] \in {"i2c_open", "i2c_prepare", "return"} \/ (pc'[t] = "i2c_close" /\ ~IsWrite(t) /\ req' = req)
      BY <3>2 DEF Leads, Within, AfterLock, AfterUnlock
    <3>4. Sendable(t)' /\ ~Holding(t)'
      BY <3>3 DEF Sendable, Holding, IsWrite, Op
    <3> QED
      BY <1>3, <1>7, <3>1, <3>4
  <2>4. CASE I2cPrepare(t)
    <3>1. slave' = slave /\ out' = out /\ partial' = partial
      BY <2>4 DEF I2cPrepare, i2c
    <3>2. \/ Leads(t, AfterFree(t), -1, held[t])
          \/ Leads(t, "fault", ret[t], held[t])
          \/ /\ Leads(t, "i2c_transfer", ret[t], held[t] \cup Buffers(t))
             /\ Op(t) = "i2c_receive" \/ req[t].alen <= MaxAddrLen
      BY <1>0, <2>4, Leading DEF I2cPrepare
    <3>3. Sendable(t)' /\ ~Holding(t)'
      BY <3>2 DEF Leads, Within, AfterFree, Sendable, Holding, Op
    <3> QED
      BY <1>3, <1>7, <3>1, <3>3
  <2>5. CASE I2cFreeBuffers(t)
    <3>1. pc[t] = "i2c_free" /\ slave' = slave /\ out' = out /\ partial' = partial
      BY <2>5 DEF I2cFreeBuffers, i2c
    <3>2. Within(t, AfterFree(t)) /\ ret' = ret
      BY <1>0, <2>5, Leading DEF I2cFreeBuffers, Give, Goto, Leads
    <3>3. (Holding(t)' => Holding(t)) /\ pc'[t] # "i2c_transfer"
      BY <3>1, <3>2 DEF Within, AfterFree, Holding, Op
    <3> QED
      BY <1>5, <1>7, <3>1, <3>2, <3>3 DEF Within
  <2>6. CASE I2cClose(t)
    <3>1. pc[t] = "i2c_close" /\ slave' = slave /\ out' = out /\ partial' = partial
      BY <2>6 DEF I2cClose, i2c
    <3>2. Within(t, AfterClose(t)) /\ ret' = ret
      BY <1>0, <2>6, Leading DEF I2cClose, Closes
    <3>3. (Holding(t)' => Holding(t)) /\ pc'[t] # "i2c_transfer"
      BY <3>1, <3>2 DEF Within, AfterClose, Holding, Op, IsWrite
    <3> QED
      BY <1>5, <1>7, <3>1, <3>2, <3>3 DEF Within
  <2>7. CASE I2cReturn(t)
    <3>1. pc'[t] = "idle" /\ slave' = slave /\ out' = [out EXCEPT ![t] = NoBlock] /\ partial' = partial \ {t}
      BY <1>0, <2>7, Returning DEF I2cReturn, IdleAt
    <3>2. out \in [Threads -> [I2cPlaces -> Values \cup {Zero, Blank, Garbage}]] /\ slave \in [Buses -> SlaveType]
      BY <1>0 DEF I2cTypeOK, SlaveType
    <3>3. NoBlock \in [I2cPlaces -> Values \cup {Zero, Blank, Garbage}]
      BY DEF NoBlock
    <3>4. /\ out' \in [Threads -> [I2cPlaces -> Values \cup {Zero, Blank, Garbage}]]
          /\ \A u \in Threads \ {t} : out'[u] = out[u]
      BY <3>1, <3>2, <3>3
    <3>5. Sendable(t)' /\ ~Holding(t)'
      BY <3>1 DEF Sendable, Holding
    <3>6. partial' \subseteq Threads /\ \A u \in Threads \ {t} : u \in partial' <=> u \in partial
      BY <1>0, <3>1 DEF I2cTypeOK
    <3> QED
      BY <1>2, <1>7, <3>1, <3>2, <3>4, <3>5, <3>6
  <2> QED
    BY <1>6, <1>7, <2>1, <2>2, <2>3, <2>4, <2>5, <2>6, <2>7 DEF I2cNext
<1>8. ASSUME NEW t \in Threads, UNCHANGED i2c, OnlyMoves(t), Locks(t), IdleAt(t)' \/ DmaAt(t)' \/ PcieAt(t)' \/ SysAt(t)'
      PROVE  TransferInv'
  <2>1. pc'[t] \notin {"i2c_transfer", "i2c_free", "i2c_unlock", "i2c_close"}
    BY <1>8 DEF IdleAt, DmaAt, PcieAt, SysAt, DmaPcs, PciePcs, HotPcs, BusPcs, UpPcs, GidPcs, SysPcs, Ends
  <2> QED
    BY <1>4, <1>8, <2>1 DEF i2c
<1>9. ASSUME NEW t \in Threads, Step(t), OnlyMoves(t), Locks(t) PROVE TransferInv'
  BY <1>7, <1>8, <1>9, DmaSteps, PcieSteps, SysSteps DEF Step
<1>10. UNCHANGED <<process, i2c, handles>> => UNCHANGED <<process, i2c>>
  OBVIOUS
<1> QED
  BY <1>1, <1>9, <1>10, Stepping

\* The devices and the callers' buffers, at any time.
LEMMA TransferInvariant == Spec => []TransferInv
BY TransferInit, TransferNext, OneTransferAtATime, CallsPlaced, PTL DEF Spec

\* While a call that has succeeded has the lock of I2C, the device holds what
\* the call wrote, or the caller has what the device holds, at the address that
\* was sent and in full, whatever other threads do on this and the other buses.
THEOREM TransfersArrive == Spec => []I2cTransfers
<1>1. TransferInv => I2cTransfers
  BY DEF TransferInv, I2cTransfers, Transferred, Holding, Arrived
<1> QED
  BY <1>1, TransferInvariant, PTL

----------------------------------------------------------------------------
(* The lists of the DMA engine and of its proxy. *)

\* A list that is on its way to a driver has passed the check.
Passed(t) == pc[t] = "proxy_ioctl" \/ (pc[t] = "dma_ask" /\ Op(t) = "dma_init")
                                   \/ (pc[t] = "dma_map" /\ Op(t) # "proxy_addr")
ListsFit == \A c \in Channels : \A list \in {args[c], running[c]} \ {NoArgs} : Fits(list, EngineLen)
CheckedInv ==
    /\ args \in [Channels -> Seq(Nat) \cup {NoArgs}] /\ running \in [Channels -> Seq(Nat) \cup {NoArgs}]
    /\ ListsFit
    /\ \A t \in Threads : Passed(t) => ~Refused(req[t])

\* The lengths of a list add up to a natural number.
LEMMA TotalNatural ==
    ASSUME NEW list \in Seq(Nat)
    PROVE  Total(list) \in Nat
<1>1. list \in [1 .. Len(list) -> Nat] /\ Len(list) \in Nat
  OBVIOUS
<1>2. IsFiniteSet(1 .. Len(list))
  BY <1>1, FS_Interval
<1> QED
  BY <1>1, <1>2, SumNatural DEF Total

\* A list that is not refused fits.
LEMMA NotRefusedFits ==
    ASSUME NEW r \in DmaRequest, ~Refused(r)
    PROVE  Fits(r.list, Limit(r.op))
<1>1. Total(r.list) \in Nat
  BY TotalNatural DEF DmaRequest
<1>2. Total(r.list) < WordMod => Total(r.list) % WordMod = Total(r.list)
  BY <1>1, SmallMod, DmaAssumption
<1>3. Len(r.list) \in Nat /\ MaxBlock \in Nat /\ Limit(r.op) \in Nat
  BY DmaAssumption DEF DmaRequest, Limit
<1>4. Len(r.list) <= MaxBlock /\ Summed(r) <= Limit(r.op)
  BY <1>1, <1>3, DmaAssumption DEF Refused, Summed
<1> QED
  BY <1>2, <1>4 DEF Fits, Summed

\* At first no driver has a list.
LEMMA CheckedInit == Init => CheckedInv
BY DEF Init, ProcessInit, DmaInit, CheckedInv, ListsFit, Passed

\* A list gets to a driver, or on its way to one, only by the check.
LEMMA CheckedNext ==
    ASSUME CallInv, CheckedInv, [Next]_vars
    PROVE  CheckedInv'
<1>0. ProcessType /\ \A t \in Threads : CallAt(t)
  BY DEF CallInv
<1>1. CASE UNCHANGED <<process, dma>>
  BY <1>1 DEF process, dma, CheckedInv, ListsFit, Passed, Op
<1>2. ASSUME NEW t \in Threads, OnlyMoves(t), args' = args, running' = running,
             Passed(t)' => ~Refused(req[t])' 
      PROVE  CheckedInv'
  <2>1. \A u \in Threads \ {t} : Passed(u)' = Passed(u) /\ Refused(req[u])' = Refused(req[u])
    BY <1>0, <1>2, Resting DEF Passed, Op, Refused, Summed, Limit, Device
  <2> QED
    BY <1>2, <2>1 DEF CheckedInv, ListsFit
<1>3. ASSUME NEW t \in Threads, DmaNext(t) PROVE CheckedInv'
  <2>1. OnlyMoves(t)
    BY <1>3, DmaSteps
  <2>2. CASE DmaCall(t)
    <3>1. PICK r \in calls : Begin(t, r, FirstDma(r.op))
      BY <2>2 DEF DmaCall
    <3>2. pc'[t] = FirstDma(r.op) /\ Op(t)' = r.op
      BY <1>0, <3>1, Beginning DEF Op
    <3>3. ~Passed(t)'
      BY <3>2 DEF Passed, FirstDma
    <3> QED
      BY <1>2, <2>1, <2>2, <3>3 DEF DmaCall, dma
  <2>3. CASE DmaCheck(t)
    <3>1. pc'[t] = "return" \/ (~Refused(req[t]) /\ req' = req)
      BY <1>0, <2>3, Leading DEF DmaCheck, Leads, Within
    <3>2. pc'[t] = "return" => ~Passed(t)'
      BY DEF Passed
    <3> QED
      BY <1>2, <2>1, <2>3, <3>1, <3>2 DEF DmaCheck, dma, Refused, Summed, Limit, Device
  <2>4. CASE DmaMap(t)
    <3>1. pc[t] = "dma_map" /\ req' = req
      BY <1>0, <2>4, Leading DEF DmaMap, Leads, Within
    <3>2. pc'[t] = "return" \/ (Op(t) # "proxy_addr" /\ pc'[t] = "proxy_ioctl")
      BY <1>0, <2>4, Leading DEF DmaMap, Leads, Within
    <3>3. pc'[t] = "return" => ~Passed(t)'
      BY DEF Passed
    <3>4. Op(t) # "proxy_addr" => ~Refused(req[t])
      BY <3>1 DEF CheckedInv, Passed
    <3> QED
      BY <1>2, <2>1, <2>4, <3>1, <3>2, <3>3, <3>4 DEF DmaMap, dma, Refused, Summed, Limit, Device
  <2>5. CASE DmaAsk(t)
    <3>1. pc[t] = "dma_ask" /\ DmaAt(t) /\ req[t] \in DmaRequest
      BY <1>0, <2>5, Whose DEF DmaAsk, DmaPcs, DmaAt
    <3>2. pc'[t] \in {"return", "mem_open"}
      BY <1>0, <2>5, Leading DEF DmaAsk, Leads, Within
    <3>3. ~Passed(t)'
      BY <3>2 DEF Passed
    <3>4. CASE args' = args /\ running' = running
      BY <1>2, <2>1, <3>3, <3>4
    <3>5. CheckedInv' <=> args' \in [Channels -> Seq(Nat) \cup {NoArgs}] /\
                          running' \in [Channels -> Seq(Nat) \cup {NoArgs}] /\ ListsFit'
      <4>1. \A u \in Threads \ {t} : Passed(u)' = Passed(u) /\ Refused(req[u])' = Refused(req[u])
        BY <1>0, <2>1, Resting DEF Passed, Op, Refused, Summed, Limit, Device
      <4> QED
        BY <3>3, <4>1 DEF CheckedInv
    <3>6. CASE /\ Op(t) = "dma_init" /\ req[t].ch \in Channels /\ running' = running
               /\ args' = [args EXCEPT ![req[t].ch] = req[t].list]
      <4>1. Fits(req[t].list, EngineLen)
        BY <3>1, <3>6, NotRefusedFits DEF CheckedInv, Passed, Limit, Device, Op, ProxyOps
      <4>2. req[t].list \in Seq(Nat)
        BY <3>1 DEF DmaRequest
      <4>3. \A c \in Channels : args'[c] \in {args[c], req[t].list} /\ running'[c] = running[c]
        BY <3>6 DEF CheckedInv
      <4>4. ListsFit'
        BY <4>1, <4>3 DEF CheckedInv, ListsFit, Fits
      <4> QED
        BY <3>5, <3>6, <4>2, <4>4 DEF CheckedInv
    <3>7. CASE /\ req[t].ch \in Channels /\ args' = args
               /\ running' = [running EXCEPT ![req[t].ch] = args[req[t].ch]]
      <4>1. \A c \in Channels : running'[c] \in {running[c], args[c]} /\ args'[c] = args[c]
        BY <3>7 DEF CheckedInv
      <4>2. ListsFit'
        BY <4>1 DEF CheckedInv, ListsFit, Fits
      <4> QED
        BY <3>5, <3>7, <4>2 DEF CheckedInv
    <3> QED
      BY <2>5, <3>4, <3>6, <3>7 DEF DmaAsk
  <2>6. CASE /\ args' = args /\ running' = running
             /\ pc'[t] \in {"idle", "return", "mem_map", "mem_close", "print_close", "proxy_status", "proxy_unmap"}
    <3>1. ~Passed(t)'
      BY <2>6 DEF Passed
    <3> QED
      BY <1>2, <2>1, <2>6, <3>1
  <2>7. CASE DmaOpen(t) \/ MemOpen(t) \/ PrintOpen(t)
    <3>1. args' = args /\ running' = running
      BY <2>7 DEF DmaOpen, MemOpen, PrintOpen, dma
    <3>2. pc'[t] \in {"return", "mem_map", "print_close"}
      BY <1>0, <2>7, Leading DEF DmaOpen, MemOpen, PrintOpen, Opens, Fails, Within
    <3> QED
      BY <2>6, <3>1, <3>2
  <2>9. CASE DmaClose(t) \/ MemMap(t) \/ MemClose(t) \/ PrintClose(t)
    <3>1. args' = args /\ running' = running
      BY <2>9 DEF DmaClose, MemMap, MemClose, PrintClose, dma
    <3>2. pc'[t] \in {"return", "mem_close"}
      BY <1>0, <2>9, Leading DEF DmaClose, MemMap, MemClose, PrintClose, Leads, Closes, Within
    <3> QED
      BY <2>6, <3>1, <3>2
  <2>8. CASE ProxyIoctl(t) \/ ProxyStatus(t) \/ ProxyUnmap(t) \/ DmaReturn(t)
    <3>1. args' = args /\ running' = running
      BY <2>8 DEF ProxyIoctl, ProxyStatus, ProxyUnmap, DmaReturn, dma
    <3>2. pc'[t] \in {"idle", "return", "proxy_status", "proxy_unmap"}
      BY <1>0, <2>8, Leading, Returning DEF ProxyIoctl, ProxyStatus, ProxyUnmap, DmaReturn, Leads, Within, IdleAt
    <3> QED
      BY <2>6, <3>1, <3>2
  <2> QED
    BY <1>3, <2>2, <2>3, <2>4, <2>5, <2>7, <2>8, <2>9 DEF DmaNext
<1>4. ASSUME NEW t \in Threads, UNCHANGED dma, OnlyMoves(t),
             IdleAt(t)' \/ I2cAt(t)' \/ PcieAt(t)' \/ SysAt(t)'
      PROVE  CheckedInv'
  <2>1. ~Passed(t)'
    BY <1>4 DEF Passed, IdleAt, I2cAt, PcieAt, SysAt, I2cPcs, PciePcs, HotPcs, BusPcs, UpPcs, GidPcs, SysPcs, Ends
  <2> QED
    BY <1>2, <1>4, <2>1 DEF dma
<1>5. ASSUME NEW t \in Threads, Step(t) PROVE CheckedInv'
  BY <1>3, <1>4, <1>5, I2cSteps, PcieSteps, SysSteps DEF Step
<1> QED
  BY <1>1, <1>5 DEF Next, vars, SerdesReady

\* A list that has passed the check fits.
LEMMA CheckedFits == CallInv /\ CheckedInv => DmaFits
<1> SUFFICES ASSUME CallInv, CheckedInv PROVE DmaFits
  OBVIOUS
<1>1. ASSUME NEW t \in Threads, pc[t] = "proxy_ioctl" PROVE Fits(req[t].list, ProxyLen)
  <2>1. DmaAt(t)
    BY <1>1, Whose DEF CallInv, DmaPcs
  <2>2. Limit(Op(t)) = ProxyLen
    BY <1>1, <2>1 DEF DmaAt, Limit, Device, ProxyOps
  <2> QED
    BY <1>1, <2>1, <2>2, NotRefusedFits DEF CheckedInv, Passed, DmaAt, Op
<1> QED
  BY <1>1 DEF DmaFits, CheckedInv, ListsFit

\* Every list that the DMA engine is given or runs, and every list that goes to
\* its proxy, has at most as many blocks as it may, and its lengths add up to no
\* more than its buffer, unless the sum does not fit in 32 bits.
THEOREM ListsChecked == Spec => []DmaFits
<1>1. CallInv /\ CheckedInv /\ [Next]_vars => CheckedInv'
  BY CheckedNext
<1> QED
  BY <1>1, CheckedFits, CallsPlaced, CheckedInit, PTL DEF Spec

----------------------------------------------------------------------------
(* The controllers of PCI Express. *)

Resets == {"hot_read", "hot_set", "hot_clear"}
HotInv ==
    /\ ctrl \in [Controllers -> Word] /\ copy \in [Threads -> Word]
    /\ \A t \in Threads : copy[t].rest
    /\ \A t \in Threads : pc[t] \in Resets => req[t].num \in Controllers
    /\ HotResetEnds

\* A step within a call keeps its request.
LEMMA BusGidKeep ==
    ASSUME ProcessType, NEW t \in Threads, Bus(t) \/ Gid(t)
    PROVE  req'[t] = req[t]
BY Leading DEF Bus, Gid, BusOpen, BusIoctl, BusClose, GidInit, GidMap, GidMutex, GidExit, GidClose,
               Leads, Opens, Fails, Closes, Within

\* A step of the bring-up keeps its request.
LEMMA BringUpKeeps ==
    ASSUME ProcessType, NEW t \in Threads, BringUp(t)
    PROVE  req'[t] = req[t]
BY Leading DEF BringUp, UpOpen, UpMap, UpSerdes, UpPoll, UpCoreOff, UpCoreOn, UpWindows, UpMaster, UpLink,
               UpUnmap, UpClose, Leads, Opens, Fails, Closes, Within

\* At first no controller is in reset.
LEMMA HotInit == Init => HotInv
BY DEF Init, ProcessInit, PcieInit, HotInv, HotResetEnds, Idle, Word, Resets

\* A copy of a register may have the reset bit, but never other bits than those
\* of the register, and the thread that has written one with the bit clears it.
LEMMA HotNext == CallInv /\ HotInv /\ [Next]_vars => HotInv'
<1> SUFFICES ASSUME CallInv, HotInv, [Next]_vars PROVE HotInv'
  OBVIOUS
<1>0. ProcessType /\ \A t \in Threads : CallAt(t)
  BY DEF CallInv
<1>1. CASE UNCHANGED <<process, ctrl, copy>>
  BY <1>1 DEF process, HotInv, HotResetEnds, Resets
<1>2. ASSUME NEW t \in Threads, OnlyMoves(t), ctrl' = ctrl, copy' = copy, pc[t] # "hot_clear",
             pc'[t] \in Resets => req'[t].num \in Controllers
      PROVE  HotInv'
  <2>1. \A u \in Threads \ {t} : pc'[u] = pc[u] /\ req'[u] = req[u]
    BY <1>0, <1>2, Resting
  <2> QED
    BY <1>2, <2>1 DEF HotInv, HotResetEnds
<1>3. ASSUME NEW t \in Threads, HotReset(t), OnlyMoves(t) PROVE HotInv'
  <2>0. \A u \in Threads \ {t} : pc'[u] = pc[u] /\ req'[u] = req[u]
    BY <1>0, <1>3, Resting
  <2>1. CASE HotCheck(t)
    <3>1. pc[t] = "hot_check" /\ ctrl' = ctrl /\ copy' = copy
      BY <2>1 DEF HotCheck, pcie
    <3>2. pc'[t] = "return" \/ (req[t].num \in Controllers /\ req' = req)
      BY <1>0, <2>1, Leading DEF HotCheck, Leads, Within
    <3> QED
      BY <1>2, <1>3, <3>1, <3>2 DEF Resets
  <2>2. CASE HotRead(t)
    <3>1. pc[t] = "hot_read" /\ pc'[t] = "hot_set" /\ req' = req
      BY <1>0, <2>2, Leading DEF HotRead, Leads, Within
    <3>2. ctrl[req[t].num] \in Word /\ ctrl[req[t].num].rest
      BY <3>1 DEF HotInv, HotResetEnds, Resets
    <3>3. ctrl' = ctrl /\ copy' = [copy EXCEPT ![t] = ctrl[req[t].num]]
      BY <2>2 DEF HotRead
    <3>4. copy' \in [Threads -> Word] /\ \A u \in Threads : copy'[u].rest
      BY <3>2, <3>3 DEF HotInv
    <3>5. \A u \in Threads : pc'[u] \in Resets => req'[u].num \in Controllers
      BY <2>0, <3>1 DEF HotInv, Resets
    <3>6. HotResetEnds'
      BY <2>0, <3>1, <3>3 DEF HotInv, HotResetEnds
    <3> QED
      BY <3>3, <3>4, <3>5, <3>6 DEF HotInv
  <2>3. CASE HotSet(t)
    <3>1. pc[t] = "hot_set" /\ pc'[t] = "hot_clear" /\ req' = req
      BY <1>0, <2>3, Leading DEF HotSet, Leads, Within
    <3>2. req[t].num \in Controllers /\ copy[t] \in Word /\ copy[t].rest
      BY <3>1 DEF HotInv, Resets
    <3>3. /\ copy' = [copy EXCEPT ![t].hot = TRUE]
          /\ ctrl' = [ctrl EXCEPT ![req[t].num] = copy'[t]]
      BY <2>3 DEF HotSet
    <3>4. copy'[t] \in Word /\ copy'[t].rest
      BY <3>2, <3>3 DEF HotInv, Word
    <3>5. copy' \in [Threads -> Word] /\ \A u \in Threads : copy'[u].rest
      BY <3>3, <3>4 DEF HotInv
    <3>6. ctrl' \in [Controllers -> Word]
      BY <3>2, <3>3, <3>4 DEF HotInv
    <3>7. \A u \in Threads : pc'[u] \in Resets => req'[u].num \in Controllers
      BY <2>0, <3>1, <3>2 DEF HotInv, Resets
    <3>8. HotResetEnds'
      BY <2>0, <3>1, <3>2, <3>3, <3>4 DEF HotInv, HotResetEnds
    <3> QED
      BY <3>5, <3>6, <3>7, <3>8 DEF HotInv
  <2>4. CASE HotClear(t)
    <3>1. pc[t] = "hot_clear" /\ pc'[t] = "return" /\ req' = req
      BY <1>0, <2>4, Leading DEF HotClear, Leads, Within
    <3>2. req[t].num \in Controllers /\ copy[t] \in Word /\ copy[t].rest
      BY <3>1 DEF HotInv, Resets
    <3>3. /\ copy' = [copy EXCEPT ![t] = Idle]
          /\ ctrl' = [ctrl EXCEPT ![req[t].num] = ClearsBit(copy[t])]
      BY <2>4 DEF HotClear
    <3>4. ClearsBit(copy[t]) \in Word /\ ClearsBit(copy[t]).rest /\ ~ClearsBit(copy[t]).hot
      BY <3>2 DEF ClearsBit, Word
    <3>5. copy' \in [Threads -> Word] /\ \A u \in Threads : copy'[u].rest
      BY <3>3 DEF HotInv, Idle, Word
    <3>6. ctrl' \in [Controllers -> Word]
      BY <3>2, <3>3, <3>4 DEF HotInv
    <3>7. \A u \in Threads : pc'[u] \in Resets => req'[u].num \in Controllers
      BY <2>0, <3>1 DEF HotInv, Resets
    <3>8. HotResetEnds'
      BY <2>0, <3>1, <3>2, <3>3, <3>4 DEF HotInv, HotResetEnds
    <3> QED
      BY <3>5, <3>6, <3>7, <3>8 DEF HotInv
  <2> QED
    BY <1>3, <2>1, <2>2, <2>3, <2>4 DEF HotReset
<1>4. ASSUME NEW t \in Threads, OnlyMoves(t), ctrl' = ctrl, copy' = copy, pc[t] # "hot_clear",
             pc'[t] \notin Resets
      PROVE  HotInv'
  BY <1>2, <1>4
<1>5. ASSUME NEW t \in Threads, PcieNext(t), OnlyMoves(t), ~HotReset(t) PROVE HotInv'
  <2>1. CASE PcieCall(t)
    <3>1. PICK r \in calls : Begin(t, r, FirstPcie(r.op)) /\ UNCHANGED pcie
      BY <2>1 DEF PcieCall
    <3>2. pc[t] = "idle" /\ pc'[t] = FirstPcie(r.op)
      BY <1>0, <3>1, Beginning
    <3>3. FirstPcie(r.op) \notin Resets
      BY DEF FirstPcie, Resets
    <3> QED
      BY <1>4, <1>5, <3>1, <3>2, <3>3 DEF pcie
  <2>2. CASE PcieReturn(t)
    <3>1. pc[t] = "return" /\ pc'[t] = "idle"
      BY <1>0, <2>2, Returning DEF PcieReturn, IdleAt
    <3> QED
      BY <1>4, <1>5, <2>2, <3>1 DEF PcieReturn, pcie, Resets
  <2>3. CASE Bus(t) \/ Gid(t)
    <3>1. pc[t] \in BusPcs \cup GidPcs /\ ctrl' = ctrl /\ copy' = copy
      BY <2>3 DEF Bus, Gid, BusOpen, BusIoctl, BusClose, GidInit, GidMap, GidMutex, GidExit, GidClose, BusPcs, GidPcs, pcie
    <3>2. PcieAt(t) /\ (IdleAt(t)' \/ PcieAt(t)') /\ req'[t] = req[t]
      BY <1>0, <1>5, <2>3, <3>1, PcieSteps, Whose, BusGidKeep DEF PciePcs
    <3>3. pc'[t] \notin Resets
      BY <3>1, <3>2 DEF PcieAt, IdleAt, BusPcs, GidPcs, Resets, HotPcs, Op
    <3> QED
      BY <1>4, <1>5, <3>1, <3>3 DEF BusPcs, GidPcs
  <2>4. CASE BringUp(t)
    <3>1. pc[t] \in UpPcs /\ ctrl' = ctrl /\ copy' = copy
      BY <2>4 DEF BringUp, UpOpen, UpMap, UpSerdes, UpPoll, UpCoreOff, UpCoreOn, UpWindows, UpMaster, UpLink,
                  UpUnmap, UpClose, UpPcs, pcie
    <3>2. PcieAt(t) /\ (IdleAt(t)' \/ PcieAt(t)') /\ req'[t] = req[t]
      BY <1>0, <1>5, <2>4, <3>1, PcieSteps, Whose, BringUpKeeps DEF PciePcs
    <3>3. pc'[t] \notin Resets
      BY <3>1, <3>2 DEF PcieAt, IdleAt, Resets, HotPcs, Op
    <3> QED
      BY <1>4, <1>5, <3>1, <3>3 DEF UpPcs
  <2> QED
    BY <1>5, <2>1, <2>2, <2>3, <2>4 DEF PcieNext
<1>6. ASSUME NEW t \in Threads, UNCHANGED pcie, OnlyMoves(t), IdleAt(t) \/ I2cAt(t) \/ DmaAt(t) \/ SysAt(t),
             IdleAt(t)' \/ I2cAt(t)' \/ DmaAt(t)' \/ SysAt(t)'
      PROVE  HotInv'
  <2>1. pc[t] # "hot_clear" /\ pc'[t] \notin Resets
    BY <1>6 DEF Resets, IdleAt, I2cAt, DmaAt, SysAt, I2cPcs, DmaPcs, SysPcs, Ends
  <2> QED
    BY <1>4, <1>6, <2>1 DEF pcie
<1>7. ASSUME NEW t \in Threads, Step(t) PROVE HotInv'
  BY <1>3, <1>5, <1>6, <1>7, I2cSteps, DmaSteps, PcieSteps, SysSteps DEF Step
<1> QED
  BY <1>1, <1>7 DEF Next, vars, SerdesReady, pcie

\* Hot resets, also several of one controller at once, end with the controller
\* out of reset and with the other bits of its register untouched, though each
\* thread writes back a copy that it has read before others wrote.
THEOREM HotResetsEnd == Spec => []HotResetEnds
<1>1. HotInv => HotResetEnds
  BY DEF HotInv
<1> QED
  BY <1>1, HotInit, HotNext, CallsPlaced, PTL DEF Spec

\* How far the bring-up has got, and what it has done to the controller of
\* MPC8308 by then.
AfterPoll    == {"up_core_off", "up_core_on", "up_windows", "up_master", "up_link", "up_unmap", "up_close"}
AfterCore    == AfterPoll \ {"up_core_off", "up_core_on"}
AfterWindows == AfterCore \ {"up_windows"}
AfterMaster  == AfterWindows \ {"up_master"}
Configured == bridge = [serdes |-> "ready", core |-> TRUE, windows |-> TRUE, master |-> TRUE]
BridgeType == bridge \in [serdes : {"off", "starting", "ready"}, core : BOOLEAN, windows : BOOLEAN,
                          master : BOOLEAN]
BridgeAt(t) ==
    /\ pc[t] \in AfterPoll => bridge.serdes = "ready"
    /\ pc[t] \in AfterCore => bridge.core
    /\ pc[t] \in AfterWindows => bridge.windows
    /\ pc[t] \in AfterMaster => bridge.master
    /\ pc[t] = "return" /\ ret[t] = 0 => Configured
BridgeInv ==
    /\ BridgeType
    /\ \A t, u \in Threads : Op(t) = "bring_up" /\ Op(u) = "bring_up" => u = t
    /\ \A t \in Threads : Op(t) = "bring_up" => BridgeAt(t)

\* At first nobody brings up the controller.
LEMMA BridgeInit == Init => BridgeInv
BY DEF Init, ProcessInit, PcieInit, PowerOn, BridgeInv, BridgeType, Op, NoCall

\* Each write of the bring-up to the controller adds to what the ones before it
\* have done; only the reset of the core undoes any of it.
LEMMA BringUpBridge ==
    ASSUME CallInv, BridgeType, NEW t \in Threads, BringUp(t), BridgeAt(t)
    PROVE  BridgeType' /\ BridgeAt(t)' /\ Op(t) = "bring_up"
<1>1. ProcessType /\ CallAt(t)
  BY DEF CallInv
<1>2. CASE UpOpen(t)
  <2>1. pc[t] = "up_open" /\ Op(t) = "bring_up" /\ ret[t] = 0 /\ bridge' = bridge
    BY <1>1, <1>2, Whose DEF UpOpen, PciePcs, UpPcs, PcieAt, pcie
  <2>2. \/ Opens(t, "mem", "up_map")
        \/ Fails(t, "return")
    BY <1>1, <1>2, Leading DEF UpOpen
  <2> QED
    BY <2>1, <2>2 DEF BridgeType, BridgeAt, AfterMaster, AfterWindows, AfterCore, AfterPoll, Configured, Within,
       Opens, Fails
<1>3. CASE UpMap(t)
  <2>1. pc[t] = "up_map" /\ Op(t) = "bring_up" /\ ret[t] = 0 /\ bridge' = bridge
    BY <1>1, <1>3, Whose DEF UpMap, PciePcs, UpPcs, PcieAt, pcie
  <2>2. \/ Leads(t, "up_serdes", ret[t], held[t] \cup {"map"})
        \/ Leads(t, "return", -1, held[t])
    BY <1>1, <1>3, Leading DEF UpMap
  <2> QED
    BY <2>1, <2>2 DEF BridgeType, BridgeAt, AfterMaster, AfterWindows, AfterCore, AfterPoll, Configured, Within,
       Leads
<1>4. CASE UpSerdes(t)
  <2>1. pc[t] = "up_serdes" /\ Op(t) = "bring_up" /\ ret[t] = 0
    BY <1>1, <1>4, Whose DEF UpSerdes, PciePcs, UpPcs, PcieAt
  <2>2. Leads(t, "up_poll", ret[t], held[t])
    BY <1>1, <1>4, Leading DEF UpSerdes
  <2>3. BridgeType' /\ (TRUE)
    BY <1>4 DEF UpSerdes, BridgeType
  <2> QED
    BY <2>1, <2>2, <2>3 DEF BridgeAt, AfterMaster, AfterWindows, AfterCore, AfterPoll, Within, Leads
<1>5. CASE UpPoll(t)
  <2>1. pc[t] = "up_poll" /\ Op(t) = "bring_up" /\ ret[t] = 0 /\ bridge' = bridge
    BY <1>1, <1>5, Whose DEF UpPoll, PciePcs, UpPcs, PcieAt
  <2>2. \/ PollOver(t) /\ Leads(t, "up_core_off", ret[t], held[t])
        \/ Leads(t, "return", -1, held[t])
        \/ Leads(t, "up_poll", ret[t], held[t])
    BY <1>1, <1>5, Leading DEF UpPoll
  <2> QED
    BY <2>1, <2>2 DEF BridgeType, BridgeAt, AfterMaster, AfterWindows, AfterCore, AfterPoll, Configured, Within,
       Leads, PollOver
<1>6. CASE UpCoreOff(t)
  <2>1. pc[t] = "up_core_off" /\ Op(t) = "bring_up" /\ ret[t] = 0
    BY <1>1, <1>6, Whose DEF UpCoreOff, PciePcs, UpPcs, PcieAt
  <2>2. Leads(t, "up_core_on", ret[t], held[t])
    BY <1>1, <1>6, Leading DEF UpCoreOff
  <2>3. BridgeType' /\ (bridge'.serdes = bridge.serdes)
    BY <1>6 DEF UpCoreOff, BridgeType
  <2> QED
    BY <2>1, <2>2, <2>3 DEF BridgeAt, AfterMaster, AfterWindows, AfterCore, AfterPoll, Within, Leads
<1>7. CASE UpCoreOn(t)
  <2>1. pc[t] = "up_core_on" /\ Op(t) = "bring_up" /\ ret[t] = 0
    BY <1>1, <1>7, Whose DEF UpCoreOn, PciePcs, UpPcs, PcieAt
  <2>2. Leads(t, "up_windows", ret[t], held[t])
    BY <1>1, <1>7, Leading DEF UpCoreOn
  <2>3. BridgeType' /\ (bridge'.serdes = bridge.serdes /\ bridge'.core)
    BY <1>7 DEF UpCoreOn, BridgeType
  <2> QED
    BY <2>1, <2>2, <2>3 DEF BridgeAt, AfterMaster, AfterWindows, AfterCore, AfterPoll, Within, Leads
<1>8. CASE UpWindows(t)
  <2>1. pc[t] = "up_windows" /\ Op(t) = "bring_up" /\ ret[t] = 0
    BY <1>1, <1>8, Whose DEF UpWindows, PciePcs, UpPcs, PcieAt
  <2>2. Leads(t, "up_master", ret[t], held[t])
    BY <1>1, <1>8, Leading DEF UpWindows
  <2>3. BridgeType' /\ (bridge'.serdes = bridge.serdes /\ bridge'.core = bridge.core /\ (bridge.core => bridge'.windows))
    BY <1>8 DEF UpWindows, BridgeType
  <2> QED
    BY <2>1, <2>2, <2>3 DEF BridgeAt, AfterMaster, AfterWindows, AfterCore, AfterPoll, Within, Leads
<1>9. CASE UpMaster(t)
  <2>1. pc[t] = "up_master" /\ Op(t) = "bring_up" /\ ret[t] = 0
    BY <1>1, <1>9, Whose DEF UpMaster, PciePcs, UpPcs, PcieAt
  <2>2. Leads(t, "up_link", ret[t], held[t])
    BY <1>1, <1>9, Leading DEF UpMaster
  <2>3. BridgeType' /\ (bridge'.serdes = bridge.serdes /\ bridge'.core = bridge.core /\ bridge'.windows = bridge.windows /\ (bridge.core => bridge'.master))
    BY <1>9 DEF UpMaster, BridgeType
  <2> QED
    BY <2>1, <2>2, <2>3 DEF BridgeAt, AfterMaster, AfterWindows, AfterCore, AfterPoll, Within, Leads
<1>10. CASE UpLink(t)
  <2>1. pc[t] = "up_link" /\ Op(t) = "bring_up" /\ ret[t] = 0 /\ bridge' = bridge
    BY <1>1, <1>10, Whose DEF UpLink, PciePcs, UpPcs, PcieAt, pcie
  <2>2. \/ Leads(t, "up_unmap", ret[t], held[t])
        \/ Leads(t, "return", -1, held[t])
    BY <1>1, <1>10, Leading DEF UpLink
  <2> QED
    BY <2>1, <2>2 DEF BridgeType, BridgeAt, AfterMaster, AfterWindows, AfterCore, AfterPoll, Configured, Within,
       Leads
<1>11. CASE UpUnmap(t)
  <2>1. pc[t] = "up_unmap" /\ Op(t) = "bring_up" /\ ret[t] = 0 /\ bridge' = bridge
    BY <1>1, <1>11, Whose DEF UpUnmap, PciePcs, UpPcs, PcieAt, pcie
  <2>2. \/ Leads(t, "up_close", ret[t], held[t] \ {"map"})
        \/ Leads(t, "up_close", ret[t], held[t])
    BY <1>1, <1>11, Leading DEF UpUnmap
  <2> QED
    BY <2>1, <2>2 DEF BridgeType, BridgeAt, AfterMaster, AfterWindows, AfterCore, AfterPoll, Configured, Within,
       Leads
<1>12. CASE UpClose(t)
  <2>1. pc[t] = "up_close" /\ Op(t) = "bring_up" /\ ret[t] = 0 /\ bridge' = bridge
    BY <1>1, <1>12, Whose DEF UpClose, PciePcs, UpPcs, PcieAt, pcie
  <2>2. Closes(t, "mem", "return")
    BY <1>1, <1>12, Leading DEF UpClose
  <2> QED
    BY <2>1, <2>2 DEF BridgeType, BridgeAt, AfterMaster, AfterWindows, AfterCore, AfterPoll, Configured, Within,
       Closes
<1> QED
  BY <1>2, <1>3, <1>4, <1>5, <1>6, <1>7, <1>8, <1>9, <1>10, <1>11, <1>12 DEF BringUp

\* Only the one bring-up that runs, and the SerDes itself, change the controller.
LEMMA BridgeNext == CallInv /\ BridgeInv /\ [Next]_vars => BridgeInv'
<1> SUFFICES ASSUME CallInv, BridgeInv, [Next]_vars PROVE BridgeInv'
  OBVIOUS
<1>0. ProcessType /\ \A t \in Threads : CallAt(t)
  BY DEF CallInv
<1>1. CASE UNCHANGED <<process, bridge>>
  BY <1>1 DEF process, BridgeInv, BridgeType, BridgeAt, Configured, Op
<1>2. ASSUME NEW t \in Threads, OnlyMoves(t), bridge' = bridge, Op(t)' # "bring_up" PROVE BridgeInv'
  <2>1. \A u \in Threads \ {t} : pc'[u] = pc[u] /\ req'[u] = req[u] /\ ret'[u] = ret[u]
    BY <1>0, <1>2, Resting
  <2> QED
    BY <1>2, <2>1 DEF BridgeInv, BridgeType, BridgeAt, Configured, Op
<1>3. ASSUME NEW t \in Threads, OnlyMoves(t), Op(t)' = "bring_up", BridgeType', BridgeAt(t)',
             \A u \in Threads \ {t} : Op(u) # "bring_up"
      PROVE  BridgeInv'
  <2>1. \A u \in Threads \ {t} : req'[u] = req[u]
    BY <1>0, <1>3, Resting
  <2> QED
    BY <1>3, <2>1 DEF BridgeInv, Op
<1>4. CASE SerdesReady
  <2>1. bridge.serdes = "starting" /\ bridge' = [bridge EXCEPT !.serdes = "ready"] /\ UNCHANGED process
    BY <1>4 DEF SerdesReady
  <2>2. BridgeType'
    BY <2>1 DEF BridgeInv, BridgeType
  <2>3. ASSUME NEW t \in Threads, Op(t) = "bring_up" PROVE BridgeAt(t)'
    <3>1. pc[t] \notin AfterPoll /\ ~(pc[t] = "return" /\ ret[t] = 0)
      BY <2>1, <2>3 DEF BridgeInv, BridgeAt, Configured
    <3>2. pc'[t] = pc[t] /\ ret'[t] = ret[t]
      BY <2>1 DEF process
    <3> QED
      BY <3>1, <3>2 DEF BridgeAt, AfterMaster, AfterWindows, AfterCore
  <2> QED
    BY <2>1, <2>2, <2>3 DEF BridgeInv, process, Op
<1>5. ASSUME NEW t \in Threads, PcieNext(t), OnlyMoves(t), PcieAt(t) \/ IdleAt(t), IdleAt(t)' \/ PcieAt(t)'
      PROVE  BridgeInv'
  <2>1. CASE PcieCall(t)
    <3>1. PICK r \in calls : /\ r.op = "bring_up" => \A u \in Threads : Op(u) # "bring_up"
                             /\ Begin(t, r, FirstPcie(r.op)) /\ UNCHANGED pcie
      BY <2>1 DEF PcieCall
    <3>2. pc'[t] = FirstPcie(r.op) /\ req'[t] = r
      BY <1>0, <3>1, Beginning
    <3>3. bridge' = bridge
      BY <3>1 DEF pcie
    <3>4. CASE r.op = "bring_up"
      <4>1. pc'[t] = "up_open"
        BY <3>2, <3>4 DEF FirstPcie
      <4>2. BridgeType' /\ BridgeAt(t)'
        BY <3>3, <4>1 DEF BridgeInv, BridgeType, BridgeAt, AfterMaster, AfterWindows, AfterCore, AfterPoll
      <4> QED
        BY <1>3, <1>5, <3>1, <3>2, <3>4, <4>2 DEF Op
    <3> QED
      BY <1>2, <1>5, <3>2, <3>3, <3>4 DEF Op
  <2>2. CASE PcieReturn(t)
    <3>1. IdleAt(t)' /\ bridge' = bridge
      BY <1>0, <2>2, Returning DEF PcieReturn, pcie
    <3> QED
      BY <1>2, <1>5, <3>1 DEF IdleAt, Op, NoCall
  <2>3. CASE Bus(t) \/ Gid(t)
    <3>1. pc[t] \in BusPcs \cup GidPcs /\ bridge' = bridge
      BY <2>3 DEF Bus, Gid, BusOpen, BusIoctl, BusClose, GidInit, GidMap, GidMutex, GidExit, GidClose, BusPcs, GidPcs, pcie
    <3>2. req'[t] = req[t]
      BY <1>0, <2>3, BusGidKeep
    <3>3. Op(t) # "bring_up"
      BY <1>5, <3>1 DEF PcieAt, IdleAt, BusPcs, GidPcs
    <3> QED
      BY <1>2, <1>5, <3>1, <3>2, <3>3 DEF Op
  <2>4. CASE HotReset(t)
    <3>1. pc[t] \in HotPcs /\ bridge' = bridge
      BY <2>4 DEF HotReset, HotCheck, HotRead, HotSet, HotClear, HotPcs, pcie
    <3>2. req'[t] = req[t]
      BY <1>0, <2>4, Leading DEF HotReset, HotCheck, HotRead, HotSet, HotClear, Leads, Within
    <3>3. Op(t) # "bring_up"
      BY <1>5, <3>1 DEF PcieAt, IdleAt, HotPcs
    <3> QED
      BY <1>2, <1>5, <3>1, <3>2, <3>3 DEF Op
  <2>5. CASE BringUp(t)
    <3>1. pc[t] \in UpPcs
      BY <2>5 DEF BringUp, UpOpen, UpMap, UpSerdes, UpPoll, UpCoreOff, UpCoreOn, UpWindows, UpMaster, UpLink,
                  UpUnmap, UpClose, UpPcs
    <3>2. Op(t) = "bring_up" /\ req'[t] = req[t]
      BY <1>0, <1>5, <2>5, <3>1, BringUpKeeps DEF PcieAt, IdleAt, UpPcs
    <3>3. BridgeType /\ BridgeAt(t)
      BY <3>2 DEF BridgeInv
    <3>4. BridgeType' /\ BridgeAt(t)'
      BY <2>5, <3>3, BringUpBridge
    <3>5. \A u \in Threads \ {t} : Op(u) # "bring_up"
      BY <3>2 DEF BridgeInv
    <3> QED
      BY <1>3, <1>5, <3>2, <3>4, <3>5 DEF Op
  <2> QED
    BY <1>5, <2>1, <2>2, <2>3, <2>4, <2>5 DEF PcieNext
<1>6. ASSUME NEW t \in Threads, UNCHANGED pcie, OnlyMoves(t), IdleAt(t)' \/ I2cAt(t)' \/ DmaAt(t)' \/ SysAt(t)'
      PROVE  BridgeInv'
  <2>1. Op(t)' # "bring_up"
    BY <1>6 DEF Op, NoCall, IdleAt, I2cAt, DmaAt, SysAt, I2cRequest, DmaRequest, SysRequest, I2cOps, DmaOps,
                ProxyOps, SysOps
  <2> QED
    BY <1>2, <1>6, <2>1 DEF pcie
<1>7. ASSUME NEW t \in Threads, Step(t) PROVE BridgeInv'
  BY <1>5, <1>6, <1>7, I2cSteps, DmaSteps, PcieSteps, SysSteps DEF Step
<1> QED
  BY <1>1, <1>4, <1>7 DEF Next, vars, pcie

\* A bring-up that reports success leaves a controller that runs on a ready
\* SerDes with its windows and its command register set, whatever an earlier
\* one that failed half way has left.
THEOREM BringUpsConfigure == Spec => []BringUpConfigures
<1>1. BridgeInv => BringUpConfigures
  BY DEF BridgeInv, BridgeAt, Configured, BringUpConfigures
<1> QED
  BY <1>1, BridgeInit, BridgeNext, CallsPlaced, PTL DEF Spec

----------------------------------------------------------------------------
(* The arithmetic of the reports. *)

\* The quotient of a number that is at most m times the divisor.
LEMMA DivWithin ==
    ASSUME NEW n \in Nat \ {0}, NEW m \in Nat, NEW a \in Nat, a <= m * n
    PROVE  a \div n \in 0 .. m
<1> DEFINE q == a \div n
           r == a % n
<1>1. a = n * q + r /\ q \in Nat
  BY DivMod
<1>2. r \in 0 .. n - 1
  BY ModRange
<1> HIDE DEF q, r
<1>3. q <= m
  <2>1. SUFFICES ASSUME q >= m + 1 PROVE FALSE
    BY <1>1
  <2>2. q - m - 1 \in Nat
    BY <1>1, <2>1
  <2>3. n * (q - m - 1) >= 0
    BY <2>2
  <2>4. n * (q - m - 1) = n * q - m * n - n
    BY <1>1
  <2> QED
    BY <1>1, <1>2, <2>3, <2>4
<1> QED
  BY <1>1, <1>3 DEF q

\* What is added to a number, at most m times the divisor, adds at most m to the
\* quotient.
LEMMA DivMore ==
    ASSUME NEW n \in Nat \ {0}, NEW m \in Nat, NEW a \in Nat, NEW x \in Nat, x <= m * n
    PROVE  ((a + x) \div n) - (a \div n) \in 0 .. m
<1> DEFINE b == a + x
           q == a \div n
           r == a % n
           p == b \div n
           s == b % n
<1>1. a = n * q + r /\ q \in Nat
  BY DivMod
<1>2. r \in 0 .. n - 1
  BY ModRange
<1>3. b \in Nat
  OBVIOUS
<1>4. a + x = n * p + s /\ p \in Nat /\ s \in 0 .. n - 1
  <2>1. b = a + x
    OBVIOUS
  <2> HIDE DEF b
  <2>2. b = n * p + s /\ p \in Nat
    BY <1>3, DivMod
  <2>3. s \in 0 .. n - 1
    BY <1>3, ModRange
  <2> QED
    BY <2>1, <2>2, <2>3
<1>5. p = (a + x) \div n
  OBVIOUS
<1> HIDE DEF q, r, p, s, b
<1>6. x = n * (p - q) + s - r
  <2>1. n * (p - q) = n * p - n * q /\ n * p \in Int /\ n * q \in Int
    BY <1>1, <1>4
  <2>2. a = n * q + r /\ a + x = n * p + s /\ r \in Int /\ s \in Int
    BY <1>1, <1>2, <1>4
  <2> DEFINE np == n * p
             nq == n * q
  <2>3. np \in Int /\ nq \in Int /\ a = nq + r /\ a + x = np + s
    BY <2>1, <2>2
  <2> HIDE DEF np, nq
  <2>4. x = np - nq + s - r
    BY <2>2, <2>3
  <2> QED
    BY <2>1, <2>4 DEF np, nq
<1>7. ~(p - q <= -1)
  <2>1. p - q <= -1 => n * (q - p - 1) >= 0
    BY <1>1, <1>4
  <2>2. n * (q - p - 1) = - (n * (p - q)) - n
    BY <1>1, <1>4
  <2> QED
    BY <1>1, <1>2, <1>4, <1>6, <2>1, <2>2
<1>8. ~(p - q >= m + 1)
  <2>1. p - q >= m + 1 => n * (p - q - m - 1) >= 0
    BY <1>1, <1>4
  <2>2. n * (p - q - m - 1) = n * (p - q) - m * n - n
    BY <1>1, <1>4
  <2> QED
    BY <1>1, <1>2, <1>4, <1>6, <2>1, <2>2
<1> QED
  BY <1>1, <1>4, <1>5, <1>7, <1>8 DEF q

\* x is the share of a disk, or half a percent more.
DiskShare(x, s) == x - UsedShare(s) \in 0 .. 5 /\ x \in 0 .. 1005

\* A share of a memory, and of a disk: half a percent is added to the second.
LEMMA SharesReported ==
    ASSUME NEW s \in Space, s.used + s.free > 0
    PROVE  UsedTenths(s) \in Percentage /\ DiskShare(DiskTenths(s), s)
<1> DEFINE u == s.used
           n == s.used + s.free
           h == n \div 2
           a == 1000 * u
           x == 10 * h
<1>1. u \in Nat /\ n \in Nat \ {0} /\ u <= n
  BY DEF Space
<1>2. h \in Nat /\ 2 * h <= n
  <2>1. n \in Nat
    BY <1>1
  <2> HIDE DEF n
  <2> QED
    BY <2>1
<1>3. UsedTenths(s) = a \div n
  BY DEF UsedTenths
<1>4. DiskTenths(s) = (10 * (100 * u + h)) \div n
  BY DEF DiskTenths
<1> HIDE DEF u, n, h
<1>5. a \in Nat /\ a <= 1000 * n /\ x \in Nat /\ x <= 5 * n
  BY <1>1, <1>2
<1>6. 10 * (100 * u + h) = a + x
  BY <1>1, <1>2
<1> HIDE DEF a, x
<1>7. a \div n \in 0 .. 1000
  BY <1>1, <1>5, DivWithin
<1>8. ((a + x) \div n) - (a \div n) \in 0 .. 5
  BY <1>1, <1>5, DivMore
<1>9. a + x \in Nat /\ (a + x) \div n \in Int
  <2>1. a + x \in Nat
    BY <1>5
  <2> QED
    BY <1>1, <2>1, DivMod
<1>10. UsedTenths(s) \in 0 .. 1000 /\ DiskTenths(s) - (a \div n) \in 0 .. 5 /\ DiskTenths(s) \in 0 .. 1005
  <2> DEFINE q == a \div n
             p == (a + x) \div n
  <2>1. UsedTenths(s) = q /\ DiskTenths(s) = p
    BY <1>3, <1>4, <1>6, Zenon
  <2>2. q \in 0 .. 1000 /\ p - q \in 0 .. 5 /\ p \in Int
    BY <1>7, <1>8, <1>9, Zenon
  <2> HIDE DEF q, p
  <2>3. q \in 0 .. 1000 /\ p - q \in 0 .. 5 /\ p \in 0 .. 1005
    BY <2>2
  <2> QED
    BY <2>1, <2>3 DEF q
<1>11. UsedShare(s) = a \div n
  BY DEF a, u, n, UsedShare
<1> QED
  BY <1>10, <1>11 DEF DiskShare, Percentage

SumOf(f) == FoldFunction(+, 0, f)

\* The sum of a function is what a function that adds gives for all its domain.
LEMMA SumAdds ==
    ASSUME NEW D, IsFiniteSet(D), NEW f \in [D -> Nat]
    PROVE  \E g : Adds(f, D, g) /\ SumOf(f) = g[D]
<1> DEFINE it == CHOOSE g : g = [s \in SUBSET D |-> IF s = {} THEN 0 ELSE f[First(s)] + g[s \ {First(s)}]]
<1>1. \E g : Adds(f, D, g)
  BY AddsExist
<1>2. Adds(f, D, it)
  BY <1>1 DEF Adds
<1>3. SumOf(f) = it[D]
  BY DEF SumOf, FoldFunction, FoldFunctionOnSet, MapThenFoldSet, First
<1> HIDE DEF it
<1> QED
  BY <1>2, <1>3

\* No element is more than the sum.
LEMMA ElementInSum ==
    ASSUME NEW D, IsFiniteSet(D), NEW f \in [D -> Nat], NEW x \in D
    PROVE  f[x] <= SumOf(f)
<1>1. PICK g : Adds(f, D, g) /\ SumOf(f) = g[D]
  BY SumAdds
<1> DEFINE B == {s \in SUBSET D : g[s] \notin Nat \/ \E y \in s : f[y] > g[s]}
<1>2. SUFFICES ASSUME B # {} PROVE FALSE
  BY <1>1
<1>3. B \in SUBSET SUBSET D
  OBVIOUS
<1> HIDE DEF B
<1>4. PICK s \in B : \A u \in B : u \subseteq s => u = s
  BY <1>2, <1>3, Minimal
<1> USE DEF B
<1>5. s # {} /\ s \in SUBSET D
  <2>1. g[{}] = 0
    BY <1>1 DEF Adds
  <2> QED
    BY <2>1
<1>6. First(s) \in s /\ g[s] = f[First(s)] + g[s \ {First(s)}]
  <2>1. Adds(f, D, g) /\ s \in SUBSET D /\ s # {}
    BY <1>1, <1>5
  <2> HIDE DEF B
  <2> QED
    BY <2>1, AddsStep
<1>7. s \ {First(s)} \in SUBSET D /\ s \ {First(s)} \notin B
  BY <1>4, <1>6
<1>8. g[s \ {First(s)}] \in Nat /\ \A y \in s \ {First(s)} : f[y] <= g[s \ {First(s)}]
  BY <1>7
<1> QED
  BY <1>6, <1>8

\* Where each element is the sum of two others, but for some times m, the sums
\* are so too.
LEMMA SumsCombine ==
    ASSUME NEW D, IsFiniteSet(D), NEW m \in Nat,
           NEW f \in [D -> Nat], NEW d \in [D -> Nat], NEW q \in [D -> Nat], NEW h \in [D -> Nat],
           \A x \in D : h[x] = (f[x] + d[x]) - m * q[x]
    PROVE  SumOf(h)
             = (SumOf(f) + SumOf(d)) - m * SumOf(q)
<1>1. PICK gf : Adds(f, D, gf) /\ SumOf(f) = gf[D]
  BY SumAdds
<1>2. PICK gd : Adds(d, D, gd) /\ SumOf(d) = gd[D]
  BY SumAdds
<1>3. PICK gq : Adds(q, D, gq) /\ SumOf(q) = gq[D]
  BY SumAdds
<1>4. PICK gh : Adds(h, D, gh) /\ SumOf(h) = gh[D]
  BY SumAdds
<1> DEFINE Good(s) == /\ gf[s] \in Nat /\ gd[s] \in Nat /\ gq[s] \in Nat
                      /\ gh[s] = (gf[s] + gd[s]) - m * gq[s]
           B == {s \in SUBSET D : ~Good(s)}
<1>5. SUFFICES ASSUME B # {} PROVE FALSE
  BY <1>1, <1>2, <1>3, <1>4
<1>6. B \in SUBSET SUBSET D
  OBVIOUS
<1> HIDE DEF B
<1>7. PICK s \in B : \A u \in B : u \subseteq s => u = s
  BY <1>5, <1>6, Minimal
<1> USE DEF B
<1>8. s # {}
  <2>1. gf[{}] = 0 /\ gd[{}] = 0 /\ gq[{}] = 0 /\ gh[{}] = 0
    BY <1>1, <1>2, <1>3, <1>4 DEF Adds
  <2>2. Good({})
    BY <2>1
  <2> HIDE DEF Good
  <2> QED
    BY <2>2
<1> DEFINE e == First(s)
           u == s \ {First(s)}
<1>9. /\ e \in s
      /\ gf[s] = f[e] + gf[u] /\ gd[s] = d[e] + gd[u] /\ gq[s] = q[e] + gq[u] /\ gh[s] = h[e] + gh[u]
  BY <1>1, <1>2, <1>3, <1>4, <1>8, AddsStep
<1>10. Good(u)
  <2> HIDE DEF Good
  <2> QED
    BY <1>7, <1>9
<1>11. ~Good(s)
  <2> HIDE DEF Good
  <2> QED
    BY <1>7
<1>12. f[e] \in Nat /\ d[e] \in Nat /\ q[e] \in Nat /\ h[e] = (f[e] + d[e]) - m * q[e]
  BY <1>9
<1> HIDE DEF e, u
<1>13. m * gq[s] = m * q[e] + m * gq[u]
  BY <1>9, <1>10, <1>12
<1>14. gh[s] = (gf[s] + gd[s]) - m * gq[s]
  <2> DEFINE a == m * q[e]
             b == m * gq[u]
             c == m * gq[s]
  <2>1. a \in Int /\ b \in Int /\ c = a + b
    BY <1>10, <1>12, <1>13
  <2>2. h[e] = (f[e] + d[e]) - a /\ gh[u] = (gf[u] + gd[u]) - b
    BY <1>10, <1>12
  <2> HIDE DEF a, b, c
  <2>3. gh[s] = (gf[s] + gd[s]) - c
    BY <1>9, <1>10, <1>12, <2>1, <2>2
  <2> QED
    BY <2>3 DEF c
<1> QED
  BY <1>9, <1>10, <1>11, <1>12, <1>14

\* What is assumed of the counters and the kernel; SumOf is the sum of the model.
LEMMA SysFacts ==
    /\ NumCpus \in 1 .. 4 /\ CounterMod \in Nat \ {0} /\ LongMod \in Nat \ {0}
    /\ Counters \cup Elapsed \subseteq Ticks
    /\ Memory \subseteq Space /\ Spaces \subseteq Space
    /\ \A c \in Counters : c.idle < CounterMod /\ c.busy < CounterMod
    /\ \A m, n \in Memory : m.used + m.free = n.used + n.free /\ m.used + m.free > 0
BY SysAssumption

\* What a second adds is less than the width of a counter.
LEMMA SecondFacts ==
    \A add \in [Cpus -> Elapsed] :
        SumOf([c \in Cpus |-> add[c].idle]) + SumOf([c \in Cpus |-> add[c].busy]) < CounterMod
BY SysAssumption DEF SumOf

\* A share of a memory, cut to the width of an unsigned long or not.
LEMMA LongReported ==
    ASSUME NEW s \in Space, s.used + s.free > 0
    PROVE  /\ LongTenths(s) \in Percentage
           /\ 1000 * s.used < LongMod => LongTenths(s) = UsedTenths(s)
<1> DEFINE n == s.used + s.free
           a == 1000 * s.used
           x == a % LongMod
<1>1. n \in Nat \ {0} /\ a \in Nat /\ a <= 1000 * n /\ LongMod \in Nat \ {0}
  BY SysFacts DEF Space
<1>2. LongTenths(s) = x \div n /\ UsedTenths(s) = a \div n
  BY DEF LongTenths, UsedTenths
<1> HIDE DEF a, n
<1>3. x \in Nat /\ x <= a /\ (a < LongMod => x = a)
  BY <1>1, ModBelow
<1> HIDE DEF x
<1>4. x \div n \in 0 .. 1000
  <2>1. x <= 1000 * n
    BY <1>1, <1>3
  <2> QED
    BY <1>1, <1>3, <2>1, DivWithin
<1>5. a < LongMod => LongTenths(s) = UsedTenths(s)
  BY <1>2, <1>3
<1> QED
  BY <1>2, <1>4, <1>5 DEF a, Percentage

\* The CPUs are finitely many, and the sums over them are natural numbers.
LEMMA CpuFacts ==
    /\ IsFiniteSet(Cpus)
    /\ \A f \in [Cpus -> Nat] : SumOf(f) \in Nat
<1>1. NumCpus \in Int
  BY SysFacts
<1>2. IsFiniteSet(Cpus)
  BY <1>1, FS_Interval DEF Cpus
<1> QED
  BY <1>2, SumNatural DEF SumOf

\* The counters n come after the counters o, each of which may have wrapped: what
\* has been added to both together is less than their width.
Advances(o, n) ==
    \E i, b \in Nat :
        /\ i + b < CounterMod
        /\ n.idle \in {o.idle + i, (o.idle + i) - CounterMod}
        /\ n.busy \in {o.busy + b, (o.busy + b) - CounterMod}

\* A load is a percentage, and the share of the time that a CPU was busy if no
\* counter has wrapped.
LEMMA LoadPercent ==
    ASSUME NEW o \in Ticks, NEW n \in Ticks, Advances(o, n)
    PROVE  BusyTenths(o, n) \in Percentage /\ BusyShare(o, n, BusyTenths(o, n))
<1> DEFINE idle == n.idle - o.idle
           busy == n.busy - o.busy
           sub  == OverflowSafeSub(o.idle, n.idle)
           itv  == GetInterval(o, n)
<1>1. /\ o.idle \in Nat /\ o.busy \in Nat /\ n.idle \in Nat /\ n.busy \in Nat
      /\ CounterMod \in Nat \ {0}
  BY SysFacts DEF Ticks
<1>2. PICK i \in Nat, b \in Nat : /\ i + b < CounterMod
                                  /\ idle \in {i, i - CounterMod}
                                  /\ busy \in {b, b - CounterMod}
  BY <1>1 DEF Advances
<1>3. sub = IF idle < 0 THEN idle + CounterMod ELSE idle
  BY <1>1 DEF OverflowSafeSub
<1>4. itv = IF idle + busy = 0 THEN 1 ELSE idle + busy
  BY <1>1 DEF GetInterval
<1>5. BusyTenths(o, n) = IF itv < 0 THEN 1000 ELSE (1000 * (itv - sub)) \div itv
  BY DEF BusyTenths
<1> HIDE DEF idle, busy, sub, itv
<1>6. CASE idle = i /\ busy = b
  <2>1. sub = i /\ itv \in Nat \ {0} /\ itv - sub \in Nat /\ itv - sub <= itv
    BY <1>1, <1>2, <1>3, <1>4, <1>6
  <2>2. idle + busy > 0 => itv = idle + busy /\ itv - sub = busy
    BY <1>1, <1>2, <1>3, <1>4, <1>6
  <2> DEFINE x == 1000 * (itv - sub)
  <2>3. x \in Nat /\ x <= 1000 * itv
    BY <2>1
  <2> HIDE DEF x
  <2>4. x \div itv \in Percentage
    BY <2>1, <2>3, DivWithin DEF Percentage
  <2>5. BusyTenths(o, n) = x \div itv
    BY <1>5, <2>1 DEF x
  <2>6. idle + busy > 0 => x = 1000 * busy
    BY <2>2 DEF x
  <2>7. idle + busy > 0 => BusyTenths(o, n) = (1000 * busy) \div (idle + busy)
    BY <2>2, <2>5, <2>6
  <2>8. BusyShare(o, n, BusyTenths(o, n))
    BY <2>7, Zenon DEF idle, busy, BusyShare
  <2> QED
    BY <2>4, <2>5, <2>8, Zenon
<1>7. CASE ~(idle = i /\ busy = b)
  <2>1. itv < 0 /\ (idle < 0 \/ busy < 0)
    BY <1>1, <1>2, <1>4, <1>7
  <2>2. idle \in Int /\ busy \in Int
    BY <1>1, <1>2
  <2>3. BusyTenths(o, n) = 1000
    BY <1>5, <2>1
  <2>4. ~(idle >= 0 /\ busy >= 0)
    BY <2>1, <2>2
  <2>5. BusyShare(o, n, BusyTenths(o, n))
    BY <2>4, Zenon DEF idle, busy, BusyShare
  <2> QED
    BY <2>3, <2>5 DEF Percentage
<1> QED
  BY <1>6, <1>7

\* A counter to which less than its width is added wraps at most once.
LEMMA WrapsOnce ==
    ASSUME NEW m \in Nat \ {0}, NEW a \in Nat, NEW d \in Nat, a < m, d < m
    PROVE  (a + d) % m \in {a + d, (a + d) - m}
<1>1. CASE a + d < m
  <2> DEFINE x == a + d
  <2>1. x \in Nat /\ x < m
    BY <1>1
  <2> HIDE DEF x
  <2>2. x % m = x
    BY <2>1, SmallMod
  <2> QED
    BY <2>2 DEF x
<1>2. CASE a + d >= m
  <2> DEFINE x == a + d
             r == x - m
  <2>1. x \in Int /\ x = m * 1 + r /\ r \in 0 .. m - 1
    BY <1>2
  <2> HIDE DEF x, r
  <2>2. x % m = r
    BY <2>1, ModUnique
  <2> QED
    BY <2>2 DEF x, r
<1> QED
  BY <1>1, <1>2

\* The same of a sum of counters, of which some may have wrapped.
LEMMA SumWrapsOnce ==
    ASSUME NEW m \in Nat \ {0}, NEW a \in Nat, NEW d \in Nat, NEW q \in Nat, d < m,
           NEW n, n = (a + d) - m * q
    PROVE  n % m \in {(a % m) + d, ((a % m) + d) - m}
<1> DEFINE k == a \div m
           r == a % m
           x == r + d
           i == k - q
<1>1. a = m * k + r /\ k \in Nat
  BY DivMod
<1>2. r \in 0 .. m - 1
  BY ModRange
<1> HIDE DEF k, r
<1>3. x \in Nat /\ i \in Int /\ r \in Nat /\ r < m
  BY <1>1, <1>2
<1>4. n = x + i * m
  <2>1. i * m = m * k - m * q /\ m * k \in Int /\ m * q \in Int
    BY <1>1
  <2> DEFINE mk == m * k
             mq == m * q
  <2>2. mk \in Int /\ mq \in Int /\ i * m = mk - mq /\ a = mk + r /\ n = (a + d) - mq
    BY <1>1, <2>1
  <2> HIDE DEF mk, mq, i
  <2> QED
    BY <1>2, <2>2
<1> HIDE DEF i
<1>5. n % m = x % m
  <2>1. x \in Int
    BY <1>3
  <2> HIDE DEF x
  <2>2. (x + i * m) % m = x % m
    BY <1>3, <2>1, ModShiftInt
  <2> QED
    BY <1>4, <2>2
<1>6. x % m \in {r + d, (r + d) - m}
  BY <1>3, WrapsOnce
<1> QED
  BY <1>5, <1>6 DEF r

\* What a reading of the counters of the CPUs gives.
Reading == [on : SUBSET Cpus, cnt : [Cpus -> Ticks]]
\* Reading b has been made a second after reading a, which was the first one.
Follows(a, b) ==
    /\ a.cnt \in [Cpus -> Counters]
    /\ \E add \in [Cpus -> Elapsed] : b.cnt = Later(a.cnt, add)

\* One counter of each CPU, a second later, and their sum.
LEMMA CounterAdvances ==
    ASSUME NEW f \in [Cpus -> Nat], NEW d \in [Cpus -> Nat], SumOf(d) < CounterMod,
           \A c \in Cpus : f[c] < CounterMod,
           NEW h, h = [c \in Cpus |-> (f[c] + d[c]) % CounterMod]
    PROVE  /\ h \in [Cpus -> Nat]
           /\ SumOf(f) \in Nat /\ SumOf(d) \in Nat /\ SumOf(h) \in Nat
           /\ \A c \in Cpus : d[c] <= SumOf(d)
           /\ \A c \in Cpus : h[c] \in {f[c] + d[c], (f[c] + d[c]) - CounterMod}
           /\ SumOf(h) % CounterMod \in {(SumOf(f) % CounterMod) + SumOf(d),
                                         ((SumOf(f) % CounterMod) + SumOf(d)) - CounterMod}
<1> DEFINE m == CounterMod
           q == [c \in Cpus |-> (f[c] + d[c]) \div m]
<1>1. m \in Nat \ {0} /\ IsFiniteSet(Cpus)
  BY SysFacts, CpuFacts
<1>0. ASSUME NEW x \in Nat
      PROVE  x % m \in Nat /\ x \div m \in Nat /\ x % m = x - m * (x \div m)
  <2> DEFINE y == x \div m
             z == x % m
             my == m * y
  <2> HIDE DEF m
  <2>1. x = my + z /\ y \in Nat
    BY <1>1, DivMod
  <2>2. z \in 0 .. m - 1
    BY <1>1, ModRange
  <2>3. my \in Int
    BY <1>1, <2>1
  <2> HIDE DEF y, z, my
  <2>4. z \in Nat /\ z = x - my
    BY <1>1, <2>1, <2>2, <2>3
  <2> QED
    BY <2>1, <2>4 DEF y, z, my
<1>2. \A c \in Cpus : h[c] \in Nat /\ q[c] \in Nat /\ h[c] = (f[c] + d[c]) - m * q[c]
  <2>1. ASSUME NEW c \in Cpus
        PROVE  h[c] \in Nat /\ q[c] \in Nat /\ h[c] = (f[c] + d[c]) - m * q[c]
    <3> DEFINE x == f[c] + d[c]
    <3>1. x \in Nat /\ h[c] = x % m /\ q[c] = x \div m
      OBVIOUS
    <3> HIDE DEF x, m, q
    <3>2. h[c] \in Nat /\ q[c] \in Nat /\ h[c] = x - m * q[c]
      BY <1>0, <3>1
    <3> QED
      BY <3>2 DEF x
  <2> HIDE DEF m, q
  <2> QED
    BY <2>1
<1>3. q \in [Cpus -> Nat] /\ h \in [Cpus -> Nat]
  BY <1>2
<1> HIDE DEF q, m
<1>4. SumOf(f) \in Nat /\ SumOf(d) \in Nat /\ SumOf(q) \in Nat /\ SumOf(h) \in Nat
  BY <1>3, CpuFacts
<1>5. SumOf(h) = (SumOf(f) + SumOf(d)) - m * SumOf(q)
  BY <1>1, <1>2, <1>3, SumsCombine
<1>6. ASSUME NEW c \in Cpus PROVE d[c] <= SumOf(d)
  BY <1>1, ElementInSum
<1>7. ASSUME NEW c \in Cpus PROVE h[c] \in {f[c] + d[c], (f[c] + d[c]) - m}
  <2> DEFINE a == f[c]
             e == d[c]
  <2>1. a \in Nat /\ e \in Nat /\ a < m /\ e < m
    BY <1>1, <1>4, <1>6 DEF m
  <2>2. h[c] = (a + e) % m
    BY DEF m
  <2> HIDE DEF a, e
  <2>3. (a + e) % m \in {a + e, (a + e) - m}
    BY <1>1, <2>1, WrapsOnce
  <2> QED
    BY <2>2, <2>3 DEF a, e
<1>8. SumOf(h) % m \in {(SumOf(f) % m) + SumOf(d), ((SumOf(f) % m) + SumOf(d)) - m}
  <2> DEFINE a == SumOf(f)
             e == SumOf(d)
             k == SumOf(q)
             n == SumOf(h)
  <2>1. a \in Nat /\ e \in Nat /\ k \in Nat /\ e < m /\ n = (a + e) - m * k
    BY <1>4, <1>5 DEF m
  <2> HIDE DEF a, e, k, n
  <2>2. n % m \in {(a % m) + e, ((a % m) + e) - m}
    BY <1>1, <2>1, SumWrapsOnce
  <2> QED
    BY <2>2 DEF a, e, n
<1> QED
  BY <1>3, <1>4, <1>6, <1>7, <1>8 DEF m

\* A second later each CPU, and all together, has counters that have wrapped at
\* most once.
LEMMA ReadingAdvances ==
    ASSUME NEW a \in Reading, NEW b \in Reading, Follows(a, b)
    PROVE  /\ \A c \in Cpus : Advances(a.cnt[c], b.cnt[c])
           /\ AllCpus(a) \in Ticks /\ AllCpus(b) \in Ticks /\ Advances(AllCpus(a), AllCpus(b))
<1>1. PICK add \in [Cpus -> Elapsed] : b.cnt = Later(a.cnt, add)
  BY DEF Follows
<1>2. /\ \A c \in Cpus : a.cnt[c] \in Ticks /\ a.cnt[c].idle < CounterMod /\ a.cnt[c].busy < CounterMod
      /\ \A c \in Cpus : add[c] \in Ticks
      /\ CounterMod \in Nat \ {0}
  BY SysFacts DEF Follows
<1> DEFINE fi == [c \in Cpus |-> a.cnt[c].idle]
           fb == [c \in Cpus |-> a.cnt[c].busy]
           di == [c \in Cpus |-> add[c].idle]
           db == [c \in Cpus |-> add[c].busy]
           hi == [c \in Cpus |-> b.cnt[c].idle]
           hb == [c \in Cpus |-> b.cnt[c].busy]
<1>3. /\ fi \in [Cpus -> Nat] /\ fb \in [Cpus -> Nat] /\ di \in [Cpus -> Nat] /\ db \in [Cpus -> Nat]
      /\ \A c \in Cpus : fi[c] < CounterMod /\ fb[c] < CounterMod
  BY <1>2 DEF Ticks
<1>4. /\ hi = [c \in Cpus |-> (fi[c] + di[c]) % CounterMod]
      /\ hb = [c \in Cpus |-> (fb[c] + db[c]) % CounterMod]
  BY <1>1 DEF Later
<1>5. SumOf(di) + SumOf(db) < CounterMod
  BY SecondFacts
<1>6. AllCpus(a) = [idle |-> SumOf(fi) % CounterMod, busy |-> SumOf(fb) % CounterMod]
  BY DEF AllCpus, AddTicks, SumOf
<1>7. AllCpus(b) = [idle |-> SumOf(hi) % CounterMod, busy |-> SumOf(hb) % CounterMod]
  BY DEF AllCpus, AddTicks, SumOf
<1>8. \A c \in Cpus : /\ a.cnt[c].idle = fi[c] /\ a.cnt[c].busy = fb[c]
                      /\ b.cnt[c].idle = hi[c] /\ b.cnt[c].busy = hb[c]
  OBVIOUS
<1> HIDE DEF fi, fb, di, db, hi, hb
<1>9. SumOf(di) \in Nat /\ SumOf(db) \in Nat
  BY <1>3, CpuFacts
<1>10. SumOf(di) < CounterMod /\ SumOf(db) < CounterMod
  BY <1>2, <1>5, <1>9
<1>11. /\ SumOf(fi) \in Nat /\ SumOf(hi) \in Nat
       /\ \A c \in Cpus : di[c] <= SumOf(di) /\ hi[c] \in {fi[c] + di[c], (fi[c] + di[c]) - CounterMod}
       /\ SumOf(hi) % CounterMod \in {(SumOf(fi) % CounterMod) + SumOf(di),
                                      ((SumOf(fi) % CounterMod) + SumOf(di)) - CounterMod}
  BY <1>3, <1>4, <1>10, CounterAdvances
<1>12. /\ SumOf(fb) \in Nat /\ SumOf(hb) \in Nat
       /\ \A c \in Cpus : db[c] <= SumOf(db) /\ hb[c] \in {fb[c] + db[c], (fb[c] + db[c]) - CounterMod}
       /\ SumOf(hb) % CounterMod \in {(SumOf(fb) % CounterMod) + SumOf(db),
                                      ((SumOf(fb) % CounterMod) + SumOf(db)) - CounterMod}
  BY <1>3, <1>4, <1>10, CounterAdvances
<1>13. ASSUME NEW c \in Cpus PROVE Advances(a.cnt[c], b.cnt[c])
  <2>1. di[c] \in Nat /\ db[c] \in Nat /\ di[c] + db[c] < CounterMod
    <3>1. di[c] \in Nat /\ db[c] \in Nat /\ di[c] <= SumOf(di) /\ db[c] <= SumOf(db)
      BY <1>3, <1>11, <1>12
    <3> QED
      BY <1>2, <1>5, <1>9, <3>1
  <2> QED
    BY <1>8, <1>11, <1>12, <2>1 DEF Advances
<1>14. Advances(AllCpus(a), AllCpus(b))
  BY <1>5, <1>6, <1>7, <1>9, <1>11, <1>12 DEF Advances
<1>15. ASSUME NEW x \in Nat PROVE x % CounterMod \in Nat
  BY <1>2, ModBelow
<1> QED
  BY <1>6, <1>7, <1>11, <1>12, <1>13, <1>14, <1>15 DEF Ticks

\* When all CPUs are online, each has its own line.
LEMMA OwnLine ==
    ASSUME NEW r \in Reading, r.on = Cpus, NEW c \in Cpus
    PROVE  Line(r, c) = c
<1>1. NumCpus \in Nat /\ c \in 1 .. NumCpus
  BY SysFacts DEF Cpus
<1>2. {d \in r.on : d <= c} = 1 .. c
  BY <1>1 DEF Cpus
<1>3. c \in Int /\ 1 \in Int /\ 1 <= c
  BY <1>1
<1>4. Cardinality(1 .. c) = c
  BY <1>3, FS_Interval
<1> QED
  BY <1>2, <1>4 DEF Line

\* The rows of two readings that show the same CPUs are of the same CPU, or empty.
LEMMA SameRows ==
    ASSUME NEW a \in Reading, NEW b \in Reading, a.on = b.on, NEW k \in Rows, k # 0
    PROVE  \/ \E c \in Cpus : /\ Stats(a)[k] = a.cnt[c] /\ Stats(b)[k] = b.cnt[c]
                              /\ a.on = Cpus => c = k
           \/ /\ Stats(a)[k] = [idle |-> 0, busy |-> 0] /\ Stats(b)[k] = [idle |-> 0, busy |-> 0]
              /\ a.on # Cpus
<1> DEFINE has == \E c \in a.on : Line(a, c) = k
           at  == CHOOSE c \in a.on : Line(a, c) = k
<1>1. \A c : Line(b, c) = Line(a, c)
  BY DEF Line
<1>2. Stats(a)[k] = IF has THEN a.cnt[at] ELSE [idle |-> 0, busy |-> 0]
  BY DEF Stats
<1>3. Stats(b)[k] = IF has THEN b.cnt[at] ELSE [idle |-> 0, busy |-> 0]
  <2>1. Stats(b)[k] = IF \E c \in b.on : Line(b, c) = k THEN b.cnt[CHOOSE c \in b.on : Line(b, c) = k]
                      ELSE [idle |-> 0, busy |-> 0]
    BY DEF Stats
  <2>2. (\E c \in b.on : Line(b, c) = k) = has
    BY <1>1
  <2>3. (CHOOSE c \in b.on : Line(b, c) = k) = at
    BY <1>1
  <2> QED
    BY <2>1, <2>2, <2>3
<1>4. has => at \in a.on /\ Line(a, at) = k
  OBVIOUS
<1>5. a.on \subseteq Cpus
  BY DEF Reading
<1>6. k \in Cpus
  BY SysFacts DEF Rows, Cpus
<1>7. a.on = Cpus => has
  BY <1>6, OwnLine
<1> HIDE DEF has, at
<1>8. a.on = Cpus /\ has => at = k
  BY <1>4, <1>5, OwnLine
<1> QED
  BY <1>2, <1>3, <1>4, <1>5, <1>7, <1>8

\* The load that is reported of two readings a second apart.
LEMMA LoadReported ==
    ASSUME NEW a \in Reading, NEW b \in Reading, Follows(a, b), a.on = b.on, NEW k \in Rows
    PROVE  LET old  == IF k = 0 THEN AllCpus(a) ELSE a.cnt[k]
               new  == IF k = 0 THEN AllCpus(b) ELSE b.cnt[k]
               load == BusyTenths(Stats(a)[k], Stats(b)[k])
           IN load \in Percentage /\ (a.on = Cpus => BusyShare(old, new, load))
<1>1. CASE k = 0
  <2>1. Stats(a)[k] = AllCpus(a) /\ Stats(b)[k] = AllCpus(b)
    BY <1>1 DEF Stats
  <2> QED
    BY <1>1, <2>1, ReadingAdvances, LoadPercent
<1>2. ASSUME k # 0, NEW c \in Cpus, Stats(a)[k] = a.cnt[c], Stats(b)[k] = b.cnt[c], a.on = Cpus => c = k
      PROVE  /\ BusyTenths(Stats(a)[k], Stats(b)[k]) \in Percentage
             /\ a.on = Cpus => BusyShare(a.cnt[k], b.cnt[k], BusyTenths(Stats(a)[k], Stats(b)[k]))
  <2>1. a.cnt[c] \in Ticks /\ b.cnt[c] \in Ticks /\ Advances(a.cnt[c], b.cnt[c])
    BY ReadingAdvances DEF Reading
  <2>2. /\ BusyTenths(a.cnt[c], b.cnt[c]) \in Percentage
        /\ BusyShare(a.cnt[c], b.cnt[c], BusyTenths(a.cnt[c], b.cnt[c]))
    BY <2>1, LoadPercent, Zenon
  <2>3. BusyTenths(Stats(a)[k], Stats(b)[k]) = BusyTenths(a.cnt[c], b.cnt[c])
    BY <1>2, Zenon
  <2>4. a.on = Cpus => BusyShare(a.cnt[k], b.cnt[k], BusyTenths(a.cnt[c], b.cnt[c]))
    BY <1>2, <2>2, Zenon
  <2> QED
    BY <2>2, <2>3, <2>4, Zenon
<1>3. CASE k # 0 /\ Stats(a)[k] = [idle |-> 0, busy |-> 0] /\ Stats(b)[k] = [idle |-> 0, busy |-> 0]
           /\ a.on # Cpus
  <2> DEFINE z == [idle |-> 0, busy |-> 0]
  <2>1. z \in Ticks /\ Advances(z, z)
    BY SysFacts DEF Ticks, Advances
  <2>2. BusyTenths(z, z) \in Percentage
    BY <2>1, LoadPercent
  <2> QED
    BY <1>3, <2>2
<1>4. k # 0 => BusyTenths(Stats(a)[k], Stats(b)[k]) \in Percentage
               /\ (a.on = Cpus => BusyShare(a.cnt[k], b.cnt[k], BusyTenths(Stats(a)[k], Stats(b)[k])))
  BY <1>2, <1>3, SameRows, Zenon
<1> QED
  BY <1>1, <1>4

\* Without any assumption on the second reading a load is a number.
LEMMA LoadNumber ==
    ASSUME NEW a \in Reading, NEW b \in Reading, NEW k \in Rows
    PROVE  BusyTenths(Stats(a)[k], Stats(b)[k]) \in Int
<1>1. ASSUME NEW r \in Reading PROVE Stats(r)[k] \in Ticks
  <2>1. AllCpus(r) \in Ticks
    <3> DEFINE fi == [c \in Cpus |-> r.cnt[c].idle]
               fb == [c \in Cpus |-> r.cnt[c].busy]
    <3>1. fi \in [Cpus -> Nat] /\ fb \in [Cpus -> Nat]
      BY DEF Reading, Ticks
    <3>2. AllCpus(r) = [idle |-> SumOf(fi) % CounterMod, busy |-> SumOf(fb) % CounterMod]
      BY DEF AllCpus, AddTicks, SumOf
    <3> HIDE DEF fi, fb
    <3>3. SumOf(fi) \in Nat /\ SumOf(fb) \in Nat
      BY <3>1, CpuFacts
    <3>4. SumOf(fi) % CounterMod \in Nat /\ SumOf(fb) % CounterMod \in Nat
      BY <3>3, ModBelow, SysFacts
    <3> QED
      BY <3>2, <3>4 DEF Ticks
  <2>2. (\E c \in r.on : Line(r, c) = k) => (CHOOSE c \in r.on : Line(r, c) = k) \in Cpus
    BY DEF Reading
  <2>3. [idle |-> 0, busy |-> 0] \in Ticks
    BY DEF Ticks
  <2>4. \A c \in Cpus : r.cnt[c] \in Ticks
    BY DEF Reading
  <2>5. Stats(r)[k] = IF k = 0 THEN AllCpus(r)
                      ELSE IF \E c \in r.on : Line(r, c) = k
                      THEN r.cnt[CHOOSE c \in r.on : Line(r, c) = k]
                      ELSE [idle |-> 0, busy |-> 0]
    BY DEF Stats
  <2> QED
    BY <2>1, <2>2, <2>3, <2>4, <2>5
<1>2. ASSUME NEW o \in Ticks, NEW n \in Ticks PROVE BusyTenths(o, n) \in Int
  <2> DEFINE itv == GetInterval(o, n)
             x == 1000 * (itv - OverflowSafeSub(o.idle, n.idle))
  <2>1. itv \in Int /\ itv # 0 /\ OverflowSafeSub(o.idle, n.idle) \in Int
    BY SysFacts DEF GetInterval, OverflowSafeSub, Ticks
  <2>2. BusyTenths(o, n) = IF itv < 0 THEN 1000 ELSE x \div itv
    BY DEF BusyTenths
  <2> HIDE DEF itv
  <2>3. x \in Int
    BY <2>1
  <2> HIDE DEF x
  <2>4. itv \in Nat \ {0} => x \div itv \in Int
    BY <2>3, DivModInt
  <2> QED
    BY <2>1, <2>2, <2>4
<1> QED
  BY <1>1, <1>2

----------------------------------------------------------------------------
(* The readings of a call, and its report. *)

Heard  == {Unread} \cup Reading \cup Nat \cup Space
Totals == {m.used + m.free : m \in Memory}
Disks  == {s \in Spaces : s.used + s.free > 0}
Most(op) == IF op = "disk_info" THEN 3 ELSE IF op = "mem_sysinfo" THEN 1 ELSE 2

\* A call that is about to ask.
Asking == {"sys_open", "sys_pipe", "sys_spawn", "sys_ask"}

\* What the answers to each call can be, one after the other.
MayBeTold(op, s) ==
    /\ op = "cpu_info" =>
         /\ Len(s) >= 1 => s[1] = Unread \/ (s[1] \in Reading /\ s[1].cnt \in [Cpus -> Counters])
         /\ Len(s) >= 2 => \/ s[2] = Unread
                           \/ s[2] \in Reading /\ (s[1] = Unread \/ Follows(s[1], s[2]))
    /\ op = "mem_popen" =>
         /\ Len(s) >= 1 => s[1] \in Totals \cup {Unread}
         /\ Len(s) >= 2 => s[2] \in {m.free : m \in Memory} \cup {Unread}
    /\ op = "mem_sysinfo" => (Len(s) >= 1 => s[1] \in Memory \cup {Unread})
    /\ op = "disk_info" => \A i \in 1 .. Len(s) : /\ s[i] \in Disks \cup {Unread}
                                                  /\ i < Len(s) => s[i] = Unread

\* What a call that returns has reported of them.
MayReport(op, s, v, x) ==
    /\ op = "cpu_info" => Len(s) = 2 /\ x = CpuReport(s)
    /\ op = "mem_popen" =>
         \/ v = -1 /\ x = Unread
         \/ /\ Len(s) = 2
            /\ x = IF MemTotal(s) > 0
                   THEN LongTenths([used |-> MemTotal(s) - MemAvail(s), free |-> MemAvail(s)]) ELSE 0
    /\ op = "mem_sysinfo" =>
         \/ x = Unread
         \/ Len(s) = 1 /\ s[1] # Unread /\ x = UsedTenths(s[1])
    /\ op = "disk_info" =>
         \/ Len(s) \in 1 .. 3 /\ s[Len(s)] # Unread /\ v = 0 /\ x = DiskTenths(s[Len(s)])
         \/ Len(s) = 3 /\ s[3] = Unread /\ v = -1 /\ x = 0

ToldAt(t) ==
    LET s == told[t] IN
    /\ Op(t) \notin SysOps => s = <<>> /\ report[t] = Unread
    /\ Op(t) \in SysOps =>
         /\ MayBeTold(Op(t), s)
         /\ Len(s) <= Most(Op(t))
         /\ pc[t] \in Asking => Len(s) < Most(Op(t))
         /\ pc[t] \in Asking /\ Op(t) = "disk_info" =>
              \A i \in 1 .. Len(s) : s[i] = Unread
         /\ pc[t] \in {"sys_close", "sys_next"} => Len(s) >= 1
         /\ pc[t] = "sys_report" =>
              \/ Len(s) = Most(Op(t))
              \/ Op(t) = "disk_info" /\ Len(s) >= 1 /\ s[Len(s)] # Unread
         /\ pc[t] # "return" => report[t] = Unread
         /\ pc[t] = "return" => MayReport(Op(t), s, ret[t], report[t])
SysInv ==
    /\ fds \in Int
    /\ told \in [Threads -> Seq(Heard)]
    /\ DOMAIN report = Threads
    /\ \A t \in Threads : ToldAt(t)

\* A longer sequence of answers.
LEMMA Appended ==
    ASSUME NEW s \in Seq(Heard), NEW x \in Heard
    PROVE  /\ Append(s, x) \in Seq(Heard) /\ Len(Append(s, x)) = Len(s) + 1 /\ Len(s) \in Nat
           /\ Append(s, x)[Len(s) + 1] = x
           /\ \A i \in 1 .. Len(s) : Append(s, x)[i] = s[i]
OBVIOUS

\* No answer yet, and one.
LEMMA Short ==
    ASSUME NEW s \in Seq(Heard)
    PROVE  /\ s = <<>> <=> Len(s) = 0
           /\ Len(s) = 1 => s = <<s[1]>>
OBVIOUS

\* At first nobody has been told anything.
LEMMA ToldInit == Init => SysInv
BY DEF Init, ProcessInit, SysInit, SysInv, ToldAt, Op, NoCall, SysOps

\* An answer that comes in fits those before it.
LEMMA AnswerFits ==
    ASSUME CallInv, SysInv, NEW t \in Threads, Op(t) \in SysOps, pc[t] \in Asking,
           NEW x, x = Unread \/ x \in MayHear(t)
    PROVE  x \in Heard /\ MayBeTold(Op(t), Append(told[t], x))
<1> DEFINE s == told[t]
           n == Len(s)
           z == Append(s, x)
<1>1. /\ s \in Seq(Heard) /\ n \in Nat /\ n < Most(Op(t)) /\ MayBeTold(Op(t), s)
      /\ Op(t) = "disk_info" => \A i \in 1 .. n : s[i] = Unread
  BY DEF SysInv, ToldAt
<1>3. (s = <<>> <=> n = 0) /\ (n = 1 => s = <<s[1]>>)
  <2>1. s \in Seq(Heard)
    BY <1>1
  <2> HIDE DEF s
  <2> QED
    BY <2>1, Short
<1> HIDE DEF s, n
<1>2. x \in Heard /\ MayBeTold(Op(t), z)
  <2>1. CASE Op(t) = "cpu_info"
    <3>1. n \in {0, 1} /\ (n = 0 => s = <<>>) /\ (n = 1 => s = <<s[1]>>)
      BY <1>1, <1>3, <2>1 DEF Most
    <3>2. n = 1 => s[1] = Unread \/ (s[1] \in Reading /\ s[1].cnt \in [Cpus -> Counters])
      BY <1>1, <2>1 DEF MayBeTold, n
    <3>3. n = 0 \/ (n = 1 /\ s[1] = Unread) =>
            x = Unread \/ (x \in Reading /\ x.cnt \in [Cpus -> Counters])
      <4>1. ASSUME s = <<>> \/ s = <<Unread>>, x \in MayHear(t)
            PROVE  x \in [on : {o \in SUBSET Cpus : 1 \in o}, cnt : [Cpus -> Counters]]
        BY <2>1, <4>1 DEF MayHear, Readings, s
      <4>2. Counters \subseteq Ticks
        BY SysFacts
      <4> QED
        BY <3>1, <4>1, <4>2 DEF Reading
    <3>4. n = 1 /\ s[1] # Unread => x = Unread \/ (x \in Reading /\ Follows(s[1], x))
      <4>1. SUFFICES ASSUME n = 1, s[1] # Unread, x \in MayHear(t) PROVE x \in Reading /\ Follows(s[1], x)
        OBVIOUS
      <4>2. ~(s = <<>> \/ s = <<Unread>>)
        BY <1>3, <4>1
      <4>3. x \in [on : {o \in SUBSET Cpus : 1 \in o},
                   cnt : {Later(s[1].cnt, add) : add \in [Cpus -> Elapsed]}]
        BY <2>1, <4>1, <4>2 DEF MayHear, Readings, s
      <4>4. PICK add \in [Cpus -> Elapsed] : x.cnt = Later(s[1].cnt, add)
        BY <4>3
      <4>5. s[1] \in Reading /\ s[1].cnt \in [Cpus -> Counters]
        BY <3>2, <4>1
      <4>6. Later(s[1].cnt, add) \in [Cpus -> Ticks]
        <5>1. \A a, b \in Nat : (a + b) % CounterMod \in Nat
          BY ModBelow, SysFacts
        <5>2. \A c \in Cpus : s[1].cnt[c] \in Ticks /\ add[c] \in Ticks
          BY <4>5, SysFacts
        <5> QED
          BY <5>1, <5>2 DEF Later, Ticks
      <4> QED
        BY <4>3, <4>4, <4>5, <4>6 DEF Reading, Follows
    <3>5. x \in Heard
      BY <3>1, <3>3, <3>4 DEF Heard
    <3>6. Len(z) = n + 1 /\ z[n + 1] = x /\ \A i \in 1 .. n : z[i] = s[i]
      BY <1>1, <3>5, Appended DEF n
    <3> QED
      BY <2>1, <3>1, <3>2, <3>3, <3>4, <3>5, <3>6 DEF MayBeTold
  <2>2. CASE Op(t) = "mem_popen"
    <3>1. n \in {0, 1} /\ (n = 0 <=> s = <<>>)
      BY <1>1, <1>3, <2>2 DEF Most
    <3>2. x \in {IF s = <<>> THEN m.used + m.free ELSE m.free : m \in Memory} \cup {Unread}
      BY <2>2 DEF MayHear, s
    <3>3. (n = 0 => x \in Totals \cup {Unread}) /\ (n = 1 => x \in {m.free : m \in Memory} \cup {Unread})
      <4>1. CASE x = Unread
        BY <4>1
      <4>2. ASSUME NEW m \in Memory, x = IF s = <<>> THEN m.used + m.free ELSE m.free
            PROVE  (n = 0 => x \in Totals) /\ (n = 1 => x \in {k.free : k \in Memory})
        <5>1. (n = 0 => x = m.used + m.free) /\ (n = 1 => x = m.free)
          BY <3>1, <4>2
        <5> QED
          BY <5>1 DEF Totals
      <4> QED
        BY <3>2, <4>1, <4>2
    <3>4. \A m \in Memory : m.free \in Nat /\ m.used + m.free \in Nat
      BY SysFacts DEF Space
    <3>5. x \in Heard
      BY <3>1, <3>3, <3>4 DEF Heard, Totals
    <3>6. Len(z) = n + 1 /\ z[n + 1] = x /\ \A i \in 1 .. n : z[i] = s[i]
      BY <1>1, <3>5, Appended DEF n
    <3> QED
      BY <1>1, <2>2, <3>1, <3>3, <3>5, <3>6 DEF MayBeTold
  <2>3. CASE Op(t) = "mem_sysinfo"
    <3>1. n = 0
      BY <1>1, <2>3 DEF Most
    <3>2. x \in Memory \cup {Unread}
      BY <2>3 DEF MayHear
    <3>3. x \in Heard
      BY <3>2, SysFacts DEF Heard
    <3>4. Len(z) = 1 /\ z[1] = x
      BY <1>1, <3>1, <3>3, Appended DEF n
    <3> QED
      BY <2>3, <3>2, <3>3, <3>4 DEF MayBeTold
  <2>4. CASE Op(t) = "disk_info"
    <3>1. x \in Disks \cup {Unread}
      BY <2>4 DEF MayHear, Disks
    <3>2. x \in Heard
      BY <3>1, SysFacts DEF Heard, Disks
    <3>3. Len(z) = n + 1 /\ z[n + 1] = x /\ \A i \in 1 .. n : z[i] = s[i]
      BY <1>1, <3>2, Appended DEF n
    <3> QED
      BY <1>1, <2>4, <3>1, <3>2, <3>3 DEF MayBeTold
  <2> QED
    BY <2>1, <2>2, <2>3, <2>4 DEF SysOps
<1> QED
  BY <1>2 DEF s

\* What the call reports is what it has been told.
LEMMA ReportFits ==
    ASSUME CallInv, SysInv, NEW t \in Threads, SysReport(t)
    PROVE  /\ \/ pc'[t] = "return" /\ MayReport(Op(t), told[t], ret'[t], report'[t])
              \/ pc'[t] = "fault" /\ report'[t] = Unread
           /\ DOMAIN report' = Threads
           /\ \A u \in Threads \ {t} : report'[u] = report[u]
<1> DEFINE s == told[t]
           n == Len(s)
<1>1. ProcessType /\ pc[t] = "sys_report" /\ Op(t) \in SysOps
  BY Whose DEF CallInv, SysReport, SysPcs, SysAt, SysRequest, Op
<1>2. /\ s \in Seq(Heard) /\ n \in Nat /\ report[t] = Unread /\ DOMAIN report = Threads
      /\ n = Most(Op(t)) \/ (Op(t) = "disk_info" /\ n >= 1 /\ n <= 3 /\ s[n] # Unread)
  BY <1>1 DEF SysInv, ToldAt, Most
<1>3. ASSUME NEW l
      PROVE  /\ \A v \in {-1, 0, 1} : MoveWith(t, l, v) => pc'[t] = l /\ ret'[t] = v
             /\ Move(t, l) => pc'[t] = l
  <2>1. Move(t, l) => Leads(t, l, ret[t], held[t])
    BY <1>1, Leading
  <2>2. ASSUME NEW v \in {-1, 0, 1}, MoveWith(t, l, v) PROVE Leads(t, l, v, held[t])
    BY <1>1, <2>2, Leading
  <2> QED
    BY <2>1, <2>2 DEF Leads, Within
<1>4. \A x : Reports(t, x) => /\ report'[t] = x /\ DOMAIN report' = Threads
                              /\ \A u \in Threads \ {t} : report'[u] = report[u]
  BY <1>2 DEF Reports
<1> HIDE DEF s, n
<1>5. CASE Op(t) = "cpu_info" /\ Reports(t, CpuReport(s)) /\ MoveWith(t, "return", 0)
  BY <1>2, <1>3, <1>4, <1>5 DEF MayReport, Most, n, s
<1>6. CASE /\ Op(t) = "mem_popen" /\ MemTotal(s) > 0 /\ MoveWith(t, "return", 0)
           /\ Reports(t, LongTenths([used |-> MemTotal(s) - MemAvail(s), free |-> MemAvail(s)]))
  BY <1>2, <1>3, <1>4, <1>6 DEF MayReport, Most, n, s
<1>7. CASE /\ Op(t) = "mem_popen" /\ MemTotal(s) = 0
           /\ \/ Move(t, "fault") /\ report' = report
              \/ MoveWith(t, "return", 0) /\ Reports(t, 0)
  BY <1>2, <1>3, <1>4, <1>7 DEF MayReport, Most, n, s
<1>8. CASE Op(t) = "mem_sysinfo" /\ s[1] # Unread /\ Reports(t, UsedTenths(s[1])) /\ MoveWith(t, "return", 0)
  BY <1>2, <1>3, <1>4, <1>8 DEF MayReport, Most, n, s
<1>9. CASE Op(t) = "mem_sysinfo" /\ MoveWith(t, "return", -1) /\ report' = report
  BY <1>2, <1>3, <1>9 DEF MayReport, Most, n, s
<1>10. CASE Op(t) = "disk_info" /\ s[n] # Unread /\ Reports(t, DiskTenths(s[n])) /\ MoveWith(t, "return", 0)
  <2>1. n \in 1 .. 3
    BY <1>2, <1>10 DEF Most
  <2> QED
    BY <1>3, <1>4, <1>10, <2>1 DEF MayReport, n, s
<1>11. CASE Op(t) = "disk_info" /\ s[n] = Unread /\ Reports(t, 0) /\ MoveWith(t, "return", -1)
  <2>1. n = 3
    BY <1>2, <1>11 DEF Most
  <2> QED
    BY <1>3, <1>4, <1>11, <2>1 DEF MayReport, n, s
<1> QED
  BY <1>5, <1>6, <1>7, <1>8, <1>9, <1>10, <1>11 DEF SysReport, Last, s, n

\* The others have been told what they had been told.
LEMMA OthersTold ==
    ASSUME ProcessType, NEW t \in Threads, OnlyMoves(t), NEW u \in Threads, u # t, ToldAt(u),
           told'[u] = told[u], report'[u] = report[u]
    PROVE  ToldAt(u)'
<1>1. pc'[u] = pc[u] /\ req'[u] = req[u] /\ ret'[u] = ret[u]
  BY Resting
<1>2. /\ Op(u)' = Op(u)
      /\ MayBeTold(Op(u), told[u])' = MayBeTold(Op(u), told[u])
      /\ MayReport(Op(u), told[u], ret[u], report[u])' = MayReport(Op(u), told[u], ret[u], report[u])
  BY <1>1 DEF Op, MayBeTold, MayReport, Follows, CpuReport, MemTotal, MemAvail
<1> QED
  BY <1>1, <1>2 DEF ToldAt

\* A step of a call that asks for a resource of the system.
LEMMA ToldStep ==
    ASSUME CallInv, SysInv, NEW t \in Threads, SysNext(t)
    PROVE  fds' \in Int => SysInv'
<1>0. ProcessType /\ OnlyMoves(t) /\ (IdleAt(t) \/ SysAt(t)) /\ (IdleAt(t)' \/ SysAt(t)')
  BY SysSteps DEF CallInv
<1> DEFINE s == told[t]
<1>1. /\ told \in [Threads -> Seq(Heard)] /\ DOMAIN report = Threads /\ ToldAt(t)
      /\ \A u \in Threads : ToldAt(u)
      /\ s \in Seq(Heard) /\ Len(s) \in Nat /\ fds \in Int
  BY DEF SysInv
<1>2. SUFFICES /\ told' \in [Threads -> Seq(Heard)] /\ DOMAIN report' = Threads
               /\ \A u \in Threads \ {t} : told'[u] = told[u] /\ report'[u] = report[u]
               /\ ToldAt(t)'
  BY <1>0, <1>1, OthersTold DEF SysInv
<1>3. \A op, x, v, y : /\ MayBeTold(op, x)' = MayBeTold(op, x')
                       /\ MayReport(op, x, v, y)' = MayReport(op, x', v', y')
  BY DEF MayBeTold, MayReport, Follows, CpuReport, MemTotal, MemAvail
<1>13. ToldAt(t)' <=>
         LET z == told'[t]
             o == req'[t].op
         IN /\ o \notin SysOps => z = <<>> /\ report'[t] = Unread
            /\ o \in SysOps =>
                 /\ MayBeTold(o, z)
                 /\ Len(z) <= Most(o)
                 /\ pc'[t] \in Asking => Len(z) < Most(o)
                 /\ pc'[t] \in Asking /\ o = "disk_info" =>
                      \A i \in 1 .. Len(z) : z[i] = Unread
                 /\ pc'[t] \in {"sys_close", "sys_next"} => Len(z) >= 1
                 /\ pc'[t] = "sys_report" =>
                      \/ Len(z) = Most(o)
                      \/ o = "disk_info" /\ Len(z) >= 1 /\ z[Len(z)] # Unread
                 /\ pc'[t] # "return" => report'[t] = Unread
                 /\ pc'[t] = "return" => MayReport(o, z, ret'[t], report'[t])
  BY DEF ToldAt, Op
<1>4. ASSUME req'[t] = req[t], Op(t) \in SysOps
      PROVE  ToldAt(t)' <=>
               LET z == told'[t] IN
               /\ MayBeTold(Op(t), z)
               /\ Len(z) <= Most(Op(t))
               /\ pc'[t] \in Asking => Len(z) < Most(Op(t))
               /\ pc'[t] \in Asking /\ Op(t) = "disk_info" =>
                    \A i \in 1 .. Len(z) : z[i] = Unread
               /\ pc'[t] \in {"sys_close", "sys_next"} => Len(z) >= 1
               /\ pc'[t] = "sys_report" =>
                    \/ Len(z) = Most(Op(t))
                    \/ Op(t) = "disk_info" /\ Len(z) >= 1 /\ z[Len(z)] # Unread
               /\ pc'[t] # "return" => report'[t] = Unread
               /\ pc'[t] = "return" => MayReport(Op(t), z, ret'[t], report'[t])
  BY <1>4, <1>13 DEF Op
<1>5. SysAt(t) => req[t] \in SysRequest /\ Op(t) \in SysOps
  BY DEF SysAt, SysRequest, Op
<1>6. CASE SysCall(t)
  <2>1. PICK r \in calls : r.op \in SysOps /\ Begin(t, r, IF r.op = "mem_sysinfo" THEN "sys_ask" ELSE "sys_open")
    BY <1>6 DEF SysCall
  <2>2. /\ pc[t] = "idle" /\ Op(t)' = r.op
        /\ pc'[t] = IF r.op = "mem_sysinfo" THEN "sys_ask" ELSE "sys_open"
    BY <1>0, <2>1, Beginning DEF Op
  <2>3. Op(t) \notin SysOps
    BY <1>0, <2>2 DEF IdleAt, SysAt, SysPcs, Ends, Op, NoCall, SysOps
  <2>4. s = <<>> /\ report[t] = Unread /\ told' = told /\ report' = report
    BY <1>1, <1>6, <2>3 DEF ToldAt, SysCall, sys
  <2>5. Len(told'[t]) = 0 /\ Most(r.op) > 0
    BY <2>4 DEF Most
  <2>6. MayBeTold(r.op, told'[t])
    BY <2>5 DEF MayBeTold
  <2>7. ToldAt(t)'
    <3>1. req'[t].op = r.op /\ r.op \in SysOps
      BY <2>1, <2>2 DEF Op
    <3>2. /\ Len(told'[t]) <= Most(r.op) /\ Len(told'[t]) < Most(r.op)
          /\ \A i \in 1 .. Len(told'[t]) : told'[t][i] = Unread
      BY <2>5 DEF Most
    <3> QED
      BY <1>13, <2>2, <2>4, <2>6, <3>1, <3>2 DEF Asking
  <2> QED
    BY <1>1, <2>4, <2>7
<1>14. ASSUME pc[t] \in Asking, SysAt(t), req'[t] = req[t], Hears(t, Unread), report' = report, ret'[t] = -1,
              pc'[t] \in {"return", "sys_close", "sys_next"}, pc'[t] = "return" => Op(t) = "mem_popen"
       PROVE  /\ told' \in [Threads -> Seq(Heard)] /\ DOMAIN report' = Threads
              /\ \A u \in Threads \ {t} : told'[u] = told[u] /\ report'[u] = report[u]
              /\ ToldAt(t)'
  <2>1. Op(t) \in SysOps
    BY <1>5, <1>14
  <2>2. Unread \in Heard /\ MayBeTold(Op(t), Append(s, Unread))
    BY <1>14, <2>1, AnswerFits
  <2>3. told'[t] = Append(s, Unread) /\ told' \in [Threads -> Seq(Heard)]
        /\ \A u \in Threads \ {t} : told'[u] = told[u]
    BY <1>1, <1>14, <2>2, Appended DEF Hears
  <2>4. /\ Len(told'[t]) = Len(s) + 1 /\ Len(s) < Most(Op(t)) /\ Most(Op(t)) \in Nat /\ report[t] = Unread
        /\ pc'[t] \notin Asking
    BY <1>1, <1>14, <2>1, <2>2, <2>3, Appended DEF ToldAt, Most, Asking
  <2>5. pc'[t] = "return" => MayReport(Op(t), told'[t], ret'[t], report'[t])
    BY <1>14, <2>4 DEF MayReport
  <2>6. ToldAt(t)'
    BY <1>1, <1>4, <1>14, <2>1, <2>2, <2>3, <2>4, <2>5
  <2> QED
    BY <1>1, <1>14, <2>3, <2>6
<1>15. ASSUME pc[t] \in Asking, pc'[t] \in Asking, SysAt(t), req'[t] = req[t], told' = told, report' = report
       PROVE  ToldAt(t)'
  BY <1>1, <1>4, <1>5, <1>15 DEF ToldAt, Asking
<1>7. CASE SysOpen(t)
  <2>1. pc[t] = "sys_open" /\ SysAt(t)
    BY <1>0, <1>7 DEF SysOpen, IdleAt
  <2>2. \/ Opens(t, "fd", IF Popens(t) THEN "sys_pipe" ELSE "sys_ask")
        \/ Fails(t, IF Popens(t) THEN "return" ELSE "sys_next")
    BY <1>0, <1>7, Leading DEF SysOpen
  <2>3. req'[t] = req[t]
    BY <2>2 DEF Opens, Fails, Within
  <2>4. CASE fds' = fds + 1 /\ pc'[t] = (IF Popens(t) THEN "sys_pipe" ELSE "sys_ask")
    <3>1. told' = told /\ report' = report
      BY <1>1, <1>7, <2>4 DEF SysOpen
    <3> QED
      BY <1>1, <1>15, <2>1, <2>3, <2>4, <3>1 DEF Asking
  <2>5. CASE fds' = fds /\ ret'[t] = -1 /\ pc'[t] = IF Popens(t) THEN "return" ELSE "sys_next"
    BY <1>7, <1>14, <2>1, <2>3, <2>5 DEF SysOpen, Asking, Popens
  <2> QED
    BY <2>2, <2>4, <2>5 DEF Opens, Fails, Within
<1>16. CASE SysPipe(t)
  <2>1. pc[t] = "sys_pipe" /\ SysAt(t)
    BY <1>0, <1>16 DEF SysPipe, IdleAt
  <2>2. Opens(t, "pipe", "sys_spawn") \/ Fails(t, "sys_close")
    BY <1>0, <1>16, Leading DEF SysPipe
  <2>3. req'[t] = req[t]
    BY <2>2 DEF Opens, Fails, Within
  <2>4. CASE fds' = fds + 1 /\ pc'[t] = "sys_spawn"
    <3>1. told' = told /\ report' = report
      BY <1>1, <1>16, <2>4 DEF SysPipe
    <3> QED
      BY <1>1, <1>15, <2>1, <2>3, <2>4, <3>1 DEF Asking
  <2>5. CASE fds' = fds /\ ret'[t] = -1 /\ pc'[t] = "sys_close"
    BY <1>14, <1>16, <2>1, <2>3, <2>5 DEF SysPipe, Asking
  <2> QED
    BY <2>2, <2>4, <2>5 DEF Opens, Fails, Within
<1>17. CASE SysSpawn(t)
  <2>1. pc[t] = "sys_spawn" /\ SysAt(t) /\ told' = told /\ report' = report
    BY <1>0, <1>17 DEF SysSpawn, IdleAt, sys
  <2>2. pc'[t] = "sys_ask" /\ req'[t] = req[t]
    BY <1>0, <1>17, Leading DEF SysSpawn, Closes, Within
  <2> QED
    BY <1>1, <1>15, <2>1, <2>2 DEF Asking
<1>8. CASE SysAsk(t)
  <2>1. pc[t] = "sys_ask" /\ SysAt(t)
    BY <1>0, <1>8 DEF SysAsk, IdleAt
  <2>2. pc'[t] = (IF Op(t) = "mem_sysinfo" THEN "sys_report" ELSE "sys_close") /\ req'[t] = req[t]
    BY <1>0, <1>8, Leading DEF SysAsk, Leads, Within
  <2>3. Op(t) \in SysOps
    BY <1>5, <2>1
  <2>4. PICK x \in MayHear(t) : Hears(t, x)
    BY <1>8 DEF SysAsk
  <2>5. x \in Heard /\ MayBeTold(Op(t), Append(s, x))
    BY <2>1, <2>3, AnswerFits DEF Asking
  <2>6. told'[t] = Append(s, x) /\ told' \in [Threads -> Seq(Heard)]
        /\ \A u \in Threads \ {t} : told'[u] = told[u]
    BY <1>1, <2>4, <2>5, Appended DEF Hears
  <2>7. Len(told'[t]) = Len(s) + 1 /\ Len(s) < Most(Op(t)) /\ Most(Op(t)) \in Nat
        /\ report[t] = Unread /\ report' = report
    BY <1>1, <1>8, <2>1, <2>3, <2>5, <2>6, Appended DEF ToldAt, Most, SysAsk, Asking
  <2>8. Op(t) = "mem_sysinfo" => Most(Op(t)) = 1
    BY DEF Most
  <2>9. ToldAt(t)'
    BY <1>1, <1>4, <2>2, <2>3, <2>5, <2>6, <2>7, <2>8 DEF Asking
  <2> QED
    BY <1>1, <2>6, <2>7, <2>9
<1>9. CASE SysClose(t)
  <2>1. pc[t] = "sys_close" /\ SysAt(t) /\ told' = told /\ report' = report
    BY <1>0, <1>9 DEF SysClose, IdleAt, sys
  <2>2. /\ pc'[t] = (IF Popens(t) /\ ret[t] = -1 THEN "return" ELSE "sys_next")
        /\ req'[t] = req[t] /\ ret'[t] = ret[t]
    BY <1>0, <1>9, Leading DEF SysClose, Closes, Within
  <2>3. /\ MayBeTold(Op(t), s) /\ Len(s) <= Most(Op(t)) /\ Len(s) >= 1 /\ report[t] = Unread
        /\ Op(t) \in SysOps
    BY <1>1, <1>5, <2>1 DEF ToldAt
  <2>4. pc'[t] = "return" => MayReport(Op(t), s, ret'[t], report'[t])
    BY <2>1, <2>2, <2>3 DEF MayReport, Popens
  <2>5. ToldAt(t)'
    BY <1>1, <1>4, <2>1, <2>2, <2>3, <2>4 DEF Asking
  <2> QED
    BY <1>1, <2>1, <2>5
<1>10. CASE SysMore(t)
  <2>1. pc[t] = "sys_next" /\ SysAt(t) /\ told' = told /\ report' = report
    BY <1>0, <1>10 DEF SysMore, IdleAt, sys
  <2>2. pc'[t] = (IF AskedEnough(t) THEN "sys_report" ELSE "sys_open") /\ req'[t] = req[t]
    BY <1>0, <1>10, Leading DEF SysMore, Leads, Within
  <2>3. /\ MayBeTold(Op(t), s) /\ Len(s) <= Most(Op(t)) /\ Len(s) >= 1 /\ report[t] = Unread
        /\ Op(t) \in SysOps /\ Op(t) # "mem_sysinfo"
    BY <1>1, <1>5, <2>1 DEF ToldAt, SysAt
  <2>4. CASE AskedEnough(t)
    <3>1. Len(s) = Most(Op(t)) \/ (Op(t) = "disk_info" /\ s[Len(s)] # Unread)
      BY <2>3, <2>4 DEF AskedEnough, Most, Last
    <3>2. ToldAt(t)'
      BY <1>1, <1>4, <2>1, <2>2, <2>3, <2>4, <3>1 DEF Asking
    <3> QED
      BY <1>1, <2>1, <3>2
  <2>5. CASE ~AskedEnough(t)
    <3>1. Len(s) < Most(Op(t)) /\ (Op(t) = "disk_info" => s[Len(s)] = Unread)
      <4>1. Op(t) = "disk_info" => Len(s) # 3 /\ s[Len(s)] = Unread
        BY <2>5 DEF AskedEnough, Last
      <4>2. Op(t) # "disk_info" => Len(s) # 2
        BY <2>5 DEF AskedEnough
      <4>3. Len(s) # Most(Op(t)) /\ Most(Op(t)) \in Nat
        BY <2>3, <4>1, <4>2 DEF Most
      <4> HIDE DEF s
      <4> QED
        BY <1>1, <2>3, <4>1, <4>3
    <3>2. Op(t) = "disk_info" => \A i \in 1 .. Len(s) : s[i] = Unread
      BY <1>1, <2>3, <3>1 DEF MayBeTold
    <3>3. ToldAt(t)'
      BY <1>1, <1>4, <2>1, <2>2, <2>3, <2>5, <3>1, <3>2 DEF Asking
    <3> QED
      BY <1>1, <2>1, <3>3
  <2> QED
    BY <2>4, <2>5
<1>11. CASE SysReport(t)
  <2>1. pc[t] = "sys_report" /\ SysAt(t) /\ told' = told
    BY <1>0, <1>11 DEF SysReport, IdleAt
  <2>2. req'[t] = req[t]
    BY <1>0, <1>11, Leading DEF SysReport, Leads, Within
  <2>3. ToldAt(t)'
    <3>1. Op(t) \in SysOps /\ MayBeTold(Op(t), s) /\ Len(s) <= Most(Op(t))
      BY <1>1, <1>5, <2>1 DEF ToldAt
    <3> QED
      BY <1>1, <1>4, <1>11, <2>1, <2>2, <3>1, ReportFits DEF Asking
  <2> QED
    BY <1>1, <1>11, <2>1, <2>3, ReportFits
<1>12. CASE SysReturn(t)
  <2>1. told' = [told EXCEPT ![t] = <<>>] /\ report' = [report EXCEPT ![t] = Unread] /\ Return(t)
    BY <1>12 DEF SysReturn
  <2>2. IdleAt(t)'
    BY <1>0, <2>1, Returning
  <2>3. Op(t)' \notin SysOps
    BY <2>2 DEF IdleAt, Op, NoCall, SysOps
  <2>4. ToldAt(t)'
    BY <1>1, <2>1, <2>3 DEF ToldAt
  <2>5. <<>> \in Seq(Heard)
    OBVIOUS
  <2> QED
    BY <1>1, <2>1, <2>4, <2>5
<1> QED
  BY <1>6, <1>7, <1>8, <1>9, <1>10, <1>11, <1>12, <1>16, <1>17 DEF SysNext

\* The number of descriptors is a number, and starved a truth value.
LEMMA CountedNext ==
    ASSUME CallInv, HandleInv, fds \in Int, starved \in BOOLEAN, [Next]_vars
    PROVE  fds' \in Int /\ starved' \in BOOLEAN
<1>1. CASE UNCHANGED <<process, i2c, handles>>
  BY <1>1 DEF process
<1>2. ASSUME NEW t \in Threads, Passes(t) \/ DmaClose(t) \/ EndsCall(t)
      PROVE  fds' \in Int /\ starved' \in BOOLEAN
  <2>1. CASE Passes(t)
    <3>1. fds' \in Int
      BY <2>1 DEF Passes, Counts, CountsFd, CountsPipe
    <3>2. starved' = starved \/ starved' = (starved \/ fds = MaxFds)
      BY <2>1 DEF Passes, Counts, CountsFd, CountsPipe
    <3>3. (starved \/ fds = MaxFds) \in BOOLEAN
      OBVIOUS
    <3> QED
      BY <3>1, <3>2, <3>3, Zenon
  <2>2. CASE DmaClose(t)
    BY <2>2, FdCloses
  <2>3. CASE EndsCall(t)
    BY <2>3, FdEnds
  <2> QED
    BY <1>2, <2>1, <2>2, <2>3
<1> QED
  BY <1>1, <1>2, Stepping

\* A step keeps what the threads know of the system.
LEMMA ToldNext ==
    ASSUME CallInv, SysInv, [Next]_vars, fds' \in Int
    PROVE  SysInv'
<1>1. ProcessType /\ told \in [Threads -> Seq(Heard)] /\ DOMAIN report = Threads
      /\ \A t \in Threads : ToldAt(t)
  BY DEF CallInv, SysInv
<1>2. CASE UNCHANGED <<process, sys>>
  <2>1. told' = told /\ report' = report /\ pc' = pc /\ req' = req /\ ret' = ret
    BY <1>2 DEF process, sys
  <2>2. ASSUME NEW t \in Threads PROVE ToldAt(t)'
    <3>1. /\ Op(t)' = Op(t)
          /\ MayBeTold(Op(t), told[t])' = MayBeTold(Op(t), told[t])
          /\ MayReport(Op(t), told[t], ret[t], report[t])' = MayReport(Op(t), told[t], ret[t], report[t])
      BY <2>1 DEF Op, MayBeTold, MayReport, Follows, CpuReport, MemTotal, MemAvail
    <3> QED
      BY <1>1, <2>1, <3>1 DEF ToldAt
  <2> QED
    BY <1>1, <2>1, <2>2 DEF SysInv
<1>3. ASSUME NEW t \in Threads, UNCHANGED sys, OnlyMoves(t), Op(t) \notin SysOps, Op(t)' \notin SysOps
      PROVE  SysInv'
  <2>1. told' = told /\ report' = report
    BY <1>3 DEF sys
  <2>2. \A u \in Threads \ {t} : ToldAt(u)'
    BY <1>1, <1>3, <2>1, OthersTold
  <2>3. told[t] = <<>> /\ report[t] = Unread
    BY <1>1, <1>3 DEF ToldAt
  <2>4. ToldAt(t)'
    BY <1>3, <2>1, <2>3 DEF ToldAt
  <2> QED
    BY <1>1, <2>1, <2>2, <2>4 DEF SysInv
<1>4. ASSUME NEW t \in Threads, Step(t) PROVE SysInv'
  <2>1. CASE SysNext(t)
    BY <2>1, ToldStep
  <2>2. CASE (I2cNext(t) \/ DmaNext(t) \/ PcieNext(t)) /\ UNCHANGED sys
    <3>1. /\ OnlyMoves(t)
          /\ IdleAt(t) \/ I2cAt(t) \/ DmaAt(t) \/ PcieAt(t)
          /\ IdleAt(t)' \/ I2cAt(t)' \/ DmaAt(t)' \/ PcieAt(t)'
      BY <2>2, I2cSteps, DmaSteps, PcieSteps
    <3>2. Op(t) \notin SysOps
      BY <3>1, OpsDiffer DEF IdleAt, I2cAt, DmaAt, PcieAt, Op, NoCall, I2cRequest, DmaRequest, PcieRequest,
             I2cOps, DmaOps, ProxyOps, PcieOps, SysOps
    <3>3. Op(t)' \notin SysOps
      BY <3>1 DEF IdleAt, I2cAt, DmaAt, PcieAt, Op, NoCall, I2cRequest, DmaRequest, PcieRequest,
             I2cOps, DmaOps, ProxyOps, PcieOps, SysOps
    <3> QED
      BY <1>3, <2>2, <3>1, <3>2, <3>3
  <2> QED
    BY <1>4, <2>1, <2>2 DEF Step
<1> QED
  BY <1>2, <1>4 DEF Next, vars, SerdesReady

\* What is invariant of a call of the system resources.
SystemAt == CallInv /\ HandleInv /\ SysInv /\ starved \in BOOLEAN

\* It holds of the whole system, also while calls of the others run.
LEMMA SystemInvariant == Spec => []SystemAt
<1>1. Init => SystemAt
  BY CallInit, HandleInit, ToldInit DEF Init, ProcessInit, SystemAt
<1>2. SystemAt /\ [Next]_vars => SystemAt'
  BY CountedNext, ToldNext, CallNext, HandleNext DEF SysInv, SystemAt
<1> QED
  BY <1>1, <1>2, PTL DEF Spec

\* Reports of two readings of the CPUs.
LEMMA LoadHolds == SysInv => CpuLoad
<1> DEFINE Good(a, b, k, load) ==
             LET old  == IF k = 0 THEN AllCpus(a) ELSE a.cnt[k]
                 new  == IF k = 0 THEN AllCpus(b) ELSE b.cnt[k]
             IN load \in Percentage /\ (a.on = Cpus => BusyShare(old, new, load))
<1>7. ASSUME NEW a \in Reading, NEW b \in Reading, Follows(a, b), a.on = b.on, NEW k \in Rows
      PROVE  Good(a, b, k, BusyTenths(Stats(a)[k], Stats(b)[k]))
  BY <1>7, LoadReported, Zenon
<1>8. CpuLoad <=> \A t \in Threads : Reported(t, "cpu_info") /\ Unread \notin ToSet(told[t]) =>
        (told[t][1].on = told[t][2].on => \A k \in Rows : Good(told[t][1], told[t][2], k, report[t][k]))
  BY DEF CpuLoad
<1> HIDE DEF Good
<1> SUFFICES ASSUME SysInv, NEW t \in Threads, Reported(t, "cpu_info"), Unread \notin ToSet(told[t]),
                    told[t][1].on = told[t][2].on, NEW k \in Rows
             PROVE  Good(told[t][1], told[t][2], k, report[t][k])
  BY <1>8
<1> DEFINE s == told[t]
<1>1. /\ pc[t] = "return" /\ Op(t) = "cpu_info" /\ "cpu_info" \in SysOps /\ ToldAt(t) /\ s \in Seq(Heard)
  BY DEF Reported, SysOps, SysInv
<1>2. Len(s) = 2 /\ report[t] = CpuReport(s) /\ MayBeTold("cpu_info", s)
  BY <1>1 DEF ToldAt, MayReport
<1>3. s[1] # Unread /\ s[2] # Unread
  <2>1. 1 \in DOMAIN s /\ 2 \in DOMAIN s
    BY <1>1, <1>2
  <2> QED
    BY <2>1 DEF ToSet
<1>4. s[1] \in Reading /\ s[2] \in Reading /\ Follows(s[1], s[2])
  BY <1>2, <1>3 DEF MayBeTold
<1>5. report[t][k] = BusyTenths(Stats(s[1])[k], Stats(s[2])[k])
  BY <1>2 DEF CpuReport
<1>6. s[1].on = s[2].on
  OBVIOUS
<1> HIDE DEF s
<1>9. Good(s[1], s[2], k, report[t][k])
  BY <1>4, <1>5, <1>6, <1>7
<1> QED
  BY <1>9 DEF s

\* The load that eos_get_cpu_info reports of a CPU, and of all of them, is a
\* percentage, and the exact share when no counter has wrapped, whatever the
\* counters stand at and whatever the other threads do in between.
THEOREM LoadsReported == Spec => []CpuLoad
<1>1. SystemAt => CpuLoad
  BY LoadHolds DEF SystemAt
<1> QED
  BY <1>1, SystemInvariant, PTL

\* The least of numbers.
LEMMA MinIs ==
    ASSUME NEW k \in Int
    PROVE  Min({k}) = k
<1>1. Min({k}) \in {k}
  <2>1. \E x \in {k} : \A y \in {k} : x =< y
    OBVIOUS
  <2> QED
    BY <2>1, Zenon DEF Min
<1> QED
  BY <1>1

\* Of the disks that have been asked, the last one that is reported is the first
\* that could be measured.
LEMMA FirstDisk ==
    ASSUME NEW s \in Seq(Heard), \A i \in 1 .. Len(s) - 1 : s[i] = Unread
    PROVE  /\ Len(s) >= 1 /\ s[Len(s)] # Unread => FirstFound(s) = Len(s)
           /\ Len(s) >= 1 /\ s[Len(s)] = Unread => FirstFound(s) = 0
<1> DEFINE I == {i \in 1 .. Len(s) : s[i] # Unread}
<1>1. Len(s) \in Nat
  OBVIOUS
<1>2. FirstFound(s) = IF I # {} THEN Min(I) ELSE 0
  BY DEF SelectInSeq, FirstFound
<1>3. CASE Len(s) >= 1 /\ s[Len(s)] # Unread
  <2>1. I = {Len(s)}
    BY <1>1, <1>3
  <2> QED
    BY <1>1, <1>2, <1>3, <2>1, MinIs
<1>4. CASE Len(s) >= 1 /\ s[Len(s)] = Unread
  <2>1. I = {}
    BY <1>1, <1>4
  <2> QED
    BY <1>2, <1>4, <2>1
<1> QED
  BY <1>3, <1>4

\* Reports of a memory and of a disk.
LEMMA UsageHolds == SysInv => UsageReported
<1> SUFFICES ASSUME SysInv PROVE UsageReported
  OBVIOUS
<1> DEFINE MemoryGood(t) ==
             LET used == told[t][1] - told[t][2]
             IN 1000 * used < LongMod => report[t] = (1000 * used) \div told[t][1]
           DiskGood(t, found) ==
             LET s == told[t][found]
             IN IF found = 0 THEN ret[t] = -1 /\ report[t] = 0 /\ Len(told[t]) = 3
                ELSE /\ ret[t] = 0
                     /\ report[t] - UsedShare(s) \in 0 .. 5
<1>0. UsageReported <=> \A t \in Threads :
        /\ Reported(t, "mem_popen") /\ ret[t] = 0 /\ Unread \notin ToSet(told[t]) => MemoryGood(t)
        /\ Reported(t, "disk_info") => DiskGood(t, FirstFound(told[t]))
  BY DEF UsageReported
<1>1. ASSUME NEW t \in Threads, Reported(t, "mem_popen"), ret[t] = 0, Unread \notin ToSet(told[t])
      PROVE  MemoryGood(t)
  <2> DEFINE s == told[t]
             a == s[1]
             b == s[2]
  <2>1. pc[t] = "return" /\ Op(t) = "mem_popen" /\ "mem_popen" \in SysOps /\ ToldAt(t) /\ s \in Seq(Heard)
    BY <1>1 DEF Reported, SysOps, SysInv
  <2>2. /\ MayBeTold("mem_popen", s) /\ Len(s) = 2
        /\ report[t] = IF MemTotal(s) > 0
                       THEN LongTenths([used |-> MemTotal(s) - MemAvail(s), free |-> MemAvail(s)]) ELSE 0
    BY <1>1, <2>1 DEF ToldAt, MayReport
  <2>3. a # Unread /\ b # Unread
    <3>1. 1 \in DOMAIN s /\ 2 \in DOMAIN s
      BY <2>1, <2>2
    <3> QED
      BY <1>1, <3>1 DEF ToSet
  <2>4. a \in Totals /\ b \in {m.free : m \in Memory}
    BY <2>2, <2>3 DEF MayBeTold
  <2>5. MemTotal(s) = a /\ MemAvail(s) = b
    BY <2>3 DEF MemTotal, MemAvail
  <2>6. a \in Nat \ {0} /\ b \in Nat
    BY <2>4, SysFacts DEF Totals, Space
  <2>7. report[t] = LongTenths([used |-> a - b, free |-> b])
    BY <2>2, <2>5, <2>6
  <2>10. b <= a
    <3>1. PICK m \in Memory : b = m.free
      BY <2>4
    <3>2. a = m.used + m.free
      BY <2>4, SysFacts DEF Totals
    <3> QED
      BY <3>1, <3>2, SysFacts DEF Space
  <2> HIDE DEF a, b
  <2>8. (a - b) + b = a
    BY <2>6
  <2>9. 1000 * (a - b) < LongMod => report[t] = (1000 * (a - b)) \div a
    <3> DEFINE z == [used |-> a - b, free |-> b]
    <3>1. z \in Space /\ z.used + z.free > 0
      BY <2>6, <2>8, <2>10 DEF Space
    <3>2. 1000 * (a - b) < LongMod => LongTenths(z) = UsedTenths(z)
      BY <3>1, LongReported
    <3>3. UsedTenths(z) = (1000 * (a - b)) \div a
      BY <2>8 DEF UsedTenths
    <3> QED
      BY <2>7, <3>2, <3>3
  <2> QED
    BY <2>9 DEF a, b
<1>2. ASSUME NEW t \in Threads, Reported(t, "disk_info"), NEW found,
             found = FirstFound(told[t])
      PROVE  DiskGood(t, found)
  <2> DEFINE s == told[t]
  <2>1. pc[t] = "return" /\ Op(t) = "disk_info" /\ "disk_info" \in SysOps /\ ToldAt(t) /\ s \in Seq(Heard)
    BY <1>2 DEF Reported, SysOps, SysInv
  <2>2. /\ MayBeTold("disk_info", s)
        /\ \/ Len(s) \in 1 .. 3 /\ s[Len(s)] # Unread /\ ret[t] = 0 /\ report[t] = DiskTenths(s[Len(s)])
           \/ Len(s) = 3 /\ s[3] = Unread /\ ret[t] = -1 /\ report[t] = 0
    BY <2>1 DEF ToldAt, MayReport
  <2> HIDE DEF s
  <2>3. \A i \in 1 .. Len(s) : s[i] \in Disks \cup {Unread} /\ (i < Len(s) => s[i] = Unread)
    BY <2>2 DEF MayBeTold
  <2>4. Len(s) \in Nat /\ \A i \in 1 .. Len(s) - 1 : s[i] = Unread
    BY <2>1, <2>3
  <2>5. found = IF s[Len(s)] # Unread THEN Len(s) ELSE 0
    <3>1. found = FirstFound(s)
      BY <1>2 DEF s
    <3>2. s \in Seq(Heard)
      BY <2>1
    <3>3. /\ Len(s) >= 1 /\ s[Len(s)] # Unread => FirstFound(s) = Len(s)
          /\ Len(s) >= 1 /\ s[Len(s)] = Unread => FirstFound(s) = 0
      BY <2>4, <3>2, FirstDisk
    <3> QED
      BY <2>2, <3>1, <3>3
  <2>6. CASE s[Len(s)] # Unread
    <3>1. Len(s) \in 1 .. 3 /\ ret[t] = 0 /\ report[t] = DiskTenths(s[Len(s)]) /\ found = Len(s)
      BY <2>2, <2>5, <2>6
    <3>2. s[found] \in Disks
      BY <2>3, <2>4, <2>6, <3>1
    <3>3. s[found] \in Space /\ s[found].used + s[found].free > 0
      BY <3>2, SysFacts DEF Disks
    <3>4. report[t] - UsedShare(s[found]) \in 0 .. 5
      <4>1. DiskShare(report[t], s[found])
        BY <3>1, <3>3, SharesReported, Zenon
      <4> QED
        BY <4>1 DEF DiskShare
    <3>5. ret[t] = 0 /\ found # 0
      BY <3>1
    <3> QED
      BY <3>4, <3>5, Zenon DEF s
  <2>7. CASE s[Len(s)] = Unread
    <3>1. Len(s) = 3 /\ ret[t] = -1 /\ report[t] = 0 /\ found = 0
      BY <2>2, <2>5, <2>7
    <3> QED
      BY <3>1 DEF s
  <2> QED
    BY <2>6, <2>7
<1>3. ASSUME NEW t \in Threads, Reported(t, "disk_info") PROVE DiskGood(t, FirstFound(told[t]))
  BY <1>2, <1>3 DEF DiskGood
<1> HIDE DEF MemoryGood, DiskGood
<1> QED
  BY <1>0, <1>1, <1>3

\* A memory is reported as what two commands have printed make it, and a disk as
\* the first of the three that can be measured, whatever the kernel answers.
THEOREM UsagesReported == Spec => []UsageReported
<1>1. SystemAt => UsageReported
  BY UsageHolds DEF SystemAt
<1> QED
  BY <1>1, SystemInvariant, PTL

----------------------------------------------------------------------------
(* Types. *)

\* A memory as two commands describe it, if they do.
LEMMA MemoryReported ==
    ASSUME NEW s \in Seq(Heard), MayBeTold("mem_popen", s), Len(s) = 2, MemTotal(s) > 0
    PROVE  LongTenths([used |-> MemTotal(s) - MemAvail(s), free |-> MemAvail(s)]) \in Percentage
<1> DEFINE a == MemTotal(s)
           b == MemAvail(s)
<1>1. s[1] \in Totals \cup {Unread} /\ s[2] \in {m.free : m \in Memory} \cup {Unread}
  BY DEF MayBeTold
<1>2. a \in Totals \ {0} /\ a \in Nat
  <2>1. s[1] # Unread
    BY DEF MemTotal
  <2> QED
    BY <1>1, <2>1, SysFacts DEF MemTotal, Totals, Space
<1>3. b \in 0 .. a
  <2>1. CASE s[2] = Unread
    BY <1>2, <2>1 DEF MemAvail
  <2>2. CASE s[2] # Unread
    <3>1. PICK m \in Memory : b = m.free
      BY <1>1, <2>2 DEF MemAvail
    <3>2. a = m.used + m.free
      BY <1>2, SysFacts DEF Totals
    <3> QED
      BY <3>1, <3>2, SysFacts DEF Space
  <2> QED
    BY <2>1, <2>2
<1> HIDE DEF a, b
<1> DEFINE z == [used |-> a - b, free |-> b]
<1>4. z \in Space /\ z.used + z.free > 0
  BY <1>2, <1>3 DEF Space
<1> HIDE DEF z
<1>5. LongTenths(z) \in Percentage
  BY <1>4, LongReported, Zenon
<1> QED
  BY <1>5 DEF a, b, z

\* The types of what the system resources have been told, and report.
LEMMA SysTyped == SysInv => SysTypeOK
<1> SUFFICES ASSUME SysInv, NEW t \in Threads
             PROVE  /\ Len(told[t]) \in 0 .. 3
                    /\ report[t] = Unread
                         \/ report[t] \in IF Op(t) = "cpu_info" THEN [Rows -> Int \cup {Unread}] ELSE 0 .. 1005
  BY DEF SysTypeOK
<1> DEFINE s == told[t]
<1>1. ToldAt(t) /\ s \in Seq(Heard)
  BY DEF SysInv
<1>2. Len(s) \in Nat /\ (s = <<>> => Len(s) = 0)
  BY <1>1
<1>6. Most(Op(t)) \in 1 .. 3
  BY DEF Most
<1> DEFINE n == Len(s)
<1>7. n \in Nat
  BY <1>2
<1> HIDE DEF n
<1>8. n <= Most(Op(t)) => n \in 0 .. 3
  <2> DEFINE m == Most(Op(t))
  <2>1. m \in 1 .. 3
    BY <1>6
  <2> HIDE DEF m
  <2>2. n <= m => n \in 0 .. 3
    BY <1>7, <2>1
  <2> QED
    BY <2>2 DEF m
<1>3. CASE Op(t) \notin SysOps
  BY <1>1, <1>2, <1>3 DEF ToldAt
<1>4. CASE Op(t) \in SysOps /\ pc[t] # "return"
  <2>1. n <= Most(Op(t)) /\ report[t] = Unread
    BY <1>1, <1>4 DEF ToldAt, n
  <2>2. n \in 0 .. 3
    BY <1>8, <2>1
  <2> QED
    BY <2>1, <2>2 DEF n
<1>5. CASE Op(t) \in SysOps /\ pc[t] = "return"
  <2>1. Len(s) <= Most(Op(t)) /\ MayBeTold(Op(t), s) /\ MayReport(Op(t), s, ret[t], report[t])
    BY <1>1, <1>5 DEF ToldAt
  <2>2. Len(s) \in 0 .. 3
    <3>1. n <= Most(Op(t))
      BY <2>1 DEF n
    <3>2. n \in 0 .. 3
      BY <1>8, <3>1
    <3> QED
      BY <3>2 DEF n
  <2> HIDE DEF s
  <2>3. CASE Op(t) = "cpu_info"
    <3>1. Len(s) = 2 /\ report[t] = CpuReport(s)
      BY <2>1, <2>3 DEF MayReport
    <3>2. ASSUME NEW k \in Rows, Unread \notin ToSet(s) PROVE BusyTenths(Stats(s[1])[k], Stats(s[2])[k]) \in Int
      <4>1. 1 \in DOMAIN s /\ 2 \in DOMAIN s
        BY <1>1, <3>1
      <4>2. s[1] # Unread /\ s[2] # Unread
        BY <3>2, <4>1 DEF ToSet
      <4>3. s[1] \in Reading /\ s[2] \in Reading
        BY <2>1, <2>3, <3>1, <4>2 DEF MayBeTold
      <4> QED
        BY <4>3, LoadNumber
    <3>3. report[t] \in [Rows -> Int \cup {Unread}]
      BY <3>1, <3>2 DEF CpuReport
    <3> QED
      BY <2>2, <2>3, <3>3 DEF s
  <2>4. CASE Op(t) = "mem_popen"
    <3>1. \/ report[t] = Unread
          \/ /\ Len(s) = 2
             /\ report[t] = IF MemTotal(s) > 0
                            THEN LongTenths([used |-> MemTotal(s) - MemAvail(s), free |-> MemAvail(s)]) ELSE 0
      BY <2>1, <2>4, Zenon DEF MayReport
    <3> DEFINE x == LongTenths([used |-> MemTotal(s) - MemAvail(s), free |-> MemAvail(s)])
    <3>2. Len(s) = 2 /\ MemTotal(s) > 0 => x \in Percentage
      BY <1>1, <2>1, <2>4, MemoryReported, Zenon
    <3> HIDE DEF x
    <3>4. report[t] = Unread \/ (Len(s) = 2 /\ report[t] = IF MemTotal(s) > 0 THEN x ELSE 0)
      BY <3>1 DEF x
    <3>3. report[t] = Unread \/ report[t] \in Percentage
      BY <3>2, <3>4 DEF Percentage
    <3> QED
      BY <2>2, <2>4, <3>3 DEF s, Percentage
  <2>5. CASE Op(t) = "mem_sysinfo"
    <3>1. report[t] = Unread \/ (Len(s) = 1 /\ s[1] # Unread /\ report[t] = UsedTenths(s[1]))
      BY <2>1, <2>5 DEF MayReport
    <3>2. Len(s) = 1 /\ s[1] # Unread => s[1] \in Space /\ s[1].used + s[1].free > 0
      BY <2>1, <2>5, SysFacts DEF MayBeTold
    <3>3. report[t] = Unread \/ report[t] \in Percentage
      BY <3>1, <3>2, SharesReported
    <3> QED
      BY <2>2, <2>5, <3>3 DEF s, Percentage
  <2>6. CASE Op(t) = "disk_info"
    <3>1. \/ Len(s) \in 1 .. 3 /\ s[Len(s)] # Unread /\ report[t] = DiskTenths(s[Len(s)])
          \/ report[t] = 0
      BY <2>1, <2>6, Zenon DEF MayReport
    <3>2. Len(s) \in 1 .. 3 /\ s[Len(s)] # Unread => s[Len(s)] \in Disks
      BY <2>1, <2>6 DEF MayBeTold
    <3>3. \A d \in Disks : DiskShare(DiskTenths(d), d)
      BY SysFacts, SharesReported DEF Disks
    <3>4. report[t] \in 0 .. 1005
      <4>1. CASE Len(s) \in 1 .. 3 /\ s[Len(s)] # Unread /\ report[t] = DiskTenths(s[Len(s)])
        <5>1. s[Len(s)] \in Disks
          BY <3>2, <4>1, Zenon
        <5>2. DiskShare(report[t], s[Len(s)])
          BY <3>3, <4>1, <5>1, Zenon
        <5> QED
          BY <5>2 DEF DiskShare
      <4>2. CASE report[t] = 0
        BY <4>2
      <4> QED
        BY <3>1, <4>1, <4>2
    <3> QED
      BY <2>2, <2>6, <3>4 DEF s
  <2> QED
    BY <1>5, <2>3, <2>4, <2>5, <2>6 DEF SysOps
<1> QED
  BY <1>3, <1>4, <1>5

\* The status of the proxy, what it has done, and the polls of the SerDes.
RestType ==
    /\ proxy \in {"ok", "failed"}
    /\ moved \in [Threads -> BOOLEAN]
    /\ polls \in [Threads -> 0 .. PollMax]

\* They have these types at first.
LEMMA RestInit == Init => RestType
BY PcieAssumption DEF Init, DmaInit, PcieInit, RestType

\* Nothing but the poll counts the polls, and it stops at the limit.
LEMMA RestNext == RestType /\ [Next]_vars => RestType'
<1> SUFFICES ASSUME RestType, [Next]_vars PROVE RestType'
  OBVIOUS
<1>1. CASE UNCHANGED <<proxy, moved, polls>>
  BY <1>1 DEF RestType
<1>2. ASSUME NEW t \in Threads, DmaNext(t), UNCHANGED pcie PROVE RestType'
  <2>1. CASE ProxyIoctl(t)
    <3>1. moved' = moved \/ \E b \in BOOLEAN : moved' = [moved EXCEPT ![t] = b]
      BY <2>1, Zenon DEF ProxyIoctl
    <3>2. proxy' \in {"ok", "failed"} /\ polls' = polls
      BY <1>2, <2>1 DEF ProxyIoctl, RestType, pcie
    <3> QED
      BY <3>1, <3>2 DEF RestType
  <2>2. CASE DmaReturn(t)
    BY <1>2, <2>2 DEF DmaReturn, RestType, pcie
  <2>3. CASE ~ProxyIoctl(t) /\ ~DmaReturn(t)
    BY <1>1, <1>2, <2>3 DEF DmaNext, DmaCall, DmaOpen, DmaClose, DmaCheck, DmaAsk, MemOpen, MemMap, MemClose,
       PrintOpen, PrintClose, DmaMap, ProxyStatus, ProxyUnmap, dma, pcie
  <2> QED
    BY <2>1, <2>2, <2>3
<1>3. ASSUME NEW t \in Threads, PcieNext(t), UNCHANGED dma PROVE RestType'
  <2>1. CASE UpPoll(t)
    <3>1. PollMax \in Nat /\ polls[t] \in 0 .. PollMax
      BY PcieAssumption DEF RestType
    <3>2. \E n \in 0 .. PollMax : polls' = [polls EXCEPT ![t] = n]
      BY <2>1, <3>1 DEF UpPoll, TooMany, Counted
    <3> QED
      BY <1>3, <3>2 DEF RestType, dma
  <2>2. CASE ~UpPoll(t)
    <3>1. polls' = polls
      BY <1>3, <2>2 DEF PcieNext, PcieCall, PcieReturn, HotReset, HotCheck, HotRead, HotSet, HotClear, Bus, BusOpen,
         BusIoctl, BusClose, Gid, GidInit, GidMap, GidMutex, GidExit, GidClose, BringUp, UpOpen, UpMap, UpSerdes, UpCoreOff,
         UpCoreOn, UpWindows, UpMaster, UpLink, UpUnmap, UpClose, pcie
    <3> QED
      BY <1>1, <1>3, <3>1 DEF dma
  <2> QED
    BY <2>1, <2>2
<1>4. ASSUME NEW t \in Threads, Step(t) PROVE RestType'
  BY <1>1, <1>2, <1>3, <1>4 DEF Step, dma, pcie
<1>5. CASE SerdesReady /\ UNCHANGED dma
  BY <1>1, <1>5 DEF SerdesReady, dma
<1> QED
  BY <1>1, <1>4, <1>5 DEF Next, vars, dma, pcie

\* In a process of finitely many threads all state of the device functions has
\* its type, whatever they call: no poll runs past its limit, no value that is
\* reported is out of its range and no descriptor is opened beyond the limit or
\* closed twice.
THEOREM CallsTyped == IsFiniteSet(Threads) /\ Spec => []TypeOK
<1>1. CallInv /\ HandleInv /\ FdInv /\ SystemAt /\ TransferInv /\ CheckedInv /\ HotInv /\ BridgeInv /\ RestType => TypeOK
  <2> SUFFICES ASSUME CallInv, HandleInv, FdInv, SystemAt, TransferInv, CheckedInv, HotInv, BridgeInv, RestType
               PROVE  TypeOK
    OBVIOUS
  <2>1. /\ calls \in Programs /\ ret \in [Threads -> -1 .. 1] /\ held \in [Threads -> SUBSET Resources]
        /\ \A t \in Threads : req[t] \in calls \cup {NoCall}
    BY DEF CallInv, ProcessType
  <2>2. fds \in 0 .. MaxFds
    BY DEF FdInv
  <2>3. starved \in BOOLEAN
    BY DEF SystemAt
  <2>4. I2cTypeOK
    BY DEF TransferInv
  <2>5. DmaTypeOK
    BY DEF HandleInv, CheckedInv, RestType, DmaTypeOK
  <2>6. PcieTypeOK
    BY DEF HotInv, BridgeInv, BridgeType, RestType, PcieTypeOK
  <2>7. SysTypeOK
    BY SysTyped DEF SystemAt
  <2> QED
    BY <2>1, <2>2, <2>3, <2>4, <2>5, <2>6, <2>7 DEF TypeOK
<1>2. Spec => [](CheckedInv /\ HotInv /\ BridgeInv /\ RestType)
  BY CheckedInit, CheckedNext, HotInit, HotNext, BridgeInit, BridgeNext, RestInit, RestNext, CallsPlaced, PTL DEF Spec
<1> QED
  BY <1>1, <1>2, DescriptorInvariant, SystemInvariant, TransferInvariant, PTL
=============================================================================
