------------------------------- MODULE EosDma -------------------------------
(***************************************************************************)
(* eos_cpu_dma.cpp and eos_cpu_dma_proxy.cpp.  The caller opens a device   *)
(* and has the driver do one thing with each call; a list of addresses and *)
(* lengths is checked by the library before the driver gets it.  The       *)
(* transfers of the proxy map an area they share with the driver, let it   *)
(* work and read its status there.  The drivers are external: they refuse  *)
(* a call, or do it.  A list is the caller's: it is read once for the sum  *)
(* and once for the copy, and only a caller that changes it during the     *)
(* call would make a difference, which no caller here does.                *)
(***************************************************************************)
EXTENDS EosProcess, SequencesExt

CONSTANTS
    MaxBlock,     \* EOS_DMA_MAX_BLOCK, EOS_DMA_PROXY_MAX_BLOCK: 10
    EngineLen,    \* EOS_DMA_MAX_LEN: 0xa000
    ProxyLen,     \* EOS_DMA_PROXY_MAX_LEN: 2^20
    WordMod,      \* 2^32: the lengths of a list are added in this width
    MaxHandles    \* handles the caller keeps open at a time

Channels == 0 .. 1  \* those of EOS_DMA_MAX_CHANNEL
NoArgs   == <<-1>>  \* the driver has been given no list

\* list: the lengths; dir: direction; ch: the channel, 0 in the functions without.
OpenOps    == {"dma_open", "proxy_open"}
CloseOps   == {"dma_close", "proxy_close"}
ProxyOps   == {"proxy_open", "proxy_close", "proxy_addr", "proxy_sg", "proxy_memcpy"}
DmaOps     == ProxyOps \cup {"dma_open", "dma_close", "dma_init", "dma_start", "dma_addr",
                             "dma_status", "dma_print"}
DmaRequest == [op : DmaOps, list : Seq(Nat), dir : Nat, ch : Int]

ASSUME DmaAssumption ==
    {MaxBlock, EngineLen, ProxyLen, MaxHandles} \subseteq Nat /\ WordMod \in Nat \ {0}

VARIABLES
    handles,  \* handles[d]: the descriptors of device d the caller has
    args,     \* args[c]: the list the engine has for channel c
    running,  \* running[c]: the list the engine has been started with
    proxy,    \* the status in the area that is shared with the proxy
    moved     \* moved[t] (history): the proxy has done the transfer of t

dma == <<handles, args, running, proxy, moved>>

Devices == {"engine", "proxy"}
Device(op) == IF op \in ProxyOps THEN "proxy" ELSE "engine"

DmaInit ==
    /\ handles = [d \in Devices |-> 0]
    /\ args = [c \in Channels |-> NoArgs]
    /\ running = [c \in Channels |-> NoArgs]
    /\ proxy = "ok"
    /\ moved = [t \in Threads |-> FALSE]

Uses(op, d) == op \in DmaOps \ OpenOps /\ op # "dma_print" /\ Device(op) = d

FirstDma(op) ==
    CASE op \in OpenOps                   -> "dma_open"
      [] op \in CloseOps                  -> "dma_close"
      [] op \in {"dma_init", "proxy_sg", "proxy_memcpy"} -> "dma_check"
      [] op = "proxy_addr"                -> "dma_map"
      [] op = "dma_print"                 -> "print_open"
      [] OTHER                            -> "dma_ask"

\* A caller has a handle when it uses one, and closes it when nobody does.
DmaCall(t) ==
    /\ \E r \in calls :
         /\ r.op \in DmaOps
         /\ r.op \in OpenOps => /\ handles[Device(r.op)] < MaxHandles
                               /\ \A u \in Threads : Op(u) # r.op
         /\ \A d \in Devices : Uses(r.op, d) =>
              /\ handles[d] > 0
              /\ \A u \in Threads : ~(Uses(Op(u), d) /\ (Op(u) \in CloseOps \/ r.op \in CloseOps))
         /\ Begin(t, r, FirstDma(r.op))
    /\ UNCHANGED dma

DmaOpen(t) ==
    /\ pc[t] = "dma_open"
    /\ Open(t, "handle", "return", "return")
    /\ UNCHANGED dma

DmaClose(t) ==
    /\ pc[t] = "dma_close"
    /\ Close(t, "handle", "return")
    /\ handles' = [handles EXCEPT ![Device(Op(t))] = @ - 1]
    /\ UNCHANGED <<args, running, proxy, moved>>
----------------------------------------------------------------------------
(* The arguments of a transfer. *)

Total(list) == FoldFunction(+, 0, list)
Limit(op) == IF Device(op) = "proxy" THEN ProxyLen ELSE EngineLen

\* all_length is an unsigned int, size of proxy_memcpy is not.
Summed(r) == IF r.op = "proxy_memcpy" THEN Total(r.list) ELSE Total(r.list) % WordMod

TooLongOnlyIfMany(r) == Len(r.list) > MaxBlock /\ Summed(r) > Limit(r.op)  \* variant
Refused(r) ==
    \/ Len(r.list) > MaxBlock
    \/ Summed(r) > Limit(r.op)
    \/ Device(r.op) = "proxy" /\ r.dir \notin {0, 1}

\* The result of a transfer of the proxy is -1 from here on.
DmaCheck(t) ==
    /\ pc[t] = "dma_check"
    /\ \/ Refused(req[t]) /\ MoveWith(t, "return", -1)
       \/ ~Refused(req[t]) /\ Op(t) = "dma_init" /\ Move(t, "dma_ask")
       \/ ~Refused(req[t]) /\ Op(t) # "dma_init" /\ MoveWith(t, "dma_map", -1)
    /\ UNCHANGED dma

\* A call of the engine: a driver that refuses it, or does it.  The status is
\* what the driver says, or, if the read fails, what the variable held.
DmaAsk(t) ==
    /\ pc[t] = "dma_ask"
    /\ LET c == req[t].ch IN
       \/ /\ Op(t) # "dma_status"
          /\ MoveWith(t, "return", -1)
          /\ UNCHANGED <<args, running>>
       \/ /\ Op(t) = "dma_init" /\ c \in Channels
          /\ args' = [args EXCEPT ![c] = req[t].list]
          /\ running' = running
          /\ Move(t, "return")
       \/ /\ Op(t) = "dma_start" /\ c \in Channels  \* which the channel variant checks itself
          /\ running' = [running EXCEPT ![c] = args[c]]
          /\ args' = args
          /\ Move(t, "return")
       \/ /\ Op(t) = "dma_addr"
          /\ Move(t, "mem_open")
          /\ UNCHANGED <<args, running>>
       \/ /\ Op(t) = "dma_status"
          /\ \E status \in {0, 1} : MoveWith(t, "return", status)
          /\ UNCHANGED <<args, running>>
    /\ UNCHANGED <<handles, proxy, moved>>

\* eos_get_dma_buffer_addr maps /dev/mem and keeps its descriptor.
MemOpen(t) ==
    /\ pc[t] = "mem_open"
    /\ Open(t, "mem", "mem_map", "return")
    /\ UNCHANGED dma

MemMap(t) ==
    /\ pc[t] = "mem_map"
    /\ Take(t, {"view"}, "return") \/ MoveWith(t, "mem_close", -1)
    /\ UNCHANGED dma

MemClose(t) ==
    /\ pc[t] = "mem_close"
    /\ Close(t, "mem", "return")
    /\ UNCHANGED dma

\* eos_print_dma_data has a descriptor of its own and ignores the ioctl.
PrintOpen(t) ==
    /\ pc[t] = "print_open"
    /\ Open(t, "fd", "print_close", "return")
    /\ UNCHANGED dma

PrintClose(t) ==
    /\ pc[t] = "print_close"
    /\ Close(t, "fd", "return")
    /\ UNCHANGED dma
----------------------------------------------------------------------------
(* The proxy. *)

DmaMap(t) ==
    /\ pc[t] = "dma_map"
    /\ \/ MoveWith(t, "return", -1)
       \/ Op(t) = "proxy_addr" /\ Take(t, {"view"}, "return")
       \/ Op(t) # "proxy_addr" /\ Take(t, {"map"}, "proxy_ioctl")
    /\ UNCHANGED dma

\* The ioctl, whose result is ignored: it is refused and the status stays as
\* another transfer has left it, or the proxy works and sets the status.
ProxyIoctl(t) ==
    /\ pc[t] = "proxy_ioctl"
    /\ \/ proxy' = proxy /\ moved' = moved
       \/ \E s \in {"ok", "failed"} :
            /\ proxy' = s
            /\ moved' = [moved EXCEPT ![t] = (s = "ok")]
    /\ Move(t, "proxy_status")
    /\ UNCHANGED <<handles, args, running>>

\* A bad status sets the result to -1 once more; the other leaves it.
ProxyStatus(t) ==
    /\ pc[t] = "proxy_status"
    /\ IF proxy # "ok" THEN MoveWith(t, "proxy_unmap", -1) ELSE Move(t, "proxy_unmap")
    /\ UNCHANGED dma

ProxyUnmap(t) ==
    /\ pc[t] = "proxy_unmap"
    /\ Give(t, {"map"}, "return")
    /\ UNCHANGED dma

DmaReturn(t) ==
    /\ Op(t) \in DmaOps /\ Return(t)
    /\ handles' = [handles EXCEPT ![Device(Op(t))] = @ + (IF "handle" \in held[t] THEN 1 ELSE 0)]
    /\ moved' = [moved EXCEPT ![t] = FALSE]
    /\ UNCHANGED <<args, running, proxy>>

DmaNext(t) ==
    \/ DmaCall(t) \/ DmaOpen(t) \/ DmaClose(t) \/ DmaCheck(t) \/ DmaAsk(t)
    \/ MemOpen(t) \/ MemMap(t) \/ MemClose(t) \/ PrintOpen(t) \/ PrintClose(t)
    \/ DmaMap(t) \/ ProxyIoctl(t) \/ ProxyStatus(t) \/ ProxyUnmap(t) \/ DmaReturn(t)
----------------------------------------------------------------------------
(* Properties. *)

\* Whatever list the engine is given and runs, and whatever a thread is about
\* to give the proxy, has at most ten blocks and fits in the buffer: also a
\* list that another thread has set since.  The check adds the lengths in 32
\* bits: a list whose lengths add up to more is excepted.
Fits(list, limit) == Len(list) <= MaxBlock /\ (Total(list) < WordMod => Total(list) <= limit)
DmaFits ==
    /\ \A c \in Channels : \A list \in {args[c], running[c]} \ {NoArgs} : Fits(list, EngineLen)
    /\ \A t \in Threads : pc[t] = "proxy_ioctl" => Fits(req[t].list, ProxyLen)

\* eos_cpu_dma_proxy.cpp says of both transfers that they return 0 for success.
ProxyResult == \A t \in Threads : pc[t] = "return" /\ moved[t] => ret[t] = 0

DmaTypeOK ==
    /\ handles \in [Devices -> 0 .. MaxHandles]
    /\ args \in [Channels -> Seq(Nat) \cup {NoArgs}]
    /\ running \in [Channels -> Seq(Nat) \cup {NoArgs}]
    /\ proxy \in {"ok", "failed"}
    /\ moved \in [Threads -> BOOLEAN]
=============================================================================
