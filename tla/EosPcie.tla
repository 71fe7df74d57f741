------------------------------ MODULE EosPcie ------------------------------
(***************************************************************************)
(* The PCI Express functions and eos_get_gid: the hot reset of a           *)
(* controller of P204X by three accesses to its register, each atomic (as  *)
(* EosMmap shows of eos_cpu_reg_read and eos_cpu_reg_write); scanning and  *)
(* removing a bus through a driver; the bring-up of the controller of      *)
(* MPC8308; and the group id, read through a mapping of its own.  The      *)
(* registers, and the device behind them, are external.                    *)
(***************************************************************************)
EXTENDS EosProcess

CONSTANTS
    Controllers,  \* the controllers of P204X: 0 .. 2
    NumMod,       \* 2^32, the width of a controller number
    PollMax       \* 100: the reads of the SerDes status before a give-up

PcieOps == {"hot_reset", "scan", "remove", "bring_up", "gid"}
PcieRequest == [op : PcieOps, num : Nat]

ASSUME PcieAssumption == NumMod \in Nat /\ PollMax \in Nat /\ Controllers \subseteq Nat

VARIABLES
    ctrl,    \* ctrl[c]: register 0xf00 of a controller: bit 27, and whether the others
             \* are what they were
    copy,    \* copy[t]: pcie_reset_data
    bridge,  \* the controller of MPC8308
    polls    \* polls[t]: i

pcie == <<ctrl, copy, bridge, polls>>

Word   == [hot : BOOLEAN, rest : BOOLEAN]
Idle   == [hot |-> FALSE, rest |-> TRUE]

\* serdes: register 0xe3020; core: 0x140 holds the controller out of reset;
\* windows: 0x9840 to 0x9e9c; master: command register 0x9004.
PowerOn == [serdes |-> "off", core |-> TRUE, windows |-> FALSE, master |-> FALSE]

PcieInit ==
    /\ ctrl = [c \in Controllers |-> Idle]
    /\ copy = [t \in Threads |-> Idle]
    /\ bridge = PowerOn
    /\ polls = [t \in Threads |-> 0]

FirstPcie(op) == CASE op = "hot_reset"         -> "hot_check"
                   [] op \in {"scan", "remove"} -> "bus_open"
                   [] op = "bring_up"          -> "up_open"
                   [] OTHER                    -> "gid_init"

\* reset_pcie_controller, whose numbers begin with 1.
ResetController(n) == [op |-> "hot_reset", num |-> (n - 1) % NumMod]

\* The controller of MPC8308 is brought up by one thread at a time.
PcieCall(t) ==
    /\ \E r \in calls :
         /\ r.op \in PcieOps
         /\ r.op = "bring_up" => \A u \in Threads : Op(u) # "bring_up"
         /\ Begin(t, r, FirstPcie(r.op))
    /\ UNCHANGED pcie
----------------------------------------------------------------------------
(* Hot reset of P204X. *)

HotCheck(t) ==
    /\ pc[t] = "hot_check"
    /\ IF req[t].num \in Controllers THEN Move(t, "hot_read") ELSE MoveWith(t, "return", -1)
    /\ UNCHANGED pcie

HotRead(t) ==
    /\ pc[t] = "hot_read"
    /\ copy' = [copy EXCEPT ![t] = ctrl[req[t].num]]
    /\ Move(t, "hot_set")
    /\ UNCHANGED <<ctrl, bridge, polls>>

HotSet(t) ==
    /\ pc[t] = "hot_set"
    /\ copy' = [copy EXCEPT ![t].hot = TRUE]
    /\ ctrl' = [ctrl EXCEPT ![req[t].num] = copy'[t]]
    /\ Move(t, "hot_clear")
    /\ UNCHANGED <<bridge, polls>>

KeepsBit(w) == [w EXCEPT !.rest = FALSE]  \* variant: & (1 << 27)
ClearsBit(w) == [w EXCEPT !.hot = FALSE]

HotClear(t) ==
    /\ pc[t] = "hot_clear"
    /\ ctrl' = [ctrl EXCEPT ![req[t].num] = ClearsBit(copy[t])]
    /\ copy' = [copy EXCEPT ![t] = Idle]
    /\ Move(t, "return")
    /\ UNCHANGED <<bridge, polls>>
----------------------------------------------------------------------------
(* eos_scan_pcidev and eos_remove_pcidev. *)

BusOpen(t) ==
    /\ pc[t] = "bus_open"
    /\ Open(t, "fd", "bus_ioctl", "return")
    /\ UNCHANGED pcie

\* The result is that of the driver.
BusIoctl(t) ==
    /\ pc[t] = "bus_ioctl"
    /\ \E v \in {-1, 0, 1} : MoveWith(t, "bus_close", v)
    /\ UNCHANGED pcie

BusClose(t) ==
    /\ pc[t] = "bus_close"
    /\ Close(t, "fd", "return")
    /\ UNCHANGED pcie
----------------------------------------------------------------------------
(* eos_minimpc8308_reset_pcie. *)

UpOpen(t) ==
    /\ pc[t] = "up_open"
    /\ Open(t, "mem", "up_map", "return")
    /\ UNCHANGED pcie

\* A failed mmap returns with the descriptor open.
UpMap(t) ==
    /\ pc[t] = "up_map"
    /\ Take(t, {"map"}, "up_serdes") \/ MoveWith(t, "return", -1)
    /\ UNCHANGED pcie

\* A SerDes that is ready may stay so.
UpSerdes(t) ==
    /\ pc[t] = "up_serdes"
    /\ \E s \in {"starting", bridge.serdes} \ {"off"} : bridge' = [bridge EXCEPT !.serdes = s]
    /\ Move(t, "up_poll")
    /\ UNCHANGED <<ctrl, copy, polls>>

SerdesReady ==
    /\ bridge.serdes = "starting"
    /\ bridge' = [bridge EXCEPT !.serdes = "ready"]
    /\ UNCHANGED <<ctrl, copy, polls, process>>

EndsPoll(t) == bridge.serdes # "off"  \* variant: the bit that starts the reset is tested
PollOver(t) == bridge.serdes = "ready"

PollsForEver(n) == FALSE  \* variant: the reads are not counted
TooMany(n) == n > PollMax
NotCounted(n) == n  \* variant: i is not advanced
Counted(n) == n + 1

\* while (bit 30 is not set) { read again; if (++i > 100) return -1 }
UpPoll(t) ==
    /\ pc[t] = "up_poll"
    /\ \/ /\ PollOver(t)
          /\ polls' = [polls EXCEPT ![t] = 0]
          /\ Move(t, "up_core_off")
       \/ /\ ~PollOver(t) /\ TooMany(Counted(polls[t]))
          /\ polls' = [polls EXCEPT ![t] = 0]
          /\ MoveWith(t, "return", -1)
       \/ /\ ~PollOver(t) /\ ~TooMany(Counted(polls[t]))
          /\ polls' = [polls EXCEPT ![t] = Counted(@)]
          /\ Move(t, "up_poll")
    /\ UNCHANGED <<ctrl, copy, bridge>>

\* The controller in reset loses its configuration.
UpCoreOff(t) ==
    /\ pc[t] = "up_core_off"
    /\ bridge' = [bridge EXCEPT !.core = FALSE, !.windows = FALSE, !.master = FALSE]
    /\ Move(t, "up_core_on")
    /\ UNCHANGED <<ctrl, copy, polls>>

UpCoreOn(t) ==
    /\ pc[t] = "up_core_on"
    /\ bridge' = [bridge EXCEPT !.core = TRUE]
    /\ Move(t, "up_windows")
    /\ UNCHANGED <<ctrl, copy, polls>>

UpWindows(t) ==
    /\ pc[t] = "up_windows"
    /\ bridge' = [bridge EXCEPT !.windows = @ \/ bridge.core]
    /\ Move(t, "up_master")
    /\ UNCHANGED <<ctrl, copy, polls>>

UpMaster(t) ==
    /\ pc[t] = "up_master"
    /\ bridge' = [bridge EXCEPT !.master = @ \/ bridge.core]
    /\ Move(t, "up_link")
    /\ UNCHANGED <<ctrl, copy, polls>>

\* Without a link the function returns with everything open.
UpLink(t) ==
    /\ pc[t] = "up_link"
    /\ Move(t, "up_unmap") \/ MoveWith(t, "return", -1)
    /\ UNCHANGED pcie

\* Whether munmap fails is not asked.
UpUnmap(t) ==
    /\ pc[t] = "up_unmap"
    /\ Give(t, {"map"}, "up_close") \/ Move(t, "up_close")
    /\ UNCHANGED pcie

UpClose(t) ==
    /\ pc[t] = "up_close"
    /\ Close(t, "mem", "return")
    /\ UNCHANGED pcie
----------------------------------------------------------------------------
(* eos_get_gid of MPC8308: eos_mmap_init, one read, eos_mmap_exit. *)

\* malloc fails, open fails (both leave nothing), or there is a descriptor.
GidInit(t) ==
    /\ pc[t] = "gid_init"
    /\ Open(t, "fd", "gid_map", "return")
    /\ UNCHANGED pcie

GidMap(t) ==
    /\ pc[t] = "gid_map"
    /\ Take(t, {"map", "unit"}, "gid_mutex") \/ MoveWith(t, "gid_close", -1)
    /\ UNCHANGED pcie

\* A failing pthread_mutex_init returns with everything open.
GidMutex(t) ==
    /\ pc[t] = "gid_mutex"
    /\ Move(t, "gid_exit") \/ MoveWith(t, "return", -1)
    /\ UNCHANGED pcie

\* munmap; when it fails eos_mmap_exit gives nothing back, which eos_get_gid
\* does not notice.
GidExit(t) ==
    /\ pc[t] = "gid_exit"
    /\ Give(t, {"map", "unit"}, "gid_close") \/ Move(t, "return")
    /\ UNCHANGED pcie

GidClose(t) ==
    /\ pc[t] = "gid_close"
    /\ Close(t, "fd", "return")
    /\ UNCHANGED pcie

PcieReturn(t) ==
    /\ Op(t) \in PcieOps /\ Return(t)
    /\ UNCHANGED pcie

HotReset(t) == HotCheck(t) \/ HotRead(t) \/ HotSet(t) \/ HotClear(t)
Bus(t)      == BusOpen(t) \/ BusIoctl(t) \/ BusClose(t)
BringUp(t)  == \/ UpOpen(t) \/ UpMap(t) \/ UpSerdes(t) \/ UpPoll(t) \/ UpCoreOff(t)
               \/ UpCoreOn(t) \/ UpWindows(t) \/ UpMaster(t) \/ UpLink(t)
               \/ UpUnmap(t) \/ UpClose(t)
Gid(t)      == GidInit(t) \/ GidMap(t) \/ GidMutex(t) \/ GidExit(t) \/ GidClose(t)

PcieNext(t) ==
    PcieCall(t) \/ HotReset(t) \/ Bus(t) \/ BringUp(t) \/ Gid(t) \/ PcieReturn(t)
----------------------------------------------------------------------------
(* Properties. *)

\* Hot resets, also several of one controller at the same time, end with the
\* controller out of reset and the other bits of its register as they were.
HotResetEnds ==
    \A c \in Controllers :
        /\ ctrl[c].rest
        /\ ctrl[c].hot => \E t \in Threads : pc[t] = "hot_clear" /\ req[t].num = c

\* A bring-up that reports success leaves a controller that runs on a ready
\* SerDes and is configured, whatever an earlier one that failed has left.
BringUpConfigures ==
    \A t \in Threads : Op(t) = "bring_up" /\ pc[t] = "return" /\ ret[t] = 0 =>
        bridge = [serdes |-> "ready", core |-> TRUE, windows |-> TRUE, master |-> TRUE]

PcieTypeOK ==
    /\ ctrl \in [Controllers -> Word]
    /\ copy \in [Threads -> Word]
    /\ bridge \in [serdes : {"off", "starting", "ready"}, core : BOOLEAN, windows : BOOLEAN,
                   master : BOOLEAN]
    /\ polls \in [Threads -> 0 .. PollMax]
=============================================================================
