----------------------------- MODULE EosSysRes -----------------------------
(***************************************************************************)
(* eos_get_sys_resoure.cpp: the load of the CPUs, from two readings of     *)
(* /proc/stat a second apart; the use of the memory, which a LS1021 asks   *)
(* two commands for and the others sysinfo; and the use of the first of    *)
(* three disks that can be measured.  What a value is worth is all in what *)
(* the kernel, which is external, has told the call (told).  A report is   *)
(* in tenths of a percent; the rounding of floats is not modelled.         *)
(***************************************************************************)
EXTENDS EosProcess, SequencesExt

CONSTANTS
    NumCpus,       \* BMU_MAX_CPU_NUM: CPUs that are configured
    CounterMod,    \* 2^32: the counters of older kernels have this width
    Counters,      \* where the counters of a CPU may stand at the first reading
    Elapsed,       \* what may be added to them in a second
    LongMod,       \* 2^32 on LS1021: the width of an unsigned long
    Memory,        \* what the kernel may say of the memory, used and free
    Spaces,        \* what it may say of a disk, used and available
    Unread         \* (of a sample) uninitialised; (of a report) not written

SysOps     == {"cpu_info", "mem_popen", "mem_sysinfo", "disk_info"}
SysRequest == [op : SysOps]

Cpus  == 1 .. NumCpus
Rows  == 0 .. NumCpus           \* the line of all CPUs, and the lines of those online
Ticks == [idle : Nat, busy : Nat]  \* busy: the other counters that are added up
Space == [used : Nat, free : Nat]

\* The arrays of eos_get_cpu_info are as large as the CPUs of the build.  What a
\* second adds to the counters of all CPUs together is less than their width, and
\* a machine has memory.  A counter does not go back but by a wrap; a kernel that
\* corrects its idle time downwards is not one of these.
ASSUME SysAssumption ==
    /\ NumCpus \in 1 .. 4 /\ {CounterMod, LongMod} \subseteq Nat \ {0}
    /\ Counters \cup Elapsed \subseteq Ticks
    /\ Memory \subseteq Space /\ Spaces \subseteq Space
    /\ \A c \in Counters : c.idle < CounterMod /\ c.busy < CounterMod
    /\ \A add \in [Cpus -> Elapsed] :
         FoldFunction(+, 0, [c \in Cpus |-> add[c].idle])
           + FoldFunction(+, 0, [c \in Cpus |-> add[c].busy]) < CounterMod
    /\ \A m, n \in Memory : m.used + m.free = n.used + n.free /\ m.used + m.free > 0

VARIABLES
    told,   \* told[t]: what the kernel has told the call of t, Unread where it has not
    report  \* report[t]: what the caller of t gets

sys == <<told, report>>

SysInit ==
    /\ told = [t \in Threads |-> <<>>]
    /\ report = [t \in Threads |-> Unread]

Hears(t, x) == told' = [told EXCEPT ![t] = Append(@, x)]
Reports(t, x) == report' = [report EXCEPT ![t] = x]

SysCall(t) ==
    /\ \E r \in calls :
         r.op \in SysOps /\ Begin(t, r, IF r.op = "mem_sysinfo" THEN "sys_ask" ELSE "sys_open")
    /\ UNCHANGED sys

\* fopen, setmntent or the first end of the pipe of popen.  A /proc/stat that
\* cannot be opened leaves the sample as it was, a mount table a disk that is not
\* found; a failing popen ends the call.
Popens(t) == Op(t) = "mem_popen"
SysOpen(t) ==
    /\ pc[t] = "sys_open"
    /\ Open(t, "fd", IF Popens(t) THEN "sys_pipe" ELSE "sys_ask", IF Popens(t) THEN "return" ELSE "sys_next")
    /\ IF fds' = fds THEN Hears(t, Unread) ELSE told' = told
    /\ report' = report

\* The other end, which the command gets.  Without it, or without a process for
\* the command, the first one is closed.
SysPipe(t) ==
    /\ pc[t] = "sys_pipe"
    /\ Open(t, "pipe", "sys_spawn", "sys_close")
    /\ IF fds' = fds THEN Hears(t, Unread) ELSE told' = told
    /\ report' = report

SysSpawn(t) ==
    /\ pc[t] = "sys_spawn"
    /\ Close(t, "pipe", "sys_ask")
    /\ UNCHANGED sys

Later(r, add) ==
    [c \in Cpus |-> [idle |-> (r[c].idle + add[c].idle) % CounterMod,
                     busy |-> (r[c].busy + add[c].busy) % CounterMod]]

\* A reading: the CPUs online, and the counters of each.  The first CPU stays.
Readings(t) ==
    [on : {o \in SUBSET Cpus : 1 \in o},
     cnt : IF told[t] = <<>> \/ told[t] = <<Unread>> THEN [Cpus -> Counters]
           ELSE {Later(told[t][1].cnt, add) : add \in [Cpus -> Elapsed]}]

\* A command that prints nothing, a disk that is not mounted, whose statfs fails
\* or which has no blocks: Unread.
MayHear(t) ==
    CASE Op(t) = "cpu_info"    -> Readings(t)
      [] Op(t) = "mem_popen"   -> {IF told[t] = <<>> THEN m.used + m.free ELSE m.free : m \in Memory}
                                    \cup {Unread}
      [] Op(t) = "mem_sysinfo" -> Memory \cup {Unread}
      [] OTHER                 -> {s \in Spaces : s.used + s.free > 0} \cup {Unread}

SysAsk(t) ==
    /\ pc[t] = "sys_ask"
    /\ \E x \in MayHear(t) : Hears(t, x)
    /\ Move(t, IF Op(t) = "mem_sysinfo" THEN "sys_report" ELSE "sys_close")
    /\ report' = report

SysClose(t) ==
    /\ pc[t] = "sys_close"
    /\ Close(t, "fd", IF Popens(t) /\ ret[t] = -1 THEN "return" ELSE "sys_next")
    /\ UNCHANGED sys

\* Variant: the disks are all asked, and the last one that answers is reported.
AskedAll(t) == Len(told[t]) = IF Op(t) = "disk_info" THEN 3 ELSE 2
AskedEnough(t) ==
    IF Op(t) = "disk_info" THEN Len(told[t]) = 3 \/ Last(told[t]) # Unread ELSE Len(told[t]) = 2

SysMore(t) ==
    /\ pc[t] = "sys_next"
    /\ Move(t, IF AskedEnough(t) THEN "sys_report" ELSE "sys_open")
    /\ UNCHANGED sys
----------------------------------------------------------------------------
(* The reports. *)

\* get_cpu_time: the lines of /proc/stat, which come in the order of the CPUs, are
\* stored in the order they come.
AddTicks(f) == FoldFunction(+, 0, f) % CounterMod
AllCpus(r) == [idle |-> AddTicks([c \in Cpus |-> r.cnt[c].idle]),
               busy |-> AddTicks([c \in Cpus |-> r.cnt[c].busy])]
Line(r, c) == Cardinality({d \in r.on : d <= c})
Stats(r) ==
    [k \in Rows |-> IF k = 0 THEN AllCpus(r)
                    ELSE IF \E c \in r.on : Line(r, c) = k
                    THEN r.cnt[CHOOSE c \in r.on : Line(r, c) = k]
                    ELSE [idle |-> 0, busy |-> 0]]

OverflowSafeSub(prev, curr) == IF curr < prev THEN curr - prev + CounterMod ELSE curr - prev
GetInterval(old, new) ==
    LET itv == (new.idle + new.busy) - (old.idle + old.busy) IN IF itv = 0 THEN 1 ELSE itv

\* An interval that goes back, because a counter has wrapped, is a very long one
\* of 64 bits, of which the idle time is nothing.
IdleTenths(old, new) ==  \* variant: what is subtracted from 100
    IF GetInterval(old, new) < 0 THEN 0
    ELSE (1000 * OverflowSafeSub(old.idle, new.idle)) \div GetInterval(old, new)
BusyTenths(old, new) ==
    LET itv == GetInterval(old, new)
    IN IF itv < 0 THEN 1000 ELSE (1000 * (itv - OverflowSafeSub(old.idle, new.idle))) \div itv

\* Without a sample the values are anything, as the ones beyond NumCpus are.
CpuReport(heard) ==
    [k \in Rows |-> IF Unread \in ToSet(heard) THEN Unread
                    ELSE BusyTenths(Stats(heard[1])[k], Stats(heard[2])[k])]

\* A command that prints nothing leaves var as it was: empty, or the total.
MemTotal(heard) == IF heard[1] = Unread THEN 0 ELSE heard[1]
MemAvail(heard) == IF heard[2] = Unread THEN MemTotal(heard) ELSE heard[2]

\* sysinfo divides as floats; what the commands have printed is multiplied in an
\* unsigned long.
UsedTenths(s) == (1000 * s.used) \div (s.used + s.free)
LongTenths(s) == ((1000 * s.used) % LongMod) \div (s.used + s.free)

\* blocks_used * 100 + half of all, divided as floats: half a percent is added.
DiskTenths(s) == (10 * (100 * s.used + (s.used + s.free) \div 2)) \div (s.used + s.free)

SysReport(t) ==
    /\ pc[t] = "sys_report"
    /\ told' = told
    /\ LET heard == told[t] IN
       \/ /\ Op(t) = "cpu_info"
          /\ Reports(t, CpuReport(heard))
          /\ MoveWith(t, "return", 0)
       \/ /\ Op(t) = "mem_popen" /\ MemTotal(heard) > 0
          /\ Reports(t, LongTenths([used |-> MemTotal(heard) - MemAvail(heard), free |-> MemAvail(heard)]))
          /\ MoveWith(t, "return", 0)
       \/ /\ Op(t) = "mem_popen" /\ MemTotal(heard) = 0  \* a division by zero
          /\ \/ Move(t, "fault") /\ report' = report
             \/ MoveWith(t, "return", 0) /\ Reports(t, 0)
       \/ /\ Op(t) = "mem_sysinfo" /\ heard[1] # Unread
          /\ Reports(t, UsedTenths(heard[1]))
          /\ MoveWith(t, "return", 0)
       \/ /\ Op(t) = "mem_sysinfo" /\ heard[1] = Unread
          /\ MoveWith(t, "return", -1) /\ report' = report
       \/ /\ Op(t) = "disk_info" /\ Last(heard) # Unread
          /\ Reports(t, DiskTenths(Last(heard)))
          /\ MoveWith(t, "return", 0)
       \/ /\ Op(t) = "disk_info" /\ Last(heard) = Unread
          /\ Reports(t, 0)
          /\ MoveWith(t, "return", -1)

SysReturn(t) ==
    /\ Op(t) \in SysOps /\ Return(t)
    /\ told' = [told EXCEPT ![t] = <<>>]
    /\ report' = [report EXCEPT ![t] = Unread]

SysNext(t) ==
    \/ SysCall(t) \/ SysOpen(t) \/ SysPipe(t) \/ SysSpawn(t) \/ SysAsk(t) \/ SysClose(t)
    \/ SysMore(t) \/ SysReport(t) \/ SysReturn(t)
----------------------------------------------------------------------------
(* Properties. *)

Reported(t, op) == pc[t] = "return" /\ Op(t) = op

Percentage == 0 .. 1000  \* in tenths

\* x is the share of the time a CPU was not idle between two states of its
\* counters, if none has wrapped.
BusyShare(old, new, x) ==
    LET idle == new.idle - old.idle
        busy == new.busy - old.busy
    IN idle >= 0 /\ busy >= 0 /\ idle + busy > 0 => x = (1000 * busy) \div (idle + busy)

\* What the caller of eos_get_cpu_info gets for each CPU that has been online is
\* a percentage; and that CPU's share of the time it was not idle, if all CPUs
\* were online and no counter has wrapped.  Two readings that do not show the
\* same CPUs, or that could not be made, are excepted.
CpuLoad ==
    \A t \in Threads : Reported(t, "cpu_info") /\ Unread \notin ToSet(told[t]) =>
        LET a == told[t][1]
            b == told[t][2]
        IN a.on = b.on => \A k \in Rows :
             LET old == IF k = 0 THEN AllCpus(a) ELSE a.cnt[k]
                 new == IF k = 0 THEN AllCpus(b) ELSE b.cnt[k]
             IN /\ report[t][k] \in Percentage
                /\ a.on = Cpus => BusyShare(old, new, report[t][k])

\* The used share of a disk, in tenths.
UsedShare(s) == (1000 * s.used) \div (s.used + s.free)

\* The disk that could be measured first.
FirstFound(heard) == SelectInSeq(heard, LAMBDA s : s # Unread)

\* A memory that is reported is the used share of all, when both commands have
\* printed and a thousand times what is used fits an unsigned long.  The disk that
\* is reported is the first one of the three that could be measured, at most half a
\* percent too high; and there was none if the call fails, which then reports 0.
UsageReported ==
    \A t \in Threads :
        /\ Reported(t, "mem_popen") /\ ret[t] = 0 /\ Unread \notin ToSet(told[t]) =>
              LET used == told[t][1] - told[t][2]
              IN 1000 * used < LongMod => report[t] = (1000 * used) \div told[t][1]
        /\ Reported(t, "disk_info") =>
              LET found == FirstFound(told[t])
                  s     == told[t][found]
              IN IF found = 0 THEN ret[t] = -1 /\ report[t] = 0 /\ Len(told[t]) = 3
                 ELSE /\ ret[t] = 0
                      /\ report[t] - UsedShare(s) \in 0 .. 5

SysTypeOK ==
    /\ \A t \in Threads : Len(told[t]) \in 0 .. 3
    /\ \A t \in Threads : report[t] = Unread
         \/ report[t] \in IF Op(t) = "cpu_info" THEN [Rows -> Int \cup {Unread}] ELSE 0 .. 1005
=============================================================================
