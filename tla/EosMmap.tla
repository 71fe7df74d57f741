------------------------------ MODULE EosMmap ------------------------------
(***************************************************************************)
(* The register mappings of eos_mmap.cpp.  Each region (CPU registers,     *)
(* core CPLD) has a global pointer to a unit: a struct with a descriptor,  *)
(* a mapping and a mutex.  eos_lib_init maps the regions; eos_cpu_reg_read *)
(* and its like map a region that is not mapped yet, without any lock, and *)
(* then copy the block word by word under the mutex of the unit.  The      *)
(* functions of the CPU, the CPLD and (in eos_cpu_gpio.cpp) the GPIO       *)
(* region differ in the pointer only.                                      *)
(*                                                                         *)
(* Offsets and sizes count registers: the shift by the width of an access  *)
(* is not kept.  A thread that follows a null pointer or a pointer to a    *)
(* freed struct, or copies outside the mapping or through one that is      *)
(* gone, is at "fault": what happens then is undefined.                    *)
(***************************************************************************)
EXTENDS Integers, Sequences

CONSTANTS
    Threads, NoThread,
    Regions,    \* the regions that have a global pointer
    Units,      \* addresses at which a unit may be allocated
    NoUnit,     \* NULL
    Size,       \* registers of a region
    MaxLen,     \* longest block
    Values, Blank, InitRegs,
    Programs    \* threads: who takes part; mapped: whether eos_lib_init has already
                \* succeeded; failing: the system calls that may fail; calls: the calls

Words  == 0 .. Size - 1
Places == 0 .. MaxLen - 1
Accesses == {r \in UNION {p.calls : p \in Programs} : r.op \in {"read", "write"}}
Parts  == {"struct", "fd", "map"}  \* what a unit owns

\* list: the regions that the call maps if it has to, in their order; null: the
\* caller passes a null pointer as data.
Request == [op : {"read", "write", "init", "exit"}, region : Regions, off : Nat,
            len : 0 .. MaxLen, data : [Places -> Values], null : BOOLEAN,
            list : Seq(Regions)]

ASSUME UnitAssumption == NoUnit \notin Units /\ NoThread \notin Threads
ASSUME RegionAssumption ==
    /\ Regions # {} /\ Size \in Nat /\ MaxLen \in Nat
    /\ \E f \in [Regions -> Units] : \A g, h \in Regions : f[g] = f[h] => g = h
    /\ InitRegs \in [Regions -> [Words -> Values]]
ASSUME ProgramAssumption == \A p \in Programs :
    /\ p.threads \subseteq Threads /\ p.mapped \in BOOLEAN
    /\ p.failing \subseteq {"malloc", "open", "mmap", "mutex", "munmap"}
    /\ p.calls \subseteq Request
    /\ \A r \in p.calls :
         /\ r.off > Size \/ r.off + r.len <= Size
         /\ r.op \in {"read", "write"} => r.list = <<r.region>>
         /\ r.op = "init" => r.list # <<>>

VARIABLES
    prog,   \* the program that runs
    ptr,    \* ptr[g]: cpu_mmap, core_cpld_mmap
    owns,   \* owns[u]: which of Parts unit u has; none when it is not allocated
    region, \* region[u]: phy_mmapbase of u
    holder, \* holder[u]: who holds lock_mmap of u
    regs,   \* the registers
    pc, req,
    todo,   \* todo[t]: the regions that eos_lib_init has still to map
    unit,   \* unit[t]: the argument eos_mmap_info
    i,      \* i[t]: words copied so far
    out,    \* out[t]: the caller's buffer of a read
    ret,    \* ret[t]: the returned value
    lost,   \* (history) the units whose pointer a second mapping has overwritten
    failed  \* (history) some mapping has failed

heap   == <<ptr, owns, region, lost, failed>>
locals == <<req, todo, unit, i, out, ret>>
vars   == <<prog, heap, holder, regs, pc, locals>>

----------------------------------------------------------------------------
NoBlock   == [k \in Places |-> Blank]
NoRequest == [op |-> "none"]

NoRegion == CHOOSE g \in Regions : TRUE  \* what nobody reads
OneEach  == CHOOSE f \in [Regions -> Units] : \A g, h \in Regions : f[g] = f[h] => g = h

\* Either no region is mapped, or eos_lib_init has given each a unit; at which
\* address a unit is makes no difference.
Init ==
    /\ prog \in Programs
    /\ ptr = IF prog.mapped THEN OneEach ELSE [g \in Regions |-> NoUnit]
    /\ owns = [u \in Units |-> IF \E g \in Regions : ptr[g] = u THEN Parts ELSE {}]
    /\ region = [u \in Units |-> IF \E g \in Regions : ptr[g] = u
                                 THEN CHOOSE g \in Regions : ptr[g] = u ELSE NoRegion]
    /\ holder = [u \in Units |-> NoThread]
    /\ regs = InitRegs
    /\ pc = [t \in Threads |-> "idle"]
    /\ req = [t \in Threads |-> NoRequest]
    /\ todo = [t \in Threads |-> <<>>]
    /\ unit = [t \in Threads |-> NoUnit]
    /\ i = [t \in Threads |-> 0]
    /\ out = [t \in Threads |-> NoBlock]
    /\ ret = [t \in Threads |-> 0]
    /\ lost = {} /\ failed = FALSE

Goto(t, l) == pc' = [pc EXCEPT ![t] = l]
Finish(t, v) == Goto(t, "done") /\ ret' = [ret EXCEPT ![t] = v]

\* A caller initialises the library only while nothing is mapped, and neither
\* does so nor exits while another call is running.
Alone(r) == r.op \in {"init", "exit"}

Call(t) ==
    /\ pc[t] = "idle" /\ t \in prog.threads
    /\ \E r \in prog.calls :
         /\ r.op = "init" => \A g \in Regions : ptr[g] = NoUnit
         /\ \A u \in Threads : pc[u] \in {"idle", "done"} \/ ~(Alone(r) \/ Alone(req[u]))
         /\ req' = [req EXCEPT ![t] = r]
         /\ todo' = [todo EXCEPT ![t] = r.list]
         /\ Goto(t, CASE r.op = "init" -> "map"
                      [] r.op = "exit" -> "unmap"
                      [] OTHER         -> "test")
    /\ UNCHANGED <<prog, heap, holder, regs, unit, i, out, ret>>

Consume(t) ==
    /\ pc[t] = "done"
    /\ req' = [req EXCEPT ![t] = NoRequest]
    /\ todo' = [todo EXCEPT ![t] = <<>>]
    /\ unit' = [unit EXCEPT ![t] = NoUnit]
    /\ i' = [i EXCEPT ![t] = 0]
    /\ out' = [out EXCEPT ![t] = NoBlock]
    /\ ret' = [ret EXCEPT ![t] = 0]
    /\ Goto(t, "idle")
    /\ UNCHANGED <<prog, heap, holder, regs>>
----------------------------------------------------------------------------
(* Mapping and unmapping a region. *)

IsAccess(t) == req[t].op \in {"read", "write"}

\* if (cpu_mmap == NULL) eos_cpu_mmap_init()
Test(t) ==
    /\ pc[t] = "test"
    /\ Goto(t, IF ptr[req[t].region] = NoUnit THEN "map" ELSE "load")
    /\ UNCHANGED <<prog, heap, holder, regs, locals>>

\* What eos_mmap_init leaves allocated when the named call fails.
LeftUnclosed(call) ==  \* variant: the close after a failed mmap is forgotten
    CASE call = "none" -> Parts
      [] call = "mmap" -> {"fd"}
      [] OTHER         -> {}
Left(call) ==
    CASE call = "none"  -> Parts
      [] call = "mutex" -> Parts  \* the return forgets everything
      [] OTHER          -> {}

\* eos_mmap_init and the assignment of its result to the global pointer,
\* NULL included.  Only eos_lib_init and the init functions look at it.
Map(t) ==
    /\ pc[t] = "map"
    /\ \E call \in (prog.failing \ {"munmap"}) \cup {"none"}, u \in {v \in Units : owns[v] = {}} :
         LET g == Head(todo[t])
             ok == call = "none"
             rest == Tail(todo[t])
         IN /\ owns' = [owns EXCEPT ![u] = Left(call)]
            /\ region' = IF ok THEN [region EXCEPT ![u] = g] ELSE region
            /\ ptr' = [ptr EXCEPT ![g] = IF ok THEN u ELSE NoUnit]
            /\ lost' = lost \cup ({ptr[g]} \ {NoUnit})
            /\ failed' = (failed \/ ~ok)
            /\ todo' = [todo EXCEPT ![t] = rest]
            /\ IF IsAccess(t)  THEN Goto(t, "load") /\ ret' = ret
               ELSE IF ~ok       THEN Finish(t, -1)
               ELSE IF rest = <<>> THEN Finish(t, 0)
               ELSE pc' = pc /\ ret' = ret
    /\ UNCHANGED <<prog, holder, regs, req, unit, i, out>>

\* munmap fails, or the mapping is gone.
Unmap(t) ==
    /\ pc[t] = "unmap"
    /\ LET u == ptr[req[t].region]
       IN \/ /\ u = NoUnit
             /\ Finish(t, -1) /\ owns' = owns
          \/ /\ u # NoUnit /\ "munmap" \in prog.failing
             /\ Finish(t, -1) /\ owns' = owns
          \/ /\ u # NoUnit
             /\ owns' = [owns EXCEPT ![u] = @ \ {"map"}]
             /\ Goto(t, "free") /\ ret' = ret
    /\ UNCHANGED <<prog, ptr, region, lost, failed, holder, regs, req, todo, unit, i, out>>

\* Variant: the global pointer is not reset.
FreeKeepsPointer(t) ==
    /\ pc[t] = "free"
    /\ owns' = [owns EXCEPT ![ptr[req[t].region]] = {}]
    /\ Finish(t, 0)
    /\ UNCHANGED <<prog, ptr, region, lost, failed, holder, regs, req, todo, unit, i, out>>

\* Destroys the mutex, closes, frees and resets the pointer, which is read anew.
Free(t) ==
    /\ pc[t] = "free"
    /\ LET g == req[t].region
       IN IF ptr[g] = NoUnit
          THEN Goto(t, "fault") /\ UNCHANGED <<heap, ret>>
          ELSE /\ owns' = [owns EXCEPT ![ptr[g]] = {}]
               /\ ptr' = [ptr EXCEPT ![g] = NoUnit]
               /\ region' = [region EXCEPT ![ptr[g]] = NoRegion]
               /\ UNCHANGED <<lost, failed>>
               /\ Finish(t, 0)
    /\ UNCHANGED <<prog, holder, regs, req, todo, unit, i, out>>
----------------------------------------------------------------------------
(* An access through a unit. *)

\* The global pointer is passed to eos_mmap_read or eos_mmap_write.
Load(t) ==
    /\ pc[t] = "load"
    /\ unit' = [unit EXCEPT ![t] = ptr[req[t].region]]
    /\ Goto(t, "enter")
    /\ UNCHANGED <<prog, heap, holder, regs, req, todo, i, out, ret>>

Allocated(u) == u # NoUnit /\ "struct" \in owns[u]

\* The checks of the arguments: an offset that is not beyond the end of the
\* region, a buffer.  virt_mmapbase of an allocated unit is never NULL.
Enter(t) ==
    /\ pc[t] = "enter"
    /\ IF ~Allocated(unit[t])
         THEN Goto(t, "fault") /\ ret' = ret
       ELSE IF req[t].off > Size \/ req[t].null
         THEN Finish(t, -1)
       ELSE Goto(t, "lock") /\ ret' = ret
    /\ UNCHANGED <<prog, heap, holder, regs, req, todo, unit, i, out>>

\* Variant: the mutex does not exclude.
LockAlways(t) ==
    /\ pc[t] = "lock"
    /\ holder' = [holder EXCEPT ![unit[t]] = t]
    /\ Goto(t, IF req[t].len = 0 THEN "unlock" ELSE "copy")
    /\ UNCHANGED <<prog, heap, regs, locals>>

Lock(t) ==
    /\ pc[t] = "lock"
    /\ IF Allocated(unit[t])
       THEN /\ holder[unit[t]] = NoThread
            /\ holder' = [holder EXCEPT ![unit[t]] = t]
            /\ Goto(t, IF req[t].len = 0 THEN "unlock" ELSE "copy")
       ELSE Goto(t, "fault") /\ holder' = holder
    /\ UNCHANGED <<prog, heap, regs, locals>>

MoreOrEqual(t) == i[t] + 1 <= req[t].len  \* variant: the loop test is <=
More(t) == i[t] + 1 < req[t].len

\* One word of the loop, inside the mapping.
Copy(t) ==
    /\ pc[t] = "copy"
    /\ LET g == region[unit[t]]
           a == req[t].off + i[t]
       IN IF "map" \notin owns[unit[t]] \/ a \notin Words
          THEN Goto(t, "fault") /\ UNCHANGED <<regs, out, i>>
          ELSE /\ IF req[t].op = "read"
                  THEN out' = [out EXCEPT ![t][i[t]] = regs[g][a]] /\ regs' = regs
                  ELSE regs' = [regs EXCEPT ![g][a] = req[t].data[i[t]]] /\ out' = out
               /\ i' = [i EXCEPT ![t] = @ + 1]
               /\ Goto(t, IF More(t) THEN "copy" ELSE "unlock")
    /\ UNCHANGED <<prog, heap, holder, req, todo, unit, ret>>

\* Variant: the number of words is returned.
UnlockWithCount(t) ==
    /\ pc[t] = "unlock" /\ Allocated(unit[t])
    /\ holder' = [holder EXCEPT ![unit[t]] = NoThread] /\ Finish(t, i[t])
    /\ UNCHANGED <<prog, heap, regs, req, todo, unit, i, out>>

Unlock(t) ==
    /\ pc[t] = "unlock"
    /\ IF Allocated(unit[t])
       THEN holder' = [holder EXCEPT ![unit[t]] = NoThread] /\ Finish(t, 0)
       ELSE holder' = holder /\ Goto(t, "fault") /\ ret' = ret
    /\ UNCHANGED <<prog, heap, regs, req, todo, unit, i, out>>

Step(t) ==
    \/ Test(t) \/ Map(t) \/ Unmap(t) \/ Free(t)
    \/ Load(t) \/ Enter(t) \/ Lock(t) \/ Copy(t) \/ Unlock(t)

Next == \E t \in Threads : Call(t) \/ Step(t) \/ Consume(t)

Spec == Init /\ [][Next]_vars
----------------------------------------------------------------------------
(* Properties. *)

Pcs == {"idle", "test", "map", "unmap", "free", "load", "enter", "lock", "copy",
        "unlock", "done", "fault"}

\* Types; in particular a call returns 0 or -1 and no copy runs past its block.
TypeOK ==
    /\ prog \in Programs
    /\ ptr \in [Regions -> Units \cup {NoUnit}]
    /\ owns \in [Units -> SUBSET Parts]
    /\ region \in [Units -> Regions]
    /\ holder \in [Units -> Threads \cup {NoThread}]
    /\ regs \in [Regions -> [Words -> Values]]
    /\ pc \in [Threads -> Pcs]
    /\ req \in [Threads -> Request \cup {NoRequest}]
    /\ todo \in [Threads -> Seq(Regions)]
    /\ unit \in [Threads -> Units \cup {NoUnit}]
    /\ i \in [Threads -> 0 .. MaxLen]
    /\ out \in [Threads -> [Places -> Values \cup {Blank}]]
    /\ ret \in [Threads -> {0, -1}]
    /\ lost \subseteq Units /\ failed \in BOOLEAN

\* No call touches a struct or a mapping that is gone, copies beyond the end of
\* a mapping or follows a null pointer, even if threads race to map a region;
\* an access of a region that could not be mapped does follow one.
NoFault == ~failed => \A t \in Threads : pc[t] # "fault"

\* A unit that a region points to is whole: its struct, descriptor and
\* mapping exist and it maps that region, except while an exit of the region
\* is between munmap and free.
PublishedWhole ==
    \A g \in Regions : ptr[g] # NoUnit =>
        /\ region[ptr[g]] = g
        /\ Parts \ owns[ptr[g]] \subseteq
              (IF \E t \in Threads : pc[t] = "free" /\ req[t].region = g THEN {"map"} ELSE {})

\* Nothing is lost when malloc, open or mmap fails: what is allocated belongs
\* to a unit that a region points to.  Only threads that race to map a region
\* lose the unit of the one that was first.  A pthread_mutex_init that fails is
\* excepted: the code returns there without what it has opened.
NoLeak == \A u \in Units : owns[u] # {} => u \in lost \/ \E g \in Regions : ptr[g] = u

\* A write of t has its lock: seen from outside it is done as a whole.
Writing(t) == pc[t] \in {"copy", "unlock"} /\ req[t].op = "write"
Reading(t) == pc[t] \in {"copy", "unlock"} /\ req[t].op = "read"

Block(t) == req[t].off .. req[t].off + req[t].len - 1
AtomicRegs ==
    [g \in Regions |-> [a \in Words |->
        IF \E t \in Threads : Writing(t) /\ region[unit[t]] = g /\ a \in Block(t)
        THEN LET t == CHOOSE t \in Threads : Writing(t) /\ region[unit[t]] = g /\ a \in Block(t)
             IN req[t].data[a - req[t].off]
        ELSE regs[g][a]]]
AtomicOut ==
    [t \in Threads |-> [k \in Places |->
        IF Reading(t) /\ k >= i[t] /\ k < req[t].len
        THEN regs[region[unit[t]]][req[t].off + k] ELSE out[t][k]]]
AtomicStage ==
    [t \in Threads |-> IF ~IsAccess(t) THEN "idle"
                       ELSE IF pc[t] \in {"copy", "unlock", "done"} THEN "performed" ELSE "called"]
AtomicCall == [t \in Threads |-> IF IsAccess(t) THEN req[t] ELSE NoRequest]
AtomicRet  == [t \in Threads |-> IF IsAccess(t) THEN ret[t] ELSE 0]

Atomic == INSTANCE Registers WITH regs <- AtomicRegs, stage <- AtomicStage,
                                  call <- AtomicCall, out <- AtomicOut, ret <- AtomicRet

\* Every register access takes effect in one step, although the code copies
\* word by word: the mutex of the unit makes the block atomic, and a refused
\* call touches nothing.
Implements == Atomic!Spec
============================================================================
