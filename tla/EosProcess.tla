----------------------------- MODULE EosProcess -----------------------------
(***************************************************************************)
(* What the device functions of eos_lib have in common.  Each call opens a *)
(* device, maps memory or allocates buffers, has a driver do the work and  *)
(* gives everything back, step by step and on each error path.  The        *)
(* descriptors are those of the whole process: a call that does not close  *)
(* one takes it away from all components.                                  *)
(***************************************************************************)
EXTENDS Integers

CONSTANTS
    Threads,
    MaxFds,     \* descriptors the process may have open
    Programs    \* programs: the sets of calls the threads make

ASSUME FdAssumption == MaxFds \in Nat

VARIABLES
    calls,   \* the program that runs
    pc, req, ret,
    held,    \* held[t]: what the call of t has taken and not given back
    fds,     \* the descriptors that are open
    lost,    \* (history) what calls did not give back when they returned
    starved  \* (history) an open has failed because no descriptor was left

process == <<pc, req, ret, held, fds, lost, starved, calls>>

\* fd, mem, pipe: descriptors; map: a mapping; unit: a struct eos_mmap_unit; first,
\* second: buffers.  A handle (a descriptor) and a view (a mapping) are for the
\* caller to keep.
Kept      == {"handle", "view"}
Resources == Kept \cup {"fd", "mem", "pipe", "map", "unit", "first", "second"}

NoCall == [op |-> "none"]

ProcessInit ==
    /\ calls \in Programs
    /\ pc = [t \in Threads |-> "idle"]
    /\ req = [t \in Threads |-> NoCall]
    /\ ret = [t \in Threads |-> 0]
    /\ held = [t \in Threads |-> {}]
    /\ fds = 0
    /\ lost = {}
    /\ starved = FALSE

Goto(t, l)   == pc' = [pc EXCEPT ![t] = l]
Result(t, v) == ret' = [ret EXCEPT ![t] = v]
Op(t)        == req[t].op

Begin(t, r, l) ==
    /\ pc[t] = "idle"
    /\ req' = [req EXCEPT ![t] = r]
    /\ Goto(t, l)
    /\ UNCHANGED <<calls, ret, held, fds, lost, starved>>

\* A step that neither takes nor gives anything.
Move(t, l) == Goto(t, l) /\ UNCHANGED <<calls, req, ret, held, fds, lost, starved>>
MoveWith(t, l, v) ==
    Goto(t, l) /\ Result(t, v) /\ UNCHANGED <<calls, req, held, fds, lost, starved>>

Take(t, what, l) ==
    /\ held' = [held EXCEPT ![t] = @ \cup what]
    /\ Goto(t, l)
    /\ UNCHANGED <<calls, req, ret, fds, lost, starved>>
Give(t, what, l) ==
    /\ held' = [held EXCEPT ![t] = @ \ what]
    /\ Goto(t, l)
    /\ UNCHANGED <<calls, req, ret, fds, lost, starved>>

\* open: there is a descriptor and a device, or -1.
Open(t, what, l, failed) ==
    \/ /\ fds < MaxFds
       /\ fds' = fds + 1
       /\ held' = [held EXCEPT ![t] = @ \cup {what}]
       /\ Goto(t, l)
       /\ UNCHANGED <<calls, req, ret, lost, starved>>
    \/ /\ starved' = (starved \/ fds = MaxFds)
       /\ Goto(t, failed) /\ Result(t, -1)
       /\ UNCHANGED <<calls, req, held, fds, lost>>

Close(t, what, l) ==
    /\ fds' = fds - 1
    /\ held' = [held EXCEPT ![t] = @ \ {what}]
    /\ Goto(t, l)
    /\ UNCHANGED <<calls, req, ret, lost, starved>>

\* The call returns; nobody knows of what it has not given back.
Return(t) ==
    /\ pc[t] = "return"
    /\ lost' = lost \cup {[op |-> Op(t), ret |-> ret[t], what |-> x] : x \in held[t] \ Kept}
    /\ held' = [held EXCEPT ![t] = {}]
    /\ req' = [req EXCEPT ![t] = NoCall]
    /\ Result(t, 0)
    /\ Goto(t, "idle")
    /\ UNCHANGED <<calls, fds, starved>>
=============================================================================
