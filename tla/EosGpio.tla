------------------------------ MODULE EosGpio ------------------------------
(***************************************************************************)
(* The GPIO functions of eos_cpu_gpio.cpp and the soft feeding of the      *)
(* watchdog in eos_watchdog.cpp, over registers that are read and written  *)
(* in one step each: the promise of module Registers, which EosMmap keeps. *)
(* A register is the set of its bits that are 1.                           *)
(*                                                                         *)
(* The CPUs fall into families.  "p204x" (P204X, P2020, P1020,             *)
(* MINIMPC8308) has a direction and a data register, and so has "mpc8308", *)
(* where they lie beyond the mapping.  "ls1021" (LS1021, T104X) has a      *)
(* register of enabled inputs as well, which eos_set_gpio_direction keeps  *)
(* opposite to the direction.  "mpc8548" has a control register with an    *)
(* input and an output bit per group of pins, an output and an input       *)
(* register.                                                               *)
(***************************************************************************)
EXTENDS Integers, Sequences

CONSTANTS
    Threads,
    Families,  \* the families that a run looks at
    Pins,      \* the pins of one register
    BadPin,    \* a number that is no pin
    GroupOf,   \* GroupOf[p]: the group of pin p on MPC8548: 1 (pins 0 to 7),
               \* 2 (8 to 15) or 3 (24 to 31), which has one bit only
    DogPin,    \* the pin that feeds the watchdog
    Requests   \* Requests[t]: the calls that thread t makes

Regs   == {"dir", "ibe", "dat", "cr", "in"}
Bits(r) == IF r = "cr" THEN (1 .. 3) \X {"in", "out"} ELSE Pins

\* val: the direction (1 is output) or the level, or neither.
Request == [op : {"set_direction", "get_direction", "set_status", "get_status", "feed"},
            pin : Pins \cup {BadPin}, val : {0, 1, 2}]

ASSUME PinAssumption == BadPin \notin Pins /\ DogPin \in Pins
ASSUME GpioAssumption ==
    /\ Families \subseteq {"p204x", "mpc8308", "ls1021", "mpc8548"}
    /\ GroupOf \in [Pins -> 1 .. 3]
    /\ \A t \in Threads : Requests[t] \subseteq Request

VARIABLES
    family,  \* the CPU, fixed at build time
    regs,    \* the registers
    odd,     \* eos_feed_dog_count, modulo 2
    signal,  \* setSignal: the pin of the watchdog is an output
    pc, req,
    run,     \* run[t]: the set or get that executes; a feed makes two sets
    step,    \* step[t]: registers of the current set or get done so far
    seen,    \* seen[t]: the register values read
    val,     \* val[t]: *direction or *status of a get
    ret,
    fed      \* history: the level of the pin after the last successful feed

shared == <<regs, odd, signal, fed>>
locals == <<req, run, step, seen, val, ret>>
vars   == <<family, shared, pc, locals>>

NoRequest == [op |-> "none", pin |-> BadPin, val |-> 0]

\* What the registers hold when the library is loaded: anything.
Holding(dir, ibe, dat) ==
    [r \in Regs |-> CASE r = "dir" -> dir [] r = "ibe" -> ibe [] r \in {"dat", "in"} -> dat
                      [] OTHER -> {}]

Init ==
    /\ family \in Families
    /\ regs \in {Holding(a, b, c) : a, b, c \in SUBSET Pins}
    /\ odd = FALSE
    /\ signal = FALSE
    /\ pc = [t \in Threads |-> "idle"]
    /\ req = [t \in Threads |-> NoRequest]
    /\ run = [t \in Threads |-> NoRequest]
    /\ step = [t \in Threads |-> 0]
    /\ seen = [t \in Threads |-> <<>>]
    /\ val = [t \in Threads |-> 0]
    /\ ret = [t \in Threads |-> 0]
    /\ fed = "none"

Goto(t, l) == pc' = [pc EXCEPT ![t] = l]
Finish(t, v) == Goto(t, "done") /\ ret' = [ret EXCEPT ![t] = v]
----------------------------------------------------------------------------
(* What a set or get does to the registers. *)

\* The families that leave the number of the pin to the caller.
TrustsPin == family \in {"p204x", "mpc8308"}

\* Whether the arguments are refused: a value that is neither 0 nor 1, where
\* it is tested, and a number that is no pin.
BadArguments(r) ==
    \/ r.op = "set_direction" /\ r.val = 2
    \/ r.op = "set_status" /\ r.val = 2 /\ family # "ls1021"
    \/ r.pin = BadPin /\ ~TrustsPin

\* The registers that a call reads, in order; a set then writes them.
Directs(r) == r.op \in {"set_direction", "get_direction"}
Touches(r) ==
    CASE Directs(r) /\ family = "mpc8548"           -> <<"cr">>
      [] Directs(r) /\ family # "mpc8548"           ->
            IF r.op = "set_direction" /\ family = "ls1021" THEN <<"dir", "ibe">> ELSE <<"dir">>
      [] r.op = "get_status" /\ family = "mpc8548"  -> <<"in">>
      [] OTHER                                      -> <<"dat">>

IsSet(r) == r.op \in {"set_direction", "set_status"}

\* The bit of register g that call r is about, and whether it becomes 1.
BitOfPin(r, g) == r.pin                      \* variant: the groups are ignored
Bit(r, g) ==
    IF g = "cr" THEN <<GroupOf[r.pin],
                       IF r.val = 0 /\ GroupOf[r.pin] # 3 THEN "in" ELSE "out">>
                ELSE r.pin
Level(r, g) == IF g = "ibe" THEN r.val = 0 ELSE r.val # 0

OnlySets(r, g, old)   == old \cup {Bit(r, g)}  \* variant: no pin is ever cleared
Overwrites(r, g, old) == IF Level(r, g) THEN {Bit(r, g)} ELSE {}  \* variant: the value read is dropped
Updated(r, g, old) ==
    IF family = "mpc8548" THEN old \cup (IF g = "cr" \/ r.val # 0 THEN {Bit(r, g)} ELSE {})
    ELSE IF Level(r, g)   THEN old \cup {Bit(r, g)}
                          ELSE old \ {Bit(r, g)}
----------------------------------------------------------------------------
\* Where the number of a pin is not tested the caller passes a pin.  MPC8308 and
\* MPC8548 have no watchdog, and the one of P1020 is an empty function.
Call(t) ==
    /\ pc[t] = "idle"
    /\ \E r \in Requests[t] :
         /\ r.pin = BadPin => ~TrustsPin
         /\ r.op = "feed" => family \in {"p204x", "ls1021"}
         /\ req' = [req EXCEPT ![t] = r]
         /\ run' = [run EXCEPT ![t] = r]
         /\ Goto(t, IF r.op = "feed" THEN "feed" ELSE "check")
    /\ UNCHANGED <<family, shared, step, seen, val, ret>>

\* The caller takes the result.
Consume(t) ==
    /\ pc[t] = "done"
    /\ req' = [req EXCEPT ![t] = NoRequest]
    /\ run' = [run EXCEPT ![t] = NoRequest]
    /\ seen' = [seen EXCEPT ![t] = <<>>]
    /\ val' = [val EXCEPT ![t] = 0]
    /\ ret' = [ret EXCEPT ![t] = 0]
    /\ Goto(t, "idle")
    /\ UNCHANGED <<family, shared, step>>

Check(t) ==
    /\ pc[t] = "check"
    /\ step' = [step EXCEPT ![t] = 0]
    /\ seen' = [seen EXCEPT ![t] = <<>>]
    /\ IF BadArguments(run[t]) THEN Finish(t, -1) ELSE Goto(t, "read") /\ ret' = ret
    /\ UNCHANGED <<family, shared, req, run, val>>

\* GPIODIR and GPIODAT of MPC8308 are at 0x130000 in a mapping of 0x100000.
Reached == IF family = "mpc8308" THEN {} ELSE Regs

\* A register beyond the mapping is refused by eos_mmap_read.
ReadReg(t) ==
    /\ pc[t] = "read"
    /\ LET r == run[t]
           g == Touches(r)[step[t] + 1]
           last == step[t] + 1 = Len(Touches(r))
       IN IF g \notin Reached
          THEN Finish(t, -1) /\ UNCHANGED <<step, seen>>
          ELSE /\ seen' = [seen EXCEPT ![t] = Append(@, regs[g])]
               /\ step' = [step EXCEPT ![t] = IF last THEN 0 ELSE @ + 1]
               /\ Goto(t, IF ~last THEN "read" ELSE IF IsSet(r) THEN "write" ELSE "get")
               /\ ret' = ret
    /\ UNCHANGED <<family, shared, req, run, val>>

\* eos_set_gpio_direction of LS1021 and T104X has no return statement.
SetResults(r) ==
    IF family = "ls1021" /\ r.op = "set_direction" THEN {-1, 0, 1} ELSE {0}

\* The next register of a set, from the value read before.
WriteReg(t) ==
    /\ pc[t] = "write"
    /\ LET r == run[t]
           k == step[t] + 1
           g == Touches(r)[k]
       IN /\ regs' = [regs EXCEPT ![g] = Updated(r, g, seen[t][k])]
          /\ IF k < Len(Touches(r))
             THEN step' = [step EXCEPT ![t] = k] /\ pc' = pc /\ ret' = ret
             ELSE /\ step' = [step EXCEPT ![t] = 0]
                  /\ \E v \in SetResults(r) :
                       IF req[t].op = "feed"
                       THEN Goto(t, "fed") /\ ret' = [ret EXCEPT ![t] = v]
                       ELSE Finish(t, v)
    /\ UNCHANGED <<family, odd, signal, fed, req, run, seen, val>>

\* The direction of a pin of MPC8548 is 1 or an error: the code looks at the
\* output bit only.
Get(t) ==
    /\ pc[t] = "get"
    /\ LET r == req[t]
           bit == IF Touches(r)[1] = "cr" THEN <<GroupOf[r.pin], "out">> ELSE r.pin
           one == bit \in seen[t][1]
       IN IF ~one /\ r.op = "get_direction" /\ family = "mpc8548"
          THEN Finish(t, -1) /\ val' = val
          ELSE Finish(t, 0) /\ val' = [val EXCEPT ![t] = IF one THEN 1 ELSE 0]
    /\ UNCHANGED <<family, shared, req, run, step, seen>>
----------------------------------------------------------------------------
(* eos_soft_feed_dog. *)

Sets(t, op, v) ==
    /\ run' = [run EXCEPT ![t] = [op |-> op, pin |-> DogPin, val |-> v]]
    /\ Goto(t, "check")

\* Before the first feed the pin becomes an output.
Feed(t) ==
    /\ pc[t] = "feed"
    /\ IF signal THEN Goto(t, "count") /\ run' = run ELSE Sets(t, "set_direction", 1)
    /\ UNCHANGED <<family, shared, req, step, seen, val, ret>>

CountNothing(t) ==  \* variant: the counter is not incremented
    /\ pc[t] = "count"
    /\ Goto(t, "level")
    /\ UNCHANGED <<family, shared, locals>>
Count(t) ==
    /\ pc[t] = "count"
    /\ odd' = ~odd
    /\ Goto(t, "level")
    /\ UNCHANGED <<family, regs, signal, fed, locals>>

LevelByParity(t) ==
    /\ pc[t] = "level"
    /\ Sets(t, "set_status", IF odd THEN 0 ELSE 1)
    /\ UNCHANGED <<family, shared, req, step, seen, val, ret>>

\* After the set_direction or the set_status of a feed.
Fed(t) ==
    /\ pc[t] = "fed"
    /\ IF run[t].op = "set_direction"
       THEN /\ fed' = fed
            /\ IF ret[t] # 0 THEN Finish(t, -1) /\ signal' = signal
                             ELSE Goto(t, "count") /\ signal' = TRUE /\ ret' = ret
       ELSE /\ Finish(t, ret[t])
            /\ fed' = IF DogPin \in regs["dat"] THEN "high" ELSE "low"
            /\ signal' = signal
    /\ UNCHANGED <<family, regs, odd, req, run, step, seen, val>>

Next == \E t \in Threads :
    \/ Call(t) \/ Consume(t) \/ Check(t) \/ ReadReg(t) \/ WriteReg(t) \/ Get(t)
    \/ Feed(t) \/ Count(t) \/ LevelByParity(t) \/ Fed(t)

Spec == Init /\ [][Next]_vars
----------------------------------------------------------------------------
(* Properties. *)

Pcs == {"idle", "check", "read", "write", "get", "feed", "count", "level",
        "fed", "done"}

\* Types; in particular every register holds bits of its own.
TypeOK ==
    /\ family \in Families
    /\ \A g \in Regs : regs[g] \subseteq Bits(g)
    /\ odd \in BOOLEAN /\ signal \in BOOLEAN
    /\ pc \in [Threads -> Pcs]
    /\ \A t \in Threads : req[t] \in Request \cup {NoRequest}
    /\ step \in [Threads -> 0 .. 1]
    /\ \A t \in Threads : Len(seen[t]) <= 2
    /\ val \in [Threads -> {0, 1}]
    /\ ret \in [Threads -> {-1, 0, 1}]
    /\ fed \in {"none", "low", "high"}

Current(t) == Touches(run[t])[step[t] + 1]

\* A call about one pin leaves the others alone: a bit of a register changes
\* only in the step of a call that names it.
OthersKept ==
    [][\A g \in Regs : \A b \in Bits(g) :
          (b \in regs[g]) # (b \in regs'[g]) =>
              \E t \in Threads : pc[t] = "write" /\ Current(t) = g /\ b = Bit(run[t], g)]_vars

\* What a successful set asked for is what its registers say when it returns:
\* on LS1021 and T104X that the input of a pin is enabled exactly if it is no
\* output.  Of MPC8548, which never clears a bit, it speaks for a 1 only.
SetTakesEffect ==
    \A t \in Threads :
        pc[t] = "done" /\ IsSet(req[t]) /\ ret[t] = 0 /\ (family = "mpc8548" => req[t].val = 1) =>
            \A k \in 1 .. Len(Touches(req[t])) :
                LET g == Touches(req[t])[k]
                IN (Bit(req[t], g) \in regs[g]) <=> (g = "cr" \/ Level(req[t], g))

\* A successful feed leaves the pin at another level than the successful feed
\* before it, whatever was set in between and whichever feeds failed: that
\* is what feeds the watchdog.
FeedToggles ==
    [][\A t \in Threads : pc[t] = "fed" /\ pc'[t] = "done" /\ ret'[t] = 0 => fed' # fed]_vars
============================================================================
