---------------------------- MODULE EosGpioProofs ----------------------------
(***************************************************************************)
(* Proofs about EosGpio, for every number of threads and pins and every    *)
(* choice of calls: types, and, when one thread sets pins and feeds the    *)
(* watchdog and the others read, that a set takes effect, leaves the other *)
(* pins alone, and that every feed turns the pin of the watchdog over.     *)
(***************************************************************************)
EXTENDS EosGpio, TLAPS

AllBits == Pins \cup ((1 .. 3) \X {"in", "out"})
Calls   == Request \cup {NoRequest}

\* Types, more closely than TypeOK.
Types ==
    /\ TypeOK
    /\ regs \in [Regs -> SUBSET AllBits]
    /\ req \in [Threads -> Calls] /\ run \in [Threads -> Calls]
    /\ seen \in [Threads -> Seq(SUBSET AllBits)]

\* Which set or get a thread executes: that of its call, or one of a feed.
DogSet(r) == r.op \in {"set_direction", "set_status"} /\ r.pin = DogPin /\ r.val \in {0, 1}
RunInv == \A t \in Threads :
    /\ pc[t] = "idle" => req[t] = NoRequest
    /\ pc[t] # "idle" => req[t] \in Requests[t] /\ (req[t].pin = BadPin => ~TrustsPin)
    /\ req[t].op = "feed" => family \in {"p204x", "ls1021"}
    /\ req[t].op # "feed" => run[t] = req[t]
    /\ req[t].op = "feed" /\ pc[t] \in {"check", "read", "write", "fed"} => DogSet(run[t])
    /\ pc[t] \in {"feed", "count", "level", "fed"} => req[t].op = "feed"
    /\ req[t].op = "feed" => pc[t] # "get"
    /\ pc[t] \in {"read", "write", "get"} => run[t].pin \in Pins /\ ~BadArguments(run[t])
    /\ pc[t] = "get" => ~IsSet(run[t])
    /\ pc[t] = "write" => IsSet(run[t])

\* How many of its registers it has read and written, and that what it read is
\* what such a register can hold.
PlaceInv == \A t \in Threads :
    /\ pc[t] \in {"read", "write"} => step[t] < Len(Touches(run[t]))
    /\ pc[t] = "read" => Len(seen[t]) = step[t]
    /\ pc[t] \in {"write", "get"} => Len(seen[t]) = Len(Touches(run[t]))
    /\ pc[t] \in {"read", "write"} => \A k \in 1 .. Len(seen[t]) :
            seen[t][k] \subseteq Bits(Touches(run[t])[k])

GpioInv == Types /\ RunInv /\ PlaceInv

\* One thread sets pins and feeds the watchdog: the code has no lock for it.
Setter(t)   == \E r \in Requests[t] : IsSet(r) \/ r.op = "feed"
OneSetter == \A t, u \in Threads : Setter(t) /\ Setter(u) => t = u

\* The k-th register of a set says what the set asked for.
Effect(r, k) ==
    LET g == Touches(r)[k]
    IN (family = "mpc8548" => r.val = 1) =>
           ((Bit(r, g) \in regs[g]) <=> (g = "cr" \/ Level(r, g)))

\* What a set has read is what the registers still hold; what it has written
\* has taken effect.
FreshAt(t) == IsSet(run[t]) =>
    /\ pc[t] = "read" => \A k \in 1 .. Len(seen[t]) : seen[t][k] = regs[Touches(run[t])[k]]
    /\ pc[t] = "write" => \A k \in 1 .. Len(Touches(run[t])) :
            IF k > step[t] THEN seen[t][k] = regs[Touches(run[t])[k]] ELSE Effect(run[t], k)
    /\ pc[t] = "fed" \/ (pc[t] = "done" /\ ret[t] = 0 /\ IsSet(req[t])) =>
            \A k \in 1 .. Len(Touches(run[t])) : Effect(run[t], k)
FreshInv == \A t \in Threads : FreshAt(t)

\* The counter is ahead of the pin from its increment to the end of the feed.
Ahead(t) == /\ req[t].op = "feed"
            /\ \/ pc[t] = "level"
               \/ pc[t] \in {"check", "read", "write", "fed"} /\ run[t].op = "set_status"
ParityInv ==
    /\ fed # "none" => (fed = "low" <=> (odd # \E t \in Threads : Ahead(t)))
    /\ \A t \in Threads : Ahead(t) /\ pc[t] # "level" => run[t].val = (IF odd THEN 0 ELSE 1)

----------------------------------------------------------------------------
(* The registers of a call. *)

Ops == {"set_direction", "get_direction", "set_status", "get_status"}

\* A call touches one register, or the direction and then the input enable
\* register.
LEMMA TouchFacts ==
    ASSUME NEW r, r.op \in Ops
    PROVE  /\ Len(Touches(r)) \in {1, 2}
           /\ \A k \in 1 .. Len(Touches(r)) : Touches(r)[k] \in Regs
           /\ Len(Touches(r)) = 2 => Touches(r)[1] = "dir" /\ Touches(r)[2] = "ibe"
           /\ Touches(r)[1] \in Regs
<1>1. CASE Directs(r) /\ family = "mpc8548"
  <2>1. Touches(r) = <<"cr">>
    BY <1>1 DEF Touches, Directs
  <2> QED
    BY <2>1 DEF Regs
<1>2. CASE Directs(r) /\ family # "mpc8548"
  <2>1. Touches(r) = <<"dir", "ibe">> \/ Touches(r) = <<"dir">>
    BY <1>2 DEF Touches, Directs
  <2>2. CASE Touches(r) = <<"dir", "ibe">>
    BY <2>2 DEF Regs
  <2>3. CASE Touches(r) = <<"dir">>
    BY <2>3 DEF Regs
  <2> QED
    BY <2>1, <2>2, <2>3
<1>3. CASE ~Directs(r)
  <2>1. Touches(r) = <<"in">> \/ Touches(r) = <<"dat">>
    BY <1>3 DEF Touches, Directs
  <2>2. CASE Touches(r) = <<"in">>
    BY <2>2 DEF Regs
  <2>3. CASE Touches(r) = <<"dat">>
    BY <2>3 DEF Regs
  <2> QED
    BY <2>1, <2>2, <2>3
<1> QED
  BY <1>1, <1>2, <1>3

\* A level set touches the data register, and its pin there.
LEMMA StatusTouches ==
    ASSUME NEW r, r.op = "set_status"
    PROVE  Touches(r) = <<"dat">>
BY DEF Touches, Directs

\* A bit that a call is about is one of its register.
LEMMA BitFacts ==
    ASSUME NEW r, r.pin \in Pins, NEW g \in Regs
    PROVE  Bit(r, g) \in Bits(g)
<1>1. CASE g = "cr"
  <2>1. GroupOf[r.pin] \in 1 .. 3
    BY GpioAssumption
  <2> QED
    BY <1>1, <2>1 DEF Bit, Bits
<1>2. CASE g # "cr"
  BY <1>2 DEF Bit, Bits
<1> QED
  BY <1>1, <1>2

\* What a set makes of a register has only bits of that register.
LEMMA UpdatedFacts ==
    ASSUME NEW r, r.pin \in Pins, NEW g \in Regs, NEW old, old \subseteq Bits(g)
    PROVE  Updated(r, g, old) \subseteq Bits(g)
BY BitFacts DEF Updated

\* The bits of each register are among all bits.
LEMMA BitsAll == \A g \in Regs : Bits(g) \subseteq AllBits
BY DEF Bits, AllBits, Regs

\* A set or get is one of the library's.
LEMMA RunOps ==
    ASSUME GpioInv, NEW t \in Threads, pc[t] \in {"check", "read", "write", "get", "fed"}
    PROVE  /\ run[t].op \in Ops /\ req[t] \in Requests[t]
           /\ req[t].op \in Ops \cup {"feed"}
<1>1. req[t] \in Requests[t] /\ req[t] \in Request
  BY GpioAssumption DEF GpioInv, RunInv
<1>2. req[t].op \in Ops \cup {"feed"}
  BY <1>1 DEF Request, Ops
<1>3. req[t].op # "feed" => run[t] = req[t] /\ pc[t] # "fed"
  BY DEF GpioInv, RunInv
<1>4. req[t].op = "feed" => DogSet(run[t])
  BY DEF GpioInv, RunInv
<1> QED
  BY <1>1, <1>2, <1>3, <1>4 DEF DogSet, Ops

----------------------------------------------------------------------------
(* GpioInv is inductive: one lemma for each action. *)

\* Before the first call the invariant holds.
LEMMA GpioInit == Init => GpioInv
<1> SUFFICES ASSUME Init PROVE GpioInv
  OBVIOUS
<1>1. PICK a \in SUBSET Pins, b \in SUBSET Pins, c \in SUBSET Pins :
        regs = Holding(a, b, c)
  BY DEF Init
<1>2. /\ \A g \in Regs : regs[g] \subseteq Bits(g)
      /\ regs \in [Regs -> SUBSET AllBits]
  <2>1. /\ regs["dir"] = a /\ regs["ibe"] = b /\ regs["dat"] = c /\ regs["in"] = c
        /\ regs["cr"] = {}
    BY <1>1 DEF Holding, Regs
  <2>2. \A g \in Regs : regs[g] \subseteq Bits(g)
    BY <2>1 DEF Bits, Regs
  <2>3. regs = [g \in Regs |-> regs[g]]
    BY <1>1 DEF Holding
  <2> QED
    BY <2>2, <2>3, BitsAll
<1>3. <<>> \in Seq(SUBSET AllBits) /\ Len(<<>>) = 0
  OBVIOUS
<1>4. Types
  <2>1. /\ pc \in [Threads -> Pcs] /\ step \in [Threads -> 0 .. 1] /\ val \in [Threads -> {0, 1}]
        /\ ret \in [Threads -> {-1, 0, 1}]
    BY DEF Init, Pcs
  <2>2. /\ req \in [Threads -> Calls] /\ run \in [Threads -> Calls]
        /\ \A t \in Threads : req[t] \in Request \cup {NoRequest}
    BY DEF Init, Calls
  <2>3. seen \in [Threads -> Seq(SUBSET AllBits)] /\ \A t \in Threads : Len(seen[t]) <= 2
    BY <1>3 DEF Init
  <2>4. /\ family \in Families /\ odd = FALSE /\ signal = FALSE /\ fed = "none"
        /\ FALSE \in BOOLEAN
    BY DEF Init
  <2>5. family \in Families /\ odd \in BOOLEAN /\ signal \in BOOLEAN /\ fed \in {"none", "low", "high"}
    BY <2>4
  <2> QED
    BY <1>2, <2>1, <2>2, <2>3, <2>5 DEF Types, TypeOK
<1>5. RunInv
  BY DEF Init, RunInv, NoRequest
<1>6. PlaceInv
  BY DEF Init, PlaceInv
<1> QED
  BY <1>4, <1>5, <1>6 DEF GpioInv

\* A call begins at its check, with no register done.
LEMMA GpioCall == ASSUME GpioInv, NEW t \in Threads, Call(t) PROVE GpioInv'
<1>1. Types /\ TypeOK /\ pc[t] = "idle"
  BY DEF GpioInv, Types, Call
<1>2. PICK r \in Requests[t] :
         /\ r.pin = BadPin => ~TrustsPin
         /\ r.op = "feed" => family \in {"p204x", "ls1021"}
         /\ req' = [req EXCEPT ![t] = r]
         /\ run' = [run EXCEPT ![t] = r]
         /\ pc' = [pc EXCEPT ![t] = IF r.op = "feed" THEN "feed" ELSE "check"]
  BY DEF Call, Goto
<1>3. UNCHANGED <<family, regs, odd, signal, fed, step, seen, val, ret>>
  BY DEF Call, shared
<1>4. r \in Request
  BY GpioAssumption
<1>5. /\ pc'[t] = (IF r.op = "feed" THEN "feed" ELSE "check") /\ req'[t] = r /\ run'[t] = r
      /\ \A u \in Threads \ {t} : pc'[u] = pc[u] /\ req'[u] = req[u] /\ run'[u] = run[u]
  BY <1>1, <1>2 DEF Types, TypeOK
<1>6. Types'
  BY <1>1, <1>2, <1>3, <1>4 DEF Types, TypeOK, Pcs, Calls, Bits
<1>7. RunInv'
  BY <1>2, <1>3, <1>5 DEF GpioInv, RunInv, TrustsPin, BadArguments
<1>8. PlaceInv'
  BY <1>3, <1>5 DEF GpioInv, PlaceInv, Touches, Directs
<1> QED
  BY <1>6, <1>7, <1>8 DEF GpioInv

\* A caller that takes its result leaves no call behind.
LEMMA GpioConsume == ASSUME GpioInv, NEW t \in Threads, Consume(t) PROVE GpioInv'
<1>1. Types /\ TypeOK /\ pc[t] = "done"
  BY DEF GpioInv, Types, Consume
<1>2. /\ req' = [req EXCEPT ![t] = NoRequest] /\ run' = [run EXCEPT ![t] = NoRequest]
      /\ seen' = [seen EXCEPT ![t] = <<>>] /\ val' = [val EXCEPT ![t] = 0]
      /\ ret' = [ret EXCEPT ![t] = 0] /\ pc' = [pc EXCEPT ![t] = "idle"]
  BY DEF Consume, Goto
<1>3. UNCHANGED <<family, regs, odd, signal, fed, step>>
  BY DEF Consume, shared
<1>4. <<>> \in Seq(SUBSET AllBits) /\ Len(<<>>) = 0
  OBVIOUS
<1>5. /\ pc'[t] = "idle" /\ req'[t] = NoRequest /\ run'[t] = NoRequest
      /\ \A u \in Threads \ {t} : /\ pc'[u] = pc[u] /\ req'[u] = req[u] /\ run'[u] = run[u]
                                  /\ seen'[u] = seen[u]
  BY <1>1, <1>2 DEF Types, TypeOK
<1>6. Types'
  <2>1. seen' \in [Threads -> Seq(SUBSET AllBits)] /\ \A u \in Threads : Len(seen'[u]) <= 2
    BY <1>1, <1>2, <1>4 DEF Types, TypeOK
  <2> QED
    BY <1>1, <1>2, <1>3, <2>1 DEF Types, TypeOK, Pcs, Calls, Bits
<1>7. RunInv'
  BY <1>3, <1>5 DEF GpioInv, RunInv, TrustsPin, BadArguments, NoRequest
<1>8. PlaceInv'
  BY <1>3, <1>5 DEF GpioInv, PlaceInv, Touches, Directs
<1> QED
  BY <1>6, <1>7, <1>8 DEF GpioInv

\* A check refuses a pin or leads to the first register.
LEMMA GpioCheck == ASSUME GpioInv, NEW t \in Threads, Check(t) PROVE GpioInv'
<1>1. Types /\ TypeOK /\ pc[t] = "check"
  BY DEF GpioInv, Types, Check
<1>2. /\ step' = [step EXCEPT ![t] = 0] /\ seen' = [seen EXCEPT ![t] = <<>>]
      /\ \/ /\ BadArguments(run[t]) /\ pc' = [pc EXCEPT ![t] = "done"]
            /\ ret' = [ret EXCEPT ![t] = -1]
         \/ ~BadArguments(run[t]) /\ pc' = [pc EXCEPT ![t] = "read"] /\ ret' = ret
  BY DEF Check, Goto, Finish
<1>3. UNCHANGED <<family, regs, odd, signal, fed, req, run, val>>
  BY DEF Check, shared
<1>4. <<>> \in Seq(SUBSET AllBits) /\ Len(<<>>) = 0
  OBVIOUS
<1>5. /\ pc'[t] = "done" \/ (pc'[t] = "read" /\ ~BadArguments(run[t]))
      /\ step'[t] = 0 /\ seen'[t] = <<>>
      /\ \A u \in Threads \ {t} : /\ pc'[u] = pc[u] /\ step'[u] = step[u] /\ seen'[u] = seen[u]
                                  /\ ret'[u] = ret[u]
  BY <1>1, <1>2 DEF Types, TypeOK
<1>6. run[t].op \in Ops /\ Len(Touches(run[t])) \in {1, 2}
  BY <1>1, RunOps, TouchFacts
<1>7. ~BadArguments(run[t]) => run[t].pin \in Pins
  <2>1. CASE req[t].op = "feed"
    BY <1>1, <2>1, PinAssumption DEF GpioInv, RunInv, DogSet
  <2>2. CASE req[t].op # "feed"
    <3>1. run[t] = req[t] /\ req[t] \in Request /\ (req[t].pin = BadPin => ~TrustsPin)
      BY <1>1, <2>2, GpioAssumption DEF GpioInv, RunInv
    <3>2. run[t].pin \in Pins \cup {BadPin}
      BY <3>1 DEF Request
    <3> QED
      BY <3>1, <3>2 DEF BadArguments
  <2> QED
    BY <2>1, <2>2
<1>8. Types'
  <2>1. seen' \in [Threads -> Seq(SUBSET AllBits)] /\ \A u \in Threads : Len(seen'[u]) <= 2
    BY <1>1, <1>2, <1>4 DEF Types, TypeOK
  <2>2. pc' \in [Threads -> Pcs] /\ ret' \in [Threads -> {-1, 0, 1}] /\ step' \in [Threads -> 0 .. 1]
    <3>1. pc' = [pc EXCEPT ![t] = "done"] \/ pc' = [pc EXCEPT ![t] = "read"]
      BY <1>2
    <3>4. pc' \in [Threads -> Pcs]
      BY <1>1, <3>1 DEF TypeOK, Pcs
    <3>5. step' \in [Threads -> 0 .. 1]
      BY <1>1, <1>2 DEF TypeOK
    <3>2. ret' = ret \/ ret' = [ret EXCEPT ![t] = -1]
      BY <1>2
    <3>3. ret' \in [Threads -> {-1, 0, 1}]
      BY <1>1, <3>2 DEF Types, TypeOK
    <3> QED
      BY <3>3, <3>4, <3>5
  <2> QED
    BY <1>1, <1>3, <2>1, <2>2 DEF Types, TypeOK, Bits
<1>9. RunInv'
  BY <1>1, <1>3, <1>5, <1>7 DEF GpioInv, RunInv, TrustsPin, BadArguments
<1>10. PlaceInv'
  <2>1. \A u \in Threads : Touches(run[u])' = Touches(run[u])
    BY <1>3 DEF Touches, Directs
  <2>2. Len(seen'[t]) = 0 /\ 0 < Len(Touches(run[t])) /\ \A k \in 1 .. 0 : FALSE
    BY <1>4, <1>5, <1>6
  <2>3. ~(pc'[t] \in {"write", "get"})
    BY <1>5
  <2> QED
    BY <1>3, <1>5, <2>1, <2>2, <2>3 DEF GpioInv, PlaceInv
<1> QED
  BY <1>8, <1>9, <1>10 DEF GpioInv

\* Of one or two registers, the next one is the last or the first.
LEMMA FirstOrLast ==
    ASSUME NEW k \in {0, 1}, NEW n \in {1, 2}, k < n
    PROVE  /\ k + 1 = n \/ k = 0
           /\ k + 1 < n => k = 0
OBVIOUS

\* What has been read is bits of the register that is written next.
LEMMA GpioReadReg == ASSUME GpioInv, NEW t \in Threads, ReadReg(t) PROVE GpioInv'
<1>1. Types /\ TypeOK /\ pc[t] = "read" /\ step[t] \in {0, 1} /\ step[t] < Len(Touches(run[t]))
  BY DEF GpioInv, Types, TypeOK, PlaceInv, ReadReg
<1> DEFINE r == run[t]
           k == step[t] + 1
           g == Touches(r)[k]
           last == k = Len(Touches(r))
<1>2. UNCHANGED <<family, regs, odd, signal, fed, req, run, val>>
  BY DEF ReadReg, shared
<1>3. \/ /\ pc' = [pc EXCEPT ![t] = "done"] /\ ret' = [ret EXCEPT ![t] = -1]
         /\ step' = step /\ seen' = seen
      \/ /\ seen' = [seen EXCEPT ![t] = Append(seen[t], regs[g])]
         /\ step' = [step EXCEPT ![t] = IF last THEN 0 ELSE k]
         /\ pc' = [pc EXCEPT ![t] = IF ~last THEN "read" ELSE IF IsSet(r) THEN "write" ELSE "get"]
         /\ ret' = ret
  <2>1. step' = [step EXCEPT ![t] = IF last THEN 0 ELSE @ + 1]
           => step' = [step EXCEPT ![t] = IF last THEN 0 ELSE k]
    BY <1>1 DEF TypeOK
  <2> QED
    BY <2>1 DEF ReadReg, Goto, Finish
<1>4. r.op \in Ops /\ Len(Touches(r)) \in {1, 2} /\ g \in Regs /\ k \in 1 .. 2
  <2>1. r.op \in Ops
    BY <1>1, RunOps
  <2>2. k \in 1 .. Len(Touches(r))
    BY <1>1, <2>1, TouchFacts
  <2> QED
    BY <1>1, <2>1, <2>2, TouchFacts
<1>5. regs[g] \subseteq AllBits /\ regs[g] \subseteq Bits(g) /\ seen[t] \in Seq(SUBSET AllBits)
  BY <1>1, <1>4, BitsAll DEF Types, TypeOK
<1>6. /\ Append(seen[t], regs[g]) \in Seq(SUBSET AllBits)
      /\ Len(Append(seen[t], regs[g])) = k
      /\ \A n \in 1 .. k : Append(seen[t], regs[g])[n] \subseteq Bits(Touches(r)[n])
  <2>1. Len(seen[t]) = step[t]
    BY <1>1 DEF GpioInv, PlaceInv
  <2>2. regs[g] \in SUBSET AllBits
    BY <1>5
  <2> HIDE DEF g
  <2>3. Append(seen[t], regs[g]) \in Seq(SUBSET AllBits)
    BY <1>5, <2>2
  <2>4. Len(Append(seen[t], regs[g])) = k
    BY <1>1, <1>5, <2>1, <2>2
  <2>5. /\ \A n \in 1 .. step[t] : Append(seen[t], regs[g])[n] = seen[t][n]
        /\ Append(seen[t], regs[g])[k] = regs[g]
    BY <1>1, <1>5, <2>1, <2>2
  <2>6. \A n \in 1 .. step[t] : seen[t][n] \subseteq Bits(Touches(r)[n])
    BY <1>1, <2>1 DEF GpioInv, PlaceInv
  <2>7. \A n \in 1 .. k : n = k \/ n \in 1 .. step[t]
    BY <1>1
  <2> QED
    BY <1>5, <2>3, <2>4, <2>5, <2>6, <2>7 DEF g
<1>7. \A u \in Threads : Touches(run[u])' = Touches(run[u])
  BY <1>2 DEF Touches, Directs
<1>8. \A u \in Threads \ {t} : /\ pc'[u] = pc[u] /\ step'[u] = step[u] /\ seen'[u] = seen[u]
                               /\ ret'[u] = ret[u]
  BY <1>1, <1>3 DEF Types, TypeOK
<1>9. CASE /\ pc' = [pc EXCEPT ![t] = "done"] /\ ret' = [ret EXCEPT ![t] = -1]
           /\ step' = step /\ seen' = seen
  <2>1. pc' \in [Threads -> Pcs] /\ pc'[t] = "done"
    BY <1>1, <1>9 DEF TypeOK, Pcs
  <2>2. ret' \in [Threads -> {-1, 0, 1}]
    BY <1>1, <1>9 DEF TypeOK
  <2>3. Types'
    BY <1>1, <1>2, <1>9, <2>1, <2>2 DEF Types, TypeOK, Bits
  <2>4. RunInv'
    BY <1>1, <1>2, <1>8, <2>1 DEF GpioInv, RunInv, TrustsPin, BadArguments
  <2>5. PlaceInv'
    BY <1>2, <1>7, <1>8, <2>1 DEF GpioInv, PlaceInv
  <2> QED
    BY <2>3, <2>4, <2>5 DEF GpioInv
<1>10. CASE /\ seen' = [seen EXCEPT ![t] = Append(seen[t], regs[g])]
            /\ step' = [step EXCEPT ![t] = IF last THEN 0 ELSE k]
            /\ pc' = [pc EXCEPT ![t] = IF ~last THEN "read" ELSE IF IsSet(r) THEN "write" ELSE "get"]
            /\ ret' = ret
  <2> DEFINE s == Append(seen[t], regs[g])
  <2> HIDE DEF s
  <2>1. /\ pc'[t] = IF ~last THEN "read" ELSE IF IsSet(r) THEN "write" ELSE "get"
        /\ pc' \in [Threads -> Pcs]
    BY <1>1, <1>10 DEF TypeOK, Pcs
  <2>2. seen'[t] = s /\ seen' \in [Threads -> Seq(SUBSET AllBits)]
        /\ \A u \in Threads : Len(seen'[u]) <= 2
    <3>1. s \in Seq(SUBSET AllBits) /\ Len(s) <= 2
      BY <1>4, <1>6 DEF s
    <3>2. seen' = [seen EXCEPT ![t] = s]
      BY <1>10 DEF s
    <3> HIDE DEF k, g
    <3> QED
      BY <1>1, <3>1, <3>2 DEF Types, TypeOK
  <2>3. step'[t] = (IF last THEN 0 ELSE k) /\ step' \in [Threads -> 0 .. 1]
    <3>2. last \/ step[t] = 0
      BY <1>1, <1>4, FirstOrLast
    <3>1. (IF last THEN 0 ELSE k) \in 0 .. 1
      BY <3>2
    <3> QED
      BY <1>1, <1>10, <3>1 DEF TypeOK
  <2>4. Types'
    BY <1>1, <1>2, <1>10, <2>1, <2>2, <2>3 DEF Types, TypeOK, Bits
  <2>5. RunInv'
    <3>1. req[t].op = "feed" => IsSet(run[t])
      BY <1>1 DEF GpioInv, RunInv, DogSet, IsSet
    <3>2. pc'[t] \in {"read", "write", "get"} /\ (pc'[t] = "get" => ~IsSet(r)) /\ (pc'[t] = "write" => IsSet(r))
      BY <2>1
    <3> HIDE DEF k, g
    <3> QED
      BY <1>1, <1>2, <1>8, <3>1, <3>2 DEF GpioInv, RunInv, TrustsPin, BadArguments, IsSet
  <2>6. PlaceInv'
    <3>1. Len(s) = k /\ \A n \in 1 .. k : s[n] \subseteq Bits(Touches(r)[n])
      BY <1>6 DEF s
    <3>2. /\ pc'[t] = "read" => k < Len(Touches(r)) /\ step'[t] = k
          /\ pc'[t] \in {"write", "get"} => k = Len(Touches(r)) /\ step'[t] = 0
      BY <1>1, <1>4, <2>1, <2>3
    <3>3. 0 < Len(Touches(r))
      BY SMTT(30), <1>4
    <3> HIDE DEF k, g
    <3>4. /\ pc'[t] \in {"read", "write"} => step'[t] < Len(Touches(r))
          /\ pc'[t] = "read" => Len(seen'[t]) = step'[t]
          /\ pc'[t] \in {"write", "get"} => Len(seen'[t]) = Len(Touches(r))
          /\ \A n \in 1 .. Len(seen'[t]) : seen'[t][n] \subseteq Bits(Touches(r)[n])
      BY <2>2, <3>1, <3>2, <3>3
    <3> QED
      BY <1>2, <1>7, <1>8, <3>4 DEF GpioInv, PlaceInv, Bits
  <2> QED
    BY <2>4, <2>5, <2>6 DEF GpioInv
<1> QED
  BY <1>3, <1>9, <1>10

\* What the write of a register does.
LEMMA WriteFacts ==
    ASSUME GpioInv, NEW t \in Threads, WriteReg(t)
    PROVE  /\ run[t].op \in {"set_direction", "set_status"} /\ run[t].pin \in Pins
           /\ step[t] \in {0, 1} /\ Len(Touches(run[t])) \in {1, 2}
           /\ step[t] < Len(Touches(run[t])) /\ Touches(run[t])[step[t] + 1] \in Regs
           /\ seen[t][step[t] + 1] \subseteq Bits(Touches(run[t])[step[t] + 1])
           /\ step[t] + 1 \in 1 .. Len(Touches(run[t]))
<1>1. pc[t] = "write" /\ step[t] \in {0, 1} /\ step[t] < Len(Touches(run[t])) /\ IsSet(run[t])
      /\ Len(seen[t]) = Len(Touches(run[t])) /\ run[t].pin \in Pins
  BY DEF GpioInv, Types, TypeOK, PlaceInv, RunInv, WriteReg
<1>2. run[t].op \in {"set_direction", "set_status"} /\ run[t].op \in Ops
  BY <1>1 DEF IsSet, Ops
<1>3. Len(Touches(run[t])) \in {1, 2}
  BY <1>2, TouchFacts
<1>4. step[t] + 1 \in 1 .. Len(Touches(run[t]))
  BY <1>1, <1>3
<1>5. Touches(run[t])[step[t] + 1] \in Regs
  BY <1>2, <1>4, TouchFacts
<1>6. seen[t][step[t] + 1] \subseteq Bits(Touches(run[t])[step[t] + 1])
  BY <1>1, <1>4 DEF GpioInv, PlaceInv
<1> QED
  BY <1>1, <1>2, <1>3, <1>4, <1>5, <1>6

\* A write leads to the second register or to the end of the set.
LEMMA GpioWriteReg == ASSUME GpioInv, NEW t \in Threads, WriteReg(t) PROVE GpioInv'
<1> DEFINE r == run[t]
           k == step[t] + 1
           g == Touches(r)[k]
           new == Updated(r, g, seen[t][k])
<1>1. Types /\ TypeOK /\ pc[t] = "write"
  BY DEF GpioInv, Types, WriteReg
<1>2. UNCHANGED <<family, odd, signal, fed, req, run, seen, val>> /\ regs' = [regs EXCEPT ![g] = new]
  BY DEF WriteReg
<1>3. \/ /\ k < Len(Touches(r)) /\ step' = [step EXCEPT ![t] = k] /\ pc' = pc /\ ret' = ret
      \/ /\ step' = [step EXCEPT ![t] = 0]
         /\ \E v \in {-1, 0, 1} : ret' = [ret EXCEPT ![t] = v]
         /\ \/ req[t].op = "feed" /\ pc' = [pc EXCEPT ![t] = "fed"]
            \/ req[t].op # "feed" /\ pc' = [pc EXCEPT ![t] = "done"]
  <2>1. SetResults(r) \subseteq {-1, 0, 1}
    BY DEF SetResults
  <2> QED
    BY <2>1 DEF WriteReg, Goto, Finish
<1>4. /\ new \subseteq Bits(g) /\ new \in SUBSET AllBits /\ g \in Regs
  <2>1. g \in Regs /\ r.pin \in Pins /\ seen[t][k] \subseteq Bits(g)
    BY WriteFacts
  <2>2. new \subseteq Bits(g)
    BY <2>1, UpdatedFacts
  <2> QED
    BY <2>1, <2>2, BitsAll
<1>5. /\ \A h \in Regs : regs'[h] \subseteq Bits(h)
      /\ regs' \in [Regs -> SUBSET AllBits]
  <2> HIDE DEF new, g
  <2> QED
    BY <1>1, <1>2, <1>4 DEF Types, TypeOK
<1>6. \A u \in Threads : Touches(run[u])' = Touches(run[u])
  BY <1>2 DEF Touches, Directs
<1>7. CASE k < Len(Touches(r)) /\ step' = [step EXCEPT ![t] = k] /\ pc' = pc /\ ret' = ret
  <2>1. k \in 0 .. 1
    <3>1. step[t] \in {0, 1} /\ Len(Touches(r)) \in {1, 2} /\ step[t] < Len(Touches(r))
      BY WriteFacts
    <3>2. step[t] = 0
      BY <1>7, <3>1, FirstOrLast
    <3> QED
      BY <3>2
  <2>2. step' \in [Threads -> 0 .. 1] /\ step'[t] = k /\ \A u \in Threads \ {t} : step'[u] = step[u]
    BY <1>1, <1>7, <2>1 DEF TypeOK
  <2>3. Types'
    BY <1>1, <1>2, <1>5, <1>7, <2>2 DEF Types, TypeOK, Bits
  <2>4. RunInv'
    BY <1>2, <1>7 DEF GpioInv, RunInv, TrustsPin, BadArguments, IsSet
  <2>5. PlaceInv'
    BY <1>1, <1>2, <1>6, <1>7, <2>2 DEF GpioInv, PlaceInv, Bits
  <2> QED
    BY <2>3, <2>4, <2>5 DEF GpioInv
<1>8. CASE /\ step' = [step EXCEPT ![t] = 0]
           /\ \E v \in {-1, 0, 1} : ret' = [ret EXCEPT ![t] = v]
           /\ \/ req[t].op = "feed" /\ pc' = [pc EXCEPT ![t] = "fed"]
              \/ req[t].op # "feed" /\ pc' = [pc EXCEPT ![t] = "done"]
  <2>1. /\ pc' \in [Threads -> Pcs] /\ \A u \in Threads \ {t} : pc'[u] = pc[u]
        /\ \/ req[t].op = "feed" /\ pc'[t] = "fed"
           \/ req[t].op # "feed" /\ pc'[t] = "done"
    BY <1>1, <1>8 DEF TypeOK, Pcs
  <2>2. step' \in [Threads -> 0 .. 1] /\ \A u \in Threads \ {t} : step'[u] = step[u]
    BY <1>1, <1>8 DEF TypeOK
  <2>3. ret' \in [Threads -> {-1, 0, 1}]
    BY <1>1, <1>8 DEF TypeOK
  <2>4. Types'
    BY <1>1, <1>2, <1>5, <2>1, <2>2, <2>3 DEF Types, TypeOK, Bits
  <2>5. RunInv'
    BY <1>1, <1>2, <2>1 DEF GpioInv, RunInv, TrustsPin, BadArguments, IsSet
  <2>6. PlaceInv'
    BY <1>2, <1>6, <2>1, <2>2 DEF GpioInv, PlaceInv, Bits
  <2> QED
    BY <2>4, <2>5, <2>6 DEF GpioInv
<1> QED
  BY <1>3, <1>7, <1>8

\* A get changes no register and ends its call.
LEMMA GpioGet == ASSUME GpioInv, NEW t \in Threads, Get(t) PROVE GpioInv'
<1>1. Types /\ TypeOK /\ pc[t] = "get"
  BY DEF GpioInv, Types, Get
<1>2. UNCHANGED <<family, regs, odd, signal, fed, req, run, step, seen>>
  BY DEF Get, shared
<1>3. /\ pc' = [pc EXCEPT ![t] = "done"]
      /\ \E v \in {-1, 0, 1} : ret' = [ret EXCEPT ![t] = v]
      /\ val' = val \/ \E v \in {0, 1} : val' = [val EXCEPT ![t] = v]
  BY DEF Get, Goto, Finish
<1>4. pc'[t] = "done" /\ \A u \in Threads \ {t} : pc'[u] = pc[u]
  BY <1>1, <1>3 DEF TypeOK
<1>5. pc' \in [Threads -> Pcs] /\ ret' \in [Threads -> {-1, 0, 1}] /\ val' \in [Threads -> {0, 1}]
  <2>1. pc' \in [Threads -> Pcs]
    BY <1>1, <1>3 DEF TypeOK, Pcs
  <2>2. ret' \in [Threads -> {-1, 0, 1}]
    BY <1>1, <1>3 DEF TypeOK
  <2>3. val' \in [Threads -> {0, 1}]
    BY <1>1, <1>3 DEF TypeOK
  <2> QED
    BY <2>1, <2>2, <2>3
<1>6. Types'
  BY <1>1, <1>2, <1>5 DEF Types, TypeOK, Bits
<1>7. RunInv'
  BY <1>1, <1>2, <1>4 DEF GpioInv, RunInv, TrustsPin, BadArguments, IsSet
<1>8. PlaceInv'
  BY <1>2, <1>4 DEF GpioInv, PlaceInv, Bits, Touches, Directs
<1> QED
  BY <1>6, <1>7, <1>8 DEF GpioInv

\* The steps of a feed leave the registers and what was read of them alone.
LEMMA GpioFeedSteps ==
    ASSUME GpioInv, NEW t \in Threads, Feed(t) \/ Count(t) \/ LevelByParity(t) \/ Fed(t)
    PROVE  GpioInv'
<1>1. Types /\ TypeOK /\ pc[t] \in {"feed", "count", "level", "fed"} /\ req[t].op = "feed"
  BY DEF GpioInv, Types, RunInv, Feed, Count, LevelByParity, Fed
<1>2. UNCHANGED <<family, regs, req, step, seen, val>>
  BY DEF Feed, Count, LevelByParity, Fed, shared, locals
<1>3. /\ odd' \in BOOLEAN /\ signal' \in BOOLEAN /\ fed' \in {"none", "low", "high"}
  <2>1. odd \in BOOLEAN /\ signal \in BOOLEAN /\ fed \in {"none", "low", "high"}
    BY <1>1 DEF TypeOK
  <2>2. odd' = odd \/ odd' = ~odd
    BY DEF Feed, Count, LevelByParity, Fed, shared
  <2>3. signal' = signal \/ signal' = TRUE
    BY DEF Feed, Count, LevelByParity, Fed, shared
  <2>4. fed' = fed \/ fed' = "high" \/ fed' = "low"
    BY DEF Feed, Count, LevelByParity, Fed, shared
  <2>5. odd' \in BOOLEAN
    BY <2>1, <2>2
  <2>6. signal' \in BOOLEAN
    BY <2>1, <2>3
  <2> QED
    BY <2>1, <2>4, <2>5, <2>6
<1>4. \/ run' = run /\ \E l \in {"count", "level", "done"} : pc' = [pc EXCEPT ![t] = l]
      \/ /\ \E d \in Request : DogSet(d) /\ run' = [run EXCEPT ![t] = d]
         /\ pc' = [pc EXCEPT ![t] = "check"]
  <2>1. \A op \in {"set_direction", "set_status"}, v \in {0, 1} :
            LET d == [op |-> op, pin |-> DogPin, val |-> v] IN d \in Request /\ DogSet(d)
    BY PinAssumption DEF Request, DogSet
  <2>2. CASE Feed(t)
    BY <2>1, <2>2 DEF Feed, Sets, Goto
  <2>3. CASE Count(t)
    BY <2>3 DEF Count, Goto, locals
  <2>4. CASE LevelByParity(t)
    BY <2>1, <2>4 DEF LevelByParity, Sets, Goto
  <2>5. CASE Fed(t)
    BY <2>5 DEF Fed, Goto, Finish
  <2> QED
    BY <2>2, <2>3, <2>4, <2>5
<1>5. ret' = ret \/ \E v \in {-1, 0, 1} : ret' = [ret EXCEPT ![t] = v]
  <2>1. ret[t] \in {-1, 0, 1}
    BY <1>1 DEF TypeOK
  <2> QED
    BY <2>1 DEF Feed, Count, LevelByParity, Fed, Finish, locals
<1>6. ret' \in [Threads -> {-1, 0, 1}]
  BY <1>1, <1>5 DEF TypeOK
<1>7. /\ pc' \in [Threads -> Pcs] /\ \A u \in Threads \ {t} : pc'[u] = pc[u] /\ run'[u] = run[u]
      /\ run' \in [Threads -> Calls]
      /\ \/ pc'[t] \in {"count", "level", "done"}
         \/ pc'[t] = "check" /\ DogSet(run'[t])
  BY ZenonT(60), <1>1, <1>4 DEF Types, TypeOK, Pcs, Calls
<1>8. Types'
  BY <1>1, <1>2, <1>3, <1>6, <1>7 DEF Types, TypeOK, Bits
<1>9. RunInv'
  BY <1>1, <1>2, <1>7 DEF GpioInv, RunInv, TrustsPin, BadArguments, IsSet
<1>10. PlaceInv'
  <2>1. \A u \in Threads \ {t} : Touches(run[u])' = Touches(run[u])
    BY <1>2, <1>7 DEF Touches, Directs
  <2>2. pc'[t] \notin {"read", "write", "get"}
    BY <1>7
  <2> QED
    BY <1>2, <1>7, <2>1, <2>2 DEF GpioInv, PlaceInv, Bits
<1> QED
  BY <1>8, <1>9, <1>10 DEF GpioInv

\* Every step of the program keeps the invariant.
LEMMA GpioNext == GpioInv /\ [Next]_vars => GpioInv'
<1> SUFFICES ASSUME GpioInv, [Next]_vars PROVE GpioInv'
  OBVIOUS
<1>1. CASE Next
  BY <1>1, GpioCall, GpioConsume, GpioCheck, GpioReadReg, GpioWriteReg, GpioGet, GpioFeedSteps
     DEF Next
<1>2. CASE UNCHANGED vars
  <2>1. UNCHANGED <<family, regs, odd, signal, fed, pc, req, run, step, seen, val, ret>>
    BY <1>2 DEF vars, shared, locals
  <2>2. Types'
    BY <2>1 DEF GpioInv, Types, TypeOK, Bits
  <2>3. RunInv'
    BY <2>1 DEF GpioInv, RunInv, TrustsPin, BadArguments, IsSet
  <2>4. PlaceInv'
    BY <2>1 DEF GpioInv, PlaceInv, Bits, Touches, Directs
  <2> QED
    BY <2>2, <2>3, <2>4 DEF GpioInv
<1> QED
  BY <1>1, <1>2

\* The invariant always holds.
LEMMA GpioAlways == Spec => []GpioInv
BY GpioInit, GpioNext, PTL DEF Spec

\* Types are kept, whoever sets pins at the same time; in particular every
\* register holds bits of its own and a call returns -1, 0 or 1.
THEOREM Typed == Spec => []TypeOK
<1>1. GpioInv => TypeOK
  BY DEF GpioInv, Types
<1> QED
  BY <1>1, GpioAlways, PTL
----------------------------------------------------------------------------
(* One setter. *)

Step(t) == \/ Call(t) \/ Consume(t) \/ Check(t) \/ ReadReg(t) \/ Get(t)
           \/ Feed(t) \/ Count(t) \/ LevelByParity(t) \/ Fed(t)

\* A step of one thread leaves the locals of the others alone.
LEMMA OthersRest ==
    ASSUME GpioInv, NEW t \in Threads, Step(t) \/ WriteReg(t), NEW u \in Threads, u # t
    PROVE  /\ pc'[u] = pc[u] /\ req'[u] = req[u] /\ run'[u] = run[u]
           /\ step'[u] = step[u] /\ seen'[u] = seen[u] /\ ret'[u] = ret[u]
<1>1. /\ pc \in [Threads -> Pcs] /\ ret \in [Threads -> {-1, 0, 1}] /\ step \in [Threads -> 0 .. 1]
      /\ req \in [Threads -> Calls] /\ run \in [Threads -> Calls]
      /\ seen \in [Threads -> Seq(SUBSET AllBits)]
  BY DEF GpioInv, Types, TypeOK
<1>2. CASE Call(t) \/ Consume(t)
  BY <1>1, <1>2 DEF Call, Consume, Goto
<1>3. CASE Check(t)
  BY <1>1, <1>3 DEF Check, Goto, Finish
<1>4. CASE ReadReg(t)
  BY <1>1, <1>4 DEF ReadReg, Goto, Finish
<1>5. CASE WriteReg(t)
  BY <1>1, <1>5 DEF WriteReg, Goto, Finish
<1>6. CASE Get(t)
  BY <1>1, <1>6 DEF Get, Goto, Finish
<1>7. CASE Feed(t) \/ LevelByParity(t)
  BY <1>1, <1>7 DEF Feed, LevelByParity, Sets, Goto
<1>8. CASE Count(t)
  BY <1>1, <1>8 DEF Count, Goto, locals
<1>9. CASE Fed(t)
  BY <1>1, <1>9 DEF Fed, Goto, Finish
<1> QED
  BY <1>2, <1>3, <1>4, <1>5, <1>6, <1>7, <1>8, <1>9 DEF Step

\* Only the write of a register changes the registers.
LEMMA RegsRest ==
    ASSUME NEW t \in Threads, Step(t)
    PROVE  regs' = regs /\ family' = family
BY DEF Step, Call, Consume, Check, ReadReg, Get, Feed, Count, LevelByParity, Fed, shared

\* Who executes a set may make one.
LEMMA SetsOfSetter ==
    ASSUME GpioInv, NEW t \in Threads, IsSet(run[t])
    PROVE  Setter(t)
<1>1. req[t] \in Requests[t] \/ run[t] = NoRequest
  BY DEF GpioInv, RunInv, NoRequest
<1>2. run[t] # NoRequest
  BY DEF IsSet, NoRequest
<1>3. req[t].op = "feed" \/ IsSet(req[t])
  BY DEF GpioInv, RunInv
<1> QED
  BY <1>1, <1>2, <1>3 DEF Setter

\* The two registers of one set differ.
LEMMA TouchesDiffer ==
    ASSUME NEW r, r.op \in Ops, NEW j \in 1 .. Len(Touches(r)), NEW k \in 1 .. Len(Touches(r)),
           j # k
    PROVE  Touches(r)[j] # Touches(r)[k]
<1>1. Len(Touches(r)) \in {1, 2}
  BY TouchFacts
<1>2. Len(Touches(r)) = 2 /\ ((j = 1 /\ k = 2) \/ (j = 2 /\ k = 1))
  <2> DEFINE n == Len(Touches(r))
  <2>1. n \in {1, 2} /\ j \in 1 .. n /\ k \in 1 .. n
    BY <1>1
  <2> HIDE DEF n
  <2>2. n = 2 /\ ((j = 1 /\ k = 2) \/ (j = 2 /\ k = 1))
    BY <2>1
  <2> QED
    BY <2>2 DEF n
<1> QED
  BY <1>2, TouchFacts

\* Only MPC8548 has a control register, and it has no register of inputs.
LEMMA TouchFamily ==
    ASSUME NEW r, r.op \in Ops, NEW k \in 1 .. Len(Touches(r))
    PROVE  /\ Touches(r)[k] = "cr" => family = "mpc8548"
           /\ Touches(r)[k] = "ibe" => family # "mpc8548"
<1>1. CASE Directs(r) /\ family # "mpc8548"
  <2>1. Touches(r) = <<"dir", "ibe">> \/ Touches(r) = <<"dir">>
    BY <1>1 DEF Touches, Directs
  <2>2. CASE Touches(r) = <<"dir", "ibe">>
    BY <1>1, <2>2
  <2>3. CASE Touches(r) = <<"dir">>
    BY <1>1, <2>3
  <2> QED
    BY <2>1, <2>2, <2>3
<1>2. CASE Directs(r) /\ family = "mpc8548"
  <2>1. Touches(r) = <<"cr">>
    BY <1>2 DEF Touches, Directs
  <2> QED
    BY <1>2, <2>1
<1>3. CASE ~Directs(r)
  <2>1. Touches(r) = <<"dat">> \/ Touches(r) = <<"in">>
    BY <1>3 DEF Touches, Directs
  <2>2. CASE Touches(r) = <<"dat">>
    BY <2>2
  <2>3. CASE Touches(r) = <<"in">>
    BY <2>3
  <2> QED
    BY <2>1, <2>2, <2>3
<1> QED
  BY <1>1, <1>2, <1>3

\* What a set writes is what it asked for.
LEMMA UpdatedEffect ==
    ASSUME NEW r, r.op \in Ops, NEW k \in 1 .. Len(Touches(r)), NEW old,
           family = "mpc8548" => r.val = 1
    PROVE  Bit(r, Touches(r)[k]) \in Updated(r, Touches(r)[k], old) <=>
               (Touches(r)[k] = "cr" \/ Level(r, Touches(r)[k]))
<1> DEFINE g == Touches(r)[k]
<1>1. (g = "cr" => family = "mpc8548") /\ (g = "ibe" => family # "mpc8548")
  BY TouchFamily
<1> HIDE DEF g
<1>2. CASE family = "mpc8548"
  <2>1. Updated(r, g, old) = old \cup {Bit(r, g)}
    BY <1>2 DEF Updated
  <2>2. g = "ibe" \/ Level(r, g)
    BY <1>2 DEF Level
  <2> QED
    BY <1>1, <1>2, <2>1, <2>2 DEF g
<1>3. CASE family # "mpc8548"
  <2>1. Updated(r, g, old) = IF Level(r, g) THEN old \cup {Bit(r, g)} ELSE old \ {Bit(r, g)}
    BY <1>3 DEF Updated
  <2> QED
    BY <1>1, <1>3, <2>1 DEF g
<1> QED
  BY <1>2, <1>3

\* A set leaves the other bits of a register as it read them.
LEMMA UpdatedOthers ==
    ASSUME NEW r, NEW g, NEW old, NEW b, b # Bit(r, g)
    PROVE  b \in Updated(r, g, old) <=> b \in old
BY DEF Updated

\* FreshInv is kept by every step, once one thread alone makes sets.
LEMMA FreshWrite ==
    ASSUME OneSetter, GpioInv, GpioInv', FreshInv, NEW t \in Threads, WriteReg(t)
    PROVE  FreshInv'
<1> DEFINE r == run[t]
           n == Len(Touches(r))
           k == step[t] + 1
           g == Touches(r)[k]
<1>1. /\ r.op \in Ops /\ IsSet(r) /\ step[t] \in {0, 1} /\ n \in {1, 2} /\ step[t] < n
      /\ k \in 1 .. n /\ g \in Regs
  BY WriteFacts DEF Ops, IsSet
<1>2. UNCHANGED <<family, req, run, seen>> /\ regs' = [regs EXCEPT ![g] = Updated(r, g, seen[t][k])]
  BY DEF WriteReg
<1>3. /\ pc[t] = "write"
      /\ \/ k < n /\ step'[t] = k /\ pc'[t] = "write"
         \/ k = n /\ pc'[t] \in {"fed", "done"}
  <2>1. pc \in [Threads -> Pcs] /\ step \in [Threads -> 0 .. 1]
    BY DEF GpioInv, Types, TypeOK
  <2>2. k < n \/ k = n
    BY <1>1
  <2> QED
    BY <2>1, <2>2 DEF WriteReg, Goto, Finish
<1>4. \A u \in Threads : Touches(run[u])' = Touches(run[u]) /\ IsSet(run[u])' = IsSet(run[u])
  BY <1>2 DEF Touches, Directs, IsSet
<1>5. /\ regs'[g] = Updated(r, g, seen[t][k])
      /\ \A h \in Regs : h # g => regs'[h] = regs[h]
  BY <1>1, <1>2 DEF GpioInv, Types
<1>6. \A j \in 1 .. n : j > step[t] => seen[t][j] = regs[Touches(r)[j]]
  BY <1>1, <1>3 DEF FreshInv, FreshAt
<1>7. \A j \in 1 .. n : j <= step[t] => Effect(r, j)
  BY <1>1, <1>3 DEF FreshInv, FreshAt
<1>8. \A j \in 1 .. n : j # k => Touches(r)[j] # g /\ Touches(r)[j] \in Regs
  BY <1>1, TouchesDiffer, TouchFacts
<1>9. \A j \in 1 .. n : Effect(run[t], j)' <=>
        ((family = "mpc8548" => r.val = 1) =>
           ((Bit(r, Touches(r)[j]) \in regs'[Touches(r)[j]]) <=>
               (Touches(r)[j] = "cr" \/ Level(r, Touches(r)[j]))))
  BY <1>2, <1>4 DEF Effect, Bit, Level
<1>10. \A j \in 1 .. n : j <= k => Effect(run[t], j)'
  <2> SUFFICES ASSUME NEW j \in 1 .. n, j <= k PROVE Effect(run[t], j)'
    OBVIOUS
  <2>1. CASE j = k
    <3>1. ASSUME family = "mpc8548" => r.val = 1
          PROVE  Bit(r, g) \in regs'[g] <=> (g = "cr" \/ Level(r, g))
      <4>1. r.op \in Ops /\ k \in 1 .. n
        BY <1>1
      <4> DEFINE old == seen[t][k]
      <4> HIDE DEF n, k, r, old
      <4>2. Bit(r, Touches(r)[k]) \in Updated(r, Touches(r)[k], old)
               <=> (Touches(r)[k] = "cr" \/ Level(r, Touches(r)[k]))
        BY <3>1, <4>1, UpdatedEffect DEF n
      <4> QED
        BY <1>5, <4>2 DEF k, r, n, old
    <3> QED
      BY <1>9, <2>1, <3>1
  <2>2. CASE j # k
    <3>1. j <= step[t]
      BY <1>1, <2>2
    <3>2. regs'[Touches(r)[j]] = regs[Touches(r)[j]]
      BY <1>5, <1>8, <2>2
    <3> QED
      BY <1>7, <1>9, <3>1, <3>2 DEF Effect
  <2> QED
    BY <2>1, <2>2
<1>11. FreshAt(t)'
  <2>1. CASE k < n /\ step'[t] = k /\ pc'[t] = "write"
    <3>1. \A j \in 1 .. n : j > k => seen'[t][j] = regs'[Touches(r)[j]]
      BY <1>1, <1>2, <1>5, <1>6, <1>8
    <3>2. \A j \in 1 .. n : j > k \/ j <= k
      BY <1>1
    <3> HIDE DEF k, g
    <3> QED
      BY <1>2, <1>4, <1>10, <2>1, <3>1, <3>2 DEF FreshAt
  <2>2. CASE k = n /\ pc'[t] \in {"fed", "done"}
    <3>1. \A j \in 1 .. n : Effect(run[t], j)'
      BY <1>1, <1>10, <2>2
    <3> HIDE DEF k, g
    <3> QED
      BY <1>4, <2>2, <3>1 DEF FreshAt
  <2> QED
    BY <1>3, <2>1, <2>2
<1>12. \A u \in Threads \ {t} : FreshAt(u)'
  <2> SUFFICES ASSUME NEW u \in Threads, u # t PROVE ~IsSet(run[u])'
    BY DEF FreshAt
  <2>1. Setter(t)
    BY <1>1, SetsOfSetter
  <2>2. ~Setter(u)
    BY <2>1 DEF OneSetter
  <2> QED
    BY <1>4, <2>2, SetsOfSetter
<1> QED
  BY <1>11, <1>12 DEF FreshInv
\* No step but a write changes a register, so what was read stays true.
LEMMA FreshRest ==
    ASSUME GpioInv, GpioInv', FreshInv, NEW t \in Threads, Step(t)
    PROVE  FreshInv'
<1>1. /\ regs' = regs /\ family' = family
      /\ \A u \in Threads \ {t} : /\ pc'[u] = pc[u] /\ req'[u] = req[u] /\ run'[u] = run[u]
                                  /\ step'[u] = step[u] /\ seen'[u] = seen[u] /\ ret'[u] = ret[u]
  BY RegsRest, OthersRest
<1>2. /\ pc \in [Threads -> Pcs] /\ ret \in [Threads -> {-1, 0, 1}] /\ step \in [Threads -> 0 .. 1]
      /\ req \in [Threads -> Calls] /\ run \in [Threads -> Calls]
      /\ seen \in [Threads -> Seq(SUBSET AllBits)]
  BY DEF GpioInv, Types, TypeOK
<1>3. \A u \in Threads \ {t} : FreshAt(u)'
  <2> SUFFICES ASSUME NEW u \in Threads, u # t PROVE FreshAt(u)'
    OBVIOUS
  <2>1. FreshAt(u)
    BY DEF FreshInv
  <2>2. /\ pc'[u] = pc[u] /\ req'[u] = req[u] /\ run'[u] = run[u]
        /\ step'[u] = step[u] /\ seen'[u] = seen[u] /\ ret'[u] = ret[u]
    BY <1>1
  <2>3. /\ Touches(run[u])' = Touches(run[u]) /\ IsSet(run[u])' = IsSet(run[u])
        /\ IsSet(req[u])' = IsSet(req[u])
        /\ \A k \in 1 .. Len(Touches(run[u])) : Effect(run[u], k)' = Effect(run[u], k)
    BY <1>1, <2>2 DEF Touches, Directs, IsSet, Effect, Bit, Level
  <2> QED
    BY <1>1, <2>1, <2>2, <2>3 DEF FreshAt
<1>4. FreshAt(t)'
  <2> SUFFICES ASSUME IsSet(run[t])' PROVE FreshAt(t)'
    BY DEF FreshAt
  <2>1. CASE Call(t)
    <3>1. pc'[t] \in {"feed", "check"}
      BY <1>2, <2>1 DEF Call, Goto
    <3> QED
      BY <3>1 DEF FreshAt
  <2>2. CASE Consume(t)
    <3>1. pc'[t] = "idle"
      BY <1>2, <2>2 DEF Consume, Goto
    <3> QED
      BY <3>1 DEF FreshAt
  <2>3. CASE Check(t)
    <3>1. \/ pc'[t] = "done" /\ ret'[t] = -1
          \/ pc'[t] = "read" /\ seen'[t] = <<>>
      BY <1>2, <2>3 DEF Check, Goto, Finish
    <3> QED
      BY <3>1 DEF FreshAt
  <2>4. CASE ReadReg(t)
    <3> DEFINE r == run[t]
               n == Len(Touches(r))
               k == step[t] + 1
               g == Touches(r)[k]
    <3>1. pc[t] = "read" /\ run' = run
      BY <2>4 DEF ReadReg
    <3>2. r.op \in Ops /\ step[t] \in {0, 1} /\ step[t] < n /\ Len(seen[t]) = step[t]
      BY <1>2, <3>1, RunOps DEF GpioInv, PlaceInv
    <3>3. \/ pc'[t] = "done" /\ ret'[t] = -1
          \/ /\ seen'[t] = Append(seen[t], regs[g])
             /\ \/ pc'[t] = "read"
                \/ pc'[t] = "write" /\ k = n /\ step'[t] = 0
                \/ pc'[t] = "get"
      BY <1>2, <2>4 DEF ReadReg, Goto, Finish
    <3>4. Touches(run[t])' = Touches(r) /\ IsSet(r)
      BY <1>1, <3>1 DEF Touches, Directs, IsSet
    <3>5. \A j \in 1 .. Len(seen[t]) : seen[t][j] = regs[Touches(r)[j]]
      BY <3>1, <3>4 DEF FreshInv, FreshAt
    <3>6. /\ Len(Append(seen[t], regs[g])) = k
          /\ \A j \in 1 .. k : Append(seen[t], regs[g])[j] = regs[Touches(r)[j]]
      <4>1. regs[g] \in SUBSET AllBits
        <5>1. k \in 1 .. n
          BY <3>2, TouchFacts
        <5>2. g \in Regs
          BY <3>2, <5>1, TouchFacts
        <5> HIDE DEF g
        <5> QED
          BY <5>2 DEF GpioInv, Types
      <4> DEFINE x == regs[g]
                 s == seen[t]
      <4>2. x \in SUBSET AllBits /\ s \in Seq(SUBSET AllBits) /\ Len(s) = step[t] /\ x = regs[g]
        BY <1>2, <3>2, <4>1
      <4> HIDE DEF x, s
      <4>3. Len(Append(s, x)) = k /\ Append(s, x)[k] = x
            /\ \A j \in 1 .. step[t] : Append(s, x)[j] = s[j]
        BY <3>2, <4>2
      <4>4. \A j \in 1 .. k : j = k \/ j \in 1 .. step[t]
        BY <3>2
      <4> QED
        BY <3>2, <3>5, <4>2, <4>3, <4>4 DEF x, s
    <3>7. CASE pc'[t] = "done" /\ ret'[t] = -1
      BY <3>7 DEF FreshAt
    <3>8. CASE seen'[t] = Append(seen[t], regs[g]) /\ pc'[t] \in {"read", "get"}
      <4>1. \A j \in 1 .. Len(seen'[t]) : seen'[t][j] = regs'[Touches(run[t])'[j]]
        BY <1>1, <3>4, <3>6, <3>8
      <4> HIDE DEF k, g
      <4> QED
        BY <3>4, <3>8, <4>1 DEF FreshAt
    <3>9. CASE seen'[t] = Append(seen[t], regs[g]) /\ pc'[t] = "write" /\ k = n /\ step'[t] = 0
      <4>1. \A j \in 1 .. n : j > 0 /\ seen'[t][j] = regs'[Touches(run[t])'[j]]
        BY <1>1, <3>2, <3>4, <3>6, <3>9
      <4> HIDE DEF k, g
      <4> QED
        BY <3>4, <3>9, <4>1 DEF FreshAt
    <3> QED
      BY <3>3, <3>7, <3>8, <3>9
  <2>5. CASE Get(t)
    BY <2>5 DEF Get, GpioInv, RunInv, IsSet
  <2>6. CASE Feed(t) \/ Count(t) \/ LevelByParity(t) \/ Fed(t)
    <3>1. pc[t] \in {"feed", "count", "level", "fed"} /\ req[t].op = "feed" /\ req' = req
      BY <2>6 DEF GpioInv, RunInv, Feed, Count, LevelByParity, Fed, shared, locals
    <3>2. pc'[t] \in {"count", "level", "check", "done"}
      <4>1. CASE Feed(t)
        BY <1>2, <4>1 DEF Feed, Sets, Goto
      <4>2. CASE Count(t)
        BY <1>2, <4>2 DEF Count, Goto
      <4>3. CASE LevelByParity(t)
        BY <1>2, <4>3 DEF LevelByParity, Sets, Goto
      <4>4. CASE Fed(t)
        BY <1>2, <4>4 DEF Fed, Goto, Finish
      <4> QED
        BY <2>6, <4>1, <4>2, <4>3, <4>4
    <3> QED
      BY <3>1, <3>2 DEF FreshAt, IsSet
  <2> QED
    BY <2>1, <2>2, <2>3, <2>4, <2>5, <2>6 DEF Step
<1> QED
  BY <1>3, <1>4 DEF FreshInv
\* At first nothing has been read.
LEMMA FreshInit == Init => FreshInv
BY DEF Init, FreshInv, FreshAt, IsSet, NoRequest

\* With one setter, nobody else writes between its read and its write.
LEMMA FreshNext == OneSetter /\ GpioInv /\ GpioInv' /\ FreshInv /\ [Next]_vars => FreshInv'
<1> SUFFICES ASSUME OneSetter, GpioInv, GpioInv', FreshInv, [Next]_vars PROVE FreshInv'
  OBVIOUS
<1>1. CASE Next
  BY <1>1, FreshWrite, FreshRest DEF Next, Step
<1>2. CASE UNCHANGED vars
  <2>1. /\ family' = family /\ regs' = regs /\ seen' = seen /\ run' = run /\ req' = req
        /\ pc' = pc /\ step' = step /\ ret' = ret
    BY <1>2 DEF vars, shared, locals
  <2>2. \A r, k : Effect(r, k)' = Effect(r, k)
    BY <2>1 DEF Effect, Touches, Directs, Bit, Level
  <2> QED
    BY <2>1, <2>2 DEF FreshInv, FreshAt, IsSet, Touches, Directs
<1> QED
  BY <1>1, <1>2

\* With one setter, what it has read is always what the register holds.
LEMMA FreshAlways == OneSetter /\ Spec => []FreshInv
<1>1. CASE OneSetter
  BY <1>1, FreshInit, FreshNext, GpioAlways, PTL DEF Spec
<1> QED
  BY <1>1

\* What a set gives a pin it has, when it returns, if no other thread sets pins:
\* also while others read.
THEOREM TakesEffect == OneSetter /\ Spec => []SetTakesEffect
<1>1. GpioInv /\ FreshInv => SetTakesEffect
  <2> SUFFICES ASSUME GpioInv, FreshInv, NEW t \in Threads, pc[t] = "done", IsSet(req[t]),
                      ret[t] = 0, family = "mpc8548" => req[t].val = 1,
                      NEW k \in 1 .. Len(Touches(req[t]))
               PROVE  LET g == Touches(req[t])[k]
                      IN (Bit(req[t], g) \in regs[g]) <=> (g = "cr" \/ Level(req[t], g))
    BY DEF SetTakesEffect
  <2>1. run[t] = req[t]
    BY DEF GpioInv, RunInv, IsSet
  <2>2. Effect(req[t], k)
    BY <2>1 DEF FreshInv, FreshAt
  <2> QED
    BY <2>2 DEF Effect
<1> QED
  BY <1>1, GpioAlways, FreshAlways, PTL

\* A set changes the bit of its own pin only, if no other thread sets pins: the
\* value it writes back is the one the register has.
THEOREM Untouched == OneSetter /\ Spec => OthersKept
<1> DEFINE Named == \A g \in Regs : \A b \in Bits(g) :
          (b \in regs[g]) # (b \in regs'[g]) =>
              \E t \in Threads : pc[t] = "write" /\ Current(t) = g /\ b = Bit(run[t], g)
<1>1. GpioInv /\ FreshInv /\ [Next]_vars => Named
  <2> SUFFICES ASSUME GpioInv, FreshInv, [Next]_vars, NEW h \in Regs, NEW b \in Bits(h),
                      (b \in regs[h]) # (b \in regs'[h])
               PROVE  \E t \in Threads : pc[t] = "write" /\ Current(t) = h /\ b = Bit(run[t], h)
    OBVIOUS
  <2>1. regs' # regs
    OBVIOUS
  <2>2. PICK t \in Threads : WriteReg(t)
    BY <2>1, RegsRest DEF Next, Step, vars, shared
  <2> DEFINE k == step[t] + 1
             g == Touches(run[t])[k]
  <2>3. pc[t] = "write" /\ regs' = [regs EXCEPT ![g] = Updated(run[t], g, seen[t][k])]
    BY <2>2 DEF WriteReg
  <2>4. seen[t][k] = regs[g]
    <3>1. /\ IsSet(run[t]) /\ k \in 1 .. Len(Touches(run[t])) /\ step[t] \in {0, 1}
      BY <2>2, WriteFacts DEF IsSet
    <3>2. k > step[t]
      BY <3>1
    <3> QED
      BY <2>3, <3>1, <3>2 DEF FreshInv, FreshAt
  <2>5. h = g /\ regs'[h] = Updated(run[t], h, regs[h])
    <3> HIDE DEF g
    <3> QED
      BY <2>3, <2>4 DEF GpioInv, Types
  <2>6. b = Bit(run[t], h)
    BY <2>5, UpdatedOthers
  <2> QED
    BY <2>3, <2>5, <2>6 DEF Current
<1>2. CASE OneSetter
  BY <1>1, <1>2, GpioAlways, FreshAlways, PTL DEF OthersKept, Spec
<1> QED
  BY <1>2

----------------------------------------------------------------------------
(* The feeding of the watchdog. *)

\* Who is ahead feeds, so it is the one setter.
LEMMA AheadSetter ==
    ASSUME GpioInv, NEW t \in Threads, Ahead(t)
    PROVE  Setter(t)
<1>1. req[t].op = "feed" /\ pc[t] # "idle"
  BY DEF Ahead
<1> QED
  BY <1>1 DEF GpioInv, RunInv, Setter

\* The data register has the level that a set_status of a feed wrote.
LEMMA FedLevel ==
    ASSUME GpioInv, FreshInv, NEW t \in Threads, pc[t] = "fed", run[t].op = "set_status"
    PROVE  DogPin \in regs["dat"] <=> run[t].val # 0
<1>1. req[t].op = "feed" /\ family # "mpc8548" /\ DogSet(run[t])
  BY DEF GpioInv, RunInv
<1>2. Touches(run[t]) = <<"dat">>
  BY StatusTouches
<1>3. Effect(run[t], 1)
  <2>1. 1 \in 1 .. Len(Touches(run[t]))
    BY <1>2
  <2> QED
    BY <2>1 DEF FreshInv, FreshAt, IsSet
<1>4. Bit(run[t], "dat") = DogPin /\ (Level(run[t], "dat") <=> run[t].val # 0)
  BY <1>1 DEF Bit, Level, DogSet
<1> QED
  BY <1>1, <1>2, <1>3, <1>4 DEF Effect

\* What the own step of a thread does to its being ahead.
LEMMA AheadStep ==
    ASSUME GpioInv, GpioInv', NEW t \in Threads, Step(t) \/ WriteReg(t), ~Count(t), ~Fed(t)
    PROVE  /\ Ahead(t)' <=> Ahead(t)
           /\ Ahead(t) /\ pc[t] # "level" => run'[t] = run[t] /\ pc'[t] # "level"
           /\ Ahead(t) /\ pc[t] = "level" => run'[t].val = (IF odd THEN 0 ELSE 1)
           /\ fed' = fed /\ odd' = odd
<1>1. /\ pc \in [Threads -> Pcs] /\ req \in [Threads -> Calls] /\ run \in [Threads -> Calls]
  BY DEF GpioInv, Types, TypeOK
<1>2. fed' = fed /\ odd' = odd
  BY DEF Step, Call, Consume, Check, ReadReg, WriteReg, Get, Feed, LevelByParity, shared
<1>3. CASE Call(t)
  <2>1. pc[t] = "idle" /\ pc'[t] \in {"feed", "check"} /\ (req'[t].op = "feed" => pc'[t] = "feed")
    BY <1>1, <1>3 DEF Call, Goto
  <2> QED
    BY <1>2, <2>1 DEF Ahead
<1>4. CASE Consume(t)
  <2>1. pc[t] = "done" /\ pc'[t] = "idle"
    BY <1>1, <1>4 DEF Consume, Goto
  <2> QED
    BY <1>2, <2>1 DEF Ahead
<1>5. CASE Check(t)
  <2>1. /\ pc[t] = "check" /\ req' = req /\ run' = run
        /\ pc'[t] = IF BadArguments(run[t]) THEN "done" ELSE "read"
    BY <1>1, <1>5 DEF Check, Goto, Finish
  <2>2. req[t].op = "feed" => ~BadArguments(run[t])
    BY <2>1, PinAssumption DEF GpioInv, RunInv, DogSet, BadArguments
  <2> QED
    BY <1>2, <2>1, <2>2 DEF Ahead
<1>6. CASE ReadReg(t)
  <2>1. pc[t] = "read" /\ req' = req /\ run' = run
    BY <1>6 DEF ReadReg
  <2>2. req[t].op = "feed" => Reached = Regs /\ IsSet(run[t])
    BY <2>1 DEF GpioInv, RunInv, DogSet, Reached, IsSet
  <2>3. Touches(run[t])[step[t] + 1] \in Regs
    <3>1. run[t].op \in Ops
      BY <2>1, RunOps
    <3>3. step[t] \in {0, 1} /\ step[t] < Len(Touches(run[t]))
      BY <2>1 DEF GpioInv, PlaceInv, Types, TypeOK
    <3>2. step[t] + 1 \in 1 .. Len(Touches(run[t]))
      BY <3>1, <3>3, TouchFacts
    <3> QED
      BY <3>1, <3>2, TouchFacts
  <2>4. req[t].op = "feed" => pc'[t] \in {"read", "write"}
    BY <1>1, <1>6, <2>2, <2>3 DEF ReadReg, Goto
  <2> QED
    BY <1>2, <2>1, <2>4 DEF Ahead
<1>7. CASE WriteReg(t)
  <2>1. pc[t] = "write" /\ req' = req /\ run' = run
    BY <1>7 DEF WriteReg
  <2>2. req[t].op = "feed" => pc'[t] \in {"write", "fed"}
    BY <1>1, <1>7 DEF WriteReg, Goto
  <2> QED
    BY <1>2, <2>1, <2>2 DEF Ahead
<1>8. CASE Get(t)
  <2>1. pc[t] = "get" /\ req' = req /\ run' = run /\ req[t].op # "feed"
    BY <1>8 DEF Get, GpioInv, RunInv
  <2> QED
    BY <1>2, <2>1 DEF Ahead
<1>9. CASE Feed(t)
  <2>1. pc[t] = "feed"
    BY <1>9 DEF Feed
  <2>2. pc'[t] = "count" \/ (pc'[t] = "check" /\ run'[t].op = "set_direction")
    BY <1>1, <1>9 DEF Feed, Sets, Goto
  <2> QED
    BY <1>2, <2>1, <2>2 DEF Ahead
<1>10. CASE LevelByParity(t)
  <2>1. /\ pc[t] = "level" /\ req' = req /\ pc'[t] = "check" /\ run'[t].op = "set_status"
        /\ run'[t].val = (IF odd THEN 0 ELSE 1)
    BY <1>1, <1>10 DEF LevelByParity, Sets, Goto
  <2> QED
    BY <1>2, <2>1 DEF Ahead
<1> QED
  BY <1>3, <1>4, <1>5, <1>6, <1>7, <1>8, <1>9, <1>10 DEF Step

\* No step of the one setter lets the level of the pin and the counter get out
\* of step.
LEMMA ParityStep ==
    ASSUME OneSetter, GpioInv, GpioInv', FreshInv, ParityInv,
           NEW t \in Threads, Step(t) \/ WriteReg(t)
    PROVE  ParityInv'
<1>1. \A u \in Threads \ {t} : (Ahead(u)' <=> Ahead(u)) /\ run'[u] = run[u] /\ pc'[u] = pc[u]
  BY OthersRest DEF Ahead
<1>2. CASE ~Count(t) /\ ~Fed(t)
  <2>1. /\ Ahead(t)' <=> Ahead(t)
        /\ Ahead(t) /\ pc[t] # "level" => run'[t] = run[t] /\ pc'[t] # "level"
        /\ Ahead(t) /\ pc[t] = "level" => run'[t].val = (IF odd THEN 0 ELSE 1)
        /\ fed' = fed /\ odd' = odd
    BY <1>2, AheadStep
  <2>2. \A u \in Threads : Ahead(u)' <=> Ahead(u)
    BY <1>1, <2>1
  <2>3. (\E u \in Threads : Ahead(u)') <=> (\E u \in Threads : Ahead(u))
    BY <2>2
  <2>4. \A u \in Threads : Ahead(u)' /\ pc'[u] # "level" => run'[u].val = (IF odd' THEN 0 ELSE 1)
    BY <1>1, <2>1 DEF ParityInv
  <2>5. fed' # "none" => (fed' = "low" <=> (odd' # \E u \in Threads : Ahead(u)'))
    BY <2>1, <2>3 DEF ParityInv
  <2> QED
    BY <2>4, <2>5 DEF ParityInv
<1>3. CASE Count(t)
  <2>1. pc[t] = "count" /\ req[t].op = "feed" /\ req' = req /\ fed' = fed /\ odd' = ~odd
    BY <1>3 DEF Count, GpioInv, RunInv, locals
  <2>2. pc'[t] = "level"
    BY <1>3 DEF Count, Goto, GpioInv, Types, TypeOK
  <2>3. Ahead(t)' /\ ~Ahead(t)
    BY <2>1, <2>2 DEF Ahead
  <2>4. Setter(t)
    BY <2>1 DEF GpioInv, RunInv, Setter
  <2>5. \A u \in Threads \ {t} : ~Ahead(u)
    BY <2>4, AheadSetter DEF OneSetter
  <2>6. \A u \in Threads : Ahead(u)' /\ pc'[u] # "level" => run'[u].val = (IF odd' THEN 0 ELSE 1)
    BY <1>1, <2>2, <2>5
  <2>7. odd \in BOOLEAN
    BY DEF GpioInv, Types, TypeOK
  <2>8. fed' # "none" => (fed' = "low" <=> (odd' # \E u \in Threads : Ahead(u)'))
    <3>1. fed # "none" => (fed = "low" <=> odd)
      BY <2>3, <2>5, <2>7 DEF ParityInv
    <3>2. \E u \in Threads : Ahead(u)'
      BY <2>3
    <3> QED
      BY <2>1, <2>7, <3>1, <3>2
  <2> QED
    BY <2>6, <2>8 DEF ParityInv
<1>4. CASE Fed(t)
  <2>1. /\ pc[t] = "fed" /\ req[t].op = "feed" /\ req' = req /\ run' = run /\ odd' = odd
        /\ regs' = regs /\ DogSet(run[t])
    BY <1>4 DEF Fed, GpioInv, RunInv
  <2>2. odd \in BOOLEAN /\ pc'[t] \in {"done", "count"}
    BY <1>4 DEF Fed, Goto, Finish, GpioInv, Types, TypeOK
  <2>3. ~Ahead(t)'
    BY <2>2 DEF Ahead
  <2>4. CASE run[t].op = "set_direction"
    <3>1. ~Ahead(t) /\ fed' = fed
      BY <1>4, <2>1, <2>4 DEF Fed, Ahead
    <3>2. (\E u \in Threads : Ahead(u)') <=> (\E u \in Threads : Ahead(u))
      BY <1>1, <2>3, <3>1
    <3>3. \A u \in Threads : Ahead(u)' /\ pc'[u] # "level" => run'[u].val = (IF odd' THEN 0 ELSE 1)
      BY <1>1, <2>1, <2>3 DEF ParityInv
    <3>4. fed' # "none" => (fed' = "low" <=> (odd' # \E u \in Threads : Ahead(u)'))
      BY <2>1, <3>1, <3>2 DEF ParityInv
    <3> QED
      BY <3>3, <3>4 DEF ParityInv
  <2>5. CASE run[t].op = "set_status"
    <3>1. Ahead(t) /\ fed' = (IF DogPin \in regs["dat"] THEN "high" ELSE "low")
      BY <1>4, <2>1, <2>5 DEF Fed, Ahead
    <3>2. \A u \in Threads : ~Ahead(u)'
      <4>1. \A u \in Threads \ {t} : ~Ahead(u)
        BY <3>1, AheadSetter DEF OneSetter
      <4> QED
        BY <1>1, <2>3, <4>1
    <3>3. run[t].val = (IF odd THEN 0 ELSE 1)
      BY <2>1, <3>1 DEF ParityInv
    <3>4. fed' = "low" <=> odd
      BY <2>1, <2>2, <2>5, <3>1, <3>3, FedLevel
    <3>5. fed' # "none" => (fed' = "low" <=> (odd' # \E u \in Threads : Ahead(u)'))
      BY <2>1, <2>2, <3>2, <3>4
    <3> QED
      BY <3>2, <3>5 DEF ParityInv
  <2> QED
    BY <2>1, <2>4, <2>5 DEF DogSet
<1> QED
  BY <1>2, <1>3, <1>4

\* With one setter the level of the pin and the counter always agree.
LEMMA ParityAlways == OneSetter /\ Spec => []ParityInv
<1>1. Init => ParityInv
  BY DEF Init, ParityInv, Ahead
<1>2. OneSetter /\ GpioInv /\ GpioInv' /\ FreshInv /\ ParityInv /\ [Next]_vars => ParityInv'
  <2> SUFFICES ASSUME OneSetter, GpioInv, GpioInv', FreshInv, ParityInv, [Next]_vars
               PROVE  ParityInv'
    OBVIOUS
  <2>1. CASE Next
    BY <2>1, ParityStep DEF Next, Step
  <2>2. CASE UNCHANGED vars
    BY <2>2 DEF vars, shared, locals, ParityInv, Ahead
  <2> QED
    BY <2>1, <2>2
<1>3. CASE OneSetter
  BY <1>1, <1>2, <1>3, GpioAlways, FreshAlways, PTL DEF Spec
<1> QED
  BY <1>3

\* Every successful feed leaves the pin of the watchdog at another level than the
\* successful feed before it, if one thread feeds and sets pins: whatever it sets
\* and whichever feeds fail in between, the counter stays in step with the pin.
THEOREM Toggles == OneSetter /\ Spec => FeedToggles
<1> DEFINE Turned ==
      \A t \in Threads : pc[t] = "fed" /\ pc'[t] = "done" /\ ret'[t] = 0 => fed' # fed
<1>1. OneSetter /\ GpioInv /\ FreshInv /\ ParityInv /\ [Next]_vars => Turned
  <2> SUFFICES ASSUME OneSetter, GpioInv, FreshInv, ParityInv, [Next]_vars,
                      NEW t \in Threads, pc[t] = "fed", pc'[t] = "done", ret'[t] = 0
               PROVE  fed' # fed
    OBVIOUS
  <2>1. PICK u \in Threads : Step(u) \/ WriteReg(u)
    BY DEF Next, Step, vars
  <2>2. u = t
    BY <2>1, OthersRest
  <2>3. Fed(t)
    BY <2>1, <2>2 DEF Step, Call, Consume, Check, ReadReg, WriteReg, Get, Feed, Count,
                      LevelByParity
  <2>4. run[t].op # "set_direction" /\ fed' = (IF DogPin \in regs["dat"] THEN "high" ELSE "low")
    <3>1. ASSUME run[t].op = "set_direction" PROVE FALSE
      <4>1. \/ ret' = [ret EXCEPT ![t] = -1]
            \/ pc' = [pc EXCEPT ![t] = "count"]
        BY <2>3, <3>1 DEF Fed, Goto, Finish
      <4> QED
        BY <4>1 DEF GpioInv, Types, TypeOK
    <3> QED
      BY <2>3, <3>1 DEF Fed
  <2>5. req[t].op = "feed" /\ run[t].op = "set_status"
    BY <2>4 DEF GpioInv, RunInv, DogSet
  <2>6. Ahead(t)
    BY <2>5 DEF Ahead
  <2>7. run[t].val = (IF odd THEN 0 ELSE 1) /\ odd \in BOOLEAN
    BY <2>6 DEF ParityInv, GpioInv, Types, TypeOK
  <2>8. fed' = "low" <=> odd
    BY <2>4, <2>5, <2>7, FedLevel
  <2>9. fed # "none" => (fed = "low" <=> ~odd)
    BY <2>6, <2>7 DEF ParityInv
  <2> QED
    BY <2>4, <2>7, <2>8, <2>9
<1>2. CASE OneSetter
  BY <1>1, <1>2, GpioAlways, FreshAlways, ParityAlways, PTL DEF FeedToggles, Spec
<1> QED
  BY <1>2
=============================================================================
