--------------------------- MODULE EosSpiRegsProofs ---------------------------
(***************************************************************************)
(* Proofs about EosSpiRegs, for every number of threads, chips and pages,  *)
(* every size of page and transfer, and every set of calls and parts.      *)
(***************************************************************************)
EXTENDS EosSpiRegs, ChunkLemmas

AtTransfer(t) == pc[t] \in {"select", "transfer", "deselect", "next"}

\* spi_lock is held by the thread that is inside a session, and by no other.
MutexInv == \A t \in Threads : InSession(t) <=> lock = t

\* The transfers that a call makes.
PhasesOf(t) ==
    {"data"} \cup (IF Paged(Chip(t)) THEN {"page"} ELSE {})
             \cup (IF Switch(Chip(t)) THEN {"spif"} ELSE {})
             \cup (IF Switch(Chip(t)) /\ Kind(t) = "read" THEN {"addr", "rack"} ELSE {})

\* Where a thread is in its session: the chunk is one that the loop makes, and
\* the lengths are those of the chunks before it.
PlaceAt(t) ==
    /\ pc[t] \in {"idle", "lock", "done"} => chunk[t] = 0 /\ delay[t] = 0
    /\ pc[t] = "lock" => phase[t] = FirstPhase(req[t])
    /\ pc[t] = "lock" \/ InSession(t) => Kind(t) # "cs_init"
    /\ pc[t] = "set" => Kind(t) = "set_para" /\ phase[t] \in Flags
    /\ AtTransfer(t) =>
         /\ IsAccess(t) /\ phase[t] \in PhasesOf(t)
         /\ Polling(t) => delay[t] <= DelayMax
         /\ chunk[t] = 0 \/ chunk[t] * ChunkSize(t) < req[t].len
         /\ phase[t] # "data" => chunk[t] = 0
         /\ Kind(t) = "write" => sendLen[Chip(t)] = chunk[t] * ChunkSize(t)
         /\ Kind(t) = "read" => recvLen[Chip(t)] <= chunk[t] * ChunkSize(t)
    /\ pc[t] \in {"deselect", "next"} /\ phase[t] = "data" /\ Kind(t) = "read" =>
         got[t] <= ChunkLen(t)
PlaceInv == \A t \in Threads : PlaceAt(t)

Bounded == \A t \in Threads : req[t].addr + req[t].len <= Size

TypeInv == TypeOK /\ Bounded /\ MutexInv /\ PlaceInv

----------------------------------------------------------------------------
(* The chunk loop. *)

\* A chunk has at least one byte, and of a read at most what the buffer takes.
LEMMA ChunkSizeType ==
    ASSUME NEW t \in Threads
    PROVE  ChunkSize(t) \in Nat \ {0} /\ (Kind(t) = "read" => ChunkSize(t) <= ReadSize)
BY SizeAssumption DEF ChunkSize

\* The chunk a read or write is at: its size, and where it lies.
LEMMA ChunkLenRange ==
    ASSUME TypeOK, NEW t \in Threads, chunk[t] = 0 \/ chunk[t] * ChunkSize(t) < req[t].len
    PROVE  /\ ChunkLen(t) \in 0 .. ChunkSize(t)
           /\ chunk[t] * ChunkSize(t) + ChunkLen(t) <= req[t].len
           /\ chunk[t] * ChunkSize(t) \in Nat
<1> DEFINE n == req[t].len
           s == ChunkSize(t)
           i == chunk[t]
<1>1. n \in Nat /\ s \in Nat \ {0} /\ i \in Nat
  BY SizeAssumption, ChunkSizeType DEF TypeOK, Request, Cells
<1>2. ChunkLen(t) = IF i < n \div s THEN s ELSE n % s
  BY DEF ChunkLen
<1>0. i = 0 \/ i * s < n
  OBVIOUS
<1> HIDE DEF n, s, i
<1>3. n % s \in 0 .. s - 1
  BY <1>1, ModRange
<1>4. CASE i * s < n
  <2>1. /\ i < n \div s => (i + 1) * s <= n
        /\ ~(i < n \div s) => i * s + (n % s) = n
    BY <1>1, <1>4, ChunkInside
  <2>2. i * s \in Nat /\ (i + 1) * s = (i * s) + s
    BY <1>1, Distribute
  <2>3. ChunkLen(t) \in 0 .. s /\ (i * s) + ChunkLen(t) <= n
    <3>1. CASE i < n \div s
      BY <3>1, <1>1, <1>2, <2>1, <2>2
    <3>2. CASE ~(i < n \div s)
      BY <3>2, <1>1, <1>2, <1>3, <2>1, <2>2
    <3> QED
      BY <3>1, <3>2
  <2> QED
    BY <2>2, <2>3 DEF n, s, i
<1>5. CASE i = 0 /\ ~(i * s < n)
  <2>1. n = 0 /\ i * s = 0
    BY <1>1, <1>5
  <2>2. n = s * (n \div s) + (n % s) /\ n \div s \in Nat
    BY <1>1, DivMod
  <2>3. n \div s = 0 /\ n % s = 0
    <3>1. n \div s >= 1 => s * (n \div s) >= s
      <4>1. \A a \in Nat, b \in Nat : b >= 1 => a * b >= a
        OBVIOUS
      <4> QED
        BY <1>1, <2>2, <4>1
    <3> DEFINE q == n \div s
               r == n % s
    <3>2. r \in 0 .. s - 1 /\ q \in Nat
      BY <1>3, <2>2
    <3> HIDE DEF q, r
    <3> QED
      BY <1>1, <1>3, <2>1
  <2>4. ChunkLen(t) = 0
    BY <1>2, <1>5, <2>3
  <2> QED
    BY <1>1, <2>1, <2>4 DEF n, s, i
<1> QED
  BY <1>0, <1>4, <1>5

\* A chunk has some number of bytes.
LEMMA ChunkLenNat ==
    ASSUME TypeOK, NEW t \in Threads PROVE ChunkLen(t) \in Nat
<1>1. req[t].len \in Nat /\ req[t].len \in Int /\ ChunkSize(t) \in Nat \ {0}
  BY SizeAssumption, ChunkSizeType DEF TypeOK, Request
<1>2. req[t].len % ChunkSize(t) \in 0 .. ChunkSize(t) - 1
  BY <1>1, ModRange
<1> QED
  BY <1>1, <1>2 DEF ChunkLen

\* A chunk that is not the last one is a full one.
LEMMA MoreIsFull ==
    ASSUME TypeOK, NEW t \in Threads, MoreChunks(t)
    PROVE  ChunkLen(t) = ChunkSize(t)
<1> DEFINE n == req[t].len
           s == ChunkSize(t)
           i == chunk[t]
<1>1. n \in Nat /\ s \in Nat \ {0} /\ i \in Nat
  BY SizeAssumption, ChunkSizeType DEF TypeOK, Request, Cells
<1>2. ChunkLen(t) = IF i < n \div s THEN s ELSE n % s
  BY DEF ChunkLen
<1>3. (i + 1) * s < n
  BY DEF MoreChunks
<1> HIDE DEF n, s, i
<1>6. (i + 1) * s = (i * s) + s /\ i * s \in Nat
  BY <1>1, Distribute
<1>7. i * s < n
  BY <1>1, <1>3, <1>6
<1>4. ~(i < n \div s) => i * s + (n % s) = n
  BY <1>1, <1>7, ChunkInside
<1>5. n % s \in 0 .. s - 1
  BY <1>1, ModRange
<1>8. i < n \div s
  BY <1>1, <1>3, <1>4, <1>5, <1>6
<1> QED
  BY <1>2, <1>8 DEF s

\* The loop has no more than Size chunks.
LEMMA ChunkBelow ==
    ASSUME TypeOK, NEW t \in Threads, chunk[t] = 0 \/ chunk[t] * ChunkSize(t) < req[t].len
    PROVE  chunk[t] + 1 \in 0 .. Size
<1> DEFINE n == req[t].len
           s == ChunkSize(t)
           i == chunk[t]
<1>1. n \in 0 .. Size /\ s \in Nat \ {0} /\ i \in Nat /\ Size \in Nat \ {0}
  BY SizeAssumption, ChunkSizeType DEF TypeOK, Request, Cells
<1>2. i = 0 \/ i * s < n
  OBVIOUS
<1> HIDE DEF n, s, i
<1>3. i <= i * s
  <2>1. (s - 1) \in Nat /\ i * (s - 1) \in Nat /\ i * s = (i * (s - 1)) + i
    BY <1>1
  <2> QED
    BY <1>1, <2>1
<1>4. i + 1 \in 0 .. Size
  <2>1. i * s \in Nat
    BY <1>1
  <2> HIDE DEF n, s
  <2> QED
    BY <1>1, <1>2, <1>3, <2>1
<1> QED
  BY <1>4 DEF i

----------------------------------------------------------------------------
(* Steps. *)

Moves(t) == CsInit(t) \/ Call(t) \/ Lock(t) \/ Session(t) \/ Consume(t)

\* What belongs to thread u stays.
Rests(u) ==
    /\ pc'[u] = pc[u] /\ phase'[u] = phase[u] /\ req'[u] = req[u] /\ chunk'[u] = chunk[u]
    /\ delay'[u] = delay[u] /\ got'[u] = got[u] /\ status'[u] = status[u] /\ out'[u] = out[u]
    /\ ret'[u] = ret[u] /\ clean'[u] = clean[u] /\ start'[u] = start[u]

LocalTypes ==
    /\ pc \in [Threads -> Pcs] /\ phase \in [Threads -> Phases] /\ req \in [Threads -> Request]
    /\ chunk \in [Threads -> 0 .. Size] /\ delay \in [Threads -> 0 .. DelayMax + 1]
    /\ got \in [Threads -> -1 .. Size] /\ status \in [Threads -> BOOLEAN]
    /\ out \in [Threads -> [Cells -> Bytes]] /\ ret \in [Threads -> -1 .. Size]
    /\ clean \in [Threads -> BOOLEAN] /\ start \in [Threads -> Cells]

\* A step of one thread leaves what belongs to the others alone.
LEMMA OthersRest ==
    ASSUME TypeInv, NEW t \in Threads, Moves(t), NEW u \in Threads, u # t
    PROVE  Rests(u)
<1>0. LocalTypes
  BY DEF TypeInv, TypeOK, LocalTypes
<1> USE DEF LocalTypes, Rests
<1>1. CASE CsInit(t)
  BY <1>0, <1>1 DEF CsInit
<1>2. CASE Call(t)
  BY <1>0, <1>2 DEF Call
<1>3. CASE Lock(t)
  BY <1>0, <1>3 DEF Lock
<1>4. CASE SetFlag(t)
  BY <1>0, <1>4 DEF SetFlag
<1>5. CASE Select(t) \/ Deselect(t)
  BY <1>0, <1>5 DEF Select, Deselect, locals
<1>6. CASE Receive(t)
  BY <1>0, <1>6 DEF Receive
<1>7. CASE Send(t)
  BY <1>0, <1>7 DEF Send
<1>8. CASE Fail(t)
  BY <1>0, <1>8 DEF Fail, Finish
<1>9. CASE PageNext(t)
  BY <1>0, <1>9 DEF PageNext, Continue, Finish
<1>10. CASE AddrNext(t)
  BY <1>0, <1>10 DEF AddrNext, Continue
<1>11. CASE PollNext(t)
  BY <1>0, <1>11 DEF PollNext, Continue, Finish
<1>12. CASE DataNext(t)
  BY <1>0, <1>12 DEF DataNext, Continue, Finish
<1>13. CASE Unlock(t)
  BY <1>0, <1>13 DEF Unlock
<1>14. CASE Consume(t)
  BY <1>0, <1>14 DEF Consume
<1> QED
  BY <1>1, <1>2, <1>3, <1>4, <1>5, <1>6, <1>7, <1>8, <1>9, <1>10, <1>11, <1>12, <1>13, <1>14
  DEF Moves, Session

\* The part behind an object, and the calls of the program, never change.
LEMMA SetupRests ==
    ASSUME [Next]_vars
    PROVE  part' = part /\ calls' = calls
BY ZenonT(60) DEF Next, vars, setup, Session, CsInit, Call, Lock, SetFlag, Select, Receive, Send, Deselect, Fail,
       PageNext, AddrNext, PollNext, DataNext, Unlock, Consume, DeviceReady, DeviceAnswers

\* A thread outside a session does not see the lengths.
LEMMA PlaceRests ==
    ASSUME TypeInv, NEW u \in Threads, Rests(u), part' = part,
           InSession(u) => recvLen' = recvLen /\ sendLen' = sendLen
    PROVE  PlaceAt(u)'
<1>1. PlaceAt(u)
  BY DEF TypeInv, PlaceInv
<1>2. /\ Kind(u)' = Kind(u) /\ Chip(u)' = Chip(u) /\ IsAccess(u)' = IsAccess(u)
      /\ Polling(u)' = Polling(u) /\ AtTransfer(u)' = AtTransfer(u) /\ InSession(u)' = InSession(u)
      /\ ChunkSize(u)' = ChunkSize(u) /\ PhasesOf(u)' = PhasesOf(u)
      /\ FirstPhase(req[u])' = FirstPhase(req[u])
  BY DEF Rests, Kind, Chip, IsAccess, Polling, AtTransfer, InSession, ChunkSize, PhasesOf, Switch,
         Paged, FirstPhase
<1>3. ChunkLen(u)' = ChunkLen(u)
  BY <1>2 DEF ChunkLen, Rests
<1>4. AtTransfer(u) => InSession(u)
  BY DEF AtTransfer, InSession
<1> QED
  BY <1>1, <1>2, <1>3, <1>4 DEF PlaceAt, Rests

\* The holder of spi_lock is alone in a session.
LEMMA Holder ==
    ASSUME TypeInv, NEW t \in Threads, InSession(t)
    PROVE  lock = t /\ \A u \in Threads \ {t} : ~InSession(u)
BY DEF TypeInv, MutexInv

\* What a step of t must show: the others keep their places.
LEMMA PlaceStep ==
    ASSUME TypeInv, NEW t \in Threads, Moves(t), PlaceAt(t)',
           \/ recvLen' = recvLen /\ sendLen' = sendLen
           \/ InSession(t)
           \/ lock = NoThread
    PROVE  PlaceInv'
<1> SUFFICES ASSUME NEW u \in Threads, u # t PROVE PlaceAt(u)'
  BY DEF PlaceInv
<1>1. Rests(u)
  BY OthersRest
<1>2. part' = part
  BY SetupRests DEF Next, Moves
<1>3. InSession(u) => recvLen' = recvLen /\ sendLen' = sendLen
  BY Holder, ThreadAssumption DEF TypeInv, MutexInv
<1> QED
  BY <1>1, <1>2, <1>3, PlaceRests

\* A session that goes on, goes on under the lock.
LEMMA MutexStep ==
    ASSUME TypeInv, NEW t \in Threads, Moves(t),
           \/ InSession(t)' = InSession(t) /\ lock' = lock
           \/ InSession(t)' /\ lock = NoThread /\ lock' = t
           \/ InSession(t) /\ ~InSession(t)' /\ lock' = NoThread
    PROVE  MutexInv'
<1>1. \A u \in Threads \ {t} : InSession(u)' = InSession(u)
  BY OthersRest DEF Rests, InSession
<1> QED
  BY <1>1, ThreadAssumption DEF TypeInv, MutexInv

\* A step of one thread to a request inside the registers keeps all requests
\* inside.
LEMMA BoundedStep ==
    ASSUME TypeInv, NEW t \in Threads, Moves(t), req'[t].addr + req'[t].len <= Size
    PROVE  Bounded'
<1>1. \A u \in Threads \ {t} : req'[u] = req[u]
  BY OthersRest DEF Rests
<1> QED
  BY <1>1 DEF TypeInv, Bounded

----------------------------------------------------------------------------
(* TypeInv is inductive: one lemma for each action. *)

\* No request is a request of length 0.
LEMMA NoRequestType == NoRequest \in Request /\ NoRequest.addr + NoRequest.len <= Size
<1> USE SizeAssumption, ChipAssumption
<1>1. NoData \in [Cells -> Bytes] /\ NoPara \in [Flags -> Nat] /\ Neither \in Callbacks /\ 0 \in Cells
  BY DEF NoData, NoPara, Neither, Callbacks, Cells, Bytes
<1>2. (CHOOSE c \in Chips : TRUE) \in Chips
  OBVIOUS
<1> QED
  BY <1>1, <1>2 DEF NoRequest, Request

\* Before the first call the invariant holds.
LEMMA TypeInit == Init => TypeInv
<1> SUFFICES ASSUME Init PROVE TypeInv
  OBVIOUS
<1> USE ThreadAssumption, ChipAssumption, SizeAssumption
<1>1. /\ NoData \in [Cells -> Bytes] /\ Unread \in [Slots -> Bytes] /\ NoPara \in [Flags -> Nat]
      /\ Neither \in Callbacks /\ 0 \in Cells
  BY DEF NoData, Unread, NoPara, Neither, Callbacks, Cells, Bytes
<1>2. PowerUp \in Device
  BY <1>1 DEF PowerUp, Device, Nothing, Bytes
<1>3. PICK p \in Programs : part = p.part /\ calls = p.calls
  BY DEF Init
<1>4. [part |-> part, calls |-> calls] \in Programs
  BY <1>3, ProgramAssumption
<1>5. TypeOK
  <2>1. /\ lock \in Threads \cup {NoThread} /\ pc \in [Threads -> Pcs] /\ phase \in [Threads -> Phases]
        /\ chunk \in [Threads -> 0 .. Size] /\ delay \in [Threads -> 0 .. DelayMax + 1]
        /\ got \in [Threads -> -1 .. Size] /\ status \in [Threads -> BOOLEAN]
        /\ ret \in [Threads -> -1 .. Size] /\ clean \in [Threads -> BOOLEAN]
    BY DEF Init, Pcs, Phases
  <2>2. /\ req \in [Threads -> Request] /\ out \in [Threads -> [Cells -> Bytes]]
        /\ start \in [Threads -> Cells] /\ recv \in [Chips -> [Slots -> Bytes]]
        /\ cs \in [Chips -> Callbacks] /\ para \in [Chips -> [Flags -> Nat]]
        /\ mode \in [Chips -> [Flags -> Nat]] /\ dev \in [Chips -> Device]
    BY <1>1, <1>2, NoRequestType DEF Init
  <2>3. recvLen \in [Chips -> 0 .. Size] /\ sendLen \in [Chips -> 0 .. Size]
    BY DEF Init
  <2>4. sel \in [Chips -> BOOLEAN] /\ modeLost \in [Chips -> BOOLEAN]
    BY DEF Init
  <2>5. misused \in BOOLEAN
    BY DEF Init
  <2> QED
    BY <1>4, <2>1, <2>2, <2>3, <2>4, <2>5 DEF TypeOK
<1>6. Bounded
  BY NoRequestType DEF Init, Bounded
<1>7. MutexInv
  BY DEF Init, MutexInv, InSession
<1>8. PlaceInv
  BY DEF Init, PlaceInv, PlaceAt, AtTransfer, InSession
<1> QED
  BY <1>5, <1>6, <1>7, <1>8 DEF TypeInv

\* The calls of the program are requests that stay inside a page.
LEMMA CallsType ==
    ASSUME TypeOK, NEW r \in calls
    PROVE  r \in Request /\ r.addr + r.len <= Size
<1>1. [part |-> part, calls |-> calls] \in
          [part : [Chips -> Parts], calls : SUBSET {q \in Request : q.addr + q.len <= Size}]
  BY ProgramAssumption DEF TypeOK
<1> QED
  BY <1>1

\* The chip of a thread is a chip.
LEMMA ChipType == ASSUME TypeOK, NEW t \in Threads PROVE Chip(t) \in Chips
BY DEF TypeOK, Request, Chip

\* The parts of a chip have their types.
LEMMA DeviceType ==
    ASSUME TypeOK, NEW c \in Chips
    PROVE  /\ dev[c].regs \in [Pages -> [Cells -> Bytes]] /\ dev[c].page \in Pages
           /\ dev[c].pos \in Cells /\ dev[c].want \in Cells /\ dev[c].latch \in [Latch -> Bytes]
           /\ dev[c].busy \in BOOLEAN /\ dev[c].fetch \in BOOLEAN /\ dev[c].rack \in BOOLEAN
<1>1. dev[c] \in Device
  BY DEF TypeOK
<1> QED
  BY <1>1 DEF Device

\* A cs_init changes the callbacks of one object.
LEMMA TypeCsInit ==
    ASSUME TypeInv, NEW t \in Threads, CsInit(t) PROVE TypeInv'
<1> USE SizeAssumption DEF TypeInv
<1>1. PICK r \in calls :
         /\ r.kind = "cs_init"
         /\ cs' = [cs EXCEPT ![r.chip] = r.cs]
         /\ misused' = (misused \/ ~Consistent(r.cs)
                          \/ \E u \in Threads : InSession(u) /\ Chip(u) = r.chip)
         /\ req' = [req EXCEPT ![t] = r]
         /\ ret' = [ret EXCEPT ![t] = IF Consistent(r.cs) THEN 0 ELSE -1]
  BY DEF CsInit
<1>2. r \in Request /\ r.addr + r.len <= Size
  BY <1>1, CallsType
<1>3. pc[t] = "idle" /\ pc' = [pc EXCEPT ![t] = "done"]
  BY DEF CsInit
<1>4. UNCHANGED <<lock, phase, chunk, delay, got, status, out, clean, start, recv, recvLen, sendLen,
                  part, calls, para, mode, modeLost, sel, dev>>
  BY DEF CsInit, buffers
<1>5. pc'[t] = "done" /\ req'[t] = r
  BY <1>1, <1>3 DEF TypeOK
<1>6. TypeOK'
  <2>1. pc' \in [Threads -> Pcs]
    BY <1>3 DEF TypeOK, Pcs
  <2>2. cs' \in [Chips -> Callbacks] /\ req' \in [Threads -> Request]
    BY <1>1, <1>2 DEF TypeOK, Request
  <2>3. misused' \in BOOLEAN
    <3>1. misused' <=> (misused \/ ~Consistent(r.cs)
                          \/ \E u \in Threads : InSession(u) /\ Chip(u) = r.chip)
      BY <1>1
    <3> QED
      BY <1>1
  <2>4. ret' \in [Threads -> -1 .. Size]
    BY <1>1 DEF TypeOK
  <2> QED
    BY <1>4, <2>1, <2>2, <2>3, <2>4 DEF TypeOK
<1>7. Bounded'
  BY <1>2, <1>5, BoundedStep DEF Moves
<1>8. MutexInv'
  BY <1>3, <1>4, <1>5, MutexStep DEF Moves, InSession
<1>9. PlaceInv'
  <2>1. PlaceAt(t)
    BY DEF PlaceInv
  <2>2. PlaceAt(t)'
    BY <1>3, <1>4, <1>5, <2>1 DEF PlaceAt, AtTransfer, InSession
  <2> QED
    BY <1>4, <2>2, PlaceStep DEF Moves
<1> QED
  BY <1>6, <1>7, <1>8, <1>9

\* A call starts with a request of its kind and outside every loop.
LEMMA TypeCall ==
    ASSUME TypeInv, NEW t \in Threads, Call(t) PROVE TypeInv'
<1> USE SizeAssumption DEF TypeInv
<1>1. PICK r \in calls : /\ r.kind # "cs_init"
                         /\ req' = [req EXCEPT ![t] = r]
                         /\ phase' = [phase EXCEPT ![t] = FirstPhase(r)]
  BY DEF Call
<1>2. r \in Request /\ r.addr + r.len <= Size
  BY <1>1, CallsType
<1>3. pc[t] = "idle" /\ pc' = [pc EXCEPT ![t] = "lock"]
  BY DEF Call
<1>4. UNCHANGED <<lock, chunk, delay, got, status, out, ret, clean, start, recv, recvLen, sendLen,
                  part, calls, cs, para, mode, misused, modeLost, sel, dev>>
  BY DEF Call, buffers, setup
<1>5. pc'[t] = "lock" /\ req'[t] = r /\ phase'[t] = FirstPhase(r)
  BY <1>1, <1>3 DEF TypeOK
<1>6. TypeOK'
  <2>1. pc' \in [Threads -> Pcs]
    BY <1>3 DEF TypeOK, Pcs
  <2>2. req' \in [Threads -> Request]
    BY <1>1, <1>2 DEF TypeOK
  <2>3. phase' \in [Threads -> Phases]
    BY <1>1 DEF TypeOK, FirstPhase, Phases, Flags
  <2> QED
    BY <1>4, <2>1, <2>2, <2>3 DEF TypeOK
<1>7. Bounded'
  BY <1>2, <1>5, BoundedStep DEF Moves
<1>8. MutexInv'
  BY <1>3, <1>4, <1>5, MutexStep DEF Moves, InSession
<1>9. PlaceInv'
  <2>1. PlaceAt(t)
    BY DEF PlaceInv
  <2>2. PlaceAt(t)'
    BY <1>1, <1>3, <1>4, <1>5, <2>1 DEF PlaceAt, AtTransfer, InSession, FirstPhase, Kind, Switch, Paged
  <2> QED
    BY <1>4, <2>2, PlaceStep DEF Moves
<1> QED
  BY <1>6, <1>7, <1>8, <1>9

\* The lock goes to one thread, at the first phase that its chip has.
LEMMA TypeLock ==
    ASSUME TypeInv, NEW t \in Threads, Lock(t) PROVE TypeInv'
<1> USE SizeAssumption DEF TypeInv
<1>0. Chip(t) \in Chips
  BY ChipType
<1>1. /\ pc[t] = "lock" /\ lock = NoThread /\ lock' = t
      /\ recvLen' = IF Kind(t) = "read" THEN [recvLen EXCEPT ![Chip(t)] = 0] ELSE recvLen
      /\ sendLen' = IF Kind(t) = "write" THEN [sendLen EXCEPT ![Chip(t)] = 0] ELSE sendLen
      /\ para' = IF Kind(t) = "set_para" THEN [para EXCEPT ![Chip(t)] = req[t].para] ELSE para
      /\ modeLost' = IF Kind(t) = "set_para" THEN [modeLost EXCEPT ![Chip(t)] = FALSE] ELSE modeLost
      /\ start' = [start EXCEPT ![t] = IF IsAccess(t) THEN dev[Chip(t)].pos ELSE 0]
      /\ pc' = [pc EXCEPT ![t] = IF Kind(t) = "set_para" THEN "set"
                                 ELSE IF phase[t] = "data" /\ req[t].len = 0 THEN "unlock"
                                 ELSE "select"]
  BY DEF Lock, Free
<1>2. UNCHANGED <<phase, req, chunk, delay, got, status, out, ret, clean, recv, part, calls, cs, mode,
                  misused, sel, dev>>
  BY DEF Lock
<1>3. /\ pc'[t] = IF Kind(t) = "set_para" THEN "set"
                  ELSE IF phase[t] = "data" /\ req[t].len = 0 THEN "unlock" ELSE "select"
      /\ Kind(t) = "read" => recvLen'[Chip(t)] = 0
      /\ Kind(t) = "write" => sendLen'[Chip(t)] = 0
  BY <1>0, <1>1 DEF TypeOK
<1>4. TypeOK'
  <2>1. pc' \in [Threads -> Pcs]
    BY <1>1 DEF TypeOK, Pcs
  <2>2. recvLen' \in [Chips -> 0 .. Size] /\ sendLen' \in [Chips -> 0 .. Size]
    <3> DEFINE Lengths == 0 .. Size
    <3>3. 0 \in Lengths /\ recvLen \in [Chips -> Lengths] /\ sendLen \in [Chips -> Lengths]
      BY DEF TypeOK
    <3> HIDE DEF Lengths
    <3>1. recvLen' \in [Chips -> Lengths]
      BY <1>1, <3>3
    <3>2. sendLen' \in [Chips -> Lengths]
      BY <1>1, <3>3
    <3> USE DEF Lengths
    <3> QED
      BY <3>1, <3>2
  <2>3. para' \in [Chips -> [Flags -> Nat]] /\ modeLost' \in [Chips -> BOOLEAN]
    <3>1. req[t].para \in [Flags -> Nat]
      BY DEF TypeOK, Request
    <3>2. para' \in [Chips -> [Flags -> Nat]]
      BY <1>1, <3>1 DEF TypeOK
    <3>3. modeLost' \in [Chips -> BOOLEAN]
      BY <1>1 DEF TypeOK
    <3> QED
      BY <3>2, <3>3
  <2>4. start' \in [Threads -> Cells]
    <3>1. dev[Chip(t)].pos \in Cells /\ 0 \in Cells
      BY <1>0, DeviceType DEF Cells
    <3> QED
      BY <1>1, <3>1 DEF TypeOK
  <2>5. lock' \in Threads \cup {NoThread}
    BY <1>1
  <2> QED
    BY <1>2, <2>1, <2>2, <2>3, <2>4, <2>5 DEF TypeOK
<1>5. Bounded'
  BY <1>2, BoundedStep DEF Moves, Bounded
<1>6. MutexInv'
  BY <1>1, <1>3, MutexStep DEF Moves, InSession
<1>7. PlaceAt(t)'
  <2>1. PlaceAt(t)
    BY DEF PlaceInv
  <2>2. phase[t] = FirstPhase(req[t]) /\ chunk[t] = 0 /\ delay[t] = 0
        /\ Kind(t) \in {"read", "write", "set_para"}
    BY <1>1, <2>1 DEF PlaceAt, Kind, TypeOK, Request
  <2>3. /\ Kind(t)' = Kind(t) /\ Chip(t)' = Chip(t) /\ IsAccess(t)' = IsAccess(t)
        /\ ChunkSize(t)' = ChunkSize(t) /\ PhasesOf(t)' = PhasesOf(t)
    BY <1>2 DEF Kind, Chip, IsAccess, ChunkSize, PhasesOf, Switch, Paged
  <2>4. CASE Kind(t) = "set_para"
    <3>1. pc'[t] = "set" /\ phase'[t] = "bit_order"
      BY <1>2, <1>3, <2>2, <2>4 DEF FirstPhase, Kind
    <3> QED
      BY <2>3, <2>4, <3>1 DEF PlaceAt, AtTransfer, Flags
  <2>5. CASE Kind(t) # "set_para"
    <3>1. pc'[t] \in {"unlock", "select"}
      BY <1>3, <2>5
    <3>2. phase'[t] \in PhasesOf(t) /\ IsAccess(t) /\ chunk'[t] = 0 /\ delay'[t] = 0
      BY <1>2, <2>2, <2>5 DEF FirstPhase, PhasesOf, IsAccess, Kind, Chip, Switch, Paged
    <3>3. 0 * ChunkSize(t) = 0 /\ 0 <= DelayMax
      BY ChunkSizeType
    <3> QED
      BY <1>3, <2>2, <2>3, <3>1, <3>2, <3>3 DEF PlaceAt, AtTransfer
  <2> QED
    BY <2>4, <2>5
<1>8. PlaceInv'
  BY <1>1, <1>7, PlaceStep DEF Moves
<1> QED
  BY <1>4, <1>5, <1>6, <1>8

\* The operators of a session look at the locals of its thread.
LEMMA ViewRests ==
    ASSUME NEW t \in Threads, req' = req, part' = part
    PROVE  /\ Kind(t)' = Kind(t) /\ Chip(t)' = Chip(t) /\ IsAccess(t)' = IsAccess(t)
           /\ ChunkSize(t)' = ChunkSize(t) /\ PhasesOf(t)' = PhasesOf(t)
           /\ chunk' = chunk => ChunkLen(t)' = ChunkLen(t)
           /\ phase' = phase => Polling(t)' = Polling(t)
BY DEF Kind, Chip, IsAccess, ChunkSize, PhasesOf, Switch, Paged, ChunkLen, Polling

\* A flag of set_para leads to the next one or to the unlock.
LEMMA TypeSetFlag ==
    ASSUME TypeInv, NEW t \in Threads, SetFlag(t) PROVE TypeInv'
<1> USE SizeAssumption DEF TypeInv
<1> DEFINE c == Chip(t)
           f == phase[t]
           v == req[t].para[f]
<1>0. c \in Chips
  BY ChipType
<1>1. /\ pc[t] = "set" /\ Kind(t) = "set_para" /\ f \in Flags
      /\ phase' = [phase EXCEPT ![t] = NextFlag(f)]
      /\ pc' = [pc EXCEPT ![t] = IF NextFlag(f) = "end" THEN "unlock" ELSE "set"]
  BY DEF SetFlag, PlaceInv, PlaceAt, TypeOK
<1>2. UNCHANGED <<lock, req, chunk, delay, got, status, out, ret, clean, start, recv, recvLen, sendLen,
                  part, calls, cs, para, misused, sel, dev>>
  BY DEF SetFlag, buffers
<1>3. /\ pc'[t] = (IF NextFlag(f) = "end" THEN "unlock" ELSE "set") /\ phase'[t] = NextFlag(f)
      /\ NextFlag(f) \in Flags \cup {"end"}
  BY <1>1 DEF TypeOK, NextFlag, Flags
<1>4. TypeOK'
  <2>1. pc' \in [Threads -> Pcs] /\ phase' \in [Threads -> Phases]
    BY <1>1, <1>3 DEF TypeOK, Pcs, Phases
  <2>2. /\ v \in Nat /\ Known(c, TRUE) \in [Flags -> Nat] /\ Known(c, FALSE) \in [Flags -> Nat]
    BY <1>0, <1>1 DEF TypeOK, Request, Known, NoPara
  <2>3. \A known \in BOOLEAN :
            [Known(c, known) EXCEPT ![f] = IF Legal(v) THEN v ELSE @] \in [Flags -> Nat]
    BY <1>1, <2>2
  <2>4. mode' \in [Chips -> [Flags -> Nat]]
    <3>1. CASE mode' = mode
      BY <3>1 DEF TypeOK
    <3>2. ASSUME NEW known \in BOOLEAN,
                 mode' = [mode EXCEPT ![c] = [Known(c, known) EXCEPT
                                                ![f] = IF Legal(v) THEN v ELSE @]]
          PROVE  mode' \in [Chips -> [Flags -> Nat]]
      BY <2>3, <3>2 DEF TypeOK
    <3> QED
      BY <3>1, <3>2 DEF SetFlag
  <2>5. modeLost' \in [Chips -> BOOLEAN]
    <3>1. CASE modeLost' = modeLost
      BY <3>1 DEF TypeOK
    <3>2. ASSUME NEW known \in BOOLEAN, NEW told \in BOOLEAN,
                 modeLost' = [modeLost EXCEPT ![c] = @ \/ ~known \/ ~told]
          PROVE  modeLost' \in [Chips -> BOOLEAN]
      BY <3>2 DEF TypeOK
    <3> QED
      BY <3>1, <3>2 DEF SetFlag
  <2> QED
    BY <1>2, <2>1, <2>4, <2>5 DEF TypeOK
<1>5. Bounded'
  BY <1>2, BoundedStep DEF Moves, Session, Bounded
<1>6. MutexInv'
  BY <1>1, <1>2, <1>3, MutexStep DEF Moves, Session, InSession
<1>7. PlaceAt(t)'
  BY <1>1, <1>2, <1>3, ViewRests DEF PlaceAt, AtTransfer
<1> QED
  BY <1>2, <1>4, <1>5, <1>6, <1>7, PlaceStep DEF Moves, Session

\* A select begins a transfer of the phase the thread is in.
LEMMA TypeSelect ==
    ASSUME TypeInv, NEW t \in Threads, Select(t) PROVE TypeInv'
<1> USE SizeAssumption DEF TypeInv
<1>0. Chip(t) \in Chips
  BY ChipType
<1>1. /\ pc[t] = "select" /\ pc' = [pc EXCEPT ![t] = "transfer"]
      /\ recv' = recv \/ recv' = [recv EXCEPT ![Chip(t)] = Unread]
      /\ sel' = [sel EXCEPT ![Chip(t)] = @ \/ cs[Chip(t)].enable]
  BY DEF Select
<1>2. UNCHANGED <<lock, phase, req, chunk, delay, got, status, out, ret, clean, start, recvLen, sendLen,
                  part, calls, cs, para, mode, misused, modeLost, dev>>
  BY DEF Select, locals, setup
<1>3. pc'[t] = "transfer"
  BY <1>1 DEF TypeOK
<1>4. TypeOK'
  <2>1. pc' \in [Threads -> Pcs]
    BY <1>1 DEF TypeOK, Pcs
  <2>2. recv' \in [Chips -> [Slots -> Bytes]]
    <3>1. Unread \in [Slots -> Bytes]
      BY DEF Unread, Bytes
    <3> QED
      BY <1>0, <1>1, <3>1 DEF TypeOK
  <2>3. sel' \in [Chips -> BOOLEAN]
    BY <1>1 DEF TypeOK
  <2> QED
    BY <1>2, <2>1, <2>2, <2>3 DEF TypeOK
<1>5. Bounded'
  BY <1>2, BoundedStep DEF Moves, Session, Bounded
<1>6. MutexInv'
  BY <1>1, <1>2, <1>3, MutexStep DEF Moves, Session, InSession
<1>7. PlaceAt(t)'
  <2>1. PlaceAt(t)
    BY DEF PlaceInv
  <2> QED
    BY <1>1, <1>2, <1>3, <2>1, ViewRests DEF PlaceAt, AtTransfer, InSession
<1> QED
  BY <1>2, <1>4, <1>5, <1>6, <1>7, PlaceStep DEF Moves, Session

\* What a transfer may move.
LEMMA WantedRange ==
    ASSUME TypeInv, NEW t \in Threads, AtTransfer(t)
    PROVE  Wanted(t) \in 0 .. Size /\ (phase[t] = "data" => Wanted(t) = ChunkLen(t))
<1>1. PlaceAt(t) /\ req[t].len \in 0 .. Size /\ Size \in Nat \ {0}
  BY SizeAssumption DEF TypeInv, PlaceInv, TypeOK, Request
<1>2. ChunkLen(t) \in 0 .. Size
  <2>1. /\ ChunkLen(t) \in 0 .. ChunkSize(t)
        /\ chunk[t] * ChunkSize(t) + ChunkLen(t) <= req[t].len
        /\ chunk[t] * ChunkSize(t) \in Nat
    BY <1>1, ChunkLenRange DEF PlaceAt, TypeInv
  <2>2. ChunkSize(t) \in Nat
    BY ChunkSizeType
  <2> DEFINE a == chunk[t] * ChunkSize(t)
  <2> HIDE DEF a
  <2> QED
    BY <1>1, <2>1, <2>2 DEF a
<1> QED
  BY <1>1, <1>2 DEF Wanted

\* What a chip sends is bytes.
LEMMA AnswerType ==
    ASSUME TypeInv, NEW t \in Threads, NEW k \in Nat
    PROVE  Answer(t, k) \in Bytes
<1> USE SizeAssumption DEF TypeInv
<1>0. Chip(t) \in Chips
  BY ChipType
<1>1. Register(t, k) \in Bytes
  <2>1. req[t].addr + k \in Int /\ dev[Chip(t)].pos + k \in Int
    <3>1. req[t].addr \in Cells /\ dev[Chip(t)].pos \in Cells
      BY <1>0, DeviceType DEF TypeOK, Request
    <3> QED
      BY <3>1 DEF Cells
  <2>2. (req[t].addr + k) % Size \in Cells /\ (dev[Chip(t)].pos + k) % Size \in Cells
    BY <2>1, ModRange DEF Cells
  <2>3. dev[Chip(t)].regs \in [Pages -> [Cells -> Bytes]] /\ dev[Chip(t)].page \in Pages /\ 0 \in Pages
    BY <1>0, DeviceType, ChipAssumption
  <2> QED
    BY <2>2, <2>3 DEF Register
<1>2. chunk[t] \in Latch => dev[Chip(t)].latch[chunk[t]] \in Bytes
  BY <1>0, DeviceType
<1> QED
  BY <1>1, <1>2 DEF Answer, Bytes

\* A chip that hears a transfer stays a chip.
LEMMA HeardType ==
    ASSUME TypeInv, NEW t \in Threads, NEW n \in Nat
    PROVE  Heard(t, n) \in Device
<1> USE SizeAssumption DEF TypeInv
<1>0. Chip(t) \in Chips /\ dev[Chip(t)] \in Device
  BY ChipType DEF TypeOK
<1>1. req[t].addr \in Cells /\ Nothing \in [Latch -> Bytes]
  BY DEF TypeOK, Request, Nothing, Bytes
<1>2. [dev[Chip(t)] EXCEPT !.rack = FALSE, !.fetch = TRUE, !.want = req[t].addr, !.latch = Nothing]
          \in Device
  BY <1>0, <1>1 DEF Device
<1>3. [dev[Chip(t)] EXCEPT !.pos = (@ + n) % Size] \in Device
  <2>1. dev[Chip(t)].pos + n \in Int
    BY <1>0 DEF Device, Cells
  <2>2. (dev[Chip(t)].pos + n) % Size \in Cells
    BY <2>1, ModRange DEF Cells
  <2> QED
    BY <1>0, <2>2 DEF Device
<1> QED
  BY <1>0, <1>2, <1>3 DEF Heard

\* A receive fills the buffer with bytes and counts at most what was wanted.
LEMMA TypeReceive ==
    ASSUME TypeInv, NEW t \in Threads, Receive(t) PROVE TypeInv'
<1> USE SizeAssumption DEF TypeInv
<1> DEFINE c == Chip(t)
<1>0. c \in Chips /\ pc[t] = "transfer" /\ PlaceAt(t)
  BY ChipType DEF Receive, PlaceInv
<1>1. PICK n \in {-1, Wanted(t)} \cup (IF ShortTransfers THEN 0 .. Wanted(t) ELSE {}), reached \in BOOLEAN :
         /\ n >= 0 => reached
         /\ Wanted(t) = 0 => n = -1 /\ ~reached
         /\ got' = [got EXCEPT ![t] = n]
         /\ \E bit \in StatusBit(t, n) : status' = [status EXCEPT ![t] = bit]
         /\ clean' = [clean EXCEPT ![t] = @ /\ (n = Wanted(t) \/ (n < 0 /\ ~Polling(t)))]
         /\ recv' = IF phase[t] = "data" /\ n > 0
                    THEN [recv EXCEPT ![c] = [k \in Slots |-> IF k < n THEN Answer(t, k) ELSE Garbage]]
                    ELSE recv
         /\ dev' = IF reached THEN [dev EXCEPT ![c] = Heard(t, IF n < 0 THEN Wanted(t) ELSE n)]
                              ELSE dev
  BY DEF Receive
<1>2. UNCHANGED <<lock, phase, req, chunk, delay, out, ret, start, recvLen, sendLen, part, calls, cs,
                  para, mode, misused, modeLost, sel>>
  BY DEF Receive, setup
<1>3. pc' = [pc EXCEPT ![t] = "deselect"] /\ pc'[t] = "deselect"
  BY DEF Receive, TypeOK
<1>4. /\ Wanted(t) \in 0 .. Size /\ n \in -1 .. Wanted(t)
      /\ phase[t] = "data" => Wanted(t) = ChunkLen(t)
  <2>1. Wanted(t) \in 0 .. Size /\ (phase[t] = "data" => Wanted(t) = ChunkLen(t))
    BY <1>0, WantedRange DEF AtTransfer
  <2> QED
    BY <1>1, <2>1
<1>5. TypeOK'
  <2>1. pc' \in [Threads -> Pcs]
    BY <1>3 DEF TypeOK, Pcs
  <2>2. got' \in [Threads -> -1 .. Size]
    <3>1. n \in -1 .. Size
      BY <1>4
    <3> QED
      BY <1>1, <3>1 DEF TypeOK
  <2>3. status' \in [Threads -> BOOLEAN]
    <3>1. dev[c].busy \in BOOLEAN /\ dev[c].rack \in BOOLEAN
      BY <1>0, DeviceType
    <3>2. StatusBit(t, n) \subseteq BOOLEAN
      BY <3>1 DEF StatusBit
    <3>3. PICK bit \in BOOLEAN : status' = [status EXCEPT ![t] = bit]
      BY <1>1, <3>2
    <3> QED
      BY <3>3 DEF TypeOK
  <2>4. clean' \in [Threads -> BOOLEAN]
    BY <1>1 DEF TypeOK
  <2>5. recv' \in [Chips -> [Slots -> Bytes]]
    <3>1. [k \in Slots |-> IF k < n THEN Answer(t, k) ELSE Garbage] \in [Slots -> Bytes]
      BY AnswerType DEF Slots, Bytes
    <3> QED
      BY <1>0, <1>1, <3>1 DEF TypeOK
  <2>6. dev' \in [Chips -> Device]
    <3>1. (IF n < 0 THEN Wanted(t) ELSE n) \in Nat
      BY <1>4
    <3>2. Heard(t, IF n < 0 THEN Wanted(t) ELSE n) \in Device
      BY <3>1, HeardType
    <3> QED
      BY <1>0, <1>1, <3>2 DEF TypeOK
  <2> QED
    BY <1>2, <2>1, <2>2, <2>3, <2>4, <2>5, <2>6 DEF TypeOK
<1>6. Bounded'
  BY <1>2, BoundedStep DEF Moves, Session, Bounded
<1>7. MutexInv'
  BY <1>0, <1>2, <1>3, MutexStep DEF Moves, Session, InSession
<1>8. PlaceAt(t)'
  <2>1. got'[t] = n /\ (phase[t] = "data" => n <= ChunkLen(t))
    BY <1>1, <1>4 DEF TypeOK
  <2> QED
    BY <1>0, <1>2, <1>3, <2>1, ViewRests DEF PlaceAt, AtTransfer, InSession
<1> QED
  BY <1>2, <1>5, <1>6, <1>7, <1>8, PlaceStep DEF Moves, Session

\* A chip that has heard a write still holds bytes.
LEMMA WrittenType ==
    ASSUME TypeInv, NEW t \in Threads, NEW d \in Chips,
           pc[t] = "transfer", phase[t] = "data", Kind(t) = "write",
           NEW n \in Nat, n <= ChunkLen(t)
    PROVE  Written(t, d, n) \in Device
<1> USE SizeAssumption DEF TypeInv
<1> DEFINE a0 == IF Stream(d) THEN dev[d].pos ELSE req[t].addr
           p  == IF Stream(d) THEN 0 ELSE dev[d].page
           base == sendLen[Chip(t)]
           cells == [a \in Cells |-> IF (a - a0) % Size < n THEN req[t].data[base + ((a - a0) % Size)]
                                                            ELSE dev[d].regs[p][a]]
<1>0. PlaceAt(t)
  BY DEF PlaceInv
<1>1. /\ dev[d] \in Device /\ dev[d].pos \in Cells /\ dev[d].page \in Pages /\ 0 \in Pages
      /\ dev[d].regs \in [Pages -> [Cells -> Bytes]] /\ dev[d].busy \in BOOLEAN
  BY DeviceType, ChipAssumption DEF TypeOK
<1>2. a0 \in Cells /\ p \in Pages
  BY <1>1 DEF TypeOK, Request
<1>3. n \in Nat /\ base \in Nat /\ base + n <= Size
  <2>1. base = chunk[t] * ChunkSize(t) /\ (chunk[t] = 0 \/ chunk[t] * ChunkSize(t) < req[t].len)
    BY <1>0 DEF PlaceAt, AtTransfer
  <2>2. ChunkLen(t) \in 0 .. ChunkSize(t) /\ base + ChunkLen(t) <= req[t].len /\ base \in Nat
    BY <2>1, ChunkLenRange
  <2>3. ChunkSize(t) \in Nat /\ req[t].len \in 0 .. Size
    BY ChunkSizeType DEF TypeOK, Request
  <2> HIDE DEF base
  <2> QED
    BY <2>2, <2>3
<1>4. \A a \in Cells : (a - a0) % Size \in 0 .. Size - 1
  <2> SUFFICES ASSUME NEW a \in Cells PROVE (a - a0) % Size \in 0 .. Size - 1
    OBVIOUS
  <2>1. a - a0 \in Int
    BY <1>2 DEF Cells
  <2> HIDE DEF a0
  <2> QED
    BY <2>1, ModRange
<1>5. cells \in [Cells -> Bytes]
  <2> SUFFICES ASSUME NEW a \in Cells
               PROVE  (IF (a - a0) % Size < n THEN req[t].data[base + ((a - a0) % Size)]
                                              ELSE dev[d].regs[p][a]) \in Bytes
    OBVIOUS
  <2> DEFINE k == (a - a0) % Size
  <2>1. k \in 0 .. Size - 1
    BY <1>4
  <2>2. req[t].data \in [Cells -> Bytes] /\ dev[d].regs[p][a] \in Bytes
    BY <1>1, <1>2 DEF TypeOK, Request
  <2> HIDE DEF k, base, a0, p
  <2>3. k < n => base + k \in Cells
    BY <1>3, <2>1 DEF Cells
  <2> QED
    BY <2>2, <2>3 DEF k
<1>6. (IF Stream(d) THEN (dev[d].pos + n) % Size ELSE dev[d].pos) \in Cells
  <2>1. dev[d].pos + n \in Int
    BY <1>1, <1>3 DEF Cells
  <2> QED
    BY <1>1, <2>1, ModRange DEF Cells
<1>7. Written(t, d, n) = [dev[d] EXCEPT !.regs[p] = cells,
                                     !.pos = IF Stream(d) THEN (dev[d].pos + n) % Size ELSE dev[d].pos,
                                     !.busy = dev[d].busy \/ Switch(d)]
  BY DEF Written
<1> DEFINE pos1 == IF Stream(d) THEN (dev[d].pos + n) % Size ELSE dev[d].pos
           busy1 == dev[d].busy \/ Switch(d)
<1>8. pos1 \in Cells /\ busy1 \in BOOLEAN
  BY <1>6
<1>9. Written(t, d, n) = [dev[d] EXCEPT !.regs = [@ EXCEPT ![p] = cells], !.pos = pos1, !.busy = busy1]
  BY <1>7
<1> HIDE DEF cells, pos1, busy1, a0, p
<1> DEFINE regs1 == [dev[d].regs EXCEPT ![p] = cells]
<1>10. regs1 \in [Pages -> [Cells -> Bytes]]
  BY <1>1, <1>5
<1>11. Written(t, d, n) = [dev[d] EXCEPT !.regs = regs1, !.pos = pos1, !.busy = busy1]
  BY <1>9
<1> HIDE DEF regs1
<1>12. \A x \in Device, r \in [Pages -> [Cells -> Bytes]], q \in Cells, b \in BOOLEAN :
          [x EXCEPT !.regs = r, !.pos = q, !.busy = b] \in Device
  BY DEF Device
<1>13. dev[d] \in Device
  BY <1>1
<1>14. [dev[d] EXCEPT !.regs = regs1, !.pos = pos1, !.busy = busy1] \in Device
  BY <1>8, <1>10, <1>12, <1>13
<1> QED
  BY <1>11, <1>14

\* A chunk that is sent lies inside the data of the caller.
LEMMA TypeSend ==
    ASSUME TypeInv, NEW t \in Threads, Send(t) PROVE TypeInv'
<1> USE SizeAssumption DEF TypeInv
<1>0. Chip(t) \in Chips /\ pc[t] = "transfer" /\ PlaceAt(t) /\ ~Receiving(t)
  BY ChipType DEF Send, PlaceInv
<1>9. ChunkLen(t) \in Nat
  BY <1>0, ChunkLenNat
<1>1. PICK ok \in BOOLEAN, reached \in BOOLEAN,
           n \in (IF ShortTransfers THEN 0 .. ChunkLen(t) ELSE {ChunkLen(t)}) :
         /\ got' = [got EXCEPT ![t] = IF ok THEN 1 ELSE -1]
         /\ clean' = [clean EXCEPT ![t] = @ /\ (ok => reached /\ n = ChunkLen(t))]
         /\ dev' = [d \in Chips |->
                      IF ~reached \/ d \notin Listeners(Chip(t)) \/ dev[d].busy THEN dev[d]
                      ELSE IF phase[t] = "page" THEN [dev[d] EXCEPT !.page = req[t].page]
                      ELSE Written(t, d, n)]
  BY DEF Send
<1>10. n \in Nat /\ n <= ChunkLen(t)
  BY <1>1, <1>9
<1>2. UNCHANGED <<lock, phase, req, chunk, delay, status, out, ret, start, recv, recvLen, sendLen,
                  part, calls, cs, para, mode, misused, modeLost, sel>>
  BY DEF Send, buffers, setup
<1>3. pc' = [pc EXCEPT ![t] = "deselect"] /\ pc'[t] = "deselect"
  BY DEF Send, TypeOK
<1>4. phase[t] \in {"page", "data"} /\ (phase[t] = "data" => Kind(t) = "write")
  BY <1>0 DEF PlaceAt, AtTransfer, PhasesOf, Receiving, IsAccess
<1>5. TypeOK'
  <2>1. pc' \in [Threads -> Pcs]
    BY <1>3 DEF TypeOK, Pcs
  <2>2. got' \in [Threads -> -1 .. Size]
    BY <1>1 DEF TypeOK
  <2>3. dev' \in [Chips -> Device]
    <3>1. \A d \in Chips : dev[d] \in Device /\ [dev[d] EXCEPT !.page = req[t].page] \in Device
      <4>1. req[t].page \in Pages /\ \A d \in Chips : dev[d] \in Device
        BY DEF TypeOK, Request
      <4>2. \A x \in Device, q \in Pages : [x EXCEPT !.page = q] \in Device
        BY DEF Device
      <4> QED
        BY <4>1, <4>2
    <3>2. phase[t] # "page" => \A d \in Chips : Written(t, d, n) \in Device
      BY <1>0, <1>4, <1>10, WrittenType
    <3> QED
      BY <1>1, <3>1, <3>2
  <2>4. clean' \in [Threads -> BOOLEAN]
    BY <1>1 DEF TypeOK
  <2> QED
    BY <1>2, <2>1, <2>2, <2>3, <2>4 DEF TypeOK
<1>6. Bounded'
  BY <1>2, BoundedStep DEF Moves, Session, Bounded
<1>7. MutexInv'
  BY <1>0, <1>2, <1>3, MutexStep DEF Moves, Session, InSession
<1>8. PlaceAt(t)'
  BY <1>0, <1>2, <1>3, <1>4, ViewRests DEF PlaceAt, AtTransfer, InSession
<1> QED
  BY <1>2, <1>5, <1>6, <1>7, <1>8, PlaceStep DEF Moves, Session

\* A deselect ends the transfer and keeps the place in the loop.
LEMMA TypeDeselect ==
    ASSUME TypeInv, NEW t \in Threads, Deselect(t) PROVE TypeInv'
<1> USE SizeAssumption DEF TypeInv
<1>0. Chip(t) \in Chips /\ PlaceAt(t)
  BY ChipType DEF PlaceInv
<1>1. /\ pc[t] = "deselect" /\ pc' = [pc EXCEPT ![t] = "next"] /\ pc'[t] = "next"
      /\ sel' = [sel EXCEPT ![Chip(t)] = @ /\ ~cs[Chip(t)].disable]
  BY DEF Deselect, TypeOK
<1>2. UNCHANGED <<lock, phase, req, chunk, delay, got, status, out, ret, clean, start, recv, recvLen,
                  sendLen, part, calls, cs, para, mode, misused, modeLost, dev>>
  BY DEF Deselect, locals, buffers, setup
<1>3. TypeOK'
  <2>1. pc' \in [Threads -> Pcs]
    BY <1>1 DEF TypeOK, Pcs
  <2>2. sel' \in [Chips -> BOOLEAN]
    BY <1>1 DEF TypeOK
  <2> QED
    BY <1>2, <2>1, <2>2 DEF TypeOK
<1>4. Bounded'
  BY <1>2, BoundedStep DEF Moves, Session, Bounded
<1>5. MutexInv'
  BY <1>1, <1>2, MutexStep DEF Moves, Session, InSession
<1>6. PlaceAt(t)'
  BY <1>0, <1>1, <1>2, ViewRests DEF PlaceAt, AtTransfer, InSession
<1> QED
  BY <1>2, <1>3, <1>4, <1>5, <1>6, PlaceStep DEF Moves, Session

\* A failed transfer leads to the unlock.
LEMMA TypeFail ==
    ASSUME TypeInv, NEW t \in Threads, Fail(t) PROVE TypeInv'
<1> USE SizeAssumption DEF TypeInv
<1>0. PlaceAt(t)
  BY DEF PlaceInv
<1>1. /\ pc[t] = "next" /\ pc' = [pc EXCEPT ![t] = "unlock"] /\ pc'[t] = "unlock"
      /\ ret' = [ret EXCEPT ![t] = -1]
  BY DEF Fail, Finish, TypeOK
<1>2. UNCHANGED <<lock, phase, req, chunk, delay, got, status, out, clean, start, recv, recvLen,
                  sendLen, part, calls, cs, para, mode, misused, modeLost, sel, dev>>
  BY DEF Fail, Finish, buffers, setup
<1>3. TypeOK'
  <2>1. pc' \in [Threads -> Pcs]
    BY <1>1 DEF TypeOK, Pcs
  <2>2. ret' \in [Threads -> -1 .. Size]
    BY <1>1 DEF TypeOK
  <2> QED
    BY <1>2, <2>1, <2>2 DEF TypeOK
<1>4. Bounded'
  BY <1>2, BoundedStep DEF Moves, Session, Bounded
<1>5. MutexInv'
  BY <1>1, <1>2, MutexStep DEF Moves, Session, InSession
<1>6. PlaceAt(t)'
  BY <1>0, <1>1, <1>2, ViewRests DEF PlaceAt, AtTransfer, InSession
<1> QED
  BY <1>2, <1>3, <1>4, <1>5, <1>6, PlaceStep DEF Moves, Session

\* A page leads to the first phase that follows on the chip.
LEMMA TypePageNext ==
    ASSUME TypeInv, NEW t \in Threads, PageNext(t) PROVE TypeInv'
<1> USE SizeAssumption DEF TypeInv
<1>0. PlaceAt(t) /\ IsAccess(t) /\ chunk[t] = 0 /\ phase[t] = "page"
  BY DEF PlaceInv, PlaceAt, PageNext, AtTransfer
<1>1. /\ pc[t] = "next"
      /\ \/ /\ phase' = phase /\ pc' = [pc EXCEPT ![t] = "unlock"] /\ pc'[t] = "unlock"
         \/ /\ pc' = [pc EXCEPT ![t] = "select"] /\ pc'[t] = "select"
            /\ \E p \in {"addr", "data"} : /\ phase' = [phase EXCEPT ![t] = p] /\ phase'[t] = p
                                           /\ p \in PhasesOf(t)
  BY DEF PageNext, Continue, Finish, TypeOK, PhasesOf
<1>2. UNCHANGED <<lock, req, chunk, delay, got, status, out, ret, clean, start, recv, recvLen,
                  sendLen, part, calls, cs, para, mode, misused, modeLost, sel, dev>>
  BY DEF PageNext, buffers, setup
<1>3. TypeOK'
  <2>1. pc' \in [Threads -> Pcs]
    BY <1>1 DEF TypeOK, Pcs
  <2>2. phase' \in [Threads -> Phases]
    <3>1. phase' = phase \/ \E p \in {"addr", "data"} : phase' = [phase EXCEPT ![t] = p]
      BY <1>1
    <3> QED
      BY <3>1 DEF TypeOK, Phases
  <2> QED
    BY <1>2, <2>1, <2>2 DEF TypeOK
<1>4. Bounded'
  BY <1>2, BoundedStep DEF Moves, Session, Bounded
<1>5. MutexInv'
  BY <1>1, <1>2, MutexStep DEF Moves, Session, InSession
<1>6. PlaceAt(t)'
  BY <1>0, <1>1, <1>2, ViewRests DEF PlaceAt, AtTransfer, InSession, Polling
<1> QED
  BY <1>2, <1>3, <1>4, <1>5, <1>6, PlaceStep DEF Moves, Session

\* An address leads to the poll of the acknowledge.
LEMMA TypeAddrNext ==
    ASSUME TypeInv, NEW t \in Threads, AddrNext(t) PROVE TypeInv'
<1> USE SizeAssumption DEF TypeInv
<1>0. PlaceAt(t) /\ IsAccess(t) /\ chunk[t] = 0 /\ phase[t] = "addr" /\ "rack" \in PhasesOf(t)
  BY DEF PlaceInv, PlaceAt, AddrNext, AtTransfer, PhasesOf
<1>1. /\ pc[t] = "next" /\ pc' = [pc EXCEPT ![t] = "select"] /\ pc'[t] = "select"
      /\ phase' = [phase EXCEPT ![t] = "rack"] /\ phase'[t] = "rack"
      /\ delay' = [delay EXCEPT ![t] = 0] /\ delay'[t] = 0
  BY DEF AddrNext, Continue, TypeOK
<1>2. UNCHANGED <<lock, req, chunk, got, status, out, ret, clean, start, recv, recvLen,
                  sendLen, part, calls, cs, para, mode, misused, modeLost, sel, dev>>
  BY DEF AddrNext, buffers, setup
<1>3. TypeOK'
  <2>1. pc' \in [Threads -> Pcs] /\ phase' \in [Threads -> Phases]
    BY <1>1 DEF TypeOK, Pcs, Phases
  <2>2. delay' \in [Threads -> 0 .. DelayMax + 1]
    BY <1>1 DEF TypeOK
  <2> QED
    BY <1>2, <2>1, <2>2 DEF TypeOK
<1>4. Bounded'
  BY <1>2, BoundedStep DEF Moves, Session, Bounded
<1>5. MutexInv'
  BY <1>1, <1>2, MutexStep DEF Moves, Session, InSession
<1>6. PlaceAt(t)'
  BY <1>0, <1>1, <1>2, ViewRests DEF PlaceAt, AtTransfer, InSession, Polling
<1> QED
  BY <1>2, <1>3, <1>4, <1>5, <1>6, PlaceStep DEF Moves, Session

\* A poll gives up before its counter passes the limit.
LEMMA TypePollNext ==
    ASSUME TypeInv, NEW t \in Threads, PollNext(t) PROVE TypeInv'
<1> USE SizeAssumption DEF TypeInv
<1>0. /\ PlaceAt(t) /\ IsAccess(t) /\ chunk[t] = 0 /\ phase[t] \in {"spif", "rack"}
      /\ phase[t] \in PhasesOf(t) /\ delay[t] \in 0 .. DelayMax /\ "data" \in PhasesOf(t)
      /\ phase[t] = "spif" => "page" \in PhasesOf(t)
  BY DEF PlaceInv, PlaceAt, PollNext, Polling, AtTransfer, PhasesOf, Paged, Switch, TypeOK
<1>1. /\ pc[t] = "next"
      /\ \/ /\ pc' = [pc EXCEPT ![t] = "select"] /\ pc'[t] = "select"
            /\ \E p \in {"page", "data"} : /\ phase' = [phase EXCEPT ![t] = p] /\ phase'[t] = p
                                           /\ p \in PhasesOf(t)
            /\ delay' = delay /\ ret' = ret
         \/ /\ pc' = [pc EXCEPT ![t] = "select"] /\ pc'[t] = "select" /\ phase'[t] = phase[t]
            /\ phase' = [phase EXCEPT ![t] = phase[t]] /\ ~GivesUp(delay[t] + 1)
            /\ delay' = [delay EXCEPT ![t] = delay[t] + 1] /\ ret' = ret
         \/ /\ phase' = phase /\ pc' = [pc EXCEPT ![t] = "unlock"] /\ pc'[t] = "unlock"
            /\ delay' = [delay EXCEPT ![t] = delay[t] + 1] /\ ret' = [ret EXCEPT ![t] = -1]
  BY <1>0 DEF PollNext, Continue, Finish, TypeOK
<1>2. UNCHANGED <<lock, req, chunk, got, status, out, clean, start, recv, recvLen,
                  sendLen, part, calls, cs, para, mode, misused, modeLost, sel, dev>>
  BY DEF PollNext, buffers, setup
<1>3. TypeOK'
  <2>1. pc' \in [Threads -> Pcs] /\ phase' \in [Threads -> Phases]
    <3>1. pc' \in [Threads -> Pcs]
      BY <1>1 DEF TypeOK, Pcs
    <3>2. \/ phase' = phase \/ phase' = [phase EXCEPT ![t] = phase[t]]
          \/ \E p \in {"page", "data"} : phase' = [phase EXCEPT ![t] = p]
      BY <1>1
    <3>3. phase' \in [Threads -> Phases]
      BY <3>2 DEF TypeOK, Phases
    <3> QED
      BY <3>1, <3>3
  <2>2. delay' \in [Threads -> 0 .. DelayMax + 1]
    <3>1. delay[t] + 1 \in 0 .. DelayMax + 1
      BY <1>0
    <3> QED
      BY <1>1, <3>1 DEF TypeOK
  <2>3. ret' \in [Threads -> -1 .. Size]
    BY <1>1 DEF TypeOK
  <2> QED
    BY <1>2, <2>1, <2>2, <2>3 DEF TypeOK
<1>4. Bounded'
  BY <1>2, BoundedStep DEF Moves, Session, Bounded
<1>5. MutexInv'
  BY <1>1, <1>2, MutexStep DEF Moves, Session, InSession
<1>6. PlaceAt(t)'
  <2>1. \/ delay'[t] = delay[t]
        \/ delay'[t] = delay[t] + 1 /\ (pc'[t] = "unlock" \/ ~(delay'[t] > DelayMax))
    BY <1>1 DEF GivesUp, TypeOK
  <2>2. pc'[t] = "select" => delay'[t] <= DelayMax
    BY <1>0, <1>1, <2>1
  <2> QED
    BY <1>0, <1>1, <1>2, <2>2, ViewRests DEF PlaceAt, AtTransfer, InSession, Polling
<1> QED
  BY <1>2, <1>3, <1>4, <1>5, <1>6, PlaceStep DEF Moves, Session

\* The loop goes on with the next chunk while there is one.
LEMMA TypeDataNext ==
    ASSUME TypeInv, NEW t \in Threads, DataNext(t) PROVE TypeInv'
<1> USE SizeAssumption DEF TypeInv
<1> DEFINE c == Chip(t)
           base == chunk[t] * ChunkSize(t)
           m == ChunkLen(t)
<1>0. /\ c \in Chips /\ PlaceAt(t) /\ IsAccess(t) /\ pc[t] = "next" /\ phase[t] = "data"
      /\ got[t] >= 0 /\ (Kind(t) = "read" => got[t] \in 0 .. m /\ recvLen[c] <= base)
      /\ (Kind(t) = "write" => sendLen[c] = base)
      /\ chunk[t] = 0 \/ base < req[t].len
      /\ "data" \in PhasesOf(t)
  BY ChipType DEF PlaceInv, PlaceAt, DataNext, AtTransfer, PhasesOf, TypeOK
<1>1. /\ m \in 0 .. ChunkSize(t) /\ base \in Nat /\ base + m <= Size /\ ChunkSize(t) \in Nat \ {0}
      /\ (Kind(t) = "read" => ChunkSize(t) <= ReadSize)
  <2>1. /\ m \in 0 .. ChunkSize(t) /\ base + m <= req[t].len /\ base \in Nat
    BY <1>0, ChunkLenRange
  <2>2. /\ req[t].len \in 0 .. Size /\ ChunkSize(t) \in Nat \ {0}
        /\ (Kind(t) = "read" => ChunkSize(t) <= ReadSize)
    BY ChunkSizeType DEF TypeOK, Request
  <2> HIDE DEF base, m
  <2> QED
    BY <2>1, <2>2
<1>2. chunk' = [chunk EXCEPT ![t] = chunk[t] + 1] /\ chunk[t] + 1 \in 0 .. Size
  BY <1>0, ChunkBelow DEF DataNext
<1>3. \/ /\ MoreChunks(t) /\ pc' = [pc EXCEPT ![t] = "select"] /\ pc'[t] = "select"
         /\ phase' = [phase EXCEPT ![t] = "data"] /\ phase'[t] = "data"
      \/ phase' = phase /\ pc' = [pc EXCEPT ![t] = "unlock"] /\ pc'[t] = "unlock"
  BY DEF DataNext, Continue, Finish, TypeOK
<1>4. UNCHANGED <<lock, req, delay, got, status, ret, clean, start, recv, part, calls, cs, para, mode,
                  misused, modeLost, sel, dev>>
  BY DEF DataNext, setup
<1>5. \/ /\ Kind(t) = "read" /\ sendLen' = sendLen
         /\ recvLen' = [recvLen EXCEPT ![c] = recvLen[c] + got[t]]
         /\ out' = [out EXCEPT ![t] = [k \in Cells |->
                          IF k \in recvLen[c] .. recvLen[c] + got[t] - 1
                          THEN recv[c][k - recvLen[c]] ELSE out[t][k]]]
      \/ /\ Kind(t) = "write" /\ sendLen' = [sendLen EXCEPT ![c] = sendLen[c] + m]
         /\ recvLen' = recvLen /\ out' = out
  BY <1>0 DEF DataNext, IsAccess, TypeOK
<1>6. TypeOK'
  <2>1. pc' \in [Threads -> Pcs] /\ phase' \in [Threads -> Phases]
    BY <1>3 DEF TypeOK, Pcs, Phases
  <2>2. chunk' \in [Threads -> 0 .. Size]
    BY <1>2 DEF TypeOK
  <2>3. recvLen' \in [Chips -> 0 .. Size] /\ sendLen' \in [Chips -> 0 .. Size]
    <3>1. recvLen[c] \in Nat /\ sendLen[c] \in Nat
      BY <1>0 DEF TypeOK
    <3> HIDE DEF base, m, c
    <3>2. /\ Kind(t) = "read" => recvLen[c] + got[t] \in 0 .. Size
          /\ Kind(t) = "write" => sendLen[c] + m \in 0 .. Size
      BY <1>0, <1>1, <3>1
    <3>3. recvLen' \in [Chips -> 0 .. Size]
      BY ZenonT(60), <1>0, <1>5, <3>2 DEF TypeOK
    <3>4. sendLen' \in [Chips -> 0 .. Size]
      BY <1>0, <1>5, <3>2 DEF TypeOK
    <3> QED
      BY <3>3, <3>4
  <2>4. out' \in [Threads -> [Cells -> Bytes]]
    <3>1. CASE Kind(t) = "read"
      <4>1. ASSUME NEW k \in Cells, k \in recvLen[c] .. recvLen[c] + got[t] - 1
            PROVE  recv[c][k - recvLen[c]] \in Bytes
        <5>1. recvLen[c] \in Nat /\ k \in Nat /\ got[t] \in Nat /\ ReadSize \in Nat
          BY <1>0 DEF TypeOK, Cells
        <5>2. got[t] <= ReadSize
          <6> HIDE DEF base, m
          <6> QED
            BY <1>0, <1>1, <3>1
        <5>3. k - recvLen[c] \in Slots
          <6> HIDE DEF c
          <6> QED
            BY <4>1, <5>1, <5>2 DEF Slots
        <5> QED
          BY <1>0, <5>3 DEF TypeOK
      <4>2. out[t] \in [Cells -> Bytes]
        BY DEF TypeOK
      <4>3. [k \in Cells |-> IF k \in recvLen[c] .. recvLen[c] + got[t] - 1
                             THEN recv[c][k - recvLen[c]] ELSE out[t][k]] \in [Cells -> Bytes]
        BY <4>1, <4>2
      <4> QED
        BY <1>5, <3>1, <4>3 DEF TypeOK
    <3>2. CASE Kind(t) = "write"
      BY <1>5, <3>2 DEF TypeOK
    <3> QED
      BY <1>5, <3>1, <3>2
  <2> QED
    BY <1>4, <2>1, <2>2, <2>3, <2>4 DEF TypeOK
<1>7. Bounded'
  BY <1>4, BoundedStep DEF Moves, Session, Bounded
<1>8. MutexInv'
  BY <1>0, <1>3, <1>4, MutexStep DEF Moves, Session, InSession
<1>9. PlaceAt(t)'
  <2>1. /\ Kind(t)' = Kind(t) /\ Chip(t)' = Chip(t) /\ IsAccess(t)' = IsAccess(t)
        /\ ChunkSize(t)' = ChunkSize(t) /\ PhasesOf(t)' = PhasesOf(t)
    BY <1>4, ViewRests
  <2>2. chunk'[t] = chunk[t] + 1
    BY <1>2 DEF TypeOK
  <2>3. CASE MoreChunks(t) /\ pc'[t] = "select" /\ phase'[t] = "data"
    <3>1. m = ChunkSize(t) /\ (chunk[t] + 1) * ChunkSize(t) < req[t].len
      BY <2>3, MoreIsFull DEF MoreChunks
    <3>2. (chunk[t] + 1) * ChunkSize(t) = base + ChunkSize(t)
      <4>1. chunk[t] \in Nat /\ ChunkSize(t) \in Nat
        BY <1>1 DEF TypeOK
      <4> QED
        BY <4>1, Distribute
    <3>3. /\ Kind(t) = "read" => recvLen'[c] = recvLen[c] + got[t]
          /\ Kind(t) = "write" => sendLen'[c] = sendLen[c] + m
      BY <1>0, <1>5 DEF TypeOK
    <3>4. recvLen[c] \in Nat /\ sendLen[c] \in Nat
      BY <1>0 DEF TypeOK
    <3> HIDE DEF base, m
    <3>5. /\ Kind(t) = "read" => recvLen'[c] <= chunk'[t] * ChunkSize(t)
          /\ Kind(t) = "write" => sendLen'[c] = chunk'[t] * ChunkSize(t)
      BY <1>0, <1>1, <2>2, <3>1, <3>2, <3>3, <3>4
    <3> QED
      BY <1>0, <1>4, <2>1, <2>2, <2>3, <3>1, <3>5 DEF PlaceAt, AtTransfer, InSession, Polling
  <2>4. CASE pc'[t] = "unlock"
    BY <1>0, <2>1, <2>4 DEF PlaceAt, AtTransfer, InSession, IsAccess
  <2> QED
    BY <1>3, <2>3, <2>4
<1> QED
  BY <1>0, <1>6, <1>7, <1>8, <1>9, PlaceStep DEF Moves, Session, InSession

\* The holder gives up the lock outside every loop.
LEMMA TypeUnlock ==
    ASSUME TypeInv, NEW t \in Threads, Unlock(t) PROVE TypeInv'
<1> USE SizeAssumption DEF TypeInv
<1>0. Chip(t) \in Chips /\ PlaceAt(t) /\ pc[t] = "unlock"
  BY ChipType DEF PlaceInv, Unlock
<1>1. /\ lock' = NoThread /\ pc' = [pc EXCEPT ![t] = "done"] /\ pc'[t] = "done"
      /\ chunk' = [chunk EXCEPT ![t] = 0] /\ chunk'[t] = 0
      /\ delay' = [delay EXCEPT ![t] = 0] /\ delay'[t] = 0
  BY DEF Unlock, TypeOK
<1>2. UNCHANGED <<req, clean, part, calls, cs, para, mode, misused, modeLost, sel, dev>>
  BY DEF Unlock, setup
<1>3. TypeOK'
  <2>1. lock' \in Threads \cup {NoThread} /\ pc' \in [Threads -> Pcs]
    BY <1>1 DEF TypeOK, Pcs
  <2>2. ret' \in [Threads -> -1 .. Size]
    <3>1. recvLen[Chip(t)] \in -1 .. Size
      BY <1>0 DEF TypeOK
    <3> QED
      BY <3>1 DEF Unlock, TypeOK
  <2>3. phase' \in [Threads -> Phases]
    BY DEF Unlock, TypeOK, Phases
  <2>4. chunk' \in [Threads -> 0 .. Size] /\ delay' \in [Threads -> 0 .. DelayMax + 1]
    BY <1>1 DEF TypeOK
  <2>5. got' \in [Threads -> -1 .. Size]
    BY DEF Unlock, TypeOK
  <2>6. status' \in [Threads -> BOOLEAN]
    BY DEF Unlock, TypeOK
  <2>7. out' \in [Threads -> [Cells -> Bytes]] /\ start' \in [Threads -> Cells]
    <3>1. NoData \in [Cells -> Bytes] /\ 0 \in Cells
      BY DEF NoData, Bytes, Cells
    <3> QED
      BY <3>1 DEF Unlock, TypeOK
  <2>8. recv' \in [Chips -> [Slots -> Bytes]]
    <3>1. Unread \in [Slots -> Bytes]
      BY DEF Unread, Bytes
    <3> QED
      BY <3>1 DEF Unlock, TypeOK
  <2>9. recvLen' \in [Chips -> 0 .. Size] /\ sendLen' \in [Chips -> 0 .. Size]
    <3> DEFINE Lengths == 0 .. Size
    <3>1. StaleLen \in Lengths /\ recvLen \in [Chips -> Lengths] /\ sendLen \in [Chips -> Lengths]
      BY DEF TypeOK, StaleLen
    <3> HIDE DEF Lengths
    <3>2. recvLen' \in [Chips -> Lengths] /\ sendLen' \in [Chips -> Lengths]
      BY <3>1 DEF Unlock
    <3> USE DEF Lengths
    <3> QED
      BY <3>2
  <2> QED
    BY <1>2, <2>1, <2>2, <2>3, <2>4, <2>5, <2>6, <2>7, <2>8, <2>9 DEF TypeOK
<1>4. Bounded'
  BY <1>2, BoundedStep DEF Moves, Session, Bounded
<1>5. MutexInv'
  BY <1>0, <1>1, MutexStep DEF Moves, Session, InSession
<1>6. PlaceAt(t)'
  BY <1>1 DEF PlaceAt, AtTransfer, InSession
<1> QED
  BY <1>0, <1>3, <1>4, <1>5, <1>6, PlaceStep DEF Moves, Session, InSession

\* The caller takes a result of its type.
LEMMA TypeConsume ==
    ASSUME TypeInv, NEW t \in Threads, Consume(t) PROVE TypeInv'
<1> USE SizeAssumption DEF TypeInv
<1>0. PlaceAt(t) /\ pc[t] = "done"
  BY DEF PlaceInv, Consume
<1>1. /\ pc' = [pc EXCEPT ![t] = "idle"] /\ pc'[t] = "idle"
      /\ req' = [req EXCEPT ![t] = NoRequest] /\ req'[t] = NoRequest
  BY DEF Consume, TypeOK
<1>2. UNCHANGED <<lock, phase, chunk, delay, got, status, out, start, recv, recvLen, sendLen, part,
                  calls, cs, para, mode, misused, modeLost, sel, dev>>
  BY DEF Consume, buffers, setup
<1>3. TypeOK'
  <2>1. pc' \in [Threads -> Pcs]
    BY <1>1 DEF TypeOK, Pcs
  <2>2. req' \in [Threads -> Request]
    BY <1>1, NoRequestType DEF TypeOK
  <2>3. ret' \in [Threads -> -1 .. Size]
    BY DEF Consume, TypeOK
  <2>4. clean' \in [Threads -> BOOLEAN]
    BY DEF Consume, TypeOK
  <2> QED
    BY <1>2, <2>1, <2>2, <2>3, <2>4 DEF TypeOK
<1>4. Bounded'
  BY <1>1, NoRequestType, BoundedStep DEF Moves, Bounded
<1>5. MutexInv'
  BY <1>0, <1>1, <1>2, MutexStep DEF Moves, InSession
<1>6. PlaceAt(t)'
  BY <1>0, <1>1, <1>2 DEF PlaceAt, AtTransfer, InSession
<1> QED
  BY <1>2, <1>3, <1>4, <1>5, <1>6, PlaceStep DEF Moves

\* The switch changes nothing but itself.
LEMMA TypeDevice ==
    ASSUME TypeInv, NEW c \in Chips, DeviceReady(c) \/ DeviceAnswers(c) PROVE TypeInv'
<1> USE SizeAssumption DEF TypeInv
<1>1. UNCHANGED <<lock, pc, phase, req, chunk, delay, got, status, out, ret, clean, start, recv,
                  recvLen, sendLen, part, calls, cs, para, mode, misused, modeLost, sel>>
  BY DEF DeviceReady, DeviceAnswers, locals, buffers, setup
<1>2. dev' \in [Chips -> Device]
  <2>1. CASE DeviceReady(c)
    <3>1. \A x \in Device : [x EXCEPT !.busy = FALSE] \in Device
      BY DEF Device
    <3>2. dev' = [dev EXCEPT ![c] = [dev[c] EXCEPT !.busy = FALSE]]
      BY <2>1 DEF DeviceReady
    <3> QED
      BY <3>1, <3>2 DEF TypeOK
  <2>2. CASE DeviceAnswers(c)
    <3> DEFINE block == [k \in Latch |-> dev[c].regs[dev[c].page][(dev[c].want + k) % Size]]
               found == [dev[c] EXCEPT !.fetch = FALSE, !.rack = TRUE, !.want = 0, !.latch = block]
    <3>1. block \in [Latch -> Bytes]
      <4> SUFFICES ASSUME NEW k \in Latch
                   PROVE  dev[c].regs[dev[c].page][(dev[c].want + k) % Size] \in Bytes
        OBVIOUS
      <4>1. dev[c].want + k \in Int
        BY DeviceType DEF Cells, Latch
      <4>2. (dev[c].want + k) % Size \in Cells
        BY <4>1, ModRange DEF Cells
      <4> QED
        BY <4>2, DeviceType
    <3>2. 0 \in Cells
      BY DEF Cells
    <3>3. dev' = [dev EXCEPT ![c] = found]
      BY <2>2 DEF DeviceAnswers
    <3> HIDE DEF block
    <3>4. \A x \in Device, w \in Cells, l \in [Latch -> Bytes] :
             [x EXCEPT !.fetch = FALSE, !.rack = TRUE, !.want = w, !.latch = l] \in Device
      BY DEF Device
    <3>5. dev[c] \in Device
      BY DEF TypeOK
    <3>6. found \in Device
      BY <3>1, <3>2, <3>4, <3>5
    <3> HIDE DEF found
    <3> QED
      BY <3>3, <3>6 DEF TypeOK
  <2> QED
    BY <2>1, <2>2
<1>3. TypeOK'
  BY <1>1, <1>2 DEF TypeOK
<1>4. Bounded' /\ MutexInv'
  BY <1>1 DEF Bounded, MutexInv, InSession
<1>5. PlaceInv'
  BY <1>1, PlaceRests DEF PlaceInv, Rests
<1> QED
  BY <1>3, <1>4, <1>5

\* A stutter keeps the invariant.
LEMMA TypeStutter ==
    ASSUME TypeInv, UNCHANGED vars PROVE TypeInv'
<1>1. UNCHANGED <<lock, pc, phase, req, chunk, delay, got, status, out, ret, clean, start, recv,
                  recvLen, sendLen, part, calls, cs, para, mode, misused, modeLost, sel, dev>>
  BY DEF vars, locals, buffers, setup
<1>2. TypeOK'
  BY <1>1 DEF TypeInv, TypeOK
<1>3. Bounded' /\ MutexInv'
  BY <1>1 DEF TypeInv, Bounded, MutexInv, InSession
<1>4. PlaceInv'
  BY <1>1, PlaceRests DEF TypeInv, PlaceInv, Rests
<1> QED
  BY <1>2, <1>3, <1>4 DEF TypeInv

\* Every step of the program keeps the invariant.
LEMMA TypeNext == TypeInv /\ [Next]_vars => TypeInv'
<1> SUFFICES ASSUME TypeInv, [Next]_vars PROVE TypeInv'
  OBVIOUS
<1>1. ASSUME NEW t \in Threads, Moves(t) PROVE TypeInv'
  <2>1. CASE CsInit(t)
    BY <2>1, TypeCsInit
  <2>2. CASE Call(t)
    BY <2>2, TypeCall
  <2>3. CASE Lock(t)
    BY <2>3, TypeLock
  <2>4. CASE SetFlag(t)
    BY <2>4, TypeSetFlag
  <2>5. CASE Select(t)
    BY <2>5, TypeSelect
  <2>6. CASE Receive(t)
    BY <2>6, TypeReceive
  <2>7. CASE Send(t)
    BY <2>7, TypeSend
  <2>8. CASE Deselect(t)
    BY <2>8, TypeDeselect
  <2>9. CASE Fail(t)
    BY <2>9, TypeFail
  <2>10. CASE PageNext(t)
    BY <2>10, TypePageNext
  <2>11. CASE AddrNext(t)
    BY <2>11, TypeAddrNext
  <2>12. CASE PollNext(t)
    BY <2>12, TypePollNext
  <2>13. CASE DataNext(t)
    BY <2>13, TypeDataNext
  <2>14. CASE Unlock(t)
    BY <2>14, TypeUnlock
  <2>15. CASE Consume(t)
    BY <2>15, TypeConsume
  <2> QED
    BY <1>1, <2>1, <2>2, <2>3, <2>4, <2>5, <2>6, <2>7, <2>8, <2>9, <2>10, <2>11, <2>12, <2>13, <2>14,
       <2>15 DEF Moves, Session
<1>2. ASSUME NEW c \in Chips, DeviceReady(c) \/ DeviceAnswers(c) PROVE TypeInv'
  BY <1>2, TypeDevice
<1>3. CASE UNCHANGED vars
  BY <1>3, TypeStutter
<1> QED
  BY <1>1, <1>2, <1>3 DEF Next, Moves

\* Types; neither a poll of the switch nor the loop over the chunks of device_read
\* and device_write runs past its limit.
THEOREM Typed == Spec => []TypeOK
<1>1. TypeInv => TypeOK
  BY DEF TypeInv
<1> QED
  BY <1>1, TypeInit, TypeNext, PTL DEF Spec

----------------------------------------------------------------------------
(* The bus: BusOwned. *)

Working(t) == pc[t] \in {"transfer", "deselect"}

\* Both callbacks of a chip are there or neither is, and a chip is selected only
\* by the transfer of the holder of spi_lock.
SelectInv == ~misused => \A c \in Chips :
    /\ Consistent(cs[c])
    /\ sel[c] => lock \in Threads /\ Chip(lock) = c /\ Working(lock) /\ cs[c].enable

BusInv == TypeInv /\ SelectInv

\* At first no chip is selected.
LEMMA SelectInit == Init => SelectInv
<1>1. Consistent(Neither)
  BY DEF Consistent, Neither
<1>2. Init => \A c \in Chips : cs[c] = Neither /\ ~sel[c]
  BY DEF Init
<1> QED
  BY <1>1, <1>2 DEF SelectInv

\* A step that selects nothing and stores no callbacks.
LEMMA SelectRests ==
    ASSUME BusInv, cs' = cs, sel' = sel, misused' = misused,
           NEW t \in Threads, Moves(t), ~Working(t),
           lock \in Threads /\ lock # t => lock' = lock
    PROVE  SelectInv'
<1> SUFFICES ASSUME ~misused', NEW c \in Chips
             PROVE  /\ Consistent(cs'[c])
                    /\ sel'[c] => /\ lock' \in Threads /\ Chip(lock)' = c /\ Working(lock)'
                                  /\ cs'[c].enable
  BY DEF SelectInv
<1>1. Consistent(cs[c]) /\ (sel[c] => lock \in Threads /\ Chip(lock) = c /\ Working(lock) /\ cs[c].enable)
  BY DEF BusInv, SelectInv
<1>2. CASE sel[c]
  <2>1. lock \in Threads /\ lock # t
    BY <1>1, <1>2
  <2>2. Rests(lock)
    BY <2>1, OthersRest DEF BusInv
  <2> QED
    BY <1>1, <1>2, <2>1, <2>2 DEF Rests, Chip, Working
<1>3. CASE ~sel[c]
  BY <1>1, <1>3
<1> QED
  BY <1>2, <1>3

\* A cs_init during a session or of half the callbacks counts as a misuse.
LEMMA SelectCsInit ==
    ASSUME BusInv, NEW t \in Threads, CsInit(t) PROVE SelectInv'
<1>1. PICK r \in calls :
         /\ cs' = [cs EXCEPT ![r.chip] = r.cs]
         /\ misused' = (misused \/ ~Consistent(r.cs)
                          \/ \E u \in Threads : InSession(u) /\ Chip(u) = r.chip)
  BY DEF CsInit
<1>2. r.chip \in Chips /\ r.cs \in Callbacks
  BY CallsType DEF BusInv, TypeInv, Request
<1>3. pc[t] = "idle" /\ lock' = lock /\ sel' = sel
  BY DEF CsInit
<1> SUFFICES ASSUME ~misused', NEW c \in Chips
             PROVE  /\ Consistent(cs'[c])
                    /\ sel'[c] => /\ lock' \in Threads /\ Chip(lock)' = c /\ Working(lock)'
                                  /\ cs'[c].enable
  BY DEF SelectInv
<1>4. ~misused /\ Consistent(r.cs) /\ \A u \in Threads : ~(InSession(u) /\ Chip(u) = r.chip)
  BY <1>1
<1>5. Consistent(cs[c]) /\ (sel[c] => lock \in Threads /\ Chip(lock) = c /\ Working(lock) /\ cs[c].enable)
  BY <1>4 DEF BusInv, SelectInv
<1>6. cs'[c] = IF c = r.chip THEN r.cs ELSE cs[c]
  BY <1>1, <1>2 DEF BusInv, TypeInv, TypeOK
<1>7. CASE sel[c]
  <2>1. lock \in Threads /\ lock # t /\ InSession(lock)
    BY <1>3, <1>5, <1>7 DEF Working, InSession
  <2>2. c # r.chip
    BY <1>4, <1>5, <1>7, <2>1
  <2>3. Rests(lock)
    BY <2>1, OthersRest DEF BusInv, Moves
  <2> QED
    BY <1>3, <1>5, <1>6, <1>7, <2>1, <2>2, <2>3 DEF Rests, Chip, Working
<1>8. CASE ~sel[c]
  BY <1>3, <1>4, <1>5, <1>6, <1>8
<1> QED
  BY <1>7, <1>8

\* A select is of the chip of the holder, which has both callbacks or neither.
LEMMA SelectSelect ==
    ASSUME BusInv, NEW t \in Threads, Select(t) PROVE SelectInv'
<1>1. /\ pc[t] = "select" /\ pc'[t] = "transfer" /\ lock' = lock /\ cs' = cs /\ misused' = misused
      /\ sel' = [sel EXCEPT ![Chip(t)] = @ \/ cs[Chip(t)].enable] /\ req' = req
  BY DEF Select, locals, setup, BusInv, TypeInv, TypeOK
<1>2. lock = t /\ Chip(t) \in Chips
  BY <1>1, Holder, ChipType DEF BusInv, TypeInv, InSession
<1> SUFFICES ASSUME ~misused, NEW c \in Chips
             PROVE  /\ Consistent(cs[c])
                    /\ sel'[c] => Chip(t)' = c /\ Working(t)' /\ cs[c].enable
  BY <1>1, <1>2 DEF SelectInv
<1>3. Consistent(cs[c]) /\ ~sel[c]
  BY <1>1, <1>2 DEF BusInv, SelectInv, Working
<1>4. sel'[c] <=> c = Chip(t) /\ cs[c].enable
  BY <1>1, <1>2, <1>3 DEF BusInv, TypeInv, TypeOK
<1> QED
  BY <1>1, <1>3, <1>4 DEF Chip, Working

\* disable is there if enable was, so whatever came of the transfer the chip is
\* released.
LEMMA SelectDeselect ==
    ASSUME BusInv, NEW t \in Threads, Deselect(t) PROVE SelectInv'
<1>1. /\ pc[t] = "deselect" /\ lock' = lock /\ cs' = cs /\ misused' = misused
      /\ sel' = [sel EXCEPT ![Chip(t)] = @ /\ ~cs[Chip(t)].disable]
  BY DEF Deselect, setup
<1>2. lock = t /\ Chip(t) \in Chips
  BY <1>1, Holder, ChipType DEF BusInv, TypeInv, InSession
<1> SUFFICES ASSUME ~misused, NEW c \in Chips
             PROVE  Consistent(cs[c]) /\ ~sel'[c]
  BY <1>1 DEF SelectInv
<1>3. Consistent(cs[c]) /\ (sel[c] => Chip(t) = c /\ cs[c].enable)
  BY <1>2 DEF BusInv, SelectInv
<1>4. c = Chip(t) => (sel'[c] <=> sel[c] /\ ~cs[c].disable)
  BY <1>1, <1>2 DEF BusInv, TypeInv, TypeOK
<1>5. c # Chip(t) => (sel'[c] <=> sel[c])
  BY <1>1, <1>2 DEF BusInv, TypeInv, TypeOK
<1>6. cs[c].enable => cs[c].disable
  BY <1>3 DEF Consistent
<1> QED
  BY <1>3, <1>4, <1>5, <1>6

\* The transfer itself.
LEMMA SelectTransfer ==
    ASSUME BusInv, NEW t \in Threads, Receive(t) \/ Send(t) PROVE SelectInv'
<1>1. /\ pc[t] = "transfer" /\ pc'[t] = "deselect" /\ lock' = lock /\ cs' = cs /\ misused' = misused
      /\ sel' = sel /\ req' = req
  BY DEF Receive, Send, setup, BusInv, TypeInv, TypeOK
<1>2. lock = t
  BY <1>1, Holder DEF BusInv, TypeInv, InSession
<1> QED
  BY <1>1, <1>2 DEF BusInv, SelectInv, Chip, Working

\* Until something is misused only the transfer of the holder selects a chip.
LEMMA SelectNext == BusInv /\ [Next]_vars => SelectInv'
<1> SUFFICES ASSUME BusInv, [Next]_vars PROVE SelectInv'
  OBVIOUS
<1>0. TypeInv
  BY DEF BusInv
<1>1. ASSUME NEW t \in Threads, Moves(t) PROVE SelectInv'
  <2>1. CASE CsInit(t)
    BY <2>1, SelectCsInit
  <2>2. CASE Select(t)
    BY <2>2, SelectSelect
  <2>3. CASE Receive(t) \/ Send(t)
    BY <2>3, SelectTransfer
  <2>4. CASE Deselect(t)
    BY <2>4, SelectDeselect
  <2>5. CASE Call(t) \/ Consume(t)
    <3>1. cs' = cs /\ sel' = sel /\ misused' = misused /\ ~Working(t) /\ lock' = lock
      BY <2>5 DEF Call, Consume, setup, Working
    <3> QED
      BY <1>1, <3>1, SelectRests
  <2>6. CASE Lock(t)
    <3>1. /\ cs' = cs /\ sel' = sel /\ misused' = misused /\ ~Working(t) /\ lock = NoThread
      BY <2>6 DEF Lock, Free, Working
    <3> QED
      BY <1>1, <3>1, SelectRests, ThreadAssumption
  <2>7. CASE Unlock(t)
    <3>1. /\ cs' = cs /\ sel' = sel /\ misused' = misused /\ ~Working(t) /\ InSession(t)
      BY <2>7 DEF Unlock, setup, Working, InSession
    <3>2. lock = t
      BY <1>0, <3>1, Holder
    <3> QED
      BY <1>1, <3>1, <3>2, SelectRests
  <2>8. CASE SetFlag(t)
    <3>1. cs' = cs /\ sel' = sel /\ misused' = misused /\ ~Working(t) /\ lock' = lock
      BY <2>8 DEF SetFlag, Working
    <3> QED
      BY <1>1, <3>1, SelectRests
  <2>9. CASE Fail(t) \/ PageNext(t) \/ AddrNext(t) \/ PollNext(t) \/ DataNext(t)
    <3>1. cs' = cs /\ sel' = sel /\ misused' = misused /\ ~Working(t) /\ lock' = lock
      BY <2>9 DEF Fail, PageNext, AddrNext, PollNext, DataNext, setup, Working
    <3> QED
      BY <1>1, <3>1, SelectRests
  <2> QED
    BY <1>1, <2>1, <2>2, <2>3, <2>4, <2>5, <2>6, <2>7, <2>8, <2>9 DEF Moves, Session
<1>2. ASSUME NEW c \in Chips, DeviceReady(c) \/ DeviceAnswers(c) PROVE SelectInv'
  <2>1. UNCHANGED <<lock, pc, req, cs, sel, misused>>
    BY <1>2 DEF DeviceReady, DeviceAnswers, locals, setup
  <2> QED
    BY <2>1 DEF BusInv, SelectInv, Working, Chip
<1>3. CASE UNCHANGED vars
  <2>1. UNCHANGED <<lock, pc, req, cs, sel, misused>>
    BY <1>3 DEF vars, locals, setup
  <2> QED
    BY <2>1 DEF BusInv, SelectInv, Working, Chip
<1> QED
  BY <1>1, <1>2, <1>3 DEF Next, Moves

\* On every path, the error paths included, the bus and its mode are worked on
\* under spi_lock only, and a chip is selected only during a transfer with it.
THEOREM BusOwnedAlways == Spec => []BusOwned
<1>1. Init => BusInv
  BY TypeInit, SelectInit DEF BusInv
<1>2. BusInv /\ [Next]_vars => BusInv'
  BY TypeNext, SelectNext DEF BusInv
<1>3. BusInv => BusOwned
  <2> SUFFICES ASSUME BusInv PROVE BusOwned
    OBVIOUS
  <2>1. \A t \in Threads : InSession(t) => lock = t
    BY DEF BusInv, TypeInv, MutexInv
  <2>2. ASSUME ~misused, NEW c \in Chips, sel[c]
        PROVE  lock # NoThread /\ Chip(lock) = c /\ pc[lock] \in {"transfer", "deselect"}
    BY <2>2, ThreadAssumption DEF BusInv, SelectInv, Working
  <2> QED
    BY <2>1, <2>2 DEF BusOwned
<1> QED
  BY <1>1, <1>2, <1>3, PTL DEF Spec

----------------------------------------------------------------------------
(* The mode: ModeIsPara. *)

\* Flag g has still to be set when set_para is at flag f.
Ahead(f, g) ==
    \/ f = "bit_order"
    \/ f = "clock_phase" /\ g # "bit_order"
    \/ f = "clock_polarity" /\ g = "clock_polarity"

Setting(c, g) == \E t \in Threads : pc[t] = "set" /\ Chip(t) = c /\ Ahead(phase[t], g)

\* The flags that set_para is done with are as para says.
ModeInv ==
    /\ \A t \in Threads : pc[t] = "set" => para[Chip(t)] = req[t].para
    /\ \A c \in Chips, g \in Flags :
         ~modeLost[c] /\ ~Setting(c, g) /\ Legal(para[c][g]) => mode[c][g] = para[c][g]

\* At first the driver has been told what para says.
LEMMA ModeInit == Init => ModeInv
<1> SUFFICES ASSUME Init PROVE ModeInv
  OBVIOUS
<1>1. \A c \in Chips : mode[c] = NoPara /\ para[c] = NoPara
  BY DEF Init
<1>2. \A t \in Threads : pc[t] # "set"
  BY DEF Init
<1> QED
  BY <1>1, <1>2 DEF ModeInv

\* A step outside set_para.
LEMMA ModeRests ==
    ASSUME TypeInv, ModeInv, para' = para, mode' = mode, modeLost' = modeLost,
           NEW t \in Threads, Moves(t), pc[t] # "set", pc'[t] # "set"
    PROVE  ModeInv'
<1>1. \A u \in Threads : (pc'[u] = "set" <=> pc[u] = "set")
                         /\ (pc[u] = "set" => Chip(u)' = Chip(u) /\ phase'[u] = phase[u] /\ req'[u] = req[u])
  BY OthersRest DEF Rests, Chip
<1>2. \A c \in Chips, g \in Flags : Setting(c, g)' <=> Setting(c, g)
  BY <1>1 DEF Setting
<1>3. \A u \in Threads : pc'[u] = "set" => para'[Chip(u)'] = req'[u].para
  BY <1>1 DEF ModeInv
<1>4. \A c \in Chips, g \in Flags :
         ~modeLost'[c] /\ ~Setting(c, g)' /\ Legal(para'[c][g]) => mode'[c][g] = para'[c][g]
  BY <1>2 DEF ModeInv
<1> QED
  BY <1>3, <1>4 DEF ModeInv

\* A set_para that gets the lock has done no flag yet.
LEMMA ModeLock ==
    ASSUME TypeInv, ModeInv, NEW t \in Threads, Lock(t) PROVE ModeInv'
<1> USE DEF TypeInv
<1> DEFINE c == Chip(t)
<1>0. c \in Chips /\ PlaceAt(t) /\ pc[t] = "lock" /\ lock = NoThread /\ Moves(t)
  BY ChipType DEF PlaceInv, Lock, Free, Moves
<1>1. CASE Kind(t) # "set_para"
  <2>1. para' = para /\ mode' = mode /\ modeLost' = modeLost /\ pc'[t] # "set"
    BY <1>1 DEF Lock, TypeOK
  <2> QED
    BY <1>0, <2>1, ModeRests
<1>2. CASE Kind(t) = "set_para"
  <2>1. /\ pc'[t] = "set" /\ req' = req /\ phase' = phase /\ mode' = mode /\ part' = part
        /\ para' = [para EXCEPT ![c] = req[t].para] /\ modeLost' = [modeLost EXCEPT ![c] = FALSE]
    BY <1>2 DEF Lock, TypeOK
  <2>2. phase'[t] = "bit_order" /\ Chip(t)' = c
    BY <1>0, <1>2, <2>1 DEF PlaceAt, FirstPhase, Kind, Chip
  <2>3. \A u \in Threads \ {t} : pc[u] # "set" /\ pc'[u] # "set"
    <3>1. \A u \in Threads \ {t} : pc[u] # "set"
      BY <1>0, ThreadAssumption DEF MutexInv, InSession
    <3> QED
      BY <1>0, <3>1, OthersRest DEF Rests
  <2>4. para'[c] = req'[t].para
    BY <1>0, <2>1 DEF TypeOK
  <2>5. ASSUME NEW d \in Chips, d = c, NEW g \in Flags PROVE Setting(d, g)'
    <3>1. pc'[t] = "set" /\ Chip(t)' = d /\ Ahead(phase'[t], g)
      BY <2>1, <2>2, <2>5 DEF Ahead
    <3> QED
      BY <3>1 DEF Setting
  <2>6. ASSUME NEW d \in Chips, d # c, NEW g \in Flags, ~modeLost'[d], Legal(para'[d][g])
        PROVE  mode'[d][g] = para'[d][g]
    <3>1. ~Setting(d, g)
      BY <1>0, <2>3 DEF Setting
    <3>2. ~modeLost[d] /\ para'[d] = para[d]
      BY <1>0, <2>1, <2>6 DEF TypeOK
    <3> QED
      BY <2>1, <2>6, <3>1, <3>2 DEF ModeInv
  <2>7. \A u \in Threads : pc'[u] = "set" => para'[Chip(u)'] = req'[u].para
    BY <2>2, <2>3, <2>4
  <2>8. ASSUME NEW d \in Chips, NEW g \in Flags, ~modeLost'[d], ~Setting(d, g)', Legal(para'[d][g])
        PROVE  mode'[d][g] = para'[d][g]
    <3>1. d # c
      BY <2>5, <2>8
    <3> QED
      BY <2>6, <2>8, <3>1
  <2> QED
    BY <2>7, <2>8 DEF ModeInv
<1> QED
  BY <1>1, <1>2

\* A flag is changed to what para says and the flags before it stay.
LEMMA ModeSetFlag ==
    ASSUME TypeInv, ModeInv, NEW t \in Threads, SetFlag(t) PROVE ModeInv'
<1> USE DEF TypeInv
<1> DEFINE c == Chip(t)
           f == phase[t]
           v == req[t].para[f]
<1>0. c \in Chips /\ pc[t] = "set" /\ f \in Flags /\ para[c] = req[t].para /\ Moves(t)
  BY ChipType DEF PlaceInv, PlaceAt, SetFlag, Moves, Session, ModeInv
<1>1. /\ req' = req /\ para' = para
      /\ phase' = [phase EXCEPT ![t] = NextFlag(f)] /\ phase'[t] = NextFlag(f)
      /\ pc'[t] = IF NextFlag(f) = "end" THEN "unlock" ELSE "set"
  BY DEF SetFlag, TypeOK
<1>2. \/ mode' = mode /\ modeLost' = modeLost /\ ~Legal(v)
      \/ \E known, told \in BOOLEAN :
            /\ mode' = IF told THEN [mode EXCEPT ![c] = [Known(c, known) EXCEPT
                                           ![f] = IF Legal(v) THEN v ELSE @]]
                               ELSE mode
            /\ modeLost' = [modeLost EXCEPT ![c] = @ \/ ~known \/ ~told]
  BY DEF SetFlag
<1>3. \A u \in Threads \ {t} : Rests(u)
  BY <1>0, OthersRest
<1>4. \A u \in Threads : pc'[u] = "set" => para'[Chip(u)'] = req'[u].para
  <2>1. \A u \in Threads : pc'[u] = "set" => pc[u] = "set"
    BY <1>0, <1>3 DEF Rests
  <2> QED
    BY <1>1, <2>1 DEF ModeInv, Chip
<1>5. \A d \in Chips, g \in Flags : ~Setting(d, g)' => ~Setting(d, g) \/ (d = c /\ g = f)
  <2> SUFFICES ASSUME NEW d \in Chips, NEW g \in Flags, Setting(d, g), ~(d = c /\ g = f)
               PROVE  Setting(d, g)'
    OBVIOUS
  <2>1. PICK u \in Threads : pc[u] = "set" /\ Chip(u) = d /\ Ahead(phase[u], g)
    BY DEF Setting
  <2>2. CASE u # t
    <3>1. pc'[u] = "set" /\ Chip(u)' = d /\ Ahead(phase'[u], g)
      BY <1>3, <2>1, <2>2 DEF Rests, Chip
    <3> QED
      BY <3>1 DEF Setting
  <2>3. CASE u = t
    <3>1. g # f /\ Ahead(f, g)
      BY <2>1, <2>3
    <3>2. NextFlag(f) # "end" /\ Ahead(NextFlag(f), g)
      BY <1>0, <3>1 DEF Ahead, NextFlag, Flags
    <3>3. pc'[t] = "set" /\ Chip(t)' = d /\ Ahead(phase'[t], g)
      BY <1>1, <2>1, <2>3, <3>2 DEF Chip
    <3> QED
      BY <3>3 DEF Setting
  <2> QED
    BY <2>2, <2>3
<1>6. ASSUME NEW d \in Chips, NEW g \in Flags, ~modeLost'[d], ~Setting(d, g)', Legal(para'[d][g])
      PROVE  mode'[d][g] = para'[d][g]
  <2>1. ~modeLost[d] /\ (~Setting(d, g) => mode[d][g] = para[d][g])
    <3>1. ~modeLost[d]
      <4>1. CASE modeLost' = modeLost
        BY <1>6, <4>1
      <4>2. ASSUME NEW known \in BOOLEAN, NEW told \in BOOLEAN,
                   modeLost' = [modeLost EXCEPT ![c] = @ \/ ~known \/ ~told]
            PROVE  ~modeLost[d]
        <5>1. modeLost \in [Chips -> BOOLEAN]
          BY DEF TypeOK
        <5> QED
          BY <1>6, <4>2, <5>1
      <4> QED
        BY <1>2, <4>1, <4>2
    <3> QED
      BY <1>1, <1>6, <3>1 DEF ModeInv
  <2>2. mode[d] \in [Flags -> Nat] /\ mode \in [Chips -> [Flags -> Nat]]
    BY DEF TypeOK
  <2>3. CASE mode' = mode /\ modeLost' = modeLost /\ ~Legal(v)
    <3>1. ~(d = c /\ g = f)
      BY <1>0, <1>1, <1>6, <2>3
    <3> QED
      BY <1>1, <1>5, <1>6, <2>1, <2>3, <3>1
  <2>4. ASSUME NEW known \in BOOLEAN, NEW told \in BOOLEAN,
               mode' = IF told THEN [mode EXCEPT ![c] = [Known(c, known) EXCEPT
                                              ![f] = IF Legal(v) THEN v ELSE @]]
                                  ELSE mode,
               modeLost' = [modeLost EXCEPT ![c] = @ \/ ~known \/ ~told]
        PROVE  mode'[d][g] = para'[d][g]
    <3>1. CASE d = c
      <4>1. known /\ told
        <5>1. modeLost \in [Chips -> BOOLEAN]
          BY DEF TypeOK
        <5> QED
          BY <1>6, <2>4, <3>1, <5>1
      <4>2. mode'[c] = [mode[c] EXCEPT ![f] = IF Legal(v) THEN v ELSE mode[c][f]]
        BY <1>0, <2>2, <2>4, <4>1 DEF Known
      <4>3. CASE g = f
        BY <1>0, <1>1, <1>6, <2>2, <3>1, <4>2, <4>3
      <4>4. CASE g # f
        <5>1. mode'[c][g] = mode[c][g]
          BY <2>2, <3>1, <4>2, <4>4
        <5> QED
          BY <1>1, <1>5, <1>6, <2>1, <3>1, <4>4, <5>1
      <4> QED
        BY <4>3, <4>4
    <3>2. CASE d # c
      <4>1. mode'[d] = mode[d]
        BY <2>2, <2>4, <3>2
      <4> QED
        BY <1>1, <1>5, <1>6, <2>1, <3>2, <4>1
    <3> QED
      BY <3>1, <3>2
  <2> QED
    BY <1>2, <2>3, <2>4
<1> QED
  BY <1>4, <1>6 DEF ModeInv

\* Every step keeps the driver's mode equal to the flags that have been done.
LEMMA ModeNext == TypeInv /\ ModeInv /\ [Next]_vars => ModeInv'
<1> SUFFICES ASSUME TypeInv, ModeInv, [Next]_vars PROVE ModeInv'
  OBVIOUS
<1>1. ASSUME NEW t \in Threads, Moves(t) PROVE ModeInv'
  <2>1. CASE Lock(t)
    BY <2>1, ModeLock
  <2>2. CASE SetFlag(t)
    BY <2>2, ModeSetFlag
  <2>3. CASE CsInit(t) \/ Call(t) \/ Consume(t) \/ (Session(t) /\ ~SetFlag(t))
    <3>1. para' = para /\ mode' = mode /\ modeLost' = modeLost
      BY <2>3 DEF CsInit, Call, Consume, Session, Select, Receive, Send, Deselect, Fail, PageNext,
                  AddrNext, PollNext, DataNext, Unlock, setup
    <3>2. pc[t] # "set"
      BY <2>3 DEF CsInit, Call, Consume, Session, Select, Receive, Send, Deselect, Fail, PageNext,
                  AddrNext, PollNext, DataNext, Unlock
    <3>3. pc'[t] # "set"
      BY <2>3 DEF CsInit, Call, Consume, Session, Select, Receive, Send, Deselect, Fail, PageNext,
                  AddrNext, PollNext, DataNext, Unlock, Continue, Finish, TypeInv, TypeOK
    <3> QED
      BY <1>1, <3>1, <3>2, <3>3, ModeRests
  <2> QED
    BY <1>1, <2>1, <2>2, <2>3 DEF Moves, Session
<1>2. CASE UNCHANGED vars \/ \E c \in Chips : DeviceReady(c) \/ DeviceAnswers(c)
  <2>1. UNCHANGED <<pc, phase, req, para, mode, modeLost>>
    BY <1>2 DEF vars, DeviceReady, DeviceAnswers, locals, setup
  <2> QED
    BY <2>1 DEF ModeInv, Setting, Chip
<1> QED
  BY <1>1, <1>2 DEF Next, Moves

\* The three settings of a set_para share one byte of the driver: after it, and
\* whatever the other threads call, the driver has been told what para says.
THEOREM ModeFollowsPara == Spec => []ModeIsPara
<1>1. Init => TypeInv /\ ModeInv
  BY TypeInit, ModeInit
<1>2. TypeInv /\ ModeInv /\ [Next]_vars => (TypeInv /\ ModeInv)'
  BY TypeNext, ModeNext
<1>3. ModeInv => ModeIsPara
  BY DEF ModeInv, ModeIsPara, Setting
<1> QED
  BY <1>1, <1>2, <1>3, PTL DEF Spec
=============================================================================
