------------------------- MODULE EosSpiRegsDataProofs -------------------------
(***************************************************************************)
(* Proofs about what the sessions of EosSpiRegs move: a device_read        *)
(* delivers the registers it asked for and a device_write stores its bytes *)
(* in them, for every size of page, chunk and latch and every interleaving *)
(* of the other threads' calls.                                            *)
(***************************************************************************)
EXTENDS EosSpiRegsProofs

\* A transfer has been made and the session has still to look at its result.
Moved(t) == pc[t] \in {"deselect", "next"}
Done(t)  == Moved(t) /\ got[t] >= 0

Base(t) == chunk[t] * ChunkSize(t)

\* The bytes that a read or write counts.  A call that is not inside a session
\* has an empty buffer and no error yet.
CountAt(t) ==
    LET c == Chip(t) IN
    /\ pc[t] \in {"idle", "lock", "done"} => out[t] = NoData
    /\ pc[t] \in {"idle", "lock"} \/ AtTransfer(t) => ret[t] = 0
    /\ InSession(t) /\ Kind(t) = "read" =>
         /\ recvLen[c] <= req[t].len
         /\ \A k \in Cells : k >= recvLen[c] => out[t][k] = Blank
         /\ clean[t] /\ AtTransfer(t) => recvLen[c] = Base(t)
         /\ clean[t] /\ Done(t) /\ phase[t] = "data" => got[t] = ChunkLen(t)
         /\ clean[t] /\ pc[t] = "unlock" /\ ret[t] = 0 => recvLen[c] = req[t].len
    /\ pc[t] = "unlock" /\ Kind(t) = "write" /\ ret[t] = 0 => sendLen[c] = req[t].len

\* Only the switch is ever busy or fetches, and a chip without pages stays on page 0.
ChipAlone(c) ==
    /\ ~Switch(c) => ~dev[c].busy /\ ~dev[c].fetch
    /\ ~misused /\ ~Paged(c) => dev[c].page = 0

\* A chip with an enable function is selected during its transfers.
ListenAt(t) == ~misused /\ pc[t] = "transfer" /\ cs[Chip(t)].enable => sel[Chip(t)]

\* The block that the switch has fetched is the one it was asked for.
Block(t) == [k \in Latch |-> dev[Chip(t)].regs[req[t].page][(req[t].addr + k) % Size]]

\* The chip is where the session has brought it, step by step.
ChipAt(t) ==
    LET c == Chip(t)
        d == dev[Chip(t)]
    IN
    AtTransfer(t) =>
    /\ Stream(c) /\ ~Moved(t) => d.pos = (start[t] + Base(t)) % Size
    /\ Stream(c) /\ Done(t) => d.pos = (start[t] + (Base(t) + ChunkLen(t))) % Size
    /\ Paged(c) /\ (phase[t] \in {"addr", "rack", "data"} \/ (phase[t] = "page" /\ Done(t))) =>
         d.page = req[t].page
    /\ Switch(c) /\ \/ phase[t] = "spif" /\ Moved(t) /\ ~status[t]
                    \/ phase[t] \in {"page", "addr", "rack"}
                    \/ phase[t] = "data" /\ (Kind(t) = "read" \/ ~Moved(t))
         => ~d.busy
    /\ Kind(t) = "read" /\ ((phase[t] = "addr" /\ Done(t)) \/ phase[t] = "rack") =>
         \/ d.fetch /\ d.want = req[t].addr /\ ~d.rack
         \/ ~d.fetch /\ d.rack /\ d.latch = Block(t)
    /\ phase[t] = "rack" /\ Moved(t) /\ status[t] => d.rack
    /\ Switch(c) /\ Kind(t) = "read" /\ phase[t] = "data" => ~d.fetch /\ d.rack /\ d.latch = Block(t)

\* The first n bytes of a write are in the chip, or those of them that no later
\* chunk went over.
Stored(t, n) ==
    \A k \in Cells : k < n /\ (Stream(Chip(t)) \/ k + ChunkSize(t) >= n) => Holds(t, k) = req[t].data[k]

Latched(t, k) == Switch(Chip(t)) => k \in Latch

\* The bytes on their way.
DataAt(t) ==
    LET c == Chip(t) IN
    /\ InSession(t) /\ Kind(t) = "read" =>
         /\ \A k \in Cells : k < recvLen[c] /\ Latched(t, k) => out[t][k] = Holds(t, k)
         /\ Done(t) /\ phase[t] = "data" =>
              \A j \in Slots : j < got[t] /\ Latched(t, Base(t) + j) => recv[c][j] = Holds(t, Base(t) + j)
    /\ InSession(t) /\ Kind(t) = "write" =>
         /\ Stream(c) \/ BetweenChunks(t) => Stored(t, sendLen[c])
         /\ Done(t) /\ phase[t] = "data" => Stored(t, sendLen[c] + ChunkLen(t))

SessionAt(t) == CountAt(t) /\ ListenAt(t) /\ (~misused /\ clean[t] => ChipAt(t) /\ DataAt(t))

ContentInv ==
    /\ TypeInv /\ SelectInv
    /\ \A c \in Chips : ChipAlone(c)
    /\ \A t \in Threads : SessionAt(t)

----------------------------------------------------------------------------
(* The other threads. *)

\* What a thread sees of a session depends on its locals and its chip.
LEMMA ViewSame ==
    ASSUME NEW u \in Threads, Rests(u), part' = part
    PROVE  /\ Chip(u)' = Chip(u) /\ Kind(u)' = Kind(u) /\ ChunkSize(u)' = ChunkSize(u)
           /\ ChunkLen(u)' = ChunkLen(u) /\ Base(u)' = Base(u)
           /\ InSession(u)' = InSession(u) /\ AtTransfer(u)' = AtTransfer(u)
           /\ Moved(u)' = Moved(u) /\ Done(u)' = Done(u) /\ BetweenChunks(u)' = BetweenChunks(u)
           /\ Switch(Chip(u))' = Switch(Chip(u)) /\ Stream(Chip(u))' = Stream(Chip(u))
           /\ Paged(Chip(u))' = Paged(Chip(u)) /\ \A k : Latched(u, k)' = Latched(u, k)
<1>1. /\ Chip(u)' = Chip(u) /\ Kind(u)' = Kind(u) /\ ChunkSize(u)' = ChunkSize(u)
      /\ Switch(Chip(u))' = Switch(Chip(u)) /\ Stream(Chip(u))' = Stream(Chip(u))
      /\ Paged(Chip(u))' = Paged(Chip(u))
  BY DEF Rests, Chip, Kind, ChunkSize, Switch, Stream, Paged
<1>2. ChunkLen(u)' = ChunkLen(u) /\ Base(u)' = Base(u)
  BY <1>1 DEF ChunkLen, Base, Rests
<1>3. /\ InSession(u)' = InSession(u) /\ AtTransfer(u)' = AtTransfer(u)
      /\ Moved(u)' = Moved(u) /\ Done(u)' = Done(u) /\ BetweenChunks(u)' = BetweenChunks(u)
  BY DEF Rests, InSession, AtTransfer, Moved, Done, BetweenChunks
<1>4. \A k : Latched(u, k)' = Latched(u, k)
  BY <1>1 DEF Latched
<1> QED
  BY <1>1, <1>2, <1>3, <1>4

\* The registers behind an access, if the chip keeps them.
LEMMA HoldsSame ==
    ASSUME NEW u \in Threads, Rests(u), part' = part, dev'[Chip(u)].regs = dev[Chip(u)].regs
    PROVE  /\ \A k : Holds(u, k)' = Holds(u, k)
           /\ \A n : Stored(u, n)' = Stored(u, n)
           /\ Block(u)' = Block(u)
<1>1. /\ Chip(u)' = Chip(u) /\ ChunkSize(u)' = ChunkSize(u) /\ Switch(Chip(u))' = Switch(Chip(u))
      /\ Stream(Chip(u))' = Stream(Chip(u)) /\ Paged(Chip(u))' = Paged(Chip(u))
  BY ViewSame
<1>2. \A k : Holds(u, k)' = Holds(u, k)
  BY <1>1 DEF Holds, Rests
<1>3. \A n : Stored(u, n)' = Stored(u, n)
  BY <1>1, <1>2 DEF Stored, Rests
<1>4. Block(u)' = Block(u)
  BY <1>1 DEF Block, Rests
<1> QED
  BY <1>2, <1>3, <1>4

\* A session of which nothing changes.
LEMMA SessionRests ==
    ASSUME NEW u \in Threads, SessionAt(u), Rests(u), part' = part, misused \in BOOLEAN,
           misused => misused', InSession(u),
           dev'[Chip(u)] = dev[Chip(u)], recv'[Chip(u)] = recv[Chip(u)], recvLen' = recvLen,
           sendLen' = sendLen, sel' = sel, ~misused' => cs'[Chip(u)] = cs[Chip(u)]
    PROVE  SessionAt(u)'
<1>1. /\ Chip(u)' = Chip(u) /\ Kind(u)' = Kind(u) /\ ChunkSize(u)' = ChunkSize(u)
      /\ ChunkLen(u)' = ChunkLen(u) /\ Base(u)' = Base(u)
      /\ InSession(u)' = InSession(u) /\ AtTransfer(u)' = AtTransfer(u)
      /\ Moved(u)' = Moved(u) /\ Done(u)' = Done(u) /\ BetweenChunks(u)' = BetweenChunks(u)
      /\ Switch(Chip(u))' = Switch(Chip(u)) /\ Stream(Chip(u))' = Stream(Chip(u))
      /\ Paged(Chip(u))' = Paged(Chip(u)) /\ \A k : Latched(u, k)' = Latched(u, k)
  BY ViewSame
<1>2. /\ \A k : Holds(u, k)' = Holds(u, k)
      /\ \A n : Stored(u, n)' = Stored(u, n)
      /\ Block(u)' = Block(u)
  BY HoldsSame
<1>3. CountAt(u)'
  BY <1>1 DEF SessionAt, CountAt, Rests
<1>4. ListenAt(u)'
  BY <1>1 DEF SessionAt, ListenAt, Rests
<1>5. ASSUME ~misused', clean'[u] PROVE ChipAt(u)' /\ DataAt(u)'
  <2>1. ChipAt(u) /\ DataAt(u)
    BY <1>5 DEF SessionAt, Rests
  <2>2. ChipAt(u)'
    BY <1>1, <1>2, <2>1 DEF ChipAt, Rests
  <2>3. DataAt(u)'
    BY <1>1, <1>2, <2>1 DEF DataAt, Rests
  <2> QED
    BY <2>2, <2>3
<1> QED
  BY <1>3, <1>4, <1>5 DEF SessionAt

\* A thread outside a session.
LEMMA OutsideRests ==
    ASSUME NEW u \in Threads, SessionAt(u), Rests(u), ~InSession(u)
    PROVE  SessionAt(u)'
<1>1. ~InSession(u)' /\ ~AtTransfer(u) /\ ~AtTransfer(u)' /\ pc'[u] = pc[u] /\ pc[u] # "transfer"
      /\ pc[u] # "unlock"
  BY DEF Rests, InSession, AtTransfer
<1>2. CountAt(u)'
  BY <1>1 DEF SessionAt, CountAt, Rests
<1> QED
  BY <1>1, <1>2 DEF SessionAt, ListenAt, ChipAt, DataAt

\* Only the holder of spi_lock moves anything.
LEMMA MovesNothing ==
    ASSUME TypeInv, NEW t \in Threads, CsInit(t) \/ Call(t) \/ Consume(t) \/ Lock(t) \/ SetFlag(t)
    PROVE  dev' = dev /\ recv' = recv /\ sel' = sel
BY DEF CsInit, Call, Consume, Lock, SetFlag, buffers

\* A step of one thread leaves what the session of another thread knows: only
\* one has the lock.
LEMMA OthersSession ==
    ASSUME ContentInv, NEW t \in Threads, Moves(t), NEW u \in Threads, u # t
    PROVE  SessionAt(u)'
<1>1. Rests(u) /\ part' = part /\ SessionAt(u) /\ TypeInv
  BY OthersRest, SetupRests DEF ContentInv, Next, Moves
<1>2. CASE ~InSession(u)
  BY <1>1, <1>2, OutsideRests
<1>3. CASE InSession(u)
  <2>1. lock = u /\ ~InSession(t) /\ lock # NoThread
    BY <1>1, <1>3, Holder, ThreadAssumption
  <2>2. CsInit(t) \/ Call(t) \/ Consume(t)
    <3>1. ~Lock(t) /\ ~Session(t)
      BY <2>1 DEF Lock, Free, Session, SetFlag, Select, Receive, Send, Deselect, Fail, PageNext, AddrNext,
                  PollNext, DataNext, Unlock, InSession
    <3> QED
      BY <3>1 DEF Moves
  <2>3. dev' = dev /\ recv' = recv /\ sel' = sel
    BY <1>1, <2>2, MovesNothing
  <2>4. recvLen' = recvLen /\ sendLen' = sendLen
    BY <2>2 DEF CsInit, Call, Consume, buffers
  <2>5. (misused => misused') /\ (~misused' => cs'[Chip(u)] = cs[Chip(u)])
    <3>1. CASE CsInit(t)
      <4>1. PICK r \in calls :
              /\ cs' = [cs EXCEPT ![r.chip] = r.cs]
              /\ misused' = (misused \/ ~Consistent(r.cs)
                               \/ \E v \in Threads : InSession(v) /\ Chip(v) = r.chip)
        BY <3>1 DEF CsInit
      <4>2. misused => misused'
        BY <4>1
      <4>3. ~misused' => r.chip # Chip(u)
        BY <1>3, <4>1
      <4>4. cs \in [Chips -> Callbacks]
        BY <1>1 DEF TypeInv, TypeOK
      <4>5. Chip(u) \in Chips
        BY <1>1, ChipType DEF TypeInv
      <4> QED
        BY <4>1, <4>2, <4>3, <4>4, <4>5
    <3>2. CASE Call(t) \/ Consume(t)
      BY <3>2 DEF Call, Consume, setup
    <3> QED
      BY <2>2, <3>1, <3>2
  <2>6. misused \in BOOLEAN
    BY <1>1 DEF TypeInv, TypeOK
  <2> QED
    BY <1>1, <1>3, <2>3, <2>4, <2>5, <2>6, SessionRests
<1> QED
  BY <1>2, <1>3

\* While nothing is misused the chip that a session talks to is the only one that
\* listens.
LEMMA OneListener ==
    ASSUME ContentInv, NEW t \in Threads, pc[t] = "transfer", ~misused
    PROVE  Listeners(Chip(t)) = {Chip(t)}
<1>1. TypeInv /\ SelectInv /\ ListenAt(t) /\ InSession(t)
  BY DEF ContentInv, SessionAt, InSession
<1>2. lock = t /\ Chip(t) \in Chips
  BY <1>1, Holder, ChipType DEF TypeInv
<1>3. \A d \in Chips : sel[d] => Chip(t) = d /\ cs[d].enable
  BY <1>1, <1>2 DEF SelectInv
<1>4. cs[Chip(t)].enable => sel[Chip(t)]
  BY <1>1 DEF ListenAt
<1> QED
  BY <1>2, <1>3, <1>4 DEF Listeners

\* What is known of the session of a transfer.
LEMMA SessionFacts ==
    ASSUME ContentInv, NEW t \in Threads, AtTransfer(t)
    PROVE  /\ TypeOK /\ TypeInv /\ PlaceAt(t) /\ SessionAt(t) /\ Chip(t) \in Chips /\ IsAccess(t)
           /\ ChunkSize(t) \in Nat \ {0} /\ (Kind(t) = "read" => ChunkSize(t) <= ReadSize)
           /\ ChunkLen(t) \in 0 .. ChunkSize(t) /\ Base(t) \in Nat /\ Base(t) + ChunkLen(t) <= req[t].len
           /\ req[t].len \in 0 .. Size /\ req[t].addr \in Cells /\ req[t].addr + req[t].len <= Size
           /\ req[t].page \in Pages /\ req[t].data \in [Cells -> Bytes] /\ start[t] \in Cells
           /\ chunk[t] \in Nat /\ Size \in Nat \ {0} /\ lock = t
<1>1. TypeOK /\ TypeInv /\ PlaceAt(t) /\ SessionAt(t) /\ Chip(t) \in Chips /\ InSession(t)
  BY ChipType DEF ContentInv, TypeInv, PlaceInv, InSession, AtTransfer
<1>2. IsAccess(t) /\ (chunk[t] = 0 \/ chunk[t] * ChunkSize(t) < req[t].len)
  BY <1>1 DEF PlaceAt
<1>3. /\ ChunkLen(t) \in 0 .. ChunkSize(t) /\ Base(t) \in Nat /\ Base(t) + ChunkLen(t) <= req[t].len
  BY <1>1, <1>2, ChunkLenRange DEF Base
<1>4. ChunkSize(t) \in Nat \ {0} /\ (Kind(t) = "read" => ChunkSize(t) <= ReadSize)
  BY ChunkSizeType
<1>5. /\ req[t].len \in 0 .. Size /\ req[t].addr \in Cells /\ req[t].page \in Pages
      /\ req[t].data \in [Cells -> Bytes] /\ start[t] \in Cells /\ chunk[t] \in Nat
  BY <1>1 DEF TypeOK, Request
<1>6. req[t].addr + req[t].len <= Size
  BY <1>1 DEF TypeInv, Bounded
<1>7. lock = t
  BY <1>1, Holder
<1>8. Size \in Nat \ {0}
  BY SizeAssumption
<1> QED
  BY <1>1, <1>2, <1>3, <1>4, <1>5, <1>6, <1>7, <1>8

----------------------------------------------------------------------------
(* ChipAlone. *)

\* What a read leaves alone in a chip.
LEMMA HeardKeeps ==
    ASSUME TypeInv, NEW t \in Threads, NEW n \in Nat
    PROVE  LET d == dev[Chip(t)] IN
           /\ Heard(t, n).regs = d.regs /\ Heard(t, n).page = d.page /\ Heard(t, n).busy = d.busy
           /\ phase[t] # "addr" => /\ Heard(t, n).fetch = d.fetch /\ Heard(t, n).rack = d.rack
                                   /\ Heard(t, n).want = d.want /\ Heard(t, n).latch = d.latch
           /\ phase[t] # "data" \/ ~Stream(Chip(t)) => Heard(t, n).pos = d.pos
           /\ phase[t] = "data" /\ Stream(Chip(t)) => Heard(t, n).pos = (d.pos + n) % Size
<1>1. dev[Chip(t)] \in Device
  BY ChipType DEF TypeInv, TypeOK
<1> DEFINE d == dev[Chip(t)]
<1>2. \A a, b : LET x == [d EXCEPT !.rack = FALSE, !.fetch = TRUE, !.want = a, !.latch = b] IN
                x.regs = d.regs /\ x.page = d.page /\ x.busy = d.busy /\ x.pos = d.pos
  BY <1>1 DEF Device
<1>3. \A a : LET x == [d EXCEPT !.pos = a] IN
             /\ x.regs = d.regs /\ x.page = d.page /\ x.busy = d.busy /\ x.fetch = d.fetch
             /\ x.rack = d.rack /\ x.want = d.want /\ x.latch = d.latch /\ x.pos = a
  BY <1>1 DEF Device
<1>4. CASE phase[t] = "addr"
  BY <1>2, <1>4 DEF Heard
<1>5. CASE phase[t] = "data" /\ Stream(Chip(t))
  BY <1>3, <1>5 DEF Heard
<1>6. CASE phase[t] # "addr" /\ ~(phase[t] = "data" /\ Stream(Chip(t)))
  BY <1>6 DEF Heard
<1> QED
  BY <1>4, <1>5, <1>6

\* What a write does to a chip.
LEMMA WrittenParts ==
    ASSUME TypeInv, NEW t \in Threads, NEW d \in Chips, NEW n \in Nat
    PROVE  LET a0 == IF Stream(d) THEN dev[d].pos ELSE req[t].addr
               p  == IF Stream(d) THEN 0 ELSE dev[d].page
           IN
           /\ Written(t, d, n).page = dev[d].page /\ Written(t, d, n).fetch = dev[d].fetch
           /\ Written(t, d, n).busy = (dev[d].busy \/ Switch(d))
           /\ Written(t, d, n).pos = IF Stream(d) THEN (dev[d].pos + n) % Size ELSE dev[d].pos
           /\ Written(t, d, n).regs = [dev[d].regs EXCEPT ![p] =
                 [a \in Cells |-> IF (a - a0) % Size < n
                                  THEN req[t].data[sendLen[Chip(t)] + ((a - a0) % Size)]
                                  ELSE dev[d].regs[p][a]]]
<1> DEFINE a0 == IF Stream(d) THEN dev[d].pos ELSE req[t].addr
           p  == IF Stream(d) THEN 0 ELSE dev[d].page
           cells == [a \in Cells |-> IF (a - a0) % Size < n
                                     THEN req[t].data[sendLen[Chip(t)] + ((a - a0) % Size)]
                                     ELSE dev[d].regs[p][a]]
           pos1 == IF Stream(d) THEN (dev[d].pos + n) % Size ELSE dev[d].pos
           busy1 == dev[d].busy \/ Switch(d)
<1>1. dev[d] \in Device
  BY DEF TypeInv, TypeOK
<1>2. Written(t, d, n) = [dev[d] EXCEPT !.regs = [@ EXCEPT ![p] = cells], !.pos = pos1, !.busy = busy1]
  BY DEF Written
<1> DEFINE regs1 == [dev[d].regs EXCEPT ![p] = cells]
<1>3. Written(t, d, n) = [dev[d] EXCEPT !.regs = regs1, !.pos = pos1, !.busy = busy1]
  BY <1>2
<1> HIDE DEF regs1, pos1, busy1, cells
<1>4. \A x \in Device : \A r, q, b : LET y == [x EXCEPT !.regs = r, !.pos = q, !.busy = b] IN
          y.regs = r /\ y.pos = q /\ y.busy = b /\ y.page = x.page /\ y.fetch = x.fetch
  BY DEF Device
<1>5. /\ Written(t, d, n).page = dev[d].page /\ Written(t, d, n).fetch = dev[d].fetch
      /\ Written(t, d, n).busy = busy1 /\ Written(t, d, n).pos = pos1 /\ Written(t, d, n).regs = regs1
  BY <1>1, <1>3, <1>4
<1> QED
  BY <1>5 DEF regs1, pos1, busy1, cells

\* A receive moves no chip to a state that its part never has.
LEMMA AloneReceive ==
    ASSUME ContentInv, NEW t \in Threads, Receive(t), NEW c \in Chips
    PROVE  ChipAlone(c)'
<1>1. TypeInv /\ ChipAlone(c) /\ Chip(t) \in Chips /\ AtTransfer(t) /\ PlaceAt(t)
  BY SessionFacts DEF ContentInv, Receive, AtTransfer
<1>2. part' = part /\ misused' = misused
  BY DEF Receive, setup
<1>3. dev' = dev \/ \E n \in Nat : dev' = [dev EXCEPT ![Chip(t)] = Heard(t, n)]
  <2>1. Wanted(t) \in Nat
    BY <1>1, WantedRange
  <2>2. \A n \in {-1, Wanted(t)} \cup (IF ShortTransfers THEN 0 .. Wanted(t) ELSE {}) :
            (IF n < 0 THEN Wanted(t) ELSE n) \in Nat
    BY <2>1
  <2>3. PICK n \in {-1, Wanted(t)} \cup (IF ShortTransfers THEN 0 .. Wanted(t) ELSE {}), reached \in BOOLEAN :
            dev' = IF reached THEN [dev EXCEPT ![Chip(t)] = Heard(t, IF n < 0 THEN Wanted(t) ELSE n)]
                              ELSE dev
    BY DEF Receive
  <2> QED
    BY <2>2, <2>3
<1>4. phase[t] = "addr" => Switch(Chip(t))
  BY <1>1 DEF PlaceAt, PhasesOf
<1>5. /\ dev'[c].page = dev[c].page /\ dev'[c].busy = dev[c].busy
      /\ Switch(c) \/ dev'[c].fetch = dev[c].fetch
  <2>1. CASE dev' = dev
    BY <2>1
  <2>2. ASSUME NEW n \in Nat, dev' = [dev EXCEPT ![Chip(t)] = Heard(t, n)]
        PROVE  /\ dev'[c].page = dev[c].page /\ dev'[c].busy = dev[c].busy
               /\ Switch(c) \/ dev'[c].fetch = dev[c].fetch
    <3>1. dev'[c] = IF c = Chip(t) THEN Heard(t, n) ELSE dev[c]
      BY <1>1, <2>2 DEF TypeInv, TypeOK
    <3> QED
      BY <1>1, <1>4, <3>1, HeardKeeps
  <2> QED
    BY <1>3, <2>1, <2>2
<1> QED
  BY <1>1, <1>2, <1>5 DEF ChipAlone, Switch, Paged

\* The phases of a write.
LEMMA SendFacts ==
    ASSUME ContentInv, NEW t \in Threads, Send(t)
    PROVE  /\ AtTransfer(t) /\ pc[t] = "transfer" /\ pc'[t] = "deselect"
           /\ \/ phase[t] = "page" /\ Paged(Chip(t))
              \/ phase[t] = "data" /\ Kind(t) = "write"
<1>1. pc[t] = "transfer" /\ ~Receiving(t) /\ pc'[t] = "deselect"
  BY DEF Send, ContentInv, TypeInv, TypeOK
<1>2. PlaceAt(t) /\ AtTransfer(t) /\ IsAccess(t)
  BY <1>1, SessionFacts DEF AtTransfer
<1> QED
  BY <1>1, <1>2 DEF PlaceAt, PhasesOf, Receiving, IsAccess

\* A send moves no chip to a state that its part never has.
LEMMA AloneSend ==
    ASSUME ContentInv, NEW t \in Threads, Send(t), NEW c \in Chips
    PROVE  ChipAlone(c)'
<1>1. TypeInv /\ ChipAlone(c) /\ Chip(t) \in Chips /\ pc[t] = "transfer" /\ dev[c] \in Device
  BY ChipType DEF ContentInv, Send, TypeInv, TypeOK
<1>2. part' = part /\ misused' = misused
  BY DEF Send, setup
<1>3. phase[t] = "page" => Paged(Chip(t))
  BY SendFacts
<1>8. ChunkLen(t) \in Nat
  BY <1>1, ChunkLenNat DEF TypeInv
<1>9. \A n \in (IF ShortTransfers THEN 0 .. ChunkLen(t) ELSE {ChunkLen(t)}) : n \in Nat
  BY <1>8
<1>4. PICK n \in Nat :
      \/ dev'[c] = dev[c]
      \/ /\ c \in Listeners(Chip(t))
         /\ \/ phase[t] = "page" /\ dev'[c] = [dev[c] EXCEPT !.page = req[t].page]
            \/ dev'[c] = Written(t, c, n)
  BY <1>9 DEF Send
<1>5. CASE dev'[c] = dev[c]
  BY <1>1, <1>2, <1>5 DEF ChipAlone, Switch, Paged
<1>6. CASE c \in Listeners(Chip(t)) /\ phase[t] = "page" /\ dev'[c] = [dev[c] EXCEPT !.page = req[t].page]
  <2>1. ~misused => c = Chip(t)
    BY <1>1, <1>6, OneListener
  <2>2. dev'[c].busy = dev[c].busy /\ dev'[c].fetch = dev[c].fetch
    BY <1>1, <1>6 DEF Device
  <2> QED
    BY <1>1, <1>2, <1>3, <1>6, <2>1, <2>2 DEF ChipAlone, Switch, Paged
<1>7. CASE dev'[c] = Written(t, c, n)
  <2>3. Written(t, c, n).page = dev[c].page /\ Written(t, c, n).fetch = dev[c].fetch
    BY <1>1, <1>4, WrittenParts
  <2>4. Written(t, c, n).busy = (dev[c].busy \/ Switch(c))
    BY <1>1, <1>4, WrittenParts
  <2>1. dev'[c].page = dev[c].page /\ dev'[c].fetch = dev[c].fetch
    BY <1>7, <2>3
  <2>2. ~Switch(c) => ~dev'[c].busy
    BY <1>1, <1>7, <2>4 DEF ChipAlone
  <2> QED
    BY <1>1, <1>2, <2>1, <2>2 DEF ChipAlone, Switch, Paged
<1> QED
  BY <1>4, <1>5, <1>6, <1>7

\* No step moves a chip to a state that its part never has.
LEMMA AloneNext ==
    ASSUME ContentInv, [Next]_vars, NEW c \in Chips
    PROVE  ChipAlone(c)'
<1>0. ChipAlone(c) /\ part' = part /\ TypeInv
  BY SetupRests DEF ContentInv
<1>1. ASSUME NEW t \in Threads, CsInit(t) PROVE ChipAlone(c)'
  <2>1. dev' = dev
    BY <1>1 DEF CsInit
  <2>2. misused => misused'
    BY <1>1 DEF CsInit
  <2> QED
    BY <1>0, <2>1, <2>2 DEF ChipAlone, Switch, Paged
<1>2. ASSUME NEW t \in Threads, Receive(t) PROVE ChipAlone(c)'
  BY <1>2, AloneReceive
<1>3. ASSUME NEW t \in Threads, Send(t) PROVE ChipAlone(c)'
  BY <1>3, AloneSend
<1>4. ASSUME NEW t \in Threads, Moves(t), ~CsInit(t), ~Receive(t), ~Send(t) PROVE ChipAlone(c)'
  <2>1. dev' = dev /\ misused' = misused
    BY <1>4 DEF Moves, Session, Call, Lock, Consume, SetFlag, Select, Deselect, Fail, PageNext, AddrNext,
                PollNext, DataNext, Unlock, setup
  <2> QED
    BY <1>0, <2>1 DEF ChipAlone, Switch, Paged
<1>5. ASSUME NEW d \in Chips, DeviceReady(d) \/ DeviceAnswers(d) PROVE ChipAlone(c)'
  <2>1. misused' = misused /\ dev[d] \in Device /\ (dev[d].busy \/ dev[d].fetch)
    BY <1>0, <1>5 DEF DeviceReady, DeviceAnswers, setup, TypeInv, TypeOK
  <2>2. Switch(d) /\ ChipAlone(d)
    BY <2>1 DEF ContentInv, ChipAlone
  <2>3. c # d => dev'[c] = dev[c]
    BY <1>0, <1>5 DEF DeviceReady, DeviceAnswers, TypeInv, TypeOK
  <2>4. Switch(d)' /\ Paged(d)'
    BY <1>0, <2>2 DEF Switch, Paged
  <2> QED
    BY <1>0, <2>1, <2>2, <2>3, <2>4 DEF ChipAlone, Switch, Paged
<1>6. CASE UNCHANGED vars
  BY <1>0, <1>6 DEF vars, setup, ChipAlone, Switch, Paged
<1> QED
  BY <1>1, <1>2, <1>3, <1>4, <1>5, <1>6 DEF Next, Moves

----------------------------------------------------------------------------
(* The switch ends a write, or answers with the block it was asked for. *)

\* A session on a chip that keeps its registers counts and holds what it did.
LEMMA SessionHolds ==
    ASSUME NEW u \in Threads, SessionAt(u), Rests(u), part' = part, misused' = misused,
           dev'[Chip(u)].regs = dev[Chip(u)].regs, recv' = recv, recvLen' = recvLen,
           sendLen' = sendLen, sel' = sel, cs' = cs,
           AtTransfer(u) /\ ~misused /\ clean[u] => ChipAt(u)'
    PROVE  SessionAt(u)'
<1>1. /\ Chip(u)' = Chip(u) /\ Kind(u)' = Kind(u) /\ ChunkSize(u)' = ChunkSize(u)
      /\ ChunkLen(u)' = ChunkLen(u) /\ Base(u)' = Base(u)
      /\ InSession(u)' = InSession(u) /\ AtTransfer(u)' = AtTransfer(u)
      /\ Moved(u)' = Moved(u) /\ Done(u)' = Done(u) /\ BetweenChunks(u)' = BetweenChunks(u)
      /\ Switch(Chip(u))' = Switch(Chip(u)) /\ Stream(Chip(u))' = Stream(Chip(u))
      /\ Paged(Chip(u))' = Paged(Chip(u)) /\ \A k : Latched(u, k)' = Latched(u, k)
  BY ViewSame
<1>2. /\ \A k : Holds(u, k)' = Holds(u, k)
      /\ \A n : Stored(u, n)' = Stored(u, n)
  BY HoldsSame
<1>3. CountAt(u)'
  BY <1>1 DEF SessionAt, CountAt, Rests
<1>4. ListenAt(u)'
  BY <1>1 DEF SessionAt, ListenAt, Rests
<1>5. ASSUME ~misused', clean'[u] PROVE ChipAt(u)' /\ DataAt(u)'
  <2>1. DataAt(u) /\ ~misused /\ clean[u]
    BY <1>5 DEF SessionAt, Rests
  <2>2. DataAt(u)'
    BY <1>1, <1>2, <2>1 DEF DataAt, Rests
  <2>3. ChipAt(u)'
    BY <1>1, <2>1 DEF ChipAt
  <2> QED
    BY <2>2, <2>3
<1> QED
  BY <1>3, <1>4, <1>5 DEF SessionAt

\* A chip that works on its own spoils nothing that a session relies on.
LEMMA SessionDevice ==
    ASSUME ContentInv, NEW c \in Chips, DeviceReady(c) \/ DeviceAnswers(c), NEW u \in Threads
    PROVE  SessionAt(u)'
<1>1. UNCHANGED <<lock, pc, phase, req, chunk, delay, got, status, out, ret, clean, start, recv, recvLen,
                  sendLen, part, cs, misused, sel>>
  BY DEF DeviceReady, DeviceAnswers, locals, buffers, setup
<1>2. Rests(u) /\ SessionAt(u) /\ TypeInv /\ dev \in [Chips -> Device] /\ dev[c] \in Device
      /\ misused \in BOOLEAN /\ Chip(u) \in Chips
  BY <1>1, ChipType DEF Rests, ContentInv, TypeInv, TypeOK
<1>3. CASE ~InSession(u)
  BY <1>2, <1>3, OutsideRests
<1>4. CASE InSession(u) /\ Chip(u) # c
  <2>1. dev'[Chip(u)] = dev[Chip(u)]
    BY <1>2, <1>4 DEF DeviceReady, DeviceAnswers
  <2> QED
    BY <1>1, <1>2, <1>4, <2>1, SessionRests
<1>5. CASE Chip(u) = c /\ DeviceReady(c)
  <2>1. dev'[c] = [dev[c] EXCEPT !.busy = FALSE]
    BY <1>2, <1>5 DEF DeviceReady
  <2>2. /\ dev'[c].regs = dev[c].regs /\ dev'[c].page = dev[c].page /\ dev'[c].pos = dev[c].pos
        /\ ~dev'[c].busy /\ dev'[c].fetch = dev[c].fetch /\ dev'[c].want = dev[c].want
        /\ dev'[c].rack = dev[c].rack /\ dev'[c].latch = dev[c].latch
    BY <1>2, <2>1 DEF Device
  <2>3. ASSUME AtTransfer(u), ~misused, clean[u] PROVE ChipAt(u)'
    <3>1. ChipAt(u)
      BY <1>2, <2>3 DEF SessionAt
    <3>2. /\ Chip(u)' = Chip(u) /\ Kind(u)' = Kind(u) /\ ChunkLen(u)' = ChunkLen(u) /\ Base(u)' = Base(u)
          /\ AtTransfer(u)' = AtTransfer(u) /\ Moved(u)' = Moved(u) /\ Done(u)' = Done(u)
          /\ Switch(Chip(u))' = Switch(Chip(u)) /\ Stream(Chip(u))' = Stream(Chip(u))
          /\ Paged(Chip(u))' = Paged(Chip(u))
      BY <1>1, <1>2, ViewSame
    <3>3. Block(u)' = Block(u)
      BY <1>1, <1>2, <1>5, <2>2, HoldsSame
    <3> QED
      BY <1>1, <1>5, <2>2, <3>1, <3>2, <3>3 DEF ChipAt
  <2> QED
    BY <1>1, <1>2, <1>5, <2>2, <2>3, SessionHolds
<1>6. CASE Chip(u) = c /\ DeviceAnswers(c)
  <2> DEFINE block == [k \in Latch |-> dev[c].regs[dev[c].page][(dev[c].want + k) % Size]]
  <2>1. dev'[c] = [dev[c] EXCEPT !.fetch = FALSE, !.rack = TRUE, !.want = 0, !.latch = block] /\ dev[c].fetch
    BY <1>2, <1>6 DEF DeviceAnswers
  <2> HIDE DEF block
  <2>2. /\ dev'[c].regs = dev[c].regs /\ dev'[c].page = dev[c].page /\ dev'[c].pos = dev[c].pos
        /\ dev'[c].busy = dev[c].busy /\ ~dev'[c].fetch /\ dev'[c].rack /\ dev'[c].latch = block
    BY <1>2, <2>1 DEF Device
  <2>3. ASSUME AtTransfer(u), ~misused, clean[u] PROVE ChipAt(u)'
    <3>1. ChipAt(u) /\ Switch(Chip(u)) /\ Paged(Chip(u))
      <4>1. ChipAlone(c)
        BY DEF ContentInv
      <4>2. Switch(Chip(u))
        BY <1>6, <2>1, <4>1 DEF ChipAlone
      <4> QED
        BY <1>2, <2>3, <4>2 DEF SessionAt, Switch, Paged
    <3>2. /\ Chip(u)' = Chip(u) /\ Kind(u)' = Kind(u) /\ ChunkLen(u)' = ChunkLen(u) /\ Base(u)' = Base(u)
          /\ AtTransfer(u)' = AtTransfer(u) /\ Moved(u)' = Moved(u) /\ Done(u)' = Done(u)
          /\ Switch(Chip(u))' = Switch(Chip(u)) /\ Stream(Chip(u))' = Stream(Chip(u))
          /\ Paged(Chip(u))' = Paged(Chip(u))
      BY <1>1, <1>2, ViewSame
    <3>3. Block(u)' = Block(u)
      BY <1>1, <1>2, <1>6, <2>2, HoldsSame
    <3>4. /\ phase[u] = "data" => Kind(u) # "read"
          /\ Kind(u) = "read" /\ ((phase[u] = "addr" /\ Done(u)) \/ phase[u] = "rack") => block = Block(u)
      <4>1. dev[c].page = req[u].page /\ dev[c].want = req[u].addr => block = Block(u)
        BY <1>6 DEF block, Block
      <4>2. phase[u] = "data" => Kind(u) # "read"
        BY <1>6, <2>1, <2>3, <3>1 DEF ChipAt
      <4>3. ASSUME Kind(u) = "read", (phase[u] = "addr" /\ Done(u)) \/ phase[u] = "rack"
            PROVE  dev[c].page = req[u].page /\ dev[c].want = req[u].addr
        BY <1>6, <2>1, <2>3, <3>1, <4>3 DEF ChipAt
      <4> QED
        BY <4>1, <4>2, <4>3
    <3> QED
      BY <1>1, <1>6, <2>2, <3>1, <3>2, <3>3, <3>4 DEF ChipAt
  <2> QED
    BY <1>1, <1>2, <1>6, <2>2, <2>3, SessionHolds
<1> QED
  BY <1>3, <1>4, <1>5, <1>6

----------------------------------------------------------------------------
(* The steps of a session, one lemma for each. *)

\* Before and after a session.
LEMMA OutsideSteps ==
    ASSUME ContentInv, NEW t \in Threads, CsInit(t) \/ Call(t) \/ Consume(t) \/ Unlock(t)
    PROVE  SessionAt(t)'
<1>1. TypeOK /\ CountAt(t)
  BY DEF ContentInv, SessionAt, TypeInv
<1>2. pc'[t] \in {"idle", "lock", "done"} /\ out'[t] = NoData
  <2>1. CASE CsInit(t) \/ Call(t) \/ Consume(t)
    <3>1. pc[t] \in {"idle", "done"} /\ out' = out /\ pc'[t] \in {"idle", "lock", "done"}
      BY <1>1, <2>1 DEF CsInit, Call, Consume, TypeOK
    <3> QED
      BY <1>1, <3>1 DEF CountAt
  <2>2. CASE Unlock(t)
    BY <1>1, <2>2 DEF Unlock, TypeOK
  <2> QED
    BY <2>1, <2>2
<1>3. pc'[t] \in {"idle", "lock"} => ret'[t] = 0
  <2>1. CASE CsInit(t) \/ Unlock(t)
    BY <1>1, <2>1 DEF CsInit, Unlock, TypeOK
  <2>2. CASE Call(t)
    BY <1>1, <2>2 DEF Call, CountAt
  <2>3. CASE Consume(t)
    BY <1>1, <2>3 DEF Consume, TypeOK
  <2> QED
    BY <2>1, <2>2, <2>3
<1>4. ~InSession(t)' /\ ~AtTransfer(t)' /\ pc'[t] # "transfer" /\ pc'[t] # "unlock"
  BY <1>2 DEF InSession, AtTransfer
<1> QED
  BY <1>2, <1>3, <1>4 DEF SessionAt, CountAt, ListenAt, ChipAt, DataAt

\* A session starts with nothing counted and nothing relied on.
LEMMA LockStep ==
    ASSUME ContentInv, NEW t \in Threads, Lock(t)
    PROVE  SessionAt(t)'
<1>1. TypeOK /\ CountAt(t) /\ PlaceAt(t) /\ Chip(t) \in Chips /\ dev[Chip(t)] \in Device
  BY ChipType DEF ContentInv, SessionAt, TypeInv, PlaceInv, TypeOK
<1>2. /\ req' = req /\ phase' = phase /\ chunk' = chunk /\ dev' = dev /\ ret' = ret /\ out' = out
      /\ part' = part /\ clean' = clean
  BY DEF Lock
<1>3. /\ phase[t] = FirstPhase(req[t]) /\ chunk[t] = 0 /\ ret[t] = 0 /\ out[t] = NoData
      /\ req[t].len \in 0 .. Size /\ Size \in Nat
  BY <1>1, SizeAssumption DEF Lock, PlaceAt, CountAt, TypeOK, Request
<1>4. /\ pc'[t] = IF Kind(t) = "set_para" THEN "set"
                  ELSE IF phase[t] = "data" /\ req[t].len = 0 THEN "unlock" ELSE "select"
      /\ Kind(t) = "read" => recvLen'[Chip(t)] = 0
      /\ Kind(t) = "write" => sendLen'[Chip(t)] = 0
      /\ IsAccess(t) => start'[t] = dev[Chip(t)].pos
  BY <1>1 DEF Lock, TypeOK
<1>5. Chip(t)' = Chip(t) /\ Kind(t)' = Kind(t) /\ Base(t)' = 0 /\ Base(t) = 0
  <2>1. ChunkSize(t)' = ChunkSize(t)
    BY <1>2 DEF ChunkSize, Kind, Switch, Chip
  <2>2. \A s \in Nat : 0 * s = 0
    OBVIOUS
  <2> QED
    BY <1>2, <1>3, <2>1, <2>2, ChunkSizeType DEF Chip, Kind, Base
<1>6. CountAt(t)'
  <2>1. out'[t] = NoData /\ ret'[t] = 0 /\ \A k \in Cells : NoData[k] = Blank
    BY <1>2, <1>3 DEF NoData
  <2>2. pc'[t] \notin {"idle", "lock", "done"} /\ ~Moved(t)'
    BY <1>4 DEF Moved
  <2>3. pc'[t] = "unlock" => req[t].len = 0
    BY <1>4
  <2> QED
    BY <1>2, <1>3, <1>4, <1>5, <2>1, <2>2, <2>3 DEF CountAt, Done, AtTransfer
<1>7. ListenAt(t)'
  BY <1>4 DEF ListenAt
<1>8. ChipAt(t)'
  <2> SUFFICES ASSUME AtTransfer(t)' PROVE ChipAt(t)'
    BY DEF ChipAt
  <2>1. pc'[t] = "select" /\ Kind(t) # "set_para" /\ ~Moved(t)' /\ ~Done(t)'
    BY <1>4 DEF AtTransfer, Moved, Done
  <2>2. IsAccess(t)
    BY <1>1, <2>1 DEF PlaceAt, IsAccess, Kind, TypeOK, Request, Lock
  <2>3. phase'[t] = IF Switch(Chip(t)) THEN "spif" ELSE IF Paged(Chip(t)) THEN "page" ELSE "data"
    BY <1>2, <1>3, <2>1 DEF FirstPhase, Kind, Chip
  <2>4. Switch(Chip(t)) => Paged(Chip(t))
    BY DEF Switch, Paged
  <2>5. dev'[Chip(t)].pos = (start'[t] + Base(t)') % Size
    <3>1. dev[Chip(t)].pos \in 0 .. Size - 1
      BY <1>1, DeviceType DEF Cells
    <3>2. dev[Chip(t)].pos + 0 = dev[Chip(t)].pos
      BY <3>1
    <3>3. dev[Chip(t)].pos % Size = dev[Chip(t)].pos
      BY <3>1, SmallMod, SizeAssumption
    <3>4. dev'[Chip(t)].pos = dev[Chip(t)].pos /\ start'[t] + Base(t)' = dev[Chip(t)].pos
      BY <1>2, <1>4, <1>5, <2>2, <3>2
    <3> QED
      BY <3>3, <3>4
  <2>6. Switch(Chip(t))' = Switch(Chip(t)) /\ Paged(Chip(t))' = Paged(Chip(t))
    BY <1>2 DEF Switch, Paged, Chip
  <2> QED
    BY <1>5, <2>1, <2>3, <2>4, <2>5, <2>6 DEF ChipAt
<1>9. DataAt(t)'
  <2>1. ~Done(t)' /\ (pc'[t] = "unlock" => IsAccess(t))
    <3>1. pc'[t] = "unlock" => Kind(t) # "set_para"
      BY <1>4
    <3> QED
      BY <1>1, <1>4, <3>1 DEF Done, Moved, IsAccess, PlaceAt, Kind, TypeOK, Request, Lock
  <2>2. \A k \in Cells : ~(k < 0)
    BY DEF Cells
  <2> QED
    BY <1>4, <1>5, <2>1, <2>2 DEF DataAt, Stored
<1> QED
  BY <1>6, <1>7, <1>8, <1>9 DEF SessionAt

\* A flag of set_para touches no register, buffer or count.
LEMMA SetFlagStep ==
    ASSUME ContentInv, NEW t \in Threads, SetFlag(t)
    PROVE  SessionAt(t)'
<1>1. Kind(t) = "set_para" /\ TypeOK
  BY DEF ContentInv, TypeInv, PlaceInv, PlaceAt, SetFlag
<1>2. Kind(t)' = "set_para" /\ pc'[t] \in {"set", "unlock"}
  BY <1>1 DEF SetFlag, Kind, TypeOK
<1>3. ~AtTransfer(t)' /\ Kind(t)' # "read" /\ Kind(t)' # "write"
  BY <1>2 DEF AtTransfer
<1>4. CountAt(t)'
  BY <1>2, <1>3 DEF CountAt
<1>5. ListenAt(t)' /\ ChipAt(t)' /\ DataAt(t)'
  BY <1>2, <1>3 DEF ListenAt, ChipAt, DataAt
<1> QED
  BY <1>4, <1>5 DEF SessionAt

\* A step that leaves the place in the session, the lengths and the chip alone.
LEMMA SameSession ==
    ASSUME NEW t \in Threads, SessionAt(t), AtTransfer(t), AtTransfer(t)', part' = part, req' = req,
           chunk' = chunk, dev' = dev, ret' = ret, out' = out, clean' = clean, start' = start,
           phase' = phase, got' = got, status' = status, recvLen' = recvLen, sendLen' = sendLen,
           misused' = misused, Moved(t)' = Moved(t), Moved(t) => recv' = recv, ListenAt(t)'
    PROVE  SessionAt(t)'
<1>1. /\ Chip(t)' = Chip(t) /\ Kind(t)' = Kind(t) /\ ChunkSize(t)' = ChunkSize(t)
      /\ Switch(Chip(t))' = Switch(Chip(t)) /\ Stream(Chip(t))' = Stream(Chip(t))
      /\ Paged(Chip(t))' = Paged(Chip(t))
  BY DEF Chip, Kind, ChunkSize, Switch, Stream, Paged
<1>2. /\ ChunkLen(t)' = ChunkLen(t) /\ Base(t)' = Base(t) /\ Done(t)' = Done(t)
      /\ \A k : Latched(t, k)' = Latched(t, k)
  BY <1>1 DEF ChunkLen, Base, Done, Latched
<1>3. /\ \A k : Holds(t, k)' = Holds(t, k)
      /\ \A n : Stored(t, n)' = Stored(t, n)
      /\ Block(t)' = Block(t)
  <2>1. \A k : Holds(t, k)' = Holds(t, k)
    BY <1>1 DEF Holds
  <2> QED
    BY <1>1, <2>1 DEF Stored, Block
<1>4. InSession(t) /\ InSession(t)' /\ BetweenChunks(t)' = BetweenChunks(t)
  BY DEF InSession, AtTransfer, BetweenChunks, Moved
<1>5. CountAt(t)'
  <2>1. pc[t] # "unlock" /\ pc'[t] \notin {"unlock", "idle", "lock", "done"}
    BY DEF AtTransfer
  <2> QED
    BY <1>1, <1>2, <1>4, <2>1 DEF SessionAt, CountAt
<1>6. ASSUME ~misused', clean'[t] PROVE ChipAt(t)' /\ DataAt(t)'
  <2>1. ChipAt(t) /\ DataAt(t)
    BY <1>6 DEF SessionAt
  <2>2. ChipAt(t)'
    BY <1>1, <1>2, <1>3, <2>1 DEF ChipAt
  <2>3. Done(t)' => recv' = recv
    BY DEF Done
  <2>4. DataAt(t)'
    BY <1>1, <1>2, <1>3, <1>4, <2>1, <2>3 DEF DataAt
  <2> QED
    BY <2>2, <2>4
<1> QED
  BY <1>5, <1>6 DEF SessionAt

\* A chip that is selected is the only one that listens.
LEMMA SelectStep ==
    ASSUME ContentInv, NEW t \in Threads, Select(t)
    PROVE  SessionAt(t)'
<1>1. TypeOK /\ SessionAt(t) /\ Chip(t) \in Chips
  BY ChipType DEF ContentInv, TypeInv
<1>2. /\ pc[t] = "select" /\ pc'[t] = "transfer" /\ sel' = [sel EXCEPT ![Chip(t)] = @ \/ cs[Chip(t)].enable]
      /\ UNCHANGED <<phase, req, chunk, got, status, out, ret, clean, start, recvLen, sendLen, part, cs,
                     misused, dev>>
  BY <1>1 DEF Select, locals, setup, TypeOK
<1>3. AtTransfer(t) /\ AtTransfer(t)' /\ ~Moved(t) /\ Moved(t)' = Moved(t)
  BY <1>2 DEF AtTransfer, Moved
<1>4. ListenAt(t)'
  BY <1>1, <1>2 DEF ListenAt, Chip, TypeOK
<1> QED
  BY <1>1, <1>2, <1>3, <1>4, SameSession

\* A transfer that ends leaves the chip where the next one expects it.
LEMMA DeselectStep ==
    ASSUME ContentInv, NEW t \in Threads, Deselect(t)
    PROVE  SessionAt(t)'
<1>1. TypeOK /\ SessionAt(t)
  BY DEF ContentInv, TypeInv
<1>2. /\ pc[t] = "deselect" /\ pc'[t] = "next"
      /\ UNCHANGED <<phase, req, chunk, got, status, out, ret, clean, start, recv, recvLen, sendLen, part,
                     misused, dev>>
  BY <1>1 DEF Deselect, locals, buffers, setup, TypeOK
<1>3. AtTransfer(t) /\ AtTransfer(t)' /\ Moved(t)' = Moved(t) /\ recv' = recv /\ ListenAt(t)'
  BY <1>2 DEF AtTransfer, Moved, ListenAt
<1> QED
  BY <1>1, <1>2, <1>3, SameSession

\* A step that moves no data, to the next transfer or out of the session.
LEMMA QuietStep ==
    ASSUME NEW t \in Threads, SessionAt(t), PlaceAt(t), AtTransfer(t), pc'[t] \in {"select", "unlock"},
           part' = part, req' = req, chunk' = chunk, dev' = dev, out' = out, clean' = clean,
           start' = start, recvLen' = recvLen, sendLen' = sendLen, misused' = misused,
           recvLen[Chip(t)] \in Nat, req[t].len \in Nat,
           pc'[t] = "select" => ret'[t] = ret[t],
           BetweenChunks(t)' => chunk[t] = 0,
           pc'[t] = "unlock" /\ ret'[t] = 0 => req[t].len = 0,
           ~misused /\ clean[t] => ChipAt(t)'
    PROVE  SessionAt(t)'
<1>1. /\ Chip(t)' = Chip(t) /\ Kind(t)' = Kind(t) /\ ChunkSize(t)' = ChunkSize(t)
      /\ Switch(Chip(t))' = Switch(Chip(t)) /\ Stream(Chip(t))' = Stream(Chip(t))
      /\ Paged(Chip(t))' = Paged(Chip(t))
  BY DEF Chip, Kind, ChunkSize, Switch, Stream, Paged
<1>2. Base(t)' = Base(t) /\ \A k : Latched(t, k)' = Latched(t, k)
  BY <1>1 DEF Base, Latched
<1>3. \A k : Holds(t, k)' = Holds(t, k)
  BY <1>1 DEF Holds
<1>4. \A n : Stored(t, n)' = Stored(t, n)
  BY <1>1, <1>3 DEF Stored
<1>5. InSession(t) /\ InSession(t)' /\ ~Moved(t)' /\ ~Done(t)' /\ pc[t] # "unlock"
  BY DEF InSession, AtTransfer, Moved, Done
<1>6. Kind(t) = "write" /\ BetweenChunks(t)' => sendLen[Chip(t)] = 0
  <2>1. \A s \in Nat : 0 * s = 0
    OBVIOUS
  <2> QED
    BY <2>1, ChunkSizeType DEF PlaceAt
<1>7. CountAt(t)'
  <2>1. pc'[t] = "unlock" /\ ret'[t] = 0 => BetweenChunks(t)'
    BY DEF BetweenChunks
  <2>2. pc'[t] \notin {"idle", "lock", "done"} /\ (AtTransfer(t)' => pc'[t] = "select")
    BY DEF AtTransfer
  <2>3. CountAt(t)
    BY DEF SessionAt
  <2>4. AtTransfer(t)' => ret'[t] = 0
    BY <2>2, <2>3 DEF CountAt
  <2>5. ASSUME Kind(t) = "read"
        PROVE  /\ recvLen[Chip(t)] <= req[t].len
               /\ \A k \in Cells : k >= recvLen[Chip(t)] => out[t][k] = Blank
               /\ clean[t] => recvLen[Chip(t)] = Base(t)
    BY <1>5, <2>3, <2>5 DEF CountAt
  <2>6. Kind(t) = "read" /\ req[t].len = 0 => recvLen[Chip(t)] = req[t].len
    BY <2>5
  <2> QED
    BY <1>1, <1>2, <1>5, <1>6, <2>1, <2>2, <2>4, <2>5, <2>6 DEF CountAt
<1>8. ListenAt(t)'
  BY DEF ListenAt
<1>9. ASSUME ~misused', clean'[t] PROVE DataAt(t)'
  <2>1. DataAt(t)
    BY <1>9 DEF SessionAt
  <2>2. Kind(t) = "write" /\ BetweenChunks(t)' => Stored(t, sendLen[Chip(t)])
    <3>1. \A k \in Cells : ~(k < 0)
      BY DEF Cells
    <3> QED
      BY <1>6, <3>1 DEF Stored
  <2> QED
    BY <1>1, <1>2, <1>3, <1>4, <1>5, <2>1, <2>2 DEF DataAt
<1> QED
  BY <1>7, <1>8, <1>9 DEF SessionAt

\* After a failed transfer a session claims no more than what was counted
\* before.
LEMMA FailStep ==
    ASSUME ContentInv, NEW t \in Threads, Fail(t)
    PROVE  SessionAt(t)'
<1>1. AtTransfer(t)
  BY DEF Fail, AtTransfer
<1>2. TypeOK /\ SessionAt(t) /\ PlaceAt(t) /\ Chip(t) \in Chips /\ req[t].len \in Nat
  BY <1>1, SessionFacts
<1>3. /\ pc'[t] = "unlock" /\ ret'[t] = -1
      /\ UNCHANGED <<req, chunk, out, clean, start, recvLen, sendLen, part, misused, dev>>
  BY <1>2 DEF Fail, Finish, buffers, setup, TypeOK
<1>4. ~BetweenChunks(t)' /\ ChipAt(t)' /\ ret'[t] # 0
  BY <1>3 DEF BetweenChunks, ChipAt, AtTransfer
<1>5. recvLen[Chip(t)] \in Nat
  BY <1>2, SizeAssumption DEF TypeOK
<1> QED
  BY <1>1, <1>2, <1>3, <1>4, <1>5, QuietStep

\* After a transfer that moved no data the session is at its first chunk.
LEMMA QuietFacts ==
    ASSUME ContentInv, NEW t \in Threads, pc[t] = "next", phase[t] # "data"
    PROVE  /\ TypeOK /\ SessionAt(t) /\ PlaceAt(t) /\ AtTransfer(t) /\ Moved(t) /\ Chip(t) \in Chips
           /\ recvLen[Chip(t)] \in Nat /\ req[t].len \in Nat /\ req[t].addr \in Cells
           /\ chunk[t] = 0 /\ Base(t) = 0 /\ phase[t] \in PhasesOf(t) /\ IsAccess(t)
<1>1. AtTransfer(t) /\ Moved(t)
  BY DEF AtTransfer, Moved
<1>2. TypeOK /\ SessionAt(t) /\ PlaceAt(t) /\ Chip(t) \in Chips /\ req[t].len \in Nat /\ req[t].addr \in Cells
      /\ IsAccess(t)
  BY <1>1, SessionFacts
<1>3. recvLen[Chip(t)] \in Nat
  BY <1>2, SizeAssumption DEF TypeOK
<1>4. chunk[t] = 0 /\ phase[t] \in PhasesOf(t)
  BY <1>1, <1>2 DEF PlaceAt
<1>5. Base(t) = 0
  <2>1. \A s \in Nat : 0 * s = 0
    OBVIOUS
  <2> QED
    BY <1>4, <2>1, ChunkSizeType DEF Base
<1> QED
  BY <1>1, <1>2, <1>3, <1>4, <1>5

\* After the page has been sent the chip stands on the page of the call.
LEMMA PageNextStep ==
    ASSUME ContentInv, NEW t \in Threads, PageNext(t)
    PROVE  SessionAt(t)'
<1>1. pc[t] = "next" /\ phase[t] = "page" /\ got[t] >= 0
  BY DEF PageNext
<1>2. /\ TypeOK /\ SessionAt(t) /\ PlaceAt(t) /\ AtTransfer(t) /\ Moved(t) /\ Chip(t) \in Chips
      /\ recvLen[Chip(t)] \in Nat /\ req[t].len \in Nat
      /\ chunk[t] = 0 /\ Base(t) = 0 /\ phase[t] \in PhasesOf(t) /\ IsAccess(t)
  BY <1>1, QuietFacts
<1>3. UNCHANGED <<req, chunk, got, status, out, ret, clean, start, recvLen, sendLen, part, misused, dev>>
  BY DEF PageNext, buffers, setup
<1>4. \/ /\ Switch(Chip(t)) /\ Kind(t) = "read"
         /\ pc'[t] = "select" /\ phase'[t] = "addr"
      \/ ~Switch(Chip(t)) /\ req[t].len = 0 /\ pc'[t] = "unlock"
      \/ /\ Switch(Chip(t)) => Kind(t) # "read"
         /\ pc'[t] = "select" /\ phase'[t] = "data"
  BY <1>2 DEF PageNext, Continue, Finish, TypeOK
<1>5. Paged(Chip(t)) /\ ~Stream(Chip(t)) /\ Done(t)
  BY <1>1, <1>2 DEF PhasesOf, Paged, Stream, Done
<1>6. ASSUME ~misused, clean[t] PROVE ChipAt(t)'
  <2>1. ChipAt(t)
    BY <1>2, <1>6 DEF SessionAt
  <2>2. dev[Chip(t)].page = req[t].page /\ (Switch(Chip(t)) => ~dev[Chip(t)].busy)
    BY <1>1, <1>2, <1>5, <2>1 DEF ChipAt
  <2>3. ~Stream(Chip(t))' /\ Switch(Chip(t))' = Switch(Chip(t)) /\ Chip(t)' = Chip(t) /\ Kind(t)' = Kind(t)
    BY <1>3, <1>5 DEF Stream, Switch, Chip, Kind
  <2>4. AtTransfer(t)' => pc'[t] = "select" /\ phase'[t] \in {"addr", "data"} /\ ~Moved(t)' /\ ~Done(t)'
    BY <1>4 DEF AtTransfer, Moved, Done
  <2>5. phase'[t] = "data" /\ Switch(Chip(t)) => Kind(t) # "read" \/ ~AtTransfer(t)'
    BY <1>4 DEF AtTransfer
  <2> QED
    BY <1>3, <2>2, <2>3, <2>4, <2>5 DEF ChipAt
<1>7. pc'[t] \in {"select", "unlock"} /\ (pc'[t] = "unlock" => req[t].len = 0)
  BY <1>4
<1> QED
  BY <1>2, <1>3, <1>6, <1>7, QuietStep

\* After the address has been sent the switch is fetching the block of the call.
LEMMA AddrNextStep ==
    ASSUME ContentInv, NEW t \in Threads, AddrNext(t)
    PROVE  SessionAt(t)'
<1>1. pc[t] = "next" /\ phase[t] = "addr" /\ got[t] >= 0
  BY DEF AddrNext
<1>2. /\ TypeOK /\ SessionAt(t) /\ PlaceAt(t) /\ AtTransfer(t) /\ Moved(t) /\ Chip(t) \in Chips
      /\ recvLen[Chip(t)] \in Nat /\ req[t].len \in Nat
      /\ chunk[t] = 0 /\ Base(t) = 0 /\ phase[t] \in PhasesOf(t) /\ IsAccess(t)
  BY <1>1, QuietFacts
<1>3. UNCHANGED <<req, chunk, got, status, out, ret, clean, start, recvLen, sendLen, part, misused, dev>>
  BY DEF AddrNext, buffers, setup
<1>4. pc'[t] = "select" /\ phase'[t] = "rack"
  BY <1>2 DEF AddrNext, Continue, TypeOK
<1>5. Switch(Chip(t)) /\ Kind(t) = "read" /\ Paged(Chip(t)) /\ ~Stream(Chip(t)) /\ Done(t)
  BY <1>1, <1>2 DEF PhasesOf, Paged, Switch, Stream, Done
<1>6. ASSUME ~misused, clean[t] PROVE ChipAt(t)'
  <2>1. ChipAt(t)
    BY <1>2, <1>6 DEF SessionAt
  <2>2. /\ dev[Chip(t)].page = req[t].page /\ ~dev[Chip(t)].busy
        /\ \/ dev[Chip(t)].fetch /\ dev[Chip(t)].want = req[t].addr /\ ~dev[Chip(t)].rack
           \/ ~dev[Chip(t)].fetch /\ dev[Chip(t)].rack /\ dev[Chip(t)].latch = Block(t)
    BY <1>1, <1>2, <1>5, <2>1 DEF ChipAt
  <2>3. /\ ~Stream(Chip(t))' /\ Chip(t)' = Chip(t) /\ Kind(t)' = Kind(t) /\ ~Moved(t)' /\ ~Done(t)'
        /\ Block(t)' = Block(t)
    BY <1>3, <1>4, <1>5 DEF Stream, Chip, Kind, Moved, Done, Block
  <2> QED
    BY <1>3, <1>4, <2>2, <2>3 DEF ChipAt
<1> QED
  BY <1>2, <1>3, <1>4, <1>6, QuietStep

\* A poll that is over has seen SPIF low, or the acknowledge of the block.
LEMMA PollNextStep ==
    ASSUME ContentInv, NEW t \in Threads, PollNext(t)
    PROVE  SessionAt(t)'
<1>1. pc[t] = "next" /\ phase[t] \in {"spif", "rack"}
  BY DEF PollNext, Polling
<1>2. /\ TypeOK /\ SessionAt(t) /\ PlaceAt(t) /\ AtTransfer(t) /\ Moved(t) /\ Chip(t) \in Chips
      /\ recvLen[Chip(t)] \in Nat /\ req[t].len \in Nat
      /\ chunk[t] = 0 /\ Base(t) = 0 /\ phase[t] \in PhasesOf(t) /\ IsAccess(t)
  BY <1>1, QuietFacts
<1>3. UNCHANGED <<req, chunk, got, status, out, clean, start, recvLen, sendLen, part, misused, dev>>
  BY DEF PollNext, buffers, setup
<1>4. \/ /\ pc'[t] = "select" /\ ret'[t] = ret[t]
         /\ \/ phase[t] = "spif" /\ ~status[t] /\ phase'[t] = "page"
            \/ phase[t] = "rack" /\ status[t] /\ phase'[t] = "data"
            \/ phase'[t] = phase[t]
      \/ pc'[t] = "unlock" /\ ret'[t] = -1
  <2>1. CASE PollOver(t)
    BY <1>1, <1>2, <2>1 DEF PollNext, PollOver, Continue, TypeOK
  <2>2. CASE ~PollOver(t)
    <3>1. \/ ret' = [ret EXCEPT ![t] = -1] /\ Finish(t)
          \/ ret' = ret /\ Continue(t, phase[t])
      BY <2>2 DEF PollNext
    <3> QED
      BY <1>2, <3>1 DEF Continue, Finish, TypeOK
  <2> QED
    BY <2>1, <2>2
<1>5. /\ Switch(Chip(t)) /\ Paged(Chip(t)) /\ ~Stream(Chip(t))
      /\ phase[t] = "rack" => Kind(t) = "read"
  BY <1>1, <1>2 DEF PhasesOf, Paged, Switch, Stream
<1>6. ASSUME ~misused, clean[t] PROVE ChipAt(t)'
  <2>1. ChipAt(t)
    BY <1>2, <1>6 DEF SessionAt
  <2>2. /\ phase[t] = "spif" /\ ~status[t] => ~dev[Chip(t)].busy
        /\ phase[t] = "rack" =>
             /\ dev[Chip(t)].page = req[t].page /\ ~dev[Chip(t)].busy
             /\ \/ dev[Chip(t)].fetch /\ dev[Chip(t)].want = req[t].addr /\ ~dev[Chip(t)].rack
                \/ ~dev[Chip(t)].fetch /\ dev[Chip(t)].rack /\ dev[Chip(t)].latch = Block(t)
             /\ status[t] => dev[Chip(t)].rack
    BY <1>1, <1>2, <1>5, <2>1 DEF ChipAt
  <2>3. /\ ~Stream(Chip(t))' /\ Chip(t)' = Chip(t) /\ Kind(t)' = Kind(t) /\ Block(t)' = Block(t)
    BY <1>3, <1>5 DEF Stream, Chip, Kind, Block
  <2>4. AtTransfer(t)' => pc'[t] = "select" /\ ~Moved(t)' /\ ~Done(t)'
    BY <1>4 DEF AtTransfer, Moved, Done
  <2> QED
    BY <1>1, <1>3, <1>4, <2>2, <2>3, <2>4 DEF ChipAt
<1>7. /\ pc'[t] \in {"select", "unlock"} /\ (pc'[t] = "unlock" => ret'[t] # 0)
      /\ pc'[t] = "select" => ret'[t] = ret[t]
  BY <1>4
<1> QED
  BY <1>2, <1>3, <1>6, <1>7, QuietStep

\* The last chunk ends where the access ends.
LEMMA LastChunk ==
    ASSUME TypeOK, NEW t \in Threads, chunk[t] = 0 \/ chunk[t] * ChunkSize(t) < req[t].len, ~MoreChunks(t)
    PROVE  Base(t) + ChunkLen(t) = req[t].len
<1> DEFINE n == req[t].len
           s == ChunkSize(t)
           i == chunk[t]
           l == ChunkLen(t)
<1>1. n \in Nat /\ s \in Nat \ {0} /\ i \in Nat
  BY SizeAssumption, ChunkSizeType DEF TypeOK, Request, Cells
<1>2. l = IF i < n \div s THEN s ELSE n % s
  BY DEF ChunkLen
<1>3. i = 0 \/ i * s < n
  OBVIOUS
<1>4. ~((i + 1) * s < n)
  BY DEF MoreChunks
<1>5. l \in 0 .. s /\ i * s + l <= n
  BY ChunkLenRange
<1> HIDE DEF n, s, i, l
<1>6. (i + 1) * s = i * s + s /\ i * s \in Nat
  BY <1>1, Distribute
<1>7. CASE i * s < n
  <2>1. /\ i < n \div s => (i + 1) * s <= n
        /\ ~(i < n \div s) => i * s + (n % s) = n
    BY <1>1, <1>7, ChunkInside
  <2>2. CASE i < n \div s
    <3>1. i * s + l = n
      BY <1>1, <1>2, <1>4, <1>6, <2>1, <2>2
    <3> QED
      BY <3>1 DEF Base, n, s, i, l
  <2>3. CASE ~(i < n \div s)
    BY <1>2, <2>1, <2>3 DEF Base, n, s, i, l
  <2> QED
    BY <2>2, <2>3
<1>8. CASE i = 0 /\ ~(i * s < n)
  <2>1. i * s + l = n
    BY <1>1, <1>5, <1>6, <1>8
  <2> QED
    BY <2>1 DEF Base, n, s, i, l
<1> QED
  BY <1>3, <1>7, <1>8

\* A write to the switch is a single chunk.
LEMMA SwitchWritesOnce ==
    ASSUME TypeOK, NEW t \in Threads, Switch(Chip(t)), Kind(t) = "write"
    PROVE  ~MoreChunks(t)
<1>1. ChunkSize(t) = Size
  BY DEF ChunkSize
<1>2. chunk[t] \in Nat /\ req[t].len \in 0 .. Size /\ Size \in Nat
  BY SizeAssumption DEF TypeOK, Request
<1>3. (chunk[t] + 1) * Size = chunk[t] * Size + Size /\ chunk[t] * Size \in Nat
  BY <1>2, Distribute
<1> QED
  BY <1>1, <1>2, <1>3 DEF MoreChunks

\* The next chunk begins where this one ended.
LEMMA NextBase ==
    ASSUME TypeOK, NEW t \in Threads, MoreChunks(t), req' = req, part' = part, chunk'[t] = chunk[t] + 1
    PROVE  Base(t)' = Base(t) + ChunkLen(t)
<1>1. ChunkSize(t)' = ChunkSize(t) /\ ChunkLen(t) = ChunkSize(t)
  BY MoreIsFull DEF ChunkSize, Kind, Switch, Chip
<1>2. chunk[t] \in Nat /\ ChunkSize(t) \in Nat
  BY ChunkSizeType, SizeAssumption DEF TypeOK
<1> QED
  BY <1>1, <1>2, Distribute DEF Base

\* What a chunk of an access does to the lengths and the caller's buffer.
LEMMA DataNextFacts ==
    ASSUME ContentInv, NEW t \in Threads, DataNext(t)
    PROVE  /\ AtTransfer(t) /\ Moved(t) /\ Done(t) /\ phase[t] = "data" /\ pc[t] = "next" /\ InSession(t)
           /\ UNCHANGED <<req, got, status, ret, clean, start, recv, part, misused, dev>>
           /\ chunk'[t] = chunk[t] + 1
           /\ \/ MoreChunks(t) /\ pc'[t] = "select" /\ phase'[t] = "data"
              \/ ~MoreChunks(t) /\ pc'[t] = "unlock"
           /\ Kind(t) = "read" =>
                /\ recvLen'[Chip(t)] = recvLen[Chip(t)] + got[t]
                /\ \A k \in Cells : out'[t][k] = IF k \in recvLen[Chip(t)] .. recvLen[Chip(t)] + got[t] - 1
                                                 THEN recv[Chip(t)][k - recvLen[Chip(t)]] ELSE out[t][k]
           /\ Kind(t) = "write" => sendLen'[Chip(t)] = sendLen[Chip(t)] + ChunkLen(t)
<1>1. pc[t] = "next" /\ phase[t] = "data" /\ got[t] >= 0
  BY DEF DataNext
<1>2. AtTransfer(t) /\ Moved(t) /\ Done(t) /\ InSession(t)
  BY <1>1 DEF AtTransfer, Moved, Done, InSession
<1>3. TypeOK /\ Chip(t) \in Chips
  BY <1>2, SessionFacts
<1>4. UNCHANGED <<req, got, status, ret, clean, start, recv, part, misused, dev>>
  BY DEF DataNext, setup
<1>5. /\ chunk'[t] = chunk[t] + 1
      /\ \/ MoreChunks(t) /\ pc'[t] = "select" /\ phase'[t] = "data"
         \/ ~MoreChunks(t) /\ pc'[t] = "unlock"
  <2>1. chunk'[t] = chunk[t] + 1
    BY <1>3 DEF DataNext, TypeOK
  <2>2. \/ MoreChunks(t) /\ pc'[t] = "select" /\ phase'[t] = "data"
        \/ ~MoreChunks(t) /\ pc'[t] = "unlock"
    BY <1>3 DEF DataNext, Continue, Finish, TypeOK
  <2> QED
    BY <2>1, <2>2
<1>6. ASSUME Kind(t) = "read"
      PROVE  /\ recvLen'[Chip(t)] = recvLen[Chip(t)] + got[t]
             /\ \A k \in Cells : out'[t][k] = IF k \in recvLen[Chip(t)] .. recvLen[Chip(t)] + got[t] - 1
                                              THEN recv[Chip(t)][k - recvLen[Chip(t)]] ELSE out[t][k]
  <2>1. /\ recvLen' = [recvLen EXCEPT ![Chip(t)] = recvLen[Chip(t)] + got[t]]
        /\ out' = [out EXCEPT ![t] = [k \in Cells |->
                          IF k \in recvLen[Chip(t)] .. recvLen[Chip(t)] + got[t] - 1
                          THEN recv[Chip(t)][k - recvLen[Chip(t)]] ELSE out[t][k]]]
    BY <1>6 DEF DataNext
  <2> QED
    BY <1>3, <2>1 DEF TypeOK
<1>7. ASSUME Kind(t) = "write" PROVE sendLen'[Chip(t)] = sendLen[Chip(t)] + ChunkLen(t)
  BY <1>3, <1>7 DEF DataNext, TypeOK
<1> QED
  BY <1>1, <1>2, <1>4, <1>5, <1>6, <1>7

\* A chunk that has been counted is in the caller's buffer or in the registers.
LEMMA DataNextStep ==
    ASSUME ContentInv, NEW t \in Threads, DataNext(t)
    PROVE  SessionAt(t)'
<1> DEFINE c == Chip(t)
           n == recvLen[c]
           g == got[t]
           l == ChunkLen(t)
           b == Base(t)
           L == req[t].len
<1>1. /\ AtTransfer(t) /\ Moved(t) /\ Done(t) /\ phase[t] = "data" /\ pc[t] = "next" /\ InSession(t)
      /\ UNCHANGED <<req, got, status, ret, clean, start, recv, part, misused, dev>>
      /\ chunk'[t] = chunk[t] + 1
      /\ \/ MoreChunks(t) /\ pc'[t] = "select" /\ phase'[t] = "data"
         \/ ~MoreChunks(t) /\ pc'[t] = "unlock"
  BY DataNextFacts
<1>2. Kind(t) = "read" =>
        /\ recvLen'[c] = n + g
        /\ \A k \in Cells : out'[t][k] = IF k \in n .. n + g - 1 THEN recv[c][k - n] ELSE out[t][k]
  BY DataNextFacts
<1>3. Kind(t) = "write" => sendLen'[c] = sendLen[c] + l
  BY DataNextFacts
<1>4. /\ TypeOK /\ PlaceAt(t) /\ SessionAt(t) /\ c \in Chips /\ IsAccess(t)
      /\ ChunkSize(t) \in Nat \ {0} /\ (Kind(t) = "read" => ChunkSize(t) <= ReadSize)
      /\ l \in 0 .. ChunkSize(t) /\ b \in Nat /\ b + l <= L /\ L \in 0 .. Size
      /\ start[t] \in Cells
  BY <1>1, SessionFacts
<1>5. CountAt(t) /\ ret[t] = 0
  BY <1>1, <1>4 DEF SessionAt, CountAt
<1>6. /\ Kind(t) = "read" => n <= b /\ g <= l
      /\ Kind(t) = "write" => sendLen[c] = b
      /\ chunk[t] = 0 \/ chunk[t] * ChunkSize(t) < L
  BY <1>1, <1>4 DEF PlaceAt, Base
<1>7. g \in Nat /\ (Kind(t) = "read" => n \in Nat)
  <2>1. g \in -1 .. Size /\ n \in 0 .. Size
    BY <1>4 DEF TypeOK
  <2>2. g >= 0 /\ Size \in Nat
    BY <1>1, SizeAssumption DEF Done
  <2> HIDE DEF g, n
  <2> QED
    BY <2>1, <2>2
<1>8. /\ ~MoreChunks(t) => b + l = L
      /\ MoreChunks(t) => Base(t)' = b + l
  BY <1>1, <1>4, <1>6, LastChunk, NextBase
<1>9. Kind(t) = "read" /\ clean[t] => n = b /\ g = l
  BY <1>1, <1>5 DEF CountAt
<1>10. /\ c' = c /\ Kind(t)' = Kind(t) /\ ChunkSize(t)' = ChunkSize(t)
       /\ Switch(c)' = Switch(c) /\ Stream(c)' = Stream(c) /\ Paged(c)' = Paged(c)
       /\ \A k : Latched(t, k)' = Latched(t, k)
       /\ \A k : Holds(t, k)' = Holds(t, k)
       /\ Block(t)' = Block(t)
  <2>1. c' = c /\ Kind(t)' = Kind(t)
    BY <1>1 DEF Chip, Kind
  <2>2. Switch(c)' = Switch(c) /\ Stream(c)' = Stream(c) /\ Paged(c)' = Paged(c)
    BY <1>1, <2>1 DEF Switch, Stream, Paged
  <2>3. ChunkSize(t)' = ChunkSize(t)
    BY <2>1, <2>2 DEF ChunkSize
  <2> QED
    BY <1>1, <2>1, <2>2, <2>3 DEF Latched, Holds, Block
<1>11. \A k : Stored(t, k)' = Stored(t, k)
  BY <1>1, <1>10 DEF Stored
<1>12. InSession(t)' /\ ~Moved(t)' /\ ~Done(t)' /\ pc'[t] \notin {"idle", "lock", "done"}
       /\ (AtTransfer(t)' <=> MoreChunks(t)) /\ (pc'[t] = "unlock" <=> ~MoreChunks(t))
  BY <1>1 DEF InSession, Moved, Done, AtTransfer
<1> HIDE DEF c, n, g, l, b, L
<1>13. CountAt(t)'
  <2>1. ASSUME Kind(t) = "read"
        PROVE  /\ n + g <= L
               /\ \A k \in Cells : k >= n + g => out'[t][k] = Blank
               /\ clean[t] /\ MoreChunks(t) => n + g = b + l
               /\ clean[t] /\ ~MoreChunks(t) => n + g = L
    <3>1. n + g <= L
      BY <1>4, <1>6, <1>7, <2>1
    <3>2. \A k \in Cells : k >= n => out[t][k] = Blank
      BY <1>1, <1>5, <2>1 DEF CountAt, c, n
    <3>3. \A k \in Cells : k >= n + g => k >= n /\ k \notin n .. n + g - 1
      BY <1>7, <2>1 DEF Cells
    <3>4. \A k \in Cells : k >= n + g => out'[t][k] = Blank
      BY <1>2, <2>1, <3>2, <3>3
    <3> QED
      BY <1>8, <1>9, <2>1, <3>1, <3>4
  <2>2. Kind(t) = "write" /\ ~MoreChunks(t) => sendLen'[c] = L
    BY <1>3, <1>6, <1>8
  <2>3. req' = req /\ ret' = ret /\ clean' = clean
    BY <1>1
  <2> QED
    BY <1>2, <1>5, <1>8, <1>10, <1>12, <2>1, <2>2, <2>3 DEF CountAt, c, L
<1>14. ListenAt(t)'
  BY <1>1 DEF ListenAt
<1>15. ASSUME ~misused', clean'[t] PROVE ChipAt(t)' /\ DataAt(t)'
  <2>1. ChipAt(t) /\ DataAt(t) /\ clean[t]
    BY <1>1, <1>4, <1>15 DEF SessionAt
  <2>2. ChipAt(t)'
    <3> SUFFICES ASSUME MoreChunks(t) PROVE ChipAt(t)'
      BY <1>12 DEF ChipAt
    <3>1. Switch(c) => Kind(t) = "read"
      BY <1>4, SwitchWritesOnce DEF c, IsAccess
    <3>2. /\ Stream(c) => dev[c].pos = (start[t] + (b + l)) % Size
          /\ Paged(c) => dev[c].page = req[t].page
          /\ Switch(c) => /\ ~dev[c].busy
                          /\ ~dev[c].fetch /\ dev[c].rack /\ dev[c].latch = Block(t)
      BY <1>1, <2>1, <3>1 DEF ChipAt, c, b, l
    <3>3. phase'[t] = "data" /\ dev' = dev /\ req' = req /\ start' = start
      BY <1>1
    <3> QED
      BY <1>8, <1>10, <1>12, <3>1, <3>2, <3>3 DEF ChipAt, c
  <2>3. ASSUME Kind(t) = "read", NEW k \in Cells, k < n + g, Latched(t, k)
        PROVE  out'[t][k] = Holds(t, k)
    <3>1. CASE k < n
      <4>1. k \notin n .. n + g - 1
        BY <1>7, <2>3, <3>1
      <4>2. out[t][k] = Holds(t, k)
        BY <1>1, <2>1, <2>3, <3>1 DEF DataAt, n, c
      <4> QED
        BY <1>2, <2>3, <4>1, <4>2
    <3>2. CASE ~(k < n)
      <4>1. k \in n .. n + g - 1 /\ k - n \in Nat /\ k - n < g /\ b + (k - n) = k /\ k - n \in 0 .. ReadSize - 1
        BY <1>4, <1>6, <1>7, <1>9, <2>1, <2>3, <3>2, SizeAssumption DEF Cells
      <4>2. \A j \in Slots : j < g /\ Latched(t, b + j) => recv[c][j] = Holds(t, b + j)
        BY <1>1, <2>1, <2>3 DEF DataAt, g, b, c
      <4>3. recv[c][k - n] = Holds(t, k)
        BY <2>3, <4>1, <4>2 DEF Slots
      <4> QED
        BY <1>2, <2>3, <4>1, <4>3
    <3> QED
      BY <3>1, <3>2
  <2>4. Kind(t) = "write" => Stored(t, sendLen[c] + l)
    BY <1>1, <2>1 DEF DataAt, c, l
  <2>5. DataAt(t)'
    BY <1>2, <1>3, <1>10, <1>11, <1>12, <2>3, <2>4 DEF DataAt, c
  <2> QED
    BY <2>2, <2>5
<1> QED
  BY <1>13, <1>14, <1>15 DEF SessionAt

\* What the chip of a session answers is what its registers hold.
LEMMA AnswerHolds ==
    ASSUME ContentInv, NEW t \in Threads, pc[t] = "transfer", phase[t] = "data", Kind(t) = "read",
           ~misused, clean[t], NEW j \in Nat, j < ChunkLen(t), Latched(t, Base(t) + j)
    PROVE  Answer(t, j) = Holds(t, Base(t) + j)
<1> DEFINE c == Chip(t)
           b == Base(t)
           s == ChunkSize(t)
<1>1. AtTransfer(t) /\ ~Moved(t) /\ Listeners(c) = {c}
  BY OneListener DEF AtTransfer, Moved
<1>2. /\ TypeOK /\ ChipAt(t) /\ c \in Chips /\ s \in Nat \ {0} /\ ChunkLen(t) \in 0 .. s
      /\ b \in Nat /\ b + ChunkLen(t) <= req[t].len /\ req[t].len \in 0 .. Size
      /\ req[t].addr \in 0 .. Size - 1 /\ req[t].addr + req[t].len <= Size /\ Size \in Nat \ {0}
      /\ start[t] \in 0 .. Size - 1 /\ chunk[t] \in Nat
  <2>1. SessionAt(t) /\ ChipAlone(c)
    BY <1>1, SessionFacts DEF ContentInv
  <2>2. ChipAt(t)
    BY <2>1 DEF SessionAt
  <2> QED
    BY <1>1, <2>2, SessionFacts DEF Cells
<1>3. j \in 0 .. s - 1 /\ (req[t].addr + j) \in 0 .. Size - 1 /\ (req[t].addr + (b + j)) \in 0 .. Size - 1
  <2> DEFINE a == req[t].addr
             L == req[t].len
             l == ChunkLen(t)
  <2>1. l \in 0 .. s /\ b \in Nat /\ b + l <= L /\ L \in 0 .. Size /\ a \in 0 .. Size - 1 /\ a + L <= Size
        /\ Size \in Nat \ {0} /\ j \in Nat /\ j < l /\ s \in Nat
    BY <1>2
  <2> HIDE DEF a, L, l, s, b
  <2>2. j \in 0 .. s - 1 /\ (a + j) \in 0 .. Size - 1 /\ (a + (b + j)) \in 0 .. Size - 1
    BY <2>1
  <2> QED
    BY <2>2 DEF a
<1>4. CASE Stream(c)
  <2>1. Answer(t, j) = dev[c].regs[0][(dev[c].pos + j) % Size]
    BY <1>1, <1>4 DEF Answer, Register, Switch, Stream
  <2>2. dev[c].pos = (start[t] + b) % Size
    BY <1>1, <1>2, <1>4 DEF ChipAt
  <2>3. (((start[t] + b) % Size) + j) % Size = ((start[t] + b) + j) % Size
    <3>1. start[t] + b \in Nat
      BY <1>2
    <3> QED
      BY <1>2, <3>1, ModAdd
  <2>4. (start[t] + b) + j = start[t] + (b + j)
    BY <1>2
  <2>5. Holds(t, b + j) = dev[c].regs[0][(start[t] + (b + j)) % Size]
    BY <1>4 DEF Holds
  <2> QED
    BY <2>1, <2>2, <2>3, <2>4, <2>5
<1>5. CASE ~Stream(c) /\ ~Switch(c)
  <2>1. Answer(t, j) = dev[c].regs[dev[c].page][(req[t].addr + j) % Size]
    BY <1>1, <1>5 DEF Answer, Register
  <2>2. (req[t].addr + j) % Size = req[t].addr + j
    BY <1>2, <1>3, SmallMod
  <2>3. dev[c].page = IF Paged(c) THEN req[t].page ELSE 0
    <3>1. ChipAlone(c)
      BY <1>2 DEF ContentInv
    <3>2. Paged(c) => dev[c].page = req[t].page
      BY <1>1, <1>2 DEF ChipAt
    <3> QED
      BY <3>1, <3>2 DEF ChipAlone
  <2>4. (b + j) % s = j
    BY <1>2, <1>3, PlaceInChunk DEF Base
  <2>5. Holds(t, b + j) = dev[c].regs[IF Paged(c) THEN req[t].page ELSE 0][req[t].addr + ((b + j) % s)]
    BY <1>5 DEF Holds
  <2> QED
    BY <2>1, <2>2, <2>3, <2>4, <2>5
<1>6. CASE Switch(c)
  <2>1. s = 1 /\ Paged(c) /\ ~Stream(c)
    BY <1>6 DEF ChunkSize, Paged, Stream, Switch
  <2>2. j = 0 /\ b = chunk[t] /\ b + j = chunk[t]
    <3>1. j = 0
      BY <1>3, <2>1
    <3>2. b = chunk[t]
      BY <1>2, <2>1 DEF Base
    <3> QED
      BY <1>2, <3>1, <3>2
  <2>3. chunk[t] \in Latch
    BY <1>6, <2>2 DEF Latched
  <2>4. ~dev[c].busy /\ dev[c].rack /\ dev[c].latch = Block(t)
    BY <1>1, <1>2, <1>6 DEF ChipAt
  <2>5. Answer(t, j) = dev[c].latch[chunk[t]]
    BY <1>1, <1>6, <2>3, <2>4 DEF Answer
  <2>6. Answer(t, j) = dev[c].regs[req[t].page][(req[t].addr + chunk[t]) % Size]
    BY <2>3, <2>4, <2>5 DEF Block
  <2>7. (req[t].addr + chunk[t]) % Size = req[t].addr + chunk[t]
    <3>1. req[t].addr + chunk[t] \in 0 .. Size - 1
      BY <1>3, <2>2
    <3> QED
      BY <1>2, <3>1, SmallMod
  <2> QED
    BY <1>6, <2>1, <2>2, <2>6, <2>7 DEF Holds
<1> QED
  BY <1>4, <1>5, <1>6

\* What a transfer that receives does, seen from its session.
LEMMA ReceiveFacts ==
    ASSUME ContentInv, NEW t \in Threads, Receive(t)
    PROVE  /\ AtTransfer(t) /\ pc[t] = "transfer" /\ pc'[t] = "deselect" /\ Receiving(t)
           /\ UNCHANGED <<phase, req, chunk, out, ret, start, recvLen, sendLen, part, misused>>
           /\ \E n \in -1 .. Wanted(t), reached \in BOOLEAN :
                /\ n >= 0 => reached /\ Wanted(t) # 0
                /\ got'[t] = n
                /\ status'[t] \in StatusBit(t, n)
                /\ clean'[t] = (clean[t] /\ (n = Wanted(t) \/ (n < 0 /\ ~Polling(t))))
                /\ phase[t] = "data" /\ n > 0 => \A j \in Slots : j < n => recv'[Chip(t)][j] = Answer(t, j)
                /\ dev'[Chip(t)] = IF reached THEN Heard(t, IF n < 0 THEN Wanted(t) ELSE n) ELSE dev[Chip(t)]
<1>0. pc[t] = "transfer" /\ Receiving(t) /\ AtTransfer(t)
  BY DEF Receive, AtTransfer
<1>1. TypeOK /\ Chip(t) \in Chips /\ Wanted(t) \in 0 .. Size /\ Size \in Nat
  BY <1>0, SessionFacts, WantedRange, SizeAssumption
<1>2. PICK n \in {-1, Wanted(t)} \cup (IF ShortTransfers THEN 0 .. Wanted(t) ELSE {}), reached \in BOOLEAN :
         /\ n >= 0 => reached
         /\ Wanted(t) = 0 => n = -1 /\ ~reached
         /\ got' = [got EXCEPT ![t] = n]
         /\ \E bit \in StatusBit(t, n) : status' = [status EXCEPT ![t] = bit]
         /\ clean' = [clean EXCEPT ![t] = @ /\ (n = Wanted(t) \/ (n < 0 /\ ~Polling(t)))]
         /\ recv' = IF phase[t] = "data" /\ n > 0
                    THEN [recv EXCEPT ![Chip(t)] = [k \in Slots |-> IF k < n THEN Answer(t, k) ELSE Garbage]]
                    ELSE recv
         /\ dev' = IF reached THEN [dev EXCEPT ![Chip(t)] = Heard(t, IF n < 0 THEN Wanted(t) ELSE n)]
                              ELSE dev
  BY DEF Receive
<1>3. n \in -1 .. Wanted(t) /\ (n >= 0 => reached /\ Wanted(t) # 0)
  BY <1>1, <1>2
<1>4. UNCHANGED <<phase, req, chunk, out, ret, start, recvLen, sendLen, part, misused>> /\ pc'[t] = "deselect"
  BY <1>1 DEF Receive, setup, TypeOK
<1>5. got'[t] = n
  BY <1>1, <1>2 DEF TypeOK
<1>6. status'[t] \in StatusBit(t, n)
  BY <1>1, <1>2 DEF TypeOK
<1>7. clean'[t] = (clean[t] /\ (n = Wanted(t) \/ (n < 0 /\ ~Polling(t))))
  BY <1>1, <1>2 DEF TypeOK
<1>8. phase[t] = "data" /\ n > 0 => \A j \in Slots : j < n => recv'[Chip(t)][j] = Answer(t, j)
  BY <1>1, <1>2 DEF TypeOK
<1>9. dev'[Chip(t)] = IF reached THEN Heard(t, IF n < 0 THEN Wanted(t) ELSE n) ELSE dev[Chip(t)]
  BY <1>1, <1>2 DEF TypeOK
<1> QED
  BY <1>0, <1>3, <1>4, <1>5, <1>6, <1>7, <1>8, <1>9

\* What a chip answers is what its status or its registers say.
LEMMA ReceiveStep ==
    ASSUME ContentInv, NEW t \in Threads, Receive(t)
    PROVE  SessionAt(t)'
<1> DEFINE c == Chip(t)
<1>1. /\ AtTransfer(t) /\ pc[t] = "transfer" /\ pc'[t] = "deselect" /\ Receiving(t)
      /\ UNCHANGED <<phase, req, chunk, out, ret, start, recvLen, sendLen, part, misused>>
  BY ReceiveFacts
<1>2. PICK n \in -1 .. Wanted(t), reached \in BOOLEAN :
        /\ n >= 0 => reached /\ Wanted(t) # 0
        /\ got'[t] = n
        /\ status'[t] \in StatusBit(t, n)
        /\ clean'[t] = (clean[t] /\ (n = Wanted(t) \/ (n < 0 /\ ~Polling(t))))
        /\ phase[t] = "data" /\ n > 0 => \A j \in Slots : j < n => recv'[c][j] = Answer(t, j)
        /\ dev'[c] = IF reached THEN Heard(t, IF n < 0 THEN Wanted(t) ELSE n) ELSE dev[c]
  BY ReceiveFacts
<1>3. /\ TypeOK /\ TypeInv /\ PlaceAt(t) /\ SessionAt(t) /\ c \in Chips /\ IsAccess(t) /\ InSession(t)
      /\ ~Moved(t) /\ Wanted(t) \in Nat /\ (phase[t] = "data" => Wanted(t) = ChunkLen(t))
  <2>1. Wanted(t) \in 0 .. Size /\ (phase[t] = "data" => Wanted(t) = ChunkLen(t))
    BY <1>1, SessionFacts, WantedRange
  <2> QED
    BY <1>1, <2>1, SessionFacts, SizeAssumption DEF InSession, AtTransfer, Moved
<1>4. phase[t] \in PhasesOf(t) /\ phase[t] # "page"
  BY <1>1, <1>3 DEF PlaceAt, Receiving
<1>5. /\ c' = c /\ Kind(t)' = Kind(t) /\ ChunkSize(t)' = ChunkSize(t) /\ ChunkLen(t)' = ChunkLen(t)
      /\ Base(t)' = Base(t) /\ AtTransfer(t)' /\ InSession(t)' /\ Moved(t)' /\ ~BetweenChunks(t)'
      /\ (Done(t)' <=> n >= 0)
      /\ Switch(c)' = Switch(c) /\ Stream(c)' = Stream(c) /\ Paged(c)' = Paged(c)
      /\ \A k : Latched(t, k)' = Latched(t, k)
  <2>1. c' = c /\ Kind(t)' = Kind(t)
    BY <1>1 DEF Chip, Kind
  <2>2. Switch(c)' = Switch(c) /\ Stream(c)' = Stream(c) /\ Paged(c)' = Paged(c)
    BY <1>1, <2>1 DEF Switch, Stream, Paged
  <2>3. ChunkSize(t)' = ChunkSize(t)
    BY <2>1, <2>2 DEF ChunkSize
  <2>4. AtTransfer(t)' /\ InSession(t)' /\ Moved(t)' /\ ~BetweenChunks(t)' /\ (Done(t)' <=> n >= 0)
    BY <1>1, <1>2 DEF AtTransfer, InSession, Moved, BetweenChunks, Done
  <2> QED
    BY <1>1, <2>1, <2>2, <2>3, <2>4 DEF ChunkLen, Base, Latched
<1>6. LET e == dev'[c] d == dev[c] IN
      /\ e.regs = d.regs /\ e.page = d.page /\ e.busy = d.busy
      /\ phase[t] # "addr" => e.fetch = d.fetch /\ e.rack = d.rack /\ e.latch = d.latch /\ e.want = d.want
      /\ phase[t] # "data" \/ ~Stream(c) => e.pos = d.pos
      /\ phase[t] = "data" /\ Stream(c) /\ n >= 0 => e.pos = (d.pos + n) % Size
  <2>1. CASE reached
    <3> DEFINE m == IF n < 0 THEN Wanted(t) ELSE n
    <3>1. m \in Nat /\ (n >= 0 => m = n)
      BY <1>3
    <3>2. dev'[c] = Heard(t, m)
      BY <1>2, <2>1
    <3> HIDE DEF m
    <3> QED
      BY <1>3, <3>1, <3>2, HeardKeeps
  <2>2. CASE ~reached
    BY <1>2, <2>2
  <2> QED
    BY <2>1, <2>2
<1>7. clean'[t] => clean[t] /\ (n >= 0 => n = Wanted(t)) /\ (Polling(t) => n = 1)
  <2>1. Polling(t) => Wanted(t) = 1
    BY DEF Polling, Wanted
  <2>2. clean'[t] => clean[t] /\ (n = Wanted(t) \/ (n < 0 /\ ~Polling(t)))
    BY <1>2
  <2> QED
    BY <1>3, <2>1, <2>2
<1>8. CountAt(t)'
  <2>1. CountAt(t)
    BY <1>3 DEF SessionAt
  <2>2. ret'[t] = 0 /\ pc'[t] \notin {"idle", "lock", "done", "unlock"}
    BY <1>1, <2>1 DEF CountAt
  <2>3. clean'[t] /\ Done(t)' /\ phase[t] = "data" => got'[t] = ChunkLen(t)
    BY <1>2, <1>3, <1>5, <1>7
  <2>4. ASSUME Kind(t) = "read"
        PROVE  /\ recvLen[c] <= req[t].len
               /\ \A k \in Cells : k >= recvLen[c] => out[t][k] = Blank
               /\ clean[t] => recvLen[c] = Base(t)
    BY <1>1, <1>3, <2>1, <2>4 DEF CountAt
  <2> QED
    BY <1>1, <1>5, <1>7, <2>2, <2>3, <2>4 DEF CountAt
<1>9. ListenAt(t)'
  BY <1>1 DEF ListenAt
<1>10. ASSUME ~misused', clean'[t] PROVE ChipAt(t)' /\ DataAt(t)'
  <2>1. ChipAt(t) /\ DataAt(t) /\ clean[t] /\ ~misused
    BY <1>1, <1>3, <1>7, <1>10 DEF SessionAt
  <2>2. Listeners(c) = {c}
    BY <1>1, <2>1, OneListener
  <2>3. /\ \A k : Holds(t, k)' = Holds(t, k)
        /\ \A k : Stored(t, k)' = Stored(t, k)
        /\ Block(t)' = Block(t)
    <3>1. \A k : Holds(t, k)' = Holds(t, k)
      BY <1>1, <1>5, <1>6 DEF Holds
    <3> QED
      BY <1>1, <1>5, <1>6, <3>1 DEF Stored, Block
  <2>4. ChipAt(t)'
    <3>1. Stream(c) /\ Done(t)' => dev'[c].pos = (start[t] + (Base(t) + ChunkLen(t))) % Size
      <4> SUFFICES ASSUME Stream(c), n >= 0
                   PROVE  dev'[c].pos = (start[t] + (Base(t) + ChunkLen(t))) % Size
        BY <1>5
      <4>1. phase[t] = "data"
        BY <1>4 DEF PhasesOf, Stream, Switch, Paged
      <4>2. dev[c].pos = (start[t] + Base(t)) % Size
        BY <1>1, <1>3, <2>1 DEF ChipAt
      <4>3. n = ChunkLen(t)
        BY <1>3, <1>7, <1>10, <4>1
      <4>4. start[t] + Base(t) \in Nat /\ n \in Nat /\ Size \in Nat \ {0} /\ start[t] \in Nat /\ Base(t) \in Nat
        BY <1>1, <4>3, SessionFacts DEF Cells
      <4>5. dev'[c].pos = ((start[t] + Base(t)) + n) % Size
        BY <1>6, <4>1, <4>2, <4>4, ModAdd
      <4>6. (start[t] + Base(t)) + n = start[t] + (Base(t) + n)
        BY <4>4
      <4> QED
        BY <4>3, <4>5, <4>6
    <3>2. Paged(c) /\ phase[t] \in {"addr", "rack", "data"} => dev'[c].page = req[t].page
      BY <1>1, <1>6, <2>1 DEF ChipAt
    <3>3. Polling(t) => status'[t] = IF phase[t] = "spif" THEN dev[c].busy ELSE dev[c].rack
      BY <1>2, <1>7, <1>10, <2>2 DEF StatusBit
    <3>4. Switch(c) =>
             /\ phase[t] = "spif" /\ ~status'[t] => ~dev'[c].busy
             /\ phase[t] \in {"addr", "rack"} => ~dev'[c].busy
             /\ phase[t] = "data" /\ Kind(t) = "read" => ~dev'[c].busy
      BY <1>1, <1>3, <1>6, <2>1, <3>3 DEF ChipAt, Polling
    <3>5. Kind(t) = "read" /\ phase[t] = "addr" /\ n >= 0 =>
             dev'[c].fetch /\ dev'[c].want = req[t].addr /\ ~dev'[c].rack
      <4> SUFFICES ASSUME phase[t] = "addr", n >= 0
                   PROVE  dev'[c].fetch /\ dev'[c].want = req[t].addr /\ ~dev'[c].rack
        OBVIOUS
      <4>1. ~dev[c].busy
        BY <1>1, <1>4, <2>1 DEF ChipAt, PhasesOf
      <4>2. dev'[c] = Heard(t, n) /\ dev[c] \in Device
        BY <1>2, <1>3 DEF TypeOK
      <4>3. dev'[c] = [dev[c] EXCEPT !.rack = FALSE, !.fetch = TRUE, !.want = req[t].addr, !.latch = Nothing]
        BY <2>2, <4>1, <4>2 DEF Heard
      <4>4. \A x \in Device : \A a, y : LET z == [x EXCEPT !.rack = FALSE, !.fetch = TRUE, !.want = a, !.latch = y]
                                        IN z.fetch /\ z.want = a /\ ~z.rack
        BY DEF Device
      <4> QED
        BY <4>2, <4>3, <4>4
    <3>6. Kind(t) = "read" /\ phase[t] = "rack" =>
             \/ dev'[c].fetch /\ dev'[c].want = req[t].addr /\ ~dev'[c].rack
             \/ ~dev'[c].fetch /\ dev'[c].rack /\ dev'[c].latch = Block(t)
      BY <1>1, <1>6, <2>1 DEF ChipAt
    <3>7. phase[t] = "rack" /\ status'[t] => dev'[c].rack
      BY <1>6, <3>3 DEF Polling
    <3>8. Switch(c) /\ Kind(t) = "read" /\ phase[t] = "data" =>
             ~dev'[c].fetch /\ dev'[c].rack /\ dev'[c].latch = Block(t)
      BY <1>1, <1>6, <2>1 DEF ChipAt
    <3>9. phase' = phase /\ req' = req /\ start' = start
      BY <1>1
    <3>10. phase[t] = "data" => Kind(t) = "read"
      BY <1>1 DEF Receiving
    <3> QED
      BY <1>4, <1>5, <2>3, <3>1, <3>2, <3>4, <3>5, <3>6, <3>7, <3>8, <3>9, <3>10 DEF ChipAt
  <2>5. ASSUME Kind(t) = "read", phase[t] = "data", NEW j \in Slots, j < n, Latched(t, Base(t) + j)
        PROVE  recv'[c][j] = Holds(t, Base(t) + j)
    <3>1. j \in Nat /\ n > 0
      BY <2>5, SizeAssumption DEF Slots
    <3>2. j < ChunkLen(t)
      BY <1>3, <1>7, <1>10, <2>5, <3>1
    <3>3. Answer(t, j) = Holds(t, Base(t) + j)
      BY <1>1, <2>1, <2>5, <3>1, <3>2, AnswerHolds
    <3> QED
      BY <1>2, <2>5, <3>1, <3>3
  <2>6. Kind(t) = "write" => phase[t] # "data"
    BY <1>1 DEF Receiving
  <2>7. DataAt(t)'
    BY <1>1, <1>2, <1>3, <1>5, <2>1, <2>3, <2>5, <2>6 DEF DataAt
  <2> QED
    BY <2>4, <2>7
<1> QED
  BY <1>8, <1>9, <1>10 DEF SessionAt

\* What a chunk of a write finds, and the cells it goes to.
LEMMA ChunkFacts ==
    ASSUME ContentInv, NEW t \in Threads, pc[t] = "transfer", phase[t] = "data", Kind(t) = "write",
           ~misused, clean[t], NEW n \in Nat
    PROVE  LET c == Chip(t)
               p == IF Stream(c) THEN 0 ELSE IF Paged(c) THEN req[t].page ELSE 0
               a0 == IF Stream(c) THEN dev[c].pos ELSE req[t].addr
           IN
           /\ sendLen[c] = Base(t) /\ p \in Pages
           /\ \A a \in Cells : Written(t, c, n).regs[p][a] =
                  IF (a - a0) % Size < n THEN req[t].data[Base(t) + ((a - a0) % Size)]
                                                   ELSE dev[c].regs[p][a]
<1> DEFINE c == Chip(t)
           p == IF Stream(c) THEN 0 ELSE IF Paged(c) THEN req[t].page ELSE 0
           a0 == IF Stream(c) THEN dev[c].pos ELSE req[t].addr
           q == IF Stream(c) THEN 0 ELSE dev[c].page
           cells == [a \in Cells |-> IF (a - a0) % Size < n
                                     THEN req[t].data[sendLen[Chip(t)] + ((a - a0) % Size)]
                                     ELSE dev[c].regs[q][a]]
<1>1. AtTransfer(t) /\ ~Moved(t)
  BY DEF AtTransfer, Moved
<1>2. /\ TypeOK /\ TypeInv /\ PlaceAt(t) /\ SessionAt(t) /\ c \in Chips /\ req[t].page \in Pages
  BY <1>1, SessionFacts
<1>3. sendLen[c] = Base(t)
  BY <1>1, <1>2 DEF PlaceAt, Base
<1>4. q = p /\ p \in Pages
  <2>1. ChipAlone(c) /\ ChipAt(t)
    BY <1>2 DEF ContentInv, SessionAt
  <2>2. Paged(c) => dev[c].page = req[t].page
    BY <1>1, <2>1 DEF ChipAt
  <2>3. ~Paged(c) => dev[c].page = 0
    BY <2>1 DEF ChipAlone
  <2> QED
    BY <1>2, <2>2, <2>3, ChipAssumption
<1>5. Written(t, c, n).regs = [dev[c].regs EXCEPT ![q] = cells]
  BY <1>2, WrittenParts
<1>6. dev[c].regs \in [Pages -> [Cells -> Bytes]]
  BY <1>2, DeviceType
<1>7. Written(t, c, n).regs[p] = cells
  <2> HIDE DEF cells, q, p
  <2> QED
    BY <1>4, <1>5, <1>6
<1>8. \A a \in Cells : cells[a] = IF (a - a0) % Size < n
                                  THEN req[t].data[Base(t) + ((a - a0) % Size)] ELSE dev[c].regs[p][a]
  <2> HIDE DEF p, q, a0
  <2> QED
    BY <1>3, <1>4
<1> HIDE DEF cells, q
<1> QED
  BY <1>3, <1>4, <1>7, <1>8

\* A chunk that a stream gets does not go over what the access has sent before.
LEMMA StreamStores ==
    ASSUME ContentInv, NEW t \in Threads, pc[t] = "transfer", phase[t] = "data", Kind(t) = "write",
           ~misused, clean[t], Stream(Chip(t)), NEW n \in Nat, n <= ChunkLen(t),
           dev'[Chip(t)] = Written(t, Chip(t), n), req' = req, part' = part, start' = start,
           NEW k \in Cells, k < Base(t) + n
    PROVE  Holds(t, k)' = IF k < Base(t) THEN Holds(t, k) ELSE req[t].data[k]
<1> DEFINE c == Chip(t)
           b == Base(t)
           s == start[t]
           a == (s + k) % Size
           e == dev[c].pos
           m == (a - e) % Size
<1>1. AtTransfer(t) /\ ~Moved(t)
  BY DEF AtTransfer, Moved
<1>2. /\ SessionAt(t) /\ b \in Nat /\ n \in Nat /\ s \in Nat /\ Size \in Nat \ {0} /\ k \in Nat /\ b + n <= Size
      /\ b < Size
  <2>1. /\ SessionAt(t) /\ ChunkLen(t) \in Nat /\ b \in Nat /\ b + ChunkLen(t) <= req[t].len
        /\ req[t].len \in 0 .. Size /\ s \in Cells /\ ChunkSize(t) \in Nat /\ PlaceAt(t)
    BY <1>1, SessionFacts
  <2>2. b = 0 \/ b < req[t].len
    <3>1. \A z \in Nat : 0 * z = 0
      OBVIOUS
    <3> QED
      BY <1>1, <2>1, <3>1 DEF PlaceAt, Base
  <2> DEFINE l == ChunkLen(t)
  <2>3. l \in Nat /\ n <= l /\ b + l <= req[t].len
    BY <2>1
  <2> HIDE DEF b, s, l
  <2> QED
    BY <2>1, <2>2, <2>3, SizeAssumption DEF Cells
<1>3. e = (s + b) % Size
  BY <1>1, <1>2 DEF SessionAt, ChipAt
<1>4. a \in Cells
  <2>1. s + k \in Int
    BY <1>2
  <2> QED
    BY <1>2, <2>1, ModRange DEF Cells
<1>5. Holds(t, k) = dev[c].regs[0][a] /\ Holds(t, k)' = dev'[c].regs[0][a]
  BY DEF Holds, Stream, Chip
<1>6. dev'[c].regs[0][a] = IF m < n THEN req[t].data[b + m] ELSE dev[c].regs[0][a]
  BY <1>4, ChunkFacts
<1>7. /\ k >= b => m = k - b
      /\ k < b  => m = Size - (b - k)
  <2> DEFINE x == s + k
             y == s + b
  <2>1. x \in Nat /\ y \in Nat /\ m = ((x % Size) - (y % Size)) % Size
    BY <1>2, <1>3
  <2>2. /\ x >= y /\ x - y < Size => ((x % Size) - (y % Size)) % Size = x - y
        /\ x < y /\ y - x < Size  => ((x % Size) - (y % Size)) % Size = Size - (y - x)
    BY ZenonT(60), <1>2, <2>1, RingDistance
  <2>3. /\ k >= b => x >= y /\ x - y < Size /\ x - y = k - b
        /\ k < b  => x < y /\ y - x < Size /\ y - x = b - k
    <3>1. k < b + n
      OBVIOUS
    <3>2. b \in Nat /\ n \in Nat /\ s \in Nat /\ Size \in Nat /\ k \in Nat /\ b + n <= Size /\ b < Size
      BY <1>2
    <3> HIDE DEF b, s, a, e, m
    <3> QED
      BY <3>1, <3>2
  <2> HIDE DEF x, y, m, b
  <2> QED
    BY <2>1, <2>2, <2>3
<1>8. /\ k >= b => m < n /\ b + m = k
      /\ k < b  => ~(m < n)
  <2>1. k < b + n
    OBVIOUS
  <2> HIDE DEF b, m
  <2> QED
    BY <1>2, <1>7, <2>1
<1> HIDE DEF m, a, b
<1>9. k \in Int /\ b \in Int
  BY <1>2
<1> QED
  BY <1>5, <1>6, <1>8, <1>9 DEF b

\* A chunk goes over the registers of the chunk before it, as far as it reaches.
LEMMA ChunkStores ==
    ASSUME ContentInv, NEW t \in Threads, pc[t] = "transfer", phase[t] = "data", Kind(t) = "write",
           ~misused, clean[t], ~Stream(Chip(t)), dev'[Chip(t)] = Written(t, Chip(t), ChunkLen(t)),
           req' = req, part' = part, start' = start,
           NEW k \in Cells, k < Base(t) + ChunkLen(t), k + ChunkSize(t) >= Base(t) + ChunkLen(t)
    PROVE  Holds(t, k)' = IF k < Base(t) THEN Holds(t, k) ELSE req[t].data[k]
<1> DEFINE c == Chip(t)
           b == Base(t)
           n == ChunkLen(t)
           s == ChunkSize(t)
           A == req[t].addr
           L == req[t].len
           p == IF Paged(c) THEN req[t].page ELSE 0
           o == IF Switch(c) THEN k ELSE k % s  \* how far into its chunk byte k is
<1>1. AtTransfer(t) /\ ~Moved(t)
  BY DEF AtTransfer, Moved
<1>2. /\ TypeOK /\ PlaceAt(t) /\ b \in Nat /\ n \in 0 .. s /\ s \in Nat \ {0} /\ k \in Nat /\ b + n <= L
      /\ L \in 0 .. Size /\ A \in 0 .. Size - 1 /\ A + L <= Size /\ Size \in Nat \ {0} /\ chunk[t] \in Nat
  BY <1>1, SessionFacts, SizeAssumption DEF Cells
<1>3. b = chunk[t] * s /\ (chunk[t] = 0 \/ b < L)
  BY <1>1, <1>2 DEF Base, PlaceAt
<1>4. /\ k >= b => o = k - b
      /\ k < b  => o = (k - b) + s /\ o <= k
  <2>1. CASE Switch(c)
    <3>1. s = Size
      BY <2>1 DEF ChunkSize
    <3>2. b = 0
      <4>1. chunk[t] >= 1 => chunk[t] * s >= s
        <5>1. \A i, z \in Nat : i >= 1 => i * z >= z
          OBVIOUS
        <5> QED
          BY <1>2, <5>1
      <4>2. chunk[t] = 0 => chunk[t] * s = 0
        BY <1>2
      <4> HIDE DEF b, s, L
      <4> QED
        BY <1>2, <1>3, <3>1, <4>1, <4>2
    <3>3. o = k
      BY <2>1
    <3> HIDE DEF b, o
    <3> QED
      BY <1>2, <3>2, <3>3
  <2>2. CASE ~Switch(c) /\ k >= b
    <3>1. k - b \in 0 .. s - 1 /\ b + (k - b) = k
      <4>1. k < b + n
        OBVIOUS
      <4> HIDE DEF b, n, s
      <4> QED
        BY <1>2, <2>2, <4>1
    <3>2. (chunk[t] * s + (k - b)) % s = k - b
      BY <1>2, <3>1, PlaceInChunk
    <3>3. o = k % s
      BY <2>2
    <3> HIDE DEF b, s, o
    <3>4. o = k - b
      BY <1>3, <3>1, <3>2, <3>3
    <3> QED
      BY <1>2, <2>2, <3>4
  <2>3. CASE ~Switch(c) /\ k < b
    <3> DEFINE i == chunk[t] - 1
    <3>1. i \in Nat /\ i * s \in Nat /\ b = i * s + s
      <4>1. chunk[t] # 0
        <5>1. \A z \in Nat : 0 * z = 0
          OBVIOUS
        <5> HIDE DEF b, s
        <5> QED
          BY <1>2, <1>3, <2>3, <5>1
      <4>2. i \in Nat /\ i + 1 = chunk[t]
        BY <1>2, <4>1
      <4> HIDE DEF i
      <4>3. (i + 1) * s = i * s + s
        BY <1>2, <4>2, Distribute
      <4>4. i * s \in Nat
        BY <1>2, <4>2
      <4> QED
        BY <1>3, <4>2, <4>3, <4>4
    <3> DEFINE x == i * s
               r == (k - b) + s
    <3>2. x \in Nat /\ b = x + s /\ k + s >= b + n
      BY <3>1
    <3> HIDE DEF x, i, b, n, s
    <3>3. r \in 0 .. s - 1 /\ x + r = k /\ r <= k
      BY <1>2, <2>3, <3>2
    <3> HIDE DEF r
    <3>4. (x + r) % s = r
      BY <1>2, <3>1, <3>3, PlaceInChunk DEF x
    <3>5. o = k % s
      BY <2>3
    <3> HIDE DEF o
    <3>6. o = (k - b) + s /\ o <= k
      BY <3>3, <3>4, <3>5 DEF r
    <3> QED
      BY <1>2, <2>3, <3>6
  <2> HIDE DEF b, o
  <2> QED
    BY <1>2, <2>1, <2>2, <2>3
<1> DEFINE a == A + o
           m == (a - A) % Size
<1>5. o \in Nat /\ a \in Cells /\ m = o
  <2>1. k < b + n /\ k + s >= b + n
    OBVIOUS
  <2> HIDE DEF b, n, s, A, L, o
  <2>2. o \in 0 .. Size - 1 /\ A + o \in 0 .. Size - 1 /\ (A + o) - A = o
    BY <1>2, <1>4, <2>1
  <2>3. o % Size = o
    BY <1>2, <2>2, SmallMod
  <2> QED
    BY <2>2, <2>3 DEF Cells
<1>6. Holds(t, k) = dev[c].regs[p][a] /\ Holds(t, k)' = dev'[c].regs[p][a]
  BY DEF Holds, Stream, Chip, Paged, Switch, ChunkSize, Kind
<1>7. dev'[c].regs[p][a] = IF m < n THEN req[t].data[b + m] ELSE dev[c].regs[p][a]
  <2>1. n \in Nat
    BY <1>2
  <2> HIDE DEF a
  <2> QED
    BY <1>5, <2>1, ChunkFacts
<1>8. /\ k >= b => m < n /\ b + m = k
      /\ k < b  => ~(m < n)
  <2>1. k < b + n /\ k + s >= b + n
    OBVIOUS
  <2> HIDE DEF b, n, m, o, s
  <2> QED
    BY <1>2, <1>4, <1>5, <2>1
<1> HIDE DEF m, a, b, p
<1>9. k \in Int /\ b \in Int
  BY <1>2
<1> QED
  BY <1>6, <1>7, <1>8, <1>9 DEF b

\* What is sent reaches the registers it counts for, or the page, or the
\* address.
LEMMA SendStep ==
    ASSUME ContentInv, NEW t \in Threads, Send(t)
    PROVE  SessionAt(t)'
<1> DEFINE c == Chip(t)
           d == dev[c]
           e == dev'[c]
           b == Base(t)
           n == ChunkLen(t)
<1>1. /\ AtTransfer(t) /\ pc[t] = "transfer" /\ pc'[t] = "deselect"
      /\ \/ phase[t] = "page" /\ Paged(c)
         \/ phase[t] = "data" /\ Kind(t) = "write"
  BY SendFacts
<1>2. /\ TypeOK /\ TypeInv /\ PlaceAt(t) /\ SessionAt(t) /\ c \in Chips /\ IsAccess(t) /\ InSession(t)
      /\ ~Moved(t) /\ d \in Device /\ ChipAlone(c)
  BY <1>1, SessionFacts DEF InSession, AtTransfer, Moved, TypeOK, ContentInv
<1>10. n \in Nat
  BY <1>2, ChunkLenNat
<1>3. PICK ok \in BOOLEAN, reached \in BOOLEAN,
           l \in (IF ShortTransfers THEN 0 .. ChunkLen(t) ELSE {ChunkLen(t)}) :
        /\ got' = [got EXCEPT ![t] = IF ok THEN 1 ELSE -1]
        /\ clean' = [clean EXCEPT ![t] = @ /\ (ok => reached /\ l = n)]
        /\ dev' = [x \in Chips |->
                     IF ~reached \/ x \notin Listeners(Chip(t)) \/ dev[x].busy THEN dev[x]
                     ELSE IF phase[t] = "page" THEN [dev[x] EXCEPT !.page = req[t].page]
                     ELSE Written(t, x, l)]
  BY DEF Send
<1>12. l \in Nat /\ l <= n
  BY <1>3, <1>10
<1>4. UNCHANGED <<phase, req, chunk, status, out, ret, start, recv, recvLen, sendLen, part, misused>>
  BY DEF Send, buffers, setup
<1>5. /\ got'[t] >= 0 <=> ok
      /\ e = IF ~reached \/ c \notin Listeners(c) \/ d.busy THEN d
             ELSE IF phase[t] = "page" THEN [d EXCEPT !.page = req[t].page]
             ELSE Written(t, c, l)
  <2>1. got'[t] = IF ok THEN 1 ELSE -1
    BY <1>2, <1>3 DEF TypeOK
  <2> QED
    BY <1>2, <1>3, <2>1
<1>11. clean'[t] => clean[t] /\ (ok => reached /\ l = n)
  BY <1>2, <1>3 DEF TypeOK
<1>6. /\ c' = c /\ Kind(t)' = Kind(t) /\ ChunkSize(t)' = ChunkSize(t) /\ ChunkLen(t)' = ChunkLen(t)
      /\ Base(t)' = Base(t) /\ AtTransfer(t)' /\ InSession(t)' /\ Moved(t)' /\ ~BetweenChunks(t)'
      /\ (Done(t)' <=> ok)
      /\ Switch(c)' = Switch(c) /\ Stream(c)' = Stream(c) /\ Paged(c)' = Paged(c)
  <2>1. c' = c /\ Kind(t)' = Kind(t)
    BY <1>4 DEF Chip, Kind
  <2>2. Switch(c)' = Switch(c) /\ Stream(c)' = Stream(c) /\ Paged(c)' = Paged(c)
    BY <1>4, <2>1 DEF Switch, Stream, Paged
  <2>3. ChunkSize(t)' = ChunkSize(t)
    BY <2>1, <2>2 DEF ChunkSize
  <2>4. AtTransfer(t)' /\ InSession(t)' /\ Moved(t)' /\ ~BetweenChunks(t)' /\ (Done(t)' <=> ok)
    BY <1>1, <1>5 DEF AtTransfer, InSession, Moved, BetweenChunks, Done
  <2> QED
    BY <1>4, <2>1, <2>2, <2>3, <2>4 DEF ChunkLen, Base
<1>7. CountAt(t)'
  <2>1. CountAt(t)
    BY <1>2 DEF SessionAt
  <2>2. ret'[t] = 0 /\ pc'[t] \notin {"idle", "lock", "done", "unlock"}
    BY <1>1, <1>4, <2>1 DEF CountAt
  <2>3. ASSUME Kind(t) = "read"
        PROVE  /\ recvLen[c] <= req[t].len
               /\ \A k \in Cells : k >= recvLen[c] => out[t][k] = Blank
               /\ clean[t] => recvLen[c] = Base(t)
    BY <1>1, <1>2, <2>1, <2>3 DEF CountAt
  <2>4. phase'[t] = "data" => Kind(t) # "read"
    BY <1>1, <1>4
  <2> QED
    BY <1>4, <1>6, <1>11, <2>2, <2>3, <2>4 DEF CountAt
<1>8. ListenAt(t)'
  BY <1>1 DEF ListenAt
<1>9. ASSUME ~misused', clean'[t] PROVE ChipAt(t)' /\ DataAt(t)'
  <2>1. ChipAt(t) /\ DataAt(t) /\ clean[t] /\ ~misused
    BY <1>2, <1>4, <1>9, <1>11 DEF SessionAt
  <2>2. Listeners(c) = {c}
    BY <1>1, <2>1, OneListener
  <2>3. ~d.busy /\ (ok => reached /\ l = n)
    <3>1. CASE Switch(c)
      BY <1>1, <1>2, <1>9, <1>11, <2>1, <3>1 DEF ChipAt
    <3>2. CASE ~Switch(c)
      BY <1>2, <1>9, <1>11, <3>2 DEF ChipAlone
    <3> QED
      BY <3>1, <3>2
  <2>4. e = IF ~reached THEN d
            ELSE IF phase[t] = "page" THEN [d EXCEPT !.page = req[t].page]
            ELSE Written(t, c, l)
    BY <1>5, <2>2, <2>3
  <2>5. CASE phase[t] = "page"
    <3>1. e = d \/ e = [d EXCEPT !.page = req[t].page]
      BY <2>4, <2>5
    <3>2. /\ e.regs = d.regs /\ ~e.busy
          /\ ok => e.page = req[t].page
      BY <1>2, <2>3, <2>4, <2>5, <3>1 DEF Device
    <3>3. ~Stream(c) /\ Paged(c)
      BY <1>1, <2>5 DEF Stream, Paged
    <3>4. ChipAt(t)'
      BY <1>4, <1>6, <2>5, <3>2, <3>3 DEF ChipAt
    <3>5. Kind(t) = "read" => recvLen[c] = 0
      <4>1. Kind(t) = "read" => recvLen[c] = b
        BY <1>1, <1>2, <2>1 DEF SessionAt, CountAt
      <4>2. b = 0
        <5>1. chunk[t] = 0
          BY <1>1, <1>2, <2>5 DEF PlaceAt
        <5>2. \A s \in Nat : 0 * s = 0
          OBVIOUS
        <5> QED
          BY <5>1, <5>2, ChunkSizeType DEF Base
      <4> QED
        BY <4>1, <4>2
    <3>6. \A k \in Cells : ~(k < 0)
      BY DEF Cells
    <3>7. phase'[t] # "data"
      BY <1>4, <2>5
    <3> QED
      BY <1>4, <1>6, <3>3, <3>4, <3>5, <3>6, <3>7 DEF DataAt
  <2>6. CASE phase[t] = "data" /\ Kind(t) = "write"
    <3>1. e = IF reached THEN Written(t, c, l) ELSE d
      BY <2>4, <2>6
    <3>2. /\ Stream(c) /\ ok => e.pos = (d.pos + n) % Size
          /\ e.page = d.page
      <4>1. CASE reached
        <5>1. /\ Written(t, c, l).page = d.page
              /\ Written(t, c, l).pos = IF Stream(c) THEN (d.pos + l) % Size ELSE d.pos
          BY <1>2, <1>12, WrittenParts
        <5>2. e = Written(t, c, l) /\ (ok => l = n)
          BY <2>3, <3>1, <4>1
        <5> QED
          BY <5>1, <5>2
      <4>2. CASE ~reached
        BY <2>3, <3>1, <4>2
      <4> QED
        BY <4>1, <4>2
    <3>3. ChipAt(t)'
      <4>1. Stream(c) /\ ok => e.pos = (start[t] + (b + n)) % Size
        <5> SUFFICES ASSUME Stream(c), ok PROVE e.pos = (start[t] + (b + n)) % Size
          OBVIOUS
        <5>1. d.pos = (start[t] + b) % Size
          BY <1>1, <1>2, <2>1 DEF ChipAt
        <5>2. start[t] + b \in Nat /\ n \in Nat /\ Size \in Nat \ {0} /\ start[t] \in Nat /\ b \in Nat
          BY <1>1, SessionFacts DEF Cells
        <5>3. e.pos = ((start[t] + b) + n) % Size
          BY <3>2, <5>1, <5>2, ModAdd
        <5>4. (start[t] + b) + n = start[t] + (b + n)
          BY <5>2
        <5> QED
          BY <5>3, <5>4
      <4>2. Paged(c) => e.page = req[t].page
        BY <1>1, <2>1, <2>6, <3>2 DEF ChipAt
      <4>3. phase'[t] = "data" /\ Kind(t)' = "write" /\ req' = req /\ start' = start
        BY <1>4, <1>6, <2>6
      <4> QED
        BY <1>6, <4>1, <4>2, <4>3 DEF ChipAt
    <3>4. sendLen[c] = b /\ sendLen' = sendLen /\ b \in Nat /\ n \in Nat
      BY <1>1, <1>2, <1>4, <2>6, SessionFacts DEF PlaceAt, Base
    <3>5. BetweenChunks(t) /\ Stored(t, b)
      BY <1>1, <1>2, <2>1, <2>6, <3>4 DEF BetweenChunks, DataAt
    <3>6. Stream(c) => Stored(t, b)'
      <4> SUFFICES ASSUME Stream(c), NEW k \in Cells, k < b PROVE Holds(t, k)' = req[t].data[k]
        BY <1>4, <1>6 DEF Stored
      <4>1. Holds(t, k) = req[t].data[k]
        BY <3>5 DEF Stored
      <4>2. CASE reached
        <5>1. k < b + l /\ l \in Nat /\ l <= n
          BY <1>12, <3>4 DEF Cells
        <5>2. Holds(t, k)' = IF k < b THEN Holds(t, k) ELSE req[t].data[k]
          BY <1>1, <1>4, <2>1, <2>6, <3>1, <4>2, <5>1, StreamStores
        <5> QED
          BY <4>1, <5>2
      <4>3. CASE ~reached
        BY <1>4, <1>6, <3>1, <4>1, <4>3 DEF Holds
      <4> QED
        BY <4>2, <4>3
    <3>7. ok => Stored(t, b + n)'
      <4> SUFFICES ASSUME ok, NEW k \in Cells, k < b + n, Stream(c) \/ k + ChunkSize(t) >= b + n
                   PROVE  Holds(t, k)' = req[t].data[k]
        BY <1>4, <1>6 DEF Stored
      <4>1. reached /\ e = Written(t, c, n)
        BY <2>3, <3>1
      <4>2. Holds(t, k)' = IF k < b THEN Holds(t, k) ELSE req[t].data[k]
        BY <1>1, <1>4, <1>10, <2>1, <2>6, <4>1, StreamStores, ChunkStores
      <4>3. Stream(c) \/ k + ChunkSize(t) >= b
        <5>1. ChunkSize(t) \in Nat /\ k \in Nat
          BY ChunkSizeType DEF Cells
        <5> QED
          BY <3>4, <5>1
      <4>4. k < b => Holds(t, k) = req[t].data[k]
        BY <3>5, <4>3 DEF Stored
      <4> QED
        BY <4>2, <4>4
    <3>8. DataAt(t)'
      <4>1. /\ Stored(t, b)' <=> Stored(t, sendLen[c])'
            /\ Stored(t, b + n)' <=> Stored(t, sendLen[c] + ChunkLen(t))'
        BY <1>6, <3>4
      <4>2. Kind(t)' = "write" /\ ~BetweenChunks(t)' /\ (Done(t)' => ok) /\ (Stream(c)' => Stream(c))
        BY <1>6, <2>6
      <4> QED
        BY <3>6, <3>7, <4>1, <4>2 DEF DataAt
    <3> QED
      BY <3>3, <3>8
  <2> QED
    BY <1>1, <2>5, <2>6
<1> QED
  BY <1>7, <1>8, <1>9 DEF SessionAt

----------------------------------------------------------------------------
(* The theorems. *)

\* Before the first call the invariant holds.
LEMMA ContentInit == Init => ContentInv
<1> SUFFICES ASSUME Init PROVE ContentInv
  OBVIOUS
<1>1. TypeInv /\ SelectInv
  BY TypeInit, SelectInit
<1>2. ASSUME NEW c \in Chips PROVE ChipAlone(c)
  BY DEF Init, ChipAlone, PowerUp
<1>3. ASSUME NEW t \in Threads PROVE SessionAt(t)
  <2>1. pc[t] = "idle" /\ out[t] = NoData /\ ret[t] = 0
    BY DEF Init
  <2>2. ~InSession(t) /\ ~AtTransfer(t)
    BY <2>1 DEF InSession, AtTransfer
  <2> QED
    BY <2>1, <2>2 DEF SessionAt, CountAt, ListenAt, ChipAt, DataAt
<1> QED
  BY <1>1, <1>2, <1>3 DEF ContentInv

\* Every step of the program keeps the invariant.
LEMMA ContentNext == ContentInv /\ [Next]_vars => ContentInv'
<1> SUFFICES ASSUME ContentInv, [Next]_vars PROVE ContentInv'
  OBVIOUS
<1>1. TypeInv' /\ SelectInv'
  BY TypeNext, SelectNext DEF ContentInv, BusInv
<1>2. \A c \in Chips : ChipAlone(c)'
  BY AloneNext
<1>3. ASSUME NEW u \in Threads PROVE SessionAt(u)'
  <2>1. ASSUME NEW t \in Threads, Moves(t), t # u PROVE SessionAt(u)'
    BY <2>1, OthersSession
  <2>2. ASSUME Moves(u) PROVE SessionAt(u)'
    <3>1. CASE CsInit(u) \/ Call(u) \/ Consume(u) \/ Unlock(u)
      BY <3>1, OutsideSteps
    <3>2. CASE Lock(u) \/ SetFlag(u)
      BY <3>2, LockStep, SetFlagStep
    <3>3. CASE Select(u) \/ Receive(u) \/ Send(u) \/ Deselect(u)
      BY <3>3, SelectStep, ReceiveStep, SendStep, DeselectStep
    <3>4. CASE Fail(u) \/ PageNext(u) \/ AddrNext(u) \/ PollNext(u) \/ DataNext(u)
      BY <3>4, FailStep, PageNextStep, AddrNextStep, PollNextStep, DataNextStep
    <3> QED
      BY <2>2, <3>1, <3>2, <3>3, <3>4 DEF Moves, Session
  <2>3. ASSUME NEW c \in Chips, DeviceReady(c) \/ DeviceAnswers(c) PROVE SessionAt(u)'
    BY <2>3, SessionDevice
  <2>4. CASE UNCHANGED vars
    <3>1. UNCHANGED <<lock, pc, phase, req, chunk, delay, got, status, out, ret, clean, start, recv, recvLen,
                      sendLen, part, cs, misused, sel, dev>>
      BY <2>4 DEF vars, locals, buffers, setup
    <3>2. Rests(u) /\ SessionAt(u) /\ misused \in BOOLEAN
      BY <3>1 DEF Rests, ContentInv, TypeInv, TypeOK
    <3>3. CASE InSession(u)
      BY <3>1, <3>2, <3>3, SessionRests
    <3>4. CASE ~InSession(u)
      BY <3>2, <3>4, OutsideRests
    <3> QED
      BY <3>3, <3>4
  <2> QED
    BY <2>1, <2>2, <2>3, <2>4 DEF Next, Moves
<1> QED
  BY <1>1, <1>2, <1>3 DEF ContentInv

\* A device_read delivers what the registers of its page hold and nothing else,
\* whatever the other calls have left selected, fetched or half sent.
THEOREM RegistersRead == Spec => []ReadsRegisters
<1>1. ContentInv => ReadsRegisters
  <2> SUFFICES ASSUME ContentInv, NEW t \in Threads, InSession(t), Kind(t) = "read"
               PROVE  LET n == recvLen[Chip(t)] IN
                      /\ \A k \in Cells :
                           IF k >= n THEN out[t][k] = Blank
                           ELSE /\ k < req[t].len
                                /\ clean[t] /\ ~misused /\ (Switch(Chip(t)) => k \in Latch) =>
                                       out[t][k] = Holds(t, k)
                      /\ pc[t] = "unlock" /\ ret[t] = 0 /\ clean[t] => n = req[t].len
    BY DEF ReadsRegisters
  <2> DEFINE n == recvLen[Chip(t)]
  <2>1. TypeOK /\ SessionAt(t)
    BY DEF ContentInv, TypeInv
  <2>2. n \in 0 .. Size /\ req[t].len \in 0 .. Size /\ Size \in Nat
    BY <2>1, ChipType, SizeAssumption DEF TypeOK, Request
  <2>3. /\ n <= req[t].len
        /\ \A k \in Cells : k >= n => out[t][k] = Blank
        /\ clean[t] /\ pc[t] = "unlock" /\ ret[t] = 0 => n = req[t].len
    BY <2>1 DEF SessionAt, CountAt
  <2>4. ASSUME NEW k \in Cells, ~(k >= n) PROVE k < n /\ k < req[t].len
    <3> HIDE DEF n
    <3> QED
      BY <2>2, <2>3, <2>4 DEF Cells
  <2>5. ASSUME NEW k \in Cells, ~(k >= n), clean[t], ~misused, Switch(Chip(t)) => k \in Latch
        PROVE  out[t][k] = Holds(t, k)
    <3>1. DataAt(t) /\ Latched(t, k) /\ k < n
      BY <2>1, <2>4, <2>5 DEF SessionAt, Latched
    <3> QED
      BY <3>1 DEF DataAt
  <2> QED
    BY <2>3, <2>4, <2>5
<1> QED
  BY <1>1, ContentInit, ContentNext, PTL DEF Spec

\* A device_write leaves its bytes in the registers of the page it names.
THEOREM RegistersWritten == Spec => []WritesRegisters
<1>1. ContentInv => WritesRegisters
  <2> SUFFICES ASSUME ContentInv, NEW t \in Threads, InSession(t), Kind(t) = "write"
               PROVE  LET n == sendLen[Chip(t)] IN
                      /\ clean[t] /\ ~misused /\ (Stream(Chip(t)) \/ BetweenChunks(t)) => \A k \in Cells :
                             k < n /\ (Stream(Chip(t)) \/ k + ChunkSize(t) >= n) => Holds(t, k) = req[t].data[k]
                      /\ pc[t] = "unlock" /\ ret[t] = 0 => n = req[t].len
    BY DEF WritesRegisters
  <2>1. SessionAt(t)
    BY DEF ContentInv
  <2>2. pc[t] = "unlock" /\ ret[t] = 0 => sendLen[Chip(t)] = req[t].len
    BY <2>1 DEF SessionAt, CountAt
  <2>3. clean[t] /\ ~misused /\ (Stream(Chip(t)) \/ BetweenChunks(t)) => Stored(t, sendLen[Chip(t)])
    BY <2>1 DEF SessionAt, DataAt
  <2> QED
    BY <2>2, <2>3 DEF Stored
<1> QED
  BY <1>1, ContentInit, ContentNext, PTL DEF Spec
=============================================================================
