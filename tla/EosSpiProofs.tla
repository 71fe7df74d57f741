---------------------------- MODULE EosSpiProofs ----------------------------
(***************************************************************************)
(* Proofs about EosSpi, for every number of threads and chips, every size  *)
(* of memory and transfer, and every set of calls.                         *)
(***************************************************************************)
EXTENDS EosSpi, ChunkLemmas

\* The transfers that a call of each kind makes.
PhasesOf(k) ==
    CASE k = "read"        -> {"read"}
      [] k = "read_id"     -> {"id"}
      [] k = "read_status" -> {"poll"}
      [] OTHER             -> {"wren", "program", "poll"}

AtTransfer(t) == pc[t] \in {"select", "transfer", "deselect", "next"}
Locked(t)     == InSession(t) /\ Kind(t) # "read_status"

\* spi_lock is held by the thread that is inside a session, and by no other.
MutexInv == \A t \in Threads : Locked(t) <=> lock = t

\* Where a thread is in the loop of its session.
LoopInv == \A t \in Threads :
    /\ pc[t] \in {"idle", "lock", "done"} => chunk[t] = 0 /\ delay[t] = 0
    /\ pc[t] \in {"lock", "unlock"} => Kind(t) # "read_status"
    /\ pc[t] = "lock" => phase[t] = FirstPhase(req[t])
    /\ AtTransfer(t) =>
         /\ phase[t] \in PhasesOf(Kind(t))
         /\ delay[t] <= DelayMax
         /\ Kind(t) \in {"read", "write"} => chunk[t] * ChunkSize(t) < req[t].len
         /\ Kind(t) = "write" => sendLen[Chip(t)] = chunk[t] * WriteSize

TypeInv == TypeOK /\ MutexInv /\ LoopInv

----------------------------------------------------------------------------
(* The chunk a session is at. *)

\* The chunk a read or write is at: its size, and where it lies.
LEMMA ChunkLenRange ==
    ASSUME TypeOK, NEW t \in Threads, Kind(t) \in {"read", "write"},
           chunk[t] * ChunkSize(t) < req[t].len
    PROVE  /\ ChunkLen(t) \in 0 .. ChunkSize(t)
           /\ chunk[t] * ChunkSize(t) + ChunkLen(t) <= req[t].len
<1> DEFINE n == req[t].len
           s == ChunkSize(t)
           i == chunk[t]
<1>1. n \in Nat /\ s \in Nat \ {0} /\ i \in Nat
  BY SizeAssumption DEF TypeOK, Request, ChunkSize, Cells
<1>2. ChunkLen(t) = IF i < n \div s THEN s ELSE n % s
  BY DEF ChunkLen
<1> HIDE DEF n, s, i
<1>3. n % s \in 0 .. s - 1
  BY <1>1, ModRange
<1>4. i * s < n
  BY DEF n, s, i
<1>5. /\ i < n \div s => (i + 1) * s <= n
      /\ ~(i < n \div s) => i * s + (n % s) = n
  BY <1>1, <1>4, ChunkInside
<1>6. ChunkLen(t) \in 0 .. s /\ i * s + ChunkLen(t) <= n
  <2>1. CASE i < n \div s
    BY <2>1, <1>1, <1>2, <1>5
  <2>2. CASE ~(i < n \div s)
    BY <2>2, <1>1, <1>2, <1>3, <1>5
  <2> QED
    BY <2>1, <2>2
<1> QED
  BY <1>6 DEF n, s, i

\* The address of a chunk is a cell.
LEMMA ChunkAddrCell ==
    ASSUME TypeOK, NEW t \in Threads
    PROVE  ChunkAddr(t) \in Cells
<1> DEFINE a == req[t].addr + (chunk[t] * ChunkSize(t))
<1>1. a \in Int
  <2>1. req[t].addr \in Nat /\ chunk[t] \in Nat /\ ChunkSize(t) \in Nat
    BY SizeAssumption DEF TypeOK, Request, ChunkSize, Cells
  <2>2. chunk[t] * ChunkSize(t) \in Nat
    BY <2>1
  <2> QED
    BY <2>1, <2>2
<1>2. ChunkAddr(t) = a % MemSize
  BY DEF ChunkAddr
<1> HIDE DEF a
<1> QED
  BY <1>1, <1>2, ModRange, SizeAssumption DEF Cells

----------------------------------------------------------------------------
(* TypeInv is inductive. *)

\* Before the first call the invariant holds.
LEMMA TypeInit == Init => TypeInv
<1> SUFFICES ASSUME Init PROVE TypeInv
  OBVIOUS
<1> USE ThreadAssumption, ChipAssumption, SizeAssumption, RequestAssumption
<1>1. NoData \in [Cells -> Bytes] /\ Forgotten \in
        [op : Phases \cup {"data"}, addr : Cells, bytes : [Slots -> Bytes]]
  BY DEF NoData, Forgotten, Unread, Bytes, Phases, Cells
<1>2. NoRequest \in Request
  BY <1>1 DEF NoRequest, Request, Kinds, Cells
<1>3. TypeOK
  BY <1>1, <1>2 DEF Init, TypeOK, Pcs, Phases
<1>4. MutexInv
  BY DEF Init, MutexInv, Locked, InSession
<1>5. LoopInv
  BY DEF Init, LoopInv, AtTransfer
<1> QED
  BY <1>3, <1>4, <1>5 DEF TypeInv

\* A call starts with a request of its kind and outside every loop.
LEMMA TypeCall ==
    ASSUME TypeInv, NEW t \in Threads, Call(t) PROVE TypeInv'
<1> USE ThreadAssumption, SizeAssumption, RequestAssumption DEF TypeInv
<1> PICK r \in Requests :
      /\ req' = [req EXCEPT ![t] = r]
      /\ phase' = [phase EXCEPT ![t] = FirstPhase(r)]
      /\ pc' = [pc EXCEPT ![t] = IF r.kind = "read_status" THEN "select" ELSE "lock"]
  BY DEF Call
<1>1. r \in Request /\ FirstPhase(r) \in Phases
  BY DEF FirstPhase, Phases
<1>2. TypeOK'
  BY <1>1 DEF Call, TypeOK, Pcs, buffers, device
<1>3. MutexInv'
  BY DEF Call, MutexInv, Locked, InSession, Kind, TypeOK
<1>4. LoopInv'
  BY <1>1 DEF Call, LoopInv, AtTransfer, TypeOK, Kind, Chip, FirstPhase, PhasesOf, buffers, ChunkSize
<1> QED
  BY <1>2, <1>3, <1>4

\* The lock goes to one thread, which enters its loop at the first chunk or has
\* nothing to do.
LEMMA TypeLock ==
    ASSUME TypeInv, NEW t \in Threads, Lock(t) PROVE TypeInv'
<1> USE ThreadAssumption, SizeAssumption DEF TypeInv
<1>1. TypeOK'
  BY DEF Lock, TypeOK, ResetLengths, Pcs, locals, device
<1>2. MutexInv'
  BY DEF Lock, MutexInv, LoopInv, Locked, InSession, Kind, TypeOK, locals
<1>3. LoopInv'
  BY DEF Lock, LoopInv, MutexInv, Locked, InSession, AtTransfer, TypeOK, Kind, Chip, FirstPhase,
         PhasesOf, ResetLengths, NothingToDo, locals, ChunkSize, Request, Kinds
<1> QED
  BY <1>1, <1>2, <1>3

\* A select begins a transfer of the phase the thread is in.
LEMMA TypeSelect ==
    ASSUME TypeInv, NEW t \in Threads, Select(t) PROVE TypeInv'
<1> USE ThreadAssumption, SizeAssumption DEF TypeInv
<1>1. TypeOK'
  <2>1. ChunkAddr(t) \in Cells /\ Unread \in [Slots -> Bytes] /\ 0 \in Cells
    BY ChunkAddrCell DEF Unread, Bytes, Cells
  <2> QED
    BY <2>1 DEF Select, TypeOK, Pcs, Chip, Request, locals, device
<1>2. MutexInv'
  BY DEF Select, MutexInv, Locked, InSession, Kind, TypeOK, locals
<1>3. LoopInv'
  BY DEF Select, LoopInv, AtTransfer, TypeOK, Kind, Chip, locals, ChunkSize
<1> QED
  BY <1>1, <1>2, <1>3

\* A receive fills the buffer with bytes and counts at most what was wanted.
LEMMA TypeReceive ==
    ASSUME TypeInv, NEW t \in Threads, Receive(t) PROVE TypeInv'
<1> USE ThreadAssumption, SizeAssumption, ByteAssumption DEF TypeInv
<1>1. TypeOK'
  <2>1. \A k \in Slots : Answer(Chip(t), k) \in Bytes
    <3> SUFFICES ASSUME NEW k \in Slots PROVE Answer(Chip(t), k) \in Bytes
      OBVIOUS
    <3>1. Chip(t) \in Chips
      BY DEF TypeOK, Request, Chip
    <3>2. recv[Chip(t)].addr + k \in Int
      BY <3>1 DEF TypeOK, Slots, Cells
    <3>3. (recv[Chip(t)].addr + k) % MemSize \in Cells
      BY <3>2, ModRange DEF Cells
    <3>4. mem[Chip(t)][(recv[Chip(t)].addr + k) % MemSize] \in Bytes
      BY <3>1, <3>3 DEF TypeOK
    <3> QED
      BY <3>4 DEF Answer, StatusByte, Bytes
  <2>2. Wanted(t) \in 0 .. ReadSize
    <3>1. CASE phase[t] = "read"
      <4>1. Kind(t) = "read" /\ chunk[t] * ChunkSize(t) < req[t].len
        BY <3>1 DEF Receive, LoopInv, AtTransfer, PhasesOf, TypeOK, Request, Kinds, Kind
      <4>2. ChunkLen(t) \in 0 .. ReadSize
        BY <4>1, ChunkLenRange DEF ChunkSize
      <4> QED
        BY <3>1, <4>2 DEF Wanted
    <3>2. CASE phase[t] # "read"
      BY <3>2 DEF Wanted
    <3> QED
      BY <3>1, <3>2
  <2>3. got' \in [Threads -> -1 .. ReadSize]
    BY <2>2 DEF Receive, TypeOK
  <2>4. Garbage \in Bytes /\ 0 \in Cells
    BY DEF Bytes, Cells
  <2>5. recv' \in [Chips -> [op : Phases \cup {"data"}, addr : Cells, bytes : [Slots -> Bytes]]]
    <3>1. CASE recv' = recv
      BY <3>1 DEF TypeOK
    <3>2. ASSUME NEW n \in Nat,
                 recv' = [recv EXCEPT ![Chip(t)] =
                            [op |-> "data", addr |-> 0,
                             bytes |-> [k \in Slots |->
                                          IF k < n THEN Answer(Chip(t), k) ELSE Garbage]]]
          PROVE  recv' \in [Chips -> [op : Phases \cup {"data"}, addr : Cells,
                                      bytes : [Slots -> Bytes]]]
      <4>1. [k \in Slots |-> IF k < n THEN Answer(Chip(t), k) ELSE Garbage] \in [Slots -> Bytes]
        BY <2>1, <2>4
      <4> QED
        BY <3>2, <4>1, <2>4 DEF TypeOK
    <3>3. 0 .. Wanted(t) \subseteq Nat /\ {Wanted(t)} \subseteq Nat
      BY <2>2
    <3> QED
      BY <3>1, <3>2, <3>3 DEF Receive
  <2> QED
    BY <2>3, <2>5 DEF Receive, TypeOK, Pcs, device
<1>2. MutexInv'
  BY DEF Receive, MutexInv, Locked, InSession, Kind, TypeOK
<1>3. LoopInv'
  BY DEF Receive, LoopInv, AtTransfer, TypeOK, Kind, Chip, ChunkSize
<1> QED
  BY <1>1, <1>2, <1>3

\* A chunk has some number of bytes.
LEMMA SentNat ==
    ASSUME TypeOK, NEW t \in Threads PROVE ChunkLen(t) \in Nat
<1>1. req[t].len \in Nat /\ req[t].len \in Int /\ ChunkSize(t) \in Nat \ {0}
  BY SizeAssumption DEF TypeOK, Request, ChunkSize
<1>2. req[t].len % ChunkSize(t) \in 0 .. ChunkSize(t) - 1
  BY <1>1, ModRange
<1> QED
  BY <1>1, <1>2 DEF ChunkLen


\* What a chip holds after a program or an erase is again made of bytes.
LEMMA ProgrammedType ==
    ASSUME TypeInv, NEW t \in Threads, NEW d \in Chips,
           pc[t] = "transfer", phase[t] = "program", NEW n \in Nat, n <= ChunkLen(t)
    PROVE  Programmed(t, d, n) \in [Cells -> Bytes]
<1> USE SizeAssumption DEF TypeInv
<1>1. CASE Kind(t) = "write"
  <2>1. chunk[t] * ChunkSize(t) < req[t].len /\ sendLen[Chip(t)] = chunk[t] * ChunkSize(t)
    BY <1>1 DEF LoopInv, AtTransfer, ChunkSize
  <2>2. ChunkLen(t) \in Nat /\ sendLen[Chip(t)] + ChunkLen(t) <= req[t].len
    BY <1>1, <2>1, ChunkLenRange DEF ChunkSize
  <2>3. req[t].len <= MemSize /\ sendLen[Chip(t)] \in Nat /\ req[t].data \in [Cells -> Bytes]
    BY DEF TypeOK, Request, Chip
  <2>4. ASSUME NEW a \in Cells, Hit(d, ChunkAddr(t), n, a)
        PROVE  req[t].data[sendLen[Chip(t)] + ((a - ChunkAddr(t)) % WrapSize(d))] \in Bytes
    <3>1. a - ChunkAddr(t) \in Int /\ WrapSize(d) \in Nat \ {0}
      BY ChunkAddrCell DEF WrapSize, Cells
    <3>2. (a - ChunkAddr(t)) % WrapSize(d) \in 0 .. WrapSize(d) - 1
      BY <3>1, ModRange
    <3>3. (a - ChunkAddr(t)) % WrapSize(d) < ChunkLen(t)
      BY <2>2, <2>4, <3>2 DEF Hit
    <3> DEFINE k == (a - ChunkAddr(t)) % WrapSize(d)
               base == sendLen[Chip(t)]
    <3>4. k \in Nat /\ k < ChunkLen(t)
      BY <3>1, <3>2, <3>3
    <3>5. base \in Nat /\ base + ChunkLen(t) <= MemSize /\ ChunkLen(t) \in Nat
      <4>1. req[t].len \in Nat
        BY DEF TypeOK, Request
      <4> QED
        BY <2>2, <2>3, <4>1
    <3>6. req[t].data[base + k] \in Bytes
      <4> HIDE DEF k, base
      <4>1. base + k \in Cells
        BY <3>4, <3>5 DEF Cells
      <4> QED
        BY <4>1, <2>3
    <3> QED
      BY <3>6
  <2>5. \A a \in Cells : mem[d][a] \in Bytes
    BY DEF TypeOK
  <2> QED
    BY <1>1, <2>4, <2>5 DEF Programmed
<1>2. CASE Kind(t) # "write"
  BY <1>2 DEF Programmed, NoData, Bytes, TypeOK
<1> QED
  BY <1>1, <1>2

\* A chunk that is sent lies inside the data of the caller.
LEMMA TypeSend ==
    ASSUME TypeInv, NEW t \in Threads, Send(t) PROVE TypeInv'
<1> USE ThreadAssumption, SizeAssumption DEF TypeInv
<1>1. TypeOK'
  <2> PICK ok \in BOOLEAN, reached \in BOOLEAN,
           n \in (IF ShortTransfers THEN 0 .. ChunkLen(t) ELSE {ChunkLen(t)}) :
         LET heard == IF reached THEN {d \in Listeners(Chip(t)) : ~busy[d]} ELSE {}
             obeyed == IF phase[t] = "program" THEN {d \in heard : Obeys(d)} ELSE {}
         IN /\ ok => reached \/ ShortTransfers
            /\ got' = [got EXCEPT ![t] = IF ok THEN 1 ELSE -1]
            /\ wel' = [d \in Chips |-> IF phase[t] = "wren" THEN wel[d] \/ d \in heard
                                                            ELSE wel[d] /\ d \notin obeyed]
            /\ mem' = [d \in Chips |-> IF d \in obeyed THEN Programmed(t, d, n) ELSE mem[d]]
            /\ busy' = [d \in Chips |-> busy[d] \/ (d \in obeyed /\ Polls(d))]
    BY DEF Send
  <2> DEFINE heard == IF reached THEN {d \in Listeners(Chip(t)) : ~busy[d]} ELSE {}
             obeyed == IF phase[t] = "program" THEN {d \in heard : Obeys(d)} ELSE {}
  <2>1. ASSUME NEW d \in Chips, d \in obeyed PROVE Programmed(t, d, n) \in [Cells -> Bytes]
    <3>1. ChunkLen(t) \in Nat
      BY SentNat
    <3> QED
      BY <2>1, <3>1, ProgrammedType DEF Send
  <2>2. mem' = [d \in Chips |-> IF d \in obeyed THEN Programmed(t, d, n) ELSE mem[d]]
    OBVIOUS
  <2>3. wel' = [d \in Chips |-> IF phase[t] = "wren" THEN wel[d] \/ d \in heard
                                                     ELSE wel[d] /\ d \notin obeyed]
    OBVIOUS
  <2>4. busy' = [d \in Chips |-> busy[d] \/ (d \in obeyed /\ Polls(d))]
    OBVIOUS
  <2>5. got' \in [Threads -> -1 .. ReadSize]
    BY DEF TypeOK
  <2> HIDE DEF heard, obeyed
  <2>6. mem' \in [Chips -> [Cells -> Bytes]]
    BY <2>1, <2>2 DEF TypeOK
  <2>7. wel' \in [Chips -> BOOLEAN] /\ busy' \in [Chips -> BOOLEAN]
    BY <2>3, <2>4, Zenon DEF TypeOK
  <2> QED
    BY <2>5, <2>6, <2>7 DEF Send, TypeOK, Pcs, buffers
<1>2. MutexInv'
  BY DEF Send, MutexInv, Locked, InSession, Kind, TypeOK
<1>3. LoopInv'
  BY DEF Send, LoopInv, AtTransfer, TypeOK, Kind, Chip, ChunkSize, buffers
<1> QED
  BY <1>1, <1>2, <1>3

\* A deselect ends the transfer and keeps the place in the loop.
LEMMA TypeDeselect ==
    ASSUME TypeInv, NEW t \in Threads, Deselect(t) PROVE TypeInv'
<1> USE ThreadAssumption, SizeAssumption DEF TypeInv
<1>1. TypeOK'
  BY DEF Deselect, TypeOK, Pcs, locals, buffers, device
<1>2. MutexInv'
  BY DEF Deselect, MutexInv, Locked, InSession, Kind, TypeOK, locals
<1>3. LoopInv'
  BY DEF Deselect, LoopInv, AtTransfer, TypeOK, Kind, Chip, ChunkSize, locals, buffers
<1> QED
  BY <1>1, <1>2, <1>3

\* A failed transfer leads to the unlock.
LEMMA TypeFail ==
    ASSUME TypeInv, NEW t \in Threads, Fail(t) PROVE TypeInv'
<1> USE ThreadAssumption, SizeAssumption DEF TypeInv
<1>1. TypeOK'
  BY DEF Fail, Finish, TypeOK, Pcs, buffers, device
<1>2. MutexInv'
  BY DEF Fail, Finish, MutexInv, Locked, InSession, Kind, TypeOK
<1>3. LoopInv'
  BY DEF Fail, Finish, LoopInv, AtTransfer, TypeOK, Kind, Chip, ChunkSize, buffers
<1> QED
  BY <1>1, <1>2, <1>3

\* A read goes on with the next chunk while there is one.
LEMMA TypeReadNext ==
    ASSUME TypeInv, NEW t \in Threads, ReadNext(t) PROVE TypeInv'
<1> USE ThreadAssumption, SizeAssumption DEF TypeInv
<1>1. Kind(t) = "read" /\ Chip(t) \in Chips
  BY DEF ReadNext, LoopInv, AtTransfer, PhasesOf, TypeOK, Request, Kinds, Kind, Chip
<1>2. TypeOK'
  <2>1. Copied(t) \in [Cells -> Bytes]
    <3> SUFFICES ASSUME NEW k \in Cells,
                        k \in recvLen[Chip(t)] .. recvLen[Chip(t)] + got[t] - 1
                 PROVE  recv[Chip(t)].bytes[k - recvLen[Chip(t)]] \in Bytes
      BY DEF Copied, TypeOK
    <3>1. recvLen[Chip(t)] \in Nat /\ got[t] \in -1 .. ReadSize /\ k \in Nat
      BY <1>1 DEF TypeOK, Cells
    <3>2. k - recvLen[Chip(t)] \in Slots
      BY <3>1 DEF Slots
    <3> QED
      BY <1>1, <3>2 DEF TypeOK
  <2>2. recvLen' \in [Chips -> Nat] /\ chunk' \in [Threads -> Nat]
    BY <1>1 DEF ReadNext, TypeOK
  <2> QED
    BY <2>1, <2>2 DEF ReadNext, Continue, Finish, TypeOK, Pcs, Phases, device
<1>3. MutexInv'
  BY <1>1 DEF ReadNext, Continue, Finish, MutexInv, Locked, InSession, Kind, TypeOK
<1>4. LoopInv'
  BY <1>1 DEF ReadNext, Continue, Finish, MoreChunks, LoopInv, AtTransfer, TypeOK, Kind, Chip,
              ChunkSize, PhasesOf
<1> QED
  BY <1>2, <1>3, <1>4

\* An identification is one transfer.
LEMMA TypeIdNext ==
    ASSUME TypeInv, NEW t \in Threads, IdNext(t) PROVE TypeInv'
<1> USE ThreadAssumption, SizeAssumption DEF TypeInv
<1>1. Kind(t) = "read_id" /\ Chip(t) \in Chips
  BY DEF IdNext, LoopInv, AtTransfer, PhasesOf, TypeOK, Request, Kinds, Kind, Chip
<1>2. recv[Chip(t)].bytes[0] \in Bytes
  BY <1>1 DEF TypeOK, Slots
<1>3. TypeOK'
  <2>1. out' \in [Threads -> [Cells -> Bytes]]
    <3>1. CASE out' = out
      BY <3>1 DEF TypeOK
    <3>2. CASE out' = [out EXCEPT ![t][0] = recv[Chip(t)].bytes[0]]
      BY <3>2, <1>2 DEF TypeOK
    <3> QED
      BY <3>1, <3>2 DEF IdNext
  <2>2. ret' \in [Threads -> Int]
    BY DEF IdNext, TypeOK
  <2> QED
    BY <2>1, <2>2 DEF IdNext, Finish, TypeOK, Pcs, buffers, device
<1>4. MutexInv'
  BY <1>1 DEF IdNext, Finish, MutexInv, Locked, InSession, Kind, TypeOK
<1>5. LoopInv'
  BY <1>1 DEF IdNext, Finish, LoopInv, AtTransfer, TypeOK, Kind, Chip, ChunkSize, buffers
<1> QED
  BY <1>3, <1>4, <1>5

\* A write enable leads to the program of the same chunk.
LEMMA TypeWrenNext ==
    ASSUME TypeInv, NEW t \in Threads, WrenNext(t) PROVE TypeInv'
<1> USE ThreadAssumption, SizeAssumption DEF TypeInv
<1>1. TypeOK'
  BY DEF WrenNext, Continue, TypeOK, Pcs, Phases, buffers, device
<1>2. MutexInv'
  BY DEF WrenNext, Continue, MutexInv, Locked, InSession, Kind, TypeOK
<1>3. LoopInv'
  BY DEF WrenNext, Continue, LoopInv, AtTransfer, TypeOK, Kind, Chip, ChunkSize, PhasesOf, buffers
<1> QED
  BY <1>1, <1>2, <1>3

\* A chunk that is not the last one is a full one.
LEMMA MoreIsFull ==
    ASSUME TypeOK, NEW t \in Threads, chunk[t] * ChunkSize(t) < req[t].len, MoreChunks(t)
    PROVE  ChunkLen(t) = ChunkSize(t)
<1> DEFINE n == req[t].len
           s == ChunkSize(t)
           i == chunk[t]
<1>1. n \in Nat /\ s \in Nat \ {0} /\ i \in Nat
  BY SizeAssumption DEF TypeOK, Request, ChunkSize, Cells
<1>2. ChunkLen(t) = IF i < n \div s THEN s ELSE n % s
  BY DEF ChunkLen
<1>3. i * s < n /\ (i + 1) * s < n
  BY DEF MoreChunks
<1> HIDE DEF n, s, i
<1>4. ~(i < n \div s) => i * s + (n % s) = n
  BY <1>1, <1>3, ChunkInside
<1>5. n % s \in 0 .. s - 1
  BY <1>1, ModRange
<1>6. (i + 1) * s = i * s + s
  BY <1>1
<1>7. i < n \div s
  BY <1>1, <1>3, <1>4, <1>5, <1>6
<1>8. ChunkLen(t) = s
  BY <1>2, <1>7
<1> QED
  BY <1>8 DEF s

\* The end of a chunk keeps the loop invariant: _sendLen and the loop counter
\* advance together.
LEMMA ChunkDoneKeeps ==
    ASSUME TypeInv, NEW t \in Threads, pc[t] = "next",
           phase[t] \in {"program", "poll"}, Kind(t) # "read_status", ChunkDone(t)
    PROVE  /\ sendLen' \in [Chips -> Nat] /\ chunk' \in [Threads -> Nat]
           /\ phase' \in [Threads -> Phases] /\ pc' \in [Threads -> Pcs]
           /\ \E p \in {"wren", "program", phase[t]} : phase' = [phase EXCEPT ![t] = p]
           /\ \E p \in {"select", "unlock"} : pc' = [pc EXCEPT ![t] = p]
           /\ \A u \in Threads \ {t} : chunk'[u] = chunk[u]
           /\ \A c \in Chips \ {Chip(t)} : sendLen'[c] = sendLen[c]
           /\ pc'[t] = "select" =>
                /\ Kind(t) = "write"
                /\ phase'[t] \in {"wren", "program"}
                /\ chunk'[t] * ChunkSize(t) < req[t].len
                /\ sendLen'[Chip(t)] = chunk'[t] * ChunkSize(t)
<1> USE SizeAssumption DEF TypeInv
<1>1. Chip(t) \in Chips
  BY DEF TypeOK, Request, Chip
<1>2. CASE Kind(t) # "write"
  BY <1>2 DEF ChunkDone, Finish, TypeOK, Pcs
<1>3. CASE Kind(t) = "write"
  <2>1. chunk[t] * ChunkSize(t) < req[t].len /\ sendLen[Chip(t)] = chunk[t] * ChunkSize(t)
    BY <1>3 DEF LoopInv, AtTransfer, ChunkSize
  <2>2. ChunkLen(t) \in Nat
    BY <1>3, <2>1, ChunkLenRange DEF ChunkSize
  <2>3. sendLen' = [sendLen EXCEPT ![Chip(t)] = @ + ChunkLen(t)]
        /\ chunk' = [chunk EXCEPT ![t] = @ + 1]
    BY <1>3 DEF ChunkDone
  <2>4. sendLen' \in [Chips -> Nat] /\ chunk' \in [Threads -> Nat]
    BY <1>1, <2>2, <2>3 DEF TypeOK
  <2>5. CASE MoreChunks(t)
    <3>1. Continue(t, FirstPhase(req[t]))
      BY <1>3, <2>5 DEF ChunkDone
    <3>2. FirstPhase(req[t]) \in {"wren", "program"}
      BY <1>3 DEF FirstPhase, Kind
    <3>3. chunk'[t] * ChunkSize(t) < req[t].len
      BY <2>3, <2>5 DEF MoreChunks, TypeOK
    <3>4. sendLen'[Chip(t)] = chunk[t] * ChunkSize(t) + ChunkSize(t)
      BY <1>1, <2>1, <2>3, <2>5, MoreIsFull DEF TypeOK
    <3>5. (chunk[t] + 1) * ChunkSize(t) = chunk[t] * ChunkSize(t) + ChunkSize(t)
      <4>1. chunk[t] \in Nat /\ ChunkSize(t) \in Nat
        BY DEF TypeOK, ChunkSize
      <4> QED
        BY <4>1, Distribute
    <3>6. sendLen'[Chip(t)] = chunk'[t] * ChunkSize(t)
      BY <2>3, <3>4, <3>5 DEF TypeOK
    <3> QED
      BY <1>3, <2>3, <2>4, <3>1, <3>2, <3>3, <3>6 DEF Continue, TypeOK, Pcs, Phases
  <2>6. CASE ~MoreChunks(t)
    BY <1>3, <2>3, <2>4, <2>6 DEF ChunkDone, Finish, TypeOK, Pcs, Phases
  <2> QED
    BY <2>5, <2>6
<1> QED
  BY <1>2, <1>3

\* No other thread is inside a write session while t is inside a session.
LEMMA OnlyOne ==
    ASSUME TypeInv, NEW t \in Threads, NEW u \in Threads, Locked(t), Locked(u)
    PROVE  u = t
BY DEF TypeInv, MutexInv

\* A program leads to its poll, or the loop goes on.
LEMMA TypeProgramNext ==
    ASSUME TypeInv, NEW t \in Threads, ProgramNext(t) PROVE TypeInv'
<1> USE ThreadAssumption, SizeAssumption DEF TypeInv
<1>1. /\ Kind(t) \in {"write", "erase", "write_status"} /\ Locked(t)
      /\ phase[t] = "program" /\ pc[t] = "next" /\ Chip(t) \in Chips
  BY DEF ProgramNext, LoopInv, AtTransfer, PhasesOf, TypeOK, Request, Kinds, Kind, Chip, Locked,
         InSession
<1>2. CASE Waits(t)
  <2>1. Continue(t, "poll") /\ UNCHANGED <<sendLen, chunk>> /\ delay' = [delay EXCEPT ![t] = 0]
    BY <1>2 DEF ProgramNext
  <2>2. TypeOK'
    BY <2>1 DEF ProgramNext, Continue, TypeOK, Pcs, Phases, device
  <2>3. MutexInv'
    BY <2>1 DEF ProgramNext, Continue, MutexInv, Locked, InSession, Kind, TypeOK
  <2>4. LoopInv'
    BY <1>1, <2>1 DEF ProgramNext, Continue, LoopInv, AtTransfer, TypeOK, Kind, Chip, ChunkSize,
                      PhasesOf
  <2> QED
    BY <2>2, <2>3, <2>4
<1>3. CASE ~Waits(t)
  <2>1. ChunkDone(t) /\ delay' = [delay EXCEPT ![t] = 0]
    BY <1>3 DEF ProgramNext
  <2>2. /\ sendLen' \in [Chips -> Nat] /\ chunk' \in [Threads -> Nat]
        /\ phase' \in [Threads -> Phases] /\ pc' \in [Threads -> Pcs]
        /\ \E p \in {"wren", "program", phase[t]} : phase' = [phase EXCEPT ![t] = p]
        /\ \E p \in {"select", "unlock"} : pc' = [pc EXCEPT ![t] = p]
        /\ \A u \in Threads \ {t} : chunk'[u] = chunk[u]
        /\ \A c \in Chips \ {Chip(t)} : sendLen'[c] = sendLen[c]
        /\ pc'[t] = "select" =>
             /\ Kind(t) = "write"
             /\ phase'[t] \in {"wren", "program"}
             /\ chunk'[t] * ChunkSize(t) < req[t].len
             /\ sendLen'[Chip(t)] = chunk'[t] * ChunkSize(t)
    BY <1>1, <2>1, ChunkDoneKeeps
  <2>3. TypeOK'
    BY <2>1, <2>2 DEF ProgramNext, TypeOK, device
  <2>4. MutexInv'
    BY <1>1, <2>2 DEF ProgramNext, MutexInv, Locked, InSession, Kind, TypeOK
  <2>5. LoopInv'
    <3> SUFFICES ASSUME NEW u \in Threads
                 PROVE  (/\ pc[u] \in {"idle", "lock", "done"} => chunk[u] = 0 /\ delay[u] = 0
                         /\ pc[u] \in {"lock", "unlock"} => Kind(u) # "read_status"
                         /\ pc[u] = "lock" => phase[u] = FirstPhase(req[u])
                         /\ AtTransfer(u) =>
                              /\ phase[u] \in PhasesOf(Kind(u))
                              /\ delay[u] <= DelayMax
                              /\ Kind(u) \in {"read", "write"} => chunk[u] * ChunkSize(u) < req[u].len
                              /\ Kind(u) = "write" => sendLen[Chip(u)] = chunk[u] * WriteSize)'
      BY DEF LoopInv
    <3>1. CASE u = t
      BY <1>1, <2>1, <2>2, <3>1 DEF ProgramNext, LoopInv, AtTransfer, TypeOK, Kind, Chip, ChunkSize,
                                     PhasesOf
    <3>2. CASE u # t
      <4>1. AtTransfer(u) /\ Kind(u) = "write" => u = t
        BY <1>1, OnlyOne DEF AtTransfer, Locked, InSession
      <4> QED
        BY <1>1, <2>1, <2>2, <3>2, <4>1 DEF ProgramNext, LoopInv, AtTransfer, TypeOK, Kind, Chip,
                                            ChunkSize
    <3> QED
      BY <3>1, <3>2
  <2> QED
    BY <2>3, <2>4, <2>5
<1> QED
  BY <1>2, <1>3

\* A public status read ends after one transfer.
LEMMA TypeStatusNext ==
    ASSUME TypeInv, NEW t \in Threads, StatusNext(t) PROVE TypeInv'
<1> USE ThreadAssumption, SizeAssumption DEF TypeInv
<1>1. TypeOK'
  BY DEF StatusNext, StatusBit, Leave, NoData, TypeOK, Pcs, Phases, Bytes, buffers, device
<1>2. MutexInv'
  BY DEF StatusNext, Leave, MutexInv, Locked, InSession, Kind, TypeOK
<1>3. LoopInv'
  BY DEF StatusNext, Leave, LoopInv, AtTransfer, TypeOK, Kind, Chip, ChunkSize, buffers
<1> QED
  BY <1>1, <1>2, <1>3

\* The holder gives up the lock outside every loop.
LEMMA TypeUnlock ==
    ASSUME TypeInv, NEW t \in Threads, Unlock(t) PROVE TypeInv'
<1> USE ThreadAssumption, SizeAssumption DEF TypeInv
<1>1. Locked(t) /\ lock = t /\ Chip(t) \in Chips
  BY DEF Unlock, LoopInv, MutexInv, Locked, InSession, TypeOK, Request, Chip
<1>2. TypeOK'
  <2>1. Forgotten \in [op : Phases \cup {"data"}, addr : Cells, bytes : [Slots -> Bytes]]
        /\ StaleLen \in Nat
    BY DEF Forgotten, Unread, Bytes, Phases, Cells, StaleLen
  <2>2. unsettled' \in [Chips -> BOOLEAN]
    BY <1>1 DEF Unlock, TypeOK, Polls, PollsErase
  <2>3. ret' \in [Threads -> Int]
    BY <1>1 DEF Unlock, TypeOK
  <2> QED
    BY <1>1, <2>1, <2>2, <2>3 DEF Unlock, TypeOK, Pcs, device
<1>3. MutexInv'
  BY <1>1 DEF Unlock, MutexInv, Locked, InSession, Kind, TypeOK
<1>4. LoopInv'
  BY <1>1 DEF Unlock, LoopInv, MutexInv, Locked, InSession, AtTransfer, TypeOK, Kind, Chip, ChunkSize
<1> QED
  BY <1>2, <1>3, <1>4

\* A return leaves what the caller will find.
LEMMA TypeReturn ==
    ASSUME TypeInv, NEW t \in Threads, Return(t) PROVE TypeInv'
<1> USE ThreadAssumption, SizeAssumption DEF TypeInv
<1>1. TypeOK'
  <2>1. ret' \in [Threads -> Int]
    BY DEF Return, TypeOK, Request, Chip
  <2> QED
    BY <2>1 DEF Return, Leave, NoData, TypeOK, Pcs, Phases, Bytes, buffers, device
<1>2. MutexInv'
  BY DEF Return, Leave, MutexInv, Locked, InSession, Kind, TypeOK
<1>3. LoopInv'
  BY DEF Return, Leave, LoopInv, AtTransfer, TypeOK, Kind, Chip, ChunkSize, buffers
<1> QED
  BY <1>1, <1>2, <1>3

\* A poll gives up before its counter passes the limit.
LEMMA TypePollNext ==
    ASSUME TypeInv, NEW t \in Threads, PollNext(t) PROVE TypeInv'
<1> USE ThreadAssumption, SizeAssumption DEF TypeInv
<1>1. /\ Kind(t) \in {"write", "erase", "write_status"} /\ Locked(t)
      /\ phase[t] = "poll" /\ pc[t] = "next" /\ Chip(t) \in Chips /\ delay[t] <= DelayMax
      /\ UNCHANGED <<lock, req, got, out, recv, recvLen, sel, device, unsettled>>
  BY DEF PollNext, LoopInv, AtTransfer, PhasesOf, TypeOK, Request, Kinds, Kind, Chip, Locked,
         InSession
<1>2. ASSUME delay' = [delay EXCEPT ![t] = NextDelay(t)],
             IF GiveUp(t) THEN ret' = [ret EXCEPT ![t] = -1] /\ Finish(t)
                          ELSE ret' = ret /\ Continue(t, "poll"),
             UNCHANGED <<sendLen, chunk>>
      PROVE  TypeInv'
  <2>1. delay' \in [Threads -> 0 .. DelayMax + 1]
    BY <1>1, <1>2 DEF NextDelay, TypeOK
  <2>2. TypeOK'
    <3>1. ret' \in [Threads -> Int]
      BY <1>2 DEF TypeOK
    <3>2. pc' \in [Threads -> Pcs] /\ phase' \in [Threads -> Phases]
      BY <1>2 DEF Finish, Continue, TypeOK, Pcs, Phases
    <3> QED
      BY <1>1, <1>2, <2>1, <3>1, <3>2 DEF TypeOK, device
  <2>3. MutexInv'
    BY <1>1, <1>2 DEF Finish, Continue, MutexInv, Locked, InSession, Kind, TypeOK
  <2>4. LoopInv'
    BY <1>1, <1>2 DEF Finish, Continue, GiveUp, NextDelay, LoopInv, AtTransfer, TypeOK, Kind, Chip,
                      ChunkSize, PhasesOf
  <2> QED
    BY <2>2, <2>3, <2>4
<1>3. ASSUME ChunkDone(t), UNCHANGED <<delay, ret>> PROVE TypeInv'
  <2>1. /\ sendLen' \in [Chips -> Nat] /\ chunk' \in [Threads -> Nat]
        /\ phase' \in [Threads -> Phases] /\ pc' \in [Threads -> Pcs]
        /\ \E p \in {"wren", "program", phase[t]} : phase' = [phase EXCEPT ![t] = p]
        /\ \E p \in {"select", "unlock"} : pc' = [pc EXCEPT ![t] = p]
        /\ \A u \in Threads \ {t} : chunk'[u] = chunk[u]
        /\ \A c \in Chips \ {Chip(t)} : sendLen'[c] = sendLen[c]
        /\ pc'[t] = "select" =>
             /\ Kind(t) = "write"
             /\ phase'[t] \in {"wren", "program"}
             /\ chunk'[t] * ChunkSize(t) < req[t].len
             /\ sendLen'[Chip(t)] = chunk'[t] * ChunkSize(t)
    BY <1>1, <1>3, ChunkDoneKeeps
  <2>2. TypeOK'
    BY <1>1, <1>3, <2>1 DEF TypeOK, device
  <2>3. MutexInv'
    BY <1>1, <2>1 DEF MutexInv, Locked, InSession, Kind, TypeOK
  <2>4. LoopInv'
    <3> SUFFICES ASSUME NEW u \in Threads
                 PROVE  (/\ pc[u] \in {"idle", "lock", "done"} => chunk[u] = 0 /\ delay[u] = 0
                         /\ pc[u] \in {"lock", "unlock"} => Kind(u) # "read_status"
                         /\ pc[u] = "lock" => phase[u] = FirstPhase(req[u])
                         /\ AtTransfer(u) =>
                              /\ phase[u] \in PhasesOf(Kind(u))
                              /\ delay[u] <= DelayMax
                              /\ Kind(u) \in {"read", "write"} => chunk[u] * ChunkSize(u) < req[u].len
                              /\ Kind(u) = "write" => sendLen[Chip(u)] = chunk[u] * WriteSize)'
      BY DEF LoopInv
    <3>1. CASE u = t
      BY <1>1, <1>3, <2>1, <3>1 DEF LoopInv, AtTransfer, TypeOK, Kind, Chip, ChunkSize, PhasesOf
    <3>2. CASE u # t
      <4>1. AtTransfer(u) /\ Kind(u) = "write" => u = t
        BY <1>1, OnlyOne DEF AtTransfer, Locked, InSession
      <4> QED
        BY <1>1, <1>3, <2>1, <3>2, <4>1 DEF LoopInv, AtTransfer, TypeOK, Kind, Chip, ChunkSize
    <3> QED
      BY <3>1, <3>2
  <2> QED
    BY <2>2, <2>3, <2>4
<1> QED
  BY <1>2, <1>3 DEF PollNext

\* The caller takes a result of its type.
LEMMA TypeConsume ==
    ASSUME TypeInv, NEW t \in Threads, Consume(t) PROVE TypeInv'
<1> USE ThreadAssumption, SizeAssumption, ChipAssumption DEF TypeInv
<1>1. NoRequest \in Request
  BY DEF NoRequest, NoData, Request, Kinds, Cells, Bytes
<1>2. TypeOK'
  BY <1>1 DEF Consume, TypeOK, Pcs, buffers, device
<1>3. MutexInv'
  BY DEF Consume, MutexInv, Locked, InSession, Kind, TypeOK
<1>4. LoopInv'
  BY DEF Consume, LoopInv, AtTransfer, TypeOK, Kind, Chip, ChunkSize, buffers
<1> QED
  BY <1>2, <1>3, <1>4

\* A chip that gets ready changes nothing of a thread.
LEMMA TypeDeviceDone ==
    ASSUME TypeInv, NEW c \in Chips, DeviceDone(c) PROVE TypeInv'
<1> USE DEF TypeInv
<1>1. TypeOK'
  BY DEF DeviceDone, TypeOK, locals, buffers
<1>2. MutexInv'
  BY DEF DeviceDone, MutexInv, Locked, InSession, Kind, locals
<1>3. LoopInv'
  BY DEF DeviceDone, LoopInv, AtTransfer, Kind, Chip, ChunkSize, locals, buffers
<1> QED
  BY <1>1, <1>2, <1>3

\* A stutter keeps the invariant.
LEMMA TypeStutter == ASSUME TypeInv, UNCHANGED vars PROVE TypeInv'
<1>1. TypeOK'
  BY DEF TypeInv, TypeOK, vars, locals, buffers, device
<1>2. MutexInv'
  BY DEF TypeInv, MutexInv, Locked, InSession, Kind, vars, locals
<1>3. LoopInv'
  BY DEF TypeInv, LoopInv, AtTransfer, Kind, Chip, ChunkSize, vars, locals, buffers
<1> QED
  BY <1>1, <1>2, <1>3 DEF TypeInv

\* Every step of the program keeps the invariant.
LEMMA TypeNext == TypeInv /\ [Next]_vars => TypeInv'
<1> SUFFICES ASSUME TypeInv, [Next]_vars PROVE TypeInv'
  OBVIOUS
<1>1. ASSUME NEW t \in Threads, Session(t) PROVE TypeInv'
  BY <1>1, TypeSelect, TypeReceive, TypeSend, TypeDeselect, TypeFail, TypeReadNext, TypeIdNext,
     TypeWrenNext, TypeProgramNext, TypePollNext, TypeStatusNext, TypeUnlock, TypeReturn
  DEF Session
<1> QED
  BY <1>1, TypeCall, TypeLock, TypeConsume, TypeDeviceDone, TypeStutter DEF Next

\* Every variable keeps its type, the poll counter stays within its limit, and
\* no chunk of a write reaches beyond the caller's data.
THEOREM TypeCorrect == Spec => []TypeOK
<1>1. Spec => []TypeInv
  BY TypeInit, TypeNext, PTL DEF Spec
<1>2. TypeInv => TypeOK
  BY DEF TypeInv
<1> QED
  BY <1>1, <1>2, PTL

----------------------------------------------------------------------------
(* The mutex owns the bus. *)

\* The callers never use the public read_status, which takes no lock.
NoUnlockedCalls == \A r \in Requests : r.kind # "read_status"

SelInv == \A c \in Chips : sel[c] => /\ lock \in Threads /\ Chip(lock) = c
                                     /\ pc[lock] \in {"transfer", "deselect"}

BusInv == /\ TypeInv
          /\ \A t \in Threads : Kind(t) # "read_status"
          /\ SelInv

\* At first no chip is selected and nobody has the lock.
LEMMA BusInit == Init => BusInv
<1> SUFFICES ASSUME Init PROVE BusInv
  OBVIOUS
<1>1. \A t \in Threads : Kind(t) # "read_status"
  BY DEF Init, Kind, NoRequest
<1>2. SelInv
  BY DEF Init, SelInv
<1> QED
  BY <1>1, <1>2, TypeInit DEF BusInv

\* A step of a thread that is at a transfer is a step of the lock's holder.
LEMMA Holder ==
    ASSUME BusInv, NEW t \in Threads, InSession(t)
    PROVE  lock = t
BY DEF BusInv, TypeInv, MutexInv, Locked

\* A step of a session selects or deselects its own chip only, between enable
\* and disable.
LEMMA BusSession ==
    ASSUME BusInv, NEW t \in Threads, Session(t) PROVE SelInv'
<1> USE DEF BusInv
<1>0. Chip(t) \in Chips
  BY DEF TypeInv, TypeOK, Request, Chip
<1>1. CASE Select(t)
  <2>1. lock = t /\ pc[lock] = "select"
    BY <1>1, Holder DEF Select, InSession
  <2>2. \A c \in Chips : ~sel[c]
    BY <2>1 DEF SelInv
  <2> QED
    BY <1>0, <1>1, <2>1, <2>2 DEF Select, SelInv, Chip, TypeInv, TypeOK, locals
<1>2. CASE Receive(t)
  BY <1>2, Holder DEF Receive, SelInv, Chip, TypeInv, TypeOK, InSession
<1>3. CASE Send(t)
  BY <1>3, Holder DEF Send, SelInv, Chip, TypeInv, TypeOK, InSession
<1>4. CASE Deselect(t)
  <2>1. lock = t
    BY <1>4, Holder DEF Deselect, InSession
  <2>2. \A c \in Chips : ~sel'[c]
    BY <1>0, <1>4, <2>1 DEF Deselect, SelInv, TypeInv, TypeOK
  <2> QED
    BY <2>2 DEF SelInv
<1>5. CASE \/ Fail(t) \/ ReadNext(t) \/ IdNext(t) \/ WrenNext(t) \/ ProgramNext(t)
           \/ PollNext(t) \/ Unlock(t)
  <2>1. lock = t /\ pc[lock] \in {"next", "unlock"} /\ sel' = sel
    BY <1>5, Holder DEF Fail, ReadNext, IdNext, WrenNext, ProgramNext, PollNext, Unlock, InSession
  <2>2. \A c \in Chips : ~sel[c]
    BY <2>1 DEF SelInv
  <2> QED
    BY <2>1, <2>2 DEF SelInv
<1>6. CASE StatusNext(t)
  BY <1>6 DEF StatusNext
<1>7. CASE Return(t)
  <2>1. lock # t
    BY <1>7 DEF Return, TypeInv, MutexInv, Locked, InSession
  <2> QED
    BY <1>7, <2>1 DEF Return, Leave, SelInv, Chip, TypeInv, TypeOK
<1> QED
  BY <1>1, <1>2, <1>3, <1>4, <1>5, <1>6, <1>7 DEF Session

\* Without unlocked calls every step keeps the bus with the holder of the lock.
LEMMA BusNext == NoUnlockedCalls /\ BusInv /\ [Next]_vars => BusInv'
<1> SUFFICES ASSUME NoUnlockedCalls, BusInv, [Next]_vars PROVE BusInv'
  OBVIOUS
<1>1. TypeInv'
  BY TypeNext DEF BusInv
<1>2. ASSUME NEW t \in Threads, Session(t) PROVE req' = req
  BY <1>2 DEF Session, Select, Receive, Send, Deselect, Fail, ReadNext, IdNext, WrenNext,
              ProgramNext, PollNext, StatusNext, Unlock, Return, locals
<1>3. (\A t \in Threads : Kind(t) # "read_status")'
  <2>1. ASSUME NEW t \in Threads, Call(t) PROVE (\A u \in Threads : Kind(u) # "read_status")'
    BY <2>1 DEF Call, Kind, BusInv, NoUnlockedCalls, TypeInv, TypeOK
  <2>2. ASSUME NEW t \in Threads, Consume(t) PROVE (\A u \in Threads : Kind(u) # "read_status")'
    BY <2>2 DEF Consume, Kind, BusInv, NoRequest, TypeInv, TypeOK
  <2>3. ASSUME req' = req PROVE (\A u \in Threads : Kind(u) # "read_status")'
    BY <2>3 DEF Kind, BusInv
  <2> QED
    BY <1>2, <2>1, <2>2, <2>3 DEF Next, Lock, DeviceDone, vars, locals
<1>4. SelInv'
  <2>1. ASSUME NEW t \in Threads, Call(t) PROVE SelInv'
    <3>1. lock # t
      BY <2>1 DEF Call, BusInv, TypeInv, MutexInv, Locked, InSession
    <3> QED
      BY <2>1, <3>1 DEF Call, SelInv, Chip, BusInv, TypeInv, TypeOK
  <2>2. ASSUME NEW t \in Threads, Lock(t) PROVE SelInv'
    BY <2>2, ThreadAssumption DEF Lock, SelInv, BusInv
  <2>3. ASSUME NEW t \in Threads, Consume(t) PROVE SelInv'
    <3>1. lock # t
      BY <2>3 DEF Consume, BusInv, TypeInv, MutexInv, Locked, InSession
    <3> QED
      BY <2>3, <3>1 DEF Consume, SelInv, Chip, BusInv, TypeInv, TypeOK
  <2>4. ASSUME NEW c \in Chips, DeviceDone(c) PROVE SelInv'
    BY <2>4 DEF DeviceDone, SelInv, Chip, BusInv, locals
  <2>5. CASE UNCHANGED vars
    BY <2>5 DEF vars, SelInv, Chip, BusInv, locals
  <2> QED
    BY <2>1, <2>2, <2>3, <2>4, <2>5, BusSession DEF Next
<1> QED
  BY <1>1, <1>3, <1>4 DEF BusInv

\* As long as nobody calls the unlocked read_status: only the holder of
\* spi_lock works on the bus, and a chip is selected only during a transfer
\* of the holder with that chip, whatever transfers fail.
THEOREM BusOwnership == NoUnlockedCalls => (Spec => []BusOwned)
<1> SUFFICES ASSUME NoUnlockedCalls PROVE Spec => []BusOwned
  OBVIOUS
<1>1. BusInv /\ [Next]_vars => BusInv'
  BY BusNext
<1>2. BusInv => BusOwned
  BY Holder, ThreadAssumption DEF BusInv, SelInv, BusOwned
<1> QED
  BY <1>1, <1>2, BusInit, PTL DEF Spec
=============================================================================
