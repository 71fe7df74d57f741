-------------------------- MODULE EosSpiStoreProofs --------------------------
(***************************************************************************)
(* Proofs that the memory chips of EosSpi keep what was written: the       *)
(* contents of a session, the write cycles that it leaves behind, and the  *)
(* refinement of SpiStore, for every number of threads and chips, every    *)
(* size of memory and transfer, and every set of calls without the public  *)
(* read_status, which takes no lock.                                       *)
(***************************************************************************)
EXTENDS EosSpiProofs

\* The transfers of a session so far.
Before(t) == pc[t] \in {"select", "transfer"}
After(t)  == pc[t] \in {"deselect", "next"}

\* The current chunk of a write, or the erase, has been sent and was taken.
Sent(t) == \/ phase[t] = "program" /\ After(t) /\ got[t] >= 0
           \/ phase[t] = "poll" /\ AtTransfer(t)

\* What a call has asked for and when it runs.
CallInv == \A t \in Threads :
    /\ pc[t] # "idle" => req[t] \in Requests
    /\ pc[t] \in {"idle", "lock"} \/ AtTransfer(t) => ret[t] = 0
    /\ pc[t] = "unlock" => ret[t] \in {0, -1}
    /\ ~InSession(t) /\ pc[t] # "return" => out[t] = NoData

\* Only a chip that is polled gets busy; one that nobody left busy is busy only
\* because of the program or erase that its session has sent and not yet seen
\* the end of.
BusyBy(t) ==
    /\ Changes(t)
    /\ \/ phase[t] = "program" /\ After(t)
       \/ phase[t] = "poll" /\ AtTransfer(t)
       \/ pc[t] = "unlock" /\ (ret[t] < 0 \/ (Kind(t) = "erase" /\ ~PollsErase(Chip(t))))
BusyInv == \A c \in Chips : busy[c] =>
    /\ Polls(c)
    /\ ~unsettled[c] => \E t \in Threads : lock = t /\ Chip(t) = c /\ BusyBy(t)

\* The chip of a session: selected if it can be, ready as the poll has seen
\* it, and enabled where a program follows.
DeviceInv(t) == LET c == Chip(t) IN
    /\ pc[t] \in {"transfer", "deselect"} => (sel[c] <=> c \in CsChips)
    /\ pc[t] = "transfer" /\ Receiving(t) => recv[c].op = phase[t]
    /\ phase[t] = "poll" /\ After(t) /\ got[t] >= 0 /\ recv[c].op = "data" =>
          /\ recv[c].bytes[0] \in {BusyByte, ReadyByte}
          /\ recv[c].bytes[0] = ReadyByte => ~busy[c]
    /\ pc[t] = "unlock" /\ ret[t] = 0 /\ Changes(t) /\ Waits(t) => ~busy[c]
    /\ /\ ~unsettled[c] /\ UsesWren(c) /\ ~ShortTransfers
       /\ \/ phase[t] = "wren" /\ After(t) /\ got[t] >= 0
          \/ phase[t] = "program" /\ Before(t)
       => wel[c]

\* What a session that writes has stored.
StoredUpTo(t, n) == \A k \in Cells : k < n => mem[Chip(t)][req[t].addr + k] = req[t].data[k]
WriteInv(t) == LET c == Chip(t) IN
    /\ Kind(t) = "write" =>
          /\ ~unsettled[c] /\ ~ShortTransfers /\ FitsPages(t) =>
                /\ StoredUpTo(t, sendLen[c])
                /\ Sent(t) => StoredUpTo(t, sendLen[c] + ChunkLen(t))
          /\ pc[t] = "unlock" /\ ret[t] = 0 => sendLen[c] = req[t].len
    /\ Kind(t) = "erase" /\ ~unsettled[c] /\ ~ShortTransfers /\ (Sent(t) \/ (pc[t] = "unlock" /\ ret[t] = 0)) =>
          mem[c] = NoData

\* What a session that reads has delivered.
ReadInv(t) == LET c == Chip(t) IN
    Kind(t) = "read" =>
        /\ recvLen[c] <= req[t].len
        /\ AtTransfer(t) => recvLen[c] <= chunk[t] * ReadSize
        /\ ~ShortTransfers => /\ AtTransfer(t) => recvLen[c] = chunk[t] * ReadSize
                              /\ pc[t] = "unlock" /\ ret[t] = 0 => recvLen[c] = req[t].len
        /\ \A k \in Cells :
              IF k < recvLen[c]
              THEN ~unsettled[c] /\ ~ShortTransfers => out[t][k] = mem[c][req[t].addr + k]
              ELSE out[t][k] = Blank
        /\ pc[t] = "transfer" => recv[c].addr = ChunkAddr(t)
        /\ After(t) /\ got[t] >= 0 =>
              /\ got[t] <= ChunkLen(t) /\ (~ShortTransfers => got[t] = ChunkLen(t))
              /\ ~unsettled[c] => \A k \in Slots : k < got[t] =>
                                     recv[c].bytes[k] = mem[c][(ChunkAddr(t) + k) % MemSize]

\* What a read_id delivers; the other calls leave the caller's buffer alone.
IdInv(t) == LET c == Chip(t) IN
    /\ Kind(t) \notin {"read", "read_id"} => out[t] = NoData
    /\ Kind(t) = "read_id" =>
          /\ \A k \in Cells \ {0} : out[t][k] = Blank
          /\ ~(pc[t] = "unlock" /\ ret[t] = 0) => out[t] = NoData
          /\ pc[t] = "unlock" /\ ret[t] = 0 /\ ~unsettled[c] /\ ~ShortTransfers => out[t][0] = IdByte
          /\ After(t) /\ got[t] >= 0 /\ ~unsettled[c] /\ ~ShortTransfers => recv[c].bytes[0] = IdByte

SessionInv ==
    /\ BusInv /\ CallInv /\ BusyInv
    /\ \A t \in Threads : InSession(t) => DeviceInv(t) /\ WriteInv(t) /\ ReadInv(t) /\ IdInv(t)

----------------------------------------------------------------------------
(* Arithmetic of chunks and pages. *)

\* The last chunk of a loop ends where the bytes end.
LEMMA LastChunk ==
    ASSUME TypeOK, NEW t \in Threads, chunk[t] * ChunkSize(t) < req[t].len, ~MoreChunks(t)
    PROVE  chunk[t] * ChunkSize(t) + ChunkLen(t) = req[t].len
<1> DEFINE n == req[t].len
           s == ChunkSize(t)
           i == chunk[t]
<1>1. n \in Nat /\ s \in Nat \ {0} /\ i \in Nat
  BY SizeAssumption DEF TypeOK, Request, ChunkSize, Cells
<1>2. ChunkLen(t) = IF i < n \div s THEN s ELSE n % s
  BY DEF ChunkLen
<1>3. i * s < n /\ ~((i + 1) * s < n)
  BY DEF MoreChunks
<1> HIDE DEF n, s, i
<1>4. /\ i < n \div s => (i + 1) * s <= n
      /\ ~(i < n \div s) => i * s + (n % s) = n
  BY <1>1, <1>3, ChunkInside
<1>5. (i + 1) * s = i * s + s /\ i * s \in Nat
  BY <1>1
<1>6. i * s + ChunkLen(t) = n
  <2>1. CASE i < n \div s
    BY <2>1, <1>1, <1>2, <1>3, <1>4, <1>5
  <2>2. CASE ~(i < n \div s)
    BY <2>2, <1>2, <1>4
  <2> QED
    BY <2>1, <2>2
<1> QED
  BY <1>6 DEF n, s, i

\* A chunk lies inside the memory: its address does not wrap.
LEMMA ChunkPlace ==
    ASSUME TypeOK, RequestAssumption, NEW t \in Threads, req[t] \in Requests,
           Kind(t) \in {"read", "write"}, chunk[t] * ChunkSize(t) < req[t].len
    PROVE  /\ ChunkLen(t) \in Nat /\ chunk[t] * ChunkSize(t) \in Nat
           /\ ChunkAddr(t) = req[t].addr + chunk[t] * ChunkSize(t)
           /\ ChunkAddr(t) + ChunkLen(t) <= req[t].addr + req[t].len
           /\ ChunkAddr(t) + ChunkLen(t) <= MemSize
<1> DEFINE o == chunk[t] * ChunkSize(t)
           l == ChunkLen(t)
<1>1. req[t].addr \in Nat /\ req[t].len \in Nat /\ req[t].addr + req[t].len <= MemSize
  BY RequestAssumption DEF TypeOK, Request, Cells
<1>2. chunk[t] \in Nat /\ ChunkSize(t) \in Nat
  BY SizeAssumption DEF TypeOK, ChunkSize
<1>3. o \in Nat
  BY <1>2
<1>4. l \in 0 .. ChunkSize(t) /\ o + l <= req[t].len /\ o < req[t].len
  BY ChunkLenRange
<1>5. ChunkAddr(t) = (req[t].addr + o) % MemSize
  BY DEF ChunkAddr
<1> HIDE DEF o, l
<1>6. req[t].addr + o \in 0 .. MemSize - 1
  BY <1>1, <1>3, <1>4, SizeAssumption
<1>7. ChunkAddr(t) = req[t].addr + o
  BY <1>5, <1>6, SmallMod, SizeAssumption
<1>8. /\ l \in Nat /\ o \in Nat
      /\ ChunkAddr(t) + l <= req[t].addr + req[t].len
      /\ ChunkAddr(t) + l <= MemSize
  BY <1>1, <1>2, <1>3, <1>4, <1>7, SizeAssumption
<1> QED
  BY <1>7, <1>8 DEF o, l

\* The address of a byte of a chunk.
LEMMA CellOfByte ==
    ASSUME NEW a \in Nat, NEW n \in Nat, a + n <= MemSize, NEW k \in Nat, k < n
    PROVE  (a + k) % MemSize = a + k
<1>1. a + k \in 0 .. MemSize - 1
  BY SizeAssumption
<1> QED
  BY <1>1, SmallMod, SizeAssumption

\* A program that does not run over the end of its page hits just its own
\* cells, each with the byte of its place.
LEMMA HitExact ==
    ASSUME NEW w \in Nat \ {0}, NEW a0 \in Nat, NEW n \in Nat, NEW a \in Nat,
           (a0 % w) + n <= w
    PROVE  /\ a \in a0 .. a0 + n - 1 => /\ a \div w = a0 \div w
                                         /\ (a - a0) % w = a - a0
           /\ (a \div w = a0 \div w /\ (a - a0) % w < n) => a \in a0 .. a0 + n - 1
<1> DEFINE q == a \div w
           r == a % w
           q0 == a0 \div w
           r0 == a0 % w
<1>1. a = w * q + r /\ q \in Nat /\ a0 = w * q0 + r0 /\ q0 \in Nat
  BY DivMod
<1>2. r \in 0 .. w - 1 /\ r0 \in 0 .. w - 1
  BY ModRange
<1>3. r0 + n <= w
  OBVIOUS
<1>4. ASSUME a \in a0 .. a0 + n - 1 PROVE q = q0 /\ (a - a0) % w = a - a0
  <2>1. a - a0 \in 0 .. w - 1
    BY <1>2, <1>3, <1>4
  <2>2. (a - a0) % w = a - a0
    BY <2>1, SmallMod
  <2> HIDE DEF q, r, q0, r0
  <2>3. w * q <= a /\ a < w * q0 + w /\ w * q0 <= a
    BY <1>1, <1>2, <1>3, <1>4
  <2>4. w * q + w > a
    BY <1>1, <1>2
  <2>5. ~(q >= q0 + 1)
    <3>1. q >= q0 + 1 => w * (q - q0 - 1) >= 0
      BY <1>1
    <3> QED
      BY <3>1, <2>3, <1>1
  <2>6. ~(q0 >= q + 1)
    <3>1. q0 >= q + 1 => w * (q0 - q - 1) >= 0
      BY <1>1
    <3> QED
      BY <3>1, <2>3, <2>4, <1>1
  <2> QED
    BY <1>1, <2>2, <2>5, <2>6
<1>5. ASSUME q = q0, (a - a0) % w < n PROVE a \in a0 .. a0 + n - 1
  <2>1. CASE a >= a0
    <3> HIDE DEF q, r, q0, r0
    <3>1. a - a0 \in 0 .. w - 1
      BY <2>1, <1>1, <1>2, <1>5
    <3>2. (a - a0) % w = a - a0
      BY <3>1, SmallMod
    <3> QED
      BY <2>1, <3>2, <1>5
  <2>2. CASE a < a0
    <3> HIDE DEF q, r, q0, r0
    <3>1. a - a0 = r - r0 /\ r - r0 < 0
      BY <2>2, <1>1, <1>2, <1>5
    <3>2. a - a0 + w \in 0 .. w - 1
      BY <3>1, <1>2
    <3>3. (a - a0) % w = a - a0 + w
      BY <3>2, <3>1, <1>2
    <3> QED
      BY <3>1, <3>3, <1>2, <1>3, <1>5
  <2> QED
    BY <2>1, <2>2
<1> QED
  BY <1>4, <1>5 DEF q, q0

----------------------------------------------------------------------------
(* What holds of the thread in a session. *)

\* What a thread in a session may count on.
LEMMA SessionFacts ==
    ASSUME SessionInv, NEW t \in Threads, InSession(t)
    PROVE  /\ lock = t /\ Chip(t) \in Chips
           /\ req[t] \in Requests /\ req[t] \in Request
           /\ Kind(t) \in Kinds \ {"read_status"}
           /\ DeviceInv(t) /\ WriteInv(t) /\ ReadInv(t) /\ IdInv(t)
           /\ AtTransfer(t) =>
                /\ ret[t] = 0 /\ phase[t] \in PhasesOf(Kind(t))
                /\ Kind(t) \in {"read", "write"} => chunk[t] * ChunkSize(t) < req[t].len
                /\ Kind(t) = "write" => sendLen[Chip(t)] = chunk[t] * WriteSize
<1>1. lock = t
  BY Holder DEF SessionInv
<1>2. req[t] \in Request /\ Chip(t) \in Chips /\ Kind(t) \in Kinds
  BY DEF SessionInv, BusInv, TypeInv, TypeOK, Request, Chip, Kind
<1>3. Kind(t) # "read_status" /\ LoopInv
  BY DEF SessionInv, BusInv, TypeInv
<1>4. req[t] \in Requests /\ (AtTransfer(t) => ret[t] = 0)
  BY DEF SessionInv, CallInv, InSession
<1> QED
  BY <1>1, <1>2, <1>3, <1>4 DEF SessionInv, LoopInv

\* Only the chip of the session listens to its transfers.
LEMMA OneListener ==
    ASSUME SessionInv, NEW t \in Threads, pc[t] = "transfer"
    PROVE  Listeners(Chip(t)) = {Chip(t)}
<1>1. lock = t /\ Chip(t) \in Chips /\ (sel[Chip(t)] <=> Chip(t) \in CsChips)
  BY SessionFacts DEF InSession, DeviceInv
<1>2. \A d \in Chips : sel[d] => d = Chip(t)
  BY <1>1 DEF SessionInv, BusInv, SelInv
<1> QED
  BY <1>1, <1>2 DEF Listeners

\* It is enough to look at the thread in the session.
LEMMA HolderOnly ==
    ASSUME BusInv', NEW t \in Threads, lock' = t \/ lock' = NoThread, CallInv', BusyInv',
           InSession(t)' => DeviceInv(t)' /\ WriteInv(t)' /\ ReadInv(t)' /\ IdInv(t)'
    PROVE  SessionInv'
<1>1. \A u \in Threads : InSession(u)' => u = t
  <2> SUFFICES ASSUME NEW u \in Threads, InSession(u)' PROVE u = t
    OBVIOUS
  <2>1. (lock = u)'
    BY DEF BusInv, TypeInv, MutexInv, Locked
  <2> QED
    BY <2>1, ThreadAssumption
<1> QED
  BY <1>1 DEF SessionInv

\* A select makes the thread's chip, and no other, listen.
LEMMA StoreSelect ==
    ASSUME SessionInv, BusInv', NEW t \in Threads, Select(t) PROVE SessionInv'
<1> DEFINE c == Chip(t)
<1>1. InSession(t)
  BY DEF Select, InSession
<1>2. pc[t] = "select" /\ pc' = [pc EXCEPT ![t] = "transfer"] /\ AtTransfer(t)
  BY DEF Select, AtTransfer
<1>3. UNCHANGED <<lock, locals, recvLen, sendLen, device, unsettled>>
  BY DEF Select
<1>4. TypeOK
  BY DEF SessionInv, BusInv, TypeInv
<1>5. pc'[t] = "transfer" /\ \A u \in Threads \ {t} : pc'[u] = pc[u]
  BY <1>2, <1>4 DEF TypeOK
<1>6. CallInv'
  BY <1>2, <1>3, <1>5 DEF SessionInv, CallInv, AtTransfer, InSession, locals
<1>7. BusyInv'
  BY <1>1, <1>2, <1>3, <1>4, <1>5, SessionFacts DEF SessionInv, BusyInv, BusyBy, Changes, Kind, Chip, After, AtTransfer, locals, device
<1>8. DeviceInv(t)'
  BY ZenonT(60), <1>1, <1>2, <1>3, <1>4, <1>5, SessionFacts DEF Select, DeviceInv, Receiving, After, Before, Chip, locals, device, TypeOK
<1>9. WriteInv(t)'
  BY <1>1, <1>2, <1>3, <1>5, SessionFacts DEF WriteInv, StoredUpTo, FitsPages, Sent, After, AtTransfer, ChunkLen, ChunkSize, Kind, Chip, locals, device
<1>10. ReadInv(t)'
  <2>1. ReadInv(t) /\ Chip(t) \in Chips /\ (Kind(t) = "read" => phase[t] = "read")
    BY <1>1, <1>2, SessionFacts DEF PhasesOf
  <2>2. Kind(t) = "read" => recv'[c].addr = ChunkAddr(t)
    BY <2>1, <1>4 DEF Select, Receiving, TypeOK
  <2>3. ChunkAddr(t)' = ChunkAddr(t) /\ Chip(t)' = c /\ Kind(t)' = Kind(t)
    BY <1>3 DEF ChunkAddr, ChunkSize, Kind, Chip, locals
  <2> QED
    BY <1>2, <1>3, <1>5, <2>1, <2>2, <2>3 DEF ReadInv, After, AtTransfer, Kind, Chip, locals, device
<1>11. IdInv(t)'
  BY <1>1, <1>2, <1>3, <1>5, SessionFacts DEF IdInv, After, Kind, Chip, locals, device
<1> QED
  BY <1>1, <1>3, <1>6, <1>7, <1>8, <1>9, <1>10, <1>11, HolderOnly, SessionFacts

\* A received byte is the answer of the session's chip.
LEMMA StoreReceive ==
    ASSUME SessionInv, BusInv', NEW t \in Threads, Receive(t) PROVE SessionInv'
<1> DEFINE c == Chip(t)
<1>1. InSession(t)
  BY DEF Receive, InSession
<1>2. pc[t] = "transfer" /\ pc' = [pc EXCEPT ![t] = "deselect"] /\ AtTransfer(t) /\ Receiving(t)
  BY DEF Receive, AtTransfer
<1>3. UNCHANGED <<lock, phase, req, chunk, delay, out, ret, recvLen, sendLen, sel, device, unsettled>>
  BY DEF Receive
<1>4. TypeOK
  BY DEF SessionInv, BusInv, TypeInv
<1>5. pc'[t] = "deselect" /\ \A u \in Threads \ {t} : pc'[u] = pc[u]
  BY <1>2, <1>4 DEF TypeOK
<1>6. CallInv'
  BY <1>2, <1>3, <1>5 DEF SessionInv, CallInv, AtTransfer, InSession
<1>7. BusyInv'
  BY <1>1, <1>2, <1>3, <1>4, <1>5, SessionFacts
  DEF SessionInv, BusyInv, BusyBy, Changes, Kind, Chip, After, AtTransfer, Receiving, device
\* What is in the buffer after n bytes were received.
<1>8. \/ got'[t] = -1 /\ recv' = recv
      \/ \E n \in Nat : /\ n <= Wanted(t) /\ (~ShortTransfers => n = Wanted(t))
                        /\ got'[t] = n
                        /\ n = 0 => recv' = recv
                        /\ n > 0 => /\ recv'[c].op = "data"
                                    /\ \A k \in Slots : k < n => recv'[c].bytes[k] = Answer(c, k)
  <2>1. Wanted(t) \in Nat
    <3>1. phase[t] = "read" => ChunkLen(t) \in Nat
      BY <1>1, <1>2, <1>4, SessionFacts, ChunkPlace, RequestAssumption DEF PhasesOf, Kinds
    <3> QED
      BY <3>1 DEF Wanted
  <2>2. c \in Chips
    BY <1>1, SessionFacts
  <2>3. CASE got' = [got EXCEPT ![t] = -1] /\ recv' = recv
    BY <2>3, <1>4 DEF TypeOK
  <2>4. ASSUME NEW n \in (IF ShortTransfers THEN 0 .. Wanted(t) ELSE {Wanted(t)}),
               got' = [got EXCEPT ![t] = n],
               recv' = IF n = 0 THEN recv ELSE [recv EXCEPT ![Chip(t)] =
                         [op |-> "data", addr |-> 0,
                          bytes |-> [k \in Slots |->
                                       IF k < n THEN Answer(Chip(t), k) ELSE Garbage]]]
        PROVE  \E m \in Nat : /\ m <= Wanted(t) /\ (~ShortTransfers => m = Wanted(t))
                              /\ got'[t] = m
                              /\ m = 0 => recv' = recv
                              /\ m > 0 => /\ recv'[c].op = "data"
                                          /\ \A k \in Slots : k < m => recv'[c].bytes[k] = Answer(c, k)
    <3>1. n \in Nat /\ n <= Wanted(t) /\ (~ShortTransfers => n = Wanted(t))
      BY <2>1, <2>4
    <3>2. got'[t] = n
      BY <2>4, <1>4 DEF TypeOK
    <3>3. n > 0 => recv'[c].op = "data" /\ \A k \in Slots : k < n => recv'[c].bytes[k] = Answer(c, k)
      BY <2>4, <2>2, <1>4 DEF TypeOK
    <3> QED
      BY <3>1, <3>2, <3>3, <2>4
  <2> QED
    BY <2>3, <2>4 DEF Receive
<1>9. Listeners(c) = {c} /\ recv[c].op = phase[t] /\ c \in Chips
  BY <1>1, <1>2, SessionFacts, OneListener DEF DeviceInv
<1>10. DeviceInv(t)'
  <2>1. phase[t] = "poll" => \A k \in Slots : Answer(c, k) = StatusByte(c)
    BY <1>9 DEF Answer
  <2>2. phase[t] = "poll" /\ got'[t] >= 0 /\ recv'[c].op = "data" => recv'[c].bytes[0] = StatusByte(c)
    BY <1>8, <1>9, <2>1, SizeAssumption DEF Slots
  <2>3. DeviceInv(t)
    BY <1>1, SessionFacts
  <2>4. StatusByte(c) \in {BusyByte, ReadyByte} /\ (StatusByte(c) = ReadyByte => ~busy[c])
    BY ByteAssumption DEF StatusByte
  <2>5. Chip(t)' = c /\ busy'[c] = busy[c] /\ sel'[c] = sel[c] /\ phase'[t] = phase[t]
    BY <1>3 DEF Chip, device
  <2>6. phase'[t] # "wren" /\ phase'[t] # "program"
    BY <1>2, <2>5 DEF Receiving
  <2>7. phase'[t] = "poll" /\ got'[t] >= 0 /\ recv'[c].op = "data" =>
           /\ recv'[c].bytes[0] \in {BusyByte, ReadyByte}
           /\ recv'[c].bytes[0] = ReadyByte => ~busy'[c]
    BY <2>2, <2>4, <2>5
  <2>8. sel'[c] <=> c \in CsChips
    BY <1>2, <2>3, <2>5 DEF DeviceInv
  <2> QED
    BY <1>5, <2>5, <2>6, <2>7, <2>8 DEF DeviceInv
<1>11. WriteInv(t)'
  <2>1. WriteInv(t) /\ (Kind(t) \in {"write", "erase"} => phase[t] = "poll")
    BY <1>1, <1>2, SessionFacts DEF PhasesOf, Receiving
  <2> QED
    BY <1>2, <1>3, <1>5, <2>1 DEF WriteInv, StoredUpTo, FitsPages, Sent, After, AtTransfer, ChunkLen, ChunkSize, Kind, Chip, device
<1>12. ReadInv(t)'
  <2> SUFFICES ASSUME Kind(t) = "read" PROVE ReadInv(t)'
    BY <1>3 DEF ReadInv, Kind
  <2>1. ReadInv(t) /\ phase[t] = "read"
    BY <1>1, <1>2, SessionFacts DEF PhasesOf
  <2>2. recv[c].addr = ChunkAddr(t) /\ Wanted(t) = ChunkLen(t)
    BY <1>2, <2>1 DEF ReadInv, Wanted
  <2>3. ~unsettled[c] => \A k \in Slots : Answer(c, k) = mem[c][(ChunkAddr(t) + k) % MemSize]
    <3>1. ~unsettled[c] => ~busy[c]
      BY <1>1, <1>9, SessionFacts DEF SessionInv, BusyInv, BusyBy, Changes
    <3> QED
      BY <1>9, <2>1, <2>2, <3>1 DEF Answer
  <2>4. ChunkLen(t) \in Nat
    BY <1>1, <1>2, <1>4, SessionFacts, ChunkPlace, RequestAssumption
  <2>5. got'[t] >= 0 =>
          /\ got'[t] <= ChunkLen(t) /\ (~ShortTransfers => got'[t] = ChunkLen(t))
          /\ ~unsettled[c] => \A k \in Slots : k < got'[t] =>
                                 recv'[c].bytes[k] = mem[c][(ChunkAddr(t) + k) % MemSize]
    <3>1. CASE got'[t] = -1
      BY <3>1
    <3>2. ASSUME NEW n \in Nat, n <= ChunkLen(t), ~ShortTransfers => n = ChunkLen(t), got'[t] = n,
                 n > 0 => \A k \in Slots : k < n => recv'[c].bytes[k] = Answer(c, k)
          PROVE  /\ got'[t] <= ChunkLen(t) /\ (~ShortTransfers => got'[t] = ChunkLen(t))
                 /\ ~unsettled[c] => \A k \in Slots : k < got'[t] =>
                                 recv'[c].bytes[k] = mem[c][(ChunkAddr(t) + k) % MemSize]
      BY <3>2, <2>3 DEF Slots
    <3> QED
      BY <1>8, <2>2, <3>1, <3>2
  <2>6. ChunkAddr(t)' = ChunkAddr(t) /\ ChunkLen(t)' = ChunkLen(t) /\ Chip(t)' = c /\ Kind(t)' = Kind(t)
    BY <1>3 DEF ChunkAddr, ChunkLen, ChunkSize, Kind, Chip
  <2> QED
    BY <1>2, <1>3, <1>5, <2>1, <2>5, <2>6 DEF ReadInv, After, AtTransfer, device
<1>13. IdInv(t)'
  <2>1. IdInv(t) /\ (Kind(t) = "read_id" => phase[t] = "id")
    BY <1>1, <1>2, SessionFacts DEF PhasesOf
  <2>2. Kind(t) = "read_id" /\ got'[t] >= 0 /\ ~unsettled[c] /\ ~ShortTransfers => recv'[c].bytes[0] = IdByte
    <3> SUFFICES ASSUME Kind(t) = "read_id", got'[t] >= 0, ~unsettled[c], ~ShortTransfers
                 PROVE  recv'[c].bytes[0] = IdByte
      OBVIOUS
    <3>1. ~busy[c]
      BY <1>1, <1>9, SessionFacts DEF SessionInv, BusyInv, BusyBy, Changes
    <3>2. Answer(c, 0) = IdByte
      BY <1>9, <2>1, <3>1 DEF Answer
    <3>3. Wanted(t) = 1
      BY <2>1 DEF Wanted
    <3> QED
      BY <1>8, <3>2, <3>3, SizeAssumption DEF Slots
  <2> QED
    BY <1>2, <1>3, <1>5, <2>1, <2>2 DEF IdInv, After, Kind, Chip, device
<1> QED
  BY <1>1, <1>3, <1>6, <1>7, <1>10, <1>11, <1>12, <1>13, HolderOnly, SessionFacts

\* A program, an erase or a write enable is made by a call that changes its chip.
LEMMA Changing ==
    ASSUME SessionInv, NEW t \in Threads, AtTransfer(t), phase[t] \in {"wren", "program"}
    PROVE  Kind(t) \in {"write", "erase", "write_status"} /\ Changes(t)
<1>1. InSession(t)
  BY DEF AtTransfer, InSession
<1>2. Kind(t) \in {"write", "erase", "write_status"}
  BY <1>1, SessionFacts DEF PhasesOf, Kinds
<1>3. Kind(t) = "write" => req[t].len > 0
  <2> SUFFICES ASSUME Kind(t) = "write" PROVE req[t].len > 0
    OBVIOUS
  <2>1. TypeOK
    BY DEF SessionInv, BusInv, TypeInv
  <2>2. chunk[t] * ChunkSize(t) \in Nat /\ chunk[t] * ChunkSize(t) < req[t].len
    BY <1>1, <2>1, SessionFacts, ChunkPlace, RequestAssumption
  <2>3. req[t].len \in Nat
    BY <2>1 DEF TypeOK, Request
  <2> QED
    BY <2>2, <2>3
<1> QED
  BY <1>2, <1>3 DEF Changes

\* What a program, an erase or a write enable does to the chips.
LEMMA SendEffect ==
    ASSUME SessionInv, NEW t \in Threads, Send(t), NEW c, c = Chip(t)
    PROVE  /\ phase[t] \in {"wren", "program"} /\ got'[t] \in {1, -1}
           /\ \A d \in Chips \ {c} : mem'[d] = mem[d] /\ busy'[d] = busy[d]
           /\ busy'[c] => busy[c] \/ (phase[t] = "program" /\ Polls(c))
           /\ ~unsettled[c] => ~busy[c]
           /\ \E n \in Nat :
                /\ n <= ChunkLen(t) /\ (~ShortTransfers => n = ChunkLen(t))
                /\ mem'[c] = mem[c] \/ (phase[t] = "program" /\ mem'[c] = Programmed(t, c, n))
                /\ ~unsettled[c] /\ ~ShortTransfers /\ got'[t] >= 0 =>
                     IF phase[t] = "program" THEN mem'[c] = Programmed(t, c, n) ELSE wel'[c]
<1>1. InSession(t) /\ AtTransfer(t) /\ pc[t] = "transfer" /\ TypeOK
  BY DEF Send, InSession, AtTransfer, SessionInv, BusInv, TypeInv
<1>2. phase[t] \in {"wren", "program"}
  BY <1>1 DEF Send, Receiving, TypeOK, Phases
<1>3. c \in Chips /\ Listeners(c) = {c} /\ lock = t
  BY <1>1, SessionFacts, OneListener
<1>4. ~unsettled[c] => ~busy[c]
  BY <1>1, <1>2, <1>3 DEF SessionInv, BusyInv, BusyBy, After
<1>5. ~unsettled[c] /\ ~ShortTransfers /\ phase[t] = "program" => Obeys(c)
  BY <1>1, <1>4, SessionFacts DEF DeviceInv, Obeys, Before
<1> PICK ok \in BOOLEAN, reached \in BOOLEAN,
         n \in (IF ShortTransfers THEN 0 .. ChunkLen(t) ELSE {ChunkLen(t)}) :
       LET heard == IF reached THEN {d \in Listeners(Chip(t)) : ~busy[d]} ELSE {}
           obeyed == IF phase[t] = "program" THEN {d \in heard : Obeys(d)} ELSE {}
       IN /\ ok => reached \/ ShortTransfers
          /\ got' = [got EXCEPT ![t] = IF ok THEN 1 ELSE -1]
          /\ wel' = [d \in Chips |-> IF phase[t] = "wren" THEN wel[d] \/ d \in heard
                                                          ELSE wel[d] /\ d \notin obeyed]
          /\ mem' = [d \in Chips |-> IF d \in obeyed THEN Programmed(t, d, n) ELSE mem[d]]
          /\ busy' = [d \in Chips |-> busy[d] \/ (d \in obeyed /\ Polls(d))]
  BY DEF Send
<1> DEFINE heard == IF reached THEN {d \in Listeners(Chip(t)) : ~busy[d]} ELSE {}
           obeyed == IF phase[t] = "program" THEN {d \in heard : Obeys(d)} ELSE {}
<1>6. /\ ok => reached \/ ShortTransfers
      /\ got' = [got EXCEPT ![t] = IF ok THEN 1 ELSE -1]
      /\ wel' = [d \in Chips |-> IF phase[t] = "wren" THEN wel[d] \/ d \in heard
                                                      ELSE wel[d] /\ d \notin obeyed]
      /\ mem' = [d \in Chips |-> IF d \in obeyed THEN Programmed(t, d, n) ELSE mem[d]]
      /\ busy' = [d \in Chips |-> busy[d] \/ (d \in obeyed /\ Polls(d))]
  OBVIOUS
<1>7. /\ \A d : d \in heard => d = c
      /\ \A d : d \in obeyed => d = c /\ phase[t] = "program"
      /\ ok /\ ~unsettled[c] /\ ~ShortTransfers => c \in heard
      /\ ok /\ ~unsettled[c] /\ ~ShortTransfers /\ phase[t] = "program" => c \in obeyed
  BY <1>3, <1>4, <1>5, <1>6
<1>8. got'[t] = IF ok THEN 1 ELSE -1
  BY <1>1, <1>6 DEF TypeOK
<1> HIDE DEF heard, obeyed
<1>9. /\ wel'[c] = (IF phase[t] = "wren" THEN wel[c] \/ c \in heard ELSE wel[c] /\ c \notin obeyed)
      /\ \A d \in Chips : mem'[d] = (IF d \in obeyed THEN Programmed(t, d, n) ELSE mem[d])
      /\ \A d \in Chips : busy'[d] = (busy[d] \/ (d \in obeyed /\ Polls(d)))
  BY <1>3, <1>6, Zenon
<1>10. \A d \in Chips \ {c} : mem'[d] = mem[d] /\ busy'[d] = busy[d]
  <2>1. busy \in [Chips -> BOOLEAN]
    BY <1>1 DEF TypeOK
  <2> QED
    BY <2>1, <1>7, <1>9, Zenon
<1>11. /\ mem'[c] = mem[c] \/ (phase[t] = "program" /\ mem'[c] = Programmed(t, c, n))
       /\ busy'[c] => busy[c] \/ (phase[t] = "program" /\ Polls(c))
  BY <1>3, <1>7, <1>9
<1>12. ok /\ ~unsettled[c] /\ ~ShortTransfers =>
         IF phase[t] = "program" THEN mem'[c] = Programmed(t, c, n) ELSE wel'[c]
  BY <1>2, <1>3, <1>7, <1>9
<1>13. got'[t] \in {1, -1} /\ (got'[t] >= 0 => ok)
  BY <1>8
<1>14. n \in Nat /\ n <= ChunkLen(t) /\ (~ShortTransfers => n = ChunkLen(t))
  <2>1. ChunkLen(t) \in Nat
    BY <1>1, SentNat
  <2> QED
    BY <2>1
<1> QED
  BY <1>2, <1>4, <1>10, <1>11, <1>12, <1>13, <1>14

\* A program of a write that fits the pages ends inside its page.
LEMMA PageFit ==
    ASSUME TypeOK, RequestAssumption, NEW t \in Threads, req[t] \in Requests,
           Kind(t) = "write", chunk[t] * ChunkSize(t) < req[t].len, FitsPages(t)
    PROVE  /\ WrapSize(Chip(t)) \in Nat \ {0}
           /\ (ChunkAddr(t) % WrapSize(Chip(t))) + ChunkLen(t) <= WrapSize(Chip(t))
<1> DEFINE w == WrapSize(Chip(t))
           a == req[t].addr
           i == chunk[t]
           l == ChunkLen(t)
           p == ChunkAddr(t)
<1>1. w \in Nat \ {0} /\ a \in Nat /\ i \in Nat /\ req[t].len \in Nat /\ ChunkSize(t) = WriteSize
  BY SizeAssumption DEF WrapSize, TypeOK, Request, Cells, ChunkSize
<1>2. p = a + i * WriteSize /\ p + l <= MemSize /\ l \in 0 .. WriteSize /\ i * WriteSize + l <= req[t].len
  BY <1>1, ChunkPlace, ChunkLenRange
<1>3. i * WriteSize < req[t].len
  BY <1>1
<1>4. Paged(Chip(t)) => a % WriteSize = 0 \/ (a % WriteSize) + req[t].len <= WriteSize
  BY DEF FitsPages, Fits, Chip
<1>5. w = IF Paged(Chip(t)) THEN WriteSize ELSE MemSize
  BY DEF WrapSize
<1> HIDE DEF w, a, i, l, p
<1>6. i * WriteSize \in Nat /\ p \in Nat /\ a % WriteSize \in Nat
  <2>1. i * WriteSize \in Nat
    BY <1>1, SizeAssumption
  <2>2. a % WriteSize \in 0 .. WriteSize - 1
    <3>1. a \in Int /\ WriteSize \in Nat \ {0}
      BY <1>1, SizeAssumption
    <3> QED
      BY <3>1, ModRange
  <2>3. p \in Nat
    BY <1>1, <1>2, <2>1
  <2> QED
    BY <2>1, <2>2, <2>3, SizeAssumption
<1>7. (p % w) + l <= w
  <2>1. CASE ~Paged(Chip(t))
    <3>1. w = MemSize /\ p \in Nat /\ l \in Nat /\ p + l <= MemSize
      BY <2>1, <1>2, <1>5, <1>6
    <3>2. CASE p < MemSize
      <4>1. p % MemSize = p
        BY <3>1, <3>2, SmallMod, SizeAssumption
      <4> QED
        BY <3>1, <4>1
    <3>3. CASE p >= MemSize
      <4>1. p = MemSize /\ l = 0
        BY <3>1, <3>3, SizeAssumption
      <4>2. p % w \in 0 .. w - 1
        BY <3>1, <1>1, ModRange
      <4> QED
        BY <3>1, <4>1, <4>2
    <3> QED
      BY <3>1, <3>2, <3>3, SizeAssumption
  <2>2. CASE Paged(Chip(t))
    <3>1. p % w = a % WriteSize
      BY ZenonT(60), <2>2, <1>1, <1>2, <1>5, ModShift, SizeAssumption
    <3>2. CASE a % WriteSize = 0
      BY <2>2, <3>1, <3>2, <1>2, <1>5, SizeAssumption
    <3>3. CASE (a % WriteSize) + req[t].len <= WriteSize
      BY <2>2, <3>1, <3>3, <1>1, <1>2, <1>5, <1>6, SizeAssumption
    <3> QED
      BY <2>2, <1>4, <3>2, <3>3
  <2> QED
    BY <2>1, <2>2
<1> QED
  BY <1>1, <1>7 DEF w, l, p

\* A program that fits the pages stores each byte of its chunk in its own cell
\* and changes no other.
LEMMA ProgramStores ==
    ASSUME SessionInv, NEW t \in Threads, Send(t), phase[t] = "program", Kind(t) = "write",
           FitsPages(t), NEW a \in Cells, NEW sent \in Nat, sent <= ChunkLen(t)
    PROVE  Programmed(t, Chip(t), sent)[a] =
             IF a \in ChunkAddr(t) .. ChunkAddr(t) + sent - 1
             THEN req[t].data[a - req[t].addr] ELSE mem[Chip(t)][a]
<1> DEFINE c == Chip(t)
           w == WrapSize(Chip(t))
           p == ChunkAddr(t)
           l == sent
           n == sendLen[Chip(t)]
<1>1. InSession(t) /\ AtTransfer(t) /\ TypeOK
  BY DEF Send, InSession, AtTransfer, SessionInv, BusInv, TypeInv
<1>2. chunk[t] * ChunkSize(t) < req[t].len /\ n = chunk[t] * WriteSize /\ req[t] \in Requests
  BY <1>1, SessionFacts
<1>3. p \in Nat /\ l \in Nat /\ n \in Nat /\ p = req[t].addr + n /\ req[t].addr \in Nat /\ a \in Nat
  <2>1. ChunkSize(t) = WriteSize /\ req[t].addr \in Nat /\ a \in Nat
    BY <1>1 DEF ChunkSize, TypeOK, Request, Cells
  <2>2. chunk[t] * ChunkSize(t) \in Nat /\ p = req[t].addr + chunk[t] * ChunkSize(t)
    BY <1>1, <1>2, ChunkPlace, RequestAssumption
  <2> QED
    BY <1>2, <2>1, <2>2
<1>4. w \in Nat \ {0} /\ (p % w) + l <= w
  <2>1. w \in Nat \ {0} /\ (p % w) + ChunkLen(t) <= w /\ p \in Int /\ ChunkLen(t) \in Nat
    BY <1>1, <1>2, <1>3, PageFit, SentNat, RequestAssumption
  <2>2. p % w \in 0 .. w - 1
    BY <2>1, ModRange
  <2> HIDE DEF p, w
  <2> QED
    BY <2>1, <2>2
<1>5. Programmed(t, c, l)[a] = IF a \div w = p \div w /\ (a - p) % w < l
                            THEN req[t].data[n + ((a - p) % w)] ELSE mem[c][a]
  BY DEF Programmed, Hit
<1> HIDE DEF c, w, p, l, n
<1>6. /\ a \in p .. p + l - 1 => a \div w = p \div w /\ (a - p) % w = a - p
      /\ (a \div w = p \div w /\ (a - p) % w < l) => a \in p .. p + l - 1
  BY ZenonT(60), <1>3, <1>4, HitExact
<1>7. CASE a \in p .. p + l - 1
  <2>1. (a - p) % w = a - p /\ a - p < l /\ n + (a - p) = a - req[t].addr
    BY <1>3, <1>6, <1>7
  <2>2. Programmed(t, c, l)[a] = req[t].data[a - req[t].addr]
    BY <1>5, <1>6, <1>7, <2>1
  <2> QED
    BY <1>7, <2>2 DEF c, p, l
<1>8. CASE a \notin p .. p + l - 1
  <2>1. Programmed(t, c, l)[a] = mem[c][a]
    BY <1>5, <1>6, <1>8
  <2> QED
    BY <1>8, <2>1 DEF c, p, l
<1> QED
  BY <1>7, <1>8

\* A program that is obeyed stores the chunk that the write counts next.
LEMMA StoreSend ==
    ASSUME SessionInv, BusInv', NEW t \in Threads, Send(t) PROVE SessionInv'
<1> DEFINE c == Chip(t)
<1>1. InSession(t) /\ AtTransfer(t) /\ pc[t] = "transfer" /\ TypeOK
  BY DEF Send, InSession, AtTransfer, SessionInv, BusInv, TypeInv
<1>2. pc' = [pc EXCEPT ![t] = "deselect"]
  BY DEF Send
<1>3. UNCHANGED <<lock, phase, req, chunk, delay, out, ret, recv, recvLen, sendLen, sel, unsettled>>
  BY DEF Send, buffers
<1>4. pc'[t] = "deselect" /\ \A u \in Threads \ {t} : pc'[u] = pc[u]
  BY <1>1, <1>2 DEF TypeOK
<1>5. phase[t] \in {"wren", "program"} /\ Kind(t) \in {"write", "erase", "write_status"} /\ Changes(t)
  BY <1>1, SendEffect, Changing
<1>6. /\ \A d \in Chips \ {c} : mem'[d] = mem[d] /\ busy'[d] = busy[d]
      /\ busy'[c] => busy[c] \/ (phase[t] = "program" /\ Polls(c))
      /\ ~unsettled[c] => ~busy[c]
  BY SendEffect
<1>14. PICK sent \in Nat :
      /\ sent <= ChunkLen(t) /\ (~ShortTransfers => sent = ChunkLen(t))
      /\ mem'[c] = mem[c] \/ (phase[t] = "program" /\ mem'[c] = Programmed(t, c, sent))
      /\ ~unsettled[c] /\ ~ShortTransfers /\ got'[t] >= 0 =>
           IF phase[t] = "program" THEN mem'[c] = Programmed(t, c, sent) ELSE wel'[c]
  BY SendEffect
<1>7. c \in Chips /\ lock = t /\ Chip(t)' = c /\ Kind(t)' = Kind(t) /\ Changes(t)' = Changes(t)
  BY <1>1, <1>3, SessionFacts DEF Chip, Kind, Changes
<1>8. CallInv'
  BY <1>1, <1>3, <1>4 DEF SessionInv, CallInv, AtTransfer, InSession
<1>9. BusyInv'
  <2> SUFFICES ASSUME NEW d \in Chips, busy'[d]
               PROVE  /\ Polls(d)
                      /\ ~unsettled[d] => \E u \in Threads : lock = u /\ Chip(u)' = d /\ BusyBy(u)'
    BY <1>3 DEF BusyInv
  <2>1. CASE busy[d]
    <3>1. Polls(d) /\ (~unsettled[d] => \E u \in Threads : lock = u /\ Chip(u) = d)
      BY <2>1 DEF SessionInv, BusyInv
    <3>2. ~unsettled[d] => d = c
      BY <1>7, <3>1
    <3>3. unsettled[d]
      BY <1>6, <2>1, <3>2
    <3> QED
      BY <3>1, <3>3
  <2>2. CASE ~busy[d]
    <3>1. d = c /\ phase[t] = "program" /\ Polls(c)
      BY <1>6, <2>2
    <3>2. BusyBy(t)'
      BY <1>3, <1>4, <1>5, <1>7, <3>1 DEF BusyBy, After
    <3> QED
      BY <1>7, <3>1, <3>2
  <2> QED
    BY <2>1, <2>2
<1>10. DeviceInv(t)'
  <2>1. DeviceInv(t)
    BY <1>1, SessionFacts
  <2>2. sel'[c] <=> c \in CsChips
    BY <1>1, <1>3, <2>1 DEF DeviceInv
  <2>3. phase'[t] # "poll"
    BY <1>3, <1>5
  <2>4. ~unsettled'[c] /\ ~ShortTransfers /\ phase'[t] = "wren" /\ got'[t] >= 0 => wel'[c]
    BY <1>3, <1>14
  <2> QED
    BY <1>4, <1>7, <2>2, <2>3, <2>4 DEF DeviceInv, Before
<1>11. WriteInv(t)'
  <2>1. ChunkLen(t)' = ChunkLen(t) /\ FitsPages(t)' = FitsPages(t) /\ req' = req /\ sendLen' = sendLen
    BY <1>3 DEF ChunkLen, ChunkSize, Kind, FitsPages
  <2>2. Sent(t)' => phase[t] = "program" /\ got'[t] >= 0
    BY <1>3, <1>5 DEF Sent
  <2>3. ASSUME Kind(t) = "write", ~unsettled[c], ~ShortTransfers, FitsPages(t)
        PROVE  /\ StoredUpTo(t, sendLen[c])'
               /\ Sent(t)' => StoredUpTo(t, sendLen[c] + ChunkLen(t))'
    <3> DEFINE A == req[t].addr
               n == sendLen[c]
               l == ChunkLen(t)
               p == ChunkAddr(t)
    <3>1. StoredUpTo(t, n)
      BY <1>1, <2>3, SessionFacts DEF WriteInv
    <3>2. /\ n \in Nat /\ l \in Nat /\ A \in Nat /\ p = A + n
          /\ n + l <= req[t].len /\ A + req[t].len <= MemSize /\ req[t].len \in Nat
      <4>1. /\ chunk[t] * ChunkSize(t) < req[t].len /\ n = chunk[t] * WriteSize
            /\ req[t] \in Requests /\ ChunkSize(t) = WriteSize
        BY <1>1, <2>3, SessionFacts DEF ChunkSize
      <4>2. req[t].addr \in Nat /\ req[t].len \in Nat /\ A + req[t].len <= MemSize
        BY <1>1, <4>1, RequestAssumption DEF TypeOK, Request, Cells
      <4>3. l \in Nat /\ chunk[t] * ChunkSize(t) \in Nat /\ p = A + chunk[t] * ChunkSize(t)
            /\ p + l <= A + req[t].len
        BY <1>1, <2>3, <4>1, ChunkPlace, RequestAssumption
      <4> HIDE DEF A, n, l, p
      <4>4. n \in Nat /\ p = A + n /\ n + l <= req[t].len
        BY <4>1, <4>2, <4>3 DEF A
      <4> QED
        BY <4>2, <4>3, <4>4 DEF A
    <3>3. \A a \in Cells : mem'[c][a] \in {mem[c][a], Programmed(t, c, l)[a]}
      BY <1>14, <2>3
    <3>4. phase[t] = "program" => \A a \in Cells :
             Programmed(t, c, l)[a] = IF a \in p .. p + l - 1 THEN req[t].data[a - A] ELSE mem[c][a]
      BY <2>3, <3>2, ProgramStores
    <3> HIDE DEF A, n, l, p
    <3>5. ASSUME NEW k \in Cells, k < n PROVE mem'[c][A + k] = req[t].data[k]
      <4>1. mem[c][A + k] = req[t].data[k]
        BY <3>1, <3>5 DEF StoredUpTo, A
      <4>2. A + k \in Cells /\ A + k \notin p .. p + l - 1
        <5>1. k \in Nat
          BY DEF Cells
        <5> QED
          BY <3>2, <3>5, <5>1, SizeAssumption DEF Cells
      <4> QED
        BY <1>14, <3>3, <3>4, <4>1, <4>2
    <3>6. ASSUME Sent(t)', NEW k \in Cells, k < n + l PROVE mem'[c][A + k] = req[t].data[k]
      <4>1. mem'[c] = Programmed(t, c, l) /\ phase[t] = "program"
        BY <1>14, <2>2, <2>3, <3>6 DEF l
      <4>2. CASE k < n
        BY <3>5, <4>2
      <4>3. CASE ~(k < n)
        <5>1. A + k \in p .. p + l - 1 /\ A + k \in Cells /\ (A + k) - A = k
          <6>1. k \in Nat
            BY DEF Cells
          <6> QED
            BY <3>2, <3>6, <4>3, <6>1, SizeAssumption DEF Cells
        <5> QED
          BY <3>4, <4>1, <5>1
      <4> QED
        BY <4>2, <4>3
    <3>7. StoredUpTo(t, sendLen[c])'
      BY <1>7, <2>1, <3>5 DEF StoredUpTo, A, n
    <3>8. Sent(t)' => StoredUpTo(t, sendLen[c] + ChunkLen(t))'
      BY <1>7, <2>1, <3>6 DEF StoredUpTo, A, n, l
    <3> QED
      BY <3>7, <3>8
  <2>4. Kind(t) = "erase" /\ ~unsettled[c] /\ ~ShortTransfers /\ Sent(t)' => mem'[c] = NoData
    BY <1>14, <2>2 DEF Programmed
  <2>5. unsettled' = unsettled /\ pc'[t] # "unlock"
    BY <1>3, <1>4
  <2> QED
    BY <1>7, <2>1, <2>3, <2>4, <2>5 DEF WriteInv
<1>12. ReadInv(t)'
  BY <1>5, <1>7 DEF ReadInv
<1>13. IdInv(t)'
  BY <1>1, <1>3, <1>5, <1>7, SessionFacts DEF IdInv
<1> QED
  BY <1>3, <1>7, <1>8, <1>9, <1>10, <1>11, <1>12, <1>13, HolderOnly

\* A deselect changes no cell and no buffer.
LEMMA StoreDeselect ==
    ASSUME SessionInv, BusInv', NEW t \in Threads, Deselect(t) PROVE SessionInv'
<1> DEFINE c == Chip(t)
<1>1. InSession(t) /\ AtTransfer(t) /\ TypeOK
  BY DEF Deselect, InSession, AtTransfer, SessionInv, BusInv, TypeInv
<1>2. pc[t] = "deselect" /\ pc' = [pc EXCEPT ![t] = "next"]
  BY DEF Deselect
<1>3. UNCHANGED <<lock, locals, buffers, device, unsettled>>
  BY DEF Deselect
<1>4. pc'[t] = "next" /\ \A u \in Threads \ {t} : pc'[u] = pc[u]
  BY <1>1, <1>2 DEF TypeOK
<1>5. CallInv'
  BY <1>1, <1>3, <1>4 DEF SessionInv, CallInv, AtTransfer, InSession, locals
<1>6. BusyInv'
  BY <1>1, <1>2, <1>3, <1>4, SessionFacts DEF SessionInv, BusyInv, BusyBy, Changes, Kind, Chip, After, AtTransfer, locals, device
<1>7. DeviceInv(t)'
  BY <1>1, <1>2, <1>3, <1>4, SessionFacts DEF DeviceInv, After, Before, Chip, locals, buffers, device
<1>8. WriteInv(t)'
  BY <1>1, <1>2, <1>3, <1>4, SessionFacts DEF WriteInv, StoredUpTo, FitsPages, Sent, After, AtTransfer, ChunkLen, ChunkSize, Kind, Chip, locals, buffers, device
<1>9. ReadInv(t)'
  <2>1. ReadInv(t)
    BY <1>1, SessionFacts
  <2>2. ChunkAddr(t)' = ChunkAddr(t) /\ ChunkLen(t)' = ChunkLen(t) /\ Chip(t)' = c /\ Kind(t)' = Kind(t)
    BY <1>3 DEF ChunkAddr, ChunkLen, ChunkSize, Kind, Chip, locals
  <2> QED
    BY <1>1, <1>2, <1>3, <1>4, <2>1, <2>2 DEF ReadInv, After, AtTransfer, locals, buffers, device
<1>10. IdInv(t)'
  BY <1>1, <1>2, <1>3, <1>4, SessionFacts DEF IdInv, After, Kind, Chip, locals, buffers, device
<1> QED
  BY <1>1, <1>3, <1>5, <1>6, <1>7, <1>8, <1>9, <1>10, HolderOnly, SessionFacts

\* After a failure a session claims no more than what was counted before.
LEMMA StoreFail ==
    ASSUME SessionInv, BusInv', NEW t \in Threads, Fail(t) PROVE SessionInv'
<1> DEFINE c == Chip(t)
<1>1. InSession(t) /\ AtTransfer(t) /\ TypeOK
  BY DEF Fail, InSession, AtTransfer, SessionInv, BusInv, TypeInv
<1>2. pc[t] = "next" /\ pc' = [pc EXCEPT ![t] = "unlock"] /\ ret' = [ret EXCEPT ![t] = -1]
  BY DEF Fail, Finish
<1>3. UNCHANGED <<lock, phase, req, chunk, delay, got, out, buffers, sel, device, unsettled>>
  BY DEF Fail, Finish
<1>4. /\ pc'[t] = "unlock" /\ ret'[t] = -1
      /\ \A u \in Threads \ {t} : pc'[u] = pc[u] /\ ret'[u] = ret[u]
  BY <1>1, <1>2 DEF TypeOK
<1>5. CallInv'
  BY <1>1, <1>3, <1>4 DEF SessionInv, CallInv, AtTransfer, InSession
<1>6. BusyInv'
  BY <1>1, <1>2, <1>3, <1>4, SessionFacts DEF SessionInv, BusyInv, BusyBy, Changes, Kind, Chip, After, AtTransfer, device
<1>7. DeviceInv(t)'
  BY <1>4 DEF DeviceInv, After, Before
<1>8. WriteInv(t)'
  BY <1>1, <1>2, <1>3, <1>4, SessionFacts DEF WriteInv, StoredUpTo, FitsPages, Sent, After, AtTransfer, Kind, Chip, buffers, device
<1>9. ReadInv(t)'
  BY <1>1, <1>2, <1>3, <1>4, SessionFacts DEF ReadInv, After, AtTransfer, Kind, Chip, buffers, device
<1>10. IdInv(t)'
  BY <1>1, <1>2, <1>3, <1>4, SessionFacts DEF IdInv, After, Kind, Chip, buffers, device
<1> QED
  BY <1>1, <1>3, <1>5, <1>6, <1>7, <1>8, <1>9, <1>10, HolderOnly, SessionFacts

\* After a write enable that was heard the chip obeys the next program.
LEMMA StoreWrenNext ==
    ASSUME SessionInv, BusInv', NEW t \in Threads, WrenNext(t) PROVE SessionInv'
<1> DEFINE c == Chip(t)
<1>1. InSession(t) /\ AtTransfer(t) /\ TypeOK
  BY DEF WrenNext, InSession, AtTransfer, SessionInv, BusInv, TypeInv
<1>2. /\ pc[t] = "next" /\ phase[t] = "wren" /\ got[t] >= 0
      /\ pc' = [pc EXCEPT ![t] = "select"] /\ phase' = [phase EXCEPT ![t] = "program"]
  BY DEF WrenNext, Continue
<1>3. UNCHANGED <<lock, req, chunk, delay, got, out, ret, buffers, sel, device, unsettled>>
  BY DEF WrenNext
<1>4. /\ pc'[t] = "select" /\ phase'[t] = "program"
      /\ \A u \in Threads \ {t} : pc'[u] = pc[u] /\ phase'[u] = phase[u]
  BY <1>1, <1>2 DEF TypeOK
<1>5. CallInv'
  BY <1>1, <1>3, <1>4 DEF SessionInv, CallInv, AtTransfer, InSession
<1>6. BusyInv'
  BY <1>1, <1>2, <1>3, <1>4, SessionFacts DEF SessionInv, BusyInv, BusyBy, Changes, Kind, Chip, After, AtTransfer, device
<1>7. DeviceInv(t)'
  BY <1>1, <1>2, <1>3, <1>4, SessionFacts DEF DeviceInv, Receiving, After, Before, Chip, buffers, device
<1>8. WriteInv(t)'
  BY <1>1, <1>2, <1>3, <1>4, SessionFacts DEF WriteInv, StoredUpTo, FitsPages, Sent, After, Kind, Chip, buffers, device
<1>9. Kind(t) \notin {"read", "read_id"}
  BY <1>1, <1>2, Changing
<1>10. ReadInv(t)'
  BY <1>3, <1>9 DEF ReadInv, Kind
<1>11. IdInv(t)'
  BY <1>1, <1>3, <1>9, SessionFacts DEF IdInv, Kind
<1> QED
  BY <1>1, <1>3, <1>5, <1>6, <1>7, <1>8, <1>10, <1>11, HolderOnly, SessionFacts

\* The copied bytes follow the ones copied before.
LEMMA StoreReadNext ==
    ASSUME SessionInv, BusInv', NEW t \in Threads, ReadNext(t) PROVE SessionInv'
<1> DEFINE c == Chip(t)
           A == req[t].addr
           L == req[t].len
           n == recvLen[Chip(t)]
           g == got[t]
           l == ChunkLen(t)
           s == ReadSize
           o == chunk[t] * ReadSize
<1>1. InSession(t) /\ AtTransfer(t) /\ TypeOK
  BY DEF ReadNext, InSession, AtTransfer, SessionInv, BusInv, TypeInv
<1>2. /\ pc[t] = "next" /\ phase[t] = "read" /\ g >= 0
      /\ out' = [out EXCEPT ![t] = Copied(t)]
      /\ recvLen' = [recvLen EXCEPT ![c] = @ + g]
      /\ chunk' = [chunk EXCEPT ![t] = @ + 1]
      /\ IF MoreChunks(t) THEN Continue(t, "read") ELSE Finish(t)
  BY DEF ReadNext
<1>3. UNCHANGED <<lock, req, delay, got, ret, recv, sendLen, sel, device, unsettled>>
  BY DEF ReadNext
<1>4. Kind(t) = "read" /\ c \in Chips /\ req[t] \in Requests
  BY <1>1, <1>2, SessionFacts DEF PhasesOf, Kinds
<1>5. /\ pc'[t] = (IF MoreChunks(t) THEN "select" ELSE "unlock") /\ phase'[t] = "read"
      /\ \A u \in Threads \ {t} : pc'[u] = pc[u] /\ out'[u] = out[u]
      /\ out'[t] = Copied(t) /\ recvLen'[c] = n + g /\ chunk'[t] = chunk[t] + 1
  BY <1>1, <1>2, <1>4 DEF TypeOK, Continue, Finish
<1>6. CallInv'
  BY <1>1, <1>3, <1>4, <1>5, SessionFacts DEF SessionInv, CallInv, AtTransfer, InSession
<1>7. BusyInv'
  BY <1>1, <1>3, <1>4, <1>5, SessionFacts DEF SessionInv, BusyInv, BusyBy, Changes, Kind, Chip, device
<1>8. DeviceInv(t)'
  BY <1>3, <1>4, <1>5 DEF DeviceInv, After, Before, Changes, Kind, Chip
<1>9. WriteInv(t)'
  BY <1>3, <1>4 DEF WriteInv, Kind
<1>10. /\ A \in Nat /\ L \in Nat /\ A + L <= MemSize /\ n \in Nat /\ g \in Nat
       /\ l \in 0 .. s /\ o \in Nat /\ o + l <= L /\ s \in Nat
       /\ ChunkAddr(t) = A + o /\ ChunkSize(t) = s /\ chunk[t] \in Nat
  <2>1. chunk[t] * ChunkSize(t) < req[t].len /\ ChunkSize(t) = ReadSize
    BY <1>1, <1>4, SessionFacts DEF ChunkSize
  <2>2. A \in Nat /\ L \in Nat /\ A + L <= MemSize
    BY <1>1, <1>4, RequestAssumption DEF TypeOK, Request, Cells
  <2>3. n \in Nat /\ g \in Nat /\ chunk[t] \in Nat /\ s \in Nat
    BY <1>1, <1>2, <1>4, SizeAssumption DEF TypeOK
  <2>4. l \in 0 .. s /\ o + l <= L
    BY <1>1, <1>4, <2>1, ChunkLenRange
  <2>5. ChunkAddr(t) = A + o /\ o \in Nat
    BY <1>1, <1>4, <2>1, ChunkPlace, RequestAssumption
  <2> QED
    BY <2>1, <2>2, <2>3, <2>4, <2>5
<1>11. /\ n <= L /\ n <= o /\ (~ShortTransfers => n = o)
       /\ \A k \in Cells :
             IF k < n THEN ~unsettled[c] /\ ~ShortTransfers => out[t][k] = mem[c][A + k]
                      ELSE out[t][k] = Blank
       /\ g <= l /\ (~ShortTransfers => g = l)
       /\ ~unsettled[c] => \A k \in Slots : k < g =>
                              recv[c].bytes[k] = mem[c][(ChunkAddr(t) + k) % MemSize]
  BY <1>1, <1>2, <1>4, SessionFacts DEF ReadInv, After
<1>12. MoreChunks(t) => l = s
  BY <1>1, <1>4, <1>10, SessionFacts, MoreIsFull
<1>13. ~MoreChunks(t) => o + l = L
  BY <1>1, <1>4, <1>10, SessionFacts, LastChunk
<1>14. (chunk[t] + 1) * ReadSize = o + s
  BY <1>10, Distribute
<1> HIDE DEF A, L, n, g, l, s, o
<1>15. /\ n + g <= L
       /\ MoreChunks(t) => n + g <= o + s /\ (~ShortTransfers => n + g = o + s)
       /\ ~MoreChunks(t) => (~ShortTransfers => n + g = L)
  BY <1>10, <1>11, <1>12, <1>13
<1>16. \A k \in Cells : Copied(t)[k] = IF k \in n .. n + g - 1 THEN recv[c].bytes[k - n] ELSE out[t][k]
  BY DEF Copied, n, g
<1>17. ASSUME NEW k \in Cells
       PROVE  IF k < n + g THEN ~unsettled[c] /\ ~ShortTransfers => Copied(t)[k] = mem[c][A + k]
                           ELSE Copied(t)[k] = Blank
  <2>0. k \in Nat
    BY DEF Cells
  <2>1. CASE k < n
    <3>1. k \notin n .. n + g - 1 /\ k < n + g
      BY <1>10, <2>0, <2>1
    <3> QED
      BY <1>11, <1>16, <2>1, <3>1
  <2>2. CASE n <= k /\ k < n + g
    <3>1. k \in n .. n + g - 1 /\ k - n \in Nat /\ k - n < g /\ k - n < l /\ ~(k < n)
      BY <1>10, <1>11, <2>0, <2>2
    <3>2. k - n \in Slots
      BY <1>10, <3>1 DEF Slots, s
    <3>3. Copied(t)[k] = recv[c].bytes[k - n]
      BY <1>16, <3>1
    <3>4. ~unsettled[c] => recv[c].bytes[k - n] = mem[c][(ChunkAddr(t) + (k - n)) % MemSize]
      BY <1>11, <3>1, <3>2
    <3>5. ChunkAddr(t) \in Nat /\ ChunkAddr(t) + l <= MemSize /\ l \in Nat
      BY <1>10, SizeAssumption
    <3>6. (ChunkAddr(t) + (k - n)) % MemSize = ChunkAddr(t) + (k - n)
      BY <3>1, <3>5, CellOfByte
    <3>7. ~ShortTransfers => ChunkAddr(t) + (k - n) = A + k
      BY <1>10, <1>11, <2>0
    <3> QED
      BY <2>2, <3>3, <3>4, <3>6, <3>7
  <2>3. CASE ~(k < n + g)
    <3>1. k \notin n .. n + g - 1 /\ ~(k < n)
      BY <1>10, <2>0, <2>3
    <3> QED
      BY <1>11, <1>16, <2>3, <3>1
  <2>4. k < n \/ (n <= k /\ k < n + g) \/ ~(k < n + g)
    BY <1>10, <2>0
  <2> QED
    BY <2>1, <2>2, <2>3, <2>4
<1>18. ReadInv(t)'
  <2>1. Chip(t)' = c /\ Kind(t)' = "read" /\ req' = req /\ mem' = mem /\ unsettled' = unsettled
    BY <1>3, <1>4 DEF Chip, Kind, device
  <2>2. AtTransfer(t)' => recvLen'[c] <= chunk'[t] * ReadSize /\ (~ShortTransfers => recvLen'[c] = chunk'[t] * ReadSize)
    BY <1>5, <1>14, <1>15 DEF AtTransfer
  <2>3. pc'[t] = "unlock" => (~ShortTransfers => recvLen'[c] = req'[t].len)
    BY <1>5, <1>15, <2>1 DEF L
  <2>4. recvLen'[c] <= req'[t].len
    BY <1>5, <1>15, <2>1 DEF L
  <2>5. \A k \in Cells :
             IF k < recvLen'[c]
             THEN ~unsettled'[c] /\ ~ShortTransfers => out'[t][k] = mem'[c][req'[t].addr + k]
             ELSE out'[t][k] = Blank
    BY <1>5, <1>17, <2>1 DEF A
  <2>6. pc'[t] # "transfer" /\ ~After(t)'
    BY <1>5 DEF After
  <2> QED
    BY <2>1, <2>2, <2>3, <2>4, <2>5, <2>6 DEF ReadInv
<1>19. IdInv(t)'
  BY <1>3, <1>4 DEF IdInv, Kind
<1> QED
  BY <1>1, <1>3, <1>6, <1>7, <1>8, <1>9, <1>18, <1>19, HolderOnly, SessionFacts

\* An identification returns the byte that came.
LEMMA StoreIdNext ==
    ASSUME SessionInv, BusInv', NEW t \in Threads, IdNext(t) PROVE SessionInv'
<1> DEFINE c == Chip(t)
           id == recv[Chip(t)].bytes[0]
<1>1. InSession(t) /\ AtTransfer(t) /\ TypeOK
  BY DEF IdNext, InSession, AtTransfer, SessionInv, BusInv, TypeInv
<1>2. /\ pc[t] = "next" /\ phase[t] = "id" /\ got[t] >= 0
      /\ pc' = [pc EXCEPT ![t] = "unlock"] /\ phase' = phase
      /\ \/ ret' = [ret EXCEPT ![t] = -1] /\ out' = out
         \/ ret' = ret /\ out' = [out EXCEPT ![t][0] = id]
  BY DEF IdNext, Finish
<1>3. UNCHANGED <<lock, req, chunk, delay, got, buffers, sel, device, unsettled>>
  BY DEF IdNext
<1>4. Kind(t) = "read_id" /\ c \in Chips /\ req[t] \in Requests /\ ret[t] = 0 /\ IdInv(t)
  BY <1>1, <1>2, SessionFacts DEF PhasesOf, Kinds
<1>5. /\ pc'[t] = "unlock" /\ ret'[t] \in {0, -1}
      /\ \A u \in Threads \ {t} : pc'[u] = pc[u] /\ ret'[u] = ret[u] /\ out'[u] = out[u]
      /\ \/ ret'[t] = -1 /\ out'[t] = out[t]
         \/ ret'[t] = 0 /\ out'[t] = [out[t] EXCEPT ![0] = id]
  BY <1>1, <1>2, <1>4 DEF TypeOK
<1>6. CallInv'
  BY <1>1, <1>3, <1>4, <1>5 DEF SessionInv, CallInv, AtTransfer, InSession
<1>7. BusyInv'
  BY <1>1, <1>3, <1>4, <1>5, SessionFacts DEF SessionInv, BusyInv, BusyBy, Changes, Kind, Chip, device
<1>8. DeviceInv(t)'
  BY <1>3, <1>4, <1>5 DEF DeviceInv, After, Before, Changes, Kind, Chip
<1>9. WriteInv(t)' /\ ReadInv(t)'
  BY <1>3, <1>4 DEF WriteInv, ReadInv, Kind
<1>10. IdInv(t)'
  <2>1. Chip(t)' = c /\ Kind(t)' = "read_id" /\ unsettled' = unsettled
    BY <1>3, <1>4 DEF Chip, Kind
  <2>2. out[t] = NoData /\ (~unsettled[c] /\ ~ShortTransfers => id = IdByte)
    BY <1>2, <1>4 DEF IdInv, After
  <2>3. 0 \in Cells /\ \A k \in Cells : NoData[k] = Blank
    BY SizeAssumption DEF Cells, NoData
  <2>4. \A k \in Cells \ {0} : out'[t][k] = Blank
    BY <1>5, <2>2, <2>3 DEF NoData
  <2>5. ret'[t] = 0 => out'[t][0] = id
    BY <1>5, <2>2, <2>3 DEF NoData
  <2>6. ret'[t] # 0 => out'[t] = NoData
    BY <1>5, <2>2
  <2> QED
    BY <1>5, <2>1, <2>2, <2>4, <2>5, <2>6 DEF IdInv, After
<1> QED
  BY <1>1, <1>3, <1>6, <1>7, <1>8, <1>9, <1>10, HolderOnly, SessionFacts

\* A chunk that was taken, and seen to be done where the code waits for it.
LEMMA StoreChunkDone ==
    ASSUME SessionInv, BusInv', NEW t \in Threads, pc[t] = "next", Sent(t),
           Kind(t) \in {"write", "erase", "write_status"}, ChunkDone(t),
           UNCHANGED <<lock, req, got, out, ret, recv, recvLen, sel, device, unsettled>>,
           Waits(t) => ~busy[Chip(t)]
    PROVE  SessionInv'
<1> DEFINE c == Chip(t)
<1>1. InSession(t) /\ AtTransfer(t) /\ TypeOK /\ TypeInv
  BY DEF InSession, AtTransfer, SessionInv, BusInv, TypeInv
<1>2. /\ c \in Chips /\ lock = t /\ ret[t] = 0 /\ req[t] \in Requests
      /\ DeviceInv(t) /\ WriteInv(t) /\ IdInv(t)
      /\ Kind(t) = "write" => chunk[t] * ChunkSize(t) < req[t].len /\ sendLen[c] = chunk[t] * WriteSize
  BY <1>1, SessionFacts
<1>3. Chip(t)' = c /\ Kind(t)' = Kind(t) /\ Changes(t)' = Changes(t) /\ Waits(t)' = Waits(t)
      /\ mem' = mem /\ busy' = busy /\ wel' = wel
  BY DEF Chip, Kind, Changes, Waits, device
<1>4. /\ pc'[t] = (IF Kind(t) = "write" /\ MoreChunks(t) THEN "select" ELSE "unlock")
      /\ pc'[t] = "select" => phase'[t] = FirstPhase(req[t])
      /\ \A u \in Threads \ {t} : pc'[u] = pc[u]
  BY <1>1 DEF ChunkDone, Continue, Finish, TypeOK
<1>5. FirstPhase(req[t]) = (IF Kind(t) # "write" \/ UsesWren(c) THEN "wren" ELSE "program")
  BY DEF FirstPhase, Kind, Chip
<1>6. CallInv'
  BY <1>1, <1>2, <1>4 DEF SessionInv, CallInv, AtTransfer, InSession
<1>7. BusyInv'
  <2> SUFFICES ASSUME NEW d \in Chips, busy[d]
               PROVE  /\ Polls(d)
                      /\ ~unsettled[d] => \E u \in Threads : lock = u /\ Chip(u)' = d /\ BusyBy(u)'
    BY <1>3 DEF BusyInv
  <2>1. Polls(d) /\ (~unsettled[d] => d = c)
    BY <1>2 DEF SessionInv, BusyInv
  <2>2. ~unsettled[d] => Kind(t) = "erase" /\ ~PollsErase(c)
    BY <2>1 DEF Waits
  <2>3. Kind(t) = "erase" /\ ~PollsErase(c) => BusyBy(t)'
    BY <1>3, <1>4 DEF BusyBy, Changes
  <2> QED
    BY <1>2, <1>3, <2>1, <2>2, <2>3
<1>8. DeviceInv(t)'
  BY <1>3, <1>4, <1>5 DEF DeviceInv, After, Before
<1>9. WriteInv(t)'
  <2>1. ~Sent(t)'
    BY <1>4, <1>5 DEF Sent, After, AtTransfer
  <2>2. FitsPages(t)' = FitsPages(t) /\ unsettled' = unsettled
    BY DEF FitsPages
  <2>3. ASSUME Kind(t) = "write"
        PROVE  /\ ~unsettled[c] /\ ~ShortTransfers /\ FitsPages(t) => StoredUpTo(t, sendLen[c])'
               /\ pc'[t] = "unlock" => sendLen'[c] = req'[t].len
    <3>1. sendLen'[c] = sendLen[c] + ChunkLen(t)
      BY <1>1, <1>2, <2>3 DEF ChunkDone, TypeOK
    <3>2. ~unsettled[c] /\ ~ShortTransfers /\ FitsPages(t) => StoredUpTo(t, sendLen[c] + ChunkLen(t))
      BY <1>2, <2>3 DEF WriteInv
    <3>3. ~unsettled[c] /\ ~ShortTransfers /\ FitsPages(t) => StoredUpTo(t, sendLen[c])'
      BY <1>3, <3>1, <3>2 DEF StoredUpTo
    <3>4. ~MoreChunks(t) => sendLen[c] + ChunkLen(t) = req[t].len
      BY <1>1, <1>2, <2>3, LastChunk DEF ChunkSize
    <3> QED
      BY <1>4, <2>3, <3>1, <3>3, <3>4
  <2>4. Kind(t) = "erase" /\ ~unsettled[c] /\ ~ShortTransfers => mem[c] = NoData
    BY <1>2 DEF WriteInv
  <2> QED
    BY <1>3, <2>1, <2>2, <2>3, <2>4 DEF WriteInv
<1>10. ReadInv(t)'
  BY <1>3 DEF ReadInv
<1>11. IdInv(t)'
  BY <1>2, <1>3 DEF IdInv
<1> QED
  BY <1>2, <1>6, <1>7, <1>8, <1>9, <1>10, <1>11, HolderOnly

\* A chunk that has been sent is counted only when nothing is left to wait for.
LEMMA StoreProgramNext ==
    ASSUME SessionInv, BusInv', NEW t \in Threads, ProgramNext(t) PROVE SessionInv'
<1> DEFINE c == Chip(t)
<1>1. InSession(t) /\ AtTransfer(t) /\ TypeOK
  BY DEF ProgramNext, InSession, AtTransfer, SessionInv, BusInv, TypeInv
<1>2. pc[t] = "next" /\ phase[t] = "program" /\ got[t] >= 0 /\ Sent(t)
  BY DEF ProgramNext, Sent, After
<1>3. UNCHANGED <<lock, req, got, out, ret, recv, recvLen, sel, device, unsettled>>
  BY DEF ProgramNext
<1>4. Kind(t) \in {"write", "erase", "write_status"} /\ Changes(t)
  BY <1>1, <1>2, Changing
<1>5. CASE Waits(t)
  <2>1. /\ pc' = [pc EXCEPT ![t] = "select"] /\ phase' = [phase EXCEPT ![t] = "poll"]
        /\ UNCHANGED <<sendLen, chunk>>
    BY <1>5 DEF ProgramNext, Continue
  <2>2. /\ pc'[t] = "select" /\ phase'[t] = "poll"
        /\ \A u \in Threads \ {t} : pc'[u] = pc[u] /\ phase'[u] = phase[u]
    BY <1>1, <2>1 DEF TypeOK
  <2>3. CallInv'
    BY <1>1, <1>3, <2>2 DEF SessionInv, CallInv, AtTransfer, InSession
  <2>4. BusyInv'
    BY <1>1, <1>3, <1>4, <2>2, SessionFacts DEF SessionInv, BusyInv, BusyBy, Changes, Kind, Chip, After, AtTransfer, device
  <2>5. DeviceInv(t)'
    BY <2>2 DEF DeviceInv, After, Before
  <2>6. WriteInv(t)'
    BY <1>1, <1>2, <1>3, <2>1, <2>2, SessionFacts DEF WriteInv, StoredUpTo, FitsPages, ChunkLen, ChunkSize, Kind, Chip, device
  <2>7. ReadInv(t)' /\ IdInv(t)'
    BY <1>1, <1>3, <1>4, SessionFacts DEF ReadInv, IdInv, Kind
  <2> QED
    BY <1>1, <1>3, <2>3, <2>4, <2>5, <2>6, <2>7, HolderOnly, SessionFacts
<1>6. CASE ~Waits(t)
  <2>1. ChunkDone(t)
    BY <1>6 DEF ProgramNext
  <2> QED
    BY <1>2, <1>3, <1>4, <1>6, <2>1, StoreChunkDone
<1> QED
  BY <1>5, <1>6

\* A poll that sees the chip ready ends the write cycle of the chunk, one that
\* gives up says so.
LEMMA StorePollNext ==
    ASSUME SessionInv, BusInv', NEW t \in Threads, PollNext(t) PROVE SessionInv'
<1> DEFINE c == Chip(t)
<1>1. InSession(t) /\ AtTransfer(t) /\ TypeOK
  BY DEF PollNext, InSession, AtTransfer, SessionInv, BusInv, TypeInv
<1>2. pc[t] = "next" /\ phase[t] = "poll" /\ Sent(t)
  BY <1>1 DEF PollNext, Sent
<1>3. UNCHANGED <<lock, req, got, out, recv, recvLen, sel, device, unsettled>>
  BY DEF PollNext
<1>4. Kind(t) \in {"write", "erase", "write_status"}
  BY <1>1, <1>2, SessionFacts DEF PhasesOf, Kinds
<1>5. CASE 1 \in StatusBit(t) /\ UNCHANGED <<sendLen, chunk>> /\ GiveUp(t) /\ ret' = [ret EXCEPT ![t] = -1] /\ Finish(t)
  <2>1. /\ pc'[t] = "unlock" /\ ret'[t] = -1 /\ phase' = phase
        /\ \A u \in Threads \ {t} : pc'[u] = pc[u] /\ ret'[u] = ret[u]
    BY <1>1, <1>5 DEF TypeOK, Finish
  <2>2. CallInv'
    BY <1>1, <1>3, <2>1 DEF SessionInv, CallInv, AtTransfer, InSession
  <2>3. BusyInv'
    BY <1>1, <1>2, <1>3, <2>1, SessionFacts DEF SessionInv, BusyInv, BusyBy, Changes, Kind, Chip, After, AtTransfer, device
  <2>4. DeviceInv(t)'
    BY <2>1 DEF DeviceInv, After, Before
  <2>5. WriteInv(t)'
    BY <1>1, <1>3, <1>5, <2>1, SessionFacts DEF WriteInv, StoredUpTo, FitsPages, Sent, After, AtTransfer, Kind, Chip, device
  <2>6. ReadInv(t)' /\ IdInv(t)'
    BY <1>1, <1>3, <1>4, SessionFacts DEF ReadInv, IdInv, Kind
  <2> QED
    BY <1>1, <1>3, <2>2, <2>3, <2>4, <2>5, <2>6, HolderOnly, SessionFacts
<1>6. CASE 1 \in StatusBit(t) /\ UNCHANGED <<sendLen, chunk>> /\ ret' = ret /\ Continue(t, "poll")
  <2>1. /\ pc'[t] = "select" /\ phase'[t] = "poll"
        /\ \A u \in Threads \ {t} : pc'[u] = pc[u] /\ phase'[u] = phase[u]
    BY <1>1, <1>6 DEF TypeOK, Continue
  <2>2. CallInv'
    BY <1>1, <1>3, <1>6, <2>1 DEF SessionInv, CallInv, AtTransfer, InSession
  <2>3. BusyInv'
    BY <1>1, <1>2, <1>3, <2>1, SessionFacts DEF SessionInv, BusyInv, BusyBy, Changes, Kind, Chip, After, AtTransfer, device
  <2>4. DeviceInv(t)'
    BY <2>1 DEF DeviceInv, After, Before
  <2>5. WriteInv(t)'
    BY <1>1, <1>2, <1>3, <1>6, <2>1, SessionFacts DEF WriteInv, StoredUpTo, FitsPages, ChunkLen, ChunkSize, Kind, Chip, device
  <2>6. ReadInv(t)' /\ IdInv(t)'
    BY <1>1, <1>3, <1>4, SessionFacts DEF ReadInv, IdInv, Kind
  <2> QED
    BY <1>1, <1>3, <2>2, <2>3, <2>4, <2>5, <2>6, HolderOnly, SessionFacts
<1>7. CASE 0 \in StatusBit(t) /\ ChunkDone(t) /\ UNCHANGED <<delay, ret>>
  <2>1. got[t] >= 0 /\ recv[c].op = "data" => recv[c].bytes[0] \in {BusyByte, ReadyByte} /\ (recv[c].bytes[0] = ReadyByte => ~busy[c])
    BY <1>1, <1>2, SessionFacts DEF DeviceInv, After
  <2>2. got[t] >= 0 /\ recv[c].op = "data"
    <3>1. got[t] \in Int
      BY <1>1 DEF TypeOK
    <3>2. got[t] < 0 \/ recv[c].op # "data" => StatusBit(t) = {1}
      BY DEF StatusBit
    <3> QED
      BY <1>7, <3>1, <3>2
  <2>3. ~busy[c]
    <3>1. recv[c].bytes[0] = BusyByte => StatusBit(t) = {1}
      BY <2>2, ByteAssumption DEF StatusBit
    <3> QED
      BY <1>7, <2>1, <2>2, <3>1
  <2> QED
    BY <1>2, <1>3, <1>4, <1>7, <2>3, StoreChunkDone
<1> QED
  BY <1>5, <1>6, <1>7 DEF PollNext

\* A chip is left settled only when its write cycle is over.
LEMMA StoreUnlock ==
    ASSUME SessionInv, BusInv', NEW t \in Threads, Unlock(t) PROVE SessionInv'
<1> DEFINE c == Chip(t)
<1>1. InSession(t) /\ TypeOK /\ pc[t] = "unlock"
  BY DEF Unlock, InSession, SessionInv, BusInv, TypeInv
<1>2. /\ lock' = NoThread /\ pc' = [pc EXCEPT ![t] = "return"]
      /\ \A u \in Threads \ {t} : ret'[u] = ret[u]
      /\ UNCHANGED <<phase, req, chunk, delay, got, out, sel, device>>
  BY <1>1 DEF Unlock, TypeOK
<1>3. pc'[t] = "return" /\ \A u \in Threads \ {t} : pc'[u] = pc[u]
  BY <1>1, <1>2 DEF TypeOK
<1>4. c \in Chips /\ lock = t /\ DeviceInv(t) /\ ret[t] \in {0, -1}
  BY <1>1, SessionFacts DEF SessionInv, CallInv
<1>5. CallInv'
  BY <1>1, <1>2, <1>3 DEF SessionInv, CallInv, AtTransfer, InSession
<1>6. ASSUME NEW d \in Chips, busy[d] PROVE Polls(d) /\ unsettled'[d]
  <2>1. Polls(d) /\ (~unsettled[d] => d = c /\ BusyBy(t))
    BY <1>4, <1>6 DEF SessionInv, BusyInv
  <2>2. CASE d # c
    <3>1. unsettled'[d] = unsettled[d]
      BY <1>1, <1>4, <2>2 DEF Unlock, TypeOK
    <3> QED
      BY <2>1, <2>2, <3>1
  <2>3. CASE d = c /\ Changes(t)
    <3>1. unsettled'[c] = (Polls(c) /\ (ret[t] < 0 \/ (Kind(t) = "erase" /\ ~PollsErase(c))))
      BY <1>1, <1>4, <2>3 DEF Unlock, TypeOK
    <3>2. CASE ret[t] = 0
      <4>1. ~Waits(t)
        BY <1>1, <1>4, <1>6, <2>3, <3>2 DEF DeviceInv
      <4>2. Kind(t) = "erase" /\ ~PollsErase(c)
        BY <2>1, <2>3, <4>1 DEF Waits
      <4> QED
        BY <2>1, <2>3, <3>1, <4>2
    <3>3. CASE ret[t] = -1
      <4>1. ret[t] < 0
        BY <3>3
      <4> QED
        BY <2>1, <2>3, <3>1, <4>1, Zenon
    <3> QED
      BY <1>4, <3>2, <3>3
  <2>4. CASE d = c /\ ~Changes(t)
    <3>1. unsettled' = unsettled
      BY <2>4 DEF Unlock
    <3> QED
      BY <2>1, <2>4, <3>1 DEF BusyBy
  <2> QED
    BY <2>2, <2>3, <2>4
<1>7. BusyInv'
  BY <1>2, <1>6 DEF BusyInv, device
<1>8. ~InSession(t)'
  BY <1>3 DEF InSession
<1> QED
  BY <1>2, <1>5, <1>7, <1>8, HolderOnly

\* The session starts with nothing moved, on a chip that is not busy unless
\* it was left busy.
LEMMA StoreLock ==
    ASSUME SessionInv, BusInv', NEW t \in Threads, Lock(t) PROVE SessionInv'
<1> DEFINE c == Chip(t)
<1>1. TypeOK /\ TypeInv /\ pc[t] = "lock" /\ ~InSession(t)
  BY DEF Lock, InSession, SessionInv, BusInv, TypeInv
<1>2. /\ lock = NoThread /\ lock' = t /\ ResetLengths(t)
      /\ pc' = [pc EXCEPT ![t] = IF NothingToDo(t) THEN "unlock" ELSE "select"]
      /\ UNCHANGED <<locals, recv, sel, device, unsettled>>
  BY DEF Lock
<1>3. /\ pc'[t] = (IF NothingToDo(t) THEN "unlock" ELSE "select")
      /\ \A u \in Threads \ {t} : pc'[u] = pc[u]
  BY <1>1, <1>2 DEF TypeOK
<1>4. /\ Kind(t) \in Kinds \ {"read_status"} /\ c \in Chips /\ req[t] \in Requests
      /\ phase[t] = FirstPhase(req[t]) /\ chunk[t] = 0 /\ ret[t] = 0 /\ out[t] = NoData
  BY <1>1 DEF SessionInv, BusInv, CallInv, TypeInv, LoopInv, TypeOK, Request, Chip, Kind, InSession
<1>5. Chip(t)' = c /\ Kind(t)' = Kind(t) /\ Changes(t)' = Changes(t) /\ phase'[t] = phase[t]
      /\ req' = req /\ ret' = ret /\ out' = out /\ unsettled' = unsettled /\ chunk' = chunk
      /\ mem' = mem /\ busy' = busy /\ wel' = wel
  BY <1>2 DEF Chip, Kind, Changes, locals, device
<1>6. CallInv'
  BY <1>3, <1>4, <1>5 DEF SessionInv, CallInv, AtTransfer, InSession
<1>7. BusyInv'
  <2>1. ASSUME NEW d \in Chips, busy[d] PROVE Polls(d) /\ unsettled[d]
    BY <1>2, <2>1, ThreadAssumption DEF SessionInv, BusyInv
  <2> QED
    BY <1>5, <2>1 DEF BusyInv
<1>8. phase[t] # "poll" /\ (phase[t] = "program" => ~UsesWren(c))
  BY <1>4 DEF FirstPhase, Kind, Chip, Kinds
<1>9. NothingToDo(t) => Kind(t) \in {"read", "write"} /\ req[t].len = 0 /\ ~Changes(t)
  BY DEF NothingToDo, Changes
<1>10. DeviceInv(t)'
  BY <1>3, <1>5, <1>8, <1>9 DEF DeviceInv, After, Before
<1>11. ~Sent(t)'
  BY <1>3, <1>5, <1>8 DEF Sent, After
<1>12. \A k \in Cells : k \in Nat
  BY DEF Cells
<1>13. req[t].len \in Nat /\ chunk'[t] * ReadSize = 0
  BY <1>1, <1>4, <1>5, SizeAssumption DEF TypeOK, Request
<1>14. WriteInv(t)'
  <2>1. Kind(t) = "write" => sendLen'[c] = 0
    BY <1>1, <1>2, <1>4 DEF ResetLengths, TypeOK
  <2>2. Kind(t) = "write" => StoredUpTo(t, sendLen[c])'
    BY <1>5, <1>12, <2>1 DEF StoredUpTo
  <2>3. Kind(t) = "write" /\ pc'[t] = "unlock" => sendLen'[c] = req'[t].len
    BY <1>3, <1>5, <1>9, <2>1
  <2>4. Kind(t) = "erase" => pc'[t] # "unlock"
    BY <1>3, <1>9
  <2> QED
    BY <1>5, <1>11, <2>2, <2>3, <2>4 DEF WriteInv
<1>15. ReadInv(t)'
  <2>1. Kind(t) = "read" => recvLen'[c] = 0
    BY <1>1, <1>2, <1>4 DEF ResetLengths, TypeOK
  <2>2. \A k \in Cells : out'[t][k] = Blank /\ ~(k < 0)
    BY <1>4, <1>5, <1>12 DEF NoData
  <2>3. pc'[t] = "unlock" => req[t].len = 0
    BY <1>3, <1>9
  <2>4. pc'[t] # "transfer" /\ ~After(t)'
    BY <1>3 DEF After
  <2> QED
    BY <1>5, <1>13, <2>1, <2>2, <2>3, <2>4 DEF ReadInv
<1>16. IdInv(t)'
  <2>1. \A k \in Cells : NoData[k] = Blank
    BY DEF NoData
  <2>2. Kind(t) = "read_id" => pc'[t] # "unlock"
    BY <1>3, <1>9
  <2>3. ~After(t)'
    BY <1>3 DEF After
  <2> QED
    BY <1>4, <1>5, <2>1, <2>2, <2>3 DEF IdInv
<1> QED
  BY <1>2, <1>6, <1>7, <1>10, <1>14, <1>15, <1>16, HolderOnly

\* What happens outside the session does not touch it.
LEMMA Outside ==
    ASSUME SessionInv, BusInv', CallInv', lock' = lock,
           UNCHANGED <<buffers, sel, mem, wel, unsettled>>,
           \A c \in Chips : busy'[c] => busy[c],
           \A u \in Threads : InSession(u) \/ InSession(u)' =>
               /\ pc'[u] = pc[u] /\ phase'[u] = phase[u] /\ req'[u] = req[u]
               /\ chunk'[u] = chunk[u] /\ got'[u] = got[u] /\ out'[u] = out[u]
               /\ ret'[u] = ret[u]
    PROVE  SessionInv'
<1>1. ASSUME NEW u \in Threads, InSession(u)'
      PROVE  /\ InSession(u)
             /\ pc'[u] = pc[u] /\ phase'[u] = phase[u] /\ req'[u] = req[u]
             /\ chunk'[u] = chunk[u] /\ got'[u] = got[u] /\ out'[u] = out[u] /\ ret'[u] = ret[u]
  BY <1>1 DEF InSession
<1>2. ASSUME NEW u \in Threads, InSession(u)'
      PROVE  DeviceInv(u)' /\ WriteInv(u)' /\ ReadInv(u)' /\ IdInv(u)'
  <2> DEFINE c == Chip(u)
  <2>1. DeviceInv(u) /\ WriteInv(u) /\ ReadInv(u) /\ IdInv(u) /\ c \in Chips
    BY <1>1, <1>2, SessionFacts
  <2>2. /\ pc'[u] = pc[u] /\ phase'[u] = phase[u] /\ req'[u] = req[u]
        /\ chunk'[u] = chunk[u] /\ got'[u] = got[u] /\ out'[u] = out[u] /\ ret'[u] = ret[u]
    BY <1>1, <1>2
  <2>3. /\ Chip(u)' = c /\ Kind(u)' = Kind(u) /\ Changes(u)' = Changes(u) /\ Waits(u)' = Waits(u)
        /\ After(u)' = After(u) /\ Before(u)' = Before(u) /\ AtTransfer(u)' = AtTransfer(u)
        /\ Sent(u)' = Sent(u) /\ Receiving(u)' = Receiving(u) /\ FitsPages(u)' = FitsPages(u)
        /\ ChunkAddr(u)' = ChunkAddr(u) /\ ChunkLen(u)' = ChunkLen(u)
    BY <2>2 DEF Chip, Kind, Changes, Waits, After, Before, AtTransfer, Sent, Receiving, FitsPages,
                ChunkAddr, ChunkLen, ChunkSize
  <2>4. recv' = recv /\ recvLen' = recvLen /\ sendLen' = sendLen
    BY DEF buffers
  <2>5. DeviceInv(u)'
    BY <2>1, <2>2, <2>3, <2>4 DEF DeviceInv
  <2>6. WriteInv(u)'
    BY <2>1, <2>2, <2>3, <2>4 DEF WriteInv, StoredUpTo
  <2>7. ReadInv(u)'
    BY <2>1, <2>2, <2>3, <2>4 DEF ReadInv
  <2>8. IdInv(u)'
    BY <2>1, <2>2, <2>3, <2>4 DEF IdInv
  <2> QED
    BY <2>5, <2>6, <2>7, <2>8
<1>3. BusyInv'
  <2> SUFFICES ASSUME NEW d \in Chips, busy'[d]
               PROVE  /\ Polls(d)
                      /\ ~unsettled[d] => \E u \in Threads : lock' = u /\ Chip(u)' = d /\ BusyBy(u)'
    BY DEF BusyInv
  <2>1. Polls(d) /\ (~unsettled[d] => \E u \in Threads : lock = u /\ Chip(u) = d /\ BusyBy(u))
    BY DEF SessionInv, BusyInv
  <2>2. ASSUME NEW u \in Threads, lock = u, Chip(u) = d, BusyBy(u)
        PROVE  Chip(u)' = d /\ BusyBy(u)'
    <3>1. InSession(u)
      BY <2>2 DEF SessionInv, BusInv, TypeInv, MutexInv, Locked
    <3>2. pc'[u] = pc[u] /\ phase'[u] = phase[u] /\ req'[u] = req[u] /\ ret'[u] = ret[u]
      BY <3>1
    <3> QED
      BY <2>2, <3>2 DEF BusyBy, Changes, Kind, Chip, After, AtTransfer
  <2> QED
    BY <2>1, <2>2
<1> QED
  BY <1>2, <1>3 DEF SessionInv

\* A call starts outside the session, and is none without the lock.
LEMMA StoreCall ==
    ASSUME SessionInv, BusInv', NoUnlockedCalls, NEW t \in Threads, Call(t) PROVE SessionInv'
<1>1. TypeOK /\ pc[t] = "idle"
  BY DEF Call, SessionInv, BusInv, TypeInv
<1>2. PICK r \in Requests : /\ req' = [req EXCEPT ![t] = r]
                            /\ phase' = [phase EXCEPT ![t] = FirstPhase(r)]
                            /\ pc' = [pc EXCEPT ![t] = IF r.kind = "read_status" THEN "select" ELSE "lock"]
  BY DEF Call
<1>3. UNCHANGED <<lock, chunk, delay, got, out, ret, buffers, sel, device, unsettled>>
  BY DEF Call
<1>4. /\ pc'[t] = "lock" /\ req'[t] = r
      /\ \A u \in Threads \ {t} : pc'[u] = pc[u] /\ phase'[u] = phase[u] /\ req'[u] = req[u]
  BY <1>1, <1>2 DEF TypeOK, NoUnlockedCalls
<1>5. CallInv'
  BY <1>1, <1>3, <1>4 DEF SessionInv, CallInv, AtTransfer, InSession
<1> QED
  BY <1>1, <1>3, <1>4, <1>5, Outside DEF InSession, device

\* A return is after the unlock and touches no chip.
LEMMA StoreReturn ==
    ASSUME SessionInv, BusInv', NEW t \in Threads, Return(t) PROVE SessionInv'
<1>1. TypeOK /\ pc[t] = "return"
  BY DEF Return, SessionInv, BusInv, TypeInv
<1>2. UNCHANGED <<lock, req, buffers, sel, device, unsettled>>
  BY DEF Return
<1>3. /\ pc'[t] = "done" /\ out'[t] = NoData
      /\ \A u \in Threads \ {t} :
            /\ pc'[u] = pc[u] /\ phase'[u] = phase[u] /\ chunk'[u] = chunk[u]
            /\ got'[u] = got[u] /\ out'[u] = out[u] /\ ret'[u] = ret[u]
  BY <1>1 DEF Return, Leave, TypeOK
<1>4. CallInv'
  BY <1>1, <1>2, <1>3 DEF SessionInv, CallInv, AtTransfer, InSession
<1> QED
  BY <1>1, <1>2, <1>3, <1>4, Outside DEF InSession, device

\* A caller that takes its result is in no session.
LEMMA StoreConsume ==
    ASSUME SessionInv, BusInv', NEW t \in Threads, Consume(t) PROVE SessionInv'
<1>1. TypeOK /\ pc[t] = "done"
  BY DEF Consume, SessionInv, BusInv, TypeInv
<1>2. UNCHANGED <<lock, phase, chunk, delay, got, out, buffers, sel, device, unsettled>>
  BY DEF Consume
<1>3. /\ pc'[t] = "idle" /\ ret'[t] = 0
      /\ \A u \in Threads \ {t} : pc'[u] = pc[u] /\ ret'[u] = ret[u] /\ req'[u] = req[u]
  BY <1>1 DEF Consume, TypeOK
<1>4. CallInv'
  BY <1>1, <1>2, <1>3 DEF SessionInv, CallInv, AtTransfer, InSession
<1> QED
  BY <1>1, <1>2, <1>3, <1>4, Outside DEF InSession, device

\* A chip that ends its write cycle only gets ready.
LEMMA StoreDeviceDone ==
    ASSUME SessionInv, BusInv', NEW d \in Chips, DeviceDone(d) PROVE SessionInv'
<1>1. UNCHANGED <<lock, pc, locals, buffers, sel, mem, wel, unsettled>>
  BY DEF DeviceDone
<1>2. \A c \in Chips : busy'[c] => busy[c]
  <2>1. busy \in [Chips -> BOOLEAN] /\ busy' = [busy EXCEPT ![d] = FALSE]
    BY DEF DeviceDone, SessionInv, BusInv, TypeInv, TypeOK
  <2> QED
    BY <2>1, Zenon
<1>3. CallInv'
  BY <1>1 DEF SessionInv, CallInv, AtTransfer, InSession, locals
<1> QED
  BY <1>1, <1>2, <1>3, Outside DEF locals

\* A stutter keeps the invariant.
LEMMA StoreStutter ==
    ASSUME SessionInv, BusInv', UNCHANGED vars PROVE SessionInv'
<1>1. UNCHANGED <<lock, pc, locals, buffers, sel, device, unsettled>>
  BY DEF vars
<1>2. CallInv'
  BY <1>1 DEF SessionInv, CallInv, AtTransfer, InSession, locals
<1> QED
  BY <1>1, <1>2, Outside DEF locals, device

----------------------------------------------------------------------------
(* SessionInv is inductive. *)

\* Before the first call the invariant holds.
LEMMA SessionInit == Init => SessionInv
<1> SUFFICES ASSUME Init PROVE SessionInv
  OBVIOUS
<1>1. CallInv
  BY DEF Init, CallInv, AtTransfer, InSession
<1>2. BusyInv
  BY DEF Init, BusyInv
<1>3. \A t \in Threads : ~InSession(t)
  BY DEF Init, InSession
<1> QED
  BY <1>1, <1>2, <1>3, BusInit DEF SessionInv

\* Without unlocked calls every step keeps the invariant.
LEMMA SessionNext == NoUnlockedCalls /\ SessionInv /\ [Next]_vars => SessionInv'
<1> SUFFICES ASSUME NoUnlockedCalls, SessionInv, [Next]_vars PROVE SessionInv'
  OBVIOUS
<1>1. BusInv'
  BY BusNext DEF SessionInv
<1>2. ASSUME NEW t \in Threads, Session(t) PROVE SessionInv'
  <2>1. ~StatusNext(t)
    BY DEF StatusNext, SessionInv, BusInv
  <2> QED
    BY <1>1, <1>2, <2>1, StoreSelect, StoreReceive, StoreSend, StoreDeselect, StoreFail,
       StoreReadNext, StoreIdNext, StoreWrenNext, StoreProgramNext, StorePollNext,
       StoreUnlock, StoreReturn DEF Session
<1> QED
  BY <1>1, <1>2, StoreCall, StoreLock, StoreConsume, StoreDeviceDone, StoreStutter DEF Next

\* Without unlocked calls the invariant always holds.
LEMMA SessionAlways == NoUnlockedCalls => (Spec => []SessionInv)
<1> SUFFICES ASSUME NoUnlockedCalls PROVE Spec => []SessionInv
  OBVIOUS
<1>1. SessionInv /\ [Next]_vars => SessionInv'
  BY SessionNext
<1> QED
  BY <1>1, SessionInit, PTL DEF Spec

----------------------------------------------------------------------------
(* What the callers rely on. *)

\* As long as nobody calls the unlocked read_status, no session hands over a
\* chip that is still writing, unless its call failed or is the erase of
\* MX25U1635, which does not wait.
THEOREM QuietChips == NoUnlockedCalls => (Spec => []QuietBetweenCalls)
<1>1. SessionInv => QuietBetweenCalls
  BY ThreadAssumption DEF SessionInv, BusyInv, QuietBetweenCalls
<1> QED
  BY <1>1, SessionAlways, PTL

\* A device_read has delivered, at every moment of its session, the cells of
\* its chip in order and nothing else.
THEOREM ReadsDeliver == NoUnlockedCalls => (Spec => []ReadsMemory)
<1>1. SessionInv => ReadsMemory
  <2> SUFFICES ASSUME SessionInv, NEW t \in Threads, InSession(t), Kind(t) = "read", NEW k \in Cells
               PROVE  IF k < recvLen[Chip(t)]
                      THEN /\ k < req[t].len
                           /\ ~unsettled[Chip(t)] /\ ~ShortTransfers =>
                                out[t][k] = mem[Chip(t)][req[t].addr + k]
                      ELSE out[t][k] = Blank
    BY DEF ReadsMemory
  <2>1. ReadInv(t) /\ Chip(t) \in Chips
    BY SessionFacts
  <2>2. k \in Nat /\ recvLen[Chip(t)] \in Nat /\ req[t].len \in Nat
    BY <2>1 DEF SessionInv, BusInv, TypeInv, TypeOK, Request, Cells
  <2> QED
    BY <2>1, <2>2 DEF ReadInv
<1> QED
  BY <1>1, SessionAlways, PTL

\* What _sendLen counts is in the chip, all of it when device_write succeeds,
\* and device_erase of EPCS64 leaves only blank cells when it succeeds.
THEOREM WritesKept == NoUnlockedCalls => (Spec => []WritesStored)
<1>1. SessionInv => WritesStored
  BY SessionFacts DEF WritesStored, WriteInv, StoredUpTo
<1> QED
  BY <1>1, SessionAlways, PTL

\* Division keeps the order.
LEMMA DivOrder ==
    ASSUME NEW a \in Nat, NEW b \in Nat, NEW w \in Nat \ {0}, a <= b
    PROVE  a \div w \in Nat /\ a \div w <= b \div w
<1> DEFINE q == a \div w
           r == a % w
           p == b \div w
           s == b % w
<1>1. a = w * q + r /\ q \in Nat /\ b = w * p + s /\ p \in Nat
  BY DivMod
<1>2. r \in 0 .. w - 1 /\ s \in 0 .. w - 1
  BY ModRange
<1> HIDE DEF q, r, p, s
<1>3. ~(q >= p + 1)
  <2>1. q >= p + 1 => w * (q - p - 1) >= 0
    BY <1>1
  <2>2. w * (q - p - 1) = w * q - w * p - w
    BY <1>1
  <2>3. w * q \in Int /\ w * p \in Int
    BY <1>1
  <2> QED
    BY <2>1, <2>2, <2>3, <1>1, <1>2
<1>4. q \in Nat /\ q <= p
  BY <1>1, <1>3
<1> QED
  BY <1>4 DEF q, p

\* Where a program or an erase can reach.
LEMMA ProgramReach ==
    ASSUME SessionInv, NEW t \in Threads, Send(t), phase[t] = "program", NEW a \in Cells,
           NEW sent \in Nat, sent <= ChunkLen(t), Programmed(t, Chip(t), sent)[a] # mem[Chip(t)][a]
    PROVE  a \in Reach(req[t])
<1> DEFINE c == Chip(t)
           A == req[t].addr
           L == req[t].len
           p == ChunkAddr(t)
           l == sent
<1>1. InSession(t) /\ AtTransfer(t) /\ TypeOK
  BY DEF Send, InSession, AtTransfer, SessionInv, BusInv, TypeInv
<1>2. Kind(t) \in {"write", "erase", "write_status"} /\ req[t] \in Requests
  BY <1>1, Changing, SessionFacts
<1>3. Kind(t) # "write_status"
  BY DEF Programmed
<1>4. CASE Kind(t) = "erase"
  BY <1>4 DEF Reach, Kind
<1>5. CASE Kind(t) = "write"
  <2>1. chunk[t] * ChunkSize(t) < L
    BY <1>1, <1>5, SessionFacts
  <2>2. A \in Nat /\ L \in Nat /\ a \in Nat
    <3>1. req[t] \in Request
      BY <1>1 DEF TypeOK
    <3> QED
      BY <3>1, SizeAssumption DEF Request, Cells
  <2>3. /\ l \in Nat /\ p \in Nat /\ A <= p /\ p + l <= A + L /\ p <= A + L - 1
    <3>1. /\ ChunkLen(t) \in Nat /\ chunk[t] * ChunkSize(t) \in Nat
          /\ p = A + chunk[t] * ChunkSize(t) /\ p + ChunkLen(t) <= A + L
      BY <1>1, <1>2, <1>5, <2>1, ChunkPlace, RequestAssumption
    <3> DEFINE o == chunk[t] * ChunkSize(t)
               m == ChunkLen(t)
    <3>2. o \in Nat /\ o < L /\ p = A + o /\ m \in Nat /\ p + m <= A + L /\ l \in Nat /\ l <= m
      BY <2>1, <3>1
    <3> HIDE DEF A, L, p, l, o, m
    <3> QED
      BY <2>2, <3>2 DEF A, L
  <2>4. CASE FitsPages(t)
    <3>1. a \in p .. p + l - 1
      BY <1>5, <2>4, ProgramStores
    <3>2. a \in A .. A + L - 1
      <4> HIDE DEF A, L, p, l
      <4> QED
        BY <2>2, <2>3, <3>1
    <3> QED
      BY <1>5, <2>4, <3>2 DEF Reach, FitsPages, Kind
  <2>5. CASE ~FitsPages(t)
    <3>1. Paged(c)
      BY <2>5 DEF FitsPages, Fits, Chip
    <3>2. a \div WriteSize = p \div WriteSize
      BY <1>5, <3>1 DEF Programmed, Hit, WrapSize
    <3>3. A \div WriteSize <= p \div WriteSize /\ p \div WriteSize <= (A + L - 1) \div WriteSize
          /\ p \div WriteSize \in Nat /\ A \div WriteSize \in Nat /\ (A + L - 1) \div WriteSize \in Nat
      <4>1. A + L - 1 \in Nat /\ p \in Nat /\ WriteSize \in Nat \ {0} /\ A <= p /\ p <= A + L - 1
        BY <2>2, <2>3, SizeAssumption
      <4> DEFINE z == A + L - 1
      <4>2. z \in Nat /\ p <= z
        BY <4>1
      <4> HIDE DEF A, L, p, z
      <4>3. A \div WriteSize \in Nat /\ A \div WriteSize <= p \div WriteSize
        BY <2>2, <4>1, DivOrder
      <4>4. p \div WriteSize \in Nat /\ p \div WriteSize <= z \div WriteSize
        BY <4>1, <4>2, DivOrder
      <4>5. z \div WriteSize \in Nat /\ z <= z
        BY <4>1, <4>2, DivOrder
      <4> QED
        BY <4>3, <4>4, <4>5 DEF z
    <3>4. a \div WriteSize \in A \div WriteSize .. (A + L - 1) \div WriteSize
      <4> HIDE DEF A, L, p
      <4> QED
        BY <3>2, <3>3
    <3> QED
      BY <1>5, <2>5, <3>4 DEF Reach, FitsPages, Kind
  <2> QED
    BY <2>4, <2>5
<1> QED
  BY <1>2, <1>3, <1>4, <1>5

\* Only a program or an erase changes a memory.
LEMMA OnlySendChanges ==
    ASSUME [Next]_vars, mem' # mem PROVE \E t \in Threads : Send(t)
BY DEF Next, Session, Call, Lock, Consume, DeviceDone, Select, Receive, Deselect, Fail, ReadNext,
       IdNext, WrenNext, ProgramNext, PollNext, StatusNext, Unlock, Return, vars, device

\* A cell that changes is in the chip of the holder and within what its call may
\* write.
LEMMA HolderStep ==
    ASSUME SessionInv, [Next]_vars, NEW c \in Chips, NEW a \in Cells, mem'[c][a] # mem[c][a]
    PROVE  lock # NoThread /\ MayChange(lock, c, a)
<1>1. PICK t \in Threads : Send(t)
  BY OnlySendChanges
<1>2. InSession(t)
  BY <1>1 DEF Send, InSession
<1>3. lock = t /\ lock # NoThread
  BY <1>2, SessionFacts, ThreadAssumption
<1>4. c = Chip(t)
  BY <1>1, SendEffect
<1> PICK n \in Nat : n <= ChunkLen(t) /\ phase[t] = "program" /\ Programmed(t, c, n)[a] # mem[c][a]
  BY <1>1, <1>4, SendEffect
<1>5. a \in Reach(req[t])
  BY <1>1, <1>4, ProgramReach
<1> QED
  BY <1>3, <1>4, <1>5 DEF MayChange

\* A cell changes only during the write or erase of the thread that holds
\* spi_lock, in that thread's chip, and only where it asked for, or inside the
\* pages it touches when the write does not fit them.
THEOREM OwnCellsOnly == NoUnlockedCalls => (Spec => HolderChangesMemory)
<1>1. SessionInv /\ [Next]_vars =>
        [\A c \in Chips : \A a \in Cells :
            mem'[c][a] # mem[c][a] => lock # NoThread /\ MayChange(lock, c, a)]_vars
  BY HolderStep
<1> QED
  BY <1>1, SessionAlways, PTL DEF Spec, HolderChangesMemory

----------------------------------------------------------------------------
(* The length that a read returns. *)

\* Every read is of a chip whose class copies _recvLen under the lock; the
\* others return what a later call may have left (run spi_length).
LengthCopied == \A r \in Requests : r.kind = "read" => CopiesLength(r.chip)

LengthInv == \A t \in Threads :
    pc[t] \in {"return", "done"} /\ Kind(t) = "read" /\ ret[t] >= 0 /\ ~ShortTransfers =>
        ret[t] = req[t].len

\* If lengths are copied before the unlock, no other call changes what a read
\* returns.
LEMMA LengthNext ==
    ASSUME LengthCopied, SessionInv, LengthInv, [Next]_vars PROVE LengthInv'
<1> SUFFICES ASSUME NEW t \in Threads, pc'[t] \in {"return", "done"}, Kind(t)' = "read",
                    ret'[t] >= 0, ~ShortTransfers
             PROVE  ret'[t] = req'[t].len
  BY DEF LengthInv
<1>1. TypeOK
  BY DEF SessionInv, BusInv, TypeInv
<1>2. CASE pc'[t] = pc[t] /\ ret'[t] = ret[t] /\ req'[t] = req[t]
  BY <1>2 DEF LengthInv, Kind
<1>3. CASE Unlock(t)
  <2>1. InSession(t) /\ pc[t] = "unlock" /\ req' = req
    BY <1>3 DEF Unlock, InSession
  <2>2. Kind(t) = "read" /\ req[t] \in Requests /\ CopiesLength(Chip(t)) /\ ReadInv(t)
    BY <2>1, SessionFacts DEF LengthCopied, Kind, Chip
  <2>3. ret[t] \in {0, -1}
    BY <2>1 DEF SessionInv, CallInv
  <2>4. CASE ret[t] = 0
    <3>1. ret'[t] = recvLen[Chip(t)]
      BY <1>1, <1>3, <2>2, <2>4 DEF Unlock, TypeOK
    <3> QED
      BY <2>1, <2>2, <2>4, <3>1 DEF ReadInv
  <2>5. CASE ret[t] = -1
    <3>1. ret'[t] = -1
      BY <1>3, <2>5 DEF Unlock
    <3> QED
      BY <3>1
  <2> QED
    BY <2>3, <2>4, <2>5
<1>4. CASE Return(t)
  <2>1. pc[t] = "return" /\ req' = req
    BY <1>4 DEF Return
  <2>2. Kind(t) = "read" /\ req[t] \in Requests /\ CopiesLength(Chip(t))
    BY <2>1 DEF Kind, Chip, LengthCopied, SessionInv, CallInv
  <2>3. ret' = ret
    BY <1>4, <2>2 DEF Return
  <2> QED
    BY <2>1, <2>2, <2>3 DEF LengthInv
<1>5. \/ pc'[t] = pc[t] /\ ret'[t] = ret[t] /\ req'[t] = req[t]
      \/ Unlock(t) \/ Return(t)
  <2>1. ASSUME NEW u \in Threads, Call(u) \/ Lock(u) \/ Consume(u)
        PROVE  pc'[t] = pc[t] /\ ret'[t] = ret[t] /\ req'[t] = req[t]
    BY <1>1, <2>1 DEF Call, Lock, Consume, TypeOK, locals
  <2>2. ASSUME NEW u \in Threads, Session(u), u # t
        PROVE  pc'[t] = pc[t] /\ ret'[t] = ret[t] /\ req'[t] = req[t]
    <3>1. pc'[t] = pc[t] /\ ret'[t] = ret[t]
      BY <1>1, <2>2 DEF Session, Select, Receive, Send, Deselect, Fail, ReadNext, IdNext, WrenNext,
              ProgramNext, ChunkDone, PollNext, StatusNext, Unlock, Return, Leave, Continue, Finish,
              locals, TypeOK
    <3>2. req' = req
      BY <2>2 DEF Session, Select, Receive, Send, Deselect, Fail, ReadNext, IdNext, WrenNext,
              ProgramNext, PollNext, StatusNext, Unlock, Return, locals
    <3> QED
      BY <3>1, <3>2
  <2>3. ASSUME Session(t) PROVE Unlock(t) \/ Return(t)
    <3>1. ~StatusNext(t)
      BY DEF StatusNext, SessionInv, BusInv
    <3> QED
      BY <1>1, <2>3, <3>1 DEF Session, Select, Receive, Send, Deselect, Fail, ReadNext, IdNext, WrenNext,
              ProgramNext, ChunkDone, PollNext, Continue, Finish, TypeOK
  <2>4. ASSUME NEW c \in Chips, DeviceDone(c)
        PROVE  pc'[t] = pc[t] /\ ret'[t] = ret[t] /\ req'[t] = req[t]
    BY <2>4 DEF DeviceDone, locals
  <2>5. CASE UNCHANGED vars
    BY <2>5 DEF vars, locals
  <2> QED
    BY <2>1, <2>2, <2>3, <2>4, <2>5 DEF Next
<1> QED
  BY <1>2, <1>3, <1>4, <1>5

\* A device_read of EPCS64 or MX25U1635 that does not fail returns the number
\* of bytes asked for, when no read() comes back short.
THEOREM LengthKept == NoUnlockedCalls /\ LengthCopied => (Spec => []ReturnsLength)
<1> SUFFICES ASSUME NoUnlockedCalls, LengthCopied PROVE Spec => []ReturnsLength
  OBVIOUS
<1>1. Init => LengthInv
  BY DEF Init, LengthInv
<1>2. SessionInv /\ LengthInv /\ [Next]_vars => LengthInv'
  BY LengthNext
<1>3. LengthInv => ReturnsLength
  BY DEF LengthInv, ReturnsLength
<1> QED
  BY <1>1, <1>2, <1>3, SessionAlways, PTL DEF Spec

----------------------------------------------------------------------------
(* Every step is a step of SpiStore, or changes nothing of it. *)

\* What the callers see stays.
LEMMA SameOutcome ==
    ASSUME \A u \in Threads :
              /\ pc'[u] = "return" <=> pc[u] = "return"
              /\ pc[u] = "return" => ret'[u] = ret[u] /\ out'[u] = out[u]
    PROVE  Outcome' = Outcome /\ Delivered' = Delivered
<1>1. \A u \in Threads : Outcome'[u] = Outcome[u] /\ Delivered'[u] = Delivered[u]
  BY DEF Outcome, Delivered
<1>2. Outcome' = [u \in Threads |-> Outcome'[u]] /\ Outcome = [u \in Threads |-> Outcome[u]]
  BY DEF Outcome
<1>3. Delivered' = [u \in Threads |-> Delivered'[u]] /\ Delivered = [u \in Threads |-> Delivered[u]]
  BY DEF Delivered
<1> QED
  BY <1>1, <1>2, <1>3

\* A step that the store does not see.
LEMMA Unseen ==
    ASSUME UNCHANGED <<lock, mem, unsettled>>,
           lock # NoThread => req'[lock] = req[lock],
           \A u \in Threads :
              /\ pc'[u] = "return" <=> pc[u] = "return"
              /\ pc[u] = "return" => ret'[u] = ret[u] /\ out'[u] = out[u]
    PROVE  UNCHANGED Bytewise!vars
<1>1. Outcome' = Outcome /\ Delivered' = Delivered
  BY SameOutcome
<1>2. Serving(req)' = Serving(req)
  BY DEF Serving
<1> QED
  BY <1>1, <1>2 DEF Bytewise!vars

\* The first states of the chips are first states of the store.
LEMMA RefineInit == Init => Bytewise!Init
<1> SUFFICES ASSUME Init PROVE Bytewise!Init
  OBVIOUS
<1>1. Outcome = [t \in Threads |-> "none"]
  BY DEF Init, Outcome
<1>2. Delivered = [t \in Threads |-> NoData]
  BY DEF Init, Delivered
<1>3. Serving(req) = [kind |-> "none"]
  BY DEF Init, Serving
<1> QED
  BY <1>1, <1>2, <1>3 DEF Init, NoData, Bytewise!Init, Bytewise!NoData, Bytewise!NoCall

\* Taking the lock begins the call.
LEMMA RefineLock ==
    ASSUME SessionInv, NEW t \in Threads, Lock(t) PROVE Bytewise!Begin(t)
<1>1. /\ pc[t] = "lock" /\ lock = NoThread /\ lock' = t /\ TypeOK
      /\ UNCHANGED <<req, ret, out, mem, unsettled>>
  BY DEF Lock, SessionInv, BusInv, TypeInv, locals, device
<1>2. pc'[t] \in {"select", "unlock"} /\ \A u \in Threads \ {t} : pc'[u] = pc[u]
  BY <1>1 DEF Lock, TypeOK
<1>3. Outcome' = Outcome /\ Delivered' = Delivered
  BY <1>1, <1>2, SameOutcome
<1>4. Serving(req)' = req[t] /\ req[t] \in Requests
  BY <1>1, ThreadAssumption DEF Serving, SessionInv, CallInv
<1>5. Outcome[t] = "none"
  BY <1>1 DEF Outcome
<1> QED
  BY <1>1, <1>3, <1>4, <1>5 DEF Bytewise!Begin

\* A program or an erase that the chip takes stores what was asked for.
LEMMA RefineSend ==
    ASSUME SessionInv, TypeOK', NEW t \in Threads, Send(t) PROVE Bytewise!Store(t)
<1>1. InSession(t) /\ AtTransfer(t) /\ UNCHANGED <<lock, req, ret, out, unsettled>> /\ TypeOK
  BY DEF Send, InSession, AtTransfer, SessionInv, BusInv, TypeInv
<1>2. pc[t] = "transfer" /\ pc'[t] = "deselect" /\ \A u \in Threads \ {t} : pc'[u] = pc[u]
  BY <1>1 DEF Send, TypeOK
<1>3. Outcome' = Outcome /\ Delivered' = Delivered
  BY <1>1, <1>2, SameOutcome
<1>4. lock = t /\ req[t] \in Requests
  BY <1>1, SessionFacts
<1>5. Serving(req) = req[t] /\ Serving(req)' = req[t]
  BY <1>1, <1>4, ThreadAssumption DEF Serving
<1>6. mem' \in [Chips -> [Cells -> Bytes]]
  BY DEF TypeOK
<1>7. ASSUME NEW c \in Chips, NEW a \in Cells, mem'[c][a] # mem[c][a]
      PROVE  /\ c = req[t].chip /\ a \in Area[req[t]]
             /\ req[t] \in Exact => mem'[c][a] = IF req[t].kind = "erase" THEN Blank
                                                 ELSE req[t].data[a - req[t].addr]
  <2>0. c = Chip(t)
    BY <1>7, SendEffect
  <2> PICK n \in Nat : n <= ChunkLen(t) /\ phase[t] = "program" /\ mem'[c] = Programmed(t, c, n)
    BY <1>7, <2>0, SendEffect
  <2>1. c = Chip(t) /\ n <= ChunkLen(t) /\ phase[t] = "program" /\ mem'[c] = Programmed(t, c, n)
    BY <2>0
  <2>2. a \in Reach(req[t])
    BY <1>7, <2>1, ProgramReach
  <2>3. Kind(t) \in {"write", "erase", "write_status"}
    BY <1>1, <2>1, Changing
  <2>4. CASE Kind(t) = "erase"
    BY <1>4, <2>1, <2>2, <2>4 DEF Programmed, NoData, Area, Kind, Chip
  <2>5. CASE Kind(t) = "write"
    <3>1. req[t] \in Exact => FitsPages(t)
      BY <2>5 DEF Exact, FitsPages, Kind
    <3>2. req[t] \in Exact => mem'[c][a] = req[t].data[a - req[t].addr]
      BY <1>7, <2>1, <2>5, <3>1, ProgramStores
    <3> QED
      BY <1>4, <2>1, <2>2, <2>5, <3>2 DEF Area, Kind, Chip
  <2>6. Kind(t) # "write_status"
    BY <1>7, <2>1 DEF Programmed
  <2> QED
    BY <2>3, <2>4, <2>5, <2>6
<1> QED
  BY <1>1, <1>3, <1>4, <1>5, <1>6, <1>7 DEF Bytewise!Store, Bytewise!Asked

\* Releasing the lock ends the call.
LEMMA RefineUnlock ==
    ASSUME SessionInv, TypeOK', NEW t \in Threads, Unlock(t) PROVE Bytewise!End(t)
<1> DEFINE c == Chip(t)
           r == req[t]
           ok == ret[t] = 0
<1>1. InSession(t) /\ TypeOK /\ pc[t] = "unlock" /\ UNCHANGED <<req, out, mem>>
  BY DEF Unlock, InSession, SessionInv, BusInv, TypeInv, device
<1>2. /\ lock' = NoThread /\ pc'[t] = "return"
      /\ \A u \in Threads \ {t} : pc'[u] = pc[u] /\ ret'[u] = ret[u]
  BY <1>1 DEF Unlock, TypeOK
<1>3. /\ lock = t /\ c \in Chips /\ r \in Requests /\ ret[t] \in {0, -1}
      /\ Kind(t) \in Kinds \ {"read_status"}
      /\ DeviceInv(t) /\ WriteInv(t) /\ ReadInv(t) /\ IdInv(t)
  BY <1>1, SessionFacts DEF SessionInv, CallInv
<1>4. ret'[t] < 0 <=> ~ok
  <2>1. recvLen[c] \in Nat
    BY <1>1, <1>3 DEF TypeOK
  <2>2. CASE Kind(t) = "read" /\ ret[t] = 0 /\ CopiesLength(Chip(t))
    <3>1. ret'[t] = recvLen[c]
      BY <1>1, <2>2 DEF Unlock, TypeOK
    <3> QED
      BY <2>1, <2>2, <3>1
  <2>3. CASE ~(Kind(t) = "read" /\ ret[t] = 0 /\ CopiesLength(Chip(t)))
    <3>1. ret'[t] = ret[t]
      BY <2>3 DEF Unlock
    <3> QED
      BY <1>3, <3>1
  <2> QED
    BY <2>2, <2>3
<1>5. Serving(req) = r /\ Serving(req)' = [kind |-> "none"]
  BY <1>1, <1>2, <1>3, ThreadAssumption DEF Serving
<1>6. Outcome' = [Outcome EXCEPT ![t] = IF ok THEN "ok" ELSE "failed"]
  <2>1. Outcome'[t] = IF ok THEN "ok" ELSE "failed"
    BY <1>2, <1>4 DEF Outcome
  <2>2. \A u \in Threads \ {t} : Outcome'[u] = Outcome[u]
    BY <1>2 DEF Outcome
  <2>3. Outcome' = [u \in Threads |-> Outcome'[u]] /\ Outcome = [u \in Threads |-> Outcome[u]]
    BY DEF Outcome
  <2> QED
    BY <2>1, <2>2, <2>3
<1>7. /\ Delivered' \in [Threads -> [Cells -> Bytes]]
      /\ Delivered'[t] = out[t]
      /\ \A u \in Threads \ {t} : Delivered'[u] = Delivered[u]
  <2>1. NoData \in [Cells -> Bytes] /\ out' \in [Threads -> [Cells -> Bytes]]
    BY DEF NoData, Bytes, TypeOK
  <2> QED
    BY <1>1, <1>2, <2>1 DEF Delivered
<1>8. Bytewise!Settled <=> ~unsettled[c]
  BY <1>5 DEF Bytewise!Settled, Chip
<1>9. r.kind = "read" => Bytewise!Delivers(out[t], ok)
  <2> SUFFICES ASSUME r.kind = "read", NEW k \in Cells
               PROVE  IF k < r.len
                      THEN ~unsettled[c] /\ ~ShortTransfers =>
                              \/ out[t][k] = mem[c][r.addr + k]
                              \/ ~ok /\ out[t][k] = Blank
                      ELSE out[t][k] = Blank
    BY <1>5, <1>8 DEF Bytewise!Delivers, Chip
  <2>1. /\ recvLen[c] <= r.len
        /\ ~ShortTransfers /\ ok => recvLen[c] = r.len
        /\ IF k < recvLen[c]
           THEN ~unsettled[c] /\ ~ShortTransfers => out[t][k] = mem[c][r.addr + k]
           ELSE out[t][k] = Blank
    BY <1>1, <1>3 DEF ReadInv, Kind
  <2>2. k \in Nat /\ recvLen[c] \in Nat /\ r.len \in Nat
    BY <1>1, <1>3 DEF TypeOK, Request, Cells
  <2> HIDE DEF c, r
  <2> QED
    BY <2>1, <2>2
<1>10. r.kind = "read_id" => Bytewise!Identifies(out[t], ok)
  <2>1. r.kind = "read_id" =>
          /\ \A k \in Cells \ {0} : out[t][k] = Blank
          /\ ~ok => out[t][0] = Blank
          /\ ok /\ ~unsettled[c] /\ ~ShortTransfers => out[t][0] = IdByte
    BY <1>1, <1>3, SizeAssumption DEF IdInv, Kind, NoData, Cells
  <2> QED
    BY <1>8, <2>1 DEF Bytewise!Identifies
<1>11. r.kind \notin {"read", "read_id"} => out[t] = NoData
  BY <1>3 DEF IdInv, Kind
<1>12. ok /\ ~unsettled[c] /\ ~ShortTransfers /\ r \in Exact => Bytewise!Stored
  <2> SUFFICES ASSUME ok, ~unsettled[c], ~ShortTransfers, r \in Exact, NEW a \in Reach(r)
               PROVE  mem[c][a] = IF r.kind = "erase" THEN Blank ELSE r.data[a - r.addr]
    BY <1>3, <1>5 DEF Bytewise!Stored, Bytewise!Asked, Area, Chip
  <2>1. a \in Cells /\ r.kind \in {"write", "erase"}
    BY DEF Reach
  <2>2. CASE r.kind = "erase"
    BY <1>1, <1>3, <2>1, <2>2 DEF WriteInv, Kind, NoData
  <2>3. CASE r.kind = "write"
    <3>1. FitsPages(t) /\ a \in r.addr .. r.addr + r.len - 1
      BY <2>3 DEF Exact, FitsPages, Reach
    <3>2. StoredUpTo(t, r.len)
      BY <1>1, <1>3, <2>3, <3>1 DEF WriteInv, Kind
    <3>3. r.addr \in Nat /\ r.len \in Nat /\ r.addr + r.len <= MemSize /\ a \in Nat
      BY <1>1, <1>3, <2>1, RequestAssumption DEF TypeOK, Request, Cells
    <3> DEFINE k == a - r.addr
    <3>4. k \in Cells /\ k < r.len /\ r.addr + k = a
      <4> HIDE DEF r
      <4> QED
        BY <3>1, <3>3, SizeAssumption DEF Cells
    <3>5. mem[c][r.addr + k] = r.data[k]
      BY <3>2, <3>4 DEF StoredUpTo
    <3> QED
      BY <2>3, <3>4, <3>5
  <2> QED
    BY <2>1, <2>2, <2>3
<1>13. Bytewise!Leaves(ok)
  <2>1. Bytewise!Alters <=> Changes(t)
    BY <1>5 DEF Bytewise!Alters, Changes, Kind
  <2>2. unsettled'[c] \in BOOLEAN /\ unsettled[c] \in BOOLEAN
    BY <1>1, <1>3 DEF TypeOK
  <2>3. unsettled' = [unsettled EXCEPT ![c] = unsettled'[c]]
    BY <1>1, <1>3 DEF Unlock, TypeOK
  <2>4. CASE Changes(t)
    <3>1. unsettled'[c] = (Polls(c) /\ (ret[t] < 0 \/ (Kind(t) = "erase" /\ ~PollsErase(c))))
      BY <1>1, <1>3, <2>4 DEF Unlock, TypeOK
    <3>2. ret[t] < 0 => ~ok
      OBVIOUS
    <3>3. Kind(t) = "erase" /\ ~PollsErase(c) => r \in Unawaited
      BY <1>3 DEF Unawaited, Kind, Chip
    <3>4. unsettled'[c] => ~ok \/ r \in Unawaited
      BY <3>1, <3>2, <3>3, Zenon
    <3> QED
      BY <1>5, <2>1, <2>2, <2>3, <2>4, <3>4 DEF Bytewise!Leaves, Chip
  <2>5. CASE ~Changes(t)
    <3>1. unsettled' = unsettled
      BY <2>5 DEF Unlock
    <3> QED
      BY <1>5, <1>8, <2>1, <2>2, <2>3, <2>5, <3>1 DEF Bytewise!Leaves, Chip
  <2> QED
    BY <2>4, <2>5
<1>14. CASE r.kind = "read"
  BY <1>1, <1>2, <1>3, <1>5, <1>6, <1>7, <1>8, <1>9, <1>12, <1>13, <1>14 DEF Bytewise!End, Bytewise!NoCall
<1>15. CASE r.kind = "read_id"
  BY <1>1, <1>2, <1>3, <1>5, <1>6, <1>7, <1>8, <1>10, <1>12, <1>13, <1>15 DEF Bytewise!End, Bytewise!NoCall
<1>16. CASE r.kind \notin {"read", "read_id"}
  BY <1>1, <1>2, <1>3, <1>5, <1>6, <1>7, <1>8, <1>11, <1>12, <1>13, <1>16
  DEF Bytewise!End, Bytewise!NoCall, Bytewise!NoData, NoData
<1> QED
  BY <1>14, <1>15, <1>16

\* The caller takes the result.
LEMMA RefineReturn ==
    ASSUME SessionInv, NEW t \in Threads, Return(t) PROVE Bytewise!Leave(t)
<1>1. pc[t] = "return" /\ TypeOK /\ UNCHANGED <<lock, req, mem, unsettled>>
  BY DEF Return, SessionInv, BusInv, TypeInv, device
<1>2. pc'[t] = "done" /\ \A u \in Threads \ {t} : pc'[u] = pc[u] /\ ret'[u] = ret[u] /\ out'[u] = out[u]
  BY <1>1 DEF Return, Leave, TypeOK
<1>3. Outcome' = [Outcome EXCEPT ![t] = "none"]
  <2>1. Outcome'[t] = "none" /\ \A u \in Threads \ {t} : Outcome'[u] = Outcome[u]
    BY <1>2 DEF Outcome
  <2>2. Outcome' = [u \in Threads |-> Outcome'[u]] /\ Outcome = [u \in Threads |-> Outcome[u]]
    BY DEF Outcome
  <2> QED
    BY <2>1, <2>2
<1>4. Delivered' = [Delivered EXCEPT ![t] = NoData]
  <2>1. Delivered'[t] = NoData /\ \A u \in Threads \ {t} : Delivered'[u] = Delivered[u]
    BY <1>2 DEF Delivered
  <2>2. Delivered' = [u \in Threads |-> Delivered'[u]] /\ Delivered = [u \in Threads |-> Delivered[u]]
    BY DEF Delivered
  <2> QED
    BY <2>1, <2>2
<1>5. Outcome[t] # "none"
  BY <1>1 DEF Outcome
<1>6. Serving(req)' = Serving(req)
  BY <1>1 DEF Serving
<1> QED
  BY <1>1, <1>3, <1>4, <1>5, <1>6 DEF Bytewise!Leave, Bytewise!NoData, NoData

\* Every step of the chips is one of the store or a stutter.
LEMMA RefineNext ==
    ASSUME SessionInv, TypeOK', [Next]_vars PROVE [Bytewise!Next]_(Bytewise!vars)
<1>1. TypeOK
  BY DEF SessionInv, BusInv, TypeInv
<1>2. ASSUME NEW t \in Threads, Call(t) \/ Consume(t) PROVE UNCHANGED Bytewise!vars
  <2>1. lock # t
    BY <1>2 DEF Call, Consume, SessionInv, BusInv, TypeInv, MutexInv, Locked, InSession
  <2>2. \A u \in Threads \ {t} : req'[u] = req[u] /\ pc'[u] = pc[u] /\ ret'[u] = ret[u] /\ out'[u] = out[u]
    BY <1>1, <1>2 DEF Call, Consume, TypeOK
  <2>3. pc[t] # "return" /\ pc'[t] # "return"
    BY <1>1, <1>2 DEF Call, Consume, TypeOK
  <2>4. UNCHANGED <<lock, mem, unsettled>>
    BY <1>2 DEF Call, Consume, device
  <2>5. lock # NoThread => req'[lock] = req[lock]
    BY <1>1, <2>1, <2>2 DEF TypeOK
  <2> QED
    BY <2>2, <2>3, <2>4, <2>5, Unseen
<1>3. ASSUME NEW t \in Threads, \/ Select(t) \/ Receive(t) \/ Deselect(t) \/ Fail(t) \/ ReadNext(t)
                                \/ IdNext(t) \/ WrenNext(t) \/ ProgramNext(t) \/ PollNext(t)
      PROVE  UNCHANGED Bytewise!vars
  <2>1. UNCHANGED <<lock, req, mem, unsettled>>
    BY <1>3 DEF Select, Receive, Deselect, Fail, ReadNext, IdNext, WrenNext, ProgramNext, PollNext,
                locals, device
  <2>2. pc[t] # "return" /\ pc'[t] # "return"
    BY <1>1, <1>3 DEF Select, Receive, Deselect, Fail, ReadNext, IdNext, WrenNext, ProgramNext, PollNext,
                ChunkDone, Continue, Finish, TypeOK
  <2>3. \A u \in Threads \ {t} : pc'[u] = pc[u] /\ ret'[u] = ret[u] /\ out'[u] = out[u]
    BY <1>1, <1>3 DEF Select, Receive, Deselect, Fail, ReadNext, IdNext, WrenNext, ProgramNext, PollNext,
                ChunkDone, Continue, Finish, TypeOK, locals
  <2> QED
    BY <2>1, <2>2, <2>3, Unseen
<1>4. ASSUME NEW c \in Chips, DeviceDone(c) PROVE UNCHANGED Bytewise!vars
  <2>1. UNCHANGED <<lock, pc, req, ret, out, mem, unsettled>>
    BY <1>4 DEF DeviceDone, locals
  <2> QED
    BY <2>1, Unseen
<1>5. CASE UNCHANGED vars
  <2>1. UNCHANGED <<lock, pc, req, ret, out, mem, unsettled>>
    BY <1>5 DEF vars, locals, device
  <2> QED
    BY <2>1, Unseen
<1>6. ASSUME NEW t \in Threads PROVE ~StatusNext(t)
  BY DEF StatusNext, SessionInv, BusInv
<1>7. ASSUME NEW t \in Threads, Lock(t) \/ Send(t) \/ Unlock(t) \/ Return(t) PROVE Bytewise!Next
  BY <1>7, RefineLock, RefineSend, RefineUnlock, RefineReturn DEF Bytewise!Next
<1> QED
  BY <1>2, <1>3, <1>4, <1>5, <1>6, <1>7 DEF Next, Session

\* As long as nobody calls the unlocked read_status, the chips on the shared
\* bus implement SpiStore: each call is one call of a store of bytes, which
\* begins when spi_lock is taken and ends when it is released.
THEOREM StoreRefined == NoUnlockedCalls => (Spec => StoreImplements)
<1>1. SessionInv /\ TypeOK' /\ [Next]_vars => [Bytewise!Next]_(Bytewise!vars)
  BY RefineNext
<1> QED
  BY <1>1, RefineInit, SessionAlways, TypeCorrect, PTL DEF Spec, StoreImplements, Bytewise!Spec
=============================================================================
