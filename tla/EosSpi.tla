------------------------------- MODULE EosSpi -------------------------------
(***************************************************************************)
(* The SPI memory chips of eos_spi: EPCS64 and MX25U1635 (serial flash),   *)
(* FM25V02 (FRAM), MR25H10 (MRAM) and the store behind ZL30169.  Every     *)
(* chip object has its own buffers and lengths; all chips share one bus,   *)
(* guarded by the one global mutex spi_lock.                               *)
(*                                                                         *)
(* A call of device_read, device_write, device_erase, write_status or      *)
(* read_id is a session under spi_lock made of transfers.  Every transfer  *)
(* of every chip has the same shape in the code:                           *)
(*                                                                         *)
(*    fill the buffer; enable()         Select                             *)
(*    spi_transfer                      Receive, Send                      *)
(*    disable()                         Deselect                           *)
(*    test the result, go on            Fail, ReadNext, IdNext, WrenNext,  *)
(*                                      ProgramNext, PollNext              *)
(*                                                                         *)
(* The public read_status of the flash chips is a transfer outside any     *)
(* session: it takes no lock (StatusNext).  The chips (mem, wel, busy) are *)
(* external and modelled as the code uses them: a busy chip answers only   *)
(* the status command, a program or erase needs a preceding write-enable   *)
(* (except on ZL30169), and a program wraps inside its page on flash.      *)
(***************************************************************************)
EXTENDS Integers

CONSTANTS
    Threads,    \* threads that call into the library
    NoThread,   \* the value of lock when the mutex is free
    Chips,      \* the chip objects on the bus
    Part,       \* Part[c]: the part behind object c, one of Parts
    CsChips,    \* the objects whose cs_init was given both callbacks
    MemSize,    \* cells of a chip's memory
    ReadSize,   \* read_size: data bytes of one read transfer
    WriteSize,  \* write_size: data bytes of one program transfer, and a flash page
    DelayMax,   \* 0xff in the code: polls before a write is given up
    Values,     \* the payload bytes
    Blank,      \* an erased cell, and a byte of the caller's untouched buffer
    Garbage,    \* a byte nobody can predict
    BusyByte,   \* a status byte with bit 0 set
    ReadyByte,  \* a status byte with bit 0 clear
    IdByte,     \* the identification byte of a chip
    ShortTransfers, \* whether read() and write() may move fewer bytes than asked for
    InitMem,    \* what the chips hold at power-up
    Requests    \* the calls the threads make

Parts == {"EPCS64", "MX25U1635", "FM25V02", "MR25H10", "ZL30169"}
Kinds == {"read", "write", "erase", "write_status", "read_id", "read_status"}
Cells == 0 .. MemSize - 1
Slots == 0 .. ReadSize - 1
Bytes == Values \cup {Blank, Garbage, BusyByte, ReadyByte, IdByte}

Request == [kind : Kinds, chip : Chips, addr : Cells, len : 0 .. MemSize,
            data : [Cells -> Bytes]]

\* What the five classes differ in.
UsesWren(c)         == Part[c] # "ZL30169"
Polls(c)            == Part[c] \in {"EPCS64", "MX25U1635", "FM25V02"}
PollsErase(c)       == Part[c] = "EPCS64"
MasksStatusError(c) == Part[c] = "MX25U1635"
CopiesLength(c)     == Part[c] \in {"EPCS64", "MX25U1635"}
ChecksId(c)         == Part[c] = "FM25V02"
Paged(c)            == Part[c] \in {"EPCS64", "MX25U1635"}

Offers(c) ==
    {"read", "write"}
      \cup (IF Part[c] \in {"EPCS64", "MX25U1635"} THEN {"erase"} ELSE {})
      \cup (IF Part[c] \in {"EPCS64", "MX25U1635", "FM25V02"} THEN {"read_id"} ELSE {})
      \cup (IF Part[c] \in {"EPCS64", "MX25U1635"} THEN {"read_status"} ELSE {})
      \cup (IF Part[c] = "EPCS64" THEN {"write_status"} ELSE {})

ASSUME ThreadAssumption == NoThread \notin Threads
ASSUME ChipAssumption   == Chips # {} /\ Part \in [Chips -> Parts] /\ CsChips \subseteq Chips
ASSUME SizeAssumption   == /\ MemSize \in Nat \ {0} /\ ReadSize \in Nat \ {0}
                           /\ WriteSize \in Nat \ {0} /\ DelayMax \in Nat
ASSUME ByteAssumption   == /\ BusyByte # ReadyByte /\ ShortTransfers \in BOOLEAN
                           /\ {BusyByte, ReadyByte} \cap {Blank, Garbage, IdByte} = {}
ASSUME RequestAssumption ==
    /\ Requests \subseteq Request
    /\ InitMem \in [Chips -> [Cells -> Bytes]]
    /\ \A r \in Requests : r.kind \in Offers(r.chip) /\ r.addr + r.len <= MemSize

VARIABLES
    lock,     \* spi_lock: the thread inside a session, or NoThread
    pc,       \* pc[t]: where thread t is
    phase,    \* phase[t]: which transfer of the session it is at
    req,      \* req[t]: the arguments of its call
    chunk,    \* chunk[t]: the loop counter i
    delay,    \* delay[t]: delay_count
    got,      \* got[t]: what spi_transfer returned
    out,      \* out[t]: the caller's buffer pucDataBuf
    ret,      \* ret[t]: the value the call returns
    recv,     \* recv[c]: _recvBuf, a command before the transfer and bytes after it
    recvLen,  \* recvLen[c]: _recvLen
    sendLen,  \* sendLen[c]: _sendLen
    sel,      \* sel[c]: the chip select driven by enable() and disable()
    mem, wel, busy,  \* the chip: its cells, write-enable latch, write in progress
    unsettled \* unsettled[c] (history): the last program or erase call on c
              \* did not end with a poll that found the chip ready

locals  == <<phase, req, chunk, delay, got, out, ret>>
buffers == <<recv, recvLen, sendLen>>
device  == <<mem, wel, busy>>
vars    == <<lock, pc, locals, buffers, sel, device, unsettled>>

----------------------------------------------------------------------------
NoData    == [k \in Cells |-> Blank]
NoRequest == [kind |-> "read", chip |-> CHOOSE c \in Chips : TRUE,
              addr |-> 0, len |-> 0, data |-> NoData]
Unread    == [k \in Slots |-> Garbage]
StaleLen  == 1   \* some length left by an earlier call
Forgotten == [op |-> "data", addr |-> 0, bytes |-> Unread]

Init ==
    /\ lock = NoThread
    /\ pc = [t \in Threads |-> "idle"]
    /\ phase = [t \in Threads |-> "read"]
    /\ req = [t \in Threads |-> NoRequest]
    /\ chunk = [t \in Threads |-> 0]
    /\ delay = [t \in Threads |-> 0]
    /\ got = [t \in Threads |-> 0]
    /\ out = [t \in Threads |-> NoData]
    /\ ret = [t \in Threads |-> 0]
    /\ recv = [c \in Chips |-> Forgotten]
    /\ recvLen = [c \in Chips |-> 0]
    /\ sendLen = [c \in Chips |-> 0]
    /\ sel = [c \in Chips |-> FALSE]
    /\ mem = InitMem
    /\ wel = [c \in Chips |-> FALSE]
    /\ busy = [c \in Chips |-> FALSE]
    /\ unsettled = [c \in Chips |-> FALSE]
----------------------------------------------------------------------------
(* A call, and the mutex around its session. *)

Chip(t) == req[t].chip
Kind(t) == req[t].kind

FirstPhase(r) ==
    CASE r.kind = "read"        -> "read"
      [] r.kind = "read_id"     -> "id"
      [] r.kind = "read_status" -> "poll"
      [] r.kind = "write"       -> IF UsesWren(r.chip) THEN "wren" ELSE "program"
      [] OTHER                  -> "wren"

Call(t) ==
    /\ pc[t] = "idle"
    /\ \E r \in Requests :
         /\ req' = [req EXCEPT ![t] = r]
         /\ phase' = [phase EXCEPT ![t] = FirstPhase(r)]
         /\ pc' = [pc EXCEPT ![t] = IF r.kind = "read_status" THEN "select" ELSE "lock"]
    /\ UNCHANGED <<lock, chunk, delay, got, out, ret, buffers, sel, device, unsettled>>

\* _recvLen = 0 at the head of device_read, _sendLen = 0 of device_write.
ResetNothing(t) == UNCHANGED <<recvLen, sendLen>>   \* variant: the resets forgotten
ResetLengths(t) ==
    /\ recvLen' = IF Kind(t) = "read" THEN [recvLen EXCEPT ![Chip(t)] = 0] ELSE recvLen
    /\ sendLen' = IF Kind(t) = "write" THEN [sendLen EXCEPT ![Chip(t)] = 0] ELSE sendLen

\* A loop over no bytes makes no transfer.
NothingToDo(t) == Kind(t) \in {"read", "write"} /\ req[t].len = 0

\* Variant: the mutex does not exclude.
LockAlways(t) ==
    /\ pc[t] = "lock"
    /\ lock' = t
    /\ ResetLengths(t)
    /\ pc' = [pc EXCEPT ![t] = IF NothingToDo(t) THEN "unlock" ELSE "select"]
    /\ UNCHANGED <<locals, recv, sel, device, unsettled>>

Lock(t) ==
    /\ pc[t] = "lock" /\ lock = NoThread
    /\ lock' = t
    /\ ResetLengths(t)
    /\ pc' = [pc EXCEPT ![t] = IF NothingToDo(t) THEN "unlock" ELSE "select"]
    /\ UNCHANGED <<locals, recv, sel, device, unsettled>>

----------------------------------------------------------------------------
(* One transfer. *)

\* The loop handles len \div size full chunks, then the remainder.
ChunkSize(t) == IF Kind(t) = "write" THEN WriteSize ELSE ReadSize
FullChunkLen(t) == ChunkSize(t)      \* variant: the remainder sent as a full chunk
ChunkLen(t) ==
    IF chunk[t] < req[t].len \div ChunkSize(t) THEN ChunkSize(t)
                                               ELSE req[t].len % ChunkSize(t)
FixedChunkAddr(t) == req[t].addr     \* variant: addr is never advanced
ChunkAddr(t) == (req[t].addr + (chunk[t] * ChunkSize(t))) % MemSize

Receiving(t) == phase[t] \in {"read", "id", "poll"}

\* The chip of t is driven through its callbacks if it has them; otherwise
\* the driver selects it for the transfer only.
Select(t) ==
    /\ pc[t] = "select"
    /\ recv' = IF Receiving(t)
               THEN [recv EXCEPT ![Chip(t)] =
                        [op |-> phase[t],
                         addr |-> IF phase[t] = "read" THEN ChunkAddr(t) ELSE 0,
                         bytes |-> Unread]]
               ELSE recv
    /\ sel' = [sel EXCEPT ![Chip(t)] = Chip(t) \in CsChips]
    /\ pc' = [pc EXCEPT ![t] = "transfer"]
    /\ UNCHANGED <<lock, locals, recvLen, sendLen, device, unsettled>>

\* The chips that take part in a transfer of chip c.
Listeners(c) == {d \in Chips : sel[d]} \cup ({c} \ CsChips)

StatusByte(c) == IF busy[c] THEN BusyByte ELSE ReadyByte

\* What chip c answers to the command in its buffer; two chips driving the
\* bus, or a command that is none, give garbage.
Answer(c, k) ==
    IF Listeners(c) # {c} THEN Garbage
    ELSE CASE recv[c].op = "poll"                  -> StatusByte(c)
           [] recv[c].op = "read" /\ ~busy[c]      -> mem[c][(recv[c].addr + k) % MemSize]
           [] recv[c].op = "id" /\ ~busy[c] /\ k = 0 -> IdByte
           [] OTHER                                -> Garbage

Wanted(t) == IF phase[t] = "read" THEN ChunkLen(t) ELSE 1

\* spi_transfer(buf, n, 0): read() fails, or fills n bytes, or fewer.
Receive(t) ==
    /\ pc[t] = "transfer" /\ Receiving(t)
    /\ \/ got' = [got EXCEPT ![t] = -1] /\ recv' = recv
       \/ \E n \in (IF ShortTransfers THEN 0 .. Wanted(t) ELSE {Wanted(t)}) :
            /\ got' = [got EXCEPT ![t] = n]
            /\ recv' = IF n = 0 THEN recv ELSE [recv EXCEPT ![Chip(t)] =
                         [op |-> "data", addr |-> 0,
                          bytes |-> [k \in Slots |->
                                       IF k < n THEN Answer(Chip(t), k) ELSE Garbage]]]
    /\ pc' = [pc EXCEPT ![t] = "deselect"]
    /\ UNCHANGED <<lock, phase, req, chunk, delay, out, ret, recvLen, sendLen, sel,
                   device, unsettled>>

\* Chip d obeys a program, erase or write-status command.
Obeys(d) == ~busy[d] /\ (wel[d] \/ ~UsesWren(d))

\* Offset of cell a in a program of chip d that starts at a0; flash wraps
\* inside the page, the other parts at the end of the memory.
WrapSize(d) == IF Paged(d) THEN WriteSize ELSE MemSize
Hit(d, a0, n, a) == a \div WrapSize(d) = a0 \div WrapSize(d) /\ (a - a0) % WrapSize(d) < n

\* What chip d holds after a program or erase of t that brings n data bytes.
Programmed(t, d, n) ==
    CASE Kind(t) = "write" ->
           [a \in Cells |-> IF Hit(d, ChunkAddr(t), n, a)
                            THEN req[t].data[sendLen[Chip(t)] + ((a - ChunkAddr(t)) % WrapSize(d))]
                            ELSE mem[d][a]]
      [] Kind(t) = "erase" -> NoData
      [] OTHER             -> mem[d]

\* spi_transfer(buf, 0, n): write() fails, or returns n, or fewer, which is not
\* an error.  The chips get the command and data bytes, or, if write() failed or
\* was short, perhaps none.
Send(t) ==
    /\ pc[t] = "transfer" /\ ~Receiving(t)
    /\ \E ok, reached \in BOOLEAN, n \in (IF ShortTransfers THEN 0 .. ChunkLen(t) ELSE {ChunkLen(t)}) :
         LET heard == IF reached THEN {d \in Listeners(Chip(t)) : ~busy[d]} ELSE {}
             obeyed == IF phase[t] = "program" THEN {d \in heard : Obeys(d)} ELSE {}
         IN /\ ok => reached \/ ShortTransfers
            /\ got' = [got EXCEPT ![t] = IF ok THEN 1 ELSE -1]
            /\ wel' = [d \in Chips |-> IF phase[t] = "wren" THEN wel[d] \/ d \in heard
                                                            ELSE wel[d] /\ d \notin obeyed]
            /\ mem' = [d \in Chips |-> IF d \in obeyed THEN Programmed(t, d, n) ELSE mem[d]]
            /\ busy' = [d \in Chips |-> busy[d] \/ (d \in obeyed /\ Polls(d))]
    /\ pc' = [pc EXCEPT ![t] = "deselect"]
    /\ UNCHANGED <<lock, phase, req, chunk, delay, out, ret, buffers, sel, unsettled>>

\* Variant: the error path forgets disable().
DeselectOnSuccess(t) ==
    /\ pc[t] = "deselect"
    /\ sel' = [sel EXCEPT ![Chip(t)] = @ /\ got[t] < 0]
    /\ pc' = [pc EXCEPT ![t] = "next"]
    /\ UNCHANGED <<lock, locals, buffers, device, unsettled>>

\* Both the error path and the normal one call disable() first.
Deselect(t) ==
    /\ pc[t] = "deselect"
    /\ sel' = [sel EXCEPT ![Chip(t)] = FALSE]
    /\ pc' = [pc EXCEPT ![t] = "next"]
    /\ UNCHANGED <<lock, locals, buffers, device, unsettled>>
----------------------------------------------------------------------------
(* What the session does with the result of a transfer. *)

Continue(t, p) == phase' = [phase EXCEPT ![t] = p] /\ pc' = [pc EXCEPT ![t] = "select"]
Finish(t)      == phase' = phase /\ pc' = [pc EXCEPT ![t] = "unlock"]

\* In read_status of MX25U1635 a failed transfer reads as status 0xff.
Masked(t) == phase[t] = "poll" /\ MasksStatusError(Chip(t))

Fail(t) ==
    /\ pc[t] = "next" /\ Kind(t) # "read_status"
    /\ got[t] < 0 /\ ~Masked(t)
    /\ ret' = [ret EXCEPT ![t] = -1]
    /\ Finish(t)
    /\ UNCHANGED <<lock, req, chunk, delay, got, out, buffers, sel, device, unsettled>>

\* Whether the loop has bytes left after the current chunk.
MoreChunks(t) == (chunk[t] + 1) * ChunkSize(t) < req[t].len

\* Variant: memcpy(pucDataBuf, _recvBuf, ret).
CopiedToFront(t) ==
    [k \in Cells |-> IF k < got[t] THEN recv[Chip(t)].bytes[k] ELSE out[t][k]]

\* memcpy(pucDataBuf + _recvLen, _recvBuf, ret)
Copied(t) == LET c == Chip(t) IN
    [k \in Cells |-> IF k \in recvLen[c] .. recvLen[c] + got[t] - 1
                     THEN recv[c].bytes[k - recvLen[c]] ELSE out[t][k]]

ReadNext(t) ==
    /\ pc[t] = "next" /\ phase[t] = "read" /\ got[t] >= 0
    /\ out' = [out EXCEPT ![t] = Copied(t)]
    /\ recvLen' = [recvLen EXCEPT ![Chip(t)] = @ + got[t]]
    /\ chunk' = [chunk EXCEPT ![t] = @ + 1]
    /\ IF MoreChunks(t) THEN Continue(t, "read") ELSE Finish(t)
    /\ UNCHANGED <<lock, req, delay, got, ret, recv, sendLen, sel, device, unsettled>>

IdNext(t) ==
    /\ pc[t] = "next" /\ phase[t] = "id" /\ got[t] >= 0
    /\ LET id == recv[Chip(t)].bytes[0]
       IN IF ChecksId(Chip(t)) /\ id # IdByte
          THEN ret' = [ret EXCEPT ![t] = -1] /\ out' = out
          ELSE ret' = ret /\ out' = [out EXCEPT ![t][0] = id]
    /\ Finish(t)
    /\ UNCHANGED <<lock, req, chunk, delay, got, buffers, sel, device, unsettled>>

WrenNext(t) ==
    /\ pc[t] = "next" /\ phase[t] = "wren" /\ got[t] >= 0
    /\ Continue(t, "program")
    /\ UNCHANGED <<lock, req, chunk, delay, got, out, ret, buffers, sel, device, unsettled>>

\* Variant: the write enable is sent for the first chunk only.
ChunkDoneEnabledOnce(t) ==
    IF Kind(t) = "write"
    THEN /\ sendLen' = [sendLen EXCEPT ![Chip(t)] = @ + ChunkLen(t)]
         /\ chunk' = [chunk EXCEPT ![t] = @ + 1]
         /\ IF MoreChunks(t) THEN Continue(t, "program") ELSE Finish(t)
    ELSE UNCHANGED <<sendLen, chunk>> /\ Finish(t)

\* The end of one chunk of a write, or of an erase or write_status.
ChunkDone(t) ==
    IF Kind(t) = "write"
    THEN /\ sendLen' = [sendLen EXCEPT ![Chip(t)] = @ + ChunkLen(t)]
         /\ chunk' = [chunk EXCEPT ![t] = @ + 1]
         /\ IF MoreChunks(t) THEN Continue(t, FirstPhase(req[t])) ELSE Finish(t)
    ELSE UNCHANGED <<sendLen, chunk>> /\ Finish(t)

WaitsForErase(t) == Kind(t) = "erase" /\ PollsErase(Chip(t))  \* variant: writes do not poll
Waits(t) == IF Kind(t) = "erase" THEN PollsErase(Chip(t)) ELSE Polls(Chip(t))

ProgramNext(t) ==
    /\ pc[t] = "next" /\ phase[t] = "program" /\ got[t] >= 0
    /\ delay' = [delay EXCEPT ![t] = 0]
    /\ IF Waits(t) THEN Continue(t, "poll") /\ UNCHANGED <<sendLen, chunk>> ELSE ChunkDone(t)
    /\ UNCHANGED <<lock, req, got, out, ret, recv, recvLen, sel, device, unsettled>>

\* Variant: a transfer error reads as ready.
ErrorReadsReady(t) ==
    LET r == recv[Chip(t)] IN
    IF got[t] < 0 \/ r.op # "data" THEN {0}
    ELSE CASE r.bytes[0] = BusyByte  -> {1}
           [] r.bytes[0] = ReadyByte -> {0}
           [] OTHER                  -> {0, 1}

\* Bit 0 of the status: a failed transfer that is masked reads as 0xff, and
\* a transfer of no bytes leaves the command length 1 in _recvBuf[0].
StatusBit(t) ==
    LET r == recv[Chip(t)] IN
    IF got[t] < 0 \/ r.op # "data" THEN {1}
    ELSE CASE r.bytes[0] = BusyByte  -> {1}
           [] r.bytes[0] = ReadyByte -> {0}
           [] OTHER                  -> {0, 1}

SameDelay(t) == delay[t]                  \* variant: delay_count is not counted
NextDelay(t) == delay[t] + 1
GiveUpLate(t) == delay[t] > DelayMax + 1  \* variant: the limit is tested too late
GiveUp(t)    == NextDelay(t) > DelayMax

PollNext(t) ==
    /\ pc[t] = "next" /\ phase[t] = "poll" /\ Kind(t) # "read_status"
    /\ got[t] >= 0 \/ Masked(t)
    /\ \/ /\ 1 \in StatusBit(t)
          /\ delay' = [delay EXCEPT ![t] = NextDelay(t)]
          /\ IF GiveUp(t)
             THEN ret' = [ret EXCEPT ![t] = -1] /\ Finish(t)
             ELSE ret' = ret /\ Continue(t, "poll")
          /\ UNCHANGED <<sendLen, chunk>>
       \/ /\ 0 \in StatusBit(t)
          /\ ChunkDone(t)
          /\ UNCHANGED <<delay, ret>>
    /\ UNCHANGED <<lock, req, got, out, recv, recvLen, sel, device, unsettled>>

----------------------------------------------------------------------------
(* The end of a session. *)

\* Whether the session of t sent, or may have sent, a program or erase.
Changes(t) == Kind(t) \in {"erase", "write_status"} \/ (Kind(t) = "write" /\ req[t].len > 0)

\* EPCS64 and MX25U1635 copy _recvLen into a local before they unlock.  What
\* no later session reads is forgotten: _recvBuf, which every transfer fills
\* anew, _sendLen, which every write resets, and a _recvLen already copied.
Unlock(t) ==
    /\ pc[t] = "unlock"
    /\ lock' = NoThread
    /\ ret' = IF Kind(t) = "read" /\ ret[t] = 0 /\ CopiesLength(Chip(t))
              THEN [ret EXCEPT ![t] = recvLen[Chip(t)]] ELSE ret
    /\ unsettled' = IF Changes(t)
                    THEN [unsettled EXCEPT ![Chip(t)] =
                                     /\ Polls(Chip(t))
                                     /\ ret[t] < 0 \/ (Kind(t) = "erase" /\ ~PollsErase(Chip(t)))]
                    ELSE unsettled
    /\ recv' = [recv EXCEPT ![Chip(t)] = Forgotten]
    /\ sendLen' = [sendLen EXCEPT ![Chip(t)] = StaleLen]
    /\ recvLen' = IF CopiesLength(Chip(t)) THEN [recvLen EXCEPT ![Chip(t)] = StaleLen]
                                            ELSE recvLen
    /\ pc' = [pc EXCEPT ![t] = "return"]
    /\ UNCHANGED <<phase, req, chunk, delay, got, out, sel, device>>

\* The locals are gone and the buffer is the caller's.
Leave(t) ==
    /\ pc' = [pc EXCEPT ![t] = "done"]
    /\ phase' = [phase EXCEPT ![t] = "read"]
    /\ chunk' = [chunk EXCEPT ![t] = 0]
    /\ delay' = [delay EXCEPT ![t] = 0]
    /\ got' = [got EXCEPT ![t] = 0]
    /\ out' = [out EXCEPT ![t] = NoData]

\* The other parts read the member _recvLen after the unlock.
Return(t) ==
    /\ pc[t] = "return"
    /\ ret' = IF Kind(t) = "read" /\ ret[t] = 0 /\ ~CopiesLength(Chip(t))
              THEN [ret EXCEPT ![t] = recvLen[Chip(t)]] ELSE ret
    /\ Leave(t)
    /\ UNCHANGED <<lock, req, buffers, sel, device, unsettled>>

\* The end of a read_status that the caller made.
StatusNext(t) ==
    /\ pc[t] = "next" /\ Kind(t) = "read_status"
    /\ IF got[t] < 0 /\ ~Masked(t)
       THEN ret' = [ret EXCEPT ![t] = -1]
       ELSE \E bit \in StatusBit(t) : ret' = [ret EXCEPT ![t] = bit]
    /\ Leave(t)
    /\ UNCHANGED <<lock, req, buffers, sel, device, unsettled>>

\* The caller takes the result and goes on.
Consume(t) ==
    /\ pc[t] = "done"
    /\ pc' = [pc EXCEPT ![t] = "idle"]
    /\ req' = [req EXCEPT ![t] = NoRequest]
    /\ ret' = [ret EXCEPT ![t] = 0]
    /\ UNCHANGED <<lock, phase, chunk, delay, got, out, buffers, sel, device, unsettled>>

\* A chip ends its write cycle, at any time.
DeviceDone(c) ==
    /\ busy[c]
    /\ busy' = [busy EXCEPT ![c] = FALSE]
    /\ UNCHANGED <<lock, pc, locals, buffers, sel, mem, wel, unsettled>>

Session(t) ==
    \/ Select(t) \/ Receive(t) \/ Send(t) \/ Deselect(t)
    \/ Fail(t) \/ ReadNext(t) \/ IdNext(t) \/ WrenNext(t)
    \/ ProgramNext(t) \/ PollNext(t) \/ StatusNext(t)
    \/ Unlock(t) \/ Return(t)

Next ==
    \/ \E t \in Threads : Call(t) \/ Lock(t) \/ Session(t) \/ Consume(t)
    \/ \E c \in Chips : DeviceDone(c)

Spec == Init /\ [][Next]_vars

\* A thread that is inside a call keeps running; nothing is assumed of the
\* order in which the mutex is granted, nor of the chips.
FairSpec == Spec /\ \A t \in Threads : WF_vars(Session(t))
----------------------------------------------------------------------------
(* Properties. *)

Pcs    == {"idle", "lock", "select", "transfer", "deselect", "next",
           "unlock", "return", "done"}
Phases == {"read", "id", "poll", "wren", "program"}

\* Types; in particular the poll counter never runs past its limit.
TypeOK ==
    /\ lock \in Threads \cup {NoThread}
    /\ pc \in [Threads -> Pcs]
    /\ phase \in [Threads -> Phases]
    /\ req \in [Threads -> Request]
    /\ chunk \in [Threads -> Nat]
    /\ delay \in [Threads -> 0 .. DelayMax + 1]
    /\ got \in [Threads -> -1 .. ReadSize]
    /\ out \in [Threads -> [Cells -> Bytes]]
    /\ ret \in [Threads -> Int]
    /\ recv \in [Chips -> [op : Phases \cup {"data"}, addr : Cells, bytes : [Slots -> Bytes]]]
    /\ recvLen \in [Chips -> Nat]
    /\ sendLen \in [Chips -> Nat]
    /\ sel \in [Chips -> BOOLEAN]
    /\ mem \in [Chips -> [Cells -> Bytes]]
    /\ wel \in [Chips -> BOOLEAN]
    /\ busy \in [Chips -> BOOLEAN]
    /\ unsettled \in [Chips -> BOOLEAN]

\* Thread t is inside the critical section of spi_lock.
InSession(t) == pc[t] \in {"select", "transfer", "deselect", "next", "unlock"}

\* spi_lock does what eos_spi.h says it is for: whoever works on the bus
\* holds it, and a chip is selected only during a transfer that the holder
\* makes with that chip, on the error paths too.
BusOwned ==
    /\ \A t \in Threads : InSession(t) => lock = t
    /\ \A c \in Chips : sel[c] => /\ lock # NoThread /\ Chip(lock) = c
                                  /\ pc[lock] \in {"transfer", "deselect"}

\* A device_read delivers the bytes of the chip in order: what it has copied
\* so far is what the chip holds from the start address on, and the rest of
\* the caller's buffer is untouched.  A chip still busy with an earlier call
\* (unsettled) may answer anything.
ReadsMemory ==
    \A t \in Threads :
        InSession(t) /\ Kind(t) = "read" =>
          \A k \in Cells :
             IF k < recvLen[Chip(t)]
             THEN /\ k < req[t].len
                  /\ ~unsettled[Chip(t)] /\ ~ShortTransfers =>
                         out[t][k] = mem[Chip(t)][req[t].addr + k]
             ELSE out[t][k] = Blank

\* The bytes of a write fit the pages of its chip: no program wraps.
Fits(r) == Paged(r.chip) => \/ r.addr % WriteSize = 0
                            \/ (r.addr % WriteSize) + r.len <= WriteSize
FitsPages(t) == Fits(req[t])

\* A device_write stores its data: every byte counted in _sendLen is in the
\* chip, and all are when it returns 0.  device_erase of EPCS64 leaves only
\* blank cells when it returns 0.  A short write(), which counts as a whole one,
\* is excepted.
WritesStored ==
    \A t \in Threads : InSession(t) /\ ~unsettled[Chip(t)] /\ ~ShortTransfers =>
        /\ Kind(t) = "write" /\ FitsPages(t) =>
             /\ \A k \in Cells : k < sendLen[Chip(t)] =>
                    mem[Chip(t)][req[t].addr + k] = req[t].data[k]
             /\ pc[t] = "unlock" /\ ret[t] = 0 => sendLen[Chip(t)] = req[t].len
        /\ Kind(t) = "erase" /\ pc[t] = "unlock" /\ ret[t] = 0 => mem[Chip(t)] = NoData

\* No session hands over a chip with a write in progress, unless it returned
\* an error or was the erase of MX25U1635, which does not wait.
QuietBetweenCalls ==
    \A c \in Chips : lock = NoThread /\ busy[c] => unsettled[c]

\* A cell of a chip changes only during the write or erase of the thread
\* that holds the lock, only in that thread's chip, and only where it asked
\* for; a write that does not fit the pages stays inside the pages it touches.
Reach(r) ==
    {a \in Cells :
        \/ r.kind = "erase"
        \/ /\ r.kind = "write"
           /\ LET last == r.addr + r.len - 1
              IN IF Fits(r) THEN a \in r.addr .. last
                 ELSE a \div WriteSize \in r.addr \div WriteSize .. last \div WriteSize}
MayChange(t, c, a) == Chip(t) = c /\ a \in Reach(req[t])
HolderChangesMemory ==
    [][\A c \in Chips : \A a \in Cells :
          mem'[c][a] # mem[c][a] => lock # NoThread /\ MayChange(lock, c, a)]_vars

\* A device_read that does not fail returns the number of bytes asked for.
ReturnsLength ==
    \A t \in Threads : pc[t] = "done" /\ Kind(t) = "read" /\ ret[t] >= 0 /\ ~ShortTransfers =>
        ret[t] = req[t].len

\* A call that has its lock comes to its end, even if the chip stays busy for
\* ever: the polls are counted.
CallEnds ==
    \A t \in Threads : (InSession(t) \/ pc[t] = "return") ~> (pc[t] = "done")
----------------------------------------------------------------------------
(* The calls are those of a store of bytes: a session is one call of it.   *)

Area      == [r \in Requests |-> Reach(r)]
Exact     == {r \in Requests : r.kind = "write" => Fits(r)}
Unawaited == {r \in Requests : r.kind = "erase" /\ ~PollsErase(r.chip)}

Serving(r) == IF lock = NoThread THEN [kind |-> "none"] ELSE r[lock]
Outcome == [t \in Threads |-> IF pc[t] # "return" THEN "none"
                              ELSE IF ret[t] < 0 THEN "failed" ELSE "ok"]
Delivered == [t \in Threads |-> IF pc[t] = "return" THEN out[t] ELSE NoData]

Bytewise == INSTANCE SpiStore WITH Whole <- ~ShortTransfers, holder <- lock,
    call <- Serving(req), loose <- unsettled, outcome <- Outcome, data <- Delivered

\* The chips on the shared bus keep the promise of SpiStore: whatever the
\* order of the calls and wherever a transfer fails, each call is one call of
\* the store, a successful write is stored and a successful read delivers what
\* is stored when it ends, nothing else.  A public read_status breaks it
\* (run spi_status).
StoreImplements == Bytewise!Spec
============================================================================
