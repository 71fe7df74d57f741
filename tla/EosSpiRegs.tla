----------------------------- MODULE EosSpiRegs -----------------------------
(***************************************************************************)
(* The register chips of eos_spi: the clock chips ZL30155, ZL30143 and     *)
(* ACS9520T, the power manager K10 and the Ethernet switch BCM5389, with   *)
(* cs_init, which all classes share word by word, and set_para of the base *)
(* class.                                                                  *)
(*                                                                         *)
(* A device_read or device_write is a session under spi_lock.  Its phases  *)
(* are transfers: "spif" polls the switch until it is ready, "page" writes *)
(* the page register (ZL30155, ZL30143, BCM5389), "addr" sends the switch  *)
(* the address to fetch, "rack" polls until it acknowledges, and "data"    *)
(* moves one chunk.  Each transfer is Select, Receive or Send, Deselect,   *)
(* and a Next action that tests the result.                                *)
(*                                                                         *)
(* The chips (dev) are external and modelled as the code uses them.  A     *)
(* transfer of ZL or ACS starts at the address it carries; K10 has no      *)
(* addresses, a transfer goes on where the last one ended; BCM5389 fetches *)
(* a block into the registers from 0xf0 on and then acknowledges it.       *)
(***************************************************************************)
EXTENDS Integers

CONSTANTS
    Threads, NoThread,
    Chips,      \* the chip objects on the bus
    Pages,      \* page numbers; a part without pages has page 0
    Size,       \* registers of a page
    ReadSize,   \* read_size: data bytes of one read transfer
    WriteSize,  \* write_size: data bytes of one write transfer
    LatchSize,  \* registers the switch fetches at once: 8 in the code
    DelayMax,   \* 0xff in the code: polls before a call is given up
    Values, Blank, Garbage,
    InitRegs,   \* what the registers of a page hold at power-up
    ShortTransfers, \* whether read() and write() may move fewer bytes than asked for
    Programs    \* which part is behind each object, and the calls the threads make

Parts  == {"ZL30155", "ZL30143", "ACS9520T", "K10", "BCM5389"}
Cells  == 0 .. Size - 1
Slots  == 0 .. ReadSize - 1
Latch  == 0 .. LatchSize - 1
Bytes  == Values \cup {Blank, Garbage}
Flags  == {"bit_order", "clock_phase", "clock_polarity"}  \* one byte in the driver
Callbacks == [enable : BOOLEAN, disable : BOOLEAN]  \* which pointers are not NULL

\* page, addr, len and data are those of an access, cs of cs_init and para of
\* set_para; a flag has two legal values, 0 and 1.  charlen and max_speed have
\* an ioctl each, on which nothing else depends, and are left out.
Request == [kind : {"read", "write", "cs_init", "set_para"}, chip : Chips, page : Pages,
            addr : Cells, len : 0 .. Size, data : [Cells -> Bytes],
            cs : Callbacks, para : [Flags -> Nat]]

ASSUME ThreadAssumption == NoThread \notin Threads
ASSUME ChipAssumption == /\ Chips # {} /\ 0 \in Pages
                         /\ InitRegs \in [Pages -> [Cells -> Bytes]]
ASSUME SizeAssumption == /\ {Size, ReadSize, WriteSize, LatchSize} \subseteq Nat \ {0}
                         /\ DelayMax \in Nat /\ ShortTransfers \in BOOLEAN
ASSUME ProgramAssumption ==
    Programs \subseteq [part : [Chips -> Parts], calls : SUBSET {r \in Request : r.addr + r.len <= Size}]

VARIABLES
    part,     \* part[c]: the part behind object c
    calls,    \* the calls of the program that runs
    lock,     \* spi_lock
    pc, phase, req,
    chunk,    \* chunk[t]: the loop counter i
    delay,    \* delay[t]: delay_count
    got,      \* got[t]: what spi_transfer returned
    status,   \* status[t]: the bit of the status byte that a poll tests
    out,      \* out[t]: the caller's buffer
    ret,
    recv,     \* recv[c]: the bytes in _recvBuf
    recvLen, sendLen,
    cs,       \* cs[c]: enable and disable
    sel,      \* sel[c]: the chip select they drive
    para,     \* para[c]: para
    mode,     \* mode[c]: what the driver has been told by the mode ioctls
    dev,      \* dev[c]: the chip
    misused,  \* (history) a cs_init has returned -1, or ran during a call on its chip
    modeLost, \* modeLost[c] (history): an ioctl of the last set_para failed
    clean,    \* clean[t] (history): no transfer of the call was short, no status read failed
    start     \* start[t] (history): position of the chip when the session began

locals  == <<phase, req, chunk, delay, got, status, out, ret, clean, start>>
buffers == <<recv, recvLen, sendLen>>
setup   == <<part, calls, cs, para, mode, misused, modeLost>>
vars    == <<lock, pc, locals, buffers, setup, sel, dev>>

Paged(c)  == part[c] \in {"ZL30155", "ZL30143", "BCM5389"}
Switch(c) == part[c] = "BCM5389"
Stream(c) == part[c] = "K10"
----------------------------------------------------------------------------
NoData    == [k \in Cells |-> Blank]
Unread    == [k \in Slots |-> Garbage]
NoPara    == [f \in Flags |-> 0]
Both      == [enable |-> TRUE, disable |-> TRUE]
Neither   == [enable |-> FALSE, disable |-> FALSE]
NoRequest == [kind |-> "read", chip |-> CHOOSE c \in Chips : TRUE, page |-> 0, addr |-> 0,
              len |-> 0, data |-> NoData, cs |-> Neither, para |-> NoPara]
StaleLen  == 1  \* some length left by an earlier call

Nothing == [k \in Latch |-> Garbage]  \* before the first fetch, or while one is under way

\* page: the selected page; pos: where a stream stands; busy: SPIF; fetch, want:
\* the switch has still to fetch the block at want; rack, latch: it has done so.
PowerUp == [regs |-> InitRegs, page |-> 0, pos |-> 0, busy |-> FALSE, fetch |-> FALSE,
            want |-> 0, rack |-> FALSE, latch |-> Nothing]

Init ==
    /\ \E p \in Programs : part = p.part /\ calls = p.calls
    /\ lock = NoThread
    /\ pc = [t \in Threads |-> "idle"]
    /\ phase = [t \in Threads |-> "data"]
    /\ req = [t \in Threads |-> NoRequest]
    /\ chunk = [t \in Threads |-> 0]
    /\ delay = [t \in Threads |-> 0]
    /\ got = [t \in Threads |-> 0]
    /\ status = [t \in Threads |-> FALSE]
    /\ out = [t \in Threads |-> NoData]
    /\ ret = [t \in Threads |-> 0]
    /\ clean = [t \in Threads |-> TRUE]
    /\ start = [t \in Threads |-> 0]
    /\ recv = [c \in Chips |-> Unread]
    /\ recvLen = [c \in Chips |-> 0]
    /\ sendLen = [c \in Chips |-> 0]
    /\ cs = [c \in Chips |-> Neither]
    /\ sel = [c \in Chips |-> FALSE]
    /\ para = [c \in Chips |-> NoPara]
    /\ mode = [c \in Chips |-> NoPara]
    /\ modeLost = [c \in Chips |-> FALSE]
    /\ misused = FALSE
    /\ dev = [c \in Chips |-> PowerUp]

Chip(t) == req[t].chip
Kind(t) == req[t].kind
IsAccess(t) == Kind(t) \in {"read", "write"}

\* Thread t is inside the critical section of spi_lock.
InSession(t) == pc[t] \in {"set", "select", "transfer", "deselect", "next", "unlock"}
----------------------------------------------------------------------------
(* Calls: cs_init takes no lock, the others are sessions. *)

Consistent(f) == f.enable = f.disable

\* Stores both callbacks before it looks at them.
CsInit(t) ==
    /\ pc[t] = "idle"
    /\ \E r \in calls :
         /\ r.kind = "cs_init"
         /\ cs' = [cs EXCEPT ![r.chip] = r.cs]
         /\ misused' = (misused \/ ~Consistent(r.cs)
                          \/ \E u \in Threads : InSession(u) /\ Chip(u) = r.chip)
         /\ req' = [req EXCEPT ![t] = r]
         /\ ret' = [ret EXCEPT ![t] = IF Consistent(r.cs) THEN 0 ELSE -1]
    /\ pc' = [pc EXCEPT ![t] = "done"]
    /\ UNCHANGED <<lock, phase, chunk, delay, got, status, out, clean, start, buffers, part,
                   calls, para, mode, modeLost, sel, dev>>

FirstPhase(r) ==
    IF r.kind = "set_para"  THEN "bit_order"
    ELSE IF Switch(r.chip)  THEN "spif"
    ELSE IF Paged(r.chip)   THEN "page" ELSE "data"

Call(t) ==
    /\ pc[t] = "idle"
    /\ \E r \in calls :
         /\ r.kind # "cs_init"
         /\ req' = [req EXCEPT ![t] = r]
         /\ phase' = [phase EXCEPT ![t] = FirstPhase(r)]
    /\ pc' = [pc EXCEPT ![t] = "lock"]
    /\ UNCHANGED <<lock, chunk, delay, got, status, out, ret, clean, start, buffers, setup, sel, dev>>

Free == lock = NoThread

\* Without bytes to move a part without pages makes no transfer.
Lock(t) ==
    /\ pc[t] = "lock" /\ Free
    /\ lock' = t
    /\ recvLen' = IF Kind(t) = "read" THEN [recvLen EXCEPT ![Chip(t)] = 0] ELSE recvLen
    /\ sendLen' = IF Kind(t) = "write" THEN [sendLen EXCEPT ![Chip(t)] = 0] ELSE sendLen
    /\ para' = IF Kind(t) = "set_para" THEN [para EXCEPT ![Chip(t)] = req[t].para] ELSE para
    /\ modeLost' = IF Kind(t) = "set_para" THEN [modeLost EXCEPT ![Chip(t)] = FALSE] ELSE modeLost
    /\ start' = [start EXCEPT ![t] = IF IsAccess(t) THEN dev[Chip(t)].pos ELSE 0]
    /\ pc' = [pc EXCEPT ![t] = IF Kind(t) = "set_para" THEN "set"
                               ELSE IF phase[t] = "data" /\ req[t].len = 0 THEN "unlock" ELSE "select"]
    /\ UNCHANGED <<phase, req, chunk, delay, got, status, out, ret, clean, recv, part, calls, cs, mode,
                   misused, sel, dev>>
----------------------------------------------------------------------------
(* set_para: each flag is read, changed and written back by two ioctls, of  *)
(* which a failed one is not noticed: the flags not read are written as 0.  *)

NextFlag(f) ==
    CASE f = "bit_order"   -> "clock_phase"
      [] f = "clock_phase" -> "clock_polarity"
      [] OTHER             -> "end"

Legal(v) == v \in {0, 1}

KnownNothing(c, known) == NoPara  \* variant: the flags are not read first
Known(c, known) == IF known THEN mode[c] ELSE NoPara

\* With an illegal value bit_order writes the flags back as they are, the
\* other two make no ioctl.
SetFlag(t) ==
    /\ pc[t] = "set"
    /\ LET c == Chip(t)
           f == phase[t]
           v == req[t].para[f]
       IN \/ /\ f # "bit_order" /\ ~Legal(v)
             /\ UNCHANGED <<mode, modeLost>>
          \/ /\ f = "bit_order" \/ Legal(v)
             /\ \E known, told \in BOOLEAN :  \* whether the two ioctls succeed
                  /\ mode' = IF told THEN [mode EXCEPT ![c] = [Known(c, known) EXCEPT
                                                ![f] = IF Legal(v) THEN v ELSE @]]
                                     ELSE mode
                  /\ modeLost' = [modeLost EXCEPT ![c] = @ \/ ~known \/ ~told]
    /\ phase' = [phase EXCEPT ![t] = NextFlag(@)]
    /\ pc' = [pc EXCEPT ![t] = IF NextFlag(phase[t]) = "end" THEN "unlock" ELSE "set"]
    /\ UNCHANGED <<lock, req, chunk, delay, got, status, out, ret, clean, start, buffers, part,
                   calls, cs, para, misused, sel, dev>>
----------------------------------------------------------------------------
(* One transfer. *)

\* BCM5389 reads byte by byte and writes all at once.
ChunkSize(t) ==
    IF Kind(t) = "read" THEN IF Switch(Chip(t)) THEN 1 ELSE ReadSize
                        ELSE IF Switch(Chip(t)) THEN Size ELSE WriteSize
FullChunkLen(t) == ChunkSize(t)  \* variant: the remainder moved as a full chunk
ChunkLen(t) ==
    IF chunk[t] < req[t].len \div ChunkSize(t) THEN ChunkSize(t)
                                               ELSE req[t].len % ChunkSize(t)

Polling(t)   == phase[t] \in {"spif", "rack"}
Receiving(t) == phase[t] \in {"spif", "addr", "rack"} \/ (phase[t] = "data" /\ Kind(t) = "read")

Select(t) ==
    /\ pc[t] = "select"
    /\ recv' = IF Receiving(t) THEN [recv EXCEPT ![Chip(t)] = Unread] ELSE recv
    /\ sel' = [sel EXCEPT ![Chip(t)] = @ \/ cs[Chip(t)].enable]
    /\ pc' = [pc EXCEPT ![t] = "transfer"]
    /\ UNCHANGED <<lock, locals, recvLen, sendLen, setup, dev>>

\* A chip without an enable function is selected by the driver.
Listeners(c) == {d \in Chips : sel[d]} \cup (IF cs[c].enable THEN {} ELSE {c})

\* Every chunk of a read carries ucStartAddr, whatever addr has become.
Register(t, k) ==
    LET c == Chip(t) IN
    IF Stream(c) THEN dev[c].regs[0][(dev[c].pos + k) % Size]
                 ELSE dev[c].regs[dev[c].page][(req[t].addr + k) % Size]

\* The k-th byte the chip of t sends while it is read in the phase data.
Answer(t, k) ==
    LET c == Chip(t) IN
    IF Listeners(c) # {c} THEN Garbage
    ELSE IF ~Switch(c)    THEN Register(t, k)
    ELSE IF chunk[t] \in Latch /\ ~dev[c].busy /\ dev[c].rack THEN dev[c].latch[chunk[t]]
    ELSE Garbage

Wanted(t) ==
    CASE phase[t] = "data" -> ChunkLen(t)
      [] phase[t] = "addr" -> req[t].len
      [] OTHER             -> 1

\* The bit of the status that a poll tests: a failed read_status is 0xff, and
\* one of no bytes leaves the length of the command, 2, in _recvBuf[0].
StatusBit(t, n) ==
    IF ~Polling(t) \/ n = 0                 THEN {FALSE}
    ELSE IF n < 0                           THEN {TRUE}
    ELSE IF Listeners(Chip(t)) # {Chip(t)}  THEN BOOLEAN
    ELSE {IF phase[t] = "spif" THEN dev[Chip(t)].busy ELSE dev[Chip(t)].rack}

\* The chip of t after a read of n bytes: the switch notes the address it is
\* sent, a stream goes on.
Heard(t, n) ==
    LET c == Chip(t) IN
    IF phase[t] = "addr" /\ c \in Listeners(c) /\ ~dev[c].busy
    THEN [dev[c] EXCEPT !.rack = FALSE, !.fetch = TRUE, !.want = req[t].addr, !.latch = Nothing]
    ELSE IF phase[t] = "data" /\ Stream(c)
    THEN [dev[c] EXCEPT !.pos = (@ + n) % Size]
    ELSE dev[c]

\* read() fails, or returns n bytes; a failed one may or may not have reached the
\* chip.
Receive(t) ==
    LET c == Chip(t) IN
    /\ pc[t] = "transfer" /\ Receiving(t)
    /\ \E n \in {-1, Wanted(t)} \cup (IF ShortTransfers THEN 0 .. Wanted(t) ELSE {}), reached \in BOOLEAN :
         /\ n >= 0 => reached
         /\ Wanted(t) = 0 => n = -1 /\ ~reached  \* spi_transfer refuses to move nothing
         /\ got' = [got EXCEPT ![t] = n]
         /\ \E bit \in StatusBit(t, n) : status' = [status EXCEPT ![t] = bit]
         /\ clean' = [clean EXCEPT ![t] = @ /\ (n = Wanted(t) \/ (n < 0 /\ ~Polling(t)))]
         /\ recv' = IF phase[t] = "data" /\ n > 0
                    THEN [recv EXCEPT ![c] = [k \in Slots |-> IF k < n THEN Answer(t, k) ELSE Garbage]]
                    ELSE recv
         /\ dev' = IF reached THEN [dev EXCEPT ![c] = Heard(t, IF n < 0 THEN Wanted(t) ELSE n)]
                              ELSE dev
    /\ pc' = [pc EXCEPT ![t] = "deselect"]
    /\ UNCHANGED <<lock, phase, req, chunk, delay, out, ret, start, recvLen, sendLen, setup, sel>>

\* What chip d makes of the first n bytes of a chunk that t writes.
Written(t, d, n) ==
    LET a0 == IF Stream(d) THEN dev[d].pos ELSE req[t].addr
        p  == IF Stream(d) THEN 0 ELSE dev[d].page
    IN [dev[d] EXCEPT
          !.regs[p] = [a \in Cells |-> IF (a - a0) % Size < n
                                       THEN req[t].data[sendLen[Chip(t)] + ((a - a0) % Size)]
                                       ELSE @[a]],
          !.pos  = IF Stream(d) THEN (@ + n) % Size ELSE @,
          !.busy = @ \/ Switch(d)]

\* write() fails, or sends n bytes of the chunk, where fewer than all of them are
\* not an error.  A failed one may have reached the chips, and a short one may not.
Send(t) ==
    /\ pc[t] = "transfer" /\ ~Receiving(t)
    /\ \E ok, reached \in BOOLEAN, n \in (IF ShortTransfers THEN 0 .. ChunkLen(t) ELSE {ChunkLen(t)}) :
         /\ ok => reached \/ ShortTransfers
         /\ phase[t] = "page" => n = ChunkLen(t)
         /\ got' = [got EXCEPT ![t] = IF ok THEN 1 ELSE -1]
         /\ clean' = [clean EXCEPT ![t] = @ /\ (ok => reached /\ n = ChunkLen(t))]
         /\ dev' = [d \in Chips |->
                      IF ~reached \/ d \notin Listeners(Chip(t)) \/ dev[d].busy THEN dev[d]
                      ELSE IF phase[t] = "page" THEN [dev[d] EXCEPT !.page = req[t].page]
                      ELSE Written(t, d, n)]
    /\ pc' = [pc EXCEPT ![t] = "deselect"]
    /\ UNCHANGED <<lock, phase, req, chunk, delay, status, out, ret, start, buffers, setup, sel>>

\* Variant: the error path forgets disable().
DeselectOnSuccess(t) ==
    /\ pc[t] = "deselect"
    /\ sel' = [sel EXCEPT ![Chip(t)] = @ /\ (~cs[Chip(t)].disable \/ got[t] < 0)]
    /\ pc' = [pc EXCEPT ![t] = "next"]
    /\ UNCHANGED <<lock, locals, buffers, setup, dev>>

Deselect(t) ==
    /\ pc[t] = "deselect"
    /\ sel' = [sel EXCEPT ![Chip(t)] = @ /\ ~cs[Chip(t)].disable]
    /\ pc' = [pc EXCEPT ![t] = "next"]
    /\ UNCHANGED <<lock, locals, buffers, setup, dev>>
----------------------------------------------------------------------------
(* What the session does with the result of a transfer. *)

Continue(t, p) == phase' = [phase EXCEPT ![t] = p] /\ pc' = [pc EXCEPT ![t] = "select"]
Finish(t)      == phase' = phase /\ pc' = [pc EXCEPT ![t] = "unlock"]

\* The polls do not look at the result of the transfer, the others do.
Fail(t) ==
    /\ pc[t] = "next" /\ ~Polling(t) /\ got[t] < 0
    /\ ret' = [ret EXCEPT ![t] = -1]
    /\ Finish(t)
    /\ UNCHANGED <<lock, req, chunk, delay, got, status, out, clean, start, buffers, setup,
                   sel, dev>>

\* After the page an access of no bytes has nothing to move, except that
\* BCM5389 sends the address in any case.
PageNext(t) ==
    /\ pc[t] = "next" /\ phase[t] = "page" /\ got[t] >= 0
    /\ IF Switch(Chip(t)) /\ Kind(t) = "read"      THEN Continue(t, "addr")
       ELSE IF ~Switch(Chip(t)) /\ req[t].len = 0  THEN Finish(t)
       ELSE Continue(t, "data")
    /\ UNCHANGED <<lock, req, chunk, delay, got, status, out, ret, clean, start, buffers,
                   setup, sel, dev>>

AddrNext(t) ==
    /\ pc[t] = "next" /\ phase[t] = "addr" /\ got[t] >= 0
    /\ delay' = [delay EXCEPT ![t] = 0]
    /\ Continue(t, "rack")
    /\ UNCHANGED <<lock, req, chunk, got, status, out, ret, clean, start, buffers, setup, sel, dev>>

Acknowledged(t) == TRUE  \* variant: the data are read without waiting for RACK
PollOver(t) == IF phase[t] = "spif" THEN ~status[t] ELSE status[t]

PollsForEver(n) == FALSE  \* variant: delay_count has no limit
GivesUp(n) == n > DelayMax

PollNext(t) ==
    /\ pc[t] = "next" /\ Polling(t)
    /\ IF PollOver(t)
       THEN /\ Continue(t, IF phase[t] = "spif" THEN "page" ELSE "data")
            /\ UNCHANGED <<delay, ret>>
       ELSE /\ delay' = [delay EXCEPT ![t] = @ + 1]
            /\ IF GivesUp(delay[t] + 1)
               THEN ret' = [ret EXCEPT ![t] = -1] /\ Finish(t)
               ELSE ret' = ret /\ Continue(t, phase[t])
    /\ UNCHANGED <<lock, req, chunk, got, status, out, clean, start, buffers, setup, sel, dev>>

\* Whether the loop has bytes left after the current chunk.
MoreChunks(t) == (chunk[t] + 1) * ChunkSize(t) < req[t].len

DataNext(t) ==
    LET c == Chip(t) IN
    /\ pc[t] = "next" /\ phase[t] = "data" /\ got[t] >= 0
    /\ IF Kind(t) = "read"
       THEN /\ out' = [out EXCEPT ![t] = [k \in Cells |->
                          IF k \in recvLen[c] .. recvLen[c] + got[t] - 1
                          THEN recv[c][k - recvLen[c]] ELSE @[k]]]
            /\ recvLen' = [recvLen EXCEPT ![c] = @ + got[t]]
            /\ sendLen' = sendLen
       ELSE /\ sendLen' = [sendLen EXCEPT ![c] = @ + ChunkLen(t)]
            /\ UNCHANGED <<out, recvLen>>
    /\ chunk' = [chunk EXCEPT ![t] = @ + 1]
    /\ IF MoreChunks(t) THEN Continue(t, "data") ELSE Finish(t)
    /\ UNCHANGED <<lock, req, delay, got, status, ret, clean, start, recv, setup, sel, dev>>

\* A read copies _recvLen before it unlocks.  What no later session reads is
\* forgotten: the locals, _recvBuf and the lengths.
Unlock(t) ==
    /\ pc[t] = "unlock"
    /\ lock' = NoThread
    /\ ret' = IF Kind(t) = "read" /\ ret[t] = 0 THEN [ret EXCEPT ![t] = recvLen[Chip(t)]] ELSE ret
    /\ phase' = [phase EXCEPT ![t] = "data"]
    /\ chunk' = [chunk EXCEPT ![t] = 0]
    /\ delay' = [delay EXCEPT ![t] = 0]
    /\ got' = [got EXCEPT ![t] = 0]
    /\ status' = [status EXCEPT ![t] = FALSE]
    /\ out' = [out EXCEPT ![t] = NoData]
    /\ start' = [start EXCEPT ![t] = 0]
    /\ recv' = [recv EXCEPT ![Chip(t)] = Unread]
    /\ recvLen' = [recvLen EXCEPT ![Chip(t)] = StaleLen]
    /\ sendLen' = [sendLen EXCEPT ![Chip(t)] = StaleLen]
    /\ pc' = [pc EXCEPT ![t] = "done"]
    /\ UNCHANGED <<req, clean, setup, sel, dev>>

\* The caller takes the result and goes on.
Consume(t) ==
    /\ pc[t] = "done"
    /\ pc' = [pc EXCEPT ![t] = "idle"]
    /\ req' = [req EXCEPT ![t] = NoRequest]
    /\ ret' = [ret EXCEPT ![t] = 0]
    /\ clean' = [clean EXCEPT ![t] = TRUE]
    /\ UNCHANGED <<lock, phase, chunk, delay, got, status, out, start, buffers, setup, sel, dev>>

\* The switch ends a write, or has fetched the block it was asked for.
DeviceReady(c) ==
    /\ dev[c].busy
    /\ dev' = [dev EXCEPT ![c].busy = FALSE]
    /\ UNCHANGED <<lock, pc, locals, buffers, setup, sel>>

DeviceAnswers(c) ==
    /\ dev[c].fetch
    /\ dev' = [dev EXCEPT ![c].fetch = FALSE, ![c].rack = TRUE, ![c].want = 0,
                 ![c].latch = [k \in Latch |-> dev[c].regs[dev[c].page][(dev[c].want + k) % Size]]]
    /\ UNCHANGED <<lock, pc, locals, buffers, setup, sel>>

Session(t) ==
    \/ SetFlag(t) \/ Select(t) \/ Receive(t) \/ Send(t) \/ Deselect(t)
    \/ Fail(t) \/ PageNext(t) \/ AddrNext(t) \/ PollNext(t) \/ DataNext(t)
    \/ Unlock(t)

Next ==
    \/ \E t \in Threads : CsInit(t) \/ Call(t) \/ Lock(t) \/ Session(t) \/ Consume(t)
    \/ \E c \in Chips : DeviceReady(c) \/ DeviceAnswers(c)

Spec == Init /\ [][Next]_vars
----------------------------------------------------------------------------
(* Properties. *)

Pcs    == {"idle", "lock", "set", "select", "transfer", "deselect", "next", "unlock", "done"}
Phases == {"spif", "page", "addr", "rack", "data", "end"} \cup Flags

\* Types; in particular neither poll counter runs past its limit.
Device == [regs : [Pages -> [Cells -> Bytes]], page : Pages, pos : Cells, busy : BOOLEAN,
           fetch : BOOLEAN, want : Cells, rack : BOOLEAN, latch : [Latch -> Bytes]]
TypeOK ==
    /\ [part |-> part, calls |-> calls] \in Programs
    /\ lock \in Threads \cup {NoThread}
    /\ pc \in [Threads -> Pcs]
    /\ phase \in [Threads -> Phases]
    /\ req \in [Threads -> Request]
    /\ chunk \in [Threads -> 0 .. Size]
    /\ delay \in [Threads -> 0 .. DelayMax + 1]
    /\ got \in [Threads -> -1 .. Size]
    /\ status \in [Threads -> BOOLEAN]
    /\ out \in [Threads -> [Cells -> Bytes]]
    /\ ret \in [Threads -> -1 .. Size]
    /\ clean \in [Threads -> BOOLEAN]
    /\ start \in [Threads -> Cells]
    /\ recv \in [Chips -> [Slots -> Bytes]]
    /\ recvLen \in [Chips -> 0 .. Size]
    /\ sendLen \in [Chips -> 0 .. Size]
    /\ cs \in [Chips -> Callbacks]
    /\ sel \in [Chips -> BOOLEAN]
    /\ para \in [Chips -> [Flags -> Nat]]
    /\ mode \in [Chips -> [Flags -> Nat]]
    /\ modeLost \in [Chips -> BOOLEAN]
    /\ misused \in BOOLEAN
    /\ dev \in [Chips -> Device]

\* Whoever works on the bus or sets its mode holds spi_lock, and a chip is
\* selected only during a transfer that the holder makes with that chip, on
\* every error path.  Only a cs_init that returned -1 (it has stored its
\* callbacks nevertheless) or that ran during a call can break this.
BusOwned ==
    /\ \A t \in Threads : InSession(t) => lock = t
    /\ ~misused => \A c \in Chips : sel[c] =>
           lock # NoThread /\ Chip(lock) = c /\ pc[lock] \in {"transfer", "deselect"}

\* The register behind byte k of an access: chunks after the first start at
\* the first register again, except for K10, which goes on.
Holds(t, k) ==
    LET c == Chip(t) IN
    IF Stream(c) THEN dev[c].regs[0][(start[t] + k) % Size]
    ELSE dev[c].regs[IF Paged(c) THEN req[t].page ELSE 0]
                    [req[t].addr + (IF Switch(c) THEN k ELSE k % ChunkSize(t))]

\* A device_read delivers what the registers of the page it asked for hold,
\* whatever page the calls before it selected, and all of it when it succeeds.
\* This is not so if a status read of the switch failed in the call, because
\* that reads as an acknowledgement, or if a read came short.
ReadsRegisters ==
    \A t \in Threads : InSession(t) /\ Kind(t) = "read" =>
        LET n == recvLen[Chip(t)] IN
        /\ \A k \in Cells :
             IF k >= n THEN out[t][k] = Blank
             ELSE /\ k < req[t].len
                  /\ clean[t] /\ ~misused /\ (Switch(Chip(t)) => k \in Latch) =>
                         out[t][k] = Holds(t, k)
        /\ pc[t] = "unlock" /\ ret[t] = 0 /\ clean[t] => n = req[t].len

\* No chunk is under way that may have reached the chip and does not count as
\* sent: a failed one leaves its registers with what it brought.
BetweenChunks(t) == pc[t] \in {"select", "transfer"} \/ (pc[t] = "unlock" /\ ret[t] = 0)

\* A device_write stores its bytes in the page it names; a register that
\* several chunks went to has the last one.  A short write(), which counts as
\* a whole one, is excepted.
WritesRegisters ==
    \A t \in Threads : InSession(t) /\ Kind(t) = "write" =>
        LET n == sendLen[Chip(t)] IN
        /\ clean[t] /\ ~misused /\ (Stream(Chip(t)) \/ BetweenChunks(t)) => \A k \in Cells :
               k < n /\ (Stream(Chip(t)) \/ k + ChunkSize(t) >= n) => Holds(t, k) = req[t].data[k]
        /\ pc[t] = "unlock" /\ ret[t] = 0 => n = req[t].len

\* Outside set_para the driver is in the mode that para says, flag by flag:
\* the settings do not undo each other although they share a byte.
\* A failed ioctl, which set_para does not report, is excepted.
ModeIsPara ==
    \A c \in Chips :
        ~modeLost[c] /\ ~(\E t \in Threads : pc[t] = "set" /\ Chip(t) = c) =>
            \A f \in Flags : Legal(para[c][f]) => mode[c][f] = para[c][f]
============================================================================
