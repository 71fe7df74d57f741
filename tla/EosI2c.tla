------------------------------- MODULE EosI2c -------------------------------
(***************************************************************************)
(* eos_cpu_i2c.cpp: eos_i2c_write_byte and eos_i2c_read_byte address a     *)
(* register of a device, eos_i2c_receive_byte goes on where the device     *)
(* stands.  Each is one I2C_RDWR ioctl under eos_i2c_device_lock, which    *)
(* all buses share; a write opens the bus after it has the lock, a read    *)
(* before.  The device (slave) is external: one register file on each bus, *)
(* whose pointer advances with every byte.                                 *)
(***************************************************************************)
EXTENDS EosProcess, FiniteSetsExt

CONSTANTS
    NoThread,
    Buses,
    I2cSize,     \* registers of a device
    ByteMod,     \* 2^8
    LenMod,      \* 2^16: the length of a message has this width
    MaxLen,      \* longest request
    Values, Zero, Blank, Garbage,
    InitI2c      \* contents of the devices

I2cCells  == 0 .. I2cSize - 1
I2cPlaces == 0 .. MaxLen - 1
MaxAddrLen == 4

\* alen: reg_addr_len, the bytes of the register address addr.
I2cRequest == [op : {"i2c_write", "i2c_read", "i2c_receive"}, bus : Buses, alen : Nat,
               addr : Nat, len : 0 .. MaxLen, data : [I2cPlaces -> Values \cup {Zero}]]

ASSUME I2cAssumption ==
    /\ NoThread \notin Threads
    /\ {I2cSize, ByteMod, LenMod} \subseteq Nat \ {0} /\ MaxLen \in Nat
    /\ InitI2c \in [Buses -> [I2cCells -> Values]]
    /\ \A k \in 0 .. MaxAddrLen : ByteMod^k \in Nat \ {0}

VARIABLES
    i2cLock,  \* eos_i2c_device_lock
    slave,    \* slave[b]: the device on bus b
    out,      \* out[t]: the caller's buffer of a read
    partial   \* (history) the threads whose transfer the driver has left out in part

i2c == <<i2cLock, slave, out, partial>>

NoBlock == [k \in I2cPlaces |-> Blank]

I2cInit ==
    /\ i2cLock = NoThread
    /\ slave = [b \in Buses |-> [regs |-> InitI2c[b], pos |-> 0]]
    /\ out = [t \in Threads |-> NoBlock]
    /\ partial = {}

I2cOps == {"i2c_write", "i2c_read", "i2c_receive"}

\* eos_i2c_write_byte_data and eos_i2c_send_byte are writes.
WriteByteData(b, al, a, d) ==
    [op |-> "i2c_write", bus |-> b, alen |-> al, addr |-> a, len |-> 1,
     data |-> [k \in I2cPlaces |-> d]]
SendByte(b, command) ==
    [op |-> "i2c_write", bus |-> b, alen |-> 1, addr |-> command, len |-> 0,
     data |-> [k \in I2cPlaces |-> Zero]]

\* The order of the steps; a failing open skips to the last ones.
IsWrite(t) == Op(t) = "i2c_write"
AfterOpen(t)   == IF IsWrite(t) THEN "i2c_prepare" ELSE "i2c_lock"
AfterLock(t)   == IF IsWrite(t) THEN "i2c_open" ELSE "i2c_prepare"
AfterFree(t)   == IF IsWrite(t) THEN "i2c_close" ELSE "i2c_unlock"
AfterClose(t)  == IF IsWrite(t) THEN "i2c_unlock" ELSE "return"
AfterUnlock(t) == IF IsWrite(t) THEN "return" ELSE "i2c_close"

I2cCall(t) ==
    /\ \E r \in calls :
         /\ r.op \in I2cOps
         /\ Begin(t, r, IF r.op = "i2c_write" THEN "i2c_lock" ELSE "i2c_open")
    /\ UNCHANGED i2c

I2cOpen(t) ==
    /\ pc[t] = "i2c_open"
    /\ Open(t, "fd", AfterOpen(t), IF IsWrite(t) THEN "i2c_unlock" ELSE "return")
    /\ UNCHANGED i2c

\* Variant: the mutex does not exclude.
I2cUnlocked == TRUE
I2cFree == i2cLock = NoThread

I2cLock(t) ==
    /\ pc[t] = "i2c_lock" /\ I2cFree
    /\ i2cLock' = t
    /\ Move(t, AfterLock(t))
    /\ UNCHANGED <<slave, out, partial>>

\* The check of the address length and the buffers.  The malloc of a write is
\* not tested: without memory the program crashes.
Buffers(t) == IF Op(t) = "i2c_read" THEN {"first", "second"} ELSE {"first"}
I2cPrepare(t) ==
    /\ pc[t] = "i2c_prepare"
    /\ \/ /\ Op(t) # "i2c_receive" /\ req[t].alen > MaxAddrLen
          /\ MoveWith(t, AfterFree(t), -1)
       \/ /\ Op(t) = "i2c_receive" \/ req[t].alen <= MaxAddrLen
          /\ \/ Take(t, Buffers(t), "i2c_transfer")
             \/ IsWrite(t) /\ Move(t, "fault")
             \/ ~IsWrite(t) /\ MoveWith(t, AfterFree(t), -1)
    /\ UNCHANGED i2c

\* mesg.buf[i - 1] = reg_addr & shift: the k-th byte from the low end is masked
\* out of the address, but not shifted down before it is cut to a byte.
AddressByte(a, k) == (((a \div ByteMod^k) % ByteMod) * ByteMod^k) % ByteMod
SentAddress(r) == MapThenSumSet(LAMBDA k : AddressByte(r.addr, k) * ByteMod^k, 0 .. r.alen - 1)

\* The bytes of data in the message, whose length is cut to its width.
ForgetsAddress(r) == (r.len % LenMod) - r.alen  \* variant: mesg.len = len
SentLen(r) == IF r.op = "i2c_write" THEN ((r.alen + r.len) % LenMod) - r.alen
                                    ELSE r.len % LenMod

\* Where the device starts; a message without the whole address leaves it anywhere.
Start(r) == CASE r.op = "i2c_receive" -> {slave[r.bus].pos}
              [] SentLen(r) < 0       -> I2cCells
              [] OTHER                -> {SentAddress(r) % I2cSize}

\* The device after n bytes of data from position p on.
Reached(r, p, n) ==
    LET at(c) == {k \in 0 .. n - 1 : (p + k) % I2cSize = c}
    IN [regs |-> [c \in I2cCells |-> IF r.op = "i2c_write" /\ at(c) # {} THEN r.data[Max(at(c))]
                                    ELSE slave[r.bus].regs[c]],
        pos  |-> (p + n) % I2cSize]

\* The caller's buffer after n bytes.  Those beyond are what the buffer of the
\* message held: zeroes in eos_i2c_read_byte.
Delivered(r, p, n) ==
    [k \in I2cPlaces |-> IF k >= r.len THEN Blank
                         ELSE IF k < n THEN slave[r.bus].regs[(p + k) % I2cSize]
                         ELSE IF r.op = "i2c_read" THEN Zero ELSE Garbage]

\* The ioctl succeeds, which the code takes any result but a negative one for,
\* although fewer messages than asked may have been made: none, or only that of
\* the address of a read.  Or it fails, after all, some or none of the bytes.
I2cTransfer(t) ==
    /\ pc[t] = "i2c_transfer"
    /\ LET r == req[t] IN
       \/ \E p \in Start(r) :
            /\ slave' = [slave EXCEPT ![r.bus] = Reached(r, p, SentLen(r))]
            /\ out' = IF IsWrite(t) THEN out ELSE [out EXCEPT ![t] = Delivered(r, p, SentLen(r))]
            /\ partial' = partial
            /\ Move(t, "i2c_free")
       \/ \E p \in Start(r) :
            /\ \/ slave' = slave
               \/ Op(t) = "i2c_read" /\ slave' = [slave EXCEPT ![r.bus] = Reached(r, p, 0)]
            /\ out' = IF IsWrite(t) THEN out ELSE [out EXCEPT ![t] = Delivered(r, p, 0)]
            /\ partial' = partial \cup {t}
            /\ Move(t, "i2c_free")
       \/ /\ \/ slave' = slave
             \/ \E p \in Start(r), n \in 0 .. SentLen(r) :
                  slave' = [slave EXCEPT ![r.bus] = Reached(r, p, n)]
          /\ out' = out /\ partial' = partial
          /\ MoveWith(t, "i2c_free", -1)
    /\ UNCHANGED i2cLock

\* Variant: a read whose transfer failed does not free its second buffer.
I2cFreeFirst(t) ==
    /\ pc[t] = "i2c_free"
    /\ Give(t, IF ret[t] < 0 THEN {"first"} ELSE {"first", "second"}, AfterFree(t))
    /\ UNCHANGED i2c

I2cFreeBuffers(t) ==
    /\ pc[t] = "i2c_free"
    /\ Give(t, {"first", "second"}, AfterFree(t))
    /\ UNCHANGED i2c

I2cUnlock(t) ==
    /\ pc[t] = "i2c_unlock"
    /\ i2cLock' = NoThread
    /\ Move(t, AfterUnlock(t))
    /\ UNCHANGED <<slave, out, partial>>

\* Variant: a call that failed does not close the bus.
I2cCloseOnSuccess(t) ==
    /\ pc[t] = "i2c_close"
    /\ IF ret[t] = 0 THEN Close(t, "fd", AfterClose(t)) ELSE Move(t, AfterClose(t))
    /\ UNCHANGED i2c

I2cClose(t) ==
    /\ pc[t] = "i2c_close"
    /\ Close(t, "fd", AfterClose(t))
    /\ UNCHANGED i2c

\* The caller takes the data.
I2cReturn(t) ==
    /\ Op(t) \in I2cOps /\ Return(t)
    /\ out' = [out EXCEPT ![t] = NoBlock]
    /\ partial' = partial \ {t}
    /\ UNCHANGED <<i2cLock, slave>>

I2cNext(t) ==
    \/ I2cCall(t) \/ I2cOpen(t) \/ I2cLock(t) \/ I2cPrepare(t) \/ I2cTransfer(t)
    \/ I2cFreeBuffers(t) \/ I2cUnlock(t) \/ I2cClose(t) \/ I2cReturn(t)
----------------------------------------------------------------------------
(* Properties. *)

InI2c(t) ==
    \/ Op(t) \in I2cOps /\ pc[t] \in {"i2c_prepare", "i2c_transfer", "i2c_free", "i2c_unlock", "fault"}
    \/ IsWrite(t) /\ pc[t] \in {"i2c_open", "i2c_close"}

\* Transfers are made under the lock, one at a time on all buses, whatever
\* fails before and after; and whoever has the lock is about to release it.
I2cExclusive == \A t \in Threads : InI2c(t) <=> i2cLock = t

\* The transfer of t has succeeded and t still has the lock.
Transferred(t) == Op(t) \in I2cOps /\ pc[t] \in {"i2c_free", "i2c_unlock"} /\ ret[t] = 0

\* While a call that has succeeded still has the lock, the device holds what it
\* wrote, or the caller has what the device holds, at the address that was sent
\* and in full; only a message of 2^16 bytes or more is cut, and one that the
\* driver has left out is missing.
I2cTransfers ==
    \A t \in Threads \ partial : Transferred(t) =>
        LET r == req[t]
            s == slave[r.bus]
            p == IF r.op = "i2c_receive" THEN s.pos - r.len ELSE SentAddress(r)
            n == IF r.op = "i2c_write" THEN r.alen + r.len ELSE r.len
        IN n < LenMod => \A k \in 0 .. r.len - 1 :
             (k + I2cSize >= r.len) =>
                 s.regs[(p + k) % I2cSize] = IF r.op = "i2c_write" THEN r.data[k] ELSE out[t][k]

\* eos_lib.h: reg_addr_len of 1, 2, 3 or 4 stands for register addresses of 8,
\* 16, 24 or 32 bits.  The device is given the address that was asked for.
I2cAddress ==
    \A t \in Threads : Transferred(t) /\ Op(t) # "i2c_receive" =>
        SentAddress(req[t]) = req[t].addr % ByteMod^(req[t].alen)

I2cTypeOK ==
    /\ i2cLock \in Threads \cup {NoThread}
    /\ slave \in [Buses -> [regs : [I2cCells -> Values \cup {Zero}], pos : I2cCells]]
    /\ out \in [Threads -> [I2cPlaces -> Values \cup {Zero, Blank, Garbage}]]
    /\ partial \subseteq Threads
=============================================================================
