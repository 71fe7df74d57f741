----------------------------- MODULE MCEosCalls -----------------------------
(* Small instances of EosCalls for TLC. *)
EXTENDS EosCalls

CONSTANTS t1, t2, none, v0, v1, v2, zero, blank, garbage, unread

MCInitI2c == [b \in Buses |-> [c \in I2cCells |-> IF c % 2 = 0 THEN v0 ELSE v1]]

I2c(o, al, a, n) ==
    [op |-> o, bus |-> 0, alen |-> al, addr |-> a, len |-> n,
     data |-> [k \in I2cPlaces |-> IF k % 2 = 0 THEN v1 ELSE v2]]
Dma(o)  == [op |-> o, list |-> <<>>, dir |-> 0, ch |-> 0]
List(o, list, d, c) == [op |-> o, list |-> list, dir |-> d, ch |-> c]
Pcie(o) == [op |-> o, num |-> 0]

\* Registers with addresses of one byte and of two, messages of 2^16 bytes, an
\* address that is too long.
I2cProgram ==
    { I2c("i2c_write", 1, 1, 2), I2c("i2c_write", 1, 0, LenMod), I2c("i2c_write", 2, ByteMod + 1, 1),
      I2c("i2c_read", 1, 1, 2), I2c("i2c_read", 1, 0, LenMod + 1), I2c("i2c_read", 5, 0, 1),
      I2c("i2c_receive", 0, 0, 2), SendByte(0, 2), WriteByteData(0, 1, 2, v2) }

\* The buffer of the engine loses descriptors, which I2C wants.
LossProgram ==
    { Dma("dma_open"), Dma("dma_addr"), I2c("i2c_write", 1, 1, 2), I2c("i2c_read", 5, 0, 1),
      I2c("i2c_receive", 0, 0, 2) }

\* Lists that fit, that are too long, too many, or wrap around.
DmaProgram ==
    { Dma("dma_open"), Dma("dma_close"), List("dma_init", <<1, 1>>, 0, 0),
      List("dma_init", <<2, 1>>, 0, 0), List("dma_init", <<0, 0, 0>>, 0, 1),
      List("dma_init", <<WordMod, 1>>, 0, 1), List("dma_start", <<>>, 0, 0),
      List("dma_start", <<>>, 0, 2), Dma("dma_status"), Dma("dma_print"),
      Dma("proxy_open"), Dma("proxy_close"), Dma("proxy_addr"),
      List("proxy_sg", <<1, 2>>, 1, 0), List("proxy_sg", <<1, 3>>, 1, 0),
      List("proxy_sg", <<1>>, 2, 0), List("proxy_memcpy", <<3>>, 0, 0),
      List("proxy_memcpy", <<WordMod + 1>>, 0, 0) }

P204xProgram ==
    { ResetController(0), ResetController(1), ResetController(2), Pcie("scan"), Pcie("remove"),
      I2c("i2c_read", 1, 1, 2) }

Mpc8308Program == { Pcie("bring_up"), Pcie("gid") }

\* Two CPUs, counters that wrap or do not, and a second one that may be unplugged.
Sys(o) == [op |-> o]
MCCounters == { [idle |-> 7, busy |-> 2] }
MCElapsed  == { [idle |-> 1, busy |-> 1], [idle |-> 0, busy |-> 2] }
MCMemory   == { [used |-> 3, free |-> 1], [used |-> 4, free |-> 0] }
MCSpaces   == { [used |-> 0, free |-> 0], [used |-> 1, free |-> 3], [used |-> 4, free |-> 0] }
SysProgram ==
    { Sys("cpu_info"), Sys("mem_popen"), Sys("mem_sysinfo"), Sys("disk_info") }

MCPrograms == { I2cProgram, LossProgram, DmaProgram, P204xProgram, Mpc8308Program, SysProgram }
=============================================================================
