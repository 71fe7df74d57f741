# A TLA+ model of libeos

libeos is a C++ library for board software on Freescale/NXP CPUs. It maps device
registers into the process, drives GPIO pins, a watchdog, I2C and SPI devices, a
DMA engine and a PCIe bridge, and reads system statistics. It has no threads of
its own. It is called by several threads of an application, and what makes it
hard is shared state: global mappings, one SPI bus, one mutex per bus or
mapping, and devices that take their time.

This directory holds TLA+ modules that model the library, configurations that
check them with TLC, and proofs that TLAPS checks.

* [Inventory](#inventory) - the parts of the system
* [Plan](#plan) - modules, order, runs and theorems
* [The SPI memory chips: EosSpi](#the-spi-memory-chips-eosspi)
* [The register mappings: EosMmap](#the-register-mappings-eosmmap)
* [The register chips: EosSpiRegs](#the-register-chips-eosspiregs)
* [GPIO and the watchdog: EosGpio](#gpio-and-the-watchdog-eosgpio)
* [The device functions: EosCalls](#the-device-functions-eoscalls)
* [Runs](#runs), [Fairness](#fairness), [Findings](#findings), [Proofs](#proofs)
* [What is not modelled](#what-is-not-modelled)

To repeat a run: `tlc -config spi_flash.cfg MCEosSpi` (`MCEosSpiRegs` for
`regs`, `MCEosMmap` for `mmap`, `MCEosGpio` for the `gpio` runs, `MCEosCalls` for
`calls`, `i2c_address` and `proxy_result`). To repeat the proofs: `tlapm` on each
module whose name ends in `Proofs`, and on `ChunkLemmas`.

## Inventory

Paths are below `src/eos_lib/`.

| Component | State | Operations | Shared with | Hard behaviour | What makes it correct |
|---|---|---|---|---|---|
| SPI base class (`eos_spi/spi_85xx.cpp`, `inc/eos_spi.h`) | global mutex `spi_lock`; per object `_fd`, `_recvBuf`, `_sendBuf`, `_recvLen`, `_sendLen`, callbacks `enable`, `disable` | `open_device`, `close_device`, `set_para`, `spi_transfer` | every chip class, all threads | one bus and one mutex for all chips; a transfer may fail or be short | a session owns the bus; members are used only under the lock |
| EPCS64, MX25U1635 flash (`epcs64.cpp`, `MX25U1635.cpp`) | as above | `device_read`, `device_write`, `device_erase`, `write_status`, `read_id`, `read_status`, `cs_init` | bus, callers | chunking; write-enable, program, poll; bounded polls; `read_status` without the lock | reads deliver the cells asked for, writes store all bytes or fail, no session leaves the chip busy unannounced |
| FM25V02, MR25H10, ZL30169 (`fm25v02.cpp`, `eos_spi_mr25h10.cpp`, `zl30169.cpp`) | as above | `device_read`, `device_write`, `read_id` (FM25V02), `cs_init` | bus, callers | the same without pages; the length is returned after the unlock | as above, and the returned length is the call's own |
| Clock chips and K10 (`acs9520t.cpp`, `zl30155.cpp`, `zl30143.cpp`, `k10.cpp`) | buffers; page register of the ZL chips | `device_read`, `device_write`, `cs_init` | bus | page select before access; chunk loop, whose start address never advances | an access is to the page it names; every byte comes from, or goes to, the register that its transfer names |
| BCM5389 switch (`BCM5389.cpp`) | buffers, page of the chip | `device_read`, `device_write`, status polls, `cs_init` | bus | poll SPIF, poll RACK, read bytes | data is taken only after the acknowledge |
| Register mapping (`eos_lib/eos_mmap.cpp`, `eos_lib.cpp`) | globals `cpu_mmap`, `core_cpld_mmap`; per unit: descriptor, address, length, width, mutex | `eos_lib_init`, `eos_*_mmap_init/exit`, `eos_*_read/write`, `eos_mmap_init/exit/read/write/write_data` | GPIO, watchdog, PCIe, callers | lazy initialisation without a lock; exit while in use; failing steps | a unit in use exists; what is opened is released; an access is atomic |
| GPIO (`eos_cpu_gpio.cpp`) | direction and data registers through a unit | `eos_set_gpio_direction`, `eos_set_gpio_status` and their `get` twins, one set per CPU | mapping | read-modify-write in two separately locked accesses | a pin keeps what was last set |
| Watchdog (`eos_watchdog.cpp`) | `setSignal`, `eos_feed_dog_count`, a CPLD and a CPU register | `eos_set_dog_mode`, `eos_soft_feed_dog`, `eos_hard_feed_dog` | GPIO, mapping | feed parity shared by threads | every feed toggles the line |
| I2C (`eos_cpu_i2c.cpp`) | global mutex, descriptor | `eos_i2c_write_byte`, `eos_i2c_read_byte`, send and receive | callers | lock, open, ioctl, transfer; every error path | the lock and the descriptor are released; the register address reaches the device |
| DMA engine (`eos_cpu_dma.cpp`) | descriptor, transfer list, channel | open, argument setup, start, status, close | driver | limits on entries and lengths | no transfer leaves the buffer |
| DMA proxy (`eos_cpu_dma_proxy.cpp`) | structure shared with the driver | open, address, scatter and plain transfer, close | driver | the result of the driver | the caller learns the result |
| PCIe (`eos_mpc8308_pci_reconfig.cpp`, `eos_p204x_pci_hot_reset.cpp`, `eos_scan_pcie.cpp`) | a mapping, a descriptor, the link | reconfigure, hot reset, scan | mapping, kernel | a sequence with time limits | every exit releases what was taken |
| System resources (`eos_get_sys_resoure.cpp`) | samples of `/proc` counters | CPU, memory and disk statistics | kernel | counters that wrap | a difference over a wrap is right |
| Group id (`eos_get_gid.cpp`) | none | one read through a mapping of its own | `eos_mmap.cpp` | an exit that fails | the mapping is given back |
| Temperature (`eos_temp.cpp`) | none | stubs | - | none | - |

The SPI chips come first: they are half of the code, have the only long-lived
protocol with a device that works on its own, and share most. `PROJECT.json`
lists, under "hazards", each place where the code is hard to test, with the
property that watches it or the reason why none does.

## Plan

| # | Module | Models | Runs and properties | Theorems |
|---|---|---|---|---|
| 1 | `EosSpi`, `MCEosSpi`, `EosSpiProofs`, `EosSpiStoreProofs` (done) | memory chips on the shared bus | see below | `TypeCorrect`, `BusOwnership`, `QuietChips`, `ReadsDeliver`, `WritesKept`, `OwnCellsOnly`, `LengthKept` |
| 2 | `Registers`, `EosMmap`, `MCEosMmap`, `EosMmapProofs` (done) | atomic blocks of registers; the mapping units that implement them | see below | `Typed`, `FaultFree`, `WholeUnits`, `NothingLost`, `AccessesAtomic`, `InitialisedAtomic` |
| 3 | `EosGpio`, `MCEosGpio`, `EosGpioProofs` (done) on the atomic accesses of `Registers` | read-modify-write of the registers of four CPU families, soft feeding of the watchdog | see below | `Typed`, `TakesEffect`, `Untouched`, `Toggles` |
| 4 | `EosSpiRegs`, `MCEosSpiRegs`, `EosSpiRegsProofs`, `EosSpiRegsDataProofs` (done) | register chips on the shared bus, `cs_init`, `set_para` | see below | `Typed`, `BusOwnedAlways`, `ModeFollowsPara`, `RegistersRead`, `RegistersWritten` |
| 5 | `EosProcess`, `EosI2c`, `EosDma`, `EosPcie`, `EosSysRes`, composed by `EosCalls`, `MCEosCalls`, `EosCallsProofs` (done) | device functions that share threads and descriptors | see below | `CallsPlaced`, `CallsTyped`, `OneTransferAtATime`, `TransfersArrive`, `GivenBack`, `DescriptorsCounted`, `StarvedOnlyByLoss`, `ListsChecked`, `HotResetsEnd`, `BringUpsConfigure`, `LoadsReported`, `UsagesReported` |
| 6 | `SpiStore` (done) | abstract store: one call at a time reads, or stores, the bytes it names | `EosSpi` implements it (`StoreImplements`) | `StoreRefined` in `EosSpiStoreProofs` |

`ChunkLemmas` has the arithmetic of the loops over a buffer, which the proofs of both
SPI modules share. Modules that are proved about use functions and arithmetic, no
RECURSIVE operator.

## The SPI memory chips: EosSpi

### State

| Variable | Code |
|---|---|
| `lock` | `spi_lock` |
| `pc`, `phase` | where a thread is: before, in or after a transfer, and which transfer (`read`, `id`, `poll`, `wren`, `program`) |
| `req`, `out`, `ret` | arguments, caller's buffer `pucDataBuf` and returned value |
| `chunk`, `delay`, `got` | the locals `i`, `delay_count`, and the result of `spi_transfer` |
| `recv`, `recvLen`, `sendLen` | members of a chip object, shared by its callers |
| `sel` | the chip select that `enable()` and `disable()` drive |
| `mem`, `wel`, `busy` | the chip itself (external) |
| `unsettled` | history: the last program or erase of the chip did not end with a poll that found it ready |

### Actions

Every transfer of every class has the same shape, and a session is a chain of
transfers under `spi_lock`. So one set of actions serves five classes, and a few
operators (`Polls`, `PollsErase`, `UsesWren`, `MasksStatusError`, `CopiesLength`,
`ChecksId`, `Offers`) say what the classes differ in.

| Action | Code |
|---|---|
| `Call` | a thread calls one of the operations of a chip |
| `Lock` | `pthread_mutex_lock`, and the reset of `_recvLen` or `_sendLen` |
| `Select` | the command is put into the buffer, `enable()` |
| `Receive`, `Send` | `spi_transfer`: `read`/`write` fails, or moves the bytes |
| `Deselect` | `disable()` |
| `Fail` | the error path: -1 |
| `ReadNext`, `IdNext`, `WrenNext`, `ProgramNext`, `PollNext` | what follows each transfer: copy and count, go on with the next chunk, poll, give up |
| `Unlock`, `Return` | the unlock, and the `return` after it |
| `StatusNext` | the end of a public `read_status`, which takes no lock |
| `Consume` | the caller takes the result (external) |
| `DeviceDone` | a chip ends its write cycle (external) |

A thread yields at every access to something shared: the mutex, the buffers, the
select, the chip. What the code does between two of these is one action.

### The chips

The chips are outside the repository and are modelled from how the code uses
them: a busy chip answers the status command only; a program or an erase is
obeyed only after a write-enable (except by ZL30169) and clears it; a program
wraps inside its page on flash; on chips whose class polls, it leaves the chip
busy until `DeviceDone`. Two selected chips, a busy one, or a buffer that holds
no command answer `Garbage`. A program stores its bytes: that a flash cell must
be erased before is a duty of the caller that the code does not check.

### Abstractions

* The commands of a class are the five phases; opcodes and the header bytes are
  not kept. `read_id` returns one byte, and `write_status` changes no cell.
* With `ShortTransfers` a `read` or a `write` may move fewer bytes than asked for, which
  the code does not take for an error: `spi_transfer` fails only on a negative
  result. What they left out is left out of the buffer or the chip.
* `cs_init` is called before the threads start. `CsChips` are the objects it
  gave both callbacks; a chip without them is selected by the kernel driver for
  one transfer.
* `Unlock` forgets what no later session reads: `_recvBuf` becomes `Garbage`,
  `_sendLen` and a `_recvLen` that was copied become `StaleLen`. A session that
  did read them would break a property.
* `open_device` and `close_device` run before and after the sessions and are left
  out. `cs_init` and `set_para` are actions of `EosSpiRegs`.

### The store that the chips implement: SpiStore

`SpiStore` says what a caller may rely on, without transfers, buffers, polls and
chip selects: one call is served at a time (`Begin`, `End`), parts of what it asks
for reach the store while it is served (`Store`), and the caller finds what was
delivered (`outcome`, `data`, until `Leave`). If a call succeeds all of it was stored,
or was delivered as it is stored when the call ends; if it fails any part may have
been. Nothing else changes a store. A chip that was left to itself in a write is
`loose`, and promises nothing until a call that writes to it succeeds.

`EosSpi` maps `holder` to `lock`, `call` to the request of the holder, `loose` to
`unsettled`, and `outcome` and `data` to `ret` and `out` between the unlock and the
return. So `Lock` is a `Begin`, a `Send` that reached its chip a `Store`, `Unlock`
an `End`, `Return` a `Leave`, and every other step leaves the store as it is.

## The register mappings: EosMmap

A region of registers has a global pointer (`cpu_mmap`, `core_cpld_mmap`) to a
unit: an allocated struct with a descriptor, a mapping and a mutex. The code for
the regions is the same but for the pointer, so `Regions` is a constant.

| Variable | Code |
|---|---|
| `ptr` | the global pointers |
| `owns`, `region`, `holder` | the heap: what each unit still owns (struct, descriptor, mapping), what it maps, who holds `lock_mmap` |
| `regs` | the registers of each region |
| `unit`, `i`, `out`, `ret`, `todo` | argument and locals of a call; `todo` is the rest of `eos_lib_init` |

`Test`, `Map`, `Load`, `Enter`, `Lock`, `Copy` (one word) and `Unlock` are the
steps of `eos_cpu_reg_read` and its like; `Map` alone is `eos_lib_init` and the
init functions, with a choice of the system call that fails and what is then
left (`Left`); `Unmap` and `Free` are `eos_mmap_exit`. A thread that follows a
null or stale pointer, or copies outside a mapping, goes to `fault`, where
nothing more is said of it.

`Registers` is the abstract specification: a call reads or writes its block in
one step, or is refused and touches nothing. `EosMmap` implements it under a
refinement mapping in which a write takes effect, and a read is fixed, when the
thread gets the mutex: `AtomicRegs` shows the words still to be written as
written, `AtomicOut` the words still to be read as read.

Callers initialise only what is not mapped, and neither initialise nor exit while
another call runs (`Call`): the code has no reference count, so an exit under a
running access would free what it uses. Not kept: the width of an access (8, 16
or 32 bits), the scaling of an offset by it, and the 256 MB limit that no caller
reaches.

## The register chips: EosSpiRegs

The clock chips, the power manager K10 and the switch BCM5389 have registers
instead of cells, and their sessions are chains of other phases: `spif` (poll the
switch until it is free), `page`, `addr` (send the switch the address to fetch),
`rack` (poll until it acknowledges) and `data`, one chunk. The steps of a transfer
are those of `EosSpi`.

| Variable | Code |
|---|---|
| `lock`, `pc`, `phase`, `req`, `chunk`, `delay`, `got`, `out`, `ret`, `recv`, `recvLen`, `sendLen`, `sel` | as in `EosSpi`; `recv` has the bytes of a `data` read only |
| `status` | the bit of the status byte that a poll tests |
| `cs` | the members `enable` and `disable` of each object |
| `para`, `mode` | the member `para`; what the driver was told by the mode ioctls |
| `part`, `calls` | which part is behind each object, and the calls of the program: a choice of the instance |
| `dev` | the chip (external): registers, selected page, position of a stream, SPIF, the fetch under way, RACK |
| `misused`, `modeLost`, `clean`, `start` | history: see the properties |

`CsInit` is `cs_init`, which takes no lock and stores both callbacks before it
looks at them. `SetFlag` is one flag of `set_para`: an ioctl reads the mode, a
second one writes it back with the flag changed, and neither result is looked at.
`PageNext`, `AddrNext`, `PollNext` and `DataNext` follow the transfers; `Fail` is
the error path of all transfers but the polls, which do not look at the result: a
failed status read is 0xff (`StatusBit`). Every chunk of a read or write carries
`ucStartAddr` (`Register`, `Written`), because `addr` is advanced and not used:
`Holds` says so of the properties too.

The word length and the speed of `set_para` have an ioctl of their own and are
left out. `open_device` and `close_device` take no lock and change only `_fd`.

## GPIO and the watchdog: EosGpio

`EosGpio` reads and writes a register in one step, which is what `Registers`
promises and `EosMmap` is shown to keep. What is left to go wrong is between the
accesses: each set is a read and a write of the whole register.

| Variable | Code |
|---|---|
| `family` | the CPU, a compile-time choice: `p204x` (P204X, P2020, P1020, MINIMPC8308), `mpc8308`, `ls1021` (LS1021, T104X), `mpc8548` |
| `regs` | the registers, each the set of its bits that are 1 |
| `odd`, `signal` | `eos_feed_dog_count` modulo 2, `setSignal` |
| `req`, `run` | the call, and the set or get that executes: a feed makes two sets |
| `step`, `seen` | how many registers are done; `cpu_reg_value`, `cpu_reg_value1` |
| `val`, `ret` | `*direction` or `*status`, the returned value |
| `fed` | history: the level of the pin after the last successful feed |

`Check` is the test of the arguments (`BadArguments`), `ReadReg` and `WriteReg`
one access each, in the order of `Touches`: `set_direction` of LS1021 and T104X
reads two registers and then writes two. `Updated` is the change of the value
read, `Get` the result of a get. `Feed`, `Count`, `LevelByParity` and `Fed` are
the steps of `eos_soft_feed_dog` around its calls. What the code leaves undefined
is a choice: LS1021 and T104X return nothing from `set_direction` (`SetResults`),
so the first feed of a board may fail although it set the pin.

A pin is a model value, and one bank of pins stands for the four of LS1021 and
T104X. The mapping exists: a failing access other than one beyond the mapping
(`Reached`) is the subject of `EosMmap`. The input register of MPC8548 does not
follow the outside world during a run.

## The device functions: EosCalls

I2C, DMA, PCI Express, the group id and the system resources are calls that open
something, have a driver work and give everything back. `EosProcess` has what
they share: program counters, the descriptors of the process (`fds`, `MaxFds`)
and what a call holds (`held`). `Open` fails at will, and always when no
descriptor is left; `Return` notes in `lost` what a call still held. `EosI2c`,
`EosDma`, `EosPcie` and `EosSysRes` extend it with their own variables, and
`EosCalls` composes them: a step is of one component and leaves the variables of
the others alone. A program (`Programs`) is the set of calls the threads make.

* `EosI2c`: a write takes `eos_i2c_device_lock` and then opens the bus, a read opens
  first; `AfterOpen`, `AfterLock`, `AfterFree`, `AfterClose` and `AfterUnlock` are the
  two orders. `AddressByte` is `reg_addr & shift` cut to a byte, `SentLen` a length
  cut to 16 bits. The untested `malloc` of a write may go to `fault`. An ioctl with a
  result that is not negative counts as success, also when the driver has made only
  the first of the messages or none (`partial`). The device on a bus is a register
  file with a pointer (external).
* `EosDma`: `DmaCheck` tests the list (`Refused`), with the lengths added in 32 bits;
  `DmaAsk` is the ioctl, which a driver may refuse. A caller uses a handle only
  while it is open and closes it when nobody uses it (`DmaCall`). The transfers of
  the proxy start with the result -1, ignore the ioctl and read the status in the
  shared area (`proxy`). A list does not change during the call it was given to: the
  code reads it once for the sum and once for the copy, which only a caller that
  changes it meanwhile could tell.
* `EosPcie`: the hot reset is one read and two writes of a register that other
  resets use too; its accesses are atomic, as `Implements` shows, and succeed.
  The bring-up of MPC8308 is the sequence of resources, the counted poll of the
  SerDes, the reset of the controller and its configuration (`UpWindows` and
  `UpMaster` stand for one register write after the other); one thread does it at
  a time, because the code takes no lock. Its `munmap` may fail unnoticed (`UpUnmap`).
  `eos_get_gid` goes through `eos_mmap_init`, whose mutex may fail (`GidMutex`), and
  `eos_mmap_exit`, whose `munmap` may.
* `EosSysRes`: what the kernel tells a call (`told`) and what the call makes of it
  (`report`, in tenths of a percent): the counters of each CPU, which wrap at
  `CounterMod`, and the CPUs online; the answers of two commands or of `sysinfo`;
  three disks, asked in turn. `popen` has both ends of its pipe until the command
  runs (`SysPipe`, `SysSpawn`). What the commands print is multiplied by 1000 in an
  unsigned long (`LongMod`); floats are exact here. A counter goes back only by a wrap
  (`Later`): where a kernel corrects an idle time downwards, the code can report a load
  outside 0 to 100%.

## Runs

| Run | Instance | Shows |
|---|---|---|
| `spi_flash` | EPCS64 and MX25U1635, 2 threads, 4 cells | `TypeOK`, `BusOwned`, `ReadsMemory`, `WritesStored`, `QuietBetweenCalls`, `ReturnsLength`, `HolderChangesMemory`, `StoreImplements` |
| `spi_ram` | FM25V02, MR25H10 without callbacks, ZL30169, 2 threads, 3 cells | the same except `TypeOK`, and `ReturnsLength`, which these classes break |
| `spi_live` | EPCS64, 2 threads, short reads and writes, unlocked status reads | `CallEnds` under `FairSpec` |
| `spi_length` | MR25H10, 2 readers of one object | `ReturnsLength` is violated |
| `spi_status` | EPCS64, a reader and a `read_status` | `ReadsMemory` is violated |
| `regs` | 2 threads on ZL30155 and BCM5389, ZL30155 and ZL30143, ZL30143 and K10, ACS9520T and BCM5389, in seven programs, with short reads and writes | `TypeOK`, `BusOwned`, `ReadsRegisters`, `WritesRegisters`, `ModeIsPara` |
| `mmap` | 2 regions: 3 threads with overlapping blocks and refused calls; each 2 of them with init, access and exit in any order, failing system calls | `TypeOK`, `PublishedWhole`, `NoLeak`, `NoFault`, `Implements` |
| `gpio` | 4 families, 2 pins, every register contents; one thread sets and feeds, one reads | `TypeOK`, `SetTakesEffect`, `OthersKept`, `FeedToggles` |
| `gpio_lost` | P204X, 2 threads, each sets a pin of its own | `OthersKept` is violated |
| `calls` | 2 threads, 4 descriptors, 6 programs: I2C; I2C and the buffer of the engine; DMA; P204X; MPC8308; system resources | `TypeOK`, `I2cExclusive`, `I2cTransfers`, `LosesNothing`, `StarvedByLoss`, `DmaFits`, `HotResetEnds`, `BringUpConfigures`, `CpuLoad`, `UsageReported`, `CallsEnd` |
| `i2c_address` | a register address of two bytes | `I2cAddress` is violated |
| `proxy_result` | a transfer that the proxy does | `ProxyResult` is violated |

What the properties say:

* `BusOwned`: whoever works on the bus holds `spi_lock`, and a chip is selected
  only during a transfer that the holder makes with that chip - on the error
  paths as well.
* `ReadsMemory`: at every moment of a read the caller's buffer holds the cells
  of the chip from the start address on, and nothing beyond what was counted.
* `WritesStored`: every byte counted in `_sendLen` is in the chip, all of them
  when the call returns 0; an erase of EPCS64 that returns 0 leaves blank cells.
  Like `ReadsMemory` it says nothing of a session whose transfers may be short.
* `QuietBetweenCalls`: no session leaves a chip in a write cycle, unless it
  returned an error or was the erase of MX25U1635, whose wait is compiled out.
* `HolderChangesMemory`: a cell changes only by the write or erase of the holder
  of the lock, in its chip, where it asked for.
* `StoreImplements`: the calls are those of `SpiStore`. It joins the properties
  above over whole calls: what one thread wrote is what another one reads later,
  whatever failed in between, and a success is never reported for less.
* `ReturnsLength`: a successful read returns the number of bytes asked for.
* `CallEnds`: a call that has its lock ends, even if the chip is busy for ever.

Of `EosSpiRegs`:

* `BusOwned`: as above; a cs_init that returned -1 (it has stored its callbacks) or
  that ran during a call on its chip is the only thing that can break it.
* `ReadsRegisters`, `WritesRegisters`: an access delivers, or stores, the registers of
  the page it names, whatever the calls before it selected, and all of them if it
  succeeds; excepted are calls in which a status read failed, because that passes
  for an acknowledgement, or a transfer came short (`clean`). Since a later chunk goes
  to the same registers as the first one, a write has stored what it counts only
  between two chunks (`BetweenChunks`): one that fails may have reached the chip, and then its
  bytes stand where bytes that count as sent have been. K10 goes on, and keeps them.
* `ModeIsPara`: between calls the driver is in the mode that `para` says, although
  the flags share a byte; a failed ioctl, which nobody notices, is excepted.

Of `EosMmap`:

* `Implements`: the word-by-word copy under the mutex of a unit is an atomic
  access to a block of registers.
* `NoFault`: no call follows a null pointer, touches what has been freed or
  unmapped, or copies beyond the end of a mapping, as long as no lazy mapping has
  failed (`failed`): the code does not look at its result and follows the null
  pointer, and the model goes to `fault` there as well.
* `PublishedWhole`, `NoLeak`: a global pointer leads to a whole unit or to none,
  and everything allocated is reachable from one, whichever steps fail; only
  threads that race to map a region lose a unit (`lost`).

Of `EosGpio`:

* `OthersKept`: a bit of a register changes only in the step of a call about it.
* `SetTakesEffect`: when a set returns 0 its pin is as asked for, in both
  registers where there are two. On MPC8548 the code never clears a bit and
  returns 0 all the same; the property speaks there of a 1 only.
* `FeedToggles`: a feed leaves the pin at another level than the feed before it.

Of `EosCalls`:

* `I2cExclusive`: one transfer at a time on all buses, and who has the lock is about
  to release it. `I2cTransfers`: a call that succeeds has moved all its bytes, at
  the address that was sent, unless its message has 2^16 bytes or more or the driver
  has left messages out.
* `LosesNothing`: every call gives back what it took on each of its paths, except
  those of `KnownLoss`: `eos_get_dma_buffer_addr` keeps a descriptor of `/dev/mem`; a
  bring-up that fails keeps everything, and its mapping if `munmap` fails; and
  `eos_get_gid` keeps its unit, whole, if `munmap` or the mutex of the unit fails.
  `StarvedByLoss`: without these losses the descriptors never run out.
* `DmaFits`: the engine runs, and the proxy gets, only lists that fit the buffer, also
  if another thread changes the list in between; lists that add up to 2^32 pass.
* `HotResetEnds`: resets, even of one controller at the same time, leave it out of
  reset with the other bits as they were. `BringUpConfigures`: a bring-up that
  succeeds leaves a controller that runs and is configured, whatever an earlier
  one has left half done.
* `CpuLoad`: a reported load is a percentage, and the exact one if all CPUs were
  online and no counter wrapped; after a wrap it is 100%, because the interval is
  not corrected as the idle time is. `UsageReported`: the memory used, unless a
  thousand times as much overflows an unsigned long, and the first disk that can be
  measured, with the half percent that the code adds.
* `CallsEnd`: every call returns, or waits for the lock of I2C, which is given back.

Bounds of `EosSpi`. `ReadSize` and `WriteSize` are 2 instead of some hundred bytes, and
`MemSize` is 3 or 4, so that a request has a full chunk, a remainder, both or
none, begins at, before or inside a page, and neighbouring cells differ where a
wrong address would show. `DelayMax` is 1 instead of 255: a poll may succeed at
once, after a busy answer, or give up. Two threads are enough for a session to
meet another one, and every property speaks of one or two threads and one chip.
The chip programs for any number of steps (`DeviceDone` is never forced), and
every transfer may fail, before or after it reached the chip. `ReadsMemory`,
`WritesStored` and `StoreImplements` state the contents only where no transfer is
short (`ShortTransfers`, FALSE in these runs): the code counts a short write as a whole one,
and after a short read goes on at the next full chunk, a hazard that `PROJECT.json`
lists. `spi_live` has short transfers.

Bounds of `EosMmap`. Blocks have 0 to 3 registers in a region of 3 or 4, so that
they overlap in part, touch the last register, or begin beyond the end. Three
threads show a reader, a writer and a second writer at one unit; two are enough
for the race to map. There are three units: one for each region, and one more that
the race may lose. In the programs that race to map a region no two accesses of one region
conflict: two threads on two units of it have two mutexes, and `Implements` is then
not promised (`AccessesAtomic` says when it is). The run stops at a fault, which ends the process
(`CHECK_DEADLOCK FALSE`): a lazy mapping may fail there.

Bounds of `EosSpiRegs`. `ReadSize` and `WriteSize` are 2, so that an access of 3
registers has a full chunk and a remainder, which goes to the first register
again. Two pages with other contents, and registers and bytes that differ from the
next and from the one after it, show a wrong page, a wrong address, and a chunk
taken for another one. `DelayMax` is 1, as above. Seven programs share the calls out, so
that each meets the others that can disturb it; every one has short transfers.

Bounds of `EosCalls`. Bytes of I2C have 4 values and lengths 6, so that a second
byte of an address and a cut message occur; lists have at most 2 blocks, with
sums at, above and far above the limit (8 for 2^32); `PollMax` is 2. Four
descriptors are as many as two calls and the handles of a program can need at once, so
that a wanting one means a lost one. `LongMod` is 4000 (for 2^32): a thousand times
what is used of the memory fits it or does not.
Two CPUs, of which one may be offline, have counters modulo 8 that wrap or do
not. A fault ends the process.

Bounds of `EosGpio`. Two pins show a call that disturbs another pin; on MPC8548
one is in a group with a direction bit for each direction, one in the group with
a single bit. A run begins from every contents of the registers. `gpio` has one
writer because the code needs that, as `gpio_lost` shows; the reader checks that
a get changes nothing.

## Fairness

`FairSpec` adds weak fairness of the actions of a thread inside a call: the
operating system runs it. Nothing is assumed of the order in which the mutex is
granted (`Lock`), of a caller (`Call`, `Consume`), or of a chip (`DeviceDone`):
`CallEnds` holds because the polls are counted, not because chips are quick.
In `EosCalls` `FairSpec` runs every thread inside a call, with the drivers that
answer it; no thread need make a call, the SerDes need not get ready, and the mutex
need not be fair. `EosSpiRegs`, `EosMmap` and `EosGpio` state safety only, without
fairness.

## Findings

* `spi_length`: `device_read` of MR25H10 (and FM25V02, ZL30169) unlocks and then
  returns the member `_recvLen`. A second reader of the object resets it between
  the two, and the first returns 0, or the other one's length, for a read that
  delivered its bytes. EPCS64 and MX25U1635 copy it before the unlock.
* `spi_status`: `read_status` of EPCS64 is public and takes no lock. Called
  during another thread's `device_read`, it replaces the contents of `_recvBuf`
  between the transfer and the copy; the read succeeds with wrong bytes.

* `gpio_lost`: `eos_set_gpio_status` and `eos_set_gpio_direction` read the whole
  register, change a bit and write it back. The mutex of the mapping covers each
  access and not the pair, so the later of two writers undoes the other one's
  pin. `inc/eos_lib.h:416` promises to set the data of the pin.
* `i2c_address`: the bytes of a register address are masked out of it and not shifted
  down, so that all but the lowest are 0. `inc/eos_lib.h:592` promises addresses of
  8 to 32 bits.
* `proxy_result`: the transfers of the proxy return -1 whatever happened, since their
  result is never set to anything else. `eos_cpu_dma_proxy.cpp:132` promises 0.

Other places where code and expectation part, which the properties except by name:
a lazy mapping that fails is followed through its null pointer (`failed`), half a
`cs_init` is stored (`misused`), a failed status read of the switch passes for an
answer (`clean`), and what `KnownLoss` lists. On MPC8548 `eos_set_gpio_status` only adds
bits: a pin that is high stays high when it is set to 0, and the call returns 0,
although `inc/eos_lib.h:418` speaks of the low and the high level. On MPC8308 every GPIO
call is refused (`Reached`), since its registers lie beyond `CPU_CCSR_MEM_LEN`.

## Proofs

Each theorem holds for every value of the constants that the assumptions of its
module admit (TLC evaluates them in each run): any number of threads, chips,
regions and pins, any size of memory, page, chunk and block, any limit of a poll,
and any set of calls. Behind it is an inductive invariant, which holds initially,
is kept by every action (a lemma for each), and implies the property. The
premises of a theorem are the ones that a run shows to be needed.

`EosSpiProofs` (memory chips):

* `TypeCorrect`: `[]TypeOK`. Type correctness alone is not inductive: `PollNext` could
  run past the limit of the counter and `Send` could index the caller's data out of
  range. `TypeInv` adds `MutexInv` (the thread in a locked section is the holder) and
  `LoopInv` (inside a loop the chunk counter is below the number of chunks, `_sendLen`
  is what the chunks before it sent, and the poll counter is in its bound).
* `BusOwnership`: `[]BusOwned`, if no call is a bare `read_status` (`NoUnlockedCalls`,
  which `spi_status` shows to be needed).

`EosSpiStoreProofs` goes on from there, with the same premise. `SessionInv` adds what a
session knows at each step: which calls are in progress (`CallInv`), who has left a
chip busy (`BusyInv`), that the chip is selected, ready and write-enabled where
the next transfer counts on it (`DeviceInv`), which bytes of a write are in the
chip, the chunk in flight included (`WriteInv`), and which bytes of a read are in
the caller's buffer or in `_recvBuf` (`ReadInv`, `IdInv`).

* `QuietChips`, `ReadsDeliver`, `WritesKept`: `[]QuietBetweenCalls`, `[]ReadsMemory`,
  `[]WritesStored`, from `SessionInv`.
* `OwnCellsOnly`: the action property `HolderChangesMemory`, from the one step that
  changes cells and where its chunk lies (`ChunkPlace`).
* `LengthKept`: `[]ReturnsLength`, if every class copies `_recvLen` before the unlock
  (`LengthCopied`, which `spi_length` shows to be needed).
* `StoreRefined`: `StoreImplements`. Every step of `EosSpi` is one of `SpiStore` or a
  stutter, one lemma for each kind of step; an `End` needs all of `SessionInv`.

`EosMmapProofs` (mappings). `MmapInv` says who may run together (`AloneInv`), which call
a thread is in and how far (`CallInv`, `PlaceInv`), that a unit with a pointer to
it is whole (`HeapInv`), that a unit in use is whole even if it has been replaced
(`UseInv`), and who holds which mutex (`MutexInv`).

* `Typed`, `FaultFree`, `WholeUnits`: `[]TypeOK`, `[]NoFault`, `[]PublishedWhole`.
* `NothingLost`: `[]NoLeak`, in programs in which `pthread_mutex_init` does not fail:
  after it does, the code returns without the descriptor and the mapping.
* `AccessesAtomic`: `Implements`, in behaviours in which no unit has been replaced
  (`lost = {}`). `OneUnitInv` is the reason: then the accesses of a region meet at
  one mutex. After two threads have raced to map a region they may copy through
  two units, and a block is no longer read or written in one step.
  `InitialisedAtomic` states it of the programs that begin with the library
  initialised and never leave it.

`EosGpioProofs` (GPIO and watchdog). `GpioInv` says which set or get a thread executes
and how many registers it has done. The other theorems have the premise `OneSetter`
(one thread sets and feeds, any number read), which `gpio_lost` shows to be needed;
`FreshInv` says that a register still holds what the set has read from it.

* `Typed`: `[]TypeOK`. `TakesEffect`, `Untouched`: `[]SetTakesEffect`, `OthersKept`.
* `Toggles`: `FeedToggles`. `ParityInv` ties the level of the pin to the counter: one
  ahead from the increment to the end of the feed.

`EosSpiRegsProofs` (register chips). `TypeInv` is as that of `EosSpi`, with the phases a
chip has (`PlaceInv`).

* `Typed`: `[]TypeOK`. Neither poll and no chunk loop runs past its limit.
* `BusOwnedAlways`: `[]BusOwned`. `SelectInv`: until something is misused, a chip has
  both callbacks or neither, and is selected only by its holder's transfer.
* `ModeFollowsPara`: `[]ModeIsPara`. `ModeInv` says it of each flag that a `set_para`
  under way has done, which is why a flag is not undone by the next one.

`EosSpiRegsDataProofs` goes on with `ContentInv`, which follows a session from transfer
to transfer: its chip alone listens (`ListenAt`), stands on its page, at its
position, with SPIF low and its block fetched where the next step relies on it
(`ChipAt`; `ChipAlone` for what the other parts never do), what was counted agrees
with the chunk (`CountAt`), and what is in the buffers, and under way, is what the
registers hold (`DataAt`). No premise: what the properties except they name.

* `RegistersRead`: `[]ReadsRegisters`; a status poll tells the truth about the chip
  because nobody else listens (`ReceiveStep`), and an answer comes from the register
  that it counts for (`AnswerHolds`).
* `RegistersWritten`: `[]WritesRegisters`; a chunk goes over as much of the chunk before
  it as it has bytes (`ChunkStores`), and in a stream over none (`StreamStores`). The
  proof is what led to `BetweenChunks`: without it the property failed for a chunk
  that was lost after it had reached the chip.

`EosCallsProofs` (device functions). `CallInv` says, component by component, where the
thread of each call is and which descriptors, mappings and buffers it holds there. It
is inductive by itself and carries every other proof (`CallsPlaced`).

* `OneTransferAtATime`: `[]I2cExclusive`. `GivenBack`: `[]LosesNothing`: what a call
  holds at its `return` is nothing, what its caller asked for, or a `KnownLoss`.
* `DescriptorsCounted`: `fds` stays in 0 .. `MaxFds`. `HandleInv` and `FdInv` count: the
  open descriptors are those of calls in progress and of handles, and more only after
  a loss. `StarvedOnlyByLoss`: `[]StarvedByLoss`. Finitely many threads
  (`IsFiniteSet(Threads)`) are a premise because the count is of them; `EnoughFds`
  (two descriptors for each thread, as `popen` needs, and one for each handle) because
  a process with a smaller limit can run out of them without a loss.
* `TransfersArrive`: `[]I2cTransfers`. `TransferInv` follows the message from the buffer
  to the registers of the device (`Arrived`), byte by byte around its ring of cells;
  calls of which the driver has left out a message are excepted.
* `ListsChecked`: `[]DmaFits`. `CheckedInv`: a list passed the check before it became
  the arguments of a channel or went to the proxy, so a later change of the arguments
  by another thread is to a checked list.
* `HotResetsEnd`, `BringUpsConfigure`: `[]HotResetEnds`, `[]BringUpConfigures`. `HotInv`
  says what the copy of the register can hold while others reset the same controller;
  `BridgeInv` how far the bring-up is, and what it has done by then.
* `LoadsReported`, `UsagesReported`: `[]CpuLoad`, `[]UsageReported`. `SysInv` says what a
  call may have been told at each step (`ToldAt`, `MayBeTold`) and what it may report
  of it (`MayReport`). The sum over the CPUs is a fold; that a second moves
  the sums as it moves a counter (`Advances`) is proved by minimal elements of the finite
  sets under inclusion, because the induction theorems of the library take an operator.
* `CallsTyped`: `[]TypeOK`, from all of these and `RestType`.

Three assumptions exist for these proofs and are evaluated in the run `calls`: what a
second adds to the counters of all CPUs is less than their width and nothing is taken
from them, and a machine has memory and 1 to 4 CPUs (`SysAssumption`); and the powers of
`ByteMod` that an address of 1 to 4 bytes is divided by (`I2cAssumption`), which is
arithmetic that the provers lack. The first is needed: when a second adds more than
that, the code can report a load below 0. The proofs also changed the model: the cases
of `Delivered` overlapped and are now alternatives, and `Stats` finds a CPU's line
without sorting a set.

`ChunkLemmas`: quotient and remainder, where the chunks of a loop begin and end, and
distances in a ring.

Model-checked only: `CallEnds` and `CallsEnd`, which are liveness under fairness and
beyond the prover.

## What is not modelled

* `open_device` and `close_device` of the SPI base class, and the mapping functions of
  the GPIO unit, which are those of `EosMmap` with another pointer.
* Of the watchdog, the mode functions and `eos_hard_feed_dog`, each a single access
  to a register (of which the last one writes four registers from one variable:
  what lies behind it is anything).
* The stubs of `eos_temp.cpp`, the empty variants of `eos_get_gid`, printing, and the
  choice of constants by CPU.
* Text: opcodes and headers of SPI commands, and the parsing of `/proc`, whose
  readings are taken for the numbers they stand for; the rounding of floats.
* Lengths that overrun a fixed buffer (`_recvBuf` and `_sendBuf` of BCM5389, the arrays of
  `eos_get_cpu_info` on a CPU with more cores than its build), after which nothing
  can be said.
* `eos_wr_le16`, which stores four bytes where it should store two: which register
  the others reach is a matter of the controller.
