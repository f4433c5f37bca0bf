# g-bios: TLA+ verification project

g-bios is a small boot loader for ARM boards (and a first RISC-V one).  It sets
up the board, offers a menu of loaders on the serial line, copies an operating
system image to a fixed address and jumps to it.  The modules here model what it
*does*, translated from the C and assembly source; all paths are relative to
`src/`.

## 1. Inventory

Everything runs on one processor, without interrupts.  What runs concurrently is
outside: the host at the other end of the serial line, the line itself, the
user, and the NAND chip.

| Part | Code | State | Operations | Interacts with |
|---|---|---|---|---|
| Boot sequence | `arch/arm/head.S`, `build/sections.ld`, `core/init.c` `system_init` | the pointer into the init-call table | run the init calls by level; hang on an error | every `INIT_CALL_LEVEL` function |
| Loader menu | `core/init.c` `main`, `load_os`, `boot` | `key`, the poll count, the image at `CONFIG_OS_RAM_ADDR` | poll for a key, autoboot, show the menu, find and run a loader, boot | UART, loaders |
| Kermit loader | `core/kermit_loader.c` | `real_seq`, `type`, `curr_addr`, `load_size`, the frame buffer | receive a frame, check it, store it, answer | UART, host |
| Y-modem loader | `core/ymodem_loader.c` | `blk`, `size`, `count`, `curr_addr`, `load_size` | ask for the file, receive a block byte by byte, answer, flush | UART with timeouts, host |
| NAND loader and core | `core/nand_loader.c`, `driver/nand/nand_core.c` | `struct nand_chip`, `curr_page`, `last_page` | reset, identify, command and address cycles, wait, read pages | the chip |
| NAND controllers | `driver/nand/{at91,omap3,omap4,s3c24x}_nand.c` | controller registers, pins on at91 | `nand_init`, the ready line | NAND core |
| UART drivers | `driver/uart/*.c` | the two FIFOs, registers | set up, send, receive (with and without timeout), count | everything that prints or reads |
| printf | `lib/stdio.c` | a 32-byte buffer | format, send | UART |
| Clocks, SDRAM, GPIO, LED | `mcu/*/` | PLLs, clock gates, watchdog, memory controller, pins | init calls: accesses, busy waits, delays | boot sequence, UART set-up |
| CPU identification | `arch/*/cpuid.c` | none | print | printf |
| Build and configuration | `build/`, `Makefile` | none at run time | make the configurations | — |

What is hard, and what makes each part correct:

* **Boot sequence** — the linker decides the order of the init calls, an `int`
  carries addresses as results.  Correct: a call that did its work is no failure;
  in the order the linker gives them, no call uses what a later one sets up
  (clocks, console, SDRAM: see the set-up below).
* **Loader menu** — a countdown races the user; a loader can fail half-way with
  its data at the address all loaders share; the OS may return; bytes of an
  aborted transfer look like keys.  Correct: a user who stopped autoboot at a menu
  stays in control; autoboot comes if nobody does anything, and without a menu
  whatever is typed (unless a loader waits for its host for ever).  Whether what is booted is whole is up to the loaders:
  `load_os` asks for the sign of their result only.
* **Kermit, Y-modem** — lost, repeated, damaged and late messages; two timers;
  numbers that wrap; state advanced before a check.  Correct: the image is the
  file, piece by piece, nothing twice, nothing skipped; success means all of it;
  a transfer ends if the line works at all.
* **NAND** — a chip with its own timing; address bytes that depend on geometry;
  rounding to pages.  Correct: every page stored is the page meant, read when it
  was ready; the whole image and no more; a dead chip does not keep the board.

* **UART, printf** — FIFOs that overflow while nobody reads or are full when one
  more byte is sent; a count field too narrow for a full FIFO; a byte that comes
  between the last look and the timeout.  Correct: bytes in order and only those
  lost for which there was no room; a timeout means that nothing was there; text
  leaves whole, however slow the line.
* **Set-up of the board** — the hardware takes its time and nothing tells the
  code when it forgot to wait; clocks are configured in one file and divided in
  another; one word is carried from register to register.  Correct: the console
  has its rate when the first text is printed, no unit is used without its
  clock, the SDRAM gets its commands in order, the watchdog is off before the
  board waits for a user, every busy wait ends.

The hazards are listed line by line in `PROJECT.json`.

## 2. Modules

    SerialLoad ........ what a serial loader promises load_os()
      Kermit .......... implements it
        KermitInv ..... its inductive invariants
          MCKermit, KermitProofs (any line, losses, damage)
      KermitCodec ..... one frame of Kermit, byte by byte
        KermitCodecInv  its inductive invariant
          MCKermitCodec, KermitCodecProofs
      Ymodem .......... implements it
        YmodemInv ..... its inductive invariant
          MCYmodem, YmodemProofs (any line, losses)
    Boot .............. reset, init calls, menu; a loader is an abstract step
      MCBoot (the boards of build/configs), BootProofs
    Nand .............. NAND loader, core and chip
      MCNand (chips of g_nand_chip_desc), NandProofs
    Printf ............ what printf() makes of a format, as operators
      PrintfProofs .... what they compute, for data of any size
      Uart ............ drivers, timed read, printf() and the FIFOs
        MCUart, UartProofs (uses PrintfProofs)
    InitCalls ......... the register accesses of every init call, as data
      Bringup ......... the processor that takes them and the hardware
        BringupInv .... conditions on the programs, and the inductive invariant
          MCBringup, BringupProofs

`Boot` and the loaders meet in the loader's result.  `load_os` boots on any
result that is not negative, and so does `LoaderSucceeds` of `Boot`: nothing there
says that the image is whole.  That success means a whole image is `SerialLoad`'s
`Finish`, a promise the loaders keep on some lines (`kermit_lossy`, `ymodem_acks`)
and break on others: after a refused first frame (`kermit_loader.c:61`), with a
block that was cut short (`ymodem_loader.c:131`), with a chip that is late
(`nand_core.c:145`).
`Boot` looks at order and result of the init calls, `Bringup` at what they do.
`Uart` is the layer below `Kermit`, `Ymodem` and `Boot`, which take bytes in
order (`ReadsInOrder`) and timeouts that mean an empty line (`TimeoutIsHonest`)
from it.

### SerialLoad
`image` grows by one piece of `File` at a time; `Finish` needs all of it;
`GiveUp` is a negative result.

### Kermit
One step of the board is one turn of the `do ... while` loop of `kermit_load`,
with the answer it sends: `BoardSeqError`, `BoardChecksumError`,
`BoardTermError`, `BoardAccept` are its four ways through.  `BoardDecode` is what
the code does *before* it looks at the checksum: it counts the sequence number,
notes the type and decodes the data to memory.  `LoopWhile` is the loop condition
that `continue` reaches as well, with the type of an earlier frame.  A frame is
what the receiver tells apart (sequence, type, the cells its data decodes to,
whether the check character fits, whether the carriage return is there).  The
quoting of control characters is abstracted to `cells`; `KermitCodec` has it.  The length of a frame is
not compared by the code beyond its checksum, so a damaged length is a frame with
more or fewer cells.  The host is a Kermit sender with a window of one; the
line loses (`LoseFrame`, `LoseReply`) and damages (`DamageFrame`).

`Damaged` is any change of a frame that its check character tells, of whatever
size, or the loss of its carriage return.  The check character has six bits: a
change that leaves them right is taken for a good frame by any receiver, and is
left out.  A single flipped bit is never of that kind (`FlipIsSeen` of
`KermitCodec`); several may be.

### KermitCodec
One turn of the loop of `kermit_load`, byte by byte: `Mark` and `Fill` read the
line into the buffer, `Header`, `DataPlain`, `DataQuoted`, `DataEnd`, `CheckSum`
and `Terminator` decode it, `AckPacket` is `send_ack_packet`.  The host (`HostCode`,
one byte of the payload at a time while the frame has room; `Quote`, `Frame`,
`HostSend`) codes as the protocol demands, with a definition of its own of the check
character; `first` and `sums` are a history of its coding that nothing depends on
but the sum it sends.  The line may put noise before the frame (any of `Noises`,
bytes without a start mark) and flip any one bit of it,
that of the mark and of the carriage return included.  A flip that makes a
carriage return, or a length too large, lets the decoder read on in bytes that
were in the buffer before or never written: `Overrun` may then end in any way.

### Ymodem
One step is one byte read, one timeout or one answer; `pc` names the place in
`ymodem_load`.  `MODEM_TIMEOUT` is 272 us, about three byte times, so it expires
in any pause (`Gap`) and whenever the line is empty; the board's 2 s and the
host's timer expire only when nothing is under way (`Quiet`).  Memory is counted
in bytes; the bytes of the file are numbered, so that no data byte looks like a
control byte (after a lost start byte one could be taken for a header; a number
byte can, and does so in the model).  The message printed on a timeout is on the same
line as the answers (`Text`).  The host repeats a message when it is refused or
not answered, and waits for a `C` before the file name and before the data.

### Boot
`board` is a configuration: its init calls with level and result, its loaders,
its default loader, whether it has a menu and the pl011 UART.  `pc` goes
`init`, `poll`, `find`, `load`, `menu`, `os`, `hang`; `caller` says who called
`load_os` and so where it returns to.  `InitCall`/`InitReturn` are
`system_init` and the test in `head.S`; `PollKey`, `PollNone`, `PollEnd`,
`MenuKey` are `main`; `FindLoader`, `LoaderFails`, `LoaderSucceeds`,
`OsReturns` are `load_os` and `boot`.  A loader is one step, with the bytes it
takes off the line before (`LoaderReads`); what it leaves in memory is not in the
model, because `load_os` does not look at it.  `touched` says that a byte has
ever arrived.  Results are kept by their upper 12 bits,
enough for the sign of an address.

### Nand
`Reset`, `ReadId`, `ReadPage` are calls of `nand_command`, `Poll` a turn of
`nand_wait_ready`, `Probe` the lookup and `config_nand`, `Data` one page with
the loop of `nand_do_load`.  The chip takes the address bytes it gets, is busy as
long as it likes, and drives data only when it is ready; otherwise the port
yields `Stale`.  Assumed: the ready line has dropped when it is first looked at,
an undriven bus matches no ID, `CONFIG_OS_NAND_START` lies inside the chip, and
a WitOS header, if present, has a size.  Sizes of chips are in KB.

### Printf and Uart
`Printf` has the conversions as they are computed (`hexDigits` is the loop of
`int_to_hex_str`, `Expand` the characters sent for one item of a format) and,
beside them, the text a call ought to give (`Text`).  `IsArgument` is what the
callers pass: a letter for `%c`, a number of 32 bits for `%p` and `%x`, a text
without carriage returns for `%s`.  `%d` is an unknown
directive: its case is compiled for `ARM_ARCH >= 6`, nothing defines `ARM_ARCH`,
and so `printf` stops there with -1, in the messages at `ymodem_loader.c:113`
and `:122` and in every `GEN_DBG`.

`Uart` runs one call at a time (`pc`).  `CallRecv`/`Recv` are
`uart_recv_byte`, `CallRecvTimeout`/`Look`/`Delay`/`TimedOut` the loop of
`uart_recv_byte_timeout`, `CallPrintf`/`Format`/`SendByte` `printf` and
`uart_send_byte`.  `Arrive` and `Transmit` are the line: a byte that finds the
FIFO full is lost.  A driver is described by what it looks at: `count` is how
`uart_rxbuf_count` gets its number, `waits` and `txWaits` whether receiving and
sending look at all, `depth` the FIFO.  All seven drivers are there.  Three
things they do are visible: the count field of the S3C chips reads 0 when the
FIFO is full, and the code does not look at the bit beside it that says so
(`Wedged`; `CONFIG_UART_ENABLE_FIFO`); pl011 has the sense of its count turned
and reads and writes without waiting; e310 sends nothing.

### InitCalls and Bringup
`InitCalls` is a table: for each of the ten boards of `build/configs` the steps
of its init calls in the linker's order, with the print in `main` and the
`nand_init` that comes later.  A step is a register access, a busy wait
(`Wait`), a `udelay` or a print; the constants in it (multipliers, dividers,
divisors, `LCR` values) are those of the code, divided where the code divides.
`Bringup` gives the steps their meaning: one action for each kind (`SetFields`,
`LockPll`, `WriteGates`, `WaitEvent`, ...), all of them `CpuStep`, and
`Finish` and `Locks` for the hardware, which is done with what it was asked for
at any time after.  `word` is the C variable that carries a register's value
from a read to a write; in `mcu/omap3/clock.c` the value of one register is
written to another (`Omap3Gates`).  `UartTarget` is the 16550's addressing,
in which `LCR` decides what a write means.  `pins` says who made a pin of at91
what.  What the compiler removes (`-O2`, the counting loops of
`mcu/omap3/clock.c`) is not there.

Assumed of the hardware: PLLs lock in any order, and faster than a `udelay`
(which OMAP3 relies on); the S3C chips stop the processor while a PLL it runs on
is locking; the clocks that are on at reset are any of `ResetClocks`, functional
and interface clocks independently, the UART's `LCR` any byte of `ResetLcr`, the
NAND chip select either value.  Two things the code does are not held against it,
since no line of the repository says otherwise, and the properties name them: on
omap4 nothing waits for the DPLL that clocks the console (`omap4/clock.c:62`), so
`ConsoleSpeed` does not ask there that it has locked; and the reads dropped at
`omap3/clock.c:107` and `:112` switch off the functional clock of a unit that had
no interface clock at reset, so `GatesKept` is about units that had both, and
about interface clocks.  `FirstStage = TRUE`: something before g-bios has done the work of
`soc_init` of `mcu/at91/clock.S`, which is declared in `g-bios.h:12` and called
by nobody; with `FALSE`, `WatchdogStops` and `ConsoleSpeed` fail on at91.

## 3. Runs

| Run | Shows |
|---|---|
| `kermit_lossy` | losses both ways, retransmission, numbers that wrap: image in order, nothing skipped, success only when whole, `SerialLoad` implemented, the inductive invariant holds; the transfer ends if the line delivers at all |
| `kermit_damage` | three frames damaged in a way the check character tells, or without their carriage return, as many as five numbers allow: every cell of the image is data of the file, nothing twice or out of order; accepted data stays |
| `kermit_nack` (violation) | after a checksum error the board asks for the *next* packet; the damaged one is lost |
| `codec_flip` | packets of up to two bytes of every kind the coding knows come out as they went in and are answered legibly; a frame with any one bit flipped is not accepted, unless the decoder runs over the end of what it received |
| `ymodem_acks` | answers lost, numbers damaged, both block sizes, numbers that wrap: image in order, whole at the end, `SerialLoad` implemented, the inductive invariant holds; without lost answers the transfer ends |
| `ymodem_any` | every kind of fault: a block stays in its bounds, acknowledged data stays |
| `boot_safe` | the menu holds off autoboot, however often loading fails; an untouched board comes to run its default loader, and so does one without a menu, whatever is typed, unless a loader waits for its host for ever |
| `boot_omap` (violation) | OMAP boards stop in `system_init`: an address as a negative result |
| `nand_safe` | every page the right one, the whole image and no more; the loader returns even with a chip that is never ready |
| `nand_rows` (violation) | 64 and 128 MB chips with 512-byte pages are owed an address byte |
| `uart_safe` | seven drivers, arrivals at any time, five calls of `printf`: bytes in order and only those lost that found the FIFO full; a timeout means an empty FIFO; text leaves whole; calls return |
| `bringup_safe` | ten boards: console at 115200 baud whenever something is printed, no access to an unclocked unit, SDRAM commands in order and with a locked PLL, a unit with both clocks at reset keeps them, watchdog off, pins keep their use, the init calls end |

Behaviour of the code that the models have and no run is spent on, because no
line of the repository says otherwise or another run shows the like:

* Kermit: a first frame with a damaged number ends the load as a success with
  nothing loaded (the loop condition looks at the initial `type`).
* Kermit: each damaged frame can take the board one packet further from the
  host, because its number is counted before its checksum.  From `SeqMod` - 1 of
  them on, 63 with the code's 6 bits, an old frame can have the number the board
  expects and is stored out of order: `ImageInOrder` fails in the model with
  `MaxFaults = SeqMod - 1`.
* armvirt reads a key from an empty FIFO: the count of pl011 has its sense turned
  and the byte is not waited for.  `ReadsInOrder`, `TimeoutIsHonest` and
  `PrintsWhole` leave out drivers that do not look.
* S3C: a full FIFO is taken for an empty one; the exception is named in
  `TimeoutIsHonest` and `CallsReturn`.
* Y-modem: the second `C` is sent once, and a block repeated after a lost ACK is
  refused for ever; either way one lost answer stops the transfer
  (`LoadCompletes` asks for a line that loses none).
* Y-modem: the CRC is read and never compared, and a timeout in the middle of a
  block is forgotten: after a lost data byte a block is acknowledged whose last
  byte in memory is one of its CRC.  Faults of data bytes are therefore left to
  `ymodem_any`, which asks less.
* Y-modem: behind a lost start byte, number 4 is read as `EOT`.
* The menu ignores a key equal to the one before, so a loader that failed cannot
  be tried again at once.
* `q` in a build without a default loader hangs the board.
* NAND: after `NAND_TIMEOUT` polls the page is read whether it is there or not;
  a chip marked `slow` shows it, and `PagesInOrder` is asked of the others.

**Bounds.**  `NData` 2 to 4 packets with `SeqMod` 3 to 5: the file is longer than
the number space in `kermit_lossy`, so that numbers are reused, and shorter in
the damage runs, where 5 numbers keep a damaged one from meaning another packet.
`LineCap` 2 to 4 lets frames overtake their answers.  `MaxFaults` 1 to 3: the
violation needs one, and three is the most `FewFaults` allows with five numbers.  Y-modem files have two to five blocks of one or two bytes,
`NumMod` 3 (wrapping) or the real 256; `MaxFaults` again.  `PollMax` and `FifoCap`
in `Boot` are 3 and 2: enough for a key before, at and after the countdown; how
many bytes arrive is not bounded.  `NandTimeout` is 3 polls, and
images are at most 16 pages; chips have their real sizes.
`KermitCodec` takes twelve bytes: control characters, `#` and DEL with and
without bit 7, `?`, letters that one bit turns into a carriage return; two in a
packet are enough for a pair to be shifted into its neighbour.
In `Uart` FIFOs hold two bytes (or one, at91), four arrive, three are read, a
timed read looks twice, and one of five calls of `printf` is made: zero,
two and four hex digits and the largest `int`, a string, line ends, `%d`.  Four
bytes fill a FIFO, overflow it, and arrive once more when it has been read; the
text of every call but the one that `%d` cuts is longer than the FIFO.  `Bringup` needs no bound: its
programs are finite and real.  Its run takes three of the possible
`ResetClocks` and three values of `ResetLcr`: data mode, 8N1 and both ways into
the latch; the theorems are about all of them.

**Deadlock.**  `kermit_damage` and `kermit_nack` switch the check off: when the host
believes that all is answered and the board does not, the board waits for a frame for ever, and so it does in the code.  Everywhere else a
state without a successor would be an error; `Returned` and `Stopped` are the
loops the code ends in, the idle step of `Uart` and `Ended` of `Bringup` the
program that goes on elsewhere.

**Fairness.**  The board polls, so its steps are weakly fair.  In `Kermit` the
host keeps sending (`WF` of `HostSend`), and what is sent over and over is
received at last (`SF` of `BoardFrame` and `HostReceive`): a line on which
nothing ever arrives makes no transfer.  In `Ymodem` the line loses at most
`MaxFaults` messages, so weak fairness of board and host is enough.  In `Boot`
only the processor is fair, and not inside a serial loader, which may wait for
its host for ever.  In `Nand` a chip
becomes ready in the end, a `slow` one perhaps never.  In `Uart` the processor
and the transmitter are fair, arrivals are not: a read may wait for ever for a
byte that does not come.  In `Bringup` the processor is fair, and the hardware
finishes what it is able to: a unit whose clock is off never does, which is what
`InitEnds` is about.

## 4. Proofs

`KermitProofs` proves, for every file length, modulus and capacity:

* `TypeCorrect`, and `AcceptedDataStays`, for `Spec`: any line, damaging ones too.
* for `LossySpec`: `StepInvCorrect`, `ImageCorrect`, `AnsweredCorrect`,
  `LoadedCorrect` and `KermitImplementsSerialLoad`.

`ImageIsPrefix` alone is not inductive: it does not say which frames may be on
the line.  `StepInv` (module `KermitInv`) does.  Board and host are at most one
packet apart (`InStep`); frames on the line are the current one or the one
before it, in this order, and none is old once the board has moved on
(`FramesInOrder`); replies likewise (`RepliesInOrder`); the image is what the
packets accepted so far amount to (`ImageIsGot`), and the loop has ended exactly
if the last of them was the break packet (`EndsWithBreak`).  It is checked by TLC
in `kermit_lossy`, then proved: initially, by each action, and that it implies
the properties.  `KermitImplementsSerialLoad` maps `BoardAccept` of a data packet
to `Store`, of the break packet to `Finish`, every other step to a stutter.  Assumed is
`ConstantsAssumption` only (`SeqMod >= 2`: with one number the protocol cannot
work).

On a line that damages frames (`Spec`) `KermitProofs` proves `ImageOrderCorrect`: as long as
fewer frames are damaged than there are numbers less one (`FewFaults`), the image
holds packets of the file and nothing else, in the order of the file, none twice.  `ImageInOrder`
says nothing about how far board and host are apart, and `StepInv` does not hold
here: a damaged frame is counted, so the board gets ahead of the host.
`DamageInv` counts how far.  A damaged frame that has left the line is `Spent`;
the packet the board expects (`BoardPkt`) is never behind the host's and at most
`1 + Spent` ahead of it (`HostNear`); frames on the line that are not damaged are
what the host has sent, in its order, and none is further back than that
(`FramesNear`); no reply asks for less than the host has or than an earlier reply
did (`RepliesNear`); the packets in memory are of the file, ascend, and are all
before the board's (`ImageAscends`).  A number then says which packet a frame is, because frames
differ by less than `SeqMod`: this is what `FewFaults` is needed for, and the
bound is sharp (see above).  `FewFaults` is a hypothesis of the theorem, not an
assumption on the constants, so the other theorems hold without it.

`KermitCodecProofs` proves, for packets of any type, number, bytes and length
that fit a frame, and any noise before them, `FrameIsReadAlways` and
`FlipIsAlwaysSeen`.  The invariant `IInv` (module `KermitCodecInv`) is proved
action by action.  `CodingInv` says where in the frame the coding of each byte
stands and what the bytes before it add up to; since the host codes one byte per
step, this is an induction over steps and not over data.  `LineInv` says what the
line may have done, `BuffInv` what is in the buffer: the frame, its beginning if
a flip made a carriage return, or two frames if a flip took the carriage return.
`DecodeInv` says that place and remaining length add up to the length as it
came, and that the checksum is the host's but for the flipped bit; `CleanInv`
that, without a flip, the decoder stands before the coding of the next byte.  A
flip in the length moves the place where the check character is looked for,
never to one that fits; a flip elsewhere changes the check character
(`OneBitChangesCheck`: its six bits see a flip of any of the eight bits of a
byte, because the upper two are folded in).  `CodingIsUndone`: for each of the
256 bytes.

`BootProofs` proves, for every set of boards, `TypeCorrect` and `MenuCorrect` from
`BoardsAssumption`, `BoundsAssumption` and `NoKeyAssumption`; the strengthening
says which `pc` goes with which `caller`.

`YmodemProofs` proves `TypeCorrect` and `AcceptedDataStays`: on any line, for
files and blocks of any size, no block gets more data than it has room for and
what has been counted is never written again.  The invariant behind it
(`AddrInv`) is that `curr_addr` and `load_size` advance together, so that a
block, whole or broken, starts behind everything counted.

`YmodemProofs` proves further, for a line that loses answers and garbles block
numbers as often as it likes (`LossyLine`; `MaxFaults` is any number),
`StepInvCorrect`, `ImageCorrect`, `LoadedCorrect`, `AnsweredCorrect` and
`YmodemImplementsSerialLoad`.  (`AnsweredIsStored` follows from `StepInv` and is
not in the run again.)  `ImageIsPrefix` is not inductive: that the board
reads data of the block it expects depends on where in a message it is.
`StepInv` (module `YmodemInv`) says so: at most one message is under way, and
the bytes on the line are the rest of it from the place where the board is
(`TurnInv`); the host sends the block the board expects or the one before it
(`StepRel`); memory holds the blocks before that, and what has been read of this
one (`MemInv`).  `NumMod >= 2` is needed to tell a block from the one before it.
`Crc1` maps to `Store`, reading `EOT` as a header to `Finish`, everything else
to a stutter.

`NandProofs` proves `TypeCorrect` for all chips and images, and, from
`ImageFits`, `PagesAreInOrder` and `ImageIsWhole`.  `ImageFits` is the condition
under which the code works: the row bytes it sends are as many as the chip takes
and the image ends inside the chip.  It is false for the chips of `nand_rows`.
The strengthening: the loader's fields are those of the chip it found
(`KnowsChip`), a chip that is in time answers each
command before the polls are over, with the row asked for (`ChipInStep`), and the pages so far are those of the image (`PagesSoFar`).

`PrintfProofs` proves `HexIsRight`: for every 32-bit number `int_to_hex_str`
gives its hexadecimal digits, with a zero before an odd count of them; and lemmas
on line ends and on whole calls, for texts of any length.  These are inductions
over data.  The library's induction theorems take an operator as a parameter and
cannot be used; `NumberInduction` and `SeqInduction` are stated with a set instead
and proved from the fact that a non-empty set of numbers has a least element.
`hexDigits`, a recursive function, and `FlattenSeq` of the community modules are
unfolded once each (`HexDigitsStep`, `FlattenAppend`).

`UartProofs` proves, for any FIFO depth, timeout, arrivals and messages,
`TypeCorrect`, `BytesAreReadInOrder`, `TimeoutsAreHonest` and
`TextIsPrintedWhole`.  What has been
read, followed by the FIFO, is one ascending stream of all that arrived and was
not lost (`StreamInv`); a FIFO that was empty at the last look holds what came
since (`LateInv`).  What has left the line, followed by the FIFO and by what
`printf` has still to send of this item, is the text due before the call and that
of the items of the format dealt with (`TextInv`); `TextOfCall` and `PrintfProofs`
say that, when the last item is done, this is the text of the call.
`MessagesAssumption` says that the messages are of the kinds the callers print
(`IsArgument`).

`BringupProofs` proves, for every set of clocks OMAP may have on at reset, every
`LCR` a boot ROM may leave and hardware that takes any time, `TypeCorrect`,
`ClocksAreKept`, `PinsHaveOneOwner`, `WatchdogIsStopped`, `UnitsAreClocked`,
`SdramIsInOrder` and `ConsoleIsRight`, which are all the properties its run checks;
`WatchdogIsStopped` and `ConsoleIsRight` with `FirstStage` (see above).  What can go
wrong here is a matter of order, and of what the hardware has not finished yet,
so the proof is in two halves (module `BringupInv`).

*Programs.*  `Since(p, n, A, B)` says that among the first n steps of p there is
one of A with none of B behind it; `Guarded` that every step of T has such a step
before it; `Apart` that between a step of A and a later one of T one of B stands.
Each property has a condition in these terms, with no hardware in it:
`KeepsGates` (functional and interface clocks are written with the word of a
register that covers what must be kept of them), `ClocksFirst` (what needs a clock comes after the
step that opens it, and after the wait that follows a reset), `StopsWatchdog`
(the second key after the first and a wait), `OrdersSdram` (the commands of
`Before`; a wait or a delay behind what keeps the controller busy and behind a
request to its PLL), `Selected`, `SharesPins`, `SetsConsole` (before text is printed,
the last write to each register behind the baud rate gave it the value of
`ConsoleValues`; the divisor latch is open whenever it is written; on OMAP3 and the
S3C chips a delay, or a step that the locking PLL would not let the processor
take, comes behind the requests to lock).  They are proved of each
segment of `InitCalls`, and of the segments joined: a condition holds of `p \o q` if
it holds of p, and of q given what p leaves behind (`PartsGuarded`, `SettledJoined`,
`KeptJoined`, `OrderedJoined`, `EndsJoined`).  `RateIsRight` is the arithmetic: with
these values the clock over the divisor is near 115200 baud.

*Hardware.*  The invariant says what is known from the steps taken, however long
the hardware needs: `GatesInv` and `OpenInv` (clocks on), `EventInv` (whatever the
hardware is busy with was started and has not been waited for), `LockInv` (a PLL
that has not locked was asked to, with no step since behind which it has),
`WatchdogInv`, `PinInv`, `MemInv` (the commands sent are those of the steps
taken, each once) and `ValueInv` (a register holds what was last written to it, though a
16550 has several at one address and the latch decides which is meant).  Each is proved action by action (`GatesStep`, `EventStep`,
...), from the conditions where it needs them.

The proof found an error of the model that TLC had hidden: two arms of the `CASE`
in `Before` were both true of `MRS` on the S3C24 boards.  Which of them counts is
then left open, and TLC takes the first.

Only model-checked: liveness (`LoadCompletes` of both protocols, `AutoBoot`,
`KeysDoNotStopAutoboot`, `LoaderReturns`, `CallsReturn`, `InitEnds`), which the prover cannot do.

## 5. Not modelled

* What lies behind the 128 bytes of Kermit's frame buffer, which is filled up to a
  carriage return without a limit.
* Timings, pad settings, drive strengths and auto-idle bits of the set-up: values
  nothing later in the code depends on.  A wrong one is a matter of data sheets.
* `nand_init` of `omap3_nand.c` and `omap4_nand.c`: the OMAP boards stop before
  `main()` (`boot_omap`), so nothing calls them.
* `soc_init` of `mcu/at91/clock.S`, `at91_gpio_conf_periB`, `at91_clock_disable`:
  called by nobody.  `at91_gpio_conf_periA` is called in `at91/sdram.S` without
  its third argument, so the pull-ups of the data bus are whatever `r2` holds;
  no property depends on it.
* Bad blocks and ECC: the code reads no spare area.
* `cpuid`: prints what the processor says.  `arch/risc-v/head.S`: calls
  `system_init`, ignores its result, calls `main`.
* `arch/arm/.kermit.S`: built by nothing.  `build/image/sdrecord.c`: a host tool
  that writes an SD card.  The build scripts, and the headers for MMC, SPI and
  data flash that nothing uses.

## 6. Plan

Done: `SerialLoad`; `Kermit`, `KermitCodec`, `Ymodem`, `Boot`, `Nand`, `Uart` and
`Bringup` with their proofs; `Printf`; `InitCalls`.  What is left:

1. `BootLoad`: `Boot` with the loaders in the place of its one step, and what they
   leave in memory when they fail or succeed with less than the file.
2. `KermitCodec` as an implementation of one step of `Kermit`: the frame record
   as a refinement mapping of the bytes.
