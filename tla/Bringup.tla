------------------------------- MODULE Bringup -------------------------------
(***************************************************************************)
(* From reset to the loaders on the ten boards, or to where system_init()  *)
(* gives up: the processor takes the steps of InitCalls, the hardware      *)
(* (PLLs, watchdog, UART, memory controller) follows in its own time.      *)
(***************************************************************************)
EXTENDS InitCalls, FiniteSets

CONSTANTS
  FirstStage,     \* at91: something before g-bios has done the work of soc_init
  ResetClocks,    \* what OMAP may have on at reset: [fclk |-> units, iclk |-> units]
  ResetLcr        \* values the LCR of the UART may have at reset

VARIABLES
  board,          \* never changes
  taken,          \* how many of its steps the processor has taken
  word,           \* the local variable of the init call, as a set of clocks
  reg,            \* the fields of the registers
  gates, gates0,  \* clocks switched on, per register; and at reset
  locking,        \* PLLs on their way to lock
  pend,           \* what the hardware is still busy with
  wdt,            \* the watchdog: "on", "key", "off"
  mem,            \* the commands the memory controller got
  pins            \* what each pin of at91 was made, and by whom

vars == <<board, taken, word, reg, gates, gates0, locking, pend, wdt, mem, pins>>

IsOmap == board \in Omap3Boards \cup {"omap4"}
IsS3C  == board \in S3C24Boards \cup {"s3c6410"}
IsAt91 == board \in At91Boards

Domains == {"fwkup", "iwkup", "fclk", "iclk", "fcore", "icore", "memif", "l4per", "pmc"}
Units   == {"wdt2", "gpt2", "uart1", "uart2", "uart3", "uart4", "gpio2", "gpio3", "gpio4",
            "gpio5", "gpio6", "emif1", "emif2", "A", "C", "D"}

ASSUME ResetAssumption ==
  /\ FirstStage \in BOOLEAN /\ ResetLcr \subseteq 0 .. 255
  /\ ResetClocks \subseteq [fclk : SUBSET Units, iclk : SUBSET Units]

Plls    == {"mpu", "core", "per", "apll", "mpll"}
Events  == {"wdt_awake", "wdt_write", "uart_reset", "fifo_reset", "mem_reset", "emif_awake",
            "mem_init", "mem_DLL", "mem_ready"}

\* The fields of registers that the properties look at.
OmapFields   == {"OSC", "SYSDIV", "MPU_M", "MPU_N", "MPU_M2", "CORE_M", "CORE_N", "CORE_M2",
                 "L3", "L4", "PER_M", "PER_N", "PER_M2"}
Uart16550    == {"THR", "DLL", "DLH", "IER", "EFR", "FCR", "LCR", "MCR", "MDR1", "SYSC"}
S3CFields    == {"MDIV", "PDIV", "SDIV", "HDIVN", "PDIVN"}
S3CUart      == {"ULCON", "UCON", "UFCON", "UBRDIV"}
S3C64xFields == {"A_MDIV", "A_PDIV", "A_SDIV", "SEL", "CLK_DIV0", "UARTDIV"}
At91Fields   == {"MULA", "DIVA"}
At91Dbgu     == {"US_CR", "US_MR", "BRGR"}

Fields ==
  OmapFields \cup Uart16550 \cup S3CFields \cup S3CUart \cup S3C64xFields
    \cup At91Fields \cup At91Dbgu \cup {"LED", "CS"}

Programs == [b \in Boards |-> ProgramOf(b)]

Prog == Programs[board]
Done == taken = Len(Prog)
Op   == Prog[taken + 1]

\* Registers at reset: dividers pass their clock on; the UART is as the boot
\* ROM left it, and so are chip select 0 and the clocks of OMAP.
ResetValue(f) ==
  CASE f \in {"OSC", "SYSDIV", "PER_M2", "MPU_M2", "CORE_M2", "DIVA"} -> 1
    [] OTHER -> 0

Init ==
  /\ board \in Boards
  /\ taken = 0 /\ word = {}
  /\ \E lcr \in ResetLcr, cs \in {0, 1} :
       reg = [f \in Fields |->
                CASE f = "LCR" -> lcr
                  [] f = "CS"  -> cs
                  [] f = "SEL" -> IF board \in S3C24Boards THEN 1 ELSE 0
                  [] f = "MULA" /\ FirstStage /\ IsAt91 -> At91Pll(At91Chip(board)).mula
                  [] f = "DIVA" /\ FirstStage /\ IsAt91 -> At91Pll(At91Chip(board)).diva
                  [] OTHER -> ResetValue(f)]
  /\ \E c \in ResetClocks :
       gates0 = [d \in Domains |-> IF IsOmap /\ d \in {"fclk", "iclk"} THEN c[d] ELSE {}]
  /\ gates = gates0
  /\ locking = {} /\ pend = {"wdt_awake", "emif_awake"}
  /\ wdt = IF IsAt91 /\ FirstStage THEN "off" ELSE "on"
  /\ mem = <<>>
  /\ pins = <<>>

-----------------------------------------------------------------------------
(* Hardware *)

\* A write to a register of the 16550: with bit 7 of LCR the first two are the
\* divisor latch, and with all of 0xBF the third is EFR.
Latched == reg["LCR"] >= 128

UartTarget(name) ==
  CASE name \in {"THR", "DLL"} -> IF Latched THEN "DLL" ELSE "THR"
    [] name \in {"IER", "DLH"} -> IF Latched THEN "DLH" ELSE "IER"
    [] name \in {"FCR", "EFR"} -> IF reg["LCR"] = 191 THEN "EFR" ELSE "FCR"
    [] OTHER                   -> name

\* The clocks of the console's UART, and of the watchdog.
ConsoleGates ==
  CASE board = "omap3"   -> {<<"fclk", "uart3">>, <<"iclk", "uart3">>}
    [] board = "evm3530" -> {<<"fcore", "uart1">>, <<"icore", "uart1">>}
    [] board = "omap4"   -> {<<"l4per", "uart3">>}
    [] OTHER             -> {}

WatchdogGates == IF IsOmap THEN {<<"fwkup", "wdt2">>, <<"iwkup", "wdt2">>} ELSE {}

MemGates(chip) ==
  IF board = "omap4" THEN {<<"memif", IF chip = 1 THEN "emif1" ELSE "emif2">>} ELSE {}

AreOpen(gs) == \A g \in gs : g[2] \in gates[g[1]]

\* What the hardware must have before it can finish.
CanFinish(e) ==
  CASE e = "wdt_awake"  -> AreOpen(WatchdogGates)
    [] e = "wdt_write"  -> AreOpen(WatchdogGates)
    [] e = "uart_reset" -> AreOpen(ConsoleGates)
    [] e = "emif_awake" -> AreOpen(MemGates(1) \cup MemGates(2))
    [] OTHER            -> TRUE

\* A posted write to the watchdog takes effect when it is finished.
Finish ==
  /\ \E e \in pend : CanFinish(e) /\ pend' = pend \ {e}
  /\ UNCHANGED <<board, taken, word, reg, gates, gates0, locking, wdt, mem, pins>>

\* PLLs lock one by one, in any order.
Locks ==
  /\ \E p \in locking : locking' = locking \ {p}
  /\ UNCHANGED <<board, taken, word, reg, gates, gates0, pend, wdt, mem, pins>>

IsLocking(p) == p \in locking

\* The S3C chips stop the processor while a PLL it runs on is locking.
Stalled == IsS3C /\ reg["SEL"] = 1 /\ locking # {}

\* The watchdog stops on 0xAAAA and then 0x5555; a write that comes while the
\* one before it is under way is lost.
WatchdogTakes(key) ==
  IF key = "off" THEN wdt' = "off" /\ UNCHANGED pend
  ELSE IF "wdt_write" \in pend THEN UNCHANGED <<wdt, pend>>
  ELSE /\ pend' = pend \cup {"wdt_write"}
       /\ wdt' = CASE key = "AAAA"               -> "key"
                   [] key = "5555" /\ wdt = "key" -> "off"
                   [] OTHER                       -> wdt

\* What a command makes the memory controller do.
MemStarts(cmd) ==
  CASE cmd = "reset"                        -> {"mem_reset"}
    [] cmd = "config" /\ board = "omap4"    -> {"mem_init"}
    [] cmd = "DLL" /\ board = "omap4"       -> {"mem_DLL"}
    [] cmd = "go" /\ board = "s3c6410"      -> {"mem_ready"}
    [] OTHER                                -> {}

-----------------------------------------------------------------------------
(* The processor *)

At(kind)   == ~ Done /\ ~ Stalled /\ Op.op = kind
Step(kind) == At(kind) /\ taken' = taken + 1

\* Writing the FIFO control register of the S3C6410 resets its FIFOs.
SetFields ==
  /\ Step("set")
  /\ reg' = [f \in Fields |-> IF f \in DOMAIN Op.f THEN Op.f[f] ELSE reg[f]]
  /\ pend' = IF board = "s3c6410" /\ "UFCON" \in DOMAIN Op.f
              THEN pend \cup {"fifo_reset"} ELSE pend
  /\ UNCHANGED <<board, word, gates, gates0, locking, wdt, mem, pins>>

LockPll ==
  /\ Step("lock")
  /\ locking' = locking \cup {Op.pll}
  /\ UNCHANGED <<board, word, reg, gates, gates0, pend, wdt, mem, pins>>

BypassPll ==
  /\ Step("bypass")
  /\ locking' = locking \ {Op.pll}
  /\ UNCHANGED <<board, word, reg, gates, gates0, pend, wdt, mem, pins>>

ReadGates ==
  /\ Step("read")
  /\ word' = gates[Op.dom]
  /\ UNCHANGED <<board, reg, gates, gates0, locking, pend, wdt, mem, pins>>

WriteGates ==
  /\ Step("write")
  /\ word' = word \cup Op.units
  /\ gates' = [gates EXCEPT ![Op.dom] = word']
  /\ UNCHANGED <<board, reg, gates0, locking, pend, wdt, mem, pins>>

AssignGates ==
  /\ Step("assign")
  /\ gates' = [gates EXCEPT ![Op.dom] = Op.units]
  /\ UNCHANGED <<board, word, reg, gates0, locking, pend, wdt, mem, pins>>

\* One turn of a busy wait; one for a PLL waits until it has locked.
WaitEvent ==
  /\ At("wait")
  /\ taken' = IF Op.event \in pend \/ IsLocking(Op.event) THEN taken ELSE taken + 1
  /\ UNCHANGED <<board, word, reg, gates, gates0, locking, pend, wdt, mem, pins>>

\* udelay(), which is taken to be longer than any PLL needs to lock.
DelayEnds ==
  /\ Step("delay")
  /\ locking = {}
  /\ UNCHANGED <<board, word, reg, gates, gates0, locking, pend, wdt, mem, pins>>

Prints ==
  /\ Step("print")
  /\ UNCHANGED <<board, word, reg, gates, gates0, locking, pend, wdt, mem, pins>>

WriteWatchdog ==
  /\ Step("wdt")
  /\ WatchdogTakes(Op.key)
  /\ UNCHANGED <<board, word, reg, gates, gates0, locking, mem, pins>>

\* SYSC bit 1 starts a software reset.
WriteUart ==
  /\ Step("uart")
  /\ reg' = [reg EXCEPT ![UartTarget(Op.reg)] = Op.val]
  /\ pend' = IF Op.reg = "SYSC" THEN pend \cup {"uart_reset"} ELSE pend
  /\ UNCHANGED <<board, word, gates, gates0, locking, wdt, mem, pins>>

MemCommand ==
  /\ Step("mem")
  /\ mem' = Append(mem, <<Op.chip, Op.cmd>>)
  /\ pend' = pend \cup MemStarts(Op.cmd)
  /\ UNCHANGED <<board, word, reg, gates, gates0, locking, wdt, pins>>

OwnPins(owner) == {p \in DOMAIN pins : pins[p].owner = owner}

ConfPins ==
  /\ Step("pin")
  /\ LET ps == {<<Op.bank, i>> : i \in Op.bits} IN
       pins' = [p \in ps \cup DOMAIN pins |->
                  IF p \notin ps THEN pins[p]
                  ELSE [owner |-> Op.owner,
                        modes |-> {Op.mode} \cup (IF p \in OwnPins(Op.owner)
                                                  THEN pins[p].modes ELSE {})]]
  /\ UNCHANGED <<board, word, reg, gates, gates0, locking, pend, wdt, mem>>

WriteChipSelect ==
  /\ Step("cs")
  /\ reg' = [reg EXCEPT !["CS"] = Op.on]
  /\ UNCHANGED <<board, word, gates, gates0, locking, pend, wdt, mem, pins>>

-----------------------------------------------------------------------------
(* Specifications *)

CpuStep ==
  \/ SetFields \/ LockPll \/ BypassPll \/ ReadGates \/ WriteGates \/ AssignGates
  \/ WaitEvent \/ DelayEnds \/ Prints \/ WriteWatchdog \/ WriteUart \/ MemCommand
  \/ ConfPins \/ WriteChipSelect

Hardware == Finish \/ Locks

Ended == Done /\ UNCHANGED vars

Next == CpuStep \/ Hardware \/ Ended

Spec == Init /\ [][Next]_vars

\* The processor runs and the hardware finishes what it can.
FairSpec == Spec /\ WF_vars(CpuStep) /\ WF_vars(Locks) /\ WF_vars(Finish)

-----------------------------------------------------------------------------
(* Properties *)

\* Every variable keeps its type, whatever the init calls write: a divisor or a
\* latch that is computed does not fall below zero.
TypeOK ==
  /\ board \in Boards /\ taken \in 0 .. Len(Prog)
  /\ word \subseteq Units
  /\ DOMAIN reg = Fields /\ \A f \in Fields : reg[f] \in Nat
  /\ gates \in [Domains -> SUBSET Units]
  /\ locking \subseteq Plls
  /\ pend \subseteq Events /\ wdt \in {"on", "key", "off"}

\* The clock the UART gets, from the registers as they are.
Omap3UartRate ==
  ((reg["OSC"] \div reg["SYSDIV"]) * 2 * reg["PER_M"]) \div ((reg["PER_N"] + 1) * reg["PER_M2"] * 2)
Omap4UartRate == (reg["OSC"] * 2 * reg["PER_M"]) \div ((reg["PER_N"] + 1) * reg["PER_M2"] * 4)
S3C24UartRate ==
  (S3C24Clock(board).mul * 120000 * (reg["MDIV"] + 8))
     \div ((reg["PDIV"] + 2) * 2 ^ reg["SDIV"] * 2 ^ reg["HDIVN"] * (reg["PDIVN"] + 1))
S3C64UartRate ==
  (120000 * reg["MDIV"]) \div (reg["PDIV"] * 2 ^ reg["SDIV"] * (reg["UARTDIV"] + 1))
At91UartRate == (184320 * (reg["MULA"] + 1)) \div (reg["DIVA"] * 2)

UartClock ==
  CASE board \in Omap3Boards -> Omap3UartRate
    [] board = "omap4"       -> Omap4UartRate
    [] board \in S3C24Boards -> S3C24UartRate
    [] board = "s3c6410"     -> S3C64UartRate
    [] IsAt91                -> At91UartRate

Divisor ==
  CASE IsOmap  -> 256 * reg["DLH"] + reg["DLL"]
    [] IsS3C   -> reg["UBRDIV"] + 1
    [] IsAt91  -> reg["BRGR"]

\* Eight bits, no parity, in the mode for data.
Format8N1 ==
  CASE IsOmap  -> reg["LCR"] = 3 /\ reg["MDR1"] = 0 /\ "uart_reset" \notin pend
    [] IsS3C   -> reg["ULCON"] = 3 /\ reg["UCON"] # 0
    [] IsAt91  -> reg["US_MR"] = 2048 /\ reg["US_CR"] = 80

\* Whenever text is printed, the UART is clocked and set up, and the rate of its
\* actual clock divided by its actual divisor is within 3 percent of 115200; the
\* PLL it hangs on has locked, but for omap4, whose code does not wait for that
\* PLL.  armvirt's UART has no rate, e310's is not driven.
ConsoleSpeed ==
  ~ Done /\ Op.op = "print" /\ (IsOmap \/ IsS3C \/ IsAt91) =>
    /\ AreOpen(ConsoleGates) /\ Format8N1
    /\ (board # "omap4" => ~ IsLocking("per")) /\ (IsS3C => ~ IsLocking("mpll"))
    /\ LET off == Divisor * 18432 - UartClock IN
         (IF off < 0 THEN - off ELSE off) * 100 <= 3 * UartClock

\* No register is accessed of a unit that is not clocked or being reset.
AccessClocked ==
  ~ Done =>
    /\ Op.op = "uart" => AreOpen(ConsoleGates) /\ "uart_reset" \notin pend
    /\ Op.op = "wdt"  => AreOpen(WatchdogGates) /\ (IsOmap => "wdt_awake" \notin pend)
    /\ Op.op = "mem"  => AreOpen(MemGates(Op.chip))

\* The commands that must have gone before a command, on the same chip.
Before(cmd) ==
  CASE cmd \in {"NOP", "PRE", "MRR", "size"} -> {"config"}
    [] cmd = "REF"                          -> {"config", "PRE"}
    [] cmd = "MRS" /\ board \in S3C24Boards  -> {"config", "refresh", "size"}
    [] cmd \in {"MRS", "EMRS"} /\ board \notin S3C24Boards -> {"config", "PRE", "REF"}
    [] cmd = "go"                           -> {"MRS"}
    [] cmd = "DLL"                          -> IF IsOmap /\ board # "omap4" THEN {"MRS"} ELSE {"final"}
    [] cmd = "ZQ"                           -> {"MRR"}
    [] cmd \in {"MR1", "MR2"}                -> {"ZQ"}
    [] cmd = "final"                        -> {"MR1", "MR2"}
    [] cmd = "power"                        -> {"refresh", "MR16", "DLL"}
    [] OTHER                                -> {}

Times(chip, cmd) == Cardinality({i \in 1 .. Len(mem) : mem[i] = <<chip, cmd>>})

\* Each SDRAM command comes after those it builds on, not while the controller
\* is busy (but for reading whether it is), and only when the PLL that clocks the memory has locked; a chip
\* that needs refresh cycles before its mode is set has had two.
SdramOrder ==
  ~ Done /\ Op.op = "mem" =>
    /\ \A c \in Before(Op.cmd) : Times(Op.chip, c) > 0
    /\ "REF" \in Before(Op.cmd) => Times(Op.chip, "REF") >= 2
    /\ Op.cmd # "MRR" => pend \cap {"mem_reset", "mem_init", "mem_DLL", "mem_ready"} = {}
    /\ ~ IsLocking("core") /\ ~ IsLocking("mpll")

\* What of the clocks at reset the writes must keep: interface clocks, and the
\* functional clocks of units that had both.  A functional clock without its
\* interface clock the code does lose, since the reads of its register are
\* dropped.
KeptAtReset(d) == IF d = "fclk" THEN gates0["fclk"] \cap gates0["iclk"] ELSE gates0[d]

\* A unit that had both clocks at reset still has them when the init calls have
\* ended, and one that had its interface clock has that, though the registers are
\* written with the word of another.
GatesKept ==
  Done => \A d \in {"fclk", "iclk"} : KeptAtReset(d) \subseteq gates[d]

\* The watchdog has been stopped when the init calls have ended, so that it does
\* not reset a board that waits for a key; on omap4 the code is switched off.
WatchdogStops == Done /\ (IsOmap \/ IsS3C \/ IsAt91) /\ board # "omap4" => wdt = "off"

\* No init call takes a pin that an earlier one has set up for another use.
PinsKept ==
  ~ Done /\ Op.op = "pin" =>
    \A i \in Op.bits : <<Op.bank, i>> \in DOMAIN pins => pins[<<Op.bank, i>>].owner = Op.owner

\* Every busy wait ends: the board comes to its loaders, or to hang.
InitEnds == <>Done
=============================================================================
