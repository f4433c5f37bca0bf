------------------------------ MODULE InitCalls ------------------------------
(***************************************************************************)
(* What the init calls of each board, and the nand_init() called later, do *)
(* to the hardware: the sequence of their register accesses, busy waits    *)
(* and delays.  Module Bringup gives these steps their meaning.            *)
(*                                                                         *)
(* One step is one access, or several neighbouring ones to the same unit   *)
(* in the order of which nothing lies.  Registers that nothing later       *)
(* depends on (timings, pads, auto-idle) are left out of a step or stand   *)
(* together as one.  Rates are in units of 100 Hz.                         *)
(***************************************************************************)
EXTENDS Integers, Sequences, TLC

Set(f)            == <<[op |-> "set", f |-> f]>>               \* fields := values
Lock(p)           == <<[op |-> "lock", pll |-> p]>>
Bypass(p)         == <<[op |-> "bypass", pll |-> p]>>
Read(dom)         == <<[op |-> "read", dom |-> dom]>>          \* word := register
Write(dom, units) == <<[op |-> "write", dom |-> dom, units |-> units]>>  \* word |= units
Assign(dom, units) == <<[op |-> "assign", dom |-> dom, units |-> units]>>
Open(dom, units)  == Read(dom) \o Write(dom, units)
Wait(event)       == <<[op |-> "wait", event |-> event]>>
Delay             == <<[op |-> "delay"]>>
PrintText         == <<[op |-> "print"]>>
Wdt(key)          == <<[op |-> "wdt", key |-> key]>>
UartReg(reg, val) == <<[op |-> "uart", reg |-> reg, val |-> val]>>
Mem(chip, cmd)    == <<[op |-> "mem", chip |-> chip, cmd |-> cmd]>>
Pin(owner, bank, bits, mode) ==
  <<[op |-> "pin", owner |-> owner, bank |-> bank, bits |-> bits, mode |-> mode]>>
ChipSelect(on)    == <<[op |-> "cs", on |-> on]>>

-----------------------------------------------------------------------------
(* OMAP3 *)

\* Mutant of Omap3WatchdogClocks: without the interface clock.
Omap3WatchdogNoClock == Assign("fwkup", {"wdt2"}) \o Wait("wdt_awake")

Omap3WatchdogClocks ==
  Assign("fwkup", {"wdt2"}) \o Assign("iwkup", {"wdt2"}) \o Wait("wdt_awake")

\* Mutant of Omap3WatchdogStop: the first write is not waited for.
Omap3WatchdogStopAtOnce == Wdt("AAAA") \o Wdt("5555")

Omap3WatchdogStop == Wdt("AAAA") \o Wait("wdt_write") \o Wdt("5555")

\* 26 MHz, halved; DPLL1, DPLL3 and DPLL4.
Omap3Plls ==
  Set([OSC |-> 260000, SYSDIV |-> 2])
    \o Set([MPU_M |-> 250, MPU_N |-> 12, MPU_M2 |-> 1]) \o Lock("mpu")
    \o Set([CORE_M |-> 332, CORE_N |-> 12, CORE_M2 |-> 1, L4 |-> 2, L3 |-> 2])
    \o Lock("core")
    \o Set([PER_M |-> 432, PER_N |-> 12]) \o Lock("per")

\* Mutant of Omap3Gates: the value of the first read is dropped as well.
Omap3GatesNoRead ==
  Write("iclk", {"gpt2"}) \o Write("fclk", {"gpt2"})
    \o Write("fclk", {"uart3"}) \o Write("iclk", {"uart3"})

\* The reads before the last three writes are dropped: each takes the word of
\* the write before it.
Omap3Gates ==
  Read("iclk") \o Write("iclk", {"gpt2"}) \o Write("fclk", {"gpt2"})
    \o Write("fclk", {"uart3"}) \o Write("iclk", {"uart3"})

Omap3Plat == Omap3WatchdogClocks \o Omap3WatchdogStop \o Omap3Plls \o Omap3Gates

\* Mutant of Omap3UartClock: the divider of the 96 MHz clock keeps its reset value.
Omap3UartClockUndivided == Set([PER_M |-> 432, PER_N |-> 12]) \o Lock("per")

Omap3UartClock ==
  Set([PER_M2 |-> 9]) \o Set([PER_M |-> 432, PER_N |-> 12]) \o Lock("per")

\* Pads and clocks of the UART of CONFIG_UART_INDEX.
Omap3UartGates(index) ==
  CASE index = 0 -> Open("fcore", {"uart1"}) \o Open("icore", {"uart1"})
    [] index = 2 -> Open("fclk", {"uart3"})

Omap3UartReset == UartReg("SYSC", 2) \o Wait("uart_reset")

\* Mutant of Omap3UartSettle: no delay after the set-up.
Omap3UartAtOnce == <<>>

Omap3UartSettle == Delay

Omap3UartMode ==
  UartReg("MDR1", 7) \o UartReg("LCR", 191) \o UartReg("LCR", 0) \o UartReg("IER", 0)
    \o UartReg("LCR", 191) \o Open("fclk", {"uart3"})
    \o UartReg("DLL", 26) \o UartReg("DLH", 0)
    \o UartReg("LCR", 0) \o UartReg("IER", 0) \o UartReg("LCR", 3)
    \o UartReg("FCR", 7) \o UartReg("LCR", 3) \o UartReg("MDR1", 0)

Omap3Uart(index) ==
  Omap3UartClock \o Omap3UartGates(index) \o Omap3UartReset \o Omap3UartMode
    \o Omap3UartSettle

\* The two counting loops are removed by the compiler (-O2, no volatile).
Omap3Sdram ==
  Mem(0, "reset") \o Wait("mem_reset") \o Mem(0, "config")
    \o Mem(0, "NOP") \o Mem(0, "PRE") \o Mem(0, "REF") \o Mem(0, "REF")
    \o Mem(0, "MRS") \o Mem(0, "DLL")

-----------------------------------------------------------------------------
(* OMAP4 *)

\* struct dpll_desc: what is used of the three.
MpuDpll  == [m |-> 125, n |-> 7, m2 |-> 1]
PerDpll  == [m |-> 20,  n |-> 0, m2 |-> 8]
CoreDpll == [m |-> 125, n |-> 5, m2 |-> 1]

Omap4Mpu(d) ==
  Bypass("mpu") \o Set([MPU_M |-> d.m, MPU_N |-> d.n, MPU_M2 |-> d.m2]) \o Lock("mpu")

Omap4Per(d) ==
  Bypass("per") \o Set([PER_M |-> d.m, PER_N |-> d.n, PER_M2 |-> d.m2]) \o Lock("per")

\* The core DPLL locks by the update of the memory clock, which is waited for.
Omap4Core(d) ==
  Bypass("core") \o Set([CORE_M |-> d.m, CORE_N |-> d.n, CORE_M2 |-> d.m2])
    \o Open("memif", {"emif1", "emif2"}) \o Wait("emif_awake")
    \o Lock("core") \o Wait("core")

Omap4GpioGates == Open("l4per", {"gpio2", "gpio3", "gpio4", "gpio5", "gpio6"})

\* Mutant of Omap4UartGates: the console's clock is forgotten.
Omap4UartGatesNot3 == Open("l4per", {"uart1", "uart2", "uart4"})

Omap4UartGates == Open("l4per", {"uart1", "uart2", "uart3", "uart4"})

Omap4Plat ==
  Set([OSC |-> 384000, SYSDIV |-> 1])
    \o Omap4Mpu(MpuDpll) \o Omap4Per(PerDpll) \o Omap4Core(CoreDpll)
    \o Omap4GpioGates \o Omap4UartGates

Omap4Uart ==
  LET div == (48000000 \div 16) \div 115200 IN
  UartReg("IER", 0) \o UartReg("MDR1", 7)
    \o UartReg("LCR", 131) \o UartReg("DLL", div % 256) \o UartReg("DLH", div \div 256)
    \o UartReg("LCR", 3) \o UartReg("MCR", 3) \o UartReg("FCR", 7) \o UartReg("MDR1", 0)

\* emif_init_one(): both chip selects get each mode register.
Omap4Emif(e) ==
  Mem(e, "config") \o Mem(e, "MRR") \o Wait("mem_init")
    \o Mem(e, "ZQ") \o Delay
    \o Mem(e, "MR1") \o Mem(e, "MR2") \o Mem(e, "final") \o Mem(e, "refresh")
    \o Mem(e, "MR16") \o Mem(e, "DLL") \o Wait("mem_DLL") \o Mem(e, "power")

Omap4Sdram == Omap4Emif(1) \o Omap4Emif(2)

-----------------------------------------------------------------------------
(* S3C2410, S3C2440 and S3C6410 *)

\* MDIV, PDIV, SDIV, HDIVN, PDIVN of s3c24x0_register.h, and twice for 2440.
S3C2410Clock == [mdiv |-> 161, pdiv |-> 3, sdiv |-> 1, hdivn |-> 1, pdivn |-> 1, mul |-> 1]
S3C2440Clock == [mdiv |-> 127, pdiv |-> 2, sdiv |-> 1, hdivn |-> 2, pdivn |-> 1, mul |-> 2]

\* MPLL_RATE, and PCLK_RATE as the code computes it.
MpllRate(c) == ((c.mul * 120000) \div ((c.pdiv + 2) * 2 ^ c.sdiv)) * (c.mdiv + 8)
PclkRate(c) == (MpllRate(c) \div 2 ^ c.hdivn) \div 2 ^ c.pdivn

S3C24xPlat(c) ==
  Wdt("off")
    \o Set([MDIV |-> c.mdiv, PDIV |-> c.pdiv, SDIV |-> c.sdiv]) \o Lock("mpll")
    \o Set([HDIVN |-> c.hdivn, PDIVN |-> c.pdivn])

\* Mutant of S3C24xUart: PCLK_RATE is in kHz.
S3C24xUartUnscaled(c) ==
  Set([ULCON |-> 3, UCON |-> 581, UFCON |-> 1,
       UBRDIV |-> ((PclkRate(c) \div 10) \div 1843200) - 1])

S3C24xUart(c) ==
  Set([ULCON |-> 3, UCON |-> 581, UFCON |-> 1, UBRDIV |-> (PclkRate(c) \div 18432) - 1])

\* g_mem_conf: banks, refresh, sizes and mode registers.
S3C24xSdram ==
  Mem(0, "config") \o Mem(0, "refresh") \o Mem(0, "size") \o Mem(0, "MRS")

\* A_MDIV and so on of s3c64x.h.  Until CLK_SRC selects the PLLs, the
\* processor runs on the oscillator.
S3C64xPlat ==
  Wdt("off")
    \o Set([A_MDIV |-> 333, A_PDIV |-> 3, A_SDIV |-> 1]) \o Lock("apll")
    \o Set([MDIV |-> 266, PDIV |-> 3, SDIV |-> 2]) \o Lock("mpll")
    \o Set([SEL |-> 1]) \o Set([CLK_DIV0 |-> 12544])

\* HCLK_RATE; the UART's clock is MPLL / 2 as well.
S3C64xHclk == ((120000 \div (3 * 4)) * 266) \div 2

S3C64xUart ==
  Set([UARTDIV |-> 1]) \o Set([ULCON |-> 3, UCON |-> 3077, UFCON |-> 103])
    \o Wait("fifo_reset")
    \o Set([UBRDIV |-> (S3C64xHclk \div 18432) - 1]) \o Delay

S3C64xSdram ==
  Mem(0, "config")
    \o Mem(0, "NOP") \o Mem(0, "PRE") \o Mem(0, "REF") \o Mem(0, "REF")
    \o Mem(0, "MRS") \o Mem(0, "EMRS")
    \o Mem(0, "go") \o Wait("mem_ready")

\* One register of the S3C2410 holds the timing and the enable bit.
S3CNand(b) == IF b = "s3c2410" THEN ChipSelect(1) ELSE ChipSelect(0) \o ChipSelect(1)

-----------------------------------------------------------------------------
(* AT91SAM9261 and AT91SAM9263 *)

\* MULA, DIVA and MCK_RATE; the main oscillator has 18.432 MHz.
At91Pll(chip) == IF chip = 9261 THEN [mula |-> 64, diva |-> 6] ELSE [mula |-> 31, diva |-> 3]
At91Mck(chip) == ((184320 * (At91Pll(chip).mula + 1)) \div At91Pll(chip).diva) \div 2

At91PeriphA(owner, bank, bits) == Pin(owner, bank, bits, "peripheral")

\* at91_uart_init(); US_MR 0x800 is 8 bits without parity.
At91Uart(chip) ==
  (IF chip = 9261 THEN At91PeriphA("console", "A", {9, 10})
                  ELSE At91PeriphA("console", "C", {30, 31}))
    \o Set([US_CR |-> 80]) \o Set([BRGR |-> At91Mck(chip) \div 18432]) \o Set([US_MR |-> 2048])

\* Mutant of At91DataBus: one pin too many.
At91DataBusWide == 15 .. 31

\* 0xffff0000
At91DataBus == 16 .. 31

At91Sdram(chip) ==
  At91PeriphA("sdram", IF chip = 9261 THEN "C" ELSE "D", At91DataBus)
    \o Mem(0, "config") \o Mem(0, "PRE")
    \o Mem(0, "REF") \o Mem(0, "REF") \o Mem(0, "REF") \o Mem(0, "REF") \o Mem(0, "REF")
    \o Mem(0, "REF") \o Mem(0, "REF") \o Mem(0, "REF") \o Mem(0, "REF")
    \o Mem(0, "MRS") \o Mem(0, "go") \o Mem(0, "refresh")

\* at91_gpio_conf_input(bank, bit, 1): the ready line of a chip is open drain.
At91NandReadyPin(bank, bit) == Pin("nand", bank, {bit}, "input_pulled_up")

At91Nand(chip) ==
  ChipSelect(1)
    \o (IF chip = 9261
          THEN Open("pmc", {"C"}) \o At91PeriphA("nand", "C", {0, 1})
                 \o Pin("nand", "C", {14}, "output") \o Pin("nand", "C", {14}, "low")
                 \o At91NandReadyPin("C", 15)
          ELSE Open("pmc", {"A", "D"})
                 \o Pin("nand", "D", {15}, "output") \o At91NandReadyPin("A", 22)
                 \o Pin("nand", "D", {15}, "low"))

-----------------------------------------------------------------------------
(* The boards of build/configs *)

E310Led == Set([LED |-> 1])

\* One for each file of build/configs.
Boards ==
  {"omap3", "evm3530", "omap4", "s3c2410", "s3c2440", "s3c6410", "at91sam9261",
   "at91sam9263", "armvirt", "e310"}

Omap3Boards == {"omap3", "evm3530"}
S3C24Boards == {"s3c2410", "s3c2440"}
At91Boards  == {"at91sam9261", "at91sam9263"}

S3C24Clock(b) == IF b = "s3c2410" THEN S3C2410Clock ELSE S3C2440Clock
At91Chip(b)   == IF b = "at91sam9261" THEN 9261 ELSE 9263

\* arch_init and plat_init; then stdio_init, stdio_post (the banner), sdram_init;
\* main() prints, and the NAND loader calls nand_init().
Plat(b) ==
  CASE b \in Omap3Boards  -> Omap3Plat
    [] b = "omap4"        -> Omap4Plat
    [] b \in S3C24Boards  -> S3C24xPlat(S3C24Clock(b))
    [] b = "s3c6410"      -> S3C64xPlat
    [] b = "e310"         -> E310Led
    [] OTHER              -> <<>>

Stdio(b) ==
  CASE b = "omap3"        -> Omap3Uart(2)
    [] b = "evm3530"      -> Omap3Uart(0)
    [] b = "omap4"        -> Omap4Uart
    [] b \in S3C24Boards  -> S3C24xUart(S3C24Clock(b))
    [] b = "s3c6410"      -> S3C64xUart
    [] b \in At91Boards   -> At91Uart(At91Chip(b))
    [] OTHER              -> <<>>

Sdram(b) ==
  CASE b \in Omap3Boards  -> Omap3Sdram
    [] b = "omap4"        -> Omap4Sdram
    [] b \in S3C24Boards  -> S3C24xSdram
    [] b = "s3c6410"      -> S3C64xSdram
    [] b \in At91Boards   -> At91Sdram(At91Chip(b))
    [] OTHER              -> <<>>

NandInit(b) ==
  CASE b \in S3C24Boards \cup {"s3c6410"} -> S3CNand(b)
    [] b \in At91Boards                   -> At91Nand(At91Chip(b))
    [] OTHER                              -> <<>>

\* What the SDRAM init call returns is the end of the SDRAM: on the OMAP boards
\* a negative int, at which system_init() gives up and main() is not entered.
ReachesMain(b) == b \notin Omap3Boards \cup {"omap4"}

\* The linker puts the init calls in this order.
ProgramOf(b) ==
  Plat(b) \o Stdio(b) \o PrintText \o Sdram(b)
    \o (IF ReachesMain(b) THEN PrintText \o NandInit(b) ELSE <<>>)
=============================================================================
