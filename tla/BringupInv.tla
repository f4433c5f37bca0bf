----------------------------- MODULE BringupInv -----------------------------
(***************************************************************************)
(* The inductive invariant of Bringup, and the conditions on the programs  *)
(* of the boards from which it follows.  The conditions speak of the order *)
(* of steps only, with no hardware in them; the invariant says what is     *)
(* known of the hardware from the steps that have been taken, whatever     *)
(* time it needs.                                                          *)
(***************************************************************************)
EXTENDS Bringup

-----------------------------------------------------------------------------
(* Types *)

\* TypeOK and the types TLC need not look at.
TypeInv ==
  /\ board \in Boards /\ taken \in 0 .. Len(Prog)
  /\ word \in SUBSET Units
  /\ reg \in [Fields -> Nat]
  /\ gates \in [Domains -> SUBSET Units] /\ gates0 \in [Domains -> SUBSET Units]
  /\ locking \in SUBSET Plls
  /\ pend \in SUBSET Events /\ wdt \in {"on", "key", "off"}

-----------------------------------------------------------------------------
(* Steps *)

SetValues == UNION {[D -> Nat] : D \in SUBSET Fields}

Commands ==
  {"reset", "config", "NOP", "PRE", "REF", "MRS", "EMRS", "DLL", "MRR", "ZQ", "MR1", "MR2",
   "MR16", "final", "refresh", "power", "size", "go"}

Owners == {"console", "sdram", "nand"}

Steps ==
  [op : {"set"}, f : SetValues]
    \cup [op : {"lock", "bypass"}, pll : Plls]
    \cup [op : {"read"}, dom : Domains]
    \cup [op : {"write", "assign"}, dom : Domains, units : SUBSET Units]
    \cup [op : {"wait"}, event : Events \cup Plls]
    \cup [op : {"delay", "print"}]
    \cup [op : {"wdt"}, key : {"off", "AAAA", "5555"}]
    \cup [op : {"uart"}, reg : Uart16550, val : Nat]
    \cup [op : {"mem"}, chip : 0 .. 2, cmd : Commands]
    \cup [op : {"pin"}, owner : Owners, bank : {"A", "C", "D"}, bits : SUBSET (0 .. 31),
          mode : {"peripheral", "input_pulled_up", "output", "low"}]
    \cup [op : {"cs"}, on : {0, 1}]

OfKind(kind) == {s \in Steps : s.op = kind}

\* Among the first n steps of p there is one of A with none of B behind it.
Since(p, n, A, B) == \E i \in 1 .. n : p[i] \in A /\ \A j \in i + 1 .. n : p[j] \notin B

\* Every step of T has one of A before it, with none of B between.
Guarded(p, T, A, B) == \A i \in 1 .. Len(p) : p[i] \in T => Since(p, i - 1, A, B)

\* Between a step of A and a later one of T there is always one of B.
Apart(p, T, A, B) == \A i \in 1 .. Len(p) : p[i] \in T => ~ Since(p, i - 1, A, B)

\* No step of A stands in p.
Without(p, A) == \A i \in 1 .. Len(p) : p[i] \notin A

-----------------------------------------------------------------------------
(* Clocks *)

ReadsOf(D)  == {s \in Steps : s.op = "read" /\ s.dom \in D}
WritesTo(d) == {s \in Steps : s.op = "write" /\ s.dom = d}
Assigns(d)  == {s \in Steps : s.op = "assign" /\ s.dom = d}

\* The registers from which a word must come that may be written to d.
Covering(d) == IF d = "fclk" THEN {"fclk", "iclk"} ELSE {d}

\* Functional and interface clocks are written with the word of a register
\* that has at least what must be kept of them.
KeepsGates(p) ==
  \A d \in {"fclk", "iclk"} :
    /\ Guarded(p, WritesTo(d), ReadsOf(Covering(d)), OfKind("read"))
    /\ Without(p, Assigns(d))

GatesInv ==
  \A d \in {"fclk", "iclk"} :
    /\ KeptAtReset(d) \subseteq gates[d]
    /\ Since(Prog, taken, ReadsOf(Covering(d)), OfKind("read")) => KeptAtReset(d) \subseteq word

\* A gate g = <<register, unit>> is opened, and perhaps closed, by a step.
Opens(g) ==
  {s \in Steps : s.op \in {"write", "assign"} /\ s.dom = g[1] /\ g[2] \in s.units}
Closes(g) ==
  {s \in Steps : s.op \in {"write", "assign"} /\ s.dom = g[1] /\ g[2] \notin s.units}

OpenInv ==
  \A g \in Domains \X Units :
    Since(Prog, taken, Opens(g), Closes(g)) => g[2] \in gates[g[1]]

-----------------------------------------------------------------------------
(* Events and PLLs *)

AtReset == {"wdt_awake", "emif_awake"}

Starts(e) ==
  {s \in Steps :
     \/ s.op = "set" /\ board = "s3c6410" /\ "UFCON" \in DOMAIN s.f /\ e = "fifo_reset"
     \/ s.op = "wdt" /\ s.key # "off" /\ e = "wdt_write"
     \/ s.op = "uart" /\ s.reg = "SYSC" /\ e = "uart_reset"
     \/ s.op = "mem" /\ e \in MemStarts(s.cmd)}

WaitsFor(e) == {s \in Steps : s.op = "wait" /\ s.event = e}

\* What the hardware is busy with was started and has not been waited for.
EventInv ==
  \A e \in pend :
    \/ Since(Prog, taken, Starts(e), WaitsFor(e))
    \/ e \in AtReset /\ \A i \in 1 .. taken : Prog[i] \notin WaitsFor(e)

LocksPll(q) == {s \in Steps : s.op = "lock" /\ s.pll = q}

Selects == {s \in Steps : s.op = "set" /\ "SEL" \in DOMAIN s.f}

\* Steps behind which a PLL has locked, or was not asked to: on the S3C24
\* chips any step that is taken.  The S3C6410 runs on its PLLs before it sets
\* their dividers.
Settles(q) ==
  {s \in Steps :
     \/ s.op = "delay"
     \/ s.op = "wait" /\ s.event = q
     \/ s.op = "bypass" /\ s.pll = q
     \/ board \in S3C24Boards
     \/ board = "s3c6410" /\ s.op = "set" /\ "CLK_DIV0" \in DOMAIN s.f}

\* The S3C chips run on their PLLs for good, once they do.
Selected(p) ==
  /\ IsS3C => Without(p, {s \in Selects : s.f["SEL"] # 1})
  /\ board = "s3c6410" =>
       Guarded(p, {s \in Steps : s.op = "set" /\ "CLK_DIV0" \in DOMAIN s.f}, Selects, {})

LockInv ==
  /\ board \in S3C24Boards => reg["SEL"] = 1
  /\ IsS3C /\ Since(Prog, taken, Selects, {}) => reg["SEL"] = 1
  /\ \A q \in Plls : IsLocking(q) => Since(Prog, taken, LocksPll(q), Settles(q))

-----------------------------------------------------------------------------
(* Watchdog *)

Keys(ks) == {s \in Steps : s.op = "wdt" /\ s.key \in ks}

\* The watchdog is stopped at once, or with two keys, the second when the
\* first has arrived, and then left alone.  On at91 it is stopped before.
StopsWatchdog(p) ==
  /\ Guarded(p, Keys({"5555"}), Keys({"AAAA"}), Keys({"5555", "off"}))
  /\ Apart(p, OfKind("wdt"), Starts("wdt_write"), WaitsFor("wdt_write"))
  /\ IsAt91 => Without(p, OfKind("wdt"))
  /\ board \in Omap3Boards \/ IsS3C => Since(p, Len(p), Keys({"off", "5555"}), OfKind("wdt"))

WatchdogInv ==
  /\ Since(Prog, taken, Keys({"AAAA"}), Keys({"5555", "off"})) => wdt = "key"
  /\ Since(Prog, taken, Keys({"off", "5555"}), OfKind("wdt")) => wdt = "off"
  /\ IsAt91 /\ FirstStage => wdt = "off"

-----------------------------------------------------------------------------
(* SDRAM *)

SendsCmd(chip, cmd) == {s \in Steps : s.op = "mem" /\ s.chip = chip /\ s.cmd = cmd}

MemEvents == {"mem_reset", "mem_init", "mem_DLL", "mem_ready"}

\* Every step of T has two of A before it.
Twice(p, T, A) ==
  \A i \in 1 .. Len(p) : p[i] \in T =>
    \E j, k \in 1 .. i - 1 : j # k /\ p[j] \in A /\ p[k] \in A

OrdersSdram(p) ==
  /\ \A chip \in 0 .. 2, cmd \in Commands :
       /\ \A c \in Before(cmd) : Guarded(p, SendsCmd(chip, cmd), SendsCmd(chip, c), {})
       /\ "REF" \in Before(cmd) => Twice(p, SendsCmd(chip, cmd), SendsCmd(chip, "REF"))
  /\ \A e \in MemEvents :
       Apart(p, {s \in Steps : s.op = "mem" /\ s.cmd # "MRR"}, Starts(e), WaitsFor(e))
  /\ \A q \in {"core", "mpll"} : Apart(p, OfKind("mem"), LocksPll(q), Settles(q))

\* The commands sent are those of the steps taken, in their order.
MemInv ==
  /\ mem \in Seq((0 .. 2) \X Commands)
  /\ \E at \in [{i \in 1 .. taken : Prog[i].op = "mem"} -> 1 .. Len(mem)] :
       /\ \A i \in DOMAIN at : mem[at[i]] = <<Prog[i].chip, Prog[i].cmd>>
       /\ \A i, j \in DOMAIN at : i # j => at[i] # at[j]

-----------------------------------------------------------------------------
(* Units *)

\* The clocks the step s needs.
Needs(s) ==
  CASE s.op \in {"uart", "print"} -> ConsoleGates
    [] s.op = "wdt"               -> WatchdogGates
    [] s.op = "mem"               -> MemGates(s.chip)
    [] OTHER                      -> {}

Needing(g) == {s \in Steps : g \in Needs(s)}

ClocksFirst(p) ==
  /\ \A g \in Domains \X Units : Guarded(p, Needing(g), Opens(g), Closes(g))
  /\ Apart(p, OfKind("uart") \cup OfKind("print"), Starts("uart_reset"), WaitsFor("uart_reset"))
  /\ IsOmap => Guarded(p, OfKind("wdt"), WaitsFor("wdt_awake"), {})

-----------------------------------------------------------------------------
(* Pins *)

\* Every pin has one user.
UserOf(bank, bit) ==
  CASE bank = "A" -> IF board = "at91sam9261" THEN "console" ELSE "nand"
    [] bank = "D" -> IF bit >= 16 THEN "sdram" ELSE "nand"
    [] bank = "C" -> IF board = "at91sam9263" THEN "console"
                     ELSE IF bit >= 16 THEN "sdram" ELSE "nand"

Misused == {s \in Steps : s.op = "pin" /\ \E n \in s.bits : UserOf(s.bank, n) # s.owner}

SharesPins(p) == Without(p, Misused)

PinInv == \A p \in DOMAIN pins : pins[p].owner = UserOf(p[1], p[2])

-----------------------------------------------------------------------------
(* Console *)

\* The registers that a write to the address of f may be meant for.
Sharing(f) ==
  CASE f = "DLL" -> {"DLL", "THR"}
    [] f = "DLH" -> {"DLH", "IER"}
    [] OTHER     -> {f}

\* A field is given the value v, or perhaps another.
Puts(f, v) ==
  {s \in Steps : \/ s.op = "set" /\ f \in DOMAIN s.f /\ s.f[f] = v
                 \/ s.op = "uart" /\ s.reg = f /\ s.val = v}
Spoils(f, v) ==
  {s \in Steps : \/ s.op = "set" /\ f \in DOMAIN s.f /\ s.f[f] # v
                 \/ s.op = "uart" /\ s.reg \in Sharing(f) /\ s.val # v}

\* The fields whose value follows from the steps taken.
KnownFields == Fields \ {"THR", "IER", "EFR", "FCR", "CS"}

\* The divisor latch is open or closed, and its registers are written.
OpensLatch  == {s \in Steps : s.op = "uart" /\ s.reg = "LCR" /\ s.val >= 128}
ClosesLatch ==
  {s \in Steps : \/ s.op = "set" /\ "LCR" \in DOMAIN s.f
                 \/ s.op = "uart" /\ s.reg = "LCR" /\ s.val < 128}
Latches     == {s \in Steps : s.op = "uart" /\ s.reg \in {"DLL", "DLH"}}

SetsMainPll == {s \in Steps : s.op = "set" /\ DOMAIN s.f \cap {"MULA", "DIVA"} # {}}

\* What the console's registers must hold when text is printed.
ConsoleValues ==
  CASE board \in Omap3Boards ->
         [OSC |-> 260000, SYSDIV |-> 2, PER_M |-> 432, PER_N |-> 12, PER_M2 |-> 9,
          DLL |-> 26, DLH |-> 0, LCR |-> 3, MDR1 |-> 0]
    [] board = "omap4" ->
         [OSC |-> 384000, PER_M |-> 20, PER_N |-> 0, PER_M2 |-> 8,
          DLL |-> 26, DLH |-> 0, LCR |-> 3, MDR1 |-> 0]
    [] board = "s3c2410" ->
         [MDIV |-> 161, PDIV |-> 3, SDIV |-> 1, HDIVN |-> 1, PDIVN |-> 1,
          ULCON |-> 3, UCON |-> 581, UBRDIV |-> 26]
    [] board = "s3c2440" ->
         [MDIV |-> 127, PDIV |-> 2, SDIV |-> 1, HDIVN |-> 2, PDIVN |-> 1,
          ULCON |-> 3, UCON |-> 581, UBRDIV |-> 26]
    [] board = "s3c6410" ->
         [MDIV |-> 266, PDIV |-> 3, SDIV |-> 2, UARTDIV |-> 1,
          ULCON |-> 3, UCON |-> 3077, UBRDIV |-> 71]
    [] board = "at91sam9261" -> [US_CR |-> 80, US_MR |-> 2048, BRGR |-> 54]
    [] board = "at91sam9263" -> [US_CR |-> 80, US_MR |-> 2048, BRGR |-> 53]
    [] OTHER -> <<>>

\* PLLs are asked to lock, or no longer; and steps behind which none is locking.
Relocks == {s \in Steps : s.op \in {"lock", "bypass"}}
Idles ==
  {s \in Steps : s.op = "delay" \/ (board \in S3C24Boards /\ s.op # "lock")}

\* Nothing waits for the DPLL that the console of omap4 hangs on.
SetsConsole(p) ==
  /\ \A f \in DOMAIN ConsoleValues :
       Guarded(p, OfKind("print"), Puts(f, ConsoleValues[f]), Spoils(f, ConsoleValues[f]))
  /\ Guarded(p, Latches, OpensLatch, ClosesLatch)
  /\ board \in Omap3Boards \/ IsS3C => Guarded(p, OfKind("print"), Idles, Relocks)
  /\ IsAt91 => Without(p, Relocks) /\ Without(p, SetsMainPll)

ValueInv ==
  /\ \A f \in KnownFields, v \in Nat : Since(Prog, taken, Puts(f, v), Spoils(f, v)) => reg[f] = v
  /\ Since(Prog, taken, OpensLatch, ClosesLatch) => Latched
  /\ IsAt91 /\ FirstStage => /\ reg["MULA"] = At91Pll(At91Chip(board)).mula
                             /\ reg["DIVA"] = At91Pll(At91Chip(board)).diva
=============================================================================
