-------------------------------- MODULE Nand --------------------------------
(***************************************************************************)
(* nand_loader() of core/nand_loader.c on top of driver/nand/nand_core.c:  *)
(* the chip is reset, identified and read page by page.  One step is one   *)
(* nand_command(), one look at the ready line or one page of data; the     *)
(* chip is a process of its own that becomes ready when it likes.          *)
(*                                                                         *)
(* A page in memory is represented by the row of the chip it came from.    *)
(***************************************************************************)
EXTENDS Integers, Sequences

CONSTANTS
  NandTimeout,    \* polls of the ready line (NAND_TIMEOUT, 16384)
  OsLoadSize,     \* CONFIG_OS_LOAD_SIZE, in bytes
  Devices,        \* chips that may be found: g_nand_chip_desc and an unknown one
  Starts,         \* values of CONFIG_OS_NAND_START
  Headers         \* sizes in the WitOS header, 0 for no header

NoHeader == 0
Stale    == -1    \* what the data port yields when the chip drives no data

\* A chip: its entry in the table (size in KB, write_size 0 if the page size
\* is in the ID), the two low bits of its fourth ID byte, and whether it may be
\* busy for longer than all polls.
DeviceType ==
  [known: BOOLEAN, size: Nat \ {0}, write_size: {0, 512}, ext: 0 .. 3,
   slow: BOOLEAN]

KB == 1024

\* The table gives sizes in MB.
ASSUME ConstantsAssumption ==
  /\ NandTimeout \in Nat \ {0} /\ OsLoadSize \in Nat \ {0}
  /\ Devices \subseteq DeviceType /\ \A d \in Devices : d.size % KB = 0
  /\ Starts \subseteq Nat /\ Headers \subseteq Nat

VARIABLES
  dev, start, header,          \* what this board has, fixed
  pc,                          \* where nand_loader() is
  polls,                       \* i in nand_wait_ready()
  chip_size, write_size,       \* struct nand_chip, as read from the ID
  curr_page, last_page,        \* locals of nand_do_load()
  mem,                         \* the pages read from load_addr on
  chip,                        \* what the chip does, see ChipStates
  row                          \* the row in its page register

board    == <<dev, start, header>>
loader   == <<chip_size, write_size, curr_page, last_page, mem>>
chipVars == <<chip, row>>
vars     == <<board, pc, polls, loader, chipVars>>

Places == {"reset", "waitReset", "id", "waitId", "probe", "read", "waitRead",
           "data", "loaded", "fault"}

ChipStates == {"idle", "resetting", "id", "address", "busy", "page"}

-----------------------------------------------------------------------------
(* The chip *)

PageOf(d) == IF d.write_size = 0 THEN KB * 2 ^ d.ext ELSE d.write_size

\* The rows of a chip and the bytes it takes to address one.
Rows(d)      == (d.size * 2) \div (PageOf(d) \div 512)
RowCycles(d) == IF Rows(d) <= 256 * 256 THEN 2 ELSE 3

Busy == chip \in {"resetting", "busy"}

ChipReady ==
  /\ Busy
  /\ chip' = IF chip = "resetting" THEN "idle" ELSE "page"
  /\ UNCHANGED <<board, pc, polls, loader, row>>

\* A read command with n row cycles.  A busy chip does not listen; one that
\* is owed an address byte waits for it and is not busy.
TakesRead(page, n) ==
  IF Busy THEN UNCHANGED chipVars
  ELSE IF n < RowCycles(dev) THEN chip' = "address" /\ UNCHANGED row
  ELSE chip' = "busy" /\ row' = (page % 256 ^ n) % Rows(dev)

-----------------------------------------------------------------------------
(* nand_probe() *)

Init ==
  /\ dev \in Devices /\ start \in Starts /\ header \in Headers
  /\ start \div KB < dev.size
  /\ pc = "reset" /\ polls = 0
  /\ chip_size = 0 /\ write_size = 0      \* struct nand_chip nand = { 0 }
  /\ curr_page = 0 /\ last_page = 0
  /\ mem = <<>>
  /\ chip = "idle" /\ row = 0

Reset ==
  /\ pc = "reset"
  /\ pc' = "waitReset" /\ polls' = 0
  /\ chip' = "resetting"
  /\ UNCHANGED <<board, loader, row>>

After(p) ==
  CASE p = "waitReset" -> "id" [] p = "waitId" -> "probe" [] p = "waitRead" -> "data"

\* Mutant of TimedOut: i <= NAND_TIMEOUT.
TimedOutLate == polls > NandTimeout

TimedOut == polls = NandTimeout

\* Mutant of NextPoll: i++ is missing.
NextPollSame == polls

NextPoll == polls + 1

\* One round of the loop in nand_wait_ready(), and its end: its result is
\* not looked at, so a timeout goes on like a chip that is ready.
Poll ==
  /\ pc \in {"waitReset", "waitId", "waitRead"}
  /\ IF TimedOut \/ ~ Busy
       THEN pc' = After(pc) /\ UNCHANGED polls
       ELSE polls' = NextPoll /\ (dev.slow \/ NextPoll < NandTimeout) /\ UNCHANGED pc
  /\ UNCHANGED <<board, loader, chipVars>>

ReadId ==
  /\ pc = "id"
  /\ pc' = "waitId" /\ polls' = 0
  /\ chip' = IF Busy THEN chip ELSE "id"
  /\ UNCHANGED <<board, loader, row>>

\* The ID is looked up.  A port that nobody drives yields an ID that no
\* entry has.
Probe ==
  /\ pc = "probe"
  /\ IF chip = "id" /\ dev.known
       THEN /\ chip_size' = dev.size
            /\ write_size' = PageOf(dev)
            /\ curr_page' = start \div PageOf(dev)
            /\ pc' = "read"
       ELSE /\ pc' = "fault"
            /\ UNCHANGED <<chip_size, write_size, curr_page>>
  /\ UNCHANGED <<board, polls, last_page, mem, chipVars>>

-----------------------------------------------------------------------------
(* nand_do_load() *)

\* Mutant of Cycles: two row cycles whatever the size.
CyclesTwo == 2

\* chip_size > (1 << 27)
Cycles == IF chip_size > 128 * KB THEN 3 ELSE 2

\* nand_command(nand, NAND_CMMD_READ0, page, 0)
ReadPage ==
  /\ pc = "read"
  /\ pc' = "waitRead" /\ polls' = 0
  /\ TakesRead(curr_page, Cycles)
  /\ UNCHANGED <<board, loader>>

\* The bytes to load, known when the first page p is in memory: the header
\* tells, if there is one to be seen.
LoadSize(p) == IF header # NoHeader /\ p # Stale THEN header ELSE OsLoadSize

\* Mutant of LastPage: load_size >> wshift.
LastPageInclusive(size) == curr_page + size \div write_size

LastPage(size) == curr_page + (size - 1) \div write_size

\* nand->read_buff() for one page, and the loop around it.
Data ==
  /\ pc = "data"
  /\ LET p == IF chip = "page" THEN row ELSE Stale IN
       /\ mem' = Append(mem, p)
       /\ last_page' = IF mem = <<>> THEN LastPage(LoadSize(p)) ELSE last_page
  /\ curr_page' = curr_page + 1
  /\ pc' = IF curr_page' <= last_page' THEN "read" ELSE "loaded"
  /\ UNCHANGED <<board, polls, chip_size, write_size, chipVars>>

-----------------------------------------------------------------------------
(* Specifications *)

LoaderStep == Reset \/ Poll \/ ReadId \/ Probe \/ ReadPage \/ Data

Returned == pc \in {"loaded", "fault"} /\ UNCHANGED vars

Next == LoaderStep \/ ChipReady \/ Returned

Spec == Init /\ [][Next]_vars

\* The loader runs; a chip gets ready, but a slow one perhaps never.
FairSpec == Spec /\ WF_vars(LoaderStep) /\ WF_vars(ChipReady /\ ~ dev.slow)

-----------------------------------------------------------------------------
(* Properties *)

\* Every variable keeps its type, and no wait exceeds its polls.
TypeOK ==
  /\ dev \in Devices /\ start \in Starts /\ header \in Headers
  /\ pc \in Places /\ polls \in 0 .. NandTimeout
  /\ chip_size \in Nat /\ write_size \in Nat
  /\ curr_page \in Nat /\ last_page \in Nat
  /\ mem \in Seq(Nat \cup {Stale})
  /\ chip \in ChipStates /\ row \in Nat

\* Each page in memory is the one that follows on the page before it, the
\* first one being that of CONFIG_OS_NAND_START: the address that reaches the
\* chip is the one meant, and no page is read before the chip has it ready, if
\* that takes no longer than all polls.
PagesInOrder ==
  ~ dev.slow => \A k \in 1 .. Len(mem) : mem[k] = start \div PageOf(dev) + k - 1

\* The size of the image that is in the chip.
ImageSize == IF header # NoHeader THEN header ELSE OsLoadSize

\* A success covers the image, and no page beyond its end was read.
LoadIsWhole ==
  pc = "loaded" /\ ~ dev.slow =>
    /\ Len(mem) * PageOf(dev) >= ImageSize
    /\ (Len(mem) - 1) * PageOf(dev) < ImageSize

\* nand_loader() returns to load_os(), even with a chip that is never ready.
LoaderReturns == <>(pc \in {"loaded", "fault"})
=============================================================================
