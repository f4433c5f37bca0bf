------------------------------- MODULE Ymodem -------------------------------
(***************************************************************************)
(* ymodem_load() of core/ymodem_loader.c, one byte per step, with the host *)
(* that sends the file and the serial line between the two.                *)
(*                                                                         *)
(* The line carries bytes.  The host puts a block on it in one go; Gap     *)
(* stands for a pause longer than MODEM_TIMEOUT, which is three byte times *)
(* and as good as nothing to the host.  The other two timers, 2 s on the   *)
(* board and the host's own, are so long that they expire only when        *)
(* nothing is under way in either direction.                               *)
(***************************************************************************)
EXTENDS Integers, Sequences, SequencesExt

CONSTANTS
  NStx, NSoh,     \* the file: this many long blocks, then this many short ones
  StxSize,        \* data bytes of a long block (1024 in the code)
  SohSize,        \* data bytes of a short block (128 in the code)
  NumMod,         \* block numbers are counted modulo this (256 in the code)
  Faults,         \* what the line may do, see FaultKinds
  MaxFaults       \* bound: how often

FaultKinds == {"reply", "start", "number", "data", "gap"}

ASSUME ConstantsAssumption ==
  /\ NStx \in Nat /\ NSoh \in Nat
  /\ SohSize \in Nat \ {0} /\ StxSize \in Nat \ {0}
  /\ NumMod \in Nat /\ NumMod >= 2
  /\ Faults \subseteq FaultKinds /\ MaxFaults \in Nat

VARIABLES
  \* the board
  pc,             \* where ymodem_load() is, see Places
  blk,            \* number of the block expected
  size,           \* data bytes of the block being read
  num,            \* blk_num[0]
  count,          \* data bytes read of it
  curr_addr,      \* next cell to fill, relative to opt->load_addr
  load_size,      \* opt->load_size
  mem,            \* the memory from opt->load_addr on
  \* the host
  hpc,            \* what it waits for: "C0", "ack0", "C1", "ack", "ackEOT", "done"
  hblk,           \* the data block it is sending
  \* the line
  toBoard, toHost,
  faults,         \* what the line has garbled or lost so far
  lost            \* an answer of the board was lost

boardVars == <<pc, blk, size, num, count, curr_addr, load_size, mem>>
hostVars  == <<hpc, hblk>>
lineVars  == <<toBoard, toHost, faults, lost>>
vars      == <<boardVars, hostVars, lineVars>>

Places == {"start", "first", "num0", "num1", "flush", "head", "data",
           "crc0", "crc1", "done"}

-----------------------------------------------------------------------------
(* Bytes and blocks *)

SOH == 1
STX == 2
EOT == 4
ACK == 6
NAK == 21
CAN == 24
C   == 67

Gap  == -1
Junk == -2
Text == -3      \* the output of a printf(), on the same UART
CRC  == -4

NBlocks == NStx + NSoh

SizeOf(start) == IF start = STX THEN StxSize ELSE SohSize
StartOf(b)    == IF b \in 1 .. NStx THEN STX ELSE SOH

\* Where block b starts in the file, and its data: cell a holds 1000 + a.
Offset(b) ==
  IF b <= NStx + 1 THEN (b - 1) * StxSize
                   ELSE NStx * StxSize + (b - 1 - NStx) * SohSize
FileSize == Offset(NBlocks + 1)
Data(b)  == [i \in 1 .. SizeOf(StartOf(b)) |-> 1000 + Offset(b) + i - 1]
Window   == 0 .. FileSize + StxSize

\* Block 0 has the name of the file, which the board does not look at.
Block(b) ==
  <<StartOf(b), b % NumMod, NumMod - 1 - (b % NumMod)>>
    \o (IF b = 0 THEN [i \in 1 .. SohSize |-> Junk] ELSE Data(b))
    \o <<CRC, CRC>>

Init ==
  /\ pc = "start" /\ blk = 0 /\ size = 0 /\ num = 0 /\ count = 0
  /\ curr_addr = 0 /\ load_size = 0
  /\ mem = [a \in Window |-> Junk]
  /\ hpc = "C0" /\ hblk = 0
  /\ toBoard = <<>> /\ toHost = <<>> /\ faults = 0 /\ lost = FALSE

-----------------------------------------------------------------------------
(* Reading and sending on the board *)

\* uart_recv_byte_timeout(..., MODEM_TIMEOUT) with a byte, and without one.
Ready == toBoard # <<>> /\ Head(toBoard) # Gap

RecvInTime == Ready /\ toBoard' = Tail(toBoard)

TimedOut ==
  \/ toBoard = <<>> /\ UNCHANGED toBoard
  \/ toBoard # <<>> /\ Head(toBoard) = Gap /\ toBoard' = Tail(toBoard)

\* uart_recv_byte(), and a timeout of seconds, wait out a pause: the reader
\* stays where it is.
SitOut ==
  /\ pc \in {"first", "num0", "num1", "head"}
  /\ toBoard # <<>> /\ Head(toBoard) = Gap
  /\ toBoard' = Tail(toBoard)
  /\ UNCHANGED <<pc, blk, size, num, count, curr_addr, load_size, mem, toHost>>

Send(bytes) == toHost' = toHost \o bytes

\* Nothing is under way: what a timer of seconds waits for.
Quiet == toBoard = <<>> /\ toHost = <<>>

-----------------------------------------------------------------------------
(* ymodem_load() before the data *)

SendC ==
  /\ pc = "start"
  /\ pc' = "first"
  /\ Send(<<C>>)
  /\ UNCHANGED <<blk, size, num, count, curr_addr, load_size, mem, toBoard>>

\* Any byte that starts no block is answered by another 'C'.
FirstByte ==
  /\ pc = "first"
  /\ RecvInTime
  /\ IF Head(toBoard) \in {SOH, STX}
       THEN pc' = "num0" /\ size' = SizeOf(Head(toBoard))
       ELSE pc' = "start" /\ UNCHANGED size
  /\ UNCHANGED <<blk, num, count, curr_addr, load_size, mem, toHost>>

FirstTimeout ==
  /\ pc = "first"
  /\ Quiet
  /\ pc' = "start"
  /\ UNCHANGED <<blk, size, num, count, curr_addr, load_size, mem, toBoard, toHost>>

-----------------------------------------------------------------------------
(* ymodem_load(): the blocks *)

HeadByte ==
  /\ pc = "head"
  /\ RecvInTime
  /\ \/ /\ Head(toBoard) \in {SOH, STX}
        /\ pc' = "num0" /\ size' = SizeOf(Head(toBoard))
        /\ UNCHANGED toHost
     \/ /\ Head(toBoard) = EOT
        /\ pc' = "done"
        /\ Send(<<ACK, CAN, CAN, CAN, CAN, CAN, CAN>>)   \* modem_end_rx()
        /\ UNCHANGED size
     \/ /\ Head(toBoard) \notin {SOH, STX, EOT}
        /\ UNCHANGED <<pc, size, toHost>>
  /\ UNCHANGED <<blk, num, count, curr_addr, load_size, mem>>

\* if (ret < 0) continue, with nothing sent to the host.
HeadTimeout ==
  /\ pc = "head"
  /\ toBoard = <<>>
  /\ UNCHANGED <<boardVars, toBoard, toHost>>

Num0 ==
  /\ pc = "num0"
  /\ RecvInTime
  /\ pc' = "num1" /\ num' = Head(toBoard)
  /\ UNCHANGED <<blk, size, count, curr_addr, load_size, mem, toHost>>

\* Mutants of IsExpected: the number is not compared; it is not masked.
IsExpectedComplement(n, m) == n + m = NumMod - 1

IsExpectedUnmasked(n, m) == n + m = NumMod - 1 /\ n = blk

\* (blk_num[0] ^ blk_num[1]) == 0xFF and blk_num[0] == (blk & 0xFF)
IsExpected(n, m) == n + m = NumMod - 1 /\ n = blk % NumMod

\* The number of block 0 is read but not looked at.
Num1 ==
  /\ pc = "num1"
  /\ RecvInTime
  /\ IF blk > 0 /\ IsExpected(num, Head(toBoard))
       THEN pc' = "data" /\ count' = 0
       ELSE pc' = "flush" /\ UNCHANGED count
  /\ UNCHANGED <<blk, size, num, curr_addr, load_size, mem, toHost>>

\* uart_clear_buff()
FlushByte ==
  /\ pc = "flush"
  /\ RecvInTime
  /\ UNCHANGED <<boardVars, toHost>>

\* Mutant of Refuse: the refused block is acknowledged.
RefuseAck == Send(<<ACK>>)

Refuse == Send(<<NAK>>)

\* The end of block 0, and of a block that is refused.
FlushEnd ==
  /\ pc = "flush"
  /\ TimedOut
  /\ pc' = "head"
  /\ IF blk = 0 THEN blk' = 1 /\ Send(<<ACK, C>>)
                ELSE UNCHANGED blk /\ Refuse
  /\ UNCHANGED <<size, num, count, curr_addr, load_size, mem>>

\* Mutant of MoreData: count <= size.
MoreDataOff == count <= size

MoreData == count < size

DataByte ==
  /\ pc = "data"
  /\ MoreData
  /\ RecvInTime
  /\ mem' = [mem EXCEPT ![curr_addr + count] = Head(toBoard)]
  /\ count' = count + 1
  /\ UNCHANGED <<pc, blk, size, num, curr_addr, load_size, toHost>>

DataTimeout ==
  /\ pc = "data"
  /\ MoreData
  /\ TimedOut
  /\ pc' = "crc0"
  /\ Send(<<Text>>)
  /\ UNCHANGED <<blk, size, num, count, curr_addr, load_size, mem>>

DataEnd ==
  /\ pc = "data"
  /\ ~ MoreData
  /\ pc' = "crc0"
  /\ UNCHANGED <<blk, size, num, count, curr_addr, load_size, mem, toBoard, toHost>>

Crc0 ==
  /\ pc = "crc0"
  /\ RecvInTime \/ TimedOut
  /\ pc' = "crc1"
  /\ UNCHANGED <<blk, size, num, count, curr_addr, load_size, mem, toHost>>

\* Mutants of Accept: the size, and the address, are not advanced.
AcceptUncounted ==
  /\ curr_addr' = curr_addr + count
  /\ blk' = blk + 1
  /\ Send(<<ACK>>)
  /\ UNCHANGED load_size

AcceptInPlace ==
  /\ load_size' = load_size + count
  /\ blk' = blk + 1
  /\ Send(<<ACK>>)
  /\ UNCHANGED curr_addr

\* The block is taken and acknowledged, however many bytes it had.
Accept ==
  /\ curr_addr' = curr_addr + count
  /\ load_size' = load_size + count
  /\ blk' = blk + 1
  /\ Send(<<ACK>>)

Crc1 ==
  /\ pc = "crc1"
  /\ RecvInTime \/ TimedOut
  /\ Accept
  /\ pc' = "head"
  /\ UNCHANGED <<size, num, count, mem>>

BoardStep ==
  /\ \/ SendC \/ FirstByte \/ FirstTimeout \/ HeadByte \/ HeadTimeout
     \/ Num0 \/ Num1 \/ FlushByte \/ FlushEnd
     \/ DataByte \/ DataTimeout \/ DataEnd \/ Crc0 \/ Crc1 \/ SitOut
  /\ UNCHANGED <<hostVars, faults, lost>>

-----------------------------------------------------------------------------
(* The line *)

\* What may arrive instead of a message.
Garbled(m) ==
       {Tail(m) : x \in Faults \cap {"start"}}
  \cup {[m EXCEPT ![k] = Junk] :
          k \in IF "number" \in Faults THEN {2, 3} \cap DOMAIN m ELSE {}}
  \cup {RemoveAt(m, k) : k \in IF "data" \in Faults THEN 4 .. Len(m) - 2 ELSE {}}
  \cup {InsertAt(m, k, Gap) : k \in IF "gap" \in Faults THEN 2 .. Len(m) ELSE {}}

\* The host puts message m on the line, which may garble it.
Put(m) ==
  \/ toBoard' = toBoard \o m /\ UNCHANGED faults
  \/ /\ faults < MaxFaults
     /\ faults' = faults + 1
     /\ \E g \in Garbled(m) : toBoard' = toBoard \o g

LoseReply ==
  /\ "reply" \in Faults
  /\ toHost # <<>>
  /\ faults < MaxFaults
  /\ faults' = faults + 1
  /\ toHost' = Tail(toHost) /\ lost' = TRUE
  /\ UNCHANGED <<boardVars, hostVars, toBoard>>

-----------------------------------------------------------------------------
(* The host: a Y-modem sender that cannot stream *)

\* The message whose answer it waits for in state p.
Message(p, b) == IF p = "ackEOT" THEN <<EOT>> ELSE Block(b)

Waiting == {"ack0", "ack", "ackEOT"}

HostGoTo(p, b) ==
  /\ hpc' = p /\ hblk' = b
  /\ IF p \in Waiting THEN Put(Message(p, b)) ELSE UNCHANGED <<toBoard, faults>>

HostNextBlock ==
  IF hblk < NBlocks THEN HostGoTo("ack", hblk + 1) ELSE HostGoTo("ackEOT", hblk)

HostIgnore == UNCHANGED <<hostVars, toBoard, faults>>

HostReceive ==
  /\ toHost # <<>>
  /\ toHost' = Tail(toHost)
  /\ LET r == Head(toHost) IN
       CASE hpc = "C0" /\ r = C             -> HostGoTo("ack0", 0)
         [] hpc = "ack0" /\ r = ACK         -> HostGoTo("C1", 0)
         [] hpc = "C1" /\ r = C             -> HostNextBlock
         [] hpc = "ack" /\ r = ACK          -> HostNextBlock
         [] hpc = "ackEOT" /\ r = ACK       -> HostGoTo("done", hblk)
         [] hpc \in Waiting /\ r \in {NAK, C} -> HostGoTo(hpc, hblk)
         [] OTHER                           -> HostIgnore
  /\ UNCHANGED <<boardVars, lost>>

\* No answer at all: the message goes out again.
HostTimeout ==
  /\ hpc \in Waiting
  /\ Quiet
  /\ pc \in {"first", "num0", "num1", "head"}
  /\ HostGoTo(hpc, hblk)
  /\ UNCHANGED <<boardVars, toHost, lost>>

-----------------------------------------------------------------------------
(* Specifications *)

\* ymodem_load() has returned and the host has nothing more to read.
Returned == pc = "done" /\ toHost = <<>> /\ UNCHANGED vars

Next == BoardStep \/ HostReceive \/ HostTimeout \/ LoseReply \/ Returned

Spec == Init /\ [][Next]_vars

\* The board polls the UART all the time, and the host does not give up.
FairSpec ==
  /\ Spec
  /\ WF_vars(BoardStep)
  /\ WF_vars(HostReceive)
  /\ WF_vars(HostTimeout)

-----------------------------------------------------------------------------
(* Properties *)

\* Every variable keeps its type; a block never gets more data than it has
\* room for, on any line.
TypeOK ==
  /\ pc \in Places
  /\ blk \in Nat /\ size \in {0, SohSize, StxSize}
  /\ count \in Nat /\ (pc \in {"data", "crc0", "crc1"} => count <= size)
  /\ curr_addr \in Nat /\ load_size \in Nat /\ num \in Int
  /\ mem \in [Window -> Int]
  /\ hpc \in Waiting \cup {"C0", "C1", "done"} /\ hblk \in 0 .. NBlocks
  /\ toBoard \in Seq(Int) /\ toHost \in Seq(Int)
  /\ faults \in 0 .. MaxFaults /\ lost \in BOOLEAN

\* The load_size bytes counted so far are the beginning of the file, though
\* blocks come again when their acknowledgement is lost or late.
ImageIsPrefix ==
  /\ load_size <= FileSize
  /\ \A a \in 0 .. load_size - 1 : mem[a] = 1000 + a

\* ymodem_load() returns only with the whole file.
LoadedIsWhole == pc = "done" => load_size = FileSize

\* The host never leaves a block behind that the board has not stored.
AnsweredIsStored == load_size >= Offset(IF hpc = "done" THEN NBlocks + 1 ELSE hblk)

\* On any line: bytes of a refused or broken block never touch what was
\* acknowledged before, and that is never given back.
AcceptedStays ==
  [][/\ load_size' >= load_size
     /\ \A a \in Window : a < load_size => mem'[a] = mem[a]]_vars

\* ymodem_load() as a serial loader that stores blocks.
LoadedImage ==
  [b \in 1 .. blk - 1 |-> [i \in 1 .. SizeOf(StartOf(b)) |-> mem[Offset(b) + i - 1]]]

LoadStatus == IF pc = "done" THEN "loaded" ELSE "running"

Load == INSTANCE SerialLoad WITH
          File   <- [b \in 1 .. NBlocks |-> Data(b)],
          image  <- LoadedImage,
          status <- LoadStatus

ImplementsSerialLoad == Load!Spec

\* A transfer whose answers all arrive comes to its end, though blocks are
\* refused and sent again.
LoadCompletes == [](~ lost) => <>(pc = "done")
=============================================================================
