----------------------------- MODULE YmodemInv ------------------------------
(***************************************************************************)
(* The inductive invariant of Ymodem on a line that loses answers and      *)
(* garbles block numbers.  Host and board take turns: there is never more  *)
(* than one message under way, and the board knows which byte comes next.  *)
(* YmodemProofs proves it.                                                 *)
(***************************************************************************)
EXTENDS Ymodem

\* Bytes s are what is left, from byte k on, of the message the host sends in
\* state p; the number of a block and its complement may be garbled.
RestOf(s, p, b, k) ==
  /\ p \in Waiting
  /\ Len(s) = Len(Message(p, b)) - k + 1
  /\ \A i \in 1 .. Len(s) :
       \/ s[i] = Message(p, b)[k + i - 1]
       \/ p # "ackEOT" /\ k + i - 1 \in {2, 3} /\ s[i] = Junk

OnLine(k) == RestOf(toBoard, hpc, hblk, k)

\* While the board reads a message no answer is under way, and what it reads
\* next is the byte of its place.
TurnInv ==
  /\ pc \in {"start", "done"} => toBoard = <<>>
  /\ pc \in {"first", "head"} /\ toBoard # <<>> => OnLine(1) /\ toHost = <<>>
  /\ pc = "num0" => OnLine(2)
  /\ pc = "num1" => OnLine(3) /\ num \in {hblk % NumMod, Junk}
  /\ pc = "data" => OnLine(4 + count)
  /\ pc = "crc0" => OnLine(4 + size)
  /\ pc = "crc1" => OnLine(5 + size)
  /\ pc = "flush" => \E k \in 1 .. Len(Message(hpc, hblk)) + 1 : OnLine(k)
  /\ pc \in {"num0", "num1", "data", "crc0", "crc1"} => size = SizeOf(StartOf(hblk))
  /\ pc \in {"num0", "num1", "data", "crc0", "crc1", "flush"} =>
       toHost = <<>> /\ hpc \in {"ack0", "ack"}

\* The board expects the block the host sends, or has it already.
StepRel ==
  /\ blk = 0 => pc \in {"start", "first", "num0", "num1", "flush"}
  /\ blk > 0 => pc \notin {"start", "first"}
  /\ hpc = "C0" => hblk = 0 /\ blk = 0 /\ pc \in {"start", "first"} /\ toBoard = <<>>
  /\ hpc = "ack0" =>
       /\ hblk = 0 /\ blk \in {0, 1} /\ pc \notin {"data", "crc0", "crc1", "done"}
       /\ blk = 0 => toHost = <<>> /\ pc # "start" /\ (pc = "first" => toBoard # <<>>)
       /\ toHost \in {<<>>, <<C>>, <<ACK, C>>, <<NAK>>}
  /\ hpc = "C1" =>
       hblk = 0 /\ blk = 1 /\ pc = "head" /\ toBoard = <<>> /\ toHost \in {<<>>, <<C>>}
  /\ hpc = "ack" =>
       /\ hblk \in 1 .. NBlocks /\ blk \in {hblk, hblk + 1} /\ pc # "done"
       /\ toHost \in {<<>>, <<ACK>>, <<NAK>>}
       /\ toHost = <<ACK>> => blk = hblk + 1
  /\ hpc \in {"ackEOT", "done"} =>
       hblk = NBlocks /\ blk = NBlocks + 1 /\ pc \in {"head", "done"}
  /\ hpc = "ackEOT" /\ pc = "head" => toHost = <<>>
  /\ hpc = "done" => pc = "done"
  /\ pc \in {"data", "crc0", "crc1"} => blk = hblk
  /\ pc \in {"data", "crc0", "crc1"} => hpc = "ack"
  /\ pc = "start" => toHost = <<>>
  /\ pc = "done" => \A i \in 1 .. Len(toHost) : toHost[i] \in {ACK, CAN}
  /\ toHost # <<>> /\ pc = "first" => toHost = <<C>>

\* Memory holds the blocks before blk, and what has been read of this one.
MemInv ==
  /\ curr_addr = load_size /\ load_size = IF blk = 0 THEN 0 ELSE Offset(blk)
  /\ \A a \in 0 .. load_size - 1 : mem[a] = 1000 + a
  /\ pc \in {"data", "crc0", "crc1"} =>
       /\ count <= size
       /\ \A a \in load_size .. load_size + count - 1 : mem[a] = 1000 + a
  /\ pc \in {"crc0", "crc1"} => count = size

\* With TypeOK this is inductive on such a line.
StepInv == TurnInv /\ StepRel /\ MemInv
=============================================================================
