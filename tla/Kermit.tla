------------------------------- MODULE Kermit -------------------------------
(***************************************************************************)
(* kermit_load() of core/kermit_loader.c: the receiving end of a Kermit    *)
(* file transfer, at the granularity of one packet per step, together      *)
(* with the host that sends the file and the serial line between the two.  *)
(*                                                                         *)
(* The host sends packets 0 .. LastPkt in order: send-init 'S', file       *)
(* header 'F', NData data packets 'D', end of file 'Z' and break 'B'.  It  *)
(* repeats a packet until it is answered.  The payload of packet p is      *)
(* represented by the number p; memory is counted in payloads, so a data   *)
(* packet fills one cell at load_addr.                                     *)
(*                                                                         *)
(* A frame on the line is a record of what the receiver tells apart:       *)
(*   seq    the decoded sequence character                                 *)
(*   type   the type character                                             *)
(*   cells  the payloads its data field decodes to                         *)
(*   sum    the check character agrees with the rest of the frame          *)
(*   term   its carriage return is there (else it runs into the next)      *)
(***************************************************************************)
EXTENDS Integers, Sequences

CONSTANTS
  NData,          \* number of data packets the file is cut into
  SeqMod,         \* sequence numbers are counted modulo this (64 in the code)
  LineCap,        \* bound: frames, and replies, in flight
  MaxFaults       \* bound: frames the line damages (losses are not counted)

ASSUME ConstantsAssumption ==
  /\ NData \in Nat
  /\ SeqMod \in Nat /\ SeqMod >= 2
  /\ LineCap \in Nat \ {0}
  /\ MaxFaults \in Nat

VARIABLES
  \* the board: locals of kermit_load() and what its pointers reach
  real_seq,       \* sequence number expected next
  type,           \* type of the packet looked at last
  curr_addr,      \* next cell to fill, relative to opt->load_addr
  load_size,      \* opt->load_size
  mem,            \* the memory from opt->load_addr on
  status,         \* "running", then what kermit_load() returned
  \* the host
  hpkt,           \* packet it is sending; LastPkt + 1 when all are answered
  hseq,           \* its sequence number
  \* the line
  toBoard,        \* frames on their way to the board
  toHost,         \* replies on their way to the host
  faults          \* number of frames damaged so far

boardVars == <<real_seq, type, curr_addr, load_size, mem, status>>
hostVars  == <<hpkt, hseq>>
vars      == <<boardVars, hostVars, toBoard, toHost, faults>>

-----------------------------------------------------------------------------
(* Packets, frames and replies *)

FirstData == 2
LastPkt   == NData + 3
Packets   == 0 .. LastPkt
SeqNums   == 0 .. SeqMod - 1
Types     == {"S", "F", "D", "Z", "B"}
Junk      == -1
Window    == 0 .. NData + 1     \* the memory cells that are modelled

TypeOf(p) ==
  CASE p = 0             -> "S"
    [] p = 1             -> "F"
    [] p = NData + 2     -> "Z"
    [] p >= NData + 3    -> "B"
    [] OTHER             -> "D"

\* Mutant of NextSeq: the mask & 63 is missing.
NextSeqUnmasked(s) == s + 1

\* The successor of a sequence number, (s + 1) & 63 in the code.
NextSeq(s) == IF s = SeqMod - 1 THEN 0 ELSE s + 1

\* The frame of packet p as the host puts it on the line.
Frame(p, s) ==
  [seq |-> s, type |-> TypeOf(p), cells |-> <<p>>, sum |-> TRUE, term |-> TRUE]

Frames ==
  [seq: SeqNums, type: Types, cells: Seq(Packets \cup {Junk}),
   sum: BOOLEAN, term: BOOLEAN]

Replies == [type: {"Y", "N"}, seq: SeqNums]

Init ==
  /\ real_seq = 0 /\ type = "B"
  /\ curr_addr = 0 /\ load_size = 0
  /\ mem = [a \in Window |-> Junk]
  /\ status = "running"
  /\ hpkt = 0 /\ hseq = 0
  /\ toBoard = <<>> /\ toHost = <<>>
  /\ faults = 0

-----------------------------------------------------------------------------
(* The board *)

\* while (MARK_START != uart_recv_byte()) and the loop after it: the buffer
\* is filled up to a carriage return, with n frames if n - 1 of those were
\* lost.  What is decoded is the first of them.
ReceiveFrame(n) ==
  /\ status = "running"
  /\ n <= Len(toBoard)
  /\ toBoard[n].term
  /\ \A k \in 1 .. n - 1 : ~ toBoard[k].term
  /\ toBoard' = SubSeq(toBoard, n + 1, Len(toBoard))

\* send_ack_packet(): the answer goes out while the line has room for it.
SendAckPacket(s, t) ==
  /\ Len(toHost) < LineCap
  /\ toHost' = Append(toHost, [type |-> t, seq |-> s])

\* Mutant of Count: the test type != KERM_TYPE_DATA is missing.
CountAnyType(f) == Len(f.cells)

\* The cells a frame fills from curr_addr on; only data packets fill any.
Count(f) == IF f.type = "D" THEN Len(f.cells) ELSE 0

StoreCells(f) ==
  mem' = [a \in Window |->
            IF a \in curr_addr .. curr_addr + Count(f) - 1
              THEN f.cells[a - curr_addr + 1] ELSE mem[a]]

\* Mutant of LoopWhile: while (type == KERM_TYPE_DATA).
LoopWhileData(t) == status' = IF t = "D" THEN "running" ELSE "loaded"

\* The condition of the do-while, reached at its end and by every continue.
LoopWhile(t) == status' = IF t = "B" THEN "loaded" ELSE "running"

\* Mutants of BoardSeqError: a frame out of order is refused by the number
\* after the expected one; it is dropped without an answer.
BoardSeqErrorNackNext(f) ==
  /\ f.seq # real_seq
  /\ SendAckPacket(NextSeq(real_seq), "N")
  /\ LoopWhile(type)
  /\ UNCHANGED <<real_seq, type, curr_addr, load_size, mem>>

BoardSeqErrorSilent(f) ==
  /\ f.seq # real_seq
  /\ LoopWhile(type)
  /\ UNCHANGED <<real_seq, type, curr_addr, load_size, mem, toHost>>

\* seq != real_seq: the frame is refused by the number that is expected.
BoardSeqError(f) ==
  /\ f.seq # real_seq
  /\ SendAckPacket(real_seq, "N")
  /\ LoopWhile(type)
  /\ UNCHANGED <<real_seq, type, curr_addr, load_size, mem>>

\* Mutant of BoardDecode: the sequence number is not compared.
BoardDecodeAnySeq(f) ==
  /\ real_seq' = NextSeq(real_seq)
  /\ type' = f.type
  /\ StoreCells(f)

\* The number is the expected one: it is counted, the type is noted and the
\* data is decoded to curr_addr, before anything else is looked at.
BoardDecode(f) ==
  /\ f.seq = real_seq
  /\ real_seq' = NextSeq(real_seq)
  /\ type' = f.type
  /\ StoreCells(f)

BoardChecksumError(f) ==
  /\ BoardDecode(f)
  /\ ~ f.sum
  /\ SendAckPacket(real_seq', "N")
  /\ LoopWhile(f.type)
  /\ UNCHANGED <<curr_addr, load_size>>

\* No carriage return behind the check character: return -EFAULT.
BoardTermError(f) ==
  /\ BoardDecode(f)
  /\ f.sum /\ ~ f.term
  /\ status' = "fault"
  /\ UNCHANGED <<curr_addr, load_size, toHost>>

\* Mutants of BoardAccept: curr_addr += count is missing; the checksum is not
\* compared.
BoardAcceptInPlace(f) ==
  /\ BoardDecode(f)
  /\ f.sum /\ f.term
  /\ load_size' = load_size + Count(f)
  /\ SendAckPacket(f.seq, "Y")
  /\ LoopWhile(f.type)
  /\ UNCHANGED curr_addr

BoardAcceptUnchecked(f) ==
  /\ BoardDecode(f)
  /\ f.term
  /\ curr_addr' = curr_addr + Count(f)
  /\ load_size' = load_size + Count(f)
  /\ SendAckPacket(f.seq, "Y")
  /\ LoopWhile(f.type)

BoardAccept(f) ==
  /\ BoardDecode(f)
  /\ f.sum /\ f.term
  /\ curr_addr' = curr_addr + Count(f)
  /\ load_size' = load_size + Count(f)
  /\ SendAckPacket(f.seq, "Y")
  /\ LoopWhile(f.type)

BoardFrame ==
  /\ \E n \in 1 .. LineCap : ReceiveFrame(n)
  /\ LET f == toBoard[1] IN
       \/ BoardSeqError(f)
       \/ BoardChecksumError(f)
       \/ BoardTermError(f)
       \/ BoardAccept(f)
  /\ UNCHANGED <<hostVars, faults>>

-----------------------------------------------------------------------------
(* The host: a Kermit sender with a window of one packet *)

\* It sends its packet, again and again until there is an answer.
HostSend ==
  /\ hpkt <= LastPkt
  /\ Len(toBoard) < LineCap
  /\ toBoard' = Append(toBoard, Frame(hpkt, hseq))
  /\ UNCHANGED <<boardVars, hostVars, toHost, faults>>

\* 'Y' n answers packet n.  'N' n asks for packet n, so it answers packet
\* n - 1 as well: the board sends it when it is offered packet n - 1 again.
Answers(r) ==
  \/ r.type = "Y" /\ r.seq = hseq
  \/ r.type = "N" /\ r.seq = NextSeq(hseq)

HostReceive ==
  /\ toHost # <<>>
  /\ toHost' = Tail(toHost)
  /\ IF hpkt <= LastPkt /\ Answers(Head(toHost))
       THEN hpkt' = hpkt + 1 /\ hseq' = NextSeq(hseq)
       ELSE UNCHANGED hostVars
  /\ UNCHANGED <<boardVars, toBoard, faults>>

-----------------------------------------------------------------------------
(* The line *)

\* A frame without its start mark is skipped by the board as a whole.
LoseFrame ==
  /\ toBoard # <<>>
  /\ toBoard' = Tail(toBoard)
  /\ UNCHANGED <<boardVars, hostVars, toHost, faults>>

\* A reply that is lost, or whose own check fails at the host.
LoseReply ==
  /\ toHost # <<>>
  /\ toHost' = Tail(toHost)
  /\ UNCHANGED <<boardVars, hostVars, toBoard, faults>>

\* What damage can make of a frame: any other frame, of which the check
\* character tells, or the frame without its carriage return, which it does not
\* cover.  Damage that leaves the six bits of the check character right is left
\* out.  A damaged length makes the data field shorter or longer.
Damaged(f) ==
  {[seq |-> s, type |-> t, cells |-> c, sum |-> FALSE, term |-> cr] :
     s \in SeqNums, t \in Types, cr \in BOOLEAN,
     c \in {<<>>, <<Junk>>, f.cells, f.cells \o <<Junk>>}}
  \cup {[f EXCEPT !.term = FALSE]}

DamageFrame ==
  /\ toBoard # <<>>
  /\ faults < MaxFaults
  /\ faults' = faults + 1
  /\ Head(toBoard).sum /\ Head(toBoard).term
  /\ \E g \in Damaged(Head(toBoard)) : toBoard' = <<g>> \o Tail(toBoard)
  /\ UNCHANGED <<boardVars, hostVars, toHost>>

-----------------------------------------------------------------------------
(* Specifications *)

\* kermit_load() has returned.
Returned == status # "running" /\ UNCHANGED vars

LossyNext ==
  BoardFrame \/ HostSend \/ HostReceive \/ LoseFrame \/ LoseReply \/ Returned

Next == LossyNext \/ DamageFrame

\* A line that loses whole frames and replies but damages none.
LossySpec == Init /\ [][LossyNext]_vars

\* A line that damages frames as well.
Spec == Init /\ [][Next]_vars

\* The host keeps sending, and a line that is used over and over delivers
\* some of what is sent; the board polls the UART and always answers.
FairLossySpec ==
  /\ LossySpec
  /\ WF_vars(HostSend)
  /\ SF_vars(BoardFrame)
  /\ SF_vars(HostReceive)

-----------------------------------------------------------------------------
(* Properties *)

\* Every variable keeps its type, on any line.
TypeOK ==
  /\ real_seq \in SeqNums
  /\ type \in Types
  /\ curr_addr \in Nat /\ load_size \in Nat
  /\ mem \in [Window -> Packets \cup {Junk}]
  /\ status \in {"running", "loaded", "fault"}
  /\ hpkt \in 0 .. LastPkt + 1 /\ hseq \in SeqNums
  /\ toBoard \in Seq(Frames) /\ toHost \in Seq(Replies)
  /\ faults \in 0 .. MaxFaults

\* What the first load_size cells hold is the beginning of the file:
\* no packet is missing, doubled or out of place (curr_addr += count).
ImageIsPrefix ==
  /\ load_size <= NData
  /\ \A a \in 0 .. load_size - 1 : mem[a] = FirstData + a

\* A data packet that the host has left behind, on whatever answer, is in
\* the image: the board never talks the host out of data it did not keep.
AnsweredIsStored ==
  \A p \in FirstData .. NData + 1 :
    p < hpkt => \E a \in 0 .. load_size - 1 : a \in Window /\ mem[a] = p

\* A successful return comes with the whole file.
LoadedIsWhole == status = "loaded" => load_size = NData

\* On a line whose damage the check character tells, or that loses carriage
\* returns, each cell counted into the image holds a data packet of the file, and
\* they stand in the order of the file: what may be missing is never made up for
\* by a repetition, nor by a packet that carries no data.
ImageInOrder ==
  /\ \A a \in 0 .. load_size - 1 : a \in Window /\ mem[a] \in FirstData .. NData + 1
  /\ \A a, b \in 0 .. load_size - 1 : a < b => mem[a] < mem[b]

\* Decoding a frame that is refused in the end never touches what was
\* accepted before, and accepted data is never given back.
AcceptedStays ==
  [][/\ load_size' >= load_size
     /\ \A a \in Window : a < load_size => mem'[a] = mem[a]]_vars

\* kermit_load() as a serial loader: cell i holds data packet i + 1.
LoadedImage == [i \in 1 .. load_size |-> mem[i - 1]]

Load == INSTANCE SerialLoad WITH
          File  <- [i \in 1 .. NData |-> FirstData + i - 1],
          image <- LoadedImage

ImplementsSerialLoad == Load!Spec

\* The transfer ends with the file loaded, if the line delivers at all.
LoadCompletes == <>(status = "loaded")
=============================================================================
