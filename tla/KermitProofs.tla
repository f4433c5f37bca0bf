---------------------------- MODULE KermitProofs ----------------------------
(***************************************************************************)
(* Proofs about Kermit.  On any line: types, and that accepted data stays. *)
(* On a line that loses whole frames and replies but damages none: the     *)
(* image is the beginning of the file, what was answered is in it, and a   *)
(* successful return comes with all of it.  On a line that damages fewer   *)
(* frames than there are numbers less one: the image is in order.          *)
(***************************************************************************)
EXTENDS KermitInv, TLAPS

USE ConstantsAssumption

-----------------------------------------------------------------------------
(* Sequence numbers and sequences *)

\* The successor of a sequence number is another sequence number, and PrevSeq
\* is its inverse: real_seq = (real_seq + 1) & 63.
LEMMA SeqNumsCycle ==
  /\ \A s \in SeqNums : NextSeq(s) \in SeqNums /\ NextSeq(s) # s
  /\ \A s \in SeqNums : PrevSeq(s) \in SeqNums /\ PrevSeq(s) # s
  /\ \A s \in SeqNums : PrevSeq(NextSeq(s)) = s /\ NextSeq(PrevSeq(s)) = s
  /\ \A s, t \in SeqNums : NextSeq(s) = NextSeq(t) => s = t
BY DEF SeqNums, NextSeq, PrevSeq

\* What is left of a line when n frames have been taken off it.
LEMMA DropFirst ==
  ASSUME NEW S, NEW q \in Seq(S), NEW n \in 1 .. Len(q)
  PROVE  /\ SubSeq(q, n + 1, Len(q)) \in Seq(S)
         /\ Len(SubSeq(q, n + 1, Len(q))) = Len(q) - n
         /\ \A i \in 1 .. Len(q) - n : SubSeq(q, n + 1, Len(q))[i] = q[i + n]
OBVIOUS

\* The type of a packet is one of the five.
LEMMA TypeOfType == \A p \in Nat : TypeOf(p) \in Types
BY DEF TypeOf, Types

\* Which packets carry data, and which end the transfer.
LEMMA TypeOfPacket ==
  ASSUME NEW p \in Nat
  PROVE  /\ TypeOf(p) = "D" <=> p \in FirstData .. NData + 1
         /\ TypeOf(p) = "B" <=> p >= LastPkt
BY DEF TypeOf, FirstData, LastPkt

-----------------------------------------------------------------------------
(* On any line *)

LEMMA FrameType == \A p \in Packets, s \in SeqNums : Frame(p, s) \in Frames
BY TypeOfType DEF Frame, Frames, Packets, LastPkt

\* What any damage makes of a frame is a frame.
LEMMA DamagedType ==
  ASSUME NEW f \in Frames, NEW g \in Damaged(f)
  PROVE  g \in Frames
<1>1. {<<>>, <<Junk>>, f.cells, f.cells \o <<Junk>>} \subseteq Seq(Packets \cup {Junk})
  BY DEF Frames
<1>2. CASE \E s \in SeqNums, t \in Types, cr \in BOOLEAN,
              c \in {<<>>, <<Junk>>, f.cells, f.cells \o <<Junk>>} :
             g = [seq |-> s, type |-> t, cells |-> c, sum |-> FALSE, term |-> cr]
  <2>1. PICK s \in SeqNums, t \in Types, cr \in BOOLEAN,
             c \in {<<>>, <<Junk>>, f.cells, f.cells \o <<Junk>>} :
          g = [seq |-> s, type |-> t, cells |-> c, sum |-> FALSE, term |-> cr]
    BY <1>2
  <2>2. c \in Seq(Packets \cup {Junk})
    BY <1>1
  <2> QED  BY <2>1, <2>2 DEF Frames
<1>3. CASE g = [f EXCEPT !.term = FALSE]
  BY <1>3 DEF Frames
<1> QED  BY <1>2, <1>3 DEF Damaged

\* A board step looks at the first frame and takes some off the line.
LEMMA BoardTakes ==
  ASSUME TypeOK, BoardFrame
  PROVE  /\ status = "running" /\ Len(toBoard) >= 1 /\ toBoard[1] \in Frames
         /\ toBoard' \in Seq(Frames)
         /\ UNCHANGED <<hpkt, hseq, faults>>
<1>1. PICK n \in 1 .. LineCap : ReceiveFrame(n)
  BY DEF BoardFrame
<1>2. n \in 1 .. Len(toBoard)
  BY <1>1 DEF ReceiveFrame, TypeOK
<1> QED  BY <1>1, <1>2, DropFirst DEF ReceiveFrame, TypeOK, BoardFrame, hostVars

\* Storing the cells of a frame keeps the type of the memory.
LEMMA StoreCellsType ==
  ASSUME TypeOK, NEW f \in Frames, StoreCells(f)
  PROVE  mem' \in [Window -> Packets \cup {Junk}] /\ Count(f) \in Nat
<1>1. Count(f) \in 0 .. Len(f.cells)
  BY DEF Count, Frames
<1>2. ASSUME NEW a \in Window, a \in curr_addr .. curr_addr + Count(f) - 1
      PROVE  f.cells[a - curr_addr + 1] \in Packets \cup {Junk}
  <2>1. a - curr_addr + 1 \in 1 .. Len(f.cells)
    BY <1>1, <1>2 DEF Window, TypeOK, Frames
  <2> QED  BY <2>1 DEF Frames
<1> QED  BY <1>1, <1>2 DEF StoreCells, TypeOK, Frames

LEMMA BoardFrameType == TypeOK /\ BoardFrame => TypeOK'
<1> SUFFICES ASSUME TypeOK, BoardFrame PROVE TypeOK'
  OBVIOUS
<1> DEFINE f == toBoard[1]
<1>1. f \in Frames /\ toBoard' \in Seq(Frames) /\ UNCHANGED <<hpkt, hseq, faults>>
  BY BoardTakes
<1>2. f.seq \in SeqNums /\ f.type \in Types
  BY <1>1 DEF Frames
<1>3. real_seq \in SeqNums /\ NextSeq(real_seq) \in SeqNums
  BY SeqNumsCycle DEF TypeOK
<1> HIDE DEF f
<1>4. ASSUME NEW s \in SeqNums, NEW t \in {"Y", "N"}, SendAckPacket(s, t)
      PROVE  toHost' \in Seq(Replies)
  BY <1>4 DEF SendAckPacket, TypeOK, Replies
<1>5. ASSUME BoardDecode(f)
      PROVE  /\ real_seq' \in SeqNums /\ type' \in Types /\ Count(f) \in Nat
             /\ mem' \in [Window -> Packets \cup {Junk}]
  BY <1>1, <1>2, <1>3, <1>5, StoreCellsType DEF BoardDecode
<1>6. CASE BoardSeqError(f)
  BY <1>1, <1>3, <1>4, <1>6 DEF BoardSeqError, LoopWhile, TypeOK
<1>7. CASE BoardChecksumError(f)
  BY <1>1, <1>4, <1>5, <1>7 DEF BoardChecksumError, LoopWhile, TypeOK
<1>8. CASE BoardTermError(f)
  BY <1>1, <1>5, <1>8 DEF BoardTermError, TypeOK
<1>9. CASE BoardAccept(f)
  BY <1>1, <1>2, <1>4, <1>5, <1>9 DEF BoardAccept, LoopWhile, TypeOK
<1> QED  BY <1>6, <1>7, <1>8, <1>9 DEF BoardFrame, f

LEMMA TypeInduction == TypeOK /\ [Next]_vars => TypeOK'
<1> SUFFICES ASSUME TypeOK, [Next]_vars PROVE TypeOK'
  OBVIOUS
<1> USE DEF vars, boardVars, hostVars
<1>1. CASE BoardFrame
  BY <1>1, BoardFrameType
<1>2. CASE HostSend
  <2>1. Frame(hpkt, hseq) \in Frames
    BY <1>2, FrameType DEF HostSend, TypeOK, Packets, LastPkt
  <2> QED  BY <1>2, <2>1 DEF HostSend, TypeOK
<1>3. CASE HostReceive
  <2>1. toHost' \in Seq(Replies)
    BY <1>3 DEF HostReceive, TypeOK
  <2>2. hpkt' \in 0 .. LastPkt + 1 /\ hseq' \in SeqNums
    BY <1>3, SeqNumsCycle DEF HostReceive, TypeOK, LastPkt
  <2> QED  BY <1>3, <2>1, <2>2 DEF HostReceive, TypeOK
<1>4. CASE LoseFrame
  BY <1>4 DEF LoseFrame, TypeOK
<1>5. CASE LoseReply
  BY <1>5 DEF LoseReply, TypeOK
<1>6. CASE DamageFrame
  <2>1. PICK g \in Damaged(Head(toBoard)) : toBoard' = <<g>> \o Tail(toBoard)
    BY <1>6 DEF DamageFrame
  <2>2. Head(toBoard) \in Frames /\ Tail(toBoard) \in Seq(Frames)
    BY <1>6 DEF DamageFrame, TypeOK
  <2>3. toBoard' \in Seq(Frames)
    BY <2>1, <2>2, DamagedType
  <2> QED  BY <1>6, <2>3 DEF DamageFrame, TypeOK
<1>7. CASE Returned
  BY <1>7 DEF Returned, TypeOK
<1>8. CASE UNCHANGED vars
  BY <1>8 DEF TypeOK
<1> QED  BY <1>1, <1>2, <1>3, <1>4, <1>5, <1>6, <1>7, <1>8 DEF Next, LossyNext

LEMMA TypeInit == Init => TypeOK
BY DEF Init, TypeOK, SeqNums, Types, LastPkt

\* kermit_load() and its host keep every variable in its type, whatever the
\* line does to the frames.
THEOREM TypeCorrect == Spec => []TypeOK
BY TypeInit, TypeInduction, PTL DEF Spec

-----------------------------------------------------------------------------
(* On any line: accepted data stays *)

\* Both counters of the code, curr_addr += count and load_size += count, move
\* together, so decoding at curr_addr is decoding behind the image.
LoadAtCurr == load_size = curr_addr

LEMMA LoadAtCurrInduction == LoadAtCurr /\ [Next]_vars => LoadAtCurr'
BY DEF LoadAtCurr, Next, LossyNext, BoardFrame, BoardSeqError, BoardChecksumError,
       BoardTermError, BoardAccept, HostSend, HostReceive, LoseFrame, LoseReply,
       DamageFrame, Returned, vars, boardVars

LEMMA BoardKeeps ==
  ASSUME TypeOK, LoadAtCurr, BoardFrame
  PROVE  /\ load_size' >= load_size
         /\ \A a \in Window : a < load_size => mem'[a] = mem[a]
<1> DEFINE f == toBoard[1]
<1>1. f \in Frames
  BY BoardTakes
<1> HIDE DEF f
<1>2. ASSUME BoardDecode(f)
      PROVE  /\ Count(f) \in Nat
             /\ \A a \in Window : a < load_size => mem'[a] = mem[a]
  BY <1>1, <1>2, StoreCellsType
     DEF BoardDecode, StoreCells, LoadAtCurr, TypeOK, Window
<1>3. CASE BoardSeqError(f)
  BY <1>3 DEF BoardSeqError, TypeOK
<1>4. CASE BoardChecksumError(f)
  BY <1>2, <1>4 DEF BoardChecksumError, TypeOK
<1>5. CASE BoardTermError(f)
  BY <1>2, <1>5 DEF BoardTermError, TypeOK
<1>6. CASE BoardAccept(f)
  BY <1>2, <1>6 DEF BoardAccept, TypeOK
<1> QED  BY <1>3, <1>4, <1>5, <1>6 DEF BoardFrame, f

\* The step that AcceptedStays allows.
Keeps ==
  /\ load_size' >= load_size
  /\ \A a \in Window : a < load_size => mem'[a] = mem[a]

LEMMA NextKeeps == TypeOK /\ LoadAtCurr /\ [Next]_vars => [Keeps]_vars
<1> SUFFICES ASSUME TypeOK, LoadAtCurr, [Next]_vars PROVE Keeps
  OBVIOUS
<1>1. CASE BoardFrame
  BY <1>1, BoardKeeps DEF Keeps
<1>2. CASE UNCHANGED boardVars
  BY <1>2 DEF Keeps, boardVars, TypeOK
<1> QED  BY <1>1, <1>2 DEF Next, LossyNext, HostSend, HostReceive, LoseFrame,
                           LoseReply, DamageFrame, Returned, vars

\* Whatever the line does, decoding a frame that is refused in the end leaves
\* the accepted part of the image as it was, and load_size never goes down.
THEOREM AcceptedDataStays == Spec => AcceptedStays
<1>1. Init => LoadAtCurr
  BY DEF Init, LoadAtCurr
<1>2. Spec => [][Keeps]_vars
  BY <1>1, LoadAtCurrInduction, NextKeeps, TypeCorrect, PTL DEF Spec
<1> QED  BY <1>2 DEF AcceptedStays, Keeps

-----------------------------------------------------------------------------
(* On a line that loses frames and replies: the inductive invariant *)

LEMMA StepInvInit == Init => StepInv
BY DEF Init, StepInv, InStep, FramesInOrder, RepliesInOrder, ImageIsGot,
       EndsWithBreak, Got, Stored, LastPkt, FirstData, SeqNums

\* A line that damages nothing holds only what the host put on it, so a frame
\* with the expected number is the host's packet and everything behind it is
\* the same packet again.
LEMMA HeadFrame ==
  ASSUME TypeOK, StepInv, BoardFrame
  PROVE  LET f == toBoard[1] IN
         /\ toBoard # <<>> /\ toBoard' = Tail(toBoard)
         /\ f.sum /\ f.term
         /\ f.seq # real_seq => Got > 0
         /\ f.seq = real_seq =>
              /\ real_seq = hseq
              /\ \A i \in 1 .. Len(toBoard) : IsCurrent(toBoard[i])
<1>1. PICK n \in 1 .. LineCap : ReceiveFrame(n)
  BY DEF BoardFrame
<1>2. n \in 1 .. Len(toBoard) /\ toBoard # <<>>
  BY <1>1 DEF ReceiveFrame, TypeOK
<1>3. \A i \in 1 .. Len(toBoard) : toBoard[i].sum /\ toBoard[i].term
  BY DEF StepInv, FramesInOrder, IsCurrent, IsOld, Frame
<1>4. n = 1
  BY <1>1, <1>2, <1>3 DEF ReceiveFrame
<1>5. toBoard' = Tail(toBoard)
  BY <1>1, <1>2, <1>4 DEF ReceiveFrame, TypeOK
<1>6. IsCurrent(toBoard[1]) \/ IsOld(toBoard[1])
  BY <1>2 DEF StepInv, FramesInOrder
<1>7. IsCurrent(toBoard[1]) => toBoard[1].seq = hseq
  BY DEF IsCurrent, Frame
<1>8. IsOld(toBoard[1]) => hpkt > 0 /\ toBoard[1].seq # hseq
  BY SeqNumsCycle DEF IsOld, Frame, TypeOK
<1>9. ASSUME toBoard[1].seq # real_seq PROVE Got > 0
  BY <1>6, <1>7, <1>8, <1>9 DEF Got, TypeOK, LastPkt
<1>10. ASSUME toBoard[1].seq = real_seq
       PROVE  real_seq = hseq /\ \A i \in 1 .. Len(toBoard) : IsCurrent(toBoard[i])
  <2>1. real_seq = hseq
    BY <1>2, <1>7, <1>10 DEF StepInv, FramesInOrder, TypeOK
  <2>2. IsCurrent(toBoard[1])
    BY <1>6, <1>8, <1>10, <2>1
  <2>3. ASSUME NEW i \in 1 .. Len(toBoard) PROVE IsCurrent(toBoard[i])
    <3>1. CASE i = 1
      BY <2>2, <3>1
    <3>2. CASE i # 1
      BY <1>2, <2>2, <2>3, <3>2 DEF StepInv, FramesInOrder
    <3> QED  BY <3>1, <3>2
  <2> QED  BY <2>1, <2>3
<1> QED  BY <1>2, <1>3, <1>5, <1>9, <1>10

LEMMA RefusedFrame ==
  ASSUME TypeOK, StepInv, BoardFrame, BoardSeqError(toBoard[1])
  PROVE  StepInv'
<1> USE DEF BoardSeqError
<1>1. /\ toBoard # <<>> /\ toBoard' = Tail(toBoard) /\ Got > 0
      /\ toHost' = Append(toHost, [type |-> "N", seq |-> real_seq])
      /\ UNCHANGED <<real_seq, type, curr_addr, load_size, mem, hpkt, hseq>>
      /\ status = "running"
  BY HeadFrame, BoardTakes DEF SendAckPacket
<1>2. Got' = Got /\ Got \in 1 .. LastPkt + 1 /\ Got # LastPkt + 1
  BY <1>1 DEF Got, StepInv, InStep, EndsWithBreak, TypeOK, LastPkt
<1>3. InStep' /\ ImageIsGot'
  BY <1>1, <1>2 DEF StepInv, InStep, ImageIsGot, Stored
<1>4. FramesInOrder'
  BY <1>1 DEF StepInv, FramesInOrder, IsCurrent, IsOld, TypeOK
<1>5. RepliesInOrder'
  <2> DEFINE Last == Len(toHost) + 1
  <2>1. \A i \in 1 .. Len(toHost) : Wants(toHost[i]) \in {hseq, real_seq}
    BY DEF StepInv, RepliesInOrder
  <2>2. /\ Len(toHost') = Last /\ Wants(toHost'[Last]) = real_seq
        /\ \A i \in 1 .. Last - 1 : toHost'[i] = toHost[i]
    BY <1>1 DEF Wants, TypeOK
  <2>3. (\A i \in 1 .. Len(toHost) : Wants(toHost[i]) \in {hseq, real_seq})'
    <3> SUFFICES ASSUME NEW i \in 1 .. Last
                 PROVE  Wants(toHost'[i]) \in {hseq, real_seq}
      BY <1>1, <2>2 DEF Wants
    <3>1. i \in 1 .. Last - 1 \/ i = Last
      BY DEF TypeOK
    <3> QED  BY <2>1, <2>2, <3>1
  <2>4. (\A i, j \in 1 .. Len(toHost) :
           i < j /\ Wants(toHost[i]) # hseq => Wants(toHost[j]) # hseq)'
    <3> SUFFICES ASSUME NEW i \in 1 .. Last, NEW j \in 1 .. Last,
                        i < j, Wants(toHost'[i]) # hseq
                 PROVE  Wants(toHost'[j]) # hseq
      BY <1>1, <2>2 DEF Wants
    <3>1. i \in 1 .. Last - 1 /\ (j \in 1 .. Last - 1 \/ j = Last)
      BY DEF TypeOK
    <3>2. real_seq # hseq
      BY <2>1, <2>2, <3>1
    <3> QED  BY <2>2, <3>1, <3>2 DEF StepInv, RepliesInOrder
  <2> QED  BY <2>3, <2>4 DEF RepliesInOrder
<1>6. EndsWithBreak'
  <2>1. type # "B"
    BY <1>2, TypeOfPacket DEF StepInv, EndsWithBreak, LastPkt
  <2> QED  BY <1>1, <1>2, <2>1 DEF LoopWhile, StepInv, EndsWithBreak
<1> QED  BY <1>3, <1>4, <1>5, <1>6 DEF StepInv

LEMMA AcceptedFrame ==
  ASSUME TypeOK, StepInv, BoardFrame, BoardAccept(toBoard[1])
  PROVE  StepInv'
<1> USE DEF BoardAccept, BoardDecode
<1> hpkt \in Nat
  BY DEF TypeOK
<1>1. /\ toBoard # <<>> /\ toBoard' = Tail(toBoard)
      /\ real_seq = hseq /\ real_seq' = NextSeq(hseq)
      /\ hpkt <= LastPkt /\ UNCHANGED <<hpkt, hseq>>
      /\ \A i \in 1 .. Len(toBoard) : toBoard[i] = Frame(hpkt, hseq)
      /\ toHost' = Append(toHost, [type |-> "Y", seq |-> hseq])
  <2>1. \A i \in 1 .. Len(toBoard) : IsCurrent(toBoard[i])
    BY HeadFrame
  <2>2. 1 \in 1 .. Len(toBoard)
    BY BoardTakes DEF TypeOK
  <2> QED  BY <2>1, <2>2, HeadFrame, BoardTakes DEF SendAckPacket, IsCurrent
<1>2. toBoard[1] = Frame(hpkt, hseq) /\ toBoard[1].cells = <<hpkt>>
      /\ toBoard[1].type = TypeOf(hpkt)
  <2>1. 1 \in 1 .. Len(toBoard)
    BY BoardTakes DEF TypeOK
  <2>2. toBoard[1] = Frame(hpkt, hseq)
    BY <1>1, <2>1
  <2> QED  BY <2>2 DEF Frame
<1>3. NextSeq(hseq) # hseq /\ NextSeq(hseq) \in SeqNums
  BY SeqNumsCycle DEF TypeOK
<1>4. Got = hpkt /\ Got' = hpkt + 1
  BY <1>1, <1>3 DEF Got
<1>5. InStep'
  BY <1>1 DEF InStep, TypeOK, LastPkt
<1>6. FramesInOrder'
  BY <1>1 DEF FramesInOrder, IsCurrent, TypeOK
<1>7. RepliesInOrder'
  <2>1. \A i \in 1 .. Len(toHost) : Wants(toHost[i]) = hseq
    BY <1>1 DEF StepInv, RepliesInOrder
  <2>2. \A i \in 1 .. Len(toHost') :
          IF i <= Len(toHost) THEN Wants(toHost'[i]) = hseq
                              ELSE i = Len(toHost') /\ Wants(toHost'[i]) = NextSeq(hseq)
    BY <1>1, <2>1 DEF Wants, TypeOK
  <2>3. (\A i \in 1 .. Len(toHost) : Wants(toHost[i]) \in {hseq, real_seq})'
    BY <1>1, <2>2 DEF Wants
  <2>4. (\A i, j \in 1 .. Len(toHost) :
           i < j /\ Wants(toHost[i]) # hseq => Wants(toHost[j]) # hseq)'
    BY <1>1, <2>2 DEF Wants, TypeOK
  <2> QED  BY <2>3, <2>4 DEF RepliesInOrder
<1>8. ImageIsGot'
  <2>1. load_size = Stored(hpkt) /\ curr_addr = load_size
    BY <1>4 DEF StepInv, ImageIsGot
  <2>2. Count(toBoard[1]) = IF TypeOf(hpkt) = "D" THEN 1 ELSE 0
    BY <1>2 DEF Count
  <2>3. Stored(hpkt + 1) = Stored(hpkt) + Count(toBoard[1])
    BY <2>2, TypeOfPacket, hpkt \in Nat DEF Stored, FirstData
  <2>4. TypeOf(hpkt) = "D" => FirstData + load_size = hpkt /\ load_size \in Window
    BY <2>1, TypeOfPacket, hpkt \in Nat DEF Stored, FirstData, Window
  <2>5. \A a \in 0 .. load_size - 1 : mem[a] = FirstData + a /\ a \in Window
    BY <2>1, <1>1 DEF StepInv, ImageIsGot, Window, Stored, FirstData, TypeOK, LastPkt
  <2>6. \A a \in 0 .. load_size' - 1 : mem'[a] = FirstData + a
    <3>1. CASE TypeOf(hpkt) = "D"
      <4>1. mem' = [a \in Window |-> IF a = load_size THEN hpkt ELSE mem[a]]
        BY <1>2, <2>1, <2>2, <3>1 DEF StoreCells, TypeOK, Window
      <4>2. load_size' = load_size + 1 /\ load_size \in Nat
        BY <2>2, <3>1 DEF TypeOK
      <4>3. ASSUME NEW a \in 0 .. load_size' - 1 PROVE mem'[a] = FirstData + a
        <5>1. CASE a = load_size
          BY <2>4, <3>1, <4>1, <5>1
        <5>2. CASE a # load_size
          <6>1. a \in 0 .. load_size - 1
            BY <4>2, <5>2
          <6> QED  BY <2>5, <4>1, <5>2, <6>1
        <5> QED  BY <5>1, <5>2
      <4> QED  BY <4>3
    <3>2. CASE TypeOf(hpkt) # "D"
      <4>1. mem' = mem
        BY <2>2, <3>2 DEF StoreCells, TypeOK
      <4> QED  BY <2>2, <2>5, <3>2, <4>1 DEF TypeOK
    <3> QED  BY <3>1, <3>2
  <2> QED  BY <1>4, <2>1, <2>3, <2>6 DEF ImageIsGot, Stored
<1>9. EndsWithBreak'
  <2>1. type' = TypeOf(hpkt) /\ TypeOf(Got' - 1) = TypeOf(hpkt)
    BY <1>2, <1>4
  <2>2. status' = IF TypeOf(hpkt) = "B" THEN "loaded" ELSE "running"
    BY <1>2 DEF LoopWhile
  <2>3. TypeOf(hpkt) = "B" <=> Got' = LastPkt + 1
    BY <1>1, <1>4, TypeOfPacket DEF LastPkt
  <2> QED  BY <2>1, <2>2, <2>3 DEF EndsWithBreak, TypeOf, Got
<1> QED  BY <1>5, <1>6, <1>7, <1>8, <1>9 DEF StepInv

LEMMA BoardKeepsStepInv == TypeOK /\ StepInv /\ BoardFrame => StepInv'
<1> SUFFICES ASSUME TypeOK, StepInv, BoardFrame PROVE StepInv'
  OBVIOUS
<1>1. toBoard[1].sum /\ toBoard[1].term
  BY HeadFrame
<1>2. ~ BoardChecksumError(toBoard[1]) /\ ~ BoardTermError(toBoard[1])
  BY <1>1 DEF BoardChecksumError, BoardTermError
<1> QED  BY <1>2, RefusedFrame, AcceptedFrame DEF BoardFrame

\* A reply that answers the host's packet comes from a board that has it, and
\* every later reply and every frame on the line is about that packet too.
LEMMA HostKeepsStepInv == TypeOK /\ StepInv /\ HostReceive => StepInv'
<1> SUFFICES ASSUME TypeOK, StepInv, HostReceive PROVE StepInv'
  OBVIOUS
<1> USE DEF HostReceive, boardVars, hostVars
<1>1. /\ Len(toHost) \in Nat \ {0} /\ Head(toHost) = toHost[1]
      /\ Len(toHost') = Len(toHost) - 1
      /\ \A i \in 1 .. Len(toHost) - 1 : toHost'[i] = toHost[i + 1]
  BY DEF TypeOK
<1>2. \A i \in 1 .. Len(toHost) : Wants(toHost[i]) \in {hseq, real_seq}
  BY DEF StepInv, RepliesInOrder
<1>3. CASE hpkt <= LastPkt /\ Answers(Head(toHost))
  <2>1. hpkt' = hpkt + 1 /\ hseq' = NextSeq(hseq) /\ UNCHANGED <<boardVars, toBoard>>
    BY <1>3
  <2>2. Wants(toHost[1]) = NextSeq(hseq)
    BY <1>1, <1>3 DEF Answers, Wants
  <2>3. NextSeq(hseq) # hseq /\ PrevSeq(NextSeq(hseq)) = hseq
    BY SeqNumsCycle DEF TypeOK
  <2>4. real_seq = NextSeq(hseq) /\ real_seq # hseq
    BY <1>1, <1>2, <2>2, <2>3
  <2>5. \A i \in 1 .. Len(toHost') : Wants(toHost'[i]) = hseq'
    <3> SUFFICES ASSUME NEW i \in 1 .. Len(toHost) - 1
                 PROVE  Wants(toHost[i + 1]) = NextSeq(hseq)
      BY <1>1, <2>1
    <3>1. 1 \in 1 .. Len(toHost) /\ i + 1 \in 1 .. Len(toHost) /\ 1 < i + 1
      BY <1>1
    <3>2. Wants(toHost[i + 1]) # hseq
      BY <2>2, <2>3, <3>1 DEF StepInv, RepliesInOrder
    <3> QED  BY <1>2, <2>4, <3>1, <3>2
  <2>6. Got = hpkt + 1 /\ Got' = Got
    BY <2>1, <2>4 DEF Got
  <2>7. InStep' /\ ImageIsGot' /\ EndsWithBreak'
    BY <1>3, <2>1, <2>4, <2>6
       DEF StepInv, InStep, ImageIsGot, Stored, EndsWithBreak, LastPkt
  <2>8. FramesInOrder'
    <3>1. \A i \in 1 .. Len(toBoard) : toBoard[i] = Frame(hpkt, hseq)
      BY <2>4 DEF StepInv, FramesInOrder, IsCurrent
    <3>2. \A i \in 1 .. Len(toBoard) : toBoard'[i] = Frame(hpkt' - 1, PrevSeq(hseq'))
      BY <2>1, <2>3, <3>1 DEF TypeOK
    <3> QED  BY <2>1, <2>4, <3>1, <3>2 DEF FramesInOrder, IsCurrent, IsOld, TypeOK
  <2>9. RepliesInOrder'
    BY <2>1, <2>4, <2>5 DEF RepliesInOrder, Wants
  <2> QED  BY <2>7, <2>8, <2>9 DEF StepInv
<1>4. CASE ~ (hpkt <= LastPkt /\ Answers(Head(toHost)))
  <2>1. UNCHANGED <<boardVars, hostVars, toBoard>>
    BY <1>4
  <2>2. RepliesInOrder'
    BY <1>1, <2>1 DEF StepInv, RepliesInOrder, Wants
  <2> QED  BY <2>1, <2>2 DEF StepInv, InStep, FramesInOrder, IsCurrent, IsOld,
                           ImageIsGot, Stored, EndsWithBreak, Got
<1> QED  BY <1>3, <1>4

LEMMA StepInvInduction == TypeOK /\ StepInv /\ [LossyNext]_vars => StepInv'
<1> SUFFICES ASSUME TypeOK, StepInv, [LossyNext]_vars PROVE StepInv'
  OBVIOUS
<1> USE DEF boardVars, hostVars
<1>1. CASE BoardFrame
  BY <1>1, BoardKeepsStepInv
<1>2. CASE HostReceive
  BY <1>2, HostKeepsStepInv
<1>3. ASSUME UNCHANGED <<boardVars, hostVars>>
      PROVE  InStep' /\ ImageIsGot' /\ EndsWithBreak'
  BY <1>3 DEF StepInv, InStep, ImageIsGot, Stored, EndsWithBreak, Got
<1>4. ASSUME UNCHANGED <<boardVars, hostVars, toHost>> PROVE RepliesInOrder'
  BY <1>4 DEF StepInv, RepliesInOrder, Wants
<1>5. ASSUME UNCHANGED <<boardVars, hostVars, toBoard>> PROVE FramesInOrder'
  BY <1>5 DEF StepInv, FramesInOrder, IsCurrent, IsOld
<1>6. CASE HostSend
  <2>1. /\ Len(toBoard') = Len(toBoard) + 1 /\ Len(toBoard) \in Nat
        /\ \A i \in 1 .. Len(toBoard) : toBoard'[i] = toBoard[i]
        /\ toBoard'[Len(toBoard) + 1] = Frame(hpkt, hseq)
    BY <1>6 DEF HostSend, TypeOK
  <2>2. FramesInOrder'
    BY <1>6, <2>1 DEF HostSend, StepInv, FramesInOrder, IsCurrent, IsOld
  <2> QED  BY <1>3, <1>4, <1>6, <2>2 DEF HostSend, StepInv
<1>7. CASE LoseFrame
  <2>1. /\ Len(toBoard') = Len(toBoard) - 1 /\ Len(toBoard) \in Nat \ {0}
        /\ \A i \in 1 .. Len(toBoard) - 1 : toBoard'[i] = toBoard[i + 1]
    BY <1>7 DEF LoseFrame, TypeOK
  <2>2. FramesInOrder'
    BY <1>7, <2>1 DEF LoseFrame, StepInv, FramesInOrder, IsCurrent, IsOld
  <2> QED  BY <1>3, <1>4, <1>7, <2>2 DEF LoseFrame, StepInv
<1>8. CASE LoseReply
  <2>1. /\ Len(toHost') = Len(toHost) - 1 /\ Len(toHost) \in Nat \ {0}
        /\ \A i \in 1 .. Len(toHost) - 1 : toHost'[i] = toHost[i + 1]
    BY <1>8 DEF LoseReply, TypeOK
  <2>2. RepliesInOrder'
    BY <1>8, <2>1 DEF LoseReply, StepInv, RepliesInOrder, Wants
  <2> QED  BY <1>3, <1>5, <1>8, <2>2 DEF LoseReply, StepInv
<1>9. CASE UNCHANGED vars
  BY <1>3, <1>4, <1>5, <1>9 DEF vars, StepInv
<1> QED  BY <1>1, <1>2, <1>6, <1>7, <1>8, <1>9 DEF LossyNext, Returned

LEMMA LossyTypeOK == LossySpec => []TypeOK
<1>1. TypeOK /\ [LossyNext]_vars => TypeOK'
  BY TypeInduction DEF Next
<1> QED  BY <1>1, TypeInit, PTL DEF LossySpec

\* Board and host stay within one packet of each other, and the image is what
\* the accepted packets amount to.
THEOREM StepInvCorrect == LossySpec => []StepInv
BY LossyTypeOK, StepInvInit, StepInvInduction, PTL DEF LossySpec

-----------------------------------------------------------------------------
(* What it is for *)

\* What kermit_load() has put at load_addr is the beginning of the file,
\* whichever frames and replies are lost and however often they are repeated.
THEOREM ImageCorrect == LossySpec => []ImageIsPrefix
<1>1. TypeOK /\ StepInv => ImageIsPrefix
  BY DEF StepInv, ImageIsGot, ImageIsPrefix, Stored, FirstData, TypeOK, Got
<1> QED  BY <1>1, LossyTypeOK, StepInvCorrect, PTL

\* The host never leaves a data packet behind that is not in the image.
THEOREM AnsweredCorrect == LossySpec => []AnsweredIsStored
<1>1. TypeOK /\ StepInv => AnsweredIsStored
  <2> SUFFICES ASSUME TypeOK, StepInv, NEW p \in FirstData .. NData + 1, p < hpkt
               PROVE  \E a \in 0 .. load_size - 1 : a \in Window /\ mem[a] = p
    BY DEF AnsweredIsStored
  <2>1. Got \in Nat /\ Got >= hpkt /\ hpkt \in Nat
    BY DEF Got, TypeOK, LastPkt
  <2>2. load_size = Stored(Got)
    BY DEF StepInv, ImageIsGot
  <2>3. p - FirstData \in 0 .. load_size - 1 /\ p - FirstData \in Window
    BY <2>1, <2>2 DEF Stored, FirstData, Window
  <2>4. mem[p - FirstData] = p
    BY <2>3 DEF StepInv, ImageIsGot, FirstData
  <2> QED  BY <2>3, <2>4
<1> QED  BY <1>1, LossyTypeOK, StepInvCorrect, PTL

\* kermit_load() returns success only with the whole file in memory.
THEOREM LoadedCorrect == LossySpec => []LoadedIsWhole
<1>1. TypeOK /\ StepInv => LoadedIsWhole
  BY DEF StepInv, ImageIsGot, EndsWithBreak, LoadedIsWhole, Stored, FirstData,
         LastPkt
<1> QED  BY <1>1, LossyTypeOK, StepInvCorrect, PTL

-----------------------------------------------------------------------------
(* kermit_load() implements SerialLoad *)

\* The first n packets of the file, as a sequence.
FilePart(n) == [i \in 1 .. n |-> FirstData + i - 1]

LEMMA ImageIsFilePart ==
  TypeOK /\ StepInv => load_size \in 0 .. NData /\ LoadedImage = FilePart(load_size)
<1> SUFFICES ASSUME TypeOK, StepInv
             PROVE  load_size \in 0 .. NData /\ LoadedImage = FilePart(load_size)
  OBVIOUS
<1>1. load_size \in 0 .. NData
  BY DEF StepInv, ImageIsGot, Stored, FirstData, Got, TypeOK, LastPkt
<1>2. \A i \in 1 .. load_size : mem[i - 1] = FirstData + i - 1
  BY <1>1 DEF StepInv, ImageIsGot, FirstData
<1> QED  BY <1>1, <1>2 DEF LoadedImage, FilePart

LEMMA FilePartSeq ==
  /\ FilePart(0) = <<>>
  /\ \A n \in Nat : /\ FilePart(n) \in Seq(Nat) /\ Len(FilePart(n)) = n
                    /\ FilePart(n + 1) = Append(FilePart(n), FirstData + n)
<1>1. ASSUME NEW n \in Nat
      PROVE  FilePart(n) \in Seq(Nat) /\ Len(FilePart(n)) = n
  BY DEF FilePart, FirstData
<1>2. ASSUME NEW n \in Nat
      PROVE  FilePart(n + 1) = Append(FilePart(n), FirstData + n)
  BY DEF FilePart, FirstData
<1> QED  BY <1>1, <1>2 DEF FilePart

\* A step of the board either changes nothing that SerialLoad sees, or stores
\* the next packet, or ends with the whole file in memory.
LEMMA BoardStep ==
  ASSUME TypeOK, StepInv, BoardFrame
  PROVE  \/ load_size' = load_size /\ status' = status
         \/ load_size' = load_size + 1 /\ status' = status /\ load_size < NData
         \/ load_size' = load_size /\ status' = "loaded" /\ load_size = NData
<1> DEFINE f == toBoard[1]
<1>1. status = "running" /\ StepInv'
  BY BoardTakes, BoardKeepsStepInv
<1>2. CASE BoardSeqError(f)
  <2>1. Got' = Got /\ Got # LastPkt + 1
    BY <1>1, <1>2, BoardTakes DEF BoardSeqError, Got, StepInv, EndsWithBreak
  <2> QED  BY <1>1, <1>2, <2>1 DEF BoardSeqError, StepInv, EndsWithBreak
<1>3. CASE BoardAccept(f)
  <2>1. /\ f.seq = real_seq /\ real_seq = hseq /\ 1 \in 1 .. Len(toBoard)
        /\ \A i \in 1 .. Len(toBoard) : IsCurrent(toBoard[i])
    BY <1>3, HeadFrame, BoardTakes DEF BoardAccept, BoardDecode, TypeOK
  <2>2. f.type = TypeOf(hpkt) /\ f.cells = <<hpkt>> /\ hpkt \in 0 .. LastPkt
    BY <2>1 DEF IsCurrent, Frame, TypeOK
  <2>3. Got = hpkt /\ load_size = Stored(hpkt)
    BY <2>1 DEF Got, StepInv, ImageIsGot
  <2>4. load_size' = load_size + Count(f)
        /\ status' = IF TypeOf(hpkt) = "B" THEN "loaded" ELSE "running"
    BY <1>3, <2>2 DEF BoardAccept, LoopWhile
  <2>5. Count(f) = IF TypeOf(hpkt) = "D" THEN 1 ELSE 0
    BY <2>2 DEF Count
  <2>6. CASE TypeOf(hpkt) = "D"
    <3>1. load_size < NData
      BY <2>2, <2>3, <2>6, TypeOfPacket DEF Stored, FirstData, LastPkt
    <3> QED  BY <1>1, <2>4, <2>5, <2>6, <3>1
  <2>7. CASE TypeOf(hpkt) = "B"
    <3>1. load_size = NData
      BY <2>2, <2>3, <2>7, TypeOfPacket DEF Stored, FirstData, LastPkt
    <3> QED  BY <2>4, <2>5, <2>7, <3>1 DEF TypeOK
  <2>8. CASE TypeOf(hpkt) \notin {"D", "B"}
    BY <1>1, <2>4, <2>5, <2>8 DEF TypeOK
  <2> QED  BY <2>6, <2>7, <2>8
<1>4. ~ BoardChecksumError(f) /\ ~ BoardTermError(f)
  BY HeadFrame DEF BoardChecksumError, BoardTermError
<1> QED  BY <1>2, <1>3, <1>4 DEF BoardFrame

\* On a line that loses frames and replies kermit_load() is a serial loader as
\* load_os() expects one: it copies the file piece by piece and succeeds only
\* with all of it.
THEOREM KermitImplementsSerialLoad == LossySpec => ImplementsSerialLoad
<1> DEFINE File == [i \in 1 .. NData |-> FirstData + i - 1]
<1>1. ASSUME Init PROVE Load!Init
  BY <1>1, TypeInit, StepInvInit, ImageIsFilePart, FilePartSeq DEF Init, Load!Init
<1>2. ASSUME TypeOK, StepInv, TypeOK', StepInv', [LossyNext]_vars
      PROVE  [Load!Next]_(Load!loadVars)
  <2>1. /\ LoadedImage = FilePart(load_size) /\ LoadedImage' = FilePart(load_size')
        /\ load_size \in 0 .. NData
    <3>1. (TypeOK /\ StepInv)' => (LoadedImage = FilePart(load_size))'
      BY ImageIsFilePart, PTL
    <3> QED  BY <1>2, <3>1, ImageIsFilePart DEF FilePart
  <2>2. File = FilePart(NData) /\ Len(LoadedImage) = load_size /\ Len(File) = NData
    BY <2>1, FilePartSeq DEF FilePart
  <2>3. CASE load_size' = load_size /\ status' = status
    BY <2>1, <2>3 DEF Load!loadVars
  <2>4. CASE BoardFrame
    <3>1. status = "running"
      BY <1>2, <2>4, BoardTakes
    <3>2. CASE load_size' = load_size + 1 /\ status' = status /\ load_size < NData
      <4>1. File[load_size + 1] = FirstData + load_size
        BY <2>1, <3>2
      <4>2. FilePart(load_size + 1) = Append(FilePart(load_size), FirstData + load_size)
        <5>1. load_size \in Nat
          BY <2>1
        <5> QED  BY <5>1, FilePartSeq, Zenon
      <4>3. LoadedImage' = Append(LoadedImage, File[load_size + 1])
        <5> HIDE DEF File
        <5>1. LoadedImage' = FilePart(load_size + 1)
          BY <2>1, <3>2
        <5> QED  BY <2>1, <4>1, <4>2, <5>1
      <4>4. Load!Store
        BY <2>1, <2>2, <3>1, <3>2, <4>3 DEF Load!Store
      <4> QED  BY <4>4 DEF Load!Next
    <3>3. CASE load_size' = load_size /\ status' = "loaded" /\ load_size = NData
      <4>1. Load!Finish
        BY <2>1, <2>2, <3>1, <3>3 DEF Load!Finish
      <4> QED  BY <4>1 DEF Load!Next
    <3> QED  BY <1>2, <2>3, <2>4, <3>2, <3>3, BoardStep
  <2>5. CASE ~ BoardFrame
    <3>1. UNCHANGED boardVars
      BY <1>2, <2>5 DEF LossyNext, HostSend, HostReceive, LoseFrame, LoseReply,
                        Returned, vars
    <3> QED  BY <2>3, <3>1 DEF boardVars
  <2> QED  BY <2>4, <2>5
<1> QED  BY <1>1, <1>2, LossyTypeOK, StepInvCorrect, PTL
         DEF LossySpec, ImplementsSerialLoad, Load!Spec
-----------------------------------------------------------------------------
(***************************************************************************)
(* On a line that damages frames, as long as numbers tell packets apart    *)
(* (FewFaults), what kermit_load() has in memory is a part of the file, in *)
(* the order of the file.                                                  *)
(***************************************************************************)
-----------------------------------------------------------------------------
(* Distances between numbers *)

LEMMA GapFacts ==
  ASSUME NEW r \in SeqNums
  PROVE  /\ \A s \in SeqNums : Gap(s, r) \in 0 .. SeqMod - 1 /\ (Gap(s, r) = 0 <=> s = r)
         /\ \A s \in SeqNums : Gap(s, r) > 0 => Gap(NextSeq(s), r) = Gap(s, r) - 1
         /\ \A s \in SeqNums : s = r => Gap(NextSeq(s), r) = SeqMod - 1
         /\ \A s \in SeqNums :
              Gap(s, r) < SeqMod - 1 => Gap(s, NextSeq(r)) = Gap(s, r) + 1
BY DEF SeqNums, Gap, NextSeq

\* What is known of the numbers in a state.
LEMMA Numbers ==
  ASSUME TypeOK
  PROVE  /\ real_seq \in SeqNums /\ hseq \in SeqNums /\ hpkt \in Nat
         /\ \A i \in 1 .. Len(toBoard) : toBoard[i] \in Frames /\ toBoard[i].seq \in SeqNums
         /\ \A i \in 1 .. Len(toHost) : Wants(toHost[i]) \in SeqNums
         /\ Len(toBoard) \in Nat /\ Len(toHost) \in Nat
         /\ faults \in Nat /\ faults <= MaxFaults /\ Spent \in {faults, faults - 1}
<1>1. ASSUME NEW i \in 1 .. Len(toBoard)
      PROVE  toBoard[i] \in Frames /\ toBoard[i].seq \in SeqNums
  <2>1. toBoard[i] \in Frames
    BY DEF TypeOK
  <2> QED
    BY <2>1 DEF Frames
<1>2. ASSUME NEW i \in 1 .. Len(toHost)
      PROVE  Wants(toHost[i]) \in SeqNums
  <2>1. toHost[i] \in Replies
    BY DEF TypeOK
  <2> QED
    BY <2>1, SeqNumsCycle DEF Wants, Replies
<1> QED
  BY <1>1, <1>2 DEF TypeOK, Spent, LastPkt

-----------------------------------------------------------------------------
(* Frames *)

\* What the first frame that is not damaged says of a frame.
NearFrame(f, h, b, r, k) ==
  \E p \in 0 .. h :
    p <= LastPkt /\ f = Frame(p, f.seq) /\ p + Gap(f.seq, r) = b /\ Gap(f.seq, r) <= k

LEMMA FramesNearIs ==
  FramesNear <=>
    /\ \A i \in 2 .. Len(toBoard) : ~ Hurt(toBoard[i])
    /\ \A i \in 1 .. Len(toBoard) : ~ Hurt(toBoard[i]) =>
         NearFrame(toBoard[i], hpkt, BoardPkt, real_seq, 1 + Spent)
    /\ \A i, j \in 1 .. Len(toBoard) :
         i < j /\ ~ Hurt(toBoard[i]) =>
           Gap(toBoard[i].seq, real_seq) >= Gap(toBoard[j].seq, real_seq)
BY DEF FramesNear, NearFrame, Late

\* Frames leave the line from its head on, damaged ones first.
LEMMA FramesGone ==
  ASSUME TypeOK, FramesNear, faults' = faults,
         NEW n \in 1 .. Len(toBoard), toBoard' = SubSeq(toBoard, n + 1, Len(toBoard))
  PROVE  /\ Len(toBoard') = Len(toBoard) - n
         /\ \A i \in 1 .. Len(toBoard') :
              /\ i + n \in 2 .. Len(toBoard)
              /\ toBoard'[i] = toBoard[i + n] /\ ~ Hurt(toBoard[i + n])
         /\ Spent' = faults
<1>1. /\ Len(toBoard') = Len(toBoard) - n /\ Len(toBoard) \in Nat
      /\ \A i \in 1 .. Len(toBoard) - n : toBoard'[i] = toBoard[i + n]
  BY DropFirst DEF TypeOK
<1>2. ASSUME NEW i \in 1 .. Len(toBoard')
      PROVE  /\ i + n \in 2 .. Len(toBoard)
             /\ toBoard'[i] = toBoard[i + n] /\ ~ Hurt(toBoard[i + n])
  <2>1. i + n \in 2 .. Len(toBoard)
    BY <1>1
  <2> QED
    BY <1>1, <2>1 DEF FramesNear
<1>3. toBoard' # <<>> => ~ Hurt(toBoard'[1])
  <2> SUFFICES ASSUME toBoard' # <<>> PROVE ~ Hurt(toBoard'[1])
    OBVIOUS
  <2>1. toBoard' \in Seq(Frames)
    BY DropFirst DEF TypeOK
  <2>2. 1 \in 1 .. Len(toBoard')
    BY <2>1
  <2> QED
    BY <1>2, <2>2
<1>4. Spent' = faults
  BY <1>3 DEF Spent, Hurt, TypeOK
<1> QED
  BY <1>1, <1>2, <1>4

\* When the board counts a frame, it gets no further from the host and from the
\* frames on the line than damaged frames take it.
LEMMA Reach ==
  ASSUME FewFaults, TypeOK, DamageInv, toBoard # <<>>, toBoard[1].seq = real_seq
  PROVE  /\ Gap(hseq, real_seq) <= faults
         /\ \A i \in 2 .. Len(toBoard) : Gap(toBoard[i].seq, real_seq) <= faults
         /\ faults < SeqMod - 1
<1>1. faults < SeqMod - 1 /\ faults \in Nat
  BY Numbers DEF FewFaults
<1>2. 1 \in 1 .. Len(toBoard) /\ Len(toBoard) \in Nat
  BY DEF TypeOK
<1>3. CASE Hurt(toBoard[1])
  <2>1. 1 + Spent = faults
    BY <1>1, <1>3 DEF Spent
  <2>2. Gap(hseq, real_seq) <= faults
    BY <2>1 DEF DamageInv, HostNear, Late
  <2>3. ASSUME NEW i \in 2 .. Len(toBoard)
        PROVE  Gap(toBoard[i].seq, real_seq) <= faults
    BY <1>2, <2>1 DEF DamageInv, FramesNear, Late
  <2> QED
    BY <1>1, <2>2, <2>3
<1>4. CASE ~ Hurt(toBoard[1])
  <2>1. Gap(toBoard[1].seq, real_seq) = 0
    BY <1>2, Numbers, GapFacts
  <2>2. PICK p \in 0 .. hpkt : p + 0 = BoardPkt
    BY <1>2, <1>4, <2>1 DEF DamageInv, FramesNear, Late
  <2>3. Gap(hseq, real_seq) \in Nat /\ hpkt \in Nat
    BY Numbers, GapFacts
  <2>4. Gap(hseq, real_seq) = 0
    BY <2>2, <2>3 DEF BoardPkt, Late
  <2>5. ASSUME NEW i \in 2 .. Len(toBoard)
        PROVE  Gap(toBoard[i].seq, real_seq) <= faults
    <3>1. i \in 1 .. Len(toBoard) /\ 1 < i
      BY <1>2
    <3>2. Gap(toBoard[i].seq, real_seq) <= 0
      BY <1>2, <1>4, <2>1, <3>1 DEF DamageInv, FramesNear, Late
    <3>3. Gap(toBoard[i].seq, real_seq) \in Nat
      BY <3>1, Numbers, GapFacts
    <3> QED
      BY <1>1, <3>2, <3>3
  <2> QED
    BY <1>1, <2>4, <2>5
<1> QED
  BY <1>3, <1>4

\* The board takes a frame and may count it: host and frames stay near.
LEMMA FramesStayNear ==
  ASSUME FewFaults, TypeOK, DamageInv, TypeOK',
         UNCHANGED <<hpkt, hseq, faults>>,
         NEW n \in 1 .. Len(toBoard), toBoard' = SubSeq(toBoard, n + 1, Len(toBoard)),
         \/ real_seq' = real_seq
         \/ real_seq' = NextSeq(real_seq) /\ toBoard[1].seq = real_seq
  PROVE  HostNear' /\ FramesNear' /\ BoardPkt' >= BoardPkt
<1> DEFINE up == IF real_seq' = real_seq THEN 0 ELSE 1
<1>0. /\ toBoard # <<>> /\ real_seq \in SeqNums /\ hseq \in SeqNums /\ hpkt \in Nat
      /\ faults \in Nat /\ Spent \in {faults, faults - 1} /\ Len(toBoard) \in Nat
  BY Numbers DEF TypeOK
<1>1. /\ Len(toBoard') = Len(toBoard) - n
      /\ \A i \in 1 .. Len(toBoard') :
           /\ i + n \in 2 .. Len(toBoard)
           /\ toBoard'[i] = toBoard[i + n] /\ ~ Hurt(toBoard[i + n])
      /\ Spent' = faults
  BY FramesGone DEF DamageInv
<1>2. \A s \in SeqNums : Gap(s, real_seq) <= faults + 1 - up =>
        Gap(s, real_seq') = Gap(s, real_seq) + up
  <2>1. CASE up = 0
    <3>1. real_seq' = real_seq
      BY <2>1
    <3> QED
      BY <1>0, <2>1, <3>1, GapFacts
  <2>2. CASE up = 1
    <3>1. real_seq' = NextSeq(real_seq) /\ toBoard[1].seq = real_seq
      BY <2>2
    <3>2. faults < SeqMod - 1
      BY <1>0, <3>1, Reach
    <3> QED
      BY <1>0, <2>2, <3>1, <3>2, GapFacts
  <2> QED
    BY <2>1, <2>2
<1>3. /\ Gap(hseq, real_seq) <= faults + 1 - up
      /\ \A i \in 2 .. Len(toBoard) : Gap(toBoard[i].seq, real_seq) <= faults + 1 - up
  <2>1. CASE up = 1
    BY <1>0, <2>1, Reach
  <2>2. CASE up = 0
    <3>1. Gap(hseq, real_seq) <= 1 + Spent
      BY DEF DamageInv, HostNear, Late
    <3>2. ASSUME NEW i \in 2 .. Len(toBoard)
          PROVE  Gap(toBoard[i].seq, real_seq) <= 1 + Spent
      BY <1>0 DEF DamageInv, FramesNear, Late
    <3>3. ASSUME NEW i \in 2 .. Len(toBoard)
          PROVE  Gap(toBoard[i].seq, real_seq) \in Nat
      BY <1>0, Numbers, GapFacts
    <3>4. Gap(hseq, real_seq) \in Nat
      BY <1>0, GapFacts
    <3> QED
      BY <1>0, <2>2, <3>1, <3>2, <3>3, <3>4
  <2> QED
    BY <2>1, <2>2
<1>4. up \in {0, 1}
  OBVIOUS
<1> HIDE DEF up
<1>5. Gap(hseq, real_seq) \in Nat /\ Gap(hseq, real_seq') = Gap(hseq, real_seq) + up
  BY <1>0, <1>2, <1>3, GapFacts
<1>6. HostNear'
  <2>1. Gap(hseq, real_seq') <= 1 + faults
    BY <1>0, <1>3, <1>4, <1>5
  <2> QED
    BY <1>1, <2>1 DEF HostNear, Late
<1>7. BoardPkt' = BoardPkt + up /\ BoardPkt \in Nat
  BY <1>0, <1>4, <1>5 DEF BoardPkt, Late
<1>8. ASSUME NEW i \in 1 .. Len(toBoard')
      PROVE  /\ ~ Hurt(toBoard'[i]) /\ NearFrame(toBoard'[i], hpkt, BoardPkt + up, real_seq', 1 + faults)
             /\ i + n \in 2 .. Len(toBoard) /\ toBoard'[i] = toBoard[i + n]
             /\ Gap(toBoard'[i].seq, real_seq') = Gap(toBoard[i + n].seq, real_seq) + up
             /\ Gap(toBoard[i + n].seq, real_seq) \in Nat
  <2> DEFINE f == toBoard[i + n]
  <2>1. i + n \in 2 .. Len(toBoard) /\ toBoard'[i] = f /\ ~ Hurt(f)
    BY <1>1
  <2>2. i + n \in 1 .. Len(toBoard)
    BY <1>0, <2>1
  <2>3. f.seq \in SeqNums
    BY <2>2, Numbers
  <2>4. Gap(f.seq, real_seq') = Gap(f.seq, real_seq) + up
        /\ Gap(f.seq, real_seq) \in Nat /\ Gap(f.seq, real_seq) <= faults + 1 - up
    BY <1>0, <1>2, <1>3, <2>1, <2>3, GapFacts
  <2>5. NearFrame(f, hpkt, BoardPkt, real_seq, 1 + Spent)
    BY <2>1, <2>2, FramesNearIs DEF DamageInv
  <2> HIDE DEF f
  <2>6. PICK p \in 0 .. hpkt : p <= LastPkt /\ f = Frame(p, f.seq)
                               /\ p + Gap(f.seq, real_seq) = BoardPkt
    BY <2>5 DEF NearFrame
  <2>7. p + Gap(f.seq, real_seq') = BoardPkt + up /\ Gap(f.seq, real_seq') <= 1 + faults
    BY <1>0, <1>4, <2>4, <2>6
  <2>8. NearFrame(f, hpkt, BoardPkt + up, real_seq', 1 + faults)
    BY <2>6, <2>7 DEF NearFrame
  <2> QED
    BY <2>1, <2>4, <2>8 DEF f
<1>9. ASSUME NEW i \in 1 .. Len(toBoard'), NEW j \in 1 .. Len(toBoard'), i < j
      PROVE  Gap(toBoard'[i].seq, real_seq') >= Gap(toBoard'[j].seq, real_seq')
  <2>1. i + n \in 1 .. Len(toBoard) /\ j + n \in 1 .. Len(toBoard) /\ i + n < j + n
    BY <1>0, <1>8, <1>9
  <2>2. ~ Hurt(toBoard[i + n])
    BY <1>1
  <2>3. Gap(toBoard[i + n].seq, real_seq) >= Gap(toBoard[j + n].seq, real_seq)
    BY <2>1, <2>2, FramesNearIs DEF DamageInv
  <2> QED
    BY <1>4, <1>8, <2>3
<1>10. FramesNear'
  <2>1. \A i \in 1 .. Len(toBoard') : ~ Hurt(toBoard'[i])
    BY <1>8
  <2>2. \A i \in 2 .. Len(toBoard') : ~ Hurt(toBoard'[i])
    BY <1>0, <1>1, <2>1
  <2>3. ASSUME NEW i \in 1 .. Len(toBoard')
        PROVE  NearFrame(toBoard'[i], hpkt', BoardPkt', real_seq', 1 + Spent')
    BY <1>1, <1>7, <1>8
  <2> QED
    BY <1>9, <2>2, <2>3 DEF FramesNear, Late, NearFrame, Hurt
<1> QED
  BY <1>4, <1>6, <1>7, <1>10

-----------------------------------------------------------------------------
(* Replies *)

\* An answer asks for the packet the board expects after the frame.
LEMMA RepliesStayNear ==
  ASSUME FewFaults, TypeOK, DamageInv, TypeOK', UNCHANGED hseq, toBoard # <<>>,
         \/ real_seq' = real_seq
         \/ real_seq' = NextSeq(real_seq) /\ toBoard[1].seq = real_seq,
         \/ toHost' = toHost
         \/ \E r \in Replies : toHost' = Append(toHost, r) /\ Wants(r) = real_seq'
  PROVE  RepliesNear'
<1> DEFINE up == IF real_seq' = real_seq THEN 0 ELSE 1
           W(i) == Wants(toHost[i])
<1>0. /\ real_seq \in SeqNums /\ hseq \in SeqNums /\ Len(toHost) \in Nat /\ real_seq' \in SeqNums
      /\ \A i \in 1 .. Len(toHost) : W(i) \in SeqNums
  BY Numbers DEF TypeOK
<1>1. up \in {0, 1}
  OBVIOUS
<1>2. Gap(hseq, real_seq) + up <= SeqMod - 1
  <2>1. CASE up = 1
    BY <1>0, <2>1, Reach, Numbers, GapFacts
  <2>2. CASE up = 0
    BY <1>0, <2>2, GapFacts
  <2> QED
    BY <2>1, <2>2
<1>3. \A s \in SeqNums : Gap(s, real_seq) <= Gap(hseq, real_seq) =>
        Gap(s, real_seq') = Gap(s, real_seq) + up /\ Gap(s, real_seq) \in Nat
  <2>1. CASE up = 1
    BY <1>0, <1>2, <2>1, GapFacts
  <2>2. CASE up = 0
    BY <1>0, <2>2, GapFacts
  <2> QED
    BY <2>1, <2>2
<1> HIDE DEF up
<1>4. Gap(hseq, real_seq') = Gap(hseq, real_seq) + up /\ Gap(hseq, real_seq) \in Nat
  BY <1>0, <1>3, GapFacts
<1>5. /\ \A i \in 1 .. Len(toHost) : Gap(W(i), real_seq) <= Gap(hseq, real_seq)
      /\ \A i, j \in 1 .. Len(toHost) : i < j => Gap(W(i), real_seq) >= Gap(W(j), real_seq)
  BY DEF DamageInv, RepliesNear, Late
<1>6. ASSUME NEW i \in 1 .. Len(toHost)
      PROVE  /\ Gap(W(i), real_seq') = Gap(W(i), real_seq) + up
             /\ Gap(W(i), real_seq) \in Nat /\ Gap(W(i), real_seq') <= Gap(hseq, real_seq')
  BY <1>0, <1>1, <1>3, <1>4, <1>5
<1>7. \A i, j \in 1 .. Len(toHost) : i < j => Gap(W(i), real_seq') >= Gap(W(j), real_seq')
  BY <1>1, <1>5, <1>6
<1>8. CASE toHost' = toHost
  BY <1>6, <1>7, <1>8 DEF RepliesNear, Late, Wants
<1>9. CASE \E r \in Replies : toHost' = Append(toHost, r) /\ Wants(r) = real_seq'
  <2>1. PICK r \in Replies : toHost' = Append(toHost, r) /\ Wants(r) = real_seq'
    BY <1>9
  <2>2. /\ Len(toHost') = Len(toHost) + 1 /\ toHost'[Len(toHost) + 1] = r
        /\ \A i \in 1 .. Len(toHost) : toHost'[i] = toHost[i]
    BY <2>1 DEF TypeOK
  <2>3. Gap(real_seq', real_seq') = 0 /\ Gap(hseq, real_seq') \in Nat
    BY <1>0, GapFacts
  <2> DEFINE V(i) == Wants(toHost'[i])
  <2>4. /\ \A i \in 1 .. Len(toHost) : V(i) = W(i)
        /\ V(Len(toHost) + 1) = real_seq'
    BY <2>1, <2>2
  <2> HIDE DEF V, W
  <2>5. ASSUME NEW i \in 1 .. Len(toHost')
        PROVE  Gap(V(i), real_seq') <= Gap(hseq, real_seq') /\ Gap(V(i), real_seq') \in Nat
    <3>1. i \in 1 .. Len(toHost) \/ i = Len(toHost) + 1
      BY <1>0, <2>2
    <3> QED
      BY <1>1, <1>6, <2>3, <2>4, <3>1
  <2>6. ASSUME NEW i \in 1 .. Len(toHost'), NEW j \in 1 .. Len(toHost'), i < j
        PROVE  Gap(V(i), real_seq') >= Gap(V(j), real_seq')
    <3>1. i \in 1 .. Len(toHost) /\ (j \in 1 .. Len(toHost) \/ j = Len(toHost) + 1)
      BY <1>0, <2>2, <2>6
    <3>2. CASE j \in 1 .. Len(toHost)
      BY <1>7, <2>4, <2>6, <3>1, <3>2
    <3>3. CASE j = Len(toHost) + 1
      BY <2>3, <2>4, <2>5, <3>3
    <3> QED
      BY <3>1, <3>2, <3>3
  <2> QED
    BY <2>5, <2>6 DEF RepliesNear, Late, Wants, V
<1> QED
  BY <1>8, <1>9

-----------------------------------------------------------------------------
(* The image *)

\* A frame that is not accepted leaves the image alone.
LEMMA ImageStays ==
  ASSUME TypeOK, DamageInv, TypeOK', BoardPkt' >= BoardPkt, BoardPkt' \in Nat, BoardPkt \in Nat,
         UNCHANGED <<curr_addr, load_size>>,
         \A a \in Window : a < load_size => mem'[a] = mem[a]
  PROVE  ImageAscends'
<1>1. load_size \in 0 .. NData /\ \A a \in 0 .. load_size - 1 : a \in Window
  BY DEF DamageInv, ImageAscends, TypeOK, Window
<1>2. \A a \in 0 .. load_size - 1 : mem'[a] = mem[a] /\ mem[a] \in Int
  BY <1>1 DEF TypeOK, Packets, Junk, LastPkt
<1>3. /\ curr_addr = load_size
      /\ \A a \in 0 .. load_size - 1 :
           FirstData + a <= mem[a] /\ mem[a] <= NData + 1 /\ mem[a] < BoardPkt
      /\ \A a, b \in 0 .. load_size - 1 : a < b => mem[a] < mem[b]
  BY DEF DamageInv, ImageAscends
<1>4. \A a \in 0 .. load_size - 1 : mem[a] < BoardPkt'
  BY <1>2, <1>3
<1> QED
  BY <1>1, <1>2, <1>3, <1>4 DEF ImageAscends

\* A packet that is accepted is the one the board expects: it is behind all
\* that is in the image.
LEMMA ImageGrows ==
  ASSUME FewFaults, TypeOK, DamageInv, TypeOK', toBoard # <<>>, BoardAccept(toBoard[1]),
         BoardPkt' = BoardPkt + 1, BoardPkt \in Nat
  PROVE  ImageAscends'
<1> DEFINE f == toBoard[1]
<1>1. 1 \in 1 .. Len(toBoard) /\ f \in Frames
  <2>1. 1 \in 1 .. Len(toBoard)
    BY DEF TypeOK
  <2> QED
    BY <2>1, Numbers
<1>2. f.seq = real_seq /\ ~ Hurt(f)
  BY DEF BoardAccept, BoardDecode, Hurt
<1>3. f = Frame(BoardPkt, real_seq) /\ BoardPkt <= LastPkt
  <2>1. PICK p \in 0 .. hpkt : p <= LastPkt /\ f = Frame(p, f.seq) /\ p + Gap(f.seq, real_seq) = BoardPkt
    BY <1>1, <1>2, FramesNearIs DEF DamageInv, NearFrame
  <2>2. Gap(real_seq, real_seq) = 0
    BY Numbers, GapFacts
  <2>3. p = BoardPkt
    BY <1>2, <2>1, <2>2
  <2> QED
    BY <1>2, <2>1, <2>3
<1>4. f.type = TypeOf(BoardPkt) /\ f.cells = <<BoardPkt>>
  BY <1>3 DEF Frame
<1>5. /\ curr_addr' = curr_addr + Count(f) /\ load_size' = load_size + Count(f)
      /\ mem' = [a \in Window |->
                   IF a \in curr_addr .. curr_addr + Count(f) - 1
                     THEN f.cells[a - curr_addr + 1] ELSE mem[a]]
  BY DEF BoardAccept, BoardDecode, StoreCells
<1> HIDE DEF f
<1>6. /\ curr_addr = load_size /\ load_size \in 0 .. NData
      /\ \A a \in 0 .. load_size - 1 :
           FirstData + a <= mem[a] /\ mem[a] <= NData + 1 /\ mem[a] < BoardPkt
      /\ \A a, b \in 0 .. load_size - 1 : a < b => mem[a] < mem[b]
      /\ \A a \in 0 .. load_size - 1 : a \in Window /\ mem[a] \in Int
  BY DEF DamageInv, ImageAscends, TypeOK, Window, Packets, Junk, LastPkt
<1>7. CASE TypeOf(BoardPkt) = "D"
  <2>1. Count(f) = 1
    BY <1>4, <1>7 DEF Count
  <2>2. BoardPkt \in FirstData .. NData + 1
    BY <1>7, TypeOfPacket
  <2>3. FirstData + load_size <= BoardPkt /\ load_size < NData
    <3>1. CASE load_size = 0
      BY <1>6, <2>2, <3>1 DEF FirstData
    <3>2. CASE load_size > 0
      <4>1. load_size - 1 \in 0 .. load_size - 1
        BY <1>6, <3>2
      <4>2. FirstData + (load_size - 1) <= mem[load_size - 1] /\ mem[load_size - 1] < BoardPkt
            /\ mem[load_size - 1] \in Int
        BY <1>6, <4>1
      <4> QED
        BY <1>6, <2>2, <4>2 DEF FirstData
    <3> QED
      BY <1>6, <3>1, <3>2
  <2>4. load_size' = load_size + 1 /\ curr_addr' = load_size + 1
    BY <1>5, <1>6, <2>1
  <2>5. mem'[load_size] = BoardPkt /\ \A a \in 0 .. load_size - 1 : mem'[a] = mem[a]
    <3>1. load_size \in Window /\ load_size - curr_addr + 1 = 1
      BY <1>6, <2>3 DEF Window
    <3>2. curr_addr + Count(f) - 1 = load_size
      BY <1>6, <2>1
    <3>3. mem'[load_size] = f.cells[1]
      BY <1>5, <1>6, <3>1, <3>2
    <3>4. \A a \in 0 .. load_size - 1 : mem'[a] = mem[a]
      BY <1>5, <1>6, <3>2
    <3> QED
      BY <1>4, <3>3, <3>4
  <2>6. ASSUME NEW a \in 0 .. load_size
        PROVE  /\ FirstData + a <= mem'[a] /\ mem'[a] <= NData + 1
               /\ mem'[a] < BoardPkt + 1 /\ mem'[a] \in Int
    <3>1. CASE a = load_size
      BY <2>2, <2>3, <2>5, <3>1
    <3>2. CASE a # load_size
      <4>1. a \in 0 .. load_size - 1
        BY <1>6, <3>2
      <4> QED
        BY <1>6, <2>5, <4>1
    <3> QED
      BY <3>1, <3>2
  <2>7. ASSUME NEW a \in 0 .. load_size, NEW b \in 0 .. load_size, a < b
        PROVE  mem'[a] < mem'[b]
    <3>1. a \in 0 .. load_size - 1
      BY <1>6, <2>7
    <3>2. CASE b = load_size
      BY <1>6, <2>5, <3>1, <3>2
    <3>3. CASE b # load_size
      <4>1. b \in 0 .. load_size - 1
        BY <1>6, <3>3
      <4> QED
        BY <1>6, <2>5, <2>7, <3>1, <4>1
    <3> QED
      BY <3>2, <3>3
  <2>8. load_size' - 1 = load_size /\ load_size' <= NData
    BY <1>6, <2>3, <2>4
  <2> QED
    BY <2>4, <2>6, <2>7, <2>8 DEF ImageAscends
<1>8. CASE TypeOf(BoardPkt) # "D"
  <2>1. Count(f) = 0
    BY <1>4, <1>8 DEF Count
  <2>2. UNCHANGED <<curr_addr, load_size>>
    BY <1>5, <1>6, <2>1
  <2>3. \A a \in Window : mem'[a] = mem[a]
    BY <1>5, <1>6, <2>1
  <2> QED
    BY <2>2, <2>3, ImageStays
<1> QED
  BY <1>7, <1>8

-----------------------------------------------------------------------------
(* The steps *)

LEMMA DamageInvInit == Init => DamageInv
<1> SUFFICES ASSUME Init PROVE DamageInv
  OBVIOUS
<1>1. 0 \in SeqNums /\ Gap(0, 0) = 0
  BY DEF SeqNums, Gap
<1>2. /\ real_seq = 0 /\ hseq = 0 /\ hpkt = 0 /\ toBoard = <<>> /\ toHost = <<>>
      /\ faults = 0 /\ curr_addr = 0 /\ load_size = 0
  BY DEF Init
<1> QED
  BY <1>1, <1>2 DEF DamageInv, HostNear, FramesNear, RepliesNear, ImageAscends, Late, Spent

LEMMA BoardPktIsNat == ASSUME TypeOK PROVE BoardPkt \in Nat
BY Numbers, GapFacts DEF BoardPkt, Late

\* What the board does with the first frame on the line.
LEMMA BoardKeepsDamageInv ==
  ASSUME FewFaults, TypeOK, DamageInv, BoardFrame, TypeOK'
  PROVE  DamageInv'
<1> DEFINE f == toBoard[1]
<1>1. PICK n \in 1 .. LineCap : ReceiveFrame(n)
  BY DEF BoardFrame
<1>2. n \in 1 .. Len(toBoard) /\ toBoard' = SubSeq(toBoard, n + 1, Len(toBoard))
      /\ toBoard # <<>>
  BY <1>1 DEF ReceiveFrame, TypeOK
<1>3. UNCHANGED <<hpkt, hseq, faults>>
  BY BoardTakes
<1>4. BoardSeqError(f) \/ BoardChecksumError(f) \/ BoardTermError(f) \/ BoardAccept(f)
  BY DEF BoardFrame
<1>5. real_seq' = real_seq \/ (real_seq' = NextSeq(real_seq) /\ f.seq = real_seq)
  BY <1>4 DEF BoardSeqError, BoardChecksumError, BoardTermError, BoardAccept, BoardDecode
<1>6. HostNear' /\ FramesNear' /\ BoardPkt' >= BoardPkt
  BY <1>2, <1>3, <1>5, FramesStayNear
<1>7. real_seq' \in SeqNums /\ real_seq \in SeqNums
  BY DEF TypeOK
<1>8. \/ toHost' = toHost
      \/ \E r \in Replies : toHost' = Append(toHost, r) /\ Wants(r) = real_seq'
  <2>1. CASE BoardSeqError(f)
    <3>1. toHost' = Append(toHost, [type |-> "N", seq |-> real_seq]) /\ real_seq' = real_seq
      BY <2>1 DEF BoardSeqError, SendAckPacket
    <3> QED
      BY <1>7, <3>1 DEF Wants, Replies
  <2>2. CASE BoardChecksumError(f)
    <3>1. toHost' = Append(toHost, [type |-> "N", seq |-> real_seq'])
      BY <2>2 DEF BoardChecksumError, SendAckPacket
    <3> QED
      BY <1>7, <3>1 DEF Wants, Replies
  <2>3. CASE BoardTermError(f)
    BY <2>3 DEF BoardTermError
  <2>4. CASE BoardAccept(f)
    <3>1. toHost' = Append(toHost, [type |-> "Y", seq |-> real_seq])
          /\ real_seq' = NextSeq(real_seq)
      BY <2>4 DEF BoardAccept, BoardDecode, SendAckPacket
    <3> QED
      BY <1>7, <3>1 DEF Wants, Replies
  <2> QED
    BY <1>4, <2>1, <2>2, <2>3, <2>4
<1>9. RepliesNear'
  BY <1>2, <1>3, <1>5, <1>8, RepliesStayNear
<1>10. BoardPkt \in Nat /\ BoardPkt' \in Nat
  <2>1. BoardPkt \in Nat
    BY BoardPktIsNat
  <2>2. real_seq' \in SeqNums /\ hseq' \in SeqNums /\ hpkt' \in Nat
    BY DEF TypeOK, LastPkt
  <2>3. BoardPkt' \in Nat
    BY <2>2, GapFacts DEF BoardPkt, Late
  <2> QED
    BY <2>1, <2>3
<1>11. CASE BoardAccept(f)
  <2>1. real_seq' = NextSeq(real_seq) /\ f.seq = real_seq
    BY <1>11 DEF BoardAccept, BoardDecode
  <2>2. Gap(hseq, real_seq') = Gap(hseq, real_seq) + 1
    <3>1. Gap(hseq, real_seq) < SeqMod - 1
      BY <1>2, <2>1, Reach, Numbers, GapFacts
    <3> QED
      BY <2>1, <3>1, Numbers, GapFacts
  <2>3. BoardPkt' = BoardPkt + 1
    BY <1>3, <2>2, Numbers, GapFacts DEF BoardPkt, Late
  <2> QED
    BY <1>2, <1>6, <1>9, <1>10, <1>11, <2>3, ImageGrows DEF DamageInv
<1>12. CASE ~ BoardAccept(f)
  <2>1. UNCHANGED <<curr_addr, load_size>>
    BY <1>4, <1>12 DEF BoardSeqError, BoardChecksumError, BoardTermError
  <2>2. LoadAtCurr
    BY DEF DamageInv, ImageAscends, LoadAtCurr
  <2>3. \A a \in Window : a < load_size => mem'[a] = mem[a]
    BY <2>2, BoardKeeps
  <2> QED
    BY <1>6, <1>9, <1>10, <2>1, <2>3, ImageStays DEF DamageInv
<1> QED
  BY <1>11, <1>12

\* The host repeats its packet behind all that is on the line.
LEMMA HostSendNear ==
  ASSUME TypeOK, DamageInv, HostSend
  PROVE  DamageInv'
<1> DEFINE f == Frame(hpkt, hseq)
           n == Len(toBoard)
<1>1. /\ UNCHANGED <<boardVars, hostVars, toHost, faults>> /\ hpkt <= LastPkt
      /\ toBoard' = Append(toBoard, f)
  BY DEF HostSend
<1>2. /\ n \in Nat /\ Len(toBoard') = n + 1 /\ toBoard'[n + 1] = f
      /\ \A i \in 1 .. n : toBoard'[i] = toBoard[i]
  BY <1>1 DEF TypeOK
<1>3. ~ Hurt(f) /\ f.seq = hseq
  BY DEF Hurt, Frame
<1>4. hpkt \in Nat /\ hseq \in SeqNums /\ real_seq \in SeqNums
  BY Numbers
<1>5. Spent' = Spent
  <2>1. toBoard' # <<>>
    BY <1>2
  <2>2. CASE toBoard = <<>>
    <3>1. toBoard'[1] = f
      BY <1>2, <2>2
    <3> QED
      BY <1>1, <1>3, <2>1, <2>2, <3>1 DEF Spent, Hurt
  <2>3. CASE toBoard # <<>>
    <3>1. 1 \in 1 .. n
      BY <2>3 DEF TypeOK
    <3>2. toBoard'[1] = toBoard[1]
      BY <1>2, <3>1
    <3> QED
      BY <1>1, <2>1, <2>3, <3>2 DEF Spent, Hurt
  <2> QED
    BY <2>2, <2>3
<1>6. UNCHANGED <<real_seq, hpkt, hseq, mem, curr_addr, load_size, toHost>>
  BY <1>1 DEF boardVars, hostVars
<1>7. BoardPkt' = BoardPkt
  BY <1>6 DEF BoardPkt, Late
<1> HIDE DEF f, n
<1>8. HostNear' /\ RepliesNear' /\ ImageAscends'
  BY <1>5, <1>6, <1>7 DEF DamageInv, HostNear, RepliesNear, ImageAscends, Late, Wants
<1>9. NearFrame(f, hpkt, BoardPkt, real_seq, 1 + Spent)
  <2>1. f = Frame(hpkt, f.seq) /\ hpkt \in 0 .. hpkt /\ hpkt <= LastPkt
    BY <1>1, <1>3, <1>4 DEF f
  <2>2. hpkt + Gap(f.seq, real_seq) = BoardPkt /\ Gap(f.seq, real_seq) <= 1 + Spent
    BY <1>3 DEF DamageInv, HostNear, BoardPkt, Late
  <2> QED
    BY <2>1, <2>2 DEF NearFrame
<1>10. ASSUME NEW i \in 1 .. n + 1, i > 1 \/ ~ Hurt(toBoard'[i])
       PROVE  ~ Hurt(toBoard'[i]) /\ NearFrame(toBoard'[i], hpkt, BoardPkt, real_seq, 1 + Spent)
  <2>1. CASE i = n + 1
    BY <1>2, <1>3, <1>9, <2>1
  <2>2. CASE i # n + 1
    <3>1. i \in 1 .. n /\ (i > 1 => i \in 2 .. n)
      BY <1>2, <2>2
    <3>2. ~ Hurt(toBoard[i])
      BY <1>2, <1>10, <3>1, FramesNearIs DEF DamageInv, n
    <3> QED
      BY <1>2, <3>1, <3>2, FramesNearIs DEF DamageInv, n
  <2> QED
    BY <2>1, <2>2
<1>11. ASSUME NEW i \in 1 .. n, ~ Hurt(toBoard[i])
       PROVE  Gap(toBoard[i].seq, real_seq) >= Gap(hseq, real_seq)
  <2>1. NearFrame(toBoard[i], hpkt, BoardPkt, real_seq, 1 + Spent)
    BY <1>11, FramesNearIs DEF DamageInv, n
  <2>2. PICK p \in 0 .. hpkt : p + Gap(toBoard[i].seq, real_seq) = BoardPkt
    BY <2>1 DEF NearFrame
  <2>3. Gap(toBoard[i].seq, real_seq) \in Nat /\ Gap(hseq, real_seq) \in Nat
    BY <1>4, Numbers, GapFacts DEF n
  <2>4. BoardPkt = hpkt + Gap(hseq, real_seq)
    BY DEF BoardPkt, Late
  <2> QED
    BY <1>4, <2>2, <2>3, <2>4
<1>12. ASSUME NEW i \in 1 .. n + 1, NEW j \in 1 .. n + 1, i < j, ~ Hurt(toBoard'[i])
       PROVE  Gap(toBoard'[i].seq, real_seq) >= Gap(toBoard'[j].seq, real_seq)
  <2>1. i \in 1 .. n /\ toBoard'[i] = toBoard[i]
    BY <1>2, <1>12
  <2>2. CASE j = n + 1
    BY <1>2, <1>3, <1>11, <1>12, <2>1, <2>2
  <2>3. CASE j # n + 1
    <3>1. j \in 1 .. n /\ toBoard'[j] = toBoard[j]
      BY <1>2, <2>3
    <3> QED
      BY <1>12, <2>1, <3>1, FramesNearIs DEF DamageInv, n
  <2> QED
    BY <2>2, <2>3
<1>13. FramesNear'
  <2>1. \A i \in 2 .. n + 1 : ~ Hurt(toBoard'[i])
    BY <1>2, <1>10
  <2> QED
    BY <1>2, <1>5, <1>6, <1>7, <1>10, <1>12, <2>1 DEF FramesNear, NearFrame, Late, Hurt
<1> QED
  BY <1>8, <1>13 DEF DamageInv

\* An answer takes the host on only if the board has gone past its packet.
LEMMA HostReceiveNear ==
  ASSUME TypeOK, DamageInv, HostReceive
  PROVE  DamageInv'
<1> DEFINE n == Len(toHost)
           W(i) == Wants(toHost[i])
<1>1. /\ UNCHANGED <<boardVars, toBoard, faults>> /\ toHost # <<>> /\ toHost' = Tail(toHost)
      /\ \/ UNCHANGED <<hpkt, hseq>>
         \/ hpkt' = hpkt + 1 /\ hseq' = NextSeq(hseq) /\ Answers(Head(toHost))
  BY DEF HostReceive, hostVars
<1>2. /\ n \in Nat /\ 1 \in 1 .. n /\ Head(toHost) = toHost[1] /\ Len(toHost') = n - 1
      /\ \A i \in 1 .. n - 1 : toHost'[i] = toHost[i + 1]
  BY <1>1 DEF TypeOK
<1>3. /\ hpkt \in Nat /\ hseq \in SeqNums /\ real_seq \in SeqNums
      /\ \A i \in 1 .. n : W(i) \in SeqNums
  BY Numbers
<1>4. UNCHANGED <<real_seq, mem, curr_addr, load_size>> /\ Spent' = Spent
  BY <1>1 DEF boardVars, Spent, Hurt
<1>5. /\ \A i \in 1 .. n : Gap(W(i), real_seq) <= Gap(hseq, real_seq)
      /\ \A i, j \in 1 .. n : i < j => Gap(W(i), real_seq) >= Gap(W(j), real_seq)
  BY DEF DamageInv, RepliesNear, Late
<1>6. /\ Gap(hseq', real_seq) <= Gap(hseq, real_seq) /\ BoardPkt' = BoardPkt /\ hpkt' >= hpkt
      /\ hseq' = hseq \/ hseq' = W(1)
  <2>1. CASE UNCHANGED <<hpkt, hseq>>
    BY <1>3, <1>4, <2>1, GapFacts DEF BoardPkt, Late
  <2>2. CASE hpkt' = hpkt + 1 /\ hseq' = NextSeq(hseq) /\ Answers(Head(toHost))
    <3>1. W(1) = NextSeq(hseq)
      BY <1>2, <2>2 DEF Answers, Wants
    <3>2. Gap(NextSeq(hseq), real_seq) <= Gap(hseq, real_seq)
      BY <1>2, <1>5, <3>1
    <3>3. Gap(hseq, real_seq) > 0
      BY <1>3, <3>2, GapFacts
    <3>4. Gap(NextSeq(hseq), real_seq) = Gap(hseq, real_seq) - 1 /\ Gap(hseq, real_seq) \in Nat
      BY <1>3, <3>3, GapFacts
    <3>5. hpkt + 1 + (Gap(hseq, real_seq) - 1) = hpkt + Gap(hseq, real_seq)
      BY <1>3, <3>4
    <3>6. BoardPkt' = BoardPkt
      BY <1>4, <2>2, <3>4, <3>5 DEF BoardPkt, Late
    <3> QED
      BY <1>3, <2>2, <3>1, <3>2, <3>6
  <2> QED
    BY <1>1, <2>1, <2>2
<1>7. Gap(hseq, real_seq) \in Nat /\ Gap(hseq', real_seq) \in Nat /\ \A i \in 1 .. n : Gap(W(i), real_seq) \in Nat
  <2>1. hseq' \in SeqNums
    BY <1>1, <1>3, SeqNumsCycle
  <2> QED
    BY <1>3, <2>1, GapFacts
<1>8. HostNear'
  BY <1>4, <1>6, <1>7, Numbers DEF DamageInv, HostNear, Late
<1>9. ImageAscends'
  BY <1>4, <1>6 DEF DamageInv, ImageAscends
<1>10. FramesNear'
  <2>1. \A i \in 1 .. Len(toBoard) :
          NearFrame(toBoard[i], hpkt, BoardPkt, real_seq, 1 + Spent) =>
            NearFrame(toBoard[i], hpkt', BoardPkt', real_seq, 1 + Spent)
    <3>1. hpkt' \in Nat
      BY <1>1, <1>3
    <3>2. \A p \in 0 .. hpkt : p \in 0 .. hpkt'
      BY <1>3, <1>6, <3>1
    <3> QED
      BY <1>6, <3>2 DEF NearFrame
  <2>2. /\ \A i \in 2 .. Len(toBoard) : ~ Hurt(toBoard[i])
        /\ \A i \in 1 .. Len(toBoard) : ~ Hurt(toBoard[i]) =>
             NearFrame(toBoard[i], hpkt', BoardPkt', real_seq, 1 + Spent)
        /\ \A i, j \in 1 .. Len(toBoard) :
             i < j /\ ~ Hurt(toBoard[i]) =>
               Gap(toBoard[i].seq, real_seq) >= Gap(toBoard[j].seq, real_seq)
    BY <2>1, FramesNearIs DEF DamageInv
  <2> QED
    BY <1>1, <1>4, <2>2 DEF FramesNear, NearFrame, Late, Hurt
<1>11. RepliesNear'
  <2> DEFINE V(i) == Wants(toHost'[i])
  <2>1. \A i \in 1 .. n - 1 : V(i) = W(i + 1) /\ i + 1 \in 1 .. n
    BY <1>2
  <2> HIDE DEF W, V
  <2>2. ASSUME NEW i \in 1 .. n - 1
        PROVE  Gap(V(i), real_seq) <= Gap(hseq', real_seq)
    <3>1. V(i) = W(i + 1) /\ i + 1 \in 1 .. n /\ 1 < i + 1
      BY <1>2, <2>1
    <3>2. CASE hseq' = hseq
      BY <1>5, <3>1, <3>2
    <3>3. CASE hseq' = W(1)
      BY <1>2, <1>5, <1>7, <3>1, <3>3
    <3> QED
      BY <1>6, <3>2, <3>3
  <2>3. ASSUME NEW i \in 1 .. n - 1, NEW j \in 1 .. n - 1, i < j
        PROVE  Gap(V(i), real_seq) >= Gap(V(j), real_seq)
    BY <1>2, <1>5, <2>1, <2>3, i + 1 < j + 1
  <2> QED
    BY <1>2, <1>4, <2>2, <2>3 DEF RepliesNear, Late, V, Wants
<1> QED
  BY <1>8, <1>9, <1>10, <1>11 DEF DamageInv

\* A frame is lost, or a reply.
LEMMA LossNear ==
  ASSUME FewFaults, TypeOK, DamageInv, TypeOK', LoseFrame \/ LoseReply
  PROVE  DamageInv'
<1>1. UNCHANGED <<real_seq, mem, curr_addr, load_size, hpkt, hseq, faults>>
  BY DEF LoseFrame, LoseReply, boardVars, hostVars
<1>2. BoardPkt' = BoardPkt /\ ImageAscends'
  BY <1>1 DEF BoardPkt, Late, DamageInv, ImageAscends
<1>3. CASE LoseFrame
  <2>1. /\ 1 \in 1 .. Len(toBoard) /\ toBoard' = SubSeq(toBoard, 1 + 1, Len(toBoard))
        /\ toHost' = toHost
    BY <1>3 DEF LoseFrame, TypeOK
  <2>2. HostNear' /\ FramesNear'
    BY <1>1, <2>1, FramesStayNear
  <2>3. RepliesNear'
    BY <1>1, <2>1 DEF DamageInv, RepliesNear, Late, Wants
  <2> QED
    BY <1>2, <2>2, <2>3 DEF DamageInv
<1>4. CASE LoseReply
  <2>1. /\ toBoard' = toBoard /\ Len(toHost') = Len(toHost) - 1 /\ Len(toHost) \in Nat
        /\ \A i \in 1 .. Len(toHost) - 1 : toHost'[i] = toHost[i + 1]
    BY <1>4 DEF LoseReply, TypeOK
  <2>2. Spent' = Spent
    BY <1>1, <2>1 DEF Spent, Hurt
  <2>3. HostNear' /\ FramesNear'
    BY <1>1, <1>2, <2>1, <2>2 DEF DamageInv, HostNear, FramesNear, Late, Hurt
  <2>4. RepliesNear'
    <3>1. \A i \in 1 .. Len(toHost) - 1 : i + 1 \in 1 .. Len(toHost)
      BY <2>1
    <3>2. \A i, j \in 1 .. Len(toHost) - 1 : i < j => i + 1 < j + 1
      BY <2>1
    <3> QED
      BY <1>1, <2>1, <3>1, <3>2 DEF DamageInv, RepliesNear, Late, Wants
  <2> QED
    BY <1>2, <2>3, <2>4 DEF DamageInv
<1> QED
  BY <1>3, <1>4

\* Damage shows, in the check character or in the carriage return.
LEMMA DamageNear ==
  ASSUME TypeOK, DamageInv, DamageFrame
  PROVE  DamageInv'
<1> DEFINE f == toBoard[1]
<1>1. /\ UNCHANGED <<boardVars, hostVars, toHost>> /\ faults' = faults + 1
      /\ toBoard # <<>> /\ ~ Hurt(f)
  BY DEF DamageFrame, TypeOK, Hurt
<1>2. PICK g \in Damaged(f) : toBoard' = <<g>> \o Tail(toBoard)
  BY DEF DamageFrame, TypeOK
<1>3. Hurt(g)
  <2>1. 1 \in 1 .. Len(toBoard)
    BY <1>1 DEF TypeOK
  <2>2. f \in Frames
    BY <2>1, Numbers
  <2> HIDE DEF f
  <2> QED
    BY <2>2 DEF Damaged, Hurt, Frames
<1>4. /\ Len(toBoard') = Len(toBoard) /\ toBoard'[1] = g /\ Len(toBoard) \in Nat
      /\ \A i \in 2 .. Len(toBoard) : toBoard'[i] = toBoard[i]
  <2>1. g \in Frames
    <3>1. 1 \in 1 .. Len(toBoard)
      BY <1>1 DEF TypeOK
    <3> QED
      BY <3>1, Numbers, DamagedType
  <2> QED
    BY <1>1, <1>2, <2>1 DEF TypeOK
<1>5. Spent' = Spent
  <2>1. toBoard' # <<>>
    BY <1>2
  <2> QED
    BY <1>1, <1>3, <1>4, <2>1, Numbers DEF Spent, Hurt
<1>6. UNCHANGED <<real_seq, mem, curr_addr, load_size, hpkt, hseq, toHost>>
  BY <1>1 DEF boardVars, hostVars
<1>7. BoardPkt' = BoardPkt
  BY <1>6 DEF BoardPkt, Late
<1>8. HostNear' /\ RepliesNear' /\ ImageAscends'
  BY <1>5, <1>6, <1>7 DEF DamageInv, HostNear, RepliesNear, ImageAscends, Late, Wants
<1>9. FramesNear'
  <2>1. \A i \in 2 .. Len(toBoard) : ~ Hurt(toBoard'[i])
    BY <1>4, FramesNearIs DEF DamageInv
  <2>2. ASSUME NEW i \in 1 .. Len(toBoard), ~ Hurt(toBoard'[i])
        PROVE  i \in 2 .. Len(toBoard) /\ toBoard'[i] = toBoard[i]
    <3>1. i # 1
      BY <1>3, <1>4, <2>2
    <3> QED
      BY <1>4, <3>1
  <2>3. ASSUME NEW i \in 1 .. Len(toBoard), ~ Hurt(toBoard'[i])
        PROVE  NearFrame(toBoard'[i], hpkt, BoardPkt, real_seq, 1 + Spent)
    BY <2>2, <2>3, FramesNearIs DEF DamageInv
  <2>4. ASSUME NEW i \in 1 .. Len(toBoard), NEW j \in 1 .. Len(toBoard),
               i < j, ~ Hurt(toBoard'[i])
        PROVE  Gap(toBoard'[i].seq, real_seq) >= Gap(toBoard'[j].seq, real_seq)
    <3>1. i \in 2 .. Len(toBoard) /\ toBoard'[i] = toBoard[i]
      BY <2>2, <2>4
    <3>2. j \in 2 .. Len(toBoard) /\ toBoard'[j] = toBoard[j]
      BY <1>4, <2>4, <3>1
    <3> QED
      BY <2>4, <3>1, <3>2, FramesNearIs DEF DamageInv
  <2> QED
    BY <1>4, <1>5, <1>6, <1>7, <2>1, <2>3, <2>4 DEF FramesNear, NearFrame, Late, Hurt
<1> QED
  BY <1>8, <1>9 DEF DamageInv

LEMMA DamageInvStep ==
  ASSUME FewFaults, TypeOK, DamageInv, [Next]_vars
  PROVE  DamageInv'
<1>1. TypeOK'
  BY TypeInduction
<1>2. CASE BoardFrame
  BY <1>1, <1>2, BoardKeepsDamageInv
<1>3. CASE HostSend
  BY <1>3, HostSendNear
<1>4. CASE HostReceive
  BY <1>4, HostReceiveNear
<1>5. CASE LoseFrame \/ LoseReply
  BY <1>1, <1>5, LossNear
<1>6. CASE DamageFrame
  BY <1>6, DamageNear
<1>7. CASE UNCHANGED vars
  BY <1>7 DEF vars, boardVars, hostVars, DamageInv, HostNear, FramesNear, RepliesNear,
     ImageAscends, BoardPkt, Late, Spent, Hurt, Wants
<1> QED
  BY <1>2, <1>3, <1>4, <1>5, <1>6, <1>7 DEF Next, LossyNext, Returned

-----------------------------------------------------------------------------
(* What it is for *)

\* As long as fewer frames are damaged than there are sequence numbers, less one,
\* and the check character tells (or only a carriage return is lost): every cell
\* of the image holds a data packet of the file, and they stand in its order, with
\* no packet twice.
THEOREM ImageOrderCorrect == FewFaults => (Spec => []ImageInOrder)
<1>1. TypeOK /\ DamageInv => ImageInOrder
  <2> SUFFICES ASSUME TypeOK, DamageInv PROVE ImageInOrder
    OBVIOUS
  <2>1. load_size \in Nat /\ load_size <= NData
    BY DEF TypeOK, DamageInv, ImageAscends
  <2>2. ASSUME NEW a \in 0 .. load_size - 1
        PROVE  a \in Window /\ mem[a] \in FirstData .. NData + 1
    <3>1. a \in Window
      BY <2>1 DEF Window
    <3>2. mem[a] \in Int
      BY <3>1 DEF TypeOK, Packets, Junk, LastPkt
    <3>3. FirstData + a <= mem[a] /\ mem[a] <= NData + 1
      BY DEF DamageInv, ImageAscends
    <3> QED
      BY <2>1, <3>1, <3>2, <3>3 DEF FirstData
  <2>3. \A a, b \in 0 .. load_size - 1 : a < b => mem[a] < mem[b]
    BY DEF DamageInv, ImageAscends
  <2> QED
    BY <2>2, <2>3 DEF ImageInOrder
<1> SUFFICES ASSUME FewFaults PROVE Spec => []ImageInOrder
  OBVIOUS
<1>2. TypeOK /\ DamageInv /\ [Next]_vars => DamageInv'
  BY DamageInvStep
<1> QED
  BY <1>1, <1>2, DamageInvInit, TypeCorrect, PTL DEF Spec
=============================================================================
