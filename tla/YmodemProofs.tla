---------------------------- MODULE YmodemProofs ----------------------------
(***************************************************************************)
(* Proofs about Ymodem.  On any line: every variable keeps its type, and   *)
(* the bytes counted are never written again and never given back.  On a   *)
(* line that loses answers and garbles block numbers: the image is the     *)
(* beginning of the file, and ymodem_load() returns with all of it.        *)
(***************************************************************************)
EXTENDS YmodemInv, TLAPS

\* The next block goes right behind what has been counted: this is what keeps
\* the bytes of a block, complete or not, away from those before it.
AddrInv ==
  /\ load_size \in Nat /\ curr_addr = load_size
  /\ count \in Nat
  /\ mem = [a \in Window |-> mem[a]]

LEMMA InitAddr == Init => AddrInv
  BY DEF Init, AddrInv

\* The data byte is the only step that writes to memory, and it writes
\* behind load_size.
LEMMA DataByteKeeps ==
  ASSUME AddrInv, DataByte
  PROVE  /\ AddrInv'
         /\ \A a \in Window : a < load_size => mem'[a] = mem[a]
  <1>1. count' \in Nat /\ load_size' = load_size /\ curr_addr' = curr_addr
    BY DEF AddrInv, DataByte
  <1>2. mem' = [mem EXCEPT ![curr_addr + count] = Head(toBoard)]
    BY DEF DataByte
  <1>3. mem' = [a \in Window |-> mem'[a]]
    BY <1>2 DEF AddrInv
  <1>4. \A a \in Window : a < load_size => mem'[a] = mem[a]
    <2> SUFFICES ASSUME NEW a \in Window, a < load_size
                 PROVE  mem'[a] = mem[a]
      OBVIOUS
    <2>1. curr_addr + count >= load_size
      BY DEF AddrInv
    <2>2. a # curr_addr + count
      BY <2>1 DEF AddrInv
    <2> QED
      BY <1>2, <2>2 DEF AddrInv
  <1> QED
    BY <1>1, <1>3, <1>4 DEF AddrInv

\* A block is counted by as much as the address advances.
LEMMA Crc1Keeps ==
  ASSUME AddrInv, Crc1
  PROVE  AddrInv' /\ load_size' >= load_size /\ mem' = mem
  BY DEF AddrInv, Crc1, Accept

\* Every other step leaves memory and both counters alone.
Untouched ==
  /\ UNCHANGED <<mem, load_size, curr_addr>>
  /\ count' \in {count, 0}

LEMMA OtherBoardSteps ==
  ASSUME BoardStep
  PROVE  Untouched \/ DataByte \/ Crc1
  <1>1. CASE SendC        BY <1>1 DEF SendC, Untouched
  <1>2. CASE FirstByte    BY <1>2 DEF FirstByte, Untouched
  <1>3. CASE FirstTimeout BY <1>3 DEF FirstTimeout, Untouched
  <1>4. CASE HeadByte     BY <1>4 DEF HeadByte, Untouched
  <1>5. CASE HeadTimeout  BY <1>5 DEF HeadTimeout, boardVars, Untouched
  <1>6. CASE Num0         BY <1>6 DEF Num0, Untouched
  <1>7. CASE Num1         BY <1>7 DEF Num1, Untouched
  <1>8. CASE FlushByte    BY <1>8 DEF FlushByte, boardVars, Untouched
  <1>9. CASE FlushEnd     BY <1>9 DEF FlushEnd, Untouched
  <1>10. CASE DataTimeout BY <1>10 DEF DataTimeout, Untouched
  <1>11. CASE DataEnd     BY <1>11 DEF DataEnd, Untouched
  <1>12. CASE Crc0        BY <1>12 DEF Crc0, Untouched
  <1>13. CASE SitOut      BY <1>13 DEF SitOut, Untouched
  <1> QED
    BY <1>1, <1>2, <1>3, <1>4, <1>5, <1>6, <1>7, <1>8, <1>9, <1>10, <1>11,
       <1>12, <1>13 DEF BoardStep

LEMMA OtherSteps ==
  ASSUME [Next]_vars
  PROVE  Untouched \/ DataByte \/ Crc1
  <1>1. CASE BoardStep
    BY <1>1, OtherBoardSteps
  <1>2. CASE UNCHANGED boardVars
    BY <1>2 DEF boardVars, Untouched
  <1>3. HostReceive \/ HostTimeout \/ LoseReply \/ Returned \/ UNCHANGED vars
          => UNCHANGED boardVars
    BY DEF HostReceive, HostTimeout, LoseReply, Returned, vars
  <1> QED
    BY <1>1, <1>2, <1>3 DEF Next

LEMMA NextAddr ==
  ASSUME AddrInv, [Next]_vars
  PROVE  /\ AddrInv'
         /\ load_size' >= load_size
         /\ \A a \in Window : a < load_size => mem'[a] = mem[a]
  <1>1. CASE DataByte
    <2>1. load_size' = load_size
      BY <1>1 DEF DataByte
    <2> QED
      BY <1>1, <2>1, DataByteKeeps DEF AddrInv
  <1>2. CASE Crc1
    BY <1>2, Crc1Keeps
  <1>3. CASE Untouched
    BY <1>3 DEF Untouched, AddrInv
  <1> QED
    BY <1>1, <1>2, <1>3, OtherSteps

\* On any line, what has been counted into the image is never touched again.
THEOREM AcceptedDataStays == Spec => AcceptedStays
  <1>1. AddrInv /\ [Next]_vars => AddrInv'
    BY NextAddr
  <1>2. AddrInv /\ [Next]_vars =>
          [/\ load_size' >= load_size
           /\ \A a \in Window : a < load_size => mem'[a] = mem[a]]_vars
    BY NextAddr
  <1>3. Spec => []AddrInv
    BY InitAddr, <1>1, PTL DEF Spec
  <1> QED
    BY <1>2, <1>3, PTL DEF Spec, AcceptedStays

-----------------------------------------------------------------------------
(* Blocks *)

LEMMA Constants ==
  /\ NStx \in Nat /\ NSoh \in Nat /\ NBlocks \in Nat
  /\ SohSize \in Nat \ {0} /\ StxSize \in Nat \ {0}
  /\ NumMod \in Nat /\ NumMod >= 2 /\ MaxFaults \in Nat
BY ConstantsAssumption DEF NBlocks

LEMMA StartFacts ==
  ASSUME NEW b
  PROVE  /\ StartOf(b) \in {SOH, STX} /\ StartOf(0) = SOH
         /\ SizeOf(StartOf(b)) \in Nat \ {0}
         /\ SizeOf(StartOf(b)) \in {SohSize, StxSize}
BY Constants DEF StartOf, SizeOf, SOH, STX

LEMMA OffsetType == \A b \in Nat : Offset(b) \in Int
<1> SUFFICES ASSUME NEW b \in Nat PROVE Offset(b) \in Int
  OBVIOUS
<1>1. (b - 1) * StxSize \in Int /\ NStx * StxSize \in Int /\ (b - 1 - NStx) * SohSize \in Int
  BY Constants
<1> QED
  BY <1>1 DEF Offset

LEMMA ConcatLen ==
  ASSUME NEW s \in Seq(Int), NEW u \in Seq(Int)
  PROVE  s \o u \in Seq(Int) /\ Len(s \o u) = Len(s) + Len(u)
OBVIOUS

LEMMA ConcatLeft ==
  ASSUME NEW s \in Seq(Int), NEW u \in Seq(Int), NEW i \in 1 .. Len(s)
  PROVE  (s \o u)[i] = s[i]
OBVIOUS

LEMMA ConcatRight ==
  ASSUME NEW s \in Seq(Int), NEW u \in Seq(Int), NEW i \in 1 .. Len(u)
  PROVE  (s \o u)[Len(s) + i] = u[i]
OBVIOUS

Framed(h, d, e) == h \o d \o e

\* Three bytes of head, n bytes of data and two bytes of CRC.
HasParts(m, h, d, e, n) ==
  /\ m \in Seq(Int) /\ Len(m) = 5 + n
  /\ \A i \in 1 .. 3 : m[i] = h[i]
  /\ \A i \in 1 .. n : m[3 + i] = d[i]
  /\ m[4 + n] = e[1] /\ m[5 + n] = e[2]

LEMMA FrameFacts ==
  ASSUME NEW h \in Seq(Int), NEW d \in Seq(Int), NEW e \in Seq(Int), NEW n \in Nat,
         Len(h) = 3, Len(d) = n, Len(e) = 2
  PROVE  HasParts(Framed(h, d, e), h, d, e, n)
<1> DEFINE m == Framed(h, d, e)
<1> DEFINE q == h \o d
<1>1. q \in Seq(Int)
  BY ConcatLen
<1>2. Len(q) = 3 + n
  BY ConcatLen
<1>3. ASSUME NEW i \in 1 .. 3 PROVE q[i] = h[i]
  BY ConcatLeft
<1>4. ASSUME NEW i \in 1 .. n PROVE q[3 + i] = d[i]
  BY ConcatRight
<1>m. m = q \o e
  BY DEF Framed
<1> HIDE DEF q, m
<1>5. m \in Seq(Int)
  BY <1>1, <1>m, ConcatLen
<1>6. Len(m) = 5 + n
  <2>1. Len(m) = Len(q) + Len(e)
    BY <1>1, <1>m, ConcatLen
  <2> QED
    BY <2>1, <1>2
<1>7. ASSUME NEW i \in 1 .. 3 + n PROVE m[i] = q[i]
  BY <1>1, <1>2, <1>m, ConcatLeft
<1>8. \A i \in 1 .. Len(e) : m[Len(q) + i] = e[i]
  <2>1. \A i \in 1 .. Len(e) : (q \o e)[Len(q) + i] = e[i]
    BY <1>1, ConcatRight
  <2> QED
    BY <2>1, <1>m, Zenon
<1>9. m[3 + n + 1] = e[1] /\ m[3 + n + 2] = e[2]
  <2>1. 1 \in 1 .. Len(e) /\ 2 \in 1 .. Len(e)
    OBVIOUS
  <2>2. m[Len(q) + 1] = e[1] /\ m[Len(q) + 2] = e[2]
    BY <1>8, <2>1, Zenon
  <2> QED
    BY <1>2, <2>2
<1>10. ASSUME NEW i \in 1 .. 3 PROVE m[i] = h[i]
  <2>1. i \in 1 .. 3 + n
    OBVIOUS
  <2>2. m[i] = q[i]
    BY <2>1, <1>7
  <2> QED
    BY <2>2, <1>3
<1>11. ASSUME NEW i \in 1 .. n PROVE m[3 + i] = d[i]
  <2>1. 3 + i \in 1 .. 3 + n
    OBVIOUS
  <2>2. m[3 + i] = q[3 + i]
    BY <2>1, <1>7
  <2> QED
    BY <2>2, <1>4
<1>12. m[4 + n] = e[1] /\ m[5 + n] = e[2]
  BY <1>9
<1>13. HasParts(m, h, d, e, n)
  BY <1>5, <1>6, <1>10, <1>11, <1>12 DEF HasParts
<1> QED
  BY <1>13 DEF m

\* The bytes of a block on the line.
LEMMA BlockBytes ==
  ASSUME NEW b \in 0 .. NBlocks
  PROVE  LET n == SizeOf(StartOf(b)) IN
         /\ Block(b) \in Seq(Int) /\ Len(Block(b)) = 5 + n
         /\ Block(b)[1] = StartOf(b)
         /\ Block(b)[2] = b % NumMod /\ Block(b)[3] = NumMod - 1 - (b % NumMod)
         /\ b > 0 => \A i \in 1 .. n : Block(b)[3 + i] = 1000 + Offset(b) + i - 1
         /\ b = 0 => \A i \in 1 .. n : Block(b)[3 + i] = Junk
         /\ Block(b)[4 + n] = CRC /\ Block(b)[5 + n] = CRC
<1> DEFINE n == SizeOf(StartOf(b))
           d == IF b = 0 THEN [i \in 1 .. SohSize |-> Junk] ELSE Data(b)
           h == <<StartOf(b), b % NumMod, NumMod - 1 - (b % NumMod)>>
<1>1. n \in Nat \ {0} /\ (b = 0 => n = SohSize)
  BY StartFacts, Constants DEF SizeOf, SOH, STX
<1>2. b \in Nat /\ b % NumMod \in Int /\ Offset(b) \in Int /\ StartOf(b) \in Int
  BY Constants, StartFacts, OffsetType DEF SOH, STX
<1>3. d = [i \in 1 .. n |-> IF b = 0 THEN Junk ELSE 1000 + Offset(b) + i - 1]
  BY <1>1 DEF Data
<1>4. h \in Seq(Int) /\ Len(h) = 3 /\ h[1] = StartOf(b) /\ h[2] = b % NumMod
      /\ h[3] = NumMod - 1 - (b % NumMod)
  BY <1>2, Constants
<1> DEFINE e == <<CRC, CRC>>
           m == Block(b)
<1>6. e \in Seq(Int) /\ Len(e) = 2 /\ e[1] = CRC /\ e[2] = CRC /\ m = Framed(h, d, e)
  BY DEF Block, CRC, Framed
<1> HIDE DEF h, d, n, e, m
<1>5. d \in Seq(Int) /\ Len(d) = n
  BY <1>1, <1>2, <1>3 DEF Junk
<1>7. HasParts(m, h, d, e, n)
  <2>1. /\ h \in Seq(Int) /\ d \in Seq(Int) /\ e \in Seq(Int) /\ n \in Nat
        /\ Len(h) = 3 /\ Len(d) = n /\ Len(e) = 2 /\ m = Framed(h, d, e)
    BY <1>1, <1>4, <1>5, <1>6
  <2>2. HasParts(Framed(h, d, e), h, d, e, n)
    BY <2>1, FrameFacts
  <2> QED
    BY <2>1, <2>2
<1>8. m[1] = h[1] /\ m[2] = h[2] /\ m[3] = h[3]
  BY <1>7 DEF HasParts
<1>9. ASSUME b > 0, NEW i \in 1 .. n PROVE m[3 + i] = 1000 + Offset(b) + i - 1
  <2>1. m[3 + i] = d[i]
    BY <1>7, <1>9, Zenon DEF HasParts
  <2> QED
    BY <2>1, <1>3, <1>9
<1>10. ASSUME b = 0, NEW i \in 1 .. n PROVE m[3 + i] = Junk
  <2>1. m[3 + i] = d[i]
    BY <1>7, <1>10, Zenon DEF HasParts
  <2> QED
    BY <2>1, <1>3, <1>10
<1>11. m[4 + n] = CRC /\ m[5 + n] = CRC
  BY <1>6, <1>7, Zenon DEF HasParts
<1>12. m[1] = StartOf(b) /\ m[2] = b % NumMod /\ m[3] = NumMod - 1 - (b % NumMod)
  BY <1>4, <1>8, Zenon
<1> QED
  BY <1>7, <1>9, <1>10, <1>11, <1>12, Zenon DEF HasParts, n, m

LEMMA MessageType ==
  ASSUME NEW p, NEW b \in 0 .. NBlocks
  PROVE  Message(p, b) \in Seq(Int)
BY BlockBytes DEF Message, EOT

-----------------------------------------------------------------------------
(* Types, on any line *)

LEMMA TypeInit == Init => TypeOK
<1> SUFFICES ASSUME Init PROVE TypeOK
  OBVIOUS
<1>1. mem \in [Window -> Int]
  BY DEF Init, Junk
<1>2. hblk \in 0 .. NBlocks /\ faults \in 0 .. MaxFaults
  BY Constants DEF Init
<1>3. toBoard \in Seq(Int) /\ toHost \in Seq(Int)
  BY DEF Init
<1>4. /\ pc \in Places
      /\ blk \in Nat /\ size \in {0, SohSize, StxSize}
      /\ count \in Nat /\ (pc \in {"data", "crc0", "crc1"} => count <= size)
      /\ curr_addr \in Nat /\ load_size \in Nat /\ num \in Int
  BY DEF Init, Places
<1>5. hpc \in Waiting \cup {"C0", "C1", "done"} /\ lost \in BOOLEAN
  BY DEF Init, Waiting
<1> QED
  BY <1>1, <1>2, <1>3, <1>4, <1>5 DEF TypeOK

\* Whatever the line makes of a message, it delivers bytes.
LEMMA GarbledType ==
  ASSUME NEW m \in Seq(Int), NEW g \in Garbled(m)
  PROVE  g \in Seq(Int) \/ m = <<>>
<1>1. ASSUME m # <<>> PROVE Tail(m) \in Seq(Int)
  BY <1>1
<1>2. ASSUME NEW k \in DOMAIN m PROVE [m EXCEPT ![k] = Junk] \in Seq(Int)
  BY DEF Junk
<1>3. ASSUME NEW k \in 4 .. Len(m) - 2 PROVE RemoveAt(m, k) \in Seq(Int)
  <2>1. SubSeq(m, 1, k - 1) \in Seq(Int) /\ SubSeq(m, k + 1, Len(m)) \in Seq(Int)
    OBVIOUS
  <2> QED
    BY <2>1, ConcatLen DEF RemoveAt
<1>4. ASSUME NEW k \in 2 .. Len(m) PROVE InsertAt(m, k, Gap) \in Seq(Int)
  <2>1. SubSeq(m, 1, k - 1) \in Seq(Int) /\ SubSeq(m, k, Len(m)) \in Seq(Int)
        /\ <<Gap>> \in Seq(Int)
    BY DEF Gap
  <2> QED
    BY <2>1, ConcatLen DEF InsertAt
<1> QED
  BY <1>1, <1>2, <1>3, <1>4 DEF Garbled

LEMMA PutType ==
  ASSUME TypeOK, NEW m \in Seq(Int), m # <<>>, Put(m)
  PROVE  toBoard' \in Seq(Int) /\ faults' \in 0 .. MaxFaults
<1>1. toBoard \in Seq(Int) /\ faults \in 0 .. MaxFaults
  BY DEF TypeOK
<1>2. ASSUME NEW g \in Seq(Int) PROVE toBoard \o g \in Seq(Int)
  BY <1>1, ConcatLen
<1>3. \A g \in Garbled(m) : g \in Seq(Int)
  BY GarbledType
<1>4. CASE toBoard' = toBoard \o m /\ UNCHANGED faults
  BY <1>1, <1>2, <1>4
<1>5. CASE \E g \in Garbled(m) : toBoard' = toBoard \o g /\ faults' = faults + 1 /\ faults < MaxFaults
  <2>1. toBoard' \in Seq(Int)
    BY <1>2, <1>3, <1>5
  <2>2. faults' \in 0 .. MaxFaults
    BY <1>1, <1>5, Constants
  <2> QED
    BY <2>1, <2>2
<1> QED
  BY <1>4, <1>5 DEF Put

LEMMA HostGoToType ==
  ASSUME TypeOK, NEW p \in Waiting \cup {"C0", "C1", "done"}, NEW b \in 0 .. NBlocks,
         HostGoTo(p, b)
  PROVE  /\ hpc' \in Waiting \cup {"C0", "C1", "done"} /\ hblk' \in 0 .. NBlocks
         /\ toBoard' \in Seq(Int) /\ faults' \in 0 .. MaxFaults
<1>1. Message(p, b) \in Seq(Int) /\ Message(p, b) # <<>>
  <2>1. Len(Block(b)) > 0 /\ Block(b) # <<>>
    BY BlockBytes, StartFacts
  <2> QED
    BY <2>1, MessageType DEF Message
<1> QED
  BY <1>1, PutType DEF HostGoTo, TypeOK

\* What the host makes of an answer.
LEMMA HostChoice ==
  ASSUME HostReceive
  PROVE  \/ HostGoTo("ack0", 0) \/ HostGoTo("C1", 0) \/ HostNextBlock
         \/ HostGoTo("done", hblk) \/ (hpc \in Waiting /\ HostGoTo(hpc, hblk)) \/ HostIgnore
<1> DEFINE r == Head(toHost)
<1>1. CASE hpc = "C0" /\ r = C              BY <1>1 DEF HostReceive
<1>2. CASE hpc = "ack0" /\ r = ACK          BY <1>2 DEF HostReceive
<1>3. CASE hpc = "C1" /\ r = C              BY <1>3 DEF HostReceive
<1>4. CASE hpc = "ack" /\ r = ACK           BY <1>4 DEF HostReceive
<1>5. CASE hpc = "ackEOT" /\ r = ACK        BY <1>5 DEF HostReceive
<1>6. CASE hpc \in Waiting /\ r \in {NAK, C}
  BY <1>6 DEF HostReceive, Waiting, NAK, C, ACK
<1>7. CASE ~ (\/ hpc = "C0" /\ r = C
              \/ hpc = "ack0" /\ r = ACK
              \/ hpc = "C1" /\ r = C
              \/ hpc = "ack" /\ r = ACK
              \/ hpc = "ackEOT" /\ r = ACK
              \/ hpc \in Waiting /\ r \in {NAK, C})
  BY <1>7 DEF HostReceive
<1> QED
  BY <1>1, <1>2, <1>3, <1>4, <1>5, <1>6, <1>7

LEMMA HostReceiveType == TypeOK /\ HostReceive => TypeOK'
<1> SUFFICES ASSUME TypeOK, HostReceive PROVE TypeOK'
  OBVIOUS
<1>1. hblk \in 0 .. NBlocks /\ NBlocks \in Nat /\ toHost' \in Seq(Int)
  BY Constants DEF TypeOK, HostReceive
<1>2. \/ \E p \in Waiting \cup {"C0", "C1", "done"}, b \in 0 .. NBlocks : HostGoTo(p, b)
      \/ HostIgnore
  <2>1. \/ HostGoTo("ack0", 0) \/ HostGoTo("C1", 0) \/ HostNextBlock
        \/ HostGoTo("done", hblk) \/ (hpc \in Waiting /\ HostGoTo(hpc, hblk)) \/ HostIgnore
    BY HostChoice
  <2>2. 0 \in 0 .. NBlocks /\ (hblk < NBlocks => hblk + 1 \in 0 .. NBlocks)
    BY <1>1
  <2>3. HostNextBlock =>
          \E p \in Waiting \cup {"C0", "C1", "done"}, b \in 0 .. NBlocks : HostGoTo(p, b)
    BY <1>1, <2>2 DEF HostNextBlock, Waiting
  <2> QED
    BY <1>1, <2>1, <2>2, <2>3 DEF Waiting
<1>3. /\ hpc' \in Waiting \cup {"C0", "C1", "done"} /\ hblk' \in 0 .. NBlocks
      /\ toBoard' \in Seq(Int) /\ faults' \in 0 .. MaxFaults
  BY <1>2, HostGoToType DEF HostIgnore, hostVars, TypeOK
<1> QED
  BY <1>1, <1>3 DEF HostReceive, boardVars, TypeOK

LEMMA BoardStepType == TypeOK /\ BoardStep => TypeOK'
<1> SUFFICES ASSUME TypeOK, BoardStep PROVE TypeOK'
  OBVIOUS
<1>1. UNCHANGED <<hpc, hblk, faults, lost>>
  BY DEF BoardStep, hostVars
<1>2. toBoard' \in Seq(Int)
  <2>1. toBoard # <<>> => Tail(toBoard) \in Seq(Int)
    BY DEF TypeOK
  <2> QED
    BY <2>1 DEF TypeOK, BoardStep, SendC, FirstByte, FirstTimeout, HeadByte, HeadTimeout,
       Num0, Num1, FlushByte, FlushEnd, DataByte, DataTimeout, DataEnd, Crc0, Crc1,
       SitOut, RecvInTime, Ready, TimedOut
<1>3. toHost' \in Seq(Int)
  <2>1. ASSUME NEW e \in Seq(Int), Send(e) PROVE toHost' \in Seq(Int)
    BY <2>1, ConcatLen DEF Send, TypeOK
  <2>2. /\ <<C>> \in Seq(Int) /\ <<ACK, C>> \in Seq(Int) /\ <<NAK>> \in Seq(Int)
        /\ <<Text>> \in Seq(Int) /\ <<ACK>> \in Seq(Int)
        /\ <<ACK, CAN, CAN, CAN, CAN, CAN, CAN>> \in Seq(Int)
    BY DEF C, ACK, NAK, Text, CAN
  <2>3. UNCHANGED toHost \/ \E e \in Seq(Int) : Send(e)
    BY <2>2 DEF BoardStep, SendC, FirstByte, FirstTimeout, HeadByte, HeadTimeout,
       Num0, Num1, FlushByte, FlushEnd, Refuse, DataByte, DataTimeout, DataEnd, Crc0,
       Crc1, Accept, SitOut
  <2> QED
    BY <2>1, <2>3 DEF TypeOK
<1> DEFINE T == /\ pc' \in Places /\ blk' \in Nat /\ size' \in {0, SohSize, StxSize}
                /\ count' \in Nat /\ num' \in Int
                /\ curr_addr' \in Nat /\ load_size' \in Nat
                /\ mem' \in [Window -> Int]
           R == pc' \in {"data", "crc0", "crc1"} => count' <= size'
<1>4. /\ pc \in Places /\ blk \in Nat /\ size \in {0, SohSize, StxSize}
      /\ count \in Nat /\ num \in Int /\ curr_addr \in Nat /\ load_size \in Nat
      /\ mem \in [Window -> Int]
  BY DEF TypeOK
<1>5. /\ pc \in {"data", "crc0", "crc1"} => count <= size
      /\ size \in Nat
  <2>1. size \in Nat
    BY <1>4, Constants
  <2> QED
    BY <2>1 DEF TypeOK
<1>6. \A x : SizeOf(x) \in {SohSize, StxSize}
  BY DEF SizeOf
<1>7. Ready => Head(toBoard) \in Int
  BY DEF Ready, TypeOK
<1> SUFFICES T /\ R
  BY <1>1, <1>2, <1>3 DEF TypeOK
<1>8. CASE SendC
  BY <1>4, <1>5, <1>8 DEF SendC, Places
<1>9. CASE FirstByte
  BY <1>4, <1>5, <1>6, <1>7, <1>9 DEF FirstByte, RecvInTime, Places
<1>10. CASE FirstTimeout
  BY <1>4, <1>5, <1>10 DEF FirstTimeout, Places
<1>11. CASE HeadByte
  BY <1>4, <1>5, <1>6, <1>7, <1>11 DEF HeadByte, RecvInTime, Places
<1>12. CASE HeadTimeout
  BY <1>4, <1>5, <1>12 DEF HeadTimeout, boardVars, Places
<1>13. CASE Num0
  BY <1>4, <1>5, <1>7, <1>13 DEF Num0, RecvInTime, Places
<1>14. CASE Num1
  BY <1>4, <1>5, <1>14 DEF Num1, Places
<1>15. CASE FlushByte
  BY <1>4, <1>5, <1>15 DEF FlushByte, boardVars, Places
<1>16. CASE FlushEnd
  BY <1>4, <1>5, <1>16 DEF FlushEnd, Places
<1>17. CASE DataByte
  <2>1. mem' = [mem EXCEPT ![curr_addr + count] = Head(toBoard)] /\ Head(toBoard) \in Int
    BY <1>7, <1>17 DEF DataByte, RecvInTime
  <2>2. mem' \in [Window -> Int]
    BY <1>4, <2>1
  <2>3. count' \in Nat /\ count' <= size'
    BY <1>4, <1>5, <1>17 DEF DataByte, MoreData
  <2> QED
    BY <1>4, <1>17, <2>2, <2>3 DEF DataByte
<1>18. CASE DataTimeout
  BY <1>4, <1>5, <1>18 DEF DataTimeout, Places
<1>19. CASE DataEnd
  BY <1>4, <1>5, <1>19 DEF DataEnd, Places
<1>20. CASE Crc0
  BY <1>4, <1>5, <1>20 DEF Crc0, Places
<1>21. CASE Crc1
  BY <1>4, <1>5, <1>21 DEF Crc1, Accept, Places
<1>22. CASE SitOut
  BY <1>4, <1>5, <1>22 DEF SitOut, Places
<1> QED
  BY <1>8, <1>9, <1>10, <1>11, <1>12, <1>13, <1>14, <1>15, <1>16,
     <1>17, <1>18, <1>19, <1>20, <1>21, <1>22 DEF BoardStep

LEMMA TypeStep == TypeOK /\ [Next]_vars => TypeOK'
<1> SUFFICES ASSUME TypeOK, [Next]_vars PROVE TypeOK'
  OBVIOUS
<1>1. CASE BoardStep
  BY <1>1, BoardStepType
<1>2. CASE HostReceive
  BY <1>2, HostReceiveType
<1>3. CASE HostTimeout
  <2>1. HostGoTo(hpc, hblk) /\ UNCHANGED <<boardVars, toHost, lost>>
    BY <1>3 DEF HostTimeout
  <2> QED
    BY <2>1, HostGoToType DEF TypeOK, boardVars
<1>4. CASE LoseReply
  <2>1. toHost' \in Seq(Int) /\ faults' \in 0 .. MaxFaults
    BY <1>4, Constants DEF LoseReply, TypeOK
  <2> QED
    BY <1>4, <2>1 DEF LoseReply, TypeOK, boardVars, hostVars
<1>5. CASE Returned \/ UNCHANGED vars
  BY <1>5 DEF Returned, vars, boardVars, hostVars, lineVars, TypeOK
<1> QED
  BY <1>1, <1>2, <1>3, <1>4, <1>5 DEF Next

\* On any line every variable keeps its type, and no block gets more data than
\* it has room for.
THEOREM TypeCorrect == Spec => []TypeOK
BY TypeInit, TypeStep, PTL DEF Spec
-----------------------------------------------------------------------------
(***************************************************************************)
(* On a line that loses answers and garbles block numbers, as often as it  *)
(* likes.  StepInv is inductive there; from it follow that the image is    *)
(* the beginning of the file, that ymodem_load() returns with all of it,   *)
(* that nothing the host leaves behind is missing, and that the loader     *)
(* implements SerialLoad.                                                  *)
(***************************************************************************)
LossyLine == Faults \subseteq {"reply", "number"}

SendStates == Waiting \cup {"C0", "C1", "done"}

-----------------------------------------------------------------------------
(* Where blocks are in the file *)

LEMMA MulFacts ==
  ASSUME NEW s \in Nat, NEW x \in Int, NEW y \in Int
  PROVE  /\ x * s \in Int /\ (x + 1) * s = x * s + s
         /\ x >= 0 => x * s >= 0
         /\ x <= y => x * s <= y * s
<1>1. x * s \in Int /\ (x + 1) * s = x * s + s
  OBVIOUS
<1>2. ASSUME NEW z \in Int, z >= 0 PROVE z * s >= 0
  BY <1>2
<1>3. y * s = x * s + (y - x) * s
  OBVIOUS
<1>4. x <= y => (y - x) * s >= 0
  BY <1>2
<1>5. y * s \in Int /\ (y - x) * s \in Int
  OBVIOUS
<1> QED
  BY <1>1, <1>2, <1>3, <1>4, <1>5

LEMMA OffsetMono ==
  ASSUME NEW c \in 1 .. NBlocks + 1, NEW d \in 1 .. NBlocks + 1, c <= d
  PROVE  Offset(c) \in Nat /\ Offset(c) <= Offset(d)
<1> USE Constants DEF NBlocks
<1>1. NStx * StxSize \in Int /\ NStx * StxSize >= 0
  BY MulFacts
<1>2. ASSUME NEW b \in 1 .. NBlocks + 1
      PROVE  /\ (b - 1) * StxSize \in Int /\ (b - 1) * StxSize >= 0
             /\ (b - 1 - NStx) * SohSize \in Int
             /\ b <= NStx + 1 => (b - 1) * StxSize <= NStx * StxSize
             /\ b > NStx + 1 => (b - 1 - NStx) * SohSize >= 0
  <2>1. b - 1 \in Int /\ b - 1 >= 0 /\ b - 1 - NStx \in Int
    OBVIOUS
  <2> QED
    BY <2>1, MulFacts
<1>3. CASE d <= NStx + 1
  <2>1. c - 1 \in Int /\ d - 1 \in Int /\ c - 1 <= d - 1 /\ c <= NStx + 1
    BY <1>3
  <2>2. (c - 1) * StxSize <= (d - 1) * StxSize
    BY <2>1, MulFacts
  <2> QED
    BY <1>2, <1>3, <2>1, <2>2 DEF Offset
<1>4. CASE c <= NStx + 1 /\ d > NStx + 1
  BY <1>1, <1>2, <1>4 DEF Offset
<1>5. CASE c > NStx + 1
  <2>1. c - 1 - NStx \in Int /\ d - 1 - NStx \in Int /\ c - 1 - NStx <= d - 1 - NStx
        /\ d > NStx + 1
    BY <1>5
  <2>2. (c - 1 - NStx) * SohSize <= (d - 1 - NStx) * SohSize
    BY <2>1, MulFacts
  <2> QED
    BY <1>1, <1>2, <1>5, <2>1, <2>2 DEF Offset
<1> QED
  BY <1>3, <1>4, <1>5

LEMMA OffsetNat ==
  /\ Offset(1) = 0
  /\ \A b \in 1 .. NBlocks + 1 : Offset(b) \in Nat /\ Offset(b) <= FileSize
  /\ \A b \in 1 .. NBlocks :
       Offset(b + 1) = Offset(b) + SizeOf(StartOf(b))
  /\ Offset(0) <= 0
<1>1. NStx * StxSize \in Int
  BY Constants
<1>2. ASSUME NEW b \in 1 .. NBlocks + 1 PROVE Offset(b) \in Nat /\ Offset(b) <= FileSize
  <2>1. NBlocks + 1 \in 1 .. NBlocks + 1 /\ b <= NBlocks + 1
    BY Constants
  <2> QED
    BY <2>1, OffsetMono DEF FileSize
<1> USE Constants DEF NBlocks
<1>5. ASSUME NEW b \in 1 .. NBlocks
      PROVE  Offset(b + 1) = Offset(b) + SizeOf(StartOf(b))
  <2>1. CASE b <= NStx
    <3>1. SizeOf(StartOf(b)) = StxSize
      BY <2>1 DEF StartOf, SizeOf
    <3>2. ((b - 1) + 1) * StxSize = (b - 1) * StxSize + StxSize
      BY MulFacts
    <3>3. Offset(b) = (b - 1) * StxSize /\ Offset(b + 1) = (b + 1 - 1) * StxSize
      BY <2>1 DEF Offset
    <3>4. b + 1 - 1 = (b - 1) + 1
      OBVIOUS
    <3> QED
      BY <3>1, <3>2, <3>3, <3>4
  <2>2. CASE b = NStx + 1
    <3>1. SizeOf(StartOf(b)) = SohSize
      BY <2>2 DEF StartOf, SizeOf, SOH, STX
    <3>2. Offset(b) = NStx * StxSize
      BY <2>2 DEF Offset
    <3>3. Offset(b + 1) = NStx * StxSize + 1 * SohSize
      <4>1. b + 1 - 1 - NStx = 1 /\ ~ (b + 1 <= NStx + 1)
        BY <2>2
      <4> QED
        BY <4>1 DEF Offset
    <3> QED
      BY <1>1, <3>1, <3>2, <3>3
  <2>3. CASE b > NStx + 1
    <3>1. SizeOf(StartOf(b)) = SohSize
      BY <2>3 DEF StartOf, SizeOf, SOH, STX
    <3>2. (b - 1 - NStx) * SohSize \in Int
          /\ ((b - 1 - NStx) + 1) * SohSize = (b - 1 - NStx) * SohSize + SohSize
      BY <2>3, MulFacts
    <3>3. Offset(b) = NStx * StxSize + (b - 1 - NStx) * SohSize
      BY <2>3 DEF Offset
    <3>4. Offset(b + 1) = NStx * StxSize + ((b - 1 - NStx) + 1) * SohSize
      <4>1. b + 1 - 1 - NStx = (b - 1 - NStx) + 1 /\ ~ (b + 1 <= NStx + 1)
        BY <2>3
      <4> QED
        BY <4>1 DEF Offset
    <3> QED
      BY <1>1, <3>1, <3>2, <3>3, <3>4
  <2> QED
    BY <2>1, <2>2, <2>3
<1>6. Offset(1) = 0 /\ Offset(0) <= 0
  <2>1. (1 - 1) * StxSize = 0 /\ (0 - 1) * StxSize = - StxSize
    OBVIOUS
  <2> QED
    BY <2>1 DEF Offset
<1> QED
  BY <1>2, <1>5, <1>6

-----------------------------------------------------------------------------
(* What is left of a message *)

LEMMA MessageFacts ==
  ASSUME NEW p \in Waiting, NEW b \in 0 .. NBlocks
  PROVE  /\ Message(p, b) \in Seq(Int)
         /\ p = "ackEOT" => Len(Message(p, b)) = 1 /\ Message(p, b)[1] = EOT
         /\ p # "ackEOT" =>
              /\ Len(Message(p, b)) = 5 + SizeOf(StartOf(b))
              /\ Message(p, b)[1] = StartOf(b)
              /\ Message(p, b)[2] = b % NumMod
         /\ \A i \in 1 .. Len(Message(p, b)) : Message(p, b)[i] # Gap
<1> DEFINE m == Message(p, b)
           n == SizeOf(StartOf(b))
<1>1. CASE p = "ackEOT"
  BY <1>1 DEF Message, EOT, Gap
<1>2. CASE p # "ackEOT"
  <2>1. m = Block(b)
    BY <1>2 DEF Message
  <2> HIDE DEF m
  <2>2. /\ m \in Seq(Int) /\ Len(m) = 5 + n
        /\ m[1] = StartOf(b) /\ m[2] = b % NumMod /\ m[3] = NumMod - 1 - (b % NumMod)
        /\ b > 0 => \A i \in 1 .. n : m[3 + i] = 1000 + Offset(b) + i - 1
        /\ b = 0 => \A i \in 1 .. n : m[3 + i] = Junk
        /\ m[4 + n] = CRC /\ m[5 + n] = CRC
    BY <2>1, BlockBytes
  <2>3. n \in Nat \ {0} /\ StartOf(b) \in {SOH, STX} /\ b \in Nat
    BY StartFacts, Constants
  <2> HIDE DEF n
  <2>4. b % NumMod \in 0 .. NumMod - 1
    BY <2>3, Constants
  <2>5. m[1] # Gap /\ m[2] # Gap /\ m[3] # Gap
    BY <2>2, <2>3, <2>4, Constants DEF Gap, SOH, STX
  <2>6. ASSUME NEW i \in 1 .. n PROVE m[3 + i] # Gap
    <3>1. CASE b = 0
      BY <2>2, <3>1 DEF Gap, Junk
    <3>2. CASE b > 0
      <4>0. b \in 1 .. NBlocks + 1
        BY <3>2, Constants
      <4>1. Offset(b) \in Int /\ Offset(b) >= 0
        BY <4>0, OffsetNat
      <4>2. m[3 + i] = 1000 + Offset(b) + i - 1
        BY <2>2, <3>2
      <4> QED
        BY <4>1, <4>2, <2>3 DEF Gap
    <3> QED
      BY <2>3, <3>1, <3>2
  <2>7. m[4 + n] # Gap /\ m[5 + n] # Gap
    BY <2>2 DEF Gap, CRC
  <2>8. ASSUME NEW i \in 1 .. 5 + n PROVE m[i] # Gap
    <3>1. CASE i \in 4 .. 3 + n
      <4>1. i - 3 \in 1 .. n /\ 3 + (i - 3) = i
        BY <2>3, <3>1
      <4> QED
        BY <4>1, <2>6
    <3>2. CASE i \in {1, 2, 3, 4 + n, 5 + n}
      BY <2>5, <2>7, <3>2
    <3> QED
      BY <2>3, <3>1, <3>2
  <2> QED
    BY <1>2, <2>2, <2>8 DEF m, n
<1> QED
  BY <1>1, <1>2

LEMMA RestHead ==
  ASSUME NEW s \in Seq(Int), NEW p, NEW b \in 0 .. NBlocks, NEW k \in Nat \ {0},
         RestOf(s, p, b, k)
  PROVE  /\ p \in Waiting
         /\ s # <<>> <=> k <= Len(Message(p, b))
         /\ s # <<>> =>
              /\ Head(s) # Gap
              /\ \/ Head(s) = Message(p, b)[k]
                 \/ p # "ackEOT" /\ k \in {2, 3} /\ Head(s) = Junk
<1> DEFINE m == Message(p, b)
<1>1. p \in Waiting /\ m \in Seq(Int) /\ \A i \in 1 .. Len(m) : m[i] # Gap
  BY MessageFacts DEF RestOf
<1>2. /\ Len(s) = Len(m) - k + 1
      /\ \A i \in 1 .. Len(s) : \/ s[i] = m[k + i - 1]
                                \/ p # "ackEOT" /\ k + i - 1 \in {2, 3} /\ s[i] = Junk
  BY DEF RestOf
<1> HIDE DEF m
<1>3. s # <<>> <=> k <= Len(m)
  BY <1>1, <1>2
<1>4. ASSUME s # <<>>
      PROVE  /\ Head(s) # Gap
             /\ Head(s) = m[k] \/ (p # "ackEOT" /\ k \in {2, 3} /\ Head(s) = Junk)
  <2>1. 1 \in 1 .. Len(s) /\ Head(s) = s[1] /\ k + 1 - 1 = k
    BY <1>4
  <2>2. s[1] = m[k + 1 - 1] \/ (p # "ackEOT" /\ k + 1 - 1 \in {2, 3} /\ s[1] = Junk)
    BY <1>2, <2>1, Zenon
  <2>3. k \in 1 .. Len(m)
    BY <1>3, <1>4, <1>1
  <2>4. m[k] # Gap
    BY <1>1, <2>3
  <2> QED
    BY <2>1, <2>2, <2>4 DEF Gap, Junk
<1> QED
  BY <1>1, <1>3, <1>4 DEF m

LEMMA RestTail ==
  ASSUME NEW s \in Seq(Int), NEW p, NEW b \in 0 .. NBlocks, NEW k \in Nat \ {0},
         RestOf(s, p, b, k), s # <<>>
  PROVE  RestOf(Tail(s), p, b, k + 1) /\ k + 1 \in 1 .. Len(Message(p, b)) + 1
<1> DEFINE m == Message(p, b)
           t == Tail(s)
<1>1. p \in Waiting /\ m \in Seq(Int)
  BY MessageFacts DEF RestOf
<1>2. /\ Len(s) = Len(m) - k + 1
      /\ \A i \in 1 .. Len(s) : \/ s[i] = m[k + i - 1]
                                \/ p # "ackEOT" /\ k + i - 1 \in {2, 3} /\ s[i] = Junk
  BY DEF RestOf
<1>3. Len(t) = Len(s) - 1 /\ Len(s) \in Nat \ {0} /\ \A i \in 1 .. Len(t) : t[i] = s[i + 1]
  OBVIOUS
<1>4. k <= Len(m) /\ Len(m) \in Nat
  BY <1>1, <1>2, <1>3
<1> HIDE DEF m, t
<1>5. ASSUME NEW i \in 1 .. Len(t)
      PROVE  \/ t[i] = m[(k + 1) + i - 1]
             \/ p # "ackEOT" /\ (k + 1) + i - 1 \in {2, 3} /\ t[i] = Junk
  <2>1. i + 1 \in 1 .. Len(s) /\ k + (i + 1) - 1 = (k + 1) + i - 1
    BY <1>3
  <2>2. \/ s[i + 1] = m[k + (i + 1) - 1]
        \/ p # "ackEOT" /\ k + (i + 1) - 1 \in {2, 3} /\ s[i + 1] = Junk
    BY <1>2, <2>1, Zenon
  <2>3. t[i] = s[i + 1]
    BY <1>3
  <2> QED
    BY <2>1, <2>2, <2>3, Zenon
<1>6. Len(t) = Len(m) - (k + 1) + 1
  BY <1>2, <1>3, <1>4
<1>7. RestOf(t, p, b, k + 1)
  BY <1>1, <1>5, <1>6 DEF RestOf, m
<1> QED
  BY <1>4, <1>7 DEF t, m

\* A message the host puts on the empty line arrives, with two bytes garbled at
\* most.
LEMMA RestStart ==
  ASSUME TypeOK, LossyLine, toBoard = <<>>,
         NEW p \in Waiting, NEW b \in 0 .. NBlocks, HostGoTo(p, b)
  PROVE  RestOf(toBoard', p, b, 1) /\ toBoard' # <<>>
<1> DEFINE m == Message(p, b)
<1>1. m \in Seq(Int) /\ Len(m) \in Nat \ {0} /\ (p = "ackEOT" => Len(m) = 1)
  BY MessageFacts, StartFacts
<1>2. Put(m)
  BY DEF HostGoTo
<1> HIDE DEF m
<1>3. ASSUME NEW g \in Seq(Int) PROVE toBoard \o g = g
  OBVIOUS
<1>4. toBoard' = m \/ \E g \in Garbled(m) : toBoard' = toBoard \o g
  BY <1>1, <1>2, <1>3 DEF Put
<1>5. \A g \in Garbled(m) : \E k \in {2, 3} \cap DOMAIN m : g = [m EXCEPT ![k] = Junk]
  BY DEF Garbled, LossyLine
<1>6. CASE toBoard' = m
  <2>1. \A i \in 1 .. Len(m) : m[i] = m[1 + i - 1]
    BY <1>1
  <2> QED
    BY <1>1, <1>6, <2>1 DEF RestOf, m
<1>7. ASSUME NEW k \in {2, 3} \cap DOMAIN m, toBoard' = [m EXCEPT ![k] = Junk]
      PROVE  RestOf(toBoard', p, b, 1) /\ toBoard' # <<>>
  <2>1. p # "ackEOT"
    BY <1>1, <1>7
  <2>2. Len(toBoard') = Len(m) /\ toBoard' # <<>>
    BY <1>1, <1>7 DEF Junk
  <2>3. ASSUME NEW i \in 1 .. Len(m)
        PROVE  toBoard'[i] = m[1 + i - 1] \/ (1 + i - 1 \in {2, 3} /\ toBoard'[i] = Junk)
    BY <1>1, <1>7
  <2>4. Len(toBoard') = Len(m) - 1 + 1
    BY <1>1, <2>2
  <2> QED
    BY <2>1, <2>2, <2>3, <2>4 DEF RestOf, m
<1>8. CASE \E g \in Garbled(m) : toBoard' = toBoard \o g
  <2>1. PICK k \in {2, 3} \cap DOMAIN m : toBoard' = toBoard \o [m EXCEPT ![k] = Junk]
    BY <1>5, <1>8
  <2>2. [m EXCEPT ![k] = Junk] \in Seq(Int)
    BY <1>1 DEF Junk
  <2>3. toBoard' = [m EXCEPT ![k] = Junk]
    BY <1>3, <2>1, <2>2
  <2> QED
    BY <1>7, <2>3
<1> QED
  BY <1>4, <1>6, <1>8
-----------------------------------------------------------------------------
(* StepInv holds at the start *)

LEMMA StepInit == Init => StepInv
<1> SUFFICES ASSUME Init PROVE StepInv
  OBVIOUS
<1>1. TurnInv
  BY DEF Init, TurnInv
<1>2. StepRel
  BY DEF Init, StepRel
<1>3. MemInv
  BY DEF Init, MemInv
<1> QED
  BY <1>1, <1>2, <1>3 DEF StepInv

-----------------------------------------------------------------------------
(* The board keeps it *)

HostKept == hpc' = hpc /\ hblk' = hblk

\* The board never waits in vain in the middle of a message.
LEMMA Reading ==
  ASSUME TypeOK, NEW k \in Nat \ {0}, OnLine(k), k <= Len(Message(hpc, hblk))
  PROVE  /\ toBoard # <<>> /\ Head(toBoard) # Gap
         /\ ~ TimedOut
         /\ \/ Head(toBoard) = Message(hpc, hblk)[k]
            \/ hpc # "ackEOT" /\ k \in {2, 3} /\ Head(toBoard) = Junk
         /\ toBoard' = Tail(toBoard) /\ HostKept =>
              /\ RestOf(toBoard', hpc', hblk', k + 1)
              /\ k + 1 \in 1 .. Len(Message(hpc', hblk')) + 1
<1>1. toBoard \in Seq(Int) /\ hblk \in 0 .. NBlocks /\ RestOf(toBoard, hpc, hblk, k)
  BY DEF TypeOK, OnLine
<1>2. /\ toBoard # <<>> /\ Head(toBoard) # Gap
      /\ \/ Head(toBoard) = Message(hpc, hblk)[k]
         \/ hpc # "ackEOT" /\ k \in {2, 3} /\ Head(toBoard) = Junk
  BY <1>1, RestHead
<1>3. /\ RestOf(Tail(toBoard), hpc, hblk, k + 1)
      /\ k + 1 \in 1 .. Len(Message(hpc, hblk)) + 1
  BY <1>1, <1>2, RestTail
<1>4. ~ TimedOut
  BY <1>2 DEF TimedOut
<1> QED
  BY <1>2, <1>3, <1>4 DEF HostKept

\* An empty line is the end of the message.
LEMMA ReadAll ==
  ASSUME TypeOK, NEW k \in Nat \ {0}, OnLine(k), toBoard = <<>>
  PROVE  k > Len(Message(hpc, hblk))
<1>1. toBoard \in Seq(Int) /\ hblk \in 0 .. NBlocks /\ RestOf(toBoard, hpc, hblk, k)
  BY DEF TypeOK, OnLine
<1>2. Len(Message(hpc, hblk)) \in Nat
  BY <1>1, MessageFacts DEF RestOf
<1>3. toBoard # <<>> <=> k <= Len(Message(hpc, hblk))
  BY <1>1, RestHead
<1> QED
  BY <1>2, <1>3

\* Memory and the counters stay as they are when no data byte comes and no
\* block is taken.
LEMMA MemKeeps ==
  ASSUME MemInv, UNCHANGED <<blk, mem, load_size, curr_addr>>,
         pc' \notin {"data", "crc0", "crc1"}
  PROVE  MemInv'
BY DEF MemInv

LEMMA SendCKeeps ==
  ASSUME TypeOK, StepInv, SendC, HostKept
  PROVE  StepInv'
<1>1. /\ hpc = "C0" /\ hblk = 0 /\ blk = 0 /\ pc = "start"
      /\ toBoard = <<>> /\ toHost = <<>>
  BY DEF StepInv, TurnInv, StepRel, SendC, TypeOK, Waiting
<1>2. /\ pc' = "first" /\ toHost' = <<C>> /\ toBoard' = <<>>
      /\ UNCHANGED <<blk, size, num, count, curr_addr, load_size, mem>>
  BY <1>1 DEF SendC, Send
<1>3. TurnInv'
  BY <1>2 DEF TurnInv
<1>4. StepRel'
  BY <1>1, <1>2 DEF StepRel, HostKept
<1>5. MemInv'
  BY <1>2, MemKeeps DEF StepInv
<1> QED
  BY <1>3, <1>4, <1>5 DEF StepInv

LEMMA FirstByteKeeps ==
  ASSUME TypeOK, StepInv, FirstByte, HostKept
  PROVE  StepInv'
<1>1. /\ pc = "first" /\ toBoard # <<>> /\ toBoard' = Tail(toBoard)
      /\ UNCHANGED <<blk, num, count, curr_addr, load_size, mem, toHost>>
  BY DEF FirstByte, RecvInTime, Ready
<1>2. OnLine(1) /\ toHost = <<>> /\ blk = 0
  BY <1>1 DEF StepInv, TurnInv, StepRel, TypeOK
<1>3. hpc = "ack0" /\ hblk = 0
  BY <1>1, <1>2 DEF OnLine, RestOf, Waiting, StepInv, StepRel
<1>4. /\ Len(Message(hpc, hblk)) = 5 + SizeOf(StartOf(0)) /\ SizeOf(StartOf(0)) \in Nat
      /\ Message(hpc, hblk)[1] = SOH
  BY <1>3, MessageFacts, StartFacts, Constants DEF Waiting
<1>5. Head(toBoard) = SOH /\ RestOf(toBoard', hpc', hblk', 2)
  BY <1>1, <1>2, <1>4, Reading
<1>6. pc' = "num0" /\ size' = SizeOf(StartOf(0))
  BY <1>5, StartFacts DEF FirstByte
<1>7. TurnInv'
  BY <1>1, <1>2, <1>3, <1>5, <1>6 DEF TurnInv, OnLine, HostKept
<1>8. StepRel'
  BY <1>1, <1>2, <1>3, <1>6 DEF StepRel, HostKept
<1>9. MemInv'
  BY <1>1, <1>6, MemKeeps DEF StepInv
<1> QED
  BY <1>7, <1>8, <1>9 DEF StepInv

LEMMA FirstTimeoutKeeps ==
  ASSUME TypeOK, StepInv, FirstTimeout, HostKept
  PROVE  StepInv'
<1>1. /\ pc = "first" /\ toBoard = <<>> /\ toHost = <<>>
      /\ pc' = "start"
      /\ UNCHANGED <<blk, size, num, count, curr_addr, load_size, mem, toBoard, toHost>>
  BY DEF FirstTimeout, Quiet
<1>2. blk = 0 /\ hpc = "C0" /\ hblk = 0
  BY <1>1 DEF StepInv, StepRel, TypeOK, Waiting
<1>3. TurnInv'
  BY <1>1 DEF TurnInv
<1>4. StepRel'
  BY <1>1, <1>2 DEF StepRel, HostKept
<1>5. MemInv'
  BY <1>1, MemKeeps DEF StepInv
<1> QED
  BY <1>3, <1>4, <1>5 DEF StepInv

LEMMA HeadByteKeeps ==
  ASSUME TypeOK, StepInv, HeadByte, HostKept
  PROVE  StepInv'
<1>1. /\ pc = "head" /\ toBoard # <<>> /\ toBoard' = Tail(toBoard)
      /\ UNCHANGED <<blk, num, count, curr_addr, load_size, mem>>
  BY DEF HeadByte, RecvInTime, Ready
<1>2. OnLine(1) /\ toHost = <<>> /\ blk > 0 /\ hpc \in Waiting
  BY <1>1 DEF StepInv, TurnInv, StepRel, TypeOK, OnLine, RestOf
<1>a. hblk \in 0 .. NBlocks
  BY DEF TypeOK
<1>3. CASE hpc = "ackEOT"
  <2>1. Len(Message(hpc, hblk)) = 1 /\ Message(hpc, hblk)[1] = EOT
    BY <1>2, <1>3, <1>a, MessageFacts
  <2>2. Head(toBoard) = EOT /\ RestOf(toBoard', hpc', hblk', 2)
    BY <1>1, <1>2, <2>1, Reading
  <2>3. toBoard' = <<>>
    <3>1. Len(toBoard') = Len(Message(hpc, hblk)) - 2 + 1
      BY <2>2 DEF RestOf, HostKept
    <3>2. toBoard' \in Seq(Int)
      BY <1>1 DEF TypeOK
    <3> QED
      BY <2>1, <3>1, <3>2
  <2>4. /\ pc' = "done" /\ toHost' = <<ACK, CAN, CAN, CAN, CAN, CAN, CAN>>
    BY <1>2, <2>2 DEF HeadByte, Send, EOT, SOH, STX
  <2>5. hblk = NBlocks /\ blk = NBlocks + 1
    BY <1>3 DEF StepInv, StepRel
  <2>6. TurnInv'
    BY <2>3, <2>4 DEF TurnInv
  <2>7. StepRel'
    BY <1>1, <1>2, <1>3, <2>4, <2>5 DEF StepRel, HostKept, Waiting
  <2>8. MemInv'
    BY <1>1, <2>4, MemKeeps DEF StepInv
  <2> QED
    BY <2>6, <2>7, <2>8 DEF StepInv
<1>4. CASE hpc # "ackEOT"
  <2>1. /\ Len(Message(hpc, hblk)) = 5 + SizeOf(StartOf(hblk))
        /\ Message(hpc, hblk)[1] = StartOf(hblk)
        /\ SizeOf(StartOf(hblk)) \in Nat /\ StartOf(hblk) \in {SOH, STX}
    BY <1>2, <1>4, <1>a, MessageFacts, StartFacts
  <2>2. Head(toBoard) = StartOf(hblk) /\ RestOf(toBoard', hpc', hblk', 2)
    BY <1>1, <1>2, <2>1, Reading
  <2>3. pc' = "num0" /\ size' = SizeOf(StartOf(hblk)) /\ toHost' = <<>>
    BY <1>2, <2>1, <2>2 DEF HeadByte, EOT, SOH, STX
  <2>4. hpc \in {"ack0", "ack"}
    BY <1>2, <1>4 DEF Waiting
  <2>5. TurnInv'
    BY <1>1, <2>2, <2>3, <2>4 DEF TurnInv, OnLine, HostKept
  <2>6. StepRel'
    BY <1>1, <1>2, <2>3, <2>4 DEF StepRel, HostKept, StepInv
  <2>7. MemInv'
    BY <1>1, <2>3, MemKeeps DEF StepInv
  <2> QED
    BY <2>5, <2>6, <2>7 DEF StepInv
<1> QED
  BY <1>3, <1>4

LEMMA Num0Keeps ==
  ASSUME TypeOK, StepInv, Num0, HostKept
  PROVE  StepInv'
<1>1. /\ pc = "num0" /\ toBoard' = Tail(toBoard) /\ pc' = "num1" /\ num' = Head(toBoard)
      /\ UNCHANGED <<blk, size, count, curr_addr, load_size, mem, toHost>>
  BY DEF Num0, RecvInTime
<1>2. /\ OnLine(2) /\ toHost = <<>> /\ hpc \in {"ack0", "ack"} /\ hblk \in 0 .. NBlocks
      /\ size = SizeOf(StartOf(hblk))
  BY <1>1 DEF StepInv, TurnInv, TypeOK
<1>3. /\ Len(Message(hpc, hblk)) = 5 + SizeOf(StartOf(hblk)) /\ SizeOf(StartOf(hblk)) \in Nat
      /\ Message(hpc, hblk)[2] = hblk % NumMod
  BY <1>2, MessageFacts, StartFacts DEF Waiting
<1>4. num' \in {hblk % NumMod, Junk} /\ RestOf(toBoard', hpc', hblk', 3)
  BY <1>1, <1>2, <1>3, Reading
<1>5. TurnInv'
  BY <1>1, <1>2, <1>4 DEF TurnInv, OnLine, HostKept
<1>6. StepRel'
  BY <1>1, <1>2 DEF StepRel, HostKept, StepInv
<1>7. MemInv'
  BY <1>1, MemKeeps DEF StepInv
<1> QED
  BY <1>5, <1>6, <1>7 DEF StepInv

\* The number of a block tells it from the one before it.
LEMMA NumberTells ==
  ASSUME NEW b \in Nat, b % NumMod = (b + 1) % NumMod
  PROVE  FALSE
<1>1. NumMod \in Nat /\ NumMod >= 2
  BY Constants
<1>2. b % NumMod \in 0 .. NumMod - 1 /\ b = NumMod * (b \div NumMod) + (b % NumMod)
      /\ b \div NumMod \in Int
  BY <1>1
<1>3. /\ (b + 1) = NumMod * ((b + 1) \div NumMod) + ((b + 1) % NumMod)
      /\ (b + 1) \div NumMod \in Int
  BY <1>1
<1> DEFINE q == b \div NumMod
           r == (b + 1) \div NumMod
<1>4. q \in Int /\ r \in Int /\ NumMod * r = NumMod * q + 1
  BY <1>1, <1>2, <1>3
<1> HIDE DEF q, r
<1>5. NumMod * (r - q) = 1
  <2>1. NumMod * (r - q) = NumMod * r - NumMod * q
    BY <1>1, <1>4
  <2> QED
    BY <1>1, <1>4, <2>1
<1>6. r - q \in Int
  BY <1>4
<1>7. CASE r - q <= 0
  <2>1. NumMod * (r - q) <= 0
    BY <1>1, <1>6, <1>7
  <2> QED
    BY <1>5, <2>1
<1>8. CASE r - q >= 1
  <2>1. NumMod * (r - q) >= NumMod
    BY <1>1, <1>6, <1>8
  <2> QED
    BY <1>1, <1>5, <2>1
<1> QED
  BY <1>6, <1>7, <1>8
LEMMA Num1Keeps ==
  ASSUME TypeOK, StepInv, Num1, HostKept
  PROVE  StepInv'
<1>1. /\ pc = "num1" /\ toBoard' = Tail(toBoard)
      /\ UNCHANGED <<blk, size, num, curr_addr, load_size, mem, toHost>>
  BY DEF Num1, RecvInTime
<1>2. /\ OnLine(3) /\ toHost = <<>> /\ hpc \in {"ack0", "ack"} /\ hblk \in 0 .. NBlocks
      /\ size = SizeOf(StartOf(hblk)) /\ num \in {hblk % NumMod, Junk}
      /\ blk \in Nat
  BY <1>1 DEF StepInv, TurnInv, TypeOK
<1>3. Len(Message(hpc, hblk)) = 5 + SizeOf(StartOf(hblk)) /\ SizeOf(StartOf(hblk)) \in Nat
  BY <1>2, MessageFacts, StartFacts DEF Waiting
<1>4. RestOf(toBoard', hpc', hblk', 4) /\ 4 \in 1 .. Len(Message(hpc', hblk')) + 1
  BY <1>2, <1>3, <1>1, Reading
<1>5. CASE blk > 0 /\ IsExpected(num, Head(toBoard))
  <2>1. num = blk % NumMod /\ blk % NumMod \in Nat
    BY <1>2, <1>5, Constants DEF IsExpected
  <2>2. hblk % NumMod = blk % NumMod
    BY <1>2, <2>1 DEF Junk
  <2>3. blk \in {hblk, hblk + 1} /\ hblk \in Nat
    BY <1>2, Constants DEF StepInv, StepRel
  <2>4. blk = hblk
    BY <2>2, <2>3, NumberTells
  <2>5. hpc = "ack"
    BY <1>2, <1>5, <2>4 DEF StepInv, StepRel
  <2>6. pc' = "data" /\ count' = 0
    BY <1>5 DEF Num1
  <2>7. TurnInv'
    BY <1>1, <1>2, <1>4, <2>6 DEF TurnInv, OnLine, HostKept
  <2>8. StepRel'
    BY <1>1, <1>2, <1>5, <2>4, <2>5, <2>6 DEF StepRel, HostKept, StepInv
  <2>9. size \in Nat /\ load_size \in Nat
    BY <1>2, <1>3 DEF TypeOK
  <2>10. MemInv'
    BY <1>1, <2>6, <2>9 DEF MemInv, StepInv
  <2> QED
    BY <2>7, <2>8, <2>10 DEF StepInv
<1>6. CASE ~ (blk > 0 /\ IsExpected(num, Head(toBoard)))
  <2>1. pc' = "flush"
    BY <1>6 DEF Num1
  <2>2. TurnInv'
    BY <1>1, <1>2, <1>4, <2>1 DEF TurnInv, OnLine, HostKept
  <2>3. StepRel'
    BY <1>1, <1>2, <2>1 DEF StepRel, HostKept, StepInv
  <2>4. MemInv'
    BY <1>1, <2>1, MemKeeps DEF StepInv
  <2> QED
    BY <2>2, <2>3, <2>4 DEF StepInv
<1> QED
  BY <1>5, <1>6

LEMMA FlushByteKeeps ==
  ASSUME TypeOK, StepInv, FlushByte, HostKept
  PROVE  StepInv'
<1>1. /\ pc = "flush" /\ pc' = "flush" /\ toBoard # <<>> /\ toBoard' = Tail(toBoard)
      /\ UNCHANGED <<blk, size, num, count, curr_addr, load_size, mem, toHost>>
  BY DEF FlushByte, RecvInTime, Ready, boardVars
<1>2. toHost = <<>> /\ hpc \in {"ack0", "ack"}
  BY <1>1 DEF StepInv, TurnInv
<1>3. PICK k \in 1 .. Len(Message(hpc, hblk)) + 1 : OnLine(k)
  BY <1>1 DEF StepInv, TurnInv
<1>4. k \in Nat \ {0} /\ toBoard \in Seq(Int) /\ hblk \in 0 .. NBlocks
  BY <1>3 DEF TypeOK
<1>5. RestOf(toBoard', hpc', hblk', k + 1) /\ k + 1 \in 1 .. Len(Message(hpc', hblk')) + 1
  BY <1>1, <1>3, <1>4, RestTail DEF OnLine, HostKept
<1>6. TurnInv'
  BY <1>1, <1>2, <1>5 DEF TurnInv, OnLine, HostKept
<1>7. StepRel'
  BY <1>1, <1>2 DEF StepRel, HostKept, StepInv
<1>8. MemInv'
  BY <1>1, MemKeeps DEF StepInv
<1> QED
  BY <1>6, <1>7, <1>8 DEF StepInv

LEMMA FlushEndKeeps ==
  ASSUME TypeOK, StepInv, FlushEnd, HostKept
  PROVE  StepInv'
<1>1. /\ pc = "flush" /\ pc' = "head" /\ TimedOut
      /\ UNCHANGED <<size, num, count, curr_addr, load_size, mem>>
  BY DEF FlushEnd
<1>2. toHost = <<>> /\ hpc \in {"ack0", "ack"}
  BY <1>1 DEF StepInv, TurnInv
<1>3. PICK k \in 1 .. Len(Message(hpc, hblk)) + 1 : OnLine(k)
  BY <1>1 DEF StepInv, TurnInv
<1>4. k \in Nat \ {0} /\ toBoard \in Seq(Int) /\ hblk \in 0 .. NBlocks
  BY <1>3 DEF TypeOK
<1>5. toBoard' = <<>>
  <2>1. toBoard # <<>> => Head(toBoard) # Gap
    BY <1>3, <1>4, RestHead DEF OnLine
  <2> QED
    BY <1>1, <2>1 DEF TimedOut
<1>6. CASE blk = 0
  <2>1. blk' = 1 /\ toHost' = <<ACK, C>>
    BY <1>2, <1>6 DEF FlushEnd, Send
  <2>2. hpc = "ack0" /\ hblk = 0 /\ load_size = 0 /\ curr_addr = 0
    BY <1>2, <1>6 DEF StepInv, StepRel, MemInv
  <2>3. TurnInv'
    BY <1>1, <1>5 DEF TurnInv
  <2>4. StepRel'
    BY <1>1, <2>1, <2>2 DEF StepRel, HostKept
  <2>5. MemInv'
    BY <1>1, <2>1, <2>2, OffsetNat DEF MemInv
  <2> QED
    BY <2>3, <2>4, <2>5 DEF StepInv
<1>7. CASE blk # 0
  <2>1. blk' = blk /\ toHost' = <<NAK>>
    BY <1>2, <1>7 DEF FlushEnd, Refuse, Send
  <2>2. <<NAK>> # <<ACK>> /\ <<NAK>> # <<>>
    BY DEF NAK, ACK
  <2>3. TurnInv'
    BY <1>1, <1>5 DEF TurnInv
  <2>4. StepRel'
    BY <1>1, <1>2, <1>7, <2>1, <2>2 DEF StepRel, HostKept, StepInv
  <2>5. MemInv'
    BY <1>1, <2>1, MemKeeps DEF StepInv
  <2> QED
    BY <2>3, <2>4, <2>5 DEF StepInv
<1> QED
  BY <1>6, <1>7

\* The n data bytes of the block the board expects.
ByteOf(b, i) == 1000 + Offset(b) + i

DataOf(b, n) == \A i \in 0 .. n - 1 : Message("ack", b)[4 + i] = ByteOf(b, i)

LEMMA DataAt ==
  ASSUME NEW b, NEW n, NEW i \in 0 .. n - 1, DataOf(b, n)
  PROVE  Message("ack", b)[4 + i] = ByteOf(b, i)
BY Zenon DEF DataOf

\* While the board is in the data of a block, and in its CRC.
LEMMA InBlock ==
  ASSUME TypeOK, StepInv, pc \in {"data", "crc0", "crc1"}
  PROVE  /\ hpc = "ack" /\ blk = hblk /\ hblk \in 1 .. NBlocks /\ toHost = <<>>
         /\ size = SizeOf(StartOf(hblk)) /\ size \in Nat
         /\ Len(Message(hpc, hblk)) = 5 + size
         /\ DataOf(hblk, size)
         /\ load_size = Offset(blk) /\ curr_addr = load_size
         /\ load_size \in Nat /\ count \in 0 .. size /\ load_size <= FileSize
         /\ FileSize \in Nat
<1>1. /\ hpc = "ack" /\ blk = hblk /\ hblk \in 1 .. NBlocks /\ toHost = <<>>
      /\ size = SizeOf(StartOf(hblk))
  BY DEF StepInv, StepRel, TurnInv
<1>2. hblk \in 0 .. NBlocks /\ hblk > 0 /\ hblk \in 1 .. NBlocks + 1
      /\ NBlocks + 1 \in 1 .. NBlocks + 1
  BY <1>1, Constants
<1>3. Len(Message(hpc, hblk)) = 5 + size /\ size \in Nat
  BY <1>1, <1>2, MessageFacts, StartFacts DEF Waiting
<1>4. DataOf(hblk, size)
  <2>1. Message("ack", hblk) = Block(hblk)
    BY DEF Message
  <2>2. \A i \in 1 .. size : Block(hblk)[3 + i] = 1000 + Offset(hblk) + i - 1
    BY <1>1, <1>2, BlockBytes
  <2>3. ASSUME NEW i \in 0 .. size - 1 PROVE Block(hblk)[4 + i] = 1000 + Offset(hblk) + i
    <3>1. i + 1 \in 1 .. size /\ 3 + (i + 1) = 4 + i
      BY <1>3
    <3>2. Block(hblk)[3 + (i + 1)] = 1000 + Offset(hblk) + (i + 1) - 1
      BY <2>2, <3>1
    <3>3. Offset(hblk) \in Int
      BY <1>2, OffsetNat
    <3> QED
      BY <3>1, <3>2, <3>3
  <2> QED
    BY <1>1, <2>1, <2>3 DEF DataOf, ByteOf
<1>5. load_size = Offset(blk) /\ curr_addr = load_size /\ count <= size
  BY <1>1, <1>2 DEF StepInv, MemInv
<1>6. Offset(hblk) \in Nat /\ Offset(hblk) <= FileSize /\ FileSize \in Nat
  BY <1>2, OffsetNat DEF FileSize
<1>7. count \in 0 .. size
  BY <1>3, <1>5 DEF TypeOK
<1> QED
  BY <1>1, <1>3, <1>4, <1>5, <1>6, <1>7

LEMMA DataByteKeepsStep ==
  ASSUME TypeOK, StepInv, DataByte, HostKept
  PROVE  StepInv'
<1>1. /\ pc = "data" /\ pc' = "data" /\ toBoard' = Tail(toBoard)
      /\ count < size /\ count' = count + 1
      /\ mem' = [mem EXCEPT ![curr_addr + count] = Head(toBoard)]
      /\ UNCHANGED <<blk, size, num, curr_addr, load_size, toHost>>
  BY DEF DataByte, RecvInTime, MoreData
<1>2. /\ hpc = "ack" /\ blk = hblk /\ hblk \in 1 .. NBlocks /\ toHost = <<>>
      /\ size = SizeOf(StartOf(hblk)) /\ size \in Nat
      /\ Len(Message(hpc, hblk)) = 5 + size
      /\ DataOf(hblk, size)
      /\ load_size = Offset(blk) /\ curr_addr = load_size
      /\ load_size \in Nat /\ count \in 0 .. size /\ load_size <= FileSize
      /\ FileSize \in Nat
  BY <1>1, InBlock
<1>3. OnLine(4 + count) /\ 4 + count \in Nat \ {0} /\ 4 + count <= 5 + size
      /\ 4 + count \notin {2, 3} /\ 4 + count + 1 = 4 + count'
  BY <1>1, <1>2 DEF StepInv, TurnInv
<1>4. /\ Head(toBoard) = Message(hpc, hblk)[4 + count]
      /\ RestOf(toBoard', hpc', hblk', 4 + count')
  <2>1. 4 + count <= Len(Message(hpc, hblk))
    BY <1>2, <1>3
  <2> QED
    BY <1>1, <1>3, <2>1, Reading
<1>n. /\ load_size \in Nat /\ count \in Nat /\ size \in Nat /\ count < size
      /\ curr_addr = load_size /\ FileSize \in Nat /\ load_size = Offset(hblk)
  BY <1>1, <1>2
<1>5. Head(toBoard) = 1000 + (load_size + count)
  <2>1. count \in 0 .. size - 1
    BY <1>n
  <2>2. Message("ack", hblk)[4 + count] = ByteOf(hblk, count)
    BY <1>2, <2>1, DataAt, Zenon
  <2>3. Head(toBoard) = Message("ack", hblk)[4 + count]
    BY <1>2, <1>4, Zenon
  <2>4. ByteOf(hblk, count) = 1000 + (load_size + count)
    BY <1>n DEF ByteOf
  <2> QED
    BY <2>2, <2>3, <2>4
<1>6. load_size + count \in Window
  <2>2. load_size + count < Offset(blk + 1) /\ Offset(blk + 1) <= FileSize
    <3>1. Offset(blk + 1) = Offset(blk) + size
      BY <1>2, OffsetNat
    <3>2. blk + 1 \in 1 .. NBlocks + 1
      BY <1>2, Constants
    <3>3. Offset(blk + 1) <= FileSize
      BY <3>2, OffsetNat
    <3> QED
      BY <1>1, <1>2, <3>1, <3>3
  <2>3. Offset(blk + 1) \in Nat
    <3>2. blk + 1 \in 1 .. NBlocks + 1
      BY <1>2, Constants
    <3> QED
      BY <3>2, OffsetNat
  <2> QED
    BY <1>2, <2>2, <2>3, Constants DEF Window
<1>7. mem' = [mem EXCEPT ![load_size + count] = 1000 + (load_size + count)]
      /\ mem \in [Window -> Int]
  <2>1. mem' = [mem EXCEPT ![load_size + count] = Head(toBoard)]
    BY <1>1, <1>n, Zenon
  <2> QED
    BY <2>1, <1>5, Zenon DEF TypeOK
<1>8. ASSUME NEW a \in 0 .. load_size + count - 1 PROVE mem'[a] = 1000 + a
  <2>1. mem[a] = 1000 + a
    <3>1. a \in 0 .. load_size - 1 \/ a \in load_size .. load_size + count - 1
      BY <1>n
    <3> QED
      BY <1>1, <3>1 DEF StepInv, MemInv
  <2>2. a # load_size + count /\ a \in Window
    <3>1. a # load_size + count /\ a \in Int /\ 0 <= a /\ a < load_size + count
      BY <1>n
    <3>2. load_size + count <= FileSize + StxSize
      BY <1>6 DEF Window
    <3> QED
      BY <1>n, <3>1, <3>2, Constants DEF Window
  <2> QED
    BY <1>7, <2>1, <2>2
<1>9. mem'[load_size + count] = 1000 + (load_size + count)
  BY <1>6, <1>7
<1>10. MemInv'
  <2>1. curr_addr' = load_size' /\ load_size' = IF blk' = 0 THEN 0 ELSE Offset(blk')
    BY <1>1, <1>2
  <2>a. load_size' = load_size /\ count' = count + 1 /\ size' = size
    BY <1>1
  <2>2. \A a \in 0 .. load_size' - 1 : mem'[a] = 1000 + a
    BY <1>n, <1>8, <2>a
  <2>3. count' <= size' /\ \A a \in load_size' .. load_size' + count' - 1 : mem'[a] = 1000 + a
    <3>1. ASSUME NEW a \in load_size .. load_size + count PROVE mem'[a] = 1000 + a
      <4>1. a \in 0 .. load_size + count - 1 \/ a = load_size + count
        BY <1>n
      <4> QED
        BY <1>8, <1>9, <4>1
    <3>2. load_size' + count' - 1 = load_size + count /\ count' <= size'
      BY <1>n, <2>a
    <3> QED
      BY <2>a, <3>1, <3>2
  <2> QED
    BY <1>1, <2>1, <2>2, <2>3 DEF MemInv
<1>11. TurnInv'
  BY <1>1, <1>2, <1>4 DEF TurnInv, OnLine, HostKept
<1>12. StepRel'
  BY <1>1, <1>2 DEF StepRel, HostKept, StepInv
<1> QED
  BY <1>10, <1>11, <1>12 DEF StepInv

\* A data byte never fails to come, so no block is taken short.
LEMMA DataTimeoutNever ==
  ASSUME TypeOK, StepInv, DataTimeout
  PROVE  FALSE
<1>1. pc = "data" /\ count < size /\ TimedOut
  BY DEF DataTimeout, MoreData
<1>2. /\ size \in Nat /\ count \in 0 .. size /\ Len(Message(hpc, hblk)) = 5 + size
      /\ OnLine(4 + count)
  BY <1>1, InBlock DEF StepInv, TurnInv
<1>3. 4 + count \in Nat \ {0} /\ 4 + count <= Len(Message(hpc, hblk))
  BY <1>2
<1> QED
  BY <1>1, <1>2, <1>3, Reading

LEMMA DataEndKeeps ==
  ASSUME TypeOK, StepInv, DataEnd, HostKept
  PROVE  StepInv'
<1>1. /\ pc = "data" /\ pc' = "crc0" /\ ~ (count < size)
      /\ UNCHANGED <<blk, size, num, count, curr_addr, load_size, mem, toBoard, toHost>>
  BY DEF DataEnd, MoreData
<1>2. /\ hpc = "ack" /\ blk = hblk /\ hblk \in 1 .. NBlocks /\ toHost = <<>>
      /\ size = SizeOf(StartOf(hblk)) /\ size \in Nat /\ count \in 0 .. size
  BY <1>1, InBlock
<1>3. count = size
  BY <1>1, <1>2
<1>4. OnLine(4 + size)
  BY <1>1, <1>3 DEF StepInv, TurnInv
<1>5. TurnInv'
  BY <1>1, <1>2, <1>4 DEF TurnInv, OnLine, HostKept
<1>6. StepRel'
  BY <1>1, <1>2 DEF StepRel, HostKept, StepInv
<1>7. MemInv'
  BY <1>1, <1>3 DEF MemInv, StepInv
<1> QED
  BY <1>5, <1>6, <1>7 DEF StepInv

LEMMA Crc0Keeps ==
  ASSUME TypeOK, StepInv, Crc0, HostKept
  PROVE  StepInv'
<1>1. /\ pc = "crc0" /\ pc' = "crc1" /\ (RecvInTime \/ TimedOut)
      /\ UNCHANGED <<blk, size, num, count, curr_addr, load_size, mem, toHost>>
  BY DEF Crc0
<1>2. /\ hpc = "ack" /\ blk = hblk /\ hblk \in 1 .. NBlocks /\ toHost = <<>>
      /\ size = SizeOf(StartOf(hblk)) /\ size \in Nat
      /\ Len(Message(hpc, hblk)) = 5 + size
  BY <1>1, InBlock
<1>3. OnLine(4 + size) /\ 4 + size \in Nat \ {0} /\ 4 + size <= Len(Message(hpc, hblk))
      /\ 4 + size + 1 = 5 + size
  BY <1>1, <1>2 DEF StepInv, TurnInv
<1>4. toBoard' = Tail(toBoard)
  BY <1>1, <1>3, Reading DEF RecvInTime
<1>5. RestOf(toBoard', hpc', hblk', 5 + size)
  BY <1>3, <1>4, Reading
<1>6. TurnInv'
  BY <1>1, <1>2, <1>5 DEF TurnInv, OnLine, HostKept
<1>7. StepRel'
  BY <1>1, <1>2 DEF StepRel, HostKept, StepInv
<1>8. MemInv'
  BY <1>1 DEF MemInv, StepInv
<1> QED
  BY <1>6, <1>7, <1>8 DEF StepInv

LEMMA Crc1KeepsStep ==
  ASSUME TypeOK, StepInv, Crc1, HostKept
  PROVE  StepInv'
<1>1. /\ pc = "crc1" /\ pc' = "head" /\ (RecvInTime \/ TimedOut)
      /\ curr_addr' = curr_addr + count /\ load_size' = load_size + count
      /\ blk' = blk + 1 /\ toHost' = toHost \o <<ACK>>
      /\ UNCHANGED <<size, num, count, mem>>
  BY DEF Crc1, Accept, Send
<1>2. /\ hpc = "ack" /\ blk = hblk /\ hblk \in 1 .. NBlocks /\ toHost = <<>>
      /\ size = SizeOf(StartOf(hblk)) /\ size \in Nat
      /\ Len(Message(hpc, hblk)) = 5 + size
      /\ load_size = Offset(blk) /\ curr_addr = load_size /\ load_size \in Nat
  BY <1>1, InBlock
<1>3. OnLine(5 + size) /\ 5 + size \in Nat \ {0} /\ 5 + size <= Len(Message(hpc, hblk))
  BY <1>1, <1>2 DEF StepInv, TurnInv
<1>4. toBoard' = Tail(toBoard) /\ toBoard # <<>>
  BY <1>1, <1>3, Reading DEF RecvInTime
<1>5. toBoard' = <<>>
  <2>1. Len(toBoard) = Len(Message(hpc, hblk)) - (5 + size) + 1 /\ toBoard \in Seq(Int)
    BY <1>3 DEF OnLine, RestOf, TypeOK
  <2>2. Len(toBoard) = 1
    BY <1>2, <2>1
  <2> QED
    BY <1>4, <2>1, <2>2
<1>6. toHost' = <<ACK>> /\ count = size
  BY <1>1, <1>2 DEF StepInv, MemInv
<1>7. TurnInv'
  BY <1>1, <1>5 DEF TurnInv
<1>8. StepRel'
  BY <1>1, <1>2, <1>6 DEF StepRel, HostKept
<1>9. MemInv'
  <2>1. Offset(blk + 1) = Offset(blk) + size /\ blk \in Nat
    BY <1>2, OffsetNat
  <2>2. curr_addr' = load_size' /\ load_size' = Offset(blk') /\ blk' # 0
    BY <1>1, <1>2, <1>6, <2>1
  <2>3. ASSUME NEW a \in 0 .. load_size' - 1 PROVE mem'[a] = 1000 + a
    <3>1. load_size \in Nat /\ count \in Nat /\ load_size' = load_size + count
      BY <1>1 DEF TypeOK
    <3>2. a \in 0 .. load_size - 1 \/ a \in load_size .. load_size + count - 1
      BY <3>1
    <3> QED
      BY <1>1, <3>2 DEF StepInv, MemInv
  <2> QED
    BY <1>1, <2>2, <2>3 DEF MemInv
<1> QED
  BY <1>7, <1>8, <1>9 DEF StepInv

\* There are no pauses to sit out.
LEMMA SitOutNever ==
  ASSUME TypeOK, StepInv, SitOut
  PROVE  FALSE
<1>1. pc \in {"first", "num0", "num1", "head"} /\ toBoard # <<>> /\ Head(toBoard) = Gap
  BY DEF SitOut
<1>2. PICK k \in {1, 2, 3} : OnLine(k)
  BY <1>1 DEF StepInv, TurnInv
<1>3. toBoard \in Seq(Int) /\ hblk \in 0 .. NBlocks /\ k \in Nat \ {0}
  BY DEF TypeOK
<1> QED
  BY <1>1, <1>2, <1>3, RestHead DEF OnLine

LEMMA BoardKeeps ==
  ASSUME TypeOK, StepInv, BoardStep
  PROVE  StepInv'
<1>1. HostKept
  BY DEF BoardStep, HostKept, hostVars
<1>2. CASE HeadTimeout
  BY <1>1, <1>2 DEF HeadTimeout, HostKept, boardVars, StepInv, TurnInv, StepRel, MemInv,
     OnLine
<1> QED
  BY <1>1, <1>2, SendCKeeps, FirstByteKeeps, FirstTimeoutKeeps, HeadByteKeeps, Num0Keeps,
     Num1Keeps, FlushByteKeeps, FlushEndKeeps, DataByteKeepsStep, DataTimeoutNever,
     DataEndKeeps, Crc0Keeps, Crc1KeepsStep, SitOutNever DEF BoardStep
-----------------------------------------------------------------------------
(* The host and the line keep it *)

\* Answers read one after the other.
LEMMA Answers ==
  /\ Head(<<C>>) = C /\ Tail(<<C>>) = <<>>
  /\ Head(<<ACK>>) = ACK /\ Tail(<<ACK>>) = <<>>
  /\ Head(<<NAK>>) = NAK /\ Tail(<<NAK>>) = <<>>
  /\ Head(<<ACK, C>>) = ACK /\ Tail(<<ACK, C>>) = <<C>>
  /\ <<C>> # <<>> /\ <<ACK>> # <<>> /\ <<NAK>> # <<>> /\ <<ACK, C>> # <<>>
  /\ <<C>> # <<ACK>> /\ <<NAK>> # <<ACK>> /\ <<ACK, C>> # <<ACK>>
  /\ ACK # NAK /\ ACK # C /\ NAK # C /\ CAN \notin {ACK, NAK, C}
BY DEF C, ACK, NAK, CAN

\* Where board and host are when an answer is under way.
AnswerPlace ==
  /\ toBoard = <<>>
  /\ \/ hpc = "C0" /\ hblk = 0 /\ blk = 0 /\ pc = "first" /\ toHost = <<C>>
     \/ /\ hpc = "ack0" /\ hblk = 0 /\ blk = 1 /\ pc = "head"
        /\ toHost \in {<<C>>, <<ACK, C>>, <<NAK>>}
     \/ hpc = "C1" /\ hblk = 0 /\ blk = 1 /\ pc = "head" /\ toHost = <<C>>
     \/ /\ hpc = "ack" /\ hblk \in 1 .. NBlocks /\ blk \in {hblk, hblk + 1} /\ pc = "head"
        /\ toHost \in {<<ACK>>, <<NAK>>}
        /\ toHost = <<ACK>> => blk = hblk + 1
     \/ /\ hpc \in {"ackEOT", "done"} /\ hblk = NBlocks /\ blk = NBlocks + 1 /\ pc = "done"
        /\ \A i \in 1 .. Len(toHost) : toHost[i] \in {ACK, CAN}

LEMMA AnswerUnderWay ==
  ASSUME TypeOK, StepInv, toHost # <<>>
  PROVE  AnswerPlace
<1>1. pc \in {"first", "head", "done"}
  BY DEF TypeOK, Places, StepInv, TurnInv, StepRel
<1>2. toBoard = <<>>
  BY <1>1 DEF StepInv, TurnInv
<1>3. blk \in Nat
  BY DEF TypeOK
<1>4. CASE hpc = "C0"
  BY <1>1, <1>2, <1>4 DEF AnswerPlace, StepInv, StepRel
<1>5. CASE hpc = "ack0"
  BY <1>1, <1>2, <1>3, <1>5 DEF AnswerPlace, StepInv, StepRel
<1>6. CASE hpc = "C1"
  BY <1>1, <1>2, <1>6 DEF AnswerPlace, StepInv, StepRel
<1>7. CASE hpc = "ack"
  <2>1. hblk \in 1 .. NBlocks /\ blk \in {hblk, hblk + 1} /\ pc # "done"
        /\ toHost \in {<<ACK>>, <<NAK>>} /\ (toHost = <<ACK>> => blk = hblk + 1)
    BY <1>7 DEF StepInv, StepRel
  <2>2. blk > 0
    BY <2>1, Constants
  <2>3. pc = "head"
    BY <1>1, <2>1, <2>2 DEF StepInv, StepRel
  <2> QED
    BY <1>2, <1>7, <2>1, <2>3 DEF AnswerPlace
<1>8. CASE hpc \in {"ackEOT", "done"}
  BY <1>1, <1>2, <1>8 DEF AnswerPlace, StepInv, StepRel
<1> QED
  BY <1>4, <1>5, <1>6, <1>7, <1>8 DEF TypeOK, Waiting

BoardKept == UNCHANGED <<pc, blk, size, num, count, curr_addr, load_size, mem>>

LEMMA MemKept ==
  ASSUME StepInv, BoardKept
  PROVE  MemInv'
BY DEF BoardKept, StepInv, MemInv

\* What the host may send next while the board waits for a block.
LEMMA Sending ==
  ASSUME TypeOK, StepInv, LossyLine, toBoard = <<>>, BoardKept, toHost' = <<>>,
         NEW p \in Waiting, NEW b \in 0 .. NBlocks, HostGoTo(p, b),
         \/ p = "ack0" /\ b = 0 /\ blk = 0 /\ pc = "first"
         \/ p = "ack0" /\ b = 0 /\ blk = 1 /\ pc = "head"
         \/ p = "ack" /\ b > 0 /\ blk \in {b, b + 1} /\ pc = "head"
         \/ p = "ackEOT" /\ b = NBlocks /\ blk = NBlocks + 1 /\ pc = "head"
  PROVE  StepInv'
<1>1. hpc' = p /\ hblk' = b
  BY DEF HostGoTo
<1>2. RestOf(toBoard', hpc', hblk', 1) /\ toBoard' # <<>>
  BY <1>1, RestStart
<1>3. pc' \in {"first", "head"} /\ pc' = pc /\ blk' = blk /\ blk \in Nat
  BY DEF BoardKept, TypeOK
<1>4. TurnInv'
  BY <1>2, <1>3 DEF TurnInv, OnLine
<1>5. StepRel'
  <2>1. CASE p = "ack0" /\ b = 0 /\ blk = 0 /\ pc = "first"
    BY <1>1, <1>2, <1>3, <2>1 DEF StepRel
  <2>2. CASE p = "ack0" /\ b = 0 /\ blk = 1 /\ pc = "head"
    BY <1>1, <1>3, <2>2 DEF StepRel
  <2>3. CASE p = "ack" /\ b > 0 /\ blk \in {b, b + 1} /\ pc = "head"
    <3>1. b \in 1 .. NBlocks /\ blk > 0
      BY <2>3, Constants
    <3> QED
      BY <1>1, <1>3, <2>3, <3>1, Answers DEF StepRel
  <2>4. CASE p = "ackEOT" /\ b = NBlocks /\ blk = NBlocks + 1 /\ pc = "head"
    <3>1. blk > 0
      BY <2>4, Constants
    <3> QED
      BY <1>1, <1>3, <2>4, <3>1 DEF StepRel
  <2> QED
    BY <2>1, <2>2, <2>3, <2>4
<1>6. MemInv'
  BY MemKept
<1> QED
  BY <1>4, <1>5, <1>6 DEF StepInv

LEMMA NextBlockKeeps ==
  ASSUME TypeOK, StepInv, LossyLine, toBoard = <<>>, BoardKept, toHost' = <<>>,
         HostNextBlock, blk = hblk + 1, pc = "head"
  PROVE  StepInv'
<1>1. hblk \in 0 .. NBlocks /\ NBlocks \in Nat
  BY Constants DEF TypeOK
<1>2. CASE hblk < NBlocks
  <2>1. HostGoTo("ack", hblk + 1)
    BY <1>2 DEF HostNextBlock
  <2>2. "ack" \in Waiting /\ hblk + 1 \in 0 .. NBlocks /\ hblk + 1 > 0
        /\ blk \in {hblk + 1, (hblk + 1) + 1}
    BY <1>1, <1>2 DEF Waiting
  <2> QED
    BY <2>1, <2>2, Sending
<1>3. CASE ~ (hblk < NBlocks)
  <2>1. HostGoTo("ackEOT", hblk)
    BY <1>3 DEF HostNextBlock
  <2>2. "ackEOT" \in Waiting /\ hblk = NBlocks /\ blk = NBlocks + 1 /\ hblk \in 0 .. NBlocks
    BY <1>1, <1>3 DEF Waiting
  <2> QED
    BY <2>1, <2>2, Sending
<1> QED
  BY <1>2, <1>3

LEMMA HostReceiveKeeps ==
  ASSUME TypeOK, StepInv, LossyLine, HostReceive
  PROVE  StepInv'
<1>1. toHost # <<>> /\ toHost' = Tail(toHost) /\ BoardKept
  BY DEF HostReceive, BoardKept, boardVars
<1>2. AnswerPlace
  BY <1>1, AnswerUnderWay
<1>3. toBoard = <<>> /\ hblk \in 0 .. NBlocks /\ 0 \in 0 .. NBlocks
  BY <1>2, Constants DEF AnswerPlace, TypeOK
<1>4. CASE hpc = "C0"
  <2>1. hblk = 0 /\ blk = 0 /\ pc = "first" /\ toHost = <<C>>
    BY <1>2, <1>4 DEF AnswerPlace
  <2>r. Head(toHost) = C /\ toHost' = <<>>
    BY <1>1, <2>1, Answers
  <2>2. HostGoTo("ack0", 0) /\ toHost' = <<>>
    BY <1>4, <2>r DEF HostReceive, Waiting
  <2>3. "ack0" \in Waiting
    BY DEF Waiting
  <2> QED
    BY <1>1, <1>3, <2>1, <2>2, <2>3, Sending
<1>5. CASE hpc = "ack0"
  <2>1. hblk = 0 /\ blk = 1 /\ pc = "head" /\ toHost \in {<<C>>, <<ACK, C>>, <<NAK>>}
    BY <1>2, <1>5 DEF AnswerPlace
  <2>2. CASE toHost = <<ACK, C>>
    <3>1. HostGoTo("C1", 0) /\ toHost' = <<C>>
      BY <1>1, <1>5, <2>2, Answers DEF HostReceive
    <3>2. hpc' = "C1" /\ hblk' = 0 /\ toBoard' = <<>>
      BY <1>3, <3>1 DEF HostGoTo, Waiting
    <3>3. pc' = "head" /\ blk' = 1
      BY <1>1, <2>1 DEF BoardKept
    <3>4. TurnInv'
      BY <3>2, <3>3 DEF TurnInv
    <3>5. StepRel'
      BY <3>1, <3>2, <3>3 DEF StepRel
    <3> QED
      BY <1>1, <3>4, <3>5, MemKept DEF StepInv
  <2>3. CASE toHost \in {<<C>>, <<NAK>>}
    <3>1. HostGoTo("ack0", 0) /\ toHost' = <<>> /\ "ack0" \in Waiting
      BY <1>1, <1>5, <2>1, <2>3, Answers DEF HostReceive, Waiting
    <3> QED
      BY <1>1, <1>3, <2>1, <3>1, Sending
  <2> QED
    BY <2>1, <2>2, <2>3
<1>6. CASE hpc = "C1"
  <2>1. hblk = 0 /\ blk = 1 /\ pc = "head" /\ toHost = <<C>>
    BY <1>2, <1>6 DEF AnswerPlace
  <2>r. Head(toHost) = C /\ toHost' = <<>>
    BY <1>1, <2>1, Answers
  <2>2. HostNextBlock /\ toHost' = <<>>
    BY <1>6, <2>r DEF HostReceive, Waiting
  <2>3. blk = hblk + 1
    BY <2>1
  <2> QED
    BY <1>1, <1>3, <2>1, <2>2, <2>3, NextBlockKeeps
<1>7. CASE hpc = "ack"
  <2>1. /\ hblk \in 1 .. NBlocks /\ blk \in {hblk, hblk + 1} /\ pc = "head"
        /\ toHost \in {<<ACK>>, <<NAK>>} /\ (toHost = <<ACK>> => blk = hblk + 1)
    BY <1>2, <1>7 DEF AnswerPlace
  <2>2. CASE toHost = <<ACK>>
    <3>1. HostNextBlock /\ toHost' = <<>>
      BY <1>1, <1>7, <2>2, Answers DEF HostReceive
    <3> QED
      BY <1>1, <1>3, <2>1, <2>2, <3>1, NextBlockKeeps
  <2>3. CASE toHost = <<NAK>>
    <3>1. HostGoTo("ack", hblk) /\ toHost' = <<>> /\ "ack" \in Waiting
      BY <1>1, <1>7, <2>3, Answers DEF HostReceive, Waiting
    <3>2. hblk > 0
      BY <2>1
    <3> QED
      BY <1>1, <1>3, <2>1, <3>1, <3>2, Sending
  <2> QED
    BY <2>1, <2>2, <2>3
<1>8. CASE hpc \in {"ackEOT", "done"}
  <2>1. /\ hblk = NBlocks /\ blk = NBlocks + 1 /\ pc = "done"
        /\ \A i \in 1 .. Len(toHost) : toHost[i] \in {ACK, CAN}
    BY <1>2, <1>8 DEF AnswerPlace
  <2>2. toHost \in Seq(Int)
    BY DEF TypeOK
  <2>3. Head(toHost) \in {ACK, CAN} /\ \A i \in 1 .. Len(toHost') : toHost'[i] \in {ACK, CAN}
    BY <1>1, <2>1, <2>2
  <2>4. hpc' \in {"ackEOT", "done"} /\ hblk' = NBlocks /\ toBoard' = <<>>
    <3>1. CASE hpc = "ackEOT" /\ Head(toHost) = ACK
      <4>1. HostGoTo("done", hblk)
        BY <3>1, Answers DEF HostReceive
      <4> QED
        BY <1>3, <2>1, <4>1 DEF HostGoTo, Waiting
    <3>2. CASE ~ (hpc = "ackEOT" /\ Head(toHost) = ACK)
      <4>1. HostIgnore
        BY <1>8, <2>3, <3>2, Answers DEF HostReceive, Waiting
      <4> QED
        BY <1>3, <1>8, <2>1, <4>1 DEF HostIgnore, hostVars
    <3> QED
      BY <3>1, <3>2
  <2>5. pc' = "done" /\ blk' = NBlocks + 1 /\ blk' > 0
    BY <1>1, <2>1, Constants DEF BoardKept
  <2>6. TurnInv'
    BY <2>4, <2>5 DEF TurnInv
  <2>7. StepRel'
    BY <2>3, <2>4, <2>5 DEF StepRel
  <2> QED
    BY <1>1, <2>6, <2>7, MemKept DEF StepInv
<1> QED
  BY <1>4, <1>5, <1>6, <1>7, <1>8 DEF TypeOK, Waiting

LEMMA HostTimeoutKeeps ==
  ASSUME TypeOK, StepInv, LossyLine, HostTimeout
  PROVE  StepInv'
<1>1. /\ hpc \in Waiting /\ toBoard = <<>> /\ toHost = <<>> /\ toHost' = <<>>
      /\ pc \in {"first", "num0", "num1", "head"} /\ HostGoTo(hpc, hblk) /\ BoardKept
  BY DEF HostTimeout, Quiet, BoardKept, boardVars
<1>2. hblk \in 0 .. NBlocks /\ NBlocks \in Nat /\ blk \in Nat
  BY Constants DEF TypeOK
<1>3. pc \notin {"num0", "num1"}
  <2>1. ASSUME pc \in {"num0", "num1"} PROVE FALSE
    <3>1. PICK k \in {2, 3} : OnLine(k)
      BY <2>1 DEF StepInv, TurnInv
    <3>2. hpc \in {"ack0", "ack"}
      BY <2>1 DEF StepInv, TurnInv
    <3>3. Len(Message(hpc, hblk)) = 5 + SizeOf(StartOf(hblk)) /\ SizeOf(StartOf(hblk)) \in Nat
      BY <1>1, <1>2, <3>2, MessageFacts, StartFacts
    <3>4. k > Len(Message(hpc, hblk))
      BY <1>1, <3>1, ReadAll
    <3> QED
      BY <3>3, <3>4
  <2> QED
    BY <2>1
<1>4. pc = "head"
  BY <1>1, <1>2, <1>3 DEF StepInv, StepRel, Waiting
<1>5. blk > 0
  BY <1>2, <1>4 DEF StepInv, StepRel
<1>6. CASE hpc = "ack0"
  <2>1. hblk = 0 /\ blk = 1
    BY <1>5, <1>6 DEF StepInv, StepRel
  <2> QED
    BY <1>1, <1>2, <1>4, <1>6, <2>1, Sending
<1>7. CASE hpc = "ack"
  <2>1. hblk > 0 /\ blk \in {hblk, hblk + 1}
    BY <1>7, <1>2 DEF StepInv, StepRel
  <2> QED
    BY <1>1, <1>2, <1>4, <1>7, <2>1, Sending
<1>8. CASE hpc = "ackEOT"
  <2>1. hblk = NBlocks /\ blk = NBlocks + 1
    BY <1>8 DEF StepInv, StepRel
  <2> QED
    BY <1>1, <1>2, <1>4, <1>8, <2>1, Sending
<1> QED
  BY <1>1, <1>6, <1>7, <1>8 DEF Waiting

LEMMA LoseReplyKeeps ==
  ASSUME TypeOK, StepInv, LoseReply
  PROVE  StepInv'
<1>1. /\ toHost # <<>> /\ toHost' = Tail(toHost) /\ BoardKept /\ HostKept
      /\ toBoard' = toBoard
  BY DEF LoseReply, BoardKept, HostKept, boardVars, hostVars
<1>2. AnswerPlace
  BY <1>1, AnswerUnderWay
<1>3. TurnInv'
  BY <1>1, <1>2 DEF TurnInv, AnswerPlace, BoardKept
<1>4. StepRel'
  <2>1. CASE hpc = "C0"
    <3>1. hblk = 0 /\ blk = 0 /\ pc = "first" /\ toHost = <<C>> /\ toBoard = <<>>
      BY <1>2, <2>1 DEF AnswerPlace
    <3>2. /\ hpc' = "C0" /\ hblk' = 0 /\ blk' = 0 /\ pc' = "first" /\ toHost' = <<>>
          /\ toBoard' = <<>>
      BY <1>1, <2>1, <3>1, Answers DEF BoardKept, HostKept
    <3> QED
      BY <3>2 DEF StepRel
  <2>2. CASE hpc = "ack0"
    <3>1. hblk = 0 /\ blk = 1 /\ pc = "head" /\ toHost \in {<<C>>, <<ACK, C>>, <<NAK>>}
      BY <1>2, <2>2 DEF AnswerPlace
    <3>2. hpc' = "ack0" /\ hblk' = 0 /\ blk' = 1 /\ pc' = "head" /\ toHost' \in {<<>>, <<C>>}
      BY <1>1, <2>2, <3>1, Answers DEF BoardKept, HostKept
    <3> QED
      BY <3>2 DEF StepRel
  <2>3. CASE hpc = "C1"
    BY <1>1, <1>2, <2>3, Answers DEF StepRel, AnswerPlace, BoardKept, HostKept
  <2>4. CASE hpc = "ack"
    <3>1. hblk \in 1 .. NBlocks /\ blk \in {hblk, hblk + 1} /\ pc = "head"
          /\ toHost \in {<<ACK>>, <<NAK>>}
      BY <1>2, <2>4 DEF AnswerPlace
    <3>2. blk > 0
      BY <3>1, Constants
    <3>3. toHost' = <<>> /\ pc' = "head" /\ hpc' = "ack" /\ hblk' = hblk /\ blk' = blk
      BY <1>1, <2>4, <3>1, Answers DEF BoardKept, HostKept
    <3> QED
      BY <3>1, <3>2, <3>3, Answers DEF StepRel
  <2>5. CASE hpc \in {"ackEOT", "done"}
    <3>1. toHost \in Seq(Int) /\ \A i \in 1 .. Len(toHost) : toHost[i] \in {ACK, CAN}
      BY <1>2, <2>5 DEF AnswerPlace, TypeOK
    <3>2. \A i \in 1 .. Len(toHost') : toHost'[i] \in {ACK, CAN}
      BY <1>1, <3>1
    <3>3. hblk' = NBlocks /\ blk' = NBlocks + 1 /\ blk' > 0 /\ pc' = "done" /\ hpc' = hpc
      BY <1>1, <1>2, <2>5, Constants DEF AnswerPlace, BoardKept, HostKept
    <3> QED
      BY <2>5, <3>2, <3>3 DEF StepRel
  <2> QED
    BY <2>1, <2>2, <2>3, <2>4, <2>5 DEF TypeOK, Waiting
<1>5. MemInv'
  BY <1>1, MemKept
<1> QED
  BY <1>3, <1>4, <1>5 DEF StepInv

LEMMA StepInvInduction ==
  ASSUME TypeOK, StepInv, LossyLine, [Next]_vars
  PROVE  StepInv'
<1>1. CASE Returned \/ UNCHANGED vars
  BY <1>1 DEF Returned, vars, boardVars, hostVars, lineVars, StepInv, TurnInv, StepRel,
     MemInv, OnLine
<1> QED
  BY <1>1, BoardKeeps, HostReceiveKeeps, HostTimeoutKeeps, LoseReplyKeeps DEF Next

\* On such a line board and host take turns, and memory holds the blocks before
\* the one expected.
THEOREM StepInvCorrect == LossyLine => (Spec => []StepInv)
<1> SUFFICES ASSUME LossyLine PROVE Spec => []StepInv
  OBVIOUS
<1>1. TypeOK /\ StepInv /\ [Next]_vars => StepInv'
  BY StepInvInduction
<1> QED
  BY <1>1, StepInit, TypeCorrect, PTL DEF Spec
-----------------------------------------------------------------------------
(* What it is for *)

\* The blocks taken; the number of block 0 counts for nothing.
Taken == IF blk = 0 THEN 0 ELSE blk - 1

LEMMA TakenFacts ==
  ASSUME TypeOK, StepInv
  PROVE  /\ Taken \in 0 .. NBlocks /\ Taken + 1 \in 1 .. NBlocks + 1
         /\ load_size = Offset(Taken + 1)
         /\ pc = "done" => Taken = NBlocks
         /\ hblk <= Taken + 1 /\ (hpc = "done" => Taken = NBlocks)
<1>1. blk \in 0 .. NBlocks + 1 /\ hblk \in 0 .. NBlocks /\ hblk <= Taken + 1
  BY Constants DEF TypeOK, StepInv, StepRel, Waiting, Taken
<1>2. pc = "done" => blk = NBlocks + 1
  BY DEF TypeOK, StepInv, StepRel, Waiting
<1>3. hpc = "done" => blk = NBlocks + 1
  BY DEF StepInv, StepRel
<1>4. Taken \in 0 .. NBlocks /\ (blk > 0 => Taken + 1 = blk) /\ (blk = 0 => Taken + 1 = 1)
  BY <1>1, Constants DEF Taken
<1>5. load_size = Offset(Taken + 1)
  BY <1>1, <1>4, OffsetNat DEF StepInv, MemInv
<1> QED
  BY <1>1, <1>2, <1>3, <1>4, <1>5, Constants DEF Taken

\* What ymodem_load() has put at load_addr is the beginning of the file, whichever
\* answers are lost, whichever numbers are garbled, and however often blocks come.
THEOREM ImageCorrect == LossyLine => (Spec => []ImageIsPrefix)
<1>1. ASSUME TypeOK, StepInv PROVE ImageIsPrefix
  <2>1. load_size <= FileSize
    BY <1>1, TakenFacts, OffsetNat
  <2> QED
    BY <1>1, <2>1 DEF ImageIsPrefix, StepInv, MemInv
<1>2. TypeOK /\ StepInv => ImageIsPrefix
  BY <1>1
<1> QED
  BY <1>2, TypeCorrect, StepInvCorrect, PTL

\* ymodem_load() returns only with the whole file in memory.
THEOREM LoadedCorrect == LossyLine => (Spec => []LoadedIsWhole)
<1>1. ASSUME TypeOK, StepInv, pc = "done" PROVE load_size = FileSize
  BY <1>1, TakenFacts DEF FileSize
<1>2. TypeOK /\ StepInv => LoadedIsWhole
  BY <1>1 DEF LoadedIsWhole
<1> QED
  BY <1>2, TypeCorrect, StepInvCorrect, PTL

\* The host leaves no block behind that is not in the image.
THEOREM AnsweredCorrect == LossyLine => (Spec => []AnsweredIsStored)
<1>1. ASSUME TypeOK, StepInv PROVE AnsweredIsStored
  <2>1. /\ Taken \in 0 .. NBlocks /\ Taken + 1 \in 1 .. NBlocks + 1
        /\ load_size = Offset(Taken + 1) /\ hblk <= Taken + 1
        /\ (hpc = "done" => Taken = NBlocks) /\ hblk \in 0 .. NBlocks
    BY <1>1, TakenFacts DEF TypeOK
  <2>2. CASE hpc = "done"
    BY <2>1, <2>2, OffsetNat DEF AnsweredIsStored
  <2>3. CASE hpc # "done" /\ hblk = 0
    <3>1. Offset(Taken + 1) \in Nat
      BY <2>1, OffsetNat
    <3>2. Offset(0) <= 0 /\ Offset(0) \in Int
      BY OffsetNat, OffsetType
    <3> QED
      BY <2>1, <2>3, <3>1, <3>2 DEF AnsweredIsStored
  <2>4. CASE hpc # "done" /\ hblk > 0
    <3>1. hblk \in 1 .. NBlocks + 1
      BY <2>1, <2>4, Constants
    <3>2. Offset(hblk) <= Offset(Taken + 1) /\ Offset(hblk) \in Nat /\ Offset(Taken + 1) \in Nat
      BY <2>1, <3>1, OffsetMono, OffsetNat
    <3> QED
      BY <2>1, <2>4, <3>2 DEF AnsweredIsStored
  <2> QED
    BY <2>1, <2>2, <2>3, <2>4
<1>2. TypeOK /\ StepInv => AnsweredIsStored
  BY <1>1
<1> QED
  BY <1>2, TypeCorrect, StepInvCorrect, PTL

-----------------------------------------------------------------------------
(* ymodem_load() implements SerialLoad *)

\* The first n blocks of the file, as a sequence.
Blocks(n) == [b \in 1 .. n |-> Data(b)]

LEMMA ImageIsBlocks ==
  ASSUME TypeOK, StepInv
  PROVE  LoadedImage = Blocks(Taken)
<1>1. Taken \in 0 .. NBlocks /\ Taken + 1 \in 1 .. NBlocks + 1 /\ load_size = Offset(Taken + 1)
  BY TakenFacts
<1>2. 1 .. blk - 1 = 1 .. Taken
  BY DEF Taken, TypeOK
<1>3. ASSUME NEW b \in 1 .. Taken
      PROVE  [i \in 1 .. SizeOf(StartOf(b)) |-> mem[Offset(b) + i - 1]] = Data(b)
  <2>1. b \in 1 .. NBlocks /\ b \in 1 .. NBlocks + 1 /\ b + 1 \in 1 .. NBlocks + 1
        /\ b + 1 <= Taken + 1
    BY <1>1, Constants
  <2>2. /\ Offset(b) \in Nat /\ Offset(b + 1) = Offset(b) + SizeOf(StartOf(b))
        /\ Offset(b + 1) <= load_size
    BY <1>1, <2>1, OffsetNat, OffsetMono
  <2>3. SizeOf(StartOf(b)) \in Nat /\ load_size \in Nat
    BY StartFacts DEF TypeOK
  <2>4. ASSUME NEW i \in 1 .. SizeOf(StartOf(b))
        PROVE  mem[Offset(b) + i - 1] = 1000 + Offset(b) + i - 1
    <3>1. Offset(b) + i - 1 \in 0 .. load_size - 1
      BY <2>2, <2>3
    <3>2. mem[Offset(b) + i - 1] = 1000 + (Offset(b) + i - 1)
      BY <3>1 DEF StepInv, MemInv
    <3> QED
      BY <2>2, <2>3, <3>2
  <2> QED
    BY <2>4 DEF Data
<1> QED
  BY <1>2, <1>3 DEF LoadedImage, Blocks

LEMMA WhatIsSeen ==
  TypeOK /\ StepInv => /\ LoadedImage = Blocks(Taken) /\ Taken \in 0 .. NBlocks
                       /\ pc = "done" => Taken = NBlocks
BY ImageIsBlocks, TakenFacts

LEMMA BlocksSeq ==
  ASSUME NEW n \in Nat
  PROVE  /\ Blocks(n) \in Seq({Data(b) : b \in Nat}) /\ Len(Blocks(n)) = n
         /\ Blocks(n + 1) = Append(Blocks(n), Data(n + 1))
<1>1. Blocks(n) \in Seq({Data(b) : b \in Nat}) /\ Len(Blocks(n)) = n
  BY DEF Blocks
<1>2. Blocks(n + 1) = Append(Blocks(n), Data(n + 1))
  BY DEF Blocks
<1> QED
  BY <1>1, <1>2

\* A step of the board either changes nothing that SerialLoad sees, or takes the
\* next block, or ends with the whole file taken.
LEMMA BoardSees ==
  ASSUME TypeOK, StepInv, TypeOK', StepInv', BoardStep
  PROVE  /\ pc # "done"
         /\ \/ Taken' = Taken /\ pc' # "done"
            \/ Taken' = Taken + 1 /\ pc' # "done"
            \/ Taken' = Taken /\ pc' = "done" /\ Taken = NBlocks
<1>1. CASE Crc1
  <2>1. pc = "crc1" /\ pc' = "head" /\ blk' = blk + 1
    BY <1>1 DEF Crc1, Accept
  <2>2. blk \in 1 .. NBlocks
    BY <2>1, InBlock
  <2> QED
    BY <2>1, <2>2 DEF Taken
<1>2. CASE FlushEnd
  <2>1. pc = "flush" /\ pc' = "head" /\ (blk' = blk \/ (blk = 0 /\ blk' = 1))
    BY <1>2 DEF FlushEnd
  <2> QED
    BY <2>1 DEF Taken
<1>3. CASE HeadByte
  <2>1. pc = "head" /\ blk' = blk
    BY <1>3 DEF HeadByte
  <2>2. pc' = "done" => Taken' = NBlocks
    <3>1. (TypeOK /\ StepInv)'
            => (/\ LoadedImage = Blocks(Taken) /\ Taken \in 0 .. NBlocks
                /\ pc = "done" => Taken = NBlocks)'
      BY WhatIsSeen, PTL
    <3> QED
      BY <3>1 DEF Taken
  <2> QED
    BY <2>1, <2>2 DEF Taken
<1>4. CASE \/ SendC \/ FirstByte \/ FirstTimeout \/ HeadTimeout \/ Num0 \/ Num1 \/ FlushByte
           \/ DataByte \/ DataTimeout \/ DataEnd \/ Crc0 \/ SitOut
  <2>1. blk' = blk /\ pc # "done" /\ pc' # "done"
    BY <1>4 DEF SendC, FirstByte, FirstTimeout, HeadTimeout, Num0, Num1, FlushByte,
       DataByte, DataTimeout, DataEnd, Crc0, SitOut, boardVars
  <2> QED
    BY <2>1 DEF Taken
<1> QED
  BY <1>1, <1>2, <1>3, <1>4 DEF BoardStep

\* On such a line ymodem_load() is a serial loader as load_os() expects one: it
\* copies the file block by block and returns only with all of it.
THEOREM YmodemImplementsSerialLoad == LossyLine => (Spec => ImplementsSerialLoad)
<1> SUFFICES ASSUME LossyLine PROVE Spec => ImplementsSerialLoad
  OBVIOUS
<1> DEFINE File == [b \in 1 .. NBlocks |-> Data(b)]
<1>1. ASSUME Init PROVE Load!Init
  <2>1. LoadedImage = <<>> /\ pc = "start"
    BY <1>1 DEF Init, LoadedImage
  <2> QED
    BY <2>1 DEF Load!Init, LoadStatus
<1>2. ASSUME TypeOK, StepInv, TypeOK', StepInv', [Next]_vars
      PROVE  [Load!Next]_(Load!loadVars)
  <2>1. /\ LoadedImage = Blocks(Taken) /\ LoadedImage' = Blocks(Taken')
        /\ Taken \in 0 .. NBlocks /\ Taken' \in 0 .. NBlocks
    <3>1. (TypeOK /\ StepInv)'
            => (/\ LoadedImage = Blocks(Taken) /\ Taken \in 0 .. NBlocks
                /\ pc = "done" => Taken = NBlocks)'
      BY WhatIsSeen, PTL
    <3> QED
      BY <1>2, <3>1, WhatIsSeen DEF Blocks
  <2>2. File = Blocks(NBlocks) /\ Len(LoadedImage) = Taken /\ Len(File) = NBlocks
    BY <2>1, BlocksSeq, Constants DEF Blocks
  <2>3. CASE Taken' = Taken /\ LoadStatus' = LoadStatus
    BY <2>1, <2>3 DEF Load!loadVars
  <2>4. CASE BoardStep
    <3>1. LoadStatus = "running"
      BY <1>2, <2>4, BoardSees DEF LoadStatus
    <3>2. CASE Taken' = Taken /\ pc' # "done"
      BY <2>3, <3>1, <3>2 DEF LoadStatus
    <3>3. CASE Taken' = Taken + 1 /\ pc' # "done"
      <4>1. Taken < NBlocks /\ Taken \in Nat /\ Taken + 1 \in 1 .. NBlocks
        BY <2>1, <3>3, Constants
      <4>2. File[Taken + 1] = Data(Taken + 1)
        BY <4>1
      <4> HIDE DEF File
      <4>3. LoadedImage' = Append(LoadedImage, File[Len(LoadedImage) + 1])
        <5>1. LoadedImage' = Blocks(Taken + 1)
          BY <2>1, <3>3
        <5>2. Blocks(Taken + 1) = Append(Blocks(Taken), Data(Taken + 1))
          BY <4>1, BlocksSeq
        <5> QED
          BY <2>1, <2>2, <4>2, <5>1, <5>2
      <4>4. LoadStatus' = "running"
        BY <3>3 DEF LoadStatus
      <4>5. Load!Store
        BY <2>2, <3>1, <4>1, <4>3, <4>4 DEF Load!Store, File
      <4> QED
        BY <4>5 DEF Load!Next
    <3>4. CASE Taken' = Taken /\ pc' = "done" /\ Taken = NBlocks
      <4>1. LoadedImage = File /\ LoadedImage' = LoadedImage
        BY <2>1, <2>2, <3>4
      <4>2. LoadStatus' = "loaded"
        BY <3>4 DEF LoadStatus
      <4>3. Load!Finish
        BY <3>1, <4>1, <4>2 DEF Load!Finish
      <4> QED
        BY <4>3 DEF Load!Next
    <3> QED
      BY <1>2, <2>4, <3>2, <3>3, <3>4, BoardSees
  <2>5. CASE ~ BoardStep
    <3>1. blk' = blk /\ pc' = pc
      BY <1>2, <2>5 DEF Next, HostReceive, HostTimeout, LoseReply, Returned, vars, boardVars
    <3> QED
      BY <2>3, <3>1 DEF Taken, LoadStatus
  <2> QED
    BY <2>4, <2>5
<1> QED
  BY <1>1, <1>2, TypeCorrect, StepInvCorrect, PTL DEF Spec, ImplementsSerialLoad, Load!Spec
=============================================================================
