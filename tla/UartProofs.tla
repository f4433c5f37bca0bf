----------------------------- MODULE UartProofs -----------------------------
(***************************************************************************)
(* Proofs about Uart, for every depth of the FIFOs, every timeout, whatever *)
(* arrives and whatever is printed.                                        *)
(***************************************************************************)
EXTENDS Uart, PrintfProofs

\* What the calls have returned and what they still will.
Stream == got \o rx

RxType ==
  /\ driver \in Drivers /\ pc \in Places
  /\ arrived \in Nat /\ lost \subseteq 1 .. arrived
  /\ rx \in Seq(1 .. arrived) /\ Len(rx) <= driver.depth
  /\ got \in Seq(Nat)
  /\ t \in 0 .. Timeout /\ late \in Nat

\* Bytes of the stream have arrived: the next one is behind all of them.
StreamInv ==
  driver.waits =>
    /\ Ascending(Stream)
    /\ \A i \in 1 .. Len(Stream) : Stream[i] \in 1 .. arrived
    /\ \A k \in 1 .. arrived :
         (k \notin lost) <=> (\E i \in 1 .. Len(Stream) : Stream[i] = k)

\* From the first look at an empty FIFO on, late counts what has come; a call
\* looks at least once before its time is over.
LateInv ==
  /\ pc = "look" => t < Timeout \/ t > 0
  /\ /\ driver.count \in {"flag", "field"}
     /\ pc \in {"delay", "timeout"} \/ (pc = "look" /\ t > 0)
     => Len(rx) = late \/ Wedged
  /\ pc = "delay" => t < Timeout

RxInv == RxType /\ StreamInv /\ LateInv

-----------------------------------------------------------------------------
(* Drivers and sequences *)

LEMMA Constants ==
  /\ Depth \in Nat \ {0} /\ Timeout \in Nat \ {0}
  /\ MaxBytes \in Nat /\ MaxReads \in Nat /\ MaxPrints \in Nat
BY ConstantsAssumption

LEMMA DriverFacts ==
  ASSUME NEW d \in Drivers
  PROVE  /\ d.depth \in Nat /\ d.waits \in BOOLEAN
         /\ d.count \in {"flag", "field", "empty", "none"}
         /\ d.waits => d.count \in {"flag", "field"}
         /\ d.count = "field" => d.depth = Depth
<1>1. d = AT91 \/ d = OMAP \/ d = S3C \/ d = PL011 \/ d = E310
  BY DEF Drivers, OMAP4, S3C6410
<1>2. CASE d = AT91   BY <1>2, Constants DEF AT91
<1>3. CASE d = OMAP   BY <1>3, Constants DEF OMAP
<1>4. CASE d = S3C    BY <1>4, Constants DEF S3C
<1>5. CASE d = PL011  BY <1>5, Constants DEF PL011
<1>6. CASE d = E310   BY <1>6, Constants DEF E310
<1> QED
  BY <1>1, <1>2, <1>3, <1>4, <1>5, <1>6

\* A count above zero is never that of an empty FIFO, for a driver whose count
\* is one; a count of zero is that of an empty FIFO or of a wedged one.
LEMMA CountFacts ==
  ASSUME RxType, driver.count \in {"flag", "field"}
  PROVE  /\ Count > 0 => rx # <<>>
         /\ ~ Count > 0 => Len(rx) = 0 \/ Wedged
<1>1. Len(rx) \in Nat /\ (rx = <<>> <=> Len(rx) = 0) /\ Len(rx) <= driver.depth
  BY DEF RxType
<1>2. CASE driver.count = "flag"
  BY <1>1, <1>2 DEF Count
<1>3. CASE driver.count = "field"
  <2>1. driver.depth = Depth /\ Depth \in Nat \ {0} /\ Count = Len(rx) % Depth
    BY <1>3, DriverFacts, Constants DEF RxType, Count
  <2>2. Len(rx) < Depth => Len(rx) % Depth = Len(rx)
    BY <1>1, <2>1
  <2>3. 0 % Depth = 0
    BY <2>1
  <2> QED
    BY <1>1, <1>3, <2>1, <2>2, <2>3 DEF Wedged
<1> QED
  BY <1>2, <1>3

LEMMA TakeKeepsStream ==
  ASSUME NEW S, NEW g \in Seq(S), NEW r \in Seq(S), r # <<>>
  PROVE  Append(g, Head(r)) \o Tail(r) = g \o r
OBVIOUS

LEMMA ArriveExtendsStream ==
  ASSUME NEW S, NEW g \in Seq(S), NEW r \in Seq(S), NEW e \in S
  PROVE  g \o Append(r, e) = Append(g \o r, e)
OBVIOUS

-----------------------------------------------------------------------------
(* The invariant *)

LEMMA RxInit == Init => RxInv
<1> SUFFICES ASSUME Init PROVE RxInv
  OBVIOUS
<1>1. RxType
  BY DriverFacts, Constants DEF Init, RxType, Places
<1>2. Stream = <<>> /\ Len(Stream) = 0
  BY DEF Init, Stream
<1>3. StreamInv
  BY <1>2 DEF Init, StreamInv, Ascending
<1>4. LateInv
  BY DEF Init, LateInv
<1> QED
  BY <1>1, <1>3, <1>4 DEF RxInv

\* A byte that arrives is put behind the stream, or counted as lost.
LEMMA ArriveKeeps ==
  ASSUME RxInv, Arrive
  PROVE  RxInv'
<1> USE DEF RxInv
<1>1. /\ arrived' = arrived + 1 /\ arrived \in Nat
      /\ UNCHANGED <<driver, pc, got, t>>
  BY DEF Arrive, RxType
<1>2. driver.depth \in Nat /\ rx \in Seq(Nat) /\ got \in Seq(Nat)
  BY DriverFacts DEF RxType
<1>3. CASE Len(rx) < driver.depth
  <2>1. rx' = Append(rx, arrived + 1) /\ late' = late + 1 /\ lost' = lost
    BY <1>3 DEF Arrive
  <2>2. rx' \in Seq(1 .. arrived') /\ Len(rx') = Len(rx) + 1
    BY <2>1, <1>1 DEF RxType
  <2>3. RxType'
    BY <1>1, <1>2, <1>3, <2>1, <2>2 DEF RxType
  <2>4. Stream' = Append(Stream, arrived + 1) /\ Stream \in Seq(Nat)
    BY <1>1, <1>2, <2>1, ArriveExtendsStream DEF Stream
  <2>5. /\ Len(Stream') = Len(Stream) + 1 /\ Len(Stream) \in Nat
        /\ Stream'[Len(Stream) + 1] = arrived + 1
        /\ \A i \in 1 .. Len(Stream) : Stream'[i] = Stream[i]
    BY <2>4, <1>1
  <2>6. StreamInv'
    <3> SUFFICES ASSUME driver.waits PROVE StreamInv'
      BY <1>1 DEF StreamInv
    <3>1. /\ Ascending(Stream)
          /\ \A i \in 1 .. Len(Stream) : Stream[i] \in 1 .. arrived
          /\ \A k \in 1 .. arrived :
               (k \notin lost) <=> (\E i \in 1 .. Len(Stream) : Stream[i] = k)
      BY DEF StreamInv
    <3>2. Ascending(Stream)'
      <4> SUFFICES ASSUME NEW i \in 1 .. Len(Stream'), NEW j \in 1 .. Len(Stream'),
                          i < j
                   PROVE  Stream'[i] < Stream'[j]
        BY DEF Ascending
      <4>1. i \in 1 .. Len(Stream) /\ Stream'[i] = Stream[i] /\ Stream[i] \in 1 .. arrived
        BY <3>1, <2>5
      <4>2. CASE j = Len(Stream) + 1
        BY <4>1, <4>2, <2>5, <1>1
      <4>3. CASE j # Len(Stream) + 1
        <5>1. j \in 1 .. Len(Stream) /\ Stream'[j] = Stream[j]
          BY <4>3, <2>5
        <5> QED
          BY <3>1, <4>1, <5>1 DEF Ascending
      <4> QED
        BY <4>2, <4>3
    <3>3. \A i \in 1 .. Len(Stream') : Stream'[i] \in 1 .. arrived'
      BY <3>1, <2>5, <1>1
    <3>4. ASSUME NEW k \in 1 .. arrived'
          PROVE  (k \notin lost') <=> (\E i \in 1 .. Len(Stream') : Stream'[i] = k)
      <4>1. CASE k = arrived + 1
        <5>1. k \notin lost'
          BY <4>1, <2>1, <1>1 DEF RxType
        <5>2. \E i \in 1 .. Len(Stream') : Stream'[i] = k
          BY <4>1, <2>5
        <5> QED
          BY <5>1, <5>2
      <4>2. CASE k # arrived + 1
        <5>1. k \in 1 .. arrived
          BY <4>2, <1>1
        <5>2. (\E i \in 1 .. Len(Stream') : Stream'[i] = k)
                <=> (\E i \in 1 .. Len(Stream) : Stream[i] = k)
          BY <4>2, <2>5
        <5> QED
          BY <3>1, <2>1, <5>1, <5>2
      <4> QED
        BY <4>1, <4>2
    <3> QED
      BY <3>2, <3>3, <3>4 DEF StreamInv
  <2>7. LateInv'
    <3>1. ~ Wedged
      BY <1>3, <1>2 DEF Wedged, RxType
    <3> QED
      BY <1>1, <2>1, <2>2, <3>1 DEF LateInv, RxType
  <2> QED
    BY <2>3, <2>6, <2>7
<1>4. CASE ~ Len(rx) < driver.depth
  <2>1. UNCHANGED <<rx, late>> /\ lost' = lost \cup {arrived + 1}
    BY <1>4 DEF Arrive
  <2>2. Stream' = Stream
    BY <1>1, <2>1 DEF Stream
  <2>3. RxType'
    <3>1. rx \in Seq(1 .. arrived + 1)
      BY <1>1 DEF RxType
    <3> QED
      BY <1>1, <2>1, <3>1 DEF RxType
  <2>4. StreamInv'
    <3> SUFFICES ASSUME driver.waits PROVE StreamInv'
      BY <1>1 DEF StreamInv
    <3>1. /\ Ascending(Stream)
          /\ \A i \in 1 .. Len(Stream) : Stream[i] \in 1 .. arrived
          /\ \A k \in 1 .. arrived :
               (k \notin lost) <=> (\E i \in 1 .. Len(Stream) : Stream[i] = k)
      BY DEF StreamInv
    <3>2. ASSUME NEW k \in 1 .. arrived'
          PROVE  (k \notin lost') <=> (\E i \in 1 .. Len(Stream) : Stream[i] = k)
      <4>1. CASE k = arrived + 1
        <5>1. k \in lost' /\ ~ (\E i \in 1 .. Len(Stream) : Stream[i] = k)
          BY <4>1, <2>1, <3>1, <1>1
        <5> QED
          BY <5>1
      <4>2. CASE k # arrived + 1
        <5>1. k \in 1 .. arrived /\ (k \in lost' <=> k \in lost)
          BY <4>2, <1>1, <2>1
        <5>2. (k \notin lost) <=> (\E i \in 1 .. Len(Stream) : Stream[i] = k)
          BY <3>1, <5>1
        <5> QED
          BY <5>1, <5>2
      <4> QED
        BY <4>1, <4>2
    <3>3. \A i \in 1 .. Len(Stream) : Stream[i] \in 1 .. arrived'
      BY <3>1, <1>1
    <3>4. Ascending(Stream)'
      BY <3>1, <2>2 DEF Ascending
    <3> QED
      BY <2>2, <3>2, <3>3, <3>4 DEF StreamInv
  <2>5. LateInv'
    BY <1>1, <2>1 DEF LateInv, Wedged
  <2> QED
    BY <2>3, <2>4, <2>5
<1> QED
  BY <1>3, <1>4

\* A call takes the first byte of the FIFO, and there is one.
LEMMA RecvKeeps ==
  ASSUME RxInv, Recv
  PROVE  RxInv'
<1> USE DEF RxInv
<1>1. UNCHANGED <<driver, arrived, lost, t, late>> /\ pc = "recv"
  BY DEF Recv
<1>2. CASE ~ CanRead
  <2>1. UNCHANGED <<pc, rx, got>>
    BY <1>2 DEF Recv
  <2> QED
    BY <1>1, <2>1 DEF RxType, StreamInv, Stream, LateInv, Wedged, Ascending
<1>3. CASE CanRead
  <2>1. Take
    BY <1>3 DEF Recv
  <2>2. rx \in Seq(1 .. arrived) /\ got \in Seq(Nat) /\ arrived \in Nat
        /\ driver.depth \in Nat
    BY DriverFacts DEF RxType
  <2>3. rx' \in Seq(1 .. arrived) /\ got' \in Seq(Nat) /\ Len(rx') <= Len(rx)
    <3>1. CASE rx = <<>>
      BY <3>1, <2>1, <2>2 DEF Take, Nothing
    <3>2. CASE rx # <<>>
      <4>1. Head(rx) \in Nat /\ Tail(rx) \in Seq(1 .. arrived) /\ Len(Tail(rx)) = Len(rx) - 1
        BY <3>2, <2>2
      <4> QED
        BY <3>2, <2>1, <2>2, <4>1 DEF Take
    <3> QED
      BY <3>1, <3>2
  <2>4. RxType'
    BY <1>1, <2>1, <2>2, <2>3 DEF RxType, Take, Places
  <2>5. LateInv'
    BY <2>1 DEF LateInv, Take
  <2>6. StreamInv'
    <3> SUFFICES ASSUME driver.waits PROVE StreamInv'
      BY <1>1 DEF StreamInv
    <3>1. driver.count \in {"flag", "field"} /\ Count > 0
      BY <1>3, DriverFacts DEF CanRead, RxType
    <3>2. rx # <<>>
      BY <3>1, CountFacts
    <3>3. rx \in Seq(Nat)
      BY <2>2
    <3>4. Stream' = Stream
      BY <2>1, <2>2, <3>2, <3>3, TakeKeepsStream DEF Take, Stream
    <3> QED
      BY <1>1, <3>4 DEF StreamInv, Ascending
  <2> QED
    BY <2>4, <2>5, <2>6
<1> QED
  BY <1>2, <1>3

\* The steps of the timed read around it do not touch the FIFO.
LEMMA TimedReadKeeps ==
  ASSUME RxInv, CallRecv \/ CallRecvTimeout \/ Look \/ Delay \/ TimedOut
  PROVE  RxInv'
<1> USE DEF RxInv
<1>1. UNCHANGED <<driver, rx, arrived, lost, got>>
  BY DEF CallRecv, CallRecvTimeout, Look, Delay, TimedOut, rxVars
<1>2. Timeout \in Nat \ {0} /\ t \in Nat /\ t <= Timeout /\ Len(rx) \in Nat
  BY Constants DEF RxType
<1>3. t' \in 0 .. Timeout /\ late' \in Nat /\ pc' \in Places
  BY <1>2 DEF CallRecv, CallRecvTimeout, Look, Delay, TimedOut, NextTime, RxType,
     LateInv, Places
<1>4. RxType'
  BY <1>1, <1>3 DEF RxType
<1>5. StreamInv'
  BY <1>1 DEF StreamInv, Stream, Ascending
<1>6. LateInv'
  <2>1. CASE CallRecv \/ TimedOut
    BY <2>1 DEF CallRecv, TimedOut, LateInv
  <2>2. CASE CallRecvTimeout
    BY <2>2, <1>2 DEF CallRecvTimeout, LateInv
  <2>3. CASE Delay
    BY <2>3, <1>1, <1>2 DEF Delay, NextTime, LateInv, Wedged
  <2>4. CASE Look
    <3>1. UNCHANGED t /\ pc = "look"
      BY <2>4 DEF Look
    <3>2. CASE pc' = "recv"
      BY <3>2 DEF LateInv
    <3>3. CASE pc' = "delay"
      <4>1. TimeLeft /\ ~ Count > 0 /\ late' = 0
        BY <2>4, <3>3 DEF Look
      <4>2. driver.count \in {"flag", "field"} => Len(rx) = 0 \/ Wedged
        BY <4>1, CountFacts
      <4> QED
        BY <1>1, <3>1, <3>3, <4>1, <4>2 DEF LateInv, Wedged, TimeLeft
    <3>4. CASE pc' = "timeout"
      <4>1. ~ TimeLeft /\ UNCHANGED late
        BY <2>4, <3>4 DEF Look
      <4>2. t > 0
        BY <4>1, <1>2 DEF TimeLeft
      <4> QED
        BY <1>1, <3>1, <3>4, <4>1, <4>2 DEF LateInv, Wedged
    <3> QED
      BY <2>4, <3>2, <3>3, <3>4 DEF Look
  <2> QED
    BY <2>1, <2>2, <2>3, <2>4
<1> QED
  BY <1>4, <1>5, <1>6

\* Printing leaves the receiving side alone.
LEMMA PrintKeeps ==
  ASSUME RxInv,
         \/ \E m \in Messages : CallPrintf(m)
         \/ Format \/ SendByte \/ Transmit \/ UNCHANGED vars
  PROVE  RxInv'
<1>1. UNCHANGED <<driver, rx, arrived, lost, got, t, late>>
  BY DEF CallPrintf, Format, SendByte, Transmit, rxVars, vars
<1>2. pc' = pc \/ pc' \in {"idle", "print"}
  BY DEF CallPrintf, Format, SendByte, Transmit, vars
<1>3. RxType'
  BY <1>1, <1>2 DEF RxInv, RxType, Places
<1>4. StreamInv'
  BY <1>1 DEF RxInv, StreamInv, Stream, Ascending
<1>5. LateInv'
  BY <1>1, <1>2 DEF RxInv, LateInv, Wedged
<1> QED
  BY <1>3, <1>4, <1>5 DEF RxInv

LEMMA RxStep == RxInv /\ [Next]_vars => RxInv'
BY ArriveKeeps, RecvKeeps, TimedReadKeeps, PrintKeeps DEF Next, CallReturns

\* With every driver that waits for a byte, those that arrive are read in
\* their order, each once, and none is missing but those that found the FIFO
\* full.
THEOREM BytesAreReadInOrder == Spec => []ReadsInOrder
<1>1. RxInv => ReadsInOrder
  <2> SUFFICES ASSUME RxInv, driver.waits PROVE ReadsInOrder
    BY DEF ReadsInOrder
  <2>1. got \in Seq(Nat) /\ rx \in Seq(Nat)
    BY DEF RxInv, RxType
  <2>2. \A i \in 1 .. Len(got) : i \in 1 .. Len(Stream) /\ Stream[i] = got[i]
    BY <2>1 DEF Stream
  <2>3. \A i \in 1 .. Len(got) : got[i] # Nothing
    BY <2>2 DEF RxInv, RxType, StreamInv, Nothing
  <2> QED
    BY <2>3 DEF RxInv, StreamInv, Stream, ReadsInOrder
<1> QED
  BY <1>1, RxInit, RxStep, PTL DEF Spec

\* A timed read reports -ETIMEDOUT only if the FIFO was empty when it looked
\* last, a wedged FIFO excepted.
THEOREM TimeoutsAreHonest == Spec => []TimeoutIsHonest
<1>1. RxInv => TimeoutIsHonest
  BY DEF RxInv, LateInv, TimeoutIsHonest
<1> QED
  BY <1>1, RxInit, RxStep, PTL DEF Spec

-----------------------------------------------------------------------------
(* Printing: the types *)

\* The directives among the first n items of a format.
Args(m, n) == {j \in 1 .. n : m.fmt[j] \in Directives}

\* arg is the number of the next argument, and what is sent are characters.
TxInv ==
  /\ driver \in Drivers /\ prints \in 0 .. MaxPrints
  /\ msg \in Messages \cup {NoMessage}
  /\ at \in Nat \ {0} /\ arg \in Nat /\ arg = Cardinality(Args(msg, at - 1)) + 1
  /\ todo \in Seq(Chars) /\ tx \in Seq(Chars) /\ Len(tx) <= driver.depth

LEMMA NextArgument ==
  ASSUME NEW m, NEW n \in Nat \ {0}
  PROVE  /\ Cardinality(Args(m, n)) \in Nat
         /\ Cardinality(Args(m, n)) =
              IF m.fmt[n] \in Directives THEN Cardinality(Args(m, n - 1)) + 1
                                         ELSE Cardinality(Args(m, n - 1))
<1>1. IsFiniteSet(1 .. n - 1) /\ IsFiniteSet(1 .. n)
  BY FS_Interval
<1>2. Args(m, n - 1) \subseteq 1 .. n - 1 /\ Args(m, n) \subseteq 1 .. n
  BY DEF Args
<1>3. IsFiniteSet(Args(m, n - 1)) /\ IsFiniteSet(Args(m, n))
  BY <1>1, <1>2, FS_Subset
<1>4. n \notin Args(m, n - 1)
  BY <1>2
<1>5. Args(m, n) = IF m.fmt[n] \in Directives THEN Args(m, n - 1) \cup {n} ELSE Args(m, n - 1)
  BY DEF Args
<1>6. Cardinality(Args(m, n - 1) \cup {n}) = Cardinality(Args(m, n - 1)) + 1
  BY <1>3, <1>4, FS_AddElement
<1>7. Cardinality(Args(m, n)) \in Nat
  BY <1>3, FS_CardinalityType
<1> QED
  BY <1>5, <1>6, <1>7

LEMMA NoArguments == ASSUME NEW m PROVE Cardinality(Args(m, 0)) = 0
<1>1. Args(m, 0) = {}
  BY DEF Args
<1> QED
  BY <1>1, FS_EmptySet

LEMMA CallsAreCalls == ASSUME NEW m \in Messages PROVE IsCall(m)
BY MessagesAssumption DEF IsCall

LEMMA TxInit == Init => TxInv
<1> SUFFICES ASSUME Init PROVE TxInv
  OBVIOUS
<1>1. Cardinality(Args(msg, at - 1)) = 0
  <2>1. at - 1 = 0
    BY DEF Init
  <2> QED
    BY <2>1, NoArguments
<1>2. driver.depth \in Nat
  BY DriverFacts DEF Init
<1> QED
  BY <1>1, <1>2, Constants DEF Init, TxInv

\* What is sent for the item at p is that item with the argument of its number.
LEMMA FormatSends ==
  ASSUME TxInv, Format, ~ (at > Len(msg.fmt) \/ Unknown(msg.fmt[at]))
  PROVE  /\ msg \in Messages /\ at \in 1 .. Len(msg.fmt) /\ Len(msg.fmt) \in Nat
         /\ todo' = Expand(msg.fmt[at], ValueOf(msg, at))
         /\ at' = at + 1 /\ arg' = NextArg(msg.fmt[at])
<1> DEFINE item == msg.fmt[at]
           val  == IF item \in Directives THEN msg.args[arg] ELSE item
<1>1. todo' = Expand(item, val) /\ at' = at + 1 /\ arg' = NextArg(item)
  BY DEF Format
<1>2. msg \in Messages
  <2>1. Len(NoMessage.fmt) = 0
    BY DEF NoMessage
  <2> QED
    BY <2>1 DEF TxInv
<1>3. Len(msg.fmt) \in Nat /\ at \in 1 .. Len(msg.fmt)
  <2>1. Len(msg.fmt) \in Nat
    BY <1>2, MessagesAssumption
  <2> QED
    BY <2>1 DEF TxInv
<1>4. Cardinality(Args(msg, at)) = IF item \in Directives THEN arg ELSE arg - 1
  BY NextArgument DEF TxInv
<1>5. val = ValueOf(msg, at)
  BY <1>4 DEF ValueOf, ArgOf, Args
<1> QED
  BY <1>1, <1>2, <1>3, <1>5

\* What is to be sent for an item are characters: its argument is the one at
\* arg.
LEMMA FormatKeeps ==
  ASSUME TxInv, Format
  PROVE  TxInv'
<1> USE DEF TxInv
<1>1. UNCHANGED <<driver, msg, prints, tx>>
  BY DEF Format
<1>2. CASE at > Len(msg.fmt) \/ Unknown(msg.fmt[at])
  <2>1. UNCHANGED <<at, arg, todo>>
    BY <1>2 DEF Format
  <2> QED
    BY <1>1, <2>1 DEF Args
<1>3. CASE ~ (at > Len(msg.fmt) \/ Unknown(msg.fmt[at]))
  <2>1. /\ msg \in Messages /\ at \in 1 .. Len(msg.fmt)
        /\ todo' = Expand(msg.fmt[at], ValueOf(msg, at))
        /\ at' = at + 1 /\ arg' = NextArg(msg.fmt[at])
    BY <1>3, FormatSends
  <2>2. todo' \in Seq(Chars)
    BY <1>3, <2>1, CallsAreCalls, ItemOfCall
  <2>3. /\ Cardinality(Args(msg, at)) \in Nat
        /\ Cardinality(Args(msg, at)) =
             IF msg.fmt[at] \in Directives THEN arg ELSE arg - 1
    BY NextArgument
  <2>4. arg' \in Nat /\ arg' = Cardinality(Args(msg, at)) + 1
    BY <2>1, <2>3 DEF NextArg
  <2>5. at' - 1 = at /\ at' \in Nat \ {0}
    BY <2>1
  <2> QED
    BY <1>1, <2>2, <2>4, <2>5 DEF Args
<1> QED
  BY <1>2, <1>3

LEMMA SendByteKeeps ==
  ASSUME TxInv, SendByte
  PROVE  TxInv'
<1> USE DEF TxInv
<1>1. UNCHANGED <<driver, msg, at, arg, prints>> /\ todo # <<>>
  BY DEF SendByte
<1>2. driver.depth \in Nat
  BY DriverFacts
<1>3. Tail(todo) \in Seq(Chars) /\ Head(todo) \in Chars
  BY <1>1
<1>4. Append(tx, Head(todo)) \in Seq(Chars) /\ Len(Append(tx, Head(todo))) = Len(tx) + 1
  BY <1>3
<1>5. todo' \in Seq(Chars) /\ tx' \in Seq(Chars) /\ Len(tx') <= driver.depth
  <2>1. CASE CanSend
    <3>1. /\ todo' = Tail(todo)
          /\ tx' = IF Len(tx) < driver.depth THEN Append(tx, Head(todo)) ELSE tx
      BY <2>1 DEF SendByte
    <3>2. CASE Len(tx) < driver.depth
      <4>1. tx' = Append(tx, Head(todo)) /\ Len(tx) \in Nat
        BY <3>1, <3>2
      <4> QED
        BY <3>1, <3>2, <4>1, <1>2, <1>3, <1>4
    <3>3. CASE ~ Len(tx) < driver.depth
      BY <3>1, <3>3, <1>3
    <3> QED
      BY <3>2, <3>3
  <2>2. CASE ~ CanSend
    <3>1. UNCHANGED <<todo, tx>>
      BY <2>2 DEF SendByte
    <3> QED
      BY <3>1
  <2> QED
    BY <2>1, <2>2
<1> QED
  BY <1>1, <1>5 DEF Args

LEMMA TxStep == TxInv /\ [Next]_vars => TxInv'
<1> SUFFICES ASSUME TxInv, [Next]_vars PROVE TxInv'
  OBVIOUS
<1>1. CASE Format
  BY <1>1, FormatKeeps
<1>2. CASE SendByte
  BY <1>2, SendByteKeeps
<1>3. CASE Transmit
  <2>1. UNCHANGED <<driver, msg, at, arg, todo, prints>> /\ tx' = Tail(tx) /\ tx # <<>>
    BY <1>3 DEF Transmit
  <2>2. tx' \in Seq(Chars) /\ Len(tx') = Len(tx) - 1
    BY <2>1 DEF TxInv
  <2>3. driver.depth \in Nat
    BY DriverFacts DEF TxInv
  <2> QED
    BY <2>1, <2>2, <2>3 DEF TxInv, Args
<1>4. ASSUME NEW m \in Messages, CallPrintf(m) PROVE TxInv'
  <2>1. UNCHANGED <<driver, todo, tx>> /\ msg' = m /\ at' = 1 /\ arg' = 1
        /\ prints' = prints + 1 /\ prints < MaxPrints
    BY <1>4 DEF CallPrintf
  <2>2. Cardinality(Args(m, 0)) = 0
    BY NoArguments
  <2>3. prints' \in 0 .. MaxPrints
    BY <2>1, Constants DEF TxInv
  <2>4. at' - 1 = 0
    BY <2>1
  <2>5. Cardinality(Args(msg, at - 1))' = 0
    BY <2>1, <2>2, <2>4 DEF Args
  <2> QED
    BY <2>1, <2>3, <2>5 DEF TxInv
<1>5. CASE \/ Arrive \/ CallRecv \/ CallRecvTimeout \/ Recv \/ Look \/ Delay
           \/ TimedOut \/ UNCHANGED vars
  <2>1. UNCHANGED <<driver, txVars>>
    BY <1>5 DEF Arrive, CallRecv, CallRecvTimeout, Recv, Look, Delay, TimedOut, vars
  <2> QED
    BY <2>1 DEF txVars, TxInv, Args
<1> QED
  BY <1>1, <1>2, <1>3, <1>4, <1>5 DEF Next, CallReturns

\* Every variable keeps its type; neither FIFO exceeds its depth.
THEOREM TypeCorrect == Spec => []TypeOK
<1>1. RxInv /\ TxInv => TypeOK
  BY DEF RxInv, RxType, TxInv, TypeOK
<1> QED
  BY <1>1, RxInit, RxStep, TxInit, TxStep, PTL DEF Spec

-----------------------------------------------------------------------------
(* Printing: the text *)

\* What has been given to the transmitter, and what is still to be.
Sent == (line \o tx) \o todo

\* Between two calls all that was to be printed has been sent.  In a call what
\* was due before it, and the text of the items before p, have been sent or are
\* in todo.
TextInv ==
  /\ line \in Seq(Chars) /\ due \in Seq(Chars)
  /\ pc # "print" => todo = <<>>
  /\ driver.txWaits =>
       /\ HasReturns(Sent)
       /\ pc # "print" => WithoutReturns(Sent) = due
       /\ pc = "print" =>
            /\ msg \in Messages /\ at - 1 \in 0 .. Len(msg.fmt) /\ Known(msg, at - 1)
            /\ \E before \in Seq(Chars) :
                 /\ due = before \o Text(msg)
                 /\ WithoutReturns(Sent) = before \o TextUpTo(msg, at - 1)

\* A character that goes on its way stays where it is in the text.
LEMMA SendKeepsOrder ==
  ASSUME NEW l \in Seq(Chars), NEW x \in Seq(Chars), NEW d \in Seq(Chars), d # <<>>
  PROVE  (l \o Append(x, Head(d))) \o Tail(d) = (l \o x) \o d
<1>1. Head(d) \in Chars /\ l \o x \in Seq(Chars) /\ l \o Append(x, Head(d)) = Append(l \o x, Head(d))
  BY ConcatAppend
<1> QED
  BY <1>1, TakeKeepsStream

\* The text of a call consists of characters.
LEMMA TextOfCall ==
  ASSUME NEW m \in Messages
  PROVE  /\ Text(m) \in Seq(Chars) /\ Len(m.fmt) \in Nat
         /\ Known(m, 0) /\ TextUpTo(m, 0) = <<>>
<1>1. IsCall(m) /\ Len(m.fmt) \in Nat
  BY CallsAreCalls DEF IsCall
<1>2. Known(m, 0) /\ 0 \in 0 .. Len(m.fmt)
  BY <1>1 DEF Known
<1>3. PICK x \in Seq(Chars) : Text(m) = TextUpTo(m, 0) \o x
  BY <1>1, <1>2, TextGoesOn
<1>4. TextUpTo(m, 0) = <<>> /\ <<>> \o x = x
  BY <1>3, TextOfNone
<1>5. Text(m) = x
  BY <1>3, <1>4, Zenon
<1> QED
  BY <1>1, <1>2, <1>3, <1>4, <1>5

LEMMA TextInit == Init => TextInv
<1> SUFFICES ASSUME Init PROVE TextInv
  OBVIOUS
<1>1. Sent = <<>> /\ due = <<>> /\ line = <<>> /\ todo = <<>> /\ pc = "idle"
  BY DEF Init, Sent
<1>2. HasReturns(<<>>)
  BY DEF HasReturns
<1> QED
  BY <1>1, <1>2, WithoutNone DEF TextInv

\* A call begins: its text is due, and none of it has been sent.
LEMMA CallKeepsText ==
  ASSUME TxInv, TextInv, NEW m \in Messages, CallPrintf(m)
  PROVE  TextInv'
<1>1. /\ pc = "idle" /\ pc' = "print" /\ msg' = m /\ at' = 1 /\ due' = due \o Text(m)
      /\ UNCHANGED <<driver, todo, tx, line>>
  BY DEF CallPrintf
<1>2. Text(m) \in Seq(Chars) /\ Len(m.fmt) \in Nat /\ Known(m, 0) /\ TextUpTo(m, 0) = <<>>
  BY TextOfCall
<1>3. line' \in Seq(Chars) /\ due' \in Seq(Chars)
  BY <1>1, <1>2 DEF TextInv
<1>4. Sent' = Sent /\ at' - 1 = 0
  BY <1>1 DEF Sent
<1>5. ASSUME driver.txWaits
      PROVE  /\ HasReturns(Sent)
             /\ WithoutReturns(Sent) = due \o TextUpTo(m, 0)
  <2>1. HasReturns(Sent) /\ WithoutReturns(Sent) = due /\ due \in Seq(Chars)
    BY <1>1, <1>5 DEF TextInv
  <2> QED
    BY <1>2, <2>1, ConcatEmptySeq
<1>6. 0 \in 0 .. Len(m.fmt) /\ due \in Seq(Chars)
  BY <1>2 DEF TextInv
<1> QED
  BY <1>1, <1>2, <1>3, <1>4, <1>5, <1>6 DEF TextInv

\* The next item is expanded, or the call ends with all of its text sent.
LEMMA FormatKeepsText ==
  ASSUME TxInv, TextInv, Format
  PROVE  TextInv'
<1>1. UNCHANGED <<driver, msg, tx, line, due>> /\ pc = "print" /\ todo = <<>>
  BY DEF Format
<1>2. line \in Seq(Chars) /\ due \in Seq(Chars) /\ tx \in Seq(Chars) /\ line \o tx \in Seq(Chars)
  BY DEF TxInv, TextInv
<1>3. Sent = line \o tx
  BY <1>1, <1>2, ConcatEmptySeq DEF Sent
<1>4. CASE at > Len(msg.fmt) \/ Unknown(msg.fmt[at])
  <2>1. pc' = "idle" /\ UNCHANGED <<at, arg, todo>>
    BY <1>4 DEF Format
  <2>2. Sent' = Sent
    BY <1>1, <2>1 DEF Sent
  <2>3. ASSUME driver.txWaits PROVE HasReturns(Sent) /\ WithoutReturns(Sent) = due
    <3>1. /\ HasReturns(Sent) /\ msg \in Messages /\ at - 1 \in 0 .. Len(msg.fmt)
          /\ Known(msg, at - 1)
          /\ \E before \in Seq(Chars) :
               /\ due = before \o Text(msg)
               /\ WithoutReturns(Sent) = before \o TextUpTo(msg, at - 1)
      BY <1>1, <2>3 DEF TextInv
    <3>2. at - 1 = Len(msg.fmt) \/ Unknown(msg.fmt[(at - 1) + 1])
      <4>1. at \in Nat \ {0} /\ Len(msg.fmt) \in Nat /\ (at - 1) + 1 = at
        BY <3>1, TextOfCall DEF TxInv
      <4>2. at > Len(msg.fmt) => at - 1 = Len(msg.fmt)
        <5> DEFINE n == Len(msg.fmt)
        <5>1. at \in Nat /\ n \in Nat /\ at - 1 \in 0 .. n
          BY <3>1, <4>1
        <5> HIDE DEF n
        <5>2. at > n => at - 1 = n
          BY <5>1
        <5> QED
          BY <5>2 DEF n
      <4> QED
        BY <1>4, <4>1, <4>2
    <3>3. Text(msg) = TextUpTo(msg, at - 1)
      BY <3>1, <3>2, CallsAreCalls, TextEnds
    <3> QED
      BY <3>1, <3>3
  <2> QED
    BY <1>1, <1>2, <2>1, <2>2, <2>3 DEF TextInv
<1>5. CASE ~ (at > Len(msg.fmt) \/ Unknown(msg.fmt[at]))
  <2> DEFINE e == Expand(msg.fmt[at], ValueOf(msg, at))
  <2>1. /\ msg \in Messages /\ at \in 1 .. Len(msg.fmt) /\ Len(msg.fmt) \in Nat
        /\ todo' = e /\ at' = at + 1
    BY <1>5, FormatSends
  <2>2. pc' = "print"
    BY <1>1, <1>5 DEF Format
  <2>3. e \in Seq(Chars) /\ HasReturns(e) /\ WithoutReturns(e) = ItemText(msg, at)
        /\ ItemText(msg, at) \in Seq(Chars)
    BY <1>5, <2>1, CallsAreCalls, ItemOfCall
  <2>4. Sent' = Sent \o e
    BY <1>1, <1>3, <2>1 DEF Sent
  <2> HIDE DEF e
  <2>5. ASSUME driver.txWaits
        PROVE  /\ HasReturns(Sent \o e)
               /\ at \in 0 .. Len(msg.fmt) /\ Known(msg, at)
               /\ \E before \in Seq(Chars) :
                    /\ due = before \o Text(msg)
                    /\ WithoutReturns(Sent \o e) = before \o TextUpTo(msg, at)
    <3>1. HasReturns(Sent) /\ Known(msg, at - 1) /\ Sent \in Seq(Chars)
      BY <1>1, <1>2, <1>3, <2>5 DEF TextInv
    <3>2. PICK before \in Seq(Chars) :
            /\ due = before \o Text(msg)
            /\ WithoutReturns(Sent) = before \o TextUpTo(msg, at - 1)
      BY <1>1, <2>5 DEF TextInv
    <3>3. at \in 0 .. Len(msg.fmt) /\ Known(msg, at)
      BY <1>5, <2>1, <3>1 DEF Known
    <3>4. HasReturns(Sent \o e)
      BY <2>3, <3>1, ReturnsConcat
    <3>5. WithoutReturns(Sent \o e) = (before \o TextUpTo(msg, at - 1)) \o ItemText(msg, at)
      BY <2>3, <3>1, <3>2, WithoutConcat
    <3>6. /\ TextUpTo(msg, at) = TextUpTo(msg, at - 1) \o ItemText(msg, at)
          /\ TextUpTo(msg, at - 1) \in Seq(Chars)
      <4>1. at - 1 \in Nat /\ at - 1 < Len(msg.fmt) /\ (at - 1) + 1 = at
            /\ at - 1 \in 0 .. Len(msg.fmt)
        BY <2>1
      <4>2. IsCall(msg)
        BY <2>1, CallsAreCalls
      <4> QED
        BY <3>1, <3>3, <4>1, <4>2, TextGrows, TextType
    <3>7. (before \o TextUpTo(msg, at - 1)) \o ItemText(msg, at) = before \o TextUpTo(msg, at)
      BY <2>3, <3>2, <3>6, ConcatAssociative
    <3> QED
      BY <3>2, <3>3, <3>4, <3>5, <3>7
  <2>6. at' - 1 = at
    BY <2>1
  <2> QED
    BY <1>1, <1>2, <2>1, <2>2, <2>4, <2>5, <2>6 DEF TextInv
<1> QED
  BY <1>4, <1>5

\* Whatever moves characters along, and keeps Sent, keeps the rest.
LEMMA MoveKeepsText ==
  ASSUME TextInv, Sent' = Sent, line' \in Seq(Chars), pc' # "print" => todo' = <<>>,
         UNCHANGED <<driver, msg, at, due>>, (pc = "print") <=> (pc' = "print")
  PROVE  TextInv'
BY DEF TextInv

\* A character leaves todo only for the transmitter, if the driver looks.
LEMMA SendByteKeepsText ==
  ASSUME TxInv, TextInv, SendByte
  PROVE  TextInv'
<1>1. UNCHANGED <<driver, pc, msg, at, line, due>> /\ pc = "print" /\ todo # <<>>
  BY DEF SendByte
<1>2. line \in Seq(Chars) /\ tx \in Seq(Chars) /\ todo \in Seq(Chars)
  BY DEF TxInv, TextInv
<1>3. CASE driver.txWaits
  <2>1. CASE CanSend
    <3>1. todo' = Tail(todo) /\ tx' = Append(tx, Head(todo))
      BY <1>3, <2>1 DEF SendByte, CanSend
    <3>2. Sent' = Sent
      <4>1. (line \o Append(tx, Head(todo))) \o Tail(todo) = (line \o tx) \o todo
        BY <1>1, <1>2, SendKeepsOrder, Zenon
      <4> QED
        BY <1>1, <3>1, <4>1 DEF Sent
    <3> QED
      BY <1>1, <1>2, <3>2, MoveKeepsText
  <2>2. CASE ~ CanSend
    <3>1. UNCHANGED <<todo, tx>>
      BY <2>2 DEF SendByte
    <3>2. Sent' = Sent
      BY <1>1, <3>1 DEF Sent
    <3> QED
      BY <1>1, <1>2, <3>2, MoveKeepsText
  <2> QED
    BY <2>1, <2>2
<1>4. CASE ~ driver.txWaits
  BY <1>1, <1>4 DEF TextInv
<1> QED
  BY <1>3, <1>4

LEMMA TextStep == TxInv /\ TextInv /\ [Next]_vars => TextInv'
<1> SUFFICES ASSUME TxInv, TextInv, [Next]_vars PROVE TextInv'
  OBVIOUS
<1>1. CASE Format
  BY <1>1, FormatKeepsText
<1>2. CASE SendByte
  BY <1>2, SendByteKeepsText
<1>3. CASE Transmit
  <2>1. /\ UNCHANGED <<driver, pc, msg, at, todo, due>> /\ tx # <<>>
        /\ tx' = Tail(tx) /\ line' = Append(line, Head(tx))
    BY <1>3 DEF Transmit
  <2>2. line \in Seq(Chars) /\ tx \in Seq(Chars) /\ Head(tx) \in Chars
    BY <2>1 DEF TxInv, TextInv
  <2>3. line' \in Seq(Chars)
    BY <2>1, <2>2
  <2>4. Append(line, Head(tx)) \o Tail(tx) = line \o tx
    BY <2>1, <2>2, TakeKeepsStream
  <2>5. Sent' = Sent
    BY <2>1, <2>4 DEF Sent
  <2>6. pc' # "print" => todo' = <<>>
    BY <2>1 DEF TextInv
  <2> QED
    BY <2>1, <2>3, <2>5, <2>6, MoveKeepsText
<1>4. ASSUME NEW m \in Messages, CallPrintf(m) PROVE TextInv'
  BY <1>4, CallKeepsText
<1>5. CASE \/ Arrive \/ CallRecv \/ CallRecvTimeout \/ Recv \/ Look \/ Delay
           \/ TimedOut \/ UNCHANGED vars
  <2>1. UNCHANGED <<driver, txVars>>
    BY <1>5 DEF Arrive, CallRecv, CallRecvTimeout, Recv, Look, Delay, TimedOut, vars
  <2>2. (pc = "print") <=> (pc' = "print")
    BY <1>5 DEF Arrive, CallRecv, CallRecvTimeout, Recv, Take, Look, Delay, TimedOut, vars
  <2>3. UNCHANGED <<driver, msg, at, todo, tx, line, due>>
    BY <2>1 DEF txVars
  <2>4. Sent' = Sent
    BY <2>3 DEF Sent
  <2>5. line' \in Seq(Chars) /\ (pc' # "print" => todo' = <<>>)
    BY <2>2, <2>3 DEF TextInv
  <2> QED
    BY <2>2, <2>3, <2>4, <2>5, MoveKeepsText
<1> QED
  BY <1>1, <1>2, <1>3, <1>4, <1>5 DEF Next, CallReturns

\* What printf() has to print leaves on the line whole and in order, for any
\* driver that looks at the FIFO before it writes, any depth of it and any calls:
\* numbers as their digits, line ends with their carriage return.
THEOREM TextIsPrintedWhole == Spec => []PrintsWhole
<1>1. TxInv /\ TextInv => PrintsWhole
  <2> SUFFICES ASSUME TxInv, TextInv, driver.txWaits
               PROVE  /\ IsPrefix(WithoutReturns(Sent), due)
                      /\ pc # "print" => WithoutReturns(line \o tx) = due /\ HasReturns(line \o tx)
    BY DEF PrintsWhole, Sent
  <2>1. line \o tx \in Seq(Chars) /\ due \in Seq(Chars)
    BY DEF TxInv, TextInv
  <2>2. CASE pc # "print"
    <3>1. HasReturns(Sent) /\ WithoutReturns(Sent) = due /\ todo = <<>>
      BY <2>2 DEF TextInv
    <3>2. Sent = line \o tx
      BY <2>1, <3>1, ConcatEmptySeq DEF Sent
    <3>3. due = due \o <<>> /\ <<>> \in Seq(Chars)
      BY <2>1, ConcatEmptySeq
    <3>4. IsPrefix(due, due)
      BY <2>1, <3>3, PrefixOfConcat
    <3> QED
      BY <3>1, <3>2, <3>4
  <2>3. CASE pc = "print"
    <3>1. msg \in Messages /\ at - 1 \in 0 .. Len(msg.fmt) /\ Known(msg, at - 1)
      BY <2>3 DEF TextInv
    <3>2. PICK before \in Seq(Chars) :
            /\ due = before \o Text(msg)
            /\ WithoutReturns(Sent) = before \o TextUpTo(msg, at - 1)
      BY <2>3 DEF TextInv
    <3>3. IsCall(msg) /\ TextUpTo(msg, at - 1) \in Seq(Chars)
      BY <3>1, CallsAreCalls, TextType
    <3>4. PICK x \in Seq(Chars) : Text(msg) = TextUpTo(msg, at - 1) \o x
      BY <3>1, <3>3, TextGoesOn
    <3>5. due = (before \o TextUpTo(msg, at - 1)) \o x
      BY <3>2, <3>3, <3>4, ConcatAssociative
    <3>6. before \o TextUpTo(msg, at - 1) \in Seq(Chars)
      BY <3>2, <3>3
    <3> QED
      BY <2>3, <3>2, <3>4, <3>5, <3>6, PrefixOfConcat
  <2> QED
    BY <2>2, <2>3
<1> QED
  BY <1>1, TxInit, TxStep, TextInit, TextStep, PTL DEF Spec
=============================================================================
