-------------------------------- MODULE Uart --------------------------------
(***************************************************************************)
(* The serial line below everything that reads and prints: the reading and *)
(* writing functions of the drivers in driver/uart, the timed read of      *)
(* uart.c, and printf() of lib/stdio.c, with the two FIFOs of the UART.    *)
(*                                                                         *)
(* The bytes that arrive are numbered; what is printed are characters.     *)
(***************************************************************************)
EXTENDS Printf

CONSTANTS
  Depth,          \* bytes a FIFO holds; the count field of S3C has this many values
  Timeout,        \* looks at the FIFO in a timed read (timeout / UART_DELAY)
  Messages,       \* calls of printf(): [fmt, args]
  MaxBytes,       \* bound: bytes that arrive
  MaxReads,       \* bound: bytes that are read
  MaxPrints       \* bound: calls of printf()

\* count: what uart_rxbuf_count() tells.  waits, txWaits: whether receiving and
\* sending look at the FIFO at all.  depth: what the receiver holds.
DriverType ==
  [count: {"flag", "field", "empty", "none"}, waits: BOOLEAN, txWaits: BOOLEAN,
   depth: {0, 1, Depth}]

AT91  == [count |-> "flag",  waits |-> TRUE,  txWaits |-> TRUE,  depth |-> 1]
OMAP  == [count |-> "flag",  waits |-> TRUE,  txWaits |-> TRUE,  depth |-> Depth]
S3C   == [count |-> "field", waits |-> TRUE,  txWaits |-> TRUE,  depth |-> Depth]
PL011 == [count |-> "empty", waits |-> FALSE, txWaits |-> FALSE, depth |-> Depth]
E310  == [count |-> "none",  waits |-> FALSE, txWaits |-> FALSE, depth |-> 0]

OMAP4   == OMAP
S3C6410 == S3C

Drivers == {AT91, OMAP, OMAP4, S3C, S3C6410, PL011, E310}

ASSUME ConstantsAssumption ==
  /\ Depth \in Nat \ {0} /\ Timeout \in Nat \ {0}
  /\ MaxBytes \in Nat /\ MaxReads \in Nat /\ MaxPrints \in Nat

\* The callers pass an argument of its kind for every directive.
ASSUME MessagesAssumption ==
  \A m \in Messages :
    /\ m.fmt \in Seq(STRING)
    /\ \A i \in 1 .. Len(m.fmt) :
         ~ Unknown(m.fmt[i]) => IsArgument(m.fmt[i], ValueOf(m, i))

VARIABLES
  driver,         \* the driver compiled in; never changes
  pc,             \* "idle", or the function that runs
  rx, arrived,    \* the receive FIFO; bytes that have arrived
  lost,           \* bytes that found the FIFO full
  got,            \* what the calls have returned
  t,              \* t of uart_recv_byte_timeout(), in UART_DELAYs
  late,           \* bytes that came since it looked last
  msg, at, arg,   \* printf(): its call, p and arg
  todo,           \* characters of the item at p still to be sent
  tx, line,       \* the transmit FIFO; what has left on the line
  due, prints     \* the text of all calls so far, and their number

rxVars == <<rx, arrived, lost, got>>
txVars == <<msg, at, arg, todo, tx, line, due, prints>>
vars   == <<driver, pc, rxVars, t, late, txVars>>

Nothing == 0      \* what a register holds when no byte is there

NoMessage == [fmt |-> <<>>, args |-> <<>>]

Init ==
  /\ driver \in Drivers
  /\ pc = "idle"
  /\ rx = <<>> /\ arrived = 0 /\ lost = {} /\ got = <<>>
  /\ t = 0 /\ late = 0
  /\ msg = NoMessage /\ at = 1 /\ arg = 1 /\ todo = <<>>
  /\ tx = <<>> /\ line = <<>> /\ due = <<>> /\ prints = 0

-----------------------------------------------------------------------------
(* Receiving *)

\* The receiver: a byte that finds the FIFO full is lost.
Arrive ==
  /\ arrived < MaxBytes
  /\ arrived' = arrived + 1
  /\ IF Len(rx) < driver.depth
       THEN rx' = Append(rx, arrived + 1) /\ late' = late + 1 /\ UNCHANGED lost
       ELSE lost' = lost \cup {arrived + 1} /\ UNCHANGED <<rx, late>>
  /\ UNCHANGED <<driver, pc, got, t, txVars>>

\* Mutant of Count: a field too narrow by one value, everywhere.
CountWraps == Len(rx) % Depth

\* uart_rxbuf_count().  The bit field of the S3C chips shows a full FIFO as 0
\* and has the bit "full" beside it, which the code does not look at.
Count ==
  CASE driver.count = "flag"  -> IF rx = <<>> THEN 0 ELSE 1
    [] driver.count = "field" -> Len(rx) % Depth
    [] driver.count = "empty" -> IF rx = <<>> THEN 16 ELSE 0
    [] driver.count = "none"  -> 0

\* Mutant of CanRead: no driver waits.
CanReadAtOnce == TRUE

\* uart_recv_byte() waits, if at all, on what uart_rxbuf_count() tells.
CanRead == driver.waits => Count > 0

Take ==
  /\ got' = Append(got, IF rx = <<>> THEN Nothing ELSE Head(rx))
  /\ rx' = IF rx = <<>> THEN rx ELSE Tail(rx)
  /\ pc' = "idle"

CallRecv ==
  /\ pc = "idle" /\ Len(got) < MaxReads
  /\ pc' = "recv"
  /\ UNCHANGED <<driver, rxVars, t, late, txVars>>

\* One turn of the loop in uart_recv_byte().
Recv ==
  /\ pc = "recv"
  /\ IF CanRead THEN Take ELSE UNCHANGED <<pc, rx, got>>
  /\ UNCHANGED <<driver, arrived, lost, t, late, txVars>>

CallRecvTimeout ==
  /\ pc = "idle" /\ Len(got) < MaxReads
  /\ pc' = "look" /\ t' = 0
  /\ UNCHANGED <<driver, rxVars, late, txVars>>

\* Mutant of TimeLeft: t <= timeout.
TimeLeftOrNone == t <= Timeout

TimeLeft == t < Timeout

\* One look of uart_recv_byte_timeout(), which then calls uart_recv_byte().
Look ==
  /\ pc = "look"
  /\ \/ /\ TimeLeft /\ Count > 0
        /\ pc' = "recv" /\ UNCHANGED late
     \/ /\ TimeLeft /\ ~ Count > 0
        /\ pc' = "delay" /\ late' = 0
     \/ /\ ~ TimeLeft
        /\ pc' = "timeout" /\ UNCHANGED late
  /\ UNCHANGED <<driver, rxVars, t, txVars>>

\* Mutant of NextTime: t is not advanced.
NextTimeSame == t

NextTime == t + 1

\* udelay(UART_DELAY)
Delay ==
  /\ pc = "delay"
  /\ pc' = "look" /\ t' = NextTime
  /\ UNCHANGED <<driver, rxVars, late, txVars>>

\* The caller takes -ETIMEDOUT.
TimedOut ==
  /\ pc = "timeout"
  /\ pc' = "idle"
  /\ UNCHANGED <<driver, rxVars, t, late, txVars>>

-----------------------------------------------------------------------------
(* Printing *)

CallPrintf(m) ==
  /\ pc = "idle" /\ prints < MaxPrints
  /\ pc' = "print" /\ msg' = m /\ at' = 1 /\ arg' = 1
  /\ due' = due \o Text(m) /\ prints' = prints + 1
  /\ UNCHANGED <<driver, rxVars, t, late, todo, tx, line>>

NextArg(item) == IF item \in Directives THEN arg + 1 ELSE arg

\* One turn of the loop in printf(); an unknown directive returns -1, the end
\* of the format its length.
Format ==
  /\ pc = "print" /\ todo = <<>>
  /\ IF at > Len(msg.fmt) \/ Unknown(msg.fmt[at])
       THEN pc' = "idle" /\ UNCHANGED <<at, arg, todo>>
       ELSE LET item == msg.fmt[at]
                val  == IF item \in Directives THEN msg.args[arg] ELSE item
            IN  /\ todo' = Expand(item, val)
                /\ at' = at + 1 /\ arg' = NextArg(item)
                /\ UNCHANGED pc
  /\ UNCHANGED <<driver, rxVars, t, late, msg, tx, line, due, prints>>

\* Mutant of CanSend: sending never waits.
CanSendAtOnce == TRUE

\* uart_send_byte() waits for room, if it looks.
CanSend == driver.txWaits => Len(tx) < driver.depth

\* A byte written to a full FIFO is gone.
SendByte ==
  /\ pc = "print" /\ todo # <<>>
  /\ IF CanSend
       THEN /\ todo' = Tail(todo)
            /\ tx' = IF Len(tx) < driver.depth THEN Append(tx, Head(todo)) ELSE tx
       ELSE UNCHANGED <<todo, tx>>
  /\ UNCHANGED <<driver, pc, rxVars, t, late, msg, at, arg, line, due, prints>>

\* The transmitter.
Transmit ==
  /\ tx # <<>>
  /\ line' = Append(line, Head(tx)) /\ tx' = Tail(tx)
  /\ UNCHANGED <<driver, pc, rxVars, t, late, msg, at, arg, todo, due, prints>>

-----------------------------------------------------------------------------
(* Specifications *)

CallReturns == Recv \/ Look \/ Delay \/ TimedOut \/ Format \/ SendByte

Next ==
  \/ CallRecv \/ CallRecvTimeout \/ \E m \in Messages : CallPrintf(m)
  \/ CallReturns
  \/ Arrive \/ Transmit
  \/ pc = "idle" /\ UNCHANGED vars        \* the program does other things

Spec == Init /\ [][Next]_vars

\* The processor runs, and the transmitter empties its FIFO.
FairSpec == Spec /\ WF_vars(CallReturns) /\ WF_vars(Transmit)

-----------------------------------------------------------------------------
(* Properties *)

Places == {"idle", "recv", "look", "delay", "timeout", "print"}

\* Every variable keeps its type; neither FIFO exceeds its depth, and a timed
\* read its time.
TypeOK ==
  /\ driver \in Drivers /\ pc \in Places
  /\ rx \in Seq(1 .. arrived) /\ Len(rx) <= driver.depth
  /\ arrived \in Nat /\ lost \subseteq 1 .. arrived
  /\ got \in Seq(Nat)
  /\ t \in 0 .. Timeout /\ late \in Nat
  /\ at \in Nat /\ arg \in Nat /\ prints \in 0 .. MaxPrints
  /\ Len(tx) <= driver.depth

Ascending(s) == \A i, j \in 1 .. Len(s) : i < j => s[i] < s[j]

\* With every driver that waits for a byte, those that arrive are read in
\* their order, each once, none made up, and none is missing but those that
\* found the FIFO full.
ReadsInOrder ==
  driver.waits =>
    /\ Ascending(got \o rx)
    /\ \A k \in 1 .. arrived :
         (k \notin lost) <=> (\E i \in 1 .. Len(got \o rx) : (got \o rx)[i] = k)
    /\ \A i \in 1 .. Len(got) : got[i] # Nothing

\* A full FIFO whose count reads 0: the S3C drivers take it for an empty one.
Wedged == driver.count = "field" /\ Len(rx) = driver.depth

\* uart_recv_byte_timeout() reports -ETIMEDOUT only if nothing was there when
\* it looked last; what waits then came during the last delay.  A wedged FIFO
\* and a driver without a receiver or with its sense turned are excepted.
TimeoutIsHonest ==
  pc = "timeout" /\ driver.count \in {"flag", "field"} => Len(rx) = late \/ Wedged

\* All that printf() has to print leaves on the line, in order, numbers as
\* their digits and line ends with their carriage return, however slow the
\* line is; for drivers that look at the transmit FIFO.
PrintsWhole ==
  driver.txWaits =>
    LET u == line \o tx IN
      /\ IsPrefix(WithoutReturns(u \o todo), due)
      /\ pc # "print" => WithoutReturns(u) = due /\ HasReturns(u)

\* Every call returns, with the exception of a read that waits for a byte
\* that does not come, or behind a wedged FIFO.
CallsReturn ==
  (pc # "idle") ~> (pc = "idle" \/ (pc = "recv" /\ (rx = <<>> \/ Wedged)))
=============================================================================
