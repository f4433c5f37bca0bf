-------------------------------- MODULE Boot --------------------------------
(***************************************************************************)
(* From reset to the operating system: system_init(), main() and load_os() *)
(* of core/init.c with the reset code of arch/arm/head.S around them, and  *)
(* the bytes that arrive on the serial line: keys the user types, and what *)
(* a host sends to a serial loader; the board cannot tell them apart.      *)
(*                                                                         *)
(* A loader is one step that may fail and one that may succeed; while it   *)
(* runs it may read from the serial line what it likes.  What it leaves at *)
(* CONFIG_OS_RAM_ADDR, the address of all loaders, load_os() does not look *)
(* at, and neither does this module.                                       *)
(***************************************************************************)
EXTENDS Integers, Sequences

CONSTANTS
  Boards,         \* the configurations, see BoardsAssumption
  NoKey,          \* stands for a CONFIG_DEFAULT_LOADER that is not defined
  PollMax,        \* iterations of main()'s loop with a default loader (0x100)
  FifoCap         \* bytes the receive FIFO holds

\* Function values of an init call, by their upper 12 bits: addresses of
\* megabytes.  As an int they are negative if the top bit is set.
Words == 0 .. 4095

Levels == 0 .. 5

ASSUME BoardsAssumption ==
  \A b \in Boards :
    /\ b.calls \subseteq [level : Levels, word : Words]
    /\ b.loaders \subseteq {"n", "k", "y"}
    /\ b.default \in {"n", "k", "y", NoKey}
    /\ b.menu \in BOOLEAN /\ b.pl011 \in BOOLEAN

ASSUME BoundsAssumption ==
  PollMax \in Nat /\ FifoCap \in Nat \ {0}

VARIABLES
  board,          \* the configuration; never changes
  pc,             \* "init", "poll", "find", "load", "menu", "os" or "hang"
  done,           \* the init calls that have returned
  polls,          \* iterations of main()'s loop
  key,            \* the variable of main(), or the default loader's key
  caller,         \* who called load_os(): "poll", "menu" or "default"
  rx,             \* the receive FIFO
  touched         \* a byte has touched

ctlVars == <<pc, done, polls, key, caller>>
vars    == <<board, ctlVars, rx, touched>>

\* The bytes that are told apart; "?" is any that no case handles.
Bytes == {"n", "N", "k", "K", "y", "Y", "q", "Q", "?"}
Keys  == Bytes \cup {NoKey}

\* A key with the case ignored.
Lower(k) == CASE k = "N" -> "n" [] k = "K" -> "k" [] k = "Y" -> "y"
              [] k = "Q" -> "q" [] OTHER -> k

ASSUME NoKeyAssumption == NoKey \notin Bytes

Negative(word) == word >= 2048

Init ==
  /\ board \in Boards
  /\ pc = "init" /\ done = {}
  /\ polls = 0 /\ key = NoKey /\ caller = "poll"
  /\ rx = <<>> /\ touched = FALSE

-----------------------------------------------------------------------------
(* system_init() and the reset code *)

\* The linker script puts the calls in the order of their levels.
NextCall(c) ==
  /\ c \in board.calls \ done
  /\ \A d \in board.calls \ done : c.level <= d.level

\* ret < 0 ends it, and a result other than 0 takes the reset code to hang.
InitCall ==
  /\ pc = "init"
  /\ \E c \in board.calls :
       /\ NextCall(c)
       /\ done' = done \cup {c}
       /\ pc' = IF Negative(c.word) THEN "hang" ELSE pc
  /\ UNCHANGED <<board, polls, key, caller, rx, touched>>

InitReturn ==
  /\ pc = "init"
  /\ done = board.calls
  /\ pc' = "poll"
  /\ UNCHANGED <<board, done, polls, key, caller, rx, touched>>

-----------------------------------------------------------------------------
(* main() *)

HasDefault == board.default # NoKey

\* Mutant of Polling: i <= 0x100.
PollingOnceMore == pc = "poll" /\ (HasDefault => polls <= PollMax)

\* The loop is endless if there is no default loader.
Polling == pc = "poll" /\ (HasDefault => polls < PollMax)

\* Mutant of NextPoll: the loop is endless in any build.
NextPollForEver == UNCHANGED polls

NextPoll == polls' = IF HasDefault THEN polls + 1 ELSE polls

\* uart_rxbuf_count() > 0 and uart_recv_byte().  The pl011 driver counts when
\* the FIFO is empty, and does not wait for a byte: what it reads then is
\* not defined.
RxCount == IF board.pl011 THEN rx = <<>> ELSE rx # <<>>

RecvByte(b) ==
  IF rx # <<>> THEN b = Head(rx) /\ rx' = Tail(rx)
               ELSE board.pl011 /\ b \in Bytes /\ UNCHANGED rx

LoadOs(k, from) == pc' = "find" /\ key' = k /\ caller' = from

PollKey ==
  /\ Polling /\ RxCount
  /\ \E b \in Bytes :
       RecvByte(b) /\ LoadOs(b, IF board.menu THEN "menu" ELSE "poll")
  /\ UNCHANGED <<board, done, polls, touched>>

PollNone ==
  /\ Polling /\ ~ RxCount
  /\ NextPoll
  /\ UNCHANGED <<board, pc, done, key, caller, rx, touched>>

\* Behind the loop: the default loader, and return 'm' if there is none.
Default ==
  IF HasDefault THEN LoadOs(board.default, "default")
                ELSE pc' = "hang" /\ UNCHANGED <<key, caller>>

PollEnd ==
  /\ pc = "poll" /\ ~ Polling
  /\ Default
  /\ UNCHANGED <<board, done, polls, rx, touched>>

\* while (key == (nkey = uart_recv_byte())); then 'q' leaves the menu.
MenuKey ==
  /\ pc = "menu"
  /\ \E nkey \in Bytes :
       /\ RecvByte(nkey)
       /\ \/ nkey = key /\ UNCHANGED <<pc, key, caller>>
          \/ nkey # key /\ nkey = "q" /\ Default
          \/ nkey # key /\ nkey # "q" /\ LoadOs(nkey, "menu")
  /\ UNCHANGED <<board, done, polls, touched>>

-----------------------------------------------------------------------------
(* load_os() *)

\* Mutants of LoadOsReturn: there is no loop around the menu; the countdown
\* starts again after a key.
LoadOsReturnNoMenu ==
  /\ pc' = IF caller = "default" THEN "hang" ELSE "poll"
  /\ IF caller = "poll" THEN NextPoll ELSE UNCHANGED polls

LoadOsReturnRestart ==
  /\ pc' = CASE caller = "menu" -> "menu" [] caller = "poll" -> "poll"
             [] caller = "default" -> "hang"
  /\ polls' = IF caller = "poll" THEN 0 ELSE polls

\* load_os() returns; its result is not looked at.
LoadOsReturn ==
  /\ pc' = CASE caller = "menu" -> "menu" [] caller = "poll" -> "poll"
             [] caller = "default" -> "hang"
  /\ IF caller = "poll" THEN NextPoll ELSE UNCHANGED polls

FindLoader ==
  /\ pc = "find"
  /\ IF Lower(key) \in board.loaders THEN pc' = "load" /\ UNCHANGED polls
                                     ELSE LoadOsReturn
  /\ UNCHANGED <<board, done, key, caller, rx, touched>>

\* A serial loader takes bytes off the line, and may wait for its host for ever;
\* the NAND loader does neither.
SerialLoading == pc = "load" /\ Lower(key) # "n"

LoaderReads ==
  /\ SerialLoading
  /\ rx # <<>>
  /\ rx' = Tail(rx)
  /\ UNCHANGED <<board, ctlVars, touched>>

LoaderFails ==
  /\ pc = "load"
  /\ LoadOsReturn
  /\ UNCHANGED <<board, done, key, caller, rx, touched>>

\* ret >= 0 and boot(loader).  Whether the image is whole, or was written at all,
\* is not asked.
LoaderSucceeds ==
  /\ pc = "load"
  /\ pc' = "os"
  /\ UNCHANGED <<board, done, polls, key, caller, rx, touched>>

\* What was booted returns to boot(); no other loader has the same key.
OsReturns ==
  /\ pc = "os"
  /\ LoadOsReturn
  /\ UNCHANGED <<board, done, key, caller, rx, touched>>

-----------------------------------------------------------------------------
(* The serial line *)

\* A byte arrives, and is lost if the FIFO is full.
Receive ==
  /\ pc # "os"
  /\ touched' = TRUE
  /\ \E b \in Bytes :
       rx' = IF Len(rx) < FifoCap THEN Append(rx, b) ELSE rx
  /\ UNCHANGED <<board, ctlVars>>

-----------------------------------------------------------------------------
BoardStep ==
  \/ InitCall \/ InitReturn
  \/ PollKey \/ PollNone \/ PollEnd \/ MenuKey
  \/ FindLoader \/ LoaderReads \/ LoaderFails \/ LoaderSucceeds

\* hang loops for ever; the menu waits for a key.
Stopped == (pc = "hang" \/ (pc = "menu" /\ rx = <<>>)) /\ UNCHANGED vars

Next == BoardStep \/ OsReturns \/ Receive \/ Stopped

Spec == Init /\ [][Next]_vars

\* The processor runs, and the NAND loader comes to an end.
FairSpec == Spec /\ WF_vars(BoardStep /\ ~ SerialLoading)

-----------------------------------------------------------------------------
(* Properties *)

\* Every variable keeps its type.
TypeOK ==
  /\ board \in Boards
  /\ pc \in {"init", "poll", "find", "load", "menu", "os", "hang"}
  /\ done \subseteq board.calls
  /\ polls \in 0 .. PollMax
  /\ key \in Keys /\ caller \in {"poll", "menu", "default"}
  /\ rx \in Seq(Bytes) /\ Len(rx) <= FifoCap
  /\ touched \in BOOLEAN

\* A board that has a menu and was stopped by a key starts the default loader
\* only when it reads 'q', however often loading fails or the OS returns.
MenuHoldsAutoboot ==
  [][caller = "menu" /\ caller' # "menu"
     => pc = "menu" /\ (rx # <<>> => Head(rx) = "q")]_vars

\* Left alone, a board with a default loader comes to run it, if its init
\* calls all succeed.
AutoBoot ==
  HasDefault /\ [] ~ touched => <>(caller = "default" \/ pc = "hang")

\* On a board without a menu the countdown goes on behind each key: its default
\* loader comes to run whatever is typed, and however often, unless the loader of
\* a key waits for its host for ever or what it boots does not return.
KeysDoNotStopAutoboot ==
  HasDefault /\ ~ board.menu /\ []<> ~ (SerialLoading \/ pc = "os")
    => <>(caller = "default" \/ pc = "hang")

\* No supported board stops before main(): an init call that has done its
\* work is not taken for one that failed.
InitIsNotAFailure == pc = "hang" => caller = "default" \/ ~ HasDefault
=============================================================================
