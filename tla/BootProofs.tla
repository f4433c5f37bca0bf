----------------------------- MODULE BootProofs -----------------------------
(***************************************************************************)
(* Proofs about Boot, for every set of boards and every number of polls.   *)
(***************************************************************************)
EXTENDS Boot, TLAPS

\* What the safety properties rest on besides the types: a call of load_os()
\* from the loop leaves an iteration to count, and main() does not go back from
\* the menu to the loop.
BootInv ==
  /\ caller = "poll" /\ pc \in {"find", "load", "os"} /\ HasDefault => polls < PollMax
  /\ caller = "menu" => pc \in {"find", "load", "os", "menu", "hang"}
  /\ pc \in {"init", "poll"} => caller = "poll"

Inv == TypeOK /\ BootInv

-----------------------------------------------------------------------------
(* Types *)

LEMMA BoundTypes == PollMax \in Nat /\ FifoCap \in Nat \ {0}
BY BoundsAssumption

LEMMA InvInit == Init => Inv
<1> SUFFICES ASSUME Init PROVE Inv
  OBVIOUS
<1>1. TypeOK
  <2>1. rx \in Seq(Bytes) /\ Len(rx) <= FifoCap
    BY BoundTypes DEF Init
  <2>2. polls \in 0 .. PollMax /\ key \in Keys
    BY BoundTypes DEF Init, Keys
  <2> QED  BY <2>1, <2>2 DEF Init, TypeOK
<1>2. BootInv
  BY DEF Init, BootInv
<1> QED  BY <1>1, <1>2 DEF Inv

\* What is read from the line is a byte, and the FIFO keeps its bound.
LEMMA RecvByteType ==
  ASSUME TypeOK, NEW b \in Bytes, RecvByte(b)
  PROVE  rx' \in Seq(Bytes) /\ Len(rx') <= FifoCap
BY BoundTypes DEF RecvByte, TypeOK

\* The default loader's key is a key.
LEMMA DefaultKey == TypeOK /\ HasDefault => board.default \in Keys
BY BoardsAssumption DEF TypeOK, Keys, Bytes

LEMMA ReturnType ==
  ASSUME TypeOK, BootInv, LoadOsReturn, pc \in {"find", "load", "os"}
  PROVE  pc' \in {"menu", "poll", "hang"} /\ polls' \in 0 .. PollMax
<1>1. pc' \in {"menu", "poll", "hang"}
  BY DEF LoadOsReturn, TypeOK
<1>2. polls' \in 0 .. PollMax
  BY BoundTypes DEF LoadOsReturn, NextPoll, TypeOK, BootInv
<1> QED  BY <1>1, <1>2

LEMMA TypeStep == TypeOK /\ BootInv /\ [Next]_vars => TypeOK'
<1> SUFFICES ASSUME TypeOK, BootInv, [Next]_vars PROVE TypeOK'
  OBVIOUS
<1> USE BoundTypes DEF ctlVars
<1>1. CASE InitCall
  BY <1>1 DEF InitCall, NextCall, TypeOK
<1>2. CASE InitReturn
  BY <1>2 DEF InitReturn, TypeOK
<1>3. CASE PollKey
  <2>1. PICK b \in Bytes :
          RecvByte(b) /\ LoadOs(b, IF board.menu THEN "menu" ELSE "poll")
    BY <1>3 DEF PollKey
  <2>2. rx' \in Seq(Bytes) /\ Len(rx') <= FifoCap
    BY <2>1, RecvByteType
  <2>3. pc' = "find" /\ key' \in Keys /\ caller' \in {"poll", "menu"}
    BY <2>1 DEF LoadOs, Keys
  <2> QED  BY <1>3, <2>2, <2>3 DEF PollKey, TypeOK
<1>4. CASE PollNone
  BY <1>4 DEF PollNone, Polling, NextPoll, TypeOK
<1>5. CASE PollEnd
  BY <1>5, DefaultKey DEF PollEnd, Default, LoadOs, TypeOK
<1>6. CASE MenuKey
  <2>1. PICK nkey \in Bytes :
          /\ RecvByte(nkey)
          /\ \/ nkey = key /\ UNCHANGED <<pc, key, caller>>
             \/ nkey # key /\ nkey = "q" /\ Default
             \/ nkey # key /\ nkey # "q" /\ LoadOs(nkey, "menu")
    BY <1>6 DEF MenuKey
  <2>2. rx' \in Seq(Bytes) /\ Len(rx') <= FifoCap
    BY <2>1, RecvByteType
  <2>3. /\ pc' \in {"menu", "find", "hang"} /\ key' \in Keys
        /\ caller' \in {"poll", "menu", "default"}
    BY <1>6, <2>1, DefaultKey DEF MenuKey, Default, LoadOs, Keys, TypeOK
  <2> QED  BY <1>6, <2>2, <2>3 DEF MenuKey, TypeOK
<1>7. CASE FindLoader
  <2>1. CASE Lower(key) \in board.loaders
    BY <1>7, <2>1 DEF FindLoader, TypeOK
  <2>2. CASE Lower(key) \notin board.loaders
    BY <1>7, <2>2, ReturnType DEF FindLoader, TypeOK
  <2> QED  BY <2>1, <2>2
<1>8. CASE LoaderReads
  BY <1>8 DEF LoaderReads, TypeOK
<1>9. CASE LoaderFails
  BY <1>9, ReturnType DEF LoaderFails, TypeOK
<1>10. CASE LoaderSucceeds
  BY <1>10 DEF LoaderSucceeds, TypeOK
<1>11. CASE OsReturns
  BY <1>11, ReturnType DEF OsReturns, TypeOK
<1>12. CASE Receive
  BY <1>12 DEF Receive, TypeOK
<1>13. CASE UNCHANGED vars
  BY <1>13 DEF vars, TypeOK
<1> QED  BY <1>1, <1>2, <1>3, <1>4, <1>5, <1>6, <1>7, <1>8, <1>9, <1>10, <1>11,
            <1>12, <1>13 DEF Next, BoardStep, Stopped

-----------------------------------------------------------------------------
(* Safety *)

LEMMA BootInvStep == TypeOK /\ BootInv /\ [Next]_vars => BootInv'
<1> SUFFICES ASSUME TypeOK, BootInv, [Next]_vars PROVE BootInv'
  OBVIOUS
<1> USE DEF ctlVars, HasDefault
<1>1. CASE InitCall \/ InitReturn
  BY <1>1 DEF InitCall, InitReturn, BootInv
<1>2. CASE PollKey
  <2>1. PICK b \in Bytes : LoadOs(b, IF board.menu THEN "menu" ELSE "poll")
    BY <1>2 DEF PollKey
  <2> QED  BY <1>2, <2>1 DEF PollKey, Polling, LoadOs, BootInv
<1>3. CASE PollNone
  BY <1>3 DEF PollNone, Polling, BootInv
<1>4. CASE PollEnd
  BY <1>4 DEF PollEnd, Polling, Default, LoadOs, BootInv
<1>5. CASE MenuKey
  <2>1. PICK nkey \in Bytes :
          \/ nkey = key /\ UNCHANGED <<pc, key, caller>>
          \/ nkey # key /\ nkey = "q" /\ Default
          \/ nkey # key /\ nkey # "q" /\ LoadOs(nkey, "menu")
    BY <1>5 DEF MenuKey
  <2> QED  BY <1>5, <2>1 DEF MenuKey, Default, LoadOs, BootInv
<1>6. CASE FindLoader
  BY <1>6 DEF FindLoader, LoadOsReturn, BootInv, TypeOK
<1>7. CASE LoaderReads
  BY <1>7 DEF LoaderReads, BootInv
<1>8. CASE LoaderFails
  BY <1>8 DEF LoaderFails, LoadOsReturn, BootInv, TypeOK
<1>9. CASE LoaderSucceeds
  BY <1>9 DEF LoaderSucceeds, BootInv, TypeOK
<1>10. CASE OsReturns
  BY <1>10 DEF OsReturns, LoadOsReturn, BootInv, TypeOK
<1>11. CASE Receive
  BY <1>11 DEF Receive, BootInv
<1>12. CASE UNCHANGED vars
  BY <1>12 DEF vars, BootInv
<1> QED  BY <1>1, <1>2, <1>3, <1>4, <1>5, <1>6, <1>7, <1>8, <1>9, <1>10, <1>11,
            <1>12 DEF Next, BoardStep, Stopped

LEMMA InvInduction == Spec => []Inv
<1>1. Inv /\ [Next]_vars => Inv'
  BY TypeStep, BootInvStep DEF Inv
<1> QED  BY <1>1, InvInit, PTL DEF Spec

\* Every variable of the boot sequence keeps its type; the polls of main() are
\* never counted beyond their limit.
THEOREM TypeCorrect == Spec => []TypeOK
BY InvInduction, PTL DEF Inv

\* The step that MenuHoldsAutoboot allows.
Holds ==
  caller = "menu" /\ caller' # "menu" => pc = "menu" /\ (rx # <<>> => Head(rx) = "q")

\* Once a key has stopped autoboot on a board with a menu, only 'q' starts it.
THEOREM MenuCorrect == Spec => MenuHoldsAutoboot
<1>1. Inv /\ [Next]_vars => [Holds]_vars
  <2> SUFFICES ASSUME BootInv, [Next]_vars, caller = "menu", caller' # "menu"
               PROVE  pc = "menu" /\ (rx # <<>> => Head(rx) = "q")
    BY DEF Inv, Holds
  <2>1. CASE MenuKey
    <3>1. PICK nkey \in Bytes :
            /\ RecvByte(nkey)
            /\ \/ nkey = key /\ UNCHANGED <<pc, key, caller>>
               \/ nkey # key /\ nkey = "q" /\ Default
               \/ nkey # key /\ nkey # "q" /\ LoadOs(nkey, "menu")
      BY <2>1 DEF MenuKey
    <3>2. nkey = "q"
      BY <3>1 DEF LoadOs
    <3> QED  BY <2>1, <3>1, <3>2 DEF MenuKey, RecvByte
  <2> QED  BY <2>1 DEF BootInv, Next, BoardStep, InitCall, InitReturn, PollKey, PollNone,
                       PollEnd, Polling, FindLoader, LoaderReads, LoaderFails,
                       LoaderSucceeds, OsReturns, Receive, Stopped, vars, ctlVars
<1>2. Spec => [][Holds]_vars
  BY <1>1, InvInduction, PTL DEF Spec
<1> QED  BY <1>2 DEF MenuHoldsAutoboot, Holds
=============================================================================
