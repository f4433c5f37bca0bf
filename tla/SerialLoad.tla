----------------------------- MODULE SerialLoad -----------------------------
(***************************************************************************)
(* What a serial loader of g-bios promises load_os() (core/init.c): the    *)
(* file the host sends is copied to load_addr piece by piece, in order,    *)
(* nothing is ever taken back, and a successful return means that all of   *)
(* it is there.  A loader may give up at any time before that.             *)
(*                                                                         *)
(* Kermit and Ymodem are shown to implement this specification.            *)
(***************************************************************************)
EXTENDS Naturals, Sequences

CONSTANT File     \* what the host sends, as a sequence of data packets

VARIABLES
  image,          \* the packets found at load_addr .. load_addr + load_size
  status          \* "running", "loaded" (ret >= 0) or "fault" (ret < 0)

loadVars == <<image, status>>

Init ==
  /\ image = <<>>
  /\ status = "running"

\* The next packet of the file is stored behind the ones already there.
Store ==
  /\ status = "running"
  /\ Len(image) < Len(File)
  /\ image' = Append(image, File[Len(image) + 1])
  /\ UNCHANGED status

\* The loader reports success: only with the whole file in memory.
Finish ==
  /\ status = "running"
  /\ image = File
  /\ status' = "loaded"
  /\ UNCHANGED image

\* The loader reports an error; load_os() then boots nothing.
GiveUp ==
  /\ status = "running"
  /\ status' = "fault"
  /\ UNCHANGED image

Next == Store \/ Finish \/ GiveUp

Spec == Init /\ [][Next]_loadVars
=============================================================================
