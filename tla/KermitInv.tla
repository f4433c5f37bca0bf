----------------------------- MODULE KermitInv ------------------------------
(***************************************************************************)
(* The inductive invariants of Kermit: StepInv on a line that loses whole  *)
(* frames and replies (LossySpec), DamageInv on one that damages frames as *)
(* well (Spec).  They say how far board and host can be apart and what can *)
(* be on the line between them; KermitProofs proves them.                  *)
(***************************************************************************)
EXTENDS Kermit

\* The number of packets the board has accepted: it is at most one ahead of
\* the host, which has not read the answer yet.
Got == IF real_seq = hseq THEN hpkt ELSE hpkt + 1

\* The number of data packets among the first g packets.
Stored(g) ==
  IF g <= FirstData THEN 0 ELSE IF g <= NData + 2 THEN g - FirstData ELSE NData

PrevSeq(s) == IF s = 0 THEN SeqMod - 1 ELSE s - 1

\* What the host sends now, and what it sent before the last answer.
IsCurrent(f) == hpkt <= LastPkt /\ f = Frame(hpkt, hseq)
IsOld(f)     == hpkt > 0 /\ f = Frame(hpkt - 1, PrevSeq(hseq))

\* The sequence number a reply asks for.
Wants(r) == IF r.type = "Y" THEN NextSeq(r.seq) ELSE r.seq

\* The board expects the host's packet or the one after it.
InStep ==
  /\ real_seq \in {hseq, NextSeq(hseq)}
  /\ hpkt = LastPkt + 1 => real_seq = hseq

\* Frames arrive in order: old ones first, none once the board has moved on.
FramesInOrder ==
  /\ \A i \in 1 .. Len(toBoard) : IsCurrent(toBoard[i]) \/ IsOld(toBoard[i])
  /\ \A i, j \in 1 .. Len(toBoard) :
       i < j /\ IsCurrent(toBoard[i]) => IsCurrent(toBoard[j])
  /\ real_seq # hseq => \A i \in 1 .. Len(toBoard) : IsCurrent(toBoard[i])

\* So do replies: no reply asks for less than an earlier one.
RepliesInOrder ==
  /\ \A i \in 1 .. Len(toHost) : Wants(toHost[i]) \in {hseq, real_seq}
  /\ \A i, j \in 1 .. Len(toHost) :
       i < j /\ Wants(toHost[i]) # hseq => Wants(toHost[j]) # hseq

\* The image is what the accepted packets amount to.
ImageIsGot ==
  /\ load_size = Stored(Got) /\ curr_addr = load_size
  /\ \A a \in 0 .. load_size - 1 : mem[a] = FirstData + a

\* The loop ends with the break packet and no other.
EndsWithBreak ==
  /\ Got > 0 => type = TypeOf(Got - 1)
  /\ status = IF Got = LastPkt + 1 THEN "loaded" ELSE "running"

\* On a line that damages nothing, this is inductive with TypeOK.
StepInv ==
  InStep /\ FramesInOrder /\ RepliesInOrder /\ ImageIsGot /\ EndsWithBreak

-----------------------------------------------------------------------------
(* On a line that damages frames *)

\* Numbers tell packets apart as long as fewer frames are damaged than there
\* are numbers, less one: each of them can take the board one packet further
\* from the host.
FewFaults == MaxFaults + 1 < SeqMod

\* How many packets there are from number s on to the next one with number t.
Gap(s, t) == IF s <= t THEN t - s ELSE t - s + SeqMod

\* How far behind the number the board expects a number is.
Late(s) == Gap(s, real_seq)

\* The packet the board expects, counted as the host does.
BoardPkt == hpkt + Late(hseq)

Hurt(f) == ~ (f.sum /\ f.term)

\* The damaged frames that have left the line; only the first frame on the
\* line can be a damaged one.
Spent == faults - (IF toBoard # <<>> /\ Hurt(toBoard[1]) THEN 1 ELSE 0)

HostNear == Late(hseq) <= 1 + Spent

\* Frames behind a damaged one are what the host has sent, in its order, and
\* not too old to be told from the one the board expects.
FramesNear ==
  /\ \A i \in 2 .. Len(toBoard) : ~ Hurt(toBoard[i])
  /\ \A i \in 1 .. Len(toBoard) : ~ Hurt(toBoard[i]) =>
       \E p \in 0 .. hpkt :
         /\ p <= LastPkt /\ toBoard[i] = Frame(p, toBoard[i].seq)
         /\ p + Late(toBoard[i].seq) = BoardPkt
         /\ Late(toBoard[i].seq) <= 1 + Spent
  /\ \A i, j \in 1 .. Len(toBoard) :
       i < j /\ ~ Hurt(toBoard[i]) => Late(toBoard[i].seq) >= Late(toBoard[j].seq)

\* A reply asks for no packet before the host's, and for none before the one
\* an earlier reply asks for.
RepliesNear ==
  /\ \A i \in 1 .. Len(toHost) : Late(Wants(toHost[i])) <= Late(hseq)
  /\ \A i, j \in 1 .. Len(toHost) :
       i < j => Late(Wants(toHost[i])) >= Late(Wants(toHost[j]))

\* The image is made of data packets the board has gone past, in their order.
ImageAscends ==
  /\ curr_addr = load_size /\ load_size <= NData
  /\ \A a \in 0 .. load_size - 1 :
       FirstData + a <= mem[a] /\ mem[a] <= NData + 1 /\ mem[a] < BoardPkt
  /\ \A a, b \in 0 .. load_size - 1 : a < b => mem[a] < mem[b]

\* With few faults, this is inductive with TypeOK on any line.
DamageInv == HostNear /\ FramesNear /\ RepliesNear /\ ImageAscends
=============================================================================
