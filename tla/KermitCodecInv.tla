---------------------------- MODULE KermitCodecInv ----------------------------
(***************************************************************************)
(* The inductive invariant of KermitCodec.  Places in a frame are counted  *)
(* as in the buffer, from the byte behind the start mark.                  *)
(***************************************************************************)
EXTENDS KermitCodec

Size   == Len(data)
Noisy  == Len(noise)
Count  == Len(payload)
Filled == Len(buff)
Held   == Len(stored)

\* The bytes behind the mark as they were sent, and as they come.
Plain(i) == Sent[i + 1]

Hit   == flip[1] - 1
Delta == FlipBit(Plain(Hit), flip[2]) - Plain(Hit)

Came(i) == IF i = Hit THEN FlipBit(Plain(i), flip[2]) ELSE Plain(i)

\* The sum of the first i bytes, as the host had it; i is 3 at least.
SumTo(i) == (Size + 35) + (32 + seq0) + type0 + sums[i - 2]

\* The sum of those bytes as they come.
SumCame(i) == SumTo(i) + (IF Hit \in 1 .. i THEN Delta ELSE 0)

-----------------------------------------------------------------------------

\* payload[k] stands coded at first[k], and payload[k + 1] follows it.
Coded(k) ==
  LET q == Quote(payload[k])
  IN  /\ first[k] >= 1
      /\ first[k + 1] = first[k] + Len(q)
      /\ first[k + 1] <= Size + 1
      /\ \A i \in 1 .. Len(q) : data[first[k] + i - 1] = q[i]

CodingInv ==
  /\ type0 \in Types /\ seq0 \in SeqNums
  /\ payload \in Seq(Byte) /\ data \in Seq(Byte \ {MARK_START, KERM_KEY_TERM})
  /\ Size + 3 <= MAX_LEN
  /\ sums \in Seq(Nat) /\ Len(sums) = Size + 1 /\ sums[1] = 0
  /\ \A i \in 1 .. Size : sums[i + 1] = sums[i] + data[i]
  /\ first \in Seq(Nat) /\ Len(first) = Count + 1
  /\ first[1] = 1 /\ first[Count + 1] = Size + 1
  /\ \A k \in 1 .. Count : Coded(k)

\* What the line may have done.
SentOn ==
  /\ flip \in {NoFlip} \cup ((1 .. Size + 6) \X Weights)
  /\ noise \in Noises
  /\ wire = noise \o Garbled(Sent, flip) \o Behind

Reading == {"head", "data", "check", "term"}

LineInv ==
  /\ pc \in {"host", "mark", "fill"} \cup Reading \cup Ends
  /\ at \in Nat
  /\ pc # "host" => SentOn
  /\ pc \in {"host", "mark", "fill", "head"} => index = 1 /\ stored = <<>>
  /\ pc = "host" => at = 0
  /\ pc = "mark" =>
       at <= Noisy \/ (Hit = 0 /\ at <= Noisy + Size + 6)
  /\ pc = "fill" =>
       at = IF Hit = 0 THEN Noisy + Size + 7 ELSE Noisy + 1

\* What is in the buffer: the frame; its beginning, when a flip has made a
\* carriage return; or the frame and the next one, when it has lost its own.
BuffInv ==
  pc \in Reading =>
    /\ Filled \in Nat \ {0} /\ buff[Filled] = KERM_KEY_TERM
    /\ \A i \in 1 .. Filled - 1 : buff[i] # KERM_KEY_TERM
    /\ Hit = 0 => Filled >= 3 /\ buff[2] = KERM_KEY_SPACE + NextSeq
    /\ Hit # 0 =>
         /\ \A i \in 1 .. Filled : i <= Size + 5 => buff[i] = Came(i)
         /\ \/ Filled = Size + 5 /\ Hit # Size + 5
            \/ Filled = Hit /\ Hit \in 1 .. Size + 4
            \/ Filled = Size + 11 /\ Hit = Size + 5

\* Where the check character is looked for, once the data has been read.
Place == IF pc = "term" THEN index - 1 ELSE index

\* The place and the length left add up, and the checksum is that of the host
\* but for a bit that was flipped before.
DecodeInv ==
  pc \in {"data", "check", "term"} =>
    /\ Hit # 0 /\ Hit # 2 /\ Filled >= 3
    /\ type = Came(3)
    /\ index \in Nat /\ Place >= 4 /\ index <= Filled + 1
    /\ len \in Int
    /\ Place + len = IF Came(1) = KERM_KEY_SPACE THEN 4 ELSE Came(1) - 30
    /\ Hit # 1 => len >= 0
    /\ pc # "data" => len <= 1
    /\ Place <= Size + 4 => checksum \in Nat /\ checksum = SumCame(Place - 1)
    /\ pc = "term" => buff[index - 1] = Check(checksum)

\* Without a flip, the board stands before the coding of the next byte.
CleanInv ==
  flip = NoFlip /\ pc \in {"data", "check", "term"} =>
    IF type0 = KERM_TYPE_DATA
      THEN /\ stored \in Seq(Byte) /\ Held <= Count
           /\ \A i \in 1 .. Held : stored[i] = payload[i]
           /\ Place = 3 + first[Held + 1]
      ELSE stored = <<>> /\ Place <= Size + 4

IInv == CodingInv /\ LineInv /\ BuffInv /\ DecodeInv /\ CleanInv /\ FrameIsRead /\ FlipIsSeen
=============================================================================
