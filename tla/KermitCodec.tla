----------------------------- MODULE KermitCodec -----------------------------
(***************************************************************************)
(* One turn of kermit_load(), byte by byte: how a frame is read from the   *)
(* line into the buffer and decoded.  The host codes a payload as Kermit   *)
(* demands, and the line may flip one bit of the frame.  Module Kermit     *)
(* takes over what this one checks: the data comes out as it went in, and  *)
(* damage is seen.                                                         *)
(***************************************************************************)
EXTENDS Integers, Sequences, SequencesExt

CONSTANTS
  Bytes,          \* bytes of which files are made
  MaxPayload,     \* bound: bytes in a packet
  SeqNums,        \* sequence numbers looked at
  Types,          \* types of packets looked at
  Noises          \* what the board may read before a frame

Byte == 0 .. 255

MARK_START     == 1
KERM_KEY_SPACE == 32
KERM_KEY_SHARP == 35
KERM_KEY_TERM  == 13
KERM_TYPE_DATA == 68
KERM_TYPE_ACK  == 89
KERM_TYPE_NACK == 78

\* Types are printable; noise holds no start mark, or it would be a frame.
ASSUME ConstantsAssumption ==
  /\ Bytes \subseteq Byte /\ Types \subseteq 33 .. 126
  /\ SeqNums \subseteq 0 .. 63
  /\ MaxPayload \in Nat
  /\ Noises \subseteq Seq(Byte \ {MARK_START})

VARIABLES
  type0, seq0,                \* the packet the host sends, ...
  payload, data,              \* ... its bytes, and their coding
  first, sums,                \* history of the coding, see HostCode
  flip, noise,                \* the bit the line flips, and noise before the frame
  wire, at,                   \* bytes that arrive, and how many the board has read
  pc,                         \* where kermit_load() is
  buff, index,                \* the buffer, and the next byte of it
  len, type, checksum,
  stored,                     \* curr_addr[0 .. count - 1]
  answer                      \* bytes the board has sent

packet == <<type0, seq0, payload, data, first, sums, flip, noise, wire>>
vars   == <<packet, at, pc, buff, index, len, type, checksum, stored, answer>>

\* The check character of a sum.
Check(s) == KERM_KEY_SPACE + ((s + ((s \div 64) % 4)) % 64)

-----------------------------------------------------------------------------
(* The host and the line *)

\* Control characters are sent as '#' and the character without its bit 6 (or
\* with it), and '#' itself behind another one; bit 7 plays no part.
IsControl(c) == c % 128 < 32 \/ c % 128 = 127
Toggle(c)    == IF (c \div 64) % 2 = 1 THEN c - 64 ELSE c + 64

Quote(c) ==
  IF IsControl(c) THEN <<KERM_KEY_SHARP, Toggle(c)>>
  ELSE IF c % 128 = KERM_KEY_SHARP THEN <<KERM_KEY_SHARP, c>> ELSE <<c>>

HostCheck(s) == KERM_KEY_SPACE + ((s + ((s % 256) \div 64)) % 64)

\* What is sent for data whose bytes add up to sum.
Frame(d, sum, t, s) ==
  LET head == <<KERM_KEY_SPACE + Len(d) + 3, KERM_KEY_SPACE + s, t>>
  IN  <<MARK_START>> \o head \o d
        \o <<HostCheck(head[1] + head[2] + head[3] + sum), KERM_KEY_TERM>>

\* A length is one printable character: 94 at most.
MAX_LEN == 94

\* real_seq after it has been counted
NextSeq == (seq0 + 1) % 64

Sent == Frame(data, Last(sums), type0, seq0)

\* The next frame, in case this one has lost its end.
Behind == Frame(<<>>, 0, 90, NextSeq)

\* A flip is the place of a byte and the weight of the bit.
Weights == {1, 2, 4, 8, 16, 32, 64, 128}
NoFlip  == <<0, 0>>

FlipBit(c, w) == IF (c \div w) % 2 = 1 THEN c - w ELSE c + w

Garbled(f, p) == IF p = NoFlip THEN f ELSE [f EXCEPT ![p[1]] = FlipBit(@, p[2])]

Init ==
  /\ type0 \in Types /\ seq0 \in SeqNums
  /\ payload = <<>> /\ data = <<>> /\ first = <<1>> /\ sums = <<0>>
  /\ flip = NoFlip /\ noise = <<>> /\ wire = <<>> /\ at = 0
  /\ pc = "host" /\ buff = <<>> /\ index = 1
  /\ len = 0 /\ type = 0 /\ checksum = 0 /\ stored = <<>> /\ answer = <<>>

board == <<at, buff, index, len, type, checksum, stored, answer>>

\* One more byte is coded.  first[k] is where the coding of payload[k] begins
\* in data, and sums[k + 1] the sum of the first k bytes of data.
HostCode ==
  /\ pc = "host" /\ Len(payload) < MaxPayload
  /\ \E c \in Bytes :
       LET q == Quote(c)
           s == Last(sums) + q[1]
       IN  /\ Len(data) + Len(q) + 3 <= MAX_LEN
           /\ payload' = Append(payload, c)
           /\ data' = data \o q
           /\ first' = Append(first, Len(data) + Len(q) + 1)
           /\ sums' = sums \o (IF Len(q) = 1 THEN <<s>> ELSE <<s, s + q[2]>>)
  /\ UNCHANGED <<type0, seq0, flip, noise, wire, pc, board>>

HostSend ==
  /\ pc = "host" /\ pc' = "mark"
  /\ flip' \in {NoFlip} \cup ((1 .. Len(Sent)) \X Weights)
  /\ noise' \in Noises
  /\ wire' = noise' \o Garbled(Sent, flip') \o Behind
  /\ UNCHANGED <<type0, seq0, payload, data, first, sums, board>>

-----------------------------------------------------------------------------
(* kermit_load() *)

\* send_ack_packet()
AckPacket(s, t) ==
  <<MARK_START, KERM_KEY_SPACE + 3, KERM_KEY_SPACE + s, t,
    Check(KERM_KEY_SPACE + 3 + KERM_KEY_SPACE + s + t), KERM_KEY_TERM>>

\* while (MARK_START != uart_recv_byte())
Mark ==
  /\ pc = "mark" /\ at < Len(wire)
  /\ pc' = IF wire[at + 1] = MARK_START THEN "fill" ELSE "mark"
  /\ at' = at + 1
  /\ UNCHANGED <<packet, buff, index, len, type, checksum, stored, answer>>

\* The loop up to the carriage return; index is then reset.
Fill ==
  /\ pc = "fill"
  /\ \E n \in at + 1 .. Len(wire) :
       /\ wire[n] = KERM_KEY_TERM
       /\ \A j \in at + 1 .. n - 1 : wire[j] # KERM_KEY_TERM
       /\ buff' = SubSeq(wire, at + 1, n) /\ at' = n
  /\ pc' = "head" /\ index' = 1
  /\ UNCHANGED <<packet, len, type, checksum, stored, answer>>

\* A carriage return in the middle of a frame, or a length that is too large:
\* the decoder reads on behind what it received, what was in the buffer before
\* or never written, and that may be anything.
Ends == {"accepted", "refused", "fault"}

Received(n) == Len(buff) >= n

\* '#' stands before another character, in data packets.
IsQuoted ==
  type = KERM_TYPE_DATA /\ len > 1 /\ Received(index) /\ buff[index] = KERM_KEY_SHARP

RunOver ==
  \/ pc = "head" /\ ~ Received(3)
  \/ pc \in {"data", "check", "term"} /\ ~ Received(index)
  \/ pc = "data" /\ IsQuoted /\ ~ Received(index + 1)

Overrun ==
  /\ RunOver
  /\ index' = Len(buff) + 2
  /\ \/ pc' = "accepted" /\ answer' = AckPacket(seq0, KERM_TYPE_ACK)
     \/ pc' = "refused" /\ answer' \in {AckPacket(s, KERM_TYPE_NACK) : s \in {seq0, NextSeq}}
     \/ pc' = "fault" /\ UNCHANGED answer
  /\ UNCHANGED <<packet, at, buff, len, type, checksum, stored>>

\* Length, sequence and type.
Header ==
  /\ pc = "head" /\ ~ RunOver
  /\ IF buff[2] - KERM_KEY_SPACE # seq0
       THEN /\ pc' = "refused" /\ answer' = AckPacket(seq0, KERM_TYPE_NACK)
            /\ UNCHANGED <<index, len, type, checksum>>
       ELSE /\ pc' = "data" /\ index' = 4
            /\ len' = IF buff[1] = KERM_KEY_SPACE THEN 0 ELSE buff[1] - KERM_KEY_SPACE - 2
            /\ type' = buff[3] /\ checksum' = buff[1] + buff[2] + buff[3]
            /\ UNCHANGED answer
  /\ UNCHANGED <<packet, at, buff, stored>>

\* Mutant of Unquote: DEL is left out.
UnquoteNoDel(c) == IF (c \div 32) % 4 = 2 THEN c - 64 ELSE c

\* The character behind '#'.
Unquote(c) ==
  IF (c \div 32) % 4 = 2 THEN c - 64
  ELSE IF c % 128 = 63 THEN c + 64 ELSE c

Store(c) == stored' = IF type = KERM_TYPE_DATA THEN Append(stored, c) ELSE stored

\* One turn of while (len > 1), and the end of the loop.
DataPlain ==
  /\ pc = "data" /\ ~ RunOver /\ len > 1 /\ ~ IsQuoted
  /\ index' = index + 1 /\ len' = len - 1 /\ checksum' = checksum + buff[index]
  /\ Store(buff[index])
  /\ UNCHANGED <<packet, at, pc, buff, type, answer>>

DataQuoted ==
  /\ pc = "data" /\ ~ RunOver /\ IsQuoted
  /\ index' = index + 2 /\ len' = len - 2
  /\ checksum' = checksum + buff[index] + buff[index + 1]
  /\ Store(Unquote(buff[index + 1]))
  /\ UNCHANGED <<packet, at, pc, buff, type, answer>>

DataEnd ==
  /\ pc = "data" /\ ~ RunOver /\ len <= 1
  /\ pc' = "check"
  /\ UNCHANGED <<packet, at, buff, index, len, type, checksum, stored, answer>>

\* The check character, ...
CheckSum ==
  /\ pc = "check" /\ ~ RunOver
  /\ IF buff[index] = Check(checksum)
       THEN pc' = "term" /\ UNCHANGED answer
       ELSE pc' = "refused" /\ answer' = AckPacket(NextSeq, KERM_TYPE_NACK)
  /\ index' = index + 1
  /\ UNCHANGED <<packet, at, buff, len, type, checksum, stored>>

\* Mutant of Terminator: the carriage return is not looked for.
TerminatorAny ==
  /\ pc = "term" /\ ~ RunOver
  /\ pc' = "accepted" /\ answer' = AckPacket(seq0, KERM_TYPE_ACK)
  /\ index' = index + 1
  /\ UNCHANGED <<packet, at, buff, len, type, checksum, stored>>

\* ... and the carriage return behind it.
Terminator ==
  /\ pc = "term" /\ ~ RunOver
  /\ IF buff[index] = KERM_KEY_TERM
       THEN pc' = "accepted" /\ answer' = AckPacket(seq0, KERM_TYPE_ACK)
       ELSE pc' = "fault" /\ UNCHANGED answer
  /\ index' = index + 1
  /\ UNCHANGED <<packet, at, buff, len, type, checksum, stored>>

Ended == pc \in Ends /\ UNCHANGED vars

Next ==
  \/ HostCode \/ HostSend
  \/ Mark \/ Fill \/ Header
  \/ DataPlain \/ DataQuoted \/ DataEnd
  \/ CheckSum \/ Terminator \/ Overrun
  \/ Ended

Spec == Init /\ [][Next]_vars

-----------------------------------------------------------------------------
(* Properties *)

\* A frame that arrives as it was sent is accepted, and its data is stored as
\* the host had it: control characters, '#', DEL and bytes with bit 7 alike.
\* Only data packets store anything.  The answer is a frame the host can read.
FrameIsRead ==
  flip = NoFlip /\ pc \in Ends =>
    /\ pc = "accepted" /\ index = Len(buff) + 1
    /\ stored = IF type0 = KERM_TYPE_DATA THEN payload ELSE <<>>
    /\ answer = Frame(<<>>, 0, KERM_TYPE_ACK, seq0)

\* The decoder has run past the end of what was received.
RunsOver == index > Len(buff) + 1

\* A frame with a flipped bit is never accepted, whichever bit it is: in the
\* length, which moves the place of the check character, in a '#', which
\* shifts the pairs, in the mark, or in the carriage return.  Excepted is a decoder that has
\* run past a carriage return into bytes of an earlier frame.
FlipIsSeen == pc = "accepted" /\ flip # NoFlip => RunsOver
=============================================================================
