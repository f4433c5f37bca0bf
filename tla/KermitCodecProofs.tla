--------------------------- MODULE KermitCodecProofs ---------------------------
(***************************************************************************)
(* What the byte coding does for every byte, every sum, every packet of a  *)
(* Kermit host and every flipped bit.  After two facts about numbers come  *)
(* what is on the line, how it gets into the buffer, how it is decoded,    *)
(* and why a flip is seen.                                                 *)
(***************************************************************************)
EXTENDS KermitCodecInv, SequenceTheorems, TLAPS

\* What kermit_load() makes of a byte that the host has coded is the byte; and
\* no coded byte looks like the mark or the end of a frame.
THEOREM CodingIsUndone ==
  \A c \in Byte :
    /\ Len(Quote(c)) = 1 => Quote(c)[1] = c /\ c # KERM_KEY_SHARP
    /\ Len(Quote(c)) = 2 => Quote(c)[1] = KERM_KEY_SHARP /\ Unquote(Quote(c)[2]) = c
    /\ \A i \in 1 .. Len(Quote(c)) : Quote(c)[i] \notin {MARK_START, KERM_KEY_TERM}
<1> SUFFICES ASSUME NEW c \in Byte
             PROVE  /\ Len(Quote(c)) = 1 => Quote(c)[1] = c /\ c # KERM_KEY_SHARP
                    /\ Len(Quote(c)) = 2 =>
                         Quote(c)[1] = KERM_KEY_SHARP /\ Unquote(Quote(c)[2]) = c
                    /\ \A i \in 1 .. Len(Quote(c)) :
                         Quote(c)[i] \notin {MARK_START, KERM_KEY_TERM}
  OBVIOUS
<1> USE DEF KERM_KEY_SHARP, MARK_START, KERM_KEY_TERM
<1>1. CASE IsControl(c)
  <2>1. Quote(c) = <<35, Toggle(c)>>
    BY <1>1 DEF Quote
  <2>2. Toggle(c) \notin {1, 13}
    BY <1>1 DEF Toggle, IsControl, Byte
  <2>3. Unquote(Toggle(c)) = c
    BY <1>1 DEF Toggle, IsControl, Byte, Unquote
  <2> QED
    BY <2>1, <2>2, <2>3
<1>2. CASE ~ IsControl(c) /\ c % 128 = 35
  <2>1. Quote(c) = <<35, c>>
    BY <1>2 DEF Quote
  <2>2. c \notin {1, 13}
    BY <1>2 DEF Byte
  <2>3. Unquote(c) = c
    BY <1>2 DEF Byte, Unquote
  <2> QED
    BY <2>1, <2>2, <2>3
<1>3. CASE ~ IsControl(c) /\ c % 128 # 35
  <2>1. Quote(c) = <<c>>
    BY <1>3 DEF Quote
  <2>2. c \notin {1, 13, 35}
    BY <1>3 DEF IsControl, Byte
  <2> QED
    BY <2>1, <2>2
<1> QED
  BY <1>1, <1>2, <1>3

\* Sums that differ by one bit of one byte have different check characters:
\* the six bits of the check see a flip of any of the eight bits, because the
\* upper two are folded in.
THEOREM OneBitChangesCheck ==
  \A s \in Nat : \A d \in {1, 2, 4, 8, 16, 32, 64, 128} : Check(s + d) # Check(s)
<1> DEFINE fold(h) == h % 4
           six(h, l) == (l + fold(h)) % 64
<1>1. ASSUME NEW s \in Nat
      PROVE  \E h \in Nat, l \in 0 .. 63 : s = 64 * h + l
  BY <1>1, s = 64 * (s \div 64) + (s % 64), s \div 64 \in Nat, s % 64 \in 0 .. 63
<1>2. ASSUME NEW h \in Nat, NEW l \in 0 .. 63
      PROVE  Check(64 * h + l) = KERM_KEY_SPACE + six(h, l)
  <2>1. (64 * h + l) \div 64 = h
    OBVIOUS
  <2>2. fold(h) \in 0 .. 3
    OBVIOUS
  <2>3. ASSUME NEW k \in 0 .. 3
        PROVE  (64 * h + l + k) % 64 = (l + k) % 64
    OBVIOUS
  <2> QED
    BY <2>1, <2>2, <2>3 DEF Check
<1> SUFFICES ASSUME NEW s \in Nat, NEW d \in {1, 2, 4, 8, 16, 32, 64, 128}
             PROVE  Check(s + d) # Check(s)
  OBVIOUS
<1>3. PICK h \in Nat, l \in 0 .. 63 : s = 64 * h + l
  BY <1>1
<1>4. fold(h) \in 0 .. 3 /\ fold(h + 1) \in 0 .. 3 /\ fold(h + 2) \in 0 .. 3
      /\ fold(h + 1) = (fold(h) + 1) % 4 /\ fold(h + 2) = (fold(h) + 2) % 4
  OBVIOUS
<1>5. Check(s) = 32 + six(h, l)
  BY <1>2, <1>3 DEF KERM_KEY_SPACE
<1>6. CASE d = 64
  <2>1. Check(s + d) = 32 + six(h + 1, l)
    BY <1>2, <1>3, <1>6, s + d = 64 * (h + 1) + l, h + 1 \in Nat DEF KERM_KEY_SPACE
  <2>2. six(h + 1, l) # six(h, l)
    <3> HIDE DEF fold
    <3> QED
      BY <1>4
  <2> QED
    BY <1>5, <2>1, <2>2
<1>7. CASE d = 128
  <2>1. Check(s + d) = 32 + six(h + 2, l)
    BY <1>2, <1>3, <1>7, s + d = 64 * (h + 2) + l, h + 2 \in Nat DEF KERM_KEY_SPACE
  <2>2. six(h + 2, l) # six(h, l)
    <3> HIDE DEF fold
    <3> QED
      BY <1>4
  <2> QED
    BY <1>5, <2>1, <2>2
<1>8. CASE d \in {1, 2, 4, 8, 16, 32} /\ l + d < 64
  <2>1. Check(s + d) = 32 + six(h, l + d)
    BY <1>2, <1>3, <1>8, s + d = 64 * h + (l + d), l + d \in 0 .. 63 DEF KERM_KEY_SPACE
  <2>2. six(h, l + d) # six(h, l)
    <3> HIDE DEF fold
    <3> QED
      BY <1>4, <1>8
  <2> QED
    BY <1>5, <2>1, <2>2
<1>9. CASE d \in {1, 2, 4, 8, 16, 32} /\ l + d >= 64
  <2>1. Check(s + d) = 32 + six(h + 1, l + d - 64)
    BY <1>2, <1>3, <1>9, s + d = 64 * (h + 1) + (l + d - 64), l + d - 64 \in 0 .. 63,
       h + 1 \in Nat DEF KERM_KEY_SPACE
  <2>2. six(h + 1, l + d - 64) # six(h, l)
    <3> HIDE DEF fold
    <3>1. fold(h + 1) = fold(h) + 1 \/ fold(h + 1) = fold(h) - 3
      BY <1>4
    <3>2. ASSUME NEW x \in 0 .. 66, NEW y \in 0 .. 66, x # y, x # y + 64, y # x + 64
          PROVE  x % 64 # y % 64
      BY <3>2
    <3>3. l + d - 64 + fold(h + 1) \in 0 .. 66 /\ l + fold(h) \in 0 .. 66
      BY <1>4, <1>9
    <3>4. l + d - 64 + fold(h + 1) # l + fold(h)
          /\ l + d - 64 + fold(h + 1) # l + fold(h) + 64
          /\ l + fold(h) # l + d - 64 + fold(h + 1) + 64
      BY <1>4, <1>9, <3>1
    <3> QED
      BY <3>2, <3>3, <3>4
  <2> QED
    BY <1>5, <2>1, <2>2
<1> QED
  BY <1>6, <1>7, <1>8, <1>9

-----------------------------------------------------------------------------
(* Bytes and frames *)

\* The host's check character is the board's.
LEMMA HostChecksAlike ==
  ASSUME NEW s \in Nat
  PROVE  HostCheck(s) = Check(s) /\ Check(s) \in 32 .. 95
<1>1. PICK h \in Nat, l \in 0 .. 63 : s = 64 * h + l
  BY s = 64 * (s \div 64) + (s % 64), s \div 64 \in Nat, s % 64 \in 0 .. 63
<1>2. s \div 64 = h
  BY <1>1
<1>3. PICK q \in Nat, r \in 0 .. 3 : h = 4 * q + r
  BY h = 4 * (h \div 4) + (h % 4), h \div 4 \in Nat, h % 4 \in 0 .. 3
<1>4. h % 4 = r
  BY <1>3
<1>5. s % 256 = 64 * r + l
  BY <1>1, <1>3, s = 256 * q + (64 * r + l), 64 * r + l \in 0 .. 255
<1>6. (s % 256) \div 64 = r
  BY <1>5
<1>7. (s + r) % 64 \in 0 .. 63
  OBVIOUS
<1> QED
  BY <1>2, <1>4, <1>6, <1>7 DEF HostCheck, Check, KERM_KEY_SPACE

\* A coded byte is one byte or two, all of them bytes.
LEMMA QuoteIsShort ==
  ASSUME NEW c \in Byte
  PROVE  /\ Quote(c) \in Seq(Byte \ {MARK_START, KERM_KEY_TERM})
         /\ Len(Quote(c)) \in {1, 2}
<1> USE DEF Byte, KERM_KEY_SHARP, MARK_START, KERM_KEY_TERM
<1>1. CASE IsControl(c)
  <2>1. Toggle(c) \in Byte \ {1, 13}
    BY <1>1 DEF Toggle, IsControl
  <2> QED
    BY <1>1, <2>1 DEF Quote
<1>2. CASE ~ IsControl(c)
  <2>1. c \notin {1, 13}
    BY <1>2 DEF IsControl
  <2>2. <<35, c>> \in Seq(Byte \ {1, 13}) /\ <<c>> \in Seq(Byte \ {1, 13})
    BY <2>1
  <2>3. Len(<<35, c>>) = 2 /\ Len(<<c>>) = 1
    OBVIOUS
  <2>4. Quote(c) = <<35, c>> \/ Quote(c) = <<c>>
    BY <1>2 DEF Quote
  <2> QED
    BY <2>2, <2>3, <2>4
<1> QED
  BY <1>1, <1>2

\* A flipped bit makes another byte, and it differs by the bit's weight.
LEMMA FlipIsOneBit ==
  ASSUME NEW c \in Byte, NEW w \in Weights
  PROVE  /\ FlipBit(c, w) \in Byte
         /\ FlipBit(c, w) = c + w \/ FlipBit(c, w) = c - w
  BY DEF Byte, Weights, FlipBit

\* Lengths are stated by a predicate of their own, which the provers leave alone.
HasLen(s, n) == s \in Seq(Nat) /\ n \in Nat /\ Len(s) = n

Joins(u, s, t, m, n) ==
  /\ HasLen(u, m + n)
  /\ \A i \in 1 .. m : u[i] = s[i]
  /\ \A i \in 1 .. n : u[i + m] = t[i]

\* The elements of two sequences, one behind the other.
LEMMA Joined ==
  ASSUME NEW s, NEW t, NEW m, NEW n, HasLen(s, m), HasLen(t, n)
  PROVE  Joins(s \o t, s, t, m, n)
<1>1. HasLen(s \o t, m + n)
  BY DEF HasLen
<1>2. \A i \in 1 .. m : (s \o t)[i] = s[i]
  BY DEF HasLen
<1>3. ASSUME NEW i \in 1 .. n
      PROVE  (s \o t)[i + m] = t[i]
  <2>1. (s \o t)[i + m] = IF i + m <= Len(s) THEN s[i + m] ELSE t[i + m - Len(s)]
    BY DEF HasLen
  <2>2. m = Len(s) /\ i + m > Len(s) /\ i + m - Len(s) = i
    BY DEF HasLen
  <2> QED
    BY <2>1, <2>2
<1> QED
  BY <1>1, <1>2, <1>3 DEF Joins

\* A sequence with one more element.
Longer(u, s, n, x) ==
  /\ HasLen(u, n + 1) /\ u[n + 1] = x
  /\ \A i \in 1 .. n : u[i] = s[i]

LEMMA Appended ==
  ASSUME NEW s, NEW n, HasLen(s, n), NEW x \in Nat
  PROVE  Longer(Append(s, x), s, n, x)
<1>1. s \in Seq(Nat) /\ Len(s) = n
  BY DEF HasLen
<1>2. /\ Append(s, x) \in Seq(Nat) /\ Len(Append(s, x)) = Len(s) + 1
      /\ \A i \in 1 .. Len(s) : Append(s, x)[i] = s[i]
      /\ Append(s, x)[Len(s) + 1] = x
  BY <1>1, AppendProperties
<1> QED
  BY <1>1, <1>2 DEF HasLen, Longer

\* A part of a sequence.
LEMMA Cut ==
  ASSUME NEW s, NEW m \in Int, NEW n \in Int, m <= n, \A i \in m .. n : s[i] \in Nat
  PROVE  /\ Len(SubSeq(s, m, n)) = n - m + 1
         /\ \A i \in 1 .. n - m + 1 : SubSeq(s, m, n)[i] = s[m + i - 1]
  BY SubSeqProperties

\* The bytes of a frame for n bytes of data.
FrameOf(f, d, n, sum, t, s) ==
  /\ HasLen(f, n + 6)
  /\ f[1] = 1 /\ f[2] = n + 35 /\ f[3] = 32 + s /\ f[4] = t
  /\ \A i \in 1 .. n : f[i + 4] = d[i]
  /\ f[n + 5] = Check(n + 35 + (32 + s) + t + sum)
  /\ f[n + 6] = 13

LEMMA FrameBytes ==
  ASSUME NEW d, NEW n, HasLen(d, n), NEW sum \in Nat, NEW t \in Nat, NEW s \in Nat
  PROVE  FrameOf(Frame(d, sum, t, s), d, n, sum, t, s)
<1> DEFINE c == HostCheck(n + 35 + (32 + s) + t + sum)
           a == <<1, n + 35, 32 + s, t>>
           b == a \o d
           e == <<c, 13>>
           f == b \o e
<1>1. n \in Nat /\ Len(d) = n
  BY DEF HasLen
<1>2. c = Check(n + 35 + (32 + s) + t + sum) /\ c \in Nat
  <2>1. n + 35 + (32 + s) + t + sum \in Nat
    BY <1>1
  <2> QED
    BY <2>1, HostChecksAlike
<1>3. Frame(d, sum, t, s) = f
  <2>1. ASSUME NEW x \in Nat, NEW y \in Nat
        PROVE  <<1>> \o <<x, y, t>> = <<1, x, y, t>>
    <3>1. Len(<<1>> \o <<x, y, t>>) = 4 /\ <<1>> \o <<x, y, t>> \in Seq(Nat)
      OBVIOUS
    <3>2. Len(<<1, x, y, t>>) = 4 /\ <<1, x, y, t>> \in Seq(Nat)
      OBVIOUS
    <3>3. \A i \in 1 .. 4 : (<<1>> \o <<x, y, t>>)[i] = <<1, x, y, t>>[i]
      OBVIOUS
    <3> QED
      BY <3>1, <3>2, <3>3, SeqEqual
  <2>2. 32 + Len(d) + 3 = n + 35 /\ n + 35 \in Nat /\ 32 + s \in Nat
    BY <1>1
  <2> QED
    BY <2>1, <2>2 DEF Frame, KERM_KEY_SPACE, MARK_START, KERM_KEY_TERM
<1>4. HasLen(a, 4) /\ a[1] = 1 /\ a[2] = n + 35 /\ a[3] = 32 + s /\ a[4] = t
  BY <1>1 DEF HasLen
<1>5. HasLen(e, 2) /\ e[1] = c /\ e[2] = 13
  BY <1>2 DEF HasLen
<1> HIDE DEF a, e
<1>6. Joins(b, a, d, 4, n)
  BY <1>4, Joined, Zenon
<1> HIDE DEF b
<1>7. Joins(f, b, e, 4 + n, 2)
  <2>1. HasLen(b, 4 + n)
    BY <1>6 DEF Joins
  <2> QED
    BY <1>5, <2>1, Joined, Zenon
<1> HIDE DEF f, c
<1>8. HasLen(f, n + 6)
  BY <1>1, <1>7, 4 + n + 2 = n + 6 DEF Joins
<1>9. f[1] = 1 /\ f[2] = n + 35 /\ f[3] = 32 + s /\ f[4] = t
  BY <1>1, <1>4, <1>6, <1>7 DEF Joins
<1>10. ASSUME NEW i \in 1 .. n
       PROVE  f[i + 4] = d[i]
  BY <1>1, <1>6, <1>7, i + 4 \in 1 .. 4 + n DEF Joins
<1>11. f[n + 5] = c /\ f[n + 6] = 13
  BY <1>1, <1>5, <1>7, 1 + (4 + n) = n + 5, 2 + (4 + n) = n + 6 DEF Joins
<1> QED
  BY <1>2, <1>3, <1>8, <1>9, <1>10, <1>11 DEF FrameOf

-----------------------------------------------------------------------------
(* What the host sends and what arrives *)

LEMMA CodingTypes ==
  ASSUME CodingInv
  PROVE  /\ Size \in 0 .. 91 /\ HasLen(data, Size)
         /\ type0 \in 33 .. 126 /\ seq0 \in 0 .. 63 /\ NextSeq \in 0 .. 63 /\ NextSeq # seq0
         /\ \A i \in 1 .. Size : data[i] \in Byte \ {1, 13}
         /\ \A i \in 1 .. Size + 1 : sums[i] \in Nat
         /\ Last(sums) = sums[Size + 1]
<1>1. Size \in 0 .. 91
  <2>1. Size \in Nat
    BY LenProperties DEF Size, CodingInv
  <2> QED
    BY <2>1 DEF MAX_LEN, CodingInv
<1>2. HasLen(data, Size)
  <2>1. data \in Seq(Nat)
    <3>1. Byte \ {MARK_START, KERM_KEY_TERM} \subseteq Nat
      BY DEF Byte
    <3> QED
      BY <3>1, SeqMonotonic, Zenon DEF CodingInv
  <2> QED
    BY <1>1, <2>1 DEF HasLen, Size
<1>3. type0 \in 33 .. 126 /\ seq0 \in 0 .. 63
  BY ConstantsAssumption DEF ConstantsAssumption, CodingInv
<1>4. NextSeq \in 0 .. 63 /\ NextSeq # seq0
  <2>1. CASE seq0 = 63
    BY <2>1 DEF NextSeq
  <2>2. CASE seq0 \in 0 .. 62
    BY <2>2 DEF NextSeq
  <2> QED
    BY <1>3, <2>1, <2>2
<1>5. \A i \in 1 .. Size : data[i] \in Byte \ {1, 13}
  BY ElementOfSeq DEF Size, MARK_START, KERM_KEY_TERM, CodingInv
<1>6. \A i \in 1 .. Len(sums) : sums[i] \in Nat
  BY ElementOfSeq DEF CodingInv
<1>7. Last(sums) = sums[Size + 1]
  BY DEF Last, CodingInv
<1> QED
  BY <1>1, <1>2, <1>3, <1>4, <1>5, <1>6, <1>7 DEF CodingInv

\* The bytes of the frame behind its mark, and the host's sums over them.
PlainKnown ==
  /\ \A i \in 1 .. Size + 5 : Plain(i) \in Byte
  /\ \A i \in 1 .. Size + 4 : Plain(i) \notin {1, 13}
  /\ Plain(1) = Size + 35 /\ Plain(2) = 32 + seq0 /\ Plain(3) = type0
  /\ \A i \in 1 .. Size : Plain(i + 3) = data[i]
  /\ Plain(Size + 4) = Check(SumTo(Size + 3)) /\ Plain(Size + 5) = 13
  /\ SumTo(3) = Plain(1) + Plain(2) + Plain(3)
  /\ \A i \in 3 .. Size + 3 : SumTo(i) \in Nat
  /\ \A i \in 4 .. Size + 3 : SumTo(i) = SumTo(i - 1) + Plain(i)

LEMMA SentIsFrame ==
  ASSUME CodingInv
  PROVE  FrameOf(Sent, data, Size, sums[Size + 1], type0, seq0)
<1>1. Size + 1 \in 1 .. Size + 1
  BY CodingTypes
<1>2. sums[Size + 1] \in Nat /\ type0 \in Nat /\ seq0 \in Nat /\ HasLen(data, Size)
  BY <1>1, CodingTypes
<1>3. Sent = Frame(data, sums[Size + 1], type0, seq0)
  BY CodingTypes DEF Sent
<1> QED
  BY <1>2, <1>3, FrameBytes

LEMMA PlainBytes ==
  ASSUME CodingInv
  PROVE  PlainKnown
<1> DEFINE f == Sent
<1>0. /\ Size \in 0 .. 91 /\ type0 \in 33 .. 126 /\ seq0 \in 0 .. 63
      /\ \A i \in 1 .. Size : data[i] \in Byte \ {1, 13}
      /\ \A i \in 1 .. Size + 1 : sums[i] \in Nat
  BY CodingTypes
<1>1. /\ f[2] = Size + 35 /\ f[3] = 32 + seq0 /\ f[4] = type0
      /\ \A i \in 1 .. Size : f[i + 4] = data[i]
      /\ f[Size + 5] = Check(Size + 35 + (32 + seq0) + type0 + sums[Size + 1])
      /\ f[Size + 6] = 13
  BY SentIsFrame DEF FrameOf
<1>2. \A i : Plain(i) = f[i + 1]
  BY DEF Plain
<1> HIDE DEF f
<1>3. Plain(1) = Size + 35 /\ Plain(2) = 32 + seq0 /\ Plain(3) = type0
  BY <1>1, <1>2
<1>4. ASSUME NEW i \in 1 .. Size
      PROVE  Plain(i + 3) = data[i]
  BY <1>0, <1>1, <1>2, (i + 3) + 1 = i + 4
<1>5. \A i \in 3 .. Size + 3 : SumTo(i) \in Nat
  BY <1>0 DEF SumTo
<1>6. Plain(Size + 4) = Check(SumTo(Size + 3)) /\ Plain(Size + 5) = 13
  BY <1>0, <1>1, <1>2, (Size + 4) + 1 = Size + 5, (Size + 5) + 1 = Size + 6,
     Size + 3 - 2 = Size + 1 DEF SumTo
<1>7. Plain(Size + 4) \in 32 .. 95
  <2>1. SumTo(Size + 3) \in Nat
    BY <1>0, <1>5
  <2> QED
    BY <2>1, <1>6, HostChecksAlike
<1>8. SumTo(3) = Plain(1) + Plain(2) + Plain(3)
  <2>1. sums[1] = 0
    BY DEF CodingInv
  <2> QED
    BY <2>1, <1>0, <1>3 DEF SumTo
<1>9. ASSUME NEW i \in 4 .. Size + 3
      PROVE  SumTo(i) = SumTo(i - 1) + Plain(i)
  <2>1. i - 3 \in 1 .. Size
    BY <1>0
  <2>2. sums[(i - 3) + 1] = sums[i - 3] + data[i - 3]
    BY <2>1 DEF CodingInv
  <2>3. Plain(i) = data[i - 3]
    BY <2>1, <1>4, (i - 3) + 3 = i
  <2>4. sums[i - 3] \in Nat /\ data[i - 3] \in Nat
    BY <1>0, <2>1 DEF Byte
  <2> QED
    BY <1>0, <2>2, <2>3, <2>4, (i - 3) + 1 = i - 2, (i - 1) - 2 = i - 3 DEF SumTo
<1>10. ASSUME NEW i \in 1 .. Size + 5
       PROVE  Plain(i) \in Byte /\ (i # Size + 5 => Plain(i) \notin {1, 13})
  <2>1. CASE i \in {1, 2, 3, Size + 4, Size + 5}
    <3>1. CASE i \in {1, 2, 3}
      <4>1. Plain(i) \in 32 .. 126
        BY <1>0, <1>3, <3>1
      <4> QED
        BY <4>1 DEF Byte
    <3>2. CASE i = Size + 4
      BY <1>7, <3>2 DEF Byte
    <3>3. CASE i = Size + 5
      BY <1>6, <3>3 DEF Byte
    <3> QED
      BY <2>1, <3>1, <3>2, <3>3
  <2>2. CASE i \in 4 .. Size + 3
    <3>1. i - 3 \in 1 .. Size
      BY <1>0, <2>2
    <3>2. Plain(i) = data[i - 3]
      BY <3>1, <1>4, (i - 3) + 3 = i
    <3> QED
      BY <1>0, <3>1, <3>2
  <2> QED
    BY <1>0, <2>1, <2>2
<1> QED
  BY <1>0, <1>3, <1>4, <1>5, <1>6, <1>8, <1>9, <1>10 DEF PlainKnown

\* The bytes as they come, which are those sent but for the one that is hit.
CameKnown ==
  /\ Hit \in -1 .. Size + 5 /\ (flip = NoFlip <=> Hit = -1)
  /\ \A i \in 1 .. Size + 5 : Came(i) \in Byte
  /\ \A i \in 1 .. Size + 5 : i # Hit => Came(i) = Plain(i)
  /\ Hit \in 1 .. Size + 5 =>
       /\ Came(Hit) = Plain(Hit) + Delta
       /\ Delta \in Int /\ (Delta \in Weights \/ -Delta \in Weights)

LEMMA CameBytes ==
  ASSUME CodingInv, SentOn
  PROVE  CameKnown
<1>1. Size \in 0 .. 91
  BY CodingTypes
<1>2. \A i \in 1 .. Size + 5 : Plain(i) \in Byte
  BY PlainBytes DEF PlainKnown
<1>3. CASE flip = NoFlip
  <2>1. Hit = -1
    BY <1>3 DEF Hit, NoFlip
  <2> QED
    BY <1>1, <1>2, <1>3, <2>1 DEF CameKnown, Came
<1>4. CASE flip \in (1 .. Size + 6) \X Weights
  <2>1. flip[1] \in 1 .. Size + 6 /\ flip[2] \in Weights /\ flip # NoFlip
    BY <1>4 DEF NoFlip, Weights
  <2>2. Hit \in 0 .. Size + 5
    BY <1>1, <2>1 DEF Hit
  <2>3. ASSUME Hit \in 1 .. Size + 5
        PROVE  /\ Came(Hit) \in Byte /\ Came(Hit) = Plain(Hit) + Delta
               /\ Delta \in Int /\ (Delta \in Weights \/ -Delta \in Weights)
    <3> DEFINE c == Plain(Hit)
               g == FlipBit(c, flip[2])
    <3>1. c \in Byte
      BY <2>3, <1>2
    <3>2. g \in Byte /\ (g = c + flip[2] \/ g = c - flip[2])
      BY <2>1, <3>1, FlipIsOneBit
    <3>3. Came(Hit) = g /\ Delta = g - c
      BY DEF Came, Delta
    <3>4. flip[2] \in Int
      BY <2>1 DEF Weights
    <3> HIDE DEF c, g
    <3>5. c + Delta = g /\ Delta \in Int /\ (Delta = flip[2] \/ -Delta = flip[2])
      BY <3>1, <3>2, <3>3, <3>4 DEF Byte
    <3> QED
      BY <2>1, <3>2, <3>3, <3>5 DEF c
  <2>4. \A i \in 1 .. Size + 5 : i # Hit => Came(i) = Plain(i)
    BY DEF Came
  <2> QED
    BY <1>1, <1>2, <2>1, <2>2, <2>3, <2>4 DEF CameKnown
<1> QED
  BY <1>3, <1>4 DEF SentOn

\* The frame with its flipped bit.
LEMMA GarbledBytes ==
  ASSUME CodingInv, SentOn
  PROVE  LET g == Garbled(Sent, flip)
         IN  /\ HasLen(g, Size + 6)
             /\ g[1] = 1 <=> Hit # 0
             /\ \A i \in 1 .. Size + 5 : g[i + 1] = Came(i)
<1> DEFINE f == Sent
           g == Garbled(f, flip)
<1>1. Size \in 0 .. 91 /\ HasLen(f, Size + 6) /\ f[1] = 1
  BY CodingTypes, SentIsFrame DEF FrameOf
<1>2. \A i : Plain(i) = f[i + 1]
  BY DEF Plain
<1> HIDE DEF f
<1>3. CASE flip = NoFlip
  <2>1. g = f /\ Hit = -1
    BY <1>3 DEF Garbled, Hit, NoFlip
  <2> QED
    BY <1>1, <1>2, <2>1 DEF f, Came
<1>4. CASE flip \in (1 .. Size + 6) \X Weights
  <2>1. flip[1] \in 1 .. Size + 6 /\ flip[2] \in Weights /\ flip # NoFlip
    BY <1>4 DEF NoFlip, Weights
  <2> DEFINE h == flip[1]
             x == FlipBit(f[h], flip[2])
  <2>2. g = [f EXCEPT ![h] = x]
    BY <2>1 DEF Garbled
  <2>3. f \in Seq(Nat) /\ h \in 1 .. Len(f) /\ Len(f) = Size + 6
    BY <1>1, <2>1 DEF HasLen
  <2>4. f[h] \in Byte
    <3>1. h = 1 \/ h - 1 \in 1 .. Size + 5
      BY <1>1, <2>1
    <3>2. h - 1 \in 1 .. Size + 5 => Plain(h - 1) \in Byte
      BY PlainBytes DEF PlainKnown
    <3>3. Plain(h - 1) = f[h]
      BY <1>2, <2>1, (h - 1) + 1 = h
    <3> QED
      BY <1>1, <3>1, <3>2, <3>3 DEF Byte
  <2>5. x \in Nat /\ x # f[h]
    <3>1. x \in Byte /\ (x = f[h] + flip[2] \/ x = f[h] - flip[2])
      BY <2>1, <2>4, FlipIsOneBit
    <3> HIDE DEF x
    <3> QED
      BY <2>1, <2>4, <3>1 DEF Byte, Weights
  <2> HIDE DEF x
  <2>6. /\ g \in Seq(Nat) /\ Len(g) = Len(f)
        /\ \A j \in 1 .. Len(f) : g[j] = IF j = h THEN x ELSE f[j]
    BY <2>2, <2>3, <2>5, ExceptSeq
  <2>7. HasLen(g, Size + 6)
    BY <1>1, <2>3, <2>6 DEF HasLen
  <2> HIDE DEF g
  <2>8. \A j \in 1 .. Size + 6 : g[j] = IF j = h THEN x ELSE f[j]
    BY <2>3, <2>6
  <2>9. g[1] = 1 <=> Hit # 0
    BY <1>1, <2>1, <2>5, <2>8 DEF Hit
  <2>10. ASSUME NEW i \in 1 .. Size + 5
         PROVE  g[i + 1] = Came(i)
    <3>1. g[i + 1] = IF i + 1 = h THEN x ELSE f[i + 1]
      BY <1>1, <2>8
    <3>2. i + 1 = h <=> i = Hit
      BY <2>1 DEF Hit
    <3>3. i + 1 = h => Came(i) = x
      BY <1>2, <3>2 DEF Came, x
    <3> QED
      BY <1>2, <3>1, <3>2, <3>3 DEF Came
  <2> QED
    BY <2>7, <2>9, <2>10 DEF f, g
<1> QED
  BY <1>3, <1>4 DEF SentOn

\* What arrives: noise without a mark, the frame, and the next frame.
WireKnown ==
  LET z == Noisy + Size + 6
  IN  /\ Noisy \in Nat /\ HasLen(wire, z + 6)
      /\ \A i \in 1 .. Noisy : wire[i] # 1
      /\ wire[Noisy + 1] = 1 <=> Hit # 0
      /\ \A i \in 1 .. Size + 5 : wire[Noisy + 1 + i] = Came(i)
      /\ wire[z + 1] = 1 /\ wire[z + 2] # 13 /\ wire[z + 3] = 32 + NextSeq
      /\ wire[z + 4] # 13 /\ wire[z + 5] # 13 /\ wire[z + 6] = 13

LEMMA WireBytes ==
  ASSUME CodingInv, SentOn
  PROVE  WireKnown
<1> DEFINE g == Garbled(Sent, flip)
           e == Behind
           a == noise \o g
           b == a \o e
           z == Noisy + Size + 6
<1>0. Size \in 0 .. 91
  BY CodingTypes
<1>1. HasLen(noise, Noisy) /\ \A i \in 1 .. Noisy : noise[i] # 1
  <2>1. noise \in Seq(Byte \ {1})
    BY ConstantsAssumption DEF ConstantsAssumption, SentOn, MARK_START
  <2>2. Byte \ {1} \subseteq Nat
    BY DEF Byte
  <2>3. noise \in Seq(Nat)
    BY <2>1, <2>2, SeqMonotonic, Zenon
  <2>4. \A i \in 1 .. Noisy : noise[i] \in Byte \ {1}
    BY <2>1, ElementOfSeq DEF Noisy
  <2>5. Noisy \in Nat
    BY <2>3, LenProperties DEF Noisy
  <2> QED
    BY <2>3, <2>4, <2>5 DEF HasLen, Noisy
<1>2. /\ HasLen(g, Size + 6)
      /\ g[1] = 1 <=> Hit # 0
      /\ \A i \in 1 .. Size + 5 : g[i + 1] = Came(i)
  BY GarbledBytes
<1>3. FrameOf(e, <<>>, 0, 0, 90, NextSeq)
  <2>1. HasLen(<<>>, 0)
    BY DEF HasLen
  <2>2. NextSeq \in Nat
    BY CodingTypes
  <2> QED
    BY <2>1, <2>2, FrameBytes DEF Behind
<1>4. /\ HasLen(e, 6)
      /\ e[1] = 1 /\ e[2] = 35 /\ e[3] = 32 + NextSeq /\ e[4] = 90 /\ e[5] # 13 /\ e[6] = 13
  <2>1. 0 + 35 + (32 + NextSeq) + 90 + 0 \in Nat
    BY CodingTypes
  <2>2. Check(0 + 35 + (32 + NextSeq) + 90 + 0) # 13
    BY <2>1, HostChecksAlike
  <2>3. 0 + 6 = 6 /\ 0 + 35 = 35 /\ 0 + 5 = 5
    OBVIOUS
  <2> QED
    BY <1>3, <2>2, <2>3 DEF FrameOf
<1>5. wire = b
  BY DEF SentOn
<1> HIDE DEF g, e
<1>6. Joins(a, noise, g, Noisy, Size + 6)
  BY <1>1, <1>2, Joined, Zenon
<1> HIDE DEF a
<1>7. Joins(b, a, e, Noisy + (Size + 6), 6)
  <2>1. HasLen(a, Noisy + (Size + 6))
    BY <1>6 DEF Joins
  <2> QED
    BY <1>4, <2>1, Joined, Zenon
<1> HIDE DEF b
<1>8. Noisy \in Nat /\ Noisy + (Size + 6) = z /\ z \in Nat
  BY <1>0, <1>1 DEF HasLen
<1>9. HasLen(b, z + 6) /\ (\A i \in 1 .. z : b[i] = a[i]) /\ (\A i \in 1 .. 6 : b[i + z] = e[i])
  BY <1>7, <1>8 DEF Joins
<1>10. (\A i \in 1 .. Noisy : a[i] = noise[i]) /\ (\A i \in 1 .. Size + 6 : a[i + Noisy] = g[i])
  BY <1>6 DEF Joins
<1>11. \A i \in 1 .. Noisy : b[i] # 1
  BY <1>0, <1>1, <1>8, <1>9, <1>10
<1>12. ASSUME NEW i \in 1 .. Size + 6
       PROVE  b[Noisy + i] = g[i]
  BY <1>0, <1>8, <1>9, <1>10, i + Noisy \in 1 .. z, i + Noisy = Noisy + i
<1>13. b[Noisy + 1] = 1 <=> Hit # 0
  BY <1>0, <1>2, <1>12
<1>14. ASSUME NEW i \in 1 .. Size + 5
       PROVE  b[Noisy + 1 + i] = Came(i)
  BY <1>0, <1>2, <1>8, <1>12, i + 1 \in 1 .. Size + 6, Noisy + (i + 1) = Noisy + 1 + i
<1>15. /\ b[z + 1] = 1 /\ b[z + 2] # 13 /\ b[z + 3] = 32 + NextSeq
       /\ b[z + 4] # 13 /\ b[z + 5] # 13 /\ b[z + 6] = 13
  <2>1. ASSUME NEW i \in 1 .. 6
        PROVE  b[z + i] = e[i]
    BY <1>8, <1>9, z + i = i + z
  <2> QED
    BY <1>4, <2>1
<1> QED
  BY <1>5, <1>8, <1>9, <1>11, <1>13, <1>14, <1>15 DEF WireKnown

-----------------------------------------------------------------------------
(* The host's coding *)

coding == <<type0, seq0, payload, data, first, sums>>

LEMMA CodingSame ==
  ASSUME CodingInv, UNCHANGED coding
  PROVE  CodingInv'
BY DEF CodingInv, Coded, Size, Count, coding

LEMMA CodingGrows ==
  ASSUME CodingInv, HostCode
  PROVE  CodingInv'
<1>1. PICK c \in Bytes :
        LET q == Quote(c)
            s == Last(sums) + q[1]
        IN  /\ Len(data) + Len(q) + 3 <= MAX_LEN
            /\ payload' = Append(payload, c)
            /\ data' = data \o q
            /\ first' = Append(first, Len(data) + Len(q) + 1)
            /\ sums' = sums \o (IF Len(q) = 1 THEN <<s>> ELSE <<s, s + q[2]>>)
  BY DEF HostCode
<1>2. UNCHANGED <<type0, seq0>>
  BY DEF HostCode
<1> DEFINE q == Quote(c)
           m == Len(q)
           s == sums[Size + 1] + q[1]
           e == IF m = 1 THEN <<s>> ELSE <<s, s + q[2]>>
           S == Byte \ {MARK_START, KERM_KEY_TERM}
<1>3. c \in Byte
  BY ConstantsAssumption DEF ConstantsAssumption
<1>4. q \in Seq(S) /\ m \in {1, 2}
  BY <1>3, QuoteIsShort
<1>5. \A i \in 1 .. m : q[i] \in Nat
  <2>1. \A i \in 1 .. m : q[i] \in S
    BY <1>4, ElementOfSeq
  <2>2. S \subseteq Nat
    BY DEF Byte
  <2> HIDE DEF S, q, m
  <2> QED
    BY <2>1, <2>2
<1>6. HasLen(q, m)
  <2>1. S \subseteq Nat
    BY DEF Byte
  <2>2. q \in Seq(Nat)
    BY <1>4, <2>1, SeqMonotonic, Zenon
  <2> QED
    BY <1>4, <2>2 DEF HasLen
<1>7. /\ Size + m + 3 <= MAX_LEN
      /\ payload' = Append(payload, c)
      /\ data' = data \o q
      /\ first' = Append(first, Size + m + 1)
      /\ sums' = sums \o e
  BY <1>1, CodingTypes DEF Size
<1>8. Size \in 0 .. 91 /\ HasLen(data, Size) /\ \A i \in 1 .. Size + 1 : sums[i] \in Nat
  BY CodingTypes
<1>9. HasLen(e, m) /\ e[1] = s /\ (m = 2 => e[2] = s + q[2])
  <2>1. 1 \in 1 .. m /\ Size + 1 \in 1 .. Size + 1 /\ (m = 2 => 2 \in 1 .. m)
    <3> HIDE DEF q, m
    <3> QED
      BY <1>4, <1>8
  <2>2. s \in Nat /\ (m = 2 => s + q[2] \in Nat)
    BY <1>5, <1>8, <2>1
  <2> HIDE DEF s, q
  <2>3. CASE m = 1
    BY <2>2, <2>3 DEF HasLen
  <2>4. CASE m = 2
    <3>1. e = <<s, s + q[2]>>
      BY <2>4
    <3>2. HasLen(<<s, s + q[2]>>, 2)
      BY <2>2, <2>4 DEF HasLen
    <3> QED
      BY <2>4, <3>1, <3>2
  <2> QED
    BY <1>4, <2>3, <2>4
<1>10. q[1] \in Nat /\ (m = 2 => q[2] \in Nat)
  BY <1>4, <1>5
<1>11. /\ Count \in Nat
       /\ payload \in Seq(Byte) /\ first \in Seq(Nat) /\ Len(first) = Count + 1
       /\ sums \in Seq(Nat) /\ Len(sums) = Size + 1
  BY LenProperties DEF CodingInv, Count
<1>12. HasLen(first, Count + 1) /\ HasLen(sums, Size + 1) /\ HasLen(payload, Count)
  <2>1. Byte \subseteq Nat
    BY DEF Byte
  <2>2. payload \in Seq(Nat)
    BY <1>11, <2>1, SeqMonotonic, Zenon
  <2> QED
    BY <1>8, <1>11, <2>2 DEF HasLen, Count
<1> HIDE DEF q, m, e, s
<1>13. Joins(data', data, q, Size, m)
  BY <1>6, <1>7, <1>8, Joined, Zenon
<1>14. Joins(sums', sums, e, Size + 1, m)
  BY <1>7, <1>9, <1>12, Joined, Zenon
<1>15. Longer(first', first, Count + 1, Size + m + 1)
  <2>1. Size + m + 1 \in Nat
    BY <1>4, <1>8
  <2> QED
    BY <1>7, <1>12, <2>1, Appended, Zenon
<1>16. Longer(payload', payload, Count, c)
  <2>1. c \in Nat
    BY <1>3 DEF Byte
  <2> QED
    BY <1>7, <1>12, <2>1, Appended, Zenon
<1>17. Size' = Size + m /\ Count' = Count + 1
  BY <1>13, <1>16 DEF Joins, Longer, HasLen, Size, Count
<1>18. payload' \in Seq(Byte) /\ data' \in Seq(S)
  <2>1. payload' \in Seq(Byte)
    BY <1>3, <1>7, <1>11, AppendProperties, Zenon
  <2>2. data \in Seq(S)
    BY DEF CodingInv
  <2>3. data' \in Seq(S)
    BY <1>4, <1>7, <2>2, ConcatProperties, Zenon
  <2> QED
    BY <2>1, <2>3
<1>19. /\ sums' \in Seq(Nat) /\ Len(sums') = Size' + 1
       /\ first' \in Seq(Nat) /\ Len(first') = Count' + 1
  BY <1>4, <1>8, <1>11, <1>14, <1>15, <1>17 DEF Joins, Longer, HasLen
<1>20. sums'[1] = 0 /\ first'[1] = 1 /\ first'[Count' + 1] = Size' + 1
  <2>1. sums[1] = 0 /\ first[1] = 1
    BY DEF CodingInv
  <2>2. sums'[1] = sums[1]
    BY <1>8, <1>14 DEF Joins
  <2>3. first'[1] = first[1]
    BY <1>11, <1>15 DEF Longer
  <2>4. first'[(Count + 1) + 1] = Size + m + 1
    BY <1>15 DEF Longer
  <2> QED
    BY <2>1, <2>2, <2>3, <2>4, <1>17
<1>21. ASSUME NEW i \in 1 .. Size'
       PROVE  sums'[i + 1] = sums'[i] + data'[i]
  <2>1. CASE i \in 1 .. Size
    <3>1. sums'[i + 1] = sums[i + 1] /\ sums'[i] = sums[i]
      BY <1>8, <1>14, <2>1, i \in 1 .. Size + 1, i + 1 \in 1 .. Size + 1 DEF Joins
    <3>2. data'[i] = data[i]
      BY <1>13, <2>1 DEF Joins
    <3>3. sums[i + 1] = sums[i] + data[i]
      BY <2>1 DEF CodingInv
    <3> QED
      BY <3>1, <3>2, <3>3
  <2>2. sums'[Size + 1] = sums[Size + 1] /\ sums'[Size + 2] = s /\ data'[Size + 1] = q[1]
    <3>1. sums'[Size + 1] = sums[Size + 1]
      BY <1>8, <1>14, Size + 1 \in 1 .. Size + 1 DEF Joins
    <3>2. sums'[1 + (Size + 1)] = e[1] /\ data'[1 + Size] = q[1]
      BY <1>4, <1>13, <1>14, 1 \in 1 .. m DEF Joins
    <3> QED
      BY <1>8, <1>9, <3>1, <3>2, 1 + (Size + 1) = Size + 2, 1 + Size = Size + 1
  <2>3. CASE i = Size + 1
    BY <1>8, <2>2, <2>3, (Size + 1) + 1 = Size + 2 DEF s
  <2>4. CASE m = 2 /\ i = Size + 2
    <3>1. sums'[2 + (Size + 1)] = e[2] /\ data'[2 + Size] = q[2]
      BY <1>13, <1>14, <2>4, 2 \in 1 .. m DEF Joins
    <3> QED
      BY <1>8, <1>9, <2>2, <2>4, <3>1, 2 + (Size + 1) = (Size + 2) + 1, 2 + Size = Size + 2
  <2> QED
    BY <1>4, <1>8, <1>17, <2>1, <2>3, <2>4
<1>22. ASSUME NEW k \in 1 .. Count'
       PROVE  Coded(k)'
  <2>1. CASE k \in 1 .. Count
    <3>1. payload'[k] = payload[k]
      BY <1>16, <2>1 DEF Longer
    <3>2. first'[k] = first[k] /\ first'[k + 1] = first[k + 1]
      BY <1>11, <1>15, <2>1, k \in 1 .. Count + 1, k + 1 \in 1 .. Count + 1 DEF Longer
    <3> DEFINE r == Quote(payload[k])
    <3>3. /\ first[k] >= 1
          /\ first[k + 1] = first[k] + Len(r)
          /\ first[k + 1] <= Size + 1
          /\ \A i \in 1 .. Len(r) : data[first[k] + i - 1] = r[i]
      BY <2>1 DEF CodingInv, Coded
    <3>4. first[k] \in Nat /\ Len(r) \in {1, 2}
      <4>1. first[k] \in Nat
        BY <1>11, <2>1, ElementOfSeq
      <4>2. payload[k] \in Byte
        BY <1>11, <2>1, ElementOfSeq DEF Count
      <4> QED
        BY <4>1, <4>2, QuoteIsShort
    <3> HIDE DEF r
    <3>5. ASSUME NEW i \in 1 .. Len(r)
          PROVE  data'[first[k] + i - 1] = r[i]
      <4>1. first[k] + i - 1 \in 1 .. Size
        BY <1>8, <3>3, <3>4
      <4> QED
        BY <1>13, <3>3, <4>1 DEF Joins
    <3>6. first[k + 1] <= Size' + 1
      BY <1>4, <1>8, <1>17, <3>3, <3>4
    <3> QED
      BY <3>1, <3>2, <3>3, <3>5, <3>6 DEF Coded, r
  <2>2. CASE k = Count + 1
    <3>1. payload'[k] = c
      BY <1>16, <2>2 DEF Longer
    <3>2. first'[k] = Size + 1
      <4>1. first'[Count + 1] = first[Count + 1]
        BY <1>11, <1>15, Count + 1 \in 1 .. Count + 1 DEF Longer
      <4>2. first[Count + 1] = Size + 1
        BY DEF CodingInv
      <4> QED
        BY <2>2, <4>1, <4>2
    <3>3. first'[k + 1] = Size + m + 1
      BY <1>15, <2>2 DEF Longer
    <3>4. ASSUME NEW i \in 1 .. m
          PROVE  data'[Size + 1 + i - 1] = q[i]
      <4>1. data'[i + Size] = q[i]
        BY <1>13 DEF Joins
      <4> QED
        BY <1>4, <1>8, <4>1, Size + 1 + i - 1 = i + Size
    <3>5. Size + m + 1 = Size + 1 + m /\ Size + m + 1 <= Size' + 1 /\ Size + 1 >= 1
      BY <1>4, <1>8, <1>17
    <3>6. Quote(payload'[k]) = q /\ Len(q) = m
      BY <3>1 DEF q, m
    <3> QED
      BY <3>2, <3>3, <3>4, <3>5, <3>6 DEF Coded
  <2> QED
    BY <1>11, <1>17, <2>1, <2>2
<1>23. type0' \in Types /\ seq0' \in SeqNums /\ Size' + 3 <= MAX_LEN
  BY <1>2, <1>4, <1>7, <1>8, <1>17, Size + m + 3 = (Size + m) + 3 DEF CodingInv
<1> QED
  BY <1>18, <1>19, <1>20, <1>21, <1>22, <1>23 DEF CodingInv

LEMMA CodingStep ==
  ASSUME CodingInv, [Next]_vars
  PROVE  CodingInv'
<1>1. CASE HostCode
  BY <1>1, CodingGrows
<1>2. CASE UNCHANGED coding
  BY <1>2, CodingSame
<1> QED
  BY <1>1, <1>2 DEF Next, vars, packet, coding, HostSend, Mark, Fill, Header, DataPlain,
     DataQuoted, DataEnd, CheckSum, Terminator, Overrun, Ended

-----------------------------------------------------------------------------
(* The frame on its way into the buffer *)

\* What the board does leaves the packet and the line alone.
LEMMA SamePacket ==
  ASSUME UNCHANGED packet
  PROVE  /\ Size' = Size /\ Noisy' = Noisy /\ Count' = Count /\ NextSeq' = NextSeq
         /\ Hit' = Hit /\ Delta' = Delta /\ SentOn' = SentOn
         /\ \A i : Came(i)' = Came(i) /\ SumTo(i)' = SumTo(i) /\ SumCame(i)' = SumCame(i)
<1>1. Size' = Size /\ Noisy' = Noisy /\ Count' = Count /\ NextSeq' = NextSeq /\ Hit' = Hit
  BY DEF packet, Size, Noisy, Count, NextSeq, Hit
<1>2. Sent' = Sent
  BY DEF packet, Sent, Frame, Last
<1>3. \A i : Plain(i)' = Plain(i)
  BY <1>2 DEF Plain
<1>4. Delta' = Delta /\ \A i : Came(i)' = Came(i)
  BY <1>1, <1>3 DEF packet, Delta, Came, FlipBit
<1>5. \A i : SumTo(i)' = SumTo(i)
  BY <1>1 DEF packet, SumTo
<1>6. \A i : SumCame(i)' = SumCame(i)
  BY <1>1, <1>4, <1>5 DEF SumCame
<1>7. SentOn' = SentOn
  BY <1>1, <1>2 DEF packet, SentOn, Garbled, Behind, Frame, FlipBit, NextSeq
<1> QED
  BY <1>1, <1>4, <1>5, <1>6, <1>7

BoardStep ==
  \/ Mark \/ Fill \/ Header \/ DataPlain \/ DataQuoted \/ DataEnd
  \/ CheckSum \/ Terminator \/ Overrun \/ UNCHANGED vars

LEMMA NextSplit ==
  ASSUME [Next]_vars
  PROVE  HostCode \/ HostSend \/ BoardStep
BY DEF Next, BoardStep, Ended

LEMMA BoardKeepsPacket ==
  ASSUME BoardStep
  PROVE  UNCHANGED packet
BY DEF BoardStep, vars, Mark, Fill, Header, DataPlain, DataQuoted, DataEnd, CheckSum,
   Terminator, Overrun

\* The board finds the mark of the frame, or, when it has been hit, that of the
\* next one.
LEMMA MarkIsFound ==
  ASSUME CodingInv, LineInv, Mark
  PROVE  /\ pc' = "mark" => at' <= Noisy \/ (Hit = 0 /\ at' <= Noisy + Size + 6)
         /\ pc' = "fill" => at' = IF Hit = 0 THEN Noisy + Size + 7 ELSE Noisy + 1
<1>1. pc = "mark" /\ at' = at + 1 /\ at \in Nat /\ SentOn
      /\ pc' = IF wire[at + 1] = 1 THEN "fill" ELSE "mark"
  BY DEF Mark, LineInv, MARK_START
<1>2. /\ Size \in 0 .. 91 /\ Noisy \in Nat
      /\ \A i \in 1 .. Noisy : wire[i] # 1
      /\ wire[Noisy + 1] = 1 <=> Hit # 0
      /\ \A i \in 1 .. Size + 5 : wire[Noisy + 1 + i] = Came(i)
      /\ wire[Noisy + Size + 6 + 1] = 1
  BY <1>1, CodingTypes, WireBytes DEF WireKnown
<1>3. CASE at < Noisy
  BY <1>1, <1>2, <1>3, at + 1 \in 1 .. Noisy
<1>4. CASE at = Noisy
  BY <1>1, <1>2, <1>4
<1>5. CASE at > Noisy
  <2>1. Hit = 0 /\ at <= Noisy + Size + 6
    BY <1>1, <1>2, <1>5 DEF LineInv
  <2>2. CASE at = Noisy + Size + 6
    BY <1>1, <1>2, <2>1, <2>2
  <2>3. CASE at < Noisy + Size + 6
    <3>1. at - Noisy \in 1 .. Size + 5
      BY <1>1, <1>2, <1>5, <2>3
    <3>2. wire[at + 1] = Came(at - Noisy)
      BY <1>1, <1>2, <3>1, Noisy + 1 + (at - Noisy) = at + 1
    <3>3. Came(at - Noisy) # 1
      <4>1. Came(at - Noisy) = Plain(at - Noisy)
        BY <2>1, <3>1 DEF Came
      <4>2. at - Noisy = Size + 5 \/ at - Noisy \in 1 .. Size + 4
        BY <1>2, <3>1
      <4> QED
        BY <4>1, <4>2, PlainBytes DEF PlainKnown
    <3> QED
      BY <1>1, <1>2, <2>1, <2>3, <3>2, <3>3
  <2> QED
    BY <1>1, <1>2, <2>1, <2>2, <2>3
<1> QED
  BY <1>1, <1>2, <1>3, <1>4, <1>5

LEMMA LineStep ==
  ASSUME CodingInv, LineInv, [Next]_vars
  PROVE  LineInv'
<1>1. CASE HostCode
  BY <1>1 DEF HostCode, LineInv, board
<1>2. CASE HostSend
  <2>1. pc = "host" /\ pc' = "mark" /\ at' = 0 /\ index' = 1 /\ stored' = <<>>
    BY <1>2 DEF HostSend, LineInv, board
  <2>2. SentOn'
    <3>1. Sent' = Sent /\ Size' = Size /\ Behind' = Behind
      BY <1>2 DEF HostSend, Sent, Size, Behind, NextSeq, Last
    <3>2. Len(Sent) = Size + 6
      BY SentIsFrame DEF FrameOf, HasLen
    <3> QED
      BY <1>2, <3>1, <3>2 DEF HostSend, SentOn, Garbled, FlipBit
  <2>3. 0 <= Noisy'
    <3>1. noise' \in Seq(Byte \ {MARK_START})
      BY <2>2, ConstantsAssumption DEF ConstantsAssumption, SentOn
    <3> QED
      BY <3>1, LenProperties DEF Noisy
  <2> QED
    BY <2>1, <2>2, <2>3 DEF LineInv
<1>3. CASE BoardStep
  <2>1. /\ SentOn' = SentOn /\ Size' = Size /\ Noisy' = Noisy /\ Hit' = Hit
    BY <1>3, BoardKeepsPacket, SamePacket
  <2>2. CASE Mark
    <3>1. pc = "mark" /\ pc' \in {"mark", "fill"} /\ at' \in Nat
          /\ UNCHANGED <<index, stored>>
      BY <2>2 DEF Mark, LineInv
    <3> QED
      BY <2>1, <2>2, <3>1, MarkIsFound DEF LineInv
  <2>3. CASE Fill
    <3>1. pc = "fill" /\ pc' = "head" /\ at' \in Nat /\ index' = 1 /\ UNCHANGED stored
      BY <2>3 DEF Fill, LineInv
    <3> QED
      BY <2>1, <3>1 DEF LineInv, Reading
  <2>4. CASE ~ (Mark \/ Fill)
    <3>1. \/ pc \in Reading /\ pc' \in (Reading \ {"head"}) \cup Ends /\ at' = at
          \/ UNCHANGED vars
      BY <1>3, <2>4 DEF BoardStep, Header, DataPlain, DataQuoted, DataEnd, CheckSum,
         Terminator, Overrun, RunOver, Reading, Ends
    <3>2. CASE UNCHANGED vars
      BY <2>1, <3>2 DEF vars, LineInv
    <3>3. CASE pc \in Reading /\ pc' \in (Reading \ {"head"}) \cup Ends /\ at' = at
      BY <2>1, <3>3 DEF LineInv, Reading, Ends
    <3> QED
      BY <3>1, <3>2, <3>3
  <2> QED
    BY <2>2, <2>3, <2>4
<1> QED
  BY <1>1, <1>2, <1>3, NextSplit

LEMMA LastOfSix ==
  ASSUME NEW x \in Int, NEW z \in Nat, z + 1 <= x, x <= z + 6,
         x # z + 1, x # z + 2, x # z + 3, x # z + 4, x # z + 5
  PROVE  x = z + 6
OBVIOUS

\* What the loop up to the carriage return puts into the buffer.
LEMMA BufferIsFilled ==
  ASSUME CodingInv, LineInv, Fill
  PROVE  BuffInv'
<1>1. PICK n \in at + 1 .. Len(wire) :
        /\ wire[n] = 13
        /\ \A j \in at + 1 .. n - 1 : wire[j] # 13
        /\ buff' = SubSeq(wire, at + 1, n)
  BY DEF Fill, KERM_KEY_TERM
<1>2. pc = "fill" /\ at \in Nat /\ SentOn
      /\ at = IF Hit = 0 THEN Noisy + Size + 7 ELSE Noisy + 1
  BY DEF Fill, LineInv
<1> DEFINE z == Noisy + Size + 6
<1>3. /\ Size \in 0 .. 91 /\ Noisy \in Nat /\ HasLen(wire, z + 6)
      /\ \A i \in 1 .. Size + 5 : wire[Noisy + 1 + i] = Came(i)
      /\ wire[z + 1] # 13 /\ wire[z + 2] # 13 /\ wire[z + 3] = 32 + NextSeq
      /\ wire[z + 4] # 13 /\ wire[z + 5] # 13 /\ wire[z + 6] = 13
  BY <1>2, CodingTypes, WireBytes DEF WireKnown
<1>z. z = Noisy + Size + 6 /\ z \in Nat /\ 32 + NextSeq # 13
  <2>1. NextSeq \in 0 .. 63
    BY CodingTypes
  <2> QED
    BY <1>3, <2>1
<1> HIDE DEF z
<1>4. n \in at + 1 .. z + 6
  BY <1>1, <1>3 DEF HasLen
<1>5. Len(buff') = n - at /\ \A i \in 1 .. n - at : buff'[i] = wire[at + i]
  <2>1. at + 1 \in Int /\ n \in Int /\ at + 1 <= n /\ n - (at + 1) + 1 = n - at
    BY <1>2, <1>4, <1>z
  <2>2. \A i \in at + 1 .. n : wire[i] \in Nat
    <3>1. \A i \in at + 1 .. n : i \in 1 .. z + 6
      BY <1>2, <1>4, <1>z
    <3>2. \A i \in 1 .. z + 6 : wire[i] \in Nat
      BY <1>3, ElementOfSeq DEF HasLen
    <3> QED
      BY <3>1, <3>2
  <2>3. /\ Len(buff') = n - (at + 1) + 1
        /\ \A i \in 1 .. n - (at + 1) + 1 : buff'[i] = wire[(at + 1) + i - 1]
    BY <1>1, <2>1, <2>2, Cut
  <2>4. \A i \in 1 .. n - at : (at + 1) + i - 1 = at + i
    BY <1>2, <2>1
  <2> QED
    BY <2>1, <2>3, <2>4
<1> DEFINE L == n - at
<1>6. Filled' = L /\ L \in Nat \ {0}
  BY <1>2, <1>4, <1>5, <1>z DEF Filled
<1>7. \A i \in 1 .. L : buff'[i] = wire[at + i]
  BY <1>5
<1>8. buff'[L] = 13 /\ \A i \in 1 .. L - 1 : buff'[i] # 13
  <2>1. at + L = n
    BY <1>2, <1>4, <1>z
  <2> HIDE DEF L
  <2>2. \A i \in 1 .. L - 1 : at + i \in at + 1 .. n - 1
    BY <1>2, <1>6, <2>1
  <2>3. \A i \in 1 .. L - 1 : i \in 1 .. L
    BY <1>6
  <2>4. L \in 1 .. L
    BY <1>6
  <2> QED
    BY <1>1, <1>7, <2>1, <2>2, <2>3, <2>4
<1>9. /\ Size' = Size /\ Hit' = Hit /\ NextSeq' = NextSeq /\ \A i : Came(i)' = Came(i)
  BY SamePacket DEF Fill
<1>10. CASE Hit = 0
  <2>1. at = z + 1
    BY <1>2, <1>3, <1>z, <1>10
  <2>2. n = z + 6
    <3>1. n \in Int /\ z + 1 <= n /\ n <= z + 6 /\ z + 1 # n
      BY <1>4, <1>z, <2>1
    <3>2. n # z + 1 /\ n # z + 2 /\ n # z + 3 /\ n # z + 4 /\ n # z + 5
      BY <1>1, <1>3, <1>z, <3>1
    <3> QED
      BY <1>z, <3>1, <3>2, LastOfSix
  <2>3. L = 5
    BY <1>3, <1>z, <2>1, <2>2
  <2>4. buff'[2] = 32 + NextSeq
    BY <1>3, <1>z, <1>7, <2>1, <2>3, (z + 1) + 2 = z + 3
  <2> QED
    BY <1>6, <1>8, <1>9, <1>10, <2>3, <2>4 DEF BuffInv, KERM_KEY_TERM, KERM_KEY_SPACE
<1>11. CASE Hit # 0
  <2>1. at = Noisy + 1
    BY <1>2, <1>11
  <2> HIDE DEF L
  <2>2. ASSUME NEW i \in 1 .. L, i <= Size + 5
        PROVE  buff'[i] = Came(i)
    <3>1. i \in 1 .. Size + 5
      BY <1>3, <1>6, <2>2
    <3>2. buff'[i] = wire[Noisy + 1 + i]
      BY <1>7, <2>1
    <3> QED
      BY <1>3, <3>1, <3>2
  <2>3. CameKnown /\ PlainKnown
    BY <1>2, CameBytes, PlainBytes
  <2>4. CASE L <= Size + 4
    <3>1. Came(L) = 13 /\ L \in 1 .. Size + 4
      BY <1>3, <1>6, <1>8, <2>2, <2>4
    <3>2. Plain(L) # 13
      BY <2>3, <3>1 DEF PlainKnown
    <3>3. L = Hit
      BY <1>3, <2>3, <3>1, <3>2 DEF CameKnown
    <3> QED
      BY <1>6, <1>8, <1>9, <1>11, <2>2, <3>1, <3>3 DEF BuffInv, KERM_KEY_TERM
  <2>5. Hit = Size + 5 => Came(Size + 5) # 13
    <3>1. Hit = Size + 5 => Hit \in 1 .. Size + 5 /\ Plain(Hit) = 13
      BY <1>3, <2>3 DEF PlainKnown
    <3>2. Hit = Size + 5 => Came(Hit) = 13 + Delta /\ Delta \in Int /\ Delta # 0
      BY <2>3, <3>1 DEF CameKnown, Weights
    <3> QED
      BY <3>1, <3>2
  <2>6. CASE L = Size + 5
    <3>1. Came(Size + 5) = 13
      <4>1. L \in 1 .. L /\ L <= Size + 5
        BY <1>6, <2>6
      <4> QED
        BY <1>8, <2>2, <2>6, <4>1
    <3> QED
      BY <1>6, <1>8, <1>9, <1>11, <2>2, <2>5, <2>6, <3>1 DEF BuffInv, KERM_KEY_TERM
  <2>7. CASE L > Size + 5
    <3>1. Came(Size + 5) # 13
      <4>1. Size + 5 \in 1 .. L - 1 /\ Size + 5 \in 1 .. L /\ Size + 5 <= Size + 5
        BY <1>3, <1>6, <2>7
      <4> QED
        BY <1>8, <2>2, <4>1
    <3>2. Hit = Size + 5
      BY <1>3, <2>3, <3>1 DEF CameKnown, PlainKnown
    <3>3. n > z
      BY <1>2, <1>3, <1>4, <1>z, <2>1, <2>7 DEF L
    <3>4. n = z + 6
      <4>1. n \in Int /\ z + 1 <= n /\ n <= z + 6
        BY <1>2, <1>4, <1>z, <3>3
      <4>2. n # z + 1 /\ n # z + 2 /\ n # z + 3 /\ n # z + 4 /\ n # z + 5
        BY <1>1, <1>3, <1>z
      <4> QED
        BY <1>z, <4>1, <4>2, LastOfSix
    <3>5. L = Size + 11
      BY <1>3, <1>z, <2>1, <3>4 DEF L
    <3> QED
      BY <1>6, <1>8, <1>9, <1>11, <2>2, <3>2, <3>5 DEF BuffInv, KERM_KEY_TERM
  <2> QED
    BY <1>3, <1>6, <2>4, <2>6, <2>7
<1> QED
  BY <1>10, <1>11

LEMMA BuffStep ==
  ASSUME CodingInv, LineInv, BuffInv, [Next]_vars
  PROVE  BuffInv'
<1>1. CASE Fill
  BY <1>1, BufferIsFilled
<1>2. CASE HostCode \/ HostSend \/ Mark
  <2>1. pc' \notin Reading
    BY <1>2 DEF HostCode, HostSend, Mark, Reading
  <2> QED
    BY <2>1 DEF BuffInv
<1>3. CASE BoardStep /\ ~ Fill /\ ~ Mark
  <2>1. Size' = Size /\ Hit' = Hit /\ NextSeq' = NextSeq /\ \A i : Came(i)' = Came(i)
    BY <1>3, BoardKeepsPacket, SamePacket
  <2>2. buff' = buff /\ (pc' \in Reading => pc \in Reading)
    BY <1>3 DEF BoardStep, Header, DataPlain, DataQuoted, DataEnd, CheckSum, Terminator,
       Overrun, RunOver, Reading, Ends, vars
  <2> QED
    BY <2>1, <2>2 DEF BuffInv, Filled
<1> QED
  BY <1>1, <1>2, <1>3, NextSplit

-----------------------------------------------------------------------------
(* Decoding *)

\* What the decoder's steps are shown from, together.
Known == CodingInv /\ LineInv /\ BuffInv /\ DecodeInv

LEMMA KnownLine ==
  ASSUME Known, pc \in Reading
  PROVE  PlainKnown /\ CameKnown /\ SentOn /\ Size \in 0 .. 91 /\ Filled \in Nat
<1>1. SentOn
  BY DEF Known, LineInv, Reading
<1> QED
  BY <1>1, CodingTypes, PlainBytes, CameBytes DEF Known, BuffInv

\* The sum of what comes grows by the byte that comes.
LEMMA SumGrows ==
  ASSUME PlainKnown, CameKnown, Size \in 0 .. 91
  PROVE  \A i \in 4 .. Size + 3 : SumCame(i) = SumCame(i - 1) + Came(i)
<1> SUFFICES ASSUME NEW i \in 4 .. Size + 3
             PROVE  SumCame(i) = SumCame(i - 1) + Came(i)
  OBVIOUS
<1>1. /\ SumTo(i) = SumTo(i - 1) + Plain(i)
      /\ SumTo(i - 1) \in Nat /\ Plain(i) \in Nat
  BY i - 1 \in 3 .. Size + 3, i \in 1 .. Size + 5 DEF PlainKnown, Byte
<1>2. CASE i = Hit
  <2>1. Hit \in 1 .. i /\ Hit \notin 1 .. i - 1
    BY <1>2
  <2>2. Came(i) = Plain(i) + Delta /\ Delta \in Int
    BY <1>2 DEF CameKnown
  <2> QED
    BY <1>1, <2>1, <2>2 DEF SumCame
<1>3. CASE i # Hit
  <2>1. Came(i) = Plain(i)
    BY <1>3 DEF CameKnown
  <2>2. Hit \in Int /\ (Hit \in 1 .. i <=> Hit \in 1 .. i - 1)
    BY <1>3 DEF CameKnown
  <2>3. Hit \in 1 .. i => Delta \in Int
    <3>1. Hit \in 1 .. i => Hit \in 1 .. Size + 5
      BY <2>2
    <3> QED
      BY <3>1 DEF CameKnown
  <2>4. CASE Hit \in 1 .. i
    BY <1>1, <2>1, <2>2, <2>3, <2>4 DEF SumCame
  <2>5. CASE Hit \notin 1 .. i
    BY <1>1, <2>1, <2>2, <2>5 DEF SumCame
  <2> QED
    BY <2>4, <2>5
<1> QED
  BY <1>2, <1>3

LEMMA HeaderDecoded ==
  ASSUME Known, Header, pc' = "data"
  PROVE  DecodeInv' /\ type' = Came(3)
<1>1. /\ pc = "head" /\ index' = 4 /\ buff[2] - 32 = seq0 /\ Len(buff) >= 3
      /\ len' = IF buff[1] = 32 THEN 0 ELSE buff[1] - 32 - 2
      /\ type' = buff[3] /\ checksum' = buff[1] + buff[2] + buff[3]
      /\ buff' = buff
  BY DEF Header, RunOver, Received, KERM_KEY_SPACE
<1>2. PlainKnown /\ CameKnown /\ SentOn /\ Size \in 0 .. 91 /\ Filled \in Nat
  BY <1>1, KnownLine DEF Reading
<1>3. Filled >= 3 /\ Filled' = Filled
  BY <1>1 DEF Filled
<1>4. seq0 \in 0 .. 63 /\ NextSeq \in 0 .. 63 /\ NextSeq # seq0
  BY CodingTypes DEF Known
<1>5. Hit # 0
  <2>1. Hit = 0 => buff[2] = 32 + NextSeq
    BY <1>1 DEF Known, BuffInv, Reading, KERM_KEY_SPACE
  <2> QED
    BY <1>1, <1>4, <2>1
<1>6. buff[1] = Came(1) /\ buff[2] = Came(2) /\ buff[3] = Came(3)
  <2>1. \A i \in 1 .. Filled : i <= Size + 5 => buff[i] = Came(i)
    BY <1>1, <1>5 DEF Known, BuffInv, Reading
  <2> QED
    BY <1>2, <1>3, <2>1
<1>7. Came(1) \in 0 .. 255 /\ Came(2) \in 0 .. 255 /\ Came(3) \in 0 .. 255
  BY <1>2 DEF CameKnown, Byte
<1>8. Hit # 2
  <2>1. Hit = 2 => Came(2) = 32 + seq0 + Delta /\ Delta \in Int /\ Delta # 0
    BY <1>2 DEF CameKnown, PlainKnown, Weights
  <2>2. Came(2) = 32 + seq0
    <3>1. Came(2) - 32 = seq0
      BY <1>1, <1>6
    <3> QED
      BY <1>4, <1>7, <3>1
  <2> QED
    BY <1>4, <1>6, <2>1, <2>2
<1>9. Hit # 1 => Came(1) = Size + 35
  BY <1>2 DEF CameKnown, PlainKnown
<1>10. Came(1) + Came(2) + Came(3) = SumCame(3)
  <2>1. SumTo(3) = Plain(1) + Plain(2) + Plain(3)
    BY <1>2 DEF PlainKnown
  <2>2. /\ Plain(1) \in Nat /\ Plain(2) \in Nat /\ Plain(3) \in Nat
        /\ Hit \in Int
    <3>1. Plain(1) = Size + 35 /\ Plain(2) = 32 + seq0 /\ Plain(3) = type0 /\ type0 \in 33 .. 126
      BY <1>2, CodingTypes DEF PlainKnown, Known
    <3>2. Hit \in Int
      BY <1>2 DEF CameKnown
    <3> QED
      BY <1>2, <1>4, <3>1, <3>2
  <2>3. CASE Hit \in 1 .. 3
    <3>1. Came(Hit) = Plain(Hit) + Delta /\ Delta \in Int
      BY <1>2, <2>3 DEF CameKnown
    <3>2. \A i \in 1 .. 3 : i # Hit => Came(i) = Plain(i)
      BY <1>2 DEF CameKnown
    <3>3. SumCame(3) = SumTo(3) + Delta
      BY <2>3 DEF SumCame
    <3> QED
      BY <2>1, <2>2, <2>3, <3>1, <3>2, <3>3
  <2>4. CASE Hit \notin 1 .. 3
    <3>1. Came(1) = Plain(1) /\ Came(2) = Plain(2) /\ Came(3) = Plain(3)
      BY <1>2, <2>4 DEF CameKnown
    <3>2. SumCame(3) = SumTo(3) + 0
      BY <2>4 DEF SumCame
    <3> QED
      BY <2>1, <2>2, <3>1, <3>2
  <2> QED
    BY <2>3, <2>4
<1>11. Size' = Size /\ Hit' = Hit /\ \A i : Came(i)' = Came(i) /\ SumCame(i)' = SumCame(i)
  BY SamePacket DEF Header
<1>12. Place' = 4
  BY <1>1 DEF Place
<1>13. /\ len' \in Int /\ 4 + len' = IF Came(1) = 32 THEN 4 ELSE Came(1) - 30
       /\ Hit # 1 => len' >= 0
  <2>1. CASE Came(1) = 32
    BY <1>1, <1>6, <2>1
  <2>2. CASE Came(1) # 32
    <3>1. len' = Came(1) - 32 - 2
      BY <1>1, <1>6, <2>2
    <3> QED
      BY <1>2, <1>7, <1>9, <2>2, <3>1
  <2> QED
    BY <2>1, <2>2
<1>14. checksum' = SumCame(3) /\ checksum' \in Nat
  <2>1. checksum' = Came(1) + Came(2) + Came(3)
    BY <1>1, <1>6
  <2>2. Came(1) + Came(2) + Came(3) \in Nat
    <3>1. \A a, b, c \in 0 .. 255 : a + b + c \in Nat
      OBVIOUS
    <3> QED
      BY <1>7, <3>1, Zenon
  <2> QED
    BY <1>10, <2>1, <2>2
<1>15. 4 <= Filled' + 1 /\ 4 \in Nat /\ 4 - 1 = 3
  BY <1>2, <1>3
<1> QED
  BY <1>1, <1>3, <1>5, <1>6, <1>8, <1>11, <1>12, <1>13, <1>14, <1>15
     DEF DecodeInv, KERM_KEY_SPACE

LEMMA DataDecoded ==
  ASSUME Known, DataPlain \/ DataQuoted
  PROVE  DecodeInv'
<1>1. pc = "data" /\ pc' = "data" /\ len > 1 /\ UNCHANGED <<buff, type>>
  BY DEF DataPlain, DataQuoted, IsQuoted
<1>2. PlainKnown /\ CameKnown /\ SentOn /\ Size \in 0 .. 91 /\ Filled \in Nat
  BY <1>1, KnownLine DEF Reading
<1>3. Filled' = Filled /\ Size' = Size /\ Hit' = Hit
      /\ \A i : Came(i)' = Came(i) /\ SumCame(i)' = SumCame(i)
  BY <1>1, SamePacket DEF DataPlain, DataQuoted, Filled
<1>4. Place = index /\ Place' = index'
  BY <1>1 DEF Place
<1>5. /\ Hit # 0 /\ Hit # 2 /\ Filled >= 3 /\ type = Came(3)
      /\ index \in Nat /\ index >= 4 /\ index <= Filled + 1 /\ len \in Int
      /\ index + len = IF Came(1) = 32 THEN 4 ELSE Came(1) - 30
      /\ index <= Size + 4 => checksum \in Nat /\ checksum = SumCame(index - 1)
  BY <1>1, <1>4 DEF Known, DecodeInv, KERM_KEY_SPACE
<1>6. Came(1) \in Int
  BY <1>2 DEF CameKnown, Byte
<1>7. ASSUME NEW i \in 4 .. Size + 3, i <= Filled
      PROVE  /\ buff[i] \in Nat /\ SumCame(i) = SumCame(i - 1) + buff[i]
  <2>1. buff[i] = Came(i)
    BY <1>1, <1>2, <1>5, <1>7 DEF Known, BuffInv, Reading
  <2>2. Came(i) \in Nat
    BY <1>2 DEF CameKnown, Byte
  <2> QED
    BY <1>2, <2>1, <2>2, SumGrows
<1>8. CASE DataPlain
  <2>1. index' = index + 1 /\ len' = len - 1 /\ checksum' = checksum + buff[index]
        /\ index <= Filled
    BY <1>1, <1>8 DEF DataPlain, RunOver, Received, Filled
  <2>2. index' <= Size + 4 => checksum' \in Nat /\ checksum' = SumCame(index' - 1)
    <3> SUFFICES ASSUME index + 1 <= Size + 4
                 PROVE  checksum' \in Nat /\ checksum' = SumCame(index)
      BY <1>5, <2>1, (index + 1) - 1 = index
    <3>1. index \in 4 .. Size + 3
      BY <1>2, <1>5
    <3> QED
      BY <1>2, <1>5, <1>7, <2>1, <3>1
  <2>3. /\ index' \in Nat /\ index' >= 4 /\ index' <= Filled + 1 /\ len' \in Int /\ len' >= 0
        /\ index' + len' = index + len
    BY <1>1, <1>2, <1>5, <2>1
  <2> QED
    BY <1>1, <1>3, <1>4, <1>5, <2>2, <2>3 DEF DecodeInv, KERM_KEY_SPACE
<1>9. CASE DataQuoted
  <2>1. /\ index' = index + 2 /\ len' = len - 2
        /\ checksum' = checksum + buff[index] + buff[index + 1]
        /\ index + 1 <= Filled
    BY <1>1, <1>9 DEF DataQuoted, RunOver, Received, Filled
  <2>2. index' <= Size + 4 => checksum' \in Nat /\ checksum' = SumCame(index' - 1)
    <3> SUFFICES ASSUME index + 2 <= Size + 4
                 PROVE  checksum' \in Nat /\ checksum' = SumCame(index + 1)
      BY <1>5, <2>1, (index + 2) - 1 = index + 1
    <3>1. index \in 4 .. Size + 3 /\ index + 1 \in 4 .. Size + 3 /\ index <= Filled
          /\ index <= Size + 4
      BY <1>2, <1>5, <2>1
    <3>2. buff[index] \in Nat /\ SumCame(index) = SumCame(index - 1) + buff[index]
      BY <1>7, <3>1
    <3>3. buff[index + 1] \in Nat
          /\ SumCame(index + 1) = SumCame(index) + buff[index + 1]
      BY <1>7, <2>1, <3>1, <1>5, (index + 1) - 1 = index
    <3> QED
      BY <1>5, <2>1, <3>1, <3>2, <3>3
  <2>3. /\ index' \in Nat /\ index' >= 4 /\ index' <= Filled + 1 /\ len' \in Int /\ len' >= 0
        /\ index' + len' = index + len
    BY <1>1, <1>2, <1>5, <2>1
  <2> QED
    BY <1>1, <1>3, <1>4, <1>5, <2>2, <2>3 DEF DecodeInv, KERM_KEY_SPACE
<1> QED
  BY <1>8, <1>9

LEMMA DecodeStep ==
  ASSUME Known, [Next]_vars
  PROVE  DecodeInv'
<1>1. CASE pc' \notin {"data", "check", "term"}
  BY <1>1 DEF DecodeInv
<1>2. CASE pc' \in {"data", "check", "term"} /\ Header
  BY <1>2, HeaderDecoded DEF Header
<1>3. CASE DataPlain \/ DataQuoted
  BY <1>3, DataDecoded
<1>4. CASE DataEnd
  <2>1. pc = "data" /\ pc' = "check" /\ len <= 1 /\ UNCHANGED <<buff, type, index, len, checksum>>
    BY <1>4 DEF DataEnd
  <2>2. Filled' = Filled /\ Size' = Size /\ Hit' = Hit
        /\ \A i : Came(i)' = Came(i) /\ SumCame(i)' = SumCame(i)
    BY <1>4, <2>1, SamePacket DEF DataEnd, Filled
  <2> QED
    BY <2>1, <2>2 DEF Known, DecodeInv, Place
<1>5. CASE pc' = "term" /\ CheckSum
  <2>1. /\ pc = "check" /\ index' = index + 1 /\ buff[index] = Check(checksum)
        /\ index <= Filled /\ UNCHANGED <<buff, type, len, checksum>>
    BY <1>5 DEF CheckSum, RunOver, Received, Filled
  <2>2. Filled' = Filled /\ Size' = Size /\ Hit' = Hit
        /\ \A i : Came(i)' = Came(i) /\ SumCame(i)' = SumCame(i)
    BY <1>5, <2>1, SamePacket DEF CheckSum, Filled
  <2>3. index \in Nat /\ Filled \in Nat
    BY <2>1, KnownLine DEF Known, DecodeInv, Reading
  <2>4. Place = index /\ Place' = index /\ index' - 1 = index
    BY <1>5, <2>1, <2>3 DEF Place
  <2>5. Check(checksum)' = Check(checksum)
    BY <2>1 DEF Check
  <2>6. index' \in Nat /\ index' <= Filled + 1
    BY <2>1, <2>3
  <2> QED
    BY <1>5, <2>1, <2>2, <2>3, <2>4, <2>5, <2>6 DEF Known, DecodeInv
<1>6. CASE UNCHANGED vars
  <2>1. UNCHANGED packet /\ UNCHANGED <<pc, buff, type, index, len, checksum>>
    BY <1>6 DEF vars
  <2>2. Filled' = Filled /\ Place' = Place /\ Size' = Size /\ Hit' = Hit
        /\ \A i : Came(i)' = Came(i) /\ SumCame(i)' = SumCame(i)
    BY <2>1, SamePacket DEF Filled, Place
  <2> QED
    BY <2>1, <2>2 DEF Known, DecodeInv, Check
<1> QED
  BY <1>1, <1>2, <1>3, <1>4, <1>5, <1>6, NextSplit DEF BoardStep, HostCode, HostSend, Mark, Fill,
     Terminator, Overrun, Ends, CheckSum

-----------------------------------------------------------------------------
(* A flip is seen *)

\* Before the carriage return: the carriage return that ends the buffer stands
\* where the check character's place says, and that is where the host has put
\* it.
LEMMA TermIsWhereItWas ==
  ASSUME Known, pc = "term", index <= Filled, buff[index] = KERM_KEY_TERM
  PROVE  /\ Filled = Size + 5 /\ Hit # Size + 5 /\ index = Filled
         /\ checksum \in Nat /\ checksum = SumCame(Size + 3)
         /\ Came(Size + 4) = Check(checksum)
<1>1. PlainKnown /\ CameKnown /\ SentOn /\ Size \in 0 .. 91 /\ Filled \in Nat
  BY KnownLine DEF Reading
<1>2. /\ \A i \in 1 .. Filled - 1 : buff[i] # 13
      /\ \A i \in 1 .. Filled : i <= Size + 5 => buff[i] = Came(i)
      /\ \/ Filled = Size + 5 /\ Hit # Size + 5
         \/ Filled = Hit /\ Hit \in 1 .. Size + 4
         \/ Filled = Size + 11 /\ Hit = Size + 5
  BY DEF Known, BuffInv, DecodeInv, Reading, KERM_KEY_TERM
<1>3. /\ Hit # 0 /\ Hit # 2 /\ Filled >= 3
      /\ index \in Nat /\ index - 1 >= 4 /\ len \in Int /\ len <= 1
      /\ (index - 1) + len = IF Came(1) = 32 THEN 4 ELSE Came(1) - 30
      /\ Hit # 1 => len >= 0
      /\ index - 1 <= Size + 4 => checksum \in Nat /\ checksum = SumCame((index - 1) - 1)
      /\ buff[index - 1] = Check(checksum)
  BY DEF Known, DecodeInv, Place, KERM_KEY_SPACE
<1>4. index = Filled
  BY <1>1, <1>2, <1>3 DEF KERM_KEY_TERM
<1>5. Hit # 1 => (index - 1) + len = Size + 5
  <2>1. Hit # 1 => Came(1) = Size + 35
    BY <1>1 DEF CameKnown, PlainKnown
  <2> QED
    BY <1>1, <1>3, <2>1
<1>6. ~ (Filled = Hit /\ Hit \in 1 .. Size + 4)
  BY <1>1, <1>3, <1>4, <1>5
<1>7. ~ (Filled = Size + 11 /\ Hit = Size + 5)
  BY <1>1, <1>3, <1>4, <1>5
<1>8. Filled = Size + 5 /\ Hit # Size + 5
  BY <1>2, <1>6, <1>7
<1>9. index - 1 = Size + 4 /\ (index - 1) - 1 = Size + 3
  BY <1>1, <1>4, <1>8
<1>10. checksum \in Nat /\ checksum = SumCame(Size + 3)
  BY <1>1, <1>3, <1>9
<1>11. buff[Size + 4] = Came(Size + 4)
  BY <1>1, <1>2, <1>8
<1> QED
  BY <1>3, <1>4, <1>8, <1>9, <1>10, <1>11

LEMMA FlipChangesCheck ==
  ASSUME PlainKnown, CameKnown, Size \in 0 .. 91, Hit \in 1 .. Size + 4,
         SumCame(Size + 3) \in Nat
  PROVE  Came(Size + 4) # Check(SumCame(Size + 3))
<1>1. /\ Plain(Size + 4) = Check(SumTo(Size + 3)) /\ SumTo(Size + 3) \in Nat
      /\ Plain(Size + 4) \in Nat
  BY DEF PlainKnown, Byte
<1>2. /\ Came(Hit) = Plain(Hit) + Delta
      /\ Delta \in Int /\ (Delta \in Weights \/ -Delta \in Weights)
      /\ \A i \in 1 .. Size + 5 : i # Hit => Came(i) = Plain(i)
  BY DEF CameKnown
<1>3. CASE Hit = Size + 4
  <2>1. SumCame(Size + 3) = SumTo(Size + 3)
    BY <1>1, <1>3 DEF SumCame
  <2>2. Came(Size + 4) = Plain(Size + 4) + Delta /\ Delta # 0
    BY <1>2, <1>3 DEF Weights
  <2> QED
    BY <1>1, <1>2, <2>1, <2>2
<1>4. CASE Hit \in 1 .. Size + 3
  <2> DEFINE s == SumTo(Size + 3)
             t == SumCame(Size + 3)
  <2>1. t = s + Delta
    BY <1>4 DEF SumCame
  <2>2. Came(Size + 4) = Check(s)
    BY <1>1, <1>2, <1>4
  <2>3. s \in Nat /\ t \in Nat
    BY <1>1
  <2> HIDE DEF s, t
  <2>4. \A x \in Nat : \A d \in Weights : Check(x + d) # Check(x)
    BY OneBitChangesCheck DEF Weights
  <2>5. CASE Delta \in Weights
    <3>1. Check(s + Delta) # Check(s)
      BY <2>3, <2>4, <2>5, Zenon
    <3> QED
      BY <2>1, <2>2, <3>1 DEF t
  <2>6. CASE -Delta \in Weights
    <3>1. s = t + (-Delta)
      BY <1>2, <2>1, <2>3
    <3>2. Check(t + (-Delta)) # Check(t)
      BY <2>3, <2>4, <2>6, Zenon
    <3> QED
      BY <2>2, <3>1, <3>2 DEF t
  <2> QED
    BY <1>2, <2>5, <2>6 DEF t
<1> QED
  BY <1>3, <1>4

LEMMA FlipStep ==
  ASSUME Known, FlipIsSeen, [Next]_vars
  PROVE  FlipIsSeen'
<1>1. CASE Terminator
  <2> SUFFICES ASSUME pc' = "accepted", flip' # NoFlip
               PROVE  FALSE
    BY DEF FlipIsSeen
  <2>1. /\ pc = "term" /\ index <= Filled /\ buff[index] = KERM_KEY_TERM
        /\ flip # NoFlip
    BY <1>1 DEF Terminator, RunOver, Received, Filled, packet
  <2>2. /\ Hit # Size + 5 /\ SumCame(Size + 3) \in Nat
        /\ Came(Size + 4) = Check(SumCame(Size + 3))
    BY <2>1, TermIsWhereItWas
  <2>3. PlainKnown /\ CameKnown /\ Size \in 0 .. 91
    BY <2>1, KnownLine DEF Reading
  <2>4. Hit \in 1 .. Size + 4
    <3>1. Hit # 0
      BY <2>1 DEF Known, DecodeInv
    <3>2. Hit \in -1 .. Size + 5 /\ Hit # -1
      BY <2>1, <2>3 DEF CameKnown
    <3> QED
      BY <2>2, <2>3, <3>1, <3>2
  <2> QED
    BY <2>2, <2>3, <2>4, FlipChangesCheck
<1>2. CASE Overrun
  <2>1. index' = Len(buff) + 2 /\ buff' = buff
    BY <1>2 DEF Overrun
  <2>2. Len(buff) \in Nat
    <3>1. pc \in Reading
      BY <1>2 DEF Overrun, RunOver, Reading
    <3> QED
      BY <3>1, KnownLine DEF Filled
  <2>3. RunsOver'
    BY <2>1, <2>2 DEF RunsOver
  <2> QED
    BY <2>3 DEF FlipIsSeen
<1>3. CASE UNCHANGED vars
  BY <1>3 DEF vars, packet, FlipIsSeen, RunsOver
<1>4. CASE pc' # "accepted"
  BY <1>4 DEF FlipIsSeen
<1> QED
  BY <1>1, <1>2, <1>3, <1>4, NextSplit DEF BoardStep, HostCode, HostSend, Mark, Fill, Header,
     DataPlain, DataQuoted, DataEnd, CheckSum

-----------------------------------------------------------------------------
(* A frame without a flip is read *)

\* The next byte of the payload, as it stands in the buffer.
NextByte ==
  LET k == Held + 1
      q == Quote(payload[k])
  IN  /\ k \in 1 .. Count /\ payload[k] \in Byte
      /\ Len(q) \in {1, 2} /\ buff[index] = q[1]
      /\ Len(q) = 2 => index + 1 <= Filled /\ buff[index + 1] = q[2]
      /\ first[k + 1] = first[k] + Len(q) /\ first[k + 1] <= Size + 1
      /\ first[k] \in Nat

\* Without a flip: the buffer holds the frame and the places add up.
LEMMA CleanFacts ==
  ASSUME Known, CleanInv, flip = NoFlip, pc \in Reading
  PROVE  /\ PlainKnown /\ Size \in 0 .. 91 /\ Hit = -1
         /\ Filled = Size + 5 /\ \A i \in 1 .. Size + 5 : buff[i] = Plain(i)
         /\ pc # "head" =>
              /\ type = type0 /\ Place \in Nat /\ Place >= 4 /\ len \in Int
              /\ Place + len = Size + 5 /\ Place <= Size + 4
<1>1. PlainKnown /\ CameKnown /\ Size \in 0 .. 91 /\ Filled \in Nat
  BY KnownLine
<1>2. Hit = -1
  BY <1>1 DEF CameKnown
<1>3. \A i \in 1 .. Size + 5 : Came(i) = Plain(i)
  BY <1>1, <1>2 DEF CameKnown
<1>4. Filled = Size + 5 /\ \A i \in 1 .. Size + 5 : buff[i] = Plain(i)
  BY <1>1, <1>2, <1>3 DEF Known, BuffInv
<1>5. ASSUME pc # "head"
      PROVE  /\ type = type0 /\ Place \in Nat /\ Place >= 4 /\ len \in Int
             /\ Place + len = Size + 5 /\ Place <= Size + 4
  <2>1. pc \in {"data", "check", "term"}
    BY <1>5 DEF Reading
  <2>2. /\ type = Came(3) /\ index \in Nat /\ Place >= 4 /\ len \in Int
        /\ Place + len = IF Came(1) = 32 THEN 4 ELSE Came(1) - 30
    BY <2>1 DEF Known, DecodeInv, KERM_KEY_SPACE
  <2>3. Came(1) = Size + 35 /\ Came(3) = type0
    BY <1>1, <1>3 DEF PlainKnown
  <2>4. Place \in Nat
    BY <2>2 DEF Place
  <2>5. Place <= Size + 4
    <3>1. CASE type0 = KERM_TYPE_DATA
      <4>1. Place = 3 + first[Held + 1] /\ Held <= Count /\ stored \in Seq(Byte)
        BY <2>1, <3>1 DEF CleanInv
      <4>2. Held \in Nat /\ Count \in Nat
        BY <4>1, LenProperties DEF Held, Count, Known, CodingInv
      <4>3. first[Held + 1] \in Nat /\ first[Held + 1] <= Size + 1
        <5>1. Held + 1 \in 1 .. Count + 1
          BY <4>1, <4>2
        <5>2. \A j \in 1 .. Count + 1 : first[j] \in Nat
          BY ElementOfSeq DEF Known, CodingInv
        <5>3. CASE Held = Count
          BY <1>1, <5>1, <5>2, <5>3 DEF Known, CodingInv
        <5>4. CASE Held # Count
          <6>1. Held + 1 \in 1 .. Count
            BY <4>1, <4>2, <5>4
          <6>2. Coded(Held + 1) /\ payload[Held + 1] \in Byte
            BY <6>1, ElementOfSeq DEF Known, CodingInv, Count
          <6>3. Len(Quote(payload[Held + 1])) \in {1, 2}
            BY <6>2, QuoteIsShort
          <6> QED
            BY <1>1, <5>1, <5>2, <6>2, <6>3 DEF Coded
        <5> QED
          BY <5>3, <5>4
      <4> QED
        BY <1>1, <4>1, <4>3
    <3>2. CASE type0 # KERM_TYPE_DATA
      BY <2>1, <3>2 DEF CleanInv
    <3> QED
      BY <3>1, <3>2
  <2> QED
    BY <1>1, <2>2, <2>3, <2>4, <2>5
<1> QED
  BY <1>1, <1>2, <1>4, <1>5

LEMMA NextByteReady ==
  ASSUME Known, CleanInv, flip = NoFlip, pc = "data", type0 = KERM_TYPE_DATA, len > 1
  PROVE  NextByte
<1>1. /\ PlainKnown /\ Size \in 0 .. 91
      /\ Filled = Size + 5 /\ (\A i \in 1 .. Size + 5 : buff[i] = Plain(i))
      /\ Place + len = Size + 5 /\ len \in Int
  BY CleanFacts DEF Reading
<1>2. Place = index /\ index = 3 + first[Held + 1] /\ Held <= Count /\ stored \in Seq(Byte)
  BY DEF CleanInv, Place
<1>3. Held \in Nat /\ Count \in Nat
  BY <1>2, LenProperties DEF Held, Count, Known, CodingInv
<1> DEFINE k == Held + 1
           q == Quote(payload[k])
<1>4. k \in 1 .. Count + 1 /\ first[k] \in Nat
  <2>1. k \in 1 .. Count + 1
    BY <1>2, <1>3
  <2> QED
    BY <2>1, ElementOfSeq DEF Known, CodingInv
<1>5. first[k] < Size + 1
  BY <1>1, <1>2, <1>4
<1>6. k \in 1 .. Count
  <2>1. first[Count + 1] = Size + 1
    BY DEF Known, CodingInv
  <2> QED
    BY <1>1, <1>3, <1>4, <1>5, <2>1
<1>7. payload[k] \in Byte
  BY <1>6, ElementOfSeq DEF Known, CodingInv, Count
<1>8. /\ first[k] >= 1 /\ first[k + 1] = first[k] + Len(q) /\ first[k + 1] <= Size + 1
      /\ \A i \in 1 .. Len(q) : data[first[k] + i - 1] = q[i]
  BY <1>6 DEF Known, CodingInv, Coded
<1>9. Len(q) \in {1, 2}
  BY <1>7, QuoteIsShort
<1> HIDE DEF k, q
<1>10. ASSUME NEW i \in 1 .. Len(q)
       PROVE  buff[index + i - 1] = q[i] /\ index + i - 1 <= Filled
  <2>1. first[k] + i - 1 \in 1 .. Size
    BY <1>1, <1>4, <1>8, <1>9
  <2>2. index + i - 1 = (first[k] + i - 1) + 3
    BY <1>2, <1>4, <1>9 DEF k
  <2>3. Plain((first[k] + i - 1) + 3) = data[first[k] + i - 1]
    BY <1>1, <2>1 DEF PlainKnown
  <2>4. index + i - 1 \in 1 .. Size + 5
    BY <1>1, <2>1, <2>2
  <2> QED
    BY <1>1, <1>8, <2>2, <2>3, <2>4
<1>11. index \in Int
  BY <1>2, <1>4 DEF k
<1>12. buff[index] = q[1]
  BY <1>9, <1>10, <1>11, index + 1 - 1 = index, 1 \in 1 .. Len(q)
<1>13. Len(q) = 2 => index + 1 <= Filled /\ buff[index + 1] = q[2]
  BY <1>10, <1>11, index + 2 - 1 = index + 1
<1> QED
  BY <1>4, <1>6, <1>7, <1>8, <1>9, <1>12, <1>13 DEF NextByte, k, q

\* The board never reads behind such a frame.
LEMMA CleanStays ==
  ASSUME Known, CleanInv, flip = NoFlip
  PROVE  ~ RunOver
<1>1. CASE pc \notin Reading
  BY <1>1 DEF RunOver, Reading
<1>2. CASE pc \in Reading
  <2>1. /\ Size \in 0 .. 91 /\ Filled = Size + 5
        /\ pc # "head" => type = type0 /\ Place \in Nat /\ Place <= Size + 4
    BY <1>2, CleanFacts
  <2>2. pc # "head" => index <= Filled
    <3>1. CASE pc = "term"
      <4>1. index \in Nat
        BY <3>1 DEF Known, DecodeInv
      <4> QED
        BY <2>1, <3>1, <4>1 DEF Place
    <3>2. CASE pc # "term"
      BY <2>1, <3>2 DEF Place
    <3> QED
      BY <3>1, <3>2
  <2>3. pc = "data" /\ IsQuoted => index + 1 <= Filled
    <3> SUFFICES ASSUME pc = "data", IsQuoted
                 PROVE  index + 1 <= Filled
      OBVIOUS
    <3>1. type0 = KERM_TYPE_DATA /\ len > 1 /\ buff[index] = KERM_KEY_SHARP
      BY <2>1 DEF IsQuoted
    <3>2. NextByte
      BY <3>1, NextByteReady
    <3>3. Len(Quote(payload[Held + 1])) = 2
      BY <3>1, <3>2, CodingIsUndone DEF NextByte
    <3> QED
      BY <3>2, <3>3 DEF NextByte
  <2> QED
    BY <2>1, <2>2, <2>3 DEF RunOver, Received, Filled
<1> QED
  BY <1>1, <1>2

\* The header leads to the coding of the first byte.
LEMMA CleanStarts ==
  ASSUME Known, CleanInv, Header, flip' = NoFlip, pc' = "data"
  PROVE  CleanInv'
<1>1. /\ pc = "head" /\ index' = 4 /\ UNCHANGED packet /\ stored' = stored
      /\ flip = NoFlip
  BY DEF Header, packet
<1>2. stored = <<>> /\ Size \in 0 .. 91
  BY <1>1, CleanFacts DEF Known, LineInv, Reading
<1>3. /\ type0' = type0 /\ first' = first /\ payload' = payload
      /\ Size' = Size /\ Count' = Count
  BY <1>1, SamePacket DEF packet
<1>4. Held' = 0 /\ stored' \in Seq(Byte) /\ Count \in Nat
  <2>1. stored' = <<>>
    BY <1>1, <1>2
  <2>2. payload \in Seq(Byte)
    BY DEF Known, CodingInv
  <2> QED
    BY <2>1, <2>2, LenProperties DEF Held, Count
<1>5. Place' = 4
  BY <1>1 DEF Place
<1>6. first[1] = 1
  BY DEF Known, CodingInv
<1>7. Place' = 3 + first'[Held' + 1] /\ Held' <= Count' /\ \A i \in 1 .. Held' : FALSE
  BY <1>3, <1>4, <1>5, <1>6
<1>8. stored' = <<>> /\ Place' <= Size' + 4
  BY <1>1, <1>2, <1>3, <1>5
<1> QED
  BY <1>4, <1>7, <1>8 DEF CleanInv

\* One more byte is decoded, and it is the next one of the payload.
LEMMA ByteIsDecoded ==
  ASSUME Known, CleanInv, flip = NoFlip, DataPlain \/ DataQuoted, type0 = KERM_TYPE_DATA
  PROVE  /\ Held + 1 \in 1 .. Count /\ payload[Held + 1] \in Byte
         /\ stored' = Append(stored, payload[Held + 1])
         /\ index' = 3 + first[Held + 2]
<1> DEFINE k == Held + 1
           q == Quote(payload[k])
<1>1. pc = "data" /\ len > 1
  BY DEF DataPlain, DataQuoted, IsQuoted
<1>2. NextByte
  BY <1>1, NextByteReady
<1>3. /\ k \in 1 .. Count /\ payload[k] \in Byte
      /\ Len(q) \in {1, 2} /\ buff[index] = q[1]
      /\ Len(q) = 2 => buff[index + 1] = q[2]
      /\ first[k + 1] = first[k] + Len(q) /\ first[k] \in Nat
  BY <1>2 DEF NextByte
<1>4. /\ Len(q) = 1 => q[1] = payload[k] /\ payload[k] # KERM_KEY_SHARP
      /\ Len(q) = 2 => q[1] = KERM_KEY_SHARP /\ Unquote(q[2]) = payload[k]
  BY <1>3, CodingIsUndone
<1>5. type = KERM_TYPE_DATA /\ Filled = Size + 5 /\ Place <= Size + 4 /\ Size \in 0 .. 91
  BY <1>1, CleanFacts DEF Reading
<1>6. index = 3 + first[k] /\ Place = index /\ Held \in Nat
  BY <1>1, LenProperties DEF CleanInv, Place, Held
<1>7. Received(index)
  BY <1>3, <1>5, <1>6 DEF Received, Filled
<1>8. IsQuoted <=> Len(q) = 2
  BY <1>1, <1>3, <1>4, <1>5, <1>7 DEF IsQuoted
<1> HIDE DEF q
<1>9. CASE DataPlain
  <2>1. Len(q) = 1 /\ buff[index] = payload[k] /\ index' = index + 1
        /\ stored' = Append(stored, buff[index])
    BY <1>3, <1>4, <1>5, <1>8, <1>9 DEF DataPlain, Store
  <2> QED
    BY <1>3, <1>6, <2>1, (Held + 1) + 1 = Held + 2
<1>10. CASE DataQuoted
  <2>1. Len(q) = 2 /\ Unquote(buff[index + 1]) = payload[k] /\ index' = index + 2
        /\ stored' = Append(stored, Unquote(buff[index + 1]))
    BY <1>3, <1>4, <1>5, <1>8, <1>10 DEF DataQuoted, Store
  <2> QED
    BY <1>3, <1>6, <2>1, (Held + 1) + 1 = Held + 2
<1> QED
  BY <1>9, <1>10

LEMMA CleanDecoded ==
  ASSUME Known, CleanInv, DataPlain \/ DataQuoted, flip' = NoFlip
  PROVE  CleanInv'
<1>1. /\ UNCHANGED packet /\ pc' = "data" /\ pc = "data" /\ len > 1 /\ type' = type
      /\ flip = NoFlip
  BY DEF DataPlain, DataQuoted, IsQuoted, packet
<1>2. /\ type0' = type0 /\ first' = first /\ payload' = payload
      /\ Size' = Size /\ Count' = Count
  BY <1>1, SamePacket DEF packet
<1>3. /\ type = type0 /\ index \in Nat /\ len \in Int /\ index + len = Size + 5
      /\ Size \in 0 .. 91
  BY <1>1, CleanFacts DEF Reading, Place
<1>4. Place' = index'
  BY <1>1 DEF Place
<1>5. CASE type0 = KERM_TYPE_DATA
  <2>1. /\ Held + 1 \in 1 .. Count /\ payload[Held + 1] \in Byte
        /\ stored' = Append(stored, payload[Held + 1])
        /\ index' = 3 + first[Held + 2]
    BY <1>1, <1>5, ByteIsDecoded
  <2>2. stored \in Seq(Byte) /\ \A i \in 1 .. Held : stored[i] = payload[i]
    BY <1>1, <1>5 DEF CleanInv
  <2> DEFINE x == payload[Held + 1]
  <2> HIDE DEF x
  <2>3. /\ Append(stored, x) \in Seq(Byte)
        /\ Len(Append(stored, x)) = Held + 1
        /\ \A i \in 1 .. Held : Append(stored, x)[i] = stored[i]
        /\ Append(stored, x)[Held + 1] = x
    BY <2>1, <2>2, AppendProperties DEF Held, x
  <2>4. stored' = Append(stored, x)
    BY <2>1 DEF x
  <2>5. Held \in Nat
    BY <2>2, LenProperties DEF Held
  <2>6. Held' = Held + 1
    BY <2>3, <2>4 DEF Held
  <2>7. stored' \in Seq(Byte) /\ \A i \in 1 .. Held + 1 : stored'[i] = payload[i]
    BY <2>2, <2>3, <2>4, <2>5 DEF x
  <2>8. Held' <= Count' /\ Place' = 3 + first'[Held' + 1]
    BY <1>2, <1>4, <2>1, <2>5, <2>6, (Held + 1) + 1 = Held + 2
  <2>9. \A i \in 1 .. Held' : stored'[i] = payload'[i]
    BY <1>2, <2>6, <2>7
  <2> QED
    BY <1>2, <1>5, <2>7, <2>8, <2>9 DEF CleanInv
<1>6. CASE type0 # KERM_TYPE_DATA
  <2>1. stored = <<>>
    BY <1>1, <1>6 DEF CleanInv
  <2>2. DataPlain /\ stored' = stored
    BY <1>3, <1>6 DEF DataPlain, DataQuoted, IsQuoted, Store
  <2>3. index' = index + 1
    BY <2>2 DEF DataPlain
  <2>4. index' <= Size + 4
    BY <1>1, <1>3, <2>3
  <2> QED
    BY <1>2, <1>4, <1>6, <2>1, <2>2, <2>4 DEF CleanInv
<1> QED
  BY <1>5, <1>6

LEMMA CleanStep ==
  ASSUME Known, CleanInv, [Next]_vars
  PROVE  CleanInv'
<1>1. CASE pc' \notin {"data", "check", "term"} \/ flip' # NoFlip
  BY <1>1 DEF CleanInv
<1>2. CASE Header /\ pc' = "data" /\ flip' = NoFlip
  BY <1>2, CleanStarts
<1>3. CASE (DataPlain \/ DataQuoted) /\ flip' = NoFlip
  BY <1>3, CleanDecoded
<1>4. CASE /\ UNCHANGED <<packet, stored>> /\ Place' = Place
           /\ pc \in {"data", "check", "term"}
  <2>1. /\ type0' = type0 /\ first' = first /\ payload' = payload /\ flip' = flip
        /\ Size' = Size /\ Count' = Count /\ Held' = Held
    BY <1>4, SamePacket DEF packet, Held
  <2> QED
    BY <1>4, <2>1 DEF CleanInv
<1>5. CASE DataEnd
  <2>1. /\ UNCHANGED <<packet, stored, index>> /\ pc = "data" /\ pc' = "check"
    BY <1>5 DEF DataEnd
  <2> QED
    BY <1>4, <2>1 DEF Place
<1>6. CASE CheckSum /\ pc' = "term"
  <2>1. UNCHANGED <<packet, stored>> /\ pc = "check" /\ index' = index + 1
    BY <1>6 DEF CheckSum
  <2>2. index \in Nat
    BY <2>1 DEF Known, DecodeInv
  <2>3. Place' = Place
    BY <1>6, <2>1, <2>2, (index + 1) - 1 = index DEF Place
  <2> QED
    BY <1>4, <2>1, <2>3
<1>7. CASE UNCHANGED vars /\ pc' \in {"data", "check", "term"}
  <2>1. UNCHANGED <<packet, stored, index, pc>> /\ pc \in {"data", "check", "term"}
    BY <1>7 DEF vars
  <2> QED
    BY <1>4, <2>1 DEF Place
<1> QED
  BY <1>1, <1>2, <1>3, <1>5, <1>6, <1>7, NextSplit DEF BoardStep, HostCode, HostSend, Mark,
     Fill, Header, DataEnd, CheckSum, Terminator, Overrun, Ends

\* Behind the data, the board stands at the check character.
LEMMA CleanEnd ==
  ASSUME Known, CleanInv, flip = NoFlip, pc \in {"check", "term"}
  PROVE  /\ Place = Size + 4 /\ Size \in 0 .. 91 /\ Filled = Size + 5
         /\ buff[Size + 4] = Check(checksum) /\ buff[Size + 5] = KERM_KEY_TERM
<1>1. /\ PlainKnown /\ Size \in 0 .. 91 /\ Hit = -1 /\ Filled = Size + 5
      /\ \A i \in 1 .. Size + 5 : buff[i] = Plain(i)
      /\ Place \in Nat /\ len \in Int /\ Place + len = Size + 5 /\ Place <= Size + 4
  BY CleanFacts DEF Reading
<1>2. len <= 1 /\ (Place <= Size + 4 => checksum = SumCame(Place - 1))
  BY DEF Known, DecodeInv
<1>3. Place = Size + 4 /\ Place - 1 = Size + 3
  BY <1>1, <1>2
<1>4. SumCame(Size + 3) = SumTo(Size + 3)
  <2>1. SumTo(Size + 3) \in Nat
    BY <1>1 DEF PlainKnown
  <2> QED
    BY <1>1, <2>1 DEF SumCame
<1>5. checksum = SumTo(Size + 3)
  BY <1>1, <1>2, <1>3, <1>4
<1>6. buff[Size + 4] = Plain(Size + 4) /\ buff[Size + 5] = Plain(Size + 5)
  BY <1>1
<1> QED
  BY <1>1, <1>3, <1>5, <1>6 DEF PlainKnown, KERM_KEY_TERM

\* All of the payload is stored by then, and nothing from another packet.
LEMMA CleanStored ==
  ASSUME Known, CleanInv, flip = NoFlip, pc = "term"
  PROVE  stored = IF type0 = KERM_TYPE_DATA THEN payload ELSE <<>>
<1>1. Place = Size + 4 /\ Size \in 0 .. 91
  BY CleanEnd
<1>2. CASE type0 = KERM_TYPE_DATA
  <2>1. /\ stored \in Seq(Byte) /\ Held <= Count
        /\ \A i \in 1 .. Held : stored[i] = payload[i]
        /\ Place = 3 + first[Held + 1]
    BY <1>2 DEF CleanInv
  <2>2. Held \in Nat /\ Count \in Nat /\ payload \in Seq(Byte)
    BY <2>1, LenProperties DEF Held, Count, Known, CodingInv
  <2>3. Held = Count
    <3> SUFFICES ASSUME Held # Count PROVE FALSE
      OBVIOUS
    <3>1. Held + 1 \in 1 .. Count
      BY <2>1, <2>2
    <3>2. Coded(Held + 1) /\ payload[Held + 1] \in Byte
      BY <3>1, ElementOfSeq DEF Known, CodingInv, Count
    <3>3. Len(Quote(payload[Held + 1])) \in {1, 2}
      BY <3>2, QuoteIsShort
    <3>4. first[Held + 1] \in Nat
      <4>1. Held + 1 \in 1 .. Count + 1
        BY <2>1, <2>2
      <4> QED
        BY <4>1, ElementOfSeq DEF Known, CodingInv
    <3>5. /\ first[(Held + 1) + 1] = first[Held + 1] + Len(Quote(payload[Held + 1]))
          /\ first[(Held + 1) + 1] <= Size + 1
      BY <3>2 DEF Coded
    <3>6. first[Held + 1] = Size + 1
      BY <1>1, <2>1, <3>4
    <3> DEFINE m == Len(Quote(payload[Held + 1]))
    <3>7. m \in {1, 2} /\ (Size + 1) + m <= Size + 1
      BY <3>3, <3>5, <3>6, Zenon
    <3> HIDE DEF m
    <3> QED
      BY <1>1, <3>7
  <2>4. Len(stored) = Len(payload) /\ \A i \in 1 .. Len(stored) : stored[i] = payload[i]
    BY <2>1, <2>3 DEF Held, Count
  <2>5. stored = payload
    BY <2>1, <2>2, <2>4, SeqEqual, Zenon
  <2> QED
    BY <1>2, <2>5
<1>3. CASE type0 # KERM_TYPE_DATA
  BY <1>3 DEF CleanInv
<1> QED
  BY <1>2, <1>3

\* What send_ack_packet() sends is a frame as the host would make it.
LEMMA AckIsFrame ==
  ASSUME NEW s \in 0 .. 63, NEW t \in Byte
  PROVE  AckPacket(s, t) = Frame(<<>>, 0, t, s)
<1> DEFINE f == Frame(<<>>, 0, t, s)
           a == AckPacket(s, t)
<1>1. FrameOf(f, <<>>, 0, 0, t, s)
  <2>1. HasLen(<<>>, 0)
    BY DEF HasLen
  <2>2. t \in Nat /\ s \in Nat
    BY DEF Byte
  <2> QED
    BY <2>1, <2>2, FrameBytes
<1> HIDE DEF f
<1>2. /\ HasLen(f, 6)
      /\ f[1] = 1 /\ f[2] = 35 /\ f[3] = 32 + s /\ f[4] = t
      /\ f[5] = Check(0 + 35 + (32 + s) + t + 0) /\ f[6] = 13
  BY <1>1, 0 + 6 = 6, 0 + 35 = 35, 0 + 5 = 5 DEF FrameOf
<1>3. 0 + 35 + (32 + s) + t + 0 = 32 + 3 + 32 + s + t
  BY DEF Byte
<1>4. Check(32 + 3 + 32 + s + t) \in Nat
  <2>1. 32 + 3 + 32 + s + t \in Nat
    BY DEF Byte
  <2> QED
    BY <2>1, HostChecksAlike
<1>5. a = <<1, 35, 32 + s, t, Check(32 + 3 + 32 + s + t), 13>>
  BY 32 + 3 = 35 DEF AckPacket, MARK_START, KERM_KEY_SPACE, KERM_KEY_TERM
<1>6. /\ a[1] = 1 /\ a[2] = 35 /\ a[3] = 32 + s /\ a[4] = t
      /\ a[5] = Check(32 + 3 + 32 + s + t) /\ a[6] = 13
  BY <1>5
<1>7. HasLen(a, 6)
  BY <1>4, <1>5 DEF HasLen, Byte
<1> HIDE DEF a
<1>8. \A i \in 1 .. 6 : a[i] = f[i]
  BY <1>2, <1>3, <1>6
<1>9. a \in Seq(Nat) /\ f \in Seq(Nat) /\ Len(a) = Len(f) /\ \A i \in 1 .. Len(a) : a[i] = f[i]
  BY <1>2, <1>7, <1>8 DEF HasLen
<1>10. a = f
  BY <1>9, SeqEqual, Zenon
<1> QED
  BY <1>10 DEF a, f

LEMMA ReadStep ==
  ASSUME Known, CleanInv, FrameIsRead, [Next]_vars
  PROVE  FrameIsRead'
<1> SUFFICES ASSUME flip' = NoFlip, pc' \in Ends
             PROVE  FrameIsRead'
  BY DEF FrameIsRead
<1>1. ~ HostCode /\ ~ HostSend /\ ~ Mark /\ ~ Fill /\ ~ DataPlain /\ ~ DataQuoted /\ ~ DataEnd
  BY DEF HostCode, HostSend, Mark, Fill, DataPlain, DataQuoted, DataEnd, Ends
<1>2. UNCHANGED packet /\ flip = NoFlip
  BY <1>1, NextSplit, BoardKeepsPacket DEF packet
<1>3. ~ Overrun
  BY <1>2, CleanStays DEF Overrun
<1>4. ~ Header
  <2> SUFFICES ASSUME Header PROVE FALSE
    OBVIOUS
  <2>1. pc = "head" /\ buff[2] - KERM_KEY_SPACE # seq0
    BY DEF Header, Ends
  <2>2. PlainKnown /\ Size \in 0 .. 91 /\ \A i \in 1 .. Size + 5 : buff[i] = Plain(i)
    BY <1>2, <2>1, CleanFacts DEF Reading
  <2>3. buff[2] = 32 + seq0 /\ seq0 \in 0 .. 63
    BY <2>2, CodingTypes DEF PlainKnown, Known
  <2> QED
    BY <2>1, <2>3 DEF KERM_KEY_SPACE
<1>5. ~ CheckSum
  <2> SUFFICES ASSUME CheckSum PROVE FALSE
    OBVIOUS
  <2>1. pc = "check" /\ buff[index] # Check(checksum)
    BY DEF CheckSum, Ends
  <2>2. Place = Size + 4 /\ buff[Size + 4] = Check(checksum)
    BY <1>2, <2>1, CleanEnd
  <2> QED
    BY <2>1, <2>2 DEF Place
<1>6. CASE Terminator
  <2>1. /\ pc = "term" /\ index' = index + 1 /\ buff' = buff /\ stored' = stored
        /\ buff[index] = KERM_KEY_TERM =>
             pc' = "accepted" /\ answer' = AckPacket(seq0, KERM_TYPE_ACK)
    BY <1>6 DEF Terminator
  <2>2. Place = Size + 4 /\ Size \in 0 .. 91 /\ Filled = Size + 5
        /\ buff[Size + 5] = KERM_KEY_TERM
    BY <1>2, <2>1, CleanEnd
  <2>3. index \in Nat
    BY <2>1 DEF Known, DecodeInv
  <2>4. index = Size + 5
    BY <2>1, <2>2, <2>3 DEF Place
  <2>5. index' = Len(buff') + 1
    BY <2>1, <2>2, <2>4 DEF Filled
  <2>6. stored = IF type0 = KERM_TYPE_DATA THEN payload ELSE <<>>
    BY <1>2, <2>1, CleanStored
  <2>7. AckPacket(seq0, KERM_TYPE_ACK) = Frame(<<>>, 0, KERM_TYPE_ACK, seq0)
    <3>1. seq0 \in 0 .. 63
      BY CodingTypes DEF Known
    <3>2. KERM_TYPE_ACK \in Byte
      BY DEF Byte, KERM_TYPE_ACK
    <3> QED
      BY <3>1, <3>2, AckIsFrame, Zenon
  <2>8. type0' = type0 /\ payload' = payload /\ seq0' = seq0
    BY <1>2 DEF packet
  <2>9. answer' = Frame(<<>>, 0, KERM_TYPE_ACK, seq0')
    BY <2>1, <2>2, <2>4, <2>7, <2>8
  <2>10. pc' = "accepted" /\ stored' = IF type0' = KERM_TYPE_DATA THEN payload' ELSE <<>>
    BY <2>1, <2>2, <2>4, <2>6, <2>8
  <2> QED
    BY <2>5, <2>9, <2>10 DEF FrameIsRead
<1>7. CASE UNCHANGED vars
  BY <1>7 DEF vars, packet, FrameIsRead
<1> QED
  BY <1>1, <1>3, <1>4, <1>5, <1>6, <1>7, NextSplit DEF BoardStep

-----------------------------------------------------------------------------
(* The theorems *)

LEMMA InitIsGood ==
  ASSUME Init
  PROVE  IInv
<1>1. CodingInv
  <2>1. /\ payload = <<>> /\ data = <<>> /\ first = <<1>> /\ sums = <<0>>
        /\ type0 \in Types /\ seq0 \in SeqNums
    BY DEF Init
  <2>2. Size = 0 /\ Count = 0
    BY <2>1 DEF Size, Count
  <2>3. /\ payload \in Seq(Byte) /\ data \in Seq(Byte \ {MARK_START, KERM_KEY_TERM})
        /\ sums \in Seq(Nat) /\ first \in Seq(Nat) /\ Len(sums) = 1 /\ Len(first) = 1
        /\ sums[1] = 0 /\ first[1] = 1
    BY <2>1
  <2>4. (\A k \in 1 .. 0 : Coded(k)) /\ (\A i \in 1 .. 0 : sums[i + 1] = sums[i] + data[i])
    OBVIOUS
  <2> QED
    BY <2>1, <2>2, <2>3, <2>4 DEF CodingInv, MAX_LEN
<1>2. pc = "host" /\ at = 0 /\ index = 1 /\ stored = <<>>
  BY DEF Init
<1> QED
  BY <1>1, <1>2 DEF IInv, LineInv, BuffInv, DecodeInv, CleanInv, FrameIsRead, FlipIsSeen,
     Reading, Ends

LEMMA NextIsGood ==
  ASSUME IInv, [Next]_vars
  PROVE  IInv'
<1>1. Known /\ CleanInv /\ FrameIsRead /\ FlipIsSeen
  BY DEF IInv, Known
<1>2. CodingInv' /\ LineInv' /\ BuffInv'
  BY <1>1, CodingStep, LineStep, BuffStep DEF Known
<1>3. DecodeInv' /\ CleanInv' /\ FrameIsRead' /\ FlipIsSeen'
  BY <1>1, DecodeStep, CleanStep, ReadStep, FlipStep
<1> QED
  BY <1>2, <1>3 DEF IInv

LEMMA IInvAlways == Spec => []IInv
<1>1. Init => IInv
  BY InitIsGood
<1>2. IInv /\ [Next]_vars => IInv'
  BY NextIsGood
<1> QED
  BY <1>1, <1>2, PTL DEF Spec

\* Whatever the payload, within the length a frame can have: a frame that
\* arrives as it was sent is accepted, stored as the host had it, and answered
\* by a frame the host can read.
THEOREM FrameIsReadAlways == Spec => []FrameIsRead
<1>1. IInv => FrameIsRead
  BY DEF IInv
<1> QED
  BY <1>1, IInvAlways, PTL

\* One flipped bit is seen in every frame, wherever the bit is, unless the
\* decoder has read past the end of what was received.
THEOREM FlipIsAlwaysSeen == Spec => []FlipIsSeen
<1>1. IInv => FlipIsSeen
  BY DEF IInv
<1> QED
  BY <1>1, IInvAlways, PTL
=============================================================================
