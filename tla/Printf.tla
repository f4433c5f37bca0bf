------------------------------- MODULE Printf -------------------------------
(***************************************************************************)
(* What printf() of lib/stdio.c makes of the items of a format, and what   *)
(* the text of a call should be.  An item is a character or a directive;   *)
(* characters are strings, "LF" and "CR" two of them.                      *)
(***************************************************************************)
EXTENDS Integers, Sequences, FiniteSets, SequencesExt

Directives == {"%c", "%p", "%x", "%s"}

\* case 'd' is compiled for ARM_ARCH >= 6, and nothing defines ARM_ARCH: like
\* any other letter it ends the call with -1.
Unknown(item) == item = "%d"

-----------------------------------------------------------------------------
(* The code *)

Digits == <<"0", "1", "2", "3", "4", "5", "6", "7", "8", "9", "A", "B", "C", "D",
            "E", "F">>

\* The loop of int_to_hex_str(), which fills its buffer from the end.
hexDigits[v \in Nat] ==
  LET low == <<Digits[(v % 16) + 1]>> IN
  IF v \div 16 = 0 THEN low ELSE hexDigits[v \div 16] \o low

\* An odd number of digits gets a zero before it.
Hex(v) == IF Len(hexDigits[v]) % 2 = 1 THEN <<"0">> \o hexDigits[v] ELSE hexDigits[v]

NewLines(s) ==
  FlattenSeq([i \in 1 .. Len(s) |-> IF s[i] = "LF" THEN <<"LF", "CR">> ELSE <<s[i]>>])

\* The characters __io_putchar() is called with for an item and its argument.
Expand(item, val) ==
  CASE item = "%c" -> <<val>>
    [] item = "%p" -> <<"0", "x">> \o Hex(val)
    [] item = "%x" -> Hex(val)
    [] item = "%s" -> NewLines(val)
    [] OTHER       -> NewLines(<<item>>)

-----------------------------------------------------------------------------
(* The text of a call m = [fmt, args]: the argument of a directive is the   *)
(* one with its number, and a number has two, four, six or eight digits.    *)

Nibbles(v) == Cardinality({i \in 0 .. 7 : v \div 16 ^ i > 0})
Width(v)   == IF v = 0 THEN 2 ELSE 2 * ((Nibbles(v) + 1) \div 2)
HexOf(v)   ==
  [i \in 1 .. Width(v) |->
     IF Width(v) - i > 7 THEN "0" ELSE Digits[((v \div 16 ^ (Width(v) - i)) % 16) + 1]]

\* What the callers pass: for %c a letter, numbers of 32 bits, and no text of
\* theirs has a carriage return in it.
IsArgument(item, val) ==
  CASE item = "%c"           -> val \in STRING /\ val \notin {"LF", "CR"}
    [] item \in {"%p", "%x"} -> val \in Nat /\ val \div 16 ^ 7 < 16
    [] item = "%s"           -> val \in Seq(STRING \ {"CR"})
    [] OTHER                 -> item # "CR"

ArgOf(m, i) ==
  m.args[Cardinality({j \in 1 .. i : m.fmt[j] \in Directives})]

ValueOf(m, i) == IF m.fmt[i] \in Directives THEN ArgOf(m, i) ELSE m.fmt[i]

ItemText(m, i) ==
  CASE m.fmt[i] = "%p" -> <<"0", "x">> \o HexOf(ValueOf(m, i))
    [] m.fmt[i] = "%x" -> HexOf(ValueOf(m, i))
    [] m.fmt[i] = "%s" -> ValueOf(m, i)
    [] OTHER           -> <<ValueOf(m, i)>>

\* Items up to the first one that is unknown, carriage returns left out.
Text(m) ==
  LET known == {n \in 0 .. Len(m.fmt) : \A i \in 1 .. n : ~ Unknown(m.fmt[i])}
  IN  FlattenSeq([i \in 1 .. Cardinality(known) - 1 |-> ItemText(m, i)])

\* What a terminal needs to start a new line where u does.
HasReturns(u) ==
  \A i \in 1 .. Len(u) :
    /\ u[i] = "LF" => i < Len(u) /\ u[i + 1] = "CR"
    /\ u[i] = "CR" => i > 1 /\ u[i - 1] = "LF"

WithoutReturns(u) ==
  FlattenSeq([i \in 1 .. Len(u) |-> IF u[i] = "CR" THEN <<>> ELSE <<u[i]>>])
=============================================================================
