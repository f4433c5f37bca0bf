---------------------------- MODULE PrintfProofs ----------------------------
(***************************************************************************)
(* Proofs about what printf() makes of a call, for texts of any length and *)
(* every number of 32 bits.                                                *)
(*                                                                         *)
(* The operators are recursive, so the proofs are by induction over data.  *)
(* The library's induction theorems have an operator as a parameter, which *)
(* the provers cannot instantiate; here induction is about a set, and      *)
(* comes from the theorem that a well-founded relation has minima.         *)
(***************************************************************************)
EXTENDS Printf, FiniteSetTheorems, SequenceTheorems, WellFoundedInduction, TLAPS

-----------------------------------------------------------------------------
(* Induction *)

\* A set of numbers that is not empty has a least member.
LEMMA LeastNumber ==
  ASSUME NEW T, T \subseteq Nat, T # {}
  PROVE  \E n \in T : n \in Nat /\ \A k \in Nat : k < n => k \notin T
<1>1. PICK n \in T : \A y \in T : ~ (<<y, n>> \in OpToRel(<,Nat))
  BY NatLessThanWellFounded, WFMin, Zenon
<1>2. ASSUME NEW k \in Nat, k < n PROVE k \notin T
  BY <1>1, <1>2 DEF OpToRel
<1> QED
  BY <1>1, <1>2

\* Induction over the numbers.
LEMMA NumberInduction ==
  ASSUME NEW G, 0 \in G, \A n \in Nat : n \in G => n + 1 \in G
  PROVE  Nat \subseteq G
<1> SUFFICES ASSUME Nat \ G # {} PROVE FALSE
  OBVIOUS
<1>1. PICK n \in Nat \ G : n \in Nat /\ \A k \in Nat : k < n => k \notin Nat \ G
  <2> DEFINE T == Nat \ G
  <2>1. T \subseteq Nat /\ T # {}
    OBVIOUS
  <2> HIDE DEF T
  <2>2. \E n \in T : n \in Nat /\ \A k \in Nat : k < n => k \notin T
    BY <2>1, LeastNumber
  <2> QED
    BY <2>2 DEF T
<1>2. n # 0 /\ n - 1 \in Nat /\ n - 1 < n /\ (n - 1) + 1 = n
  BY <1>1
<1> QED
  BY <1>1, <1>2

\* A sequence that is not empty has a last element, and a rest before it.
LEMMA LastCut ==
  ASSUME NEW S, NEW s \in Seq(S), s # <<>>
  PROVE  \E q \in Seq(S), e \in S : s = Append(q, e) /\ Len(q) = Len(s) - 1
<1>1. PICK q \in Seq(S), e \in S : s = Append(q, e)
  BY SequenceEmptyOrAppend
<1>2. Len(q) = Len(s) - 1
  BY <1>1
<1> QED
  BY <1>1, <1>2

\* Concatenating and then appending, in either order.
LEMMA ConcatAppend ==
  ASSUME NEW S, NEW u \in Seq(S), NEW v \in Seq(S), NEW e \in S
  PROVE  u \o v \in Seq(S) /\ u \o Append(v, e) = Append(u \o v, e)
OBVIOUS

\* Induction over sequences.
LEMMA SeqInduction ==
  ASSUME NEW S, NEW G, <<>> \in G, \A s \in Seq(S), e \in S : s \in G => Append(s, e) \in G
  PROVE  Seq(S) \subseteq G
<1> DEFINE N == {n \in Nat : \A s \in Seq(S) : Len(s) = n => s \in G}
<1>1. 0 \in N
  OBVIOUS
<1>2. ASSUME NEW n \in Nat, n \in N PROVE n + 1 \in N
  <2> SUFFICES ASSUME NEW s \in Seq(S), Len(s) = n + 1 PROVE s \in G
    OBVIOUS
  <2>1. s # <<>>
    OBVIOUS
  <2>2. PICK q \in Seq(S), e \in S : s = Append(q, e) /\ Len(q) = Len(s) - 1
    BY <2>1, LastCut
  <2>3. q \in G
    BY <1>2, <2>2
  <2> QED
    BY <2>2, <2>3
<1>3. Nat \subseteq N
  <2> HIDE DEF N
  <2> QED
    BY <1>1, <1>2, NumberInduction
<1> QED
  BY <1>3

-----------------------------------------------------------------------------
(* FlattenSeq, which the library defines by recursion along the sequence. *)

\* f is the recursive function of FlattenSeq(s), on the first n indices.
Flattening(f, s, n) ==
  f = [i \in 1 .. n |-> IF i = 1 THEN s[i] ELSE f[i - 1] \o s[i]]

\* Its value at one index.
LEMMA FlatteningStep ==
  ASSUME NEW s, NEW n \in Nat, NEW f, Flattening(f, s, n), NEW i \in 1 .. n
  PROVE  f[i] = IF i = 1 THEN s[i] ELSE f[i - 1] \o s[i]
BY Zenon DEF Flattening

\* There is such a function, whatever s is: the recursion is well founded.
LEMMA FlatteningExists ==
  ASSUME NEW s, NEW n \in Nat
  PROVE  \E f : Flattening(f, s, n)
<1> DEFINE T == {k \in Nat : ~ \E f : Flattening(f, s, k)}
<1> SUFFICES ASSUME T # {} PROVE FALSE
  OBVIOUS
<1>1. PICK k \in T : k \in Nat /\ \A j \in Nat : j < k => j \notin T
  BY LeastNumber
<1>2. CASE k = 0
  <2> DEFINE f == [i \in 1 .. 0 |-> {}]
  <2>1. Flattening(f, s, 0)
    BY DEF Flattening
  <2> QED
    BY <1>1, <1>2, <2>1
<1>3. CASE k > 0
  <2>1. PICK f : Flattening(f, s, k - 1)
    BY <1>1, <1>3
  <2> DEFINE g == [i \in 1 .. k |-> IF i < k THEN f[i]
                                   ELSE IF i = 1 THEN s[i] ELSE f[i - 1] \o s[i]]
  <2>2. ASSUME NEW i \in 1 .. k
        PROVE  g[i] = IF i = 1 THEN s[i] ELSE g[i - 1] \o s[i]
    <3>1. i < k => f[i] = IF i = 1 THEN s[i] ELSE f[i - 1] \o s[i]
      <4> SUFFICES ASSUME i < k PROVE i \in 1 .. k - 1
        BY <1>1, <2>1, FlatteningStep
      <4> QED
        BY <1>1
    <3>2. i - 1 < k /\ (i # 1 => i - 1 \in 1 .. k) /\ (i < k \/ i = k)
      BY <1>1
    <3> QED
      BY <3>1, <3>2
  <2>3. Flattening(g, s, k)
    BY <2>2, Zenon DEF Flattening
  <2> QED
    BY <1>1, <2>3
<1> QED
  BY <1>1, <1>2, <1>3

\* The library's FlattenSeq is the last value of that function.
\* FlattenSeq(s) is its last value.
LEMMA FlattenIs ==
  ASSUME NEW s, Len(s) \in Nat \ {0}
  PROVE  \E f : Flattening(f, s, Len(s)) /\ FlattenSeq(s) = f[Len(s)]
<1> DEFINE F == CHOOSE f : Flattening(f, s, Len(s))
<1>1. Flattening(F, s, Len(s))
  BY FlatteningExists, Zenon
<1>2. FlattenSeq(s) = F[Len(s)]
  BY DEF FlattenSeq, Flattening
<1> QED
  BY <1>1, <1>2

\* s and r are the same as far as n.
Agree(s, r, n) == \A i \in 1 .. n : s[i] = r[i]

\* Sequences that agree are flattened alike.
LEMMA FlatteningUnique ==
  ASSUME NEW s, NEW r, NEW n \in Nat, NEW m \in Nat, n <= m, Agree(s, r, n),
         NEW f, Flattening(f, s, n), NEW g, Flattening(g, r, m)
  PROVE  Agree(f, g, n)
<1> DEFINE T == {k \in 1 .. n : g[k] # f[k]}
<1> SUFFICES ASSUME T # {} PROVE FALSE
  BY DEF Agree
<1>1. PICK k \in T : k \in Nat /\ \A j \in Nat : j < k => j \notin T
  <2>1. T \subseteq Nat
    OBVIOUS
  <2> HIDE DEF T
  <2> QED
    BY <2>1, LeastNumber
<1>2. /\ f[k] = IF k = 1 THEN s[k] ELSE f[k - 1] \o s[k]
      /\ g[k] = IF k = 1 THEN s[k] ELSE g[k - 1] \o s[k]
  <2>1. k \in 1 .. n /\ k \in 1 .. m
    BY <1>1
  <2>2. s[k] = r[k]
    BY <2>1 DEF Agree
  <2>3. g[k] = IF k = 1 THEN r[k] ELSE g[k - 1] \o r[k]
    BY <2>1, FlatteningStep
  <2>4. f[k] = IF k = 1 THEN s[k] ELSE f[k - 1] \o s[k]
    BY <2>1, FlatteningStep
  <2> QED
    BY <2>2, <2>3, <2>4
<1>3. k > 1 => k - 1 \in 1 .. n /\ g[k - 1] = f[k - 1]
  BY <1>1
<1> QED
  BY <1>1, <1>2, <1>3

\* Nothing flattened is nothing.
LEMMA FlattenEmpty == FlattenSeq(<<>>) = <<>>
BY DEF FlattenSeq

\* One more sequence is put behind the others.
LEMMA FlattenAppend ==
  ASSUME NEW S, NEW s \in Seq(Seq(S)), NEW e \in Seq(S)
  PROVE  FlattenSeq(Append(s, e)) = FlattenSeq(s) \o e
<1> DEFINE r == Append(s, e)
           n == Len(s)
<1>1. n \in Nat /\ Len(r) = n + 1 /\ r[n + 1] = e /\ \A i \in 1 .. n : s[i] = r[i]
  OBVIOUS
<1>2. PICK g : Flattening(g, r, n + 1) /\ FlattenSeq(r) = g[n + 1]
  <2> HIDE DEF r, n
  <2>1. Len(r) \in Nat \ {0} /\ Len(r) = n + 1
    BY <1>1
  <2> QED
    BY <2>1, FlattenIs
<1>3. g[n + 1] = IF n + 1 = 1 THEN e ELSE g[n] \o e
  <2>1. g[n + 1] = IF n + 1 = 1 THEN r[n + 1] ELSE g[(n + 1) - 1] \o r[n + 1]
    <3>1. n + 1 \in Nat /\ n + 1 \in 1 .. n + 1
      BY <1>1
    <3> QED
      BY <3>1, <1>2, FlatteningStep
  <2>2. (n + 1) - 1 = n
    BY <1>1
  <2> QED
    BY <2>1, <2>2, <1>1
<1>4. CASE n = 0
  BY <1>1, <1>2, <1>3, <1>4, FlattenEmpty
<1>5. CASE n > 0
  <2>1. PICK f : Flattening(f, s, n) /\ FlattenSeq(s) = f[n]
    BY <1>1, <1>5, FlattenIs
  <2>2. g[n] = f[n]
    <3> HIDE DEF r, n
    <3> QED
      <4>1. n \in Nat /\ n + 1 \in Nat /\ n <= n + 1 /\ n \in 1 .. n
        BY <1>1, <1>5
      <4> QED
        <5>1. Flattening(g, r, n + 1) /\ Flattening(f, s, n) /\ Agree(s, r, n)
          BY <1>1, <1>2, <2>1 DEF Agree
        <5>2. Agree(f, g, n)
          BY <4>1, <5>1, FlatteningUnique, Zenon
        <5> QED
          BY <4>1, <5>2 DEF Agree
  <2> QED
    BY <1>1, <1>2, <1>3, <1>5, <2>1, <2>2
<1> QED
  BY <1>1, <1>4, <1>5

\* What is flattened has the elements of the sequences.
LEMMA FlattenType ==
  ASSUME NEW S, NEW s \in Seq(Seq(S))
  PROVE  FlattenSeq(s) \in Seq(S)
<1> DEFINE G == {r \in Seq(Seq(S)) : FlattenSeq(r) \in Seq(S)}
<1>1. <<>> \in G
  <2>1. <<>> \in Seq(Seq(S))
    OBVIOUS
  <2>2. FlattenSeq(<<>>) \in Seq(S)
    BY FlattenEmpty, EmptySeq, Zenon
  <2> QED
    BY <2>1, <2>2
<1>2. ASSUME NEW r \in Seq(Seq(S)), NEW e \in Seq(S), r \in G PROVE Append(r, e) \in G
  <2>1. FlattenSeq(Append(r, e)) = FlattenSeq(r) \o e /\ Append(r, e) \in Seq(Seq(S))
    BY FlattenAppend
  <2>2. FlattenSeq(r) \o e \in Seq(S)
    BY <1>2
  <2> QED
    BY <2>1, <2>2
<1>3. Seq(Seq(S)) \subseteq G
  <2> HIDE DEF G
  <2> QED
    BY <1>1, <1>2, SeqInduction
<1> QED
  BY <1>3

\* Flattening one behind the other.
LEMMA FlattenConcat ==
  ASSUME NEW S, NEW s \in Seq(Seq(S)), NEW t \in Seq(Seq(S))
  PROVE  FlattenSeq(s \o t) = FlattenSeq(s) \o FlattenSeq(t)
<1> DEFINE G == {r \in Seq(Seq(S)) : FlattenSeq(s \o r) = FlattenSeq(s) \o FlattenSeq(r)}
<1>1. <<>> \in G
  <2>1. s \o <<>> = s /\ FlattenSeq(s) \o <<>> = FlattenSeq(s)
    BY FlattenType, ConcatEmptySeq
  <2>2. FlattenSeq(s \o <<>>) = FlattenSeq(s) \o FlattenSeq(<<>>)
    BY <2>1, FlattenEmpty, Zenon
  <2>3. <<>> \in Seq(Seq(S))
    OBVIOUS
  <2> QED
    BY <2>2, <2>3
<1>2. ASSUME NEW r \in Seq(Seq(S)), NEW e \in Seq(S), r \in G PROVE Append(r, e) \in G
  <2>1. FlattenSeq(s) \in Seq(S) /\ FlattenSeq(r) \in Seq(S)
    BY FlattenType
  <2>2. s \o r \in Seq(Seq(S)) /\ s \o Append(r, e) = Append(s \o r, e)
    <3> HIDE DEF G
    <3> QED
      BY ConcatAppend
  <2>3. FlattenSeq(s \o Append(r, e)) = FlattenSeq(s \o r) \o e
    BY <2>2, FlattenAppend
  <2>4. FlattenSeq(Append(r, e)) = FlattenSeq(r) \o e
    BY FlattenAppend
  <2>5. (FlattenSeq(s) \o FlattenSeq(r)) \o e = FlattenSeq(s) \o (FlattenSeq(r) \o e)
    <3> HIDE DEF G
    <3> QED
      BY <2>1, ConcatAssociative
  <2>6. Append(r, e) \in Seq(Seq(S))
    OBVIOUS
  <2> QED
    BY <1>2, <2>3, <2>4, <2>5, <2>6
<1>3. Seq(Seq(S)) \subseteq G
  <2> HIDE DEF G
  <2> QED
    BY <1>1, <1>2, SeqInduction
<1> QED
  BY <1>3

-----------------------------------------------------------------------------
(* Line ends: what printf() sends for a character, and how much of that    *)
(* belongs to the text.                                                     *)

Line(c) == IF c = "LF" THEN <<"LF", "CR">> ELSE <<c>>
Shown(c) == IF c = "CR" THEN <<>> ELSE <<c>>

\* Carriage returns are left out one by one.
LEMMA WithoutAppend ==
  ASSUME NEW S, NEW u \in Seq(S), NEW c \in S
  PROVE  WithoutReturns(Append(u, c)) = WithoutReturns(u) \o Shown(c)
<1> DEFINE M(s) == [i \in 1 .. Len(s) |-> IF s[i] = "CR" THEN <<>> ELSE <<s[i]>>]
<1>1. Shown(c) \in Seq(S) /\ M(u) \in Seq(Seq(S))
  BY DEF Shown
<1>2. M(Append(u, c)) = Append(M(u), Shown(c))
  <2>1. Len(Append(u, c)) = Len(u) + 1 /\ Len(u) \in Nat
    OBVIOUS
  <2>2. Len(M(u)) = Len(u)
    OBVIOUS
  <2>3. M(Append(u, c)) \in Seq(Seq(S))
    OBVIOUS
  <2> QED
    BY <1>1 DEF Shown
<1>3. FlattenSeq(Append(M(u), Shown(c))) = FlattenSeq(M(u)) \o Shown(c)
  <2> HIDE DEF M
  <2> QED
    BY <1>1, FlattenAppend
<1> QED
  BY <1>2, <1>3 DEF WithoutReturns

\* The characters there are.
Chars == STRING \cup {"LF", "CR", "x"} \cup {Digits[i] : i \in 1 .. 16}

\* The characters that are named.
LEMMA CharsFacts ==
  /\ "LF" \in Chars /\ "CR" \in Chars /\ "x" \in Chars
  /\ \A i \in 1 .. 16 : Digits[i] \in Chars
  /\ STRING \subseteq Chars
BY DEF Chars

\* What is sent for a character are characters.
LEMMA LineType ==
  ASSUME NEW c \in Chars
  PROVE  Line(c) \in Seq(Chars)
BY CharsFacts DEF Line

\* Line ends are expanded one by one.
LEMMA NewLinesAppend ==
  ASSUME NEW s \in Seq(Chars), NEW c \in Chars
  PROVE  NewLines(Append(s, c)) = NewLines(s) \o Line(c)
<1> DEFINE M(r) == [i \in 1 .. Len(r) |-> IF r[i] = "LF" THEN <<"LF", "CR">> ELSE <<r[i]>>]
<1>1. M(s) \in Seq(Seq(Chars))
  BY LineType DEF Line
<1>2. M(Append(s, c)) = Append(M(s), Line(c))
  BY <1>1, LineType DEF Line
<1>3. FlattenSeq(Append(M(s), Line(c))) = FlattenSeq(M(s)) \o Line(c)
  <2> HIDE DEF M
  <2> QED
    BY <1>1, LineType, FlattenAppend
<1> QED
  BY <1>2, <1>3 DEF NewLines

\* No text has no carriage returns.
LEMMA WithoutNone == WithoutReturns(<<>>) = <<>>
BY FlattenEmpty DEF WithoutReturns

\* A text without its carriage returns is a text.
LEMMA WithoutType ==
  ASSUME NEW S, NEW u \in Seq(S)
  PROVE  WithoutReturns(u) \in Seq(S)
<1>1. [i \in 1 .. Len(u) |-> IF u[i] = "CR" THEN <<>> ELSE <<u[i]>>] \in Seq(Seq(S))
  OBVIOUS
<1> QED
  BY <1>1, FlattenType DEF WithoutReturns

\* They are left out of two texts as of each.
LEMMA WithoutConcat ==
  ASSUME NEW S, NEW u \in Seq(S), NEW v \in Seq(S)
  PROVE  WithoutReturns(u \o v) = WithoutReturns(u) \o WithoutReturns(v)
<1> DEFINE G == {w \in Seq(S) : WithoutReturns(u \o w) = WithoutReturns(u) \o WithoutReturns(w)}
<1>1. <<>> \in G
  <2>1. u \o <<>> = u /\ WithoutReturns(u) \o <<>> = WithoutReturns(u) /\ <<>> \in Seq(S)
    BY WithoutType, ConcatEmptySeq
  <2> QED
    BY <2>1, WithoutNone, Zenon
<1>2. ASSUME NEW w \in Seq(S), NEW c \in S, w \in G PROVE Append(w, c) \in G
  <2>1. /\ WithoutReturns(u) \in Seq(S) /\ WithoutReturns(w) \in Seq(S)
        /\ Shown(c) \in Seq(S) /\ Append(w, c) \in Seq(S)
    BY WithoutType DEF Shown
  <2>2. u \o w \in Seq(S) /\ u \o Append(w, c) = Append(u \o w, c)
    <3> HIDE DEF G
    <3> QED
      BY ConcatAppend
  <2>3. WithoutReturns(u \o Append(w, c)) = WithoutReturns(u \o w) \o Shown(c)
    BY <2>2, WithoutAppend
  <2>4. WithoutReturns(Append(w, c)) = WithoutReturns(w) \o Shown(c)
    BY WithoutAppend
  <2>5. (WithoutReturns(u) \o WithoutReturns(w)) \o Shown(c)
          = WithoutReturns(u) \o (WithoutReturns(w) \o Shown(c))
    <3> HIDE DEF G
    <3> QED
      BY <2>1, ConcatAssociative
  <2> QED
    BY <1>2, <2>1, <2>3, <2>4, <2>5
<1>3. Seq(S) \subseteq G
  <2> HIDE DEF G
  <2> QED
    BY <1>1, <1>2, SeqInduction
<1> QED
  BY <1>3

\* Texts whose line ends are complete can be joined.
LEMMA ReturnsConcat ==
  ASSUME NEW S, NEW u \in Seq(S), NEW v \in Seq(S), HasReturns(u), HasReturns(v)
  PROVE  HasReturns(u \o v)
<1> SUFFICES ASSUME NEW i \in 1 .. Len(u \o v)
             PROVE  /\ (u \o v)[i] = "LF" => i < Len(u \o v) /\ (u \o v)[i + 1] = "CR"
                    /\ (u \o v)[i] = "CR" => i > 1 /\ (u \o v)[i - 1] = "LF"
  BY DEF HasReturns
<1> DEFINE m == Len(u)
           n == Len(v)
<1>1. /\ m \in Nat /\ n \in Nat /\ Len(u \o v) = m + n
      /\ \A j \in 1 .. m : (u \o v)[j] = u[j]
      /\ \A j \in 1 .. n : (u \o v)[m + j] = v[j]
  OBVIOUS
<1>2. CASE i <= m
  <2>1. i \in 1 .. m /\ (u \o v)[i] = u[i]
    BY <1>1, <1>2
  <2>2. u[i] = "LF" => i < m /\ u[i + 1] = "CR"
    BY <2>1 DEF HasReturns
  <2>3. u[i] = "CR" => i > 1 /\ u[i - 1] = "LF"
    BY <2>1 DEF HasReturns
  <2> HIDE DEF m, n
  <2>4. /\ m \in Nat /\ n \in Nat /\ (i < m => i < m + n /\ i + 1 \in 1 .. m)
        /\ i > 1 => i - 1 \in 1 .. m
    BY <1>1, <2>1
  <2>5. /\ i < m => (u \o v)[i + 1] = u[i + 1]
        /\ i > 1 => (u \o v)[i - 1] = u[i - 1]
    BY <1>1, <2>4
  <2> QED
    BY <1>1, <2>1, <2>2, <2>3, <2>4, <2>5
<1>3. CASE i > m
  <2>1. i - m \in 1 .. n /\ (u \o v)[i] = v[i - m]
    BY <1>1, <1>3
  <2>2. v[i - m] = "LF" => i - m < n /\ v[(i - m) + 1] = "CR"
    BY <2>1 DEF HasReturns
  <2>3. v[i - m] = "CR" => i - m > 1 /\ v[(i - m) - 1] = "LF"
    BY <2>1 DEF HasReturns
  <2> HIDE DEF m, n
  <2>4. i - m < n => (u \o v)[m + ((i - m) + 1)] = v[(i - m) + 1] /\ m + ((i - m) + 1) = i + 1
    BY <1>1, <1>3
  <2>5. i - m > 1 => (u \o v)[m + ((i - m) - 1)] = v[(i - m) - 1] /\ m + ((i - m) - 1) = i - 1
    BY <1>1, <1>3, <2>1
  <2> QED
    BY <1>1, <1>3, <2>1, <2>2, <2>3, <2>4, <2>5
<1> QED
  BY <1>1, <1>2, <1>3

\* One character: it is sent as it is, a line feed with its carriage return.
LEMMA LineRight ==
  ASSUME NEW c \in Chars, c # "CR"
  PROVE  WithoutReturns(Line(c)) = <<c>> /\ HasReturns(Line(c))
<1>1. <<>> \in Seq(Chars) /\ Append(<<>>, c) = <<c>> /\ <<c>> \in Seq(Chars)
  OBVIOUS
<1>2. Shown(c) = <<c>> /\ <<>> \o <<c>> = <<c>> /\ <<c>> \o <<>> = <<c>>
  BY DEF Shown
<1>3. WithoutReturns(<<c>>) = <<c>>
  BY <1>1, <1>2, WithoutAppend, WithoutNone
<1>4. CASE c = "LF"
  <2>1. Line(c) = Append(<<c>>, "CR") /\ Line(c) = <<"LF", "CR">>
    BY <1>4 DEF Line
  <2>2. WithoutReturns(Append(<<c>>, "CR")) = <<c>> \o Shown("CR")
    BY <1>1, <1>3, WithoutAppend, CharsFacts
  <2>3. HasReturns(<<"LF", "CR">>)
    BY DEF HasReturns
  <2> QED
    BY <1>2, <2>1, <2>2, <2>3 DEF Shown
<1>5. CASE c # "LF"
  <2>1. Line(c) = <<c>>
    BY <1>5 DEF Line
  <2>2. HasReturns(<<c>>)
    BY <1>5 DEF HasReturns
  <2> QED
    BY <1>3, <2>1, <2>2
<1> QED
  BY <1>4, <1>5

\* A text of any length is sent as it is, every line feed with its carriage
\* return and no carriage return without a line feed.
LEMMA NewLinesRight ==
  ASSUME NEW s \in Seq(Chars \ {"CR"})
  PROVE  /\ NewLines(s) \in Seq(Chars)
         /\ WithoutReturns(NewLines(s)) = s
         /\ HasReturns(NewLines(s))
<1> DEFINE C == Chars \ {"CR"}
           Right(r) == /\ NewLines(r) \in Seq(Chars)
                       /\ WithoutReturns(NewLines(r)) = r
                       /\ HasReturns(NewLines(r))
           G == {r \in Seq(C) : Right(r)}
<1>1. <<>> \in G
  <2>1. NewLines(<<>>) = <<>>
    BY FlattenEmpty DEF NewLines
  <2>2. HasReturns(<<>>)
    BY DEF HasReturns
  <2>3. <<>> \in Seq(Chars) /\ <<>> \in Seq(C)
    OBVIOUS
  <2>4. Right(<<>>)
    <3> HIDE DEF C
    <3> QED
      BY <2>1, <2>2, <2>3, WithoutNone
  <2> QED
    BY <2>3, <2>4
<1>2. ASSUME NEW r \in Seq(C), NEW c \in C, r \in G PROVE Append(r, c) \in G
  <2>1. /\ NewLines(r) \in Seq(Chars) /\ WithoutReturns(NewLines(r)) = r
        /\ HasReturns(NewLines(r))
    BY <1>2
  <2>2. r \in Seq(Chars) /\ c \in Chars /\ c # "CR"
    OBVIOUS
  <2> HIDE DEF G
  <2>3. NewLines(Append(r, c)) = NewLines(r) \o Line(c) /\ Line(c) \in Seq(Chars)
    BY <2>2, NewLinesAppend, LineType
  <2>4. WithoutReturns(Line(c)) = <<c>> /\ HasReturns(Line(c))
    BY <2>2, LineRight
  <2>5. WithoutReturns(NewLines(r) \o Line(c)) = r \o <<c>>
    BY <2>1, <2>3, <2>4, WithoutConcat
  <2>6. HasReturns(NewLines(r) \o Line(c)) /\ NewLines(r) \o Line(c) \in Seq(Chars)
    BY <2>1, <2>3, <2>4, ReturnsConcat
  <2>7. r \o <<c>> = Append(r, c) /\ Append(r, c) \in Seq(C)
    OBVIOUS
  <2> QED
    BY <2>3, <2>5, <2>6, <2>7 DEF G
<1>3. Seq(C) \subseteq G
  <2> HIDE DEF G, C
  <2> QED
    BY <1>1, <1>2, SeqInduction
<1> QED
  BY <1>3

-----------------------------------------------------------------------------
(* Numbers: int_to_hex_str() *)

\* The lowest digit.
Low(v) == <<Digits[(v % 16) + 1]>>

\* One turn of the loop, with f for the turns after it.
Unfold(f, v) == IF v \div 16 = 0 THEN Low(v) ELSE f[v \div 16] \o Low(v)

\* f is hexDigits on the numbers up to n.
HexUpTo(f, n) == f = [v \in 0 .. n |-> Unfold(f, v)]

\* Its value for one number.
LEMMA HexUpToStep ==
  ASSUME NEW n \in Nat, NEW f, HexUpTo(f, n), NEW v \in 0 .. n
  PROVE  f[v] = Unfold(f, v)
BY Zenon DEF HexUpTo

\* The loop works on smaller and smaller numbers.
LEMMA Sixteenth ==
  ASSUME NEW v \in Nat
  PROVE  v \div 16 \in Nat /\ (v \div 16 # 0 => v \div 16 < v) /\ v \div 16 <= v
OBVIOUS

\* So it ends, for every number.
LEMMA HexExists ==
  ASSUME NEW n \in Nat
  PROVE  \E f : HexUpTo(f, n)
<1> DEFINE G == {k \in Nat : \E f : HexUpTo(f, k)}
<1>1. 0 \in G
  <2> DEFINE f == [v \in 0 .. 0 |-> Low(v)]
  <2>1. ASSUME NEW v \in 0 .. 0 PROVE f[v] = Unfold(f, v)
    BY DEF Unfold
  <2>2. HexUpTo(f, 0)
    BY <2>1, Zenon DEF HexUpTo
  <2> QED
    BY <2>2
<1>2. ASSUME NEW k \in Nat, k \in G PROVE k + 1 \in G
  <2>1. PICK f : HexUpTo(f, k)
    BY <1>2
  <2> DEFINE g == [v \in 0 .. k + 1 |-> IF v <= k THEN f[v] ELSE Unfold(f, v)]
  <2>2. ASSUME NEW v \in 0 .. k + 1 PROVE g[v] = Unfold(g, v)
    <3>1. v \div 16 \in Nat /\ (v \div 16 # 0 => v \div 16 <= k) /\ v \div 16 <= k + 1
      BY Sixteenth
    <3>2. v \div 16 # 0 => g[v \div 16] = f[v \div 16]
      BY <3>1
    <3>3. v <= k => f[v] = Unfold(f, v)
      BY <2>1, HexUpToStep
    <3>4. Unfold(g, v) = Unfold(f, v)
      <4> HIDE DEF g
      <4> QED
        BY <3>1, <3>2 DEF Unfold
    <3> QED
      BY <3>3, <3>4
  <2>3. HexUpTo(g, k + 1)
    BY <2>2, Zenon DEF HexUpTo
  <2> QED
    BY <2>3
<1>3. Nat \subseteq G
  <2> HIDE DEF G
  <2> QED
    BY <1>1, <1>2, NumberInduction
<1> QED
  BY <1>3

\* Its result does not depend on how far one looks.
LEMMA HexUnique ==
  ASSUME NEW n \in Nat, NEW m \in Nat, n <= m, NEW f, NEW g, HexUpTo(f, n), HexUpTo(g, m),
         NEW v \in 0 .. n
  PROVE  f[v] = g[v]
<1> DEFINE T == {k \in 0 .. n : f[k] # g[k]}
<1> SUFFICES ASSUME T # {} PROVE FALSE
  OBVIOUS
<1>1. PICK k \in T : k \in Nat /\ \A j \in Nat : j < k => j \notin T
  <2>1. T \subseteq Nat
    OBVIOUS
  <2> HIDE DEF T
  <2> QED
    BY <2>1, LeastNumber
<1>2. k \in 0 .. n /\ k \in 0 .. m /\ f[k] # g[k]
  BY <1>1
<1>3. f[k] = Unfold(f, k) /\ g[k] = Unfold(g, k)
  BY <1>2, HexUpToStep
<1>4. k \div 16 # 0 => f[k \div 16] = g[k \div 16]
  <2>1. k \div 16 \in Nat /\ (k \div 16 # 0 => k \div 16 < k) /\ k \div 16 <= k
    BY <1>1, Sixteenth
  <2> QED
    BY <1>1, <1>2, <2>1
<1> HIDE DEF T
<1> QED
  BY <1>2, <1>3, <1>4 DEF Unfold

\* hexDigits is what the loop computes, turn by turn.
LEMMA HexDigitsStep ==
  ASSUME NEW v \in Nat
  PROVE  hexDigits[v] = Unfold(hexDigits, v)
<1> DEFINE F(n) == CHOOSE f : HexUpTo(f, n)
           h == [n \in Nat |-> F(n)[n]]
<1>1. ASSUME NEW n \in Nat PROVE HexUpTo(F(n), n)
  BY HexExists, Zenon
<1>2. ASSUME NEW n \in Nat PROVE h[n] = Unfold(h, n)
  <2>1. n \div 16 \in Nat /\ n \div 16 <= n
    BY Sixteenth
  <2>2. HexUpTo(F(n), n) /\ HexUpTo(F(n \div 16), n \div 16)
    BY <1>1, <2>1
  <2>3. h[n] = F(n)[n] /\ h[n \div 16] = F(n \div 16)[n \div 16]
    BY <2>1
  <2> HIDE DEF F, h
  <2>4. F(n)[n] = Unfold(F(n), n)
    BY <2>2, HexUpToStep
  <2>5. F(n)[n \div 16] = F(n \div 16)[n \div 16]
    BY <2>1, <2>2, HexUnique
  <2> QED
    BY <2>3, <2>4, <2>5 DEF Unfold
<1>3. h = [n \in Nat |-> Unfold(h, n)]
  <2> HIDE DEF F
  <2> QED
    BY <1>2, Zenon
<1>4. \E f : f = [n \in Nat |-> Unfold(f, n)]
  BY <1>3
<1>5. hexDigits = [n \in Nat |-> Unfold(hexDigits, n)]
  BY <1>4 DEF hexDigits, Unfold, Low
<1> QED
  BY <1>5, Zenon

\* What a place is worth.
Pow(k) == 16 ^ k

\* The powers of 16 that a number of 32 bits is made of.
LEMMA Powers ==
  /\ Pow(0) = 1 /\ Pow(1) = 16 /\ Pow(2) = 256 /\ Pow(3) = 4096 /\ Pow(4) = 65536
  /\ Pow(5) = 1048576 /\ Pow(6) = 16777216 /\ Pow(7) = 268435456
BY SMT DEF Pow

\* Dividing once more.
LEMMA DivideAgain ==
  ASSUME NEW v \in Nat, NEW k \in 0 .. 6
  PROVE  (v \div 16) \div Pow(k) = v \div Pow(k + 1)
<1>1. k = 0 \/ k = 1 \/ k = 2 \/ k = 3 \/ k = 4 \/ k = 5 \/ k = 6
  OBVIOUS
<1>2. CASE k = 0  BY SMT, <1>2, Powers
<1>3. CASE k = 1  BY SMT, <1>3, Powers
<1>4. CASE k = 2  BY SMT, <1>4, Powers
<1>5. CASE k = 3  BY SMT, <1>5, Powers
<1>6. CASE k = 4  BY SMT, <1>6, Powers
<1>7. CASE k = 5  BY SMT, <1>7, Powers
<1>8. CASE k = 6  BY SMT, <1>8, Powers
<1> QED
  BY <1>1, <1>2, <1>3, <1>4, <1>5, <1>6, <1>7, <1>8

\* Four bits of v, counted from the lowest.
Nibble(v, k) == (v \div Pow(k)) % 16

\* v is a number of n hex digits, the first of them not zero unless it is the
\* only one.
HasDigits(v, n) ==
  /\ n \in 1 .. 8 /\ v \in Nat /\ v \div Pow(7) < 16
  /\ \A k \in 0 .. 7 : v \div Pow(k) > 0 => k < n
  /\ \A k \in 1 .. 7 : k < n => v \div Pow(k) > 0

\* A sixteenth of a number has one digit less.
LEMMA OneLess ==
  ASSUME NEW v, NEW n, n > 1, HasDigits(v, n)
  PROVE  v \div 16 # 0 /\ HasDigits(v \div 16, n - 1)
<1>1. n \in 2 .. 8 /\ v \in Nat /\ v \div 16 \in Nat /\ n - 1 \in 1 .. 7
  BY DEF HasDigits
<1>2. v \div 16 # 0
  BY SMT, <1>1, Powers DEF HasDigits
<1>3. ASSUME NEW k \in 0 .. 7, (v \div 16) \div Pow(k) > 0 PROVE k < n - 1
  <2>1. CASE k \in 0 .. 6
    <3>1. v \div Pow(k + 1) > 0 /\ k + 1 \in 0 .. 7
      BY <1>1, <1>3, <2>1, DivideAgain
    <3> QED
      BY <1>1, <2>1, <3>1 DEF HasDigits
  <2>2. CASE k = 7
    <3>1. (v \div 16) \div 268435456 > 0
      BY SMT, <1>3, <2>2, Powers
    <3>2. v \div 268435456 < 16
      BY SMT, Powers DEF HasDigits
    <3> QED
      BY SMT, <1>1, <3>1, <3>2
  <2> QED
    BY <2>1, <2>2
<1>4. ASSUME NEW k \in 1 .. 7, k < n - 1 PROVE (v \div 16) \div Pow(k) > 0
  <2>1. k \in 0 .. 6 /\ k + 1 \in 1 .. 7 /\ k + 1 < n
    BY <1>1, <1>4
  <2> QED
    BY <1>1, <2>1, DivideAgain DEF HasDigits
<1>5. (v \div 16) \div Pow(7) < 16
  <2>1. v \div 268435456 < 16
    BY SMT, Powers DEF HasDigits
  <2>2. (v \div 16) \div 268435456 < 16
    BY SMT, <1>1, <2>1
  <2> QED
    BY SMT, <2>2, Powers
<1> QED
  BY <1>1, <1>2, <1>3, <1>4, <1>5 DEF HasDigits

\* Of one digit nothing is left.
LEMMA LastOne ==
  ASSUME NEW v, HasDigits(v, 1)
  PROVE  v \in Nat /\ v \div 16 = 0
<1>1. v \in Nat /\ ~ v \div 16 > 0
  BY SMT, Powers DEF HasDigits
<1> QED
  BY <1>1

\* The lowest digit is the lowest nibble.
LEMMA LowIsNibble ==
  ASSUME NEW v \in Nat
  PROVE  v % 16 = Nibble(v, 0)
BY SMT, Powers DEF Nibble

\* Dividing by 16 moves the nibbles down.
LEMMA NibbleAgain ==
  ASSUME NEW v \in Nat, NEW k \in 0 .. 6
  PROVE  Nibble(v \div 16, k) = Nibble(v, k + 1)
BY DivideAgain DEF Nibble

\* The digit of a nibble.
DigitOf(v, k) == Digits[Nibble(v, k) + 1]

\* The digits of v from the highest to the lowest.
DigitsOf(v, n) == [i \in 1 .. n |-> DigitOf(v, n - i)]

\* The digits of v are those of its sixteenth and the lowest one.
LEMMA DigitsOfMore ==
  ASSUME NEW v, NEW n, n > 1, HasDigits(v, n)
  PROVE  DigitsOf(v, n) = DigitsOf(v \div 16, n - 1) \o Low(v)
<1> DEFINE d == DigitsOf(v \div 16, n - 1)
<1>1. n \in 2 .. 8 /\ v \in Nat
  BY DEF HasDigits
<1>2. ASSUME NEW i \in 1 .. n - 1 PROVE DigitOf(v \div 16, (n - 1) - i) = DigitOf(v, n - i)
  <2>1. (n - 1) - i \in 0 .. 6 /\ ((n - 1) - i) + 1 = n - i
    BY <1>1
  <2> QED
    BY <1>1, <2>1, NibbleAgain DEF DigitOf
<1>3. Low(v) = <<DigitOf(v, 0)>>
  BY <1>1, LowIsNibble DEF Low, DigitOf
<1>4. d = [i \in 1 .. n - 1 |-> DigitOf(v, n - i)]
  BY <1>2 DEF DigitsOf
<1>5. [i \in 1 .. n |-> DigitOf(v, n - i)] = [i \in 1 .. n - 1 |-> DigitOf(v, n - i)] \o <<DigitOf(v, 0)>>
  BY <1>1
<1> QED
  BY <1>3, <1>4, <1>5 DEF DigitsOf

\* The loop yields the digits of v, from the highest to the lowest.
LEMMA HexDigitsAre ==
  ASSUME NEW n \in 1 .. 8, NEW v, HasDigits(v, n)
  PROVE  hexDigits[v] = DigitsOf(v, n)
<1> DEFINE G == {k \in Nat : \A w \in Nat : HasDigits(w, k) => hexDigits[w] = DigitsOf(w, k)}
<1>1. 0 \in G
  BY DEF HasDigits
<1>2. ASSUME NEW k \in Nat, k \in G PROVE k + 1 \in G
  <2> SUFFICES ASSUME NEW w \in Nat, HasDigits(w, k + 1)
               PROVE  hexDigits[w] = DigitsOf(w, k + 1)
    OBVIOUS
  <2>1. hexDigits[w] = Unfold(hexDigits, w)
    BY HexDigitsStep
  <2>2. CASE k = 0
    <3>1. Unfold(hexDigits, w) = Low(w)
      BY <2>2, LastOne DEF Unfold
    <3>2. DigitsOf(w, 1) = <<DigitOf(w, 0)>>
      BY DEF DigitsOf
    <3>3. Low(w) = <<DigitOf(w, 0)>>
      BY LowIsNibble DEF Low, DigitOf
    <3> QED
      BY <2>1, <2>2, <3>1, <3>2, <3>3
  <2>3. CASE k > 0
    <3>1. w \div 16 # 0 /\ HasDigits(w \div 16, (k + 1) - 1) /\ (k + 1) - 1 = k
      BY <2>3, OneLess
    <3>2. hexDigits[w \div 16] = DigitsOf(w \div 16, k)
      BY <1>2, <3>1, Sixteenth
    <3>3. DigitsOf(w, k + 1) = DigitsOf(w \div 16, k) \o Low(w)
      <4>1. k + 1 > 1
        BY <2>3
      <4> QED
        BY <3>1, <4>1, DigitsOfMore
    <3> QED
      BY <2>1, <3>1, <3>2, <3>3 DEF Unfold
  <2> QED
    BY <2>2, <2>3
<1>3. n \in G
  <2> HIDE DEF G
  <2> QED
    BY <1>1, <1>2, NumberInduction
<1> QED
  BY <1>3 DEF HasDigits

\* A nibble and those above it are not all zero from its power on.
LEMMA AtLeast ==
  ASSUME NEW v \in Nat, NEW k \in 0 .. 7
  PROVE  v \div Pow(k) > 0 <=> v >= Pow(k)
<1>1. k = 0 \/ k = 1 \/ k = 2 \/ k = 3 \/ k = 4 \/ k = 5 \/ k = 6 \/ k = 7
  OBVIOUS
<1>2. CASE k = 0  BY SMT, <1>2, Powers
<1>3. CASE k = 1  BY SMT, <1>3, Powers
<1>4. CASE k = 2  BY SMT, <1>4, Powers
<1>5. CASE k = 3  BY SMT, <1>5, Powers
<1>6. CASE k = 4  BY SMT, <1>6, Powers
<1>7. CASE k = 5  BY SMT, <1>7, Powers
<1>8. CASE k = 6  BY SMT, <1>8, Powers
<1>9. CASE k = 7  BY SMT, <1>9, Powers
<1> QED
  BY <1>1, <1>2, <1>3, <1>4, <1>5, <1>6, <1>7, <1>8, <1>9

\* Higher powers are larger.
LEMMA PowersAscend ==
  ASSUME NEW j \in 0 .. 7, NEW k \in 0 .. 7, j < k
  PROVE  Pow(j) \in Nat /\ Pow(k) \in Nat /\ Pow(j) < Pow(k)
<1>1. /\ j = 0 \/ j = 1 \/ j = 2 \/ j = 3 \/ j = 4 \/ j = 5 \/ j = 6 \/ j = 7
      /\ k = 0 \/ k = 1 \/ k = 2 \/ k = 3 \/ k = 4 \/ k = 5 \/ k = 6 \/ k = 7
  OBVIOUS
<1> QED
  BY SMT, <1>1, Powers

\* Every number of 32 bits has one to eight digits.
LEMMA SomeDigits ==
  ASSUME NEW v \in Nat, v \div Pow(7) < 16
  PROVE  \E n \in 1 .. 8 : HasDigits(v, n)
<1> DEFINE T == {n \in 1 .. 8 : n = 8 \/ v < Pow(n)}
<1>1. PICK n \in T : n \in Nat /\ \A k \in Nat : k < n => k \notin T
  <2>1. T \subseteq Nat /\ 8 \in T
    OBVIOUS
  <2> HIDE DEF T
  <2> QED
    BY <2>1, LeastNumber
<1>2. n \in 1 .. 8 /\ (n = 8 \/ v < Pow(n))
  BY <1>1
<1>3. ASSUME NEW k \in 0 .. 7, v \div Pow(k) > 0 PROVE k < n
  <2>1. v >= Pow(k) /\ Pow(k) \in Nat
    BY SMT, <1>3, AtLeast, Powers
  <2>2. CASE n = 8
    BY <2>2
  <2>3. CASE n # 8
    <3>1. n \in 0 .. 7 /\ v < Pow(n)
      BY <1>2, <2>3
    <3>2. SUFFICES ASSUME n <= k PROVE FALSE
      BY <1>2
    <3>3. n = k \/ (Pow(n) \in Nat /\ Pow(n) < Pow(k))
      BY <3>1, <3>2, PowersAscend
    <3> HIDE DEF T, Pow
    <3> QED
      BY <2>1, <3>1, <3>3
  <2> QED
    BY <2>2, <2>3
<1>4. ASSUME NEW k \in 1 .. 7, k < n PROVE v \div Pow(k) > 0
  <2>1. k \in 1 .. 8 /\ k \notin T
    BY <1>1, <1>4
  <2>2. ~ (v < Pow(k)) /\ Pow(k) \in Nat
    BY SMT, <2>1, Powers
  <2> QED
    BY <2>2, AtLeast
<1> QED
  BY <1>2, <1>3, <1>4 DEF HasDigits

\* The nibbles that count are as many as the digits.
LEMMA NibblesAre ==
  ASSUME NEW v, NEW n, HasDigits(v, n), v # 0
  PROVE  Nibbles(v) = n
<1>1. n \in 1 .. 8 /\ v \in Nat /\ v \div Pow(0) > 0
  BY SMT, Powers DEF HasDigits
<1>2. {i \in 0 .. 7 : v \div 16 ^ i > 0} = 0 .. n - 1
  <2>1. \A i \in 0 .. 7 : v \div Pow(i) > 0 <=> i \in 0 .. n - 1
    <3> SUFFICES ASSUME NEW i \in 0 .. 7 PROVE v \div Pow(i) > 0 <=> i < n
      BY <1>1
    <3>1. CASE i = 0
      BY <1>1, <3>1
    <3>2. CASE i \in 1 .. 7
      BY <3>2 DEF HasDigits
    <3> QED
      BY <3>1, <3>2
  <2>2. {i \in 0 .. 7 : v \div Pow(i) > 0} = 0 .. n - 1
    <3>1. 0 .. n - 1 \subseteq 0 .. 7
      BY <1>1
    <3> QED
      BY <2>1, <3>1
  <2> QED
    BY <2>2 DEF Pow
<1>3. Cardinality(0 .. n - 1) = n
  <2>1. 0 \in Int /\ n - 1 \in Int /\ (n - 1) - 0 + 1 = n /\ 0 <= n - 1
    BY <1>1
  <2> QED
    BY <2>1, FS_Interval
<1> QED
  BY <1>2, <1>3 DEF Nibbles

\* int_to_hex_str() is right for every number of 32 bits: as many digits as the
\* number has, one more if that is odd, each the one at its place.
THEOREM HexIsRight ==
  ASSUME NEW v \in Nat, v \div 16 ^ 7 < 16
  PROVE  Hex(v) = HexOf(v)
<1>1. PICK n \in 1 .. 8 : HasDigits(v, n)
  BY SomeDigits DEF Pow
<1>2. hexDigits[v] = DigitsOf(v, n)
  BY <1>1, HexDigitsAre
<1>3. Len(DigitsOf(v, n)) = n /\ \A i \in 1 .. n : DigitsOf(v, n)[i] = DigitOf(v, n - i)
  BY DEF DigitsOf
<1>4. Width(v) = IF n % 2 = 1 THEN n + 1 ELSE n
  <2>1. CASE v = 0
    <3>1. n = 1
      <4>1. \A k \in 0 .. 7 : ~ (v \div Pow(k) > 0)
        BY SMT, <2>1, AtLeast, Powers
      <4> QED
        BY <1>1, <4>1 DEF HasDigits
    <3> QED
      BY <2>1, <3>1 DEF Width
  <2>2. CASE v # 0
    <3>1. Nibbles(v) = n
      BY <1>1, <2>2, NibblesAre
    <3>2. 2 * ((n + 1) \div 2) = IF n % 2 = 1 THEN n + 1 ELSE n
      OBVIOUS
    <3> QED
      BY <2>2, <3>1, <3>2 DEF Width
  <2> QED
    BY <2>1, <2>2
<1>5. HexOf(v) = [i \in 1 .. Width(v) |-> DigitOf(v, Width(v) - i)]
  <2>1. ASSUME NEW i \in 1 .. Width(v) PROVE ~ (Width(v) - i > 7)
    BY <1>4
  <2>2. ASSUME NEW i \in 1 .. Width(v)
        PROVE  (v \div 16 ^ (Width(v) - i)) % 16 = Nibble(v, Width(v) - i)
    BY DEF Nibble, Pow
  <2> QED
    BY <2>1, <2>2 DEF HexOf, DigitOf
<1>6. CASE n % 2 = 1
  <2>1. n \in 1 .. 7 /\ DigitOf(v, n) = "0"
    <3>1. n \in 1 .. 7
      BY <1>6
    <3>2. ~ (v \div Pow(n) > 0) /\ v \div Pow(n) \in Nat
      BY SMT, <1>1, <3>1, Powers DEF HasDigits
    <3>3. Nibble(v, n) = 0
      BY <3>2 DEF Nibble
    <3> QED
      BY <3>1, <3>3 DEF DigitOf, Digits
  <2>2. Hex(v) = <<"0">> \o DigitsOf(v, n)
    BY <1>2, <1>3, <1>6 DEF Hex
  <2>3. HexOf(v) = [i \in 1 .. n + 1 |-> DigitOf(v, n + 1 - i)]
    BY <1>4, <1>5, <1>6
  <2>4. [i \in 1 .. n + 1 |-> DigitOf(v, n + 1 - i)] = <<DigitOf(v, n)>> \o [i \in 1 .. n |-> DigitOf(v, n - i)]
    OBVIOUS
  <2> QED
    BY <2>1, <2>2, <2>3, <2>4 DEF DigitsOf
<1>7. CASE n % 2 # 1
  BY <1>2, <1>3, <1>4, <1>5, <1>7 DEF Hex, DigitsOf
<1> QED
  BY <1>6, <1>7

\* A nibble is a number below 16.
LEMMA NibbleRange ==
  ASSUME NEW v \in Nat, NEW k \in 0 .. 7
  PROVE  Nibble(v, k) \in 0 .. 15
<1>1. Pow(k) \in Nat \ {0}
  BY SMT, Powers
<1>2. v \div Pow(k) \in Nat
  BY <1>1
<1> HIDE DEF Pow
<1> QED
  BY <1>2 DEF Nibble

\* What is neither a line feed nor a carriage return.
Visible == Chars \ {"LF", "CR"}

\* Digits are.
LEMMA DigitsAreVisible ==
  /\ \A i \in 1 .. 16 : Digits[i] \in Visible
  /\ "0" \in Visible /\ "x" \in Visible
<1>1. \A i \in 1 .. 16 : Digits[i] # "LF" /\ Digits[i] # "CR"
  BY DEF Digits
<1>2. Digits[1] = "0"
  BY DEF Digits
<1> QED
  BY <1>1, <1>2, CharsFacts DEF Visible

\* Numbers have no line ends.
LEMMA HexIsVisible ==
  ASSUME NEW v \in Nat, v \div 16 ^ 7 < 16
  PROVE  Hex(v) \in Seq(Visible)
<1>1. PICK n \in 1 .. 8 : HasDigits(v, n)
  BY SomeDigits DEF Pow
<1>2. hexDigits[v] = DigitsOf(v, n)
  BY <1>1, HexDigitsAre
<1>3. ASSUME NEW i \in 1 .. n PROVE DigitOf(v, n - i) \in Visible
  <2>1. n - i \in 0 .. 7
    BY <1>1
  <2>2. Nibble(v, n - i) + 1 \in 1 .. 16
    BY <2>1, NibbleRange
  <2> QED
    BY <2>2, DigitsAreVisible DEF DigitOf
<1>4. DigitsOf(v, n) \in Seq(Visible)
  BY <1>3 DEF DigitsOf
<1>5. <<"0">> \o DigitsOf(v, n) \in Seq(Visible)
  BY <1>4, DigitsAreVisible
<1> QED
  BY <1>2, <1>4, <1>5 DEF Hex

\* Without line ends a text is sent as it is.
LEMMA VisibleRight ==
  ASSUME NEW u \in Seq(Visible)
  PROVE  u \in Seq(Chars) /\ WithoutReturns(u) = u /\ HasReturns(u)
<1> DEFINE G == {r \in Seq(Visible) : WithoutReturns(r) = r}
<1>1. <<>> \in G
  BY WithoutNone
<1>2. ASSUME NEW r \in Seq(Visible), NEW c \in Visible, r \in G PROVE Append(r, c) \in G
  <2>1. Shown(c) = <<c>> /\ Append(r, c) \in Seq(Visible)
    BY DEF Shown, Visible
  <2>2. WithoutReturns(Append(r, c)) = WithoutReturns(r) \o Shown(c)
    BY WithoutAppend
  <2>3. r \o <<c>> = Append(r, c)
    OBVIOUS
  <2> QED
    BY <1>2, <2>1, <2>2, <2>3
<1>3. u \in G
  <2> HIDE DEF G
  <2> QED
    BY <1>1, <1>2, SeqInduction
<1>4. HasReturns(u)
  BY DEF HasReturns, Visible
<1>5. u \in Seq(Chars)
  BY DEF Visible
<1> QED
  BY <1>3, <1>4, <1>5

-----------------------------------------------------------------------------
(* Whole calls *)

\* The text of an item with its value.
Meaning(item, val) ==
  CASE item = "%p" -> <<"0", "x">> \o HexOf(val)
    [] item = "%x" -> HexOf(val)
    [] item = "%s" -> val
    [] OTHER       -> <<val>>

\* What is sent for an item is its text, with the carriage returns that it needs.
LEMMA ItemRight ==
  ASSUME NEW item \in STRING, NEW val, ~ Unknown(item), IsArgument(item, val),
         item \notin Directives => val = item
  PROVE  /\ Expand(item, val) \in Seq(Chars)
         /\ WithoutReturns(Expand(item, val)) = Meaning(item, val)
         /\ HasReturns(Expand(item, val))
<1>1. CASE item = "%c"
  <2>1. val \in Visible
    BY <1>1, CharsFacts DEF IsArgument, Visible
  <2>2. Expand(item, val) = <<val>> /\ Meaning(item, val) = <<val>> /\ <<val>> \in Seq(Visible)
    BY <1>1, <2>1 DEF Expand, Meaning
  <2> QED
    BY <2>2, VisibleRight
<1>2. CASE item = "%p" \/ item = "%x"
  <2>1. val \in Nat /\ val \div 16 ^ 7 < 16
    BY <1>2 DEF IsArgument
  <2>2. Hex(val) = HexOf(val) /\ Hex(val) \in Seq(Visible)
    BY <2>1, HexIsRight, HexIsVisible
  <2>3. <<"0", "x">> \o Hex(val) \in Seq(Visible)
    BY <2>2, DigitsAreVisible
  <2>4. Expand(item, val) \in Seq(Visible) /\ Expand(item, val) = Meaning(item, val)
    BY <1>2, <2>2, <2>3 DEF Expand, Meaning
  <2> QED
    BY <2>4, VisibleRight
<1>3. CASE item = "%s"
  <2>1. val \in Seq(Chars \ {"CR"})
    <3>1. STRING \ {"CR"} \subseteq Chars \ {"CR"}
      BY CharsFacts
    <3>2. val \in Seq(STRING \ {"CR"})
      BY <1>3 DEF IsArgument
    <3> QED
      BY <3>1, <3>2, SeqMonotonic
  <2>2. Expand(item, val) = NewLines(val) /\ Meaning(item, val) = val
    BY <1>3 DEF Expand, Meaning
  <2> QED
    BY <2>1, <2>2, NewLinesRight
<1>4. CASE item \notin Directives
  <2>1. val = item /\ <<item>> \in Seq(Chars \ {"CR"})
    <3>1. item # "CR"
      BY <1>4 DEF IsArgument, Directives
    <3>2. item \in Chars \ {"CR"}
      BY <3>1, CharsFacts, Zenon
    <3> QED
      BY <1>4, <3>2
  <2>2. Expand(item, val) = NewLines(<<item>>) /\ Meaning(item, val) = <<item>>
    BY <1>4, <2>1 DEF Expand, Meaning, Directives
  <2> QED
    BY <2>1, <2>2, NewLinesRight
<1> QED
  BY <1>1, <1>2, <1>3, <1>4 DEF Directives

\* A call whose arguments are of their kinds.
IsCall(m) ==
  /\ m.fmt \in Seq(STRING)
  /\ \A i \in 1 .. Len(m.fmt) :
       ~ Unknown(m.fmt[i]) => IsArgument(m.fmt[i], ValueOf(m, i))

\* No unknown directive among the first n items, and the text of these.
Known(m, n)    == \A i \in 1 .. n : ~ Unknown(m.fmt[i])
TextUpTo(m, n) == FlattenSeq([i \in 1 .. n |-> ItemText(m, i)])

\* One item of a call.
LEMMA ItemOfCall ==
  ASSUME NEW m, IsCall(m), NEW i \in 1 .. Len(m.fmt), ~ Unknown(m.fmt[i])
  PROVE  /\ Expand(m.fmt[i], ValueOf(m, i)) \in Seq(Chars)
         /\ HasReturns(Expand(m.fmt[i], ValueOf(m, i)))
         /\ WithoutReturns(Expand(m.fmt[i], ValueOf(m, i))) = ItemText(m, i)
         /\ ItemText(m, i) \in Seq(Chars)
<1> DEFINE item == m.fmt[i]
           val  == ValueOf(m, i)
<1>1. item \in STRING /\ IsArgument(item, val)
  BY ElementOfSeq DEF IsCall
<1>2. item \notin Directives => val = item
  BY DEF ValueOf
<1>3. ItemText(m, i) = Meaning(item, val)
  BY DEF ItemText, Meaning
<1> HIDE DEF item, val
<1>4. /\ Expand(item, val) \in Seq(Chars)
      /\ WithoutReturns(Expand(item, val)) = Meaning(item, val)
      /\ HasReturns(Expand(item, val))
  <2>1. ~ Unknown(item)
    BY DEF item
  <2> QED
    BY <1>1, <1>2, <2>1, ItemRight
<1>5. WithoutReturns(Expand(item, val)) \in Seq(Chars)
  BY <1>4, WithoutType
<1> QED
  BY <1>3, <1>4, <1>5 DEF item, val

\* The text grows item by item.
LEMMA TextGrows ==
  ASSUME NEW m, IsCall(m), NEW n \in Nat, n < Len(m.fmt), Known(m, n + 1)
  PROVE  TextUpTo(m, n + 1) = TextUpTo(m, n) \o ItemText(m, n + 1)
<1> DEFINE t(k) == [i \in 1 .. k |-> ItemText(m, i)]
<1>1. Len(m.fmt) \in Nat
  BY DEF IsCall
<1>2. ASSUME NEW i \in 1 .. n + 1 PROVE ItemText(m, i) \in Seq(Chars)
  <2>1. i \in 1 .. Len(m.fmt) /\ ~ Unknown(m.fmt[i])
    BY <1>1 DEF Known
  <2> QED
    BY <2>1, ItemOfCall
<1>3. t(n) \in Seq(Seq(Chars)) /\ ItemText(m, n + 1) \in Seq(Chars)
  BY <1>2
<1>4. t(n + 1) = Append(t(n), ItemText(m, n + 1))
  BY <1>2, <1>3
<1>5. FlattenSeq(Append(t(n), ItemText(m, n + 1))) = FlattenSeq(t(n)) \o ItemText(m, n + 1)
  <2> HIDE DEF t
  <2> QED
    BY <1>3, FlattenAppend
<1> QED
  BY <1>4, <1>5 DEF TextUpTo

\* The text of some items consists of characters.
LEMMA TextType ==
  ASSUME NEW m, IsCall(m), NEW n \in 0 .. Len(m.fmt), Known(m, n)
  PROVE  TextUpTo(m, n) \in Seq(Chars)
<1>1. ASSUME NEW i \in 1 .. n PROVE ItemText(m, i) \in Seq(Chars)
  <2>1. i \in 1 .. Len(m.fmt) /\ ~ Unknown(m.fmt[i])
    BY DEF Known, IsCall
  <2> QED
    BY <2>1, ItemOfCall
<1>2. [i \in 1 .. n |-> ItemText(m, i)] \in Seq(Seq(Chars))
  BY <1>1
<1> QED
  BY <1>2, FlattenType DEF TextUpTo

\* Of no item it is empty.
LEMMA TextOfNone == ASSUME NEW m PROVE TextUpTo(m, 0) = <<>>
<1>1. [i \in 1 .. 0 |-> ItemText(m, i)] = <<>>
  OBVIOUS
<1> QED
  BY <1>1, FlattenEmpty DEF TextUpTo

\* It ends with the format, or before the first unknown directive.
LEMMA TextEnds ==
  ASSUME NEW m, IsCall(m), NEW n \in 0 .. Len(m.fmt), Known(m, n),
         n = Len(m.fmt) \/ Unknown(m.fmt[n + 1])
  PROVE  Text(m) = TextUpTo(m, n)
<1> DEFINE known == {k \in 0 .. Len(m.fmt) : \A i \in 1 .. k : ~ Unknown(m.fmt[i])}
<1>1. Len(m.fmt) \in Nat
  BY DEF IsCall
<1>2. known = 0 .. n
  <2>1. ASSUME NEW k \in known PROVE k \in 0 .. n
    <3>1. k > n => n + 1 \in 1 .. k /\ n # Len(m.fmt)
      BY <1>1
    <3> QED
      BY <1>1, <3>1
  <2>2. ASSUME NEW k \in 0 .. n PROVE k \in known
    BY <1>1 DEF Known
  <2> QED
    BY <2>1, <2>2
<1>3. Cardinality(known) = n + 1
  <2>1. Cardinality(0 .. n) = n + 1
    <3>1. 0 \in Int /\ n \in Int /\ 0 <= n /\ n - 0 + 1 = n + 1
      BY <1>1
    <3> QED
      BY <3>1, FS_Interval
  <2> HIDE DEF known
  <2> QED
    BY <1>2, <2>1
<1>4. Cardinality(known) - 1 = n
  <2> HIDE DEF known
  <2> QED
    BY <1>3
<1> QED
  BY <1>4 DEF Text, TextUpTo

\* The text of the items before any place is the beginning of the whole text.
LEMMA TextGoesOn ==
  ASSUME NEW m, IsCall(m), NEW n \in 0 .. Len(m.fmt), Known(m, n)
  PROVE  \E x \in Seq(Chars) : Text(m) = TextUpTo(m, n) \o x
<1>1. Len(m.fmt) \in Nat
  BY DEF IsCall
<1> DEFINE T == {k \in 0 .. Len(m.fmt) : k = Len(m.fmt) \/ Unknown(m.fmt[k + 1])}
<1>2. PICK k \in T : k \in Nat /\ \A j \in Nat : j < k => j \notin T
  <2>1. T \subseteq Nat /\ Len(m.fmt) \in T
    BY <1>1
  <2> HIDE DEF T
  <2> QED
    BY <2>1, LeastNumber
<1>3. Known(m, k)
  <2> SUFFICES ASSUME NEW i \in 1 .. k PROVE ~ Unknown(m.fmt[i])
    BY DEF Known
  <2>1. i - 1 \in Nat /\ i - 1 < k /\ i - 1 \in 0 .. Len(m.fmt) /\ (i - 1) + 1 = i
    BY <1>1, <1>2
  <2> QED
    BY <1>2, <2>1
<1>4. n <= k
  <2>1. k < n => k + 1 \in 1 .. n /\ k # Len(m.fmt)
    BY <1>1, <1>2
  <2> QED
    BY <1>1, <1>2, <2>1 DEF Known
<1>5. Text(m) = TextUpTo(m, k)
  BY <1>2, <1>3, TextEnds
<1> DEFINE Longer(d) == \E x \in Seq(Chars) : TextUpTo(m, n + d) = TextUpTo(m, n) \o x
           G == {d \in Nat : n + d <= k => Longer(d)}
<1>6. 0 \in G
  <2>1. TextUpTo(m, n) \in Seq(Chars) /\ n + 0 = n
    BY <1>1, TextType
  <2>2. TextUpTo(m, n) = TextUpTo(m, n) \o <<>> /\ <<>> \in Seq(Chars)
    BY <2>1, ConcatEmptySeq
  <2> QED
    BY <2>1, <2>2
<1>7. ASSUME NEW d \in Nat, d \in G PROVE d + 1 \in G
  <2> SUFFICES ASSUME n + (d + 1) <= k PROVE Longer(d + 1)
    OBVIOUS
  <2>1. n + d \in Nat /\ n + d <= k /\ n + (d + 1) = (n + d) + 1 /\ n + d < Len(m.fmt)
        /\ (n + d) + 1 \in 1 .. Len(m.fmt) /\ (n + d) + 1 <= k
    BY <1>1, <1>2
  <2>2. PICK x \in Seq(Chars) : TextUpTo(m, n + d) = TextUpTo(m, n) \o x
    BY <1>7, <2>1
  <2>3. Known(m, (n + d) + 1)
    BY <1>2, <1>3, <2>1 DEF Known
  <2>4. TextUpTo(m, (n + d) + 1) = TextUpTo(m, n + d) \o ItemText(m, (n + d) + 1)
    <3> HIDE DEF G, T
    <3> QED
      BY <2>1, <2>3, TextGrows
  <2>5. ItemText(m, (n + d) + 1) \in Seq(Chars)
    BY <2>1, <2>3, ItemOfCall DEF Known
  <2>6. TextUpTo(m, n) \in Seq(Chars)
    BY TextType
  <2> HIDE DEF G, T
  <2>7. /\ (TextUpTo(m, n) \o x) \o ItemText(m, (n + d) + 1)
             = TextUpTo(m, n) \o (x \o ItemText(m, (n + d) + 1))
        /\ x \o ItemText(m, (n + d) + 1) \in Seq(Chars)
    BY <2>2, <2>5, <2>6, ConcatAssociative
  <2> QED
    BY <2>1, <2>2, <2>4, <2>7
<1>8. k - n \in Nat /\ n + (k - n) = k
  BY <1>1, <1>2, <1>4
<1>9. k - n \in G
  <2> HIDE DEF G, T
  <2> QED
    BY <1>6, <1>7, <1>8, NumberInduction
<1>10. Longer(k - n)
  BY <1>8, <1>9
<1> QED
  BY <1>5, <1>8, <1>10

\* What goes on begins with what there is.
LEMMA PrefixOfConcat ==
  ASSUME NEW S, NEW s \in Seq(S), NEW x \in Seq(S)
  PROVE  IsPrefix(s, s \o x)
<1>1. Len(s) \in Nat /\ Len(s \o x) = Len(s) + Len(x) /\ Len(x) \in Nat
  OBVIOUS
<1>2. SubSeq(s, 1, Len(s)) = s
  BY SubSeqFull
<1>3. SubSeq(s \o x, 1, Len(s)) = s
  OBVIOUS
<1> QED
  BY <1>1, <1>2, <1>3 DEF IsPrefix
=============================================================================
