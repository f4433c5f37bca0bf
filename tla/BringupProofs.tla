---------------------------- MODULE BringupProofs ----------------------------
(***************************************************************************)
(* Proofs about Bringup, for every board, every set of clocks that may be  *)
(* on at reset, and hardware of any speed.  Theorems about the console and *)
(* the watchdog have at91 started by a first stage.                        *)
(***************************************************************************)
EXTENDS BringupInv, FiniteSetTheorems, TLAPS

-----------------------------------------------------------------------------
(* Orders of steps *)

\* The length and the members of a concatenation.
LEMMA Joined ==
  ASSUME NEW S, NEW p \in Seq(S), NEW q \in Seq(S)
  PROVE  /\ p \o q \in Seq(S) /\ Len(p \o q) = Len(p) + Len(q)
         /\ Len(p) \in Nat /\ Len(q) \in Nat
         /\ \A i \in 1 .. Len(p) : (p \o q)[i] = p[i]
         /\ \A i \in 1 .. Len(q) : (p \o q)[Len(p) + i] = q[i]
OBVIOUS

\* What comes after a step of p or q in their concatenation.
LEMMA SinceJoined ==
  ASSUME NEW p \in Seq(Steps), NEW q \in Seq(Steps), NEW A, NEW B
  PROVE  /\ \A n \in 0 .. Len(p) : Since(p \o q, n, A, B) <=> Since(p, n, A, B)
         /\ \A n \in 0 .. Len(q) : Since(q, n, A, B) => Since(p \o q, Len(p) + n, A, B)
         /\ \A n \in 0 .. Len(q) :
              Since(p, Len(p), A, B) /\ (\A j \in 1 .. n : q[j] \notin B)
                => Since(p \o q, Len(p) + n, A, B)
         /\ \A n \in 0 .. Len(q) :
              Since(p \o q, Len(p) + n, A, B) =>
                \/ Since(q, n, A, B)
                \/ Since(p, Len(p), A, B) /\ \A j \in 1 .. n : q[j] \notin B
<1> DEFINE a == Len(p)  b == Len(q)  r == p \o q
<1>1. /\ a \in Nat /\ b \in Nat
      /\ \A i \in 1 .. a : r[i] = p[i]
      /\ \A i \in 1 .. b : r[a + i] = q[i]
  BY Joined
<1> HIDE DEF a, b, r
<1>2. ASSUME NEW n \in 0 .. a
      PROVE  Since(r, n, A, B) <=> Since(p, n, A, B)
  BY <1>1 DEF Since
<1>3. ASSUME NEW n \in 0 .. b, Since(q, n, A, B)
      PROVE  Since(r, a + n, A, B)
  <2>1. PICK i \in 1 .. n : q[i] \in A /\ \A j \in i + 1 .. n : q[j] \notin B
    BY <1>3 DEF Since
  <2>2. r[a + i] \in A
    BY <1>1, <2>1
  <2>3. ASSUME NEW j \in (a + i) + 1 .. a + n
        PROVE  r[j] \notin B
    <3>1. j - a \in i + 1 .. n /\ j - a \in 1 .. b /\ a + (j - a) = j
      BY <1>1, <2>1
    <3> QED  BY Zenon, <1>1, <2>1, <3>1
  <2>4. a + i \in 1 .. a + n
    BY <1>1, <2>1
  <2> QED  BY <2>2, <2>3, <2>4 DEF Since
<1>4. ASSUME NEW n \in 0 .. b, Since(p, a, A, B), \A j \in 1 .. n : q[j] \notin B
      PROVE  Since(r, a + n, A, B)
  <2>1. PICK i \in 1 .. a : p[i] \in A /\ \A j \in i + 1 .. a : p[j] \notin B
    BY Zenon, <1>4 DEF Since
  <2>2. ASSUME NEW j \in i + 1 .. a + n
        PROVE  r[j] \notin B
    <3>1. CASE j <= a
      BY <1>1, <2>1, <3>1
    <3>2. CASE j > a
      <4>1. j - a \in 1 .. n /\ j - a \in 1 .. b /\ a + (j - a) = j
        BY <1>1, <2>1, <3>2
      <4> QED  BY Zenon, <1>1, <1>4, <4>1
    <3> QED  BY <1>1, <2>1, <3>1, <3>2
  <2>3. r[i] \in A /\ i \in 1 .. a + n
    BY <1>1, <2>1
  <2> QED  BY <2>2, <2>3 DEF Since
<1>5. ASSUME NEW n \in 0 .. b, Since(r, a + n, A, B)
      PROVE  Since(q, n, A, B) \/ (Since(p, a, A, B) /\ \A j \in 1 .. n : q[j] \notin B)
  <2>1. PICK i \in 1 .. a + n : r[i] \in A /\ \A j \in i + 1 .. a + n : r[j] \notin B
    BY <1>5 DEF Since
  <2>2. CASE i > a
    <3>1. i - a \in 1 .. n /\ i - a \in 1 .. b /\ a + (i - a) = i
      BY <1>1, <2>1, <2>2
    <3>2. q[i - a] \in A
      BY <1>1, <2>1, <3>1
    <3>3. ASSUME NEW j \in (i - a) + 1 .. n
          PROVE  q[j] \notin B
      <4>1. a + j \in i + 1 .. a + n /\ j \in 1 .. b
        BY <1>1, <3>1
      <4> QED  BY Zenon, <1>1, <2>1, <4>1
    <3> QED  BY <3>1, <3>2, <3>3 DEF Since
  <2>3. CASE i <= a
    <3>1. i \in 1 .. a /\ p[i] \in A
      BY <1>1, <2>1, <2>3
    <3>2. ASSUME NEW j \in i + 1 .. a
          PROVE  p[j] \notin B
      <4>1. j \in i + 1 .. a + n /\ j \in 1 .. a
        BY <1>1, <3>1
      <4> QED  BY <1>1, <2>1, <4>1
    <3>3. ASSUME NEW j \in 1 .. n
          PROVE  q[j] \notin B
      <4>1. a + j \in i + 1 .. a + n /\ j \in 1 .. b
        BY <1>1, <2>3, <3>1
      <4> QED  BY Zenon, <1>1, <2>1, <4>1
    <3> QED  BY <3>1, <3>2, <3>3 DEF Since
  <2> QED  BY <1>1, <2>1, <2>2, <2>3
<1> QED  BY <1>2, <1>3, <1>4, <1>5 DEF a, b, r

\* No step of A in one and in the other: none in the concatenation.
LEMMA WithoutJoined ==
  ASSUME NEW p \in Seq(Steps), NEW q \in Seq(Steps), NEW A, Without(p, A), Without(q, A)
  PROVE  Without(p \o q, A)
<1> DEFINE a == Len(p)  b == Len(q)  r == p \o q
<1>1. /\ a \in Nat /\ b \in Nat /\ Len(r) = a + b
      /\ \A i \in 1 .. a : r[i] = p[i]
      /\ \A i \in 1 .. b : r[a + i] = q[i]
  BY Joined
<1>2. (\A i \in 1 .. a : p[i] \notin A) /\ (\A i \in 1 .. b : q[i] \notin A)
  BY DEF Without
<1> HIDE DEF a, b, r
<1>3. ASSUME NEW i \in 1 .. a + b PROVE r[i] \notin A
  <2>1. CASE i <= a
    BY <1>1, <1>2, <2>1
  <2>2. CASE i > a
    <3>1. i - a \in 1 .. b /\ a + (i - a) = i
      BY <1>1, <2>2
    <3> QED  BY Zenon, <1>1, <1>2, <3>1
  <2> QED  BY <1>1, <2>1, <2>2
<1>4. Len(r) = a + b
  BY <1>1
<1>5. Without(r, A)
  BY <1>3, <1>4 DEF Without
<1> QED  BY <1>5 DEF r

\* A step of A that nothing of B follows is still behind the steps of q.
LEMMA SinceKept ==
  ASSUME NEW p \in Seq(Steps), NEW q \in Seq(Steps), NEW A, NEW B,
         Since(p, Len(p), A, B), Without(q, B)
  PROVE  Since(p \o q, Len(p \o q), A, B)
<1>1. Len(p \o q) = Len(p) + Len(q) /\ Len(q) \in 0 .. Len(q)
  BY Joined
<1>2. \A j \in 1 .. Len(q) : q[j] \notin B
  BY DEF Without
<1> QED  BY <1>1, <1>2, SinceJoined

\* What is open behind the second part is open behind both.
LEMMA SinceLast ==
  ASSUME NEW p \in Seq(Steps), NEW q \in Seq(Steps), NEW A, NEW B, Since(q, Len(q), A, B)
  PROVE  Since(p \o q, Len(p \o q), A, B)
<1>1. Len(p \o q) = Len(p) + Len(q) /\ Len(q) \in 0 .. Len(q)
  BY Joined
<1> QED  BY <1>1, SinceJoined

\* None of A is open behind the concatenation: neither part leaves one, or the
\* second has a step of B that closes what the first left.
LEMMA NotSinceJoined ==
  ASSUME NEW p \in Seq(Steps), NEW q \in Seq(Steps), NEW A, NEW B,
         ~ Since(q, Len(q), A, B),
         ~ Since(p, Len(p), A, B) \/ ~ Without(q, B)
  PROVE  ~ Since(p \o q, Len(p \o q), A, B)
<1>1. Len(p \o q) = Len(p) + Len(q) /\ Len(q) \in 0 .. Len(q)
  BY Joined
<1>2. Since(p \o q, Len(p) + Len(q), A, B) =>
        \/ Since(q, Len(q), A, B)
        \/ Since(p, Len(p), A, B) /\ \A j \in 1 .. Len(q) : q[j] \notin B
  BY <1>1, SinceJoined
<1> QED  BY <1>1, <1>2 DEF Without

\* What a program does not do is not open behind it.
LEMMA WithoutIsNotSince ==
  ASSUME NEW p \in Seq(Steps), NEW A, NEW B, Without(p, A)
  PROVE  ~ Since(p, Len(p), A, B)
BY DEF Without, Since

\* The steps of T in a concatenation are guarded.
LEMMA GuardedJoined ==
  ASSUME NEW p \in Seq(Steps), NEW q \in Seq(Steps), NEW T, NEW A, NEW B,
         Guarded(p, T, A, B),
         Guarded(q, T, A, B) \/ (Since(p, Len(p), A, B) /\ Without(q, B))
  PROVE  Guarded(p \o q, T, A, B)
<1> DEFINE a == Len(p)  b == Len(q)  r == p \o q
<1>1. /\ a \in Nat /\ b \in Nat /\ Len(r) = a + b
      /\ \A i \in 1 .. a : r[i] = p[i]
      /\ \A i \in 1 .. b : r[a + i] = q[i]
  BY Joined
<1>2. /\ \A n \in 0 .. a : Since(r, n, A, B) <=> Since(p, n, A, B)
      /\ \A n \in 0 .. b : Since(q, n, A, B) => Since(r, a + n, A, B)
      /\ \A n \in 0 .. b : Since(p, a, A, B) /\ (\A j \in 1 .. n : q[j] \notin B)
                             => Since(r, a + n, A, B)
  BY Zenon, SinceJoined
<1>3. \A i \in 1 .. a : p[i] \in T => Since(p, i - 1, A, B)
  BY DEF Guarded
<1>4. \/ \A i \in 1 .. b : q[i] \in T => Since(q, i - 1, A, B)
      \/ Since(p, a, A, B) /\ \A j \in 1 .. b : q[j] \notin B
  BY DEF Guarded, Without
<1> HIDE DEF a, b, r
<1>5. ASSUME NEW i \in 1 .. a + b, r[i] \in T PROVE Since(r, i - 1, A, B)
  <2>1. CASE i <= a
    <3>1. i \in 1 .. a /\ i - 1 \in 0 .. a
      BY <1>1, <2>1
    <3> QED  BY <1>1, <1>2, <1>3, <1>5, <3>1
  <2>2. CASE i > a
    <3> DEFINE k == i - a
    <3>1. k \in 1 .. b /\ k - 1 \in 0 .. b /\ a + k = i /\ a + (k - 1) = i - 1
      BY <1>1, <2>2
    <3>2. q[k] \in T
      BY <1>1, <1>5, <3>1
    <3>3. \A j \in 1 .. k - 1 : j \in 1 .. b
      BY <1>1, <3>1
    <3> HIDE DEF k
    <3>4. Since(r, a + (k - 1), A, B)
      BY <1>2, <1>4, <3>1, <3>2, <3>3
    <3> QED  BY <3>1, <3>4
  <2> QED  BY <1>1, <2>1, <2>2
<1>6. Guarded(r, T, A, B)
  BY <1>1, <1>5 DEF Guarded
<1> QED  BY <1>6 DEF r

\* A program that does not use a thing uses it in order.
LEMMA WithoutIsGuarded ==
  ASSUME NEW p \in Seq(Steps), NEW T, NEW A, NEW B, Without(p, T)
  PROVE  Guarded(p, T, A, B) /\ Apart(p, T, A, B)
BY DEF Without, Guarded, Apart

\* A program that does not start a thing never meets it half done.
LEMMA WithoutIsApart ==
  ASSUME NEW p \in Seq(Steps), NEW T, NEW A, NEW B, Without(p, A)
  PROVE  Apart(p, T, A, B)
BY DEF Without, Apart, Since

\* No step of T in a concatenation is behind an open step of A.
LEMMA ApartJoined ==
  ASSUME NEW p \in Seq(Steps), NEW q \in Seq(Steps), NEW T, NEW A, NEW B,
         Apart(p, T, A, B), Apart(q, T, A, B),
         ~ Since(p, Len(p), A, B) \/ Without(q, T)
  PROVE  Apart(p \o q, T, A, B)
<1> DEFINE a == Len(p)  b == Len(q)  r == p \o q
<1>1. /\ a \in Nat /\ b \in Nat /\ Len(r) = a + b
      /\ \A i \in 1 .. a : r[i] = p[i]
      /\ \A i \in 1 .. b : r[a + i] = q[i]
  BY Joined
<1>2. /\ \A n \in 0 .. a : Since(r, n, A, B) <=> Since(p, n, A, B)
      /\ \A n \in 0 .. b : Since(r, a + n, A, B) => Since(q, n, A, B) \/ Since(p, a, A, B)
  BY SinceJoined
<1>3. /\ \A i \in 1 .. a : p[i] \in T => ~ Since(p, i - 1, A, B)
      /\ \A i \in 1 .. b : q[i] \in T => ~ Since(q, i - 1, A, B)
      /\ ~ Since(p, a, A, B) \/ \A i \in 1 .. b : q[i] \notin T
  BY DEF Apart, Without
<1> HIDE DEF a, b, r
<1>4. ASSUME NEW i \in 1 .. a + b, r[i] \in T PROVE ~ Since(r, i - 1, A, B)
  <2>1. CASE i <= a
    <3>1. i \in 1 .. a /\ i - 1 \in 0 .. a
      BY <1>1, <2>1
    <3> QED  BY <1>1, <1>2, <1>3, <1>4, <3>1
  <2>2. CASE i > a
    <3> DEFINE k == i - a
    <3>1. k \in 1 .. b /\ k - 1 \in 0 .. b /\ a + k = i /\ a + (k - 1) = i - 1
      BY <1>1, <2>2
    <3>2. q[k] \in T
      BY <1>1, <1>4, <3>1
    <3> HIDE DEF k
    <3>3. ~ Since(r, a + (k - 1), A, B)
      BY <1>2, <1>3, <3>1, <3>2
    <3> QED  BY <3>1, <3>3
  <2> QED  BY <1>1, <2>1, <2>2
<1>5. Apart(r, T, A, B)
  BY <1>1, <1>4 DEF Apart
<1> QED  BY <1>5 DEF r

StepsOf(K) == {s \in Steps : s.op \in K}

\* Programs of one step.

\* A program of one step.
LEMMA OneStep ==
  ASSUME NEW S, NEW s \in S PROVE <<s>> \in Seq(S)
OBVIOUS

\* Set() is a program of steps.
LEMMA SetTyped ==
  ASSUME NEW K, "set" \in K,
         NEW f \in SetValues
  PROVE  Set(f) \in Seq(StepsOf(K))
<1>1. [op |-> "set", f |-> f] \in StepsOf(K)
  BY DEF StepsOf, Steps
<1> QED  BY <1>1, OneStep DEF Set

\* Lock() is a program of steps.
LEMMA LockTyped ==
  ASSUME NEW K, "lock" \in K,
         NEW q \in Plls
  PROVE  Lock(q) \in Seq(StepsOf(K))
<1>1. [op |-> "lock", pll |-> q] \in StepsOf(K)
  BY DEF StepsOf, Steps
<1> QED  BY <1>1, OneStep DEF Lock

\* Bypass() is a program of steps.
LEMMA BypassTyped ==
  ASSUME NEW K, "bypass" \in K,
         NEW q \in Plls
  PROVE  Bypass(q) \in Seq(StepsOf(K))
<1>1. [op |-> "bypass", pll |-> q] \in StepsOf(K)
  BY DEF StepsOf, Steps
<1> QED  BY <1>1, OneStep DEF Bypass

\* Read() is a program of steps.
LEMMA ReadTyped ==
  ASSUME NEW K, "read" \in K,
         NEW d \in Domains
  PROVE  Read(d) \in Seq(StepsOf(K))
<1>1. [op |-> "read", dom |-> d] \in StepsOf(K)
  BY DEF StepsOf, Steps
<1> QED  BY <1>1, OneStep DEF Read

\* Write() is a program of steps.
LEMMA WriteTyped ==
  ASSUME NEW K, "write" \in K,
         NEW d \in Domains, NEW us \in SUBSET Units
  PROVE  Write(d, us) \in Seq(StepsOf(K))
<1>1. [op |-> "write", dom |-> d, units |-> us] \in StepsOf(K)
  BY DEF StepsOf, Steps
<1> QED  BY <1>1, OneStep DEF Write

\* Assign() is a program of steps.
LEMMA AssignTyped ==
  ASSUME NEW K, "assign" \in K,
         NEW d \in Domains, NEW us \in SUBSET Units
  PROVE  Assign(d, us) \in Seq(StepsOf(K))
<1>1. [op |-> "assign", dom |-> d, units |-> us] \in StepsOf(K)
  BY DEF StepsOf, Steps
<1> QED  BY <1>1, OneStep DEF Assign

\* Wait() is a program of steps.
LEMMA WaitTyped ==
  ASSUME NEW K, "wait" \in K,
         NEW e \in Events \cup Plls
  PROVE  Wait(e) \in Seq(StepsOf(K))
<1>1. [op |-> "wait", event |-> e] \in StepsOf(K)
  BY DEF StepsOf, Steps
<1> QED  BY <1>1, OneStep DEF Wait

\* Delay is a program of steps.
LEMMA DelayTyped ==
  ASSUME NEW K, "delay" \in K
  PROVE  Delay \in Seq(StepsOf(K))
<1>1. [op |-> "delay"] \in StepsOf(K)
  BY DEF StepsOf, Steps
<1> QED  BY <1>1, OneStep DEF Delay

\* PrintText is a program of steps.
LEMMA PrintTextTyped ==
  ASSUME NEW K, "print" \in K
  PROVE  PrintText \in Seq(StepsOf(K))
<1>1. [op |-> "print"] \in StepsOf(K)
  BY DEF StepsOf, Steps
<1> QED  BY <1>1, OneStep DEF PrintText

\* Wdt() is a program of steps.
LEMMA WdtTyped ==
  ASSUME NEW K, "wdt" \in K,
         NEW k \in {"off", "AAAA", "5555"}
  PROVE  Wdt(k) \in Seq(StepsOf(K))
<1>1. [op |-> "wdt", key |-> k] \in StepsOf(K)
  BY DEF StepsOf, Steps
<1> QED  BY <1>1, OneStep DEF Wdt

\* UartReg() is a program of steps.
LEMMA UartRegTyped ==
  ASSUME NEW K, "uart" \in K,
         NEW r \in Uart16550, NEW v \in Nat
  PROVE  UartReg(r, v) \in Seq(StepsOf(K))
<1>1. [op |-> "uart", reg |-> r, val |-> v] \in StepsOf(K)
  BY DEF StepsOf, Steps
<1> QED  BY <1>1, OneStep DEF UartReg

\* Mem() is a program of steps.
LEMMA MemTyped ==
  ASSUME NEW K, "mem" \in K,
         NEW c \in 0 .. 2, NEW m \in Commands
  PROVE  Mem(c, m) \in Seq(StepsOf(K))
<1>1. [op |-> "mem", chip |-> c, cmd |-> m] \in StepsOf(K)
  BY DEF StepsOf, Steps
<1> QED  BY <1>1, OneStep DEF Mem

\* Pin() is a program of steps.
LEMMA PinTyped ==
  ASSUME NEW K, "pin" \in K,
         NEW o \in Owners, NEW b \in {"A", "C", "D"}, NEW bits \in SUBSET (0 .. 31), NEW m \in {"peripheral", "input_pulled_up", "output", "low"}
  PROVE  Pin(o, b, bits, m) \in Seq(StepsOf(K))
<1>1. [op |-> "pin", owner |-> o, bank |-> b, bits |-> bits, mode |-> m] \in StepsOf(K)
  BY DEF StepsOf, Steps
<1> QED  BY <1>1, OneStep DEF Pin

\* ChipSelect() is a program of steps.
LEMMA ChipSelectTyped ==
  ASSUME NEW K, "cs" \in K,
         NEW on \in {0, 1}
  PROVE  ChipSelect(on) \in Seq(StepsOf(K))
<1>1. [op |-> "cs", on |-> on] \in StepsOf(K)
  BY DEF StepsOf, Steps
<1> QED  BY <1>1, OneStep DEF ChipSelect

\* A program of fewer kinds of steps is one of more.
LEMMA Wider == ASSUME NEW K, NEW L, K \subseteq L PROVE Seq(StepsOf(K)) \subseteq Seq(StepsOf(L))
<1>1. StepsOf(K) \subseteq StepsOf(L)
  BY DEF StepsOf
<1>2. \A p \in Seq(StepsOf(K)) : Len(p) \in Nat /\ DOMAIN p = 1 .. Len(p) /\ \A i \in 1 .. Len(p) : p[i] \in StepsOf(L)
  BY <1>1
<1>3. ASSUME NEW p \in Seq(StepsOf(K)) PROVE p \in Seq(StepsOf(L))
  <2>1. p = [i \in 1 .. Len(p) |-> p[i]]
    OBVIOUS
  <2> QED BY <1>2, <2>1
<1> QED  BY <1>3

\* A program of some kinds of steps has none of another.
LEMMA Kinds ==
  ASSUME NEW K, NEW p \in Seq(StepsOf(K))
  PROVE  /\ p \in Seq(Steps)
         /\ \A A : (\A s \in Steps : s \in A => s.op \notin K) => Without(p, A)
<1>1. \A i \in 1 .. Len(p) : p[i] \in Steps /\ p[i].op \in K
  BY DEF StepsOf
<1>2. p \in Seq(Steps)
  <2>1. p = [i \in 1 .. Len(p) |-> p[i]] /\ Len(p) \in Nat
    OBVIOUS
  <2> QED BY <1>1, <2>1
<1> QED  BY <1>1, <1>2 DEF Without

\* The fields that are set together.
LEMMA SetsTyped ==
  /\ \A v, w \in Nat : [OSC |-> v, SYSDIV |-> w] \in SetValues
  /\ \A u, v, w \in Nat : [MPU_M |-> u, MPU_N |-> v, MPU_M2 |-> w] \in SetValues
  /\ \A u, v, w \in Nat : [CORE_M |-> u, CORE_N |-> v, CORE_M2 |-> w] \in SetValues
  /\ \A u, v, w, x, y \in Nat :
       [CORE_M |-> u, CORE_N |-> v, CORE_M2 |-> w, L4 |-> x, L3 |-> y] \in SetValues
  /\ \A v, w \in Nat : [PER_M |-> v, PER_N |-> w] \in SetValues
  /\ \A v \in Nat : [PER_M2 |-> v] \in SetValues
  /\ \A u, v, w \in Nat : [PER_M |-> u, PER_N |-> v, PER_M2 |-> w] \in SetValues
  /\ \A u, v, w \in Nat : [MDIV |-> u, PDIV |-> v, SDIV |-> w] \in SetValues
  /\ \A u, v, w \in Nat : [A_MDIV |-> u, A_PDIV |-> v, A_SDIV |-> w] \in SetValues
  /\ \A v, w \in Nat : [HDIVN |-> v, PDIVN |-> w] \in SetValues
  /\ \A u, v, w, x \in Nat : [ULCON |-> u, UCON |-> v, UFCON |-> w, UBRDIV |-> x] \in SetValues
  /\ \A u, v, w \in Nat : [ULCON |-> u, UCON |-> v, UFCON |-> w] \in SetValues
  /\ \A v \in Nat : [SEL |-> v] \in SetValues
  /\ \A v \in Nat : [CLK_DIV0 |-> v] \in SetValues
  /\ \A v \in Nat : [UARTDIV |-> v] \in SetValues
  /\ \A v \in Nat : [UBRDIV |-> v] \in SetValues
  /\ \A v \in Nat : [US_CR |-> v] \in SetValues
  /\ \A v \in Nat : [US_MR |-> v] \in SetValues
  /\ \A v \in Nat : [BRGR |-> v] \in SetValues
  /\ \A v \in Nat : [LED |-> v] \in SetValues
<1>1. \A D \in SUBSET Fields : [D -> Nat] \subseteq SetValues
  BY DEF SetValues
<1>2. /\ {"OSC", "SYSDIV"} \in SUBSET Fields
      /\ {"MPU_M", "MPU_N", "MPU_M2"} \in SUBSET Fields
      /\ {"CORE_M", "CORE_N", "CORE_M2"} \in SUBSET Fields
      /\ {"CORE_M", "CORE_N", "CORE_M2", "L4", "L3"} \in SUBSET Fields
      /\ {"PER_M", "PER_N"} \in SUBSET Fields
      /\ {"PER_M2"} \in SUBSET Fields
      /\ {"PER_M", "PER_N", "PER_M2"} \in SUBSET Fields
      /\ {"MDIV", "PDIV", "SDIV"} \in SUBSET Fields
      /\ {"A_MDIV", "A_PDIV", "A_SDIV"} \in SUBSET Fields
      /\ {"HDIVN", "PDIVN"} \in SUBSET Fields
      /\ {"ULCON", "UCON", "UFCON", "UBRDIV"} \in SUBSET Fields
      /\ {"ULCON", "UCON", "UFCON"} \in SUBSET Fields
      /\ {"SEL"} \in SUBSET Fields /\ {"CLK_DIV0"} \in SUBSET Fields
      /\ {"UARTDIV"} \in SUBSET Fields /\ {"UBRDIV"} \in SUBSET Fields
      /\ {"US_CR"} \in SUBSET Fields /\ {"US_MR"} \in SUBSET Fields
      /\ {"BRGR"} \in SUBSET Fields /\ {"LED"} \in SUBSET Fields
  BY DEF Fields, OmapFields, Uart16550, S3CFields, S3CUart, S3C64xFields, At91Fields, At91Dbgu
<1>3. \A v, w \in Nat : [OSC |-> v, SYSDIV |-> w] \in [{"OSC", "SYSDIV"} -> Nat]
  OBVIOUS
<1>4. \A u, v, w \in Nat : [MPU_M |-> u, MPU_N |-> v, MPU_M2 |-> w] \in [{"MPU_M", "MPU_N", "MPU_M2"} -> Nat]
  OBVIOUS
<1>5. \A u, v, w \in Nat : [CORE_M |-> u, CORE_N |-> v, CORE_M2 |-> w] \in [{"CORE_M", "CORE_N", "CORE_M2"} -> Nat]
  OBVIOUS
<1>6. \A u, v, w, x, y \in Nat :
        [CORE_M |-> u, CORE_N |-> v, CORE_M2 |-> w, L4 |-> x, L3 |-> y]
          \in [{"CORE_M", "CORE_N", "CORE_M2", "L4", "L3"} -> Nat]
  OBVIOUS
<1>7. \A v, w \in Nat : [PER_M |-> v, PER_N |-> w] \in [{"PER_M", "PER_N"} -> Nat]
  OBVIOUS
<1>8. \A v \in Nat : [PER_M2 |-> v] \in [{"PER_M2"} -> Nat]
  OBVIOUS
<1>9. \A u, v, w \in Nat : [PER_M |-> u, PER_N |-> v, PER_M2 |-> w] \in [{"PER_M", "PER_N", "PER_M2"} -> Nat]
  OBVIOUS
<1>10. \A u, v, w \in Nat : [MDIV |-> u, PDIV |-> v, SDIV |-> w] \in [{"MDIV", "PDIV", "SDIV"} -> Nat]
  OBVIOUS
<1>11. \A u, v, w \in Nat : [A_MDIV |-> u, A_PDIV |-> v, A_SDIV |-> w] \in [{"A_MDIV", "A_PDIV", "A_SDIV"} -> Nat]
  OBVIOUS
<1>12. \A v, w \in Nat : [HDIVN |-> v, PDIVN |-> w] \in [{"HDIVN", "PDIVN"} -> Nat]
  OBVIOUS
<1>13. \A u, v, w, x \in Nat :
         [ULCON |-> u, UCON |-> v, UFCON |-> w, UBRDIV |-> x] \in [{"ULCON", "UCON", "UFCON", "UBRDIV"} -> Nat]
  OBVIOUS
<1>14. \A u, v, w \in Nat : [ULCON |-> u, UCON |-> v, UFCON |-> w] \in [{"ULCON", "UCON", "UFCON"} -> Nat]
  OBVIOUS
<1>15. \A v \in Nat :
         /\ [SEL |-> v] \in [{"SEL"} -> Nat] /\ [CLK_DIV0 |-> v] \in [{"CLK_DIV0"} -> Nat]
         /\ [UARTDIV |-> v] \in [{"UARTDIV"} -> Nat] /\ [UBRDIV |-> v] \in [{"UBRDIV"} -> Nat]
         /\ [US_CR |-> v] \in [{"US_CR"} -> Nat] /\ [US_MR |-> v] \in [{"US_MR"} -> Nat]
         /\ [BRGR |-> v] \in [{"BRGR"} -> Nat] /\ [LED |-> v] \in [{"LED"} -> Nat]
  OBVIOUS
<1> QED
  BY Zenon, <1>1, <1>2, <1>3, <1>4, <1>5, <1>6, <1>7, <1>8, <1>9, <1>10, <1>11, <1>12, <1>13, <1>14, <1>15

\* The kinds of steps of arch_init() of OMAP3.
LEMMA Omap3WatchdogTyped ==
  /\ Omap3WatchdogClocks \in Seq(StepsOf({"assign", "wait"}))
  /\ Omap3WatchdogStop \in Seq(StepsOf({"wdt", "wait"}))
<1> DEFINE S == Seq(StepsOf({"assign", "wait"}))
           W == Seq(StepsOf({"wdt", "wait"}))
<1>1. (\A p, q \in S : p \o q \in S) /\ (\A p, q \in W : p \o q \in W)
  BY Joined
<1>2. Assign("fwkup", {"wdt2"}) \in S /\ Assign("iwkup", {"wdt2"}) \in S
  <2>1. {"wdt2"} \in SUBSET Units /\ "fwkup" \in Domains /\ "iwkup" \in Domains
    BY DEF Units, Domains
  <2> QED  BY <2>1, AssignTyped
<1>3. Wait("wdt_awake") \in S /\ Wait("wdt_write") \in W /\ Wdt("AAAA") \in W /\ Wdt("5555") \in W
  BY Zenon, WaitTyped, WdtTyped DEF Events
<1> HIDE DEF S, W
<1>4. Omap3WatchdogClocks \in S /\ Omap3WatchdogStop \in W
  BY <1>1, <1>2, <1>3 DEF Omap3WatchdogClocks, Omap3WatchdogStop
<1> QED  BY <1>4 DEF S, W

\* The kinds of steps that set the PLLs of OMAP3.
LEMMA Omap3PllsTyped == Omap3Plls \in Seq(StepsOf({"set", "lock"}))
<1> DEFINE S == Seq(StepsOf({"set", "lock"}))
           a == Set([OSC |-> 260000, SYSDIV |-> 2])
           b == Set([MPU_M |-> 250, MPU_N |-> 12, MPU_M2 |-> 1])
           c == Set([CORE_M |-> 332, CORE_N |-> 12, CORE_M2 |-> 1, L4 |-> 2, L3 |-> 2])
           d == Set([PER_M |-> 432, PER_N |-> 12])
<1>1. \A p, q \in S : p \o q \in S
  BY Joined
<1>2. \A f \in SetValues : Set(f) \in S
  BY SetTyped
<1>3. Lock("mpu") \in S /\ Lock("core") \in S /\ Lock("per") \in S
  BY LockTyped DEF Plls
<1> HIDE DEF S
<1>4. a \in S /\ b \in S /\ c \in S /\ d \in S
  BY SMT, <1>2, SetsTyped
<1>5. Omap3Plls = a \o b \o Lock("mpu") \o c \o Lock("core") \o d \o Lock("per")
  BY SMT DEF Omap3Plls
<1> HIDE DEF a, b, c, d
<1>6. Omap3Plls \in S
  BY Zenon, <1>1, <1>3, <1>4, <1>5
<1> QED  BY <1>6 DEF S

\* The kinds of steps that open the clocks of OMAP3.
LEMMA Omap3GatesTyped ==
  /\ Omap3Gates \in Seq(StepsOf({"read", "write"}))
  /\ \A index \in {0, 2} : Omap3UartGates(index) \in Seq(StepsOf({"read", "write"}))
<1> DEFINE S == Seq(StepsOf({"read", "write"}))
<1>1. \A p, q \in S : p \o q \in S
  BY Joined
<1>2. /\ {"gpt2"} \in SUBSET Units /\ {"uart1"} \in SUBSET Units /\ {"uart3"} \in SUBSET Units
      /\ "fclk" \in Domains /\ "iclk" \in Domains /\ "fcore" \in Domains /\ "icore" \in Domains
  BY DEF Units, Domains
<1>3. /\ Read("iclk") \in S /\ Write("iclk", {"gpt2"}) \in S /\ Write("fclk", {"gpt2"}) \in S
      /\ Write("fclk", {"uart3"}) \in S /\ Write("iclk", {"uart3"}) \in S
      /\ Read("fclk") \in S
      /\ Read("fcore") \in S /\ Write("fcore", {"uart1"}) \in S
      /\ Read("icore") \in S /\ Write("icore", {"uart1"}) \in S
  BY Zenon, <1>2, ReadTyped, WriteTyped
<1> HIDE DEF S
<1>4. Omap3Gates \in S
  BY <1>1, <1>3 DEF Omap3Gates
<1>5. Open("fcore", {"uart1"}) \in S /\ Open("icore", {"uart1"}) \in S /\ Open("fclk", {"uart3"}) \in S
  BY <1>1, <1>3 DEF Open
<1>6. \A index \in {0, 2} : Omap3UartGates(index) \in S
  BY <1>1, <1>5 DEF Omap3UartGates
<1> QED  BY <1>4, <1>6 DEF S

\* The kinds of steps of plat_init() of OMAP3.
LEMMA Omap3PlatTyped ==
  Omap3Plat \in Seq(StepsOf({"assign", "wait", "wdt", "set", "lock", "read", "write"}))
<1> DEFINE S == Seq(StepsOf({"assign", "wait", "wdt", "set", "lock", "read", "write"}))
<1>1. \A p, q \in S : p \o q \in S
  BY Joined
<1>2. /\ Seq(StepsOf({"assign", "wait"})) \subseteq S /\ Seq(StepsOf({"wdt", "wait"})) \subseteq S
      /\ Seq(StepsOf({"set", "lock"})) \subseteq S /\ Seq(StepsOf({"read", "write"})) \subseteq S
  BY Wider
<1>3. /\ Omap3WatchdogClocks \in S /\ Omap3WatchdogStop \in S /\ Omap3Plls \in S /\ Omap3Gates \in S
  BY <1>2, Omap3WatchdogTyped, Omap3PllsTyped, Omap3GatesTyped
<1> HIDE DEF S
<1>4. Omap3Plat \in S
  BY <1>1, <1>3 DEF Omap3Plat
<1> QED  BY <1>4 DEF S

\* The kinds of steps of the parts of uart_init() of OMAP3.
LEMMA Omap3UartPartsTyped ==
  /\ Omap3UartClock \in Seq(StepsOf({"set", "lock"}))
  /\ Omap3UartReset \in Seq(StepsOf({"uart", "wait"}))
  /\ Omap3UartMode \in Seq(StepsOf({"uart", "read", "write"}))
  /\ Omap3UartSettle \in Seq(StepsOf({"delay"}))
<1> DEFINE C == Seq(StepsOf({"set", "lock"}))
           R == Seq(StepsOf({"uart", "wait"}))
           M == Seq(StepsOf({"uart", "read", "write"}))
<1>1. /\ \A p, q \in C : p \o q \in C
      /\ \A p, q \in R : p \o q \in R
      /\ \A p, q \in M : p \o q \in M
  BY Joined
<1>2. Set([PER_M2 |-> 9]) \in C /\ Set([PER_M |-> 432, PER_N |-> 12]) \in C /\ Lock("per") \in C
  <2>1. [PER_M2 |-> 9] \in SetValues /\ [PER_M |-> 432, PER_N |-> 12] \in SetValues
    BY SetsTyped
  <2> QED  BY Zenon, <2>1, SetTyped, LockTyped DEF Plls
<1>3. UartReg("SYSC", 2) \in R /\ Wait("uart_reset") \in R
  BY UartRegTyped, WaitTyped DEF Uart16550, Events
<1>4. \A r \in Uart16550, v \in Nat : UartReg(r, v) \in M
  BY UartRegTyped
<1>5. Read("fclk") \in M /\ Write("fclk", {"uart3"}) \in M
  <2>1. {"uart3"} \in SUBSET Units /\ "fclk" \in Domains
    BY DEF Units, Domains
  <2> QED  BY <2>1, ReadTyped, WriteTyped
<1>6. Omap3UartSettle \in Seq(StepsOf({"delay"}))
  BY DelayTyped DEF Omap3UartSettle
<1> HIDE DEF C, R, M
<1>7. Omap3UartClock \in C
  BY <1>1, <1>2 DEF Omap3UartClock
<1>8. Omap3UartReset \in R
  BY <1>1, <1>3 DEF Omap3UartReset
<1>9. Omap3UartMode \in M
  <2>1. /\ UartReg("MDR1", 7) \in M /\ UartReg("LCR", 191) \in M /\ UartReg("LCR", 0) \in M
        /\ UartReg("IER", 0) \in M /\ UartReg("DLL", 26) \in M /\ UartReg("DLH", 0) \in M
        /\ UartReg("LCR", 3) \in M /\ UartReg("FCR", 7) \in M /\ UartReg("MDR1", 0) \in M
    BY <1>4 DEF Uart16550
  <2>2. Open("fclk", {"uart3"}) \in M
    BY <1>1, <1>5 DEF Open
  <2>3. \A p, q \in M : p \o q \in M
    BY <1>1
  <2>4. UartReg("MDR1", 7) \o UartReg("LCR", 191) \o UartReg("LCR", 0) \o UartReg("IER", 0)
          \o UartReg("LCR", 191) \o Open("fclk", {"uart3"}) \in M
    BY <2>1, <2>2, <2>3
  <2> QED  BY <2>1, <2>3, <2>4 DEF Omap3UartMode
<1> QED  BY <1>6, <1>7, <1>8, <1>9 DEF C, R, M

\* The kinds of steps of uart_init() of OMAP3.
LEMMA Omap3UartTyped ==
  ASSUME NEW index \in {0, 2}
  PROVE  Omap3Uart(index) \in Seq(StepsOf({"set", "lock", "read", "write", "uart", "wait", "delay"}))
<1> DEFINE S == Seq(StepsOf({"set", "lock", "read", "write", "uart", "wait", "delay"}))
<1>1. \A p, q \in S : p \o q \in S
  BY Joined
<1>2. /\ Seq(StepsOf({"set", "lock"})) \subseteq S /\ Seq(StepsOf({"read", "write"})) \subseteq S
      /\ Seq(StepsOf({"uart", "wait"})) \subseteq S
      /\ Seq(StepsOf({"uart", "read", "write"})) \subseteq S /\ Seq(StepsOf({"delay"})) \subseteq S
  BY Wider
<1>3. /\ Omap3UartClock \in S /\ Omap3UartGates(index) \in S /\ Omap3UartReset \in S
      /\ Omap3UartMode \in S /\ Omap3UartSettle \in S
  BY <1>2, Omap3GatesTyped, Omap3UartPartsTyped
<1> HIDE DEF S
<1>4. Omap3Uart(index) \in S
  BY <1>1, <1>3 DEF Omap3Uart
<1> QED  BY <1>4 DEF S

\* The kinds of steps of sdram_init() of OMAP3.
LEMMA Omap3SdramTyped == Omap3Sdram \in Seq(StepsOf({"mem", "wait"}))
<1> DEFINE S == Seq(StepsOf({"mem", "wait"}))
<1>1. \A p, q \in S : p \o q \in S
  BY Joined
<1>2. \A cmd \in Commands : Mem(0, cmd) \in S
  BY MemTyped
<1>3. Wait("mem_reset") \in S
  BY WaitTyped DEF Events
<1> HIDE DEF S
<1>4. /\ Mem(0, "reset") \in S /\ Mem(0, "config") \in S /\ Mem(0, "NOP") \in S
      /\ Mem(0, "PRE") \in S /\ Mem(0, "REF") \in S /\ Mem(0, "MRS") \in S /\ Mem(0, "DLL") \in S
  BY <1>2 DEF Commands
<1>5. Omap3Sdram \in S
  BY <1>1, <1>3, <1>4 DEF Omap3Sdram
<1> QED  BY <1>5 DEF S

\* The kinds of steps of two PLLs of OMAP4.
LEMMA Omap4PllTyped ==
  ASSUME NEW K, {"set", "bypass", "lock"} \subseteq K,
         NEW d, d.m \in Nat, d.n \in Nat, d.m2 \in Nat
  PROVE  Omap4Mpu(d) \in Seq(StepsOf(K)) /\ Omap4Per(d) \in Seq(StepsOf(K))
<1>1. \A p, q \in Seq(StepsOf(K)) : p \o q \in Seq(StepsOf(K))
  BY Joined
<1>2. /\ Lock("mpu") \in Seq(StepsOf(K)) /\ Lock("per") \in Seq(StepsOf(K))
      /\ Bypass("mpu") \in Seq(StepsOf(K)) /\ Bypass("per") \in Seq(StepsOf(K))
  BY LockTyped, BypassTyped DEF Plls
<1>3. Set([MPU_M |-> d.m, MPU_N |-> d.n, MPU_M2 |-> d.m2]) \in Seq(StepsOf(K))
  <2>1. [MPU_M |-> d.m, MPU_N |-> d.n, MPU_M2 |-> d.m2] \in SetValues
    BY SetsTyped
  <2> QED  BY <2>1, SetTyped
<1>4. Set([PER_M |-> d.m, PER_N |-> d.n, PER_M2 |-> d.m2]) \in Seq(StepsOf(K))
  <2>1. [PER_M |-> d.m, PER_N |-> d.n, PER_M2 |-> d.m2] \in SetValues
    BY SetsTyped
  <2> QED  BY <2>1, SetTyped
<1> QED  BY <1>1, <1>2, <1>3, <1>4 DEF Omap4Mpu, Omap4Per

\* The kinds of steps of the core PLL of OMAP4.
LEMMA Omap4CoreTyped ==
  ASSUME NEW K, {"set", "bypass", "lock", "read", "write", "wait"} \subseteq K,
         NEW d, d.m \in Nat, d.n \in Nat, d.m2 \in Nat
  PROVE  Omap4Core(d) \in Seq(StepsOf(K))
<1> DEFINE S == Seq(StepsOf(K))
           a == Set([CORE_M |-> d.m, CORE_N |-> d.n, CORE_M2 |-> d.m2])
<1>1. \A p, q \in S : p \o q \in S
  BY Joined
<1>2. Lock("core") \in S /\ Bypass("core") \in S /\ Wait("emif_awake") \in S /\ Wait("core") \in S
  BY LockTyped, BypassTyped, WaitTyped DEF Events, Plls
<1>3. Read("memif") \in S /\ Write("memif", {"emif1", "emif2"}) \in S
  <2>1. {"emif1", "emif2"} \in SUBSET Units /\ "memif" \in Domains
    BY DEF Units, Domains
  <2> QED  BY <2>1, ReadTyped, WriteTyped
<1>4. a \in S
  <2>1. [CORE_M |-> d.m, CORE_N |-> d.n, CORE_M2 |-> d.m2] \in SetValues
    BY SetsTyped
  <2> QED  BY <2>1, SetTyped
<1> DEFINE g == Open("memif", {"emif1", "emif2"})
<1>5. Omap4Core(d) = Bypass("core") \o a \o g \o Wait("emif_awake") \o Lock("core") \o Wait("core")
  BY DEF Omap4Core
<1> HIDE DEF S, a
<1>6. g \in S
  BY <1>1, <1>3 DEF Open
<1> HIDE DEF g
<1>7. Bypass("core") \o a \o g \in S
  BY <1>1, <1>2, <1>4, <1>6
<1>8. Bypass("core") \o a \o g \o Wait("emif_awake") \o Lock("core") \in S
  BY <1>1, <1>2, <1>7
<1>9. Omap4Core(d) \in S
  BY <1>1, <1>2, <1>5, <1>8
<1> QED  BY <1>9 DEF S

\* The kinds of steps that open the clocks of OMAP4.
LEMMA Omap4GatesTyped ==
  /\ Omap4GpioGates \in Seq(StepsOf({"read", "write"}))
  /\ Omap4UartGates \in Seq(StepsOf({"read", "write"}))
<1> DEFINE S == Seq(StepsOf({"read", "write"}))
<1>1. \A p, q \in S : p \o q \in S
  BY Joined
<1>2. /\ {"gpio2", "gpio3", "gpio4", "gpio5", "gpio6"} \in SUBSET Units
      /\ {"uart1", "uart2", "uart3", "uart4"} \in SUBSET Units
      /\ "l4per" \in Domains
  BY DEF Units, Domains
<1>3. /\ Read("l4per") \in S
      /\ Write("l4per", {"gpio2", "gpio3", "gpio4", "gpio5", "gpio6"}) \in S
      /\ Write("l4per", {"uart1", "uart2", "uart3", "uart4"}) \in S
  BY <1>2, ReadTyped, WriteTyped
<1> HIDE DEF S
<1>4. Omap4GpioGates \in S /\ Omap4UartGates \in S
  BY <1>1, <1>3 DEF Omap4GpioGates, Omap4UartGates, Open
<1> QED  BY <1>4 DEF S

\* The kinds of steps of plat_init() of OMAP4.
LEMMA Omap4PlatTyped ==
  Omap4Plat \in Seq(StepsOf({"set", "bypass", "lock", "read", "write", "wait"}))
<1> DEFINE K == {"set", "bypass", "lock", "read", "write", "wait"}
           S == Seq(StepsOf(K))
           a == Set([OSC |-> 384000, SYSDIV |-> 1])
<1>1. \A p, q \in S : p \o q \in S
  BY Joined
<1>2. /\ MpuDpll.m \in Nat /\ MpuDpll.n \in Nat /\ MpuDpll.m2 \in Nat
      /\ PerDpll.m \in Nat /\ PerDpll.n \in Nat /\ PerDpll.m2 \in Nat
      /\ CoreDpll.m \in Nat /\ CoreDpll.n \in Nat /\ CoreDpll.m2 \in Nat
  BY DEF MpuDpll, PerDpll, CoreDpll
<1>3. Omap4Mpu(MpuDpll) \in S /\ Omap4Per(PerDpll) \in S
  BY Zenon, <1>2, Omap4PllTyped
<1>4. Omap4Core(CoreDpll) \in S
  BY Zenon, <1>2, Omap4CoreTyped
<1>5. Omap4GpioGates \in S /\ Omap4UartGates \in S
  <2>1. Seq(StepsOf({"read", "write"})) \subseteq S
    BY Wider
  <2> QED  BY <2>1, Omap4GatesTyped
<1>6. a \in S
  <2>1. [OSC |-> 384000, SYSDIV |-> 1] \in SetValues
    BY SMT, SetsTyped
  <2> QED  BY SMT, <2>1, SetTyped
<1>7. Omap4Plat = a \o Omap4Mpu(MpuDpll) \o Omap4Per(PerDpll) \o Omap4Core(CoreDpll)
                    \o Omap4GpioGates \o Omap4UartGates
  BY SMT DEF Omap4Plat
<1> HIDE DEF S, a
<1>8. Omap4Plat \in S
  BY <1>1, <1>3, <1>4, <1>5, <1>6, <1>7
<1> QED  BY <1>8 DEF S

\* The kinds of steps of the UART of OMAP4.
LEMMA Omap4UartTyped == Omap4Uart \in Seq(StepsOf({"uart"}))
<1> DEFINE S == Seq(StepsOf({"uart"}))
           div == (48000000 \div 16) \div 115200
<1>1. \A p, q \in S : p \o q \in S
  BY Joined
<1>2. \A r \in Uart16550, v \in Nat : UartReg(r, v) \in S
  BY UartRegTyped
<1>3. div % 256 \in Nat /\ div \div 256 \in Nat
  BY SMT
<1> HIDE DEF S
<1>4. /\ UartReg("IER", 0) \in S /\ UartReg("MDR1", 7) \in S /\ UartReg("LCR", 131) \in S
      /\ UartReg("DLL", div % 256) \in S /\ UartReg("DLH", div \div 256) \in S
      /\ UartReg("LCR", 3) \in S /\ UartReg("MCR", 3) \in S /\ UartReg("FCR", 7) \in S
      /\ UartReg("MDR1", 0) \in S
  BY SMT, <1>2, <1>3 DEF Uart16550
<1>5. Omap4Uart \in S
  BY SMT, <1>1, <1>4 DEF Omap4Uart
<1> QED  BY <1>5 DEF S

\* The kinds of steps of the SDRAM of OMAP4.
LEMMA Omap4SdramTyped ==
  /\ \A e \in {1, 2} : Omap4Emif(e) \in Seq(StepsOf({"mem", "wait", "delay"}))
  /\ Omap4Sdram \in Seq(StepsOf({"mem", "wait", "delay"}))
<1> DEFINE S == Seq(StepsOf({"mem", "wait", "delay"}))
<1>1. \A p, q \in S : p \o q \in S
  BY Joined
<1>2. \A e \in {1, 2}, cmd \in Commands : Mem(e, cmd) \in S
  BY MemTyped
<1>3. Wait("mem_init") \in S /\ Wait("mem_DLL") \in S /\ Delay \in S
  BY WaitTyped, DelayTyped DEF Events
<1> HIDE DEF S
<1>4. ASSUME NEW e \in {1, 2} PROVE Omap4Emif(e) \in S
  <2>1. /\ Mem(e, "config") \in S /\ Mem(e, "MRR") \in S /\ Mem(e, "ZQ") \in S
        /\ Mem(e, "MR1") \in S /\ Mem(e, "MR2") \in S /\ Mem(e, "final") \in S
        /\ Mem(e, "refresh") \in S /\ Mem(e, "MR16") \in S /\ Mem(e, "DLL") \in S
        /\ Mem(e, "power") \in S
    BY <1>2 DEF Commands
  <2> QED  BY <1>1, <1>3, <2>1 DEF Omap4Emif
<1>5. Omap4Sdram \in S
  BY <1>1, <1>4 DEF Omap4Sdram
<1> QED  BY <1>4, <1>5 DEF S

\* The kinds of steps of the S3C2410 and the S3C2440.
LEMMA S3C24xTyped ==
  ASSUME NEW b \in S3C24Boards
  PROVE  /\ S3C24xPlat(S3C24Clock(b)) \in Seq(StepsOf({"wdt", "set", "lock"}))
         /\ S3C24xUart(S3C24Clock(b)) \in Seq(StepsOf({"set"}))
         /\ S3C24xSdram \in Seq(StepsOf({"mem"}))
<1> DEFINE P == Seq(StepsOf({"wdt", "set", "lock"}))
           U == Seq(StepsOf({"set"}))
           M == Seq(StepsOf({"mem"}))
           c == S3C24Clock(b)
<1>1. /\ \A p, q \in P : p \o q \in P
      /\ \A p, q \in M : p \o q \in M
  BY Joined
<1>2. \A f \in SetValues : Set(f) \in P
  BY SetTyped
<1>3. \A f \in SetValues : Set(f) \in U
  BY SetTyped
<1>4. Wdt("off") \in P /\ Lock("mpll") \in P
  BY WdtTyped, LockTyped DEF Plls
<1>5. \A cmd \in Commands : Mem(0, cmd) \in M
  BY MemTyped
<1> HIDE DEF P, U, M
<1>6. /\ c.mdiv \in Nat /\ c.pdiv \in Nat /\ c.sdiv \in Nat /\ c.hdivn \in Nat /\ c.pdivn \in Nat
  BY DEF S3C24Clock, S3C2410Clock, S3C2440Clock
<1>7. (PclkRate(c) \div 18432) - 1 \in Nat
  <2>1. 2 ^ 1 = 2 /\ 2 ^ 2 = 4
    OBVIOUS
  <2>2. CASE c = S3C2410Clock
    <3>1. PclkRate(c) = 507000
      BY SMT, <2>1, <2>2 DEF PclkRate, MpllRate, S3C2410Clock
    <3> QED  BY SMT, <3>1
  <2>3. CASE c = S3C2440Clock
    <3>1. PclkRate(c) = 506250
      BY SMT, <2>1, <2>3 DEF PclkRate, MpllRate, S3C2440Clock
    <3> QED  BY SMT, <3>1
  <2> QED  BY <2>2, <2>3 DEF S3C24Clock
<1> HIDE DEF c
<1>8. S3C24xPlat(c) \in P
  BY Zenon, <1>1, <1>2, <1>4, <1>6, SetsTyped DEF S3C24xPlat
<1>9. S3C24xUart(c) \in U
  BY <1>3, <1>7, SetsTyped DEF S3C24xUart
<1>10. S3C24xSdram \in M
  <2>1. /\ Mem(0, "config") \in M /\ Mem(0, "refresh") \in M /\ Mem(0, "size") \in M
        /\ Mem(0, "MRS") \in M
    BY <1>5 DEF Commands
  <2> QED  BY <1>1, <2>1 DEF S3C24xSdram
<1> QED  BY <1>8, <1>9, <1>10 DEF P, U, M, c

\* The kinds of steps of the S3C6410.
LEMMA S3C64xTyped ==
  /\ S3C64xPlat \in Seq(StepsOf({"wdt", "set", "lock"}))
  /\ S3C64xUart \in Seq(StepsOf({"set", "wait", "delay"}))
  /\ S3C64xSdram \in Seq(StepsOf({"mem", "wait"}))
<1> DEFINE P == Seq(StepsOf({"wdt", "set", "lock"}))
           U == Seq(StepsOf({"set", "wait", "delay"}))
           M == Seq(StepsOf({"mem", "wait"}))
<1>1. /\ \A p, q \in P : p \o q \in P
      /\ \A p, q \in U : p \o q \in U
      /\ \A p, q \in M : p \o q \in M
  BY Joined
<1>2. \A f \in SetValues : Set(f) \in P
  BY SetTyped
<1>3. \A f \in SetValues : Set(f) \in U
  BY SetTyped
<1>4. Wdt("off") \in P /\ Lock("mpll") \in P /\ Lock("apll") \in P
  BY WdtTyped, LockTyped DEF Plls
<1>5. \A cmd \in Commands : Mem(0, cmd) \in M
  BY MemTyped
<1>6. Wait("fifo_reset") \in U /\ Delay \in U
  BY WaitTyped, DelayTyped DEF Events
<1>7. Wait("mem_ready") \in M
  BY WaitTyped DEF Events
<1> HIDE DEF P, U, M
<1>8. S3C64xPlat \in P
  BY <1>1, <1>2, <1>4, SetsTyped DEF S3C64xPlat
<1>9. (S3C64xHclk \div 18432) - 1 \in Nat
  BY SMT DEF S3C64xHclk
<1>10. S3C64xUart \in U
  <2>1. /\ Set([UARTDIV |-> 1]) \in U /\ Set([ULCON |-> 3, UCON |-> 3077, UFCON |-> 103]) \in U
        /\ Set([UBRDIV |-> (S3C64xHclk \div 18432) - 1]) \in U
    BY <1>3, <1>9, SetsTyped
  <2> DEFINE a == Set([UARTDIV |-> 1])
             b == Set([ULCON |-> 3, UCON |-> 3077, UFCON |-> 103])
             c == Set([UBRDIV |-> (S3C64xHclk \div 18432) - 1])
  <2>2. S3C64xUart = a \o b \o Wait("fifo_reset") \o c \o Delay
    BY DEF S3C64xUart
  <2>3. a \in U /\ b \in U /\ c \in U
    BY <2>1
  <2> HIDE DEF a, b, c
  <2> QED  BY <1>1, <1>6, <2>2, <2>3
<1>11. S3C64xSdram \in M
  <2>1. /\ Mem(0, "config") \in M /\ Mem(0, "NOP") \in M /\ Mem(0, "PRE") \in M
        /\ Mem(0, "REF") \in M /\ Mem(0, "MRS") \in M /\ Mem(0, "EMRS") \in M /\ Mem(0, "go") \in M
    BY <1>5 DEF Commands
  <2> QED  BY <1>1, <1>7, <2>1 DEF S3C64xSdram
<1> QED  BY <1>8, <1>10, <1>11 DEF P, U, M

\* The kinds of steps of nand_init() of the S3C chips.
LEMMA S3CNandTyped ==
  ASSUME NEW b PROVE S3CNand(b) \in Seq(StepsOf({"cs"}))
<1> DEFINE S == Seq(StepsOf({"cs"}))
<1>1. \A p, q \in S : p \o q \in S
  BY Joined
<1>2. ChipSelect(0) \in S /\ ChipSelect(1) \in S
  BY ChipSelectTyped
<1> HIDE DEF S
<1>3. S3CNand(b) \in S
  BY <1>1, <1>2 DEF S3CNand
<1> QED  BY <1>3 DEF S

\* Pins given to a peripheral are a program of steps.
LEMMA PeriphTyped ==
  ASSUME NEW K, "pin" \in K, NEW owner \in Owners, NEW bank \in {"A", "C", "D"},
         NEW bits \in SUBSET (0 .. 31)
  PROVE  At91PeriphA(owner, bank, bits) \in Seq(StepsOf(K))
BY PinTyped DEF At91PeriphA

\* The pins of the NAND of at91 are programs of steps.
LEMMA NandPinsTyped ==
  ASSUME NEW K, "pin" \in K
  PROVE  /\ At91PeriphA("nand", "C", {0, 1}) \in Seq(StepsOf(K))
         /\ Pin("nand", "C", {14}, "output") \in Seq(StepsOf(K))
         /\ Pin("nand", "C", {14}, "low") \in Seq(StepsOf(K))
         /\ At91NandReadyPin("C", 15) \in Seq(StepsOf(K))
         /\ Pin("nand", "D", {15}, "output") \in Seq(StepsOf(K))
         /\ Pin("nand", "D", {15}, "low") \in Seq(StepsOf(K))
         /\ At91NandReadyPin("A", 22) \in Seq(StepsOf(K))
<1>1. /\ {0, 1} \in SUBSET (0 .. 31) /\ {14} \in SUBSET (0 .. 31) /\ {15} \in SUBSET (0 .. 31)
      /\ {22} \in SUBSET (0 .. 31) /\ "nand" \in Owners
  BY DEF Owners
<1>2. At91PeriphA("nand", "C", {0, 1}) \in Seq(StepsOf(K))
  BY <1>1, PeriphTyped
<1>3. /\ Pin("nand", "C", {14}, "output") \in Seq(StepsOf(K))
      /\ Pin("nand", "C", {14}, "low") \in Seq(StepsOf(K))
  BY <1>1, PinTyped
<1>4. /\ Pin("nand", "D", {15}, "output") \in Seq(StepsOf(K))
      /\ Pin("nand", "D", {15}, "low") \in Seq(StepsOf(K))
  BY <1>1, PinTyped
<1>5. At91NandReadyPin("C", 15) \in Seq(StepsOf(K)) /\ At91NandReadyPin("A", 22) \in Seq(StepsOf(K))
  BY <1>1, PinTyped DEF At91NandReadyPin
<1> QED  BY <1>2, <1>3, <1>4, <1>5

\* The kinds of steps of the two at91 chips.
LEMMA At91Typed ==
  ASSUME NEW chip \in {9261, 9263}
  PROVE  /\ At91Uart(chip) \in Seq(StepsOf({"pin", "set"}))
         /\ At91Sdram(chip) \in Seq(StepsOf({"pin", "mem"}))
         /\ At91Nand(chip) \in Seq(StepsOf({"cs", "read", "write", "pin"}))
<1> DEFINE U == Seq(StepsOf({"pin", "set"}))
           M == Seq(StepsOf({"pin", "mem"}))
           N == Seq(StepsOf({"cs", "read", "write", "pin"}))
<1>1. /\ \A p, q \in U : p \o q \in U
      /\ \A p, q \in M : p \o q \in M
      /\ \A p, q \in N : p \o q \in N
  BY Joined
<1>2. \A f \in SetValues : Set(f) \in U
  BY SetTyped
<1>3. \A cmd \in Commands : Mem(0, cmd) \in M
  BY MemTyped
<1>4. /\ At91PeriphA("console", "A", {9, 10}) \in U
      /\ At91PeriphA("console", "C", {30, 31}) \in U
      /\ At91PeriphA("sdram", IF chip = 9261 THEN "C" ELSE "D", At91DataBus) \in M
  <2>1. /\ {9, 10} \in SUBSET (0 .. 31) /\ {30, 31} \in SUBSET (0 .. 31)
        /\ At91DataBus \in SUBSET (0 .. 31)
    BY DEF At91DataBus
  <2>2. "console" \in Owners /\ "sdram" \in Owners
    BY DEF Owners
  <2> QED  BY <2>1, <2>2, PeriphTyped
<1>5. /\ At91PeriphA("nand", "C", {0, 1}) \in N
      /\ Pin("nand", "C", {14}, "output") \in N /\ Pin("nand", "C", {14}, "low") \in N
      /\ At91NandReadyPin("C", 15) \in N
      /\ Pin("nand", "D", {15}, "output") \in N /\ Pin("nand", "D", {15}, "low") \in N
      /\ At91NandReadyPin("A", 22) \in N
  BY NandPinsTyped
<1>6. /\ ChipSelect(1) \in N /\ Read("pmc") \in N
      /\ Write("pmc", {"C"}) \in N /\ Write("pmc", {"A", "D"}) \in N
  <2>1. {"C"} \in SUBSET Units /\ {"A", "D"} \in SUBSET Units /\ "pmc" \in Domains
    BY DEF Units, Domains
  <2> QED  BY <2>1, ChipSelectTyped, ReadTyped, WriteTyped
<1> HIDE DEF U, M, N
<1>7. At91Uart(chip) \in U
  <2>1. At91Mck(chip) \div 18432 \in Nat
    BY SMT DEF At91Mck, At91Pll
  <2>2. /\ Set([US_CR |-> 80]) \in U /\ Set([US_MR |-> 2048]) \in U
        /\ Set([BRGR |-> At91Mck(chip) \div 18432]) \in U
    BY <1>2, <2>1, SetsTyped
  <2> QED  BY <1>1, <1>4, <2>2 DEF At91Uart
<1>8. At91Sdram(chip) \in M
  <2>1. /\ Mem(0, "config") \in M /\ Mem(0, "PRE") \in M /\ Mem(0, "REF") \in M
        /\ Mem(0, "MRS") \in M /\ Mem(0, "go") \in M /\ Mem(0, "refresh") \in M
    BY <1>3 DEF Commands
  <2> QED  BY <1>1, <1>4, <2>1 DEF At91Sdram
<1>9. At91Nand(chip) \in N
  BY <1>1, <1>5, <1>6 DEF At91Nand, Open
<1> QED  BY <1>7, <1>8, <1>9 DEF U, M, N

\* The kinds of steps of e310.
LEMMA E310Typed == E310Led \in Seq(StepsOf({"set"}))
BY SetTyped, SetsTyped DEF E310Led

AfterSdram(b) == IF ReachesMain(b) THEN PrintText \o NandInit(b) ELSE <<>>

\* The kinds of steps in the parts of a board's program.
PlatKinds(b) ==
  CASE b \in Omap3Boards -> {"assign", "wait", "wdt", "set", "lock", "read", "write"}
    [] b = "omap4"       -> {"set", "bypass", "lock", "read", "write", "wait"}
    [] b \in S3C24Boards \cup {"s3c6410"} -> {"wdt", "set", "lock"}
    [] b = "e310"        -> {"set"}
    [] OTHER             -> {}

StdioKinds(b) ==
  CASE b \in Omap3Boards -> {"set", "lock", "read", "write", "uart", "wait", "delay"}
    [] b = "omap4"       -> {"uart"}
    [] b \in S3C24Boards -> {"set"}
    [] b = "s3c6410"     -> {"set", "wait", "delay"}
    [] b \in At91Boards  -> {"pin", "set"}
    [] OTHER             -> {}

SdramKinds(b) ==
  CASE b \in Omap3Boards -> {"mem", "wait"}
    [] b = "omap4"       -> {"mem", "wait", "delay"}
    [] b \in S3C24Boards -> {"mem"}
    [] b = "s3c6410"     -> {"mem", "wait"}
    [] b \in At91Boards  -> {"pin", "mem"}
    [] OTHER             -> {}

TailKinds(b) ==
  CASE b \in S3C24Boards \cup {"s3c6410"} -> {"print", "cs"}
    [] b \in At91Boards                   -> {"print", "cs", "read", "write", "pin"}
    [] b \in {"armvirt", "e310"}          -> {"print"}
    [] OTHER                              -> {}

\* The empty program.
LEMMA EmptyTyped == ASSUME NEW S PROVE <<>> \in Seq(S)
OBVIOUS

\* The kinds of steps of plat_init(), on every board.
LEMMA PlatTyped == ASSUME NEW b \in Boards PROVE Plat(b) \in Seq(StepsOf(PlatKinds(b)))
<1> USE DEF Boards, Omap3Boards, S3C24Boards, At91Boards
<1>1. CASE b \in Omap3Boards
  BY <1>1, Omap3PlatTyped DEF Plat, PlatKinds
<1>2. CASE b = "omap4"
  BY <1>2, Omap4PlatTyped DEF Plat, PlatKinds
<1>3. CASE b \in S3C24Boards
  BY <1>3, S3C24xTyped DEF Plat, PlatKinds
<1>4. CASE b = "s3c6410"
  BY <1>4, S3C64xTyped DEF Plat, PlatKinds
<1>5. CASE b = "e310"
  BY <1>5, E310Typed DEF Plat, PlatKinds
<1>6. CASE b \in At91Boards \cup {"armvirt"}
  BY Zenon, <1>6, EmptyTyped DEF Plat, PlatKinds
<1> QED  BY <1>1, <1>2, <1>3, <1>4, <1>5, <1>6

\* The kinds of steps of stdio_init(), on every board.
LEMMA StdioTyped == ASSUME NEW b \in Boards PROVE Stdio(b) \in Seq(StepsOf(StdioKinds(b)))
<1> USE DEF Boards, Omap3Boards, S3C24Boards, At91Boards
<1>1. CASE b \in Omap3Boards
  BY <1>1, Omap3UartTyped DEF Stdio, StdioKinds
<1>2. CASE b = "omap4"
  BY <1>2, Omap4UartTyped DEF Stdio, StdioKinds
<1>3. CASE b \in S3C24Boards
  BY <1>3, S3C24xTyped DEF Stdio, StdioKinds
<1>4. CASE b = "s3c6410"
  BY <1>4, S3C64xTyped DEF Stdio, StdioKinds
<1>5. CASE b \in At91Boards
  BY <1>5, At91Typed DEF Stdio, StdioKinds, At91Chip
<1>6. CASE b \in {"armvirt", "e310"}
  BY Zenon, <1>6, EmptyTyped DEF Stdio, StdioKinds
<1> QED  BY <1>1, <1>2, <1>3, <1>4, <1>5, <1>6

\* The kinds of steps of sdram_init(), on every board.
LEMMA SdramTyped == ASSUME NEW b \in Boards PROVE Sdram(b) \in Seq(StepsOf(SdramKinds(b)))
<1> USE DEF Boards, Omap3Boards, S3C24Boards, At91Boards
<1>1. CASE b \in Omap3Boards
  BY <1>1, Omap3SdramTyped DEF Sdram, SdramKinds
<1>2. CASE b = "omap4"
  BY <1>2, Omap4SdramTyped DEF Sdram, SdramKinds
<1>3. CASE b \in S3C24Boards
  BY <1>3, S3C24xTyped DEF Sdram, SdramKinds
<1>4. CASE b = "s3c6410"
  BY <1>4, S3C64xTyped DEF Sdram, SdramKinds
<1>5. CASE b \in At91Boards
  BY <1>5, At91Typed DEF Sdram, SdramKinds, At91Chip
<1>6. CASE b \in {"armvirt", "e310"}
  BY Zenon, <1>6, EmptyTyped DEF Sdram, SdramKinds
<1> QED  BY <1>1, <1>2, <1>3, <1>4, <1>5, <1>6

\* The kinds of steps behind sdram_init(), on every board.
LEMMA TailTyped == ASSUME NEW b \in Boards PROVE AfterSdram(b) \in Seq(StepsOf(TailKinds(b)))
<1> USE DEF Boards, Omap3Boards, S3C24Boards, At91Boards
<1>0. ASSUME NEW K PROVE \A p, q \in Seq(StepsOf(K)) : p \o q \in Seq(StepsOf(K))
  BY Joined
<1>1. CASE b \in S3C24Boards \cup {"s3c6410"}
  <2> DEFINE K == {"print", "cs"}
  <2>1. S3CNand(b) \in Seq(StepsOf(K))
    <3>1. Seq(StepsOf({"cs"})) \subseteq Seq(StepsOf(K))
      BY Wider
    <3> QED  BY <3>1, S3CNandTyped
  <2>2. PrintText \in Seq(StepsOf(K))
    BY PrintTextTyped
  <2>3. AfterSdram(b) = PrintText \o S3CNand(b) /\ TailKinds(b) = K
    BY <1>1 DEF AfterSdram, ReachesMain, NandInit, TailKinds
  <2> HIDE DEF K
  <2> QED  BY <1>0, <2>1, <2>2, <2>3
<1>2. CASE b \in At91Boards
  <2> DEFINE K == {"print", "cs", "read", "write", "pin"}
  <2>1. At91Nand(At91Chip(b)) \in Seq(StepsOf(K))
    <3>1. Seq(StepsOf({"cs", "read", "write", "pin"})) \subseteq Seq(StepsOf(K))
      BY Wider
    <3> QED  BY <3>1, At91Typed DEF At91Chip
  <2>2. PrintText \in Seq(StepsOf(K))
    BY PrintTextTyped
  <2>3. AfterSdram(b) = PrintText \o At91Nand(At91Chip(b)) /\ TailKinds(b) = K
    BY <1>2 DEF AfterSdram, ReachesMain, NandInit, TailKinds
  <2> HIDE DEF K
  <2> QED  BY <1>0, <2>1, <2>2, <2>3
<1>3. CASE b \in {"armvirt", "e310"}
  <2> DEFINE K == {"print"}
  <2>1. PrintText \in Seq(StepsOf(K)) /\ <<>> \in Seq(StepsOf(K))
    BY PrintTextTyped, EmptyTyped
  <2>2. AfterSdram(b) = PrintText \o <<>> /\ TailKinds(b) = K
    BY Zenon, <1>3 DEF AfterSdram, ReachesMain, NandInit, TailKinds
  <2> HIDE DEF K
  <2> QED  BY <1>0, <2>1, <2>2
<1>4. CASE b \in Omap3Boards \cup {"omap4"}
  BY <1>4, EmptyTyped DEF AfterSdram, ReachesMain, TailKinds
<1> QED  BY <1>1, <1>2, <1>3, <1>4

\* The parts of a program, and what it is made of.
LEMMA PartsTyped ==
  ASSUME NEW b \in Boards
  PROVE  /\ Plat(b) \in Seq(Steps) /\ Stdio(b) \in Seq(Steps) /\ PrintText \in Seq(Steps)
         /\ Sdram(b) \in Seq(Steps) /\ AfterSdram(b) \in Seq(Steps)
         /\ ProgramOf(b) = Plat(b) \o Stdio(b) \o PrintText \o Sdram(b) \o AfterSdram(b)
         /\ ProgramOf(b) \in Seq(Steps)
<1>1. PrintText \in Seq(Steps)
  BY Zenon, PrintTextTyped, Kinds
<1>2. /\ Plat(b) \in Seq(Steps) /\ Stdio(b) \in Seq(Steps)
      /\ Sdram(b) \in Seq(Steps) /\ AfterSdram(b) \in Seq(Steps)
  BY PlatTyped, StdioTyped, SdramTyped, TailTyped, Kinds
<1>3. ProgramOf(b) = Plat(b) \o Stdio(b) \o PrintText \o Sdram(b) \o AfterSdram(b)
  BY DEF ProgramOf, AfterSdram
<1>4. \A p, q \in Seq(Steps) : p \o q \in Seq(Steps)
  BY Joined
<1> QED  BY <1>1, <1>2, <1>3, <1>4

-----------------------------------------------------------------------------
(* Programs of five parts *)

\* What no part of a program does the program does not.
LEMMA PartsWithout ==
  ASSUME NEW b \in Boards, NEW A,
         Without(Plat(b), A), Without(Stdio(b), A), Without(PrintText, A), Without(Sdram(b), A),
         Without(AfterSdram(b), A)
  PROVE  Without(ProgramOf(b), A)
<1>1. Plat(b) \o Stdio(b) \in Seq(Steps) /\ Without(Plat(b) \o Stdio(b), A)
  BY PartsTyped, WithoutJoined, Joined
<1>2. /\ Plat(b) \o Stdio(b) \o PrintText \in Seq(Steps)
      /\ Without(Plat(b) \o Stdio(b) \o PrintText, A)
  BY Zenon, <1>1, PartsTyped, WithoutJoined, Joined
<1>3. /\ Plat(b) \o Stdio(b) \o PrintText \o Sdram(b) \in Seq(Steps)
      /\ Without(Plat(b) \o Stdio(b) \o PrintText \o Sdram(b), A)
  BY Zenon, <1>2, PartsTyped, WithoutJoined, Joined
<1> QED  BY Zenon, <1>3, PartsTyped, WithoutJoined

\* A program is guarded when all its parts are.
LEMMA PartsGuarded ==
  ASSUME NEW b \in Boards, NEW T, NEW A, NEW B,
         Guarded(Plat(b), T, A, B), Guarded(Stdio(b), T, A, B), Guarded(PrintText, T, A, B),
         Guarded(Sdram(b), T, A, B), Guarded(AfterSdram(b), T, A, B)
  PROVE  Guarded(ProgramOf(b), T, A, B)
<1>1. Plat(b) \o Stdio(b) \in Seq(Steps) /\ Guarded(Plat(b) \o Stdio(b), T, A, B)
  BY PartsTyped, GuardedJoined, Joined
<1>2. /\ Plat(b) \o Stdio(b) \o PrintText \in Seq(Steps)
      /\ Guarded(Plat(b) \o Stdio(b) \o PrintText, T, A, B)
  BY Zenon, <1>1, PartsTyped, GuardedJoined, Joined
<1>3. /\ Plat(b) \o Stdio(b) \o PrintText \o Sdram(b) \in Seq(Steps)
      /\ Guarded(Plat(b) \o Stdio(b) \o PrintText \o Sdram(b), T, A, B)
  BY Zenon, <1>2, PartsTyped, GuardedJoined, Joined
<1> QED  BY Zenon, <1>3, PartsTyped, GuardedJoined

\* The members of a program are steps.
LEMMA StepTyped == ASSUME NEW p \in Seq(Steps), NEW i \in 1 .. Len(p) PROVE p[i] \in Steps
OBVIOUS

\* A step of A that nothing of B follows guards all steps of T, if they are
\* behind it.
LEMMA GuardedByOne ==
  ASSUME NEW p \in Seq(Steps), NEW T, NEW A, NEW B, NEW k \in 1 .. Len(p), p[k] \in A,
         \A i \in 1 .. k : p[i] \notin T,
         \A i \in k + 1 .. Len(p) : p[i] \notin B
  PROVE  Guarded(p, T, A, B) /\ Since(p, Len(p), A, B)
<1> DEFINE n == Len(p)
<1>1. n \in Nat
  OBVIOUS
<1>2. /\ k \in 1 .. n /\ \A i \in k + 1 .. n : p[i] \notin B
  OBVIOUS
<1> HIDE DEF n
<1>3. ASSUME NEW i \in 1 .. n, p[i] \in T PROVE Since(p, i - 1, A, B)
  <2>1. k \in 1 .. i - 1 /\ \A j \in k + 1 .. i - 1 : j \in k + 1 .. n
    BY <1>1, <1>2, <1>3
  <2> QED  BY <1>2, <2>1 DEF Since
<1>4. Since(p, n, A, B)
  BY <1>1, <1>2 DEF Since
<1> QED  BY <1>3, <1>4 DEF Guarded, n

-----------------------------------------------------------------------------
(* Clocks *)

\* The parts of OMAP3 that write functional and interface clocks keep them.
LEMMA Omap3GatesKeep ==
  ASSUME NEW d \in {"fclk", "iclk"}
  PROVE  /\ Guarded(Omap3Gates, WritesTo(d), ReadsOf(Covering(d)), OfKind("read"))
         /\ \A index \in {0, 2} :
              Guarded(Omap3UartGates(index), WritesTo(d), ReadsOf(Covering(d)), OfKind("read"))
         /\ Guarded(Omap3UartMode, WritesTo(d), ReadsOf(Covering(d)), OfKind("read"))
<1>1. /\ Omap3Gates \in Seq(Steps) /\ Omap3UartMode \in Seq(Steps)
      /\ \A index \in {0, 2} : Omap3UartGates(index) \in Seq(Steps)
  BY Omap3GatesTyped, Omap3UartPartsTyped, Kinds
<1>2. Guarded(Omap3Gates, WritesTo(d), ReadsOf(Covering(d)), OfKind("read"))
  <2> DEFINE g == Omap3Gates
  <2>1. /\ Len(g) = 5 /\ g[1] = [op |-> "read", dom |-> "iclk"]
        /\ \A i \in 2 .. 5 : g[i].op = "write"
    BY DEF Omap3Gates, Read, Write
  <2>2. g \in Seq(Steps) /\ "iclk" \in Covering(d)
    BY <1>1 DEF Covering
  <2> HIDE DEF g
  <2>3. g[1] \in Steps
    <3>1. 1 \in 1 .. Len(g)
      BY <2>1
    <3> QED  BY <2>2, <3>1, StepTyped
  <2>4. /\ g[1] \in ReadsOf(Covering(d)) /\ 1 \in 1 .. Len(g)
        /\ \A i \in 1 .. 1 : g[i] \notin WritesTo(d)
        /\ \A i \in 1 + 1 .. Len(g) : g[i] \notin OfKind("read")
    BY <2>1, <2>2, <2>3 DEF ReadsOf, WritesTo, OfKind
  <2>5. Guarded(g, WritesTo(d), ReadsOf(Covering(d)), OfKind("read"))
    BY <2>2, <2>4, GuardedByOne
  <2> QED  BY <2>5 DEF g
<1>3. Guarded(Omap3UartGates(0), WritesTo(d), ReadsOf(Covering(d)), OfKind("read"))
  BY DEF Omap3UartGates, Open, Read, Write, Guarded, Since, WritesTo
<1>4. Guarded(Omap3UartGates(2), WritesTo(d), ReadsOf(Covering(d)), OfKind("read"))
  <2>1. Omap3UartGates(2) = Open("fclk", {"uart3"})
    BY DEF Omap3UartGates
  <2> QED  BY <1>1, <2>1 DEF Open, Read, Write, Guarded, Since, WritesTo, ReadsOf, Covering, OfKind
<1>5. Guarded(Omap3UartMode, WritesTo(d), ReadsOf(Covering(d)), OfKind("read"))
  <2>1. /\ Len(Omap3UartMode) = 15
        /\ Omap3UartMode[6] = [op |-> "read", dom |-> "fclk"]
        /\ Omap3UartMode[7] = [op |-> "write", dom |-> "fclk", units |-> {"uart3"}]
        /\ \A i \in (1 .. 5) \cup (8 .. 15) : Omap3UartMode[i].op = "uart"
    <3>1. Len(Omap3UartMode) = 15 /\ \A i \in (1 .. 5) \cup (8 .. 15) : Omap3UartMode[i].op = "uart"
      BY DEF Omap3UartMode, UartReg, Open, Read, Write
    <3>2. /\ Omap3UartMode[6] = [op |-> "read", dom |-> "fclk"]
          /\ Omap3UartMode[7] = [op |-> "write", dom |-> "fclk", units |-> {"uart3"}]
      BY DEF Omap3UartMode, UartReg, Open, Read, Write
    <3> QED  BY <3>1, <3>2
  <2> DEFINE m == Omap3UartMode
  <2>2. m \in Seq(Steps) /\ Len(m) = 15 /\ \A i \in 1 .. 15 : m[i] \in Steps
    BY Zenon, <1>1, <2>1, StepTyped
  <2>3. /\ m[6] = [op |-> "read", dom |-> "fclk"]
        /\ m[7].dom = "fclk" /\ \A i \in (1 .. 5) \cup (8 .. 15) : m[i].op = "uart"
        /\ \A i \in 7 .. 15 : m[i].op # "read"
    BY <2>1
  <2> HIDE DEF m
  <2>4. CASE d = "fclk"
    <3>1. m[6] \in ReadsOf(Covering(d))
      BY <2>2, <2>3, <2>4 DEF ReadsOf, Covering
    <3>2. /\ \A i \in 1 .. 6 : m[i] \notin WritesTo(d)
          /\ \A i \in 7 .. 15 : m[i] \notin OfKind("read")
      BY <2>3 DEF WritesTo, OfKind
    <3> QED  BY <2>2, <3>1, <3>2, GuardedByOne DEF m
  <2>5. CASE d = "iclk"
    <3>1. Without(m, WritesTo(d))
      BY <2>2, <2>3, <2>5 DEF Without, WritesTo
    <3> QED  BY <2>2, <3>1, WithoutIsGuarded DEF m
  <2> QED  BY <2>4, <2>5
<1> QED  BY <1>2, <1>3, <1>4, <1>5

\* What kinds of steps are in the sets of steps.
LEMMA KindOf ==
  /\ \A d : \A s \in WritesTo(d) : s.op = "write"
  /\ \A D : \A s \in ReadsOf(D) : s.op = "read"
  /\ \A d : \A s \in Assigns(d) : s.op = "assign"
  /\ \A k : \A s \in OfKind(k) : s.op = k
  /\ \A g : \A s \in Opens(g) \cup Closes(g) : s.op \in {"write", "assign"}
  /\ \A e : \A s \in WaitsFor(e) : s.op = "wait"
  /\ \A q : \A s \in LocksPll(q) : s.op = "lock"
  /\ \A s \in Selects : s.op = "set"
  /\ \A ks : \A s \in Keys(ks) : s.op = "wdt"
  /\ \A chip, cmd : \A s \in SendsCmd(chip, cmd) : s.op = "mem"
  /\ \A s \in Misused : s.op = "pin"
BY DEF WritesTo, ReadsOf, Assigns, OfKind, Opens, Closes, WaitsFor, LocksPll, Selects, Keys, SendsCmd,
       Misused

\* A program has no step of a kind it is not made of.
LEMMA NoneOfKind ==
  ASSUME NEW K, NEW p \in Seq(StepsOf(K)), NEW A, \A s \in A : s.op \notin K
  PROVE  Without(p, A)
BY Kinds

\* The programs without a step of A.
Free(A) == {p \in Seq(Steps) : Without(p, A)}

\* Two programs without a step of A, joined, have none.
LEMMA FreeJoined == ASSUME NEW A PROVE \A p, q \in Free(A) : p \o q \in Free(A)
BY WithoutJoined, Joined DEF Free

\* Programs of other kinds of steps have none of A.
LEMMA FreeKind ==
  ASSUME NEW K, NEW A, \A s \in A : s.op \notin K
  PROVE  Seq(StepsOf(K)) \subseteq Free(A)
BY Kinds DEF Free

\* One step that is not of A.
LEMMA FreeStep ==
  ASSUME NEW A, NEW s \in Steps, s \notin A PROVE <<s>> \in Free(A)
<1>1. <<s>> \in Seq(Steps)
  BY OneStep
<1>2. Without(<<s>>, A)
  BY DEF Without
<1> QED  BY <1>1, <1>2 DEF Free

\* One write that is not of A.
LEMMA WritesFree ==
  ASSUME NEW A, NEW dom \in Domains, NEW us \in SUBSET Units,
         [op |-> "write", dom |-> dom, units |-> us] \notin A
  PROVE  Write(dom, us) \in Free(A)
<1>1. [op |-> "write", dom |-> dom, units |-> us] \in Steps
  BY DEF Steps
<1> QED  BY <1>1, FreeStep DEF Write

\* A PLL, a gate or a pin of OMAP4 and at91 does not touch the clocks of OMAP3.
LEMMA Omap4Keeps ==
  ASSUME NEW d \in {"fclk", "iclk"}
  PROVE  Omap4Plat \in Free(WritesTo(d))
<1> DEFINE F == Free(WritesTo(d))
<1>1. \A p, q \in F : p \o q \in F
  BY FreeJoined
<1>2. \A K : "write" \notin K => Seq(StepsOf(K)) \subseteq F
  BY FreeKind, KindOf
<1>3. /\ Seq(StepsOf({"set", "bypass", "lock"})) \subseteq F
      /\ Seq(StepsOf({"read"})) \subseteq F /\ Seq(StepsOf({"wait"})) \subseteq F
  BY <1>2
<1>4. Omap4Mpu(MpuDpll) \in F /\ Omap4Per(PerDpll) \in F
  BY <1>3, Omap4PllTyped DEF MpuDpll, PerDpll
<1>5. Read("memif") \in F /\ Read("l4per") \in F
  BY <1>3, ReadTyped DEF Domains
<1>6. \A dom \in {"memif", "l4per"}, us \in SUBSET Units : Write(dom, us) \in F
  <2>1. \A dom \in {"memif", "l4per"}, us \in SUBSET Units :
          [op |-> "write", dom |-> dom, units |-> us] \notin WritesTo(d)
    BY DEF WritesTo
  <2> QED  BY Zenon, <2>1, WritesFree DEF Domains
<1>7. /\ {"emif1", "emif2"} \in SUBSET Units
      /\ {"gpio2", "gpio3", "gpio4", "gpio5", "gpio6"} \in SUBSET Units
      /\ {"uart1", "uart2", "uart3", "uart4"} \in SUBSET Units
  BY DEF Units
<1> HIDE DEF F
<1>8. Omap4GpioGates \in F /\ Omap4UartGates \in F
  BY <1>1, <1>5, <1>6, <1>7 DEF Omap4GpioGates, Omap4UartGates, Open
<1>9. Bypass("core") \in F /\ Lock("core") \in F /\ Wait("emif_awake") \in F /\ Wait("core") \in F
  BY Zenon, <1>3, BypassTyped, LockTyped, WaitTyped DEF Plls, Events
<1> DEFINE a == Set([CORE_M |-> CoreDpll.m, CORE_N |-> CoreDpll.n, CORE_M2 |-> CoreDpll.m2])
           o == Set([OSC |-> 384000, SYSDIV |-> 1])
<1>10. a \in F /\ o \in F
  <2>1. \A f \in SetValues : Set(f) \in F
    BY <1>3, SetTyped
  <2>2. [OSC |-> 384000, SYSDIV |-> 1] \in SetValues
    BY SMT, SetsTyped
  <2>3. CoreDpll.m \in Nat /\ CoreDpll.n \in Nat /\ CoreDpll.m2 \in Nat
    BY DEF CoreDpll
  <2>4. [CORE_M |-> CoreDpll.m, CORE_N |-> CoreDpll.n, CORE_M2 |-> CoreDpll.m2] \in SetValues
    BY <2>3, SetsTyped
  <2> QED  BY SMT, <2>1, <2>2, <2>4
<1>11. /\ Omap4Core(CoreDpll) = Bypass("core") \o a \o Open("memif", {"emif1", "emif2"})
                                  \o Wait("emif_awake") \o Lock("core") \o Wait("core")
       /\ Omap4Plat = o \o Omap4Mpu(MpuDpll) \o Omap4Per(PerDpll) \o Omap4Core(CoreDpll)
                        \o Omap4GpioGates \o Omap4UartGates
  BY SMT DEF Omap4Core, Omap4Plat
<1> HIDE DEF a, o
<1>12. Omap4Core(CoreDpll) \in F
  <2>1. Open("memif", {"emif1", "emif2"}) \in F
    BY <1>1, <1>5, <1>6, <1>7 DEF Open
  <2>2. Bypass("core") \o a \o Open("memif", {"emif1", "emif2"}) \in F
    BY <1>1, <1>9, <1>10, <2>1
  <2> HIDE DEF F
  <2> DEFINE x == Bypass("core") \o a \o Open("memif", {"emif1", "emif2"})
  <2>3. x \in F /\ Omap4Core(CoreDpll) = x \o Wait("emif_awake") \o Lock("core") \o Wait("core")
    BY <1>11, <2>2
  <2> HIDE DEF x
  <2> QED  BY <1>1, <1>9, <2>3
<1>13. Omap4Plat \in F
  BY <1>1, <1>4, <1>8, <1>10, <1>11, <1>12
<1> QED  BY <1>13 DEF F

\* nand_init() of at91 does not write the clocks of OMAP.
LEMMA At91NandKeeps ==
  ASSUME NEW d \in {"fclk", "iclk"}, NEW chip \in {9261, 9263}
  PROVE  At91Nand(chip) \in Free(WritesTo(d))
<1> DEFINE F == Free(WritesTo(d))
<1>1. \A p, q \in F : p \o q \in F
  BY FreeJoined
<1>2. /\ Seq(StepsOf({"pin"})) \subseteq F
      /\ Seq(StepsOf({"read"})) \subseteq F /\ Seq(StepsOf({"cs"})) \subseteq F
  BY FreeKind, KindOf
<1>3. ASSUME NEW us \in SUBSET Units PROVE Write("pmc", us) \in F
  <2>1. [op |-> "write", dom |-> "pmc", units |-> us] \notin WritesTo(d)
    BY DEF WritesTo
  <2>2. "pmc" \in Domains
    BY DEF Domains
  <2> QED  BY <2>1, <2>2, WritesFree
<1>4. {"C"} \in SUBSET Units /\ {"A", "D"} \in SUBSET Units
  BY DEF Units
<1>5. Read("pmc") \in F /\ ChipSelect(1) \in F
  BY <1>2, ReadTyped, ChipSelectTyped DEF Domains
<1>6. /\ At91PeriphA("nand", "C", {0, 1}) \in F
      /\ Pin("nand", "C", {14}, "output") \in F /\ Pin("nand", "C", {14}, "low") \in F
      /\ At91NandReadyPin("C", 15) \in F
      /\ Pin("nand", "D", {15}, "output") \in F /\ Pin("nand", "D", {15}, "low") \in F
      /\ At91NandReadyPin("A", 22) \in F
  BY <1>2, NandPinsTyped
<1> HIDE DEF F
<1>7. At91Nand(chip) \in F
  BY <1>1, <1>3, <1>4, <1>5, <1>6 DEF At91Nand, Open
<1> QED  BY <1>7 DEF F

\* OMAP3 writes its clocks with a word that has what was on.
LEMMA KeepsGatesOmap3 ==
  ASSUME NEW d \in {"fclk", "iclk"}
  PROVE  /\ Guarded(Omap3Plat, WritesTo(d), ReadsOf(Covering(d)), OfKind("read"))
         /\ \A index \in {0, 2} :
              Guarded(Omap3Uart(index), WritesTo(d), ReadsOf(Covering(d)), OfKind("read"))
<1> DEFINE G == {p \in Seq(Steps) : Guarded(p, WritesTo(d), ReadsOf(Covering(d)), OfKind("read"))}
<1>1. \A p, q \in G : p \o q \in G
  BY GuardedJoined, Joined
<1>2. \A K : "write" \notin K => Seq(StepsOf(K)) \subseteq G
  <2>1. ASSUME NEW K, "write" \notin K, NEW p \in Seq(StepsOf(K)) PROVE p \in G
    <3>1. Without(p, WritesTo(d)) /\ p \in Seq(Steps)
      BY <2>1, NoneOfKind, KindOf, Kinds
    <3> QED  BY <3>1, WithoutIsGuarded
  <2> QED  BY <2>1
<1>3. Omap3WatchdogClocks \in G /\ Omap3WatchdogStop \in G /\ Omap3Plls \in G
  <2>1. /\ Seq(StepsOf({"assign", "wait"})) \subseteq G /\ Seq(StepsOf({"wdt", "wait"})) \subseteq G
        /\ Seq(StepsOf({"set", "lock"})) \subseteq G
    BY <1>2
  <2> QED  BY <2>1, Omap3WatchdogTyped, Omap3PllsTyped
<1>4. Omap3UartClock \in G /\ Omap3UartReset \in G /\ Omap3UartSettle \in G
  <2>1. /\ Seq(StepsOf({"set", "lock"})) \subseteq G /\ Seq(StepsOf({"uart", "wait"})) \subseteq G
        /\ Seq(StepsOf({"delay"})) \subseteq G
    BY <1>2
  <2> QED  BY <2>1, Omap3UartPartsTyped
<1>5. /\ Omap3Gates \in G /\ Omap3UartMode \in G
      /\ \A index \in {0, 2} : Omap3UartGates(index) \in G
  <2>1. /\ Omap3Gates \in Seq(Steps) /\ Omap3UartMode \in Seq(Steps)
        /\ \A index \in {0, 2} : Omap3UartGates(index) \in Seq(Steps)
    BY Omap3GatesTyped, Omap3UartPartsTyped, Kinds
  <2> QED  BY <2>1, Omap3GatesKeep
<1> HIDE DEF G
<1>6. Omap3Plat \in G
  BY <1>1, <1>3, <1>5 DEF Omap3Plat
<1>7. \A index \in {0, 2} : Omap3Uart(index) \in G
  BY <1>1, <1>4, <1>5 DEF Omap3Uart
<1> QED  BY <1>6, <1>7 DEF G

\* No program writes the functional and interface clocks of OMAP3 with a word
\* that has not been read from them.
LEMMA AllKeepGates == ASSUME NEW b \in Boards PROVE KeepsGates(ProgramOf(b))
<1> USE DEF Boards, Omap3Boards, S3C24Boards, At91Boards
<1>1. ASSUME NEW d \in {"fclk", "iclk"}
      PROVE  Guarded(ProgramOf(b), WritesTo(d), ReadsOf(Covering(d)), OfKind("read"))
  <2> DEFINE G(p) == Guarded(p, WritesTo(d), ReadsOf(Covering(d)), OfKind("read"))
  <2>1. \A K : "write" \notin K => \A p \in Seq(StepsOf(K)) : G(p)
    BY NoneOfKind, KindOf, Kinds, WithoutIsGuarded
  <2>2. G(PrintText)
    BY Zenon, <2>1, PrintTextTyped
  <2>3. G(Plat(b))
    <3>1. CASE b \in Omap3Boards
      BY <3>1, KeepsGatesOmap3 DEF Plat
    <3>2. CASE b = "omap4"
      BY <3>2, Omap4Keeps, WithoutIsGuarded DEF Plat, Free
    <3>3. CASE b \notin Omap3Boards \cup {"omap4"}
      <4>1. "write" \notin PlatKinds(b)
        BY <3>3 DEF PlatKinds
      <4> QED  BY <2>1, <4>1, PlatTyped
    <3> QED  BY <3>1, <3>2, <3>3
  <2>4. G(Stdio(b))
    <3>1. CASE b \in Omap3Boards
      BY <3>1, KeepsGatesOmap3 DEF Stdio
    <3>2. CASE b \notin Omap3Boards
      <4>1. "write" \notin StdioKinds(b)
        BY <3>2 DEF StdioKinds
      <4> QED  BY <2>1, <4>1, StdioTyped
    <3> QED  BY <3>1, <3>2
  <2>5. G(Sdram(b))
    <3>1. "write" \notin SdramKinds(b)
      BY DEF SdramKinds
    <3> QED  BY <2>1, <3>1, SdramTyped
  <2>6. G(AfterSdram(b))
    <3>1. CASE b \in At91Boards
      <4>1. AfterSdram(b) = PrintText \o At91Nand(At91Chip(b)) /\ At91Chip(b) \in {9261, 9263}
        BY <3>1 DEF AfterSdram, ReachesMain, NandInit, At91Chip
      <4>2. G(At91Nand(At91Chip(b))) /\ At91Nand(At91Chip(b)) \in Seq(Steps)
        BY <4>1, At91NandKeeps, WithoutIsGuarded DEF Free
      <4>3. PrintText \in Seq(Steps)
        BY PartsTyped
      <4> QED  BY <2>2, <4>1, <4>2, <4>3, GuardedJoined
    <3>2. CASE b \notin At91Boards
      <4>1. "write" \notin TailKinds(b)
        BY <3>2 DEF TailKinds
      <4> QED  BY <2>1, <4>1, TailTyped
    <3> QED  BY <3>1, <3>2
  <2> QED  BY <2>2, <2>3, <2>4, <2>5, <2>6, PartsGuarded
<1>2. ASSUME NEW d \in {"fclk", "iclk"} PROVE Without(ProgramOf(b), Assigns(d))
  <2>1. \A K : "assign" \notin K => \A p \in Seq(StepsOf(K)) : Without(p, Assigns(d))
    BY NoneOfKind, KindOf
  <2>2. Without(Plat(b), Assigns(d))
    <3>1. CASE b \in Omap3Boards
      <4>1. Plat(b) = Omap3WatchdogClocks \o Omap3WatchdogStop \o Omap3Plls \o Omap3Gates
        BY <3>1 DEF Plat, Omap3Plat
      <4>2. Omap3WatchdogClocks \in Free(Assigns(d))
        <5>1. Without(Omap3WatchdogClocks, Assigns(d))
          <6>1. /\ Len(Omap3WatchdogClocks) = 3 /\ Omap3WatchdogClocks[1].dom = "fwkup"
                /\ Omap3WatchdogClocks[2].dom = "iwkup" /\ Omap3WatchdogClocks[3].op = "wait"
            BY DEF Omap3WatchdogClocks, Assign, Wait
          <6> QED  BY <6>1 DEF Without, Assigns
        <5> QED  BY <5>1, Omap3WatchdogTyped, Kinds DEF Free
      <4>3. /\ Omap3WatchdogStop \in Free(Assigns(d)) /\ Omap3Plls \in Free(Assigns(d))
            /\ Omap3Gates \in Free(Assigns(d))
        BY Zenon, <2>1, Omap3WatchdogTyped, Omap3PllsTyped, Omap3GatesTyped, Kinds DEF Free
      <4>4. Plat(b) \in Free(Assigns(d))
        BY <4>1, <4>2, <4>3, FreeJoined
      <4> QED  BY <4>4 DEF Free
    <3>2. CASE b \notin Omap3Boards
      <4>1. "assign" \notin PlatKinds(b)
        BY <3>2 DEF PlatKinds
      <4> QED  BY <2>1, <4>1, PlatTyped
    <3> QED  BY <3>1, <3>2
  <2>3. "assign" \notin StdioKinds(b) /\ "assign" \notin SdramKinds(b) /\ "assign" \notin TailKinds(b)
    BY DEF StdioKinds, SdramKinds, TailKinds
  <2>4. Without(PrintText, Assigns(d))
    BY Zenon, <2>1, PrintTextTyped
  <2> QED  BY Zenon, <2>1, <2>2, <2>3, <2>4, StdioTyped, SdramTyped, TailTyped, PartsWithout
<1> QED  BY <1>1, <1>2 DEF KeepsGates

-----------------------------------------------------------------------------
(* Pins *)

\* One step that does not misuse a pin.
LEMMA PinFree ==
  ASSUME NEW A, NEW K, "pin" \in K, NEW p \in Seq(StepsOf(K)),
         Len(p) = 1, p[1] \notin A
  PROVE  p \in Free(A)
<1>1. p \in Seq(Steps)
  BY Kinds
<1>2. Without(p, A)
  BY DEF Without
<1> QED  BY <1>1, <1>2 DEF Free

\* Pins given to a peripheral by their user.
LEMMA PeriphFree ==
  ASSUME NEW owner \in Owners, NEW bank \in {"A", "C", "D"}, NEW bits \in SUBSET (0 .. 31),
         \A n \in bits : UserOf(bank, n) = owner
  PROVE  At91PeriphA(owner, bank, bits) \in Free(Misused)
<1>1. At91PeriphA(owner, bank, bits) \in Seq(StepsOf({"pin"}))
  BY PeriphTyped
<1>2. /\ Len(At91PeriphA(owner, bank, bits)) = 1
      /\ At91PeriphA(owner, bank, bits)[1].bank = bank
      /\ At91PeriphA(owner, bank, bits)[1].bits = bits
      /\ At91PeriphA(owner, bank, bits)[1].owner = owner
  BY DEF At91PeriphA, Pin
<1> HIDE DEF At91PeriphA
<1>3. At91PeriphA(owner, bank, bits)[1] \notin Misused
  BY Zenon, <1>2 DEF Misused
<1> QED  BY <1>1, <1>2, <1>3, PinFree

\* A pin of the NAND, set up by the NAND.
LEMMA NandPinFree ==
  ASSUME NEW bank \in {"A", "C", "D"}, NEW bit \in 0 .. 31, UserOf(bank, bit) = "nand",
         NEW mode \in {"peripheral", "input_pulled_up", "output", "low"}
  PROVE  Pin("nand", bank, {bit}, mode) \in Free(Misused)
<1>1. Pin("nand", bank, {bit}, mode) \in Seq(StepsOf({"pin"}))
  BY PinTyped DEF Owners
<1>2. /\ Len(Pin("nand", bank, {bit}, mode)) = 1
      /\ Pin("nand", bank, {bit}, mode)[1].bank = bank
      /\ Pin("nand", bank, {bit}, mode)[1].bits = {bit}
      /\ Pin("nand", bank, {bit}, mode)[1].owner = "nand"
  BY DEF Pin
<1>3. Pin("nand", bank, {bit}, mode)[1] \notin Misused
  BY <1>2 DEF Misused
<1> QED  BY <1>1, <1>2, <1>3, PinFree

\* No init call of at91 takes a pin of another.
LEMMA At91SharesPins ==
  ASSUME board \in At91Boards
  PROVE  /\ At91Uart(At91Chip(board)) \in Free(Misused)
         /\ At91Sdram(At91Chip(board)) \in Free(Misused)
         /\ At91Nand(At91Chip(board)) \in Free(Misused)
<1> DEFINE F == Free(Misused)
<1>1. \A p, q \in F : p \o q \in F
  BY FreeJoined
<1>2. /\ Seq(StepsOf({"set"})) \subseteq F /\ Seq(StepsOf({"mem"})) \subseteq F
      /\ Seq(StepsOf({"cs"})) \subseteq F /\ Seq(StepsOf({"read", "write"})) \subseteq F
  BY FreeKind, KindOf
<1>3. /\ {9, 10} \in SUBSET (0 .. 31) /\ {30, 31} \in SUBSET (0 .. 31) /\ {0, 1} \in SUBSET (0 .. 31)
      /\ At91DataBus \in SUBSET (0 .. 31)
      /\ "console" \in Owners /\ "sdram" \in Owners /\ "nand" \in Owners
  BY DEF At91DataBus, Owners
<1>4. \A cmd \in Commands : Mem(0, cmd) \in F
  BY <1>2, MemTyped
<1>5. ChipSelect(1) \in F
  BY <1>2, ChipSelectTyped
<1>6. Open("pmc", {"C"}) \in F /\ Open("pmc", {"A", "D"}) \in F
  <2> DEFINE S == Seq(StepsOf({"read", "write"}))
  <2>1. \A p, q \in S : p \o q \in S
    BY Joined
  <2>2. {"C"} \in SUBSET Units /\ {"A", "D"} \in SUBSET Units /\ "pmc" \in Domains
    BY DEF Units, Domains
  <2>3. Read("pmc") \in S /\ Write("pmc", {"C"}) \in S /\ Write("pmc", {"A", "D"}) \in S
    BY <2>2, ReadTyped, WriteTyped
  <2> HIDE DEF S
  <2>4. Open("pmc", {"C"}) \in S /\ Open("pmc", {"A", "D"}) \in S
    BY <2>1, <2>3 DEF Open
  <2> QED  BY <1>2, <2>4 DEF S
<1>7. ASSUME NEW chip \in {9261, 9263}
      PROVE  /\ Set([US_CR |-> 80]) \in F /\ Set([US_MR |-> 2048]) \in F
             /\ Set([BRGR |-> At91Mck(chip) \div 18432]) \in F
  <2>1. At91Mck(chip) \div 18432 \in Nat
    BY SMT DEF At91Mck, At91Pll
  <2>2. /\ [US_CR |-> 80] \in SetValues /\ [US_MR |-> 2048] \in SetValues
        /\ [BRGR |-> At91Mck(chip) \div 18432] \in SetValues
    BY <2>1, SetsTyped
  <2> QED  BY <1>2, <2>2, SetTyped
<1> HIDE DEF F
<1>8. /\ Mem(0, "config") \in F /\ Mem(0, "PRE") \in F /\ Mem(0, "REF") \in F
      /\ Mem(0, "MRS") \in F /\ Mem(0, "go") \in F /\ Mem(0, "refresh") \in F
  BY <1>4 DEF Commands
<1>9. CASE board = "at91sam9261"
  <2>1. At91Chip(board) = 9261
    BY <1>9 DEF At91Chip
  <2>2. /\ \A n \in {9, 10} : UserOf("A", n) = "console"
        /\ \A n \in At91DataBus : UserOf("C", n) = "sdram"
        /\ \A n \in {0, 1} : UserOf("C", n) = "nand"
        /\ UserOf("C", 14) = "nand" /\ UserOf("C", 15) = "nand"
    BY <1>9 DEF UserOf, At91DataBus
  <2>3. /\ At91PeriphA("console", "A", {9, 10}) \in F
        /\ At91PeriphA("sdram", "C", At91DataBus) \in F
        /\ At91PeriphA("nand", "C", {0, 1}) \in F
    BY <1>3, <2>2, PeriphFree DEF F
  <2>4. /\ Pin("nand", "C", {14}, "output") \in F /\ Pin("nand", "C", {14}, "low") \in F
        /\ At91NandReadyPin("C", 15) \in F
    BY <2>2, NandPinFree DEF F, At91NandReadyPin
  <2>5. At91Uart(9261) \in F
    BY <1>1, <1>7, <2>3 DEF At91Uart
  <2>6. At91Sdram(9261) \in F
    BY Zenon, <1>1, <1>8, <2>3 DEF At91Sdram
  <2>7. At91Nand(9261) \in F
    BY <1>1, <1>5, <1>6, <2>3, <2>4 DEF At91Nand
  <2> QED  BY <2>1, <2>5, <2>6, <2>7 DEF F
<1>10. CASE board = "at91sam9263"
  <2>1. At91Chip(board) = 9263
    BY <1>10 DEF At91Chip
  <2>2. /\ \A n \in {30, 31} : UserOf("C", n) = "console"
        /\ \A n \in At91DataBus : UserOf("D", n) = "sdram"
        /\ UserOf("D", 15) = "nand" /\ UserOf("A", 22) = "nand"
    BY <1>10 DEF UserOf, At91DataBus
  <2>3. /\ At91PeriphA("console", "C", {30, 31}) \in F
        /\ At91PeriphA("sdram", "D", At91DataBus) \in F
    BY <1>3, <2>2, PeriphFree DEF F
  <2>4. /\ Pin("nand", "D", {15}, "output") \in F /\ Pin("nand", "D", {15}, "low") \in F
        /\ At91NandReadyPin("A", 22) \in F
    BY <2>2, NandPinFree DEF F, At91NandReadyPin
  <2>5. At91Uart(9263) \in F
    BY <1>1, <1>7, <2>3 DEF At91Uart
  <2> DEFINE d == At91PeriphA("sdram", "D", At91DataBus)
             c == Mem(0, "config")
             r == Mem(0, "REF")
  <2>a. d \o c \o Mem(0, "PRE") \o r \o r \o r \o r \o r \o r \o r \o r \o r \in F
    <3>1. d \in F /\ c \in F /\ r \in F
      BY <1>8, <2>3
    <3> HIDE DEF d, c, r
    <3> QED  BY Zenon, <1>1, <1>8, <3>1
  <2>6. At91Sdram(9263) \in F
    BY <1>1, <1>8, <2>a DEF At91Sdram
  <2>7. At91Nand(9263) \in F
    BY <1>1, <1>5, <1>6, <2>4 DEF At91Nand
  <2> QED  BY <2>1, <2>5, <2>6, <2>7 DEF F
<1> QED  BY <1>9, <1>10 DEF At91Boards

\* No init call takes a pin of another, on every board.
LEMMA AllSharePins == ASSUME board \in Boards PROVE SharesPins(ProgramOf(board))
<1>1. \A K : "pin" \notin K => \A p \in Seq(StepsOf(K)) : Without(p, Misused)
  BY NoneOfKind, KindOf
<1>2. Without(PrintText, Misused)
  BY Zenon, <1>1, PrintTextTyped
<1>3. Without(Plat(board), Misused)
  <2>1. "pin" \notin PlatKinds(board)
    BY DEF PlatKinds
  <2> QED  BY <1>1, <2>1, PlatTyped
<1>4. CASE board \in At91Boards
  <2>1. /\ Stdio(board) = At91Uart(At91Chip(board)) /\ Sdram(board) = At91Sdram(At91Chip(board))
        /\ AfterSdram(board) = PrintText \o At91Nand(At91Chip(board))
    BY <1>4 DEF Stdio, Sdram, AfterSdram, ReachesMain, NandInit, At91Boards, Omap3Boards, S3C24Boards
  <2>2. Without(Stdio(board), Misused) /\ Without(Sdram(board), Misused)
    BY <1>4, <2>1, At91SharesPins DEF Free
  <2>3. PrintText \in Free(Misused)
    BY <1>2, PartsTyped DEF Free
  <2>4. AfterSdram(board) \in Free(Misused)
    BY <1>4, <2>1, <2>3, At91SharesPins, FreeJoined
  <2>5. Without(AfterSdram(board), Misused)
    BY <2>4 DEF Free
  <2> QED  BY <1>2, <1>3, <2>2, <2>5, PartsWithout DEF SharesPins
<1>5. CASE board \notin At91Boards
  <2>1. "pin" \notin StdioKinds(board) /\ "pin" \notin SdramKinds(board) /\ "pin" \notin TailKinds(board)
    BY <1>5 DEF StdioKinds, SdramKinds, TailKinds
  <2> QED  BY <1>1, <1>2, <1>3, <2>1, StdioTyped, SdramTyped, TailTyped, PartsWithout DEF SharesPins
<1> QED  BY <1>4, <1>5

-----------------------------------------------------------------------------
(* PLLs of the S3C chips *)

SelectsOther == {s \in Selects : s.f["SEL"] # 1}

\* The S3C24 chips do not change what the processor runs on.
LEMMA S3C24xSelects ==
  ASSUME NEW b \in S3C24Boards
  PROVE  /\ S3C24xPlat(S3C24Clock(b)) \in Free(Selects)
         /\ S3C24xUart(S3C24Clock(b)) \in Free(Selects)
<1> DEFINE c == S3C24Clock(b)
           n == (PclkRate(c) \div 18432) - 1
<1>1. /\ S3C24xPlat(c) \in Seq(Steps) /\ S3C24xUart(c) \in Seq(Steps)
  BY S3C24xTyped, Kinds
<1> HIDE DEF c, n
<1>2. Without(S3C24xPlat(c), Selects)
  BY DEF S3C24xPlat, Wdt, Set, Lock, Without, Selects
<1>3. Without(S3C24xUart(c), Selects)
  <2>1. Without(Set([ULCON |-> 3, UCON |-> 581, UFCON |-> 1, UBRDIV |-> n]), Selects)
    BY DEF Set, Without, Selects
  <2> QED  BY <2>1 DEF S3C24xUart, n
<1> QED  BY <1>1, <1>2, <1>3 DEF c, Free

\* The S3C6410 selects its PLLs before it sets their divider.
LEMMA S3C64xSelects ==
  /\ S3C64xPlat \in Free(SelectsOther) /\ S3C64xUart \in Free(Selects)
  /\ Guarded(S3C64xPlat, {s \in Steps : s.op = "set" /\ "CLK_DIV0" \in DOMAIN s.f}, Selects, {})
  /\ Without(S3C64xUart, {s \in Steps : s.op = "set" /\ "CLK_DIV0" \in DOMAIN s.f})
<1>1. /\ S3C64xPlat \in Seq(Steps) /\ S3C64xUart \in Seq(Steps)
  BY S3C64xTyped, Kinds
<1>2. Without(S3C64xPlat, SelectsOther)
  BY DEF S3C64xPlat, Wdt, Set, Lock, Without, Selects, SelectsOther
<1> DEFINE n == (S3C64xHclk \div 18432) - 1
           CD == {s \in Steps : s.op = "set" /\ "CLK_DIV0" \in DOMAIN s.f}
<1>a. S3C64xUart = Set([UARTDIV |-> 1]) \o Set([ULCON |-> 3, UCON |-> 3077, UFCON |-> 103])
    \o Wait("fifo_reset")
    \o Set([UBRDIV |-> n]) \o Delay
  BY DEF S3C64xUart
<1> HIDE DEF n
<1>3. Without(S3C64xUart, Selects)
  BY <1>a DEF Set, Wait, Delay, Without, Selects
<1>4. Without(S3C64xUart, CD)
  BY <1>a DEF Set, Wait, Delay, Without
<1>5. Guarded(S3C64xPlat, CD, Selects, {})
  <2> DEFINE p == S3C64xPlat
  <2>1. /\ Len(p) = 7 /\ p[6] = [op |-> "set", f |-> [SEL |-> 1]]
    BY DEF S3C64xPlat, Wdt, Set, Lock
  <2>2. \A i \in 1 .. 6 : p[i] \notin CD
    BY DEF S3C64xPlat, Wdt, Set, Lock
  <2> HIDE DEF p, CD
  <2>3. p[6] \in Steps
    <3>1. p \in Seq(Steps) /\ 6 \in 1 .. Len(p)
      BY <1>1, <2>1 DEF p
    <3> QED  BY <3>1, StepTyped
  <2>4. p[6] \in Selects
    BY <2>1, <2>3 DEF Selects
  <2>5. /\ p \in Seq(Steps) /\ 6 \in 1 .. Len(p) /\ \A i \in 6 + 1 .. Len(p) : p[i] \notin {}
    BY <1>1, <2>1 DEF p
  <2>6. Guarded(p, CD, Selects, {})
    BY <2>2, <2>4, <2>5, GuardedByOne
  <2> QED  BY <2>6 DEF p
<1> QED  BY <1>1, <1>2, <1>3, <1>4, <1>5 DEF Free

\* A chip that runs on its PLLs stays there, on every board.
LEMMA AllSelected == ASSUME board \in Boards PROVE Selected(ProgramOf(board))
<1> DEFINE CD == {s \in Steps : s.op = "set" /\ "CLK_DIV0" \in DOMAIN s.f}
<1>1. \A K : "set" \notin K => \A p \in Seq(StepsOf(K)) :
        Without(p, SelectsOther) /\ Without(p, CD)
  BY NoneOfKind, KindOf DEF SelectsOther
<1>2. Without(PrintText, SelectsOther) /\ Without(PrintText, CD)
  BY Zenon, <1>1, PrintTextTyped
<1>3. ASSUME IsS3C
      PROVE  /\ "set" \notin SdramKinds(board) /\ "set" \notin TailKinds(board)
             /\ Without(Sdram(board), SelectsOther) /\ Without(AfterSdram(board), SelectsOther)
             /\ Without(Sdram(board), CD) /\ Without(AfterSdram(board), CD)
  <2>1. "set" \notin SdramKinds(board) /\ "set" \notin TailKinds(board)
    BY DEF SdramKinds, TailKinds
  <2> QED  BY <1>1, <2>1, SdramTyped, TailTyped
<1>4. \A p \in Free(Selects) : Without(p, SelectsOther)
  BY DEF Free, Without, SelectsOther
<1>5. CASE board \in S3C24Boards
  <2>1. Plat(board) = S3C24xPlat(S3C24Clock(board)) /\ Stdio(board) = S3C24xUart(S3C24Clock(board))
    BY <1>5 DEF Plat, Stdio, S3C24Boards, Omap3Boards, At91Boards
  <2>2. Without(Plat(board), SelectsOther) /\ Without(Stdio(board), SelectsOther)
    BY <1>4, <1>5, <2>1, S3C24xSelects
  <2>3. Without(ProgramOf(board), SelectsOther)
    BY <1>2, <1>3, <1>5, <2>2, PartsWithout DEF IsS3C
  <2> QED  BY <1>5, <2>3 DEF Selected, SelectsOther, S3C24Boards
<1>6. CASE board = "s3c6410"
  <2>1. Plat(board) = S3C64xPlat /\ Stdio(board) = S3C64xUart
    BY <1>6 DEF Plat, Stdio, S3C24Boards, Omap3Boards, At91Boards
  <2>2. Without(Plat(board), SelectsOther) /\ Without(Stdio(board), SelectsOther)
    BY <1>4, <2>1, S3C64xSelects DEF Free
  <2>3. Without(ProgramOf(board), SelectsOther)
    BY <1>2, <1>3, <1>6, <2>2, PartsWithout DEF IsS3C
  <2>4. Guarded(Plat(board), CD, Selects, {}) /\ Guarded(Stdio(board), CD, Selects, {})
    BY <2>1, S3C64xSelects, WithoutIsGuarded, PartsTyped
  <2>5. /\ Guarded(PrintText, CD, Selects, {}) /\ Guarded(Sdram(board), CD, Selects, {})
        /\ Guarded(AfterSdram(board), CD, Selects, {})
    BY <1>2, <1>3, <1>6, WithoutIsGuarded, PartsTyped DEF IsS3C
  <2>6. Guarded(ProgramOf(board), CD, Selects, {})
    BY <2>4, <2>5, PartsGuarded
  <2> QED  BY <2>3, <2>6 DEF Selected, SelectsOther
<1>7. CASE ~ IsS3C
  BY <1>7 DEF Selected, IsS3C
<1> QED  BY <1>5, <1>6, <1>7 DEF IsS3C

-----------------------------------------------------------------------------
(* Watchdog *)

\* What kinds of steps start an event.
LEMMA StartKinds ==
  /\ \A s \in Starts("wdt_write") : s.op = "wdt" /\ s.key # "off"
  /\ \A s \in Starts("uart_reset") : s.op = "uart" /\ s.reg = "SYSC"
  /\ \A s \in Starts("fifo_reset") : s.op = "set"
  /\ \A e \in MemEvents : \A s \in Starts(e) : s.op = "mem"
  /\ \A e \in AtReset : Starts(e) = {}
<1>1. \A cmd : MemStarts(cmd) \subseteq MemEvents
  BY DEF MemStarts, MemEvents
<1> QED  BY <1>1 DEF Starts, MemEvents, AtReset

\* OMAP3 writes both keys, the second when the first has arrived.
LEMMA Omap3StopsWatchdog ==
  /\ Guarded(Omap3WatchdogStop, Keys({"5555"}), Keys({"AAAA"}), Keys({"5555", "off"}))
  /\ Apart(Omap3WatchdogStop, OfKind("wdt"), Starts("wdt_write"), WaitsFor("wdt_write"))
  /\ Since(Omap3WatchdogStop, Len(Omap3WatchdogStop), Keys({"off", "5555"}), OfKind("wdt"))
<1> DEFINE p == Omap3WatchdogStop
<1>1. /\ Len(p) = 3 /\ p[1] = [op |-> "wdt", key |-> "AAAA"]
      /\ p[2] = [op |-> "wait", event |-> "wdt_write"] /\ p[3] = [op |-> "wdt", key |-> "5555"]
  BY DEF Omap3WatchdogStop, Wdt, Wait
<1>2. p \in Seq(Steps)
  BY Omap3WatchdogTyped, Kinds
<1> HIDE DEF p
<1>3. p[1] \in Steps /\ p[2] \in Steps /\ p[3] \in Steps
  <2>1. 1 \in 1 .. Len(p) /\ 2 \in 1 .. Len(p) /\ 3 \in 1 .. Len(p)
    BY <1>1
  <2> QED  BY <1>2, <2>1, StepTyped
<1>4. /\ p[1] \in Keys({"AAAA"}) /\ p[1] \notin Keys({"5555"}) /\ p[1] \notin Keys({"5555", "off"})
      /\ p[2] \notin Keys({"5555"}) /\ p[2] \notin Keys({"5555", "off"}) /\ p[2] \notin OfKind("wdt")
      /\ p[3] \in Keys({"off", "5555"})
      /\ p[2] \in WaitsFor("wdt_write") /\ p[2] \notin Starts("wdt_write")
  BY <1>1, <1>3, StartKinds DEF Keys, OfKind, WaitsFor
<1>5. Guarded(p, Keys({"5555"}), Keys({"AAAA"}), Keys({"5555", "off"}))
  BY <1>1, <1>4 DEF Guarded, Since
<1>6. Apart(p, OfKind("wdt"), Starts("wdt_write"), WaitsFor("wdt_write"))
  BY <1>1, <1>4 DEF Apart, Since
<1>7. Since(p, Len(p), Keys({"off", "5555"}), OfKind("wdt"))
  BY <1>1, <1>4 DEF Since
<1> QED  BY <1>5, <1>6, <1>7 DEF p

\* A program that stops the watchdog first and leaves it alone then.
LEMMA S3CStopsWatchdog ==
  ASSUME NEW p \in Seq(StepsOf({"wdt", "set", "lock"})),
         p[1] = [op |-> "wdt", key |-> "off"], Len(p) > 1,
         \A i \in 2 .. Len(p) : p[i].op # "wdt"
  PROVE  /\ Without(p, Keys({"5555"})) /\ Without(p, Starts("wdt_write"))
         /\ Since(p, Len(p), Keys({"off", "5555"}), OfKind("wdt"))
<1>1. p \in Seq(Steps)
  BY Kinds
<1>2. Len(p) \in Nat /\ 1 \in 1 .. Len(p)
  BY <1>1
<1>3. p[1] \in Steps
  BY <1>1, <1>2, StepTyped
<1>4. Without(p, Keys({"5555"}))
  BY <1>2 DEF Without, Keys
<1>5. Without(p, Starts("wdt_write"))
  BY <1>2, StartKinds DEF Without
<1>6. p[1] \in Keys({"off", "5555"})
  BY <1>3 DEF Keys
<1>7. \A i \in 1 + 1 .. Len(p) : p[i] \notin OfKind("wdt")
  BY <1>2 DEF OfKind
<1> QED  BY <1>2, <1>4, <1>5, <1>6, <1>7 DEF Since

\* The S3C chips stop the watchdog first.
LEMMA S3CPlatWatchdog ==
  /\ \A c : S3C24xPlat(c)[1] = [op |-> "wdt", key |-> "off"] /\ Len(S3C24xPlat(c)) = 4
              /\ \A i \in 2 .. 4 : S3C24xPlat(c)[i].op # "wdt"
  /\ S3C64xPlat[1] = [op |-> "wdt", key |-> "off"] /\ Len(S3C64xPlat) = 7
       /\ \A i \in 2 .. 7 : S3C64xPlat[i].op # "wdt"
<1>1. ASSUME NEW c
      PROVE  S3C24xPlat(c)[1] = [op |-> "wdt", key |-> "off"] /\ Len(S3C24xPlat(c)) = 4
              /\ \A i \in 2 .. 4 : S3C24xPlat(c)[i].op # "wdt"
  BY DEF S3C24xPlat, Wdt, Set, Lock
<1>2. S3C64xPlat[1] = [op |-> "wdt", key |-> "off"] /\ Len(S3C64xPlat) = 7
       /\ \A i \in 2 .. 7 : S3C64xPlat[i].op # "wdt"
  BY DEF S3C64xPlat, Wdt, Set, Lock
<1> QED  BY <1>1, <1>2

\* What plat_init() leaves done stays done.
LEMMA PartsSince ==
  ASSUME NEW b \in Boards, NEW A, NEW B, Since(Plat(b), Len(Plat(b)), A, B),
         Without(Stdio(b), B), Without(PrintText, B), Without(Sdram(b), B), Without(AfterSdram(b), B)
  PROVE  Since(ProgramOf(b), Len(ProgramOf(b)), A, B)
<1> DEFINE S == {p \in Seq(Steps) : Since(p, Len(p), A, B)}
<1>1. \A p \in S, q \in Free(B) : p \o q \in S
  BY SinceKept, Joined DEF Free
<1>2. /\ Plat(b) \in S /\ Stdio(b) \in Free(B) /\ PrintText \in Free(B) /\ Sdram(b) \in Free(B)
      /\ AfterSdram(b) \in Free(B)
  BY PartsTyped DEF Free
<1> HIDE DEF S
<1>3. ProgramOf(b) \in S
  BY Zenon, <1>1, <1>2, PartsTyped
<1> QED  BY <1>3 DEF S

\* Only the first part has steps of T.
LEMMA PartsApartFirst ==
  ASSUME NEW b \in Boards, NEW T, NEW A, NEW B, Apart(Plat(b), T, A, B),
         Without(Stdio(b), T), Without(PrintText, T), Without(Sdram(b), T), Without(AfterSdram(b), T)
  PROVE  Apart(ProgramOf(b), T, A, B)
<1> DEFINE S == {p \in Seq(Steps) : Apart(p, T, A, B)}
<1>1. \A p \in S, q \in Free(T) : p \o q \in S
  BY ApartJoined, WithoutIsGuarded, Joined DEF Free
<1>2. /\ Plat(b) \in S /\ Stdio(b) \in Free(T) /\ PrintText \in Free(T) /\ Sdram(b) \in Free(T)
      /\ AfterSdram(b) \in Free(T)
  BY PartsTyped DEF Free
<1> HIDE DEF S
<1>3. ProgramOf(b) \in S
  BY Zenon, <1>1, <1>2, PartsTyped
<1> QED  BY <1>3 DEF S

\* Every program stops the watchdog that its board has.
LEMMA AllStopWatchdog == ASSUME board \in Boards PROVE StopsWatchdog(ProgramOf(board))
<1> DEFINE W == OfKind("wdt")
           Second == Keys({"5555"})
           Guards(p) == Guarded(p, Second, Keys({"AAAA"}), Keys({"5555", "off"}))
           Waits(p) == Apart(p, W, Starts("wdt_write"), WaitsFor("wdt_write"))
           Stops(p) == Since(p, Len(p), Keys({"off", "5555"}), W)
<1>1. \A K : "wdt" \notin K => \A p \in Seq(StepsOf(K)) : Without(p, W) /\ Without(p, Second)
  BY NoneOfKind, KindOf
<1>2. /\ Without(Stdio(board), W) /\ Without(Stdio(board), Second)
      /\ Without(PrintText, W) /\ Without(PrintText, Second)
      /\ Without(Sdram(board), W) /\ Without(Sdram(board), Second)
      /\ Without(AfterSdram(board), W) /\ Without(AfterSdram(board), Second)
  <2>1. "wdt" \notin StdioKinds(board) /\ "wdt" \notin SdramKinds(board) /\ "wdt" \notin TailKinds(board)
    BY DEF StdioKinds, SdramKinds, TailKinds
  <2>2. Without(PrintText, W) /\ Without(PrintText, Second)
    BY Zenon, <1>1, PrintTextTyped
  <2> QED  BY <1>1, <2>1, <2>2, StdioTyped, SdramTyped, TailTyped
<1>3. ASSUME Guards(Plat(board)) PROVE Guards(ProgramOf(board))
  <2>1. Guards(Stdio(board)) /\ Guards(PrintText) /\ Guards(Sdram(board)) /\ Guards(AfterSdram(board))
    BY <1>2, WithoutIsGuarded, PartsTyped
  <2> QED  BY <1>3, <2>1, PartsGuarded
<1>4. ASSUME Waits(Plat(board)) PROVE Waits(ProgramOf(board))
  BY <1>2, <1>4, PartsApartFirst
<1>5. ASSUME Stops(Plat(board)) PROVE Stops(ProgramOf(board))
  BY <1>2, <1>5, PartsSince
<1>6. CASE board \in Omap3Boards
  <2>1. /\ Omap3WatchdogClocks \in Free(W) /\ Omap3WatchdogClocks \in Free(Second)
        /\ Omap3Plls \in Free(W) /\ Omap3Plls \in Free(Second)
        /\ Omap3Gates \in Free(W) /\ Omap3Gates \in Free(Second)
    BY Zenon, <1>1, Omap3WatchdogTyped, Omap3PllsTyped, Omap3GatesTyped, Kinds DEF Free
  <2>2. Plat(board) = Omap3WatchdogClocks \o Omap3WatchdogStop \o Omap3Plls \o Omap3Gates
    BY <1>6 DEF Plat, Omap3Plat, Omap3Boards, S3C24Boards
  <2>3. Omap3WatchdogStop \in Seq(Steps)
    BY Omap3WatchdogTyped, Kinds
  <2>4. Guards(Plat(board))
    <3> DEFINE G == {p \in Seq(Steps) : Guards(p)}
    <3>1. (\A p, q \in G : p \o q \in G) /\ Free(Second) \subseteq G
      BY GuardedJoined, Joined, WithoutIsGuarded DEF Free
    <3>2. Omap3WatchdogStop \in G
      BY <2>3, Omap3StopsWatchdog
    <3> HIDE DEF G
    <3>3. Plat(board) \in G
      BY <2>1, <2>2, <3>1, <3>2
    <3> QED  BY <3>3 DEF G
  <2>5. Waits(Plat(board))
    <3> DEFINE G == {p \in Seq(Steps) : Waits(p)}
    <3>1. \A p \in G, q \in Free(W) : p \o q \in G
      BY ApartJoined, WithoutIsGuarded, Joined DEF Free
    <3>2. Omap3WatchdogClocks \o Omap3WatchdogStop \in G
      <4>1. ~ Since(Omap3WatchdogClocks, Len(Omap3WatchdogClocks), Starts("wdt_write"), WaitsFor("wdt_write"))
        <5>1. Without(Omap3WatchdogClocks, Starts("wdt_write"))
          BY Omap3WatchdogTyped, NoneOfKind, StartKinds
        <5> QED  BY <2>1, <5>1, WithoutIsNotSince DEF Free
      <4>2. Waits(Omap3WatchdogClocks) /\ Omap3WatchdogClocks \in Seq(Steps)
        BY <2>1, WithoutIsGuarded DEF Free
      <4> QED  BY <2>3, <4>1, <4>2, Omap3StopsWatchdog, ApartJoined, Joined
    <3> HIDE DEF G
    <3>3. Plat(board) \in G
      BY <2>1, <2>2, <3>1, <3>2
    <3> QED  BY <3>3 DEF G
  <2>6. Stops(Plat(board))
    <3> DEFINE G == {p \in Seq(Steps) : Stops(p)}
    <3>1. \A p \in G, q \in Free(W) : p \o q \in G
      BY SinceKept, Joined DEF Free
    <3>2. Omap3WatchdogClocks \o Omap3WatchdogStop \in G
      BY <2>1, <2>3, Omap3StopsWatchdog, SinceLast, Joined DEF Free
    <3> HIDE DEF G
    <3>3. Plat(board) \in G
      BY <2>1, <2>2, <3>1, <3>2
    <3> QED  BY <3>3 DEF G
  <2> QED  BY <1>3, <1>4, <1>5, <1>6, <2>4, <2>5, <2>6 DEF StopsWatchdog, Omap3Boards, IsAt91, At91Boards
<1>7. CASE IsS3C
  <2>1. /\ Plat(board) \in Seq(StepsOf({"wdt", "set", "lock"})) /\ Len(Plat(board)) > 1
        /\ Plat(board)[1] = [op |-> "wdt", key |-> "off"]
        /\ \A i \in 2 .. Len(Plat(board)) : Plat(board)[i].op # "wdt"
    <3>1. CASE board \in S3C24Boards
      <4>1. Plat(board) = S3C24xPlat(S3C24Clock(board))
        BY <3>1 DEF Plat, S3C24Boards, Omap3Boards
      <4> QED  BY <3>1, <4>1, S3C24xTyped, S3CPlatWatchdog
    <3>2. CASE board = "s3c6410"
      <4>1. Plat(board) = S3C64xPlat
        BY <3>2 DEF Plat, S3C24Boards, Omap3Boards
      <4> QED  BY <4>1, S3C64xTyped, S3CPlatWatchdog
    <3> QED  BY <1>7, <3>1, <3>2 DEF IsS3C
  <2>2. /\ Without(Plat(board), Second) /\ Without(Plat(board), Starts("wdt_write"))
        /\ Stops(Plat(board))
    BY <2>1, S3CStopsWatchdog
  <2>3. Guards(Plat(board)) /\ Waits(Plat(board))
    BY <2>2, WithoutIsGuarded, WithoutIsApart, PartsTyped
  <2> QED  BY <1>3, <1>4, <1>5, <1>7, <2>2, <2>3 DEF StopsWatchdog, IsS3C, S3C24Boards, IsAt91, At91Boards
<1>8. CASE board \notin Omap3Boards /\ ~ IsS3C
  <2>1. "wdt" \notin PlatKinds(board)
    BY <1>8 DEF PlatKinds, IsS3C
  <2>2. Without(Plat(board), W) /\ Without(Plat(board), Second)
    BY <1>1, <2>1, PlatTyped
  <2>3. Guards(Plat(board)) /\ Waits(Plat(board))
    BY <2>2, WithoutIsGuarded, PartsTyped
  <2>4. Without(ProgramOf(board), W)
    BY <1>2, <2>2, PartsWithout
  <2> QED  BY <1>3, <1>4, <1>8, <2>3, <2>4 DEF StopsWatchdog
<1> QED  BY <1>6, <1>7, <1>8

-----------------------------------------------------------------------------
(* Units that are clocked before they are used *)

\* What kinds of steps need a clock.
LEMMA NeedingKinds ==
  ASSUME NEW g, NEW s \in Needing(g)
  PROVE  \/ s.op \in {"uart", "print"} /\ g \in ConsoleGates
         \/ s.op = "wdt" /\ g \in WatchdogGates
         \/ s.op = "mem" /\ g \in MemGates(s.chip)
BY DEF Needing, Needs

\* Which parts of OMAP3 open a clock, and which do not close it.
LEMMA Omap3OpensGates ==
  /\ \A d \in {"fclk", "iclk"} :
       /\ Since(Omap3Gates, Len(Omap3Gates), Opens(<<d, "uart3">>), Closes(<<d, "uart3">>))
       /\ Omap3UartGates(2) \in Free(Closes(<<d, "uart3">>))
       /\ Omap3UartMode \in Free(Closes(<<d, "uart3">>))
  /\ \A d \in {"fwkup", "iwkup"} :
       /\ Since(Omap3WatchdogClocks, Len(Omap3WatchdogClocks), Opens(<<d, "wdt2">>), Closes(<<d, "wdt2">>))
       /\ Omap3Gates \in Free(Closes(<<d, "wdt2">>))
  /\ \A d \in {"fcore", "icore"} :
       /\ Since(Omap3UartGates(0), Len(Omap3UartGates(0)), Opens(<<d, "uart1">>), Closes(<<d, "uart1">>))
       /\ Omap3UartMode \in Free(Closes(<<d, "uart1">>))
<1>1. /\ Omap3Gates \in Seq(Steps) /\ Omap3UartGates(0) \in Seq(Steps) /\ Omap3UartGates(2) \in Seq(Steps)
      /\ Omap3UartMode \in Seq(Steps) /\ Omap3WatchdogClocks \in Seq(Steps)
  BY Omap3GatesTyped, Omap3UartPartsTyped, Omap3WatchdogTyped, Kinds
<1>2. ASSUME NEW d \in {"fclk", "iclk"}
      PROVE  Since(Omap3Gates, Len(Omap3Gates), Opens(<<d, "uart3">>), Closes(<<d, "uart3">>))
  <2> DEFINE p == Omap3Gates
  <2>1. /\ Len(p) = 5
        /\ p[4] = [op |-> "write", dom |-> "fclk", units |-> {"uart3"}]
        /\ p[5] = [op |-> "write", dom |-> "iclk", units |-> {"uart3"}]
    BY DEF Omap3Gates, Read, Write
  <2> HIDE DEF p
  <2>2. 4 \in 1 .. Len(p) /\ 5 \in 1 .. Len(p)
    BY <2>1
  <2>3. p[4] \in Steps /\ p[5] \in Steps
    BY <1>1, <2>2, StepTyped DEF p
  <2>4. /\ d = "fclk" => p[4] \in Opens(<<d, "uart3">>) /\ p[5] \notin Closes(<<d, "uart3">>)
        /\ d = "iclk" => p[5] \in Opens(<<d, "uart3">>)
    BY <2>1, <2>3 DEF Opens, Closes
  <2>5. Since(p, 5, Opens(<<d, "uart3">>), Closes(<<d, "uart3">>))
    BY <2>4 DEF Since
  <2> QED  BY <2>1, <2>5 DEF p
<1>3. ASSUME NEW d \in {"fclk", "iclk"} PROVE Without(Omap3UartGates(2), Closes(<<d, "uart3">>))
  <2>1. Omap3UartGates(2) = Open("fclk", {"uart3"})
    BY DEF Omap3UartGates
  <2> QED  BY <2>1 DEF Open, Read, Write, Without, Closes
<1>4. ASSUME NEW g \in {<<"fclk", "uart3">>, <<"iclk", "uart3">>, <<"fcore", "uart1">>, <<"icore", "uart1">>}
      PROVE  Without(Omap3UartMode, Closes(g))
  <2> DEFINE p == Omap3UartMode
  <2>1. /\ Len(p) = 15 /\ p[7] = [op |-> "write", dom |-> "fclk", units |-> {"uart3"}]
        /\ \A i \in (1 .. 6) \cup (8 .. 15) : p[i].op \in {"uart", "read"}
    BY DEF Omap3UartMode, UartReg, Open, Read, Write
  <2> HIDE DEF p
  <2>2. p[7] \notin Closes(g)
    BY <2>1 DEF Closes
  <2>3. \A i \in (1 .. 6) \cup (8 .. 15) : p[i] \notin Closes(g)
    BY <2>1 DEF Closes
  <2>4. Without(p, Closes(g))
    BY <2>1, <2>2, <2>3 DEF Without
  <2> QED  BY <2>4 DEF p
<1>5. ASSUME NEW d \in {"fwkup", "iwkup"}
      PROVE  Since(Omap3WatchdogClocks, Len(Omap3WatchdogClocks), Opens(<<d, "wdt2">>), Closes(<<d, "wdt2">>))
  <2> DEFINE p == Omap3WatchdogClocks
  <2>1. /\ Len(p) = 3 /\ p[1] = [op |-> "assign", dom |-> "fwkup", units |-> {"wdt2"}]
        /\ p[2] = [op |-> "assign", dom |-> "iwkup", units |-> {"wdt2"}]
        /\ p[3] = [op |-> "wait", event |-> "wdt_awake"]
    BY DEF Omap3WatchdogClocks, Assign, Wait
  <2> HIDE DEF p
  <2>2. 1 \in 1 .. Len(p) /\ 2 \in 1 .. Len(p)
    BY <2>1
  <2>3. p[1] \in Steps /\ p[2] \in Steps
    BY <1>1, <2>2, StepTyped DEF p
  <2>4. /\ d = "fwkup" => p[1] \in Opens(<<d, "wdt2">>) /\ p[2] \notin Closes(<<d, "wdt2">>)
        /\ d = "iwkup" => p[2] \in Opens(<<d, "wdt2">>)
        /\ p[3] \notin Closes(<<d, "wdt2">>)
    BY <2>1, <2>3 DEF Opens, Closes
  <2>5. Since(p, 3, Opens(<<d, "wdt2">>), Closes(<<d, "wdt2">>))
    BY <2>4 DEF Since
  <2> QED  BY <2>1, <2>5 DEF p
<1>6. ASSUME NEW d \in {"fwkup", "iwkup"} PROVE Without(Omap3Gates, Closes(<<d, "wdt2">>))
  <2> DEFINE p == Omap3Gates
  <2>1. Len(p) = 5 /\ \A i \in 1 .. 5 : p[i].dom \in {"fclk", "iclk"}
    BY DEF Omap3Gates, Read, Write
  <2> HIDE DEF p
  <2>2. Without(p, Closes(<<d, "wdt2">>))
    BY <2>1 DEF Without, Closes
  <2> QED  BY <2>2 DEF p
<1>7. ASSUME NEW d \in {"fcore", "icore"}
      PROVE  Since(Omap3UartGates(0), Len(Omap3UartGates(0)), Opens(<<d, "uart1">>), Closes(<<d, "uart1">>))
  <2> DEFINE p == Omap3UartGates(0)
  <2>1. /\ Len(p) = 4 /\ p[2] = [op |-> "write", dom |-> "fcore", units |-> {"uart1"}]
        /\ p[3].op = "read" /\ p[4] = [op |-> "write", dom |-> "icore", units |-> {"uart1"}]
    BY DEF Omap3UartGates, Open, Read, Write
  <2> HIDE DEF p
  <2>2. 2 \in 1 .. Len(p) /\ 4 \in 1 .. Len(p)
    BY <2>1
  <2>3. p[2] \in Steps /\ p[4] \in Steps
    BY <1>1, <2>2, StepTyped DEF p
  <2>4. /\ d = "fcore" => p[2] \in Opens(<<d, "uart1">>) /\ p[4] \notin Closes(<<d, "uart1">>)
        /\ d = "icore" => p[4] \in Opens(<<d, "uart1">>)
        /\ p[3] \notin Closes(<<d, "uart1">>)
    BY <2>1, <2>3 DEF Opens, Closes
  <2>5. Since(p, 4, Opens(<<d, "uart1">>), Closes(<<d, "uart1">>))
    BY <2>4 DEF Since
  <2> QED  BY Zenon, <2>1, <2>5 DEF p
<1> QED  BY <1>1, <1>2, <1>3, <1>4, <1>5, <1>6, <1>7 DEF Free

\* Programs that do what T needs, and keep it so.
Kept(T, A, B) == {p \in Seq(Steps) : Guarded(p, T, A, B) /\ Since(p, Len(p), A, B)}

\* Programs that leave nothing of A that has not been followed by B.
Settled(T, A, B) == {p \in Seq(Steps) : Apart(p, T, A, B) /\ ~ Since(p, Len(p), A, B)}

\* What a part has opened stays open behind it.
LEMMA KeptJoined ==
  ASSUME NEW T, NEW A, NEW B
  PROVE  /\ \A p \in Kept(T, A, B), q \in Free(B) : p \o q \in Kept(T, A, B)
         /\ \A p \in Free(T), q \in Kept(T, A, B) : p \o q \in Kept(T, A, B)
         /\ \A p \in Free(T) : Since(p, Len(p), A, B) => p \in Kept(T, A, B)
<1>1. ASSUME NEW p \in Kept(T, A, B), NEW q \in Free(B) PROVE p \o q \in Kept(T, A, B)
  <2>1. /\ p \in Seq(Steps) /\ Guarded(p, T, A, B) /\ Since(p, Len(p), A, B)
        /\ q \in Seq(Steps) /\ Without(q, B)
    BY DEF Kept, Free
  <2>2. Guarded(p \o q, T, A, B)
    BY <2>1, GuardedJoined
  <2>3. Since(p \o q, Len(p \o q), A, B) /\ p \o q \in Seq(Steps)
    BY <2>1, SinceKept, Joined
  <2> QED  BY <2>2, <2>3 DEF Kept
<1>2. ASSUME NEW p \in Free(T), NEW q \in Kept(T, A, B) PROVE p \o q \in Kept(T, A, B)
  <2>1. /\ p \in Seq(Steps) /\ Guarded(p, T, A, B)
        /\ q \in Seq(Steps) /\ Guarded(q, T, A, B) /\ Since(q, Len(q), A, B)
    BY WithoutIsGuarded DEF Kept, Free
  <2>2. Guarded(p \o q, T, A, B)
    BY <2>1, GuardedJoined
  <2>3. Since(p \o q, Len(p \o q), A, B) /\ p \o q \in Seq(Steps)
    BY <2>1, SinceLast, Joined
  <2> QED  BY <2>2, <2>3 DEF Kept
<1>3. \A p \in Free(T) : Since(p, Len(p), A, B) => p \in Kept(T, A, B)
  BY WithoutIsGuarded DEF Kept, Free
<1> QED  BY <1>1, <1>2, <1>3

\* Parts that settle what they start, joined, settle it.
LEMMA SettledJoined ==
  ASSUME NEW T, NEW A, NEW B
  PROVE  /\ \A p, q \in Settled(T, A, B) : p \o q \in Settled(T, A, B)
         /\ Free(A) \subseteq Settled(T, A, B)
<1>1. ASSUME NEW p \in Settled(T, A, B), NEW q \in Settled(T, A, B)
      PROVE  p \o q \in Settled(T, A, B)
  <2>1. /\ p \in Seq(Steps) /\ Apart(p, T, A, B) /\ ~ Since(p, Len(p), A, B)
        /\ q \in Seq(Steps) /\ Apart(q, T, A, B) /\ ~ Since(q, Len(q), A, B)
    BY DEF Settled
  <2>2. Apart(p \o q, T, A, B) /\ p \o q \in Seq(Steps)
    BY <2>1, ApartJoined, Joined
  <2>3. ~ Since(p \o q, Len(p \o q), A, B)
    BY <2>1, NotSinceJoined
  <2> QED  BY <2>2, <2>3 DEF Settled
<1>2. Free(A) \subseteq Settled(T, A, B)
  BY WithoutIsApart, WithoutIsNotSince DEF Free, Settled
<1> QED  BY <1>1, <1>2

\* The parts of a program that have no steps of the kinds in A.
LEMMA PartFree ==
  ASSUME NEW b \in Boards, NEW A
  PROVE  /\ (\A s \in A : s.op \notin PlatKinds(b)) => Plat(b) \in Free(A)
         /\ (\A s \in A : s.op \notin StdioKinds(b)) => Stdio(b) \in Free(A)
         /\ (\A s \in A : s.op # "print") => PrintText \in Free(A)
         /\ (\A s \in A : s.op \notin SdramKinds(b)) => Sdram(b) \in Free(A)
         /\ (\A s \in A : s.op \notin TailKinds(b)) => AfterSdram(b) \in Free(A)
<1>1. ASSUME NEW K, NEW p \in Seq(StepsOf(K)), \A s \in A : s.op \notin K PROVE p \in Free(A)
  BY <1>1, FreeKind
<1>2. (\A s \in A : s.op \notin PlatKinds(b)) => Plat(b) \in Free(A)
  BY <1>1, PlatTyped
<1>3. (\A s \in A : s.op \notin StdioKinds(b)) => Stdio(b) \in Free(A)
  BY <1>1, StdioTyped
<1>4. (\A s \in A : s.op # "print") => PrintText \in Free(A)
  <2>1. PrintText \in Seq(StepsOf({"print"}))
    BY PrintTextTyped
  <2> QED  BY <1>1, <2>1
<1>5. (\A s \in A : s.op \notin SdramKinds(b)) => Sdram(b) \in Free(A)
  BY <1>1, SdramTyped
<1>6. (\A s \in A : s.op \notin TailKinds(b)) => AfterSdram(b) \in Free(A)
  BY <1>1, TailTyped
<1> QED  BY <1>2, <1>3, <1>4, <1>5, <1>6

\* A program that opens what T needs before the banner, and leaves it open.
LEMMA PartsKept ==
  ASSUME NEW b \in Boards, NEW T, NEW A, NEW B,
         \/ Plat(b) \in Kept(T, A, B) /\ Stdio(b) \in Free(B)
         \/ Plat(b) \in Free(T) /\ Stdio(b) \in Kept(T, A, B),
         PrintText \in Free(B), Sdram(b) \in Free(B), AfterSdram(b) \in Free(B)
  PROVE  Guarded(ProgramOf(b), T, A, B)
<1> DEFINE G == Kept(T, A, B)
<1>1. /\ \A p \in G, q \in Free(B) : p \o q \in G
      /\ \A p \in Free(T), q \in G : p \o q \in G
  BY KeptJoined
<1> HIDE DEF G
<1>2. Plat(b) \o Stdio(b) \in G
  BY <1>1 DEF G
<1>3. ProgramOf(b) \in G
  BY Zenon, <1>1, <1>2, PartsTyped
<1> QED  BY <1>3 DEF Kept, G

\* A program that settles what it starts, part by part.
LEMMA PartsSettled ==
  ASSUME NEW b \in Boards, NEW T, NEW A, NEW B,
         Plat(b) \in Settled(T, A, B), Stdio(b) \in Settled(T, A, B),
         PrintText \in Settled(T, A, B), Sdram(b) \in Settled(T, A, B),
         AfterSdram(b) \in Settled(T, A, B)
  PROVE  Apart(ProgramOf(b), T, A, B)
<1> DEFINE G == Settled(T, A, B)
<1>1. \A p, q \in G : p \o q \in G
  BY SettledJoined
<1>2. Plat(b) \in G /\ Stdio(b) \in G /\ PrintText \in G /\ Sdram(b) \in G /\ AfterSdram(b) \in G
  OBVIOUS
<1> HIDE DEF G
<1>3. Plat(b) \o Stdio(b) \o PrintText \in G
  BY <1>1, <1>2
<1>4. Plat(b) \o Stdio(b) \o PrintText \o Sdram(b) \o AfterSdram(b) \in G
  BY <1>1, <1>2, <1>3
<1>5. ProgramOf(b) \in G
  BY Zenon, <1>4, PartsTyped
<1> QED  BY <1>5 DEF Settled, G

\* OMAP3 opens the clocks of its console and of its watchdog.
LEMMA Omap3ClocksFirst ==
  /\ \A d \in {"fclk", "iclk"} : \A T : (\A s \in T : s.op \in {"uart", "print"}) =>
       LET g == <<d, "uart3">> IN
         Omap3Plat \in Kept(T, Opens(g), Closes(g)) /\ Omap3Uart(2) \in Free(Closes(g))
  /\ \A d \in {"fcore", "icore"} : \A T : (\A s \in T : s.op \in {"uart", "print"}) =>
       LET g == <<d, "uart1">> IN
         Omap3Plat \in Free(T) /\ Omap3Uart(0) \in Kept(T, Opens(g), Closes(g))
  /\ \A d \in {"fwkup", "iwkup"} : \A T : (\A s \in T : s.op = "wdt") =>
       LET g == <<d, "wdt2">> IN Omap3Plat \in Kept(T, Opens(g), Closes(g))
<1>1. \A A : /\ (\A s \in A : s.op \in {"uart", "print"}) =>
                  /\ Omap3WatchdogClocks \in Free(A) /\ Omap3WatchdogStop \in Free(A)
                  /\ Omap3Plls \in Free(A) /\ Omap3Gates \in Free(A)
                  /\ Omap3UartClock \in Free(A) /\ Omap3UartGates(0) \in Free(A)
             /\ (\A s \in A : s.op = "wdt") => Omap3WatchdogClocks \in Free(A)
             /\ (\A s \in A : s.op \in {"write", "assign"}) =>
                  /\ Omap3WatchdogStop \in Free(A) /\ Omap3Plls \in Free(A)
                  /\ Omap3UartClock \in Free(A) /\ Omap3UartReset \in Free(A)
                  /\ Omap3UartSettle \in Free(A)
  <2>1. ASSUME NEW A, NEW K, NEW p \in Seq(StepsOf(K)), \A s \in A : s.op \notin K PROVE p \in Free(A)
    BY <2>1, FreeKind
  <2> SUFFICES ASSUME NEW A
               PROVE  /\ (\A s \in A : s.op \in {"uart", "print"}) =>
                           /\ Omap3WatchdogClocks \in Free(A) /\ Omap3WatchdogStop \in Free(A)
                           /\ Omap3Plls \in Free(A) /\ Omap3Gates \in Free(A)
                           /\ Omap3UartClock \in Free(A) /\ Omap3UartGates(0) \in Free(A)
                      /\ (\A s \in A : s.op = "wdt") => Omap3WatchdogClocks \in Free(A)
                      /\ (\A s \in A : s.op \in {"write", "assign"}) =>
                           /\ Omap3WatchdogStop \in Free(A) /\ Omap3Plls \in Free(A)
                           /\ Omap3UartClock \in Free(A) /\ Omap3UartReset \in Free(A)
                           /\ Omap3UartSettle \in Free(A)
    OBVIOUS
  <2>2. (\A s \in A : s.op \in {"uart", "print", "wdt"}) => Omap3WatchdogClocks \in Free(A)
    BY <2>1, Omap3WatchdogTyped
  <2>3. (\A s \in A : s.op \in {"uart", "print", "write", "assign"}) => Omap3WatchdogStop \in Free(A)
    BY <2>1, Omap3WatchdogTyped
  <2>4. (\A s \in A : s.op \in {"uart", "print", "write", "assign"}) => Omap3Plls \in Free(A)
    BY <2>1, Omap3PllsTyped
  <2>5. (\A s \in A : s.op \in {"uart", "print"}) =>
          Omap3Gates \in Free(A) /\ Omap3UartGates(0) \in Free(A)
    BY <2>1, Omap3GatesTyped
  <2>6. (\A s \in A : s.op \in {"uart", "print", "write", "assign"}) => Omap3UartClock \in Free(A)
    <3>1. Omap3UartClock \in Seq(StepsOf({"set", "lock"}))
      BY Omap3UartPartsTyped
    <3> QED  BY <2>1, <3>1
  <2>7. (\A s \in A : s.op \in {"write", "assign"}) => Omap3UartReset \in Free(A)
    BY <2>1, Omap3UartPartsTyped
  <2>8. (\A s \in A : s.op \in {"write", "assign"}) => Omap3UartSettle \in Free(A)
    BY <2>1, Omap3UartPartsTyped
  <2> QED  BY <2>2, <2>3, <2>4, <2>5, <2>6, <2>7, <2>8
<1>2. \A g : \A s \in Closes(g) : s.op \in {"write", "assign"}
  BY KindOf
<1>3. ASSUME NEW d \in {"fclk", "iclk"}, NEW T, \A s \in T : s.op \in {"uart", "print"}
      PROVE  /\ Omap3Plat \in Kept(T, Opens(<<d, "uart3">>), Closes(<<d, "uart3">>))
             /\ Omap3Uart(2) \in Free(Closes(<<d, "uart3">>))
  <2> DEFINE B == Closes(<<d, "uart3">>)
             G == Kept(T, Opens(<<d, "uart3">>), B)
             F == Free(B)
  <2>1. /\ \A p \in Free(T), q \in G : p \o q \in G
        /\ \A p \in Free(T) : Since(p, Len(p), Opens(<<d, "uart3">>), B) => p \in G
    BY KeptJoined
  <2>2. Omap3Gates \in G
    BY Zenon, <1>1, <1>3, <2>1, Omap3OpensGates
  <2>3. \A p, q \in F : p \o q \in F
    BY FreeJoined
  <2>4. /\ Omap3UartClock \in F /\ Omap3UartGates(2) \in F /\ Omap3UartReset \in F
        /\ Omap3UartMode \in F /\ Omap3UartSettle \in F
    BY <1>1, <1>2, Omap3OpensGates
  <2>5. Omap3WatchdogClocks \o Omap3WatchdogStop \o Omap3Plls \in Free(T)
    BY <1>1, <1>3, FreeJoined
  <2> HIDE DEF G, F
  <2>6. Omap3Plat \in G
    BY <2>1, <2>2, <2>5 DEF Omap3Plat
  <2>7. Omap3Uart(2) \in F
    BY <2>3, <2>4 DEF Omap3Uart
  <2> QED  BY <2>6, <2>7 DEF G, F
<1>4. ASSUME NEW d \in {"fcore", "icore"}, NEW T, \A s \in T : s.op \in {"uart", "print"}
      PROVE  /\ Omap3Plat \in Free(T)
             /\ Omap3Uart(0) \in Kept(T, Opens(<<d, "uart1">>), Closes(<<d, "uart1">>))
  <2> DEFINE B == Closes(<<d, "uart1">>)
             G == Kept(T, Opens(<<d, "uart1">>), B)
             F == Free(B)
  <2>1. /\ \A p \in G, q \in F : p \o q \in G
        /\ \A p \in Free(T), q \in G : p \o q \in G
        /\ \A p \in Free(T) : Since(p, Len(p), Opens(<<d, "uart1">>), B) => p \in G
    BY KeptJoined
  <2>2. Omap3UartClock \in Free(T) /\ Omap3UartGates(0) \in G
    BY Zenon, <1>1, <1>4, <2>1, Omap3OpensGates
  <2>3. Omap3UartReset \in F /\ Omap3UartMode \in F /\ Omap3UartSettle \in F
    BY <1>1, <1>2, Omap3OpensGates
  <2>4. Omap3Plat \in Free(T)
    BY <1>1, <1>4, FreeJoined DEF Omap3Plat
  <2> HIDE DEF G, F
  <2>5. Omap3Uart(0) \in G
    BY <2>1, <2>2, <2>3 DEF Omap3Uart
  <2> QED  BY <2>4, <2>5 DEF G
<1>5. ASSUME NEW d \in {"fwkup", "iwkup"}, NEW T, \A s \in T : s.op = "wdt"
      PROVE  Omap3Plat \in Kept(T, Opens(<<d, "wdt2">>), Closes(<<d, "wdt2">>))
  <2> DEFINE B == Closes(<<d, "wdt2">>)
             G == Kept(T, Opens(<<d, "wdt2">>), B)
             F == Free(B)
  <2>1. /\ \A p \in G, q \in F : p \o q \in G
        /\ \A p \in Free(T) : Since(p, Len(p), Opens(<<d, "wdt2">>), B) => p \in G
    BY KeptJoined
  <2>2. Omap3WatchdogClocks \in G
    BY Zenon, <1>1, <1>5, <2>1, Omap3OpensGates
  <2>3. Omap3WatchdogStop \in F /\ Omap3Plls \in F /\ Omap3Gates \in F
    BY <1>1, <1>2, Omap3OpensGates
  <2> HIDE DEF G, F
  <2>4. Omap3Plat \in G
    BY <2>1, <2>2, <2>3 DEF Omap3Plat
  <2> QED  BY <2>4 DEF G
<1> QED  BY <1>3, <1>4, <1>5

\* Open() opens its clocks and closes none of another register.
LEMMA OpenOpens ==
  ASSUME NEW dom \in Domains, NEW us \in SUBSET Units
  PROVE  /\ Open(dom, us) \in Seq(StepsOf({"read", "write"})) /\ Open(dom, us) \in Seq(Steps)
         /\ \A u \in us : Since(Open(dom, us), Len(Open(dom, us)), Opens(<<dom, u>>), Closes(<<dom, u>>))
         /\ \A g : g[1] # dom => Open(dom, us) \in Free(Closes(g))
<1> DEFINE p == Open(dom, us)
<1>1. p \in Seq(StepsOf({"read", "write"}))
  <2>1. Read(dom) \in Seq(StepsOf({"read", "write"})) /\ Write(dom, us) \in Seq(StepsOf({"read", "write"}))
    BY ReadTyped, WriteTyped
  <2> QED  BY <2>1, Joined DEF Open
<1>2. p \in Seq(Steps)
  BY <1>1, Kinds
<1>3. /\ Len(p) = 2 /\ p[1] = [op |-> "read", dom |-> dom]
      /\ p[2] = [op |-> "write", dom |-> dom, units |-> us]
  BY DEF Open, Read, Write
<1> HIDE DEF p
<1>4. p[2] \in Steps
  <2>1. 2 \in 1 .. Len(p)
    BY <1>3
  <2> QED  BY <1>2, <2>1, StepTyped
<1>5. ASSUME NEW u \in us PROVE Since(p, Len(p), Opens(<<dom, u>>), Closes(<<dom, u>>))
  <2>1. p[2] \in Opens(<<dom, u>>)
    BY <1>3, <1>4 DEF Opens
  <2> QED  BY <1>3, <2>1 DEF Since
<1>6. ASSUME NEW g, g[1] # dom PROVE Without(p, Closes(g))
  BY <1>3, <1>6 DEF Without, Closes
<1> QED  BY <1>1, <1>2, <1>5, <1>6 DEF p, Free

\* OMAP4 opens the clocks of its console and its memory.
LEMMA Omap4ClocksFirst ==
  ASSUME NEW g \in {<<"l4per", "uart3">>, <<"memif", "emif1">>, <<"memif", "emif2">>},
         NEW T, \A s \in T : s.op \in {"uart", "print", "mem"}
  PROVE  Omap4Plat \in Kept(T, Opens(g), Closes(g))
<1> DEFINE B == Closes(g)
           G == Kept(T, Opens(g), B)
           F == Free(B)
           H == Free(T)
           o == Set([OSC |-> 384000, SYSDIV |-> 1])
           c == Set([CORE_M |-> CoreDpll.m, CORE_N |-> CoreDpll.n, CORE_M2 |-> CoreDpll.m2])
           e == Open("memif", {"emif1", "emif2"})
<1>1. /\ \A p \in G, q \in F : p \o q \in G
      /\ \A p \in H, q \in G : p \o q \in G
      /\ \A p \in H : Since(p, Len(p), Opens(g), B) => p \in G
      /\ \A p, q \in H : p \o q \in H
  BY KeptJoined, FreeJoined
<1>2. ASSUME NEW K, K \cap {"uart", "print", "mem"} = {}, NEW p \in Seq(StepsOf(K)) PROVE p \in H
  BY <1>2, FreeKind
<1>3. ASSUME NEW K, K \cap {"write", "assign"} = {}, NEW p \in Seq(StepsOf(K)) PROVE p \in F
  BY <1>3, FreeKind, KindOf
<1>4. o \in H /\ c \in H
  <2>1. [OSC |-> 384000, SYSDIV |-> 1] \in SetValues
    BY SMT, SetsTyped
  <2>2. CoreDpll.m \in Nat /\ CoreDpll.n \in Nat /\ CoreDpll.m2 \in Nat
    BY DEF CoreDpll
  <2>3. [CORE_M |-> CoreDpll.m, CORE_N |-> CoreDpll.n, CORE_M2 |-> CoreDpll.m2] \in SetValues
    BY <2>2, SetsTyped
  <2>4. o \in Seq(StepsOf({"set"})) /\ c \in Seq(StepsOf({"set"}))
    BY SMT, <2>1, <2>3, SetTyped
  <2> QED  BY SMT, <1>2, <2>4
<1>5. Omap4Mpu(MpuDpll) \in H /\ Omap4Per(PerDpll) \in H
  <2>1. /\ Omap4Mpu(MpuDpll) \in Seq(StepsOf({"set", "bypass", "lock"}))
        /\ Omap4Per(PerDpll) \in Seq(StepsOf({"set", "bypass", "lock"}))
    BY Omap4PllTyped DEF MpuDpll, PerDpll
  <2> QED  BY <1>2, <2>1
<1>6. /\ Bypass("core") \in H
      /\ Wait("emif_awake") \in H /\ Lock("core") \in H /\ Wait("core") \in H
      /\ Wait("emif_awake") \in F /\ Lock("core") \in F /\ Wait("core") \in F
  <2>1. /\ Bypass("core") \in Seq(StepsOf({"bypass"})) /\ Lock("core") \in Seq(StepsOf({"lock"}))
        /\ Wait("emif_awake") \in Seq(StepsOf({"wait"})) /\ Wait("core") \in Seq(StepsOf({"wait"}))
    BY Zenon, BypassTyped, LockTyped, WaitTyped DEF Plls, Events
  <2> QED  BY Zenon, <1>2, <1>3, <2>1
<1>7. Omap4GpioGates \in H /\ Omap4UartGates \in H
  BY <1>2, Omap4GatesTyped
<1>8. /\ "memif" \in Domains /\ "l4per" \in Domains /\ {"emif1", "emif2"} \in SUBSET Units
      /\ {"gpio2", "gpio3", "gpio4", "gpio5", "gpio6"} \in SUBSET Units
      /\ {"uart1", "uart2", "uart3", "uart4"} \in SUBSET Units
  BY DEF Domains, Units
<1>9. e \in H
  BY <1>2, <1>8, OpenOpens
<1>10. /\ Omap4Core(CoreDpll) = Bypass("core") \o c \o e \o Wait("emif_awake") \o Lock("core") \o Wait("core")
       /\ Omap4Plat = o \o Omap4Mpu(MpuDpll) \o Omap4Per(PerDpll) \o Omap4Core(CoreDpll)
                        \o Omap4GpioGates \o Omap4UartGates
  BY SMT DEF Omap4Core, Omap4Plat
<1>11. CASE g = <<"l4per", "uart3">>
  <2>1. Since(Omap4UartGates, Len(Omap4UartGates), Opens(g), B)
    BY <1>8, <1>11, OpenOpens DEF Omap4UartGates
  <2>2. Omap4UartGates \in G
    BY <1>1, <1>7, <2>1
  <2> HIDE DEF G, F, H, o, c, e
  <2> DEFINE x == Bypass("core") \o c \o e
  <2>3. x \in H /\ Omap4Core(CoreDpll) = x \o Wait("emif_awake") \o Lock("core") \o Wait("core")
    BY <1>1, <1>4, <1>6, <1>9, <1>10
  <2> HIDE DEF x
  <2>4. Omap4Core(CoreDpll) \in H
    BY <1>1, <1>6, <2>3
  <2> DEFINE y == o \o Omap4Mpu(MpuDpll) \o Omap4Per(PerDpll)
  <2>5. y \in H /\ Omap4Plat = y \o Omap4Core(CoreDpll) \o Omap4GpioGates \o Omap4UartGates
    BY <1>1, <1>4, <1>5, <1>10
  <2> HIDE DEF y
  <2>6. Omap4Plat \in G
    BY <1>1, <1>7, <2>2, <2>4, <2>5
  <2> QED  BY <2>6 DEF G
<1>12. CASE g \in {<<"memif", "emif1">>, <<"memif", "emif2">>}
  <2>1. Since(e, Len(e), Opens(g), B)
    BY <1>8, <1>12, OpenOpens
  <2>2. e \in G
    BY <1>1, <1>9, <2>1
  <2>3. Omap4GpioGates \in F /\ Omap4UartGates \in F
    <3>1. g[1] # "l4per"
      BY <1>12
    <3> QED  BY <1>8, <3>1, OpenOpens DEF Omap4GpioGates, Omap4UartGates
  <2> HIDE DEF G, F, H, o, c, e
  <2> DEFINE x == Bypass("core") \o c \o e
  <2>4. x \in G /\ Omap4Core(CoreDpll) = x \o Wait("emif_awake") \o Lock("core") \o Wait("core")
    BY <1>1, <1>4, <1>6, <1>10, <2>2
  <2> HIDE DEF x
  <2>5. Omap4Core(CoreDpll) \in G
    BY <1>1, <1>6, <2>4
  <2> DEFINE y == o \o Omap4Mpu(MpuDpll) \o Omap4Per(PerDpll)
  <2>6. y \in H /\ Omap4Plat = y \o Omap4Core(CoreDpll) \o Omap4GpioGates \o Omap4UartGates
    BY <1>1, <1>4, <1>5, <1>10
  <2> HIDE DEF y
  <2>7. Omap4Plat \in G
    BY <1>1, <2>3, <2>5, <2>6
  <2> QED  BY <2>7 DEF G
<1> QED  BY <1>11, <1>12

\* The software reset of the UART is over before the UART is used, and no other
\* step starts one.
LEMMA ResetsAreOver ==
  LET T == OfKind("uart") \cup OfKind("print")
      A == Starts("uart_reset")
      B == WaitsFor("uart_reset")
  IN /\ \A index \in {0, 2} : Omap3Uart(index) \in Settled(T, A, B)
     /\ Omap4Uart \in Free(A)
<1> DEFINE T == OfKind("uart") \cup OfKind("print")
           A == Starts("uart_reset")
           B == WaitsFor("uart_reset")
           G == Settled(T, A, B)
<1>1. (\A p, q \in G : p \o q \in G) /\ Free(A) \subseteq G
  BY Zenon, SettledJoined
<1>2. ASSUME NEW K, "uart" \notin K, NEW p \in Seq(StepsOf(K)) PROVE p \in G
  <2>1. \A s \in A : s.op \notin K
    BY <1>2, StartKinds
  <2> QED  BY Zenon, <1>1, <1>2, <2>1, FreeKind
<1>3. /\ Omap3UartClock \in G /\ Omap3UartSettle \in G
      /\ \A index \in {0, 2} : Omap3UartGates(index) \in G
  <2>1. Omap3UartClock \in G
    BY Zenon, <1>2, Omap3UartPartsTyped
  <2>2. Omap3UartSettle \in G
    BY Zenon, <1>2, Omap3UartPartsTyped
  <2>3. \A index \in {0, 2} : Omap3UartGates(index) \in G
    BY Zenon, <1>2, Omap3GatesTyped
  <2> QED  BY <2>1, <2>2, <2>3
<1>4. Omap3UartReset \in G
  <2> DEFINE p == Omap3UartReset
  <2>1. /\ Len(p) = 2 /\ p[1] = [op |-> "uart", reg |-> "SYSC", val |-> 2]
        /\ p[2] = [op |-> "wait", event |-> "uart_reset"]
    BY DEF Omap3UartReset, UartReg, Wait
  <2>2. p \in Seq(Steps)
    BY Omap3UartPartsTyped, Kinds
  <2> HIDE DEF p
  <2>3. p[2] \in Steps
    <3>1. 2 \in 1 .. Len(p)
      BY <2>1
    <3> QED  BY <2>2, <3>1, StepTyped
  <2>4. p[2] \in B /\ p[2] \notin A /\ p[2] \notin T
    BY <2>1, <2>3, StartKinds DEF WaitsFor, OfKind
  <2> HIDE DEF T, A, B
  <2>5. Apart(p, T, A, B) /\ ~ Since(p, Len(p), A, B)
    BY <2>1, <2>4 DEF Apart, Since
  <2> QED  BY <2>2, <2>5 DEF p, Settled
<1>5. Omap3UartMode \in Free(A)
  <2> DEFINE p == Omap3UartMode
  <2>1. /\ Len(p) = 15 /\ p[6].op = "read" /\ p[7].op = "write"
        /\ \A i \in (1 .. 5) \cup (8 .. 15) : p[i].reg # "SYSC"
    BY DEF Omap3UartMode, UartReg, Open, Read, Write
  <2>2. p \in Seq(Steps)
    BY Omap3UartPartsTyped, Kinds
  <2> HIDE DEF p
  <2>3. Without(p, A)
    BY <2>1, StartKinds DEF Without
  <2> QED  BY <2>2, <2>3 DEF p, Free
<1>6. Omap4Uart \in Free(A)
  <2> DEFINE p == Omap4Uart
  <2>1. Len(p) = 9 /\ \A i \in 1 .. 9 : p[i].reg # "SYSC"
    BY SMT DEF Omap4Uart, UartReg
  <2>2. p \in Seq(Steps)
    BY Omap4UartTyped, Kinds
  <2> HIDE DEF p
  <2>3. Without(p, A)
    BY <2>1, StartKinds DEF Without
  <2> QED  BY <2>2, <2>3 DEF p, Free
<1>7. \A index \in {0, 2} : Omap3Uart(index) \in G
  <2>1. Omap3UartMode \in G
    BY <1>1, <1>5
  <2> HIDE DEF G
  <2> QED  BY <1>1, <1>3, <1>4, <2>1 DEF Omap3Uart
<1> QED  BY <1>6, <1>7

\* Every unit is clocked before it is used, on every board.
LEMMA AllClockFirst == ASSUME board \in Boards PROVE ClocksFirst(ProgramOf(board))
<1> USE DEF Boards, Omap3Boards, S3C24Boards, At91Boards
<1>1. ASSUME NEW g \in Domains \X Units
      PROVE  Guarded(ProgramOf(board), Needing(g), Opens(g), Closes(g))
  <2> DEFINE T == Needing(g)
             A == Opens(g)
             B == Closes(g)
  <2>1. \A s \in T : \/ s.op \in {"uart", "print"} /\ g \in ConsoleGates
                     \/ s.op = "wdt" /\ g \in WatchdogGates
                     \/ s.op = "mem" /\ g \in MemGates(s.chip)
    BY NeedingKinds
  <2>2. \A s \in B : s.op \in {"write", "assign"}
    BY KindOf
  <2>3. CASE T = {}
    <3>1. Without(ProgramOf(board), T)
      BY <2>3 DEF Without
    <3> QED  BY Zenon, <3>1, PartsTyped, WithoutIsGuarded
  <2>4. CASE board \in Omap3Boards /\ g \in {<<"fwkup", "wdt2">>, <<"iwkup", "wdt2">>}
    <3>1. \A s \in T : s.op = "wdt"
      BY <2>1, <2>4 DEF ConsoleGates, MemGates
    <3>2. Omap3Plat \in Kept(T, A, B)
      BY <2>4, <3>1, Omap3ClocksFirst
    <3>3. Plat(board) = Omap3Plat
      BY <2>4 DEF Plat
    <3>4. /\ Stdio(board) \in Free(T) /\ PrintText \in Free(T) /\ Sdram(board) \in Free(T)
          /\ AfterSdram(board) \in Free(T)
      BY <2>4, <3>1, PartFree DEF StdioKinds, SdramKinds, TailKinds
    <3> HIDE DEF T, A, B
    <3>5. Guarded(Plat(board), T, A, B)
      BY <3>2, <3>3 DEF Kept
    <3>6. /\ Guarded(Stdio(board), T, A, B) /\ Guarded(PrintText, T, A, B)
          /\ Guarded(Sdram(board), T, A, B) /\ Guarded(AfterSdram(board), T, A, B)
      BY <3>4, WithoutIsGuarded DEF Free
    <3>7. Guarded(ProgramOf(board), T, A, B)
      BY <3>5, <3>6, PartsGuarded
    <3> QED  BY <3>7 DEF T, A, B
  <2>5. PrintText \in Free(B) /\ Sdram(board) \in Free(B)
    BY <2>2, PartFree DEF SdramKinds
  <2>6. CASE board = "omap3" /\ g \in {<<"fclk", "uart3">>, <<"iclk", "uart3">>}
    <3>1. \A s \in T : s.op \in {"uart", "print"}
      BY <2>1, <2>6 DEF WatchdogGates, MemGates
    <3>2. Omap3Plat \in Kept(T, A, B) /\ Omap3Uart(2) \in Free(B)
      BY <2>6, <3>1, Omap3ClocksFirst
    <3>3. Plat(board) = Omap3Plat /\ Stdio(board) = Omap3Uart(2)
      BY <2>6 DEF Plat, Stdio
    <3>4. AfterSdram(board) \in Free(B)
      BY <2>2, <2>6, PartFree DEF TailKinds
    <3> HIDE DEF T, A, B
    <3>5. Guarded(ProgramOf(board), T, A, B)
      BY <2>5, <3>2, <3>3, <3>4, PartsKept
    <3> QED  BY <3>5 DEF T, A, B
  <2>7. CASE board = "evm3530" /\ g \in {<<"fcore", "uart1">>, <<"icore", "uart1">>}
    <3>1. \A s \in T : s.op \in {"uart", "print"}
      BY <2>1, <2>7 DEF WatchdogGates, MemGates
    <3>2. Omap3Plat \in Free(T) /\ Omap3Uart(0) \in Kept(T, A, B)
      BY <2>7, <3>1, Omap3ClocksFirst
    <3>3. Plat(board) = Omap3Plat /\ Stdio(board) = Omap3Uart(0)
      BY <2>7 DEF Plat, Stdio
    <3>4. AfterSdram(board) \in Free(B)
      BY <2>2, <2>7, PartFree DEF TailKinds
    <3> HIDE DEF T, A, B
    <3>5. Guarded(ProgramOf(board), T, A, B)
      BY <2>5, <3>2, <3>3, <3>4, PartsKept
    <3> QED  BY <3>5 DEF T, A, B
  <2>8. CASE board = "omap4" /\ g \in {<<"l4per", "uart3">>, <<"memif", "emif1">>, <<"memif", "emif2">>}
    <3>1. \A s \in T : s.op \in {"uart", "print", "mem"}
      BY <2>1, <2>8 DEF WatchdogGates
    <3>2. Omap4Plat \in Kept(T, A, B)
      BY <2>8, <3>1, Omap4ClocksFirst
    <3>3. Plat(board) = Omap4Plat
      BY <2>8 DEF Plat
    <3>4. Stdio(board) \in Free(B) /\ AfterSdram(board) \in Free(B)
      BY <2>2, <2>8, PartFree DEF StdioKinds, TailKinds
    <3> HIDE DEF T, A, B
    <3>5. Guarded(ProgramOf(board), T, A, B)
      BY <2>5, <3>2, <3>3, <3>4, PartsKept
    <3> QED  BY <3>5 DEF T, A, B
  <2>9. CASE board = "omap4" /\ g \in {<<"fwkup", "wdt2">>, <<"iwkup", "wdt2">>}
    <3>1. \A s \in T : s.op = "wdt"
      BY <2>1, <2>9 DEF ConsoleGates, MemGates
    <3>2. /\ Plat(board) \in Free(T) /\ Stdio(board) \in Free(T) /\ PrintText \in Free(T)
          /\ Sdram(board) \in Free(T) /\ AfterSdram(board) \in Free(T)
      BY <2>9, <3>1, PartFree DEF PlatKinds, StdioKinds, SdramKinds, TailKinds
    <3>3. Without(ProgramOf(board), T)
      BY <3>2, PartsWithout DEF Free
    <3> QED  BY Zenon, <3>3, PartsTyped, WithoutIsGuarded
  <2>10. CASE board \notin Omap3Boards \cup {"omap4"}
    <3>1. T = {}
      BY <2>1, <2>10 DEF ConsoleGates, WatchdogGates, MemGates, IsOmap
    <3> QED  BY <2>3, <3>1
  <2>11. \/ T = {}
         \/ board \in Omap3Boards /\ g \in {<<"fwkup", "wdt2">>, <<"iwkup", "wdt2">>}
         \/ board = "omap3" /\ g \in {<<"fclk", "uart3">>, <<"iclk", "uart3">>}
         \/ board = "evm3530" /\ g \in {<<"fcore", "uart1">>, <<"icore", "uart1">>}
         \/ board = "omap4" /\ g \in {<<"l4per", "uart3">>, <<"memif", "emif1">>, <<"memif", "emif2">>}
         \/ board = "omap4" /\ g \in {<<"fwkup", "wdt2">>, <<"iwkup", "wdt2">>}
         \/ board \notin Omap3Boards \cup {"omap4"}
    BY <2>1 DEF ConsoleGates, WatchdogGates, MemGates
  <2> QED  BY <2>3, <2>4, <2>6, <2>7, <2>8, <2>9, <2>10, <2>11
<1>2. Apart(ProgramOf(board), OfKind("uart") \cup OfKind("print"), Starts("uart_reset"), WaitsFor("uart_reset"))
  <2> DEFINE T == OfKind("uart") \cup OfKind("print")
             A == Starts("uart_reset")
             B == WaitsFor("uart_reset")
  <2>1. \A s \in A : s.op = "uart"
    BY StartKinds
  <2>2. /\ Plat(board) \in Free(A) /\ PrintText \in Free(A) /\ Sdram(board) \in Free(A)
        /\ AfterSdram(board) \in Free(A)
    BY <2>1, PartFree DEF PlatKinds, SdramKinds, TailKinds
  <2>3. Free(A) \subseteq Settled(T, A, B)
    BY SettledJoined
  <2>4. Stdio(board) \in Settled(T, A, B)
    <3>1. CASE board \in Omap3Boards
      BY <3>1, ResetsAreOver DEF Stdio
    <3>2. CASE board = "omap4"
      BY Zenon, <2>3, <3>2, ResetsAreOver DEF Stdio
    <3>3. CASE board \notin Omap3Boards \cup {"omap4"}
      <4>1. "uart" \notin StdioKinds(board)
        BY <3>3 DEF StdioKinds
      <4> QED  BY Zenon, <2>1, <2>3, <4>1, PartFree
    <3> QED  BY <3>1, <3>2, <3>3
  <2> HIDE DEF T, A, B
  <2>5. Apart(ProgramOf(board), T, A, B)
    BY <2>2, <2>3, <2>4, PartsSettled
  <2> QED  BY <2>5 DEF T, A, B
<1>3. ASSUME IsOmap PROVE Guarded(ProgramOf(board), OfKind("wdt"), WaitsFor("wdt_awake"), {})
  <2> DEFINE T == OfKind("wdt")
             A == WaitsFor("wdt_awake")
  <2>1. \A s \in T : s.op = "wdt"
    BY KindOf
  <2>2. \A p \in Seq(Steps) : p \in Free({})
    BY DEF Free, Without
  <2>3. CASE board \in Omap3Boards
    <3>1. Omap3WatchdogClocks \in Kept(T, A, {})
      <4> DEFINE p == Omap3WatchdogClocks
      <4>1. Len(p) = 3 /\ p[3] = [op |-> "wait", event |-> "wdt_awake"]
        BY DEF Omap3WatchdogClocks, Assign, Wait
      <4>2. p \in Seq(Steps)
        BY Omap3WatchdogTyped, Kinds
      <4>3. Without(p, T)
        BY <2>1, Omap3WatchdogTyped, NoneOfKind
      <4> HIDE DEF p
      <4>4. p[3] \in Steps
        <5>1. 3 \in 1 .. Len(p)
          BY <4>1
        <5> QED  BY <4>2, <5>1, StepTyped
      <4>5. p[3] \in A
        BY <4>1, <4>4 DEF WaitsFor
      <4>6. Since(p, Len(p), A, {})
        BY <4>1, <4>5 DEF Since
      <4>7. p \in Free(T)
        BY <4>2, <4>3 DEF Free
      <4> QED  BY <4>6, <4>7, KeptJoined DEF p
    <3>2. /\ Omap3WatchdogStop \in Free({}) /\ Omap3Plls \in Free({}) /\ Omap3Gates \in Free({})
      BY <2>2, Omap3WatchdogTyped, Omap3PllsTyped, Omap3GatesTyped, Kinds
    <3>3. Plat(board) = Omap3WatchdogClocks \o Omap3WatchdogStop \o Omap3Plls \o Omap3Gates
      BY <2>3 DEF Plat, Omap3Plat
    <3> DEFINE G == Kept(T, A, {})
    <3>4. \A p \in G, q \in Free({}) : p \o q \in G
      BY KeptJoined
    <3>5. Omap3WatchdogClocks \in G
      BY <3>1
    <3> HIDE DEF G, T, A
    <3>6. Plat(board) \in G
      BY <3>2, <3>3, <3>4, <3>5
    <3>7. /\ Stdio(board) \in Free({}) /\ PrintText \in Free({}) /\ Sdram(board) \in Free({})
          /\ AfterSdram(board) \in Free({})
      BY Zenon, <2>2, PartsTyped
    <3>8. Guarded(ProgramOf(board), T, A, {})
      BY <3>6, <3>7, PartsKept DEF G
    <3> QED  BY <3>8 DEF T, A
  <2>4. CASE board = "omap4"
    <3>1. /\ Plat(board) \in Free(T) /\ Stdio(board) \in Free(T) /\ PrintText \in Free(T)
          /\ Sdram(board) \in Free(T) /\ AfterSdram(board) \in Free(T)
      BY <2>1, <2>4, PartFree DEF PlatKinds, StdioKinds, SdramKinds, TailKinds
    <3>2. Without(ProgramOf(board), T)
      BY <3>1, PartsWithout DEF Free
    <3> QED  BY Zenon, <3>2, PartsTyped, WithoutIsGuarded
  <2> QED  BY <1>3, <2>3, <2>4 DEF IsOmap
<1> QED  BY <1>1, <1>2, <1>3 DEF ClocksFirst

-----------------------------------------------------------------------------
(* The order of SDRAM commands *)

\* Two sendings before a command, in a concatenation.
LEMMA TwiceJoined ==
  ASSUME NEW p \in Seq(Steps), NEW q \in Seq(Steps), NEW T, NEW A, Twice(p, T, A), Twice(q, T, A)
  PROVE  Twice(p \o q, T, A)
<1> DEFINE a == Len(p)  b == Len(q)  r == p \o q
<1>1. /\ a \in Nat /\ b \in Nat /\ Len(r) = a + b
      /\ \A i \in 1 .. a : r[i] = p[i]
      /\ \A i \in 1 .. b : r[a + i] = q[i]
  BY Joined
<1>2. /\ \A i \in 1 .. a : p[i] \in T =>
           \E j, k \in 1 .. i - 1 : j # k /\ p[j] \in A /\ p[k] \in A
      /\ \A i \in 1 .. b : q[i] \in T =>
           \E j, k \in 1 .. i - 1 : j # k /\ q[j] \in A /\ q[k] \in A
  BY DEF Twice
<1> HIDE DEF a, b, r
<1>3. ASSUME NEW i \in 1 .. a + b, r[i] \in T
      PROVE  \E j, k \in 1 .. i - 1 : j # k /\ r[j] \in A /\ r[k] \in A
  <2>1. CASE i <= a
    <3>1. PICK j, k \in 1 .. i - 1 : j # k /\ p[j] \in A /\ p[k] \in A
      BY <1>1, <1>2, <1>3, <2>1
    <3>2. j \in 1 .. a /\ k \in 1 .. a
      BY <1>1, <2>1
    <3> QED  BY <1>1, <3>1, <3>2
  <2>2. CASE i > a
    <3>1. i - a \in 1 .. b /\ a + (i - a) = i
      BY <1>1, <2>2
    <3>2. q[i - a] \in T
      BY <1>1, <1>3, <3>1
    <3>3. PICK j, k \in 1 .. (i - a) - 1 : j # k /\ q[j] \in A /\ q[k] \in A
      BY <1>2, <3>1, <3>2
    <3>4. /\ j \in 1 .. b /\ k \in 1 .. b /\ a + j \in 1 .. i - 1 /\ a + k \in 1 .. i - 1
          /\ a + j # a + k
      BY <1>1, <3>1, <3>3
    <3>5. r[a + j] \in A /\ r[a + k] \in A
      BY <1>1, <3>3, <3>4
    <3> QED  BY <3>4, <3>5
  <2>3. i <= a \/ i > a
    BY <1>1
  <2> QED  BY <2>1, <2>2, <2>3
<1> QED  BY Zenon, <1>1, <1>3 DEF Twice, a, b, r

\* Programs that send every command after those it builds on.
Ordered ==
  {p \in Seq(Steps) :
     \A chip \in 0 .. 2, cmd \in Commands :
       /\ \A c \in Before(cmd) : Guarded(p, SendsCmd(chip, cmd), SendsCmd(chip, c), {})
       /\ "REF" \in Before(cmd) => Twice(p, SendsCmd(chip, cmd), SendsCmd(chip, "REF"))}

\* Ordered programs, joined, are ordered.
LEMMA OrderedJoined ==
  /\ \A p, q \in Ordered : p \o q \in Ordered
  /\ Free(OfKind("mem")) \subseteq Ordered
<1>1. ASSUME NEW p \in Ordered, NEW q \in Ordered PROVE p \o q \in Ordered
  BY GuardedJoined, TwiceJoined, Joined DEF Ordered
<1>2. ASSUME NEW p \in Free(OfKind("mem")) PROVE p \in Ordered
  <2>1. p \in Seq(Steps) /\ \A chip, cmd : Without(p, SendsCmd(chip, cmd))
    BY DEF Free, Without, SendsCmd, OfKind
  <2>2. \A T, A : Without(p, T) => Twice(p, T, A)
    BY DEF Without, Twice
  <2> QED  BY <2>1, <2>2, WithoutIsGuarded DEF Ordered
<1> QED  BY <1>1, <1>2

\* A program is ordered when each of its commands is.
LEMMA OrderedStepwise ==
  ASSUME NEW p \in Seq(Steps),
         \A i \in 1 .. Len(p) : p[i].op = "mem" =>
           /\ \A c \in Before(p[i].cmd) :
                \E j \in 1 .. i - 1 : p[j].op = "mem" /\ p[j].chip = p[i].chip /\ p[j].cmd = c
           /\ "REF" \in Before(p[i].cmd) =>
                \E j, k \in 1 .. i - 1 :
                  /\ j # k /\ p[j].op = "mem" /\ p[k].op = "mem"
                  /\ p[j].chip = p[i].chip /\ p[k].chip = p[i].chip
                  /\ p[j].cmd = "REF" /\ p[k].cmd = "REF"
  PROVE  p \in Ordered
<1> SUFFICES ASSUME NEW chip \in 0 .. 2, NEW cmd \in Commands
             PROVE  /\ \A c \in Before(cmd) : Guarded(p, SendsCmd(chip, cmd), SendsCmd(chip, c), {})
                    /\ "REF" \in Before(cmd) =>
                         Twice(p, SendsCmd(chip, cmd), SendsCmd(chip, "REF"))
  BY DEF Ordered
<1>1. Len(p) \in Nat /\ \A i \in 1 .. Len(p) : p[i] \in Steps
  BY StepTyped
<1>2. \A i \in 1 .. Len(p) : \A j \in 1 .. i - 1 : j \in 1 .. Len(p)
  BY <1>1
<1>3. ASSUME NEW c \in Before(cmd), NEW i \in 1 .. Len(p), p[i] \in SendsCmd(chip, cmd)
      PROVE  Since(p, i - 1, SendsCmd(chip, c), {})
  <2>1. p[i].op = "mem" /\ p[i].chip = chip /\ p[i].cmd = cmd
    BY <1>3 DEF SendsCmd
  <2>2. PICK j \in 1 .. i - 1 : p[j].op = "mem" /\ p[j].chip = chip /\ p[j].cmd = c
    BY Zenon, <2>1
  <2>3. p[j] \in SendsCmd(chip, c)
    BY <1>1, <1>2, <2>2 DEF SendsCmd
  <2> QED  BY <2>3 DEF Since
<1>4. ASSUME "REF" \in Before(cmd), NEW i \in 1 .. Len(p), p[i] \in SendsCmd(chip, cmd)
      PROVE  \E j, k \in 1 .. i - 1 :
               j # k /\ p[j] \in SendsCmd(chip, "REF") /\ p[k] \in SendsCmd(chip, "REF")
  <2>1. p[i].op = "mem" /\ p[i].chip = chip /\ p[i].cmd = cmd
    BY <1>4 DEF SendsCmd
  <2>2. PICK j, k \in 1 .. i - 1 :
          /\ j # k /\ p[j].op = "mem" /\ p[k].op = "mem"
          /\ p[j].chip = chip /\ p[k].chip = chip /\ p[j].cmd = "REF" /\ p[k].cmd = "REF"
    BY <1>4, <2>1
  <2>3. p[j] \in SendsCmd(chip, "REF") /\ p[k] \in SendsCmd(chip, "REF")
    BY <1>1, <1>2, <2>2 DEF SendsCmd
  <2> QED  BY <2>2, <2>3
<1> QED  BY <1>3, <1>4 DEF Guarded, Twice

\* The SDRAM commands of OMAP3 come in order.
LEMMA Omap3SdramOrdered ==
  ASSUME board \in Omap3Boards
  PROVE  Omap3Sdram \in Ordered
<1> DEFINE p == Omap3Sdram
           at(k, cmd) == p[k].op = "mem" /\ p[k].chip = 0 /\ p[k].cmd = cmd
<1>1. Len(p) = 9
  BY DEF Omap3Sdram, Mem, Wait, Delay, At91PeriphA, Pin
<1>2. p \in Seq(Steps)
  BY Omap3SdramTyped, Kinds
<1>3. /\ at(1, "reset") /\ p[2].op # "mem" /\ at(3, "config") /\ at(4, "NOP")
      /\ at(5, "PRE") /\ at(6, "REF") /\ at(7, "REF") /\ at(8, "MRS")
      /\ at(9, "DLL")
  BY DEF Omap3Sdram, Mem, Wait, Delay, At91PeriphA, Pin
<1>4. /\ Before("reset") = {}
      /\ Before("config") = {}
      /\ Before("NOP") = {"config"}
      /\ Before("PRE") = {"config"}
      /\ Before("REF") = {"config", "PRE"}
      /\ Before("MRS") = {"config", "PRE", "REF"}
      /\ Before("DLL") = {"MRS"}
  BY DEF Before, IsOmap, Omap3Boards, S3C24Boards, At91Boards
<1> HIDE DEF p
<1> SUFFICES p \in Ordered
  BY DEF p
<1> SUFFICES ASSUME NEW i \in 1 .. Len(p), p[i].op = "mem"
             PROVE  /\ \A c \in Before(p[i].cmd) :
                         \E j \in 1 .. i - 1 : p[j].op = "mem" /\ p[j].chip = p[i].chip /\ p[j].cmd = c
                    /\ "REF" \in Before(p[i].cmd) =>
                         \E j, k \in 1 .. i - 1 :
                           /\ j # k /\ p[j].op = "mem" /\ p[k].op = "mem"
                           /\ p[j].chip = p[i].chip /\ p[k].chip = p[i].chip
                           /\ p[j].cmd = "REF" /\ p[k].cmd = "REF"
  BY Zenon, <1>2, OrderedStepwise
<1>5. CASE i \in {1, 3}
  BY <1>3, <1>4, <1>5
<1>6. CASE i \in {4, 5}
  <2>1. {3} \subseteq 1 .. i - 1 /\ p[i].chip = 0 /\ Before(p[i].cmd) = {"config"}
    BY <1>3, <1>4, <1>6
  <2> QED  BY <1>3, <2>1
<1>7. CASE i \in {6, 7}
  <2>1. {3, 5} \subseteq 1 .. i - 1 /\ p[i].chip = 0 /\ Before(p[i].cmd) = {"config", "PRE"}
    BY <1>3, <1>4, <1>7
  <2> QED  BY <1>3, <2>1
<1>8. CASE i \in {8}
  <2>1. {3, 5, 6, 7} \subseteq 1 .. i - 1 /\ p[i].chip = 0 /\ Before(p[i].cmd) = {"config", "PRE", "REF"}
    BY <1>3, <1>4, <1>8
  <2> QED  BY <1>3, <2>1
<1>9. CASE i \in {9}
  <2>1. {8} \subseteq 1 .. i - 1 /\ p[i].chip = 0 /\ Before(p[i].cmd) = {"MRS"}
    BY <1>3, <1>4, <1>9
  <2> QED  BY <1>3, <2>1
<1> QED  BY <1>1, <1>3, <1>5, <1>6, <1>7, <1>8, <1>9

\* The SDRAM commands of each EMIF of OMAP4 come in order.
LEMMA Omap4EmifOrdered ==
  ASSUME NEW e \in {1, 2}, board = "omap4"
  PROVE  Omap4Emif(e) \in Ordered
<1> DEFINE p == Omap4Emif(e)
           at(k, cmd) == p[k].op = "mem" /\ p[k].chip = e /\ p[k].cmd = cmd
<1>1. Len(p) = 13
  BY DEF Omap4Emif, Mem, Wait, Delay, At91PeriphA, Pin
<1>2. p \in Seq(Steps)
  BY Omap4SdramTyped, Kinds
<1>3. /\ at(1, "config") /\ at(2, "MRR") /\ p[3].op # "mem" /\ at(4, "ZQ")
      /\ p[5].op # "mem" /\ at(6, "MR1") /\ at(7, "MR2") /\ at(8, "final")
      /\ at(9, "refresh") /\ at(10, "MR16") /\ at(11, "DLL") /\ p[12].op # "mem"
      /\ at(13, "power")
  BY DEF Omap4Emif, Mem, Wait, Delay, At91PeriphA, Pin
<1>4. /\ Before("config") = {}
      /\ Before("MRR") = {"config"}
      /\ Before("ZQ") = {"MRR"}
      /\ Before("MR1") = {"ZQ"}
      /\ Before("MR2") = {"ZQ"}
      /\ Before("final") = {"MR1", "MR2"}
      /\ Before("refresh") = {}
      /\ Before("MR16") = {}
      /\ Before("DLL") = {"final"}
      /\ Before("power") = {"refresh", "MR16", "DLL"}
  BY DEF Before, IsOmap, Omap3Boards, S3C24Boards, At91Boards
<1> HIDE DEF p
<1> SUFFICES p \in Ordered
  BY DEF p
<1> SUFFICES ASSUME NEW i \in 1 .. Len(p), p[i].op = "mem"
             PROVE  /\ \A c \in Before(p[i].cmd) :
                         \E j \in 1 .. i - 1 : p[j].op = "mem" /\ p[j].chip = p[i].chip /\ p[j].cmd = c
                    /\ "REF" \in Before(p[i].cmd) =>
                         \E j, k \in 1 .. i - 1 :
                           /\ j # k /\ p[j].op = "mem" /\ p[k].op = "mem"
                           /\ p[j].chip = p[i].chip /\ p[k].chip = p[i].chip
                           /\ p[j].cmd = "REF" /\ p[k].cmd = "REF"
  BY Zenon, <1>2, OrderedStepwise
<1>5. CASE i \in {1, 9, 10}
  BY <1>3, <1>4, <1>5
<1>6. CASE i \in {2}
  <2>1. {1} \subseteq 1 .. i - 1 /\ p[i].chip = e /\ Before(p[i].cmd) = {"config"}
    BY <1>3, <1>4, <1>6
  <2> QED  BY <1>3, <2>1
<1>7. CASE i \in {4}
  <2>1. {2} \subseteq 1 .. i - 1 /\ p[i].chip = e /\ Before(p[i].cmd) = {"MRR"}
    BY <1>3, <1>4, <1>7
  <2> QED  BY <1>3, <2>1
<1>8. CASE i \in {6, 7}
  <2>1. {4} \subseteq 1 .. i - 1 /\ p[i].chip = e /\ Before(p[i].cmd) = {"ZQ"}
    BY <1>3, <1>4, <1>8
  <2> QED  BY <1>3, <2>1
<1>9. CASE i \in {8}
  <2>1. {6, 7} \subseteq 1 .. i - 1 /\ p[i].chip = e /\ Before(p[i].cmd) = {"MR1", "MR2"}
    BY <1>3, <1>4, <1>9
  <2> QED  BY <1>3, <2>1
<1>10. CASE i \in {11}
  <2>1. {8} \subseteq 1 .. i - 1 /\ p[i].chip = e /\ Before(p[i].cmd) = {"final"}
    BY <1>3, <1>4, <1>10
  <2> QED  BY <1>3, <2>1
<1>11. CASE i \in {13}
  <2>1. {9, 10, 11} \subseteq 1 .. i - 1 /\ p[i].chip = e /\ Before(p[i].cmd) = {"refresh", "MR16", "DLL"}
    BY <1>3, <1>4, <1>11
  <2> QED  BY <1>3, <2>1
<1> QED  BY <1>1, <1>3, <1>5, <1>6, <1>7, <1>8, <1>9, <1>10, <1>11

\* The SDRAM commands of the S3C24 chips come in order.
LEMMA S3C24xSdramOrdered ==
  ASSUME board \in S3C24Boards
  PROVE  S3C24xSdram \in Ordered
<1> DEFINE p == S3C24xSdram
           at(k, cmd) == p[k].op = "mem" /\ p[k].chip = 0 /\ p[k].cmd = cmd
<1>1. Len(p) = 4
  BY DEF S3C24xSdram, Mem, Wait, Delay, At91PeriphA, Pin
<1>2. p \in Seq(Steps)
  <2>1. "s3c2410" \in S3C24Boards
    BY DEF S3C24Boards
  <2> QED  BY <2>1, S3C24xTyped, Kinds
<1>3. /\ at(1, "config") /\ at(2, "refresh") /\ at(3, "size") /\ at(4, "MRS")
  BY DEF S3C24xSdram, Mem, Wait, Delay, At91PeriphA, Pin
<1>4. /\ Before("config") = {}
      /\ Before("refresh") = {}
      /\ Before("size") = {"config"}
      /\ Before("MRS") = {"config", "refresh", "size"}
  BY DEF Before
<1> HIDE DEF p
<1> SUFFICES p \in Ordered
  BY DEF p
<1> SUFFICES ASSUME NEW i \in 1 .. Len(p), p[i].op = "mem"
             PROVE  /\ \A c \in Before(p[i].cmd) :
                         \E j \in 1 .. i - 1 : p[j].op = "mem" /\ p[j].chip = p[i].chip /\ p[j].cmd = c
                    /\ "REF" \in Before(p[i].cmd) =>
                         \E j, k \in 1 .. i - 1 :
                           /\ j # k /\ p[j].op = "mem" /\ p[k].op = "mem"
                           /\ p[j].chip = p[i].chip /\ p[k].chip = p[i].chip
                           /\ p[j].cmd = "REF" /\ p[k].cmd = "REF"
  BY Zenon, <1>2, OrderedStepwise
<1>5. CASE i \in {1, 2}
  BY <1>3, <1>4, <1>5
<1>6. CASE i \in {3}
  <2>1. {1} \subseteq 1 .. i - 1 /\ p[i].chip = 0 /\ Before(p[i].cmd) = {"config"}
    BY <1>3, <1>4, <1>6
  <2> QED  BY <1>3, <2>1
<1>7. CASE i \in {4}
  <2>1. {1, 2, 3} \subseteq 1 .. i - 1 /\ p[i].chip = 0 /\ Before(p[i].cmd) = {"config", "refresh", "size"}
    BY <1>3, <1>4, <1>7
  <2> QED  BY <1>3, <2>1
<1> QED  BY <1>1, <1>3, <1>5, <1>6, <1>7

\* The SDRAM commands of the S3C6410 come in order.
LEMMA S3C64xSdramOrdered ==
  ASSUME board = "s3c6410"
  PROVE  S3C64xSdram \in Ordered
<1> DEFINE p == S3C64xSdram
           at(k, cmd) == p[k].op = "mem" /\ p[k].chip = 0 /\ p[k].cmd = cmd
<1>1. Len(p) = 9
  BY DEF S3C64xSdram, Mem, Wait, Delay, At91PeriphA, Pin
<1>2. p \in Seq(Steps)
  BY S3C64xTyped, Kinds
<1>3. /\ at(1, "config") /\ at(2, "NOP") /\ at(3, "PRE") /\ at(4, "REF")
      /\ at(5, "REF") /\ at(6, "MRS") /\ at(7, "EMRS") /\ at(8, "go")
      /\ p[9].op # "mem"
  BY DEF S3C64xSdram, Mem, Wait, Delay, At91PeriphA, Pin
<1>4. /\ Before("config") = {}
      /\ Before("NOP") = {"config"}
      /\ Before("PRE") = {"config"}
      /\ Before("REF") = {"config", "PRE"}
      /\ Before("MRS") = {"config", "PRE", "REF"}
      /\ Before("EMRS") = {"config", "PRE", "REF"}
      /\ Before("go") = {"MRS"}
  BY DEF Before, IsOmap, Omap3Boards, S3C24Boards, At91Boards
<1> HIDE DEF p
<1> SUFFICES p \in Ordered
  BY DEF p
<1> SUFFICES ASSUME NEW i \in 1 .. Len(p), p[i].op = "mem"
             PROVE  /\ \A c \in Before(p[i].cmd) :
                         \E j \in 1 .. i - 1 : p[j].op = "mem" /\ p[j].chip = p[i].chip /\ p[j].cmd = c
                    /\ "REF" \in Before(p[i].cmd) =>
                         \E j, k \in 1 .. i - 1 :
                           /\ j # k /\ p[j].op = "mem" /\ p[k].op = "mem"
                           /\ p[j].chip = p[i].chip /\ p[k].chip = p[i].chip
                           /\ p[j].cmd = "REF" /\ p[k].cmd = "REF"
  BY Zenon, <1>2, OrderedStepwise
<1>5. CASE i \in {1}
  BY <1>3, <1>4, <1>5
<1>6. CASE i \in {2, 3}
  <2>1. {1} \subseteq 1 .. i - 1 /\ p[i].chip = 0 /\ Before(p[i].cmd) = {"config"}
    BY <1>3, <1>4, <1>6
  <2> QED  BY <1>3, <2>1
<1>7. CASE i \in {4, 5}
  <2>1. {1, 3} \subseteq 1 .. i - 1 /\ p[i].chip = 0 /\ Before(p[i].cmd) = {"config", "PRE"}
    BY <1>3, <1>4, <1>7
  <2> QED  BY <1>3, <2>1
<1>8. CASE i \in {6, 7}
  <2>1. {1, 3, 4, 5} \subseteq 1 .. i - 1 /\ p[i].chip = 0 /\ Before(p[i].cmd) = {"config", "PRE", "REF"}
    BY <1>3, <1>4, <1>8
  <2> QED  BY <1>3, <2>1
<1>9. CASE i \in {8}
  <2>1. {6} \subseteq 1 .. i - 1 /\ p[i].chip = 0 /\ Before(p[i].cmd) = {"MRS"}
    BY <1>3, <1>4, <1>9
  <2> QED  BY <1>3, <2>1
<1> QED  BY <1>1, <1>3, <1>5, <1>6, <1>7, <1>8, <1>9

\* The SDRAM commands of at91 come in order.
LEMMA At91SdramOrdered ==
  ASSUME NEW chip \in {9261, 9263}, board \in At91Boards
  PROVE  At91Sdram(chip) \in Ordered
<1> DEFINE p == At91Sdram(chip)
           at(k, cmd) == p[k].op = "mem" /\ p[k].chip = 0 /\ p[k].cmd = cmd
<1>1. Len(p) = 15
  BY DEF At91Sdram, Mem, Wait, Delay, At91PeriphA, Pin
<1>2. p \in Seq(Steps)
  BY At91Typed, Kinds
<1>3. /\ p[1].op # "mem" /\ at(2, "config") /\ at(3, "PRE") /\ at(4, "REF")
      /\ at(5, "REF") /\ at(6, "REF") /\ at(7, "REF") /\ at(8, "REF")
      /\ at(9, "REF") /\ at(10, "REF") /\ at(11, "REF") /\ at(12, "REF")
      /\ at(13, "MRS") /\ at(14, "go") /\ at(15, "refresh")
  BY DEF At91Sdram, Mem, Wait, Delay, At91PeriphA, Pin
<1>4. /\ Before("config") = {}
      /\ Before("PRE") = {"config"}
      /\ Before("REF") = {"config", "PRE"}
      /\ Before("MRS") = {"config", "PRE", "REF"}
      /\ Before("go") = {"MRS"}
      /\ Before("refresh") = {}
  BY DEF Before, IsOmap, Omap3Boards, S3C24Boards, At91Boards
<1> HIDE DEF p
<1> SUFFICES p \in Ordered
  BY DEF p
<1> SUFFICES ASSUME NEW i \in 1 .. Len(p), p[i].op = "mem"
             PROVE  /\ \A c \in Before(p[i].cmd) :
                         \E j \in 1 .. i - 1 : p[j].op = "mem" /\ p[j].chip = p[i].chip /\ p[j].cmd = c
                    /\ "REF" \in Before(p[i].cmd) =>
                         \E j, k \in 1 .. i - 1 :
                           /\ j # k /\ p[j].op = "mem" /\ p[k].op = "mem"
                           /\ p[j].chip = p[i].chip /\ p[k].chip = p[i].chip
                           /\ p[j].cmd = "REF" /\ p[k].cmd = "REF"
  BY <1>2, OrderedStepwise
<1>5. CASE i \in {2, 15}
  BY <1>3, <1>4, <1>5
<1>6. CASE i \in {3}
  <2>1. {2} \subseteq 1 .. i - 1 /\ p[i].chip = 0 /\ Before(p[i].cmd) = {"config"}
    BY <1>3, <1>4, <1>6
  <2> QED  BY <1>3, <2>1
<1>7. CASE i \in {4, 5, 6, 7, 8, 9, 10, 11, 12}
  <2>1. {2, 3} \subseteq 1 .. i - 1 /\ p[i].chip = 0 /\ Before(p[i].cmd) = {"config", "PRE"}
    BY <1>3, <1>4, <1>7
  <2> QED  BY <1>3, <2>1
<1>8. CASE i \in {13}
  <2>1. {2, 3, 4, 5} \subseteq 1 .. i - 1 /\ p[i].chip = 0 /\ Before(p[i].cmd) = {"config", "PRE", "REF"}
    BY <1>3, <1>4, <1>8
  <2> QED  BY <1>3, <2>1
<1>9. CASE i \in {14}
  <2>1. {13} \subseteq 1 .. i - 1 /\ p[i].chip = 0 /\ Before(p[i].cmd) = {"MRS"}
    BY <1>3, <1>4, <1>9
  <2> QED  BY <1>3, <2>1
<1> QED  BY <1>1, <1>3, <1>5, <1>6, <1>7, <1>8, <1>9

\* Every program sends its commands in order.
LEMMA AllOrdered == ASSUME board \in Boards PROVE ProgramOf(board) \in Ordered
<1> USE DEF Boards, Omap3Boards, S3C24Boards, At91Boards
<1>1. (\A p, q \in Ordered : p \o q \in Ordered) /\ Free(OfKind("mem")) \subseteq Ordered
  BY OrderedJoined
<1>2. \A s \in OfKind("mem") : s.op = "mem"
  BY KindOf
<1>3. /\ Plat(board) \in Ordered /\ Stdio(board) \in Ordered /\ PrintText \in Ordered
      /\ AfterSdram(board) \in Ordered
  BY <1>1, <1>2, PartFree DEF PlatKinds, StdioKinds, TailKinds
<1>4. Sdram(board) \in Ordered
  <2>1. CASE board \in Omap3Boards
    BY <2>1, Omap3SdramOrdered DEF Sdram
  <2>2. CASE board = "omap4"
    <3>1. Omap4Emif(1) \in Ordered /\ Omap4Emif(2) \in Ordered
      BY <2>2, Omap4EmifOrdered
    <3> QED  BY <1>1, <2>2, <3>1 DEF Sdram, Omap4Sdram
  <2>3. CASE board \in S3C24Boards
    BY <2>3, S3C24xSdramOrdered DEF Sdram
  <2>4. CASE board = "s3c6410"
    BY <2>4, S3C64xSdramOrdered DEF Sdram
  <2>5. CASE board \in At91Boards
    <3>1. At91Chip(board) \in {9261, 9263}
      BY DEF At91Chip
    <3> QED  BY <2>5, <3>1, At91SdramOrdered DEF Sdram
  <2>6. CASE board \in {"armvirt", "e310"}
    BY <1>1, <1>2, <2>6, PartFree DEF SdramKinds
  <2> QED  BY <2>1, <2>2, <2>3, <2>4, <2>5, <2>6
<1>5. ProgramOf(board) = Plat(board) \o Stdio(board) \o PrintText \o Sdram(board) \o AfterSdram(board)
  BY Zenon, PartsTyped
<1> HIDE DEF Boards, Omap3Boards, S3C24Boards, At91Boards
<1>6. Plat(board) \o Stdio(board) \o PrintText \in Ordered
  BY <1>1, <1>3
<1> QED  BY <1>1, <1>3, <1>4, <1>5, <1>6

\* What one step starts is waited for by another, with none of T between.
LEMMA SettledByOne ==
  ASSUME NEW p \in Seq(Steps), NEW T, NEW A, NEW B,
         NEW k \in 1 .. Len(p), NEW m \in k + 1 .. Len(p),
         \A i \in 1 .. Len(p) : i # k => p[i] \notin A,
         \A i \in k + 1 .. m : p[i] \notin T,
         p[m] \in B
  PROVE  p \in Settled(T, A, B)
<1> DEFINE n == Len(p)
<1>1. n \in Nat /\ m \in 1 .. n
  OBVIOUS
<1>2. ASSUME NEW i \in 1 .. n, p[i] \in T PROVE ~ Since(p, i - 1, A, B)
  <2>1. CASE i <= k
    <3>1. \A j \in 1 .. i - 1 : j \in 1 .. n /\ j # k
      BY <2>1
    <3> QED  BY <3>1 DEF Since
  <2>2. CASE i > m
    <3>1. \A j \in 1 .. i - 1 : p[j] \in A => m \in j + 1 .. i - 1
      BY <2>2
    <3> QED  BY <3>1 DEF Since
  <2>3. i <= k \/ i > m
    BY <1>2
  <2> QED  BY <2>1, <2>2, <2>3
<1>3. ~ Since(p, n, A, B)
  <2>1. \A j \in 1 .. n : p[j] \in A => m \in j + 1 .. n
    OBVIOUS
  <2> QED  BY <2>1 DEF Since
<1> QED  BY <1>2, <1>3 DEF Settled, Apart

\* A program that does not use what it starts, but ends with what settles it.
LEMMA SettledBehind ==
  ASSUME NEW T, NEW A, NEW B, NEW p \in Free(T), NEW q \in Free(T), q \in Free(A), ~ Without(q, B)
  PROVE  p \o q \in Settled(T, A, B)
<1>1. p \in Seq(Steps) /\ q \in Seq(Steps) /\ Without(q, A)
  BY DEF Free
<1>2. ~ Since(p \o q, Len(p \o q), A, B)
  BY Zenon, <1>1, NotSinceJoined, WithoutIsNotSince
<1>3. p \o q \in Free(T)
  BY FreeJoined
<1>4. p \o q \in Seq(Steps) /\ Apart(p \o q, T, A, B)
  BY Zenon, <1>3, WithoutIsGuarded DEF Free
<1> QED  BY <1>2, <1>4 DEF Settled

-----------------------------------------------------------------------------
(* The memory controller is waited for *)

\* Which commands keep the memory controller busy, on which board.
LEMMA MemStartsOnly ==
  ASSUME NEW e \in MemEvents, NEW s \in Starts(e)
  PROVE  /\ s.op = "mem"
         /\ board \in Omap3Boards => s.cmd = "reset" /\ e = "mem_reset"
         /\ board = "omap4" => \/ s.cmd = "reset" /\ e = "mem_reset"
                               \/ s.cmd = "config" /\ e = "mem_init"
                               \/ s.cmd = "DLL" /\ e = "mem_DLL"
         /\ board = "s3c6410" => \/ s.cmd = "reset" /\ e = "mem_reset"
                                 \/ s.cmd = "go" /\ e = "mem_ready"
         /\ board \in S3C24Boards \cup At91Boards => s.cmd = "reset"
<1>1. s.op = "mem"
  BY StartKinds
<1>2. e \in MemStarts(s.cmd)
  BY <1>1 DEF Starts, MemEvents
<1> QED  BY <1>1, <1>2 DEF MemStarts, Omap3Boards, S3C24Boards, At91Boards

\* OMAP3 waits for the reset of its memory controller.
LEMMA Omap3SdramSettled ==
  ASSUME board \in Omap3Boards, NEW e \in MemEvents, NEW T, \A s \in T : s.op = "mem"
  PROVE  Omap3Sdram \in Settled(T, Starts(e), WaitsFor(e))
<1> DEFINE p == Omap3Sdram
<1>1. /\ Len(p) = 9 /\ p[2] = [op |-> "wait", event |-> "mem_reset"]
      /\ \A i \in 3 .. 9 : p[i].cmd # "reset"
  BY DEF Omap3Sdram, Mem, Wait
<1>2. p \in Seq(Steps)
  BY Omap3SdramTyped, Kinds
<1> SUFFICES p \in Settled(T, Starts(e), WaitsFor(e))
  OBVIOUS
<1> HIDE DEF p
<1>3. 2 \in 1 .. Len(p)
  BY <1>1
<1>4. p[2] \in Steps
  BY <1>2, <1>3, StepTyped
<1>5. p[2] \notin T /\ p[2] \notin Starts(e)
  BY <1>1, MemStartsOnly
<1>6. \A i \in 3 .. 9 : p[i] \notin Starts(e)
  BY <1>1, MemStartsOnly
<1>7. CASE e = "mem_reset"
  <2>1. p[2] \in WaitsFor(e)
    BY <1>1, <1>4, <1>7 DEF WaitsFor
  <2>2. /\ 1 \in 1 .. Len(p) /\ 2 \in 1 + 1 .. Len(p)
        /\ \A i \in 1 .. Len(p) : i # 1 => p[i] \notin Starts(e)
        /\ \A i \in 1 + 1 .. 2 : p[i] \notin T
    BY <1>1, <1>5, <1>6
  <2> QED  BY <1>2, <2>1, <2>2, SettledByOne
<1>8. CASE e # "mem_reset"
  <2>1. Starts(e) = {}
    BY <1>8, MemStartsOnly
  <2>2. p \in Free(Starts(e))
    BY <1>2, <2>1 DEF Free, Without
  <2> QED  BY <2>2, SettledJoined
<1> QED  BY <1>7, <1>8

\* OMAP4 waits for each EMIF before it goes on.
LEMMA Omap4EmifSettled ==
  ASSUME board = "omap4", NEW chip \in {1, 2}, NEW e \in MemEvents,
         NEW T, \A s \in T : s.op = "mem" /\ s.cmd # "MRR"
  PROVE  Omap4Emif(chip) \in Settled(T, Starts(e), WaitsFor(e))
<1> DEFINE p == Omap4Emif(chip)
<1>1. /\ Len(p) = 13 /\ p[1].cmd = "config" /\ p[2].cmd = "MRR" /\ p[11].cmd = "DLL"
      /\ p[3] = [op |-> "wait", event |-> "mem_init"]
      /\ p[5].op = "delay"
      /\ p[12] = [op |-> "wait", event |-> "mem_DLL"]
      /\ \A i \in {2, 4, 6, 7, 8, 9, 10, 13} : p[i].cmd \notin {"reset", "config", "DLL"}
  BY DEF Omap4Emif, Mem, Wait, Delay
<1>2. p \in Seq(Steps)
  BY Omap4SdramTyped, Kinds
<1> SUFFICES p \in Settled(T, Starts(e), WaitsFor(e))
  OBVIOUS
<1> HIDE DEF p
<1>3. 3 \in 1 .. Len(p) /\ 12 \in 1 .. Len(p)
  BY <1>1
<1>4. p[3] \in Steps /\ p[12] \in Steps
  BY <1>2, <1>3, StepTyped
<1>5. p[2] \notin T /\ p[3] \notin T /\ p[12] \notin T
  BY <1>1
<1>6. \A i \in 1 .. 13 : i \notin {1, 11} => p[i] \notin Starts(e)
  BY <1>1, MemStartsOnly
<1>7. CASE e = "mem_init"
  <2>1. p[3] \in WaitsFor(e)
    BY <1>1, <1>4, <1>7 DEF WaitsFor
  <2>2. p[11] \notin Starts(e)
    BY <1>1, <1>7, MemStartsOnly
  <2>3. /\ 1 \in 1 .. Len(p) /\ 3 \in 1 + 1 .. Len(p)
        /\ \A i \in 1 .. Len(p) : i # 1 => p[i] \notin Starts(e)
        /\ \A i \in 1 + 1 .. 3 : p[i] \notin T
    BY <1>1, <1>5, <1>6, <2>2
  <2> QED  BY <1>2, <2>1, <2>3, SettledByOne
<1>8. CASE e = "mem_DLL"
  <2>1. p[12] \in WaitsFor(e)
    BY <1>1, <1>4, <1>8 DEF WaitsFor
  <2>2. p[1] \notin Starts(e)
    BY <1>1, <1>8, MemStartsOnly
  <2>3. /\ 11 \in 1 .. Len(p) /\ 12 \in 11 + 1 .. Len(p)
        /\ \A i \in 1 .. Len(p) : i # 11 => p[i] \notin Starts(e)
        /\ \A i \in 11 + 1 .. 12 : p[i] \notin T
    BY <1>1, <1>5, <1>6, <2>2
  <2> QED  BY <1>2, <2>1, <2>3, SettledByOne
<1>9. CASE e \notin {"mem_init", "mem_DLL"}
  <2>1. p[1] \notin Starts(e) /\ p[11] \notin Starts(e)
    BY <1>1, <1>9, MemStartsOnly
  <2>2. p \in Free(Starts(e))
    BY Zenon, <1>1, <1>2, <1>6, <2>1 DEF Free, Without
  <2> QED  BY <2>2, SettledJoined
<1> QED  BY <1>7, <1>8, <1>9

\* The S3C6410 waits until its memory controller is ready.
LEMMA S3C64xSdramSettled ==
  ASSUME board = "s3c6410", NEW e \in MemEvents, NEW T, \A s \in T : s.op = "mem"
  PROVE  S3C64xSdram \in Settled(T, Starts(e), WaitsFor(e))
<1> DEFINE p == S3C64xSdram
<1>1. /\ Len(p) = 9 /\ p[9] = [op |-> "wait", event |-> "mem_ready"]
      /\ p[8].cmd = "go" /\ \A i \in 1 .. 7 : p[i].cmd \notin {"reset", "go"}
  BY DEF S3C64xSdram, Mem, Wait
<1>2. p \in Seq(Steps)
  BY S3C64xTyped, Kinds
<1> SUFFICES p \in Settled(T, Starts(e), WaitsFor(e))
  OBVIOUS
<1> HIDE DEF p
<1>3. 9 \in 1 .. Len(p)
  BY <1>1
<1>4. p[9] \in Steps
  BY <1>2, <1>3, StepTyped
<1>5. p[9] \notin T /\ p[9] \notin Starts(e)
  BY <1>1, MemStartsOnly
<1>6. \A i \in 1 .. 7 : p[i] \notin Starts(e)
  BY <1>1, MemStartsOnly
<1>7. CASE e = "mem_ready"
  <2>1. p[9] \in WaitsFor(e)
    BY <1>1, <1>4, <1>7 DEF WaitsFor
  <2>2. /\ 8 \in 1 .. Len(p) /\ 9 \in 8 + 1 .. Len(p)
        /\ \A i \in 1 .. Len(p) : i # 8 => p[i] \notin Starts(e)
        /\ \A i \in 8 + 1 .. 9 : p[i] \notin T
    BY <1>1, <1>5, <1>6
  <2> QED  BY <1>2, <2>1, <2>2, SettledByOne
<1>8. CASE e # "mem_ready"
  <2>1. p[8] \notin Starts(e)
    BY <1>1, <1>8, MemStartsOnly
  <2>2. \A i \in 1 .. 9 : p[i] \notin Starts(e)
    <3>1. \A i \in 1 .. 9 : i \in 1 .. 7 \/ i = 8 \/ i = 9
      OBVIOUS
    <3> QED  BY <1>5, <1>6, <2>1, <3>1
  <2>3. p \in Free(Starts(e))
    BY Zenon, <1>1, <1>2, <2>2 DEF Free, Without
  <2> QED  BY <2>3, SettledJoined
<1> QED  BY <1>7, <1>8

\* The S3C24 and at91 chips start nothing they would have to wait for.
LEMMA OtherSdramSettled ==
  ASSUME NEW e \in MemEvents
  PROVE  /\ board \in S3C24Boards => S3C24xSdram \in Free(Starts(e))
         /\ board \in At91Boards => At91Sdram(At91Chip(board)) \in Free(Starts(e))
<1>1. ASSUME board \in S3C24Boards PROVE S3C24xSdram \in Free(Starts(e))
  <2> DEFINE p == S3C24xSdram
  <2>1. Len(p) = 4 /\ \A i \in 1 .. 4 : p[i].cmd # "reset"
    BY DEF S3C24xSdram, Mem
  <2>2. p \in Seq(Steps)
    BY <1>1, S3C24xTyped, Kinds
  <2> HIDE DEF p
  <2>3. Without(p, Starts(e))
    BY <1>1, <2>1, MemStartsOnly DEF Without
  <2> QED  BY <2>2, <2>3 DEF Free, p
<1>2. ASSUME board \in At91Boards PROVE At91Sdram(At91Chip(board)) \in Free(Starts(e))
  <2> DEFINE p == At91Sdram(At91Chip(board))
  <2>1. Len(p) = 15 /\ p[1].op = "pin" /\ \A i \in 2 .. 15 : p[i].cmd # "reset"
    BY DEF At91Sdram, Mem, At91PeriphA, Pin
  <2>2. p \in Seq(Steps)
    <3>1. At91Chip(board) \in {9261, 9263}
      BY DEF At91Chip
    <3> QED  BY <3>1, At91Typed, Kinds
  <2> HIDE DEF p
  <2>3. Without(p, Starts(e))
    BY <1>2, <2>1, MemStartsOnly DEF Without
  <2> QED  BY <2>2, <2>3 DEF Free, p
<1> QED  BY <1>1, <1>2

\* On no board is a command sent to a controller that is busy.
LEMMA AllMemSettled ==
  ASSUME board \in Boards, NEW e \in MemEvents
  PROVE  Apart(ProgramOf(board), {s \in Steps : s.op = "mem" /\ s.cmd # "MRR"}, Starts(e), WaitsFor(e))
<1> DEFINE T == {s \in Steps : s.op = "mem" /\ s.cmd # "MRR"}
           A == Starts(e)
           B == WaitsFor(e)
<1>1. \A s \in T : s.op = "mem" /\ s.cmd # "MRR"
  OBVIOUS
<1>2. \A s \in A : s.op = "mem"
  BY StartKinds
<1>3. (\A p, q \in Settled(T, A, B) : p \o q \in Settled(T, A, B)) /\ Free(A) \subseteq Settled(T, A, B)
  BY Zenon, SettledJoined
<1>4. /\ Plat(board) \in Free(A) /\ Stdio(board) \in Free(A) /\ PrintText \in Free(A)
      /\ AfterSdram(board) \in Free(A)
  BY <1>2, PartFree DEF PlatKinds, StdioKinds, TailKinds
<1> HIDE DEF T, B
<1>5. Sdram(board) \in Settled(T, A, B)
  <2> USE DEF Boards, Omap3Boards, S3C24Boards, At91Boards
  <2>1. CASE board \in Omap3Boards
    BY <1>1, <2>1, Omap3SdramSettled DEF Sdram, B
  <2>2. CASE board = "omap4"
    <3>1. Omap4Emif(1) \in Settled(T, A, B) /\ Omap4Emif(2) \in Settled(T, A, B)
      BY <1>1, <2>2, Omap4EmifSettled DEF B
    <3> QED  BY <1>3, <2>2, <3>1 DEF Sdram, Omap4Sdram
  <2>3. CASE board \in S3C24Boards \cup At91Boards
    BY <1>3, <2>3, OtherSdramSettled DEF Sdram
  <2>4. CASE board = "s3c6410"
    BY <1>1, <2>4, S3C64xSdramSettled DEF Sdram, B
  <2>5. CASE board \in {"armvirt", "e310"}
    BY <1>2, <1>3, <2>5, PartFree DEF SdramKinds
  <2> QED  BY <2>1, <2>2, <2>3, <2>4, <2>5
<1> HIDE DEF A
<1>6. Apart(ProgramOf(board), T, A, B)
  BY <1>3, <1>4, <1>5, PartsSettled
<1> QED  BY <1>6 DEF T, A, B

-----------------------------------------------------------------------------
(* The PLL that clocks the memory has locked *)

\* What kind of step asks a PLL to lock.
LEMMA LockKinds ==
  /\ \A q : \A s \in LocksPll(q) : s.op = "lock" /\ s.pll = q
  /\ \A K, p : "lock" \notin K /\ p \in Seq(StepsOf(K)) => \A q : p \in Free(LocksPll(q))
<1>1. \A q : \A s \in LocksPll(q) : s.op = "lock" /\ s.pll = q
  BY DEF LocksPll
<1>2. ASSUME NEW K, NEW p, "lock" \notin K, p \in Seq(StepsOf(K)), NEW q PROVE p \in Free(LocksPll(q))
  BY <1>1, <1>2, FreeKind
<1> QED  BY <1>1, <1>2

\* One step that settles a PLL.
LEMMA SettlingStep ==
  ASSUME NEW q, NEW s \in Settles(q), s.op # "lock"
  PROVE  /\ <<s>> \in Free(LocksPll(q)) /\ ~ Without(<<s>>, Settles(q))
         /\ s.op # "mem" => <<s>> \in Free(OfKind("mem"))
<1>1. s \in Steps
  BY DEF Settles
<1>2. s \notin LocksPll(q) /\ (s.op # "mem" => s \notin OfKind("mem"))
  BY LockKinds, KindOf
<1>3. <<s>> \in Free(LocksPll(q)) /\ (s.op # "mem" => <<s>> \in Free(OfKind("mem")))
  BY <1>1, <1>2, FreeStep
<1>4. 1 \in 1 .. Len(<<s>>) /\ <<s>>[1] \in Settles(q)
  OBVIOUS
<1> QED  BY <1>3, <1>4 DEF Without

\* uart_init() of OMAP3 ends with a delay, and locks neither PLL.
LEMMA Omap3UartLocks ==
  ASSUME NEW index \in {0, 2}, NEW q \in {"core", "mpll"}
  PROVE  /\ Omap3Uart(index) \in Free(LocksPll(q)) /\ Omap3Uart(index) \in Free(OfKind("mem"))
         /\ ~ Without(Omap3Uart(index), Settles(q))
<1> DEFINE F == Free(LocksPll(q))
           M == Free(OfKind("mem"))
<1>1. \A x, y \in F : x \o y \in F
  BY FreeJoined
<1>2. Omap3UartClock \in F
  <2> DEFINE p == Omap3UartClock
  <2>1. /\ Len(p) = 3 /\ p[1].op = "set" /\ p[2].op = "set" /\ p[3].pll = "per"
    BY DEF Omap3UartClock, Set, Lock
  <2>2. p \in Seq(Steps)
    BY Omap3UartPartsTyped, Kinds
  <2> HIDE DEF p
  <2>3. Without(p, LocksPll(q))
    BY <2>1, LockKinds DEF Without
  <2> QED  BY <2>2, <2>3 DEF p, Free
<1>3. /\ Omap3UartGates(index) \in F /\ Omap3UartReset \in F /\ Omap3UartMode \in F
  <2>1. /\ Omap3UartGates(index) \in Seq(StepsOf({"read", "write"}))
        /\ Omap3UartReset \in Seq(StepsOf({"uart", "wait"}))
        /\ Omap3UartMode \in Seq(StepsOf({"uart", "read", "write"}))
    BY Omap3GatesTyped, Omap3UartPartsTyped
  <2>2. \A s \in LocksPll(q) : s.op = "lock"
    BY LockKinds
  <2>3. Omap3UartGates(index) \in F
    BY <2>1, <2>2, FreeKind
  <2>4. Omap3UartReset \in F
    BY <2>1, <2>2, FreeKind
  <2>5. Omap3UartMode \in F
    BY <2>1, <2>2, FreeKind
  <2> QED  BY <2>3, <2>4, <2>5
<1>4. Omap3UartSettle \in F /\ ~ Without(Omap3UartSettle, Settles(q))
  <2>1. [op |-> "delay"] \in Steps
    BY DEF Steps
  <2>2. [op |-> "delay"] \in Settles(q)
    BY <2>1 DEF Settles
  <2> QED  BY <2>2, SettlingStep DEF Omap3UartSettle, Delay
<1> DEFINE x == Omap3UartClock \o Omap3UartGates(index) \o Omap3UartReset \o Omap3UartMode
<1>5. Omap3Uart(index) = x \o Omap3UartSettle
  BY DEF Omap3Uart
<1>6. Omap3Uart(index) \in M
  <2>1. \A s \in OfKind("mem") : s.op \notin {"set", "lock", "read", "write", "uart", "wait", "delay"}
    BY KindOf
  <2> QED  BY <2>1, Omap3UartTyped, FreeKind
<1> HIDE DEF F
<1>7. x \in F
  BY <1>1, <1>2, <1>3
<1> HIDE DEF x
<1>8. x \o Omap3UartSettle \in F
  BY <1>1, <1>4, <1>7
<1>9. ~ Without(x \o Omap3UartSettle, Settles(q))
  <2>1. x \in Seq(Steps) /\ Omap3UartSettle \in Seq(Steps)
    BY <1>4, <1>7 DEF F, Free
  <2>2. PICK i \in 1 .. Len(Omap3UartSettle) : Omap3UartSettle[i] \in Settles(q)
    BY <1>4 DEF Without
  <2>3. /\ Len(x) + i \in 1 .. Len(x \o Omap3UartSettle)
        /\ (x \o Omap3UartSettle)[Len(x) + i] = Omap3UartSettle[i]
    BY <2>1, Joined
  <2> QED  BY <2>2, <2>3 DEF Without
<1> QED  BY <1>5, <1>6, <1>8, <1>9 DEF F

\* plat_init() of OMAP4 waits until its core PLL has locked.
LEMMA Omap4Locks ==
  ASSUME NEW q \in {"core", "mpll"}
  PROVE  Omap4Plat \in Settled(OfKind("mem"), LocksPll(q), Settles(q))
<1> DEFINE M == Free(OfKind("mem"))
           F == Free(LocksPll(q))
           G == Settled(OfKind("mem"), LocksPll(q), Settles(q))
           o == Set([OSC |-> 384000, SYSDIV |-> 1])
           c == Set([CORE_M |-> CoreDpll.m, CORE_N |-> CoreDpll.n, CORE_M2 |-> CoreDpll.m2])
           e == Open("memif", {"emif1", "emif2"})
<1>1. /\ \A x, y \in M : x \o y \in M
      /\ \A x, y \in F : x \o y \in F
      /\ \A x, y \in G : x \o y \in G
      /\ F \subseteq G
  BY FreeJoined, SettledJoined
<1>2. ASSUME NEW K, "mem" \notin K, NEW p \in Seq(StepsOf(K)) PROVE p \in M
  BY <1>2, FreeKind, KindOf
<1>3. ASSUME NEW K, "lock" \notin K, NEW p \in Seq(StepsOf(K)) PROVE p \in F
  BY <1>3, FreeKind, LockKinds
<1>4. o \in M /\ c \in M /\ o \in F /\ c \in F
  <2>1. [OSC |-> 384000, SYSDIV |-> 1] \in SetValues
    BY SMT, SetsTyped
  <2>2. CoreDpll.m \in Nat /\ CoreDpll.n \in Nat /\ CoreDpll.m2 \in Nat
    BY DEF CoreDpll
  <2>3. [CORE_M |-> CoreDpll.m, CORE_N |-> CoreDpll.n, CORE_M2 |-> CoreDpll.m2] \in SetValues
    BY <2>2, SetsTyped
  <2>4. o \in Seq(StepsOf({"set"})) /\ c \in Seq(StepsOf({"set"}))
    BY SMT, <2>1, <2>3, SetTyped
  <2> QED  BY SMT, <1>2, <1>3, <2>4
<1>5. Omap4Mpu(MpuDpll) \in M /\ Omap4Per(PerDpll) \in M
  <2>1. /\ Omap4Mpu(MpuDpll) \in Seq(StepsOf({"set", "bypass", "lock"}))
        /\ Omap4Per(PerDpll) \in Seq(StepsOf({"set", "bypass", "lock"}))
    BY Omap4PllTyped DEF MpuDpll, PerDpll
  <2> QED  BY <1>2, <2>1
<1>6. Bypass("core") \in M /\ Wait("emif_awake") \in M /\ Lock("core") \in M
  <2>1. /\ Bypass("core") \in Seq(StepsOf({"bypass"})) /\ Lock("core") \in Seq(StepsOf({"lock"}))
        /\ Wait("emif_awake") \in Seq(StepsOf({"wait"}))
    BY Zenon, BypassTyped, LockTyped, WaitTyped DEF Plls, Events
  <2> QED  BY Zenon, <1>2, <2>1
<1>7. Omap4GpioGates \in F /\ Omap4UartGates \in F
  BY <1>3, Omap4GatesTyped
<1>8. e \in M
  <2>1. "memif" \in Domains /\ {"emif1", "emif2"} \in SUBSET Units
    BY DEF Domains, Units
  <2> QED  BY <1>2, <2>1, OpenOpens
<1>9. /\ Omap4Core(CoreDpll) = Bypass("core") \o c \o e \o Wait("emif_awake") \o Lock("core") \o Wait("core")
      /\ Omap4Plat = o \o Omap4Mpu(MpuDpll) \o Omap4Per(PerDpll) \o Omap4Core(CoreDpll)
                       \o Omap4GpioGates \o Omap4UartGates
  BY SMT DEF Omap4Core, Omap4Plat
<1>10. CASE q = "core"
  <2>1. [op |-> "wait", event |-> "core"] \in Steps
    BY DEF Steps, Plls
  <2>2. [op |-> "wait", event |-> "core"] \in Settles(q)
    BY <1>10, <2>1 DEF Settles
  <2>3. Wait("core") \in M /\ Wait("core") \in F /\ ~ Without(Wait("core"), Settles(q))
    BY <2>2, SettlingStep DEF Wait
  <2> DEFINE x == Bypass("core") \o c \o e \o Wait("emif_awake") \o Lock("core")
             y == o \o Omap4Mpu(MpuDpll) \o Omap4Per(PerDpll)
  <2> HIDE DEF M, F, G, o, c, e
  <2>4. x \in M
    BY <1>1, <1>4, <1>6, <1>8
  <2>5. y \in M
    BY <1>1, <1>4, <1>5
  <2>6. Omap4Plat = y \o (x \o Wait("core")) \o Omap4GpioGates \o Omap4UartGates
    BY <1>9
  <2> HIDE DEF x, y
  <2>7. y \o (x \o Wait("core")) = (y \o x) \o Wait("core")
    <3>1. x \in Seq(Steps) /\ y \in Seq(Steps) /\ Wait("core") \in Seq(Steps)
      BY <2>3, <2>4, <2>5 DEF M, Free
    <3> QED  BY <3>1
  <2>8. y \o x \in M
    BY <1>1, <2>4, <2>5
  <2>9. (y \o x) \o Wait("core") \in G
    BY <2>3, <2>8, SettledBehind DEF M, F, G
  <2>10. Omap4Plat \in G
    BY Zenon, <1>1, <1>7, <2>6, <2>7, <2>9
  <2> QED  BY <2>10 DEF G
<1>11. CASE q = "mpll"
  <2>1. /\ Len(Omap4Mpu(MpuDpll)) = 3 /\ Omap4Mpu(MpuDpll)[1].op = "bypass"
        /\ Omap4Mpu(MpuDpll)[2].op = "set" /\ Omap4Mpu(MpuDpll)[3].pll = "mpu"
        /\ Len(Omap4Per(PerDpll)) = 3 /\ Omap4Per(PerDpll)[1].op = "bypass"
        /\ Omap4Per(PerDpll)[2].op = "set" /\ Omap4Per(PerDpll)[3].pll = "per"
    BY DEF Omap4Mpu, Omap4Per, Bypass, Set, Lock
  <2>2. Without(Omap4Mpu(MpuDpll), LocksPll(q)) /\ Without(Omap4Per(PerDpll), LocksPll(q))
    BY <1>11, <2>1, LockKinds DEF Without
  <2>3. Omap4Mpu(MpuDpll) \in F /\ Omap4Per(PerDpll) \in F
    BY <1>5, <2>2 DEF Free
  <2>4. Lock("core") \in F
    <3>1. [op |-> "lock", pll |-> "core"] \in Steps
      BY DEF Steps, Plls
    <3>2. [op |-> "lock", pll |-> "core"] \notin LocksPll(q)
      BY <1>11, LockKinds
    <3> QED  BY <3>1, <3>2, FreeStep DEF Lock
  <2>5. Bypass("core") \in F /\ Wait("emif_awake") \in F /\ Wait("core") \in F
    <3>1. /\ Bypass("core") \in Seq(StepsOf({"bypass"}))
          /\ Wait("emif_awake") \in Seq(StepsOf({"wait"})) /\ Wait("core") \in Seq(StepsOf({"wait"}))
      BY BypassTyped, WaitTyped DEF Plls, Events
    <3> QED  BY <1>3, <3>1
  <2>6. e \in F
    <3>1. "memif" \in Domains /\ {"emif1", "emif2"} \in SUBSET Units
      BY DEF Domains, Units
    <3> QED  BY <1>3, <3>1, OpenOpens
  <2> HIDE DEF M, F, G, o, c, e
  <2> DEFINE x == Bypass("core") \o c \o e
             y == o \o Omap4Mpu(MpuDpll) \o Omap4Per(PerDpll)
  <2>7. x \in F /\ Omap4Core(CoreDpll) = x \o Wait("emif_awake") \o Lock("core") \o Wait("core")
    BY <1>1, <1>4, <1>9, <2>5, <2>6
  <2>8. y \in F /\ Omap4Plat = y \o Omap4Core(CoreDpll) \o Omap4GpioGates \o Omap4UartGates
    BY <1>1, <1>4, <1>9, <2>3
  <2> HIDE DEF x, y
  <2>9. Omap4Core(CoreDpll) \in F
    BY <1>1, <2>4, <2>5, <2>7
  <2>10. Omap4Plat \in F
    BY <1>1, <1>7, <2>8, <2>9
  <2> QED  BY <1>1, <2>10 DEF G
<1> QED  BY <1>10, <1>11

\* plat_init() of the S3C chips goes on when their PLLs have locked.
LEMMA S3CLocks ==
  ASSUME NEW q \in {"core", "mpll"}
  PROVE  /\ board \in S3C24Boards =>
              S3C24xPlat(S3C24Clock(board)) \in Settled(OfKind("mem"), LocksPll(q), Settles(q))
         /\ board = "s3c6410" => S3C64xPlat \in Settled(OfKind("mem"), LocksPll(q), Settles(q))
<1> DEFINE M == Free(OfKind("mem"))
<1>1. \A x, y \in M : x \o y \in M
  BY FreeJoined
<1>2. ASSUME NEW K, "mem" \notin K, NEW p \in Seq(StepsOf(K)) PROVE p \in M
  BY <1>2, FreeKind, KindOf
<1>3. ASSUME board \in S3C24Boards
      PROVE  S3C24xPlat(S3C24Clock(board)) \in Settled(OfKind("mem"), LocksPll(q), Settles(q))
  <2> DEFINE k == S3C24Clock(board)
             s == [op |-> "set", f |-> [HDIVN |-> k.hdivn, PDIVN |-> k.pdivn]]
             x == Wdt("off") \o Set([MDIV |-> k.mdiv, PDIV |-> k.pdiv, SDIV |-> k.sdiv]) \o Lock("mpll")
  <2>1. /\ k.hdivn \in Nat /\ k.pdivn \in Nat /\ k.mdiv \in Nat /\ k.pdiv \in Nat /\ k.sdiv \in Nat
    BY DEF S3C24Clock, S3C2410Clock, S3C2440Clock
  <2> HIDE DEF k
  <2>2. /\ [HDIVN |-> k.hdivn, PDIVN |-> k.pdivn] \in SetValues
        /\ [MDIV |-> k.mdiv, PDIV |-> k.pdiv, SDIV |-> k.sdiv] \in SetValues
    BY Zenon, <2>1, SetsTyped
  <2>3. s \in Steps
    BY <2>2 DEF Steps
  <2>4. s \in Settles(q)
    BY <1>3, <2>3 DEF Settles
  <2>5. <<s>> \in M /\ <<s>> \in Free(LocksPll(q)) /\ ~ Without(<<s>>, Settles(q))
    BY <2>4, SettlingStep
  <2>6. x \in M
    <3>1. Wdt("off") \in Seq(StepsOf({"wdt"})) /\ Lock("mpll") \in Seq(StepsOf({"lock"}))
      BY WdtTyped, LockTyped DEF Plls
    <3>2. Set([MDIV |-> k.mdiv, PDIV |-> k.pdiv, SDIV |-> k.sdiv]) \in Seq(StepsOf({"set"}))
      BY <2>2, SetTyped
    <3>3. Wdt("off") \in M /\ Lock("mpll") \in M
      BY <1>2, <3>1
    <3>4. Set([MDIV |-> k.mdiv, PDIV |-> k.pdiv, SDIV |-> k.sdiv]) \in M
      BY <1>2, <3>2
    <3> HIDE DEF M
    <3> QED  BY <1>1, <3>3, <3>4
  <2>7. S3C24xPlat(k) = x \o <<s>>
    BY DEF S3C24xPlat, Set
  <2> HIDE DEF x, s
  <2>8. x \o <<s>> \in Settled(OfKind("mem"), LocksPll(q), Settles(q))
    BY <2>5, <2>6, SettledBehind
  <2> QED  BY <2>7, <2>8 DEF k
<1>4. ASSUME board = "s3c6410"
      PROVE  S3C64xPlat \in Settled(OfKind("mem"), LocksPll(q), Settles(q))
  <2> DEFINE s == [op |-> "set", f |-> [CLK_DIV0 |-> 12544]]
             a == Set([A_MDIV |-> 333, A_PDIV |-> 3, A_SDIV |-> 1])
             b == Set([MDIV |-> 266, PDIV |-> 3, SDIV |-> 2])
             c == Set([SEL |-> 1])
             x == Wdt("off") \o a \o Lock("apll") \o b \o Lock("mpll") \o c
  <2>1. s \in Steps
    <3>1. [CLK_DIV0 |-> 12544] \in SetValues
      BY SetsTyped
    <3> QED  BY <3>1 DEF Steps
  <2>2. s \in Settles(q)
    BY <1>4, <2>1 DEF Settles
  <2>3. <<s>> \in M /\ <<s>> \in Free(LocksPll(q)) /\ ~ Without(<<s>>, Settles(q))
    BY <2>2, SettlingStep
  <2>4. /\ Wdt("off") \in M /\ Lock("apll") \in M /\ Lock("mpll") \in M
    <3>1. /\ Wdt("off") \in Seq(StepsOf({"wdt"})) /\ Lock("apll") \in Seq(StepsOf({"lock"}))
          /\ Lock("mpll") \in Seq(StepsOf({"lock"}))
      BY WdtTyped, LockTyped DEF Plls
    <3> QED  BY <1>2, <3>1
  <2>5. a \in M /\ b \in M /\ c \in M
    <3>1. /\ [A_MDIV |-> 333, A_PDIV |-> 3, A_SDIV |-> 1] \in SetValues
          /\ [MDIV |-> 266, PDIV |-> 3, SDIV |-> 2] \in SetValues /\ [SEL |-> 1] \in SetValues
      BY SetsTyped
    <3>2. a \in Seq(StepsOf({"set"})) /\ b \in Seq(StepsOf({"set"})) /\ c \in Seq(StepsOf({"set"}))
      BY <3>1, SetTyped
    <3> QED  BY <1>2, <3>2
  <2>6. S3C64xPlat = x \o <<s>>
    BY DEF S3C64xPlat, Set
  <2> HIDE DEF a, b, c, s, M
  <2>7. x \in M
    BY <1>1, <2>4, <2>5
  <2> HIDE DEF x
  <2>8. x \o <<s>> \in Settled(OfKind("mem"), LocksPll(q), Settles(q))
    BY <2>3, <2>7, SettledBehind DEF M
  <2> QED  BY <2>6, <2>8
<1> QED  BY <1>3, <1>4

\* On every board, memory is not used while the PLL it hangs on is locking.
LEMMA AllPllsSettled ==
  ASSUME board \in Boards, NEW q \in {"core", "mpll"}
  PROVE  Apart(ProgramOf(board), OfKind("mem"), LocksPll(q), Settles(q))
<1> DEFINE T == OfKind("mem")
           A == LocksPll(q)
           B == Settles(q)
           G == Settled(T, A, B)
<1>1. (\A x, y \in G : x \o y \in G) /\ Free(A) \subseteq G
  BY SettledJoined
<1>2. \A s \in A : s.op = "lock"
  BY LockKinds
<1>3. PrintText \in Free(A) /\ Sdram(board) \in Free(A) /\ AfterSdram(board) \in Free(A)
  BY <1>2, PartFree DEF SdramKinds, TailKinds
<1>4. Plat(board) \in Seq(Steps) /\ Stdio(board) \in Seq(Steps)
  BY PartsTyped
<1> HIDE DEF T, A, B
<1>5. Plat(board) \o Stdio(board) \in G
  <2> USE DEF Boards, Omap3Boards, S3C24Boards, At91Boards
  <2>1. CASE board \in Omap3Boards
    <3>1. PICK index \in {0, 2} : Stdio(board) = Omap3Uart(index)
      BY <2>1 DEF Stdio
    <3>2. Stdio(board) \in Free(A) /\ Stdio(board) \in Free(T) /\ ~ Without(Stdio(board), B)
      BY <3>1, Omap3UartLocks DEF T, A, B
    <3>3. Plat(board) \in Free(T)
      BY <2>1, PartFree, KindOf DEF PlatKinds, T
    <3> QED  BY <3>2, <3>3, SettledBehind
  <2>2. CASE board \notin Omap3Boards
    <3>1. Stdio(board) \in Free(A)
      BY <1>2, <2>2, PartFree DEF StdioKinds
    <3>2. Plat(board) \in G
      <4>1. CASE board = "omap4"
        BY <4>1, Omap4Locks DEF Plat, T, A, B
      <4>2. CASE board \in S3C24Boards \cup {"s3c6410"}
        BY <4>2, S3CLocks DEF Plat, T, A, B
      <4>3. CASE board \in At91Boards \cup {"armvirt", "e310"}
        BY <1>1, <1>2, <4>3, PartFree DEF PlatKinds
      <4> QED  BY <2>2, <4>1, <4>2, <4>3
    <3> HIDE DEF G
    <3> QED  BY <1>1, <3>1, <3>2
  <2> QED  BY <2>1, <2>2
<1>6. ProgramOf(board) = Plat(board) \o Stdio(board) \o PrintText \o Sdram(board) \o AfterSdram(board)
  BY Zenon, PartsTyped
<1> HIDE DEF G
<1>7. ProgramOf(board) \in G
  BY <1>1, <1>3, <1>5, <1>6
<1> QED  BY <1>7 DEF G, Settled, T, A, B

\* On every board the SDRAM is set up in order.
LEMMA AllOrderSdram == ASSUME board \in Boards PROVE OrdersSdram(ProgramOf(board))
<1>1. ProgramOf(board) \in Ordered
  BY AllOrdered
<1> QED  BY <1>1, AllMemSettled, AllPllsSettled DEF OrdersSdram, Ordered

-----------------------------------------------------------------------------
(* Types *)

\* The program of the board is a sequence of steps.
LEMMA ProgTyped ==
  ASSUME board \in Boards
  PROVE  Prog = ProgramOf(board) /\ Prog \in Seq(Steps) /\ Len(Prog) \in Nat
<1>1. Prog = ProgramOf(board)
  BY DEF Prog, Programs
<1>2. Prog \in Seq(Steps)
  BY <1>1, PartsTyped
<1> QED  BY <1>1, <1>2

\* The next step is one.
LEMMA OpTyped ==
  ASSUME TypeInv, ~ Done
  PROVE  Op \in Steps /\ taken + 1 \in 1 .. Len(Prog) /\ Op = Prog[taken + 1]
<1>1. Prog \in Seq(Steps) /\ Len(Prog) \in Nat /\ taken \in 0 .. Len(Prog) /\ taken # Len(Prog)
  BY ProgTyped DEF TypeInv, Done
<1>2. taken + 1 \in 1 .. Len(Prog)
  BY <1>1
<1>3. Prog[taken + 1] \in Steps
  BY <1>1, <1>2, StepTyped
<1> QED  BY <1>2, <1>3 DEF Op

\* What the steps of each kind have.
LEMMA StepFields ==
  ASSUME NEW s \in Steps
  PROVE  /\ s.op = "set" => s.f \in SetValues
         /\ s.op \in {"lock", "bypass"} => s.pll \in Plls
         /\ s.op \in {"read", "write", "assign"} => s.dom \in Domains
         /\ s.op \in {"write", "assign"} => s.units \in SUBSET Units
         /\ s.op = "wait" => s.event \in Events \cup Plls
         /\ s.op = "wdt" => s.key \in {"off", "AAAA", "5555"}
         /\ s.op = "uart" => s.reg \in Uart16550 /\ s.val \in Nat
         /\ s.op = "mem" => s.chip \in 0 .. 2 /\ s.cmd \in Commands
         /\ s.op = "cs" => s.on \in {0, 1}
         /\ s.op = "pin" => s.bits \in SUBSET (0 .. 31)
BY DEF Steps

\* What is open behind one step more.
LEMMA SinceStep ==
  ASSUME NEW p, NEW n \in Nat, NEW A, NEW B
  PROVE  Since(p, n + 1, A, B) <=> p[n + 1] \in A \/ (p[n + 1] \notin B /\ Since(p, n, A, B))
<1>1. ASSUME Since(p, n + 1, A, B), p[n + 1] \notin A
      PROVE  p[n + 1] \notin B /\ Since(p, n, A, B)
  <2>1. PICK i \in 1 .. n + 1 : p[i] \in A /\ \A j \in i + 1 .. n + 1 : p[j] \notin B
    BY <1>1 DEF Since
  <2>2. i \in 1 .. n /\ n + 1 \in i + 1 .. n + 1
    BY <1>1, <2>1
  <2>3. \A j \in i + 1 .. n : j \in i + 1 .. n + 1
    OBVIOUS
  <2> QED  BY <2>1, <2>2, <2>3 DEF Since
<1>2. ASSUME p[n + 1] \in A PROVE Since(p, n + 1, A, B)
  <2>1. n + 1 \in 1 .. n + 1 /\ \A j \in (n + 1) + 1 .. n + 1 : FALSE
    OBVIOUS
  <2> QED  BY <1>2, <2>1 DEF Since
<1>3. ASSUME p[n + 1] \notin B, Since(p, n, A, B) PROVE Since(p, n + 1, A, B)
  <2>1. PICK i \in 1 .. n : p[i] \in A /\ \A j \in i + 1 .. n : p[j] \notin B
    BY <1>3 DEF Since
  <2>2. i \in 1 .. n + 1 /\ \A j \in i + 1 .. n + 1 : j \in i + 1 .. n \/ j = n + 1
    OBVIOUS
  <2> QED  BY <1>3, <2>1, <2>2 DEF Since
<1> QED  BY <1>1, <1>2, <1>3

\* Nothing is open before the first step.
LEMMA SinceNone == ASSUME NEW p, NEW A, NEW B PROVE ~ Since(p, 0, A, B)
BY DEF Since

\* A step leaves the board as it is, and takes one step of the program at most.
LEMMA Progress ==
  ASSUME TypeInv, [Next]_vars
  PROVE  /\ board' = board /\ gates0' = gates0 /\ Prog' = Prog
         /\ taken' = taken \/ (~ Done /\ taken' = taken + 1)
<1>1. board' = board /\ gates0' = gates0
  BY DEF Next, CpuStep, SetFields, LockPll, BypassPll, ReadGates, WriteGates, AssignGates, WaitEvent,
         DelayEnds, Prints, WriteWatchdog, WriteUart, MemCommand, ConfPins, WriteChipSelect,
         Hardware, Finish, Locks, Ended, vars
<1>2. taken' = taken \/ (~ Done /\ taken' = taken + 1)
  BY DEF Next, CpuStep, SetFields, LockPll, BypassPll, ReadGates, WriteGates, AssignGates, WaitEvent,
         DelayEnds, Prints, WriteWatchdog, WriteUart, MemCommand, ConfPins, WriteChipSelect,
         Hardware, Finish, Locks, Ended, vars, Step, At
<1>3. Prog' = Prog
  BY <1>1 DEF Prog
<1> QED  BY <1>1, <1>2, <1>3

\* The types hold at reset.
LEMMA InitTyped == Init => TypeInv
<1> SUFFICES ASSUME Init PROVE TypeInv
  OBVIOUS
<1>1. /\ board \in Boards /\ taken = 0 /\ word = {} /\ gates = gates0 /\ locking = {}
      /\ pend = {"wdt_awake", "emif_awake"}
  BY DEF Init
<1>2. wdt \in {"on", "key", "off"}
  BY DEF Init
<1>3. taken \in 0 .. Len(Prog)
  BY <1>1, ProgTyped
<1>4. reg \in [Fields -> Nat]
  <2>1. \A f \in Fields : ResetValue(f) \in Nat
    BY DEF ResetValue
  <2>2. \A c \in {9261, 9263} : At91Pll(c).mula \in Nat /\ At91Pll(c).diva \in Nat
    BY DEF At91Pll
  <2>3. At91Chip(board) \in {9261, 9263}
    BY DEF At91Chip
  <2>4. \A lcr \in ResetLcr : lcr \in Nat
    BY ResetAssumption
  <2> QED  BY <2>1, <2>2, <2>3, <2>4 DEF Init
<1>5. gates0 \in [Domains -> SUBSET Units]
  <2>1. \A c \in ResetClocks : c["fclk"] \subseteq Units /\ c["iclk"] \subseteq Units
    BY ResetAssumption
  <2> QED  BY <2>1 DEF Init
<1>6. pend \in SUBSET Events
  BY <1>1 DEF Events
<1> QED  BY <1>1, <1>2, <1>3, <1>4, <1>5, <1>6 DEF TypeInv

\* Every step keeps the types.
LEMMA StepTypedInv == TypeInv /\ [Next]_vars => TypeInv'
<1> SUFFICES ASSUME TypeInv, [Next]_vars PROVE TypeInv'
  OBVIOUS
<1>1. /\ board' = board /\ gates0' = gates0 /\ Prog' = Prog
      /\ taken' = taken \/ (~ Done /\ taken' = taken + 1)
  BY Progress
<1>2. (board \in Boards)' /\ (taken \in 0 .. Len(Prog))' /\ (gates0 \in [Domains -> SUBSET Units])'
  <2>1. taken' \in 0 .. Len(Prog)
    BY <1>1, OpTyped, ProgTyped DEF TypeInv
  <2>2. taken' \in 0 .. Len(Prog')
    BY <1>1, <2>1
  <2>3. board' \in Boards /\ gates0' \in [Domains -> SUBSET Units]
    BY <1>1 DEF TypeInv
  <2> QED  BY <2>2, <2>3
<1>3. ~ Done => Op \in Steps
  BY OpTyped
<1> DEFINE Rest == /\ word \in SUBSET Units
                   /\ reg \in [Fields -> Nat]
                   /\ gates \in [Domains -> SUBSET Units]
                   /\ locking \in SUBSET Plls
                   /\ pend \in SUBSET Events /\ wdt \in {"on", "key", "off"}
<1>4. Rest
  BY DEF TypeInv
<1>5. SUFFICES Rest'
  BY <1>2 DEF TypeInv
<1>6. CASE SetFields
  <2>1. Op.f \in SetValues
    BY <1>3, <1>6, StepFields DEF SetFields, Step, At
  <2>2. \A f \in DOMAIN Op.f : Op.f[f] \in Nat
    BY <2>1 DEF SetValues
  <2>3. reg' \in [Fields -> Nat]
    BY <1>4, <1>6, <2>2 DEF SetFields
  <2>4. pend' \in SUBSET Events
    BY <1>4, <1>6 DEF SetFields, Events
  <2> QED  BY <1>4, <1>6, <2>3, <2>4 DEF SetFields
<1>7. CASE LockPll
  <2>1. Op.pll \in Plls
    BY <1>3, <1>7, StepFields DEF LockPll, Step, At
  <2> QED  BY <1>4, <1>7, <2>1 DEF LockPll
<1>8. CASE BypassPll
  BY <1>4, <1>8 DEF BypassPll
<1>9. CASE ReadGates
  <2>1. Op.dom \in Domains
    BY <1>3, <1>9, StepFields DEF ReadGates, Step, At
  <2> QED  BY <1>4, <1>9, <2>1 DEF ReadGates
<1>10. CASE WriteGates
  <2>1. Op.dom \in Domains /\ Op.units \in SUBSET Units
    BY <1>3, <1>10, StepFields DEF WriteGates, Step, At
  <2> QED  BY <1>4, <1>10, <2>1 DEF WriteGates
<1>11. CASE AssignGates
  <2>1. Op.dom \in Domains /\ Op.units \in SUBSET Units
    BY <1>3, <1>11, StepFields DEF AssignGates, Step, At
  <2> QED  BY <1>4, <1>11, <2>1 DEF AssignGates
<1>12. CASE WaitEvent \/ DelayEnds \/ Prints \/ ConfPins \/ Ended \/ UNCHANGED vars
  BY <1>4, <1>12 DEF WaitEvent, DelayEnds, Prints, ConfPins, Ended, vars
<1>13. CASE WriteWatchdog
  BY <1>4, <1>13 DEF WriteWatchdog, WatchdogTakes, Events
<1>14. CASE WriteUart
  <2>1. Op.reg \in Uart16550 /\ Op.val \in Nat
    BY <1>3, <1>14, StepFields DEF WriteUart, Step, At
  <2>2. reg' \in [Fields -> Nat]
    BY Zenon, <1>4, <1>14, <2>1 DEF WriteUart
  <2> QED  BY <1>4, <1>14, <2>2 DEF WriteUart, Events
<1>15. CASE MemCommand
  <2>1. MemStarts(Op.cmd) \subseteq Events
    BY DEF MemStarts, Events
  <2> QED  BY <1>4, <1>15, <2>1 DEF MemCommand
<1>16. CASE WriteChipSelect
  <2>1. Op.on \in Nat
    BY <1>3, <1>16, StepFields DEF WriteChipSelect, Step, At
  <2>2. reg' \in [Fields -> Nat]
    BY Zenon, <1>4, <1>16, <2>1 DEF WriteChipSelect
  <2> QED  BY <1>4, <1>16, <2>2 DEF WriteChipSelect
<1>17. CASE Finish
  BY <1>4, <1>17 DEF Finish
<1>18. CASE Locks
  BY <1>4, <1>18 DEF Locks
<1> QED
  BY <1>6, <1>7, <1>8, <1>9, <1>10, <1>11, <1>12, <1>13, <1>14, <1>15, <1>16, <1>17, <1>18
  DEF Next, CpuStep, Hardware

\* Every variable keeps its type: no init call of any board computes a value that
\* its register cannot hold.
THEOREM TypeCorrect == Spec => []TypeOK
<1>1. TypeInv => TypeOK
  BY DEF TypeInv, TypeOK
<1> QED  BY <1>1, InitTyped, StepTypedInv, PTL DEF Spec

-----------------------------------------------------------------------------
(* Clocks that are kept *)

\* What has been done since, when the step Op has been taken.
LEMMA SinceNext ==
  ASSUME TypeInv, ~ Done, NEW A, NEW B
  PROVE  Since(Prog, taken + 1, A, B) <=> Op \in A \/ (Op \notin B /\ Since(Prog, taken, A, B))
<1>1. taken \in Nat
  BY DEF TypeInv
<1>2. Since(Prog, taken + 1, A, B)
        <=> Prog[taken + 1] \in A \/ (Prog[taken + 1] \notin B /\ Since(Prog, taken, A, B))
  BY <1>1, SinceStep
<1> QED  BY <1>2 DEF Op

\* The invariants of the clocks hold at reset.
LEMMA InitGates == Init => GatesInv /\ OpenInv
<1> SUFFICES ASSUME Init PROVE GatesInv /\ OpenInv
  OBVIOUS
<1>1. taken = 0 /\ gates = gates0
  BY DEF Init
<1> QED  BY <1>1, SinceNone DEF GatesInv, OpenInv, KeptAtReset

\* Every step keeps the clocks that must be kept.
LEMMA GatesStep == TypeInv /\ GatesInv /\ KeepsGates(Prog) /\ [Next]_vars => GatesInv'
<1> SUFFICES ASSUME TypeInv, GatesInv, KeepsGates(Prog), [Next]_vars PROVE GatesInv'
  OBVIOUS
<1>1. /\ board' = board /\ gates0' = gates0 /\ Prog' = Prog
      /\ taken' = taken \/ (~ Done /\ taken' = taken + 1)
  BY Progress
<1>2. \A d \in {"fclk", "iclk"} : KeptAtReset(d)' = KeptAtReset(d)
  BY <1>1 DEF KeptAtReset
<1> SUFFICES ASSUME NEW d \in {"fclk", "iclk"}
             PROVE  /\ KeptAtReset(d) \subseteq gates'[d]
                    /\ Since(Prog, taken', ReadsOf(Covering(d)), OfKind("read"))
                         => KeptAtReset(d) \subseteq word'
  BY <1>1, <1>2 DEF GatesInv
<1> DEFINE A == ReadsOf(Covering(d))
           B == OfKind("read")
<1>3. /\ KeptAtReset(d) \subseteq gates[d] /\ d \in Domains
      /\ Since(Prog, taken, A, B) => KeptAtReset(d) \subseteq word
  BY DEF GatesInv, Domains
<1>4. ~ Done => Op \in Steps /\ taken + 1 \in 1 .. Len(Prog) /\ Op = Prog[taken + 1]
  BY OpTyped
<1>5. /\ gates \in [Domains -> SUBSET Units] /\ gates0 \in [Domains -> SUBSET Units] /\ taken \in Nat
      /\ board \in Boards
  BY DEF TypeInv
<1>6. ~ Done => (Since(Prog, taken + 1, A, B) <=> Op \in A \/ (Op \notin B /\ Since(Prog, taken, A, B)))
  BY SinceNext
<1>7. Op \in A => Op.op = "read" /\ Op.dom \in Covering(d)
  BY DEF ReadsOf
<1>8. ~ Done /\ Op.op = "read" => Op \in B
  BY <1>4 DEF OfKind
<1>9. ~ Done /\ Op.op = "write" /\ Op.dom = d => Since(Prog, taken, A, B)
  <2>1. ASSUME ~ Done, Op.op = "write", Op.dom = d PROVE Since(Prog, taken, A, B)
    <3>1. Prog[taken + 1] \in WritesTo(d)
      BY <1>4, <2>1 DEF WritesTo
    <3>2. Guarded(Prog, WritesTo(d), A, B)
      BY DEF KeepsGates
    <3>3. Since(Prog, (taken + 1) - 1, A, B)
      BY <1>4, <2>1, <3>1, <3>2 DEF Guarded
    <3> QED  BY <1>5, <3>3
  <2> QED  BY <2>1
<1>10. ~ Done /\ Op.op = "assign" => Op.dom # d
  BY <1>4 DEF KeepsGates, Without, Assigns
<1> HIDE DEF A, B
<1>11. CASE taken' = taken /\ UNCHANGED <<gates, word>>
  BY <1>3, <1>11 DEF A, B
<1>12. CASE ~ Done /\ taken' = taken + 1 /\ UNCHANGED <<gates, word>> /\ Op.op # "read"
  BY <1>3, <1>6, <1>7, <1>12 DEF A, B
<1>13. CASE ReadGates
  <2>1. /\ ~ Done /\ taken' = taken + 1 /\ Op.op = "read"
        /\ gates' = gates /\ word' = gates[Op.dom]
    BY <1>13 DEF ReadGates, Step, At
  <2>2. Op \in A => KeptAtReset(d) \subseteq gates[Op.dom]
    <3>1. KeptAtReset("iclk") \subseteq gates["iclk"] /\ KeptAtReset("fclk") \subseteq gates["fclk"]
      BY DEF GatesInv
    <3>2. KeptAtReset("fclk") \subseteq KeptAtReset("iclk")
      BY DEF KeptAtReset
    <3> QED  BY <1>7, <3>1, <3>2 DEF Covering
  <2> QED  BY <1>3, <1>6, <1>8, <2>1, <2>2 DEF A, B
<1>14. CASE WriteGates
  <2>1. /\ ~ Done /\ taken' = taken + 1 /\ Op.op = "write"
        /\ word' = word \cup Op.units /\ gates' = [gates EXCEPT ![Op.dom] = word']
    BY <1>14 DEF WriteGates, Step, At
  <2> QED  BY <1>3, <1>5, <1>6, <1>7, <1>9, <2>1 DEF A, B
<1>15. CASE AssignGates
  <2>1. /\ ~ Done /\ taken' = taken + 1 /\ Op.op = "assign"
        /\ word' = word /\ gates' = [gates EXCEPT ![Op.dom] = Op.units]
    BY <1>15 DEF AssignGates, Step, At
  <2> QED  BY <1>3, <1>5, <1>6, <1>7, <1>10, <2>1 DEF A, B
<1>16. CASE SetFields \/ LockPll \/ BypassPll \/ DelayEnds \/ Prints \/ WriteWatchdog \/ WriteUart
            \/ MemCommand \/ ConfPins \/ WriteChipSelect
  <2>1. ~ Done /\ taken' = taken + 1 /\ UNCHANGED <<gates, word>> /\ Op.op # "read"
    BY <1>16 DEF SetFields, LockPll, BypassPll, DelayEnds, Prints, WriteWatchdog, WriteUart,
                 MemCommand, ConfPins, WriteChipSelect, Step, At
  <2> QED  BY <1>12, <2>1
<1>17. CASE WaitEvent
  <2>1. UNCHANGED <<gates, word>> /\ ~ Done /\ Op.op # "read" /\ (taken' = taken \/ taken' = taken + 1)
    BY <1>17 DEF WaitEvent, At
  <2> QED  BY <1>11, <1>12, <2>1
<1>18. CASE Finish \/ Locks \/ Ended \/ UNCHANGED vars
  BY <1>11, <1>18 DEF Finish, Locks, Ended, vars
<1> QED
  BY <1>13, <1>14, <1>15, <1>16, <1>17, <1>18 DEF Next, CpuStep, Hardware

\* An interface clock of OMAP that was on at reset, and the functional clock of a
\* unit that had both, are on when the init calls have ended: the functional
\* clocks are written only with a word of one of the two registers, which has the
\* units that are in both.
THEOREM ClocksAreKept == Spec => []GatesKept
<1> DEFINE I == TypeInv /\ GatesInv
<1>1. Init => I
  BY InitTyped, InitGates
<1>2. I /\ [Next]_vars => I'
  <2>1. ASSUME TypeInv PROVE KeepsGates(Prog)
    BY <2>1, ProgTyped, AllKeepGates DEF TypeInv
  <2> QED  BY <2>1, StepTypedInv, GatesStep
<1>3. I => GatesKept
  BY DEF GatesInv, GatesKept
<1> QED  BY <1>1, <1>2, <1>3, PTL DEF Spec

-----------------------------------------------------------------------------
(* Clocks that are on *)

\* Every step keeps open what the steps taken have opened.
LEMMA OpenStep == TypeInv /\ OpenInv /\ [Next]_vars => OpenInv'
<1> SUFFICES ASSUME TypeInv, OpenInv, [Next]_vars PROVE OpenInv'
  OBVIOUS
<1> SUFFICES ASSUME NEW g \in Domains \X Units
             PROVE  Since(Prog, taken', Opens(g), Closes(g)) => g[2] \in gates'[g[1]]
  <2>1. Prog' = Prog
    BY Progress
  <2> QED  BY <2>1 DEF OpenInv
<1> DEFINE A == Opens(g)  B == Closes(g)
<1>1. Since(Prog, taken, A, B) => g[2] \in gates[g[1]]
  BY DEF OpenInv
<1>2. ~ Done => Op \in Steps
  BY OpTyped
<1>3. gates \in [Domains -> SUBSET Units] /\ g[1] \in Domains
  BY DEF TypeInv
<1>4. ~ Done => (Since(Prog, taken + 1, A, B) <=> Op \in A \/ (Op \notin B /\ Since(Prog, taken, A, B)))
  BY SinceNext
<1>5. /\ Op \in A => Op.op \in {"write", "assign"} /\ Op.dom = g[1] /\ g[2] \in Op.units
      /\ Op \in Steps /\ Op.op \in {"write", "assign"} /\ Op.dom = g[1] => Op \in A \/ Op \in B
  BY DEF Opens, Closes
<1> HIDE DEF A, B
<1>6. CASE taken' = taken /\ gates' = gates
  BY <1>1, <1>6 DEF A, B
<1>7. CASE ~ Done /\ taken' = taken + 1 /\ gates' = gates /\ Op.op \notin {"write", "assign"}
  BY <1>1, <1>4, <1>5, <1>7 DEF A, B
<1>8. CASE WriteGates \/ AssignGates
  <2>1. /\ ~ Done /\ taken' = taken + 1 /\ Op.op \in {"write", "assign"}
        /\ \E us : Op.units \subseteq us /\ gates' = [gates EXCEPT ![Op.dom] = us]
    BY <1>8 DEF WriteGates, AssignGates, Step, At
  <2>2. PICK us : Op.units \subseteq us /\ gates' = [gates EXCEPT ![Op.dom] = us]
    BY Zenon, <2>1
  <2>3. CASE Op.dom = g[1]
    BY <1>2, <1>3, <1>4, <1>5, <2>1, <2>2, <2>3 DEF A, B
  <2>4. CASE Op.dom # g[1]
    BY <1>1, <1>3, <1>4, <1>5, <2>1, <2>2, <2>4 DEF A, B
  <2> QED  BY <2>3, <2>4
<1>9. CASE SetFields \/ LockPll \/ BypassPll \/ ReadGates \/ DelayEnds \/ Prints \/ WriteWatchdog
            \/ WriteUart \/ MemCommand \/ ConfPins \/ WriteChipSelect
  <2>1. ~ Done /\ taken' = taken + 1 /\ gates' = gates /\ Op.op \notin {"write", "assign"}
    BY <1>9 DEF SetFields, LockPll, BypassPll, ReadGates, DelayEnds, Prints, WriteWatchdog, WriteUart,
                MemCommand, ConfPins, WriteChipSelect, Step, At
  <2> QED  BY <1>7, <2>1
<1>10. CASE WaitEvent
  <2>1. /\ gates' = gates /\ ~ Done /\ Op.op \notin {"write", "assign"}
        /\ taken' = taken \/ taken' = taken + 1
    BY <1>10 DEF WaitEvent, At
  <2> QED  BY <1>6, <1>7, <2>1
<1>11. CASE Finish \/ Locks \/ Ended \/ UNCHANGED vars
  BY <1>6, <1>11 DEF Finish, Locks, Ended, vars
<1> QED
  BY <1>8, <1>9, <1>10, <1>11 DEF Next, CpuStep, Hardware

-----------------------------------------------------------------------------
(* Pins *)

\* Every step leaves every pin with its one user.
LEMMA PinStep == TypeInv /\ PinInv /\ SharesPins(Prog) /\ [Next]_vars => PinInv'
<1> SUFFICES ASSUME TypeInv, PinInv, SharesPins(Prog), [Next]_vars PROVE PinInv'
  OBVIOUS
<1>1. board' = board
  BY Progress
<1>2. \A k, n : UserOf(k, n)' = UserOf(k, n)
  BY <1>1 DEF UserOf
<1>3. CASE pins' = pins
  BY Zenon, <1>1, <1>3 DEF PinInv, UserOf
<1>4. CASE ConfPins
  <2> DEFINE ps == {<<Op.bank, i>> : i \in Op.bits}
  <2>1. ~ Done /\ Op.op = "pin"
    BY <1>4 DEF ConfPins, Step, At
  <2>2. \A n \in Op.bits : UserOf(Op.bank, n) = Op.owner
    BY <2>1, OpTyped DEF SharesPins, Without, Misused
  <2>3. \A p \in ps : UserOf(p[1], p[2]) = Op.owner
    BY <2>2
  <2>4. /\ DOMAIN pins' = ps \cup DOMAIN pins
        /\ \A p \in DOMAIN pins' : IF p \in ps THEN pins'[p].owner = Op.owner ELSE pins'[p] = pins[p]
    BY <1>4 DEF ConfPins
  <2> HIDE DEF ps
  <2>5. \A p \in DOMAIN pins' : pins'[p].owner = UserOf(p[1], p[2])
    BY <2>3, <2>4 DEF PinInv
  <2> QED  BY Zenon, <1>1, <2>5 DEF PinInv, UserOf
<1> QED
  BY <1>3, <1>4 DEF Next, CpuStep, SetFields, LockPll, BypassPll, ReadGates, WriteGates, AssignGates,
         WaitEvent, DelayEnds, Prints, WriteWatchdog, WriteUart, MemCommand, WriteChipSelect,
         Hardware, Finish, Locks, Ended, vars

\* No init call of at91 takes a pin that an earlier one has set up for another
\* use: console, SDRAM and NAND each set up their own.
THEOREM PinsHaveOneOwner == Spec => []PinsKept
<1> DEFINE I == TypeInv /\ PinInv
<1>0. ASSUME TypeInv PROVE SharesPins(Prog)
  BY <1>0, ProgTyped, AllSharePins DEF TypeInv
<1>1. Init => I
  BY InitTyped DEF Init, PinInv
<1>2. I /\ [Next]_vars => I'
  BY <1>0, StepTypedInv, PinStep
<1>3. I => PinsKept
  <2> SUFFICES ASSUME TypeInv, PinInv, ~ Done, Op.op = "pin", NEW i \in Op.bits,
                      <<Op.bank, i>> \in DOMAIN pins
               PROVE  pins[<<Op.bank, i>>].owner = Op.owner
    BY DEF PinsKept
  <2>1. UserOf(Op.bank, i) = Op.owner
    BY <1>0, OpTyped DEF SharesPins, Without, Misused
  <2> QED  BY <2>1 DEF PinInv
<1> QED  BY <1>1, <1>2, <1>3, PTL DEF Spec

-----------------------------------------------------------------------------
(* What the hardware is busy with *)

\* At reset the hardware is busy with what reset starts.
LEMMA InitEvents == Init => EventInv
<1> SUFFICES ASSUME Init, NEW e \in pend
             PROVE  e \in AtReset /\ \A i \in 1 .. taken : Prog[i] \notin WaitsFor(e)
  BY DEF EventInv
<1>1. taken = 0 /\ e \in AtReset
  BY DEF Init, AtReset
<1> QED  BY <1>1

\* The hardware is busy only with what was started and not waited for.
LEMMA EventStep == TypeInv /\ EventInv /\ [Next]_vars => EventInv'
<1> SUFFICES ASSUME TypeInv, EventInv, [Next]_vars PROVE EventInv'
  OBVIOUS
<1>1. /\ board' = board /\ gates0' = gates0 /\ Prog' = Prog
      /\ taken' = taken \/ (~ Done /\ taken' = taken + 1)
  BY Progress
<1>2. \A e : Starts(e)' = Starts(e)
  BY <1>1 DEF Starts, MemStarts
<1> DEFINE Known(e, n) == \/ Since(Prog, n, Starts(e), WaitsFor(e))
                          \/ e \in AtReset /\ \A i \in 1 .. n : Prog[i] \notin WaitsFor(e)
<1>3. SUFFICES ASSUME NEW e \in pend' PROVE Known(e, taken')
  <2>1. EventInv' <=> \A e \in pend' :
                        \/ Since(Prog, taken', Starts(e)', WaitsFor(e))
                        \/ e \in AtReset /\ \A i \in 1 .. taken' : Prog[i] \notin WaitsFor(e)
    BY <1>1 DEF EventInv
  <2> QED  BY <1>2, <1>3, <2>1
<1>4. e \in pend => Known(e, taken)
  BY DEF EventInv
<1>5. ~ Done => Op \in Steps /\ Op = Prog[taken + 1] /\ taken \in Nat
  BY OpTyped DEF TypeInv
<1>6. ASSUME ~ Done, e \in pend, Op \notin WaitsFor(e) PROVE Known(e, taken + 1)
  <2>1. CASE Since(Prog, taken, Starts(e), WaitsFor(e))
    BY <1>6, <2>1, SinceNext
  <2>2. CASE e \in AtReset /\ \A i \in 1 .. taken : Prog[i] \notin WaitsFor(e)
    <3>1. \A i \in 1 .. taken + 1 : i \in 1 .. taken \/ i = taken + 1
      BY <1>5, <1>6
    <3> QED  BY <1>5, <1>6, <2>2, <3>1
  <2> QED  BY <1>4, <1>6, <2>1, <2>2
<1>7. ASSUME ~ Done, Op \in Starts(e) PROVE Known(e, taken + 1)
  BY <1>7, SinceNext
<1>8. Op \in WaitsFor(e) => Op.op = "wait" /\ Op.event = e
  BY DEF WaitsFor
<1> HIDE DEF Known
<1>9. CASE taken' = taken /\ e \in pend
  BY <1>4, <1>9
<1>10. CASE ~ Done /\ taken' = taken + 1 /\ e \in pend /\ Op.op # "wait"
  BY <1>6, <1>8, <1>10
<1>11. CASE ~ Done /\ taken' = taken + 1 /\ Op.op # "wait" /\ Op \in Starts(e)
  BY <1>7, <1>11
<1>12. CASE SetFields
  <2>1. ~ Done /\ taken' = taken + 1 /\ Op.op = "set"
    BY <1>12 DEF SetFields, Step, At
  <2>2. e \in pend \/ (board = "s3c6410" /\ "UFCON" \in DOMAIN Op.f /\ e = "fifo_reset")
    BY <1>12 DEF SetFields
  <2>3. e \in pend \/ Op \in Starts(e)
    BY <1>5, <2>1, <2>2 DEF Starts
  <2> QED  BY <1>10, <1>11, <2>1, <2>3
<1>13. CASE WriteWatchdog
  <2>1. ~ Done /\ taken' = taken + 1 /\ Op.op = "wdt"
    BY <1>13 DEF WriteWatchdog, Step, At
  <2>2. e \in pend \/ (Op.key # "off" /\ e = "wdt_write")
    BY <1>13 DEF WriteWatchdog, WatchdogTakes
  <2>3. e \in pend \/ Op \in Starts(e)
    BY <1>5, <2>1, <2>2 DEF Starts
  <2> QED  BY <1>10, <1>11, <2>1, <2>3
<1>14. CASE WriteUart
  <2>1. ~ Done /\ taken' = taken + 1 /\ Op.op = "uart"
    BY <1>14 DEF WriteUart, Step, At
  <2>2. e \in pend \/ (Op.reg = "SYSC" /\ e = "uart_reset")
    BY <1>14 DEF WriteUart
  <2>3. e \in pend \/ Op \in Starts(e)
    BY <1>5, <2>1, <2>2 DEF Starts
  <2> QED  BY <1>10, <1>11, <2>1, <2>3
<1>15. CASE MemCommand
  <2>1. ~ Done /\ taken' = taken + 1 /\ Op.op = "mem"
    BY <1>15 DEF MemCommand, Step, At
  <2>2. e \in pend \/ e \in MemStarts(Op.cmd)
    BY <1>15 DEF MemCommand
  <2>3. e \in pend \/ Op \in Starts(e)
    BY <1>5, <2>1, <2>2 DEF Starts
  <2> QED  BY <1>10, <1>11, <2>1, <2>3
<1>16. CASE WaitEvent
  <2>1. /\ ~ Done /\ Op.op = "wait" /\ e \in pend
        /\ taken' = IF Op.event \in pend \/ IsLocking(Op.event) THEN taken ELSE taken + 1
    BY <1>16 DEF WaitEvent, At
  <2> QED  BY <1>6, <1>8, <1>9, <2>1
<1>17. CASE LockPll \/ BypassPll \/ ReadGates \/ WriteGates \/ AssignGates \/ DelayEnds \/ Prints
            \/ ConfPins \/ WriteChipSelect
  <2>1. ~ Done /\ taken' = taken + 1 /\ pend' = pend /\ Op.op # "wait"
    BY <1>17 DEF LockPll, BypassPll, ReadGates, WriteGates, AssignGates, DelayEnds, Prints, ConfPins,
                 WriteChipSelect, Step, At
  <2> QED  BY <1>10, <2>1
<1>18. CASE Finish \/ Locks \/ Ended \/ UNCHANGED vars
  <2>1. taken' = taken /\ pend' \subseteq pend
    BY <1>18 DEF Finish, Locks, Ended, vars
  <2> QED  BY <1>9, <2>1
<1> QED
  BY <1>12, <1>13, <1>14, <1>15, <1>16, <1>17, <1>18 DEF Next, CpuStep, Hardware

-----------------------------------------------------------------------------
(* Watchdog *)

\* The invariant of the watchdog holds at reset.
LEMMA InitWatchdog == Init => WatchdogInv
<1> SUFFICES ASSUME Init PROVE WatchdogInv
  OBVIOUS
<1>1. taken = 0 /\ (IsAt91 /\ FirstStage => wdt = "off")
  BY DEF Init
<1> QED  BY <1>1, SinceNone DEF WatchdogInv

\* Every step keeps the watchdog as its last keys left it.
LEMMA WatchdogStep ==
  TypeInv /\ EventInv /\ WatchdogInv /\ StopsWatchdog(Prog) /\ [Next]_vars => WatchdogInv'
<1> SUFFICES ASSUME TypeInv, EventInv, WatchdogInv, StopsWatchdog(Prog), [Next]_vars
             PROVE  WatchdogInv'
  OBVIOUS
<1>1. board' = board /\ Prog' = Prog
  BY Progress
<1> DEFINE FirstKey == Keys({"AAAA"})
           LastKey == Keys({"5555", "off"})
           Each == OfKind("wdt")
           Inv(n, w) == /\ Since(Prog, n, FirstKey, LastKey) => w = "key"
                        /\ Since(Prog, n, LastKey, Each) => w = "off"
                        /\ IsAt91 /\ FirstStage => w = "off"
<1>2. Keys({"off", "5555"}) = LastKey
  BY DEF Keys
<1>3. Inv(taken, wdt)
  BY <1>2 DEF WatchdogInv
<1>4. SUFFICES Inv(taken', wdt')
  BY <1>1, <1>2, <1>4 DEF WatchdogInv, IsAt91
<1>5. ~ Done => Op \in Steps /\ Op = Prog[taken + 1] /\ taken \in Nat /\ taken + 1 \in 1 .. Len(Prog)
  BY OpTyped DEF TypeInv
<1>6. ~ Done => /\ Since(Prog, taken + 1, FirstKey, LastKey)
                     <=> Op \in FirstKey \/ (Op \notin LastKey /\ Since(Prog, taken, FirstKey, LastKey))
                /\ Since(Prog, taken + 1, LastKey, Each)
                     <=> Op \in LastKey \/ (Op \notin Each /\ Since(Prog, taken, LastKey, Each))
  BY SinceNext
<1>7. /\ Op \in FirstKey <=> Op \in Steps /\ Op.op = "wdt" /\ Op.key = "AAAA"
      /\ Op \in LastKey <=> Op \in Steps /\ Op.op = "wdt" /\ Op.key \in {"5555", "off"}
      /\ Op \in Each <=> Op \in Steps /\ Op.op = "wdt"
  BY DEF Keys, OfKind
<1>8. ~ Done /\ Op.op = "wdt" /\ Op.key = "5555" => Since(Prog, taken, FirstKey, LastKey)
  <2>1. ASSUME ~ Done, Op.op = "wdt", Op.key = "5555" PROVE Since(Prog, taken, FirstKey, LastKey)
    <3>1. Prog[taken + 1] \in Keys({"5555"})
      BY <1>5, <2>1 DEF Keys
    <3>2. Since(Prog, (taken + 1) - 1, FirstKey, LastKey)
      BY <1>5, <2>1, <3>1 DEF StopsWatchdog, Guarded
    <3> QED  BY <1>5, <2>1, <3>2
  <2> QED  BY <2>1
<1>9. ~ Done /\ Op.op = "wdt" => "wdt_write" \notin pend
  <2>1. ASSUME ~ Done, Op.op = "wdt" PROVE "wdt_write" \notin pend
    <3>1. Prog[taken + 1] \in OfKind("wdt")
      BY <1>5, <2>1 DEF OfKind
    <3>2. ~ Since(Prog, (taken + 1) - 1, Starts("wdt_write"), WaitsFor("wdt_write"))
      BY <1>5, <2>1, <3>1 DEF StopsWatchdog, Apart
    <3>3. "wdt_write" \notin AtReset
      BY DEF AtReset
    <3> QED  BY <1>5, <2>1, <3>2, <3>3 DEF EventInv
  <2> QED  BY <2>1
<1>10. IsAt91 /\ ~ Done => Op.op # "wdt"
  BY <1>5 DEF StopsWatchdog, Without, OfKind
<1> HIDE DEF FirstKey, LastKey, Each
<1>11. CASE taken' = taken /\ wdt' = wdt
  BY <1>3, <1>11
<1>12. CASE ~ Done /\ taken' = taken + 1 /\ wdt' = wdt /\ Op.op # "wdt"
  BY <1>3, <1>6, <1>7, <1>12
<1>13. CASE WriteWatchdog
  <2>1. ~ Done /\ taken' = taken + 1 /\ Op.op = "wdt" /\ WatchdogTakes(Op.key)
    BY <1>13 DEF WriteWatchdog, Step, At
  <2>2. Op.key \in {"off", "AAAA", "5555"}
    BY <1>5, <2>1, StepFields
  <2>3. CASE Op.key = "off"
    BY <1>5, <1>6, <1>7, <2>1, <2>3 DEF WatchdogTakes
  <2>4. CASE Op.key = "AAAA"
    <3>1. wdt' = "key"
      BY <1>9, <2>1, <2>4 DEF WatchdogTakes
    <3> QED  BY <1>5, <1>6, <1>7, <1>10, <2>1, <2>4, <3>1
  <2>5. CASE Op.key = "5555"
    <3>1. wdt' = "off"
      BY <1>3, <1>8, <1>9, <2>1, <2>5 DEF WatchdogTakes
    <3> QED  BY <1>5, <1>6, <1>7, <1>10, <2>1, <2>5, <3>1
  <2> QED  BY <2>2, <2>3, <2>4, <2>5
<1>14. CASE SetFields \/ LockPll \/ BypassPll \/ ReadGates \/ WriteGates \/ AssignGates \/ DelayEnds
            \/ Prints \/ WriteUart \/ MemCommand \/ ConfPins \/ WriteChipSelect
  <2>1. ~ Done /\ taken' = taken + 1 /\ wdt' = wdt /\ Op.op # "wdt"
    BY <1>14 DEF SetFields, LockPll, BypassPll, ReadGates, WriteGates, AssignGates, DelayEnds, Prints,
                 WriteUart, MemCommand, ConfPins, WriteChipSelect, Step, At
  <2> QED  BY <1>12, <2>1
<1>15. CASE WaitEvent
  <2>1. ~ Done /\ (taken' = taken \/ taken' = taken + 1) /\ wdt' = wdt /\ Op.op # "wdt"
    BY <1>15 DEF WaitEvent, At
  <2> QED  BY <1>11, <1>12, <2>1
<1>16. CASE Finish \/ Locks \/ Ended \/ UNCHANGED vars
  BY <1>11, <1>16 DEF Finish, Locks, Ended, vars
<1> QED
  BY <1>13, <1>14, <1>15, <1>16 DEF Next, CpuStep, Hardware

\* Where something before g-bios has stopped the watchdog of at91, the watchdog
\* of every board has been stopped when the init calls have ended, however long
\* its first write was under way; on omap4 the code is switched off.
THEOREM WatchdogIsStopped == FirstStage => (Spec => []WatchdogStops)
<1> SUFFICES ASSUME FirstStage PROVE Spec => []WatchdogStops
  OBVIOUS
<1> DEFINE I == TypeInv /\ EventInv /\ WatchdogInv
<1>0. ASSUME TypeInv PROVE StopsWatchdog(Prog)
  BY <1>0, ProgTyped, AllStopWatchdog DEF TypeInv
<1>1. Init => I
  BY InitTyped, InitEvents, InitWatchdog
<1>2. I /\ [Next]_vars => I'
  BY <1>0, StepTypedInv, EventStep, WatchdogStep
<1>3. I => WatchdogStops
  <2> SUFFICES ASSUME I, Done, IsOmap \/ IsS3C \/ IsAt91, board # "omap4"
               PROVE  wdt = "off"
    BY DEF WatchdogStops
  <2>1. CASE IsAt91
    BY <2>1 DEF WatchdogInv
  <2>2. CASE board \in Omap3Boards \/ IsS3C
    <3>1. Since(Prog, taken, Keys({"off", "5555"}), OfKind("wdt"))
      BY <1>0, <2>2 DEF StopsWatchdog, Done
    <3> QED  BY <3>1 DEF WatchdogInv
  <2> QED  BY <2>1, <2>2 DEF IsOmap
<1> QED  BY <1>1, <1>2, <1>3, PTL DEF Spec

-----------------------------------------------------------------------------
(* PLLs *)

\* No PLL is locking at reset.
LEMMA InitLock == Init => LockInv
<1> SUFFICES ASSUME Init PROVE LockInv
  OBVIOUS
<1>1. taken = 0 /\ locking = {}
  BY DEF Init
<1>2. board \in S3C24Boards => reg["SEL"] = 1
  BY DEF Init, Fields, S3C64xFields
<1>3. \A q : ~ IsLocking(q)
  BY <1>1 DEF IsLocking
<1> QED  BY <1>1, <1>2, <1>3, SinceNone DEF LockInv

\* SEL is written only with 1 where it says what the processor runs on.
LEMMA SelStep ==
  ASSUME TypeInv, LockInv, Selected(Prog), [Next]_vars
  PROVE  /\ board \in S3C24Boards => reg'["SEL"] = 1
         /\ IsS3C /\ Since(Prog, taken', Selects, {}) => reg'["SEL"] = 1
<1> SUFFICES ASSUME IsS3C
             PROVE  /\ board \in S3C24Boards => reg'["SEL"] = 1
                    /\ Since(Prog, taken', Selects, {}) => reg'["SEL"] = 1
  BY DEF IsS3C
<1>1. /\ board \in S3C24Boards => reg["SEL"] = 1
      /\ Since(Prog, taken, Selects, {}) => reg["SEL"] = 1
  BY DEF LockInv
<1>2. ~ Done => Op \in Steps /\ Op = Prog[taken + 1] /\ taken + 1 \in 1 .. Len(Prog)
  BY OpTyped
<1>3. ~ Done => (Since(Prog, taken + 1, Selects, {}) <=> Op \in Selects \/ Since(Prog, taken, Selects, {}))
  BY SinceNext
<1>4. Op \in Selects => Op.op = "set" /\ "SEL" \in DOMAIN Op.f
  BY DEF Selects
<1>5. "SEL" \in Fields /\ reg \in [Fields -> Nat]
  BY DEF Fields, S3C64xFields, TypeInv
<1>6. CASE taken' = taken /\ reg' = reg
  BY <1>1, <1>6
<1>7. CASE ~ Done /\ taken' = taken + 1 /\ reg'["SEL"] = reg["SEL"] /\ Op \notin Selects
  BY <1>1, <1>3, <1>7
<1>8. CASE SetFields
  <2>1. /\ ~ Done /\ taken' = taken + 1 /\ Op.op = "set"
        /\ reg' = [f \in Fields |-> IF f \in DOMAIN Op.f THEN Op.f[f] ELSE reg[f]]
    BY <1>8 DEF SetFields, Step, At
  <2>2. CASE "SEL" \in DOMAIN Op.f
    <3>1. Op \in Selects
      BY <1>2, <2>1, <2>2 DEF Selects
    <3>2. Op.f["SEL"] = 1
      BY <1>2, <2>1, <3>1 DEF Selected, Without
    <3> QED  BY <1>5, <2>1, <2>2, <3>2
  <2>3. CASE "SEL" \notin DOMAIN Op.f
    <3>1. Op \notin Selects /\ reg'["SEL"] = reg["SEL"]
      BY <1>4, <1>5, <2>1, <2>3
    <3> QED  BY <1>7, <2>1, <3>1
  <2> QED  BY <2>2, <2>3
<1>9. CASE WriteUart
  <2>1. /\ ~ Done /\ taken' = taken + 1 /\ Op.op = "uart"
        /\ reg' = [reg EXCEPT ![UartTarget(Op.reg)] = Op.val]
    BY <1>9 DEF WriteUart, Step, At
  <2>2. UartTarget(Op.reg) # "SEL"
    <3>1. Op.reg \in Uart16550
      BY <1>2, <2>1, StepFields
    <3> QED  BY <3>1 DEF UartTarget, Uart16550
  <2>3. reg'["SEL"] = reg["SEL"]
    BY <1>5, <2>1, <2>2
  <2> QED  BY <1>4, <1>7, <2>1, <2>3
<1>10. CASE WriteChipSelect
  <2>1. ~ Done /\ taken' = taken + 1 /\ Op.op = "cs" /\ reg' = [reg EXCEPT !["CS"] = Op.on]
    BY <1>10 DEF WriteChipSelect, Step, At
  <2>2. reg'["SEL"] = reg["SEL"]
    BY <1>5, <2>1
  <2> QED  BY <1>4, <1>7, <2>1, <2>2
<1>11. CASE LockPll \/ BypassPll \/ ReadGates \/ WriteGates \/ AssignGates \/ DelayEnds \/ Prints
            \/ WriteWatchdog \/ MemCommand \/ ConfPins
  <2>1. ~ Done /\ taken' = taken + 1 /\ reg' = reg /\ Op.op # "set"
    BY <1>11 DEF LockPll, BypassPll, ReadGates, WriteGates, AssignGates, DelayEnds, Prints,
                 WriteWatchdog, MemCommand, ConfPins, Step, At
  <2> QED  BY <1>4, <1>7, <2>1
<1>12. CASE WaitEvent
  <2>1. ~ Done /\ (taken' = taken \/ taken' = taken + 1) /\ reg' = reg /\ Op.op # "set"
    BY <1>12 DEF WaitEvent, At
  <2> QED  BY <1>4, <1>6, <1>7, <2>1
<1>13. CASE Finish \/ Locks \/ Ended \/ UNCHANGED vars
  BY <1>6, <1>13 DEF Finish, Locks, Ended, vars
<1> QED
  BY <1>8, <1>9, <1>10, <1>11, <1>12, <1>13 DEF Next, CpuStep, Hardware

\* A PLL is locking only between the request and what settles it.
LEMMA LockStep == TypeInv /\ LockInv /\ Selected(Prog) /\ [Next]_vars => LockInv'
<1> SUFFICES ASSUME TypeInv, LockInv, Selected(Prog), [Next]_vars PROVE LockInv'
  OBVIOUS
<1>1. board' = board /\ Prog' = Prog
  BY Progress
<1>2. /\ \A q : Settles(q)' = Settles(q)
      /\ IsS3C' <=> IsS3C
      /\ \A q : IsLocking(q)' <=> q \in locking'
      /\ \A q : IsLocking(q) <=> q \in locking
  BY <1>1 DEF Settles, IsS3C, IsLocking
<1>3. SUFFICES ASSUME NEW q \in Plls, q \in locking'
               PROVE  Since(Prog, taken', LocksPll(q), Settles(q))
  <2>1. LockInv' <=> /\ board \in S3C24Boards => reg'["SEL"] = 1
                     /\ IsS3C' /\ Since(Prog, taken', Selects, {}) => reg'["SEL"] = 1
                     /\ \A q \in Plls : IsLocking(q)' => Since(Prog, taken', LocksPll(q), Settles(q)')
    BY <1>1 DEF LockInv
  <2> QED  BY <1>2, <1>3, <2>1, SelStep
<1>4. q \in locking => Since(Prog, taken, LocksPll(q), Settles(q))
  BY <1>2 DEF LockInv
<1>5. ~ Done => Op \in Steps /\ Op = Prog[taken + 1] /\ taken + 1 \in 1 .. Len(Prog) /\ taken \in Nat
  BY OpTyped DEF TypeInv
<1>6. ~ Done => (Since(Prog, taken + 1, LocksPll(q), Settles(q))
                   <=> \/ Op \in LocksPll(q)
                       \/ Op \notin Settles(q) /\ Since(Prog, taken, LocksPll(q), Settles(q)))
  BY SinceNext
<1>8. q \in locking => locking # {}
  OBVIOUS
\* A step of the processor that settles a PLL is not taken while it locks.
<1>9. ASSUME ~ Done, ~ Stalled, q \in locking,
             Op.op # "delay", Op.op = "wait" => Op.event # q, Op.op = "bypass" => Op.pll # q
      PROVE  Op \notin Settles(q)
  <2>1. board \notin S3C24Boards
    BY <1>8, <1>9 DEF LockInv, Stalled, IsS3C
  <2>2. ~ (board = "s3c6410" /\ Op.op = "set" /\ "CLK_DIV0" \in DOMAIN Op.f)
    <3> SUFFICES ASSUME board = "s3c6410", Op.op = "set", "CLK_DIV0" \in DOMAIN Op.f PROVE FALSE
      OBVIOUS
    <3>1. Prog[taken + 1] \in {s \in Steps : s.op = "set" /\ "CLK_DIV0" \in DOMAIN s.f}
      BY <1>5, <1>9
    <3>2. Since(Prog, (taken + 1) - 1, Selects, {})
      BY <1>5, <1>9, <3>1 DEF Selected, Guarded
    <3>3. reg["SEL"] = 1
      BY <1>5, <1>9, <3>2 DEF LockInv, IsS3C
    <3> QED  BY <1>8, <1>9, <3>3 DEF Stalled, IsS3C
  <2> QED  BY <1>9, <2>1, <2>2 DEF Settles
<1>10. CASE taken' = taken /\ q \in locking
  BY <1>4, <1>10
<1>11. CASE ~ Done /\ ~ Stalled /\ taken' = taken + 1 /\ q \in locking /\ Op.op # "delay"
             /\ (Op.op = "wait" => Op.event # q) /\ (Op.op = "bypass" => Op.pll # q)
  BY <1>4, <1>6, <1>9, <1>11
<1>12. CASE LockPll
  <2>1. ~ Done /\ ~ Stalled /\ taken' = taken + 1 /\ Op.op = "lock" /\ locking' = locking \cup {Op.pll}
    BY <1>12 DEF LockPll, Step, At
  <2>2. Op.pll = q \/ q \in locking
    BY <1>3, <2>1
  <2>3. Op.pll = q => Op \in LocksPll(q)
    BY <1>5, <2>1 DEF LocksPll
  <2> QED  BY <1>6, <1>11, <2>1, <2>2, <2>3
<1>13. CASE BypassPll
  <2>1. ~ Done /\ ~ Stalled /\ taken' = taken + 1 /\ Op.op = "bypass" /\ locking' = locking \ {Op.pll}
    BY <1>13 DEF BypassPll, Step, At
  <2>2. Op.pll # q /\ q \in locking
    BY <1>3, <2>1
  <2> QED  BY <1>11, <2>1, <2>2
<1>14. CASE WaitEvent
  <2>1. /\ ~ Done /\ ~ Stalled /\ Op.op = "wait" /\ q \in locking
        /\ taken' = IF Op.event \in pend \/ IsLocking(Op.event) THEN taken ELSE taken + 1
    BY <1>3, <1>14 DEF WaitEvent, At
  <2> QED  BY <1>2, <1>10, <1>11, <2>1
<1>15. CASE DelayEnds
  BY <1>3, <1>8, <1>15 DEF DelayEnds
<1>16. CASE SetFields \/ ReadGates \/ WriteGates \/ AssignGates \/ Prints \/ WriteWatchdog \/ WriteUart
            \/ MemCommand \/ ConfPins \/ WriteChipSelect
  <2>1. /\ ~ Done /\ ~ Stalled /\ taken' = taken + 1 /\ q \in locking
        /\ Op.op \notin {"delay", "wait", "bypass"}
    BY <1>3, <1>16 DEF SetFields, ReadGates, WriteGates, AssignGates, Prints, WriteWatchdog, WriteUart,
                       MemCommand, ConfPins, WriteChipSelect, Step, At
  <2> QED  BY <1>11, <2>1
<1>17. CASE Finish \/ Ended \/ UNCHANGED vars
  <2>1. taken' = taken /\ q \in locking
    BY <1>3, <1>17 DEF Finish, Ended, vars
  <2> QED  BY <1>10, <2>1
<1>18. CASE Locks
  <2>1. taken' = taken /\ q \in locking
    BY <1>3, <1>18 DEF Locks
  <2> QED  BY <1>10, <2>1
<1> QED
  BY <1>12, <1>13, <1>14, <1>15, <1>16, <1>17, <1>18 DEF Next, CpuStep, Hardware

-----------------------------------------------------------------------------
(* SDRAM *)

\* No command has been sent at reset.
LEMMA InitMem == Init => MemInv
<1> SUFFICES ASSUME Init PROVE MemInv
  OBVIOUS
<1>1. taken = 0 /\ mem = <<>>
  BY DEF Init
<1> DEFINE at == [i \in {k \in 1 .. taken : Prog[k].op = "mem"} |-> 0]
<1>2. {k \in 1 .. taken : Prog[k].op = "mem"} = {}
  BY <1>1
<1>3. at \in [{i \in 1 .. taken : Prog[i].op = "mem"} -> 1 .. Len(mem)] /\ DOMAIN at = {}
  BY <1>2
<1> HIDE DEF at
<1>4. /\ \A i \in DOMAIN at : mem[at[i]] = <<Prog[i].chip, Prog[i].cmd>>
      /\ \A i, j \in DOMAIN at : i # j => at[i] # at[j]
  BY <1>3
<1>5. mem \in Seq((0 .. 2) \X Commands)
  BY <1>1
<1> QED  BY Zenon, <1>3, <1>4, <1>5 DEF MemInv

\* The commands that have been sent are those of the steps taken.
LEMMA MemStep == TypeInv /\ MemInv /\ [Next]_vars => MemInv'
<1> SUFFICES ASSUME TypeInv, MemInv, [Next]_vars PROVE MemInv'
  OBVIOUS
<1>1. Prog' = Prog
  BY Progress
<1> DEFINE Sent(n) == {i \in 1 .. n : Prog[i].op = "mem"}
           Is(n, m, at) == /\ at \in [Sent(n) -> 1 .. Len(m)]
                           /\ \A i \in Sent(n) : m[at[i]] = <<Prog[i].chip, Prog[i].cmd>>
                           /\ \A i, j \in Sent(n) : i # j => at[i] # at[j]
<1>2. PICK at : Is(taken, mem, at)
  <2>1. PICK at \in [Sent(taken) -> 1 .. Len(mem)] :
          /\ \A i \in DOMAIN at : mem[at[i]] = <<Prog[i].chip, Prog[i].cmd>>
          /\ \A i, j \in DOMAIN at : i # j => at[i] # at[j]
    BY Zenon DEF MemInv
  <2>2. DOMAIN at = Sent(taken)
    BY <2>1
  <2>3. Is(taken, mem, at)
    BY <2>1, <2>2
  <2> QED  BY Zenon, <2>3
<1>3. mem \in Seq((0 .. 2) \X Commands)
  BY DEF MemInv
<1>4. SUFFICES mem' \in Seq((0 .. 2) \X Commands) /\ \E new : Is(taken', mem', new)
  <2>1. PICK new : Is(taken', mem', new)
    BY Zenon, <1>4
  <2>2. DOMAIN new = Sent(taken') /\ new \in [Sent(taken') -> 1 .. Len(mem')]
    BY <2>1
  <2>3. /\ \A i \in DOMAIN new : mem'[new[i]] = <<Prog[i].chip, Prog[i].cmd>>
        /\ \A i, j \in DOMAIN new : i # j => new[i] # new[j]
    BY <2>1, <2>2
  <2> QED  BY Zenon, <1>1, <1>4, <2>2, <2>3 DEF MemInv
<1>5. ~ Done => Op \in Steps /\ Op = Prog[taken + 1] /\ taken \in Nat
  BY OpTyped DEF TypeInv
<1>6. taken \in Nat /\ Len(mem) \in Nat
  BY <1>3 DEF TypeInv
<1>7. CASE taken' = taken /\ mem' = mem
  BY Zenon, <1>2, <1>3, <1>7
<1>8. CASE ~ Done /\ taken' = taken + 1 /\ mem' = mem /\ Op.op # "mem"
  <2>1. Sent(taken + 1) = Sent(taken)
    BY <1>5, <1>6, <1>8
  <2> HIDE DEF Sent
  <2> QED  BY <1>2, <1>3, <1>8, <2>1
<1>9. CASE MemCommand
  <2>1. ~ Done /\ taken' = taken + 1 /\ Op.op = "mem" /\ mem' = Append(mem, <<Op.chip, Op.cmd>>)
    BY <1>9 DEF MemCommand, Step, At
  <2>2. <<Op.chip, Op.cmd>> \in (0 .. 2) \X Commands
    BY <1>5, <2>1, StepFields
  <2> DEFINE m == Len(mem)
             new == [i \in Sent(taken + 1) |-> IF i = taken + 1 THEN m + 1 ELSE at[i]]
  <2>3. /\ mem' \in Seq((0 .. 2) \X Commands) /\ Len(mem') = m + 1
        /\ mem'[m + 1] = <<Op.chip, Op.cmd>> /\ \A i \in 1 .. m : mem'[i] = mem[i]
    BY <1>3, <2>1, <2>2
  <2>4. /\ Sent(taken + 1) = Sent(taken) \cup {taken + 1} /\ taken + 1 \notin Sent(taken)
    BY <1>5, <1>6, <2>1
  <2>5. Op = Prog[taken + 1]
    BY <1>5, <2>1
  <2> HIDE DEF Sent
  <2>6. \A i \in Sent(taken) : at[i] \in 1 .. m /\ new[i] = at[i] /\ i \in Sent(taken + 1)
    BY <1>2, <2>4
  <2>7. new[taken + 1] = m + 1
    BY <2>4
  <2>8. m \in Nat
    BY <1>6
  <2> HIDE DEF new, m
  <2>9. \A i \in Sent(taken + 1) : new[i] \in 1 .. m + 1 /\ mem'[new[i]] = <<Prog[i].chip, Prog[i].cmd>>
    BY <1>2, <2>3, <2>4, <2>5, <2>6, <2>7, <2>8
  <2>10. \A i, j \in Sent(taken + 1) : i # j => new[i] # new[j]
    <3>1. \A i \in Sent(taken) : new[i] # m + 1
      BY <2>6, <2>8
    <3> QED  BY <1>2, <2>4, <2>6, <2>7, <3>1
  <2>11. new \in [Sent(taken + 1) -> 1 .. m + 1]
    BY <2>9 DEF new
  <2>12. Is(taken', mem', new)
    BY <2>1, <2>3, <2>9, <2>10, <2>11
  <2> QED  BY Zenon, <2>3, <2>12
<1>10. CASE SetFields \/ LockPll \/ BypassPll \/ ReadGates \/ WriteGates \/ AssignGates \/ DelayEnds
            \/ Prints \/ WriteWatchdog \/ WriteUart \/ ConfPins \/ WriteChipSelect
  <2>1. ~ Done /\ taken' = taken + 1 /\ mem' = mem /\ Op.op # "mem"
    BY <1>10 DEF SetFields, LockPll, BypassPll, ReadGates, WriteGates, AssignGates, DelayEnds, Prints,
                 WriteWatchdog, WriteUart, ConfPins, WriteChipSelect, Step, At
  <2> QED  BY Zenon, <1>8, <2>1
<1>11. CASE WaitEvent
  <2>1. ~ Done /\ (taken' = taken \/ taken' = taken + 1) /\ mem' = mem /\ Op.op # "mem"
    BY <1>11 DEF WaitEvent, At
  <2> QED  BY Zenon, <1>7, <1>8, <2>1
<1>12. CASE Finish \/ Locks \/ Ended \/ UNCHANGED vars
  BY Zenon, <1>7, <1>12 DEF Finish, Locks, Ended, vars
<1> QED
  BY Zenon, <1>9, <1>10, <1>11, <1>12 DEF Next, CpuStep, Hardware

\* Commands that have been sent are counted.
LEMMA SentIsCounted ==
  ASSUME MemInv, NEW chip, NEW cmd, NEW i \in 1 .. taken, Prog[i] \in SendsCmd(chip, cmd)
  PROVE  /\ Times(chip, cmd) \in Nat /\ Times(chip, cmd) > 0
         /\ \A j \in 1 .. taken : j # i /\ Prog[j] \in SendsCmd(chip, cmd) => Times(chip, cmd) >= 2
<1> DEFINE S == {k \in 1 .. Len(mem) : mem[k] = <<chip, cmd>>}
<1>1. mem \in Seq((0 .. 2) \X Commands) /\ Len(mem) \in Nat
  BY DEF MemInv
<1>2. IsFiniteSet(S) /\ Cardinality(S) \in Nat
  <2>1. IsFiniteSet(1 .. Len(mem))
    BY <1>1, FS_Interval
  <2>2. S \in SUBSET (1 .. Len(mem))
    OBVIOUS
  <2>3. IsFiniteSet(S)
    BY <2>1, <2>2, FS_Subset
  <2> QED  BY <2>3, FS_CardinalityType
<1>3. PICK at \in [{k \in 1 .. taken : Prog[k].op = "mem"} -> 1 .. Len(mem)] :
        /\ \A k \in DOMAIN at : mem[at[k]] = <<Prog[k].chip, Prog[k].cmd>>
        /\ \A k, l \in DOMAIN at : k # l => at[k] # at[l]
  BY Zenon DEF MemInv
<1>4. \A k \in 1 .. taken : Prog[k] \in SendsCmd(chip, cmd) => k \in DOMAIN at /\ at[k] \in S
  BY <1>3 DEF SendsCmd
<1>5. at[i] \in S
  BY <1>4
<1>6. Times(chip, cmd) = Cardinality(S)
  BY DEF Times
<1> HIDE DEF S
<1>7. Cardinality(S) > 0
  <2>1. S # {}
    BY <1>5
  <2>2. Cardinality(S) # 0
    BY <1>2, <2>1, FS_EmptySet
  <2> QED  BY <1>2, <2>2
<1>8. ASSUME NEW j \in 1 .. taken, j # i, Prog[j] \in SendsCmd(chip, cmd)
      PROVE  Cardinality(S) >= 2
  <2>1. at[j] \in S /\ at[j] # at[i]
    BY <1>3, <1>4, <1>8
  <2>2. Cardinality(S \ {at[i]}) = Cardinality(S) - 1 /\ IsFiniteSet(S \ {at[i]})
    BY Zenon, <1>2, <1>5, FS_RemoveElement
  <2>3. S \ {at[i]} # {}
    BY <2>1
  <2>4. Cardinality(S \ {at[i]}) # 0 /\ Cardinality(S \ {at[i]}) \in Nat
    BY <2>2, <2>3, FS_EmptySet, FS_CardinalityType
  <2> QED  BY <1>2, <2>2, <2>4
<1> QED  BY <1>2, <1>6, <1>7, <1>8

-----------------------------------------------------------------------------
(* Units *)

\* The step that is next finds open what it needs.
LEMMA NeedsAreOpen ==
  ASSUME TypeInv, OpenInv, ~ Done
  PROVE  AreOpen(Needs(Op))
<1>1. Prog = ProgramOf(board) /\ ClocksFirst(Prog)
  BY ProgTyped, AllClockFirst DEF TypeInv
<1>2. Op \in Steps /\ taken + 1 \in 1 .. Len(Prog) /\ Op = Prog[taken + 1] /\ taken \in Nat
  BY OpTyped DEF TypeInv
<1>3. Needs(Op) \subseteq Domains \X Units
  <2>1. /\ ConsoleGates \subseteq Domains \X Units /\ WatchdogGates \subseteq Domains \X Units
        /\ \A chip : MemGates(chip) \subseteq Domains \X Units
    BY DEF ConsoleGates, WatchdogGates, MemGates, Domains, Units
  <2> QED  BY <2>1 DEF Needs
<1>4. ASSUME NEW g \in Needs(Op) PROVE g[2] \in gates[g[1]]
  <2>1. g \in Domains \X Units /\ Prog[taken + 1] \in Needing(g)
    BY <1>2, <1>3, <1>4 DEF Needing
  <2>2. Since(Prog, (taken + 1) - 1, Opens(g), Closes(g))
    BY <1>1, <1>2, <2>1 DEF ClocksFirst, Guarded
  <2>3. Since(Prog, taken, Opens(g), Closes(g))
    BY <1>2, <2>2
  <2> QED  BY <2>1, <2>3 DEF OpenInv
<1> QED  BY <1>4 DEF AreOpen

\* What the step that is next would disturb is over.
LEMMA EventIsOver ==
  ASSUME TypeInv, EventInv, ~ Done, NEW e, e \notin AtReset, NEW T, Op \in T,
         Apart(Prog, T, Starts(e), WaitsFor(e))
  PROVE  e \notin pend
<1>1. taken + 1 \in 1 .. Len(Prog) /\ Op = Prog[taken + 1] /\ taken \in Nat
  BY OpTyped DEF TypeInv
<1>2. ~ Since(Prog, (taken + 1) - 1, Starts(e), WaitsFor(e))
  BY <1>1 DEF Apart
<1>3. ~ Since(Prog, taken, Starts(e), WaitsFor(e))
  BY <1>1, <1>2
<1> QED  BY <1>3 DEF EventInv

\* The next step finds its unit clocked and not being reset.
LEMMA ClockedAccess == TypeInv /\ OpenInv /\ EventInv => AccessClocked
<1> SUFFICES ASSUME TypeInv, OpenInv, EventInv, ~ Done
             PROVE  /\ Op.op = "uart" => AreOpen(ConsoleGates) /\ "uart_reset" \notin pend
                    /\ Op.op = "wdt"  => AreOpen(WatchdogGates) /\ (IsOmap => "wdt_awake" \notin pend)
                    /\ Op.op = "mem"  => AreOpen(MemGates(Op.chip))
  BY DEF AccessClocked
<1>1. Prog = ProgramOf(board) /\ ClocksFirst(Prog)
  BY ProgTyped, AllClockFirst DEF TypeInv
<1>2. Op \in Steps /\ taken + 1 \in 1 .. Len(Prog) /\ Op = Prog[taken + 1] /\ taken \in Nat
  BY OpTyped DEF TypeInv
<1>3. AreOpen(Needs(Op))
  BY NeedsAreOpen
<1>4. /\ Op.op = "uart" => AreOpen(ConsoleGates)
      /\ Op.op = "wdt"  => AreOpen(WatchdogGates)
      /\ Op.op = "mem"  => AreOpen(MemGates(Op.chip))
  BY <1>3 DEF Needs
<1>5. ASSUME Op.op = "uart" PROVE "uart_reset" \notin pend
  <2>1. Op \in OfKind("uart") \cup OfKind("print") /\ "uart_reset" \notin AtReset
    BY <1>2, <1>5 DEF OfKind, AtReset
  <2>2. Apart(Prog, OfKind("uart") \cup OfKind("print"), Starts("uart_reset"), WaitsFor("uart_reset"))
    BY <1>1 DEF ClocksFirst
  <2> QED  BY <2>1, <2>2, EventIsOver
<1>6. ASSUME Op.op = "wdt", IsOmap PROVE "wdt_awake" \notin pend
  <2>1. Guarded(Prog, OfKind("wdt"), WaitsFor("wdt_awake"), {})
    BY <1>1, <1>6 DEF ClocksFirst
  <2>2. Prog[taken + 1] \in OfKind("wdt")
    BY <1>2, <1>6 DEF OfKind
  <2>3. Since(Prog, (taken + 1) - 1, WaitsFor("wdt_awake"), {})
    BY <1>2, <2>1, <2>2 DEF Guarded
  <2>4. \E i \in 1 .. taken : Prog[i] \in WaitsFor("wdt_awake")
    BY <1>2, <2>3 DEF Since
  <2>5. Starts("wdt_awake") = {}
    BY StartKinds DEF AtReset
  <2>6. ~ Since(Prog, taken, Starts("wdt_awake"), WaitsFor("wdt_awake"))
    BY <2>5 DEF Since
  <2> QED  BY <2>4, <2>6 DEF EventInv
<1> QED  BY <1>4, <1>5, <1>6

\* No register is accessed of a unit that is not clocked, or being reset.
THEOREM UnitsAreClocked == Spec => []AccessClocked
<1> DEFINE I == TypeInv /\ OpenInv /\ EventInv
<1>1. Init => I
  BY InitTyped, InitGates, InitEvents
<1>2. I /\ [Next]_vars => I'
  BY StepTypedInv, OpenStep, EventStep
<1>3. I => AccessClocked
  BY ClockedAccess
<1> QED  BY <1>1, <1>2, <1>3, PTL DEF Spec

-----------------------------------------------------------------------------
(* The order of SDRAM commands *)

\* The next command finds sent what it builds on.
LEMMA OrderedCommands ==
  TypeInv /\ EventInv /\ LockInv /\ MemInv => SdramOrder
<1> SUFFICES ASSUME TypeInv, EventInv, LockInv, MemInv, ~ Done, Op.op = "mem"
             PROVE  /\ \A c \in Before(Op.cmd) : Times(Op.chip, c) > 0
                    /\ "REF" \in Before(Op.cmd) => Times(Op.chip, "REF") >= 2
                    /\ Op.cmd # "MRR" =>
                         pend \cap {"mem_reset", "mem_init", "mem_DLL", "mem_ready"} = {}
                    /\ ~ IsLocking("core") /\ ~ IsLocking("mpll")
  BY DEF SdramOrder
<1>1. Prog = ProgramOf(board) /\ OrdersSdram(Prog)
  BY ProgTyped, AllOrderSdram DEF TypeInv
<1>2. /\ Op \in Steps /\ taken + 1 \in 1 .. Len(Prog) /\ Op = Prog[taken + 1]
      /\ taken \in Nat /\ (taken + 1) - 1 = taken
  BY OpTyped DEF TypeInv
<1>3. Op.chip \in 0 .. 2 /\ Op.cmd \in Commands /\ Prog[taken + 1] \in SendsCmd(Op.chip, Op.cmd)
  BY <1>2, StepFields DEF SendsCmd
<1>4. ASSUME NEW c \in Before(Op.cmd) PROVE Times(Op.chip, c) > 0
  <2>1. Guarded(Prog, SendsCmd(Op.chip, Op.cmd), SendsCmd(Op.chip, c), {})
    BY <1>1, <1>3 DEF OrdersSdram
  <2>2. Since(Prog, taken, SendsCmd(Op.chip, c), {})
    BY <1>2, <1>3, <2>1 DEF Guarded
  <2>3. PICK i \in 1 .. taken : Prog[i] \in SendsCmd(Op.chip, c)
    BY <2>2 DEF Since
  <2> QED  BY <2>3, SentIsCounted
<1>5. ASSUME "REF" \in Before(Op.cmd) PROVE Times(Op.chip, "REF") >= 2
  <2>1. Twice(Prog, SendsCmd(Op.chip, Op.cmd), SendsCmd(Op.chip, "REF"))
    BY <1>1, <1>3, <1>5 DEF OrdersSdram
  <2>2. PICK j, k \in 1 .. taken :
          j # k /\ Prog[j] \in SendsCmd(Op.chip, "REF") /\ Prog[k] \in SendsCmd(Op.chip, "REF")
    BY <1>2, <1>3, <2>1 DEF Twice
  <2> QED  BY <2>2, SentIsCounted
<1>6. ASSUME Op.cmd # "MRR", NEW e \in MemEvents PROVE e \notin pend
  <2> DEFINE T == {s \in Steps : s.op = "mem" /\ s.cmd # "MRR"}
  <2>1. Op \in T /\ e \notin AtReset
    BY <1>2, <1>6 DEF AtReset, MemEvents
  <2>2. Apart(Prog, T, Starts(e), WaitsFor(e))
    BY <1>1 DEF OrdersSdram
  <2> HIDE DEF T
  <2> QED  BY <2>1, <2>2, EventIsOver
<1>7. ASSUME NEW q \in {"core", "mpll"} PROVE ~ IsLocking(q)
  <2>1. Apart(Prog, OfKind("mem"), LocksPll(q), Settles(q))
    BY <1>1 DEF OrdersSdram
  <2>2. Prog[taken + 1] \in OfKind("mem")
    BY <1>2 DEF OfKind
  <2>3. ~ Since(Prog, taken, LocksPll(q), Settles(q))
    BY <1>2, <2>1, <2>2 DEF Apart
  <2> QED  BY <2>3 DEF LockInv, Plls
<1> QED  BY <1>4, <1>5, <1>6, <1>7 DEF MemEvents

\* Each SDRAM command comes after those it builds on, to a controller that is
\* not busy and has its clock.
THEOREM SdramIsInOrder == Spec => []SdramOrder
<1> DEFINE I == TypeInv /\ EventInv /\ LockInv /\ MemInv
<1>0. ASSUME TypeInv PROVE Selected(Prog)
  BY <1>0, ProgTyped, AllSelected DEF TypeInv
<1>1. Init => I
  BY InitTyped, InitEvents, InitLock, InitMem
<1>2. I /\ [Next]_vars => I'
  BY <1>0, StepTypedInv, EventStep, LockStep, MemStep
<1>3. I => SdramOrder
  BY OrderedCommands
<1> QED  BY <1>1, <1>2, <1>3, PTL DEF Spec

-----------------------------------------------------------------------------
(* The console *)

\* The kinds of steps that give fields values.
LEMMA PutsKinds ==
  ASSUME NEW f, NEW v
  PROVE  /\ \A s \in Puts(f, v) \cup Spoils(f, v) : s \in Steps /\ s.op \in {"set", "uart"}
         /\ f \in KnownFields \ Uart16550 =>
              \A s \in Puts(f, v) \cup Spoils(f, v) : s.op = "set" /\ f \in DOMAIN s.f
<1>1. \A s \in Puts(f, v) \cup Spoils(f, v) : s \in Steps /\ s.op \in {"set", "uart"}
  BY DEF Puts, Spoils
<1>2. ASSUME f \in KnownFields \ Uart16550, NEW s \in Puts(f, v) \cup Spoils(f, v)
      PROVE  s.op = "set" /\ f \in DOMAIN s.f
  <2>1. Sharing(f) = {f}
    BY <1>2 DEF Sharing, Uart16550
  <2>2. s \in Steps /\ (s.op = "uart" => s.reg \in Uart16550)
    BY <1>1, <1>2, StepFields
  <2> QED  BY <1>2, <2>1, <2>2 DEF Puts, Spoils
<1> QED  BY <1>1, <1>2

\* Which register of the 16550 a write changes.
LEMMA TargetIs ==
  ASSUME NEW r \in Uart16550
  PROVE  /\ UartTarget(r) \in Uart16550
         /\ \A f \in KnownFields : UartTarget(r) = f => r \in Sharing(f)
         /\ \A f \in KnownFields : r = f /\ (f \in {"DLL", "DLH"} => Latched) => UartTarget(r) = f
<1>1. UartTarget(r) \in Uart16550
  BY DEF UartTarget, Uart16550
<1>2. \A f \in KnownFields : UartTarget(r) = f => r \in Sharing(f)
  BY DEF UartTarget, Uart16550, KnownFields, Sharing
<1>3. \A f \in KnownFields : r = f /\ (f \in {"DLL", "DLH"} => Latched) => UartTarget(r) = f
  BY DEF UartTarget, Uart16550, KnownFields
<1> QED  BY <1>1, <1>2, <1>3

\* The values are as at reset until a step gives others.
LEMMA InitValues == Init => ValueInv
<1> SUFFICES ASSUME Init PROVE ValueInv
  OBVIOUS
<1>1. taken = 0
  BY DEF Init
<1>2. ASSUME IsAt91, FirstStage
      PROVE  /\ reg["MULA"] = At91Pll(At91Chip(board)).mula
             /\ reg["DIVA"] = At91Pll(At91Chip(board)).diva
  <2>1. PICK lcr \in ResetLcr, cs \in {0, 1} :
          reg = [f \in Fields |->
                   CASE f = "LCR" -> lcr
                     [] f = "CS"  -> cs
                     [] f = "SEL" -> IF board \in S3C24Boards THEN 1 ELSE 0
                     [] f = "MULA" /\ FirstStage /\ IsAt91 -> At91Pll(At91Chip(board)).mula
                     [] f = "DIVA" /\ FirstStage /\ IsAt91 -> At91Pll(At91Chip(board)).diva
                     [] OTHER -> ResetValue(f)]
    BY DEF Init
  <2>2. "MULA" \in Fields /\ "DIVA" \in Fields
    BY DEF Fields, At91Fields
  <2> QED  BY <1>2, <2>1, <2>2
<1>3. \A A, B : ~ Since(Prog, taken, A, B)
  BY <1>1, SinceNone
<1> QED  BY <1>2, <1>3 DEF ValueInv

\* A field has the value that the last step gave it.
LEMMA ValueStep ==
  ASSUME TypeInv, ValueInv, [Next]_vars, Guarded(Prog, Latches, OpensLatch, ClosesLatch),
         IsAt91 => Without(Prog, SetsMainPll)
  PROVE  ValueInv'
<1>1. board' = board /\ Prog' = Prog
  BY Progress
<1>2. ~ Done => Op \in Steps /\ Op = Prog[taken + 1] /\ taken + 1 \in 1 .. Len(Prog) /\ taken \in Nat
  BY OpTyped DEF TypeInv
<1>3. reg \in [Fields -> Nat] /\ "LCR" \in KnownFields /\ KnownFields \subseteq Fields
      /\ {"MULA", "DIVA"} \subseteq KnownFields /\ {"MULA", "DIVA"} \cap Uart16550 = {}
  BY DEF TypeInv, KnownFields, Fields, Uart16550, At91Fields
<1> DEFINE Holds(f, v, n, r) == Since(Prog, n, Puts(f, v), Spoils(f, v)) => r[f] = v
           IsOpen(n, r) == Since(Prog, n, OpensLatch, ClosesLatch) => r["LCR"] >= 128
           Main(r) == IsAt91 /\ FirstStage => /\ r["MULA"] = At91Pll(At91Chip(board)).mula
                                              /\ r["DIVA"] = At91Pll(At91Chip(board)).diva
<1>4. /\ \A f \in KnownFields, v \in Nat : Holds(f, v, taken, reg)
      /\ IsOpen(taken, reg) /\ Main(reg)
  BY DEF ValueInv, Latched
<1>5. SUFFICES /\ \A f \in KnownFields, v \in Nat : Holds(f, v, taken', reg')
               /\ IsOpen(taken', reg') /\ Main(reg')
  BY <1>1, <1>5 DEF ValueInv, Latched, IsAt91
<1>6. CASE taken' = taken /\ reg' = reg
  BY <1>4, <1>6
<1>7. ASSUME ~ Done, NEW A, NEW B
      PROVE  Since(Prog, taken + 1, A, B) <=> Op \in A \/ (Op \notin B /\ Since(Prog, taken, A, B))
  BY <1>7, SinceNext
<1>8. CASE /\ ~ Done /\ taken' = taken + 1 /\ Op.op \notin {"set", "uart"}
           /\ \A f \in KnownFields : reg'[f] = reg[f]
  <2>1. \A f \in KnownFields, v \in Nat : Op \notin Puts(f, v)
    BY <1>8, PutsKinds
  <2>2. Op \notin OpensLatch
    BY <1>8 DEF OpensLatch
  <2>3. \A f \in KnownFields, v \in Nat : Holds(f, v, taken', reg')
    BY <1>4, <1>7, <1>8, <2>1
  <2>4. IsOpen(taken', reg')
    BY <1>3, <1>4, <1>7, <1>8, <2>2
  <2>5. Main(reg')
    BY <1>3, <1>4, <1>8
  <2> QED  BY <2>3, <2>4, <2>5
<1>9. CASE SetFields
  <2>1. /\ ~ Done /\ taken' = taken + 1 /\ Op.op = "set"
        /\ reg' = [f \in Fields |-> IF f \in DOMAIN Op.f THEN Op.f[f] ELSE reg[f]]
    BY <1>9 DEF SetFields, Step, At
  <2>2. \A f \in KnownFields : reg'[f] = IF f \in DOMAIN Op.f THEN Op.f[f] ELSE reg[f]
    BY <1>3, <2>1
  <2>3. ASSUME NEW f \in KnownFields, NEW v \in Nat PROVE Holds(f, v, taken', reg')
    <3>1. CASE Op \in Puts(f, v)
      <4>1. f \in DOMAIN Op.f /\ Op.f[f] = v
        BY <2>1, <3>1 DEF Puts
      <4> QED  BY <2>2, <4>1
    <3>2. CASE Op \notin Spoils(f, v) /\ Since(Prog, taken, Puts(f, v), Spoils(f, v))
      <4>1. f \in DOMAIN Op.f => Op.f[f] = v
        BY <1>2, <2>1, <3>2 DEF Spoils
      <4> QED  BY <1>4, <2>2, <3>2, <4>1
    <3> QED  BY <1>7, <2>1, <3>1, <3>2
  <2>4. IsOpen(taken', reg')
    <3>1. Op \notin OpensLatch
      BY <2>1 DEF OpensLatch
    <3>2. Op \notin ClosesLatch => "LCR" \notin DOMAIN Op.f
      BY <1>2, <2>1 DEF ClosesLatch
    <3> QED  BY <1>3, <1>4, <1>7, <2>1, <2>2, <3>1, <3>2
  <2>5. Main(reg')
    <3>1. ASSUME IsAt91 PROVE "MULA" \notin DOMAIN Op.f /\ "DIVA" \notin DOMAIN Op.f
      <4>1. Op \notin SetsMainPll
        BY <1>2, <2>1, <3>1 DEF Without
      <4> QED  BY <1>2, <2>1, <4>1 DEF SetsMainPll
    <3> QED  BY <1>3, <1>4, <2>2, <3>1
  <2> QED  BY <2>3, <2>4, <2>5
<1>10. CASE WriteUart
  <2>1. /\ ~ Done /\ taken' = taken + 1 /\ Op.op = "uart"
        /\ reg' = [reg EXCEPT ![UartTarget(Op.reg)] = Op.val]
    BY <1>10 DEF WriteUart, Step, At
  <2>2. Op.reg \in Uart16550 /\ Op.val \in Nat
    BY <1>2, <2>1, StepFields
  <2> DEFINE t == UartTarget(Op.reg)
  <2>3. t \in Uart16550
    BY <2>2, TargetIs
  <2>4. \A f \in KnownFields : reg'[f] = IF f = t THEN Op.val ELSE reg[f]
    BY <1>3, <2>1
  <2>5. \A f \in KnownFields : t = f => Op.reg \in Sharing(f)
    BY <2>2, TargetIs
  <2>6. Op.reg \in {"DLL", "DLH"} => Latched
    <3>1. SUFFICES ASSUME Op.reg \in {"DLL", "DLH"} PROVE Latched
      OBVIOUS
    <3>2. Prog[taken + 1] \in Latches
      BY <1>2, <2>1, <3>1 DEF Latches
    <3>3. Since(Prog, (taken + 1) - 1, OpensLatch, ClosesLatch) /\ (taken + 1) - 1 = taken
      BY <1>2, <2>1, <3>2 DEF Guarded
    <3> QED  BY <3>3 DEF ValueInv
  <2>7. \A f \in KnownFields : Op.reg = f => t = f
    BY <2>2, <2>6, TargetIs
  <2> HIDE DEF t
  <2>8. ASSUME NEW f \in KnownFields, NEW v \in Nat PROVE Holds(f, v, taken', reg')
    <3>1. CASE Op \in Puts(f, v)
      <4>1. Op.reg = f /\ Op.val = v
        BY <2>1, <3>1 DEF Puts
      <4> QED  BY <2>4, <2>7, <4>1
    <3>2. CASE Op \notin Spoils(f, v) /\ Since(Prog, taken, Puts(f, v), Spoils(f, v))
      <4>1. Op.reg \in Sharing(f) => Op.val = v
        BY <1>2, <2>1, <3>2 DEF Spoils
      <4> QED  BY <1>4, <2>4, <2>5, <3>2, <4>1
    <3> QED  BY <1>7, <2>1, <3>1, <3>2
  <2>9. IsOpen(taken', reg')
    <3>1. CASE Op.reg = "LCR"
      <4>1. reg'["LCR"] = Op.val
        BY <1>3, <2>4, <2>7, <3>1
      <4>2. Op \notin OpensLatch => Op.val < 128
        BY <1>2, <2>1, <2>2, <3>1 DEF OpensLatch
      <4>3. Op \notin OpensLatch => Op \in ClosesLatch
        BY <1>2, <2>1, <3>1, <4>2 DEF ClosesLatch
      <4>4. Op \in OpensLatch => Op.val >= 128
        BY DEF OpensLatch
      <4> QED  BY <1>7, <2>1, <4>1, <4>3, <4>4
    <3>2. CASE Op.reg # "LCR"
      <4>1. Op \notin OpensLatch
        BY <3>2 DEF OpensLatch
      <4>2. reg'["LCR"] = reg["LCR"]
        BY Zenon, <1>3, <2>4, <2>5, <3>2 DEF Sharing
      <4> QED  BY <1>4, <1>7, <2>1, <4>1, <4>2
    <3> QED  BY <3>1, <3>2
  <2>10. Main(reg')
    BY <1>3, <1>4, <2>3, <2>4
  <2> QED  BY <2>8, <2>9, <2>10
<1>11. CASE WriteChipSelect
  <2>1. ~ Done /\ taken' = taken + 1 /\ Op.op = "cs" /\ reg' = [reg EXCEPT !["CS"] = Op.on]
    BY <1>11 DEF WriteChipSelect, Step, At
  <2>2. \A f \in KnownFields : reg'[f] = reg[f]
    BY <1>3, <2>1 DEF KnownFields
  <2> QED  BY <1>8, <2>1, <2>2
<1>12. CASE LockPll \/ BypassPll \/ ReadGates \/ WriteGates \/ AssignGates \/ DelayEnds \/ Prints
            \/ WriteWatchdog \/ MemCommand \/ ConfPins
  <2>1. ~ Done /\ taken' = taken + 1 /\ reg' = reg /\ Op.op \notin {"set", "uart"}
    BY <1>12 DEF LockPll, BypassPll, ReadGates, WriteGates, AssignGates, DelayEnds, Prints,
                 WriteWatchdog, MemCommand, ConfPins, Step, At
  <2> QED  BY <1>8, <2>1
<1>13. CASE WaitEvent
  <2>1. ~ Done /\ (taken' = taken \/ taken' = taken + 1) /\ reg' = reg /\ Op.op \notin {"set", "uart"}
    BY <1>13 DEF WaitEvent, At
  <2> QED  BY <1>6, <1>8, <2>1
<1>14. CASE Finish \/ Locks \/ Ended \/ UNCHANGED vars
  BY <1>6, <1>14 DEF Finish, Locks, Ended, vars
<1> QED
  BY <1>9, <1>10, <1>11, <1>12, <1>13, <1>14 DEF Next, CpuStep, Hardware

\* The rate of a UART, from the registers of its board.
LEMMA RatesAre ==
  /\ board \in Omap3Boards => UartClock = Omap3UartRate
  /\ board = "omap4" => UartClock = Omap4UartRate
  /\ board \in S3C24Boards => UartClock = S3C24UartRate
  /\ board = "s3c6410" => UartClock = S3C64UartRate
  /\ board \in At91Boards => UartClock = At91UartRate
<1> USE DEF Omap3Boards, S3C24Boards, At91Boards
<1>1. board \in Omap3Boards => UartClock = Omap3UartRate
  BY DEF UartClock, IsAt91
<1>2. board = "omap4" => UartClock = Omap4UartRate
  BY DEF UartClock, IsAt91
<1>3. board \in S3C24Boards => UartClock = S3C24UartRate
  BY DEF UartClock, IsAt91
<1>4. board = "s3c6410" => UartClock = S3C64UartRate
  BY DEF UartClock, IsAt91
<1>5. board \in At91Boards => UartClock = At91UartRate
  BY DEF UartClock, IsAt91
<1> QED  BY <1>1, <1>2, <1>3, <1>4, <1>5

\* The divisor of a UART.
LEMMA DivisorsAre ==
  /\ IsOmap => Divisor = 256 * reg["DLH"] + reg["DLL"]
  /\ IsS3C => Divisor = reg["UBRDIV"] + 1
  /\ IsAt91 => Divisor = reg["BRGR"]
<1> USE DEF Omap3Boards, S3C24Boards, At91Boards, IsOmap, IsS3C, IsAt91
<1> DEFINE o == 256 * reg["DLH"] + reg["DLL"]  s == reg["UBRDIV"] + 1
<1>1. Divisor = CASE IsOmap -> o [] IsS3C -> s [] IsAt91 -> reg["BRGR"]
  BY DEF Divisor
<1> HIDE DEF o, s
<1> QED  BY <1>1 DEF o, s

\* With the values that the console's registers must hold, its rate is right.
LEMMA RateIsRight ==
  ASSUME board \in Boards, IsOmap \/ IsS3C \/ IsAt91,
         \A f \in DOMAIN ConsoleValues : reg[f] = ConsoleValues[f],
         IsAt91 => /\ reg["MULA"] = At91Pll(At91Chip(board)).mula
                   /\ reg["DIVA"] = At91Pll(At91Chip(board)).diva
  PROVE  LET off == Divisor * 18432 - UartClock IN
           (IF off < 0 THEN - off ELSE off) * 100 <= 3 * UartClock
<1> DEFINE Near(d, c) == LET off == d * 18432 - c IN
                           (IF off < 0 THEN - off ELSE off) * 100 <= 3 * c
<1>1. /\ Near(26, 480000) /\ Near(27, 507000) /\ Near(27, 506250) /\ Near(72, 1330000)
      /\ Near(54, 998400) /\ Near(53, 983040)
  BY SMT
<1>2. /\ IsOmap <=> board \in Omap3Boards \cup {"omap4"}
      /\ IsS3C <=> board \in S3C24Boards \cup {"s3c6410"}
      /\ IsAt91 <=> board \in At91Boards
  BY DEF IsOmap, IsS3C, IsAt91
<1> SUFFICES Near(Divisor, UartClock)
  OBVIOUS
<1> HIDE DEF Near
<1>3. CASE board \in Omap3Boards
  <2> DEFINE v == [OSC |-> 260000, SYSDIV |-> 2, PER_M |-> 432, PER_N |-> 12, PER_M2 |-> 9,
                   DLL |-> 26, DLH |-> 0, LCR |-> 3, MDR1 |-> 0]
  <2>1. ConsoleValues = v
    BY SMT, <1>3 DEF ConsoleValues, Omap3Boards
  <2>2. /\ reg["OSC"] = 260000 /\ reg["SYSDIV"] = 2 /\ reg["PER_M"] = 432 /\ reg["PER_N"] = 12
        /\ reg["PER_M2"] = 9 /\ reg["DLL"] = 26 /\ reg["DLH"] = 0
    BY SMT, <2>1
  <2>3. Omap3UartRate = 480000
    BY SMT, <2>2 DEF Omap3UartRate
  <2>4. UartClock = 480000
    BY SMT, <1>3, <2>3, RatesAre
  <2>5. Divisor = 26
    BY SMT, <1>2, <1>3, <2>2, DivisorsAre
  <2> QED  BY SMT, <1>1, <2>4, <2>5
<1>4. CASE board = "omap4"
  <2> DEFINE v == [OSC |-> 384000, PER_M |-> 20, PER_N |-> 0, PER_M2 |-> 8,
                   DLL |-> 26, DLH |-> 0, LCR |-> 3, MDR1 |-> 0]
  <2>1. ConsoleValues = v
    BY SMT, <1>4 DEF ConsoleValues, Omap3Boards
  <2>2. /\ reg["OSC"] = 384000 /\ reg["PER_M"] = 20 /\ reg["PER_N"] = 0 /\ reg["PER_M2"] = 8
        /\ reg["DLL"] = 26 /\ reg["DLH"] = 0
    BY SMT, <2>1
  <2>3. Omap4UartRate = 480000
    BY SMT, <2>2 DEF Omap4UartRate
  <2>4. UartClock = 480000
    BY SMT, <1>4, <2>3, RatesAre
  <2>5. Divisor = 26
    BY SMT, <1>2, <1>4, <2>2, DivisorsAre
  <2> QED  BY <1>1, <2>4, <2>5
<1>5. CASE board = "s3c2410"
  <2> DEFINE v == [MDIV |-> 161, PDIV |-> 3, SDIV |-> 1, HDIVN |-> 1, PDIVN |-> 1,
                   ULCON |-> 3, UCON |-> 581, UBRDIV |-> 26]
  <2>1. ConsoleValues = v
    BY SMT, <1>5 DEF ConsoleValues, Omap3Boards
  <2>2. /\ reg["MDIV"] = 161 /\ reg["PDIV"] = 3 /\ reg["SDIV"] = 1 /\ reg["HDIVN"] = 1
        /\ reg["PDIVN"] = 1 /\ reg["UBRDIV"] = 26
    BY <2>1
  <2>3. S3C24Clock(board).mul = 1 /\ board \in S3C24Boards
    BY <1>5 DEF S3C24Clock, S3C2410Clock, S3C24Boards
  <2>4. S3C24UartRate = 507000
    BY SMT, <2>2, <2>3 DEF S3C24UartRate
  <2>5. UartClock = 507000
    BY SMT, <2>3, <2>4, RatesAre
  <2>6. Divisor = 27
    BY <1>2, <2>2, <2>3, DivisorsAre
  <2> QED  BY SMT, <1>1, <2>5, <2>6
<1>6. CASE board = "s3c2440"
  <2> DEFINE v == [MDIV |-> 127, PDIV |-> 2, SDIV |-> 1, HDIVN |-> 2, PDIVN |-> 1,
                   ULCON |-> 3, UCON |-> 581, UBRDIV |-> 26]
  <2>1. ConsoleValues = v
    BY SMT, <1>6 DEF ConsoleValues, Omap3Boards
  <2>2. /\ reg["MDIV"] = 127 /\ reg["PDIV"] = 2 /\ reg["SDIV"] = 1 /\ reg["HDIVN"] = 2
        /\ reg["PDIVN"] = 1 /\ reg["UBRDIV"] = 26
    BY <2>1
  <2>3. S3C24Clock(board).mul = 2 /\ board \in S3C24Boards
    BY <1>6 DEF S3C24Clock, S3C2440Clock, S3C24Boards
  <2>4. S3C24UartRate = 506250
    BY SMT, <2>2, <2>3 DEF S3C24UartRate
  <2>5. UartClock = 506250
    BY SMT, <2>3, <2>4, RatesAre
  <2>6. Divisor = 27
    BY <1>2, <2>2, <2>3, DivisorsAre
  <2> QED  BY SMT, <1>1, <2>5, <2>6
<1>7. CASE board = "s3c6410"
  <2> DEFINE v == [MDIV |-> 266, PDIV |-> 3, SDIV |-> 2, UARTDIV |-> 1,
                   ULCON |-> 3, UCON |-> 3077, UBRDIV |-> 71]
  <2>1. ConsoleValues = v
    BY SMT, <1>7 DEF ConsoleValues, Omap3Boards
  <2>2. /\ reg["MDIV"] = 266 /\ reg["PDIV"] = 3 /\ reg["SDIV"] = 2 /\ reg["UARTDIV"] = 1
        /\ reg["UBRDIV"] = 71
    BY <2>1
  <2>3. S3C64UartRate = 1330000
    BY SMT, <2>2 DEF S3C64UartRate
  <2>4. UartClock = 1330000
    BY SMT, <1>7, <2>3, RatesAre
  <2>5. Divisor = 72
    BY <1>2, <1>7, <2>2, DivisorsAre
  <2> QED  BY SMT, <1>1, <2>4, <2>5
<1>8. CASE board \in At91Boards
  <2> DEFINE n == IF board = "at91sam9261" THEN 54 ELSE 53
             v == [US_CR |-> 80, US_MR |-> 2048, BRGR |-> n]
  <2>1. ConsoleValues = v
    BY SMT, <1>8 DEF ConsoleValues, Omap3Boards, At91Boards
  <2>2. reg["BRGR"] = n
    BY <2>1
  <2>3. /\ board = "at91sam9261" => reg["MULA"] = 64 /\ reg["DIVA"] = 6
        /\ board = "at91sam9263" => reg["MULA"] = 31 /\ reg["DIVA"] = 3
    BY <1>2, <1>8 DEF At91Pll, At91Chip
  <2>4. /\ board = "at91sam9261" => At91UartRate = 998400
        /\ board = "at91sam9263" => At91UartRate = 983040
    BY SMT, <2>3 DEF At91UartRate
  <2>5. Divisor = n /\ UartClock = At91UartRate
    BY <1>2, <1>8, <2>2, DivisorsAre, RatesAre
  <2> QED  BY SMT, <1>1, <1>8, <2>4, <2>5 DEF At91Boards
<1> QED  BY <1>2, <1>3, <1>4, <1>5, <1>6, <1>7, <1>8 DEF S3C24Boards

\* With these values, and no reset under way, the format is right.
LEMMA FormatIsRight ==
  ASSUME board \in Boards, IsOmap \/ IsS3C \/ IsAt91,
         \A f \in DOMAIN ConsoleValues : reg[f] = ConsoleValues[f],
         "uart_reset" \notin pend
  PROVE  Format8N1
<1> USE DEF Omap3Boards, S3C24Boards, At91Boards
<1>1. /\ IsOmap => reg["LCR"] = 3 /\ reg["MDR1"] = 0
      /\ IsS3C => reg["ULCON"] = 3 /\ reg["UCON"] \in {581, 3077}
      /\ IsAt91 => reg["US_MR"] = 2048 /\ reg["US_CR"] = 80
  BY SMT DEF ConsoleValues, IsOmap, IsS3C, IsAt91
<1>2. ~ (IsOmap /\ IsS3C) /\ ~ (IsOmap /\ IsAt91) /\ ~ (IsS3C /\ IsAt91)
  BY DEF IsOmap, IsS3C, IsAt91
<1>3. reg["UCON"] \in {581, 3077} => reg["UCON"] # 0
  OBVIOUS
<1> DEFINE o == reg["LCR"] = 3 /\ reg["MDR1"] = 0 /\ "uart_reset" \notin pend
           s == reg["ULCON"] = 3 /\ reg["UCON"] # 0
           a == reg["US_MR"] = 2048 /\ reg["US_CR"] = 80
<1>4. (IsOmap => o) /\ (IsS3C => s) /\ (IsAt91 => a)
  BY <1>1, <1>3
<1>5. Format8N1 = CASE IsOmap -> o [] IsS3C -> s [] IsAt91 -> a
  BY DEF Format8N1
<1> HIDE DEF o, s, a
<1>6. (IsOmap => Format8N1 = o) /\ (IsS3C => Format8N1 = s) /\ (IsAt91 => Format8N1 = a)
  BY <1>2, <1>5
<1> QED  BY <1>4, <1>6

-----------------------------------------------------------------------------
(* The console is set up *)

\* Programs behind which the last of A is not followed by any of B.
Ends(A, B) == {p \in Seq(Steps) : Since(p, Len(p), A, B)}

\* What comes before does not matter, and what comes behind must be free of B.
LEMMA EndsJoined ==
  ASSUME NEW A, NEW B
  PROVE  /\ \A p \in Ends(A, B), q \in Free(B) : p \o q \in Ends(A, B)
         /\ \A p \in Seq(Steps), q \in Ends(A, B) : p \o q \in Ends(A, B)
BY SinceKept, SinceLast, Joined DEF Ends, Free

\* A step of A with none of B behind it.
LEMMA EndsAt ==
  ASSUME NEW p \in Seq(Steps), NEW A, NEW B, NEW k \in 1 .. Len(p), p[k] \in A,
         \A i \in k + 1 .. Len(p) : p[i] \notin B
  PROVE  p \in Ends(A, B)
BY DEF Ends, Since

\* The last step of a program to set a field sets it to v; or no step sets it.
SetsLast(p, f, v) ==
  \E k \in 1 .. Len(p) :
    /\ p[k].op = "set" /\ f \in DOMAIN p[k].f /\ p[k].f[f] = v
    /\ \A i \in k + 1 .. Len(p) : p[i].op = "set" => f \notin DOMAIN p[i].f
SetsNot(p, f) == \A i \in 1 .. Len(p) : p[i].op = "set" => f \notin DOMAIN p[i].f

\* A program that sets no field but others.
LEMMA FreeOfField ==
  ASSUME NEW p \in Seq(Steps), NEW f \in KnownFields \ Uart16550, NEW v \in Nat, SetsNot(p, f)
  PROVE  p \in Free(Spoils(f, v))
BY PutsKinds DEF Free, Without, SetsNot

\* A field that is set, and not again.
LEMMA EndsWithField ==
  ASSUME NEW p \in Seq(Steps), NEW f \in KnownFields \ Uart16550, NEW v \in Nat, SetsLast(p, f, v)
  PROVE  p \in Ends(Puts(f, v), Spoils(f, v))
<1>1. PICK k \in 1 .. Len(p) :
        /\ p[k].op = "set" /\ f \in DOMAIN p[k].f /\ p[k].f[f] = v
        /\ \A i \in k + 1 .. Len(p) : p[i].op = "set" => f \notin DOMAIN p[i].f
  BY DEF SetsLast
<1>2. p[k] \in Puts(f, v)
  BY <1>1, StepTyped DEF Puts
<1>3. \A i \in k + 1 .. Len(p) : p[i] \notin Spoils(f, v)
  BY <1>1, PutsKinds
<1> QED  BY <1>2, <1>3, EndsAt

\* A field that is set by the first of two programs, and not again, or by the
\* second.
LEMMA FieldIsSet ==
  ASSUME NEW p \in Seq(Steps), NEW q \in Seq(Steps), NEW f \in KnownFields \ Uart16550, NEW v \in Nat,
         (SetsLast(p, f, v) /\ SetsNot(q, f)) \/ SetsLast(q, f, v)
  PROVE  p \o q \in Ends(Puts(f, v), Spoils(f, v))
<1> DEFINE E == Ends(Puts(f, v), Spoils(f, v))
<1>1. \A r \in Seq(Steps) : SetsLast(r, f, v) => r \in E
  BY EndsWithField
<1>2. SetsNot(q, f) => q \in Free(Spoils(f, v))
  BY FreeOfField
<1> QED  BY <1>1, <1>2, EndsJoined

\* A register of the 16550 that is written, and not again.
LEMMA EndsWithReg ==
  ASSUME NEW p \in Seq(Steps), NEW f \in KnownFields \cap Uart16550, NEW v \in Nat, NEW k \in 1 .. Len(p),
         p[k].op = "uart", p[k].reg = f, p[k].val = v,
         \A i \in k + 1 .. Len(p) :
           /\ p[i].op # "set"
           /\ p[i].op = "uart" /\ p[i].reg \in Sharing(f) => p[i].val = v
  PROVE  p \in Ends(Puts(f, v), Spoils(f, v))
<1>1. p[k] \in Steps
  BY StepTyped
<1>2. p[k] \in Puts(f, v)
  BY <1>1 DEF Puts
<1>3. \A i \in k + 1 .. Len(p) : p[i] \notin Spoils(f, v)
  BY DEF Spoils
<1> QED  BY <1>2, <1>3, EndsAt

\* A program of kinds of steps that change no field.
LEMMA FreeOfSets ==
  ASSUME NEW K, NEW p \in Seq(StepsOf(K)), NEW f \in KnownFields, NEW v \in Nat, "set" \notin K,
         f \in Uart16550 => "uart" \notin K
  PROVE  p \in Free(Spoils(f, v))
<1>1. \A s \in Spoils(f, v) : s.op \notin K
  BY PutsKinds
<1> QED  BY <1>1, FreeKind

\* What is set up before the banner guards all that is printed.
LEMMA PrintsBehind ==
  ASSUME board \in Boards, NEW A, NEW B, \A s \in B : s.op \in {"set", "uart", "lock", "bypass"},
         Plat(board) \o Stdio(board) \in Ends(A, B)
  PROVE  Guarded(ProgramOf(board), OfKind("print"), A, B)
<1> DEFINE T == OfKind("print")
           G == Kept(T, A, B)
<1>1. Plat(board) \in Free(T) /\ Stdio(board) \in Free(T)
  <2>1. "print" \notin PlatKinds(board) /\ "print" \notin StdioKinds(board)
    BY DEF PlatKinds, StdioKinds, Boards, Omap3Boards, S3C24Boards, At91Boards
  <2> QED  BY <2>1, PartFree, KindOf
<1>2. PrintText \in Free(B) /\ Sdram(board) \in Free(B) /\ AfterSdram(board) \in Free(B)
  <2>1. /\ SdramKinds(board) \cap {"set", "uart", "lock", "bypass"} = {}
        /\ TailKinds(board) \cap {"set", "uart", "lock", "bypass"} = {}
    BY DEF SdramKinds, TailKinds, Boards, Omap3Boards, S3C24Boards, At91Boards
  <2> QED  BY <2>1, PartFree
<1>3. /\ \A p \in G, q \in Free(B) : p \o q \in G
      /\ \A p \in Free(T) : Since(p, Len(p), A, B) => p \in G
  BY KeptJoined
<1> HIDE DEF G, T
<1>4. Plat(board) \o Stdio(board) \in Free(T)
  BY <1>1, FreeJoined
<1>5. Plat(board) \o Stdio(board) \in G
  BY Zenon, <1>3, <1>4 DEF Ends
<1>6. ProgramOf(board) \in G
  BY Zenon, <1>2, <1>3, <1>5, PartsTyped
<1> QED  BY <1>6 DEF Kept, G, T

\* The divisor of the S3C2410 and S3C2440.
LEMMA S3C24xDivisor ==
  ASSUME NEW b \in S3C24Boards
  PROVE  /\ (PclkRate(S3C24Clock(b)) \div 18432) - 1 = 26
         /\ S3C24Clock(b) \in [mdiv : Nat, pdiv : Nat, sdiv : Nat, hdivn : Nat, pdivn : Nat, mul : Nat]
<1> DEFINE c == S3C24Clock(b)
<1>1. CASE c = S3C2410Clock
  <2> HIDE DEF c
  <2> QED  BY SMT, <1>1 DEF S3C2410Clock, PclkRate, MpllRate, c
<1>2. CASE c = S3C2440Clock
  <2> HIDE DEF c
  <2> QED  BY SMT, <1>2 DEF S3C2440Clock, PclkRate, MpllRate, c
<1> QED  BY <1>1, <1>2 DEF S3C24Clock

\* The values that the S3C2410 and S3C2440 need.
LEMMA S3C24xValues ==
  ASSUME board \in S3C24Boards, NEW f \in DOMAIN ConsoleValues
  PROVE  LET v == ConsoleValues[f] IN
           f \in KnownFields /\ v \in Nat /\ Plat(board) \o Stdio(board) \in Ends(Puts(f, v), Spoils(f, v))
<1> DEFINE c == S3C24Clock(board)
           w == [MDIV |-> c.mdiv, PDIV |-> c.pdiv, SDIV |-> c.sdiv,
                 HDIVN |-> c.hdivn, PDIVN |-> c.pdivn, ULCON |-> 3, UCON |-> 581, UBRDIV |-> 26]
           p == S3C24xPlat(c)
           q == S3C24xUart(c)
<1>1. Plat(board) = p /\ Stdio(board) = q
  BY DEF Plat, Stdio, S3C24Boards, Omap3Boards, At91Boards
<1>2. p \in Seq(Steps) /\ q \in Seq(Steps)
  BY S3C24xTyped, Kinds
<1>3. ConsoleValues = w
  <2>1. CASE board = "s3c2410"
    <3>1. c = S3C2410Clock
      BY <2>1 DEF S3C24Clock
    <3> QED  BY SMT, <2>1, <3>1 DEF ConsoleValues, Omap3Boards, S3C2410Clock
  <2>2. CASE board = "s3c2440"
    <3>1. c = S3C2440Clock
      BY <2>2 DEF S3C24Clock
    <3> QED  BY SMT, <2>2, <3>1 DEF ConsoleValues, Omap3Boards, S3C2440Clock
  <2> QED  BY <2>1, <2>2 DEF S3C24Boards
<1>4. /\ c.mdiv \in Nat /\ c.pdiv \in Nat /\ c.sdiv \in Nat /\ c.hdivn \in Nat /\ c.pdivn \in Nat
      /\ (PclkRate(c) \div 18432) - 1 = 26
  BY S3C24xDivisor
<1> HIDE DEF c
<1>5. /\ Len(p) = 4 /\ p[1].op = "wdt" /\ p[2].op = "set" /\ p[3].op = "lock" /\ p[4].op = "set"
      /\ p[2].f = [MDIV |-> c.mdiv, PDIV |-> c.pdiv, SDIV |-> c.sdiv]
      /\ p[4].f = [HDIVN |-> c.hdivn, PDIVN |-> c.pdivn]
  BY DEF S3C24xPlat, Wdt, Set, Lock
<1>6. /\ Len(q) = 1 /\ q[1].op = "set"
      /\ q[1].f = [ULCON |-> 3, UCON |-> 581, UFCON |-> 1, UBRDIV |-> 26]
  BY <1>4 DEF S3C24xUart, Set
<1> HIDE DEF p, q
<1>7. /\ f \in {"MDIV", "PDIV", "SDIV", "HDIVN", "PDIVN", "ULCON", "UCON", "UBRDIV"}
      /\ f \in KnownFields \ Uart16550
  BY <1>3 DEF KnownFields, Uart16550, Fields, S3CFields, S3CUart
<1> DEFINE v == w[f]
<1>8. v \in Nat /\ ConsoleValues[f] = v
  BY <1>3, <1>4, <1>7
<1>9. (SetsLast(p, f, v) /\ SetsNot(q, f)) \/ SetsLast(q, f, v)
  <2>1. CASE f \in {"MDIV", "PDIV", "SDIV"}
    <3>1. /\ 2 \in 1 .. Len(p) /\ p[2].op = "set" /\ f \in DOMAIN p[2].f /\ p[2].f[f] = v
          /\ \A i \in 2 + 1 .. Len(p) : p[i].op = "set" => f \notin DOMAIN p[i].f
      BY <1>5, <2>1
    <3>2. SetsNot(q, f)
      BY <1>6, <2>1 DEF SetsNot
    <3> QED  BY <3>1, <3>2 DEF SetsLast
  <2>2. CASE f \in {"HDIVN", "PDIVN"}
    <3>1. /\ 4 \in 1 .. Len(p) /\ p[4].op = "set" /\ f \in DOMAIN p[4].f /\ p[4].f[f] = v
          /\ \A i \in 4 + 1 .. Len(p) : p[i].op = "set" => f \notin DOMAIN p[i].f
      BY <1>5, <2>2
    <3>2. SetsNot(q, f)
      BY <1>6, <2>2 DEF SetsNot
    <3> QED  BY <3>1, <3>2 DEF SetsLast
  <2>3. CASE f \in {"ULCON", "UCON", "UBRDIV"}
    <3>1. /\ 1 \in 1 .. Len(q) /\ q[1].op = "set" /\ f \in DOMAIN q[1].f /\ q[1].f[f] = v
          /\ \A i \in 1 + 1 .. Len(q) : q[i].op = "set" => f \notin DOMAIN q[i].f
      BY <1>6, <2>3
    <3> QED  BY <3>1 DEF SetsLast
  <2> QED  BY <1>7, <2>1, <2>2, <2>3
<1> HIDE DEF v
<1>10. p \o q \in Ends(Puts(f, v), Spoils(f, v))
  BY <1>2, <1>7, <1>8, <1>9, FieldIsSet
<1> QED  BY <1>1, <1>7, <1>8, <1>10

\* The values that the S3C6410 needs.
LEMMA S3C64xValues ==
  ASSUME board = "s3c6410", NEW f \in DOMAIN ConsoleValues
  PROVE  LET v == ConsoleValues[f] IN
           f \in KnownFields /\ v \in Nat /\ Plat(board) \o Stdio(board) \in Ends(Puts(f, v), Spoils(f, v))
<1> DEFINE w == [MDIV |-> 266, PDIV |-> 3, SDIV |-> 2, UARTDIV |-> 1,
                 ULCON |-> 3, UCON |-> 3077, UBRDIV |-> 71]
           p == S3C64xPlat
           q == S3C64xUart
<1>1. Plat(board) = p /\ Stdio(board) = q
  BY DEF Plat, Stdio, S3C24Boards, Omap3Boards, At91Boards
<1>2. p \in Seq(Steps) /\ q \in Seq(Steps)
  BY S3C64xTyped, Kinds
<1>3. ConsoleValues = w
  BY SMT DEF ConsoleValues, Omap3Boards
<1>4. (S3C64xHclk \div 18432) - 1 = 71
  BY SMT DEF S3C64xHclk
<1>5. /\ Len(p) = 7 /\ p[1].op = "wdt" /\ p[2].op = "set" /\ p[3].op = "lock" /\ p[4].op = "set"
      /\ p[5].op = "lock" /\ p[6].op = "set" /\ p[7].op = "set"
      /\ p[4].f = [MDIV |-> 266, PDIV |-> 3, SDIV |-> 2]
      /\ p[6].f = [SEL |-> 1] /\ p[7].f = [CLK_DIV0 |-> 12544]
  BY DEF S3C64xPlat, Wdt, Set, Lock
<1>6. /\ Len(q) = 5 /\ q[1].op = "set" /\ q[2].op = "set" /\ q[3].op = "wait" /\ q[4].op = "set"
      /\ q[5].op = "delay"
      /\ q[1].f = [UARTDIV |-> 1] /\ q[2].f = [ULCON |-> 3, UCON |-> 3077, UFCON |-> 103]
      /\ q[4].f = [UBRDIV |-> 71]
  BY <1>4 DEF S3C64xUart, Set, Wait, Delay
<1> HIDE DEF p, q
<1>7. /\ f \in {"MDIV", "PDIV", "SDIV", "UARTDIV", "ULCON", "UCON", "UBRDIV"}
      /\ f \in KnownFields \ Uart16550
  BY <1>3 DEF KnownFields, Uart16550, Fields, S3CFields, S3CUart, S3C64xFields
<1> DEFINE v == w[f]
<1>8. v \in Nat /\ ConsoleValues[f] = v
  BY <1>3, <1>7
<1>9. (SetsLast(p, f, v) /\ SetsNot(q, f)) \/ SetsLast(q, f, v)
  <2>1. CASE f \in {"MDIV", "PDIV", "SDIV"}
    <3>1. /\ 4 \in 1 .. Len(p) /\ p[4].op = "set" /\ f \in DOMAIN p[4].f /\ p[4].f[f] = v
          /\ \A i \in 4 + 1 .. Len(p) : p[i].op = "set" => f \notin DOMAIN p[i].f
      BY <1>5, <2>1
    <3>2. SetsNot(q, f)
      BY <1>6, <2>1 DEF SetsNot
    <3> QED  BY <3>1, <3>2 DEF SetsLast
  <2>2. CASE f \in {"UARTDIV"}
    <3>1. /\ 1 \in 1 .. Len(q) /\ q[1].op = "set" /\ f \in DOMAIN q[1].f /\ q[1].f[f] = v
          /\ \A i \in 1 + 1 .. Len(q) : q[i].op = "set" => f \notin DOMAIN q[i].f
      BY <1>6, <2>2
    <3> QED  BY <3>1 DEF SetsLast
  <2>3. CASE f \in {"ULCON", "UCON"}
    <3>1. /\ 2 \in 1 .. Len(q) /\ q[2].op = "set" /\ f \in DOMAIN q[2].f /\ q[2].f[f] = v
          /\ \A i \in 2 + 1 .. Len(q) : q[i].op = "set" => f \notin DOMAIN q[i].f
      BY <1>6, <2>3
    <3> QED  BY <3>1 DEF SetsLast
  <2>4. CASE f \in {"UBRDIV"}
    <3>1. /\ 4 \in 1 .. Len(q) /\ q[4].op = "set" /\ f \in DOMAIN q[4].f /\ q[4].f[f] = v
          /\ \A i \in 4 + 1 .. Len(q) : q[i].op = "set" => f \notin DOMAIN q[i].f
      BY <1>6, <2>4
    <3> QED  BY <3>1 DEF SetsLast
  <2> QED  BY <1>7, <2>1, <2>2, <2>3, <2>4
<1> HIDE DEF v
<1>10. p \o q \in Ends(Puts(f, v), Spoils(f, v))
  BY <1>2, <1>7, <1>8, <1>9, FieldIsSet
<1> QED  BY <1>1, <1>7, <1>8, <1>10

\* The divisor of the at91 chips.
LEMMA At91Divisor == At91Mck(9261) \div 18432 = 54 /\ At91Mck(9263) \div 18432 = 53
BY SMT DEF At91Mck, At91Pll

\* The steps of at91_uart_init().
LEMMA At91UartSteps ==
  ASSUME board \in At91Boards
  PROVE  LET q == Stdio(board)
             n == IF board = "at91sam9261" THEN 54 ELSE 53
         IN /\ Plat(board) = <<>> /\ q \in Seq(Steps)
            /\ Len(q) = 4 /\ q[1].op = "pin" /\ q[2].op = "set" /\ q[3].op = "set" /\ q[4].op = "set"
            /\ q[2].f = [US_CR |-> 80] /\ q[3].f = [BRGR |-> n] /\ q[4].f = [US_MR |-> 2048]
<1> USE DEF At91Boards
<1>1. Plat(board) = <<>> /\ Stdio(board) = At91Uart(At91Chip(board))
  BY DEF Plat, Stdio, S3C24Boards, Omap3Boards
<1>2. Stdio(board) \in Seq(Steps)
  BY Zenon, PartsTyped DEF Boards
<1>3. CASE board = "at91sam9261"
  <2> DEFINE d == At91Mck(9261) \div 18432
  <2>1. At91Chip(board) = 9261
    BY <1>3 DEF At91Chip
  <2>2. At91Uart(9261) = Pin("console", "A", {9, 10}, "peripheral") \o Set([US_CR |-> 80])
                           \o Set([BRGR |-> d]) \o Set([US_MR |-> 2048])
    BY DEF At91Uart, At91PeriphA
  <2>3. d = 54
    BY At91Divisor
  <2> HIDE DEF d
  <2> QED  BY <1>1, <1>2, <1>3, <2>1, <2>2, <2>3 DEF Pin, Set
<1>4. CASE board = "at91sam9263"
  <2> DEFINE d == At91Mck(9263) \div 18432
  <2>1. At91Chip(board) = 9263
    BY <1>4 DEF At91Chip
  <2>2. At91Uart(9263) = Pin("console", "C", {30, 31}, "peripheral") \o Set([US_CR |-> 80])
                           \o Set([BRGR |-> d]) \o Set([US_MR |-> 2048])
    BY DEF At91Uart, At91PeriphA
  <2>3. d = 53
    BY At91Divisor
  <2> HIDE DEF d
  <2> QED  BY <1>1, <1>2, <1>4, <2>1, <2>2, <2>3 DEF Pin, Set
<1> QED  BY <1>3, <1>4

\* The values that the at91 chips need.
LEMMA At91Values ==
  ASSUME board \in At91Boards, NEW f \in DOMAIN ConsoleValues
  PROVE  LET v == ConsoleValues[f] IN
           f \in KnownFields /\ v \in Nat /\ Plat(board) \o Stdio(board) \in Ends(Puts(f, v), Spoils(f, v))
<1> DEFINE n == IF board = "at91sam9261" THEN 54 ELSE 53
           w == [US_CR |-> 80, US_MR |-> 2048, BRGR |-> n]
           p == Plat(board)
           q == Stdio(board)
<1>1. p \in Seq(Steps) /\ q \in Seq(Steps)
  BY Zenon, PartsTyped DEF Boards, At91Boards
<1>2. ConsoleValues = w
  BY SMT DEF ConsoleValues, Omap3Boards, At91Boards
<1>3. /\ Len(q) = 4 /\ q[1].op = "pin" /\ q[2].op = "set" /\ q[3].op = "set" /\ q[4].op = "set"
      /\ q[2].f = [US_CR |-> 80] /\ q[3].f = [BRGR |-> n] /\ q[4].f = [US_MR |-> 2048]
  BY At91UartSteps
<1>4. n \in Nat
  OBVIOUS
<1> HIDE DEF p, q, n
<1>7. f \in {"US_CR", "US_MR", "BRGR"} /\ f \in KnownFields \ Uart16550
  BY <1>2 DEF KnownFields, Uart16550, Fields, At91Dbgu
<1> DEFINE v == w[f]
<1>8. v \in Nat /\ ConsoleValues[f] = v
  BY <1>2, <1>4, <1>7
<1>9. SetsLast(q, f, v)
  <2>1. CASE f \in {"US_CR"}
    <3>1. /\ 2 \in 1 .. Len(q) /\ q[2].op = "set" /\ f \in DOMAIN q[2].f /\ q[2].f[f] = v
          /\ \A i \in 2 + 1 .. Len(q) : q[i].op = "set" => f \notin DOMAIN q[i].f
      BY <1>3, <2>1
    <3> QED  BY <3>1 DEF SetsLast
  <2>2. CASE f \in {"BRGR"}
    <3>1. /\ 3 \in 1 .. Len(q) /\ q[3].op = "set" /\ f \in DOMAIN q[3].f /\ q[3].f[f] = v
          /\ \A i \in 3 + 1 .. Len(q) : q[i].op = "set" => f \notin DOMAIN q[i].f
      BY <1>3, <2>2
    <3> QED  BY <3>1 DEF SetsLast
  <2>3. CASE f \in {"US_MR"}
    <3>1. /\ 4 \in 1 .. Len(q) /\ q[4].op = "set" /\ f \in DOMAIN q[4].f /\ q[4].f[f] = v
          /\ \A i \in 4 + 1 .. Len(q) : q[i].op = "set" => f \notin DOMAIN q[i].f
      BY <1>3, <2>3
    <3> QED  BY <3>1 DEF SetsLast
  <2> QED  BY <1>7, <2>1, <2>2, <2>3
<1> HIDE DEF v
<1>10. p \o q \in Ends(Puts(f, v), Spoils(f, v))
  BY <1>1, <1>7, <1>8, <1>9, FieldIsSet
<1> QED  BY <1>7, <1>8, <1>10 DEF p, q

\* The steps of uart_init() of OMAP3 that set fields and registers.
LEMMA Omap3UartSteps ==
  /\ LET p == Omap3UartClock IN
       /\ p \in Seq(Steps) /\ Len(p) = 3 /\ p[1].op = "set" /\ p[2].op = "set" /\ p[3].op = "lock"
       /\ p[1].f = [PER_M2 |-> 9] /\ p[2].f = [PER_M |-> 432, PER_N |-> 12]
  /\ LET p == Omap3UartMode IN
       /\ p \in Seq(Steps) /\ Len(p) = 15
       /\ p[6].op = "read" /\ p[7].op = "write"
       /\ \A i \in (1 .. 5) \cup (8 .. 15) : p[i].op = "uart"
       /\ p[1].reg = "MDR1" /\ p[2].reg = "LCR" /\ p[3].reg = "LCR" /\ p[4].reg = "IER"
       /\ p[5].reg = "LCR" /\ p[5].val = 191
       /\ p[8].reg = "DLL" /\ p[8].val = 26 /\ p[9].reg = "DLH" /\ p[9].val = 0
       /\ p[10].reg = "LCR" /\ p[11].reg = "IER" /\ p[11].val = 0 /\ p[12].reg = "LCR"
       /\ p[13].reg = "FCR" /\ p[14].reg = "LCR" /\ p[14].val = 3
       /\ p[15].reg = "MDR1" /\ p[15].val = 0
<1>1. Omap3UartClock \in Seq(Steps) /\ Omap3UartMode \in Seq(Steps)
  BY Omap3UartPartsTyped, Kinds
<1> DEFINE p == Omap3UartClock
<1>2. /\ Len(p) = 3 /\ p[1].op = "set" /\ p[2].op = "set" /\ p[3].op = "lock"
      /\ p[1].f = [PER_M2 |-> 9] /\ p[2].f = [PER_M |-> 432, PER_N |-> 12]
  BY DEF Omap3UartClock, Set, Lock
<1> DEFINE q == Omap3UartMode
<1>3. /\ Len(q) = 15
      /\ q[6].op = "read" /\ q[7].op = "write"
      /\ \A i \in (1 .. 5) \cup (8 .. 15) : q[i].op = "uart"
  BY DEF Omap3UartMode, UartReg, Open, Read, Write
<1>4. /\ q[1].reg = "MDR1" /\ q[2].reg = "LCR" /\ q[3].reg = "LCR" /\ q[4].reg = "IER"
      /\ q[5].reg = "LCR" /\ q[5].val = 191
      /\ q[8].reg = "DLL" /\ q[8].val = 26 /\ q[9].reg = "DLH" /\ q[9].val = 0
      /\ q[10].reg = "LCR" /\ q[11].reg = "IER" /\ q[11].val = 0 /\ q[12].reg = "LCR"
      /\ q[13].reg = "FCR" /\ q[14].reg = "LCR" /\ q[14].val = 3
      /\ q[15].reg = "MDR1" /\ q[15].val = 0
  BY DEF Omap3UartMode, UartReg, Open, Read, Write
<1> QED  BY <1>1, <1>2, <1>3, <1>4

\* Where uart_init() of OMAP3 sets the fields and registers of the console.
LEMMA Omap3ConsoleSet ==
  /\ SetsLast(Omap3Plls, "OSC", 260000) /\ SetsLast(Omap3Plls, "SYSDIV", 2)
  /\ SetsLast(Omap3UartClock, "PER_M", 432) /\ SetsLast(Omap3UartClock, "PER_N", 12)
  /\ SetsLast(Omap3UartClock, "PER_M2", 9)
  /\ SetsNot(Omap3UartClock, "OSC") /\ SetsNot(Omap3UartClock, "SYSDIV")
<1> DEFINE p == Omap3Plls
           x == Omap3UartClock
<1>1. /\ Len(p) = 7 /\ p[1].op = "set" /\ p[1].f = [OSC |-> 260000, SYSDIV |-> 2]
      /\ p[2].op = "set" /\ p[2].f = [MPU_M |-> 250, MPU_N |-> 12, MPU_M2 |-> 1] /\ p[3].op = "lock"
      /\ p[4].op = "set" /\ p[5].op = "lock"
      /\ p[4].f = [CORE_M |-> 332, CORE_N |-> 12, CORE_M2 |-> 1, L4 |-> 2, L3 |-> 2]
      /\ p[6].op = "set" /\ p[6].f = [PER_M |-> 432, PER_N |-> 12] /\ p[7].op = "lock"
  BY SMT DEF Omap3Plls, Set, Lock
<1>2. /\ Len(x) = 3 /\ x[1].op = "set" /\ x[2].op = "set" /\ x[3].op = "lock"
      /\ x[1].f = [PER_M2 |-> 9] /\ x[2].f = [PER_M |-> 432, PER_N |-> 12]
  BY Omap3UartSteps
<1> HIDE DEF p, x
<1>3. ASSUME NEW f \in {"OSC", "SYSDIV"}
      PROVE  /\ 1 \in 1 .. Len(p) /\ f \in DOMAIN p[1].f
             /\ \A i \in 1 + 1 .. Len(p) : p[i].op = "set" => f \notin DOMAIN p[i].f
  BY SMT, <1>1
<1>4. p[1].f["OSC"] = 260000 /\ p[1].f["SYSDIV"] = 2
  BY SMT, <1>1
<1>5. SetsLast(p, "OSC", 260000) /\ SetsLast(p, "SYSDIV", 2)
  BY SMT, <1>1, <1>3, <1>4 DEF SetsLast
<1>6. SetsNot(x, "OSC") /\ SetsNot(x, "SYSDIV")
  BY <1>2 DEF SetsNot
<1>7. /\ 1 \in 1 .. Len(x) /\ "PER_M2" \in DOMAIN x[1].f /\ x[1].f["PER_M2"] = 9
      /\ \A i \in 1 + 1 .. Len(x) : x[i].op = "set" => "PER_M2" \notin DOMAIN x[i].f
  BY <1>2
<1>8. ASSUME NEW f \in {"PER_M", "PER_N"}
      PROVE  /\ 2 \in 1 .. Len(x) /\ f \in DOMAIN x[2].f
             /\ \A i \in 2 + 1 .. Len(x) : x[i].op = "set" => f \notin DOMAIN x[i].f
  BY <1>2
<1>9. x[2].f["PER_M"] = 432 /\ x[2].f["PER_N"] = 12
  BY <1>2
<1>10. SetsLast(x, "PER_M2", 9)
  BY <1>2, <1>7 DEF SetsLast
<1>11. SetsLast(x, "PER_M", 432) /\ SetsLast(x, "PER_N", 12)
  BY <1>2, <1>8, <1>9 DEF SetsLast
<1> QED  BY SMT, <1>5, <1>6, <1>10, <1>11 DEF p, x

\* The registers of the 16550 that uart_init() of OMAP3 leaves.
LEMMA Omap3ModeSet ==
  /\ Omap3UartMode \in Ends(Puts("DLL", 26), Spoils("DLL", 26))
  /\ Omap3UartMode \in Ends(Puts("DLH", 0), Spoils("DLH", 0))
  /\ Omap3UartMode \in Ends(Puts("LCR", 3), Spoils("LCR", 3))
  /\ Omap3UartMode \in Ends(Puts("MDR1", 0), Spoils("MDR1", 0))
<1> DEFINE m == Omap3UartMode
<1>1. {"DLL", "DLH", "LCR", "MDR1"} \subseteq KnownFields \cap Uart16550
  BY DEF KnownFields, Fields, Uart16550
<1>2. /\ m \in Seq(Steps) /\ Len(m) = 15
      /\ m[6].op = "read" /\ m[7].op = "write"
      /\ \A i \in (1 .. 5) \cup (8 .. 15) : m[i].op = "uart"
      /\ m[8].reg = "DLL" /\ m[8].val = 26 /\ m[9].reg = "DLH" /\ m[9].val = 0
      /\ m[10].reg = "LCR" /\ m[11].reg = "IER" /\ m[11].val = 0 /\ m[12].reg = "LCR"
      /\ m[13].reg = "FCR" /\ m[14].reg = "LCR" /\ m[14].val = 3
      /\ m[15].reg = "MDR1" /\ m[15].val = 0
  BY Omap3UartSteps
<1> HIDE DEF m
<1>3. /\ Sharing("DLL") = {"DLL", "THR"} /\ Sharing("DLH") = {"DLH", "IER"}
      /\ Sharing("LCR") = {"LCR"} /\ Sharing("MDR1") = {"MDR1"}
  BY DEF Sharing
<1>4. ASSUME NEW i \in 9 .. 15
      PROVE  /\ m[i].reg \notin Sharing("DLL")
             /\ i > 9 /\ m[i].reg \in Sharing("DLH") => m[i].val = 0
             /\ i > 14 => m[i].reg \notin Sharing("LCR")
  <2>1. i \in {9, 10, 11, 12, 13, 14, 15}
    OBVIOUS
  <2>2. CASE i = 9
    BY Zenon, <1>2, <1>3, <2>2
  <2>3. CASE i = 11
    BY Zenon, <1>2, <1>3, <2>3
  <2>4. CASE i \in {10, 12, 13, 14}
    <3>1. m[i].reg \in {"LCR", "FCR"} /\ ~ (i > 14)
      BY <1>2, <2>4
    <3> QED  BY <1>3, <3>1
  <2>5. CASE i = 15
    BY Zenon, <1>2, <1>3, <2>5
  <2> QED  BY <2>1, <2>2, <2>3, <2>4, <2>5
<1>5. ASSUME NEW f \in {"DLL", "DLH", "LCR", "MDR1"}, NEW v \in Nat, NEW k \in 8 .. 15,
             m[k].reg = f, m[k].val = v,
             \A i \in 9 .. 15 : i > k /\ m[i].reg \in Sharing(f) => m[i].val = v
      PROVE  m \in Ends(Puts(f, v), Spoils(f, v))
  <2>1. k \in 1 .. Len(m) /\ m[k].op = "uart"
    BY <1>2
  <2>2. \A i \in k + 1 .. Len(m) : i \in 8 .. 15 /\ i \in 9 .. 15 /\ i > k
    BY <1>2
  <2>3. \A i \in 8 .. 15 : m[i].op = "uart"
    BY Zenon, <1>2
  <2>4. \A i \in k + 1 .. Len(m) :
          /\ m[i].op # "set"
          /\ m[i].op = "uart" /\ m[i].reg \in Sharing(f) => m[i].val = v
    BY Zenon, <1>5, <2>2, <2>3
  <2>5. f \in KnownFields \cap Uart16550
    BY <1>1
  <2>6. m \in Seq(Steps) /\ m[k].reg = f /\ m[k].val = v
    BY <1>2, <1>5
  <2> QED  BY <2>1, <2>4, <2>5, <2>6, EndsWithReg
<1>6. m \in Ends(Puts("DLL", 26), Spoils("DLL", 26))
  <2>1. m[8].reg = "DLL" /\ m[8].val = 26 /\ 8 \in 8 .. 15
    BY <1>2
  <2> QED  BY <1>4, <1>5, <2>1
<1>7. m \in Ends(Puts("DLH", 0), Spoils("DLH", 0))
  <2>1. m[9].reg = "DLH" /\ m[9].val = 0 /\ 9 \in 8 .. 15
    BY <1>2
  <2> QED  BY <1>4, <1>5, <2>1
<1>8. m \in Ends(Puts("LCR", 3), Spoils("LCR", 3))
  <2>1. m[14].reg = "LCR" /\ m[14].val = 3 /\ 14 \in 8 .. 15
    BY <1>2
  <2> QED  BY <1>4, <1>5, <2>1
<1>9. m \in Ends(Puts("MDR1", 0), Spoils("MDR1", 0))
  <2>1. m[15].reg = "MDR1" /\ m[15].val = 0 /\ 15 \in 8 .. 15
    BY <1>2
  <2>2. \A i \in 9 .. 15 : ~ (i > 15)
    OBVIOUS
  <2> QED  BY <1>5, <2>1, <2>2
<1> QED  BY <1>6, <1>7, <1>8, <1>9 DEF m

\* The parts of the programs of OMAP3 that hold no value, by their kinds.
LEMMA Omap3Parts ==
  ASSUME NEW index \in {0, 2}, NEW f \in KnownFields, NEW v \in Nat
  PROVE  /\ Omap3UartGates(index) \in Free(Spoils(f, v)) /\ Omap3Gates \in Free(Spoils(f, v))
         /\ Omap3UartSettle \in Free(Spoils(f, v))
         /\ f \notin Uart16550 => Omap3UartReset \in Free(Spoils(f, v)) /\ Omap3UartMode \in Free(Spoils(f, v))
         /\ Omap3WatchdogClocks \o Omap3WatchdogStop \in Seq(Steps) /\ Omap3Plls \in Seq(Steps)
         /\ Omap3UartClock \in Seq(Steps) /\ Omap3UartReset \in Seq(Steps)
         /\ Omap3UartGates(index) \in Seq(Steps)
<1> DEFINE F == Free(Spoils(f, v))
<1>1. /\ Omap3UartGates(index) \in Seq(StepsOf({"read", "write"}))
      /\ Omap3Gates \in Seq(StepsOf({"read", "write"}))
      /\ Omap3UartReset \in Seq(StepsOf({"uart", "wait"}))
      /\ Omap3UartMode \in Seq(StepsOf({"uart", "read", "write"}))
      /\ Omap3UartSettle \in Seq(StepsOf({"delay"}))
  BY Zenon, Omap3GatesTyped, Omap3UartPartsTyped
<1>2. Omap3UartGates(index) \in F /\ Omap3Gates \in F
  <2>1. \A s \in Spoils(f, v) : s.op \notin {"read", "write"}
    BY PutsKinds
  <2>2. Seq(StepsOf({"read", "write"})) \subseteq F
    BY <2>1, FreeKind
  <2> HIDE DEF F
  <2> QED  BY <1>1, <2>2
<1>3. Omap3UartSettle \in F
  BY <1>1, FreeOfSets
<1>4. f \notin Uart16550 => Omap3UartReset \in F
  BY <1>1, FreeOfSets
<1>5. f \notin Uart16550 => Omap3UartMode \in F
  BY <1>1, FreeOfSets
<1>6. Omap3UartGates(index) \in Seq(Steps) /\ Omap3UartReset \in Seq(Steps)
  BY <1>1, Kinds
<1>7. /\ Omap3WatchdogClocks \o Omap3WatchdogStop \in Seq(Steps) /\ Omap3Plls \in Seq(Steps)
      /\ Omap3UartClock \in Seq(Steps)
  BY Omap3WatchdogTyped, Omap3PllsTyped, Omap3UartPartsTyped, Kinds, Joined
<1> QED  BY <1>2, <1>3, <1>4, <1>5, <1>6, <1>7

\* The values that OMAP3 needs.
LEMMA Omap3Values ==
  ASSUME board \in Omap3Boards, NEW f \in DOMAIN ConsoleValues
  PROVE  LET v == ConsoleValues[f] IN
           f \in KnownFields /\ v \in Nat /\ Plat(board) \o Stdio(board) \in Ends(Puts(f, v), Spoils(f, v))
<1> DEFINE w == [OSC |-> 260000, SYSDIV |-> 2, PER_M |-> 432, PER_N |-> 12, PER_M2 |-> 9,
                 DLL |-> 26, DLH |-> 0, LCR |-> 3, MDR1 |-> 0]
           v == ConsoleValues[f]
           E == Ends(Puts(f, v), Spoils(f, v))
           F == Free(Spoils(f, v))
<1>1. ConsoleValues = w
  BY SMT DEF ConsoleValues, Omap3Boards
<1>2. f \in {"OSC", "SYSDIV", "PER_M", "PER_N", "PER_M2", "DLL", "DLH", "LCR", "MDR1"}
  BY SMT, <1>1
<1>3. f \in KnownFields /\ (f \in Uart16550 <=> f \in {"DLL", "DLH", "LCR", "MDR1"})
  BY <1>2 DEF KnownFields, Fields, OmapFields, Uart16550
<1>4. /\ f = "OSC" => v = 260000
      /\ f = "SYSDIV" => v = 2
      /\ f = "PER_M" => v = 432
      /\ f = "PER_N" => v = 12
      /\ f = "PER_M2" => v = 9
      /\ f = "DLL" => v = 26
      /\ f = "DLH" => v = 0
      /\ f = "LCR" => v = 3
      /\ f = "MDR1" => v = 0
  BY SMT, <1>1
<1> HIDE DEF w, v
<1>5. v \in Nat
  BY SMT, <1>2, <1>4
<1>6. /\ \A p \in E, q \in F : p \o q \in E
      /\ \A p \in Seq(Steps), q \in E : p \o q \in E
      /\ \A p, q \in F : p \o q \in F
      /\ \A p, q \in Seq(Steps) : p \o q \in Seq(Steps)
  BY EndsJoined, FreeJoined, Joined
<1>7. PICK index \in {0, 2} : Stdio(board) = Omap3Uart(index)
  <2>1. CASE board = "omap3"
    BY <2>1 DEF Stdio, Omap3Boards, S3C24Boards, At91Boards
  <2>2. CASE board = "evm3530"
    BY <2>2 DEF Stdio, Omap3Boards, S3C24Boards, At91Boards
  <2> QED  BY <2>1, <2>2 DEF Omap3Boards
<1> DEFINE a == Omap3WatchdogClocks \o Omap3WatchdogStop
           x == Omap3UartClock
           g == Omap3UartGates(index)
           r == Omap3UartReset
           m == Omap3UartMode
           s == Omap3UartSettle
<1>8. Plat(board) = a \o Omap3Plls \o Omap3Gates
  BY DEF Plat, Omap3Plat, Omap3Boards, S3C24Boards, At91Boards
<1>9. Stdio(board) = x \o g \o r \o m \o s
  BY <1>7 DEF Omap3Uart
<1>10. /\ g \in F /\ Omap3Gates \in F /\ s \in F
       /\ f \notin Uart16550 => r \in F /\ m \in F
       /\ a \in Seq(Steps) /\ Omap3Plls \in Seq(Steps)
       /\ x \in Seq(Steps) /\ r \in Seq(Steps) /\ g \in Seq(Steps)
  BY <1>3, <1>5, Omap3Parts
<1>11. Plat(board) \in Seq(Steps)
  BY Zenon, PartsTyped DEF Boards, Omap3Boards
<1>12. f \in {"OSC", "SYSDIV"} => Omap3Plls \in E /\ x \in F
  <2>1. SUFFICES ASSUME f \in {"OSC", "SYSDIV"} PROVE Omap3Plls \in E /\ x \in F
    OBVIOUS
  <2>2. f \in KnownFields \ Uart16550
    BY <1>3, <2>1
  <2>3. SetsLast(Omap3Plls, f, v) /\ SetsNot(x, f)
    BY SMT, <1>4, <2>1, Omap3ConsoleSet
  <2>4. Omap3Plls \in E
    BY <1>5, <1>10, <2>2, <2>3, EndsWithField
  <2>5. x \in F
    BY <1>5, <1>10, <2>2, <2>3, FreeOfField
  <2> QED  BY <2>4, <2>5
<1>13. f \in {"PER_M", "PER_N", "PER_M2"} => x \in E
  <2>1. SUFFICES ASSUME f \in {"PER_M", "PER_N", "PER_M2"} PROVE x \in E
    OBVIOUS
  <2>2. f \in KnownFields \ Uart16550
    BY <1>3, <2>1
  <2>3. SetsLast(x, f, v)
    BY SMT, <1>4, <2>1, Omap3ConsoleSet
  <2> QED  BY <1>5, <1>10, <2>2, <2>3, EndsWithField
<1>14. f \in {"DLL", "DLH", "LCR", "MDR1"} => m \in E
  BY SMT, <1>4, Omap3ModeSet
<1> HIDE DEF E, F, a, x, g, r, m, s
<1>15. CASE f \in {"OSC", "SYSDIV"}
  <2>1. Plat(board) \in E
    BY <1>6, <1>8, <1>10, <1>12, <1>15
  <2>2. Stdio(board) \in F
    BY <1>3, <1>6, <1>9, <1>10, <1>12, <1>15
  <2> QED  BY <1>3, <1>5, <1>6, <2>1, <2>2 DEF E, v
<1>16. CASE f \in {"PER_M", "PER_N", "PER_M2"}
  <2>1. Stdio(board) \in E
    BY <1>3, <1>6, <1>9, <1>10, <1>13, <1>16
  <2> QED  BY <1>3, <1>5, <1>6, <1>11, <2>1 DEF E, v
<1>17. CASE f \in {"DLL", "DLH", "LCR", "MDR1"}
  <2> DEFINE y == x \o g \o r
  <2>1. y \in Seq(Steps) /\ Stdio(board) = y \o m \o s
    BY <1>6, <1>9, <1>10
  <2> HIDE DEF y
  <2>2. y \o m \in E
    BY <1>6, <1>14, <1>17, <2>1
  <2>3. Stdio(board) \in E
    BY <1>6, <1>10, <2>1, <2>2
  <2> QED  BY <1>3, <1>5, <1>6, <1>11, <2>3 DEF E, v
<1> QED  BY <1>2, <1>15, <1>16, <1>17

\* The steps that set the PLLs of OMAP4.
LEMMA Omap4PllSteps ==
  /\ LET p == Omap4Mpu(MpuDpll) IN
       /\ p \in Seq(Steps) /\ Len(p) = 3 /\ p[1].op = "bypass" /\ p[2].op = "set" /\ p[3].op = "lock"
       /\ p[2].f = [MPU_M |-> 125, MPU_N |-> 7, MPU_M2 |-> 1]
  /\ LET p == Omap4Per(PerDpll) IN
       /\ p \in Seq(Steps) /\ Len(p) = 3 /\ p[1].op = "bypass" /\ p[2].op = "set" /\ p[3].op = "lock"
       /\ p[2].f = [PER_M |-> 20, PER_N |-> 0, PER_M2 |-> 8]
  /\ LET p == Omap4Core(CoreDpll) IN
       /\ p \in Seq(Steps) /\ Len(p) = 7 /\ p[1].op = "bypass" /\ p[2].op = "set"
       /\ p[2].f = [CORE_M |-> 125, CORE_N |-> 5, CORE_M2 |-> 1]
       /\ p[3].op = "read" /\ p[4].op = "write" /\ p[5] = [op |-> "wait", event |-> "emif_awake"]
       /\ p[6] = [op |-> "lock", pll |-> "core"] /\ p[7] = [op |-> "wait", event |-> "core"]
<1>1. /\ Omap4Mpu(MpuDpll) \in Seq(Steps) /\ Omap4Per(PerDpll) \in Seq(Steps)
      /\ Omap4Core(CoreDpll) \in Seq(Steps)
  <2>1. /\ Omap4Mpu(MpuDpll) \in Seq(StepsOf({"set", "bypass", "lock"}))
        /\ Omap4Per(PerDpll) \in Seq(StepsOf({"set", "bypass", "lock"}))
    BY Omap4PllTyped DEF MpuDpll, PerDpll
  <2>2. Omap4Core(CoreDpll) \in Seq(StepsOf({"set", "bypass", "lock", "read", "write", "wait"}))
    BY Omap4CoreTyped DEF CoreDpll
  <2> QED  BY <2>1, <2>2, Kinds
<1>2. LET p == Omap4Mpu(MpuDpll) IN
        /\ Len(p) = 3 /\ p[1].op = "bypass" /\ p[2].op = "set" /\ p[3].op = "lock"
        /\ p[2].f = [MPU_M |-> 125, MPU_N |-> 7, MPU_M2 |-> 1]
  BY DEF Omap4Mpu, MpuDpll, Bypass, Set, Lock
<1>3. LET p == Omap4Per(PerDpll) IN
        /\ Len(p) = 3 /\ p[1].op = "bypass" /\ p[2].op = "set" /\ p[3].op = "lock"
        /\ p[2].f = [PER_M |-> 20, PER_N |-> 0, PER_M2 |-> 8]
  BY DEF Omap4Per, PerDpll, Bypass, Set, Lock
<1>4. LET p == Omap4Core(CoreDpll) IN
        /\ Len(p) = 7 /\ p[1].op = "bypass" /\ p[2].op = "set"
        /\ p[2].f = [CORE_M |-> 125, CORE_N |-> 5, CORE_M2 |-> 1]
        /\ p[3].op = "read" /\ p[4].op = "write" /\ p[5] = [op |-> "wait", event |-> "emif_awake"]
        /\ p[6] = [op |-> "lock", pll |-> "core"] /\ p[7] = [op |-> "wait", event |-> "core"]
  <2> DEFINE fc == [CORE_M |-> 125, CORE_N |-> 5, CORE_M2 |-> 1]
             eg == {"emif1", "emif2"}
             p == Omap4Core(CoreDpll)
  <2>1. p = Bypass("core") \o Set(fc) \o (Read("memif") \o Write("memif", eg))
              \o Wait("emif_awake") \o Lock("core") \o Wait("core")
    BY Zenon DEF Omap4Core, CoreDpll, Open
  <2> HIDE DEF fc, eg, p
  <2>2. /\ Len(p) = 7 /\ p[1].op = "bypass" /\ p[2].op = "set" /\ p[2].f = fc
        /\ p[3].op = "read" /\ p[4].op = "write" /\ p[5] = [op |-> "wait", event |-> "emif_awake"]
        /\ p[6] = [op |-> "lock", pll |-> "core"] /\ p[7] = [op |-> "wait", event |-> "core"]
    BY <2>1 DEF Set, Bypass, Lock, Read, Write, Wait
  <2> QED  BY <2>2 DEF fc, p
<1> QED  BY <1>1, <1>2, <1>3, <1>4

\* The steps of uart_init() of OMAP4.
LEMMA Omap4UartSteps ==
  LET m == Omap4Uart IN
    /\ m \in Seq(Steps) /\ Len(m) = 9 /\ \A i \in 1 .. 9 : m[i].op = "uart"
    /\ m[1].reg = "IER" /\ m[2].reg = "MDR1" /\ m[3].reg = "LCR" /\ m[3].val = 131
    /\ m[4].reg = "DLL" /\ m[4].val = 26 /\ m[5].reg = "DLH" /\ m[5].val = 0
    /\ m[6].reg = "LCR" /\ m[6].val = 3 /\ m[7].reg = "MCR" /\ m[8].reg = "FCR"
    /\ m[9].reg = "MDR1" /\ m[9].val = 0
<1> DEFINE div == (48000000 \div 16) \div 115200
           lo == div % 256
           hi == div \div 256
           m == Omap4Uart
<1>1. lo = 26 /\ hi = 0
  BY SMT
<1>2. m = UartReg("IER", 0) \o UartReg("MDR1", 7)
            \o UartReg("LCR", 131) \o UartReg("DLL", lo) \o UartReg("DLH", hi)
            \o UartReg("LCR", 3) \o UartReg("MCR", 3) \o UartReg("FCR", 7) \o UartReg("MDR1", 0)
  BY SMT DEF Omap4Uart
<1>3. m \in Seq(Steps)
  BY Omap4UartTyped, Kinds
<1> HIDE DEF div, lo, hi, m
<1>4. Len(m) = 9 /\ \A i \in 1 .. 9 : m[i].op = "uart"
  BY <1>2 DEF UartReg
<1>5. /\ m[1].reg = "IER" /\ m[2].reg = "MDR1" /\ m[3].reg = "LCR" /\ m[3].val = 131
      /\ m[4].reg = "DLL" /\ m[4].val = lo /\ m[5].reg = "DLH" /\ m[5].val = hi
      /\ m[6].reg = "LCR" /\ m[6].val = 3 /\ m[7].reg = "MCR" /\ m[8].reg = "FCR"
      /\ m[9].reg = "MDR1" /\ m[9].val = 0
  BY <1>2 DEF UartReg
<1> QED  BY <1>1, <1>3, <1>4, <1>5 DEF m

\* The registers of the 16550 that uart_init() of OMAP4 leaves.
LEMMA Omap4ModeSet ==
  /\ Omap4Uart \in Ends(Puts("DLL", 26), Spoils("DLL", 26))
  /\ Omap4Uart \in Ends(Puts("DLH", 0), Spoils("DLH", 0))
  /\ Omap4Uart \in Ends(Puts("LCR", 3), Spoils("LCR", 3))
  /\ Omap4Uart \in Ends(Puts("MDR1", 0), Spoils("MDR1", 0))
<1> DEFINE m == Omap4Uart
<1>1. {"DLL", "DLH", "LCR", "MDR1"} \subseteq KnownFields \cap Uart16550
  BY DEF KnownFields, Fields, Uart16550
<1>2. /\ m \in Seq(Steps) /\ Len(m) = 9 /\ \A i \in 1 .. 9 : m[i].op = "uart"
      /\ m[4].reg = "DLL" /\ m[4].val = 26 /\ m[5].reg = "DLH" /\ m[5].val = 0
      /\ m[6].reg = "LCR" /\ m[6].val = 3 /\ m[7].reg = "MCR" /\ m[8].reg = "FCR"
      /\ m[9].reg = "MDR1" /\ m[9].val = 0
  BY Omap4UartSteps
<1> HIDE DEF m
<1>3. /\ Sharing("DLL") = {"DLL", "THR"} /\ Sharing("DLH") = {"DLH", "IER"}
      /\ Sharing("LCR") = {"LCR"}
  BY DEF Sharing
<1>4. ASSUME NEW i \in 5 .. 9
      PROVE  /\ m[i].reg \notin Sharing("DLL")
             /\ i > 5 => m[i].reg \notin Sharing("DLH")
             /\ i > 6 => m[i].reg \notin Sharing("LCR")
  <2>1. i \in {5, 6, 7, 8, 9}
    OBVIOUS
  <2>2. CASE i = 5
    BY <1>2, <1>3, <2>2
  <2>3. CASE i = 6
    BY <1>2, <1>3, <2>3
  <2>4. CASE i \in {7, 8, 9}
    <3>1. m[i].reg \in {"MCR", "FCR", "MDR1"}
      BY <1>2, <2>4
    <3> QED  BY <1>3, <3>1
  <2> QED  BY <2>1, <2>2, <2>3, <2>4
<1>5. ASSUME NEW f \in {"DLL", "DLH", "LCR", "MDR1"}, NEW v \in Nat, NEW k \in 4 .. 9,
             m[k].reg = f, m[k].val = v,
             \A i \in 5 .. 9 : i > k => m[i].reg \notin Sharing(f)
      PROVE  m \in Ends(Puts(f, v), Spoils(f, v))
  <2>1. k \in 1 .. Len(m) /\ m[k].op = "uart"
    BY <1>2
  <2>2. \A i \in k + 1 .. Len(m) : i \in 1 .. 9 /\ i \in 5 .. 9 /\ i > k
    BY <1>2
  <2>3. \A i \in k + 1 .. Len(m) :
          /\ m[i].op # "set"
          /\ m[i].op = "uart" /\ m[i].reg \in Sharing(f) => m[i].val = v
    BY Zenon, <1>2, <1>5, <2>2
  <2>4. f \in KnownFields \cap Uart16550
    BY <1>1
  <2>5. m \in Seq(Steps) /\ m[k].reg = f /\ m[k].val = v
    BY <1>2, <1>5
  <2> QED  BY <2>1, <2>3, <2>4, <2>5, EndsWithReg
<1>6. m \in Ends(Puts("DLL", 26), Spoils("DLL", 26))
  <2>1. m[4].reg = "DLL" /\ m[4].val = 26 /\ 4 \in 4 .. 9
    BY <1>2
  <2> QED  BY <1>4, <1>5, <2>1
<1>7. m \in Ends(Puts("DLH", 0), Spoils("DLH", 0))
  <2>1. m[5].reg = "DLH" /\ m[5].val = 0 /\ 5 \in 4 .. 9
    BY <1>2
  <2> QED  BY <1>4, <1>5, <2>1
<1>8. m \in Ends(Puts("LCR", 3), Spoils("LCR", 3))
  <2>1. m[6].reg = "LCR" /\ m[6].val = 3 /\ 6 \in 4 .. 9
    BY <1>2
  <2> QED  BY <1>4, <1>5, <2>1
<1>9. m \in Ends(Puts("MDR1", 0), Spoils("MDR1", 0))
  <2>1. m[9].reg = "MDR1" /\ m[9].val = 0 /\ 9 \in 4 .. 9
    BY <1>2
  <2>2. \A i \in 5 .. 9 : ~ (i > 9)
    OBVIOUS
  <2> QED  BY <1>5, <2>1, <2>2
<1> QED  BY <1>6, <1>7, <1>8, <1>9 DEF m

\* The parts of plat_init() of OMAP4.
LEMMA Omap4Parts ==
  LET o == Set([OSC |-> 384000, SYSDIV |-> 1]) IN
    /\ Omap4Plat = o \o Omap4Mpu(MpuDpll) \o Omap4Per(PerDpll) \o Omap4Core(CoreDpll)
                     \o Omap4GpioGates \o Omap4UartGates
    /\ o \in Seq(Steps) /\ Len(o) = 1 /\ o[1].op = "set" /\ o[1].f = [OSC |-> 384000, SYSDIV |-> 1]
    /\ \A A : (\A s \in A : s.op \notin {"read", "write"}) =>
         Omap4GpioGates \in Free(A) /\ Omap4UartGates \in Free(A)
<1> DEFINE fo == [OSC |-> 384000, SYSDIV |-> 1]
<1>1. /\ Omap4Plat = Set(fo) \o Omap4Mpu(MpuDpll) \o Omap4Per(PerDpll) \o Omap4Core(CoreDpll)
                       \o Omap4GpioGates \o Omap4UartGates
  BY SMT DEF Omap4Plat
<1>2. fo \in SetValues
  BY SMT, SetsTyped
<1> HIDE DEF fo
<1>3. Set(fo) \in Seq(StepsOf({"set"}))
  BY <1>2, SetTyped
<1>4. Set(fo) \in Seq(Steps)
  BY <1>3, Kinds
<1>5. Len(Set(fo)) = 1 /\ Set(fo)[1].op = "set" /\ Set(fo)[1].f = fo
  BY DEF Set
<1>6. ASSUME NEW A, \A s \in A : s.op \notin {"read", "write"}
      PROVE  Omap4GpioGates \in Free(A) /\ Omap4UartGates \in Free(A)
  BY <1>6, Omap4GatesTyped, FreeKind
<1> QED  BY SMT, <1>1, <1>4, <1>5, <1>6 DEF fo

\* Where the set-up of OMAP4 sets the fields of the console, and where not.
LEMMA Omap4ConsoleSet ==
  LET o == Set([OSC |-> 384000, SYSDIV |-> 1])
      m == Omap4Mpu(MpuDpll)
      r == Omap4Per(PerDpll)
      c == Omap4Core(CoreDpll)
  IN /\ SetsLast(o, "OSC", 384000) /\ SetsNot(m, "OSC") /\ SetsNot(r, "OSC")
     /\ SetsLast(r, "PER_M", 20) /\ SetsLast(r, "PER_N", 0) /\ SetsLast(r, "PER_M2", 8)
     /\ \A f \in {"OSC", "PER_M", "PER_N", "PER_M2"} : SetsNot(c, f) /\ SetsNot(Omap4Uart, f)
<1> DEFINE o == Set([OSC |-> 384000, SYSDIV |-> 1])
           m == Omap4Mpu(MpuDpll)
           r == Omap4Per(PerDpll)
           c == Omap4Core(CoreDpll)
           u == Omap4Uart
<1>1. Len(o) = 1 /\ o[1].op = "set" /\ o[1].f = [OSC |-> 384000, SYSDIV |-> 1]
  BY SMT, Omap4Parts
<1>2. /\ Len(m) = 3 /\ m[1].op = "bypass" /\ m[2].op = "set" /\ m[3].op = "lock"
      /\ m[2].f = [MPU_M |-> 125, MPU_N |-> 7, MPU_M2 |-> 1]
  BY Omap4PllSteps
<1>3. /\ Len(r) = 3 /\ r[1].op = "bypass" /\ r[2].op = "set" /\ r[3].op = "lock"
      /\ r[2].f = [PER_M |-> 20, PER_N |-> 0, PER_M2 |-> 8]
  BY Omap4PllSteps
<1>4. /\ Len(c) = 7 /\ c[2].f = [CORE_M |-> 125, CORE_N |-> 5, CORE_M2 |-> 1]
      /\ c[1].op = "bypass" /\ c[3].op = "read" /\ c[4].op = "write"
      /\ c[5].op = "wait" /\ c[6].op = "lock" /\ c[7].op = "wait"
  BY Omap4PllSteps
<1>5. Len(u) = 9 /\ \A i \in 1 .. 9 : u[i].op = "uart"
  BY Omap4UartSteps
<1> HIDE DEF o, m, r, c, u
<1>6. SetsLast(o, "OSC", 384000)
  <2>1. /\ 1 \in 1 .. Len(o) /\ "OSC" \in DOMAIN o[1].f /\ o[1].f["OSC"] = 384000
        /\ \A i \in 1 + 1 .. Len(o) : o[i].op = "set" => "OSC" \notin DOMAIN o[i].f
    BY SMT, <1>1
  <2> QED  BY SMT, <1>1, <2>1 DEF SetsLast
<1>7. SetsNot(m, "OSC")
  BY <1>2 DEF SetsNot
<1>8. SetsNot(r, "OSC")
  BY <1>3 DEF SetsNot
<1>9. ASSUME NEW f \in {"PER_M", "PER_N", "PER_M2"}
      PROVE  /\ 2 \in 1 .. Len(r) /\ f \in DOMAIN r[2].f
             /\ \A i \in 2 + 1 .. Len(r) : r[i].op = "set" => f \notin DOMAIN r[i].f
  BY <1>3
<1>10. r[2].f["PER_M"] = 20 /\ r[2].f["PER_N"] = 0 /\ r[2].f["PER_M2"] = 8
  BY <1>3
<1>11. SetsLast(r, "PER_M", 20) /\ SetsLast(r, "PER_N", 0) /\ SetsLast(r, "PER_M2", 8)
  BY <1>3, <1>9, <1>10 DEF SetsLast
<1>12. ASSUME NEW f \in {"OSC", "PER_M", "PER_N", "PER_M2"} PROVE SetsNot(c, f)
  <2>1. f \notin DOMAIN c[2].f
    BY <1>4
  <2>2. \A i \in 1 .. 7 : i = 2 \/ c[i].op # "set"
    <3>1. \A i \in 1 .. 7 : i \in {1, 2, 3, 4, 5, 6, 7}
      OBVIOUS
    <3> QED  BY <1>4, <3>1
  <2> QED  BY <1>4, <2>1, <2>2 DEF SetsNot
<1>13. ASSUME NEW f PROVE SetsNot(u, f)
  BY <1>5 DEF SetsNot
<1> QED  BY SMT, <1>6, <1>7, <1>8, <1>11, <1>12, <1>13 DEF o, m, r, c, u

\* The values that OMAP4 needs.
LEMMA Omap4Values ==
  ASSUME board = "omap4", NEW f \in DOMAIN ConsoleValues
  PROVE  LET v == ConsoleValues[f] IN
           f \in KnownFields /\ v \in Nat /\ Plat(board) \o Stdio(board) \in Ends(Puts(f, v), Spoils(f, v))
<1> DEFINE w == [OSC |-> 384000, PER_M |-> 20, PER_N |-> 0, PER_M2 |-> 8,
                 DLL |-> 26, DLH |-> 0, LCR |-> 3, MDR1 |-> 0]
           v == ConsoleValues[f]
           E == Ends(Puts(f, v), Spoils(f, v))
           F == Free(Spoils(f, v))
<1>1. ConsoleValues = w
  BY SMT DEF ConsoleValues, Omap3Boards
<1>2. f \in {"OSC", "PER_M", "PER_N", "PER_M2", "DLL", "DLH", "LCR", "MDR1"}
  BY SMT, <1>1
<1>3. f \in KnownFields /\ (f \in Uart16550 <=> f \in {"DLL", "DLH", "LCR", "MDR1"})
  BY <1>2 DEF KnownFields, Fields, OmapFields, Uart16550
<1>4. /\ f = "OSC" => v = 384000
      /\ f = "PER_M" => v = 20
      /\ f = "PER_N" => v = 0
      /\ f = "PER_M2" => v = 8
      /\ f = "DLL" => v = 26
      /\ f = "DLH" => v = 0
      /\ f = "LCR" => v = 3
      /\ f = "MDR1" => v = 0
  BY SMT, <1>1
<1> HIDE DEF w, v
<1>5. v \in Nat
  BY SMT, <1>2, <1>4
<1>6. /\ \A p \in E, q \in F : p \o q \in E
      /\ \A p \in Seq(Steps), q \in E : p \o q \in E
      /\ \A p, q \in Seq(Steps) : p \o q \in Seq(Steps)
  BY EndsJoined, Joined
<1>7. Plat(board) = Omap4Plat /\ Stdio(board) = Omap4Uart
  BY DEF Plat, Stdio, Omap3Boards, S3C24Boards, At91Boards
<1>8. Plat(board) \in Seq(Steps) /\ Stdio(board) \in Seq(Steps)
  BY PartsTyped DEF Boards
<1> DEFINE o == Set([OSC |-> 384000, SYSDIV |-> 1])
           m == Omap4Mpu(MpuDpll)
           r == Omap4Per(PerDpll)
           c == Omap4Core(CoreDpll)
<1>9. /\ Omap4Plat = o \o m \o r \o c \o Omap4GpioGates \o Omap4UartGates
      /\ o \in Seq(Steps) /\ Len(o) = 1 /\ o[1].op = "set" /\ o[1].f = [OSC |-> 384000, SYSDIV |-> 1]
  BY SMT, Omap4Parts
<1>10. Omap4GpioGates \in F /\ Omap4UartGates \in F
  <2>1. \A s \in Spoils(f, v) : s.op \notin {"read", "write"}
    BY PutsKinds
  <2> QED  BY SMT, <2>1, Omap4Parts
<1>11. m \in Seq(Steps) /\ r \in Seq(Steps) /\ c \in Seq(Steps)
  BY Omap4PllSteps
<1>12. /\ SetsLast(o, "OSC", 384000) /\ SetsNot(m, "OSC") /\ SetsNot(r, "OSC")
       /\ SetsLast(r, "PER_M", 20) /\ SetsLast(r, "PER_N", 0) /\ SetsLast(r, "PER_M2", 8)
       /\ \A g \in {"OSC", "PER_M", "PER_N", "PER_M2"} : SetsNot(c, g) /\ SetsNot(Omap4Uart, g)
  BY SMT, Omap4ConsoleSet
<1> HIDE DEF o, m, r, c
<1>13. f \in {"OSC", "PER_M", "PER_N", "PER_M2"} => c \in F /\ Stdio(board) \in F
  <2>1. SUFFICES ASSUME f \in {"OSC", "PER_M", "PER_N", "PER_M2"} PROVE c \in F /\ Stdio(board) \in F
    OBVIOUS
  <2>2. f \in KnownFields \ Uart16550
    BY <1>3, <2>1
  <2>3. SetsNot(c, f) /\ SetsNot(Stdio(board), f)
    BY SMT, <1>7, <1>12, <2>1
  <2> QED  BY <1>5, <1>8, <1>11, <2>2, <2>3, FreeOfField
<1>14. f = "OSC" => o \in E /\ m \in F /\ r \in F
  <2>1. SUFFICES ASSUME f = "OSC" PROVE o \in E /\ m \in F /\ r \in F
    OBVIOUS
  <2>2. f \in KnownFields \ Uart16550
    BY <1>3, <2>1
  <2>3. SetsLast(o, f, v) /\ SetsNot(m, f) /\ SetsNot(r, f)
    BY SMT, <1>4, <1>12, <2>1
  <2>4. o \in E
    BY SMT, <1>5, <1>9, <2>2, <2>3, EndsWithField
  <2> QED  BY <1>5, <1>11, <2>2, <2>3, <2>4, FreeOfField
<1>15. f \in {"PER_M", "PER_N", "PER_M2"} => r \in E
  <2>1. SUFFICES ASSUME f \in {"PER_M", "PER_N", "PER_M2"} PROVE r \in E
    OBVIOUS
  <2>2. f \in KnownFields \ Uart16550
    BY <1>3, <2>1
  <2>3. SetsLast(r, f, v)
    BY SMT, <1>4, <1>12, <2>1
  <2> QED  BY <1>5, <1>11, <2>2, <2>3, EndsWithField
<1>16. f \in {"DLL", "DLH", "LCR", "MDR1"} => Stdio(board) \in E
  BY SMT, <1>4, <1>7, Omap4ModeSet
<1> HIDE DEF E, F
<1> DEFINE y == o \o m
<1>17. y \in Seq(Steps) /\ Plat(board) = y \o r \o c \o Omap4GpioGates \o Omap4UartGates
  BY SMT, <1>6, <1>7, <1>9, <1>11
<1>18. f = "OSC" => y \in E
  BY <1>6, <1>14
<1> HIDE DEF y
<1>19. f \in {"OSC", "PER_M", "PER_N", "PER_M2"} => y \o r \in E
  BY <1>6, <1>14, <1>15, <1>17, <1>18
<1>20. f \in {"OSC", "PER_M", "PER_N", "PER_M2"} => Plat(board) \in E
  <2>1. SUFFICES ASSUME f \in {"OSC", "PER_M", "PER_N", "PER_M2"} PROVE Plat(board) \in E
    OBVIOUS
  <2> DEFINE z == y \o r
  <2>2. z \in E /\ Plat(board) = z \o c \o Omap4GpioGates \o Omap4UartGates
    BY Zenon, <1>17, <1>19, <2>1
  <2> HIDE DEF z
  <2>3. z \o c \in E
    BY <1>6, <1>13, <2>1, <2>2
  <2>4. z \o c \o Omap4GpioGates \in E
    BY <1>6, <1>10, <2>3
  <2> QED  BY Zenon, <1>6, <1>10, <2>2, <2>4
<1>21. Plat(board) \o Stdio(board) \in E
  BY <1>2, <1>6, <1>8, <1>13, <1>16, <1>20
<1> QED  BY <1>3, <1>5, <1>21 DEF E, v

\* The console's registers hold what they must when text is printed.
LEMMA AllValues ==
  ASSUME board \in Boards, NEW f \in DOMAIN ConsoleValues
  PROVE  /\ f \in KnownFields /\ ConsoleValues[f] \in Nat
         /\ Guarded(ProgramOf(board), OfKind("print"),
                    Puts(f, ConsoleValues[f]), Spoils(f, ConsoleValues[f]))
<1> DEFINE v == ConsoleValues[f]
<1>1. board \notin {"armvirt", "e310"}
  <2>1. CASE board \in {"armvirt", "e310"}
    <3>1. ConsoleValues = <<>>
      BY SMT, <2>1 DEF ConsoleValues, Omap3Boards
    <3> QED  BY <3>1
  <2> QED  BY <2>1
<1>2. f \in KnownFields /\ v \in Nat /\ Plat(board) \o Stdio(board) \in Ends(Puts(f, v), Spoils(f, v))
  <2>1. CASE board \in Omap3Boards
    BY <2>1, Omap3Values
  <2>2. CASE board = "omap4"
    BY <2>2, Omap4Values
  <2>3. CASE board \in S3C24Boards
    BY <2>3, S3C24xValues
  <2>4. CASE board = "s3c6410"
    BY <2>4, S3C64xValues
  <2>5. CASE board \in At91Boards
    BY <2>5, At91Values
  <2> QED  BY <1>1, <2>1, <2>2, <2>3, <2>4, <2>5 DEF Boards, Omap3Boards, S3C24Boards, At91Boards
<1> HIDE DEF v
<1>3. \A s \in Spoils(f, v) : s.op \in {"set", "uart", "lock", "bypass"}
  BY PutsKinds
<1>4. Guarded(ProgramOf(board), OfKind("print"), Puts(f, v), Spoils(f, v))
  BY <1>2, <1>3, PrintsBehind
<1> QED  BY <1>2, <1>4 DEF v

\* The kinds of the steps that the latch and the locking PLLs hang on.
LEMMA ConsoleKinds ==
  /\ \A s \in Latches : s \in Steps /\ s.op = "uart" /\ s.reg \in {"DLL", "DLH"}
  /\ \A s \in Relocks : s \in Steps /\ s.op \in {"lock", "bypass"}
  /\ \A s \in SetsMainPll : s \in Steps /\ s.op = "set" /\ DOMAIN s.f \cap {"MULA", "DIVA"} # {}
  /\ \A s \in ClosesLatch : s.op = "set" \/ (s.op = "uart" /\ s.reg = "LCR" /\ s.val < 128)
BY DEF Latches, Relocks, SetsMainPll, ClosesLatch, WaitsFor

\* On OMAP3 the divisor latch is open when its registers are written.
LEMMA Omap3Latch == Guarded(Omap3UartMode, Latches, OpensLatch, ClosesLatch)
<1> DEFINE m == Omap3UartMode
<1>1. /\ m \in Seq(Steps) /\ Len(m) = 15
      /\ m[6].op = "read" /\ m[7].op = "write"
      /\ m[1].reg = "MDR1" /\ m[2].reg = "LCR" /\ m[3].reg = "LCR" /\ m[4].reg = "IER"
      /\ m[5].op = "uart" /\ m[5].reg = "LCR" /\ m[5].val = 191
      /\ m[8].op = "uart" /\ m[8].reg = "DLL"
      /\ m[10].reg = "LCR" /\ m[11].reg = "IER" /\ m[12].reg = "LCR"
      /\ m[13].reg = "FCR" /\ m[14].reg = "LCR" /\ m[15].reg = "MDR1"
  BY Omap3UartSteps
<1> HIDE DEF m
<1>2. ASSUME NEW i \in 1 .. Len(m), m[i] \in Latches PROVE i \in {8, 9}
  <2>1. m[i].op = "uart" /\ m[i].reg \in {"DLL", "DLH"}
    BY <1>2, ConsoleKinds
  <2>2. i \in {1, 2, 3, 4, 5, 6, 7, 8, 9, 10, 11, 12, 13, 14, 15}
    BY <1>1
  <2> QED  BY Zenon, <1>1, <2>1, <2>2
<1>3. m[5] \in OpensLatch
  <2>1. 5 \in 1 .. Len(m)
    BY <1>1
  <2>2. m[5] \in Steps
    BY Zenon, <1>1, <2>1, StepTyped
  <2> QED  BY <1>1, <2>2 DEF OpensLatch
<1>4. m[6] \notin ClosesLatch /\ m[7] \notin ClosesLatch /\ m[8] \notin ClosesLatch
  BY Zenon, <1>1, ConsoleKinds
<1>5. ASSUME NEW i \in {8, 9} PROVE Since(m, i - 1, OpensLatch, ClosesLatch)
  <2>1. 5 \in 1 .. i - 1 /\ \A j \in 5 + 1 .. i - 1 : j \in {6, 7, 8}
    OBVIOUS
  <2> QED  BY <1>3, <1>4, <2>1 DEF Since
<1> QED  BY <1>2, <1>5 DEF Guarded, m

\* And on OMAP4.
LEMMA Omap4Latch == Guarded(Omap4Uart, Latches, OpensLatch, ClosesLatch)
<1> DEFINE m == Omap4Uart
<1>1. /\ m \in Seq(Steps) /\ Len(m) = 9 /\ \A i \in 1 .. 9 : m[i].op = "uart"
      /\ m[1].reg = "IER" /\ m[2].reg = "MDR1" /\ m[3].reg = "LCR" /\ m[3].val = 131
      /\ m[4].reg = "DLL"
      /\ m[6].reg = "LCR" /\ m[7].reg = "MCR" /\ m[8].reg = "FCR" /\ m[9].reg = "MDR1"
  BY Omap4UartSteps
<1> HIDE DEF m
<1>2. ASSUME NEW i \in 1 .. Len(m), m[i] \in Latches PROVE i \in {4, 5}
  <2>1. m[i].reg \in {"DLL", "DLH"}
    BY <1>2, ConsoleKinds
  <2>2. i \in {1, 2, 3, 4, 5, 6, 7, 8, 9}
    BY <1>1
  <2> QED  BY <1>1, <2>1, <2>2
<1>3. m[3] \in OpensLatch
  <2>1. 3 \in 1 .. Len(m)
    BY <1>1
  <2>2. m[3] \in Steps
    BY Zenon, <1>1, <2>1, StepTyped
  <2> QED  BY <1>1, <2>2 DEF OpensLatch
<1>4. m[4] \notin ClosesLatch
  BY <1>1, ConsoleKinds
<1>5. ASSUME NEW i \in {4, 5} PROVE Since(m, i - 1, OpensLatch, ClosesLatch)
  <2>1. 3 \in 1 .. i - 1 /\ \A j \in 3 + 1 .. i - 1 : j = 4
    OBVIOUS
  <2> QED  BY <1>3, <1>4, <2>1 DEF Since
<1> QED  BY <1>2, <1>5 DEF Guarded, m

\* The divisor latch is open when its registers are written, on every board.
LEMMA AllLatched ==
  ASSUME board \in Boards
  PROVE  Guarded(ProgramOf(board), Latches, OpensLatch, ClosesLatch)
<1> DEFINE G == {p \in Seq(Steps) : Guarded(p, Latches, OpensLatch, ClosesLatch)}
<1>1. \A p, q \in G : p \o q \in G
  BY GuardedJoined, Joined
<1>2. Free(Latches) \subseteq G
  BY WithoutIsGuarded DEF Free
<1>3. ASSUME NEW K, "uart" \notin K, NEW p \in Seq(StepsOf(K)) PROVE p \in G
  <2>1. \A s \in Latches : s.op \notin K
    BY <1>3, ConsoleKinds
  <2> QED  BY <1>2, <1>3, <2>1, FreeKind
<1>4. Omap3UartMode \in G /\ Omap4Uart \in G
  BY Omap3Latch, Omap4Latch, Omap3UartSteps, Omap4UartSteps
<1>5. Omap3UartReset \in G
  <2> DEFINE p == Omap3UartReset
  <2>1. Len(p) = 2 /\ p[1].reg = "SYSC" /\ p[2].op = "wait"
    BY DEF Omap3UartReset, UartReg, Wait
  <2>2. p \in Seq(Steps)
    BY Omap3UartPartsTyped, Kinds
  <2> HIDE DEF p, G
  <2>3. Without(p, Latches)
    BY <2>1, ConsoleKinds DEF Without
  <2> QED  BY <1>2, <2>2, <2>3 DEF p, Free
<1>6. ASSUME NEW index \in {0, 2} PROVE Omap3Uart(index) \in G
  <2>1. Omap3UartClock \in G /\ Omap3UartSettle \in G
    BY Zenon, <1>3, Omap3UartPartsTyped
  <2>2. Omap3UartGates(index) \in G
    BY <1>3, Omap3GatesTyped
  <2> HIDE DEF G
  <2> QED  BY <1>1, <1>4, <1>5, <2>1, <2>2 DEF Omap3Uart
<1>7. Stdio(board) \in G
  <2>1. CASE board \in Omap3Boards
    BY <1>6, <2>1 DEF Stdio, Omap3Boards, S3C24Boards, At91Boards
  <2>2. CASE board = "omap4"
    BY <1>4, <2>2 DEF Stdio, Omap3Boards, S3C24Boards, At91Boards
  <2>3. CASE board \notin Omap3Boards \cup {"omap4"}
    <3>1. "uart" \notin StdioKinds(board)
      BY <2>3 DEF StdioKinds, Boards, Omap3Boards, S3C24Boards, At91Boards
    <3> QED  BY <1>3, <3>1, StdioTyped
  <2> QED  BY <2>1, <2>2, <2>3
<1>8. Plat(board) \in G /\ Sdram(board) \in G /\ AfterSdram(board) \in G /\ PrintText \in G
  <2>1. /\ "uart" \notin PlatKinds(board) /\ "uart" \notin SdramKinds(board)
        /\ "uart" \notin TailKinds(board)
    BY DEF PlatKinds, SdramKinds, TailKinds, Boards, Omap3Boards, S3C24Boards, At91Boards
  <2>2. PrintText \in Seq(StepsOf({"print"}))
    BY PrintTextTyped
  <2> QED  BY Zenon, <1>3, <2>1, <2>2, PlatTyped, SdramTyped, TailTyped
<1> QED  BY <1>7, <1>8, PartsGuarded

\* No PLL is locking behind the set-up of the console, but on OMAP4.
LEMMA AllIdle ==
  ASSUME board \in Boards, board \in Omap3Boards \/ IsS3C
  PROVE  Guarded(ProgramOf(board), OfKind("print"), Idles, Relocks)
<1> DEFINE E == Ends(Idles, Relocks)
<1>1. /\ \A p \in E, q \in Free(Relocks) : p \o q \in E
      /\ \A p \in Seq(Steps), q \in E : p \o q \in E
  BY EndsJoined
<1>2. Plat(board) \in Seq(Steps) /\ Stdio(board) \in Seq(Steps)
  BY PartsTyped
<1>3. ASSUME NEW p \in Seq(Steps), Len(p) > 0, p[Len(p)] \in Idles PROVE p \in E
  <2>1. Len(p) \in 1 .. Len(p) /\ \A i \in Len(p) + 1 .. Len(p) : p[i] \notin Relocks
    BY <1>3
  <2> QED  BY <1>3, <2>1, EndsAt
<1>4. board \in Omap3Boards => Stdio(board) \in E
  <2> SUFFICES ASSUME board \in Omap3Boards PROVE Stdio(board) \in E
    OBVIOUS
  <2>1. PICK index \in {0, 2} : Stdio(board) = Omap3Uart(index)
    <3>1. CASE board = "omap3"
      BY <3>1 DEF Stdio, Omap3Boards, S3C24Boards, At91Boards
    <3>2. CASE board = "evm3530"
      BY <3>2 DEF Stdio, Omap3Boards, S3C24Boards, At91Boards
    <3> QED  BY <3>1, <3>2 DEF Omap3Boards
  <2> DEFINE y == Omap3UartClock \o Omap3UartGates(index) \o Omap3UartReset \o Omap3UartMode
  <2>2. y \in Seq(Steps)
    <3>1. Omap3UartClock \in Seq(Steps) /\ Omap3UartReset \in Seq(Steps) /\ Omap3UartMode \in Seq(Steps)
      BY Omap3UartPartsTyped, Kinds
    <3>2. Omap3UartGates(index) \in Seq(Steps)
      BY Omap3GatesTyped, Kinds
    <3> QED  BY <3>1, <3>2, Joined
  <2>3. Stdio(board) = y \o Omap3UartSettle
    BY <2>1 DEF Omap3Uart
  <2> HIDE DEF y, E
  <2>4. Omap3UartSettle \in E
    <3> DEFINE p == Omap3UartSettle
    <3>1. p \in Seq(Steps)
      BY Omap3UartPartsTyped, Kinds
    <3>2. Len(p) = 1 /\ p[1].op = "delay"
      BY DEF Omap3UartSettle, Delay
    <3> HIDE DEF p
    <3>3. p[1] \in Idles
      <4>1. 1 \in 1 .. Len(p)
        BY <3>2
      <4>2. p[1] \in Steps
        BY <3>1, <4>1, StepTyped
      <4> QED  BY <3>2, <4>2 DEF Idles
    <3>4. Len(p) > 0 /\ p[Len(p)] \in Idles
      BY <3>2, <3>3
    <3> QED  BY <1>3, <3>1, <3>4 DEF p
  <2> QED  BY <1>1, <2>2, <2>3, <2>4
<1>5. board = "s3c6410" => Stdio(board) \in E
  <2> SUFFICES ASSUME board = "s3c6410" PROVE Stdio(board) \in E
    OBVIOUS
  <2> DEFINE p == Stdio(board)
  <2>1. p = S3C64xUart
    BY DEF Stdio, S3C24Boards, At91Boards, Omap3Boards
  <2>2. Len(p) = 5 /\ p[5].op = "delay"
    BY <2>1 DEF S3C64xUart, Set, Wait, Delay
  <2> HIDE DEF p, E
  <2>3. p[5] \in Idles
    <3>1. 5 \in 1 .. Len(p)
      BY <2>2
    <3>2. p[5] \in Steps
      BY <1>2, <3>1, StepTyped DEF p
    <3> QED  BY <2>2, <3>2 DEF Idles
  <2>4. p \in Seq(Steps) /\ Len(p) > 0 /\ p[Len(p)] \in Idles
    <3>1. p \in Seq(Steps)
      BY <1>2 DEF p
    <3> QED  BY <2>2, <2>3, <3>1
  <2> QED  BY <1>3, <2>4 DEF p
<1>6. board \in S3C24Boards => Stdio(board) \in E
  <2> SUFFICES ASSUME board \in S3C24Boards PROVE Stdio(board) \in E
    OBVIOUS
  <2> DEFINE p == Stdio(board)
  <2>1. p = S3C24xUart(S3C24Clock(board))
    <3>1. CASE board = "s3c2410"
      BY <3>1 DEF Stdio, S3C24Boards, At91Boards, Omap3Boards
    <3>2. CASE board = "s3c2440"
      BY <3>2 DEF Stdio, S3C24Boards, At91Boards, Omap3Boards
    <3> QED  BY <3>1, <3>2 DEF S3C24Boards
  <2>2. Len(p) = 1 /\ p[1].op = "set"
    BY <2>1 DEF S3C24xUart, Set
  <2> HIDE DEF p, E
  <2>3. p[1] \in Idles
    <3>1. 1 \in 1 .. Len(p)
      BY <2>2
    <3>2. p[1] \in Steps
      BY <1>2, <3>1, StepTyped DEF p
    <3> QED  BY <2>2, <3>2 DEF Idles
  <2>4. p \in Seq(Steps) /\ Len(p) > 0 /\ p[Len(p)] \in Idles
    <3>1. p \in Seq(Steps)
      BY <1>2 DEF p
    <3> QED  BY <2>2, <2>3, <3>1
  <2> QED  BY <1>3, <2>4 DEF p
<1>8. Plat(board) \o Stdio(board) \in E
  <2> HIDE DEF E
  <2> QED  BY <1>1, <1>2, <1>4, <1>5, <1>6 DEF IsS3C
<1>9. \A s \in Relocks : s.op \in {"set", "uart", "lock", "bypass"}
  BY ConsoleKinds
<1> QED  BY <1>8, <1>9, PrintsBehind

\* The init calls of at91 leave the PLLs alone.
LEMMA At91LeavesPlls ==
  ASSUME board \in At91Boards
  PROVE  Without(ProgramOf(board), Relocks) /\ Without(ProgramOf(board), SetsMainPll)
<1>1. board \in Boards
  BY DEF Boards, At91Boards
<1> DEFINE q == Stdio(board)
           n == IF board = "at91sam9261" THEN 54 ELSE 53
<1>2. /\ q \in Seq(Steps)
      /\ Len(q) = 4 /\ q[1].op = "pin" /\ q[2].op = "set" /\ q[3].op = "set" /\ q[4].op = "set"
      /\ q[2].f = [US_CR |-> 80] /\ q[3].f = [BRGR |-> n] /\ q[4].f = [US_MR |-> 2048]
  BY At91UartSteps
<1>3. /\ PlatKinds(board) \cap {"set", "lock", "bypass"} = {}
      /\ StdioKinds(board) \cap {"lock", "bypass"} = {}
      /\ SdramKinds(board) \cap {"set", "lock", "bypass"} = {}
      /\ TailKinds(board) \cap {"set", "lock", "bypass"} = {}
  BY DEF PlatKinds, StdioKinds, SdramKinds, TailKinds, Boards, Omap3Boards, S3C24Boards, At91Boards
<1>4. ASSUME NEW A \in {Relocks, SetsMainPll}
      PROVE  /\ Without(Plat(board), A) /\ Without(PrintText, A) /\ Without(Sdram(board), A)
             /\ Without(AfterSdram(board), A)
  <2>1. \A s \in A : s.op \in {"set", "lock", "bypass"}
    BY ConsoleKinds
  <2> QED  BY Zenon, <1>1, <1>3, <2>1, PartFree DEF Free
<1>5. Without(q, Relocks)
  BY <1>1, <1>3, ConsoleKinds, PartFree DEF Free
<1>6. Without(q, SetsMainPll)
  <2> HIDE DEF q, n
  <2>1. ASSUME NEW s \in SetsMainPll
        PROVE  s.op = "set" /\ s.f # [US_CR |-> 80] /\ s.f # [BRGR |-> n] /\ s.f # [US_MR |-> 2048]
    BY ConsoleKinds
  <2>2. \A i \in 1 .. 4 : i \in {1, 2, 3, 4}
    OBVIOUS
  <2> QED  BY <1>2, <2>1, <2>2 DEF Without
<1> QED  BY <1>1, <1>4, <1>5, <1>6, PartsWithout

\* The console is set up before it is used, on every board.
LEMMA AllSetConsole == ASSUME board \in Boards PROVE SetsConsole(ProgramOf(board))
<1>1. \A f \in DOMAIN ConsoleValues :
        Guarded(ProgramOf(board), OfKind("print"), Puts(f, ConsoleValues[f]), Spoils(f, ConsoleValues[f]))
  BY AllValues
<1>2. Guarded(ProgramOf(board), Latches, OpensLatch, ClosesLatch)
  BY AllLatched
<1>4. board \in Omap3Boards \/ IsS3C => Guarded(ProgramOf(board), OfKind("print"), Idles, Relocks)
  BY AllIdle
<1>5. IsAt91 => Without(ProgramOf(board), Relocks) /\ Without(ProgramOf(board), SetsMainPll)
  BY At91LeavesPlls DEF IsAt91
<1> QED  BY <1>1, <1>2, <1>4, <1>5 DEF SetsConsole

\* Text that is printed finds its UART clocked, set up and at its rate.
LEMMA PrintedRight ==
  FirstStage /\ TypeInv /\ OpenInv /\ EventInv /\ LockInv /\ ValueInv => ConsoleSpeed
<1> SUFFICES ASSUME FirstStage, TypeInv, OpenInv, EventInv, LockInv, ValueInv,
                    ~ Done, Op.op = "print", IsOmap \/ IsS3C \/ IsAt91
             PROVE  /\ AreOpen(ConsoleGates) /\ Format8N1
                    /\ board # "omap4" => ~ IsLocking("per") /\ ~ IsLocking("mpll")
                    /\ LET off == Divisor * 18432 - UartClock IN
                         (IF off < 0 THEN - off ELSE off) * 100 <= 3 * UartClock
  BY DEF ConsoleSpeed, IsS3C, S3C24Boards
<1>1. board \in Boards /\ Prog = ProgramOf(board) /\ SetsConsole(Prog) /\ ClocksFirst(Prog)
  BY ProgTyped, AllSetConsole, AllClockFirst DEF TypeInv
<1>2. /\ Op \in Steps /\ taken + 1 \in 1 .. Len(Prog) /\ Op = Prog[taken + 1]
      /\ taken \in Nat /\ (taken + 1) - 1 = taken
  BY OpTyped DEF TypeInv
<1>3. Prog[taken + 1] \in OfKind("print")
  BY <1>2 DEF OfKind
<1>4. AreOpen(ConsoleGates)
  <2>1. Needs(Op) = ConsoleGates
    BY DEF Needs
  <2> QED  BY <2>1, NeedsAreOpen
<1>5. "uart_reset" \notin pend
  <2> DEFINE T == OfKind("uart") \cup OfKind("print")
  <2>1. Apart(Prog, T, Starts("uart_reset"), WaitsFor("uart_reset"))
    BY <1>1 DEF ClocksFirst
  <2>2. Op \in T /\ "uart_reset" \notin AtReset
    BY <1>2, <1>3 DEF AtReset
  <2> HIDE DEF T
  <2> QED  BY <2>1, <2>2, EventIsOver
<1>6. \A f \in DOMAIN ConsoleValues : reg[f] = ConsoleValues[f]
  <2> SUFFICES ASSUME NEW f \in DOMAIN ConsoleValues PROVE reg[f] = ConsoleValues[f]
    OBVIOUS
  <2> DEFINE v == ConsoleValues[f]
  <2>1. f \in KnownFields /\ v \in Nat /\ Guarded(Prog, OfKind("print"), Puts(f, v), Spoils(f, v))
    BY <1>1, AllValues
  <2> HIDE DEF v
  <2>2. Since(Prog, taken, Puts(f, v), Spoils(f, v))
    BY <1>2, <1>3, <2>1 DEF Guarded
  <2>3. reg[f] = v
    BY <2>1, <2>2 DEF ValueInv
  <2> QED  BY <2>3 DEF v
<1>7. Format8N1
  BY <1>1, <1>5, <1>6, FormatIsRight
<1>8. LET off == Divisor * 18432 - UartClock IN
        (IF off < 0 THEN - off ELSE off) * 100 <= 3 * UartClock
  <2>1. IsAt91 => /\ reg["MULA"] = At91Pll(At91Chip(board)).mula
                  /\ reg["DIVA"] = At91Pll(At91Chip(board)).diva
    BY DEF ValueInv
  <2> QED  BY <1>1, <1>6, <2>1, RateIsRight
<1>9. ASSUME board # "omap4", NEW q \in {"per", "mpll"} PROVE ~ IsLocking(q)
  <2>1. CASE board \in Omap3Boards \/ IsS3C
    <3> SUFFICES ASSUME IsLocking(q) PROVE FALSE
      OBVIOUS
    <3>1. Since(Prog, taken, Idles, Relocks)
      BY <1>1, <1>2, <1>3, <2>1 DEF SetsConsole, Guarded
    <3>2. PICK i \in 1 .. taken : Prog[i] \in Idles /\ \A j \in i + 1 .. taken : Prog[j] \notin Relocks
      BY <3>1 DEF Since
    <3>3. Since(Prog, taken, LocksPll(q), Settles(q))
      BY DEF LockInv, Plls
    <3>4. PICK j \in 1 .. taken :
            Prog[j] \in LocksPll(q) /\ \A k \in j + 1 .. taken : Prog[k] \notin Settles(q)
      BY <3>3 DEF Since
    <3>5. Prog[j] \in Relocks /\ Prog[j].op = "lock"
      BY <3>4 DEF LocksPll, Relocks
    <3>6. Prog[i].op # "lock" /\ Prog[i] \in Settles(q)
      BY <3>2 DEF Idles, Settles
    <3>7. i # j /\ j \notin i + 1 .. taken /\ i \notin j + 1 .. taken
      BY <3>2, <3>4, <3>5, <3>6
    <3> QED  BY <1>2, <3>7
  <2>2. CASE IsAt91
    <3>1. Without(Prog, Relocks)
      BY <1>1, <2>2 DEF SetsConsole
    <3>2. LocksPll(q) \subseteq Relocks
      BY DEF LocksPll, Relocks
    <3>3. ~ Since(Prog, taken, LocksPll(q), Settles(q))
      BY <1>2, <3>1, <3>2 DEF Since, Without
    <3> QED  BY <3>3 DEF LockInv, Plls
  <2> QED  BY <1>9, <2>1, <2>2 DEF IsOmap
<1> QED  BY <1>4, <1>7, <1>8, <1>9

\* Whenever a board prints, its UART is clocked, set for eight bits without
\* parity, fed by a PLL that has locked (omap4, which does not wait for it,
\* excepted), and within 3 percent of 115200 baud; on at91 a first stage must have
\* set the PLL.
THEOREM ConsoleIsRight == FirstStage => (Spec => []ConsoleSpeed)
<1> SUFFICES ASSUME FirstStage PROVE Spec => []ConsoleSpeed
  OBVIOUS
<1> DEFINE I == TypeInv /\ OpenInv /\ EventInv /\ LockInv /\ ValueInv
<1>0. ASSUME TypeInv PROVE Selected(Prog) /\ SetsConsole(Prog)
  BY <1>0, ProgTyped, AllSelected, AllSetConsole DEF TypeInv
<1>1. Init => I
  BY InitTyped, InitGates, InitEvents, InitLock, InitValues
<1>2. I /\ [Next]_vars => I'
  <2> SUFFICES ASSUME I, [Next]_vars PROVE I'
    OBVIOUS
  <2>1. TypeInv' /\ OpenInv' /\ EventInv'
    BY StepTypedInv, OpenStep, EventStep
  <2>2. LockInv'
    BY <1>0, LockStep
  <2>3. ValueInv'
    BY <1>0, ValueStep DEF SetsConsole
  <2> QED  BY <2>1, <2>2, <2>3
<1>3. I => ConsoleSpeed
  BY PrintedRight
<1> QED  BY <1>1, <1>2, <1>3, PTL DEF Spec
==============================================================================
