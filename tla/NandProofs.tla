----------------------------- MODULE NandProofs -----------------------------
(***************************************************************************)
(* Proofs about Nand, for every chip, start and image: the types, and that *)
(* a chip that is ready in time and whose rows the code can address is     *)
(* read page by page, the whole image and no more.                         *)
(***************************************************************************)
EXTENDS Nand, TLAPS

Waits  == {"waitReset", "waitId", "waitRead"}
Loads  == {"read", "waitRead", "data"}
First  == start \div PageOf(dev)
Last   == First + (ImageSize - 1) \div PageOf(dev)

\* What nand_do_load() knows of the chip once it has been identified.
KnowsChip ==
  /\ start \div KB < dev.size
  /\ pc \in {"reset", "waitReset", "id", "waitId", "probe"} => mem = <<>>
  /\ pc \in Loads \cup {"loaded"} =>
       /\ dev.known /\ chip_size = dev.size /\ write_size = PageOf(dev)
       /\ curr_page = First + Len(mem)

\* The chip answers each command before the polls are over, ...
ChipInStep ==
  /\ pc \in Waits => polls < NandTimeout
  /\ pc \in {"reset", "id"} => chip = "idle"
  /\ pc = "waitReset" => chip \in {"idle", "resetting"}
  /\ pc \in {"waitId", "probe"} => chip = "id"
  /\ pc = "read" => ~ Busy
  /\ pc = "waitRead" => chip \in {"busy", "page"} /\ row = curr_page
  /\ pc = "data" => chip = "page" /\ row = curr_page

\* ... and the pages are those from First to Last.
PagesSoFar ==
  /\ \A k \in 1 .. Len(mem) : mem[k] = First + k - 1
  /\ mem # <<>> => last_page = Last
  /\ pc \in Loads => curr_page <= Last
  /\ pc = "loaded" => curr_page = Last + 1

TypeInv  == TypeOK /\ KnowsChip
ReadyInv == TypeInv /\ (~ dev.slow => ChipInStep /\ PagesSoFar)

\* The code sends enough row bytes to the chips that may be found, and they
\* hold the image that is to be loaded.
RowBytes(d) == IF d.size > 128 * KB THEN 3 ELSE 2

ImageFits ==
  \A d \in Devices, s \in Starts, h \in Headers :
    d.known /\ ~ d.slow /\ s \div KB < d.size =>
      LET size == IF h = NoHeader THEN OsLoadSize ELSE h IN
        /\ RowCycles(d) <= RowBytes(d) /\ Rows(d) <= 256 ^ 3
        /\ s \div PageOf(d) + (size - 1) \div PageOf(d) < Rows(d)

-----------------------------------------------------------------------------
(* Arithmetic *)

LEMMA PageSizes ==
  ASSUME NEW d \in DeviceType
  PROVE  PageOf(d) \in {512, 1024, 2048, 4096, 8192}
<1>1. 2 ^ 0 = 1 /\ 2 ^ 1 = 2 /\ 2 ^ 2 = 4 /\ 2 ^ 3 = 8
  OBVIOUS
<1>2. d.ext = 0 \/ d.ext = 1 \/ d.ext = 2 \/ d.ext = 3
  BY DEF DeviceType
<1>3. 2 ^ d.ext \in {1, 2, 4, 8}
  BY <1>1, <1>2
<1>4. d.write_size \in {0, 512}
  BY DEF DeviceType
<1> QED
  BY <1>3, <1>4 DEF PageOf, KB

LEMMA RowsPositive ==
  ASSUME NEW d \in DeviceType, d.size % KB = 0
  PROVE  Rows(d) \in Nat \ {0}
<1>1. d.size \in Nat /\ d.size >= 1024
  BY DEF DeviceType, KB
<1>2. PageOf(d) \div 512 \in {1, 2, 4, 8, 16}
  BY PageSizes
<1>3. (d.size * 2) \div 1 \in Nat \ {0} /\ (d.size * 2) \div 2 \in Nat \ {0}
  BY <1>1
<1>4. /\ (d.size * 2) \div 4 \in Nat \ {0} /\ (d.size * 2) \div 8 \in Nat \ {0}
      /\ (d.size * 2) \div 16 \in Nat \ {0}
  BY <1>1
<1> QED
  BY <1>2, <1>3, <1>4 DEF Rows

LEMMA RoundUp ==
  ASSUME NEW size \in Nat \ {0}, NEW w \in {512, 1024, 2048, 4096, 8192}
  PROVE  /\ ((size - 1) \div w + 1) * w >= size
         /\ ((size - 1) \div w) * w < size
OBVIOUS

LEMMA DivNat ==
  ASSUME NEW a \in Nat, NEW w \in {512, 1024, 2048, 4096, 8192}
  PROVE  a \div w \in Nat
OBVIOUS

LEMMA DeviceFacts ==
  ASSUME TypeOK
  PROVE  /\ dev \in DeviceType /\ PageOf(dev) \in {512, 1024, 2048, 4096, 8192}
         /\ Rows(dev) \in Nat \ {0}
         /\ First \in Nat /\ Last \in Nat /\ ImageSize \in Nat \ {0}
         /\ NandTimeout \in Nat \ {0}
<1>1. dev \in DeviceType /\ dev.size % KB = 0 /\ start \in Nat /\ header \in Nat
  BY ConstantsAssumption DEF TypeOK
<1>2. ImageSize \in Nat \ {0}
  BY <1>1, ConstantsAssumption DEF ImageSize, NoHeader
<1>3. PageOf(dev) \in {512, 1024, 2048, 4096, 8192} /\ Rows(dev) \in Nat \ {0}
  BY <1>1, PageSizes, RowsPositive
<1>4. First \in Nat /\ Last \in Nat
  BY <1>1, <1>2, <1>3, DivNat DEF First, Last
<1> QED
  BY <1>1, <1>2, <1>3, <1>4, ConstantsAssumption

-----------------------------------------------------------------------------
(* Types *)

LEMMA TypeInit == Init => TypeInv
<1> SUFFICES ASSUME Init PROVE TypeInv
  OBVIOUS
<1>1. TypeOK
  BY ConstantsAssumption DEF Init, TypeOK, Places, ChipStates
<1>2. KnowsChip
  BY DEF Init, KnowsChip, Loads
<1> QED
  BY <1>1, <1>2 DEF TypeInv

\* last_page is a page number: there is something to load, and the page size
\* is known.
LEMMA LastPageType ==
  ASSUME TypeInv, pc = "data", NEW p
  PROVE  LastPage(LoadSize(p)) \in Nat
<1>1. LoadSize(p) \in Nat \ {0}
  BY ConstantsAssumption DEF LoadSize, TypeInv, TypeOK, NoHeader
<1>2. curr_page \in Nat /\ write_size \in {512, 1024, 2048, 4096, 8192}
  BY DeviceFacts DEF TypeInv, TypeOK, KnowsChip, Loads
<1> QED
  BY <1>1, <1>2, DivNat DEF LastPage

LEMMA TypeStep == TypeInv /\ [Next]_vars => TypeInv'
<1> SUFFICES ASSUME TypeInv, [Next]_vars PROVE TypeInv'
  OBVIOUS
<1> USE DEF TypeInv, board, loader, chipVars
<1>f. /\ NandTimeout \in Nat \ {0} /\ PageOf(dev) \in Nat \ {0}
      /\ Rows(dev) \in Nat \ {0} /\ First \in Nat /\ dev \in DeviceType
  BY DeviceFacts
<1>1. CASE Reset
  BY <1>1, <1>f DEF Reset, TypeOK, KnowsChip, Loads, First, Places, ChipStates
<1>2. CASE Poll
  <2>1. pc' \in Places /\ polls' \in 0 .. NandTimeout
    BY <1>2, <1>f DEF Poll, TypeOK, TimedOut, NextPoll, After, Places
  <2>2. UNCHANGED <<board, loader, chipVars>>
    BY <1>2 DEF Poll
  <2>3. TypeOK'
    BY <2>1, <2>2 DEF TypeOK
  <2>4. KnowsChip'
    BY <1>2, <2>2 DEF Poll, After, KnowsChip, Loads, First
  <2> QED
    BY <2>3, <2>4
<1>3. CASE ReadId
  BY <1>3, <1>f DEF ReadId, TypeOK, KnowsChip, Loads, First, Places, ChipStates
<1>4. CASE Probe
  <2>1. start \div PageOf(dev) \in Nat
    BY <1>f DEF First
  <2>2. dev.size \in Nat
    BY <1>f DEF DeviceType
  <2>3. TypeOK'
    BY <1>4, <1>f, <2>1, <2>2 DEF Probe, TypeOK, Places
  <2>4. KnowsChip'
    BY <1>4, <2>1 DEF Probe, KnowsChip, Loads, First
  <2> QED
    BY <2>3, <2>4
<1>5. CASE ReadPage
  <2>1. (curr_page % 256 ^ Cycles) % Rows(dev) \in Nat
    <3>1. curr_page \in Nat /\ Cycles \in {2, 3}
      BY DEF TypeOK, Cycles
    <3>2. 256 ^ 2 = 65536 /\ 256 ^ 3 = 16777216
      BY SMT
    <3> QED
      BY SMT, <1>f, <3>1, <3>2
  <2>2. TypeOK'
    BY <1>5, <1>f, <2>1 DEF ReadPage, TakesRead, TypeOK, Places, ChipStates
  <2>3. KnowsChip'
    BY <1>5 DEF ReadPage, TakesRead, KnowsChip, Loads, First
  <2> QED
    BY <2>2, <2>3
<1>6. CASE Data
  <2>1. last_page' \in Nat
    BY <1>6, LastPageType DEF Data, TypeOK
  <2>2. TypeOK'
    BY <1>6, <2>1 DEF Data, TypeOK, Places, Stale
  <2>3. Len(mem') = Len(mem) + 1
    BY <1>6 DEF Data, TypeOK
  <2>4. KnowsChip'
    <3>1. pc' \in {"read", "loaded"} /\ pc = "data"
      BY <1>6 DEF Data
    <3>2. curr_page' = First + Len(mem')
      BY <1>6, <1>f, <2>3 DEF Data, KnowsChip, Loads, TypeOK
    <3>3. UNCHANGED <<board, chip_size, write_size>> /\ First' = First
      BY <1>6 DEF Data, First
    <3> QED
      BY <3>1, <3>2, <3>3 DEF KnowsChip, Loads
  <2> QED
    BY <2>2, <2>4
<1>7. CASE ChipReady
  BY <1>7 DEF ChipReady, TypeOK, KnowsChip, Loads, First, ChipStates
<1>8. CASE Returned \/ UNCHANGED vars
  BY <1>8 DEF Returned, vars, TypeOK, KnowsChip, Loads, First
<1> QED
  BY <1>1, <1>2, <1>3, <1>4, <1>5, <1>6, <1>7, <1>8 DEF Next, LoaderStep

\* Every variable keeps its type with any chip, and no wait exceeds its polls.
THEOREM TypeCorrect == Spec => []TypeOK
<1>1. TypeInv => TypeOK
  BY DEF TypeInv
<1> QED
  BY <1>1, TypeInit, TypeStep, PTL DEF Spec

-----------------------------------------------------------------------------
(* Chips that are ready in time *)

ReadyPart == ChipInStep /\ PagesSoFar

LEMMA ReadyInit == Init => ReadyInv
<1> SUFFICES ASSUME Init PROVE ReadyInv
  OBVIOUS
<1>1. ChipInStep
  BY DEF Init, ChipInStep, Waits
<1>2. PagesSoFar
  BY DEF Init, PagesSoFar, Loads
<1> QED
  BY <1>1, <1>2, TypeInit DEF ReadyInv

\* No page of the image is beyond the last row, and its row fits in the bytes
\* that nand_command() sends.
LEMMA RowReachesChip ==
  ASSUME ImageFits, ReadyInv, ~ dev.slow, pc = "read"
  PROVE  /\ RowCycles(dev) <= Cycles
         /\ (curr_page % 256 ^ Cycles) % Rows(dev) = curr_page
<1>1. TypeOK /\ curr_page \in Nat /\ curr_page <= Last /\ dev.known /\ chip_size = dev.size
  BY DEF ReadyInv, TypeInv, TypeOK, PagesSoFar, KnowsChip, Loads
<1>2. start \div KB < dev.size
  BY DEF ReadyInv, TypeInv, KnowsChip
<1>3. RowCycles(dev) <= RowBytes(dev) /\ Rows(dev) <= 256 ^ 3 /\ Last < Rows(dev)
  BY <1>1, <1>2 DEF ImageFits, TypeOK, Last, First, ImageSize
<1>4. Cycles = RowBytes(dev)
  BY <1>1 DEF Cycles, RowBytes
<1>5. Rows(dev) \in Nat \ {0} /\ Last \in Nat
  BY <1>1, DeviceFacts
<1>6. curr_page < Rows(dev)
  BY <1>1, <1>3, <1>5
<1>7. 256 ^ 2 = 65536 /\ 256 ^ 3 = 16777216 /\ 256 * 256 = 65536
  BY SMT
<1>8. curr_page < 256 ^ Cycles
  BY SMT, <1>1, <1>3, <1>4, <1>5, <1>6, <1>7 DEF RowBytes, RowCycles
<1>9. curr_page % 256 ^ Cycles = curr_page
  BY SMT, <1>1, <1>8, <1>4, <1>7 DEF RowBytes
<1> QED
  BY <1>1, <1>3, <1>4, <1>5, <1>6, <1>9

LEMMA ReadyStep == ImageFits /\ ReadyInv /\ [Next]_vars => ReadyInv'
<1> SUFFICES ASSUME ImageFits, ReadyInv, [Next]_vars PROVE ReadyInv'
  OBVIOUS
<1>1. TypeInv' /\ UNCHANGED board
  BY TypeStep DEF ReadyInv, Next, LoaderStep, Reset, Poll, ReadId, Probe, ReadPage,
     Data, ChipReady, Returned, vars, board
<1> SUFFICES ASSUME ~ dev.slow PROVE ReadyPart'
  BY <1>1 DEF ReadyInv, ReadyPart, board
<1> USE DEF ReadyInv, TypeInv, board, loader, chipVars
<1>2. /\ ChipInStep /\ PagesSoFar /\ TypeOK /\ KnowsChip
      /\ First' = First /\ Last' = Last
  BY <1>1 DEF First, Last, ImageSize
<1>3. /\ NandTimeout \in Nat \ {0} /\ PageOf(dev) \in Nat \ {0}
      /\ Rows(dev) \in Nat \ {0} /\ First \in Nat /\ Last \in Nat
      /\ (ImageSize - 1) \div PageOf(dev) \in Nat
  BY <1>2, DeviceFacts, DivNat
<1>5. CASE Reset \/ ReadId
  <2>1. ChipInStep'
    BY <1>5, <1>2, <1>3 DEF Reset, ReadId, ChipInStep, Waits, Busy
  <2>2. PagesSoFar'
    BY <1>5, <1>2 DEF Reset, ReadId, PagesSoFar, Loads
  <2> QED
    BY <2>1, <2>2 DEF ReadyPart
<1>6. CASE Poll
  <2>1. ~ TimedOut
    <3>1. polls < NandTimeout /\ polls \in Nat
      BY <1>6, <1>2, <1>3 DEF Poll, ChipInStep, Waits, TypeOK
    <3> QED
      BY <3>1, <1>3 DEF TimedOut
  <2>2. ChipInStep'
    BY <1>6, <2>1, <1>2 DEF Poll, After, ChipInStep, Waits, Busy, NextPoll
  <2>3. PagesSoFar'
    BY <1>6, <1>2 DEF Poll, After, PagesSoFar, Loads
  <2> QED
    BY <2>2, <2>3 DEF ReadyPart
<1>7. CASE Probe
  <2>1. ChipInStep'
    BY <1>7, <1>2 DEF Probe, ChipInStep, Waits, Busy
  <2>2. PagesSoFar'
    BY <1>7, <1>2, <1>3 DEF Probe, PagesSoFar, KnowsChip, Loads, First, Last
  <2> QED
    BY <2>1, <2>2 DEF ReadyPart
<1>8. CASE ReadPage
  <2>1. pc = "read" /\ ~ Busy
    BY <1>8, <1>2 DEF ReadPage, ChipInStep
  <2>2. RowCycles(dev) <= Cycles /\ Cycles \in {2, 3} /\ RowCycles(dev) \in {2, 3}
    BY <2>1, RowReachesChip DEF Cycles, RowCycles
  <2>3. chip' = "busy" /\ row' = curr_page
    BY <1>8, <2>1, <2>2, RowReachesChip DEF ReadPage, TakesRead
  <2>4. ChipInStep'
    BY <1>8, <1>3, <2>3 DEF ReadPage, ChipInStep, Waits
  <2>5. PagesSoFar'
    BY <1>8, <1>2 DEF ReadPage, PagesSoFar, Loads
  <2> QED
    BY <2>4, <2>5 DEF ReadyPart
<1>9. CASE Data
  <2>1. /\ pc = "data" /\ row = curr_page /\ chip = "page"
        /\ curr_page = First + Len(mem) /\ write_size = PageOf(dev)
        /\ curr_page <= Last
    BY <1>9, <1>2 DEF Data, ChipInStep, KnowsChip, PagesSoFar, Loads
  <2>2. mem' = Append(mem, curr_page) /\ curr_page' = curr_page + 1
    BY <1>9, <2>1 DEF Data
  <2>3. \A k \in 1 .. Len(mem') : mem'[k] = First + k - 1
    <3>1. mem \in Seq(Nat \cup {Stale}) /\ curr_page \in Nat
      BY <1>2 DEF TypeOK
    <3>2. /\ Len(mem') = Len(mem) + 1 /\ mem'[Len(mem) + 1] = curr_page
          /\ \A k \in 1 .. Len(mem) : mem'[k] = mem[k]
      BY <2>2, <3>1
    <3>3. Len(mem) \in Nat /\ curr_page = First + (Len(mem) + 1) - 1
      BY <3>1, <2>1, <1>3
    <3> QED
      BY <3>2, <3>3, <1>2 DEF PagesSoFar
  <2>4. last_page' = Last
    <3>1. CASE mem = <<>>
      <4>1. LoadSize(row) = ImageSize
        BY <1>2 DEF LoadSize, ImageSize, TypeOK, Stale
      <4>2. curr_page = First
        BY <3>1, <2>1, <1>3
      <4> QED
        BY <1>9, <2>1, <3>1, <4>1, <4>2 DEF Data, LastPage, Last
    <3>2. CASE mem # <<>>
      BY <1>9, <3>2, <1>2 DEF Data, PagesSoFar
    <3> QED
      BY <3>1, <3>2
  <2>5. pc' = IF curr_page + 1 <= Last THEN "read" ELSE "loaded"
    BY <1>9, <2>2, <2>4 DEF Data
  <2>6. mem' # <<>>
    BY <2>2, <1>2 DEF TypeOK
  <2>7. PagesSoFar'
    <3>1. pc' \in Loads => curr_page' <= Last'
      BY <1>2, <2>2, <2>5 DEF Loads
    <3>2. pc' = "loaded" => curr_page' = Last' + 1
      BY <1>2, <1>3, <2>1, <2>2, <2>5 DEF TypeOK
    <3> QED
      BY <1>2, <2>3, <2>4, <3>1, <3>2 DEF PagesSoFar
  <2>8. ChipInStep'
    BY <1>9, <2>1, <2>5 DEF Data, ChipInStep, Waits, Busy
  <2> QED
    BY <2>7, <2>8 DEF ReadyPart
<1>10. CASE ChipReady
  <2>1. ChipInStep'
    BY <1>10, <1>2 DEF ChipReady, ChipInStep, Waits, Busy
  <2>2. PagesSoFar'
    BY <1>10, <1>2 DEF ChipReady, PagesSoFar, Loads
  <2> QED
    BY <2>1, <2>2 DEF ReadyPart
<1>11. CASE Returned \/ UNCHANGED vars
  BY <1>11, <1>2 DEF Returned, vars, ReadyPart, ChipInStep, Waits, Busy, PagesSoFar, Loads
<1> QED
  BY <1>5, <1>6, <1>7, <1>8, <1>9, <1>10, <1>11 DEF Next, LoaderStep

\* With every chip whose rows the code can address, and every start and size
\* that lie in it, the pages in memory are those of the image, in order.
THEOREM PagesAreInOrder == ImageFits => (Spec => []PagesInOrder)
<1>1. ReadyInv => PagesInOrder
  BY DEF ReadyInv, PagesSoFar, PagesInOrder, First
<1> SUFFICES ASSUME ImageFits PROVE Spec => []PagesInOrder
  OBVIOUS
<1>2. ReadyInv /\ [Next]_vars => ReadyInv'
  BY ReadyStep
<1> QED
  BY <1>1, <1>2, ReadyInit, PTL DEF Spec

\* ... and a success means all pages of the image, and none beyond.
THEOREM ImageIsWhole == ImageFits => (Spec => []LoadIsWhole)
<1>1. ReadyInv => LoadIsWhole
  <2> SUFFICES ASSUME ReadyInv, pc = "loaded", ~ dev.slow
               PROVE  /\ Len(mem) * PageOf(dev) >= ImageSize
                      /\ (Len(mem) - 1) * PageOf(dev) < ImageSize
    BY DEF LoadIsWhole
  <2>1. TypeOK /\ curr_page = First + Len(mem) /\ curr_page = Last + 1
    BY DEF ReadyInv, TypeInv, KnowsChip, PagesSoFar
  <2>2. /\ PageOf(dev) \in {512, 1024, 2048, 4096, 8192} /\ ImageSize \in Nat \ {0}
        /\ First \in Nat /\ Last \in Nat
    BY <2>1, DeviceFacts
  <2>3. (ImageSize - 1) \div PageOf(dev) \in Nat /\ Len(mem) \in Nat
    BY <2>1, <2>2, DivNat DEF TypeOK
  <2>4. Len(mem) = (ImageSize - 1) \div PageOf(dev) + 1
    BY <2>1, <2>2, <2>3 DEF Last
  <2>5. Len(mem) - 1 = (ImageSize - 1) \div PageOf(dev)
    BY <2>3, <2>4
  <2>6. /\ ((ImageSize - 1) \div PageOf(dev) + 1) * PageOf(dev) >= ImageSize
        /\ ((ImageSize - 1) \div PageOf(dev)) * PageOf(dev) < ImageSize
    BY <2>2, RoundUp
  <2> QED
    BY <2>4, <2>5, <2>6
<1> SUFFICES ASSUME ImageFits PROVE Spec => []LoadIsWhole
  OBVIOUS
<1>2. ReadyInv /\ [Next]_vars => ReadyInv'
  BY ReadyStep
<1> QED
  BY <1>1, <1>2, ReadyInit, PTL DEF Spec
=============================================================================
