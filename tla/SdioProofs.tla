---------------------------------- MODULE SdioProofs ----------------------------------
(***************************************************************************)
(* Proofs about SDIO over SPI.                                             *)
(*                                                                         *)
(* First, of SdioMemblock, about sdio_over_spi_memblock_common: for        *)
(* windows, blocks, words and an address space of any size and for all     *)
(* requests, however transfers and failures follow one another, no CMD53   *)
(* leaves the window that the keyhole selects, and every octet moves       *)
(* between its place in the buffer and its place in the chip.              *)
(*                                                                         *)
(* Then, of SdioBus, about the SPI channel below: whatever state a process *)
(* leaves the adapter in, opening it brings it back in step, unless octets *)
(* are left that look like the answers to the synchronisation.  BusInv is  *)
(* the inductive invariant.                                                *)
(***************************************************************************)
EXTENDS SdioMemblock, SdioBus, SequenceTheorems, WellFoundedInduction, TLAPS

-------------------------------------------------------------------------------
\* Arithmetic.

\* Products grow with their factors.
LEMMA Times ==
  ASSUME NEW m \in Nat, NEW n \in Nat, NEW d \in Nat, m <= n
  PROVE  m * d <= n * d /\ m * d \in Nat
OBVIOUS

\* Quotient and remainder.
LEMMA DivMod ==
  ASSUME NEW a \in Nat, NEW d \in Nat \ {0}
  PROVE  /\ a \div d \in Nat /\ a % d \in 0..(d - 1)
         /\ a = (a \div d) * d + (a % d)
OBVIOUS

\* There is only one quotient and one remainder.
LEMMA DivUnique ==
  ASSUME NEW a \in Nat, NEW d \in Nat \ {0}, NEW q \in Nat, NEW r \in 0..(d - 1), a = q * d + r
  PROVE  a \div d = q /\ a % d = r
OBVIOUS

\* What it is to be a multiple.
LEMMA MultipleIs ==
  ASSUME NEW a \in Nat, NEW d \in Nat \ {0}
  PROVE  a % d = 0 <=> \E k \in Nat : a = k * d
<1>1. ASSUME a % d = 0 PROVE \E k \in Nat : a = k * d
  <2>1. a = (a \div d) * d /\ a \div d \in Nat
    BY <1>1, DivMod
  <2>2. QED
    BY <2>1
<1>2. ASSUME NEW k \in Nat, a = k * d PROVE a % d = 0
  <2>1. a = k * d + 0 /\ 0 \in 0..(d - 1)
    BY <1>2
  <2>2. QED
    BY <2>1, DivUnique
<1>3. QED
  BY <1>1, <1>2

\* Sums and differences of multiples are multiples.
LEMMA MultipleSum ==
  ASSUME NEW a \in Nat, NEW b \in Nat, NEW d \in Nat \ {0}, a % d = 0, b % d = 0
  PROVE  (a + b) % d = 0 /\ (b <= a => (a - b) % d = 0)
<1>1. PICK k \in Nat : a = k * d
  BY MultipleIs
<1>2. PICK l \in Nat : b = l * d
  BY MultipleIs
<1>3. (a + b) % d = 0
  <2>1. a + b = (k + l) * d /\ a + b \in Nat /\ k + l \in Nat
    BY <1>1, <1>2
  <2>2. QED
    BY <2>1, MultipleIs
<1>4. ASSUME b <= a PROVE (a - b) % d = 0
  <2>1. l <= k
    BY <1>1, <1>2, <1>4
  <2>2. a - b = (k - l) * d /\ a - b \in Nat /\ k - l \in Nat
    BY <1>1, <1>2, <2>1
  <2>3. QED
    BY <2>2, MultipleIs
<1>5. QED
  BY <1>3, <1>4

\* Two multiples are at least a multiple apart.
LEMMA MultipleNext ==
  ASSUME NEW a \in Nat, NEW b \in Nat, NEW d \in Nat \ {0}, a % d = 0, b % d = 0, a < b
  PROVE  a + d <= b
<1>1. PICK k \in Nat : a = k * d
  BY MultipleIs
<1>2. PICK l \in Nat : b = l * d
  BY MultipleIs
<1>3. k + 1 <= l
  BY <1>1, <1>2, Times
<1>4. (k + 1) * d <= l * d
  BY <1>3, Times
<1>5. QED
  BY <1>1, <1>2, <1>4

\* A multiple of a multiple is a multiple.
LEMMA MultipleMultiple ==
  ASSUME NEW a \in Nat, NEW d \in Nat \ {0}, NEW e \in Nat \ {0}, d % e = 0, a % d = 0
  PROVE  a % e = 0
<1>1. PICK k \in Nat : a = k * d
  BY MultipleIs
<1>2. PICK l \in Nat : d = l * e
  BY MultipleIs
<1>3. a = (k * l) * e /\ k * l \in Nat
  BY <1>1, <1>2
<1>4. QED
  BY <1>3, MultipleIs

\* Align rounds up to the next multiple of a word, ...
LEMMA AlignIs ==
  ASSUME NEW n \in Nat
  PROVE  Align(n) \in Nat /\ Align(n) % Word = 0 /\ n <= Align(n) /\ Align(n) < n + Word
<1> DEFINE q == (n + Word - 1) \div Word
           r == (n + Word - 1) % Word
<1>1. n + Word - 1 \in Nat
  BY SdioMemblockAssumption
<1>2. q \in Nat /\ r \in 0..(Word - 1) /\ n + Word - 1 = q * Word + r
  BY <1>1, SdioMemblockAssumption, DivMod
<1>3. Align(n) = q * Word
  BY DEF Align
<1> HIDE DEF q, r
<1>4. Align(n) \in Nat
  BY <1>2, <1>3, SdioMemblockAssumption
<1>5. Align(n) % Word = 0
  BY <1>2, <1>3, <1>4, SdioMemblockAssumption, MultipleIs
<1>6. n <= Align(n) /\ Align(n) < n + Word
  BY <1>2, <1>3, <1>4, SdioMemblockAssumption
<1>7. QED
  BY <1>4, <1>5, <1>6

\* ... and there is only one.
LEMMA AlignUnique ==
  ASSUME NEW n \in Nat, NEW m \in Nat, m % Word = 0, n <= m, m < n + Word
  PROVE  Align(n) = m
<1>1. Align(n) \in Nat /\ Align(n) % Word = 0 /\ n <= Align(n) /\ Align(n) < n + Word
  BY AlignIs
<1>2. ~(Align(n) < m)
  BY <1>1, SdioMemblockAssumption, MultipleNext
<1>3. ~(m < Align(n))
  BY <1>1, SdioMemblockAssumption, MultipleNext
<1>4. QED
  BY <1>1, <1>2, <1>3

-------------------------------------------------------------------------------
\* Sections.

\* Where the current section's window starts.
Base == WindowOf(chip_mem_addr) * Window

\* The current section is one that a transfer can have.
Sound ==
  /\ chip_mem_addr \in Nat /\ remaining \in Nat \ {0}
  /\ chip_mem_addr % Word = 0 /\ chip_mem_addr + remaining <= Space

\* The sizes, as numbers.
LEMMA Sizes ==
  /\ Window \in Nat \ {0} /\ Key \in Nat \ {0} /\ Space \in Nat \ {0}
  /\ Block \in Nat \ {0} /\ Word \in Nat \ {0}
  /\ Block % Word = 0 /\ Window % Block = 0 /\ Space % Window = 0
  /\ Window % Word = 0
<1>1. /\ Window \in Nat \ {0} /\ Key \in Nat \ {0} /\ Space \in Nat \ {0}
      /\ Block \in Nat \ {0} /\ Word \in Nat \ {0}
      /\ Block % Word = 0 /\ Window % Block = 0 /\ Space % Window = 0
  BY SdioMemblockAssumption
<1>2. Window % Word = 0
  BY <1>1, MultipleMultiple
<1>3. QED
  BY <1>1, <1>2

\* The window of a section lies in the address space.
LEMMA BaseIs ==
  ASSUME Sound
  PROVE  /\ Base \in Nat /\ Base % Window = 0
         /\ Base <= chip_mem_addr /\ chip_mem_addr < Base + Window
         /\ Base + Window <= Space
<1>1. /\ WindowOf(chip_mem_addr) \in Nat
      /\ chip_mem_addr % Window \in 0..(Window - 1)
      /\ chip_mem_addr = Base + (chip_mem_addr % Window)
  BY Sizes, DivMod DEF Sound, WindowOf, Base
<1>2. Base \in Nat
  BY <1>1, Sizes DEF Base
<1>3. Base % Window = 0
  BY <1>1, <1>2, Sizes, MultipleIs DEF Base
<1>4. Base <= chip_mem_addr /\ chip_mem_addr < Base + Window
  BY <1>1, <1>2, Sizes
<1>5. Base < Space
  BY <1>2, <1>4, Sizes DEF Sound
<1>6. Base + Window <= Space
  BY <1>2, <1>3, <1>5, Sizes, MultipleNext
<1>7. QED
  BY <1>2, <1>3, <1>4, <1>6

\* The addresses of a window.
LEMMA SameWindow ==
  ASSUME Sound, NEW x \in Nat, Base <= x, x < Base + Window
  PROVE  WindowOf(x) = WindowOf(chip_mem_addr) /\ x % Window = x - Base
<1>1. WindowOf(chip_mem_addr) \in Nat /\ Base \in Nat
  BY BaseIs, Sizes, DivMod DEF Sound, WindowOf
<1>2. x = WindowOf(chip_mem_addr) * Window + (x - Base) /\ x - Base \in 0..(Window - 1)
  BY <1>1, Sizes DEF Base
<1>3. QED
  BY <1>1, <1>2, Sizes, DivUnique DEF WindowOf

\* A section ends where the transfer or its window does.
LEMMA SectionIs ==
  ASSUME Sound
  PROVE  /\ current_size \in Nat \ {0} /\ current_size <= remaining
         /\ chip_mem_addr + current_size <= Base + Window
         /\ current_size < remaining => chip_mem_addr + current_size = Base + Window
<1> DEFINE end == (Base + Window) % Space
<1>1. /\ Base \in Nat /\ Base <= chip_mem_addr /\ chip_mem_addr < Base + Window
      /\ Base + Window <= Space
  BY BaseIs
<1>2. current_size = IF end = 0 THEN remaining ELSE Lower(end - chip_mem_addr, remaining)
  BY DEF current_size, Base
<1>3. CASE Base + Window = Space
  <2>1. Space = 1 * Space + 0 /\ 0 \in 0..(Space - 1) /\ Base + Window \in Nat
    BY <1>1, <1>3, Sizes
  <2>2. end = 0
    BY <1>3, <2>1, Sizes, DivUnique
  <2>3. QED
    BY <1>1, <1>2, <1>3, <2>2, Sizes DEF Sound
<1>4. CASE Base + Window < Space
  <2>1. /\ Base + Window = 0 * Space + (Base + Window)
        /\ Base + Window \in 0..(Space - 1) /\ Base + Window \in Nat
    BY <1>1, <1>4, Sizes
  <2>2. end = Base + Window
    BY <2>1, Sizes, DivUnique
  <2>3. QED
    BY <1>1, <1>2, <1>4, <2>2, Sizes DEF Sound, Lower
<1>5. QED
  BY <1>1, <1>3, <1>4, Sizes

\* The blocks and the octets of a section.
LEMMA Parts ==
  ASSUME Sound
  PROVE  /\ block_octets \in Nat /\ byte_mode_count \in Nat
         /\ block_octets + byte_mode_count = current_size
         /\ byte_mode_count < Block
         /\ block_octets % Word = 0
<1>1. current_size \in Nat
  BY SectionIs
<1>2. /\ current_size \div Block \in Nat /\ current_size % Block \in 0..(Block - 1)
      /\ current_size = (current_size \div Block) * Block + (current_size % Block)
  BY <1>1, Sizes, DivMod
<1>3. block_octets = (current_size \div Block) * Block /\ block_octets \in Nat
  BY <1>1, <1>2, Sizes DEF block_octets, byte_mode_count
<1>4. block_octets % Block = 0
  BY <1>2, <1>3, Sizes, MultipleIs
<1>5. block_octets % Word = 0
  BY <1>3, <1>4, Sizes, MultipleMultiple
<1>6. byte_mode_count \in Nat /\ byte_mode_count < Block
  BY <1>2, Sizes DEF byte_mode_count
<1>7. block_octets + byte_mode_count = current_size
  BY <1>1, <1>3, <1>6 DEF block_octets
<1>8. QED
  BY <1>3, <1>5, <1>6, <1>7

\* The octets, in words, still fit into the window; before a window's end there
\* is no part of a word.
LEMMA Rounded ==
  ASSUME Sound, byte_mode_count > 0
  PROVE  /\ Align(byte_mode_count) \in Nat
         /\ CountField(Align(byte_mode_count)) = Align(byte_mode_count)
         /\ Align(byte_mode_count) >= byte_mode_count
         /\ chip_mem_addr + block_octets + Align(byte_mode_count) <= Base + Window
         /\ current_size < remaining => Align(byte_mode_count) = byte_mode_count
<1> DEFINE octets == Align(byte_mode_count)
           start == chip_mem_addr + block_octets
           end == Base + Window
<1>1. /\ octets \in Nat /\ octets % Word = 0
      /\ byte_mode_count <= octets /\ octets < byte_mode_count + Word
  BY Parts, AlignIs
<1>2. /\ block_octets \in Nat /\ byte_mode_count \in Nat /\ byte_mode_count < Block
      /\ block_octets + byte_mode_count = current_size
  BY Parts
<1>3. start \in Nat /\ start % Word = 0
  BY Parts, Sizes, MultipleSum DEF Sound
<1>4. end \in Nat /\ end % Word = 0
  <2>1. Base \in Nat /\ Base % Word = 0
    BY BaseIs, Sizes, MultipleMultiple
  <2>2. (Base + Window) % Word = 0
    BY <2>1, Sizes, MultipleSum
  <2>3. QED
    BY <2>1, <2>2, Sizes
<1>5. start + byte_mode_count <= end
  BY <1>2, SectionIs DEF Sound
<1> HIDE DEF octets, start, end
<1>6. octets <= Block
  <2>1. ASSUME Block < octets PROVE FALSE
    <3>1. Block + Word <= octets
      BY <1>1, <2>1, Sizes, MultipleNext
    <3>2. QED
      BY <1>1, <1>2, <3>1, Sizes
  <2>2. QED
    BY <1>1, <2>1, Sizes
<1>7. CountField(octets) = octets
  <2>1. CASE octets = Block
    <3>1. Block = 1 * Block + 0 /\ 0 \in 0..(Block - 1)
      BY Sizes
    <3>2. octets % Block = 0
      BY <2>1, <3>1, Sizes, DivUnique
    <3>3. QED
      BY <2>1, <3>2 DEF CountField
  <2>2. CASE octets < Block
    <3>1. octets = 0 * Block + octets /\ octets \in 0..(Block - 1)
      BY <1>1, <2>2, Sizes
    <3>2. octets % Block = octets
      BY <1>1, <3>1, Sizes, DivUnique
    <3>3. octets # 0
      BY <1>1, <1>2
    <3>4. QED
      BY <3>2, <3>3 DEF CountField
  <2>3. QED
    BY <1>1, <1>6, <2>1, <2>2, Sizes
<1>8. start + octets <= end
  <2>1. start + octets \in Nat /\ (start + octets) % Word = 0
    BY <1>1, <1>3, Sizes, MultipleSum
  <2>2. ASSUME end < start + octets PROVE FALSE
    <3>1. end + Word <= start + octets
      BY <1>4, <2>1, <2>2, Sizes, MultipleNext
    <3>2. QED
      BY <1>1, <1>2, <1>3, <1>4, <1>5, <3>1, Sizes
  <2>3. QED
    BY <1>4, <2>1, <2>2
<1>9. ASSUME current_size < remaining PROVE octets = byte_mode_count
  <2>1. start + byte_mode_count = end
    BY <1>2, <1>9, SectionIs DEF Sound, start, end
  <2>2. byte_mode_count = end - start /\ start <= end
    BY <1>2, <1>3, <1>4, <2>1
  <2>3. byte_mode_count % Word = 0
    BY <1>3, <1>4, <2>2, Sizes, MultipleSum
  <2>4. QED
    BY <1>2, <2>3, Sizes, AlignUnique DEF octets
<1>10. QED
  BY <1>1, <1>7, <1>8, <1>9 DEF octets, start, end

-------------------------------------------------------------------------------
\* The invariant.

\* The transfer of the current section is sound; data says how far the buffer has
\* been dealt with.
Positioned ==
  /\ addr <= chip_mem_addr
  /\ pc # "idle" =>
       /\ Sound /\ addr % Word = 0
       /\ data = chip_mem_addr - addr + (IF pc = "octets" THEN block_octets ELSE 0)
  /\ pc = "blocks" => block_octets > 0
  /\ pc = "octets" => byte_mode_count > 0

\* The registers written so far select the current section's window.
Selected ==
  /\ pc \in {"win1", "cfg", "blocks", "octets"} => keyhole.win0 = WindowOf(chip_mem_addr) % Key
  /\ pc \in {"cfg", "blocks", "octets"} => keyhole.win1 = WindowOf(chip_mem_addr) \div Key

\* How much of the buffer the CMD53s have moved.
Extent == IF moved = <<>> THEN 0 ELSE moved[Len(moved)].host + moved[Len(moved)].size

\* What has moved is the buffer from its start, in order, ...
Contiguous ==
  \A i \in DOMAIN moved :
    /\ moved[i].chip = addr + moved[i].host
    /\ moved[i].host = IF i = 1 THEN 0 ELSE moved[i - 1].host + moved[i - 1].size
    /\ moved[i].host + moved[i].size <= Align(len)

\* ... as far as the loop says.
Moved ==
  ~broken =>
    /\ Contiguous
    /\ pc # "idle" => Extent = data
    /\ pc = "idle" /\ ret = 0 /\ calls > 0 => moved # <<>> /\ Extent = Align(len)

IInv == TypeOK /\ Positioned /\ Selected /\ Moved /\ WithinWindow

\* As long as the loop does not go on, the section is the same.
LEMMA SectionKept ==
  ASSUME chip_mem_addr' = chip_mem_addr, remaining' = remaining
  PROVE  /\ block_octets' = block_octets /\ byte_mode_count' = byte_mode_count
         /\ Sound' = Sound
BY DEF block_octets, byte_mode_count, current_size, Sound

\* Before the first call.
LEMMA InitInv == Init => IInv
<1> SUFFICES ASSUME Init PROVE IInv
  OBVIOUS
<1>1. TypeOK
  <2>1. keyhole \in [win0 : 0..(Key - 1), win1 : Nat, cfg : {0, 2}]
    BY Sizes DEF Init
  <2>2. moved \in Seq([chip : Nat, host : Nat, size : Nat])
    BY DEF Init
  <2>3. chip_mem_addr + remaining = addr + len
    BY DEF Init
  <2>4. QED
    BY <2>1, <2>2, <2>3 DEF Init, TypeOK
<1>2. Positioned /\ Selected
  BY DEF Init, Positioned, Selected
<1>3. Moved
  BY DEF Init, Moved, Contiguous
<1>4. WithinWindow
  BY DEF Init, WithinWindow
<1>5. QED
  BY <1>1, <1>2, <1>3, <1>4 DEF IInv

\* A call starts with the first section.
LEMMA CallInv ==
  ASSUME IInv, NEW r \in Requests, Call(r)
  PROVE  IInv'
<1>1. /\ r.addr \in Nat /\ r.len \in Nat \ {0} /\ r.addr % Word = 0
      /\ r.addr + r.len <= Space
  BY RequestsAssumption
<1>2. TypeOK'
  <2>1. keyhole' \in [win0 : 0..(Key - 1), win1 : Nat, cfg : {0, 2}] /\ faults' \in Nat
    BY DEF Call, IInv, TypeOK
  <2>2. moved' \in Seq([chip : Nat, host : Nat, size : Nat])
    BY DEF Call
  <2>3. chip_mem_addr' + remaining' = addr' + len' /\ remaining' > 0
    BY <1>1 DEF Call
  <2>4. {addr', len', chip_mem_addr', data', remaining', calls'} \subseteq Nat
    BY <1>1 DEF Call, IInv, TypeOK
  <2>5. QED
    BY <2>1, <2>2, <2>3, <2>4 DEF Call, TypeOK
<1>3. Sound'
  BY <1>1 DEF Call, Sound
<1>4. Positioned'
  BY <1>1, <1>3 DEF Call, Positioned
<1>5. Selected'
  BY DEF Call, Selected
<1>6. Moved' /\ WithinWindow'
  BY DEF Call, Moved, Contiguous, Extent, WithinWindow
<1>7. QED
  BY <1>2, <1>4, <1>5, <1>6 DEF IInv

\* A CMD52 that writes a register of the keyhole leaves every variable its type.
LEMMA Cmd52Type ==
  ASSUME IInv, NEW step, NEW reg, NEW value, NEW next, Cmd52(step, reg, value, next),
         step # "idle", next \in {"win1", "cfg", "blocks", "octets"},
         keyhole' \in [win0 : 0..(Key - 1), win1 : Nat, cfg : {0, 2}]
  PROVE  TypeOK'
<1>1. /\ moved' = moved /\ broken' = broken /\ addr' = addr /\ len' = len /\ data' = data
      /\ calls' = calls /\ chip_mem_addr' = chip_mem_addr /\ remaining' = remaining
      /\ pc # "idle" /\ pc' \in {next, "idle"} /\ ret' \in {0, -1}
  BY DEF Cmd52, args
<1>2. faults' \in {faults, faults + 1}
  BY DEF Cmd52, Fault
<1>3. TypeOK
  BY DEF IInv
<1>4. {addr', len', chip_mem_addr', data', remaining', calls', faults'} \subseteq Nat
  BY <1>1, <1>2, <1>3 DEF TypeOK
<1>5. chip_mem_addr' + remaining' = addr' + len' /\ (pc' # "idle" => remaining' > 0)
  BY <1>1, <1>3 DEF TypeOK
<1>6. /\ pc' \in {"idle", "win0", "win1", "cfg", "blocks", "octets"}
      /\ broken' \in BOOLEAN /\ moved' \in Seq([chip : Nat, host : Nat, size : Nat])
  BY <1>1, <1>3 DEF TypeOK
<1>7. QED
  BY <1>1, <1>4, <1>5, <1>6 DEF TypeOK

\* A CMD52 moves nothing.
LEMMA Cmd52Moved ==
  ASSUME IInv, NEW step, NEW reg, NEW value, NEW next, Cmd52(step, reg, value, next),
         step # "idle", next # "idle"
  PROVE  Moved' /\ WithinWindow'
<1>1. /\ moved' = moved /\ broken' = broken /\ addr' = addr /\ len' = len /\ data' = data
      /\ calls' = calls /\ pc # "idle"
      /\ pc' # "idle" \/ ret' = -1
  BY DEF Cmd52, args
<1>2. WithinWindow'
  BY <1>1 DEF IInv, WithinWindow
<1>3. Extent' = Extent
  BY <1>1 DEF Extent
<1>4. Contiguous' = Contiguous
  BY <1>1 DEF Contiguous
<1>5. ~(pc' = "idle" /\ ret' = 0)
  BY <1>1
<1>6. Moved'
  BY <1>1, <1>3, <1>4, <1>5 DEF IInv, Moved
<1>7. QED
  BY <1>2, <1>6

\* The lower octet of the keyhole.
LEMMA SetWin0Inv == ASSUME IInv, SetWin0 PROVE IInv'
<1> DEFINE value == WindowOf(chip_mem_addr) % Key
<1>1. Cmd52("win0", "win0", value, "win1") /\ pc = "win0" /\ Sound
  BY DEF SetWin0, Cmd52, IInv, Positioned
<1>2. value \in 0..(Key - 1)
  <2>1. WindowOf(chip_mem_addr) \in Nat
    BY <1>1, Sizes, DivMod DEF Sound, WindowOf
  <2>2. QED
    BY <2>1, Sizes, DivMod
<1> HIDE DEF value
<1>3. /\ chip_mem_addr' = chip_mem_addr /\ remaining' = remaining /\ data' = data
      /\ addr' = addr /\ len' = len /\ pc' \in {"win1", "idle"}
  BY <1>1 DEF Cmd52, args
<1>4. TypeOK'
  <2>1. keyhole' \in [win0 : 0..(Key - 1), win1 : Nat, cfg : {0, 2}]
    BY <1>1, <1>2 DEF Cmd52, IInv, TypeOK
  <2>2. QED
    BY <1>1, <2>1, Cmd52Type
<1>5. Positioned'
  BY <1>1, <1>3, SectionKept DEF IInv, Positioned
<1>6. Selected'
  <2>1. pc' = "win1" => keyhole'.win0 = value
    BY <1>1 DEF Cmd52, IInv, TypeOK
  <2>2. QED
    BY <1>3, <2>1 DEF Selected, value
<1>7. Moved' /\ WithinWindow'
  BY <1>1, Cmd52Moved
<1>8. QED
  BY <1>4, <1>5, <1>6, <1>7 DEF IInv

\* The upper one.
LEMMA SetWin1Inv == ASSUME IInv, SetWin1 PROVE IInv'
<1> DEFINE value == WindowOf(chip_mem_addr) \div Key
<1>1. Cmd52("win1", "win1", value, "cfg") /\ pc = "win1" /\ Sound
  BY DEF SetWin1, Cmd52, IInv, Positioned
<1>2. value \in Nat
  <2>1. WindowOf(chip_mem_addr) \in Nat
    BY <1>1, Sizes, DivMod DEF Sound, WindowOf
  <2>2. QED
    BY <2>1, Sizes, DivMod
<1> HIDE DEF value
<1>3. /\ chip_mem_addr' = chip_mem_addr /\ remaining' = remaining /\ data' = data
      /\ addr' = addr /\ len' = len /\ pc' \in {"cfg", "idle"}
  BY <1>1 DEF Cmd52, args
<1>4. TypeOK'
  <2>1. keyhole' \in [win0 : 0..(Key - 1), win1 : Nat, cfg : {0, 2}]
    BY <1>1, <1>2 DEF Cmd52, IInv, TypeOK
  <2>2. QED
    BY <1>1, <2>1, Cmd52Type
<1>5. Positioned'
  BY <1>1, <1>3, SectionKept DEF IInv, Positioned
<1>6. Selected'
  <2>1. pc' = "cfg" => keyhole'.win0 = keyhole.win0 /\ keyhole'.win1 = value
    BY <1>1 DEF Cmd52, IInv, TypeOK
  <2>2. QED
    BY <1>1, <1>3, <2>1 DEF IInv, Selected, value
<1>7. Moved' /\ WithinWindow'
  BY <1>1, Cmd52Moved
<1>8. QED
  BY <1>4, <1>5, <1>6, <1>7 DEF IInv

\* The configuration register, and on to the blocks or the octets.
LEMMA SetCfgInv == ASSUME IInv, SetCfg PROVE IInv'
<1> DEFINE next == IF block_octets > 0 THEN "blocks" ELSE "octets"
<1>1. Cmd52("cfg", "cfg", 2, next) /\ pc = "cfg" /\ Sound
  BY DEF SetCfg, Cmd52, IInv, Positioned
<1>2. next \in {"blocks", "octets"}
  OBVIOUS
<1>3. /\ (next = "blocks" => block_octets > 0)
      /\ (next = "octets" => block_octets = 0 /\ byte_mode_count > 0)
  BY <1>1, Parts, SectionIs
<1> HIDE DEF next
<1>4. /\ chip_mem_addr' = chip_mem_addr /\ remaining' = remaining /\ data' = data
      /\ addr' = addr /\ len' = len /\ pc' \in {next, "idle"}
  BY <1>1 DEF Cmd52, args
<1>5. TypeOK'
  <2>1. keyhole' \in [win0 : 0..(Key - 1), win1 : Nat, cfg : {0, 2}]
    BY <1>1 DEF Cmd52, IInv, TypeOK
  <2>2. QED
    BY <1>1, <1>2, <2>1, Cmd52Type
<1>6. Positioned'
  <2>1. block_octets' = block_octets /\ byte_mode_count' = byte_mode_count /\ Sound'
    BY <1>1, <1>4, SectionKept
  <2>2. /\ addr \in Nat /\ chip_mem_addr \in Nat /\ addr <= chip_mem_addr
        /\ addr % Word = 0 /\ data = chip_mem_addr - addr
    BY <1>1 DEF IInv, TypeOK, Positioned
  <2>3. data' = chip_mem_addr' - addr' + (IF pc' = "octets" THEN block_octets' ELSE 0)
    BY <1>2, <1>3, <1>4, <2>1, <2>2
  <2>4. QED
    BY <1>2, <1>3, <1>4, <2>1, <2>2, <2>3 DEF Positioned
<1>7. Selected'
  <2>1. keyhole'.win0 = keyhole.win0 /\ keyhole'.win1 = keyhole.win1
    BY <1>1 DEF Cmd52, IInv, TypeOK
  <2>2. QED
    BY <1>1, <1>4, <2>1 DEF IInv, Selected
<1>8. Moved' /\ WithinWindow'
  BY <1>1, <1>2, Cmd52Moved
<1>9. QED
  BY <1>5, <1>6, <1>7, <1>8 DEF IInv

\* With the keyhole set, a CMD53 reaches the address it is meant for.
LEMMA Reached ==
  ASSUME IInv, pc \in {"blocks", "octets"}, NEW a \in Nat, Base <= a, a < Base + Window
  PROVE  ((keyhole.win1 * Key + keyhole.win0) * Window) + (a % Window) = a
<1>1. Sound
  BY DEF IInv, Positioned
<1>2. WindowOf(chip_mem_addr) \in Nat /\ Base \in Nat
  BY <1>1, BaseIs, Sizes, DivMod DEF Sound, WindowOf
<1>3. keyhole.win1 * Key + keyhole.win0 = WindowOf(chip_mem_addr)
  BY <1>2, Sizes, DivMod DEF IInv, Selected
<1>4. a % Window = a - Base
  BY <1>1, SameWindow
<1>5. QED
  BY <1>2, <1>3, <1>4 DEF Base

\* One more element.
LEMMA AppendIs ==
  ASSUME NEW S, NEW s \in Seq(S), NEW e \in S
  PROVE  /\ Append(s, e) \in Seq(S) /\ Append(s, e) # <<>>
         /\ Len(s) \in Nat /\ Len(Append(s, e)) = Len(s) + 1
         /\ \A i \in 1..Len(s) : Append(s, e)[i] = s[i]
         /\ Append(s, e)[Len(s) + 1] = e
OBVIOUS

\* A CMD53 for n octets that fit into the window, from offset off of the buffer.
LEMMA Cmd53Inv ==
  ASSUME IInv, pc \in {"blocks", "octets"},
         NEW a \in Nat, NEW off \in Nat, NEW n \in Nat \ {0}, Cmd53(a, off, n),
         Base <= a, a + n <= Base + Window
  PROVE  /\ moved' \in Seq([chip : Nat, host : Nat, size : Nat])
         /\ WithinWindow'
         /\ ret' \in {0, -1} /\ broken' \in BOOLEAN /\ faults' \in Nat
         /\ ~broken' => ~broken /\ moved' = Append(moved, [chip |-> a, host |-> off, size |-> n])
<1> DEFINE S == [chip : Nat, host : Nat, size : Nat]
           e == [chip |-> a, host |-> off, size |-> n]
           there == ((keyhole.win1 * Key + keyhole.win0) * Window) + (a % Window)
<1>1. Sound /\ moved \in Seq(S) /\ e \in S
  BY DEF IInv, Positioned, TypeOK
<1>2. there = a
  BY <1>1, BaseIs, Reached, Sizes
<1>3. \/ moved' = Append(moved, [chip |-> there, host |-> off, size |-> n]) /\ broken' = broken
      \/ broken' = TRUE /\ moved' \in {moved, Append(moved, [chip |-> there, host |-> off, size |-> n])}
  BY DEF Cmd53
<1> HIDE DEF there
<1>4. \/ moved' = Append(moved, e) /\ broken' = broken
      \/ broken' = TRUE /\ moved' \in {moved, Append(moved, e)}
  BY <1>2, <1>3
<1>5. WindowOf(a) = WindowOf(a + n - 1)
  <2>1. a + n - 1 \in Nat /\ Base <= a + n - 1 /\ a + n - 1 < Base + Window /\ a < Base + Window
    BY <1>1, BaseIs, Sizes
  <2>2. WindowOf(a) = WindowOf(chip_mem_addr)
    BY <1>1, <2>1, SameWindow
  <2>3. WindowOf(a + n - 1) = WindowOf(chip_mem_addr)
    BY <1>1, <2>1, SameWindow
  <2>4. QED
    BY <2>2, <2>3
<1>6. moved' \in Seq(S)
  <2>1. Append(moved, e) \in Seq(S)
    BY <1>1, AppendIs
  <2>2. QED
    BY <1>1, <1>4, <2>1
<1>7. WithinWindow'
  <2>1. CASE moved' = moved
    BY <2>1 DEF IInv, WithinWindow
  <2>2. CASE moved' = Append(moved, e)
    <3>1. Len(moved') = Len(moved) + 1 /\ Len(moved) \in Nat
      BY <1>1, <2>2, AppendIs
    <3>2. \A i \in 1..Len(moved) : moved'[i] = moved[i]
      BY <1>1, <2>2, AppendIs
    <3>3. moved'[Len(moved) + 1] = e
      BY <1>1, <2>2, AppendIs
    <3>4. \A i \in 1..Len(moved) : WindowOf(moved[i].chip) = WindowOf(moved[i].chip + moved[i].size - 1)
      BY <1>1 DEF IInv, WithinWindow
    <3>5. e.chip = a /\ e.size = n
      OBVIOUS
    <3> HIDE DEF e
    <3>6. ASSUME NEW i \in 1..Len(moved')
          PROVE  WindowOf(moved'[i].chip) = WindowOf(moved'[i].chip + moved'[i].size - 1)
      <4>1. CASE i \in 1..Len(moved)
        BY <3>2, <3>4, <4>1
      <4>2. CASE i = Len(moved) + 1
        BY <1>5, <3>3, <3>5, <4>2
      <4>3. QED
        BY <3>1, <4>1, <4>2
    <3>7. DOMAIN moved' = 1..Len(moved')
      BY <1>6
    <3>8. QED
      BY <3>6, <3>7 DEF WithinWindow
  <2>3. QED
    BY <1>4, <2>1, <2>2
<1>8. ret' \in {0, -1} /\ faults' \in Nat
  <2>1. ret' \in {0, -1} /\ (faults' = faults \/ faults' = faults + 1)
    BY DEF Cmd53, Fault
  <2>2. faults \in Nat
    BY DEF IInv, TypeOK
  <2>3. QED
    BY <2>1, <2>2
<1>9. broken' \in BOOLEAN
  BY <1>4 DEF IInv, TypeOK
<1>10. ~broken' => ~broken /\ moved' = Append(moved, e)
  BY <1>4
<1>11. QED
  BY <1>6, <1>7, <1>8, <1>9, <1>10

\* If the buffer has moved as far as off, and n octets from there on move without
\* a failure, it has moved as far as off + n.
LEMMA Extended ==
  ASSUME TypeOK, NEW off \in Nat, NEW n \in Nat, Contiguous, Extent = off,
         moved' = Append(moved, [chip |-> addr + off, host |-> off, size |-> n]),
         addr' = addr, len' = len, off + n <= Align(len)
  PROVE  Contiguous' /\ moved' # <<>> /\ Extent' = off + n
<1> DEFINE S == [chip : Nat, host : Nat, size : Nat]
           e == [chip |-> addr + off, host |-> off, size |-> n]
<1>1. moved \in Seq(S) /\ e \in S
  BY DEF TypeOK
<1>2. Len(moved') = Len(moved) + 1 /\ Len(moved) \in Nat /\ moved' \in Seq(S) /\ moved' # <<>>
  BY <1>1, AppendIs
<1>3. \A i \in 1..Len(moved) : moved'[i] = moved[i]
  BY <1>1, AppendIs
<1>4. moved'[Len(moved) + 1] = e
  BY <1>1, AppendIs
<1>5. e.chip = addr + off /\ e.host = off /\ e.size = n
  OBVIOUS
<1> HIDE DEF e
<1>6. Extent' = off + n
  BY <1>2, <1>4, <1>5 DEF Extent
<1>7. ASSUME NEW i \in 1..Len(moved')
      PROVE  /\ moved'[i].chip = addr + moved'[i].host
             /\ moved'[i].host = IF i = 1 THEN 0 ELSE moved'[i - 1].host + moved'[i - 1].size
             /\ moved'[i].host + moved'[i].size <= Align(len)
  <2>1. CASE i \in 1..Len(moved)
    <3>1. /\ moved[i].chip = addr + moved[i].host
          /\ moved[i].host = IF i = 1 THEN 0 ELSE moved[i - 1].host + moved[i - 1].size
          /\ moved[i].host + moved[i].size <= Align(len)
      <4>1. i \in DOMAIN moved
        BY <1>1, <2>1
      <4>2. QED
        BY <4>1 DEF Contiguous
    <3>2. moved'[i] = moved[i] /\ (i # 1 => moved'[i - 1] = moved[i - 1])
      BY <1>2, <1>3, <2>1
    <3>3. QED
      BY <3>1, <3>2
  <2>2. CASE i = Len(moved) + 1
    <3>1. CASE Len(moved) = 0
      BY <1>1, <1>4, <1>5, <2>2, <3>1 DEF Extent
    <3>2. CASE Len(moved) # 0
      <4>1. moved # <<>> /\ i - 1 = Len(moved) /\ i # 1 /\ Len(moved) \in 1..Len(moved)
        BY <1>1, <1>2, <2>2, <3>2
      <4>2. moved[Len(moved)].host + moved[Len(moved)].size = off
        BY <4>1 DEF Extent
      <4>3. moved'[i - 1] = moved[Len(moved)]
        BY <1>3, <4>1
      <4>4. QED
        BY <1>4, <1>5, <2>2, <4>1, <4>2, <4>3
    <3>3. QED
      BY <3>1, <3>2
  <2>3. QED
    BY <1>2, <2>1, <2>2
<1>8. DOMAIN moved' = 1..Len(moved')
  BY <1>2
<1>9. Contiguous'
  BY <1>7, <1>8 DEF Contiguous
<1>10. QED
  BY <1>2, <1>6, <1>9

\* The loop goes on behind the section.
LEMMA NextSectionIs ==
  ASSUME TypeOK, Sound, NextSection
  PROVE  /\ chip_mem_addr' = chip_mem_addr + current_size
         /\ remaining' = remaining - current_size
         /\ chip_mem_addr' \in Nat /\ remaining' \in Nat
         /\ chip_mem_addr' + remaining' = chip_mem_addr + remaining
         /\ pc' = "idle" => current_size = remaining
         /\ pc' # "idle" => pc' = "win0" /\ Sound' /\ current_size < remaining
<1>1. /\ chip_mem_addr \in Nat /\ remaining \in Nat
      /\ current_size \in Nat /\ current_size <= remaining
  BY SectionIs DEF Sound
<1>2. chip_mem_addr' = chip_mem_addr + current_size /\ remaining' = remaining - current_size
  BY DEF NextSection
<1>3. ASSUME remaining # current_size PROVE Sound' /\ current_size < remaining
  <2>1. current_size < remaining
    BY <1>1, <1>3
  <2>2. chip_mem_addr' = Base + Window
    BY <1>2, <2>1, SectionIs
  <2>3. Base \in Nat /\ Base % Word = 0
    BY BaseIs, Sizes, MultipleMultiple
  <2>4. (Base + Window) % Word = 0
    BY <2>3, Sizes, MultipleSum
  <2>5. chip_mem_addr' + remaining' = chip_mem_addr + remaining
    BY <1>1, <1>2
  <2>6. QED
    BY <1>1, <1>2, <2>1, <2>2, <2>4, <2>5 DEF Sound
<1>4. QED
  BY <1>1, <1>2, <1>3 DEF NextSection

\* How far the loop has come, in the buffer.
LEMMA Offsets ==
  ASSUME IInv, pc \in {"blocks", "octets"}
  PROVE  /\ Sound /\ addr \in Nat /\ len \in Nat /\ data \in Nat
         /\ block_octets \in Nat /\ byte_mode_count \in Nat
         /\ pc = "blocks" => addr + data = chip_mem_addr /\ data % Word = 0
         /\ pc = "octets" => addr + data = chip_mem_addr + block_octets /\ data % Word = 0
         /\ addr + len = chip_mem_addr + remaining
<1>1. /\ Sound /\ addr \in Nat /\ len \in Nat /\ data \in Nat /\ chip_mem_addr \in Nat
      /\ addr <= chip_mem_addr /\ addr % Word = 0 /\ chip_mem_addr % Word = 0
      /\ data = chip_mem_addr - addr + (IF pc = "octets" THEN block_octets ELSE 0)
      /\ addr + len = chip_mem_addr + remaining
  BY DEF IInv, TypeOK, Positioned, Sound
<1>2. block_octets \in Nat /\ byte_mode_count \in Nat /\ block_octets % Word = 0
  BY <1>1, Parts
<1>3. chip_mem_addr - addr \in Nat /\ (chip_mem_addr - addr) % Word = 0
  <2>1. (chip_mem_addr - addr) % Word = 0
    BY <1>1, Sizes, MultipleSum
  <2>2. QED
    BY <1>1, <2>1
<1>4. ((chip_mem_addr - addr) + block_octets) % Word = 0
  BY <1>2, <1>3, Sizes, MultipleSum
<1>5. QED
  BY <1>1, <1>2, <1>3, <1>4

\* Whole blocks.
LEMMA BlocksInv == ASSUME IInv, Blocks PROVE IInv'
<1>1. /\ pc = "blocks" /\ Cmd53(chip_mem_addr, data, block_octets)
      /\ addr' = addr /\ len' = len /\ keyhole' = keyhole /\ calls' = calls
  BY DEF Blocks, args
<1>2. TypeOK /\ Sound /\ Positioned /\ Moved /\ Selected
  BY <1>1, Offsets DEF IInv
<1>3. /\ addr \in Nat /\ len \in Nat /\ data \in Nat /\ chip_mem_addr \in Nat
      /\ block_octets \in Nat \ {0} /\ byte_mode_count \in Nat
      /\ addr + data = chip_mem_addr /\ data % Word = 0
      /\ addr + len = chip_mem_addr + remaining /\ remaining \in Nat
  BY <1>1, <1>2, Offsets DEF Positioned, Sound
<1>4. block_octets + byte_mode_count = current_size /\ block_octets % Word = 0
  BY <1>2, Parts
<1>5. /\ Base \in Nat /\ Base <= chip_mem_addr
      /\ chip_mem_addr + block_octets <= Base + Window
  BY <1>2, <1>3, <1>4, BaseIs, SectionIs, Sizes
<1>6. /\ moved' \in Seq([chip : Nat, host : Nat, size : Nat])
      /\ WithinWindow'
      /\ ret' \in {0, -1} /\ broken' \in BOOLEAN /\ faults' \in Nat
  BY <1>1, <1>3, <1>5, Cmd53Inv
<1>7. ~broken' => /\ ~broken
                  /\ moved' = Append(moved, [chip |-> chip_mem_addr, host |-> data,
                                             size |-> block_octets])
  BY <1>1, <1>3, <1>5, Cmd53Inv
<1>8. data + block_octets <= len /\ len <= Align(len) /\ Align(len) \in Nat
  BY <1>2, <1>3, <1>4, SectionIs, AlignIs, Sizes
<1>9. ASSUME ~broken'
      PROVE  Contiguous' /\ moved' # <<>> /\ Extent' = data + block_octets
  <2>1. Contiguous /\ Extent = data
    BY <1>1, <1>2, <1>7, <1>9 DEF Moved
  <2>2. moved' = Append(moved, [chip |-> addr + data, host |-> data, size |-> block_octets])
    BY <1>3, <1>7, <1>9
  <2>3. data + block_octets <= Align(len)
    BY <1>3, <1>8
  <2>4. QED
    BY <1>1, <1>2, <1>3, <2>1, <2>2, <2>3, Extended
<1>10. CASE byte_mode_count > 0
  <2>1. /\ pc' = "octets" /\ data' = data + block_octets
        /\ chip_mem_addr' = chip_mem_addr /\ remaining' = remaining
    BY <1>10 DEF Blocks
  <2>2. block_octets' = block_octets /\ byte_mode_count' = byte_mode_count /\ Sound'
    BY <1>2, <2>1, SectionKept
  <2>3. TypeOK'
    BY <1>1, <1>2, <1>3, <1>6, <2>1 DEF TypeOK
  <2>4. Positioned'
    <3>1. data' = chip_mem_addr' - addr' + block_octets'
      BY <1>1, <1>3, <2>1, <2>2
    <3>2. QED
      BY <1>1, <1>2, <1>10, <2>1, <2>2, <3>1 DEF Positioned
  <2>5. Selected'
    BY <1>1, <1>2, <2>1 DEF Selected
  <2>6. Moved'
    BY <1>9, <2>1 DEF Moved
  <2>7. QED
    BY <1>6, <2>3, <2>4, <2>5, <2>6 DEF IInv
<1>11. CASE byte_mode_count = 0
  <2>1. NextSection /\ data' = IF pc' = "idle" THEN 0 ELSE data + block_octets
    BY <1>11 DEF Blocks
  <2>2. /\ chip_mem_addr' = chip_mem_addr + current_size
        /\ chip_mem_addr' \in Nat /\ remaining' \in Nat
        /\ chip_mem_addr' + remaining' = chip_mem_addr + remaining
        /\ pc' = "idle" => current_size = remaining
        /\ pc' # "idle" => pc' = "win0" /\ Sound' /\ current_size < remaining
    BY <1>2, <2>1, NextSectionIs
  <2>3. pc' \in {"idle", "win0"} /\ (pc' # "idle" => remaining' > 0)
    BY <2>2 DEF Sound
  <2>4. TypeOK'
    <3>1. data' \in Nat
      BY <1>3, <2>1
    <3>2. chip_mem_addr' + remaining' = addr' + len'
      BY <1>1, <1>3, <2>2
    <3>3. QED
      BY <1>1, <1>2, <1>6, <2>2, <2>3, <3>1, <3>2 DEF TypeOK
  <2>5. Positioned'
    <3>1. addr' <= chip_mem_addr'
      BY <1>1, <1>3, <1>4, <2>2
    <3>2. pc' # "idle" => data' = chip_mem_addr' - addr'
      BY <1>1, <1>3, <1>4, <1>11, <2>1, <2>2
    <3>3. addr' % Word = 0
      BY <1>1, <1>2 DEF Positioned
    <3>4. QED
      BY <1>3, <2>2, <2>3, <3>1, <3>2, <3>3, <1>1 DEF Positioned
  <2>6. Selected'
    BY <2>3 DEF Selected
  <2>7. Moved'
    <3>1. ASSUME ~broken', pc' # "idle" PROVE Extent' = data'
      BY <1>9, <2>1, <3>1
    <3>2. ASSUME ~broken', pc' = "idle" PROVE Extent' = Align(len')
      <4>1. len = data + block_octets
        BY <1>3, <1>4, <1>11, <2>2, <3>2
      <4>2. len % Word = 0
        BY <1>3, <1>4, <4>1, Sizes, MultipleSum
      <4>3. Align(len) = len
        BY <1>3, <4>2, Sizes, AlignUnique
      <4>4. QED
        BY <1>1, <1>9, <3>2, <4>1, <4>3
    <3>3. QED
      BY <1>9, <3>1, <3>2 DEF Moved
  <2>8. QED
    BY <1>6, <2>4, <2>5, <2>6, <2>7 DEF IInv
<1>12. QED
  BY <1>3, <1>10, <1>11

\* The octets behind them.
LEMMA OctetsInv == ASSUME IInv, Octets PROVE IInv'
<1> DEFINE octets == Align(byte_mode_count)
           from == chip_mem_addr + block_octets
<1>1. /\ pc = "octets" /\ Cmd53(from, data, CountField(octets)) /\ NextSection
      /\ data' = IF pc' = "idle" THEN 0 ELSE data + byte_mode_count
      /\ addr' = addr /\ len' = len /\ keyhole' = keyhole /\ calls' = calls
  BY DEF Octets, args
<1>2. TypeOK /\ Sound /\ Positioned /\ Moved
  BY <1>1, Offsets DEF IInv
<1>3. /\ addr \in Nat /\ len \in Nat /\ data \in Nat /\ chip_mem_addr \in Nat
      /\ block_octets \in Nat /\ byte_mode_count \in Nat \ {0}
      /\ addr + data = from /\ data % Word = 0
      /\ addr + len = chip_mem_addr + remaining /\ remaining \in Nat
  BY <1>1, <1>2, Offsets DEF Positioned, Sound
<1>4. block_octets + byte_mode_count = current_size
  BY <1>2, Parts
<1>5. /\ octets \in Nat /\ octets >= byte_mode_count /\ from + octets <= Base + Window
      /\ CountField(octets) = octets
      /\ current_size < remaining => octets = byte_mode_count
  BY <1>2, <1>3, Rounded
<1>6. Base \in Nat /\ Base <= from /\ from \in Nat
  BY <1>2, <1>3, BaseIs
<1>7. octets % Word = 0 /\ octets < byte_mode_count + Word
  BY <1>3, AlignIs
<1> HIDE DEF octets, from
<1>8. octets \in Nat \ {0} /\ Cmd53(from, data, octets)
  BY <1>1, <1>3, <1>5
<1>9. /\ moved' \in Seq([chip : Nat, host : Nat, size : Nat])
      /\ WithinWindow'
      /\ ret' \in {0, -1} /\ broken' \in BOOLEAN /\ faults' \in Nat
  BY <1>1, <1>3, <1>5, <1>6, <1>8, Cmd53Inv
<1>10. ~broken' => /\ ~broken
                   /\ moved' = Append(moved, [chip |-> from, host |-> data, size |-> octets])
  BY <1>1, <1>3, <1>5, <1>6, <1>8, Cmd53Inv
<1>11. /\ chip_mem_addr' = chip_mem_addr + current_size
       /\ chip_mem_addr' \in Nat /\ remaining' \in Nat
       /\ chip_mem_addr' + remaining' = chip_mem_addr + remaining
       /\ pc' = "idle" => current_size = remaining
       /\ pc' # "idle" => pc' = "win0" /\ Sound' /\ current_size < remaining
  BY <1>1, <1>2, NextSectionIs
<1>12. current_size = remaining => data + octets = Align(len)
  <2>1. SUFFICES ASSUME current_size = remaining PROVE data + octets = Align(len)
    OBVIOUS
  <2>2. len = data + byte_mode_count
    BY <1>3, <1>4, <2>1 DEF from
  <2>3. (data + octets) % Word = 0
    BY <1>3, <1>5, <1>7, Sizes, MultipleSum
  <2>4. data + octets \in Nat /\ len <= data + octets /\ data + octets < len + Word
    BY <1>3, <1>5, <1>7, <2>2, Sizes
  <2>5. QED
    BY <1>3, <2>3, <2>4, AlignUnique
<1>13. data + octets <= Align(len)
  <2>1. CASE current_size = remaining
    BY <1>3, <1>12, <2>1, AlignIs
  <2>2. CASE current_size < remaining
    <3>1. data + octets <= len
      BY <1>3, <1>4, <1>5, <2>2 DEF from
    <3>2. QED
      BY <1>3, <1>5, <3>1, AlignIs
  <2>3. QED
    BY <1>2, <2>1, <2>2, SectionIs DEF Sound
<1>14. ASSUME ~broken'
       PROVE  Contiguous' /\ moved' # <<>> /\ Extent' = data + octets
  <2>1. Contiguous /\ Extent = data
    BY <1>1, <1>2, <1>10, <1>14 DEF Moved
  <2>2. moved' = Append(moved, [chip |-> addr + data, host |-> data, size |-> octets])
    BY <1>3, <1>10, <1>14
  <2>3. QED
    BY <1>1, <1>2, <1>3, <1>5, <1>13, <2>1, <2>2, Extended
<1>15. pc' \in {"idle", "win0"} /\ (pc' # "idle" => remaining' > 0)
  BY <1>11 DEF Sound
<1>16. TypeOK'
  <2>1. data' \in Nat
    BY <1>1, <1>3
  <2>2. chip_mem_addr' + remaining' = addr' + len'
    BY <1>1, <1>3, <1>11
  <2>3. QED
    BY <1>1, <1>2, <1>9, <1>11, <1>15, <2>1, <2>2 DEF TypeOK
<1>17. Positioned'
  <2>1. addr' <= chip_mem_addr'
    BY <1>1, <1>3, <1>4, <1>11 DEF from
  <2>2. pc' # "idle" => data' = chip_mem_addr' - addr'
    BY <1>1, <1>3, <1>4, <1>11 DEF from
  <2>3. addr' % Word = 0
    BY <1>1, <1>2 DEF Positioned
  <2>4. QED
    BY <1>1, <1>3, <1>11, <1>15, <2>1, <2>2, <2>3 DEF Positioned
<1>18. Selected'
  BY <1>15 DEF Selected
<1>19. Moved'
  <2>1. ASSUME ~broken', pc' # "idle" PROVE Extent' = data'
    BY <1>1, <1>5, <1>11, <1>14, <2>1
  <2>2. ASSUME ~broken', pc' = "idle" PROVE Extent' = Align(len')
    BY <1>1, <1>11, <1>12, <1>14, <2>2
  <2>3. QED
    BY <1>14, <2>1, <2>2 DEF Moved
<1>20. QED
  BY <1>9, <1>16, <1>17, <1>18, <1>19 DEF IInv

-------------------------------------------------------------------------------
\* The properties.

\* The invariant holds throughout.
LEMMA Invariant == Spec => []IInv
<1>1. ASSUME IInv, [Next]_vars PROVE IInv'
  <2>1. ASSUME NEW r \in Requests, Call(r) PROVE IInv'
    BY <1>1, <2>1, CallInv
  <2>2. CASE SetWin0
    BY <1>1, <2>2, SetWin0Inv
  <2>3. CASE SetWin1
    BY <1>1, <2>3, SetWin1Inv
  <2>4. CASE SetCfg
    BY <1>1, <2>4, SetCfgInv
  <2>5. CASE Blocks
    BY <1>1, <2>5, BlocksInv
  <2>6. CASE Octets
    BY <1>1, <2>6, OctetsInv
  <2>7. CASE UNCHANGED vars
    <3>1. /\ pc' = pc /\ addr' = addr /\ len' = len /\ chip_mem_addr' = chip_mem_addr
          /\ data' = data /\ remaining' = remaining /\ ret' = ret /\ keyhole' = keyhole
          /\ moved' = moved /\ broken' = broken /\ calls' = calls /\ faults' = faults
      BY <2>7 DEF vars, args, loop
    <3>2. block_octets' = block_octets /\ byte_mode_count' = byte_mode_count /\ Sound' = Sound
      BY <3>1, SectionKept
    <3>3. TypeOK' /\ Selected' /\ WithinWindow'
      BY <1>1, <3>1 DEF IInv, TypeOK, Selected, WithinWindow
    <3>4. Positioned'
      BY <1>1, <3>1, <3>2 DEF IInv, Positioned
    <3>5. Moved'
      BY <1>1, <3>1 DEF IInv, Moved, Contiguous, Extent
    <3>6. QED
      BY <3>3, <3>4, <3>5 DEF IInv
  <2>8. QED
    BY <1>1, <2>1, <2>2, <2>3, <2>4, <2>5, <2>6, <2>7 DEF Next
<1>2. QED
  BY InitInv, <1>1, PTL DEF Spec

\* Every variable keeps to its type and the loop has dealt with what it has taken
\* from the length.
THEOREM TypeCorrect == Spec => []TypeOK
<1>1. IInv => TypeOK
  BY DEF IInv
<1>2. QED
  BY Invariant, <1>1, PTL

\* No CMD53 crosses the window that its keyhole setting selects, the last window
\* of the address space included, also in calls in which others have failed.
THEOREM StaysInWindow == Spec => []WithinWindow
<1>1. IInv => WithinWindow
  BY DEF IInv
<1>2. QED
  BY Invariant, <1>1, PTL

\* As long as no CMD53 of a call has failed, what has moved is the buffer from its
\* start, without gap or overlap, each octet between its place in the buffer and
\* its place in the chip; a call that returns 0 has moved it all.
THEOREM MovesBuffer == Spec => []Faithful
<1>1. IInv => Faithful
  BY DEF IInv, Moved, Contiguous, Extent, Faithful
<1>2. QED
  BY Invariant, <1>1, PTL

-------------------------------------------------------------------------------
\* What is sent, and what is heard.

\* A set of numbers has a smallest one.
LEMMA Smallest ==
  ASSUME NEW S \in SUBSET Nat, S # {} PROVE \E x \in S : \A y \in S : x <= y
<1>1. PICK x \in S : \A y \in S : <<y, x>> \notin OpToRel(<, Nat)
  BY WFMin, NatLessThanWellFounded, Zenon
<1>2. \A y \in S : ~(y < x)
  BY <1>1 DEF OpToRel
<1>. QED  BY <1>2

\* A sequence, of whatever.
IsSeq(s) == \E S : s \in Seq(S)

\* The length of a sequence is a natural number.
LEMMA SeqLength == ASSUME NEW s, IsSeq(s) PROVE Len(s) \in Nat
BY DEF IsSeq

\* A sequence of a known set is a sequence.
LEMMA SeqOfAll == ASSUME NEW s, NEW S, s \in Seq(S) PROVE IsSeq(s)
BY DEF IsSeq

\* Length and octets of two sequences, one behind the other.
LEMMA Joined ==
  ASSUME NEW a, NEW b, IsSeq(a), IsSeq(b)
  PROVE  /\ IsSeq(a \o b) /\ Len(a \o b) = Len(a) + Len(b)
         /\ \A i \in 1..(Len(a) + Len(b)) :
              (a \o b)[i] = IF i <= Len(a) THEN a[i] ELSE b[i - Len(a)]
<1>1. PICK S, T : a \in Seq(S) /\ b \in Seq(T)
  BY DEF IsSeq
<1>2. a \in Seq(S \cup T) /\ b \in Seq(S \cup T)
  BY <1>1, SeqMonotonic
<1>3. /\ a \o b \in Seq(S \cup T) /\ Len(a \o b) = Len(a) + Len(b)
      /\ \A i \in 1..(Len(a) + Len(b)) :
           (a \o b)[i] = IF i <= Len(a) THEN a[i] ELSE b[i - Len(a)]
  BY <1>2, ConcatProperties
<1>. QED  BY <1>3 DEF IsSeq

\* Length and octets of a sequence with one more.
LEMMA OneMore ==
  ASSUME NEW a, NEW x, IsSeq(a)
  PROVE  IsSeq(Append(a, x)) /\ Len(Append(a, x)) = Len(a) + 1
<1>1. PICK S : a \in Seq(S)
  BY DEF IsSeq
<1>2. a \in Seq(S \cup {x})
  BY <1>1, SeqMonotonic
<1>3. Append(a, x) \in Seq(S \cup {x}) /\ Len(Append(a, x)) = Len(a) + 1
  BY <1>2, AppendProperties
<1>. QED  BY <1>3 DEF IsSeq

\* A part of a sequence.
LEMMA PartOf ==
  ASSUME NEW s, IsSeq(s), NEW m \in Nat \ {0}, NEW n \in Nat, m <= n + 1, n <= Len(s)
  PROVE  /\ IsSeq(SubSeq(s, m, n)) /\ Len(SubSeq(s, m, n)) = n - m + 1
         /\ \A i \in 1..(n - m + 1) : SubSeq(s, m, n)[i] = s[m + i - 1]
<1>1. PICK S : s \in Seq(S)
  BY DEF IsSeq
<1>2. m \in 1..(Len(s) + 1) /\ n \in (m - 1)..Len(s)
  BY <1>1
<1>3. /\ SubSeq(s, m, n) \in Seq(S) /\ Len(SubSeq(s, m, n)) = n - m + 1
      /\ \A i \in 1..(n - m + 1) : SubSeq(s, m, n)[i] = s[m + i - 1]
  BY <1>1, <1>2, SubSeqProperties
<1>. QED  BY <1>3 DEF IsSeq

\* Nothing, one and four of something.
LEMMA Few ==
  ASSUME NEW a, NEW b, NEW c, NEW d
  PROVE  /\ IsSeq(<<>>) /\ Len(<<>>) = 0
         /\ IsSeq(<<a>>) /\ Len(<<a>>) = 1 /\ <<a>>[1] = a
         /\ IsSeq(<<a, b, c, d>>)
<1> DEFINE S == {a, b, c, d}
<1>1. <<>> \in Seq(S) /\ Len(<<>>) = 0
  OBVIOUS
<1>2. <<a>> \in Seq(S) /\ Len(<<a>>) = 1 /\ <<a>>[1] = a
  OBVIOUS
<1>3. <<a, b, c, d>> \in Seq(S)
  OBVIOUS
<1>. QED  BY <1>1, <1>2, <1>3, SeqOfAll

\* What CMD headers are filled up with is a sequence.
LEMMA Filled == ASSUME NEW n \in Nat PROVE IsSeq(Fill(n))
<1>1. Fill(n) \in Seq({Junk})
  BY DEF Fill
<1>. QED  BY <1>1 DEF IsSeq

\* The recursive function of FlattenSeq, and that it exists.
IsFlat(f, seqs, n) == f = [i \in 1..n |-> IF i = 1 THEN seqs[i] ELSE f[i - 1] \o seqs[i]]

\* FlattenSeq's function exists: a smallest length without one would extend the one before.
LEMMA FlatExists ==
  ASSUME NEW seqs, NEW m \in Nat \ {0} PROVE \E f : IsFlat(f, seqs, m)
<1> DEFINE step(f, i) == IF i = 1 THEN seqs[i] ELSE f[i - 1] \o seqs[i]
           Bads == {n \in Nat \ {0} : ~\E f : f = [i \in 1..n |-> step(f, i)]}
<1>1. SUFFICES ASSUME Bads # {} PROVE FALSE
  BY DEF IsFlat
<1>2. PICK n \in Bads : \A k \in Bads : n <= k
  <2> HIDE DEF Bads
  <2>1. Bads \in SUBSET Nat
    BY DEF Bads
  <2>. QED  BY <1>1, <2>1, Smallest
<1>3. n # 1
  <2>1. SUFFICES ASSUME n = 1 PROVE FALSE
    OBVIOUS
  <2> DEFINE f == [i \in 1..1 |-> seqs[i]]
  <2>2. \A i \in 1..1 : step(f, i) = seqs[i]
    <3> HIDE DEF Bads, f
    <3>1. \A i \in 1..1 : i = 1
      OBVIOUS
    <3>. QED  BY <3>1
  <2>3. f = [i \in 1..1 |-> step(f, i)]
    BY <2>2
  <2>. QED  BY <1>2, <2>1, <2>3
<1>4. n \in Nat /\ n - 1 \in Nat \ {0} /\ n - 1 \notin Bads
  <2>1. n \in Nat \ {0}
    OBVIOUS
  <2> HIDE DEF Bads
  <2>. QED  BY <1>2, <1>3, <2>1
<1>5. PICK g : g = [i \in 1..(n - 1) |-> step(g, i)]
  BY <1>4
<1> DEFINE f == [i \in 1..n |-> step(g, i)]
<1>6. \A i \in 1..n : step(g, i) = step(f, i)
  <2>1. SUFFICES ASSUME NEW i \in 1..n, i # 1 PROVE g[i - 1] = f[i - 1]
    OBVIOUS
  <2>2. i - 1 \in 1..(n - 1) /\ i - 1 \in 1..n
    <3> HIDE DEF Bads
    <3>. QED  BY <1>4, <2>1
  <2>3. g[i - 1] = step(g, i - 1)
    BY <1>5, <2>2
  <2>4. f[i - 1] = step(g, i - 1)
    BY <2>2
  <2>. QED  BY <2>3, <2>4
<1>7. f = [i \in 1..n |-> step(f, i)]
  BY <1>6
<1>. QED  BY <1>2, <1>7

\* Sequences one behind the other are one.
LEMMA Flattened ==
  ASSUME NEW seqs, IsSeq(seqs), \A i \in 1..Len(seqs) : IsSeq(seqs[i])
  PROVE  IsSeq(FlattenSeq(seqs))
<1> DEFINE n == Len(seqs)
<1>1. n \in Nat
  BY SeqLength
<1>2. CASE n = 0
  BY <1>2 DEF FlattenSeq
<1>3. CASE n # 0
  <2> DEFINE flat == CHOOSE f : IsFlat(f, seqs, n)
  <2>1. FlattenSeq(seqs) = flat[n]
    BY <1>3 DEF FlattenSeq, IsFlat
  <2>2. IsFlat(flat, seqs, n)
    <3>1. \E f : IsFlat(f, seqs, n)
      <4> HIDE DEF n
      <4>. QED  BY <1>1, <1>3, FlatExists
    <3>. QED  BY <3>1
  <2> HIDE DEF flat
  <2>3. \A i \in 1..n : flat[i] = IF i = 1 THEN seqs[i] ELSE flat[i - 1] \o seqs[i]
    BY <2>2 DEF IsFlat
  <2> DEFINE Bads == {i \in 1..n : ~IsSeq(flat[i])}
  <2>4. Bads = {}
    <3>1. SUFFICES ASSUME Bads # {} PROVE FALSE
      OBVIOUS
    <3>2. PICK i \in Bads : \A k \in Bads : i <= k
      <4>1. Bads \in SUBSET Nat
        BY <1>1
      <4> HIDE DEF Bads
      <4>. QED  BY <3>1, <4>1, Smallest
    <3>3. i \in 1..n /\ i # 1 /\ ~IsSeq(flat[i])
      BY <2>3, <3>2
    <3>4. i - 1 \in 1..n /\ i - 1 \notin Bads
      <4> HIDE DEF Bads
      <4>. QED  BY <1>1, <3>2, <3>3
    <3>5. IsSeq(flat[i - 1]) /\ flat[i] = flat[i - 1] \o seqs[i] /\ IsSeq(seqs[i])
      BY <2>3, <3>3, <3>4
    <3>. QED  BY <3>3, <3>5, Joined
  <2>5. n \in 1..n /\ n \notin Bads
    BY <1>1, <1>3, <2>4
  <2>. QED  BY <2>1, <2>5
<1>. QED  BY <1>2, <1>3

\* The header of a command is a sequence.
LEMMA HeaderIs == ASSUME NEW cmd, NEW argOctets, IsSeq(argOctets) PROVE IsSeq(prep_cmd(cmd, argOctets))
<1>1. \A x : IsSeq(<<x>>)
  BY Few
<1> DEFINE body == <<64 + cmd>> \o argOctets
<1>2. IsSeq(body)
  BY <1>1, Joined
<1> HIDE DEF body
<1>3. IsSeq(<<Junk>> \o body)
  BY <1>1, <1>2, Joined
<1>4. IsSeq(<<Junk>> \o body \o <<calc_cmd_crc_octet(body)>>)
  BY <1>1, <1>3, Joined
<1>. QED  BY <1>4 DEF prep_cmd, body

\* Sizes, counts and delays of a command are natural numbers.
LEMMA DelaysAre ==
  ASSUME NEW r \in SdioRequests
  PROVE  /\ post_block_delay_bytes(r) \in Nat /\ block_size(r) \in Nat /\ loop_count(r) \in Nat
         /\ total_block_size(r) \in Nat
<1>1. r.count \in Nat /\ BlockSize \in Nat /\ Interblock \in Nat /\ PostByte \in Nat
  BY SdioRequestsAssumption, SdioCommandAssumption
<1>2. post_block_delay_bytes(r) \in Nat /\ block_size(r) \in Nat /\ loop_count(r) \in Nat
  BY <1>1 DEF post_block_delay_bytes, block_size, loop_count
<1>. QED  BY <1>2 DEF total_block_size, CrcRead

\* A block with its token and checksum.
LEMMA BlockIs ==
  ASSUME NEW r \in SdioRequests, r.cmd = 53, r.write, NEW i \in 1..loop_count(r)
  PROVE  IsSeq(WriteBlock(r, i))
<1>1. /\ post_block_delay_bytes(r) \in Nat /\ block_size(r) \in Nat /\ loop_count(r) \in Nat
      /\ IsSeq(r.data) /\ Len(r.data) = loop_count(r) * block_size(r)
  BY DelaysAre, SdioRequestsAssumption, SeqOfAll
<1>2. IsSeq(BlockOf(r, i))
  <2> DEFINE s == block_size(r)
             c == loop_count(r)
             m == (i - 1) * s + 1
             n == i * s
  <2>1. s \in Nat /\ c \in Nat /\ i \in 1..c /\ Len(r.data) = c * s
    BY <1>1
  <2> HIDE DEF s, c
  <2>2. (i - 1) * s \in Nat /\ i * s \in Nat /\ i * s = (i - 1) * s + s /\ i * s <= c * s
    <3>1. i - 1 \in Nat /\ c - i \in Nat
      BY <2>1
    <3>2. (i - 1) * s \in Nat /\ (c - i) * s \in Nat
      BY <2>1, <3>1
    <3>3. i * s = (i - 1) * s + s /\ c * s = i * s + (c - i) * s
      BY <2>1
    <3>. QED  BY <2>1, <3>2, <3>3
  <2>3. m \in Nat \ {0} /\ n \in Nat /\ m <= n + 1 /\ n <= Len(r.data)
    BY <2>1, <2>2
  <2> HIDE DEF m, n
  <2>4. IsSeq(SubSeq(r.data, m, n))
    BY <1>1, <2>3, PartOf
  <2>. QED  BY <2>4 DEF BlockOf, m, n, s
<1>3. IsSeq(<<start_token(r)>>)
  BY Few
<1>4. IsSeq(Crc(BlockOf(r, i)))
  <2> DEFINE c == crc16_gen(BlockOf(r, i))
  <2>1. <<c \div 256, c % 256>> \in Seq({c \div 256, c % 256})
    OBVIOUS
  <2>. QED  BY <2>1, SeqOfAll DEF Crc
<1>5. IsSeq(Fill(post_block_delay_bytes(r)))
  BY <1>1, Filled
<1>6. IsSeq(<<start_token(r)>> \o BlockOf(r, i))
  BY <1>2, <1>3, Joined
<1>7. IsSeq(<<start_token(r)>> \o BlockOf(r, i) \o Crc(BlockOf(r, i)))
  BY <1>4, <1>6, Joined
<1>8. IsSeq(<<start_token(r)>> \o BlockOf(r, i) \o Crc(BlockOf(r, i))
              \o Fill(post_block_delay_bytes(r)))
  BY <1>5, <1>7, Joined
<1>. QED  BY <1>8 DEF WriteBlock

\* Every command is laid out as a sequence of octets.
LEMMA TransactionIs == \A r \in SdioRequests : IsSeq(Transaction(r))
<1>1. SUFFICES ASSUME NEW r \in SdioRequests PROVE IsSeq(Transaction(r))
  OBVIOUS
<1>2. IsSeq(Fill(HdrExtra)) /\ IsSeq(Fill(RespSize + PostCmd))
  BY Filled DEF HdrExtra, RespSize, PostCmd
<1>3. IsSeq(prep_cmd(0, <<0, 0, 0, 0>>)) /\ IsSeq(prep_cmd(63, <<0, 0, 0, 0>>))
  BY Few, HeaderIs
<1>4. IsSeq(cmd0) /\ IsSeq(cmd63)
  BY <1>2, <1>3, Joined DEF cmd0, cmd63
<1>5. IsSeq(cmd52(r))
  <2>1. \A a, b, c, d : IsSeq(prep_cmd(52, <<a, b, c, d>>))
    BY Few, HeaderIs
  <2>. QED  BY <1>2, <2>1, Joined DEF cmd52
<1>6. IsSeq(Cmd53Header(r))
  <2>1. \A a, b, c, d : IsSeq(prep_cmd(53, <<a, b, c, d>>))
    BY Few, HeaderIs
  <2>. QED  BY <2>1 DEF Cmd53Header
<1>7. ASSUME r.cmd = 53 PROVE IsSeq(full_trans(r))
  <2>1. CASE r.write
    <3> DEFINE n == loop_count(r)
               blocks == [i \in 1..n |-> WriteBlock(r, i)]
    <3>1. n \in Nat
      BY DelaysAre
    <3>2. \A i \in 1..n : IsSeq(WriteBlock(r, i))
      BY <1>7, <2>1, BlockIs
    <3> HIDE DEF n
    <3>3. blocks \in Seq({WriteBlock(r, i) : i \in 1..n}) /\ Len(blocks) = n
      BY <3>1
    <3>4. \A i \in 1..Len(blocks) : IsSeq(blocks[i])
      BY <3>2, <3>3
    <3> HIDE DEF blocks
    <3>5. IsSeq(FlattenSeq(blocks))
      BY <3>3, <3>4, SeqOfAll, Flattened
    <3>6. IsSeq(Fill(RespSize + PostCmd) \o FlattenSeq(blocks))
      BY <1>2, <3>5, Joined
    <3>7. IsSeq(Cmd53Header(r) \o (Fill(RespSize + PostCmd) \o FlattenSeq(blocks)))
      BY <1>6, <3>6, Joined
    <3>. QED  BY <2>1, <3>7 DEF full_trans, blocks, n
  <2>2. CASE ~r.write
    <3> DEFINE n == (IF r.blocks THEN RespSize ELSE 0) + PostCmd
                      + loop_count(r) * total_block_size(r)
    <3>1. n \in Nat
      <4>1. loop_count(r) \in Nat /\ total_block_size(r) \in Nat
        BY DelaysAre
      <4>2. loop_count(r) * total_block_size(r) \in Nat
        BY <4>1
      <4>. QED  BY <4>2 DEF RespSize, PostCmd
    <3> HIDE DEF n
    <3>2. IsSeq(Cmd53Header(r) \o Fill(n))
      BY <1>6, <3>1, Filled, Joined
    <3>. QED  BY <2>2, <3>2 DEF full_trans, n
  <2>. QED  BY <2>1, <2>2
<1>. QED  BY <1>4, <1>5, <1>7, SdioRequestsAssumption DEF Transaction

\* The recursive function of Clocked, and that it exists.
IsClocked(f, c, octets, mood_, n) ==
  f = [i \in 0..n |-> IF i = 0 THEN [chip |-> c, in |-> <<>>] ELSE Clock(f[i - 1], octets[i], mood_)]

\* Clocked's function exists, by the same argument as FlattenSeq's.
LEMMA ClockedExists ==
  ASSUME NEW c, NEW octets, NEW mood_, NEW m \in Nat
  PROVE  \E f : IsClocked(f, c, octets, mood_, m)
<1> DEFINE step(f, i) == IF i = 0 THEN [chip |-> c, in |-> <<>>] ELSE Clock(f[i - 1], octets[i], mood_)
           Bads == {n \in Nat : ~\E f : f = [i \in 0..n |-> step(f, i)]}
<1>1. SUFFICES ASSUME Bads # {} PROVE FALSE
  BY DEF IsClocked
<1>2. PICK n \in Bads : \A k \in Bads : n <= k
  <2> HIDE DEF Bads
  <2>1. Bads \in SUBSET Nat
    BY DEF Bads
  <2>. QED  BY <1>1, <2>1, Smallest
<1>3. n # 0
  <2>1. SUFFICES ASSUME n = 0 PROVE FALSE
    OBVIOUS
  <2> DEFINE f == [i \in 0..0 |-> [chip |-> c, in |-> <<>>]]
  <2>2. f = [i \in 0..0 |-> step(f, i)]
    OBVIOUS
  <2>. QED  BY <1>2, <2>1, <2>2
<1>4. n - 1 \in Nat /\ n - 1 \notin Bads
  <2>1. n \in Nat
    OBVIOUS
  <2> HIDE DEF Bads
  <2>. QED  BY <1>2, <1>3, <2>1
<1>5. PICK g : g = [i \in 0..(n - 1) |-> step(g, i)]
  BY <1>4
<1> DEFINE f == [i \in 0..n |-> step(g, i)]
<1>6. \A i \in 0..n : step(g, i) = step(f, i)
  <2>1. SUFFICES ASSUME NEW i \in 0..n, i # 0 PROVE g[i - 1] = f[i - 1]
    OBVIOUS
  <2>2. i - 1 \in 0..(n - 1) /\ i - 1 \in 0..n
    BY <1>4, <2>1
  <2>3. g[i - 1] = step(g, i - 1)
    BY <1>5, <2>2
  <2>4. f[i - 1] = step(g, i - 1)
    BY <2>2
  <2>. QED  BY <2>3, <2>4
<1>7. f = [i \in 0..n |-> step(f, i)]
  BY <1>6
<1>. QED  BY <1>2, <1>7

\* Whatever the chip makes of them, as many octets come in as go out.
LEMMA ClockedLength ==
  ASSUME NEW c, NEW octets, NEW mood_, IsSeq(octets)
  PROVE  IsSeq(Clocked(c, octets, mood_).in) /\ Len(Clocked(c, octets, mood_).in) = Len(octets)
<1> DEFINE n == Len(octets)
           after == CHOOSE f : IsClocked(f, c, octets, mood_, n)
<1>1. n \in Nat
  BY SeqLength
<1>2. Clocked(c, octets, mood_) = after[n]
  BY DEF Clocked, IsClocked
<1>3. IsClocked(after, c, octets, mood_, n)
  <2>1. \E f : IsClocked(f, c, octets, mood_, n)
    <3> HIDE DEF n
    <3>. QED  BY <1>1, ClockedExists
  <2>. QED  BY <2>1
<1> HIDE DEF after, n
<1>4. \A i \in 0..n : after[i] = IF i = 0 THEN [chip |-> c, in |-> <<>>]
                                 ELSE Clock(after[i - 1], octets[i], mood_)
  BY <1>3 DEF IsClocked
<1>5. \A s, o : \E x : Clock(s, o, mood_).in = Append(s.in, x)
  BY DEF Clock
<1> DEFINE Bads == {i \in 0..n : ~(IsSeq(after[i].in) /\ Len(after[i].in) = i)}
<1>6. Bads = {}
  <2>1. SUFFICES ASSUME Bads # {} PROVE FALSE
    OBVIOUS
  <2>2. PICK i \in Bads : \A k \in Bads : i <= k
    <3>1. Bads \in SUBSET Nat
      BY <1>1
    <3> HIDE DEF Bads
    <3>. QED  BY <2>1, <3>1, Smallest
  <2>3. i # 0
    <3>1. 0 \in 0..n
      BY <1>1
    <3>2. after[0].in = <<>>
      BY <1>4, <3>1
    <3>. QED  BY <2>2, <3>2, Few
  <2>4. i \in 0..n /\ i \in Nat /\ i - 1 \in 0..n /\ i - 1 \notin Bads
    <3>1. i \in 0..n
      BY <2>2
    <3> HIDE DEF Bads
    <3>. QED  BY <1>1, <2>2, <2>3, <3>1
  <2>5. IsSeq(after[i - 1].in) /\ Len(after[i - 1].in) = i - 1
    BY <2>4
  <2>6. after[i] = Clock(after[i - 1], octets[i], mood_)
    BY <1>4, <2>3, <2>4
  <2>7. PICK x : after[i].in = Append(after[i - 1].in, x)
    <3> HIDE DEF Bads
    <3>1. \E x : Clock(after[i - 1], octets[i], mood_).in = Append(after[i - 1].in, x)
      BY <1>5
    <3>. QED  BY <2>6, <3>1
  <2>8. IsSeq(after[i].in) /\ Len(after[i].in) = i
    BY <2>4, <2>5, <2>7, OneMore
  <2>. QED  BY <2>2, <2>8
<1>7. n \in 0..n /\ n \notin Bads
  BY <1>1, <1>6
<1>. QED  BY <1>2, <1>7 DEF n

-------------------------------------------------------------------------------
\* The invariant.

Adapted(cs, awaits) == [mode |-> "mpsse", loopback |-> FALSE, awaits |-> awaits, cs |-> cs]
Node(cs) == <<[handle |-> Handle, cs |-> cs]>>

Adapters == [mode : {"reset", "mpsse", "astray"}, loopback : BOOLEAN, awaits : Nat,
             cs : {"in", "low", "high"}]

\* The adapter, set up step by step.
Adapter ==
  /\ mpsse \in Adapters
  /\ at = "enable mpsse" => mpsse.awaits = 0
  /\ at \in {"loopback on", "sync", "echo AA", "echo AB", "clock", "loopback off", "empty", "pins"} =>
       mpsse.mode = "mpsse" /\ mpsse.awaits = 0
  /\ at \in {"empty", "pins"} => ~mpsse.loopback

\* The list has the one channel.
Nodes ==
  /\ at = "down" => contexts = <<>>
  /\ at # "down" => \E cs : contexts = Node(cs)

Transfers ==
  at \in {"cs on", "command", "data", "read", "cs off"} =>
    IsSeq(outBuffer) /\ sizeTransferred \in 0..Len(outBuffer)

\* The octet at i of q, which comes behind Bad if was, follows one.
Follows(q, was, i) == IF i = 1 THEN was ELSE q[i - 1] = Bad

\* There is an echo of cmd in what has been taken, and what it ends with.
HasEcho(got, was, cmd) == \E i \in DOMAIN got : got[i] = cmd /\ Follows(got, was, i)
EndsBad(got, was) == IF got = <<>> THEN was ELSE got[Len(got)] = Bad

\* No echo of the first command has one of the second behind it.
Clear(q, was) ==
  \A i, j \in 1..Len(q) :
    i < j /\ q[i] = 170 /\ Follows(q, was, i) => ~(q[j] = 171 /\ Follows(q, was, j))

\* The last octet of q is an echo of cmd, and there is none before it.
EchoLast(q, was, cmd) ==
  /\ IsSeq(q) /\ Len(q) > 0
  /\ \A i \in 1..Len(q) :
       (q[i] = cmd /\ Follows(q, was, i)) <=> i = Len(q)

\* What there is to come while the second command is awaited.
Coming == IF loops > 0 THEN queue ELSE queue \o <<Bad, 171>>

\* What has not been delivered: before the echoes, what an earlier process has left;
\* then, unless that is misleading, an echo of the second command that is its last.
Waiting ==
  /\ IsSeq(queue) /\ bad \in BOOLEAN /\ loops \in Nat
  /\ at \notin {"echo AA", "echo AB"} => ~bad /\ loops = 0
  /\ ~misled => /\ at = "echo AA" => Clear(queue, bad)
                /\ at = "echo AB" => EchoLast(Coming, bad, 171)
                /\ at \in {"clock", "loopback off", "empty", "pins"} => queue = <<>>

\* The channel from command to command.
Quiet ==
  /\ at \in {"idle", "cs on", "return"} => mpsse = Adapted("high", 0)
  /\ at \in {"command", "read", "cs off"} => mpsse = Adapted("low", 0)
  /\ at = "data" => mpsse = Adapted("low", CurrentXferSize)
  /\ at \in {"idle", "return"} => contexts = Node("high")
  /\ at \in {"idle", "cs on", "command", "data", "cs off", "return"} => queue = <<>>
  /\ at = "read" => Len(queue) = CurrentXferSize
  /\ at # "error"

BusInv == Adapter /\ Nodes /\ Transfers /\ Waiting /\ (~harmed /\ ~misled => Quiet)

-------------------------------------------------------------------------------
\* The queue.

\* What is left of a queue.
LEMMA RestIs ==
  ASSUME NEW q, IsSeq(q), NEW rest \in Rests(q)
  PROVE  /\ IsSeq(rest) /\ Len(rest) \in 0..Len(q)
         /\ \A i \in 1..Len(rest) : rest[i] = q[Len(q) - Len(rest) + i]
<1>1. PICK n \in 0..Len(q) : rest = SubSeq(q, n + 1, Len(q))
  BY DEF Rests
<1>2. Len(q) \in Nat
  BY SeqLength
<1>3. n + 1 \in Nat \ {0} /\ n + 1 <= Len(q) + 1 /\ Len(q) <= Len(q)
  BY <1>2
<1>4. /\ IsSeq(rest) /\ Len(rest) = Len(q) - (n + 1) + 1
      /\ \A i \in 1..(Len(q) - (n + 1) + 1) : rest[i] = q[(n + 1) + i - 1]
  BY <1>1, <1>2, <1>3, PartOf
<1>5. Len(rest) = Len(q) - n /\ \A i \in 1..(Len(q) - n) : rest[i] = q[n + i]
  BY <1>2, <1>4
<1>. QED  BY <1>2, <1>4, <1>5

\* ... and what has been taken of it.
LEMMA GotIs ==
  ASSUME NEW q, IsSeq(q), NEW rest \in Rests(q), NEW got,
         got = SubSeq(q, 1, Len(q) - Len(rest))
  PROVE  /\ IsSeq(got) /\ Len(got) = Len(q) - Len(rest)
         /\ \A i \in 1..Len(got) : got[i] = q[i]
<1>1. Len(q) \in Nat /\ Len(rest) \in 0..Len(q)
  BY SeqLength, RestIs
<1> DEFINE n == Len(q) - Len(rest)
<1>2. n \in Nat /\ n <= Len(q) /\ 1 <= n + 1
  BY <1>1
<1> HIDE DEF n
<1>3. /\ IsSeq(SubSeq(q, 1, n)) /\ Len(SubSeq(q, 1, n)) = n - 1 + 1
      /\ \A i \in 1..(n - 1 + 1) : SubSeq(q, 1, n)[i] = q[1 + i - 1]
  BY <1>2, PartOf
<1>4. Len(got) = n /\ \A i \in 1..n : got[i] = q[i]
  BY <1>2, <1>3 DEF n
<1>. QED  BY <1>3, <1>4 DEF n

\* Nothing is left of nothing.
LEMMA NothingRests == Rests(<<>>) = {<<>>}
<1>1. ASSUME NEW rest \in Rests(<<>>) PROVE rest = <<>>
  <2>1. IsSeq(rest) /\ Len(rest) \in 0..0
    BY Few, RestIs
  <2>2. Len(rest) = 0
    BY <2>1
  <2>. QED  BY <2>1, <2>2, EmptySeq DEF IsSeq
<1>2. SubSeq(<<>>, 0 + 1, Len(<<>>)) \in Rests(<<>>)
  <2>1. 0 \in 0..Len(<<>>)
    BY Few
  <2>. QED  BY <2>1 DEF Rests
<1>. QED  BY <1>1, <1>2

\* What a purge or the end of a process leaves is a sequence of octets.
LEMMA LateIs ==
  ASSUME NEW q, IsSeq(q), NEW rest \in LateOf(q)
  PROVE  IsSeq(rest)
BY RestIs DEF LateOf

\* So is what an adapter gone astray has to deliver.
LEMMA LeftoverIs == \A left \in Leftovers : IsSeq(left)
BY SpiChannelAssumption DEF IsSeq

\* An echo behind what is left of a queue.
IsBehind(c, q, cmd) ==
  /\ IsSeq(c) /\ Len(q) \in Nat /\ Len(c) = Len(q) + 2
  /\ \A i \in 1..Len(q) : c[i] = q[i]
  /\ c[Len(q) + 1] = Bad /\ c[Len(q) + 2] = cmd

\* The MPSSE's answer to a bad command comes behind what is in the queue.
LEMMA EchoBehind ==
  ASSUME NEW q, IsSeq(q), NEW cmd PROVE IsBehind(q \o <<Bad, cmd>>, q, cmd)
<1>1. /\ <<Bad, cmd>> \in Seq({Bad, cmd}) /\ Len(<<Bad, cmd>>) = 2
      /\ <<Bad, cmd>>[1] = Bad /\ <<Bad, cmd>>[2] = cmd
  OBVIOUS
<1> DEFINE e == <<Bad, cmd>>
           c == q \o e
<1>2. IsSeq(e) /\ Len(e) = 2 /\ e[1] = Bad /\ e[2] = cmd
  BY <1>1, SeqOfAll
<1> HIDE DEF e
<1>3. /\ IsSeq(c) /\ Len(c) = Len(q) + 2
      /\ \A i \in 1..(Len(q) + 2) : c[i] = IF i <= Len(q) THEN q[i] ELSE e[i - Len(q)]
  BY <1>2, Joined
<1> HIDE DEF c
<1>4. Len(q) \in Nat
  BY SeqLength
<1>5. \A i \in 1..Len(q) : c[i] = q[i]
  BY <1>3, <1>4
<1>6. c[Len(q) + 1] = e[1] /\ c[Len(q) + 2] = e[2]
  <2>1. Len(q) + 1 \in 1..(Len(q) + 2) /\ ~(Len(q) + 1 <= Len(q)) /\ (Len(q) + 1) - Len(q) = 1
    BY <1>4
  <2>2. Len(q) + 2 \in 1..(Len(q) + 2) /\ ~(Len(q) + 2 <= Len(q)) /\ (Len(q) + 2) - Len(q) = 2
    BY <1>4
  <2>. QED  BY <1>3, <2>1, <2>2
<1>7. IsBehind(c, q, cmd)
  BY <1>2, <1>3, <1>4, <1>5, <1>6, Zenon DEF IsBehind
<1>. QED  BY <1>7 DEF c, e

\* A queue parts into what is taken and what is left.
Parted(q, got, rest) ==
  /\ IsSeq(got) /\ Len(got) \in Nat /\ DOMAIN got = 1..Len(got) /\ (got = <<>> <=> Len(got) = 0)
  /\ IsSeq(rest) /\ Len(rest) \in Nat /\ Len(q) = Len(got) + Len(rest)
  /\ \A i \in 1..Len(got) : got[i] = q[i]
  /\ \A i \in 1..Len(rest) : rest[i] = q[Len(got) + i]

\* A read takes the first octets and leaves the others in their order.
LEMMA TakenAndLeft ==
  ASSUME NEW q, IsSeq(q), NEW rest \in Rests(q), NEW got,
         got = SubSeq(q, 1, Len(q) - Len(rest))
  PROVE  Parted(q, got, rest)
<1>1. IsSeq(got) /\ Len(got) = Len(q) - Len(rest) /\ \A i \in 1..Len(got) : got[i] = q[i]
  BY GotIs
<1>2. IsSeq(rest) /\ Len(rest) \in 0..Len(q)
  BY RestIs
<1>3. \A i \in 1..Len(rest) : rest[i] = q[Len(q) - Len(rest) + i]
  BY RestIs
<1>4. Len(q) \in Nat
  BY SeqLength
<1>5. DOMAIN got = 1..Len(got) /\ (got = <<>> <=> Len(got) = 0)
  <2>1. PICK S : got \in Seq(S)
    BY <1>1 DEF IsSeq
  <2>2. got = <<>> <=> Len(got) = 0
    BY <2>1, EmptySeq, Zenon
  <2>3. DOMAIN got = 1..Len(got)
    BY <2>1, LenProperties, Zenon
  <2>. QED  BY <2>2, <2>3
<1>6. \A i \in 1..Len(rest) : rest[i] = q[Len(got) + i]
  BY <1>1, <1>3
<1>7. Len(got) \in Nat /\ Len(rest) \in Nat /\ Len(q) = Len(got) + Len(rest)
  BY <1>1, <1>2, <1>4
<1>. QED  BY <1>1, <1>2, <1>5, <1>6, <1>7, Zenon DEF Parted

LEMMA FollowsIs ==
  ASSUME NEW q, NEW was, NEW i, i # 1 PROVE Follows(q, was, i) <=> q[i - 1] = Bad
BY DEF Follows

\* What comes first in the rest comes behind what has been taken.
LEMMA FollowsBehind ==
  ASSUME NEW coming, NEW was \in BOOLEAN, NEW got, NEW rest, Parted(coming, got, rest),
         NEW i \in 1..Len(rest)
  PROVE  Follows(rest, EndsBad(got, was), i) <=> Follows(coming, was, Len(got) + i)
<1> DEFINE is == EndsBad(got, was)
           m == Len(rest)
           k == Len(got)
<1>1. /\ k \in Nat /\ m \in Nat
      /\ \A j \in 1..k : got[j] = coming[j]
      /\ \A j \in 1..m : rest[j] = coming[k + j]
      /\ got = <<>> <=> k = 0
  BY DEF Parted
<1>2. is = IF got = <<>> THEN was ELSE got[k] = Bad
  BY DEF EndsBad
<1>3. i \in 1..m
  OBVIOUS
<1> HIDE DEF m, k, is
<1>4. CASE i # 1
  <2>0. i - 1 \in 1..m
    BY <1>1, <1>3, <1>4
  <2>1. i - 1 \in 1..m /\ k + (i - 1) = (k + i) - 1 /\ k + i # 1
    BY <1>1, <1>3, <2>0
  <2>2. rest[i - 1] = coming[k + (i - 1)]
    BY <1>1, <2>1
  <2>3. rest[i - 1] = coming[(k + i) - 1]
    BY <2>1, <2>2
  <2>4. Follows(rest, is, i) <=> rest[i - 1] = Bad
    BY <1>4, FollowsIs
  <2>5. Follows(coming, was, k + i) <=> coming[(k + i) - 1] = Bad
    BY <2>1, FollowsIs
  <2>. QED  BY <2>3, <2>4, <2>5 DEF is, k
<1>5. CASE i = 1 /\ k = 0
  <2>1. is = was
    BY <1>1, <1>2, <1>5
  <2>2. k + i = 1
    BY <1>5
  <2>. QED  BY <1>5, <2>1, <2>2 DEF Follows, is, k
<1>6. CASE i = 1 /\ k # 0
  <2>1. k \in 1..k /\ k + i # 1 /\ (k + i) - 1 = k
    BY <1>1, <1>6
  <2>2. is = (got[k] = Bad)
    BY <1>1, <1>2, <1>6
  <2>3. got[k] = coming[k]
    BY <1>1, <2>1
  <2>4. Follows(coming, was, k + i) <=> coming[k] = Bad
    BY <2>1, FollowsIs
  <2>5. Follows(rest, is, i) <=> is
    BY <1>6 DEF Follows
  <2>. QED  BY <2>2, <2>3, <2>4, <2>5 DEF is, k
<1>. QED  BY <1>4, <1>5, <1>6

\* Octets that are not misleading are clear.
LEMMA ClearStart ==
  ASSUME NEW q, IsSeq(q), ~Misleading(q)
  PROVE  Clear(q, FALSE)
<1> DEFINE n == Len(q)
<1>1. n \in Nat /\ DOMAIN q = 1..n
  <2>1. PICK S : q \in Seq(S)
    BY DEF IsSeq
  <2>2. DOMAIN q = 1..Len(q)
    BY <2>1, LenProperties, Zenon
  <2>. QED  BY <2>2, SeqLength
<1> HIDE DEF n
<1>2. ASSUME NEW i \in 1..n, Follows(q, FALSE, i)
      PROVE  i - 1 \in 1..n /\ EchoAt(q, i - 1, q[i])
  <2>1. i # 1 /\ q[i - 1] = Bad
    BY <1>2 DEF Follows
  <2>2. i - 1 \in 1..n /\ (i - 1) + 1 = i
    BY <1>1, <2>1
  <2>3. q[(i - 1) + 1] = q[i] /\ (i - 1) + 1 \in DOMAIN q
    BY <1>1, <2>2
  <2>. QED  BY <2>1, <2>2, <2>3 DEF EchoAt
<1>3. SUFFICES ASSUME NEW i \in 1..n, NEW j \in 1..n, i < j,
                      q[i] = 170, Follows(q, FALSE, i), q[j] = 171, Follows(q, FALSE, j)
               PROVE  FALSE
  BY DEF Clear, n
<1>4. /\ i - 1 \in DOMAIN q /\ EchoAt(q, i - 1, 170)
      /\ j - 1 \in DOMAIN q /\ EchoAt(q, j - 1, 171)
  <2>1. i - 1 \in 1..n /\ EchoAt(q, i - 1, 170)
    BY <1>2, <1>3
  <2>2. j - 1 \in 1..n /\ EchoAt(q, j - 1, 171)
    BY <1>2, <1>3
  <2>. QED  BY <1>1, <2>1, <2>2, Zenon
<1>5. i - 1 < j - 1
  BY <1>1, <1>3
<1>. QED  BY <1>4, <1>5 DEF Misleading

\* Another echo of the first command leaves them so.
LEMMA ClearBehind ==
  ASSUME NEW q, NEW was, Clear(q, was), NEW c, IsBehind(c, q, 170)
  PROVE  Clear(c, was)
<1> DEFINE n == Len(q)
<1>1. /\ n \in Nat /\ Len(c) = n + 2 /\ c[n + 1] = Bad /\ c[n + 2] = 170
      /\ \A i \in 1..n : c[i] = q[i]
  BY DEF IsBehind
<1>2. \A i, j \in 1..n : i < j /\ q[i] = 170 /\ Follows(q, was, i) => ~(q[j] = 171 /\ Follows(q, was, j))
  BY DEF Clear
<1> HIDE DEF n
<1>3. SUFFICES ASSUME NEW i \in 1..(n + 2), NEW j \in 1..(n + 2), i < j,
                      c[i] = 170, Follows(c, was, i), c[j] = 171, Follows(c, was, j)
               PROVE  FALSE
  BY <1>1 DEF Clear
<1>4. j # n + 1 /\ j # n + 2
  BY <1>1, <1>3 DEF Bad
<1>5. i \in 1..n /\ j \in 1..n
  BY <1>1, <1>3, <1>4
<1>6. ASSUME NEW x \in 1..n PROVE Follows(c, was, x) <=> Follows(q, was, x)
  <2>1. x # 1 => x - 1 \in 1..n
    BY <1>1
  <2>. QED  BY <1>1, <2>1 DEF Follows
<1>. QED  BY <1>1, <1>2, <1>3, <1>5, <1>6

\* So does a round in vain.
LEMMA ClearStays ==
  ASSUME NEW coming, IsSeq(coming), NEW was \in BOOLEAN, NEW rest \in Rests(coming),
         Clear(coming, was),
         NEW got, got = SubSeq(coming, 1, Len(coming) - Len(rest))
  PROVE  Clear(rest, EndsBad(got, was))
<1> DEFINE is == EndsBad(got, was)
           k == Len(got)
           m == Len(rest)
           n == Len(coming)
<1>0. Parted(coming, got, rest)
  BY TakenAndLeft, Zenon
<1>1. /\ k \in Nat /\ m \in Nat /\ n = k + m
      /\ \A i \in 1..m : rest[i] = coming[k + i]
  BY <1>0 DEF Parted
<1>2. \A i, j \in 1..n :
        i < j /\ coming[i] = 170 /\ Follows(coming, was, i) => ~(coming[j] = 171 /\ Follows(coming, was, j))
  BY DEF Clear
<1>3. \A i \in 1..m : Follows(rest, is, i) <=> Follows(coming, was, k + i)
  BY <1>0, FollowsBehind
<1> HIDE DEF k, m, n, is
<1>4. SUFFICES ASSUME NEW i \in 1..m, NEW j \in 1..m, i < j,
                      rest[i] = 170, Follows(rest, is, i), rest[j] = 171, Follows(rest, is, j)
               PROVE  FALSE
  BY DEF Clear, m, is
<1>5. k + i \in 1..n /\ k + j \in 1..n /\ k + i < k + j
  BY <1>1, <1>4
<1>6. coming[k + i] = 170 /\ coming[k + j] = 171
  BY <1>1, <1>4
<1>7. Follows(coming, was, k + i) /\ Follows(coming, was, k + j)
  BY <1>3, <1>4
<1>. QED  BY <1>2, <1>5, <1>6, <1>7

\* Behind an echo of the first command, there is none of the second but the one to come.
LEMMA FirstEcho ==
  ASSUME NEW coming, IsSeq(coming), NEW was \in BOOLEAN, NEW rest \in Rests(coming),
         Clear(coming, was),
         NEW got, got = SubSeq(coming, 1, Len(coming) - Len(rest)),
         HasEcho(got, was, 170)
  PROVE  EchoLast(rest \o <<Bad, 171>>, FALSE, 171)
<1> DEFINE k == Len(got)
           m == Len(rest)
           n == Len(coming)
<1>0. Parted(coming, got, rest)
  BY TakenAndLeft, Zenon
<1>1. /\ IsSeq(rest) /\ k \in Nat /\ m \in Nat /\ n = k + m
      /\ \A i \in 1..k : got[i] = coming[i]
      /\ \A i \in 1..m : rest[i] = coming[k + i]
      /\ DOMAIN got = 1..k
  BY <1>0 DEF Parted
<1>2. \A i, j \in 1..n :
        i < j /\ coming[i] = 170 /\ Follows(coming, was, i) => ~(coming[j] = 171 /\ Follows(coming, was, j))
  BY DEF Clear
<1>3. PICK i \in DOMAIN got : got[i] = 170 /\ Follows(got, was, i)
  BY DEF HasEcho
<1> HIDE DEF k, m, n
<1>4. i \in 1..k /\ i \in 1..n
  BY <1>1, <1>3
<1>5. coming[i] = 170 /\ Follows(coming, was, i)
  <2>1. i # 1 => i - 1 \in 1..k
    BY <1>1, <1>4
  <2>2. i # 1 => got[i - 1] = coming[i - 1]
    BY <1>1, <2>1
  <2>. QED  BY <1>1, <1>3, <1>4, <2>2 DEF Follows
<1>6. ASSUME NEW j \in 1..m, rest[j] = 171, Follows(rest, FALSE, j) PROVE FALSE
  <2>1. k + j \in 1..n /\ i < k + j
    BY <1>1, <1>4
  <2>2. coming[k + j] = 171
    BY <1>1, <1>6
  <2>3. j # 1 /\ rest[j - 1] = Bad
    BY <1>6 DEF Follows
  <2>4. j - 1 \in 1..m /\ k + (j - 1) = (k + j) - 1 /\ k + j # 1
    BY <1>1, <2>3
  <2>5. coming[(k + j) - 1] = Bad
    <3>1. rest[j - 1] = coming[k + (j - 1)]
      BY <1>1, <2>4
    <3>. QED  BY <2>3, <2>4, <3>1
  <2>6. Follows(coming, was, k + j)
    BY <2>4, <2>5 DEF Follows
  <2>. QED  BY <1>2, <1>4, <1>5, <2>1, <2>2, <2>6
<1> DEFINE c == rest \o <<Bad, 171>>
<1>7. /\ IsSeq(c) /\ Len(c) = m + 2
      /\ \A j \in 1..m : c[j] = rest[j]
      /\ c[m + 1] = Bad /\ c[m + 2] = 171
  <2>1. IsBehind(c, rest, 171)
    BY <1>1, EchoBehind, Zenon
  <2>. QED  BY <2>1 DEF IsBehind, m
<1> HIDE DEF c
<1>8. ASSUME NEW j \in 1..(m + 2) PROVE (c[j] = 171 /\ Follows(c, FALSE, j)) <=> j = m + 2
  <2>1. CASE j = m + 2
    <3>1. j - 1 = m + 1 /\ j # 1
      BY <1>1, <2>1
    <3>. QED  BY <1>7, <2>1, <3>1 DEF Follows
  <2>2. CASE j = m + 1
    <3>1. c[j] # 171 /\ j # m + 2
      BY <1>1, <1>7, <2>2 DEF Bad
    <3>. QED  BY <3>1
  <2>3. CASE j \in 1..m
    <3>1. j # m + 2 /\ (j # 1 => j - 1 \in 1..m)
      BY <1>1, <2>3
    <3>2. c[j] = rest[j] /\ (j # 1 => c[j - 1] = rest[j - 1])
      BY <1>7, <2>3, <3>1
    <3>3. Follows(c, FALSE, j) <=> Follows(rest, FALSE, j)
      BY <3>2 DEF Follows
    <3>. QED  BY <1>6, <2>3, <3>1, <3>2, <3>3
  <2>4. j = m + 2 \/ j = m + 1 \/ j \in 1..m
    BY <1>1, <1>8
  <2>. QED  BY <2>1, <2>2, <2>3, <2>4
<1>9. Len(c) > 0 /\ IsSeq(c) /\ Len(c) = m + 2
  BY <1>1, <1>7
<1>10. \A j \in 1..Len(c) : (c[j] = 171 /\ Follows(c, FALSE, j)) <=> j = Len(c)
  <2>1. \A j \in 1..(m + 2) : (c[j] = 171 /\ Follows(c, FALSE, j)) <=> j = m + 2
    BY <1>8, Zenon
  <2>. QED  BY <1>9, <2>1
<1>. QED  BY <1>9, <1>10, Zenon DEF EchoLast, c

\* What is taken for the second echo is it, and all that there was.
LEMMA SecondEcho ==
  ASSUME NEW coming, NEW was \in BOOLEAN, NEW rest \in Rests(coming),
         EchoLast(coming, was, 171),
         NEW got, got = SubSeq(coming, 1, Len(coming) - Len(rest)),
         HasEcho(got, was, 171)
  PROVE  rest = <<>>
<1> DEFINE k == Len(got)
           m == Len(rest)
           n == Len(coming)
<1>1. /\ IsSeq(coming)
      /\ \A i \in 1..n : (coming[i] = 171 /\ (IF i = 1 THEN was ELSE coming[i - 1] = Bad)) <=> i = n
  BY DEF EchoLast, Follows
<1>0. Parted(coming, got, rest)
  BY <1>1, TakenAndLeft, Zenon
<1>2. /\ IsSeq(rest) /\ k \in Nat /\ m \in Nat /\ n = k + m
      /\ \A i \in 1..k : got[i] = coming[i]
      /\ DOMAIN got = 1..k
  BY <1>0 DEF Parted
<1>3. PICK i \in DOMAIN got : got[i] = 171 /\ (IF i = 1 THEN was ELSE got[i - 1] = Bad)
  BY DEF HasEcho, Follows
<1> HIDE DEF k, n
<1>4. i \in 1..k /\ i \in 1..n
  BY <1>2, <1>3
<1>5. coming[i] = 171
  BY <1>2, <1>3, <1>4
<1>6. IF i = 1 THEN was ELSE coming[i - 1] = Bad
  <2>1. CASE i = 1
    BY <1>3, <2>1
  <2>2. CASE i # 1
    <3>1. i - 1 \in 1..k
      <4>1. \A x \in 1..k : x # 1 => x - 1 \in 1..k
        BY <1>2
      <4>. QED  BY <1>4, <2>2, <4>1, Zenon
    <3>2. got[i - 1] = coming[i - 1]
      BY <1>2, <3>1
    <3>. QED  BY <1>3, <2>2, <3>2
  <2>. QED  BY <2>1, <2>2
<1>7. i = n
  BY <1>1, <1>4, <1>5, <1>6, Zenon
<1>8. m = 0
  BY <1>2, <1>4, <1>7
<1>. QED  BY <1>2, <1>8, EmptySeq DEF IsSeq, m

\* As long as it is not there it is still the last to come.
LEMMA EchoStaysLast ==
  ASSUME NEW coming, NEW was \in BOOLEAN, NEW rest \in Rests(coming),
         EchoLast(coming, was, 171),
         NEW got, got = SubSeq(coming, 1, Len(coming) - Len(rest)),
         ~HasEcho(got, was, 171)
  PROVE  EchoLast(rest, EndsBad(got, was), 171)
<1> DEFINE is == EndsBad(got, was)
           n == Len(coming)
           m == Len(rest)
           k == Len(got)
           there(i) == coming[i] = 171 /\ Follows(coming, was, i)
<1>1. IsSeq(coming) /\ n > 0 /\ \A i \in 1..n : there(i) <=> i = n
  BY DEF EchoLast
<1>0. Parted(coming, got, rest)
  BY <1>1, TakenAndLeft, Zenon
<1>2. /\ IsSeq(rest) /\ k \in Nat /\ m \in Nat /\ n = k + m
      /\ \A i \in 1..k : got[i] = coming[i]
      /\ \A i \in 1..m : rest[i] = coming[k + i]
      /\ DOMAIN got = 1..k /\ (got = <<>> <=> k = 0)
  BY <1>0 DEF Parted
<1> HIDE DEF n, m, k, is
<1>5. m > 0
  <2>1. SUFFICES ASSUME m = 0 PROVE FALSE
    BY <1>2
  <2>2. n \in 1..k /\ n \in 1..n
    BY <1>1, <1>2, <2>1
  <2>3. there(n)
    BY <1>1, <2>2
  <2>4. got[n] = coming[n]
    BY <1>2, <2>2
  <2>5. n # 1 => got[n - 1] = coming[n - 1]
    <3>1. n # 1 => n - 1 \in 1..k
      BY <1>2, <2>2
    <3>. QED  BY <1>2, <3>1
  <2>6. got[n] = 171 /\ Follows(got, was, n)
    BY <2>3, <2>4, <2>5 DEF Follows
  <2>. QED  BY <1>2, <2>2, <2>6 DEF HasEcho
<1>6. ASSUME NEW i \in 1..m
      PROVE  (rest[i] = 171 /\ Follows(rest, is, i)) <=> i = m
  <2>1. k + i \in 1..n /\ (i = m <=> k + i = n)
    BY <1>2, <1>6
  <2>2. rest[i] = coming[k + i]
    BY <1>2
  <2>3. Follows(rest, is, i) <=> Follows(coming, was, k + i)
    BY <1>0, <1>6, FollowsBehind DEF is, k, m
  <2>4. there(k + i) <=> k + i = n
    <3> HIDE DEF there
    <3>. QED  BY <1>1, <2>1, Zenon
  <2>5. there(k + i) <=> (rest[i] = 171 /\ Follows(rest, is, i))
    <3>1. rest[i] = 171 <=> coming[k + i] = 171
      BY <2>2
    <3>. QED  BY <2>3, <3>1, Zenon
  <2>. QED  BY <2>1, <2>4, <2>5, Zenon
<1>7. \A i \in 1..Len(rest) :
        (rest[i] = 171 /\ Follows(rest, is, i)) <=> i = Len(rest)
  BY <1>6, Zenon DEF m
<1>8. Len(rest) > 0
  BY <1>5 DEF m
<1>. QED  BY <1>2, <1>7, <1>8, Zenon DEF EchoLast, is

\* Whether the octets taken end with Bad is a truth value.
LEMMA EndsBadIs == ASSUME NEW got, NEW was \in BOOLEAN PROVE EndsBad(got, was) \in BOOLEAN
BY DEF EndsBad

-------------------------------------------------------------------------------
\* The list of channels, and the octets of a transfer.

\* The list of channels has one node.
LEMMA NodeIs ==
  ASSUME NEW cs
  PROVE  /\ Len(Node(cs)) = 1 /\ DOMAIN Node(cs) = {1}
         /\ Node(cs)[1] = [handle |-> Handle, cs |-> cs]
BY DEF Node

\* SPI_GetChannelConfig finds the node of the channel.
LEMMA ChannelIs ==
  ASSUME NEW c, contexts = Node(c) PROVE SPI_GetChannelConfig = 1
<1> DEFINE I == {i \in 1..Len(contexts) : contexts[i].handle = Handle}
<1>1. I = {1}
  <2>1. Len(Node(c)) = 1 /\ Node(c)[1] = [handle |-> Handle, cs |-> c]
    BY NodeIs, Zenon
  <2>2. Len(contexts) = 1 /\ contexts[1] = [handle |-> Handle, cs |-> c]
    BY <2>1
  <2>3. contexts[1].handle = Handle
    BY <2>2
  <2> DEFINE l == Len(contexts)
  <2>4. l = 1
    BY <2>2
  <2> HIDE DEF l
  <2>5. {i \in 1..l : contexts[i].handle = Handle} = {1}
    BY <2>3, <2>4
  <2>. QED  BY <2>5 DEF l
<1>2. SPI_GetChannelConfig = IF I # {} THEN Max(I) ELSE 0
  BY DEF SPI_GetChannelConfig, SelectLastInSeq
<1> HIDE DEF I
<1>3. Max(I) = 1
  BY <1>1 DEF Max
<1>. QED  BY <1>1, <1>2, <1>3

\* SPI_DelChannelConfig empties the list.
LEMMA DeletesChannel ==
  ASSUME NEW c, contexts = Node(c), SPI_DelChannelConfig PROVE contexts' = <<>>
<1> DEFINE I == {i \in 1..Len(contexts) : contexts[i].handle = Handle}
           j == SelectInSeq(contexts, LAMBDA node : node.handle = Handle)
<1>1. I = {1}
  <2>1. Len(Node(c)) = 1 /\ Node(c)[1] = [handle |-> Handle, cs |-> c]
    BY NodeIs, Zenon
  <2>2. Len(contexts) = 1 /\ contexts[1] = [handle |-> Handle, cs |-> c]
    BY <2>1
  <2>3. contexts[1].handle = Handle
    BY <2>2
  <2> DEFINE l == Len(contexts)
  <2>4. l = 1
    BY <2>2
  <2> HIDE DEF l
  <2>5. {i \in 1..l : contexts[i].handle = Handle} = {1}
    BY <2>3, <2>4
  <2>. QED  BY <2>5 DEF l
<1>2. j = IF I # {} THEN Min(I) ELSE 0
  BY DEF SelectInSeq
<1>3. contexts' = RemoveAt(contexts, j)
  BY DEF SPI_DelChannelConfig
<1> HIDE DEF I, j
<1>4. Min(I) = 1
  BY <1>1 DEF Min
<1>5. j = 1
  BY <1>1, <1>2, <1>4
<1>6. contexts' = SubSeq(contexts, 1, 0) \o SubSeq(contexts, 2, 1)
  <2>1. Len(contexts) = 1
    BY NodeIs, Zenon
  <2>2. contexts' = SubSeq(contexts, 1, 1 - 1) \o SubSeq(contexts, 1 + 1, 1)
    BY <1>3, <1>5, <2>1 DEF RemoveAt
  <2>. QED  BY <2>2
<1>7. \A x : SubSeq(<<x>>, 1, 0) = <<>> /\ SubSeq(<<x>>, 2, 1) = <<>>
  OBVIOUS
<1>8. contexts' = <<>> \o <<>>
  BY <1>6, <1>7 DEF Node
<1>. QED  BY <1>8

\* A transfer takes what is left, or as much as fits.
LEMMA SizeIs ==
  ASSUME IsSeq(outBuffer), sizeTransferred \in 0..Len(outBuffer)
  PROVE  /\ CurrentXferSize \in Nat /\ sizeTransferred \in Nat
         /\ sizeTransferred + CurrentXferSize <= Len(outBuffer)
         /\ IsSeq(OutData) /\ Len(OutData) = CurrentXferSize
<1> DEFINE k == CurrentXferSize
           n == sizeTransferred + k
           m == sizeTransferred + 1
<1>1. Len(outBuffer) \in Nat /\ MaxXfer \in Nat
  BY SeqLength, SpiChannelAssumption
<1>2. k \in Nat /\ sizeTransferred \in Nat /\ sizeTransferred + k <= Len(outBuffer)
  BY <1>1 DEF CurrentXferSize
<1>3. OutData = SubSeq(outBuffer, m, n)
  BY DEF OutData
<1> HIDE DEF k
<1>4. m \in Nat \ {0} /\ n \in Nat /\ m <= n + 1 /\ n <= Len(outBuffer) /\ n - m + 1 = k
  BY <1>2
<1> HIDE DEF m, n
<1>5. IsSeq(SubSeq(outBuffer, m, n)) /\ Len(SubSeq(outBuffer, m, n)) = n - m + 1
  BY <1>4, PartOf
<1>. QED  BY <1>2, <1>3, <1>4, <1>5 DEF k

\* What is left of a queue from which n octets have been read.
LEMMA LeftIs ==
  ASSUME NEW q, IsSeq(q), NEW n \in Nat, n <= Len(q)
  PROVE  /\ IsSeq(SubSeq(q, n + 1, Len(q))) /\ Len(SubSeq(q, n + 1, Len(q))) = Len(q) - n
         /\ n = Len(q) => SubSeq(q, n + 1, Len(q)) = <<>>
<1> DEFINE m == n + 1
           rest == SubSeq(q, m, Len(q))
<1>1. Len(q) \in Nat
  BY SeqLength
<1>2. m \in Nat \ {0} /\ m <= Len(q) + 1 /\ Len(q) - m + 1 = Len(q) - n
  BY <1>1
<1> HIDE DEF m
<1>3. IsSeq(rest) /\ Len(rest) = Len(q) - m + 1
  BY <1>1, <1>2, PartOf
<1> HIDE DEF rest
<1>4. IsSeq(rest) /\ Len(rest) = Len(q) - n
  BY <1>2, <1>3
<1>5. ASSUME n = Len(q) PROVE rest = <<>>
  <2>1. Len(rest) = 0
    BY <1>1, <1>4, <1>5
  <2>. QED  BY <1>4, <2>1, EmptySeq DEF IsSeq
<1>. QED  BY <1>4, <1>5 DEF rest, m

-------------------------------------------------------------------------------
\* The steps of SPI_OpenChannel and SPI_InitChannel.

SettingUp == {"reset device", "purge", "usb parameters", "special chars", "timeouts", "latency",
              "reset mpsse", "enable mpsse", "loopback on", "sync", "echo AA", "echo AB",
              "clock", "loopback off", "empty", "pins", "failed"}

\* What none of them but the last touches.
LEMMA SetUpKeeps ==
  ASSUME BusInv, at \in SettingUp, at' \in SettingUp, contexts' = contexts
  PROVE  Nodes' /\ Transfers' /\ Quiet'
<1>1. \E cs : contexts = Node(cs)
  BY DEF BusInv, Nodes, SettingUp
<1>2. \E cs : contexts' = Node(cs)
  BY <1>1
<1>3. at' \notin {"down", "idle", "return", "cs on", "command", "data", "read", "cs off", "error"}
  BY DEF SettingUp
<1>. QED  BY <1>2, <1>3 DEF Nodes, Transfers, Quiet

\* SPI_OpenChannel preserves the invariant: it adds the one channel and touches no adapter.
LEMMA OpensInStep == BusInv /\ SPI_OpenChannel => BusInv'
<1>1. SUFFICES ASSUME BusInv, SPI_OpenChannel PROVE BusInv'
  OBVIOUS
<1>2. /\ at = "down" /\ at' = "reset device" /\ contexts' = Append(contexts, [handle |-> Handle, cs |-> "unset"])
      /\ loops' = loops /\ bad' = bad /\ mpsse' = mpsse /\ queue' = queue
  BY <1>1 DEF SPI_OpenChannel, SPI_AddChannelConfig
<1>3. contexts' = Node("unset")
  <2>1. contexts = <<>>
    BY <1>1, <1>2 DEF BusInv, Nodes
  <2>2. \A x : Append(<<>>, x) = <<x>>
    OBVIOUS
  <2>3. contexts' = Append(<<>>, [handle |-> Handle, cs |-> "unset"])
    BY <1>2, <2>1
  <2>4. contexts' = <<[handle |-> Handle, cs |-> "unset"]>>
    BY <2>2, <2>3, Zenon
  <2>. QED  BY <2>4 DEF Node
<1>4. Nodes' /\ Transfers' /\ Quiet'
  BY <1>2, <1>3 DEF Nodes, Transfers, Quiet
<1>5. Adapter'
  BY <1>1, <1>2 DEF BusInv, Adapter
<1>6. Waiting'
  BY <1>1, <1>2 DEF BusInv, Waiting
<1>. QED  BY <1>4, <1>5, <1>6 DEF BusInv

\* A step of SPI_InitChannel that is done, or has failed with or without its effect.
Done(step, next, adapter, queues) ==
  /\ at = step
  /\ \/ at' = next /\ mpsse' = adapter /\ queue' \in queues
     \/ at' = "failed" /\ mpsse' \in {mpsse, adapter} /\ queue' \in queues \cup {queue}
  /\ contexts' = contexts /\ loops' = loops /\ bad' = bad

\* The steps of SPI_InitChannel which look at nothing they read, as D2XX calls with their
\* effect.
LEMMA PlainSteps ==
  /\ Mid_ResetDevice => Done("reset device", "purge", mpsse, {queue})
  /\ Mid_PurgeDevice => Done("purge", "usb parameters", mpsse, LateOf(queue))
  /\ Mid_SetUSBParameters => Done("usb parameters", "special chars", mpsse, {queue})
  /\ Mid_SetDeviceSpecialChar => Done("special chars", "timeouts", mpsse, {queue})
  /\ Mid_SetDeviceTimeOut => Done("timeouts", "latency", mpsse, {queue})
  /\ Mid_SetLatencyTimer => Done("latency", "reset mpsse", mpsse, {queue})
  /\ Mid_ResetMPSSE =>
       Done("reset mpsse", "enable mpsse",
            [mode |-> "reset", loopback |-> mpsse.loopback, awaits |-> 0, cs |-> "in"], {queue})
  /\ Mid_EnableMPSSEIn =>
       Done("enable mpsse", "loopback on", [mpsse EXCEPT !.mode = "mpsse"], {queue})
  /\ Mid_SetDeviceLoopbackState("loopback on", TRUE, "sync") =>
       Done("loopback on", "sync", [mpsse EXCEPT !.loopback = TRUE], {queue})
  /\ Mid_EmptyDeviceInputBuff("sync", "echo AA") => Done("sync", "echo AA", mpsse, Rests(queue))
  /\ Mid_SetClock => Done("clock", "loopback off", mpsse, {queue}) /\ misled' = misled
  /\ Mid_SetDeviceLoopbackState("loopback off", FALSE, "empty") =>
       Done("loopback off", "empty", [mpsse EXCEPT !.loopback = FALSE], {queue}) /\ misled' = misled
  /\ Mid_EmptyDeviceInputBuff("empty", "pins") => Done("empty", "pins", mpsse, Rests(queue))
BY Zenon DEF Done, Mid_ResetDevice, Mid_PurgeDevice, Mid_SetUSBParameters, Mid_SetDeviceSpecialChar,
  Mid_SetDeviceTimeOut, Mid_SetLatencyTimer, Mid_ResetMPSSE, Mid_EnableMPSSEIn,
  Mid_SetDeviceLoopbackState, Mid_EmptyDeviceInputBuff, Mid_SetClock, Setting, Init_call, D2xx,
  Fails, Upset

Early == {"reset device", "purge", "usb parameters", "special chars", "timeouts", "latency",
          "reset mpsse", "enable mpsse", "loopback on", "sync"}

\* Until the echoes, there may be anything to come.
LEMMA EarlyKeeps ==
  ASSUME BusInv, at \in Early, at' \in Early \cup {"failed"}, IsSeq(queue'),
         contexts' = contexts, loops' = loops, bad' = bad
  PROVE  Nodes' /\ Transfers' /\ Quiet' /\ Waiting'
<1>1. Nodes' /\ Transfers' /\ Quiet'
  BY SetUpKeeps DEF SettingUp, Early
<1>2. ~bad /\ loops = 0
  BY DEF BusInv, Waiting, Early
<1>3. bad \in BOOLEAN /\ loops \in Nat
  BY DEF BusInv, Waiting
<1>4. at' \notin {"echo AA", "echo AB", "clock", "loopback off", "empty", "pins"}
  BY DEF Early
<1>5. Waiting'
  BY <1>2, <1>3, <1>4 DEF Waiting
<1>. QED  BY <1>1, <1>5

\* Once the second has come, there is nothing.
LEMMA LaterKeeps ==
  ASSUME BusInv, at \in {"clock", "loopback off", "empty"},
         at' \in {"clock", "loopback off", "empty", "pins", "failed"},
         IsSeq(queue'), ~misled' => queue' = <<>>,
         contexts' = contexts, loops' = loops, bad' = bad
  PROVE  Nodes' /\ Transfers' /\ Quiet' /\ Waiting'
<1>1. Nodes' /\ Transfers' /\ Quiet'
  BY SetUpKeeps DEF SettingUp
<1>2. ~bad /\ loops = 0
  BY DEF BusInv, Waiting
<1>3. bad \in BOOLEAN /\ loops \in Nat
  BY DEF BusInv, Waiting
<1>4. at' \notin {"echo AA", "echo AB"}
  OBVIOUS
<1>5. Waiting'
  BY <1>2, <1>3, <1>4 DEF Waiting
<1>. QED  BY <1>1, <1>5

\* What there is to come, by the step of SPI_InitChannel.
LEMMA QueueIs ==
  BusInv => /\ IsSeq(queue)
            /\ at \in {"clock", "loopback off", "empty", "pins"} /\ ~misled => queue = <<>>
BY DEF BusInv, Waiting

\* Each of them is in step with where it is.
LEMMA InitSteps ==
  ASSUME BusInv,
         \/ Mid_ResetDevice \/ Mid_PurgeDevice \/ Mid_SetUSBParameters
         \/ Mid_SetDeviceSpecialChar \/ Mid_SetDeviceTimeOut \/ Mid_SetLatencyTimer
         \/ Mid_ResetMPSSE \/ Mid_EnableMPSSEIn
         \/ Mid_SetDeviceLoopbackState("loopback on", TRUE, "sync")
         \/ Mid_SetClock
         \/ Mid_SetDeviceLoopbackState("loopback off", FALSE, "empty")
         \/ Mid_EmptyDeviceInputBuff("empty", "pins") /\ UNCHANGED misled
  PROVE  BusInv'
<1>1. /\ mpsse \in Adapters
      /\ IsSeq(queue)
  BY QueueIs DEF BusInv, Adapter
<1>2. ASSUME at \in {"reset device", "usb parameters", "special chars", "timeouts", "latency"},
             at' \in {"purge", "special chars", "timeouts", "latency", "reset mpsse", "failed"},
             mpsse' = mpsse, queue' = queue, contexts' = contexts, loops' = loops, bad' = bad
      PROVE  BusInv'
  <2>1. Adapter'
    BY <1>1, <1>2 DEF Adapter, Adapters
  <2>2. at \in Early /\ at' \in Early \cup {"failed"}
    BY <1>2 DEF Early
  <2>3. Nodes' /\ Transfers' /\ Quiet' /\ Waiting'
    BY <1>1, <1>2, <2>2, QueueIs, EarlyKeeps
  <2>. QED  BY <2>1, <2>3 DEF BusInv
<1>3. CASE Mid_ResetDevice
  BY <1>2, <1>3, PlainSteps DEF Done
<1>4. CASE Mid_PurgeDevice
  <2>1. Done("purge", "usb parameters", mpsse, LateOf(queue))
    BY <1>4, PlainSteps
  <2>2. at \in Early /\ at' \in Early \cup {"failed"} /\ mpsse' = mpsse
        /\ at' \in {"usb parameters", "failed"}
    BY <2>1 DEF Done, Early
  <2>3. Adapter'
    BY <1>1, <2>2 DEF Adapter, Adapters
  <2>4. IsSeq(queue')
    <3>1. queue' = queue \/ queue' \in LateOf(queue)
      BY <2>1 DEF Done
    <3>. QED  BY <1>1, <3>1, LateIs
  <2>5. contexts' = contexts /\ loops' = loops /\ bad' = bad
    BY <2>1 DEF Done
  <2>6. Nodes' /\ Transfers' /\ Quiet' /\ Waiting'
    BY <2>2, <2>4, <2>5, EarlyKeeps
  <2>. QED  BY <2>3, <2>6 DEF BusInv
<1>5. CASE Mid_SetUSBParameters
  <2>1. Done("usb parameters", "special chars", mpsse, {queue})
    BY <1>5, PlainSteps
  <2>. QED  BY <1>2, <2>1 DEF Done
<1>6. CASE Mid_SetDeviceSpecialChar
  <2>1. Done("special chars", "timeouts", mpsse, {queue})
    BY <1>6, PlainSteps
  <2>. QED  BY <1>2, <2>1 DEF Done
<1>7. CASE Mid_SetDeviceTimeOut
  <2>1. Done("timeouts", "latency", mpsse, {queue})
    BY <1>7, PlainSteps
  <2>. QED  BY <1>2, <2>1 DEF Done
<1>8. CASE Mid_SetLatencyTimer
  <2>1. Done("latency", "reset mpsse", mpsse, {queue})
    BY <1>8, PlainSteps
  <2>. QED  BY <1>2, <2>1 DEF Done
<1>9. ASSUME NEW step \in Early, NEW next \in Early, NEW adapter, Done(step, next, adapter, {queue})
      PROVE  Nodes' /\ Transfers' /\ Quiet' /\ Waiting' /\ at' \in {next, "failed"} /\ mpsse' \in {mpsse, adapter}
             /\ at = step /\ (at' = next => mpsse' = adapter)
  <2>1. at \in Early /\ at' \in Early \cup {"failed"} /\ queue' = queue
        /\ contexts' = contexts /\ loops' = loops /\ bad' = bad
    BY <1>9 DEF Done
  <2>2. Nodes' /\ Transfers' /\ Quiet' /\ Waiting'
    BY <1>1, <2>1, QueueIs, EarlyKeeps
  <2>3. at' \in {next, "failed"} /\ mpsse' \in {mpsse, adapter} /\ at = step
        /\ (at' = next => mpsse' = adapter)
    <3>1. next # "failed"
      BY DEF Early
    <3>. QED  BY <1>9, <3>1 DEF Done
  <2>. QED  BY <2>2, <2>3
<1>10. CASE Mid_ResetMPSSE
  <2> DEFINE a == [mode |-> "reset", loopback |-> mpsse.loopback, awaits |-> 0, cs |-> "in"]
  <2>1. Done("reset mpsse", "enable mpsse", a, {queue})
    BY <1>10, PlainSteps
  <2>2. "reset mpsse" \in Early /\ "enable mpsse" \in Early
    BY DEF Early
  <2>3. Nodes' /\ Transfers' /\ Quiet' /\ Waiting' /\ at' \in {"enable mpsse", "failed"}
        /\ mpsse' \in {mpsse, a} /\ (at' = "enable mpsse" => mpsse' = a)
    <3> HIDE DEF a
    <3>. QED  BY <1>9, <2>1, <2>2
  <2>4. /\ a \in Adapters
        /\ a.awaits = 0
    BY <1>1 DEF Adapters
  <2>5. Adapter'
    <3> HIDE DEF a
    <3>. QED  BY <1>1, <2>3, <2>4 DEF Adapter, Adapters
  <2>. QED  BY <2>3, <2>5 DEF BusInv
<1>11. CASE Mid_EnableMPSSEIn
  <2> DEFINE a == [mpsse EXCEPT !.mode = "mpsse"]
  <2>1. Done("enable mpsse", "loopback on", a, {queue})
    BY <1>11, PlainSteps
  <2>2. "enable mpsse" \in Early /\ "loopback on" \in Early
    BY DEF Early
  <2>3. Nodes' /\ Transfers' /\ Quiet' /\ Waiting' /\ at = "enable mpsse" /\ at' \in {"loopback on", "failed"}
        /\ mpsse' \in {mpsse, a} /\ (at' = "loopback on" => mpsse' = a)
    <3> HIDE DEF a
    <3>. QED  BY <1>9, <2>1, <2>2
  <2>4. mpsse.awaits = 0
    BY <2>3 DEF BusInv, Adapter
  <2>5. Adapter'
    BY <1>1, <2>3, <2>4 DEF Adapter, Adapters
  <2>. QED  BY <2>3, <2>5 DEF BusInv
<1>12. CASE Mid_SetDeviceLoopbackState("loopback on", TRUE, "sync")
  <2> DEFINE a == [mpsse EXCEPT !.loopback = TRUE]
  <2>1. Done("loopback on", "sync", a, {queue})
    BY <1>12, PlainSteps
  <2>2. "loopback on" \in Early /\ "sync" \in Early
    BY DEF Early
  <2>3. Nodes' /\ Transfers' /\ Quiet' /\ Waiting' /\ at = "loopback on" /\ at' \in {"sync", "failed"}
        /\ mpsse' \in {mpsse, a} /\ (at' = "sync" => mpsse' = a)
    <3> HIDE DEF a
    <3>. QED  BY <1>9, <2>1, <2>2
  <2>4. mpsse.awaits = 0 /\ mpsse.mode = "mpsse"
    BY <2>3 DEF BusInv, Adapter
  <2>5. Adapter'
    BY <1>1, <2>3, <2>4 DEF Adapter, Adapters
  <2>. QED  BY <2>3, <2>5 DEF BusInv
<1>13. CASE Mid_SetClock
  <2>1. Done("clock", "loopback off", mpsse, {queue}) /\ misled' = misled
    BY <1>13, PlainSteps
  <2>2. at = "clock" /\ at' \in {"loopback off", "failed"} /\ mpsse' = mpsse /\ queue' = queue
        /\ contexts' = contexts /\ loops' = loops /\ bad' = bad /\ misled' = misled
    BY <2>1 DEF Done
  <2>3. IsSeq(queue') /\ (~misled' => queue' = <<>>)
    BY <1>1, <2>2, QueueIs
  <2>4. Nodes' /\ Transfers' /\ Quiet' /\ Waiting'
    BY <2>2, <2>3, LaterKeeps
  <2>5. mpsse.awaits = 0 /\ mpsse.mode = "mpsse"
    BY <2>2 DEF BusInv, Adapter
  <2>6. Adapter'
    BY <1>1, <2>2, <2>5 DEF Adapter, Adapters
  <2>. QED  BY <2>4, <2>6 DEF BusInv
<1>14. CASE Mid_SetDeviceLoopbackState("loopback off", FALSE, "empty")
  <2> DEFINE a == [mpsse EXCEPT !.loopback = FALSE]
  <2>1. Done("loopback off", "empty", a, {queue}) /\ misled' = misled
    BY <1>14, PlainSteps
  <2>2. at = "loopback off" /\ at' \in {"empty", "failed"} /\ mpsse' \in {mpsse, a}
        /\ (at' = "empty" => mpsse' = a) /\ queue' = queue
        /\ contexts' = contexts /\ loops' = loops /\ bad' = bad /\ misled' = misled
    <3> HIDE DEF a
    <3>. QED  BY <2>1 DEF Done
  <2>3. IsSeq(queue') /\ (~misled' => queue' = <<>>)
    BY <1>1, <2>2, QueueIs
  <2>4. Nodes' /\ Transfers' /\ Quiet' /\ Waiting'
    BY <2>2, <2>3, LaterKeeps
  <2>5. mpsse.awaits = 0 /\ mpsse.mode = "mpsse"
    BY <2>2 DEF BusInv, Adapter
  <2>6. Adapter'
    BY <1>1, <2>2, <2>5 DEF Adapter, Adapters
  <2>. QED  BY <2>4, <2>6 DEF BusInv
<1>15. CASE Mid_EmptyDeviceInputBuff("empty", "pins") /\ UNCHANGED misled
  <2>1. Done("empty", "pins", mpsse, Rests(queue)) /\ misled' = misled
    BY <1>15, PlainSteps
  <2>2. at = "empty" /\ at' \in {"pins", "failed"} /\ mpsse' = mpsse
        /\ queue' \in Rests(queue) \cup {queue}
        /\ contexts' = contexts /\ loops' = loops /\ bad' = bad /\ misled' = misled
    BY <2>1 DEF Done
  <2>3. IsSeq(queue') /\ (~misled' => queue' = <<>>)
    <3>1. ASSUME queue = <<>> PROVE queue' = <<>>
      BY <2>2, <3>1, NothingRests
    <3>2. IsSeq(queue')
      BY <1>1, <2>2, RestIs
    <3>. QED  BY <2>2, <3>1, <3>2, QueueIs
  <2>4. Nodes' /\ Transfers' /\ Quiet' /\ Waiting'
    BY <2>2, <2>3, LaterKeeps
  <2>5. mpsse.awaits = 0 /\ mpsse.mode = "mpsse" /\ ~mpsse.loopback
    BY <2>2 DEF BusInv, Adapter
  <2>6. Adapter'
    BY <1>1, <2>2, <2>5 DEF Adapter, Adapters
  <2>. QED  BY <2>4, <2>6 DEF BusInv
<1>. QED  BY <1>3, <1>4, <1>5, <1>6, <1>7, <1>8, <1>10, <1>11, <1>12, <1>13, <1>14, <1>15

\* A round that takes got of what is coming and leaves rest.
Round(coming, rest, got, cmd, next) ==
  /\ got = SubSeq(coming, 1, Len(coming) - Len(rest)) /\ queue' = rest
  /\ \/ at' = "failed" /\ loops' = 0 /\ bad' = FALSE
     \/ at' = next /\ loops' = 0 /\ bad' = FALSE /\ HasEcho(got, bad, cmd)
     \/ at' = at /\ loops' = loops + 1 /\ bad' = EndsBad(got, bad) /\ ~HasEcho(got, bad, cmd)

\* Each attempt at an echo is a round over what is coming.
LEMMA RoundsAre ==
  /\ Mid_SendReceiveCmdFromMPSSE("echo AA", FALSE, 170, "echo AB") =>
       /\ at = "echo AA" /\ contexts' = contexts /\ mpsse' = mpsse /\ misled' = misled
       /\ \E rest \in Rests(queue \o <<Bad, 170>>) : \E got :
            Round(queue \o <<Bad, 170>>, rest, got, 170, "echo AB")
  /\ Mid_SendReceiveCmdFromMPSSE("echo AB", TRUE, 171, "clock") =>
       /\ at = "echo AB" /\ contexts' = contexts /\ mpsse' = mpsse /\ misled' = misled
       /\ \E rest \in Rests(Coming) : \E got : Round(Coming, rest, got, 171, "clock")
<1>1. \A got, cmd : Echoed(got, cmd) <=> HasEcho(got, bad, cmd)
  BY DEF Echoed, HasEcho, Follows
<1>2. ASSUME NEW coming, NEW rest \in Rests(coming), NEW got, NEW cmd, NEW next,
             got = SubSeq(coming, 1, Len(coming) - Len(rest)), queue' = rest,
             IF loops + 1 > MaxLoops THEN at' = "failed" /\ loops' = 0 /\ bad' = FALSE
             ELSE IF Echoed(got, cmd) THEN at' = next /\ loops' = 0 /\ bad' = FALSE
             ELSE /\ loops' = loops + 1
                  /\ bad' = IF got = <<>> THEN bad ELSE got[Len(got)] = Bad
                  /\ UNCHANGED at
      PROVE  Round(coming, rest, got, cmd, next)
  BY <1>1, <1>2 DEF Round, EndsBad
<1>3. ASSUME Mid_SendReceiveCmdFromMPSSE("echo AA", FALSE, 170, "echo AB")
      PROVE  /\ at = "echo AA" /\ contexts' = contexts /\ mpsse' = mpsse /\ misled' = misled
             /\ \E rest \in Rests(queue \o <<Bad, 170>>) : \E got :
                  Round(queue \o <<Bad, 170>>, rest, got, 170, "echo AB")
  <2> DEFINE coming == queue \o <<Bad, 170>>
             taken(rest) == SubSeq(coming, 1, Len(coming) - Len(rest))
  <2>1. /\ at = "echo AA" /\ contexts' = contexts /\ mpsse' = mpsse /\ misled' = misled
        /\ \E rest \in Rests(coming) :
             /\ queue' = rest
             /\ IF loops + 1 > MaxLoops THEN at' = "failed" /\ loops' = 0 /\ bad' = FALSE
                ELSE IF Echoed(taken(rest), 170) THEN at' = "echo AB" /\ loops' = 0 /\ bad' = FALSE
                ELSE /\ loops' = loops + 1
                     /\ bad' = IF taken(rest) = <<>> THEN bad ELSE taken(rest)[Len(taken(rest))] = Bad
                     /\ UNCHANGED at
    BY <1>3 DEF Mid_SendReceiveCmdFromMPSSE, history
  <2> HIDE DEF coming
  <2>2. \E rest \in Rests(coming) : Round(coming, rest, taken(rest), 170, "echo AB")
    BY <1>2, <2>1
  <2>. QED  BY <2>1, <2>2, Zenon DEF coming
<1>4. ASSUME Mid_SendReceiveCmdFromMPSSE("echo AB", TRUE, 171, "clock")
      PROVE  /\ at = "echo AB" /\ contexts' = contexts /\ mpsse' = mpsse /\ misled' = misled
             /\ \E rest \in Rests(Coming) : \E got : Round(Coming, rest, got, 171, "clock")
  <2> DEFINE coming == IF TRUE /\ loops > 0 THEN queue ELSE queue \o <<Bad, 171>>
             taken(rest) == SubSeq(coming, 1, Len(coming) - Len(rest))
  <2>1. /\ at = "echo AB" /\ contexts' = contexts /\ mpsse' = mpsse /\ misled' = misled
        /\ \E rest \in Rests(coming) :
             /\ queue' = rest
             /\ IF loops + 1 > MaxLoops THEN at' = "failed" /\ loops' = 0 /\ bad' = FALSE
                ELSE IF Echoed(taken(rest), 171) THEN at' = "clock" /\ loops' = 0 /\ bad' = FALSE
                ELSE /\ loops' = loops + 1
                     /\ bad' = IF taken(rest) = <<>> THEN bad ELSE taken(rest)[Len(taken(rest))] = Bad
                     /\ UNCHANGED at
    BY <1>4 DEF Mid_SendReceiveCmdFromMPSSE, history
  <2>2. coming = Coming
    BY DEF Coming
  <2> HIDE DEF coming
  <2>3. \E rest \in Rests(coming) : Round(coming, rest, taken(rest), 171, "clock")
    BY <1>2, <2>1
  <2>. QED  BY <2>1, <2>2, <2>3, Zenon
<1>. QED  BY <1>3, <1>4

\* A round that waits for the first echo.
LEMMA FirstRound ==
  BusInv /\ Mid_SendReceiveCmdFromMPSSE("echo AA", FALSE, 170, "echo AB") => BusInv'
<1>a. SUFFICES ASSUME BusInv, Mid_SendReceiveCmdFromMPSSE("echo AA", FALSE, 170, "echo AB") PROVE BusInv'
  OBVIOUS
<1> DEFINE coming == queue \o <<Bad, 170>>
<1>1. /\ at = "echo AA" /\ contexts' = contexts /\ mpsse' = mpsse /\ misled' = misled
      /\ \E rest \in Rests(coming) : \E got : Round(coming, rest, got, 170, "echo AB")
  BY <1>a, RoundsAre
<1>0. PICK rest \in Rests(coming) : \E got : Round(coming, rest, got, 170, "echo AB")
  BY <1>1
<1>2. PICK got : Round(coming, rest, got, 170, "echo AB")
  BY <1>0
<1>3. /\ IsSeq(queue) /\ bad \in BOOLEAN /\ loops \in Nat
      /\ ~misled => Clear(queue, bad)
      /\ mpsse.mode = "mpsse" /\ mpsse.awaits = 0
  BY <1>a, <1>1 DEF BusInv, Waiting, Adapter
<1>4. IsBehind(coming, queue, 170)
  BY <1>3, EchoBehind, Zenon
<1> HIDE DEF coming
<1>5. ~misled => Clear(coming, bad)
  BY <1>3, <1>4, ClearBehind
<1>6. IsSeq(coming)
  BY <1>4 DEF IsBehind
<1>7. got = SubSeq(coming, 1, Len(coming) - Len(rest)) /\ queue' = rest
  BY <1>2 DEF Round
<1>8. IsSeq(queue')
  BY <1>6, <1>7, RestIs
<1>9. at' \in {"failed", "echo AB", "echo AA"}
  BY <1>1, <1>2 DEF Round
<1>10. Nodes' /\ Transfers' /\ Quiet'
  BY <1>1, <1>9, <1>a, SetUpKeeps DEF SettingUp
<1>11. Adapter'
  BY <1>a, <1>1, <1>3, <1>9 DEF BusInv, Adapter
<1>12. CASE at' = "failed" /\ loops' = 0 /\ bad' = FALSE
  <2>1. Waiting'
    BY <1>8, <1>12 DEF Waiting
  <2>. QED  BY <1>10, <1>11, <2>1 DEF BusInv
<1>13. CASE at' = "echo AB" /\ loops' = 0 /\ bad' = FALSE /\ HasEcho(got, bad, 170)
  <2>1. ~misled => EchoLast(rest \o <<Bad, 171>>, FALSE, 171)
    BY <1>3, <1>5, <1>6, <1>7, <1>13, FirstEcho
  <2>2. Coming' = rest \o <<Bad, 171>>
    <3>0. loops' = 0
      BY <1>13, Zenon
    <3>1. ~(loops' > 0)
      BY <3>0
    <3>. QED  BY <1>7, <3>1, Zenon DEF Coming
  <2>3. ~misled' => EchoLast(Coming', bad', 171)
    BY <1>1, <1>13, <2>1, <2>2
  <2>4. Waiting'
    BY <1>8, <1>13, <2>3 DEF Waiting
  <2>. QED  BY <1>10, <1>11, <2>4 DEF BusInv
<1>14. CASE at' = at /\ loops' = loops + 1 /\ bad' = EndsBad(got, bad)
  <2>1. ~misled => Clear(rest, EndsBad(got, bad))
    <3>1. got = SubSeq(coming, 1, Len(coming) - Len(rest))
      BY <1>7
    <3>2. bad \in BOOLEAN
      BY <1>3
    <3>. QED  BY <1>5, <1>6, <3>1, <3>2, ClearStays, Zenon
  <2>2. ~misled' => Clear(queue', bad')
    BY <1>1, <1>7, <1>14, <2>1
  <2>3. bad' \in BOOLEAN
    BY <1>3, <1>14, EndsBadIs, Zenon
  <2>4. loops' \in Nat
    <3>1. loops \in Nat /\ loops' = loops + 1
      BY <1>3, <1>14, Zenon
    <3>. QED  BY <3>1
  <2>5. Waiting'
    BY <1>1, <1>8, <1>14, <2>2, <2>3, <2>4 DEF Waiting
  <2>. QED  BY <1>10, <1>11, <2>5 DEF BusInv
<1>. QED  BY <1>2, <1>12, <1>13, <1>14 DEF Round

\* A round that waits for the second.
LEMMA SecondRound ==
  BusInv /\ Mid_SendReceiveCmdFromMPSSE("echo AB", TRUE, 171, "clock") => BusInv'
<1>a. SUFFICES ASSUME BusInv, Mid_SendReceiveCmdFromMPSSE("echo AB", TRUE, 171, "clock") PROVE BusInv'
  OBVIOUS
<1>1. /\ at = "echo AB" /\ contexts' = contexts /\ mpsse' = mpsse /\ misled' = misled
      /\ \E rest \in Rests(Coming) : \E got : Round(Coming, rest, got, 171, "clock")
  BY <1>a, RoundsAre
<1>0. PICK rest \in Rests(Coming) : \E got : Round(Coming, rest, got, 171, "clock")
  BY <1>1
<1>2. PICK got : Round(Coming, rest, got, 171, "clock")
  BY <1>0
<1>3. /\ bad \in BOOLEAN /\ loops \in Nat /\ IsSeq(queue)
      /\ ~misled => EchoLast(Coming, bad, 171)
      /\ mpsse.mode = "mpsse" /\ mpsse.awaits = 0
  BY <1>a, <1>1 DEF BusInv, Waiting, Adapter
<1>4. IsSeq(Coming)
  <2>1. IsBehind(queue \o <<Bad, 171>>, queue, 171)
    BY <1>3, EchoBehind, Zenon
  <2>. QED  BY <1>3, <2>1 DEF Coming, IsBehind
<1>5. got = SubSeq(Coming, 1, Len(Coming) - Len(rest)) /\ queue' = rest
  BY <1>2 DEF Round
<1>6. IsSeq(queue')
  BY <1>4, <1>5, RestIs
<1>7. at' \in {"failed", "clock", "echo AB"}
  BY <1>1, <1>2 DEF Round
<1>8. Nodes' /\ Transfers' /\ Quiet'
  BY <1>1, <1>7, <1>a, SetUpKeeps DEF SettingUp
<1>9. Adapter'
  BY <1>a, <1>1, <1>3, <1>7 DEF BusInv, Adapter
<1>10. CASE at' = "failed" /\ loops' = 0 /\ bad' = FALSE
  <2>1. Waiting'
    BY <1>6, <1>10 DEF Waiting
  <2>. QED  BY <1>8, <1>9, <2>1 DEF BusInv
<1>11. CASE at' = "clock" /\ loops' = 0 /\ bad' = FALSE /\ HasEcho(got, bad, 171)
  <2>1. ~misled => rest = <<>>
    BY <1>3, <1>5, <1>11, SecondEcho
  <2>2. Waiting'
    BY <1>1, <1>5, <1>6, <1>11, <2>1 DEF Waiting
  <2>. QED  BY <1>8, <1>9, <2>2 DEF BusInv
<1>12. CASE /\ at' = at /\ loops' = loops + 1 /\ bad' = EndsBad(got, bad)
            /\ ~HasEcho(got, bad, 171)
  <2>1. ~misled => EchoLast(rest, EndsBad(got, bad), 171)
    BY <1>3, <1>5, <1>12, EchoStaysLast
  <2>2. bad' \in BOOLEAN
    BY <1>3, <1>12, EndsBadIs, Zenon
  <2>3. loops' \in Nat /\ loops' > 0
    <3>1. loops \in Nat /\ loops' = loops + 1
      BY <1>3, <1>12, Zenon
    <3>. QED  BY <3>1
  <2>4. Coming' = rest
    BY <1>5, <2>3, Zenon DEF Coming
  <2>5. ~misled' => EchoLast(Coming', bad', 171)
    BY <1>1, <1>12, <2>1, <2>4
  <2>6. Waiting'
    BY <1>1, <1>6, <1>12, <2>2, <2>3, <2>5 DEF Waiting
  <2>. QED  BY <1>8, <1>9, <2>6 DEF BusInv
<1>. QED  BY <1>2, <1>10, <1>11, <1>12 DEF Round

\* Before the first round what has arrived is taken.
LEMMA EmptiesBefore ==
  BusInv /\ Mid_EmptyDeviceInputBuff("sync", "echo AA") /\ misled' = Misleading(queue') => BusInv'
<1>1. SUFFICES ASSUME BusInv, Mid_EmptyDeviceInputBuff("sync", "echo AA"),
                      misled' = Misleading(queue')
               PROVE  BusInv'
  OBVIOUS
<1>2. Done("sync", "echo AA", mpsse, Rests(queue))
  BY <1>1, PlainSteps
<1>3. /\ at = "sync" /\ at' \in {"echo AA", "failed"} /\ mpsse' = mpsse
      /\ queue' \in Rests(queue) \cup {queue}
      /\ contexts' = contexts /\ loops' = loops /\ bad' = bad
  BY <1>2 DEF Done
<1>4. /\ IsSeq(queue) /\ bad = FALSE /\ loops = 0
      /\ mpsse.mode = "mpsse" /\ mpsse.awaits = 0
  BY <1>1, <1>3 DEF BusInv, Waiting, Adapter
<1>5. IsSeq(queue')
  BY <1>3, <1>4, RestIs
<1>6. ~misled' => Clear(queue', FALSE)
  BY <1>1, <1>5, ClearStart
<1>7. Nodes' /\ Transfers' /\ Quiet'
  BY <1>1, <1>3, SetUpKeeps DEF SettingUp
<1>8. Adapter'
  BY <1>1, <1>3, <1>4 DEF BusInv, Adapter
<1>9. Waiting'
  BY <1>3, <1>4, <1>5, <1>6 DEF Waiting
<1>. QED  BY <1>7, <1>8, <1>9 DEF BusInv

\* The pins' initial state.
LEMMA SetsPins ==
  ASSUME NEW c, contexts = Node(c), SPI_SaveChannelConfig("high") PROVE contexts' = Node("high")
<1>1. Node(c)[1].handle = Handle /\ DOMAIN Node(c) = {1}
  BY DEF Node
<1>2. contexts' = [i \in DOMAIN Node(c) |->
                     IF Node(c)[i].handle = Handle THEN [Node(c)[i] EXCEPT !.cs = "high"]
                                                   ELSE Node(c)[i]]
  BY DEF SPI_SaveChannelConfig
<1>3. contexts' = [i \in 1..1 |-> [Node(c)[1] EXCEPT !.cs = "high"]]
  BY <1>1, <1>2
<1>4. [Node(c)[1] EXCEPT !.cs = "high"] = [handle |-> Handle, cs |-> "high"]
  BY DEF Node
<1>5. Node("high") = [i \in 1..1 |-> [handle |-> Handle, cs |-> "high"]]
  BY DEF Node
<1>. QED  BY <1>3, <1>4, <1>5

\* What the adapter becomes when the chip select or the count of a transfer is set.
LEMMA StaysAdapted ==
  ASSUME NEW old, NEW new, NEW cs, NEW n, NEW cs_, NEW n_, old = Adapted(cs, n)
  PROVE  /\ new = [old EXCEPT !.cs = cs_] => new = Adapted(cs_, n)
         /\ new = [old EXCEPT !.awaits = n_] => new = Adapted(cs, n_)
<1>1. ASSUME new = [old EXCEPT !.cs = cs_] PROVE new = Adapted(cs_, n)
  BY <1>1 DEF Adapted
<1>2. ASSUME new = [old EXCEPT !.awaits = n_] PROVE new = Adapted(cs, n_)
  BY <1>2 DEF Adapted
<1>. QED  BY <1>1, <1>2

\* What an adapter becomes is an adapter.
LEMMA AdaptersAre ==
  /\ \A m \in Adapters : /\ \A cs \in {"in", "low", "high"} : [m EXCEPT !.cs = cs] \in Adapters
                         /\ \A n \in Nat : [m EXCEPT !.awaits = n] \in Adapters
  /\ \A cs \in {"low", "high"}, n \in Nat : Adapted(cs, n) \in Adapters
  /\ Astray \in Adapters
BY DEF Adapters, Adapted, Astray

\* The last step of SPI_InitChannel preserves the invariant: the chip is deselected.
LEMMA InitialisesPins ==
  ASSUME BusInv, at = "pins", at' \in {"idle", "failed"},
         mpsse' \in {mpsse, [mpsse EXCEPT !.cs = "high"]},
         at' = "idle" => mpsse' = [mpsse EXCEPT !.cs = "high"],
         IF at' = "idle" THEN SPI_SaveChannelConfig("high") ELSE contexts' = contexts,
         queue' = queue, bad' = bad, loops' = loops, misled' = misled
  PROVE  BusInv'
<1>1. /\ at = "pins" /\ at' \in {"idle", "failed"}
      /\ mpsse' \in {mpsse, [mpsse EXCEPT !.cs = "high"]}
      /\ at' = "idle" => mpsse' = [mpsse EXCEPT !.cs = "high"]
      /\ queue' = queue /\ bad' = bad /\ loops' = loops /\ misled' = misled
  OBVIOUS
<1>2. /\ mpsse \in Adapters /\ mpsse.mode = "mpsse" /\ mpsse.awaits = 0 /\ ~mpsse.loopback
      /\ IsSeq(queue) /\ bad = FALSE /\ loops = 0
      /\ ~misled => queue = <<>>
  BY <1>1 DEF BusInv, Adapter, Waiting
<1>3. PICK c : contexts = Node(c)
  BY <1>1 DEF BusInv, Nodes
<1>4. mpsse' = [mpsse EXCEPT !.cs = "high"] => mpsse' = Adapted("high", 0)
  <2>1. /\ mpsse.loopback = FALSE
        /\ mpsse = [mode |-> mpsse.mode, loopback |-> mpsse.loopback, awaits |-> mpsse.awaits,
                    cs |-> mpsse.cs]
    BY <1>2 DEF Adapters
  <2>2. mpsse = Adapted(mpsse.cs, 0)
    BY <1>2, <2>1, Zenon DEF Adapted
  <2>. QED  BY <2>2, StaysAdapted
<1>5. Adapter'
  <2>1. mpsse' \in Adapters
    BY <1>1, <1>2, AdaptersAre
  <2>. QED  BY <1>1, <2>1 DEF Adapter
<1>6. at' = "idle" => contexts' = Node("high")
  BY <1>3, SetsPins
<1>7. Nodes'
  BY <1>1, <1>3, <1>6 DEF Nodes
<1>8. Transfers'
  BY <1>1 DEF Transfers
<1>9. Waiting'
  <2>1. IsSeq(queue') /\ bad' = FALSE /\ loops' = 0
    BY <1>1, <1>2
  <2>2. loops' \in Nat
    BY <2>1
  <2>3. /\ at' # "echo AA" /\ at' # "echo AB"
        /\ at' \notin {"clock", "loopback off", "empty", "pins"}
    BY <1>1
  <2>. QED  BY <2>1, <2>2, <2>3, Zenon DEF Waiting
<1>10. ASSUME ~misled' PROVE Quiet'
  <2>1. queue' = <<>> /\ (at' = "idle" => mpsse' = Adapted("high", 0))
    BY <1>1, <1>2, <1>4, <1>10
  <2>. QED  BY <1>1, <1>6, <2>1 DEF Quiet
<1>. QED  BY <1>5, <1>7, <1>8, <1>9, <1>10 DEF BusInv

\* Every step of SPI_InitChannel preserves the invariant.
LEMMA InitialisesInStep == BusInv /\ SPI_InitChannel => BusInv'
<1>1. SUFFICES ASSUME BusInv, SPI_InitChannel PROVE BusInv'
  OBVIOUS
<1>2. CASE Mid_SyncMPSSE
  BY <1>1, <1>2, EmptiesBefore, FirstRound, SecondRound, Zenon DEF Mid_SyncMPSSE
<1>3. CASE FT_InitChannel /\ ~Mid_SyncMPSSE
  BY <1>1, <1>3, InitSteps, Zenon DEF FT_InitChannel
<1>4. CASE /\ D2xx("pins", mpsse' = [mpsse EXCEPT !.cs = "high"], UNCHANGED mpsse, "idle", "failed")
           /\ IF at' = "idle" THEN SPI_SaveChannelConfig("high") ELSE UNCHANGED contexts
           /\ UNCHANGED <<loops, bad, queue, bus, transfer, short, misled>>
  <2>1. /\ at = "pins" /\ at' \in {"idle", "failed"}
        /\ mpsse' \in {mpsse, [mpsse EXCEPT !.cs = "high"]}
        /\ at' = "idle" => mpsse' = [mpsse EXCEPT !.cs = "high"]
        /\ queue' = queue /\ bad' = bad /\ loops' = loops /\ misled' = misled
    BY <1>4 DEF D2xx, Fails, Upset
  <2>. QED  BY <1>1, <1>4, <2>1, InitialisesPins
<1>. QED  BY <1>1, <1>2, <1>3, <1>4, Zenon DEF SPI_InitChannel, FT_InitChannel

-------------------------------------------------------------------------------
\* The ends of a process.

\* SPI_CloseChannel preserves the invariant.
LEMMA ClosesInStep == BusInv /\ SPI_CloseChannel => BusInv'
<1>1. SUFFICES ASSUME BusInv, SPI_CloseChannel PROVE BusInv'
  OBVIOUS
<1>2. PICK left \in {queue} \cup Leftovers :
        /\ D2xx("idle", /\ mpsse' = IF Ready THEN [mpsse EXCEPT !.cs = "high"] ELSE Astray
                        /\ Ready => left = queue,
                UNCHANGED mpsse /\ left = queue, "down", "failed")
        /\ queue' \in IF at' = "down" THEN LateOf(left) ELSE {left}
  BY <1>1 DEF SPI_CloseChannel
<1>3. /\ at = "idle" /\ at' \in {"down", "failed"}
      /\ mpsse' \in {mpsse, [mpsse EXCEPT !.cs = "high"], Astray}
  BY <1>2 DEF D2xx, Fails, Upset
<1>4. /\ loops' = loops /\ bad' = bad
      /\ IF at' = "down" THEN SPI_DelChannelConfig ELSE contexts' = contexts
  BY <1>1 DEF SPI_CloseChannel
<1>5. /\ mpsse \in Adapters /\ IsSeq(queue) /\ bad = FALSE /\ loops = 0
      /\ \E c : contexts = Node(c)
  BY <1>1, <1>3 DEF BusInv, Adapter, Nodes, Waiting
<1>6. Adapter'
  <2>1. mpsse' \in Adapters
    BY <1>3, <1>5, AdaptersAre
  <2>. QED  BY <1>3, <2>1 DEF Adapter
<1>7. Nodes'
  BY <1>3, <1>4, <1>5, DeletesChannel DEF Nodes
<1>8. Transfers' /\ Quiet'
  BY <1>3 DEF Transfers, Quiet
<1>9. IsSeq(queue')
  <2>1. IsSeq(left)
    BY <1>5, LeftoverIs
  <2>. QED  BY <1>2, <2>1, LateIs
<1>10. Waiting'
  BY <1>3, <1>4, <1>5, <1>9 DEF Waiting
<1>. QED  BY <1>6, <1>7, <1>8, <1>10 DEF BusInv

\* The end of a process at any point preserves the invariant, whatever state the adapter is
\* left in.
LEMMA EndsInStep == BusInv /\ End => BusInv'
<1>1. SUFFICES ASSUME BusInv, End PROVE BusInv'
  OBVIOUS
<1>2. /\ at' = "down" /\ contexts' = <<>> /\ loops' = 0 /\ bad' = FALSE
      /\ queue' \in LateOf(queue) /\ mpsse' = mpsse
  BY <1>1 DEF End
<1>3. mpsse \in Adapters /\ IsSeq(queue)
  BY <1>1 DEF BusInv, Adapter, Waiting
<1>4. Adapter'
  BY <1>2, <1>3 DEF Adapter
<1>5. Nodes' /\ Transfers' /\ Quiet'
  BY <1>2 DEF Nodes, Transfers, Quiet
<1>6. IsSeq(queue')
  BY <1>2, <1>3, LateIs
<1>7. Waiting'
  BY <1>2, <1>6 DEF Waiting
<1>. QED  BY <1>4, <1>5, <1>7 DEF BusInv

-------------------------------------------------------------------------------
\* The steps of a transfer.

\* SPI_ToggleCS changes the pins of the one channel.
LEMMA TogglesNode ==
  ASSUME NEW c, NEW cs, contexts = Node(c),
         contexts' = [contexts EXCEPT ![SPI_GetChannelConfig].cs = cs]
  PROVE  contexts' = Node(cs)
<1>1. SPI_GetChannelConfig = 1
  BY ChannelIs
<1>2. contexts' = [contexts EXCEPT ![1].cs = cs]
  BY <1>1
<1>3. contexts = [i \in 1..1 |-> [handle |-> Handle, cs |-> c]]
  BY DEF Node
<1>4. contexts' = [i \in 1..1 |-> [handle |-> Handle, cs |-> cs]]
  <2>1. contexts' = [contexts EXCEPT ![1] = [contexts[1] EXCEPT !.cs = cs]]
    BY <1>2
  <2>2. contexts[1] = [handle |-> Handle, cs |-> c]
    BY <1>3
  <2> DEFINE node == [contexts[1] EXCEPT !.cs = cs]
  <2>3. node = [handle |-> Handle, cs |-> cs]
    <3>1. \A old, new : old = [handle |-> Handle, cs |-> c] /\ new = [old EXCEPT !.cs = cs]
                        => new = [handle |-> Handle, cs |-> cs]
      OBVIOUS
    <3>. QED  BY <2>2, <3>1, Zenon
  <2> HIDE DEF node
  <2>4. contexts' = [contexts EXCEPT ![1] = node]
    BY <2>1 DEF node
  <2>5. contexts' = [i \in 1..1 |-> node]
    <3>1. DOMAIN contexts = 1..1
      BY <1>3
    <3>2. contexts' = [i \in DOMAIN contexts |-> IF i = 1 THEN node ELSE contexts[i]]
      BY <1>3, <2>4
    <3>3. \A i \in 1..1 : i = 1
      OBVIOUS
    <3>. QED  BY <3>1, <3>2, <3>3
  <2>. QED  BY <2>3, <2>5
<1>5. Node(cs) = [i \in 1..1 |-> [handle |-> Handle, cs |-> cs]]
  BY DEF Node
<1>. QED  BY <1>4, <1>5

Transferring == {"cs on", "command", "data", "read", "cs off"}

\* What a transfer has to start from.
LEMMA TransferIs ==
  ASSUME BusInv, at \in Transferring
  PROVE  /\ IsSeq(outBuffer) /\ sizeTransferred \in 0..Len(outBuffer)
         /\ mpsse \in Adapters /\ IsSeq(queue) /\ bad = FALSE /\ loops = 0
         /\ \E c : contexts = Node(c)
         /\ ~harmed /\ ~misled => Quiet
<1>1. IsSeq(outBuffer) /\ sizeTransferred \in 0..Len(outBuffer)
  BY DEF BusInv, Transfers, Transferring
<1>2. IsSeq(queue) /\ bad = FALSE /\ loops = 0
  BY DEF BusInv, Waiting, Transferring
<1>3. \E c : contexts = Node(c)
  BY DEF BusInv, Nodes, Transferring
<1>. QED  BY <1>1, <1>2, <1>3 DEF BusInv, Adapter

\* What a step of a transfer has to see to.
LEMMA TransferKeeps ==
  ASSUME BusInv, at \in Transferring, at' \in Transferring \cup {"return", "error"},
         mpsse' \in Adapters, IsSeq(queue'), \E c : contexts' = Node(c),
         IsSeq(outBuffer'), sizeTransferred' \in 0..Len(outBuffer'),
         loops' = loops, bad' = bad, ~harmed' /\ ~misled' => Quiet'
  PROVE  BusInv'
<1>1. bad = FALSE /\ loops = 0
  BY TransferIs
<1>2. Adapter'
  BY DEF Adapter, Transferring
<1>3. Nodes' /\ Transfers'
  BY DEF Nodes, Transfers, Transferring
<1>4. Waiting'
  BY <1>1 DEF Waiting, Transferring
<1>. QED  BY <1>2, <1>3, <1>4 DEF BusInv

\* Octets behind those that are on their way.
LEMMA QueueGrows ==
  ASSUME NEW q, IsSeq(q), NEW coming, IsSeq(coming)
  PROVE  /\ IsSeq(q \o coming) /\ Len(q \o coming) = Len(q) + Len(coming)
         /\ Len(q) \in Nat /\ Len(coming) \in Nat
BY Joined, SeqLength

\* Whatever is written, expected or not, leaves an adapter and a queue.
LEMMA WrittenIs ==
  ASSUME NEW expected \in BOOLEAN, NEW adapter \in Adapters, NEW coming, IsSeq(coming),
         IsSeq(queue),
         Written(expected, adapter, coming)
  PROVE  mpsse' \in Adapters /\ IsSeq(queue')
<1>1. CASE expected
  BY <1>1, QueueGrows DEF Written
<1>2. CASE ~expected
  BY <1>2, AdaptersAre, LeftoverIs DEF Written
<1>. QED  BY <1>1, <1>2

\* An adapter that is in step is ready for the next write, when it waits for no data.
LEMMA ReadyIs ==
  ASSUME NEW cs, NEW n, mpsse = Adapted(cs, n)
  PROVE  /\ mpsse.mode = "mpsse" /\ mpsse.awaits = n
         /\ n = 0 => Ready
BY DEF Adapted, Ready

\* The chip select of any adapter.
LEMMA TogglesAdapter ==
  ASSUME NEW cs \in {"low", "high"}, mpsse \in Adapters, IsSeq(queue),
         ToggledCS(cs) \/ UNCHANGED <<mpsse, queue>>
  PROVE  mpsse' \in Adapters /\ IsSeq(queue')
<1>1. Ready \in BOOLEAN
  BY DEF Ready
<1>2. [mpsse EXCEPT !.cs = cs] \in Adapters
  BY AdaptersAre
<1>3. IsSeq(<<>>)
  BY Few
<1>. QED  BY <1>1, <1>2, <1>3, WrittenIs DEF ToggledCS

\* ... and of one that is in step.
LEMMA TogglesInStep ==
  ASSUME NEW old, NEW cs, mpsse = Adapted(old, 0), queue = <<>>, ToggledCS(cs)
  PROVE  mpsse' = Adapted(cs, 0) /\ queue' = <<>>
<1>1. mpsse' = [mpsse EXCEPT !.cs = cs] /\ queue' = queue \o <<>>
  BY ReadyIs DEF ToggledCS, Written
<1>2. <<>> \o <<>> = <<>>
  OBVIOUS
<1>. QED  BY <1>1, <1>2, StaysAdapted

\* Selecting the chip preserves the invariant.
LEMMA SelectsInStep == BusInv /\ Select => BusInv'
<1>1. SUFFICES ASSUME BusInv, Select PROVE BusInv'
  OBVIOUS
<1>2. /\ at = "cs on" /\ at' \in {"command", "error"}
      /\ ToggledCS("low") \/ UNCHANGED <<mpsse, queue>>
      /\ ~harmed' => at' = "command" /\ ToggledCS("low") /\ harmed' = harmed
      /\ contexts' = [contexts EXCEPT ![SPI_GetChannelConfig].cs = "low"]
      /\ loops' = loops /\ bad' = bad /\ misled' = misled
      /\ outBuffer' = outBuffer /\ sizeTransferred' = sizeTransferred
  BY <1>1, Zenon DEF Select, SPI_ToggleCS, Step, D2xx, Fails, Upset
<1>3. /\ IsSeq(outBuffer) /\ sizeTransferred \in 0..Len(outBuffer)
      /\ mpsse \in Adapters /\ IsSeq(queue)
      /\ \E c : contexts = Node(c)
      /\ ~harmed /\ ~misled => Quiet
  BY <1>1, <1>2, TransferIs DEF Transferring
<1>4. contexts' = Node("low")
  BY <1>2, <1>3, TogglesNode
<1>5. mpsse' \in Adapters /\ IsSeq(queue')
  BY <1>2, <1>3, TogglesAdapter
<1>6. ASSUME ~harmed', ~misled' PROVE Quiet'
  <2>1. mpsse = Adapted("high", 0) /\ queue = <<>>
    BY <1>2, <1>3, <1>6 DEF Quiet
  <2>2. mpsse' = Adapted("low", 0) /\ queue' = <<>>
    BY <1>2, <1>6, <2>1, TogglesInStep
  <2>. QED  BY <1>2, <1>6, <2>2 DEF Quiet
<1>. QED  BY <1>1, <1>2, <1>3, <1>4, <1>5, <1>6, TransferKeeps DEF Transferring

\* Deselecting the chip preserves the invariant.
LEMMA DeselectsInStep == BusInv /\ Deselect => BusInv'
<1>1. SUFFICES ASSUME BusInv, Deselect PROVE BusInv'
  OBVIOUS
<1>2. /\ at = "cs off" /\ at' \in {"return", "error"}
      /\ ToggledCS("high") \/ UNCHANGED <<mpsse, queue>>
      /\ ~harmed' => at' = "return" /\ ToggledCS("high") /\ harmed' = harmed
      /\ contexts' = [contexts EXCEPT ![SPI_GetChannelConfig].cs = "high"]
      /\ loops' = loops /\ bad' = bad /\ misled' = misled
      /\ outBuffer' = outBuffer /\ sizeTransferred' = sizeTransferred
  BY <1>1, Zenon DEF Deselect, SPI_ToggleCS, Step, D2xx, Fails, Upset
<1>3. /\ IsSeq(outBuffer) /\ sizeTransferred \in 0..Len(outBuffer)
      /\ mpsse \in Adapters /\ IsSeq(queue)
      /\ \E c : contexts = Node(c)
      /\ ~harmed /\ ~misled => Quiet
  BY <1>1, <1>2, TransferIs DEF Transferring
<1>4. contexts' = Node("high")
  BY <1>2, <1>3, TogglesNode
<1>5. mpsse' \in Adapters /\ IsSeq(queue')
  BY <1>2, <1>3, TogglesAdapter
<1>6. ASSUME ~harmed', ~misled' PROVE Quiet'
  <2>1. mpsse = Adapted("low", 0) /\ queue = <<>>
    BY <1>2, <1>3, <1>6 DEF Quiet
  <2>2. mpsse' = Adapted("high", 0) /\ queue' = <<>>
    BY <1>2, <1>6, <2>1, TogglesInStep
  <2>. QED  BY <1>2, <1>4, <1>6, <2>2 DEF Quiet
<1>. QED  BY <1>1, <1>2, <1>3, <1>4, <1>5, <1>6, TransferKeeps DEF Transferring

\* The MPSSE's command preserves the invariant: it waits for as many octets as will be sent.
LEMMA CommandsInStep == BusInv /\ Command => BusInv'
<1>1. SUFFICES ASSUME BusInv, Command PROVE BusInv'
  OBVIOUS
<1> DEFINE k == CurrentXferSize
           writes == Written(Ready, [mpsse EXCEPT !.awaits = k], <<>>)
<1>2. /\ at = "command" /\ at' \in {"data", "error"}
      /\ writes \/ UNCHANGED <<mpsse, queue>>
      /\ ~harmed' => at' = "data" /\ writes /\ harmed' = harmed
      /\ contexts' = contexts /\ loops' = loops /\ bad' = bad /\ misled' = misled
      /\ outBuffer' = outBuffer /\ sizeTransferred' = sizeTransferred
  BY <1>1, Zenon DEF Command, Step, D2xx, Fails, Upset
<1>3. /\ IsSeq(outBuffer) /\ sizeTransferred \in 0..Len(outBuffer)
      /\ mpsse \in Adapters /\ IsSeq(queue)
      /\ \E c : contexts = Node(c)
      /\ ~harmed /\ ~misled => Quiet
  BY <1>1, <1>2, TransferIs DEF Transferring
<1>4. k \in Nat /\ CurrentXferSize' = k
  <2>1. k \in Nat
    BY <1>3, SizeIs
  <2>. QED  BY <1>2, <2>1 DEF CurrentXferSize
<1> HIDE DEF k
<1>5. mpsse' \in Adapters /\ IsSeq(queue')
  <2>1. Ready \in BOOLEAN
    BY DEF Ready
  <2>2. [mpsse EXCEPT !.awaits = k] \in Adapters /\ IsSeq(<<>>)
    BY <1>3, <1>4, AdaptersAre, Few
  <2>. QED  BY <1>2, <1>3, <2>1, <2>2, WrittenIs
<1>6. ASSUME ~harmed', ~misled' PROVE Quiet'
  <2>1. mpsse = Adapted("low", 0) /\ queue = <<>>
    BY <1>2, <1>3, <1>6 DEF Quiet
  <2>2. mpsse' = [mpsse EXCEPT !.awaits = k] /\ queue' = <<>> \o <<>>
    BY <1>2, <1>6, <2>1, ReadyIs DEF Written
  <2>3. mpsse' = Adapted("low", k) /\ queue' = <<>>
    BY <2>1, <2>2, StaysAdapted
  <2>. QED  BY <1>2, <1>4, <1>6, <2>3 DEF Quiet
<1>. QED  BY <1>1, <1>2, <1>3, <1>5, <1>6, TransferKeeps DEF Transferring

\* Sending preserves the invariant: as many octets come back as went out.
LEMMA ClocksInStep == BusInv /\ Data => BusInv'
<1>1. SUFFICES ASSUME BusInv, Data PROVE BusInv'
  OBVIOUS
<1> DEFINE heard == Clocked(chip, OutData, mood)
           k == CurrentXferSize
           expected == mpsse.mode = "mpsse" /\ mpsse.awaits = k
           writes == Written(expected, [mpsse EXCEPT !.awaits = 0], heard.in)
<1>2. /\ at = "data" /\ at' \in {"read", "error"}
      /\ writes \/ (mpsse' = mpsse /\ queue' = queue)
      /\ ~harmed' => at' = "read" /\ writes /\ harmed' = harmed
      /\ contexts' = contexts /\ loops' = loops /\ bad' = bad /\ misled' = misled
      /\ outBuffer' = outBuffer /\ sizeTransferred' = sizeTransferred
  BY <1>1, Zenon DEF Data, Step, D2xx, Fails, Upset
<1>3. /\ IsSeq(outBuffer) /\ sizeTransferred \in 0..Len(outBuffer)
      /\ mpsse \in Adapters /\ IsSeq(queue)
      /\ \E c : contexts = Node(c)
      /\ ~harmed /\ ~misled => Quiet
  BY <1>1, <1>2, TransferIs DEF Transferring
<1>4. k \in Nat /\ IsSeq(OutData) /\ Len(OutData) = k
  BY <1>3, SizeIs
<1>5. CurrentXferSize' = k
  BY <1>2 DEF CurrentXferSize
<1> HIDE DEF k, heard
<1>6. IsSeq(heard.in) /\ Len(heard.in) = k
  BY <1>4, ClockedLength DEF heard
<1>7. mpsse' \in Adapters /\ IsSeq(queue')
  <2>1. expected \in BOOLEAN
    OBVIOUS
  <2>2. [mpsse EXCEPT !.awaits = 0] \in Adapters
    BY <1>3, AdaptersAre
  <2> HIDE DEF expected
  <2>. QED  BY <1>2, <1>3, <1>6, <2>1, <2>2, WrittenIs
<1>8. ASSUME ~harmed', ~misled' PROVE Quiet'
  <2>1. mpsse = Adapted("low", k) /\ queue = <<>>
    BY <1>2, <1>3, <1>8 DEF Quiet, k
  <2>2. mpsse' = [mpsse EXCEPT !.awaits = 0] /\ queue' = queue \o heard.in
    BY <1>2, <1>8, <2>1, ReadyIs DEF Written
  <2>3. mpsse' = Adapted("low", 0)
    BY <2>1, <2>2, StaysAdapted
  <2>4. Len(queue) = 0
    BY <2>1
  <2>5. Len(queue') = 0 + k
    BY <1>3, <1>6, <2>2, <2>4, QueueGrows
  <2>6. Len(queue') = k
    BY <1>4, <2>5
  <2>. QED  BY <1>2, <1>5, <1>8, <2>3, <2>6 DEF Quiet
<1>. QED  BY <1>1, <1>2, <1>3, <1>7, <1>8, TransferKeeps DEF Transferring

\* What a read needs, and what it leaves.
LEMMA ReadLeaves ==
  ASSUME BusInv, at = "read", NEW n \in Nat, n <= CurrentXferSize, n <= Len(queue),
         queue' = SubSeq(queue, n + 1, Len(queue)),
         sizeTransferred' = sizeTransferred + n, outBuffer' = outBuffer
  PROVE  /\ IsSeq(queue')
         /\ IsSeq(outBuffer') /\ sizeTransferred' \in 0..Len(outBuffer')
         /\ n = Len(queue) => queue' = <<>>
<1> DEFINE k == CurrentXferSize
<1>1. /\ IsSeq(outBuffer) /\ sizeTransferred \in 0..Len(outBuffer) /\ IsSeq(queue)
  BY TransferIs DEF Transferring
<1>2. k \in Nat /\ sizeTransferred \in Nat /\ sizeTransferred + k <= Len(outBuffer)
  BY <1>1, SizeIs
<1>3. Len(outBuffer) \in Nat
  BY <1>1, SeqLength
<1>4. IsSeq(queue') /\ (n = Len(queue) => queue' = <<>>)
  BY <1>1, LeftIs
<1>5. n <= k
  OBVIOUS
<1> HIDE DEF k
<1>6. sizeTransferred + n \in 0..Len(outBuffer)
  BY <1>2, <1>3, <1>5
<1>. QED  BY <1>1, <1>4, <1>6

\* A whole read preserves the invariant: nothing is left behind.
LEMMA ReadsInStep == BusInv /\ ReadAll => BusInv'
<1>1. SUFFICES ASSUME BusInv, ReadAll PROVE BusInv'
  OBVIOUS
<1> DEFINE k == CurrentXferSize
<1>2. /\ at = "read" /\ at' \in {"command", "cs off", "error"} /\ Len(queue) >= k
      /\ Read(k) \/ UNCHANGED <<inBuffer, queue, sizeTransferred>>
      /\ ~harmed' => at' \in {"command", "cs off"} /\ Read(k) /\ harmed' = harmed
      /\ contexts' = contexts /\ loops' = loops /\ bad' = bad /\ misled' = misled
      /\ outBuffer' = outBuffer /\ mpsse' = mpsse
  BY <1>1, Zenon DEF ReadAll, AfterRead, Step, D2xx, Fails, Upset
<1>3. /\ IsSeq(outBuffer) /\ sizeTransferred \in 0..Len(outBuffer)
      /\ mpsse \in Adapters /\ IsSeq(queue)
      /\ \E c : contexts = Node(c)
      /\ ~harmed /\ ~misled => Quiet
  BY <1>1, <1>2, TransferIs DEF Transferring
<1>4. k \in Nat /\ Len(queue) \in Nat
  BY <1>3, SizeIs, SeqLength
<1>5. k <= Len(queue) /\ k <= CurrentXferSize
  <2>1. k = CurrentXferSize /\ Len(queue) >= k
    BY <1>2
  <2> HIDE DEF k
  <2>2. k <= Len(queue)
    BY <1>4, <2>1
  <2>3. k <= k
    BY <1>4
  <2>. QED  BY <2>1, <2>2, <2>3
<1>6. ASSUME Read(k)
      PROVE  /\ IsSeq(queue') /\ sizeTransferred' \in 0..Len(outBuffer')
             /\ k = Len(queue) => queue' = <<>>
  <2>1. queue' = SubSeq(queue, k + 1, Len(queue)) /\ sizeTransferred' = sizeTransferred + k
    BY <1>6 DEF Read
  <2> HIDE DEF k
  <2>. QED  BY <1>1, <1>2, <1>4, <1>5, <2>1, ReadLeaves
<1>7. IsSeq(queue') /\ sizeTransferred' \in 0..Len(outBuffer')
  BY <1>2, <1>3, <1>6
<1>8. ASSUME ~harmed', ~misled' PROVE Quiet'
  <2>1. mpsse = Adapted("low", 0) /\ Len(queue) = k
    BY <1>2, <1>3, <1>8 DEF Quiet
  <2>2. queue' = <<>>
    BY <1>2, <1>6, <1>8, <2>1
  <2>. QED  BY <1>2, <1>8, <2>1, <2>2 DEF Quiet
<1>. QED  BY <1>1, <1>2, <1>3, <1>7, <1>8, TransferKeeps DEF Transferring

\* A short read preserves the invariant, which then says nothing of the queue.
LEMMA ReadsShortInStep == BusInv /\ ReadShort => BusInv'
<1>1. SUFFICES ASSUME BusInv, ReadShort PROVE BusInv'
  OBVIOUS
<1>2. PICK n \in 0..(CurrentXferSize - 1) :
        /\ n < Len(queue) \/ n = Len(queue)
        /\ harmed' = TRUE
        /\ Read(n) /\ at' = AfterRead(n)
  BY <1>1 DEF ReadShort, Upset
<1>3. /\ at = "read" /\ at' \in {"command", "cs off"}
      /\ contexts' = contexts /\ loops' = loops /\ bad' = bad
      /\ outBuffer' = outBuffer /\ mpsse' = mpsse
  BY <1>1, <1>2 DEF ReadShort, AfterRead
<1>4. /\ IsSeq(outBuffer) /\ sizeTransferred \in 0..Len(outBuffer)
      /\ mpsse \in Adapters /\ IsSeq(queue)
      /\ \E c : contexts = Node(c)
  BY <1>1, <1>3, TransferIs DEF Transferring
<1>5. n \in Nat /\ n <= CurrentXferSize /\ n <= Len(queue)
  <2>1. CurrentXferSize \in Nat /\ Len(queue) \in Nat
    BY <1>4, SizeIs, SeqLength
  <2>. QED  BY <1>2, <2>1
<1>6. queue' = SubSeq(queue, n + 1, Len(queue)) /\ sizeTransferred' = sizeTransferred + n
  BY <1>2 DEF Read
<1>7. IsSeq(queue') /\ IsSeq(outBuffer') /\ sizeTransferred' \in 0..Len(outBuffer')
  BY <1>1, <1>3, <1>5, <1>6, ReadLeaves
<1>. QED  BY <1>1, <1>2, <1>3, <1>4, <1>7, TransferKeeps DEF Transferring

\* Beginning a command preserves the invariant.
LEMMA SendsInStep == \A r \in SdioRequests : BusInv /\ Send(r) => BusInv'
<1>1. SUFFICES ASSUME NEW r \in SdioRequests, BusInv, Send(r) PROVE BusInv'
  OBVIOUS
<1>2. /\ at = "idle" /\ at' = "cs on"
      /\ outBuffer' = Transaction(r) /\ sizeTransferred' = 0
      /\ contexts' = contexts /\ loops' = loops /\ bad' = bad
      /\ mpsse' = mpsse /\ queue' = queue /\ harmed' = harmed /\ misled' = misled
  BY <1>1 DEF Send, SPI_ReadWrite
<1>3. /\ mpsse \in Adapters /\ IsSeq(queue) /\ bad = FALSE /\ loops = 0
      /\ \E c : contexts = Node(c)
      /\ ~harmed /\ ~misled => Quiet
  BY <1>1, <1>2 DEF BusInv, Adapter, Nodes, Waiting
<1>4. IsSeq(outBuffer') /\ sizeTransferred' \in 0..Len(outBuffer')
  <2>1. IsSeq(outBuffer')
    BY <1>2, TransactionIs
  <2>2. Len(outBuffer') \in Nat
    BY <2>1, SeqLength
  <2>3. 0 \in 0..Len(outBuffer')
    BY <2>2
  <2>. QED  BY <1>2, <2>1, <2>3, Zenon
<1>5. Adapter'
  BY <1>2, <1>3 DEF Adapter
<1>6. Nodes' /\ Transfers'
  BY <1>2, <1>3, <1>4 DEF Nodes, Transfers
<1>7. Waiting'
  BY <1>2, <1>3 DEF Waiting
<1>8. ~harmed' /\ ~misled' => Quiet'
  BY <1>2, <1>3 DEF Quiet
<1>. QED  BY <1>5, <1>6, <1>7, <1>8 DEF BusInv

\* Looking at the response, or at the error, preserves the invariant.
LEMMA ReturnsInStep == BusInv /\ Return => BusInv'
<1>1. SUFFICES ASSUME BusInv, Return PROVE BusInv'
  OBVIOUS
<1>2. /\ at \in {"return", "error"} /\ at' = "idle"
      /\ contexts' = contexts /\ loops' = loops /\ bad' = bad
      /\ mpsse' = mpsse /\ queue' = queue /\ harmed' = harmed /\ misled' = misled
  BY <1>1 DEF Return, history
<1>3. /\ mpsse \in Adapters /\ IsSeq(queue) /\ bad = FALSE /\ loops = 0
      /\ \E c : contexts = Node(c)
      /\ ~harmed /\ ~misled => Quiet
  BY <1>1, <1>2 DEF BusInv, Adapter, Nodes, Waiting
<1>4. Adapter'
  BY <1>2, <1>3 DEF Adapter
<1>5. Nodes' /\ Transfers'
  BY <1>2, <1>3 DEF Nodes, Transfers
<1>6. Waiting'
  BY <1>2, <1>3 DEF Waiting
<1>7. ~harmed' /\ ~misled' => Quiet'
  BY <1>2, <1>3 DEF Quiet
<1>. QED  BY <1>4, <1>5, <1>6, <1>7 DEF BusInv

-------------------------------------------------------------------------------
\* The invariant holds initially, and every step keeps it.

\* The invariant holds to begin with.
LEMMA BusInit == BInit => BusInv
<1>1. SUFFICES ASSUME BInit PROVE BusInv
  OBVIOUS
<1>2. /\ at = "down" /\ contexts = <<>> /\ loops = 0 /\ bad = FALSE /\ queue = <<>>
      /\ mpsse = [mode |-> "reset", loopback |-> FALSE, awaits |-> 0, cs |-> "in"]
  BY <1>1 DEF BInit, CInit
<1>3. Adapter /\ Nodes /\ Transfers /\ Quiet
  BY <1>2 DEF Adapter, Adapters, Nodes, Transfers, Quiet
<1>4. IsSeq(queue)
  BY <1>2, Few, Zenon
<1>5. Waiting
  BY <1>2, <1>4 DEF Waiting
<1>. QED  BY <1>3, <1>5 DEF BusInv

\* Every step preserves the invariant.
LEMMA BusStep == BusInv /\ [BNext]_bvars => BusInv'
<1>1. SUFFICES ASSUME BusInv, [BNext]_bvars PROVE BusInv'
  OBVIOUS
<1>2. CASE SPI_OpenChannel
  BY <1>1, <1>2, OpensInStep
<1>3. CASE SPI_InitChannel
  BY <1>1, <1>3, InitialisesInStep
<1>4. CASE SPI_CloseChannel
  BY <1>1, <1>4, ClosesInStep
<1>5. CASE Transfer
  <2>1. CASE Select
    BY <1>1, <2>1, SelectsInStep
  <2>2. CASE Command
    BY <1>1, <2>2, CommandsInStep
  <2>3. CASE Data
    BY <1>1, <2>3, ClocksInStep
  <2>4. CASE ReadAll
    BY <1>1, <2>4, ReadsInStep
  <2>5. CASE ReadShort
    BY <1>1, <2>5, ReadsShortInStep
  <2>6. CASE Deselect
    BY <1>1, <2>6, DeselectsInStep
  <2>. QED  BY <1>5, <2>1, <2>2, <2>3, <2>4, <2>5, <2>6 DEF Transfer
<1>6. CASE End
  BY <1>1, <1>6, EndsInStep
<1>7. CASE \E r \in SdioRequests : Send(r)
  BY <1>1, <1>7, SendsInStep
<1>8. CASE Return
  BY <1>1, <1>8, ReturnsInStep
<1>9. CASE UNCHANGED bvars
  <2>1. /\ at' = at /\ contexts' = contexts /\ loops' = loops /\ bad' = bad
        /\ mpsse' = mpsse /\ queue' = queue /\ harmed' = harmed /\ misled' = misled
        /\ outBuffer' = outBuffer /\ sizeTransferred' = sizeTransferred
    BY <1>9 DEF bvars, cvars, host, transfer, history
  <2>2. CurrentXferSize' = CurrentXferSize /\ Coming' = Coming
    BY <2>1 DEF CurrentXferSize, Coming
  <2>3. Adapter' /\ Nodes' /\ Transfers'
    BY <1>1, <2>1 DEF BusInv, Adapter, Nodes, Transfers
  <2>4. Waiting'
    BY <1>1, <2>1, <2>2 DEF BusInv, Waiting
  <2>5. ~harmed' /\ ~misled' => Quiet'
    BY <1>1, <2>1, <2>2 DEF BusInv, Quiet
  <2>. QED  BY <2>3, <2>4, <2>5 DEF BusInv
<1>. QED  BY <1>1, <1>2, <1>3, <1>4, <1>5, <1>6, <1>7, <1>8, <1>9, Zenon
           DEF BNext, Channel, CNext

\* Whatever an earlier process leaves behind (killed between any two calls, or after calls
\* that failed and commands sent over a channel out of step), a channel that
\* SPI_OpenChannel and SPI_InitChannel have opened is in step, and stays so from command
\* to command until a call fails or a read comes short: for any commands, chip, transfer
\* size, number of attempts, and number of octets that a purge leaves on their way; unless
\* these are such that Mid_SyncMPSSE (ftdi_mid.c:789) sees its own echoes in them.
THEOREM BusRecovers == BSpec => []Recovered
<1>1. BusInv => Recovered
  <2>1. SUFFICES ASSUME BusInv, at = "idle", ~harmed, ~misled PROVE InStep
    BY DEF Recovered
  <2>2. mpsse = Adapted("high", 0) /\ contexts = Node("high") /\ queue = <<>>
    BY <2>1 DEF BusInv, Quiet
  <2>. QED  BY <2>2 DEF InStep, Adapted, Node
<1>2. BusInv /\ [BNext]_bvars => BusInv'
  BY BusStep
<1>. QED  BY <1>1, <1>2, BusInit, PTL DEF BSpec

===============================================================================
