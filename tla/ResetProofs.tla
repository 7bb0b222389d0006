------------------------------ MODULE ResetProofs ------------------------------
(***************************************************************************)
(* Proofs about `reset`, for every number of processes, adapters and       *)
(* serial numbers.  A hard reset works when it says so and never releases  *)
(* JTAG before reset; a process of Reset is one of HardReset, whichever    *)
(* channels it has found and whether or not it resets softly; the channels *)
(* it has found are its adapter's; a soft reset that returns 0 has woken   *)
(* and booted the chip; and processes that share a GPIO leave the chip out *)
(* of reset.                                                               *)
(***************************************************************************)
EXTENDS Reset, FiniteSetTheorems, WellFoundedInduction, TLAPS

-------------------------------------------------------------------------------
\* The hard reset.

\* The accesses behind the release of both lines.
Woken == {"spi", "chip_id", "write_reset", "write_clk", "clear_manifest"}

\* What the process has achieved by the time it makes the access pc.
Achieved ==
  /\ pc \notin {"idle", "done"} => round < Rounds
  /\ pc \in {"cs", "release"} => pulse = "yes" /\ reset = "low"
  /\ pc = "release_jtag" => pulse = "yes" /\ reset = "high"
  /\ pc \in Woken => pulse = "yes" /\ reset = "high" /\ jtag = "high"
  /\ pc \in {"write_reset", "write_clk", "clear_manifest"} => mode = "spi"
  /\ pc = "clear_manifest" => clk = "early"

IInv == TypeOK /\ Achieved /\ ResetWorks

USE DEF Rounds, lines, chip

\* A reset starts with no access made.
LEMMA InitInv == Init => IInv
BY DEF Init, IInv, TypeOK, Achieved, ResetWorks, Woken

\* Every access keeps the types.
LEMMA NextTypes == IInv /\ [Next]_vars => TypeOK'
<1> SUFFICES ASSUME IInv, [Next]_vars PROVE TypeOK'
  OBVIOUS
<1> USE DEF IInv, TypeOK
<1>1. CASE Open        BY <1>1 DEF Open
<1>2. CASE Drive       BY <1>2 DEF Drive, FailingLines, SetLines
<1>3. CASE Config      BY <1>3 DEF Config, Return
<1>4. CASE AssertReset      BY <1>4 DEF AssertReset, FailingLines, SetLines, Return
<1>5. CASE DeassertCs  BY <1>5 DEF DeassertCs, Return
<1>6. CASE Release     BY <1>6 DEF Release, FailingLines, SetLines, Return
<1>7. CASE ReleaseJtag BY <1>7 DEF ReleaseJtag, FailingLines, SetLines, Return
<1>8. CASE EnterSpi    BY <1>8 DEF EnterSpi, Achieved
<1>9. CASE ReadChipId  BY <1>9 DEF ReadChipId, Return
<1>10. CASE WriteReset BY <1>10 DEF WriteReset, Again, Return, Achieved
<1>11. CASE WriteClk   BY <1>11 DEF WriteClk, Again, Return, Achieved
<1>12. CASE ClearManifest BY <1>12 DEF ClearManifest, Return
<1>13. CASE End        BY <1>13 DEF End
<1>14. CASE Use        BY <1>14 DEF Use
<1>15. CASE UNCHANGED vars BY <1>15 DEF vars
<1>16. QED
  BY <1>1, <1>2, <1>3, <1>4, <1>5, <1>6, <1>7, <1>8, <1>9, <1>10, <1>11, <1>12,
     <1>13, <1>14, <1>15 DEF Next, Reset_device

\* Every access achieves what the next one relies on.
LEMMA NextAchieved == IInv /\ [Next]_vars => Achieved' /\ ResetWorks'
<1> SUFFICES ASSUME IInv, [Next]_vars PROVE Achieved' /\ ResetWorks'
  OBVIOUS
<1> USE DEF IInv, TypeOK, Achieved, ResetWorks, Woken
<1>1. CASE Open        BY <1>1 DEF Open
<1>2. CASE Drive       BY <1>2 DEF Drive, FailingLines, SetLines
<1>3. CASE Config      BY <1>3 DEF Config, Return
<1>4. CASE AssertReset      BY <1>4 DEF AssertReset, FailingLines, SetLines, Return
<1>5. CASE DeassertCs  BY <1>5 DEF DeassertCs, Return
<1>6. CASE Release     BY <1>6 DEF Release, FailingLines, SetLines, Return
<1>7. CASE ReleaseJtag BY <1>7 DEF ReleaseJtag, FailingLines, SetLines, Return
<1>8. CASE EnterSpi    BY <1>8 DEF EnterSpi
<1>9. CASE ReadChipId  BY <1>9 DEF ReadChipId, Return
<1>10. CASE WriteReset BY <1>10 DEF WriteReset, Again, Return
<1>11. CASE WriteClk   BY <1>11 DEF WriteClk, Again, Return
<1>12. CASE ClearManifest BY <1>12 DEF ClearManifest, Return
<1>13. CASE End        BY <1>13 DEF End
<1>14. CASE Use        BY <1>14 DEF Use
<1>15. CASE UNCHANGED vars BY <1>15 DEF vars
<1>16. QED
  BY <1>1, <1>2, <1>3, <1>4, <1>5, <1>6, <1>7, <1>8, <1>9, <1>10, <1>11, <1>12,
     <1>13, <1>14, <1>15 DEF Next, Reset_device

LEMMA Invariance == Spec => []IInv
<1>1. Init => IInv
  BY InitInv
<1>2. IInv /\ [Next]_vars => IInv'
  BY NextTypes, NextAchieved DEF IInv
<1>3. QED
  BY <1>1, <1>2, PTL DEF Spec

\* Every variable keeps to its type; the attempts never exceed three.
THEOREM TypeCorrect == Spec => []TypeOK
<1>1. IInv => TypeOK
  BY DEF IInv
<1>2. QED
  BY <1>1, Invariance, PTL

\* A reset that returns 0 has left the chip in SPI mode, with its clock set and no
\* manifest, and both lines released.
THEOREM ResetCorrect == Spec => []ResetWorks
<1>1. IInv => ResetWorks
  BY DEF IInv
<1>2. QED
  BY <1>1, Invariance, PTL

\* The one step that releases JTAG finds the reset line high.
THEOREM JtagReleasedLast == Spec => JtagAfterReset
<1> DEFINE Ordered == (jtag = "low" /\ jtag' = "high" /\ pc # "drive") => reset = "high"
<1>1. IInv /\ [Next]_vars => [Ordered]_vars
  <2> SUFFICES ASSUME IInv, Next, jtag = "low", jtag' = "high", pc # "drive"
               PROVE  reset = "high"
    OBVIOUS
  <2>1. CASE ReleaseJtag BY <2>1 DEF ReleaseJtag, IInv, Achieved
  <2>2. CASE AssertReset  BY <2>2 DEF AssertReset, FailingLines, SetLines
  <2>3. CASE Release BY <2>3 DEF Release, FailingLines, SetLines
  <2>4. CASE Open \/ Use \/ End BY <2>4 DEF Open, Use, End
  <2>5. CASE Config \/ DeassertCs \/ EnterSpi BY <2>5 DEF Config, DeassertCs, EnterSpi
  <2>6. CASE ReadChipId \/ WriteReset \/ WriteClk \/ ClearManifest
    BY <2>6 DEF ReadChipId, WriteReset, WriteClk, ClearManifest
  <2>7. QED
    BY <2>1, <2>2, <2>3, <2>4, <2>5, <2>6 DEF Next, Reset_device, Drive
<1>2. QED
  BY <1>1, Invariance, PTL DEF Spec, JtagAfterReset

-------------------------------------------------------------------------------
\* The processes of Reset are processes of HardReset.

LEMMA StepRefines == RNext => [Next]_vars
<1>1. CASE Process
  <2>1. CASE Hard_reset
    BY <2>1 DEF Hard_reset, Next
  <2>2. CASE Soft_reset
    <3>1. pc = "config" /\ pc' \in {pc, "idle"} /\ UNCHANGED <<ret, round, lines, chip>>
      BY <2>2 DEF Soft_reset, ClearAon, ReadLatch, LatchLow, LatchHigh, LatchEnd, BootStep,
                  BootAddress, Clock, Interrupt, SoftAccess, SoftReturn
    <3>. QED  BY <3>1 DEF Next, End, vars
  <2>. QED  BY <1>1, <2>1, <2>2 DEF Process
<1>2. CASE Between
  BY <1>2 DEF Between, Search, Ends, OthersUse, Sleep, Next
<1>3. CASE Driver
  BY <1>3 DEF Driver
<1>. QED  BY <1>1, <1>2, <1>3 DEF RNext

\* A process that looks for its channels first, and one that resets softly or not at
\* all, makes the accesses of HardReset in its order: what holds of the hard reset holds
\* of `reset`.
THEOREM ResetIsHardReset == RSpec => Spec
<1>1. RInit => Init
  BY DEF RInit
<1>2. [RNext]_rvars => [Next]_vars
  BY StepRefines DEF rvars
<1>. QED  BY <1>1, <1>2, PTL DEF RSpec, Spec

\* What ftdi_spi_reset promises survives searches and soft resets between its processes.
THEOREM ResetStaysCorrect == RSpec => []ResetWorks /\ JtagAfterReset
BY ResetIsHardReset, ResetCorrect, JtagReleasedLast, PTL

-------------------------------------------------------------------------------
\* The channels a process looks for.

\* A set of numbers has a smallest one.
LEMMA Smallest ==
  ASSUME NEW S \in SUBSET Nat, S # {} PROVE \E x \in S : \A y \in S : x <= y
<1>1. PICK x \in S : \A y \in S : <<y, x>> \notin OpToRel(<, Nat)
  BY WFMin, NatLessThanWellFounded, Zenon
<1>2. \A y \in S : ~(y < x)
  BY <1>1 DEF OpToRel
<1>. QED  BY <1>2

\* What libftd2xx shows is a list, of whose places finitely many are available.
LEMMA ListOf ==
  ASSUME NEW list \in Plugged
  PROVE  /\ Len(list) \in Nat /\ DOMAIN list = 1..Len(list)
         /\ Available(list) \subseteq 1..Len(list)
         /\ \A m \in Nat : /\ IsFiniteSet(Available(list) \cap 1..m)
                           /\ Cardinality(Available(list) \cap 1..m) \in Nat
         /\ Available(list) = Available(list) \cap 1..Len(list)
         /\ NumChannels(list) \in Nat
<1>1. list \in Seq(ToSet(list))
  BY ResetAssumption
<1>2. Len(list) \in Nat /\ DOMAIN list = 1..Len(list)
  BY <1>1
<1>3. Available(list) \subseteq 1..Len(list)
  BY <1>2 DEF Available
<1>4. ASSUME NEW m \in Nat
      PROVE  /\ IsFiniteSet(Available(list) \cap 1..m)
             /\ Cardinality(Available(list) \cap 1..m) \in Nat
  <2>1. IsFiniteSet(1..m)
    BY FS_Interval
  <2>2. Available(list) \cap 1..m \in SUBSET (1..m)
    OBVIOUS
  <2>3. IsFiniteSet(Available(list) \cap 1..m)
    BY <2>1, <2>2, FS_Subset
  <2>. QED  BY <2>3, FS_CardinalityType
<1>5. Available(list) = Available(list) \cap 1..Len(list)
  BY <1>3
<1>6. NumChannels(list) \in Nat
  BY <1>2, <1>4, <1>5 DEF NumChannels
<1>. QED  BY <1>2, <1>3, <1>4, <1>5, <1>6

\* Every number below the number of channels is that of a place with an MPSSE
\* (FT_GetChannelInfo and FT_OpenChannel, which search the list for it).
LEMMA DeviceIs ==
  ASSUME NEW list \in Plugged, NEW k \in 1..NumChannels(list)
  PROVE  /\ DeviceOf(list, k - 1) \in Available(list)
         /\ Cardinality(Available(list) \cap 1..DeviceOf(list, k - 1)) = k
<1> DEFINE upto(m) == Cardinality(Available(list) \cap 1..m)
           S == {m \in Nat : k <= upto(m)}
<1>1. NumChannels(list) \in Nat /\ \A m \in Nat : upto(m) \in Nat
  BY ListOf
<1>2. upto(Len(list)) = NumChannels(list) /\ Len(list) \in Nat
  BY ListOf DEF NumChannels
<1>3. Len(list) \in S
  BY <1>1, <1>2
<1>4. PICK x \in S : \A y \in S : x <= y
  <2>1. S \in SUBSET Nat /\ S # {}
    BY <1>3
  <2> HIDE DEF S
  <2>. QED  BY <2>1, Smallest
<1>5. x # 0
  <2>1. Available(list) \cap 1..0 = {}
    OBVIOUS
  <2>2. upto(0) = 0
    BY <2>1, FS_EmptySet
  <2>. QED  BY <1>1, <1>4, <2>2
<1>6. x \in Nat /\ x - 1 \in Nat /\ upto(x) >= k /\ upto(x - 1) < k
  BY <1>1, <1>4, <1>5
<1>7. x \in Available(list) /\ upto(x) = k
  <2>1. CASE x \notin Available(list)
    <3>1. Available(list) \cap 1..x = Available(list) \cap 1..(x - 1)
      BY <1>6, <2>1
    <3>. QED  BY <1>1, <1>6, <3>1
  <2>2. CASE x \in Available(list)
    <3>1. Available(list) \cap 1..x = (Available(list) \cap 1..(x - 1)) \cup {x}
      BY <1>5, <1>6, <2>2
    <3>2. IsFiniteSet(Available(list) \cap 1..(x - 1)) /\ x \notin Available(list) \cap 1..(x - 1)
      BY <1>6, ListOf
    <3>3. upto(x) = upto(x - 1) + 1
      BY <3>1, <3>2, FS_AddElement
    <3>. QED  BY <1>1, <1>6, <2>2, <3>3
  <2>. QED  BY <2>1, <2>2
<1>8. (k - 1) + 1 = k
  BY <1>1
<1>9. \E i \in Available(list) : Cardinality(Available(list) \cap 1..i) = (k - 1) + 1
  BY <1>7, <1>8
<1>. QED  BY <1>8, <1>9 DEF DeviceOf

\* Channel k of the list, as the search notes it.
Channel(list, k) == [loc |-> ChannelInfo(list, k - 1).loc, number |-> k - 1]

\* Different numbers are channels at different locations, all below MaxLoc.
LEMMA Locations ==
  ASSUME NEW list \in Plugged, NEW k \in 1..NumChannels(list), NEW n \in 1..NumChannels(list)
  PROVE  /\ Channel(list, k).loc \in 0..(MaxLoc - 1)
         /\ Channel(list, k).loc = Channel(list, n).loc => k = n
<1>1. /\ DeviceOf(list, k - 1) \in DOMAIN list /\ DeviceOf(list, n - 1) \in DOMAIN list
      /\ DeviceOf(list, k - 1) = DeviceOf(list, n - 1) => k = n
  BY DeviceIs DEF Available
<1>2. \A i, j \in DOMAIN list : /\ list[i].loc \in 0..(MaxLoc - 1)
                                /\ list[i].loc = list[j].loc => i = j
  BY ResetAssumption
<1>. QED  BY <1>1, <1>2 DEF Channel, ChannelInfo

\* One of the first i channels, which fits the serial number.
Noted(list, serial, i, c) == \E k \in 1..i : c = Channel(list, k) /\ Wanted(ChannelInfo(list, k - 1), serial)

\* What is chosen fits, and the lower of the two locations is the SPI channel's.
Fits(list, serial, i, chan) ==
  /\ chan = [spi |-> chan.spi, reset |-> chan.reset]
  /\ chan.spi = NoChannel \/ Noted(list, serial, i, chan.spi)
  /\ chan.reset = NoChannel \/ Noted(list, serial, i, chan.reset)
  /\ chan.spi = NoChannel => chan.reset = NoChannel
  /\ chan.reset # NoChannel => chan.spi.loc < chan.reset.loc

\* ftdi_spi_set_spi_and_reset_chan keeps it so.
LEMMA TakesFitting ==
  ASSUME NEW list \in Plugged, NEW serial, NEW i \in 1..NumChannels(list), NEW chan,
         Fits(list, serial, i - 1, chan), Wanted(ChannelInfo(list, i - 1), serial)
  PROVE  Fits(list, serial, i, SetSpiAndReset(chan, Channel(list, i)))
<1> DEFINE this == Channel(list, i)
           new == SetSpiAndReset(chan, this)
<1>1. NumChannels(list) \in Nat /\ i \in Nat /\ MaxLoc \in Nat
  BY ListOf, ResetAssumption
<1>2. this.loc \in 0..(MaxLoc - 1) /\ NoChannel.loc = MaxLoc
  BY Locations DEF NoChannel
<1>3. Noted(list, serial, i, this)
  BY DEF Noted
<1>4. \A c : Noted(list, serial, i - 1, c) =>
               /\ Noted(list, serial, i, c)
               /\ c.loc \in 0..(MaxLoc - 1) /\ c.loc # this.loc
  <2>1. SUFFICES ASSUME NEW k \in 1..(i - 1), Wanted(ChannelInfo(list, k - 1), serial)
                 PROVE  /\ Noted(list, serial, i, Channel(list, k))
                        /\ Channel(list, k).loc \in 0..(MaxLoc - 1)
                        /\ Channel(list, k).loc # this.loc
    BY DEF Noted
  <2>2. k \in 1..i /\ k \in 1..NumChannels(list) /\ k # i
    BY <1>1
  <2>. QED  BY <2>1, <2>2, Locations DEF Noted
<1>5. /\ chan.spi.loc \in 0..MaxLoc /\ chan.reset.loc \in 0..MaxLoc
      /\ chan.spi.loc # this.loc /\ chan.reset.loc # this.loc
  <2>1. MaxLoc \in 0..MaxLoc /\ MaxLoc # this.loc /\ 0..(MaxLoc - 1) \subseteq 0..MaxLoc
    BY <1>1, <1>2
  <2> HIDE DEF this
  <2>. QED  BY <1>2, <1>4, <2>1 DEF Fits
<1>6. this # NoChannel
  BY <1>1, <1>2
<1> HIDE DEF this
<1> SUFFICES Fits(list, serial, i, new)
  BY DEF this
<1>7. CASE this.loc < chan.spi.loc
  <2>1. new = [spi |-> this, reset |-> chan.spi]
    BY <1>7 DEF SetSpiAndReset
  <2>2. new.spi = this /\ new.reset = chan.spi
    BY <2>1
  <2> HIDE DEF new
  <2>. QED  BY <1>3, <1>4, <1>6, <1>7, <2>1, <2>2 DEF Fits
<1>8. CASE ~(this.loc < chan.spi.loc) /\ this.loc < chan.reset.loc
  <2>1. new = [chan EXCEPT !.reset = this]
    BY <1>8 DEF SetSpiAndReset
  <2>2. chan = [spi |-> chan.spi, reset |-> chan.reset]
    BY DEF Fits
  <2>3. new = [spi |-> chan.spi, reset |-> this] /\ new.spi = chan.spi /\ new.reset = this
    BY <2>1, <2>2
  <2>4. chan.spi.loc < this.loc /\ chan.spi # NoChannel
    BY <1>1, <1>2, <1>5, <1>8
  <2> HIDE DEF new
  <2>. QED  BY <1>3, <1>4, <1>6, <2>3, <2>4 DEF Fits
<1>9. CASE ~(this.loc < chan.spi.loc) /\ ~(this.loc < chan.reset.loc)
  <2>1. new = chan
    BY <1>9 DEF SetSpiAndReset
  <2> HIDE DEF new
  <2>. QED  BY <1>4, <2>1 DEF Fits
<1>. QED  BY <1>7, <1>8, <1>9

\* What is chosen after channel i, from what was chosen before it.
Taken(list, serial, silent, chan, i) ==
  IF i \in silent \/ ~Wanted(ChannelInfo(list, i - 1), serial) THEN chan
  ELSE SetSpiAndReset(chan, Channel(list, i))

\* The recursive function of Choice, and that it exists.
IsLoop(f, list, serial, silent, m) ==
  f = [i \in 0..m |-> IF i = 0 THEN NoneYet ELSE Taken(list, serial, silent, f[i - 1], i)]

LEMMA ChoiceExists ==
  ASSUME NEW list, NEW serial, NEW silent, NEW m \in Nat
  PROVE  \E f : IsLoop(f, list, serial, silent, m)
<1> DEFINE step(f, i) == IF i = 0 THEN NoneYet ELSE Taken(list, serial, silent, f[i - 1], i)
           Bad == {n \in Nat : ~\E f : f = [i \in 0..n |-> step(f, i)]}
<1>1. SUFFICES ASSUME Bad # {} PROVE FALSE
  BY DEF IsLoop
<1>2. PICK n \in Bad : \A k \in Bad : n <= k
  <2> HIDE DEF Bad
  <2>1. Bad \in SUBSET Nat
    BY DEF Bad
  <2>. QED  BY <1>1, <2>1, Smallest
<1>3. n # 0
  <2>1. SUFFICES ASSUME n = 0 PROVE FALSE
    OBVIOUS
  <2> DEFINE f == [i \in 0..0 |-> NoneYet]
  <2>2. f = [i \in 0..0 |-> step(f, i)]
    OBVIOUS
  <2>. QED  BY <1>2, <2>1, <2>2
<1>4. n - 1 \in Nat /\ n - 1 \notin Bad
  BY <1>2, <1>3
<1>5. PICK g : g = [i \in 0..(n - 1) |-> step(g, i)]
  BY <1>4
<1> DEFINE f == [i \in 0..n |-> step(g, i)]
<1>6. \A i \in 0..n : step(g, i) = step(f, i)
  <2>1. SUFFICES ASSUME NEW i \in 0..n, i # 0 PROVE g[i - 1] = f[i - 1]
    OBVIOUS
  <2>2. i - 1 \in 0..(n - 1) /\ i - 1 \in 0..n
    BY <1>4, <2>1
  <2>3. g[i - 1] = step(g, i - 1)
    BY <1>5, <2>2
  <2>4. f[i - 1] = step(g, i - 1)
    BY <2>2
  <2>. QED  BY <2>3, <2>4
<1>7. f = [i \in 0..n |-> step(f, i)]
  BY <1>6
<1>. QED  BY <1>2, <1>7

\* The loop of ftdi_spi_init chooses what fits.
LEMMA ChoiceFits ==
  ASSUME NEW list \in Plugged, NEW serial, NEW silent
  PROVE  Fits(list, serial, NumChannels(list), Choice(list, serial, silent))
<1> DEFINE m == NumChannels(list)
           step(f, i) == IF i = 0 THEN NoneYet ELSE Taken(list, serial, silent, f[i - 1], i)
           after == CHOOSE f : f = [i \in 0..m |-> step(f, i)]
<1>1. m \in Nat
  BY ListOf
<1>2. Choice(list, serial, silent) = after[m]
  BY DEF Choice, Taken, Channel
<1>3. after = [i \in 0..m |-> step(after, i)]
  <2>1. \E f : IsLoop(f, list, serial, silent, m)
    <3> HIDE DEF m
    <3>. QED  BY <1>1, ChoiceExists
  <2>2. \E f : f = [i \in 0..m |-> step(f, i)]
    BY <2>1 DEF IsLoop
  <2>. QED  BY <2>2
<1>4. \A i \in 0..m : after[i] = step(after, i)
  <2> HIDE DEF after
  <2>. QED  BY <1>3
<1> HIDE DEF after, m
<1> DEFINE Bad == {i \in 0..m : ~Fits(list, serial, i, after[i])}
<1>5. Bad = {}
  <2>1. SUFFICES ASSUME Bad # {} PROVE FALSE
    OBVIOUS
  <2>2. PICK i \in Bad : \A k \in Bad : i <= k
    <3>1. Bad \in SUBSET Nat
      BY <1>1
    <3> HIDE DEF Bad
    <3>. QED  BY <2>1, <3>1, Smallest
  <2>3. i # 0
    <3>1. Fits(list, serial, 0, NoneYet)
      BY DEF Fits, NoneYet
    <3>2. 0 \in 0..m /\ after[0] = NoneYet
      BY <1>1, <1>4
    <3>. QED  BY <2>2, <3>1, <3>2
  <2>4. i \in 1..m /\ i - 1 \in 0..m /\ i - 1 \notin Bad
    BY <1>1, <2>2, <2>3
  <2>5. Fits(list, serial, i - 1, after[i - 1])
    BY <2>4
  <2>6. after[i] = Taken(list, serial, silent, after[i - 1], i)
    BY <1>4, <2>2, <2>3
  <2>7. CASE i \in silent \/ ~Wanted(ChannelInfo(list, i - 1), serial)
    <3>1. after[i] = after[i - 1]
      BY <2>6, <2>7 DEF Taken
    <3>2. \A c : Noted(list, serial, i - 1, c) => Noted(list, serial, i, c)
      BY <2>4, <1>1 DEF Noted
    <3>3. Fits(list, serial, i, after[i])
      BY <2>5, <3>1, <3>2 DEF Fits
    <3>. QED  BY <2>2, <3>3
  <2>8. CASE ~(i \in silent \/ ~Wanted(ChannelInfo(list, i - 1), serial))
    <3>1. after[i] = SetSpiAndReset(after[i - 1], Channel(list, i))
      BY <2>6, <2>8 DEF Taken
    <3>2. Fits(list, serial, i, after[i])
      BY <2>4, <2>5, <2>8, <3>1, TakesFitting DEF m
    <3>. QED  BY <2>2, <3>2
  <2>. QED  BY <2>7, <2>8
<1>6. m \in 0..m
  BY <1>1
<1>7. Fits(list, serial, m, after[m])
  BY <1>5, <1>6
<1>. QED  BY <1>2, <1>7 DEF m

\* A process that drives its lines has found two channels that fit.
Searched ==
  pc = "drive" /\ host = "ftdi" =>
    /\ shown \in Plugged /\ Found(chosen)
    /\ Fits(shown, wanted, NumChannels(shown), chosen)

LEMMA SearchedNext == Searched /\ [RNext]_rvars => Searched'
<1> SUFFICES ASSUME Searched, [RNext]_rvars, pc' = "drive", host' = "ftdi"
             PROVE  Searched'
  BY DEF Searched
<1>1. CASE Process
  <2>1. CASE Hard_reset
    <3>1. pc' # "drive"
      BY <2>1 DEF Hard_reset, Reset_device, Drive, Config, AssertReset, DeassertCs, Release,
                  ReleaseJtag, EnterSpi, ReadChipId, WriteReset, WriteClk, ClearManifest,
                  Again, Return
    <3>. QED  BY <3>1
  <2>2. CASE Soft_reset
    <3>1. pc = "config" /\ pc' \in {pc, "idle"}
      BY <2>2 DEF Soft_reset, ClearAon, ReadLatch, LatchLow, LatchHigh, LatchEnd, BootStep,
                  BootAddress, Clock, Interrupt, SoftAccess, SoftReturn
    <3>. QED  BY <3>1
  <2>. QED  BY <1>1, <2>1, <2>2 DEF Process
<1>2. CASE Between
  <2>1. CASE Search
    <3>1. PICK f \in Findings : /\ Found(f.chan)
                                /\ shown' = f.list /\ wanted' = f.serial /\ chosen' = f.chan
      BY <2>1 DEF Search
    <3>2. PICK list \in Plugged, serial \in SerialNumbers, silent \in SUBSET (1..MaxChannels) :
            f = [list |-> list, serial |-> serial, chan |-> Choice(list, serial, silent)]
      BY DEF Findings
    <3>3. shown' = list /\ wanted' = serial /\ chosen' = Choice(list, serial, silent)
          /\ Found(Choice(list, serial, silent))
      BY <3>1, <3>2
    <3>. QED  BY <3>3, ChoiceFits DEF Searched
  <2>2. CASE Ends
    BY <2>2 DEF Ends, End
  <2>3. CASE OthersUse
    <3>1. pc = "idle" /\ pc' = pc
      BY <2>3 DEF OthersUse, Sleep, Use, vars
    <3>. QED  BY <3>1
  <2>. QED  BY <1>2, <2>1, <2>2, <2>3 DEF Between
<1>3. CASE Driver \/ UNCHANGED rvars
  <2>1. UNCHANGED <<pc, host, search>>
    BY <1>3 DEF Driver, rvars, vars
  <2>. QED  BY <2>1 DEF Searched, search
<1>. QED  BY <1>1, <1>2, <1>3 DEF RNext

\* On a host with a driver nobody is at that access.
OnDriver == host = "driver" => pc = "idle"

LEMMA OnDriverNext == OnDriver /\ [RNext]_rvars => OnDriver'
BY DEF OnDriver, RNext, Process, Between, Driver, rvars, vars

\* What was found are two channels with an MPSSE, so if there are two that fit, they are
\* these.
LEMMA SearchFinds == Searched /\ OnDriver /\ host \in {"ftdi", "driver"} => OwnAdapter
<1> SUFFICES ASSUME Searched, host = "ftdi", pc = "drive", Cardinality(Candidates) = 2
             PROVE  LET spi == OpenChannel(shown, chosen.spi.number)
                        pins == OpenChannel(shown, chosen.reset.number)
                    IN {spi, pins} = Candidates /\ spi.loc < pins.loc
  BY DEF OwnAdapter, OnDriver
<1> DEFINE spi == OpenChannel(shown, chosen.spi.number)
           pins == OpenChannel(shown, chosen.reset.number)
           m == NumChannels(shown)
<1>1. /\ shown \in Plugged /\ Noted(shown, wanted, m, chosen.spi) /\ Noted(shown, wanted, m, chosen.reset)
      /\ chosen.spi.loc < chosen.reset.loc
  BY DEF Searched, Found, Fits
<1>2. PICK k \in 1..m : chosen.spi = Channel(shown, k) /\ Wanted(ChannelInfo(shown, k - 1), wanted)
  BY <1>1 DEF Noted
<1>3. PICK n \in 1..m : chosen.reset = Channel(shown, n) /\ Wanted(ChannelInfo(shown, n - 1), wanted)
  BY <1>1 DEF Noted
<1>4. ASSUME NEW j \in 1..m, Wanted(ChannelInfo(shown, j - 1), wanted)
      PROVE  OpenChannel(shown, j - 1) \in Candidates
  <2>1. DeviceOf(shown, j - 1) \in Available(shown)
    BY <1>1, DeviceIs
  <2>2. shown[DeviceOf(shown, j - 1)] \in ToSet(shown)
    BY <2>1 DEF Available, ToSet
  <2>. QED  BY <1>4, <2>1, <2>2 DEF Available, Candidates, OpenChannel, ChannelInfo
<1>5. spi = OpenChannel(shown, k - 1) /\ pins = OpenChannel(shown, n - 1)
  BY <1>2, <1>3 DEF Channel
<1>6. spi.loc = chosen.spi.loc /\ pins.loc = chosen.reset.loc
  BY <1>2, <1>3, <1>5 DEF Channel, OpenChannel, ChannelInfo
<1>7. spi \in Candidates /\ pins \in Candidates
  BY <1>2, <1>3, <1>4, <1>5
<1> HIDE DEF spi, pins
<1>8. spi.loc < pins.loc /\ spi # pins
  <2>1. chosen.spi.loc \in Nat
    BY <1>1, <1>2, Locations
  <2>. QED  BY <1>1, <1>6, <2>1
<1>9. IsFiniteSet(Candidates)
  <2> DEFINE at == [i \in 1..Len(shown) |-> shown[i]]
  <2>1. Len(shown) \in Nat /\ DOMAIN shown = 1..Len(shown)
    BY <1>1, ListOf
  <2>2. at \in Surjection(1..Len(shown), ToSet(shown))
    BY <2>1 DEF Surjection, ToSet
  <2>3. IsFiniteSet(1..Len(shown))
    BY <2>1, FS_Interval
  <2>4. IsFiniteSet(ToSet(shown))
    BY <2>2, <2>3, FS_Surjection
  <2>5. Candidates \in SUBSET ToSet(shown)
    BY DEF Candidates
  <2>. QED  BY <2>4, <2>5, FS_Subset
<1>10. Cardinality({spi, pins}) = 2
  <2>1. IsFiniteSet({spi}) /\ Cardinality({spi}) = 1
    BY FS_Singleton
  <2>2. {spi, pins} = {spi} \cup {pins} /\ pins \notin {spi}
    BY <1>8
  <2>3. Cardinality({spi} \cup {pins}) = 1 + 1
    BY <2>1, <2>2, FS_AddElement
  <2>. QED  BY <2>2, <2>3
<1>11. {spi, pins} = Candidates
  <2>1. {spi, pins} \in SUBSET Candidates
    BY <1>7
  <2>. QED  BY <1>9, <1>10, <2>1, FS_Subset
<1>. QED  BY <1>8, <1>11 DEF spi, pins

\* If the serial number fits one adapter, its two channels are the ones that are opened,
\* for every set of adapters, every order in which libftd2xx lists them, and whichever
\* channels' information could not be had.
THEOREM OwnChannelsFound == RSpec => []OwnAdapter
<1> DEFINE Inv == Searched /\ OnDriver /\ host \in {"ftdi", "driver"}
<1>1. RInit => Inv
  BY DEF RInit, Init, Searched, OnDriver
<1>2. Inv /\ [RNext]_rvars => Inv'
  <2>1. [RNext]_rvars => host' = host
    BY DEF RNext, Process, Between, Driver, rvars
  <2>. QED  BY <2>1, SearchedNext, OnDriverNext
<1>3. Inv => OwnAdapter
  BY SearchFinds
<1> HIDE DEF Inv
<1>. QED  BY <1>1, <1>2, <1>3, PTL DEF RSpec

-------------------------------------------------------------------------------
\* The soft reset.

SoftSteps == {"aon 0", "aon 1", "read latch", "latch low", "latch high", "latch end",
              "boot address", "clock", "interrupt"}

\* What a process knows of registers that nobody else touches while it runs.
SoftAchieved ==
  /\ soft \in {"off", "done"} \cup SoftSteps
  /\ aon \subseteq {0, 1}
  /\ reset = "low" => aon = {} /\ asleep = {} /\ latch = {}
  /\ soft \in SoftSteps => pc \in {"drive", "config"}
  /\ soft = "done" => pc = "idle"
  /\ soft \in {"aon 0", "aon 1", "read latch", "latch low"} => latch = before
  /\ pc = "drive" => soft \in {"off", "aon 0"}
  /\ soft = "aon 1" => aon \subseteq {1}
  /\ soft \in {"read latch", "latch low", "latch high"} => aon = {}
  /\ soft \in {"latch low", "latch high", "latch end"} => copy = before
  /\ soft = "latch high" => latch = before \ {0}
  /\ soft \in {"latch end", "boot address", "clock", "interrupt"} => asleep = {}
  /\ soft = "latch end" => latch = before \cup {0}
  /\ soft \in {"boot address", "clock", "interrupt"} => latch = before \ {0}
  /\ soft \in {"latch end", "boot address"} => boot = {}
  /\ soft = "clock" => boot = {"boot address"}
  /\ soft = "interrupt" => boot = {"boot address", "clock"}

SoftInv == SoftAchieved /\ SoftResets

LEMMA ErrorIsNotZero == -1 # 0
OBVIOUS

LEMMA SoftInit == RInit => SoftInv
BY DEF RInit, Init, SoftInv, SoftAchieved, SoftResets, SoftSteps

\* Before the first access of a soft reset, and in a hard one, the registers keep what
\* they hold or lose everything with the reset line.
LEMMA HardStep == ASSUME SoftInv, Hard_reset PROVE SoftInv'
<1> USE DEF SoftInv, SoftAchieved
<1>1. /\ soft \in {"off", "aon 0"} /\ (soft = "aon 0" => pc = "drive")
      /\ UNCHANGED <<soft, softret, copy, boot, before>>
  <2>1. pc # "idle"
    BY DEF Hard_reset, Reset_device, Drive, Config, AssertReset, DeassertCs, Release,
           ReleaseJtag, EnterSpi, ReadChipId, WriteReset, WriteClk, ClearManifest
  <2>. QED  BY <2>1 DEF Hard_reset, SoftSteps
<1>2. CASE pc = "drive"
  <2>1. pc' = "config" /\ reset' \in {reset, "high"}
    BY <1>2 DEF Hard_reset, Reset_device, Drive, Config, AssertReset, DeassertCs, Release,
                ReleaseJtag, EnterSpi, ReadChipId, WriteReset, WriteClk, ClearManifest,
                FailingLines, SetLines, lines
  <2>2. UNCHANGED regs
    BY <2>1 DEF Hard_reset, regs
  <2>. QED  BY <1>1, <2>1, <2>2 DEF SoftSteps, SoftResets, regs
<1>3. CASE pc # "drive"
  <2>1. soft = "off"
    BY <1>1, <1>3
  <2>2. aon' \subseteq {0, 1} /\ (reset' = "low" => aon' = {} /\ asleep' = {} /\ latch' = {})
    BY DEF Hard_reset, regs
  <2>3. pc' # "drive"
    BY DEF Hard_reset, Reset_device, Drive, Config, AssertReset, DeassertCs, Release,
           ReleaseJtag, EnterSpi, ReadChipId, WriteReset, WriteClk, ClearManifest, Return, Again
  <2>. QED  BY <1>1, <2>1, <2>2, <2>3 DEF SoftSteps, SoftResets
<1>. QED  BY <1>2, <1>3

\* Each access of a soft reset brings about what the next one relies on.
LEMMA SoftStep == ASSUME SoftInv, Soft_reset PROVE SoftInv'
<1> USE DEF SoftInv, SoftAchieved, SoftResets, SoftSteps
<1>1. ASSUME SoftReturn(-1), UNCHANGED reset, aon' \subseteq {0, 1},
             reset = "low" => aon' = {} /\ asleep' = {} /\ latch' = {}
      PROVE  SoftInv'
  <2>1. soft' = "done" /\ pc' = "idle" /\ softret' # 0 /\ reset' = reset
    <3>1. soft' = "done" /\ pc' = "idle" /\ softret' = -1
      BY <1>1 DEF SoftReturn
    <3>. QED  BY <1>1, <3>1, ErrorIsNotZero
  <2>2. SoftResets'
    BY <2>1
  <2>3. SoftAchieved'
    BY <1>1, <2>1
  <2>. QED  BY <2>2, <2>3
<1>3. CASE ClearAon(0, "aon 0", "aon 1")
  BY <1>1, <1>3 DEF ClearAon, SoftAccess, effects, regs
<1>4. CASE ClearAon(1, "aon 1", "read latch")
  BY <1>1, <1>4 DEF ClearAon, SoftAccess, effects, regs
<1>5. CASE ReadLatch
  BY <1>1, <1>5 DEF ReadLatch, SoftAccess, effects, regs
<1>6. CASE LatchLow
  BY <1>1, <1>6 DEF LatchLow, WriteLatch, SoftAccess, effects, regs
<1>7. CASE LatchHigh
  BY <1>1, <1>7 DEF LatchHigh, WriteLatch, SoftAccess, effects, regs
<1>8. CASE LatchEnd
  BY <1>1, <1>8 DEF LatchEnd, WriteLatch, SoftAccess, effects, regs
<1>9. CASE BootAddress
  BY <1>1, <1>9 DEF BootAddress, BootStep, SoftAccess, effects, regs
<1>10. CASE Clock
  BY <1>1, <1>10 DEF Clock, BootStep, SoftAccess, effects, regs
<1>11. CASE Interrupt
  BY <1>1, <1>11 DEF Interrupt, SoftReturn
<1>. QED
  BY <1>3, <1>4, <1>5, <1>6, <1>7, <1>8, <1>9, <1>10, <1>11 DEF Soft_reset

LEMMA SoftNext == ASSUME SoftInv, [RNext]_rvars PROVE SoftInv'
<1> USE DEF SoftInv, SoftAchieved, SoftResets, SoftSteps
<1>1. CASE Process
  BY <1>1, HardStep, SoftStep DEF Process
<1>2. CASE Search
  BY <1>2 DEF Search, Open, regs
<1>3. CASE Ends
  BY <1>3 DEF Ends, End, effects, regs
<1>4. CASE OthersUse
  BY <1>4 DEF OthersUse, Sleep, Use, vars, effects, regs
<1>5. CASE Driver \/ UNCHANGED rvars
  BY <1>5 DEF Driver, rvars, vars, softs, effects, regs
<1>. QED  BY <1>1, <1>2, <1>3, <1>4, <1>5 DEF RNext, Between

\* A soft reset that returns 0 has lifted the sleep, left the other bits of the latch as
\* they were and booted the chip, whatever earlier processes left behind.
THEOREM SoftResetCorrect == RSpec => []SoftResets
<1>1. SoftInv => SoftResets
  BY DEF SoftInv
<1>. QED  BY <1>1, SoftInit, SoftNext, PTL DEF RSpec

-------------------------------------------------------------------------------
\* The GPIO.

\* The process that has the pin to itself is where its pulse is.
Alone ==
  /\ gpc \in [Procs -> {"start", "export", "out", "value", "in", "look", "unexport",
                        "done", "killed"}]
  /\ gret \in [Procs -> {0, -1}]
  /\ \A p \in Gpio!Running \ gcrowded :
       /\ Gpio!Running = {p}
       /\ gpc[p] \in {"value", "in"} => p \in glow
       /\ gpc[p] \in {"look", "unexport"} => p \in gsent /\ Gpio!Level = 1

\* A chip that is held in reset is held by a process that has yet to let go of it, or
\* by one that failed or was killed.
Held ==
  Gpio!Level # 1 =>
    \E p \in Procs : gpc[p] \in {"value", "in", "killed"} \/ (gpc[p] = "done" /\ gret[p] = -1)

GpioInv == Alone /\ Held /\ LastReleases

LEMMA GpioInit == RInit => GpioInv
BY DEF RInit, Gpio!Init, GpioInv, Alone, Held, LastReleases, Gpio!LastReleases, Gpio!Level,
       Gpio!Running, Gpio!Succeeded

\* A process makes an access and has another one to make.
LEMMA GoesOn ==
  ASSUME GpioInv, NEW p \in Gpio!Running,
         NEW next \in {"out", "value", "in", "look", "unexport"},
         Gpio!Continue(p, next), UNCHANGED gcrowded,
         next \in {"value", "in"} /\ p \notin gcrowded => p \in glow',
         next \in {"look", "unexport"} /\ p \notin gcrowded => p \in gsent' /\ Gpio!Level' = 1,
         Held'
  PROVE  GpioInv'
<1>1. /\ p \in Procs /\ gpc' \in [Procs -> {"start", "export", "out", "value", "in", "look",
                                            "unexport", "done", "killed"}]
      /\ gret' \in [Procs -> {0, -1}] /\ gpc'[p] = next
      /\ \A q \in Procs : q # p => gpc'[q] = gpc[q]
  BY DEF Gpio!Running, Gpio!Continue, Gpio!Goto, GpioInv, Alone
<1>2. Gpio!Running' = Gpio!Running
  BY <1>1 DEF Gpio!Running
<1>3. Alone'
  <2>1. ASSUME NEW q \in Gpio!Running' \ gcrowded' PROVE q = p /\ Gpio!Running' = {q}
    BY <1>2 DEF GpioInv, Alone
  <2>. QED  BY <1>1, <2>1 DEF Alone
<1>4. LastReleases'
  BY <1>2 DEF LastReleases, Gpio!LastReleases
<1>. QED  BY <1>3, <1>4 DEF GpioInv

\* A process ends.
LEMMA Finishes ==
  ASSUME GpioInv, NEW p \in Gpio!Running, NEW next \in {"done", "killed"},
         NEW r \in {0, -1}, Gpio!Goto(p, next), UNCHANGED gcrowded,
         gret' = [gret EXCEPT ![p] = r],
         next = "done" /\ r = 0 /\ p \notin gcrowded => p \in gsent' /\ Gpio!Level' = 1,
         Held'
  PROVE  GpioInv'
<1>1. /\ p \in Procs /\ gpc' \in [Procs -> {"start", "export", "out", "value", "in", "look",
                                            "unexport", "done", "killed"}]
      /\ gret' \in [Procs -> {0, -1}] /\ gpc'[p] = next /\ gret'[p] = r /\ glast' = p
      /\ \A q \in Procs : q # p => gpc'[q] = gpc[q]
  BY DEF Gpio!Running, Gpio!Goto, GpioInv, Alone
<1>2. Gpio!Running' = Gpio!Running \ {p}
  BY <1>1 DEF Gpio!Running
<1>3. Alone'
  <2>1. ASSUME NEW q \in Gpio!Running' \ gcrowded' PROVE FALSE
    BY <1>2 DEF GpioInv, Alone
  <2>. QED  BY <1>1, <2>1 DEF Alone
<1>4. LastReleases'
  BY <1>1 DEF LastReleases, Gpio!LastReleases, Gpio!Succeeded
<1>. QED  BY <1>3, <1>4 DEF GpioInv

\* An access that leaves the pin as it is, or turns it into an input, leaves it to those
\* who had it.
LEMMA StillHeld ==
  ASSUME GpioInv, NEW p \in Procs, NEW next, NEW r, gpc' = [gpc EXCEPT ![p] = next],
         gret' = [gret EXCEPT ![p] = r],
         Gpio!Level' = 1 \/ (UNCHANGED <<gdirection, gvalue>> /\
            (gpc[p] \in {"value", "in", "killed", "done"}
                => next \in {"value", "in", "killed"} \/ (next = "done" /\ r = -1)))
  PROVE  Held'
<1>1. CASE Gpio!Level' = 1
  BY <1>1 DEF Held
<1>2. CASE Gpio!Level' # 1
  <2>1. Gpio!Level # 1
    BY <1>2 DEF Gpio!Level
  <2>2. PICK q \in Procs : gpc[q] \in {"value", "in", "killed"} \/ (gpc[q] = "done" /\ gret[q] = -1)
    BY <2>1 DEF GpioInv, Held
  <2>3. gpc'[q] \in {"value", "in", "killed"} \/ (gpc'[q] = "done" /\ gret'[q] = -1)
    BY <1>2, <2>2 DEF GpioInv, Alone
  <2>. QED  BY <2>3 DEF Held
<1>. QED  BY <1>1, <1>2

LEMMA FailsInv ==
  ASSUME GpioInv, NEW p \in Gpio!Running, Gpio!Return(p, -1),
         UNCHANGED <<gcrowded, gdirection, gvalue>>
  PROVE  GpioInv'
<1>1. p \in Procs /\ gpc' = [gpc EXCEPT ![p] = "done"] /\ gret' = [gret EXCEPT ![p] = -1]
  BY DEF Gpio!Running, Gpio!Return, Gpio!Goto
<1>2. Held'
  BY <1>1, StillHeld
<1>3. Gpio!Goto(p, "done")
  BY DEF Gpio!Return
<1>. QED  BY <1>1, <1>2, <1>3, Finishes, ErrorIsNotZero

\* An access that succeeds and leaves the level alone.
LEMMA Passes ==
  ASSUME GpioInv, NEW p \in Gpio!Running, NEW next, Gpio!Continue(p, next),
         UNCHANGED <<gdirection, gvalue>>,
         gpc[p] \notin {"value", "in"} \/ next = "killed"
  PROVE  Held' /\ Gpio!Level' = Gpio!Level
<1>1. p \in Procs /\ gpc' = [gpc EXCEPT ![p] = next] /\ gret' = [gret EXCEPT ![p] = gret[p]]
  BY DEF Gpio!Running, Gpio!Continue, Gpio!Goto, GpioInv, Alone
<1>2. gpc[p] \in {"value", "in", "killed", "done"}
        => next \in {"value", "in", "killed"} \/ (next = "done" /\ gret[p] = -1)
  BY DEF Gpio!Running
<1>3. Held'
  BY <1>1, <1>2, StillHeld
<1>. QED  BY <1>3 DEF Gpio!Level

LEMMA LookInv == ASSUME GpioInv, NEW p \in Procs, Gpio!Look(p) PROVE GpioInv'
<1>1. PICK next \in {"out", "export"} : gpc' = [gpc EXCEPT ![p] = next]
  BY DEF Gpio!Look, Gpio!Continue, Gpio!Goto
<1>2. /\ gpc' \in [Procs -> {"start", "export", "out", "value", "in", "look", "unexport",
                             "done", "killed"}]
      /\ gpc'[p] = next /\ gpc[p] = "start" /\ UNCHANGED <<gret, gdirection, gvalue>>
      /\ \A q \in Procs : q # p => gpc'[q] = gpc[q]
  BY <1>1 DEF Gpio!Look, Gpio!Continue, GpioInv, Alone
<1>3. Gpio!Running' = Gpio!Running \cup {p}
  BY <1>2 DEF Gpio!Running
<1>4. \A q \in Gpio!Running' \ gcrowded' : q = p /\ Gpio!Running' = {p}
  BY <1>3 DEF Gpio!Look
<1>5. Alone'
  BY <1>2, <1>4 DEF Alone, GpioInv
<1>6. Held'
  <2>1. gret' = [gret EXCEPT ![p] = gret[p]]
    BY <1>2 DEF GpioInv, Alone
  <2>. QED  BY <1>1, <1>2, <2>1, StillHeld
<1>7. LastReleases'
  BY <1>3 DEF LastReleases, Gpio!LastReleases
<1>. QED  BY <1>5, <1>6, <1>7 DEF GpioInv

LEMMA AccessInv ==
  ASSUME GpioInv, NEW p \in Procs, Gpio!Access(p), UNCHANGED gcrowded PROVE GpioInv'
<1>1. ASSUME Gpio!Return(p, -1), UNCHANGED <<gdirection, gvalue>>, p \in Gpio!Running
      PROVE  GpioInv'
  BY <1>1, FailsInv
<1>2. ASSUME p \in Gpio!Running, p \notin gcrowded
      PROVE  /\ gpc[p] \in {"value", "in"} => p \in glow
             /\ gpc[p] \in {"look", "unexport"} => p \in gsent /\ Gpio!Level = 1
  BY <1>2 DEF GpioInv, Alone
<1>3. CASE Gpio!Export(p)
  <2>1. p \in Gpio!Running /\ gpc[p] = "export" /\ UNCHANGED <<gdirection, gvalue>>
    BY <1>3 DEF Gpio!Export, Gpio!Running
  <2>2. CASE Gpio!Continue(p, "out")
    BY <2>1, <2>2, Passes, GoesOn
  <2>. QED  BY <1>1, <1>3, <2>1, <2>2 DEF Gpio!Export
<1>4. CASE Gpio!DirectionOut(p)
  <2>1. p \in Gpio!Running /\ gpc[p] = "out"
    BY <1>4 DEF Gpio!DirectionOut, Gpio!Running
  <2>2. CASE Gpio!Continue(p, "value") /\ glow' = glow \cup {p}
    <3>1. gpc'[p] = "value"
      BY <2>2 DEF Gpio!Continue, Gpio!Goto, GpioInv, Alone
    <3>2. Held'
      BY <3>1 DEF Held
    <3>. QED  BY <2>1, <2>2, <3>2, GoesOn
  <2>. QED  BY <1>1, <1>4, <2>1, <2>2 DEF Gpio!DirectionOut
<1>5. CASE Gpio!DriveLow(p)
  <2>1. p \in Gpio!Running /\ gpc[p] = "value" /\ UNCHANGED <<glow, gdirection>>
    BY <1>5 DEF Gpio!DriveLow, Gpio!Running
  <2>2. CASE Gpio!Continue(p, "in")
    <3>1. gpc'[p] = "in"
      BY <2>2 DEF Gpio!Continue, Gpio!Goto, GpioInv, Alone
    <3>2. Held'
      BY <3>1 DEF Held
    <3>. QED  BY <1>2, <2>1, <2>2, <3>2, GoesOn
  <2>. QED  BY <1>1, <1>5, <2>1, <2>2 DEF Gpio!DriveLow
<1>6. CASE Gpio!DirectionIn(p)
  <2>1. /\ p \in Gpio!Running /\ gpc[p] = "in"
        /\ gsent' = IF p \in glow THEN gsent \cup {p} ELSE gsent
    BY <1>6 DEF Gpio!DirectionIn, Gpio!Running
  <2>2. CASE Gpio!LetGo /\ Gpio!Continue(p, "look")
    <3>1. Gpio!Level' = 1
      BY <2>2 DEF Gpio!LetGo, Gpio!Level
    <3>2. Held'
      BY <3>1 DEF Held
    <3>. QED  BY <1>2, <2>1, <2>2, <3>1, <3>2, GoesOn
  <2>. QED  BY <1>1, <1>6, <2>1, <2>2 DEF Gpio!DirectionIn
<1>7. ASSUME Gpio!Return(p, 0), gpc[p] \in {"look", "unexport"}, UNCHANGED gsent,
             Gpio!LetGo \/ UNCHANGED <<gdirection, gvalue>>
      PROVE  GpioInv'
  <2>1. /\ p \in Gpio!Running /\ gret' = [gret EXCEPT ![p] = 0]
        /\ gpc' = [gpc EXCEPT ![p] = "done"] /\ Gpio!Goto(p, "done")
    BY <1>7 DEF Gpio!Return, Gpio!Goto, Gpio!Running
  <2>2. Gpio!Level' = 1 \/ UNCHANGED <<gdirection, gvalue>>
    BY <1>7 DEF Gpio!LetGo, Gpio!Level
  <2>3. Held'
    BY <1>7, <2>1, <2>2, StillHeld
  <2>4. p \notin gcrowded => p \in gsent' /\ Gpio!Level' = 1
    BY <1>2, <1>7, <2>1, <2>2 DEF Gpio!Level
  <2>. QED  BY <2>1, <2>3, <2>4, Finishes
<1>8. CASE Gpio!LookAgain(p)
  <2>1. /\ p \in Gpio!Running /\ gpc[p] = "look" /\ UNCHANGED <<gsent, gdirection, gvalue>>
        /\ Gpio!Continue(p, "unexport") \/ Gpio!Return(p, 0)
    BY <1>8 DEF Gpio!LookAgain, Gpio!Running
  <2>2. CASE Gpio!Continue(p, "unexport")
    BY <1>2, <2>1, <2>2, Passes, GoesOn
  <2>. QED  BY <1>7, <2>1, <2>2
<1>9. CASE Gpio!Unexport(p)
  <2>1. p \in Gpio!Running /\ gpc[p] = "unexport" /\ UNCHANGED gsent
    BY <1>9 DEF Gpio!Unexport, Gpio!Running
  <2>. QED  BY <1>1, <1>7, <1>9, <2>1 DEF Gpio!Unexport
<1>10. CASE Gpio!Kill(p)
  <2>1. /\ p \in Gpio!Running /\ Gpio!Continue(p, "killed") /\ UNCHANGED <<gdirection, gvalue>>
        /\ gret' = [gret EXCEPT ![p] = gret[p]] /\ gret[p] \in {0, -1} /\ Gpio!Goto(p, "killed")
    BY <1>10 DEF Gpio!Kill, Gpio!Continue, GpioInv, Alone
  <2>2. Held'
    BY <2>1, Passes
  <2>. QED  BY <2>1, <2>2, Finishes
<1>. QED
  BY <1>3, <1>4, <1>5, <1>6, <1>8, <1>9, <1>10 DEF Gpio!Access

LEMMA NoPinInv == ASSUME GpioInv, NoPin PROVE GpioInv'
<1>1. PICK p \in Procs : /\ gpc[p] = "start" /\ Gpio!Return(p, -1)
                         /\ UNCHANGED <<glow, gsent, gcrowded, gexported, gdirection, gvalue>>
  BY DEF NoPin
<1>2. /\ gpc' = [gpc EXCEPT ![p] = "done"] /\ gret' = [gret EXCEPT ![p] = -1] /\ glast' = p
  BY <1>1 DEF Gpio!Return, Gpio!Goto
<1>3. /\ gpc' \in [Procs -> {"start", "export", "out", "value", "in", "look", "unexport",
                             "done", "killed"}]
      /\ gret' \in [Procs -> {0, -1}] /\ gret'[p] = -1 /\ gpc'[p] = "done"
      /\ \A q \in Procs : q # p => gpc'[q] = gpc[q]
  BY <1>2 DEF GpioInv, Alone
<1>4. Gpio!Running' = Gpio!Running /\ p \notin Gpio!Running
  BY <1>1, <1>3 DEF Gpio!Running
<1>5. Alone'
  <2>1. ASSUME NEW q \in Gpio!Running' \ gcrowded' PROVE q \in Procs /\ q # p
    BY <1>4 DEF Gpio!Running
  <2>. QED  BY <1>1, <1>3, <1>4, <2>1 DEF GpioInv, Alone, Gpio!Level
<1>6. Held'
  <2>1. gpc[p] = "start" /\ UNCHANGED <<gdirection, gvalue>>
    BY <1>1
  <2>. QED  BY <1>2, <2>1, StillHeld
<1>7. LastReleases'
  BY <1>2, <1>3, ErrorIsNotZero DEF LastReleases, Gpio!LastReleases, Gpio!Succeeded
<1>. QED  BY <1>5, <1>6, <1>7 DEF GpioInv

LEMMA GpioNext == ASSUME GpioInv, [RNext]_rvars PROVE GpioInv'
<1>1. CASE NoPin
  BY <1>1, NoPinInv
<1>2. CASE Gpio!Next
  BY <1>2, LookInv, AccessInv DEF Gpio!Next
<1>3. CASE UNCHANGED gpios
  BY <1>3 DEF gpios, GpioInv, Alone, Held, LastReleases, Gpio!LastReleases, Gpio!Level,
              Gpio!Running, Gpio!Succeeded
<1>. QED  BY <1>1, <1>2, <1>3 DEF RNext, Process, Between, Driver, rvars

LEMMA GpioInvariance == RSpec => []GpioInv
BY GpioInit, GpioNext, PTL DEF RSpec

\* However many processes share the pin and whatever became of those before it, one that
\* had the pin to itself and returns 0 has reset the chip and let go of it.
THEOREM LastProcessReleases == RSpec => []LastReleases
<1>1. GpioInv => LastReleases
  BY DEF GpioInv
<1>. QED  BY <1>1, GpioInvariance, PTL

\* If none of the processes that share the pin fails or is killed, none holds the chip.
THEOREM AllProcessesRelease == RSpec => []AllRelease
<1>1. GpioInv => AllRelease
  BY ErrorIsNotZero DEF GpioInv, Alone, Held, AllRelease, Gpio!AllRelease, Gpio!Succeeded
<1>. QED  BY <1>1, GpioInvariance, PTL

===============================================================================
