----------------------------- MODULE ElfLoadProofs -----------------------------
(***************************************************************************)
(* Proofs about load_elf, for every set of files and every chip memory:    *)
(* whatever fails, only addresses of the file's image change; and a load   *)
(* of a whole file that returns 0 has left the image in chip memory but    *)
(* for what mem_write has hidden, of a program whatever has failed.        *)
(***************************************************************************)
EXTENDS ElfLoad, WellFoundedInduction, TLAPS

-------------------------------------------------------------------------------
\* The blobs of a file.

\* The addresses of blob i.
Span(i) == Addresses(blobs[i])

\* The blobs that are loaded over address a.
Over(a) == {i \in 1..Len(blobs) : ~Skipped(i) /\ a \in Span(i)}

\* The sections of a board configuration file have been found.
Found == file.bcf => Acceptable(file)

\* What the blobs, and those in the file, are made of.
BlobTypes ==
  /\ Len(blobs) \in Nat
  /\ \A i \in 1..Len(blobs) : blobs[i].off \in Nat /\ blobs[i].size \in Nat /\ blobs[i].addr \in Nat

\* A set of numbers up to n has a greatest one.
LEMMA Greatest ==
  ASSUME NEW n \in Nat, NEW S \in SUBSET (1..n), S # {}
  PROVE  \E i \in S : \A j \in S : j <= i
<1> DEFINE T == {k \in Nat : n - k \in S}
<1>0. \A i \in S : n - i \in Nat /\ n - (n - i) = i
  OBVIOUS
<1>1. T \subseteq Nat /\ T # {}
  BY <1>0
<1>2. PICK x \in T : \A y \in T : <<y, x>> \notin OpToRel(<, Nat)
  BY <1>1, WFMin, NatLessThanWellFounded, Zenon
<1>3. \A y \in T : ~(y < x)
  BY <1>1, <1>2 DEF OpToRel
<1>4. n - x \in S
  OBVIOUS
<1>5. \A j \in S : n - j \in T
  BY <1>0
<1>6. \A j \in S : j <= n - x
  BY <1>3, <1>5
<1>7. QED
  BY <1>4, <1>6

\* The parts of a file are typed.
LEMMA FileTypes ==
  ASSUME NEW f \in Files
  PROVE  /\ f.size \in Nat /\ f.bcf \in BOOLEAN /\ f.parts \in Seq(Part)
         /\ Len(f.parts) \in Nat /\ DOMAIN f.parts = 1..Len(f.parts)
         /\ \A i \in 1..Len(f.parts) : /\ f.parts[i].off \in Nat /\ f.parts[i].size \in Nat
                                       /\ f.parts[i].addr \in Chip
<1>1. f.size \in Nat /\ f.bcf \in BOOLEAN /\ f.parts \in Seq(Part)
  BY ElfLoadAssumption
<1>2. Len(f.parts) \in Nat /\ DOMAIN f.parts = 1..Len(f.parts)
  BY <1>1
<1>3. \A i \in 1..Len(f.parts) : f.parts[i] \in Part
  BY <1>1
<1>4. \A p \in Part : p.off \in Nat /\ p.size \in Nat /\ p.addr \in Chip
  BY DEF Part
<1>5. QED
  BY <1>1, <1>2, <1>3, <1>4

\* Addresses are numbers.
LEMMA ChipAddresses == Chip \subseteq Nat
BY ElfLoadAssumption

\* A section is one of the file's, or one without contents.
LEMMA SectionIs ==
  ASSUME NEW f \in Files, NEW kind
  PROVE  \/ \E i \in 1..Len(f.parts) : Section(f, kind) = f.parts[i]
         \/ Section(f, kind) = [off |-> 0, size |-> 0, addr |-> 0]
<1> DEFINE is == {i \in DOMAIN f.parts : f.parts[i].kind = kind}
<1>1. CASE is = {}
  BY <1>1 DEF Section
<1>2. CASE is # {}
  <2>1. is \in SUBSET (1..Len(f.parts)) /\ Len(f.parts) \in Nat
    BY FileTypes
  <2>2. \E i \in is : \A j \in is : j <= i
    BY <1>2, <2>1, Greatest
  <2>3. (CHOOSE i \in is : \A j \in is : j <= i) \in is
    BY <2>2
  <2>4. QED
    BY <1>2, <2>1, <2>3 DEF Section
<1>3. QED
  BY <1>1, <1>2

\* The fields of a section are numbers.
LEMMA SectionTypes ==
  ASSUME NEW f \in Files, NEW kind
  PROVE  /\ Section(f, kind).off \in Nat /\ Section(f, kind).size \in Nat
         /\ Section(f, kind).addr \in Nat
<1>1. CASE \E i \in 1..Len(f.parts) : Section(f, kind) = f.parts[i]
  BY <1>1, FileTypes, ChipAddresses
<1>2. CASE Section(f, kind) = [off |-> 0, size |-> 0, addr |-> 0]
  BY <1>2
<1>3. QED
  BY <1>1, <1>2, SectionIs

\* A section of a whole file that is there is there as a whole.
LEMMA SectionWhole ==
  ASSUME NEW f \in Files, NEW kind, Whole(f), Present(Section(f, kind))
  PROVE  Section(f, kind).off + Section(f, kind).size <= f.size
BY SectionIs, FileTypes DEF Whole, Present

\* The blobs of a program are its headers.
LEMMA ProgramBlobsAre ==
  ASSUME file \in Files, ~file.bcf
  PROVE  /\ Len(blobs) = Len(file.parts)
         /\ \A i \in 1..Len(blobs) : /\ blobs[i].off = file.parts[i].off
                                     /\ blobs[i].size = file.parts[i].size
                                     /\ blobs[i].addr = file.parts[i].addr
<1>1. Len(blobs) = Len(file.parts)
  BY FileTypes DEF blobs, ProgramBlobs
<1>2. ASSUME NEW i \in 1..Len(blobs)
      PROVE  /\ blobs[i].off = file.parts[i].off
             /\ blobs[i].size = file.parts[i].size
             /\ blobs[i].addr = file.parts[i].addr
  <2>1. i \in DOMAIN file.parts
    BY <1>1, FileTypes
  <2>2. blobs[i] = Blob(file.parts[i], file.parts[i].addr)
    BY <2>1 DEF blobs, ProgramBlobs
  <2>3. QED
    BY <2>2 DEF Blob
<1>3. QED
  BY <1>1, <1>2

\* Those of a board configuration file are its two sections.
LEMMA BcfBlobsAre ==
  ASSUME file \in Files, file.bcf
  PROVE  /\ Len(blobs) = 2
         /\ blobs[1] = Blob(Section(file, "board"), Section(file, "board").addr)
         /\ blobs[2] = Blob(Section(file, "regdom"),
                            Section(file, "board").addr + Section(file, "board").size)
BY DEF blobs, BcfBlobs

\* A blob is typed.
LEMMA BlobsTyped == file \in Files => BlobTypes
<1> SUFFICES ASSUME file \in Files PROVE BlobTypes
  OBVIOUS
<1>1. CASE file.bcf
  <2>1. Len(blobs) = 2
    BY <1>1, BcfBlobsAre
  <2>2. /\ blobs[1].off \in Nat /\ blobs[1].size \in Nat /\ blobs[1].addr \in Nat
        /\ blobs[2].off \in Nat /\ blobs[2].size \in Nat
    BY <1>1, BcfBlobsAre, SectionTypes DEF Blob
  <2>3. blobs[2].addr = Section(file, "board").addr + Section(file, "board").size
    BY <1>1, BcfBlobsAre DEF Blob
  <2>4. blobs[2].addr \in Nat
    BY <2>3, SectionTypes
  <2>5. \A i \in 1..Len(blobs) : i = 1 \/ i = 2
    BY <2>1
  <2>6. QED
    BY <2>1, <2>2, <2>4, <2>5 DEF BlobTypes
<1>2. CASE ~file.bcf
  <2>1. Len(blobs) = Len(file.parts) /\ Len(blobs) \in Nat
    BY <1>2, ProgramBlobsAre, FileTypes
  <2>2. \A i \in 1..Len(blobs) : /\ blobs[i].off = file.parts[i].off
                                 /\ blobs[i].size = file.parts[i].size
                                 /\ blobs[i].addr = file.parts[i].addr
    BY <1>2, ProgramBlobsAre
  <2>3. \A i \in 1..Len(file.parts) : /\ file.parts[i].off \in Nat /\ file.parts[i].size \in Nat
                                      /\ file.parts[i].addr \in Nat
    BY FileTypes, ChipAddresses
  <2>4. QED
    BY <2>1, <2>2, <2>3 DEF BlobTypes
<1>3. QED
  BY <1>1, <1>2

\* The blobs of a whole file are whole.
LEMMA BlobsWhole ==
  ASSUME file \in Files, Found, Whole(file), NEW i \in 1..Len(blobs)
  PROVE  blobs[i].off + blobs[i].size <= file.size
<1>1. CASE file.bcf
  <2>1. Present(Section(file, "board")) /\ Present(Section(file, "regdom"))
    BY <1>1 DEF Found, Acceptable
  <2>2. /\ Section(file, "board").off + Section(file, "board").size <= file.size
        /\ Section(file, "regdom").off + Section(file, "regdom").size <= file.size
    BY <2>1, SectionWhole
  <2>0. Len(blobs) = 2
    BY <1>1, BcfBlobsAre
  <2>3. i = 1 \/ i = 2
    BY <2>0
  <2>4. QED
    BY <1>1, <2>2, <2>3, BcfBlobsAre DEF Blob
<1>2. CASE ~file.bcf
  <2>1. Len(blobs) = Len(file.parts)
    BY <1>2, ProgramBlobsAre
  <2>2. blobs[i].off = file.parts[i].off /\ blobs[i].size = file.parts[i].size
    BY <1>2, ProgramBlobsAre
  <2>3. i \in DOMAIN file.parts
    BY <2>1, FileTypes
  <2>4. QED
    BY <2>2, <2>3 DEF Whole
<1>3. QED
  BY <1>1, <1>2

-------------------------------------------------------------------------------
\* What a blob is loaded over belongs to the image.

\* The sections of a board configuration file do not overlap.
LEMMA BcfImage ==
  ASSUME file \in Files, file.bcf, NEW a \in Chip
  PROVE  /\ a \in Span(1) => Image(file)[a] = blobs[1].off + (a - blobs[1].addr)
         /\ a \in Span(2) => Image(file)[a] = blobs[2].off + (a - blobs[2].addr)
         /\ a \notin Span(1) /\ a \notin Span(2) => Image(file)[a] = Old
<1> DEFINE board == Section(file, "board")
           regdom == Section(file, "regdom")
           off == a - board.addr
<1>1. /\ board.off \in Nat /\ board.size \in Nat /\ board.addr \in Nat
      /\ regdom.off \in Nat /\ regdom.size \in Nat /\ a \in Nat
  BY SectionTypes, ChipAddresses
<1>2. /\ blobs[1].off = board.off /\ blobs[1].addr = board.addr /\ blobs[1].size = board.size
      /\ blobs[2].off = regdom.off /\ blobs[2].size = regdom.size
  BY BcfBlobsAre DEF Blob
<1>3. blobs[2].addr = board.addr + board.size
  BY BcfBlobsAre DEF Blob
<1>4. Image(file)[a] = CASE off \in 0..(board.size - 1) -> board.off + off
                         [] off \in board.size..(board.size + regdom.size - 1) ->
                              regdom.off + off - board.size
                         [] off \notin 0..(board.size + regdom.size - 1) -> Old
  BY DEF Image
<1> HIDE DEF board, regdom
<1>5. a \in Span(1) <=> off \in 0..(board.size - 1)
  BY <1>1, <1>2 DEF Span, Addresses
<1>6. a \in Span(2) <=> off \in board.size..(board.size + regdom.size - 1)
  BY <1>1, <1>2, <1>3 DEF Span, Addresses
<1>7. ASSUME a \in Span(1)
      PROVE  Image(file)[a] = blobs[1].off + (a - blobs[1].addr)
  BY <1>1, <1>2, <1>4, <1>5, <1>7
<1>8. ASSUME a \in Span(2)
      PROVE  Image(file)[a] = blobs[2].off + (a - blobs[2].addr)
  BY <1>1, <1>2, <1>3, <1>4, <1>6, <1>8
<1>9. ASSUME a \notin Span(1), a \notin Span(2)
      PROVE  Image(file)[a] = Old
  BY <1>1, <1>4, <1>5, <1>6, <1>9
<1>10. QED
  BY <1>7, <1>8, <1>9

\* Of the segments over an address the last one counts.
LEMMA ProgramImage ==
  ASSUME file \in Files, ~file.bcf, NEW a \in Chip
  PROVE  /\ Over(a) = {} => Image(file)[a] = Old
         /\ \A i \in Over(a) : (\A j \in Over(a) : j <= i)
                                 => Image(file)[a] = blobs[i].off + (a - blobs[i].addr)
<1>1. Len(blobs) = Len(file.parts) /\ Len(blobs) \in Nat /\ DOMAIN file.parts = 1..Len(blobs)
  BY ProgramBlobsAre, FileTypes
<1>3. \A i \in 1..Len(blobs) : /\ file.parts[i].off = blobs[i].off
                               /\ file.parts[i].size = blobs[i].size
                               /\ file.parts[i].addr = blobs[i].addr
  BY ProgramBlobsAre
<1>4. Covering(file, a) = Over(a)
  BY <1>1, <1>3 DEF Covering, Over, Span, Skipped, Addresses
<1>5. ASSUME Over(a) = {} PROVE Image(file)[a] = Old
  BY <1>4, <1>5 DEF Image
<1>6. ASSUME NEW i \in Over(a), \A j \in Over(a) : j <= i
      PROVE  Image(file)[a] = blobs[i].off + (a - blobs[i].addr)
  <2>1. Over(a) \subseteq 1..Len(blobs)
    BY DEF Over
  <2>2. \A k \in Over(a) : (\A j \in Over(a) : j <= k) => k = i
    BY <1>1, <1>6, <2>1
  <2>3. (CHOOSE k \in Over(a) : \A j \in Over(a) : j <= k) = i
    BY <1>6, <2>2
  <2>4. Image(file)[a] = file.parts[i].off + a - file.parts[i].addr
    BY <1>4, <1>6, <2>3 DEF Image
  <2>5. /\ blobs[i].off \in Nat /\ blobs[i].addr \in Nat /\ a \in Nat
    BY <2>1, BlobsTyped, ChipAddresses DEF BlobTypes
  <2>6. QED
    BY <1>3, <2>1, <2>4, <2>5
<1>7. QED
  BY <1>5, <1>6

\* No blob is loaded over an address that is not of the image.
LEMMA OverImage ==
  ASSUME file \in Files, NEW a \in Chip, Over(a) # {}
  PROVE  Image(file)[a] # Old
<1>1. PICK i \in Over(a) : \A j \in Over(a) : j <= i
  <2>1. Over(a) \in SUBSET (1..Len(blobs)) /\ Len(blobs) \in Nat
    BY BlobsTyped DEF Over, BlobTypes
  <2>2. QED
    BY <2>1, Greatest
<1>2. /\ i \in 1..Len(blobs) /\ a \in Span(i)
      /\ blobs[i].off \in Nat /\ blobs[i].addr \in Nat /\ blobs[i].size \in Nat /\ a \in Nat
  BY BlobsTyped, ChipAddresses DEF BlobTypes, Over
<1>3. blobs[i].off + (a - blobs[i].addr) \in Nat
  BY <1>2 DEF Span, Addresses
<1>4. Image(file)[a] = blobs[i].off + (a - blobs[i].addr)
  <2>1. CASE file.bcf
    <3>1. Len(blobs) = 2
      BY <2>1, BcfBlobsAre
    <3>2. i = 1 \/ i = 2
      BY <1>2, <3>1
    <3>3. QED
      BY <1>2, <2>1, <3>2, BcfImage
  <2>2. CASE ~file.bcf
    BY <1>1, <2>2, ProgramImage
  <2>3. QED
    BY <2>1, <2>2
<1>5. QED
  BY <1>3, <1>4 DEF Old

-------------------------------------------------------------------------------
\* The invariant.

\* Chip memory is what the first n - 1 blobs make of it: an address holds what the
\* last of them over it says, unless that was hidden.
LoadedUpTo(n) ==
  \A a \in Chip \ lost :
    \/ chip[a] = Old /\ \A i \in Over(a) : i >= n
    \/ \E i \in Over(a) : /\ i < n /\ \A j \in Over(a) : j < n => j <= i
                          /\ chip[a] = blobs[i].off + (a - blobs[i].addr)

\* What is known at each point of the load.
Progress ==
  /\ pc \in {"loop", "read", "write"} => Found
  /\ pc = "write" /\ Whole(file) => octets_read = blob.size
  /\ broken => pc = "done" /\ (~file.bcf => ret = -1)
  /\ pc = "done" /\ ret = 0 /\ ~broken => ii = Len(blobs) + 1
  /\ ~broken /\ Whole(file) => LoadedUpTo(ii)

IInv == TypeOK /\ Progress /\ NothingElseWritten

\* The blobs, and where they go, are the file's.
LEMMA FileKept ==
  ASSUME file' = file
  PROVE  /\ blobs' = blobs /\ Found' = Found
         /\ \A i : Skipped(i)' = Skipped(i)
         /\ \A a : Over(a)' = Over(a)
BY DEF blobs, Found, Skipped, Over, Span

\* Before anything has been loaded.
LEMMA InitInv == Init => IInv
<1> SUFFICES ASSUME Init PROVE IInv
  OBVIOUS
<1>1. file \in Files /\ BlobTypes /\ file.bcf \in BOOLEAN
  BY FileTypes, BlobsTyped DEF Init
<1>2. TypeOK
  <2>1. ii \in 1..(Len(blobs) + 1)
    BY <1>1 DEF Init, BlobTypes
  <2>2. chip \in [Chip -> {Old, Junk} \cup Nat]
    BY DEF Init
  <2>3. QED
    BY <2>1, <2>2 DEF Init, TypeOK
<1>3. \A a \in Chip : \A i \in Over(a) : i >= 1
  BY <1>1 DEF Over, BlobTypes
<1>4. LoadedUpTo(ii)
  BY <1>3 DEF LoadedUpTo, Init
<1>5. Progress
  BY <1>4 DEF Progress, Init
<1>6. NothingElseWritten
  BY DEF NothingElseWritten, Init
<1>7. QED
  BY <1>2, <1>5, <1>6 DEF IInv

\* What is read of the current blob is typed and within it.
LEMMA GivenIs ==
  ASSUME IInv, Reading
  PROVE  Given \in Nat /\ octets_read + Given <= blob.size
<1>1. file \in Files /\ BlobTypes /\ ii \in 1..Len(blobs) /\ octets_read \in Nat
  BY BlobsTyped DEF IInv, TypeOK, Reading, BlobTypes
<1>2. file.size \in Nat /\ blob.off \in Nat /\ blob.size \in Nat
  BY <1>1, FileTypes DEF blob, BlobTypes
<1>3. QED
  BY <1>1, <1>2 DEF Given, Reading, MoreInFile

\* A write to addresses of the blob touches these only, and leaves numbers there.
LEMMA WrittenIs ==
  ASSUME IInv, pc = "write", NEW S \in SUBSET Addresses(blob)
  PROVE  /\ Written(S) \in [Chip -> {Old, Junk} \cup Nat]
         /\ \A a \in Chip : a \notin S => Written(S)[a] = chip[a]
         /\ \A a \in Chip : a \in Addresses(blob) <=> ii \in Over(a)
<1>1. file \in Files /\ BlobTypes /\ ii \in 1..Len(blobs) /\ octets_read \in Nat /\ ~Skipped(ii)
  BY BlobsTyped DEF IInv, TypeOK, BlobTypes
<1>2. blob.off \in Nat /\ blob.size \in Nat /\ blob.addr \in Nat
  BY <1>1 DEF blob, BlobTypes
<1>3. ASSUME NEW a \in Chip
      PROVE  /\ Written(S)[a] \in {Old, Junk} \cup Nat
             /\ a \notin S => Written(S)[a] = chip[a]
  <2>1. CASE a \in S
    <3>1. a \in Nat /\ a \in Addresses(blob)
      BY <2>1, ChipAddresses
    <3>2. a - blob.addr \in 0..(blob.size - 1)
      BY <1>2, <3>1 DEF Addresses
    <3>3. Written(S)[a] = IF a - blob.addr < octets_read THEN blob.off + (a - blob.addr) ELSE Junk
      BY <2>1, <3>2 DEF Written, buffer
    <3>4. QED
      BY <1>2, <2>1, <3>2, <3>3
  <2>2. CASE a \notin S
    <3>1. Written(S)[a] = chip[a]
      BY <2>2 DEF Written
    <3>2. QED
      BY <3>1 DEF IInv, TypeOK
  <2>3. QED
    BY <2>1, <2>2
<1>4. Written(S) \in [Chip -> {Old, Junk} \cup Nat]
  BY <1>3 DEF Written
<1>5. \A a \in Chip : a \in Addresses(blob) <=> ii \in Over(a)
  BY <1>1 DEF Over, Span, blob
<1>6. QED
  BY <1>3, <1>4, <1>5

\* What is written of a blob that has been read whole.
LEMMA WrittenWhole ==
  ASSUME IInv, pc = "write", octets_read = blob.size,
         NEW S \in SUBSET Addresses(blob), NEW a \in Chip, a \in S
  PROVE  Written(S)[a] = blob.off + (a - blob.addr)
<1>1. BlobTypes /\ ii \in 1..Len(blobs)
  BY BlobsTyped DEF IInv, TypeOK, BlobTypes
<1>2. blob.off \in Nat /\ blob.size \in Nat /\ blob.addr \in Nat /\ a \in Nat
  BY <1>1, ChipAddresses DEF blob, BlobTypes
<1>3. a - blob.addr \in 0..(blob.size - 1)
  BY <1>2 DEF Addresses
<1>4. QED
  BY <1>2, <1>3 DEF Written, buffer

\* A write that returns 0 has written addresses of the blob, or hidden them.
LEMMA WriteIs ==
  ASSUME IInv, Write
  PROVE  \E S \in SUBSET Addresses(blob) :
           /\ chip' = Written(S) /\ lost' = (lost \ Addresses(blob)) \cup (Addresses(blob) \ S)
<1>1. PICK missing \in SUBSET Concealed(blob) :
        /\ chip' = Written(Addresses(blob) \ missing)
        /\ lost' = (lost \ Addresses(blob)) \cup missing
  BY DEF Write
<1>2. missing \subseteq Addresses(blob)
  BY DEF Concealed
<1>3. missing = Addresses(blob) \ (Addresses(blob) \ missing)
  BY <1>2
<1>4. QED
  BY <1>1, <1>3

\* Every step keeps the types.
LEMMA NextTypes == IInv /\ [Next]_vars => TypeOK'
<1> SUFFICES ASSUME IInv, [Next]_vars PROVE TypeOK'
  OBVIOUS
<1>1. /\ file \in Files /\ BlobTypes /\ file.bcf \in BOOLEAN
      /\ file.bcf' = file'.bcf
  BY FileTypes, BlobsTyped DEF IInv, TypeOK
<1>2. file' = file
  BY DEF Next, vars, Pick, PickFails, Skip, Load, LoopEnds, Read, ReadFails, ReadEnds, Write, WriteFails
<1>3. blobs' = blobs /\ \A i : Skipped(i)' = Skipped(i)
  BY <1>2, FileKept
<1>4. blob' = blobs'[ii'] /\ blob = blobs[ii]
  BY DEF blob
<1>5. CASE Pick
  BY <1>2, <1>3, <1>5 DEF Pick, IInv, TypeOK
<1>16. CASE PickFails
  BY <1>2, <1>3, <1>16 DEF PickFails, IInv, TypeOK
<1>6. CASE Skip
  <2>1. ii' \in 1..(Len(blobs') + 1)
    BY <1>1, <1>3, <1>6 DEF Skip, InLoop, BlobTypes, IInv, TypeOK
  <2>2. QED
    BY <2>1, <1>6 DEF Skip, InLoop, IInv, TypeOK
<1>7. CASE Load
  <2>1. ii' <= Len(blobs') /\ ~Skipped(ii)' /\ ii' = ii
    BY <1>3, <1>7 DEF Load, InLoop
  <2>2. octets_read' <= blob'.size
    BY <1>1, <1>3, <1>4, <1>7 DEF Load, InLoop, BlobTypes, IInv, TypeOK
  <2>3. QED
    BY <1>3, <1>7, <2>1, <2>2 DEF Load, IInv, TypeOK
<1>8. CASE LoopEnds
  BY <1>2, <1>3, <1>8 DEF LoopEnds, IInv, TypeOK
<1>9. CASE Read
  <2>1. octets_read' \in Nat /\ octets_read' <= blob.size
    BY <1>9, GivenIs DEF Read, Reading, IInv, TypeOK
  <2>2. blob' = blob /\ ii' = ii
    BY <1>3, <1>4, <1>9 DEF Read
  <2>3. QED
    BY <1>2, <1>3, <1>9, <2>1, <2>2 DEF Read, Reading, IInv, TypeOK, Skipped
<1>10. CASE ReadFails
  BY <1>2, <1>3, <1>10 DEF ReadFails, Abandon, Failure, IInv, TypeOK
<1>11. CASE ReadEnds
  <2>1. blob' = blob /\ ii' = ii
    BY <1>3, <1>4, <1>11 DEF ReadEnds
  <2>2. QED
    BY <1>2, <1>3, <1>11, <2>1 DEF ReadEnds, IInv, TypeOK, Skipped
<1>12. CASE Write
  <2>1. PICK S \in SUBSET Addresses(blob) :
          /\ chip' = Written(S) /\ lost' = (lost \ Addresses(blob)) \cup (Addresses(blob) \ S)
    BY <1>12, WriteIs
  <2>2. chip' \in [Chip -> {Old, Junk} \cup Nat]
    BY <1>12, <2>1, WrittenIs DEF Write
  <2>5. Addresses(blob) \subseteq Nat
    BY <1>1, <1>4, <1>12 DEF Write, Addresses, BlobTypes, IInv, TypeOK
  <2>6. lost' \subseteq Nat
    BY <2>1, <2>5 DEF IInv, TypeOK
  <2>3. ii' \in 1..(Len(blobs') + 1)
    BY <1>1, <1>3, <1>12 DEF Write, BlobTypes, IInv, TypeOK
  <2>7. faults' \in Nat
    BY <1>12 DEF Write, IInv, TypeOK
  <2>4. QED
    BY <1>12, <2>2, <2>3, <2>6, <2>7 DEF Write, IInv, TypeOK
<1>13. CASE WriteFails
  <2>1. chip' \in [Chip -> {Old, Junk} \cup Nat]
    BY <1>13, WrittenIs DEF WriteFails
  <2>2. QED
    BY <1>2, <1>3, <1>13, <2>1 DEF WriteFails, Abandon, Failure, IInv, TypeOK
<1>14. CASE UNCHANGED vars
  BY <1>2, <1>3, <1>4, <1>14 DEF vars, IInv, TypeOK, Skipped
<1>15. QED
  BY <1>5, <1>6, <1>7, <1>8, <1>9, <1>10, <1>11, <1>12, <1>13, <1>14, <1>16 DEF Next

\* Every step but the writes keeps what the blobs have made of chip memory.
LEMMA KeptLoaded ==
  ASSUME LoadedUpTo(ii), chip' = chip, lost' = lost, file' = file, ii' = ii
  PROVE  LoadedUpTo(ii)'
<1>1. blobs' = blobs /\ \A a : Over(a)' = Over(a)
  BY FileKept
<1>2. QED
  BY <1>1 DEF LoadedUpTo

\* A header that is skipped makes nothing of it.
LEMMA SkippedLoaded ==
  ASSUME TypeOK, LoadedUpTo(ii), Skip
  PROVE  LoadedUpTo(ii)'
<1>1. blobs' = blobs /\ \A a : Over(a)' = Over(a)
  BY FileKept DEF Skip
<1>2. ii \in Nat /\ ii' = ii + 1 /\ chip' = chip /\ lost' = lost
  BY DEF Skip, TypeOK
<1>3. \A a : \A i \in Over(a) : i \in Nat /\ i # ii
  BY DEF Over, Skip
<1>4. \A a : \A i \in Over(a) : (i < ii <=> i < ii + 1) /\ (i >= ii <=> i >= ii + 1)
  BY <1>2, <1>3
<1>5. QED
  BY <1>1, <1>2, <1>4 DEF LoadedUpTo

\* A blob that is written makes of its addresses what it says.
LEMMA WrittenLoaded ==
  ASSUME IInv, LoadedUpTo(ii), octets_read = blob.size, Write
  PROVE  LoadedUpTo(ii)'
<1>1. blobs' = blobs /\ \A a : Over(a)' = Over(a)
  BY FileKept DEF Write
<1>2. ii \in Nat /\ ii' = ii + 1 /\ pc = "write"
  BY DEF Write, IInv, TypeOK
<1>3. PICK S \in SUBSET Addresses(blob) :
        /\ chip' = Written(S) /\ lost' = (lost \ Addresses(blob)) \cup (Addresses(blob) \ S)
  BY WriteIs
<1>4. ASSUME NEW a \in Chip \ lost'
      PROVE  \/ chip'[a] = Old /\ \A i \in Over(a) : i >= ii + 1
             \/ \E i \in Over(a) : /\ i < ii + 1 /\ \A j \in Over(a) : j < ii + 1 => j <= i
                                   /\ chip'[a] = blobs[i].off + (a - blobs[i].addr)
  <2>0. \A i \in Over(a) : i \in Nat
    BY DEF Over
  <2>1. CASE ii \in Over(a)
    <3>1. a \in S
      BY <1>2, <1>3, <2>1, WrittenIs
    <3>2. chip'[a] = blobs[ii].off + (a - blobs[ii].addr)
      BY <1>2, <1>3, <3>1, WrittenWhole DEF blob
    <3>3. ii < ii + 1 /\ \A j \in Over(a) : j < ii + 1 => j <= ii
      BY <1>2, <2>0
    <3>4. QED
      BY <2>1, <3>2, <3>3
  <2>2. CASE ii \notin Over(a)
    <3>1. a \notin Addresses(blob)
      BY <1>2, <1>3, <2>2, WrittenIs
    <3>2. chip'[a] = chip[a] /\ a \notin lost
      BY <1>2, <1>3, <3>1, WrittenIs
    <3>3. \A i \in Over(a) : (i < ii <=> i < ii + 1) /\ (i >= ii <=> i >= ii + 1)
      BY <1>2, <2>0, <2>2
    <3>4. QED
      BY <3>2, <3>3 DEF LoadedUpTo
  <2>3. QED
    BY <2>1, <2>2
<1>5. QED
  BY <1>1, <1>2, <1>4 DEF LoadedUpTo

\* Every step keeps what is known of the load.
LEMMA NextProgress == IInv /\ [Next]_vars => Progress'
<1> SUFFICES ASSUME IInv, [Next]_vars PROVE Progress'
  OBVIOUS
<1>1. /\ TypeOK /\ Progress /\ file \in Files /\ BlobTypes /\ file.bcf \in BOOLEAN
      /\ ii \in Nat /\ ii <= Len(blobs) + 1 /\ Len(blobs) \in Nat
  BY FileTypes, BlobsTyped DEF IInv, TypeOK, BlobTypes
<1>2. file' = file
  BY DEF Next, vars, Pick, PickFails, Skip, Load, LoopEnds, Read, ReadFails, ReadEnds, Write, WriteFails
<1>3. blobs' = blobs /\ Found' = Found /\ blob' = blobs[ii'] /\ blob = blobs[ii]
  BY <1>2, FileKept DEF blob
<1>4. CASE Pick
  <2>2. ~broken' /\ pc' # "write" /\ pc' \in {"loop", "done"} /\ (pc' = "loop" => Found')
    BY <1>1, <1>3, <1>4 DEF Pick, Progress, Found
  <2>3. ~broken' /\ Whole(file') => LoadedUpTo(ii)'
    BY <1>1, <1>4, KeptLoaded DEF Pick, Progress
  <2>4. pc' = "done" => ret' = -1
    BY <1>4 DEF Pick
  <2>5. QED
    BY <2>2, <2>3, <2>4 DEF Progress
<1>15. CASE PickFails
  <2>1. ~broken' /\ Whole(file') => LoadedUpTo(ii)'
    BY <1>1, <1>15, KeptLoaded DEF PickFails, Progress
  <2>2. ~broken' /\ pc' = "done" /\ ret' = -1
    BY <1>1, <1>15 DEF PickFails, Progress
  <2>3. QED
    BY <2>1, <2>2 DEF Progress
<1>5. CASE Skip
  <2>1. ~broken' /\ Whole(file') => LoadedUpTo(ii)'
    BY <1>1, <1>2, <1>5, SkippedLoaded DEF Skip, InLoop, Progress
  <2>2. QED
    BY <1>1, <1>3, <1>5, <2>1 DEF Skip, InLoop, Progress
<1>6. CASE Load
  <2>1. ~broken' /\ Whole(file') => LoadedUpTo(ii)'
    BY <1>1, <1>6, KeptLoaded DEF Load, Progress
  <2>2. QED
    BY <1>1, <1>3, <1>6, <2>1 DEF Load, InLoop, Progress
<1>7. CASE LoopEnds
  <2>1. ~broken' /\ Whole(file') => LoadedUpTo(ii)'
    BY <1>1, <1>7, KeptLoaded DEF LoopEnds, Progress
  <2>2. ii' = Len(blobs') + 1
    BY <1>1, <1>3, <1>7 DEF LoopEnds
  <2>3. QED
    BY <1>1, <1>3, <1>7, <2>1, <2>2 DEF LoopEnds, Progress
<1>8. CASE Read
  <2>1. ~broken' /\ Whole(file') => LoadedUpTo(ii)'
    BY <1>1, <1>8, KeptLoaded DEF Read, Progress
  <2>2. QED
    BY <1>1, <1>3, <1>8, <2>1 DEF Read, Reading, Progress
<1>9. CASE ReadFails
  <2>1. broken' /\ pc' = "done" /\ (~file'.bcf => ret' = -1)
    BY <1>2, <1>9 DEF ReadFails, Abandon, Failure
  <2>2. QED
    BY <2>1 DEF Progress
<1>10. CASE ReadEnds
  <2>1. ~broken' /\ Whole(file') => LoadedUpTo(ii)'
    BY <1>1, <1>10, KeptLoaded DEF ReadEnds, Progress
  <2>2. Whole(file') => octets_read' = blob'.size
    <3>1. SUFFICES ASSUME Whole(file) PROVE octets_read = blob.size
      BY <1>2, <1>3, <1>10 DEF ReadEnds
    <3>2. /\ Found /\ ii \in 1..Len(blobs) /\ file.size \in Nat
          /\ octets_read \in Nat /\ octets_read <= blob.size
      BY <1>1, <1>10, FileTypes DEF ReadEnds, Progress, TypeOK
    <3>3. blob.off + blob.size <= file.size
      BY <1>1, <3>1, <3>2, <1>3, BlobsWhole
    <3>4. blob.off \in Nat /\ blob.size \in Nat
      BY <1>1, <1>3, <3>2 DEF BlobTypes
    <3>5. ~(octets_read < blob.size /\ MoreInFile)
      BY <1>10 DEF ReadEnds, Reading
    <3>6. QED
      BY <3>2, <3>3, <3>4, <3>5 DEF MoreInFile
  <2>3. QED
    BY <1>1, <1>3, <1>10, <2>1, <2>2 DEF ReadEnds, Progress
<1>11. CASE Write
  <2>1. ~broken' /\ Whole(file') => LoadedUpTo(ii)'
    BY <1>1, <1>2, <1>11, WrittenLoaded DEF Write, Progress
  <2>2. QED
    BY <1>1, <1>3, <1>11, <2>1 DEF Write, Progress
<1>12. CASE WriteFails
  <2>1. broken' /\ pc' = "done" /\ (~file'.bcf => ret' = -1)
    BY <1>2, <1>12 DEF WriteFails, Abandon, Failure
  <2>2. QED
    BY <2>1 DEF Progress
<1>13. CASE UNCHANGED vars
  <2>1. ~broken' /\ Whole(file') => LoadedUpTo(ii)'
    BY <1>1, <1>13, KeptLoaded DEF vars, Progress
  <2>2. QED
    BY <1>1, <1>3, <1>13, <2>1 DEF vars, Progress
<1>14. QED
  BY <1>4, <1>5, <1>6, <1>7, <1>8, <1>9, <1>10, <1>11, <1>12, <1>13, <1>15 DEF Next

\* Only the writes change chip memory, and only where the current blob belongs.
LEMMA NextUntouched == IInv /\ [Next]_vars => NothingElseWritten'
<1> SUFFICES ASSUME IInv, [Next]_vars, file'.heads = Len(file'.parts),
                    NEW a \in Chip, chip'[a] # Old
             PROVE  Image(file')[a] # Old
  BY DEF NothingElseWritten
<1>1. file' = file /\ file \in Files
  BY DEF Next, vars, Pick, PickFails, Skip, Load, LoopEnds, Read, ReadFails, ReadEnds, Write,
         WriteFails, IInv, TypeOK
<1>2. CASE chip'[a] = chip[a]
  BY <1>1, <1>2 DEF IInv, NothingElseWritten
<1>3. CASE chip'[a] # chip[a]
  <2>1. Write \/ WriteFails
    BY <1>3 DEF Next, vars, Pick, PickFails, Skip, Load, LoopEnds, Read, ReadFails, ReadEnds
  <2>2. pc = "write" /\ \E S \in SUBSET Addresses(blob) : chip' = Written(S)
    BY <2>1, WriteIs DEF Write, WriteFails
  <2>3. ii \in Over(a)
    BY <1>3, <2>2, WrittenIs
  <2>4. QED
    BY <1>1, <2>3, OverImage
<1>4. QED
  BY <1>2, <1>3

-------------------------------------------------------------------------------
\* The properties.

\* Where the last blob has been loaded, chip memory is the image but for what is lost.
LEMMA AllLoaded ==
  ASSUME file \in Files, LoadedUpTo(Len(blobs) + 1), NEW a \in Chip \ lost
  PROVE  chip[a] = Image(file)[a]
<1>1. BlobTypes /\ Over(a) \subseteq 1..Len(blobs)
  BY BlobsTyped DEF Over
<1>2. \A i \in Over(a) : i < Len(blobs) + 1 /\ ~(i >= Len(blobs) + 1)
  BY <1>1 DEF BlobTypes
<1>3. CASE Over(a) = {}
  <2>1. chip[a] = Old
    BY <1>3 DEF LoadedUpTo
  <2>2. Image(file)[a] = Old
    <3>1. CASE file.bcf
      <4>1. a \notin Span(1) /\ a \notin Span(2)
        <5>1. Len(blobs) = 2
          BY <3>1, BcfBlobsAre
        <5>2. 1 \in 1..Len(blobs) /\ 2 \in 1..Len(blobs)
          BY <5>1
        <5>3. ~Skipped(1) /\ ~Skipped(2)
          BY <3>1 DEF Skipped
        <5>4. QED
          BY <1>3, <5>2, <5>3 DEF Over
      <4>2. QED
        BY <3>1, <4>1, BcfImage
    <3>2. CASE ~file.bcf
      BY <1>3, <3>2, ProgramImage
    <3>3. QED
      BY <3>1, <3>2
  <2>3. QED
    BY <2>1, <2>2
<1>4. CASE Over(a) # {}
  <2>1. PICK i \in Over(a) : /\ \A j \in Over(a) : j <= i
                             /\ chip[a] = blobs[i].off + (a - blobs[i].addr)
    <3>1. ~(\A i \in Over(a) : i >= Len(blobs) + 1)
      BY <1>2, <1>4
    <3>2. QED
      BY <1>2, <3>1 DEF LoadedUpTo
  <2>2. Image(file)[a] = blobs[i].off + (a - blobs[i].addr)
    <3>1. CASE file.bcf
      <4>1. Len(blobs) = 2
        BY <3>1, BcfBlobsAre
      <4>2. i = 1 \/ i = 2
        BY <1>1, <4>1
      <4>3. a \in Span(i)
        BY DEF Over
      <4>4. QED
        BY <3>1, <4>2, <4>3, BcfImage
    <3>2. CASE ~file.bcf
      BY <2>1, <3>2, ProgramImage
    <3>3. QED
      BY <3>1, <3>2
  <2>3. QED
    BY <2>1, <2>2
<1>5. QED
  BY <1>3, <1>4

\* The invariant has the property in it.
LEMMA Implies == IInv => ImageLoaded
<1> SUFFICES ASSUME IInv, pc = "done", ret = 0, Whole(file), file.bcf => ~broken,
                    NEW a \in Chip \ lost
             PROVE  chip[a] = Image(file)[a]
  BY DEF ImageLoaded
<1>1. ~broken
  BY FileTypes DEF IInv, TypeOK, Progress
<1>2. file \in Files /\ LoadedUpTo(Len(blobs) + 1)
  BY <1>1 DEF IInv, TypeOK, Progress
<1>3. QED
  BY <1>2, AllLoaded

\* The invariant holds throughout.
LEMMA Invariant == Spec => []IInv
<1>1. IInv /\ [Next]_vars => IInv'
  BY NextTypes, NextProgress, NextUntouched DEF IInv
<1>2. QED
  BY InitInv, <1>1, PTL DEF Spec

\* Every variable keeps to its type and what has been read is within the blob.
THEOREM TypeCorrect == Spec => []TypeOK
<1>1. IInv => TypeOK
  BY DEF IInv
<1>2. QED
  BY Invariant, <1>1, PTL

\* load_elf: a load that returns 0 has left the image of a whole file in chip memory
\* but for what mem_write has hidden from it: where segments overlap, the last one's;
\* of a board configuration file, the sections one after the other; everything else
\* untouched.  Of a program that is so whatever has failed; of a board configuration
\* file, if nothing was reported to have failed.
THEOREM LoadsImage == Spec => []ImageLoaded
BY Invariant, Implies, PTL

\* Whatever fails and wherever the contents of a file have been cut short, a load
\* only changes addresses that belong to the file's image.
THEOREM LeavesRestAlone == Spec => []NothingElseWritten
<1>1. IInv => NothingElseWritten
  BY DEF IInv
<1>2. QED
  BY Invariant, <1>1, PTL

===============================================================================
