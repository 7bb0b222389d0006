-------------------------------- MODULE ElfLoad --------------------------------
(***************************************************************************)
(* load_elf, src/elf_file.c: an ELF file is put into chip memory, either   *)
(* its loadable program segments or, for a board configuration file, the   *)
(* section .board_config with the section of one regulatory domain behind  *)
(* it.  Each piece is read into a buffer with fread and written with       *)
(* morsectrl_transport_mem_write, and either may fail.  mem_write is that  *)
(* of ftdi_spi, the only transport to have one: it returns what its last   *)
(* command said, so that a failure of a CMD53 before that stays hidden.    *)
(*                                                                         *)
(* An octet of the file is its offset, so that what is in chip memory says *)
(* where it came from.                                                     *)
(***************************************************************************)
EXTENDS Integers, Sequences

CONSTANTS Files,      \* [size, bcf, table, heads, parts], see below
          Chip,       \* the addresses of chip memory
          Flash,      \* those that load_blobs leaves out
          NoBase,     \* those without a bit of HOST_FLASH_BASE_MASK
          Block,      \* octets to a block of SDIO_FUNC_MEM_BLOCK
          Window,     \* octets in reach of one setting of the keyhole
          MaxFaults   \* bound

\* A file is its length, whether it is loaded as a board configuration file, the
\* offset of its program headers and the headers as they are found in memory.  Of
\* these the first heads are in the file; behind the end of a file that has been
\* cut short is whatever the memory of the buffer, or behind it, has held.
\* A part is a program header (its size is p_memsz, aligned) or a section header.
Kind == {"load", "noload", "board", "regdom", "other"}
Part == [kind : Kind, off : Nat, size : Nat, addr : Chip]

ASSUME ElfLoadAssumption ==
  /\ Chip \subseteq Nat \ {0} /\ Flash \subseteq Chip /\ NoBase \subseteq Chip
  /\ Block \in Nat \ {0} /\ Window \in Nat \ {0} /\ MaxFaults \in Nat
  /\ \A f \in Files : /\ f.size \in Nat /\ f.bcf \in BOOLEAN /\ f.table \in Nat
                       /\ f.parts \in Seq(Part) /\ f.heads \in 0..Len(f.parts)
  /\ \A f \in Files : \A i \in DOMAIN f.parts :
       \A a \in f.parts[i].addr..(f.parts[i].addr + f.parts[i].size - 1) : a \in Chip

Old  == -1    \* what chip memory held before
Junk == -2    \* what malloc left in the buffer

VARIABLES pc,     \* "start", "loop", "read", "write" or "done"
          file,   \* the file
          ii,     \* the header or section whose turn it is
          octets_read,
          ret,    \* what load_elf returns
          chip,   \* chip memory
          broken, \* History: fread or mem_write has reported a failure
          lost,   \* History: what a mem_write that returned 0 has not written
          faults

vars == <<pc, file, ii, octets_read, ret, chip, broken, lost, faults>>

Loadable(p) == p.kind = "load" /\ p.size > 0 /\ p.addr \notin Flash

\* The last section of that name, or one without contents.
Section(f, kind) ==
  LET is == {i \in DOMAIN f.parts : f.parts[i].kind = kind}
  IN IF is = {} THEN [off |-> 0, size |-> 0, addr |-> 0]
     ELSE f.parts[CHOOSE i \in is : \A j \in is : j <= i]

Present(s) == s.off # 0 /\ s.size # 0

Acceptable(f) ==
  /\ Present(Section(f, "board")) /\ Present(Section(f, "regdom"))
  /\ Section(f, "board").addr \notin NoBase

Blob(p, a) == [off |-> p.off, size |-> p.size, addr |-> a]

BcfBlobs(f) ==
  LET board == Section(f, "board") regdom == Section(f, "regdom")
  IN <<Blob(board, board.addr), Blob(regdom, board.addr + board.size)>>

ProgramBlobs(f) == [i \in DOMAIN f.parts |-> Blob(f.parts[i], f.parts[i].addr)]

blobs == IF file.bcf THEN BcfBlobs(file) ELSE ProgramBlobs(file)

\* Mutant: segments in flash are loaded too.
Skipped_Flash(i) ==
  ~file.bcf /\ ~(file.parts[i].kind = "load" /\ file.parts[i].size > 0)

\* load_blobs goes through all headers, load_bcf_sections only through its two sections.
Skipped(i) == ~file.bcf /\ ~Loadable(file.parts[i])

-------------------------------------------------------------------------------
Init ==
  /\ pc = "start" /\ file \in Files /\ ii = 1 /\ octets_read = 0 /\ ret = 0
  /\ chip = [a \in Chip |-> Old] /\ broken = FALSE /\ lost = {} /\ faults = 0

\* The program headers are read with the loop below, which has no end when they
\* are beyond the end of the file; of a board configuration file all of it is read.
HeadersRead(f) == f.bcf \/ f.parts = <<>> \/ f.table <= f.size

\* The headers are read; of a board configuration file, the sections are looked for.
Pick ==
  /\ pc = "start" /\ HeadersRead(file)
  /\ IF file.bcf => Acceptable(file)
       THEN pc' = "loop" /\ UNCHANGED ret
       ELSE pc' = "done" /\ ret' = -1
  /\ UNCHANGED <<file, ii, octets_read, chip, broken, lost, faults>>

\* The headers cannot be read (ferror, or no memory), or they do not go with what
\* is asked for: no country with a board configuration file, or one without.
PickFails ==
  /\ pc = "start"
  /\ pc' = "done" /\ ret' = -1
  /\ UNCHANGED <<file, ii, octets_read, chip, broken, lost, faults>>

InLoop == pc = "loop" /\ ii <= Len(blobs)

\* A header that is not to be loaded: continue.
Skip ==
  /\ InLoop /\ Skipped(ii)
  /\ ii' = ii + 1
  /\ UNCHANGED <<pc, file, octets_read, ret, chip, broken, lost, faults>>

\* load_elf_blob is called.
Load ==
  /\ InLoop /\ ~Skipped(ii)
  /\ pc' = "read" /\ octets_read' = 0
  /\ UNCHANGED <<file, ii, ret, chip, broken, lost, faults>>

\* The end of the loop.
LoopEnds ==
  /\ pc = "loop" /\ ii > Len(blobs)
  /\ pc' = "done"
  /\ UNCHANGED <<file, ii, octets_read, ret, chip, broken, lost, faults>>

blob == blobs[ii]

\* Mutant: no error of a blob is passed on.
Failure_Dropped == 0

\* What the error of a blob becomes: load_blobs returns it; load_bcf_sections has
\* it in a variable of the loop's own and returns the outer ret.
Failure == IF file.bcf THEN 0 ELSE -1

Abandon ==
  /\ faults < MaxFaults /\ faults' = faults + 1
  /\ broken' = TRUE /\ pc' = "done" /\ ret' = Failure

\* Mutant: the loop does not look at the end of the file.
MoreInFile_Always == TRUE

\* What is left of the file behind the blob's offset: unsigned, so that without
\* an end when the offset is beyond the file.
MoreInFile == file.size < blob.off \/ octets_read < file.size - blob.off

Reading == pc = "read" /\ octets_read < blob.size /\ MoreInFile

\* What fread gives: all that was asked for or up to the end of the file.
Given ==
  LET available == IF file.size < blob.off THEN 0 ELSE file.size - blob.off - octets_read
      wanted == blob.size - octets_read
  IN IF available < wanted THEN available ELSE wanted

\* One turn of the loop of elf_file_load_binary_data: one fread.
Read ==
  /\ Reading
  /\ octets_read' = octets_read + Given
  /\ UNCHANGED <<pc, file, ii, ret, chip, broken, lost, faults>>

\* ferror.
ReadFails ==
  /\ Reading
  /\ Abandon
  /\ UNCHANGED <<file, ii, octets_read, chip, lost>>

\* elf_file_load_binary_data returns.
ReadEnds ==
  /\ pc = "read" /\ ~Reading
  /\ pc' = "write"
  /\ UNCHANGED <<file, ii, octets_read, ret, chip, broken, lost, faults>>

buffer == [k \in 0..(blob.size - 1) |-> IF k < octets_read THEN blob.off + k ELSE Junk]

\* The addresses of a blob.
Addresses(b) == b.addr..(b.addr + b.size - 1)

\* Where its last CMD53 begins: in the last window, at the octets that do not make
\* up a block or, without such, at the blocks.
LastPiece(b) ==
  LET end == b.addr + b.size
      window == ((end - 1) \div Window) * Window
      first == IF window < b.addr THEN b.addr ELSE window
  IN IF (end - first) % Block = 0 THEN first ELSE end - ((end - first) % Block)

\* What a mem_write that returns 0 may not have written.
Concealed(b) == {a \in Addresses(b) : a < LastPiece(b)}

\* Chip memory after the octets of the buffer for the addresses S have been written.
Written(S) == [a \in Chip |-> IF a \in S THEN buffer[a - blob.addr] ELSE chip[a]]

\* mem_write returns 0: the last CMD53 has succeeded.
Write ==
  /\ pc = "write"
  /\ \E missing \in SUBSET Concealed(blob) :
       /\ chip' = Written(Addresses(blob) \ missing)
       /\ lost' = (lost \ Addresses(blob)) \cup missing
       /\ IF missing = {} THEN faults' = faults
          ELSE faults < MaxFaults /\ faults' = faults + 1
  /\ pc' = "loop" /\ ii' = ii + 1
  /\ UNCHANGED <<file, octets_read, ret, broken>>

\* A failing mem_write may have written any of the buffer.
WriteFails ==
  /\ pc = "write"
  /\ Abandon
  /\ \E S \in SUBSET Addresses(blob) : chip' = Written(S)
  /\ UNCHANGED <<file, ii, octets_read, lost>>

Next == \/ Pick \/ PickFails \/ Skip \/ Load \/ LoopEnds
        \/ Read \/ ReadFails \/ ReadEnds \/ Write \/ WriteFails

Spec == Init /\ [][Next]_vars

\* The process runs; no failure has to happen.
FairSpec == Spec /\ WF_vars(Pick \/ Skip \/ Load \/ LoopEnds \/ Read \/ ReadEnds \/ Write)

-------------------------------------------------------------------------------
\* All headers are in the file, and so is all they stand for.
Whole(f) ==
  /\ f.heads = Len(f.parts)
  /\ \A i \in DOMAIN f.parts : f.parts[i].off + f.parts[i].size <= f.size

\* Nothing that is read begins behind the end of the file.
BeginsInside(f) == HeadersRead(f) /\ \A i \in DOMAIN f.parts : f.parts[i].off <= f.size

\* Every variable keeps to its type and what has been read is within the blob.
TypeOK ==
  /\ pc \in {"start", "loop", "read", "write", "done"} /\ file \in Files
  /\ ii \in 1..(Len(blobs) + 1) /\ octets_read \in Nat /\ ret \in {0, -1}
  /\ chip \in [Chip -> {Old, Junk} \cup Nat] /\ broken \in BOOLEAN
  /\ lost \subseteq Nat /\ faults \in Nat
  /\ pc \in {"read", "write"} => ii <= Len(blobs) /\ ~Skipped(ii) /\ octets_read <= blob.size

\* The segment that has the last word on address a, if any.
Covering(f, a) ==
  {i \in DOMAIN f.parts :
     Loadable(f.parts[i]) /\ a \in Addresses(f.parts[i])}

\* What chip memory should hold: of a program the last segment to cover an
\* address, of a board configuration file the two sections one after the other.
Image(f) ==
  IF f.bcf
    THEN LET board == Section(f, "board") regdom == Section(f, "regdom")
             off(a) == a - board.addr
         IN [a \in Chip |->
              CASE off(a) \in 0..(board.size - 1) -> board.off + off(a)
                [] off(a) \in board.size..(board.size + regdom.size - 1) ->
                     regdom.off + off(a) - board.size
                [] off(a) \notin 0..(board.size + regdom.size - 1) -> Old]
    ELSE [a \in Chip |->
           IF Covering(f, a) = {} THEN Old
           ELSE LET i == CHOOSE i \in Covering(f, a) : \A j \in Covering(f, a) : j <= i
                IN f.parts[i].off + a - f.parts[i].addr]

\* A load that returns 0 has put the image of a whole file into chip memory, every
\* octet at its address, the sections of a board configuration file without gap or
\* overlap, and everything else untouched: but for what mem_write itself has hidden
\* from its caller, and for a board configuration file of which load_bcf_sections
\* has lost a failure.  Of a program no failure that is reported is lost.
ImageLoaded ==
  pc = "done" /\ ret = 0 /\ Whole(file) /\ (file.bcf => ~broken)
    => \A a \in Chip \ lost : chip[a] = Image(file)[a]

\* Failing reads and writes, at whatever point, leave the rest of chip memory
\* alone: if only the headers are there, a load changes no address outside the image.
NothingElseWritten ==
  file.heads = Len(file.parts) => \A a \in Chip : chip[a] # Old => Image(file)[a] # Old

\* load_elf returns, unless something begins behind the end of the file: then the
\* loop that reads it waits for octets for ever.
LoadReturns == BeginsInside(file) => <>(pc = "done")

===============================================================================
