----------------------------- MODULE SdioMemblock -----------------------------
(***************************************************************************)
(* Memory transfers over SDIO, sdio_over_spi_memblock_common in            *)
(* src/transport/sdio_over_spi.c.  A CMD53 carries the low half of a chip  *)
(* address; the upper half is in the chip's keyhole registers, one octet   *)
(* in each, which CMD52 writes.  A transfer is split at window boundaries, *)
(* and within a window into whole blocks and one transfer of octets, which *)
(* is rounded up to words.  Calls follow one another; what a failed one    *)
(* wrote to the keyhole stays there.                                       *)
(***************************************************************************)
EXTENDS Integers, Sequences

CONSTANTS Window,       \* octets in reach of one keyhole setting (64 KiB)
          Key,          \* values of the lower keyhole octet (256)
          Space,        \* octets of chip address space (2^32)
          Block, Word,  \* octets in an SDIO block (512) and in a word (4)
          Requests,     \* the [addr, len] that are asked for
          MaxCalls, MaxFaults   \* bounds

ASSUME SdioMemblockAssumption ==
  /\ {Window, Key, Space, Block, Word} \subseteq Nat \ {0}
  /\ Block % Word = 0 /\ Window % Block = 0 /\ Space % Window = 0
  /\ MaxCalls \in Nat /\ MaxFaults \in Nat

\* What the callers guarantee: a word-aligned address ("Must be word aligned",
\* ftdi_spi.c) and a buffer that lies in the address space.
ASSUME RequestsAssumption ==
  \A r \in Requests : /\ r.addr \in Nat /\ r.len \in Nat \ {0}
                      /\ r.addr % Word = 0 /\ r.addr + r.len <= Space

VARIABLES pc,        \* where sdio_over_spi_memblock_common is
          addr, len,        \* its arguments
          chip_mem_addr,    \* where the section starts
          data,             \* buff->data, as an offset into the buffer
          remaining,        \* remaining_data_len
          ret,
          keyhole,   \* the chip's registers: [win0, win1, cfg]
          \* History of the current call.
          moved,     \* the CMD53s the chip has carried out
          broken,    \* a CMD53 of the call has failed
          calls, faults

args == <<addr, len>>
loop == <<chip_mem_addr, data, remaining, ret>>
vars == <<pc, args, loop, keyhole, moved, broken, calls, faults>>

Align(n) == ((n + Word - 1) \div Word) * Word

Lower(n, m) == IF n < m THEN n ELSE m

WindowOf(a) == a \div Window

Init ==
  /\ pc = "idle" /\ addr = 0 /\ len = 0
  /\ chip_mem_addr = 0 /\ data = 0 /\ remaining = 0 /\ ret = 0
  /\ keyhole = [win0 |-> 0, win1 |-> 0, cfg |-> 0]
  /\ moved = <<>> /\ broken = FALSE /\ calls = 0 /\ faults = 0

\* Mutant: a transfer may run on into the next window.
current_size_Unsplit == remaining

\* The end of the section is a 32-bit sum: in the last window it is 0, and the
\* unsigned difference exceeds any length.
current_size ==
  LET end == (WindowOf(chip_mem_addr) * Window + Window) % Space IN
  IF end = 0 THEN remaining ELSE Lower(end - chip_mem_addr, remaining)

byte_mode_count == current_size % Block
block_octets    == current_size - byte_mode_count

\* What the chip makes of the count field of an octet CMD53: nine bits of which
\* zero stands for a whole block.
CountField(n) == IF n % Block = 0 THEN Block ELSE n % Block

-------------------------------------------------------------------------------
Call(r) ==
  /\ pc = "idle" /\ calls < MaxCalls
  /\ pc' = "win0"
  /\ addr' = r.addr /\ len' = r.len
  /\ chip_mem_addr' = r.addr /\ data' = 0 /\ remaining' = r.len /\ ret' = 0
  /\ moved' = <<>> /\ broken' = FALSE /\ calls' = calls + 1
  /\ UNCHANGED <<keyhole, faults>>

Fault == faults < MaxFaults /\ faults' = faults + 1

\* One CMD52 of sdio_over_spi_setup_keyhole.  A failure, after which the
\* register may or may not have been written, ends the call.
Cmd52(step, reg, value, next) ==
  /\ pc = step
  /\ \/ /\ keyhole' = [keyhole EXCEPT ![reg] = value]
        /\ pc' = next /\ ret' = 0
        /\ UNCHANGED faults
     \/ /\ Fault
        /\ \/ UNCHANGED keyhole
           \/ keyhole' = [keyhole EXCEPT ![reg] = value]
        /\ pc' = "idle" /\ ret' = -1
  /\ UNCHANGED <<args, chip_mem_addr, data, remaining, moved, broken, calls>>

SetWin0 == Cmd52("win0", "win0", WindowOf(chip_mem_addr) % Key, "win1")

\* Mutant: the upper keyhole octet is only written in a call's first section.
SetWin1_Once ==
  IF chip_mem_addr = addr
    THEN Cmd52("win1", "win1", WindowOf(chip_mem_addr) \div Key, "cfg")
    ELSE /\ pc = "win1" /\ pc' = "cfg"
         /\ UNCHANGED <<args, loop, keyhole, moved, broken, calls, faults>>

SetWin1 == Cmd52("win1", "win1", WindowOf(chip_mem_addr) \div Key, "cfg")

SetCfg == Cmd52("cfg", "cfg", 2, IF block_octets > 0 THEN "blocks" ELSE "octets")

\* A CMD53 at chip address a for the n octets of the buffer at off.  It reaches
\* the address that the keyhole and the low half of a make up.  A failure may
\* come before or after the data has moved, and does not end the call.
Cmd53(a, off, n) ==
  LET there == ((keyhole.win1 * Key + keyhole.win0) * Window) + (a % Window)
      done  == Append(moved, [chip |-> there, host |-> off, size |-> n])
  IN \/ moved' = done /\ ret' = 0 /\ UNCHANGED <<broken, faults>>
     \/ /\ Fault
        /\ broken' = TRUE /\ ret' = -1
        /\ moved' \in {moved, done}

\* Past the octets that are left of the section, on to the next section or out.
NextSection ==
  /\ chip_mem_addr' = chip_mem_addr + current_size
  /\ remaining' = remaining - current_size
  /\ pc' = IF remaining = current_size THEN "idle" ELSE "win0"

Blocks ==
  /\ pc = "blocks"
  /\ Cmd53(chip_mem_addr, data, block_octets)
  /\ IF byte_mode_count > 0
       THEN /\ pc' = "octets"
            /\ data' = data + block_octets
            /\ UNCHANGED <<chip_mem_addr, remaining>>
       ELSE NextSection /\ data' = IF pc' = "idle" THEN 0 ELSE data + block_octets
  /\ UNCHANGED <<args, keyhole, calls>>

\* The rest of the section; the buffer pointer is restored on the way out.
Octets ==
  /\ pc = "octets"
  /\ Cmd53(chip_mem_addr + block_octets, data, CountField(Align(byte_mode_count)))
  /\ NextSection
  /\ data' = IF pc' = "idle" THEN 0 ELSE data + byte_mode_count
  /\ UNCHANGED <<args, keyhole, calls>>

Next == (\E r \in Requests : Call(r)) \/ SetWin0 \/ SetWin1 \/ SetCfg \/ Blocks \/ Octets

Spec == Init /\ [][Next]_vars

-------------------------------------------------------------------------------
\* Every variable keeps to its type, and the loop has dealt with what it has
\* taken from the length.
TypeOK ==
  /\ pc \in {"idle", "win0", "win1", "cfg", "blocks", "octets"}
  /\ {addr, len, chip_mem_addr, data, remaining, calls, faults} \subseteq Nat
  /\ ret \in {0, -1} /\ broken \in BOOLEAN
  /\ keyhole \in [win0 : 0..(Key - 1), win1 : Nat, cfg : {0, 2}]
  /\ moved \in Seq([chip : Nat, host : Nat, size : Nat])
  /\ chip_mem_addr + remaining = addr + len
  /\ pc # "idle" => remaining > 0

\* "Perform writes withing 64k boundaries" (sdio_over_spi.c:872): no CMD53
\* crosses the window its keyhole setting selects, in the last window of the
\* address space, whose end overflows, included.
WithinWindow ==
  \A i \in DOMAIN moved :
    WindowOf(moved[i].chip) = WindowOf(moved[i].chip + moved[i].size - 1)

\* What has moved so far is the buffer from its start, in order and without gap or
\* overlap, each octet between its place in the buffer and its place in the chip,
\* and nothing beyond the word in which the buffer ends.  The keyhole of an
\* earlier section or an earlier call is never used.
Faithful ==
  ~broken =>
    /\ \A i \in DOMAIN moved :
         /\ moved[i].chip = addr + moved[i].host
         /\ moved[i].host = IF i = 1 THEN 0 ELSE moved[i - 1].host + moved[i - 1].size
         /\ moved[i].host + moved[i].size <= Align(len)
    /\ pc = "idle" /\ ret = 0 /\ calls > 0 =>
         moved # <<>> /\ moved[Len(moved)].host + moved[Len(moved)].size = Align(len)

===============================================================================
