------------------------------ MODULE SdioCommand ------------------------------
(***************************************************************************)
(* The SDIO commands of src/transport/sdio_over_spi.c as octets: what the  *)
(* host clocks out in one SPI transaction, and what it makes of the octets *)
(* that come in meanwhile.  A CMD53 is one transaction for the command,    *)
(* its response and all of its blocks, laid out before anything is sent:   *)
(* where the chip's answers are is found by searching.                     *)
(***************************************************************************)
EXTENDS Integers, Sequences, SequencesExt

CONSTANTS BlockSize,    \* fn_max_block_size of the memory function (512)
          Interblock,   \* SDIO_INTERBLOCK_DELAY_OCTETS (250)
          PostByte      \* SDIO_POST_BYTE_DELAY_OCTETS (30)

ASSUME SdioCommandAssumption ==
  /\ BlockSize \in Nat \ {0}
  /\ Interblock \in Nat \ {0} /\ PostByte \in Nat \ {0}

Junk   == 255
Fill(n) == [i \in 1..n |-> Junk]

HdrLen   == 7    \* SDIO_CMD_HDR_LEN
HdrExtra == 13   \* SDIO_CMD_HDR_EXTRA_LEN
RespSize == 4    \* SDIO_CMD53_RESP_SIZE
PostCmd  == 4    \* SDIO_POST_CMD53_DELAY_OCTETS
CrcRead  == 4    \* SDIO_CRC_READ_OCTETS
Func     == 2    \* SDIO_FUNC_REG, SDIO_FUNC_MEM_BLOCK

MultiToken  == 252
SingleToken == 254

-------------------------------------------------------------------------------
\* Checksums.

Bits(octet) == [i \in 1..8 |-> (octet \div 2^(8 - i)) % 2]

BitsOf(octets) == [i \in 1..(8 * Len(octets)) |-> Bits(octets[(i + 7) \div 8])[((i - 1) % 8) + 1]]

Flip(n, bit) == IF (n \div bit) % 2 = 0 THEN n + bit ELSE n - bit

\* reg_val, and crc, after the first n of the bits.
crc7_gen(octets) ==
  LET bits == BitsOf(octets)
      reg[n \in 0..Len(bits)] ==
        IF n = 0 THEN 0
        ELSE LET shifted == (2 * reg[n - 1]) % 256
             IN (IF shifted \div 128 = bits[n] THEN shifted ELSE Flip(Flip(shifted, 1), 8)) % 128
  IN reg[Len(bits)]

crc16_gen(octets) ==
  LET bits == BitsOf(octets)
      crc[n \in 0..Len(bits)] ==
        IF n = 0 THEN 0
        ELSE LET old == crc[n - 1]
             IN IF old \div 32768 = bits[n] THEN (2 * old) % 65536
                ELSE (2 * Flip(Flip(old, 16), 2048) + 1) % 65536
  IN crc[Len(bits)]

calc_cmd_crc_octet(octets) == 2 * crc7_gen(octets) + 1

Crc(block) == <<crc16_gen(block) \div 256, crc16_gen(block) % 256>>

crc16_check(block, crc) == Crc(block) = crc

-------------------------------------------------------------------------------
\* What goes out.

prep_cmd(cmd, args) ==
  LET body == <<64 + cmd>> \o args IN <<Junk>> \o body \o <<calc_cmd_crc_octet(body)>>

\* CMD0, CMD63 and CMD52 are a header, and Junk while the response comes.
cmd0  == prep_cmd(0, <<0, 0, 0, 0>>) \o Fill(HdrExtra)
cmd63 == prep_cmd(63, <<0, 0, 0, 0>>) \o Fill(HdrExtra)

Direction(r) == IF r.write THEN 128 ELSE 0

cmd52(r) ==
  prep_cmd(52, <<Func * 16 + r.addr \div 32768 + Direction(r),
                 (r.addr \div 128) % 256, (r.addr * 2) % 256, r.data[1]>>)
    \o Fill(HdrExtra)

\* The header of a CMD53: seventeen bits of address, of which the top one is 0,
\* and nine of count.
Cmd53Header(r) ==
  LET addr == r.addr % 65536
  IN prep_cmd(53, <<Func * 16 + Direction(r) + (IF r.blocks THEN 8 ELSE 0) + 4 + addr \div 32768,
                    (addr \div 128) % 256,
                    ((addr * 2) % 256) + ((r.count \div 256) % 2),
                    r.count % 256>>)

block_size(r) == IF r.blocks THEN BlockSize ELSE r.count
loop_count(r) == IF r.blocks THEN r.count ELSE 1

post_block_delay_bytes(r) == IF r.write = r.blocks THEN Interblock ELSE PostByte

\* From one start token to the next.
total_block_size(r) ==
  post_block_delay_bytes(r) + block_size(r) +
    (IF r.write THEN 1 + 2 ELSE IF r.blocks THEN 2 ELSE 4 + CrcRead)

\* Where the host looks for the blocks' answers.
WriteOffset == HdrLen + RespSize + PostCmd
ReadOffset  == HdrLen + RespSize

BlockOf(r, i) == SubSeq(r.data, (i - 1) * block_size(r) + 1, i * block_size(r))

start_token(r) == IF r.blocks THEN MultiToken ELSE SingleToken

WriteBlock(r, i) ==
  <<start_token(r)>> \o BlockOf(r, i) \o Crc(BlockOf(r, i))
    \o Fill(post_block_delay_bytes(r))

full_trans(r) ==
  Cmd53Header(r) \o
    (IF r.write
       THEN Fill(RespSize + PostCmd) \o FlattenSeq([i \in 1..loop_count(r) |-> WriteBlock(r, i)])
       ELSE Fill((IF r.blocks THEN RespSize ELSE 0) + PostCmd
                   + loop_count(r) * total_block_size(r)))

Transaction(r) ==
  CASE r.cmd = 0  -> cmd0
    [] r.cmd = 63 -> cmd63
    [] r.cmd = 52 -> cmd52(r)
    [] r.cmd = 53 -> full_trans(r)

-------------------------------------------------------------------------------
\* What has come in.  The searches look at all but the last of the octets they are
\* given; what they skip, the first other octet decides.

\* The place of the first octet that is not skipped, 0 if there is none.
FirstBut(skipped, octets) == SelectInSeq(Front(octets), LAMBDA o : o \notin skipped)

cmd_find_resp(octets) ==
  LET i == FirstBut({Junk, SingleToken}, octets) IN i > 0 /\ octets[i] \div 2 = 0

\* The place after a start token, 0 if there is none.
cmd53_find_token(octets) ==
  LET i == FirstBut({Junk}, octets)
  IN IF i > 0 /\ octets[i] \in {MultiToken, SingleToken} THEN i + 1 ELSE 0

cmd53_find_ack(octets) ==
  LET i == FirstBut({Junk}, octets) IN i > 0 /\ octets[i] % 32 = 5

Part(resp, from, size) == SubSeq(resp, from + 1, from + size)

\* Mutant: every block's search begins where the first one does.
Acknowledged_First(r, resp) ==
  \A i \in 1..loop_count(r) :
    cmd53_find_ack(Part(resp, WriteOffset, total_block_size(r)))

\* An acknowledgement for each block of a write.
Acknowledged(r, resp) ==
  \A i \in 1..loop_count(r) :
    cmd53_find_ack(Part(resp, WriteOffset + (i - 1) * total_block_size(r), total_block_size(r)))

\* The blocks of a read, each looked for from the second octet after the checksum of
\* the one before.
ReadBlocks(r, resp) ==
  LET size == block_size(r)
      take(found, i) ==
        LET token == cmd53_find_token(Part(resp, found.ptr, post_block_delay_bytes(r)))
            ptr   == found.ptr + token - 1
            block == Part(resp, ptr, size)
        IN IF ~found.ok \/ token = 0 THEN [found EXCEPT !.ok = FALSE]
           ELSE [ok   |-> crc16_check(block, Part(resp, ptr + size, 2)),
                 ptr  |-> ptr + size + CrcRead,
                 data |-> found.data \o block]
  IN FoldLeft(take, [ok |-> TRUE, ptr |-> ReadOffset, data |-> <<>>],
              [i \in 1..loop_count(r) |-> i])

\* What the command returns, and what a read has put into the buffer if that is 0.
Outcome(r, resp) ==
  LET answered(size) == cmd_find_resp(Part(resp, HdrLen, size))
      result(ok, data) == IF ok THEN [ret |-> 0, data |-> data] ELSE [ret |-> -1, data |-> <<>>]
  IN IF r.cmd # 53 THEN result(answered(HdrExtra), <<>>)
     ELSE IF ~answered(RespSize) THEN result(FALSE, <<>>)
     ELSE IF r.write THEN result(Acknowledged(r, resp), <<>>)
     ELSE LET read == ReadBlocks(r, resp) IN result(read.ok, read.data)

===============================================================================
