-------------------------------- MODULE SdioChip --------------------------------
(***************************************************************************)
(* The chip's end of the SPI bus, as far as the host relies on it: for     *)
(* each octet it hears while it is selected it sends one.  It answers a    *)
(* command, the blocks of a write and a read when it is ready, which the   *)
(* host cannot tell beforehand, and refuses what is damaged.               *)
(***************************************************************************)
EXTENDS SdioCommand

CONSTANTS Content(_)    \* the octet at an address of the chip's memory

\* What the host clocks in when the chip has nothing to send is Junk.  A mood is
\* how the chip takes one transaction: the octets before its response, the response,
\* the octets before the answer to each block, and the block that is damaged on the
\* way, if any (0 for none).

\* A chip that has just been selected.
Listening == [mode |-> "command", got |-> <<>>, plan |-> <<>>, left |-> 0, req |-> <<>>, log |-> <<>>]

Answer(c, mood, octets) == [c EXCEPT !.plan = Fill(mood.delay) \o octets]

Did(c, cmd, addr, data) == [c EXCEPT !.log = Append(@, [cmd |-> cmd, addr |-> addr, data |-> data])]

\* The fields of a CMD53.
Request(got) ==
  [write  |-> got[2] >= 128, blocks |-> (got[2] \div 8) % 2 = 1,
   addr   |-> (got[2] % 4) * 32768 + got[3] * 128 + got[4] \div 2,
   count  |-> (got[4] % 2) * 256 + got[5]]

Damage(block) == [block EXCEPT ![1] = Flip(@, 1)]

Gap(mood, i) == IF i \in DOMAIN mood.gaps THEN mood.gaps[i] ELSE 0

\* A block as the chip sends it.
Sent(req, mood, i) ==
  LET size  == block_size(req)
      block == [k \in 1..size |-> Content(req.addr + (i - 1) * size + k - 1)]
  IN Fill(Gap(mood, i)) \o <<start_token(req)>>
       \o (IF mood.damaged = i THEN Damage(block) ELSE block) \o Crc(block)

Received(req) ==
  [k \in 1..(loop_count(req) * block_size(req)) |-> Content(req.addr + k - 1)]

\* All of a command has been heard.
Execute(c, mood) ==
  LET cmd == c.got[1] - 64
      req == Request(c.got)
      idle == [c EXCEPT !.mode = "command", !.got = <<>>]
  IN IF calc_cmd_crc_octet(SubSeq(c.got, 1, 5)) # c.got[6] \/ mood.response[1] > 1
       THEN Answer(idle, mood, <<8>>)
     ELSE CASE cmd \in {0, 63} -> Answer(Did(idle, cmd, 0, <<>>), mood, mood.response)
            [] cmd = 52 -> Answer(Did(idle, 52, req.addr, <<c.got[5]>>), mood, mood.response)
            [] cmd = 53 /\ req.write ->
                 [Answer(idle, mood, mood.response) EXCEPT
                    !.mode = "token", !.left = loop_count(req), !.req = req]
            [] cmd = 53 /\ ~req.write ->
                 Answer(Did(idle, 53, req.addr, Received(req)), mood,
                        mood.response \o
                          FlattenSeq([i \in 1..loop_count(req) |-> Sent(req, mood, i)]))

\* All of a block and its checksum has been heard: it goes to memory if it is whole,
\* and the chip listens again when it has said so.
Take(c, mood) ==
  LET size == block_size(c.req)
      i    == loop_count(c.req) - c.left + 1
      heard == SubSeq(c.got, 1, size)
      block == IF mood.damaged = i THEN Damage(heard) ELSE heard
      whole == crc16_check(block, SubSeq(c.got, size + 1, size + 2))
      next  == [c EXCEPT !.mode = "busy", !.got = <<>>, !.left = @ - 1,
                         !.plan = @ \o Fill(Gap(mood, i)) \o <<IF whole THEN 229 ELSE 235>>]
  IN IF whole THEN Did(next, 53, c.req.addr + (i - 1) * size, block) ELSE next

\* The chip hears an octet.
Hear(c, octet, mood) ==
  LET more == [c EXCEPT !.got = Append(@, octet)]
  IN CASE c.mode = "command" ->
            IF c.plan = <<>> /\ octet \in 64..127 THEN [more EXCEPT !.mode = "header"] ELSE c
       [] c.mode = "header" -> IF Len(more.got) = 6 THEN Execute(more, mood) ELSE more
       [] c.mode = "token" ->
            IF octet = start_token(c.req) THEN [c EXCEPT !.mode = "block"] ELSE c
       [] c.mode = "block" ->
            IF Len(more.got) = block_size(c.req) + 2 THEN Take(more, mood) ELSE more
       [] c.mode = "busy" ->
            IF c.plan = <<>> THEN [c EXCEPT !.mode = IF c.left = 0 THEN "command" ELSE "token"]
                             ELSE c

\* An octet out and an octet in.
Clock(bus, octet, mood) ==
  LET c == bus.chip
      idle == c.plan = <<>>
  IN [chip |-> Hear(IF idle THEN c ELSE [c EXCEPT !.plan = Tail(@)], octet, mood),
      in   |-> Append(bus.in, IF idle THEN Junk ELSE Head(c.plan))]

\* A run of octets out, and what comes in: after the first n of them.
Clocked(c, octets, mood) ==
  LET after[n \in 0..Len(octets)] ==
        IF n = 0 THEN [chip |-> c, in |-> <<>>] ELSE Clock(after[n - 1], octets[n], mood)
  IN after[Len(octets)]

===============================================================================
