--------------------------------- MODULE SdioBus ---------------------------------
(***************************************************************************)
(* The commands of sdio_over_spi (SdioCommand), sent over an SPI channel   *)
(* of an FTDI adapter (SpiChannel) to the chip (SdioChip), by processes of *)
(* which any may be killed at any point and leave the adapter to the next. *)
(***************************************************************************)
EXTENDS SpiChannel

CONSTANTS SdioRequests,  \* the commands that are sent: [cmd, write, blocks, addr, count, data]
          OutOfStep      \* bound: those sent over a channel that is not in step

\* A write comes with the octets of its blocks.
ASSUME SdioRequestsAssumption ==
  \A r \in SdioRequests :
    /\ r.cmd \in {0, 52, 53, 63} /\ r.write \in BOOLEAN /\ r.blocks \in BOOLEAN
    /\ r.count \in Nat /\ r.data \in Seq(0..255)
    /\ r.cmd = 53 /\ r.write => Len(r.data) = loop_count(r) * block_size(r)

VARIABLES request,  \* the command being sent, or sent last
          result    \* what it returned and what it has read: [ret, data]

bvars == <<cvars, request, result>>

None == [cmd |-> 0, write |-> FALSE, blocks |-> FALSE, addr |-> 0, count |-> 0, data |-> <<>>]

NoResult == [ret |-> 0, data |-> <<>>]

BInit == CInit /\ request = None /\ result = NoResult

\* A command is a transaction of its own, whatever became of the one before.
Send(r) ==
  /\ at = "idle"
  /\ InStep \/ r \in OutOfStep
  /\ SPI_ReadWrite(Transaction(r))
  /\ request' = r /\ result' = NoResult

\* The response is looked at if ftdi_spi_raw_read_write was successful.
Return ==
  /\ at \in {"return", "error"} /\ at' = "idle"
  /\ result' = IF at = "return" THEN Outcome(request, inBuffer) ELSE [ret |-> -1, data |-> <<>>]
  /\ outBuffer' = <<>> /\ inBuffer' = <<>> /\ sizeTransferred' = 0
  /\ UNCHANGED <<contexts, loops, bad, mpsse, queue, bus, request, history, upsets>>

\* A step of the channel, with which the process may end.
Channel ==
  /\ CNext
  /\ IF at' = "down" THEN request' = None /\ result' = NoResult
                     ELSE UNCHANGED <<request, result>>

BNext == Channel \/ (\E r \in SdioRequests : Send(r)) \/ Return

BSpec == BInit /\ [][BNext]_bvars

-------------------------------------------------------------------------------
\* What the chip has done for the command, in order: all that was asked for, once.
Executed ==
  LET log == chip.log
      size == block_size(request)
  IN CASE request.cmd \in {0, 63} -> [i \in DOMAIN log |-> log[i].cmd] = <<request.cmd>>
       [] request.cmd = 52 -> log = <<[cmd |-> 52, addr |-> request.addr, data |-> request.data]>>
       [] request.cmd = 53 /\ request.write ->
            log = [i \in 1..loop_count(request) |->
                     [cmd |-> 53, addr |-> request.addr + (i - 1) * size,
                      data |-> BlockOf(request, i)]]
       [] request.cmd = 53 /\ ~request.write ->
            log = <<[cmd |-> 53, addr |-> request.addr, data |-> result.data]>>

\* A read that came short makes SPI_ReadWrite send again what has been sent: without
\* effect in a read whose command is not among it.
Undisturbed == short = "no" \/ (short = "yes" /\ request.cmd = 53 /\ ~request.write)

\* "0 on success otherwise relevant error" (sdio_over_spi.c:366): a command that
\* returns 0 has been executed, once, and each block of a CMD53 is where it belongs,
\* whenever the chip answers, whatever it refuses or is damaged on the way, and however
\* many transfers it takes, with a read that times out in the one case and without one
\* in the others: if the channel was in step when the command was sent over it.
Carried == at = "idle" /\ mood # <<>> /\ result.ret = 0 /\ Undisturbed => Executed

\* Whatever an earlier process left, a channel that has been opened is in step, and stays
\* so from command to command until a call fails or a read comes short: unless octets are
\* left in which the synchronisation sees its own answers.
Recovered == at = "idle" /\ ~harmed /\ ~misled => InStep

===============================================================================
