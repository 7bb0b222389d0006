------------------------------- MODULE SpiChannel -------------------------------
(***************************************************************************)
(* An SPI channel of an FTDI adapter, as libmpsse opens it, transfers over *)
(* it and closes it (src/transport/libmpsse/source, ftdi_spi.c and         *)
(* ftdi_mid.c), and ftdi_spi_raw_read_write on top.  The adapter keeps its *)
(* state from one process to the next: the bit mode, the loopback, the     *)
(* data that a command it has been given still waits for, the chip select  *)
(* line, and the octets it has not delivered.                              *)
(*                                                                         *)
(* A call of the D2XX library can fail, with or without its effect, and    *)
(* then libmpsse returns at once, leaving the adapter as it is.  A process *)
(* that was opening or closing the channel ends; one that was transferring *)
(* goes on, over the channel as it is now.  A read that times out returns  *)
(* fewer octets and no error.                                              *)
(***************************************************************************)
EXTENDS SdioChip

CONSTANTS MoodsFor(_),  \* the moods a transaction may find the chip in
          MaxXfer,      \* octets in one transfer of the MPSSE (64 KiB)
          MaxLoops,     \* MID_MAX_IN_BUF_SIZE, as the number of echo attempts
          Late,         \* octets that a purge, or the end of a process, leaves on their way
          Leftovers,    \* what an adapter gone astray may have to deliver
          ShortReads,   \* bound: what a read that comes short may bring
          MaxUpsets     \* bound: calls that fail and reads that come short

ASSUME SpiChannelAssumption ==
  /\ {MaxXfer, MaxLoops} \subseteq Nat \ {0}
  /\ {Late, MaxUpsets} \cup ShortReads \subseteq Nat
  /\ Leftovers \subseteq Seq(0..255)

VARIABLES at,         \* where the process is; "down" between two
          contexts,   \* libmpsse's list of channels: the handle and the state of the pins
          loops, bad, \* of Mid_SendReceiveCmdFromMPSSE: loopCounter, cmdResponse
          mpsse,      \* the adapter: [mode, loopback, awaits, cs]
          queue,      \* the octets on their way to the process, in order
          chip, mood, \* see SdioChip
          outBuffer, inBuffer,
          sizeTransferred,
          short,      \* History: a read of this transfer came short; "again": so short
                      \* that the command was sent once more; "stale": the transfer began
                      \* over a channel that was not in step
          harmed,     \* History: a call of this process has failed or a read come short
          misled,     \* History: see Misleading
          upsets

host     == <<at, contexts, loops, bad>>
transfer == <<outBuffer, inBuffer, sizeTransferred>>
bus      == <<chip, mood>>
history  == <<short, harmed, misled>>
cvars    == <<host, mpsse, queue, bus, transfer, history, upsets>>

Handle == "spi"
Bad    == 250    \* MID_BAD_COMMAND_RESPONSE

\* What may be left of a queue of which all has been taken that has arrived.
Rests(q) == {SubSeq(q, n + 1, Len(q)) : n \in 0..Len(q)}
LateOf(q) == {rest \in Rests(q) : Len(rest) <= Late}

CInit ==
  /\ at = "down" /\ contexts = <<>> /\ loops = 0 /\ bad = FALSE
  /\ mpsse = [mode |-> "reset", loopback |-> FALSE, awaits |-> 0, cs |-> "in"]
  /\ queue = <<>>
  /\ chip = Listening /\ mood = <<>>
  /\ outBuffer = <<>> /\ inBuffer = <<>> /\ sizeTransferred = 0
  /\ short = "no" /\ harmed = FALSE /\ misled = FALSE /\ upsets = 0

-------------------------------------------------------------------------------
\* A D2XX call: with its effect on to the next step, or it fails and so does what waits
\* for it: the process, which is to end, or the transfer.

Upset == upsets < MaxUpsets /\ upsets' = upsets + 1 /\ harmed' = TRUE

Fails(failure) == Upset /\ at' = failure

D2xx(step, effect, none, next, failure) ==
  /\ at = step
  /\ \/ effect /\ (Fails(failure) \/ (at' = next /\ UNCHANGED <<upsets, harmed>>))
     \/ none /\ Fails(failure)

\* A call of SPI_InitChannel.
Init_call(step, adapter, queues, next) ==
  /\ D2xx(step, mpsse' = adapter /\ queue' \in queues, UNCHANGED <<mpsse, queue>>, next, "failed")
  /\ UNCHANGED <<contexts, loops, bad, bus, transfer, short>>

\* The settings that matter to neither queue nor pins.
Setting(step, next) == Init_call(step, mpsse, {queue}, next) /\ UNCHANGED misled

SPI_AddChannelConfig(handle) == contexts' = Append(contexts, [handle |-> handle, cs |-> "unset"])

SPI_OpenChannel ==
  /\ at = "down"
  /\ at' = "reset device"
  /\ SPI_AddChannelConfig(Handle)
  /\ harmed' = FALSE
  /\ UNCHANGED <<loops, bad, mpsse, queue, bus, transfer, short, misled, upsets>>

Mid_ResetDevice          == Setting("reset device", "purge")
Mid_PurgeDevice          ==
  Init_call("purge", mpsse, LateOf(queue), "usb parameters") /\ UNCHANGED misled
Mid_SetUSBParameters     == Setting("usb parameters", "special chars")
Mid_SetDeviceSpecialChar == Setting("special chars", "timeouts")
Mid_SetDeviceTimeOut     == Setting("timeouts", "latency")
Mid_SetLatencyTimer      == Setting("latency", "reset mpsse")

\* The MPSSE forgets what it was doing, and its pins are inputs.
Mid_ResetMPSSE ==
  /\ Init_call("reset mpsse",
               [mode |-> "reset", loopback |-> mpsse.loopback, awaits |-> 0, cs |-> "in"],
               {queue}, "enable mpsse")
  /\ UNCHANGED misled

Mid_EnableMPSSEIn ==
  Init_call("enable mpsse", [mpsse EXCEPT !.mode = "mpsse"], {queue}, "loopback on")
    /\ UNCHANGED misled

Mid_SetDeviceLoopbackState(step, on, next) ==
  Init_call(step, [mpsse EXCEPT !.loopback = on], {queue}, next) /\ UNCHANGED misled

Mid_EmptyDeviceInputBuff(step, next) == Init_call(step, mpsse, Rests(queue), next)

-------------------------------------------------------------------------------
\* The MPSSE answers a command it does not know with Bad and the command.  One round
\* of Mid_SendReceiveCmdFromMPSSE sends it (the first only, if once), reads what has
\* arrived, and looks for that pair, which may be split between two rounds.
Echoed(got, cmd) ==
  \E i \in DOMAIN got : got[i] = cmd /\ (IF i = 1 THEN bad ELSE got[i - 1] = Bad)

Mid_SendReceiveCmdFromMPSSE(step, once, cmd, next) ==
  /\ at = step
  /\ LET coming == IF once /\ loops > 0 THEN queue ELSE queue \o <<Bad, cmd>>
     IN \E rest \in Rests(coming) :
          LET got == SubSeq(coming, 1, Len(coming) - Len(rest)) IN
          /\ queue' = rest
          /\ IF loops + 1 > MaxLoops THEN at' = "failed" /\ loops' = 0 /\ bad' = FALSE
             ELSE IF Echoed(got, cmd) THEN at' = next /\ loops' = 0 /\ bad' = FALSE
             ELSE /\ loops' = loops + 1
                  /\ bad' = IF got = <<>> THEN bad ELSE got[Len(got)] = Bad
                  /\ UNCHANGED at
  /\ UNCHANGED <<contexts, mpsse, bus, transfer, history, upsets>>

\* Octets in which the answers to an earlier process's synchronisation can be seen.
EchoAt(q, i, cmd) == i + 1 \in DOMAIN q /\ q[i] = Bad /\ q[i + 1] = cmd

Misleading(q) == \E i, j \in DOMAIN q : i < j /\ EchoAt(q, i, 170) /\ EchoAt(q, j, 171)

\* Mutant: one echo is enough.
Mid_SyncMPSSE_Single ==
  \/ Mid_EmptyDeviceInputBuff("sync", "echo AA") /\ misled' = Misleading(queue')
  \/ Mid_SendReceiveCmdFromMPSSE("echo AA", FALSE, 170, "clock")

\* The first command until it comes back, the second once: with it all answers to the
\* first have come.
Mid_SyncMPSSE ==
  \/ Mid_EmptyDeviceInputBuff("sync", "echo AA") /\ misled' = Misleading(queue')
  \/ Mid_SendReceiveCmdFromMPSSE("echo AA", FALSE, 170, "echo AB")
  \/ Mid_SendReceiveCmdFromMPSSE("echo AB", TRUE, 171, "clock")

Mid_SetClock == Setting("clock", "loopback off")

FT_InitChannel ==
  \/ Mid_ResetDevice \/ Mid_PurgeDevice \/ Mid_SetUSBParameters
  \/ Mid_SetDeviceSpecialChar \/ Mid_SetDeviceTimeOut \/ Mid_SetLatencyTimer
  \/ Mid_ResetMPSSE \/ Mid_EnableMPSSEIn
  \/ Mid_SetDeviceLoopbackState("loopback on", TRUE, "sync")
  \/ Mid_SyncMPSSE
  \/ Mid_SetClock
  \/ Mid_SetDeviceLoopbackState("loopback off", FALSE, "empty")
  \/ Mid_EmptyDeviceInputBuff("empty", "pins") /\ UNCHANGED misled

-------------------------------------------------------------------------------
\* The list has a node for each handle that was opened.
SPI_SaveChannelConfig(cs) ==
  contexts' = [i \in DOMAIN contexts |->
                 IF contexts[i].handle = Handle THEN [contexts[i] EXCEPT !.cs = cs]
                                                ELSE contexts[i]]

SPI_GetChannelConfig == SelectLastInSeq(contexts, LAMBDA node : node.handle = Handle)

SPI_DelChannelConfig ==
  contexts' = RemoveAt(contexts, SelectInSeq(contexts, LAMBDA node : node.handle = Handle))

\* The pins' initial state: all of them high, but for the clock.
SPI_InitChannel ==
  \/ FT_InitChannel
  \/ /\ D2xx("pins", mpsse' = [mpsse EXCEPT !.cs = "high"], UNCHANGED mpsse, "idle", "failed")
     /\ IF at' = "idle" THEN SPI_SaveChannelConfig("high") ELSE UNCHANGED contexts
     /\ UNCHANGED <<loops, bad, queue, bus, transfer, short, misled>>

-------------------------------------------------------------------------------
\* An adapter that takes commands, and one that has taken data for a command, or the
\* other way round.
Ready  == mpsse.mode = "mpsse" /\ mpsse.awaits = 0
Astray == [mode |-> "astray", loopback |-> TRUE, awaits |-> 0, cs |-> "low"]

\* A write to the adapter: what it makes of it and then delivers, if it is the one that
\* the adapter expects; what the adapter does with another, nobody has laid down.
Written(expected, adapter, coming) ==
  IF expected THEN mpsse' = adapter /\ queue' = queue \o coming
              ELSE mpsse' = Astray /\ queue' \in {queue} \cup Leftovers

ToggledCS(cs) == Written(Ready, [mpsse EXCEPT !.cs = cs], <<>>)

\* The pins' final state is that of the start.
SPI_CloseChannel ==
  /\ \E left \in {queue} \cup Leftovers :
       /\ D2xx("idle", /\ mpsse' = IF Ready THEN [mpsse EXCEPT !.cs = "high"] ELSE Astray
                       /\ Ready => left = queue,
               UNCHANGED mpsse /\ left = queue, "down", "failed")
       /\ queue' \in IF at' = "down" THEN LateOf(left) ELSE {left}
  /\ IF at' = "down" THEN SPI_DelChannelConfig ELSE UNCHANGED contexts
  /\ chip' = Listening /\ mood' = <<>> /\ short' = "no" /\ misled' = FALSE
  /\ UNCHANGED <<loops, bad, transfer>>

\* The end of a process, killed or after a failure.
End ==
  /\ at # "down"
  /\ at' = "down"
  /\ contexts' = <<>> /\ loops' = 0 /\ bad' = FALSE
  /\ queue' \in LateOf(queue)
  /\ outBuffer' = <<>> /\ inBuffer' = <<>> /\ sizeTransferred' = 0
  /\ chip' = Listening /\ mood' = <<>>
  /\ short' = "no" /\ harmed' = FALSE /\ misled' = FALSE
  /\ UNCHANGED <<mpsse, upsets>>

-------------------------------------------------------------------------------
\* The adapter runs commands, waits for no data, does not loop back, deselects the chip
\* and has nothing to deliver.
InStep ==
  /\ mpsse = [mode |-> "mpsse", loopback |-> FALSE, awaits |-> 0, cs |-> "high"]
  /\ contexts = <<[handle |-> Handle, cs |-> "high"]>>
  /\ queue = <<>>

\* SPI_ReadWrite, from the first octet of out on.
SPI_ReadWrite(out) ==
  /\ at' = "cs on"
  /\ outBuffer' = out /\ inBuffer' = <<>> /\ sizeTransferred' = 0
  /\ short' = IF InStep THEN "no" ELSE "stale"
  /\ UNCHANGED <<contexts, loops, bad, mpsse, queue, bus, harmed, misled, upsets>>

\* A step of SPI_ReadWrite, which a failure ends.
Step(step, effect, none, next) ==
  /\ D2xx(step, effect, none, next, "error")
  /\ UNCHANGED <<loops, bad, outBuffer, misled>>

\* The list's pin state changes whether or not the pins do.
SPI_ToggleCS(step, cs, next) ==
  /\ Step(step, ToggledCS(cs), UNCHANGED <<mpsse, queue>>, next)
  /\ contexts' = [contexts EXCEPT ![SPI_GetChannelConfig].cs = cs]
  /\ UNCHANGED <<inBuffer, sizeTransferred, short>>

\* A chip that has been selected all the time goes on with what it was doing.
Select ==
  /\ SPI_ToggleCS("cs on", "low", "command")
  /\ chip' = IF mpsse.cs = "low" THEN chip ELSE Listening
  /\ mood' \in MoodsFor(outBuffer)

Deselect == SPI_ToggleCS("cs off", "high", "return") /\ UNCHANGED bus

CurrentXferSize ==
  LET left == Len(outBuffer) - sizeTransferred IN IF left > MaxXfer THEN MaxXfer ELSE left

Command ==
  /\ Step("command", Written(Ready, [mpsse EXCEPT !.awaits = CurrentXferSize], <<>>),
          UNCHANGED <<mpsse, queue>>, "data")
  /\ UNCHANGED <<contexts, bus, inBuffer, sizeTransferred, short>>

\* From the octets that have been read on.
OutData == SubSeq(outBuffer, sizeTransferred + 1, sizeTransferred + CurrentXferSize)

Data ==
  /\ LET heard == Clocked(chip, OutData, mood)
         expected == mpsse.mode = "mpsse" /\ mpsse.awaits = CurrentXferSize
     IN Step("data",
             /\ Written(expected, [mpsse EXCEPT !.awaits = 0], heard.in)
             /\ chip' = IF expected THEN heard.chip ELSE chip,
             UNCHANGED <<mpsse, chip, queue>>,
             "read")
  /\ UNCHANGED <<contexts, mood, inBuffer, sizeTransferred, short>>

\* FT_Channel_Read has returned n octets, and the rest of out is still to come.
Read(n) ==
  /\ inBuffer' = inBuffer \o SubSeq(queue, 1, n)
  /\ queue' = SubSeq(queue, n + 1, Len(queue))
  /\ sizeTransferred' = sizeTransferred + n

AfterRead(n) == IF sizeTransferred + n < Len(outBuffer) THEN "command" ELSE "cs off"

ReadAll ==
  /\ Len(queue) >= CurrentXferSize
  /\ Step("read", Read(CurrentXferSize), UNCHANGED <<inBuffer, queue, sizeTransferred>>,
          AfterRead(CurrentXferSize))
  /\ UNCHANGED <<contexts, mpsse, bus, short>>

\* It has timed out, with fewer octets and no error: late ones, or all that there are.
ReadShort ==
  /\ at = "read"
  /\ \E n \in 0..(CurrentXferSize - 1) :
       /\ \/ n \in ShortReads /\ n < Len(queue) /\ Upset
          \/ n = Len(queue) /\ harmed' = TRUE /\ UNCHANGED upsets
       /\ Read(n)
       /\ at' = AfterRead(n)
       /\ short' = IF short # "no" THEN short
                   ELSE IF sizeTransferred + n < HdrLen THEN "again" ELSE "yes"
  /\ UNCHANGED <<contexts, loops, bad, mpsse, bus, outBuffer, misled>>

Transfer == Select \/ Command \/ Data \/ ReadAll \/ ReadShort \/ Deselect

CNext == SPI_OpenChannel \/ SPI_InitChannel \/ SPI_CloseChannel \/ Transfer \/ End

===============================================================================
