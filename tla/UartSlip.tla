------------------------------- MODULE UartSlip -------------------------------
(***************************************************************************)
(* The uart_slip transport, src/transport/uart_slip.c: morse_cli processes *)
(* run one after the other over one UART, each seeding rand() with the     *)
(* second it starts in; every command carries a sequence number and a CRC  *)
(* and its sender polls for a frame that echoes them, without a timeout.   *)
(* A process may be killed at any point and leaves what it sent, and the   *)
(* answer to it, on the line.                                              *)
(*                                                                         *)
(* A frame is what slip_rx makes of the characters between two ENDs        *)
(* (module SlipLink); the CRC is taken to tell damaged frames from whole   *)
(* ones, and two rand() sequences of different seeds never to collide.     *)
(***************************************************************************)
EXTENDS Integers, Sequences

CONSTANTS SeparateSeconds,  \* whether no two processes start in one second
          Sizes,            \* sizes of response payloads
          MaxSecond, MaxCommands, MaxFaults   \* bounds

ASSUME UartSlipAssumption ==
  /\ SeparateSeconds \in BOOLEAN
  /\ Sizes \subseteq Nat /\ Sizes # {}
  /\ MaxSecond \in Nat /\ MaxCommands \in Nat /\ MaxFaults \in Nat

VARIABLES second,    \* time(NULL)
          host,      \* the process: not running, between commands, or receiving
          seed,      \* what the process seeded rand() with
          nth,       \* sequence numbers it has drawn
          capacity,  \* payload capacity of the response buffer
          toDev, toHost,   \* the frames on the line
          \* History: a command is its index in these.
          seqNum,    \* the sequence number each command was given
          outcome,   \* what its caller learned
          reply,     \* the command whose response its caller accepted, or 0
          executed,  \* the commands the device has executed
          faults

line    == <<toDev, toHost>>
history == <<seqNum, outcome, reply, executed>>
vars    == <<second, host, seed, nth, capacity, line, history, faults>>

Command == DOMAIN seqNum
SeqNum  == Nat \X Nat
Result  == {"pending", "answered", "failed"}

\* How slip_rx and the checks after it take a frame: whole, whole but too short,
\* whole but with a wrong CRC, or never completed (ERROR).
Whole   == "whole"
Damaged == {"short", "badcrc", "aborted"}
Frame   == [cmd : Nat, seq : SeqNum, size : Nat, form : {Whole} \cup Damaged]

Init ==
  /\ second = 1 /\ host = "down" /\ seed = 0 /\ nth = 0 /\ capacity = 0
  /\ toDev = <<>> /\ toHost = <<>>
  /\ seqNum = <<>> /\ outcome = <<>> /\ reply = <<>> /\ executed = {}
  /\ faults = 0

Fault == faults < MaxFaults /\ faults' = faults + 1

Tick == /\ second < MaxSecond
        /\ second' = second + 1
        /\ UNCHANGED <<host, seed, nth, capacity, line, history, faults>>

-------------------------------------------------------------------------------
\* The process.

\* uart_slip_init
Start ==
  /\ host = "down"
  /\ SeparateSeconds => second > seed
  /\ host' = "idle" /\ seed' = second /\ nth' = 0
  /\ UNCHANGED <<second, capacity, line, history, faults>>

\* The end of the process, on its own account or killed.  Closing the last
\* descriptor of the tty may discard what has been received.
Stop ==
  /\ host # "down"
  /\ host' = "down"
  /\ \/ UNCHANGED toHost
     \/ toHost' = <<>>
  /\ outcome' = IF host = "waiting"
                  THEN [outcome EXCEPT ![Len(outcome)] = "failed"] ELSE outcome
  /\ UNCHANGED <<second, seed, nth, capacity, toDev, seqNum, reply, executed, faults>>

NewFrame(form) ==
  [cmd |-> Len(seqNum) + 1, seq |-> <<seed, nth + 1>>, size |-> 0, form |-> form]

\* Append the sequence number and the CRC and slip_tx the frame into a line that
\* may garble it.
Transmit(form, result) ==
  /\ Len(seqNum) < MaxCommands
  /\ nth' = nth + 1
  /\ seqNum' = Append(seqNum, <<seed, nth + 1>>)
  /\ toDev' = Append(toDev, NewFrame(form))
  /\ outcome' = Append(outcome, result)
  /\ reply' = Append(reply, 0)

\* The first half of uart_slip_send, up to waiting for the first character.
\* slip_tx may return 0 for a frame it has damaged.
Send(n) ==
  /\ host = "idle"
  /\ host' = "waiting"
  /\ capacity' = n
  /\ \/ Transmit(Whole, "pending") /\ UNCHANGED faults
     \/ Transmit("badcrc", "pending") /\ Fault
  /\ UNCHANGED <<second, seed, toHost, executed>>

\* slip_tx reports the failure of the last octet's write.
SendFails ==
  /\ host = "idle"
  /\ Transmit("badcrc", "failed") /\ Fault
  /\ UNCHANGED <<second, host, seed, capacity, toHost, executed>>

Receiving == host = "waiting" /\ toHost # <<>>

Current == Len(seqNum)

\* slip_rx completes a frame that the response buffer can hold.
Fits(f) == f.form # "aborted" /\ f.size <= capacity

\* Mutant: the sequence number is not compared.
Valid_AnySeq(f) == Fits(f) /\ f.form = Whole

\* Mutant: the CRC is not checked.
Valid_AnyCrc(f) == Fits(f) /\ f.form \in {Whole, "badcrc"} /\ f.seq = seqNum[Current]

\* Every check of uart_slip_send on a completed frame passes.
Valid(f) == Fits(f) /\ f.form = Whole /\ f.seq = seqNum[Current]

\* Mutant: only damaged frames are skipped; a whole one ends the reading.
RxIgnore_DamagedOnly ==
  /\ Receiving
  /\ Fits(Head(toHost)) /\ Head(toHost).form # Whole
  /\ toHost' = Tail(toHost)
  /\ UNCHANGED <<second, host, seed, nth, capacity, toDev, history, faults>>

\* "Ignoring it...": too short, a CRC error or another sequence number.
RxIgnore ==
  /\ Receiving
  /\ Fits(Head(toHost)) /\ ~Valid(Head(toHost))
  /\ toHost' = Tail(toHost)
  /\ UNCHANGED <<second, host, seed, nth, capacity, toDev, history, faults>>

RxAccept ==
  /\ Receiving
  /\ Valid(Head(toHost))
  /\ toHost' = Tail(toHost)
  /\ host' = "idle"
  /\ outcome' = [outcome EXCEPT ![Current] = "answered"]
  /\ reply' = [reply EXCEPT ![Current] = Head(toHost).cmd]
  /\ UNCHANGED <<second, seed, nth, capacity, toDev, seqNum, executed, faults>>

\* What is left of a frame when its first capacity octets have been taken.
Rest(f) == [f EXCEPT !.form = "badcrc", !.cmd = 0, !.size = @ - capacity]

\* SLIP_RX_ERROR or SLIP_RX_BUFFER_LIMIT.  The rest of a frame too long for the
\* buffer stays in the UART, where the next command finds it.
RxFail ==
  /\ Receiving
  /\ ~Fits(Head(toHost))
  /\ toHost' = IF Head(toHost).form = "aborted" THEN Tail(toHost)
               ELSE <<Rest(Head(toHost))>> \o Tail(toHost)
  /\ host' = "idle"
  /\ outcome' = [outcome EXCEPT ![Current] = "failed"]
  /\ UNCHANGED <<second, seed, nth, capacity, toDev, seqNum, reply, executed, faults>>

\* uart_read fails.
ReadError ==
  /\ host = "waiting"
  /\ Fault
  /\ host' = "idle"
  /\ outcome' = [outcome EXCEPT ![Current] = "failed"]
  /\ UNCHANGED <<second, seed, nth, capacity, line, seqNum, reply, executed>>

-------------------------------------------------------------------------------
\* The device and the line, which are outside src/.

\* The device drops a damaged frame, and echoes the sequence number otherwise.
Device ==
  /\ toDev # <<>>
  /\ toDev' = Tail(toDev)
  /\ LET f == Head(toDev) IN
       \/ /\ f.form # Whole
          /\ UNCHANGED <<toHost, executed>>
       \/ /\ f.form = Whole
          /\ executed' = executed \cup {f.cmd}
          /\ \E n \in Sizes : toHost' = Append(toHost, [f EXCEPT !.size = n])
  /\ UNCHANGED <<second, host, seed, nth, capacity, seqNum, outcome, reply, faults>>

\* The frame at the head of a queue is lost, or is damaged and is then no longer
\* any command's.
Garbled(q) ==
  {Tail(q)} \cup {<<[Head(q) EXCEPT !.form = d, !.cmd = 0]>> \o Tail(q) : d \in Damaged}

Garble ==
  /\ Fault
  /\ \/ toDev # <<>> /\ toDev' \in Garbled(toDev) /\ UNCHANGED toHost
     \/ toHost # <<>> /\ toHost' \in Garbled(toHost) /\ UNCHANGED toDev
  /\ UNCHANGED <<second, host, seed, nth, capacity, history>>

-------------------------------------------------------------------------------
Host == (\E n \in Sizes : Send(n)) \/ SendFails \/ RxIgnore \/ RxAccept \/ RxFail \/ ReadError

Next == Tick \/ Start \/ Stop \/ Host \/ Device \/ Garble

Spec == Init /\ [][Next]_vars

\* The process polls the UART as long as it runs, and the device serves its queue.
Fairness == WF_vars(RxIgnore \/ RxAccept \/ RxFail) /\ WF_vars(Device)

FairSpec == Spec /\ Fairness

-------------------------------------------------------------------------------
\* Every variable keeps to its type, the history covers every command, and the
\* process is waiting exactly when its last command is outstanding.
TypeOK ==
  /\ second \in Nat /\ host \in {"down", "idle", "waiting"}
  /\ seed \in Nat /\ nth \in Nat /\ capacity \in Nat /\ faults \in Nat
  /\ toDev \in Seq(Frame) /\ toHost \in Seq(Frame)
  /\ seqNum \in Seq(SeqNum)
  /\ outcome \in [Command -> Result]
  /\ reply \in [Command -> Nat]
  /\ executed \subseteq Command
  /\ \A c \in Command : outcome[c] = "pending" <=> host = "waiting" /\ c = Current

\* "Seq # is used to match command to response" (uart_slip.c:28): the response a
\* caller is given is the device's answer to the very command it sent, whatever
\* is left on the line by processes that were killed and by failed commands.
MatchedResponse ==
  \A c \in Command : outcome[c] = "answered" => reply[c] = c

\* A caller's view, in which an answer to another command is no answer.
Calls == [c \in Command |-> IF outcome[c] = "answered" /\ reply[c] # c
                              THEN "misanswered" ELSE outcome[c]]

Channel == INSTANCE CommandChannel WITH calls <- Calls

\* The transport is a CommandChannel: one command at a time, executed at most once,
\* and answered only after the device has executed it.
ChannelSpec == Channel!Spec

\* As long as the line loses nothing uart_slip_send returns, though it has no timeout:
\* no frame left behind by another process makes it wait for ever.
SendReturns == [](faults = 0) => (host = "waiting" ~> host # "waiting")

===============================================================================
