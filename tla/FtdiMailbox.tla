------------------------------ MODULE FtdiMailbox ------------------------------
(***************************************************************************)
(* The command mailbox of the ftdi_spi transport, ftdi_spi_send in         *)
(* src/transport/ftdi_spi.c: one command and one response buffer in chip   *)
(* memory, a doorbell, and a status bit the firmware raises when it has    *)
(* written the response.  Neither buffer names the command it belongs to.  *)
(* Processes run one after the other, and any of them may be killed.       *)
(* Nothing keeps a command from being sent while the firmware still is at  *)
(* an earlier one, whose caller has given up on it.                        *)
(*                                                                         *)
(* A register access that fails says so, and may or may not have reached   *)
(* the chip.  A memory transfer may take several CMD53s, and what it       *)
(* returns is what the last of them said (module SdioMemblock): when an    *)
(* earlier one fails, part of the memory or of the buffer is what it was   *)
(* before and the transfer is taken for a success.                         *)
(***************************************************************************)
EXTENDS Integers, Sequences

CONSTANTS MaxPolls,                \* RESP_TIMEOUT_MS / RESP_POLL_INTERVAL_MS
          MaxCommands, MaxFaults   \* bounds

ASSUME FtdiMailboxAssumption ==
  /\ MaxPolls \in Nat \ {0} /\ MaxCommands \in Nat /\ MaxFaults \in Nat

VARIABLES pc,        \* where ftdi_spi_send is
          polls,     \* polls done
          cmdMem, respMem,     \* whose command, and whose response, is in memory
          status, doorbell,    \* bit MM_CMD_MASK of the two registers
          fw,        \* the command the firmware is executing
          \* History: a command is its index in these.
          outcome,   \* what its caller learned: "answered" is a return of 0
          reply,     \* whose response its caller was given
          runs,      \* how often the firmware has executed it
          crowded,   \* those sent before the firmware was done with the one before
          torn,      \* those of which a transfer has failed without saying so
          faults

host   == <<pc, polls>>
chip   == <<cmdMem, respMem, status, doorbell, fw>>
caller == <<outcome, reply>>
trouble == <<crowded, torn>>
vars   == <<host, chip, caller, runs, trouble, faults>>

None    == 0
Mixed   == -1   \* parts of several commands or responses
Command == DOMAIN outcome
Current == Len(outcome)
Steps   == {"locate", "clear", "write", "trigger", "poll", "read", "clearAgain"}

Init ==
  /\ pc = "down" /\ polls = 0
  /\ cmdMem = None /\ respMem = None /\ status = FALSE /\ doorbell = FALSE /\ fw = None
  /\ outcome = <<>> /\ reply = <<>> /\ runs = <<>>
  /\ crowded = {} /\ torn = {} /\ faults = 0

-------------------------------------------------------------------------------
\* The process.

Start == /\ pc = "down"
         /\ pc' = "idle"
         /\ UNCHANGED <<polls, chip, caller, runs, trouble, faults>>

Settle(result) == outcome' = [outcome EXCEPT ![Current] = result]

\* The end of the process, on its own account or killed inside ftdi_spi_send,
\* perhaps with part of the command written.
Stop ==
  /\ pc # "down"
  /\ pc' = "down"
  /\ IF pc = "idle" THEN UNCHANGED outcome ELSE Settle("failed")
  /\ cmdMem' \in {cmdMem} \cup (IF pc = "write" THEN {Mixed} ELSE {})
  /\ UNCHANGED <<polls, respMem, status, doorbell, fw, reply, runs, trouble, faults>>

\* The firmware has come to an end with all it was asked for.
Settled == fw = None /\ ~doorbell

Send ==
  /\ pc = "idle" /\ Current < MaxCommands
  /\ pc' = "locate"
  /\ outcome' = Append(outcome, "pending")
  /\ reply' = Append(reply, None)
  /\ runs' = Append(runs, 0)
  /\ crowded' = IF Settled THEN crowded ELSE crowded \cup {Current + 1}
  /\ UNCHANGED <<polls, chip, torn, faults>>

\* "goto fail" with the error of the access that failed.
Fail == /\ faults < MaxFaults /\ faults' = faults + 1
        /\ pc' = "idle"
        /\ Settle("failed")

\* An access with the given effect on the chip: it succeeds and the next step
\* follows, or it is reported as failed, whether or not it had its effect.
Access(step, effect, none, next) ==
  /\ pc = step
  /\ \/ effect /\ pc' = next /\ UNCHANGED <<outcome, faults>>
     \/ effect /\ Fail
     \/ none /\ Fail
  /\ UNCHANGED <<reply, runs, trouble>>

\* A CMD53 of the command's transfer fails, and a later one does not.
Tear == /\ faults < MaxFaults /\ faults' = faults + 1
        /\ torn' = torn \cup {Current}

\* Reads the host table and the addresses of the two buffers.  Production
\* firmware has no command buffer, which is an error too.
Locate ==
  /\ Access("locate", TRUE, TRUE, "clear")
  /\ UNCHANGED <<polls, chip>>

\* Mutant: the status is not cleared before the command.
ClearStatus_Skipped ==
  /\ pc = "clear"
  /\ pc' = "write"
  /\ UNCHANGED <<polls, chip, caller, runs, trouble, faults>>

ClearStatus ==
  /\ Access("clear", status' = FALSE, UNCHANGED status, "write")
  /\ UNCHANGED <<polls, cmdMem, respMem, doorbell, fw>>

\* Mutant: a failed write is not noticed.
WriteCommand_Unchecked ==
  /\ pc = "write"
  /\ pc' = "trigger"
  /\ \/ cmdMem' = Current /\ UNCHANGED faults
     \/ faults < MaxFaults /\ faults' = faults + 1 /\ UNCHANGED cmdMem
  /\ UNCHANGED <<polls, respMem, status, doorbell, fw, caller, runs, trouble>>

\* Of a transfer that is torn the buffer may hold parts of the old command and of
\* the new one, or, if the header is the old one's, the old one.
WriteCommand ==
  /\ pc = "write"
  /\ \/ cmdMem' = Current /\ pc' = "trigger" /\ UNCHANGED <<outcome, torn, faults>>
     \/ cmdMem' \in {cmdMem, Mixed, Current} /\ Fail /\ UNCHANGED torn
     \/ cmdMem' \in {cmdMem, Mixed} \ {None} /\ Tear /\ pc' = "trigger" /\ UNCHANGED outcome
  /\ UNCHANGED <<polls, respMem, status, doorbell, fw, reply, runs, crowded>>

Trigger ==
  /\ Access("trigger", doorbell' = TRUE, UNCHANGED doorbell, "poll")
  /\ polls' = 0
  /\ UNCHANGED <<cmdMem, respMem, status, fw>>

\* Mutant: any status is taken for the command's.
Poll_AnyStatus ==
  /\ pc = "poll"
  /\ pc' = "read"
  /\ UNCHANGED <<polls, chip, caller, runs, trouble, faults>>

\* Mutant: the polls are not counted.
Poll_Unbounded ==
  /\ pc = "poll"
  /\ IF status THEN pc' = "read" ELSE UNCHANGED pc
  /\ UNCHANGED <<polls, chip, caller, runs, trouble, faults>>

\* One turn of the polling loop.  After the last one ret still is the 0 of the
\* register read, and "goto fail" returns it.
Poll ==
  /\ pc = "poll"
  /\ \/ Fail /\ UNCHANGED polls
     \/ /\ status
        /\ pc' = "read"
        /\ UNCHANGED <<polls, outcome, faults>>
     \/ /\ ~status
        /\ polls' = polls + 1
        /\ IF polls + 1 < MaxPolls
             THEN UNCHANGED <<pc, outcome>>
             ELSE pc' = "idle" /\ Settle("answered")
        /\ UNCHANGED faults
  /\ UNCHANGED <<chip, reply, runs, trouble>>

Give(r) == reply' = [reply EXCEPT ![Current] = r]

\* While the firmware is at another command it may be writing the response to that.
\* Of a transfer that is torn nothing, or only parts, may have been filled in.
ReadResponse ==
  /\ pc = "read"
  /\ \/ /\ pc' = "clearAgain"
        /\ \E r \in {respMem} \cup (IF fw = None THEN {} ELSE {Mixed}) : Give(r)
        /\ UNCHANGED <<outcome, torn, faults>>
     \/ /\ pc' = "clearAgain"
        /\ Tear
        /\ \E r \in {None, Mixed} : Give(r)
        /\ UNCHANGED outcome
     \/ Fail /\ UNCHANGED <<reply, torn>>
  /\ UNCHANGED <<polls, chip, runs, crowded>>

\* The result of this access is not looked at.
ClearAgain ==
  /\ pc = "clearAgain"
  /\ \/ status' = FALSE /\ UNCHANGED faults
     \/ faults < MaxFaults /\ faults' = faults + 1 /\ UNCHANGED status
  /\ pc' = "idle"
  /\ Settle("answered")
  /\ UNCHANGED <<polls, cmdMem, respMem, doorbell, fw, reply, runs, trouble>>

-------------------------------------------------------------------------------
\* The firmware, which is outside src/.

\* It may find a command of which part has been written.
Execute ==
  /\ doorbell /\ fw = None
  /\ doorbell' = FALSE
  /\ fw' \in ({cmdMem} \ {None}) \cup (IF pc = "write" THEN {Mixed} ELSE {})
  /\ runs' = [c \in Command |-> IF c = fw' THEN runs[c] + 1 ELSE runs[c]]
  /\ UNCHANGED <<host, cmdMem, respMem, status, caller, trouble, faults>>

Respond ==
  /\ fw # None
  /\ respMem' = fw /\ status' = TRUE /\ fw' = None
  /\ UNCHANGED <<host, cmdMem, doorbell, caller, runs, trouble, faults>>

-------------------------------------------------------------------------------
Host == Locate \/ ClearStatus \/ WriteCommand \/ Trigger \/ Poll \/ ReadResponse \/ ClearAgain

Next == Start \/ Stop \/ Send \/ Host \/ Execute \/ Respond

Spec == Init /\ [][Next]_vars

\* The process runs; nothing is assumed of the firmware.
FairSpec == Spec /\ WF_vars(Host)

-------------------------------------------------------------------------------
\* Every variable keeps to its type; a command is outstanding exactly while
\* ftdi_spi_send runs; and the doorbell rings for a command that is in memory.
TypeOK ==
  /\ pc \in {"down", "idle"} \cup Steps /\ polls \in 0..MaxPolls
  /\ {cmdMem, respMem, fw} \subseteq {None, Mixed} \cup Command
  /\ status \in BOOLEAN /\ doorbell \in BOOLEAN /\ faults \in Nat
  /\ outcome \in Seq({"pending", "answered", "failed"})
  /\ reply \in [Command -> {None, Mixed} \cup Command]
  /\ runs \in [Command -> Nat]
  /\ crowded \subseteq Command /\ torn \subseteq Command
  /\ \A c \in Command : outcome[c] = "pending" <=> c = Current /\ pc \in Steps
  /\ doorbell => cmdMem # None

\* Though the mailbox does not say whose response it holds, a caller is given that
\* to his own command, whatever kills, timeouts and status bits that could not be
\* cleared came before: unless his command was sent while the firmware still was at
\* an earlier one, or a failure of a transfer of his own went unnoticed.
OwnResponse == \A c \in Command : reply[c] \in {None, c} \/ c \in crowded \cup torn

\* No command is executed twice, however often its successors fail half way: the
\* doorbell does not ring while an earlier command is in the buffer, unless it was
\* ringing before the command was written or the writing of a later one was torn.
ExecutedOnce ==
  \A c \in Command : runs[c] > 1 => c \in crowded \/ \E d \in torn : d > c

\* "0 on success or relevant error" (transport.h:197): 0 means there is a response.
ZeroMeansResponse ==
  \A c \in Command : outcome[c] = "answered" => reply[c] # None

\* What may be relied on: nothing of a command that was crowded or torn, and a
\* response that nobody filled in is a failure.
Calls == [c \in Command |->
           CASE c \in crowded \cup torn -> "failed"
             [] c \notin crowded \cup torn /\ outcome[c] = "answered" /\ reply[c] = None ->
                  "failed"
             [] c \notin crowded \cup torn /\ outcome[c] = "answered"
                  /\ reply[c] \notin {None, c} -> "misanswered"
             [] c \notin crowded \cup torn
                  /\ (outcome[c] # "answered" \/ reply[c] = c) -> outcome[c]]

Channel == INSTANCE CommandChannel
             WITH calls <- Calls, executed <- {c \in Command : runs[c] > 0}

\* Apart from these commands and from the timeout's return value the mailbox is a
\* CommandChannel: a filled response means the device has executed that command.
\* Once the firmware has settled, what went wrong before does not matter any more.
ChannelSpec == Channel!Spec

\* ftdi_spi_send returns even if the firmware never answers.
SendReturns == pc \in Steps ~> pc \notin Steps

===============================================================================
