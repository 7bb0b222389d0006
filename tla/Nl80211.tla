-------------------------------- MODULE Nl80211 --------------------------------
(***************************************************************************)
(* The nl80211 transport, src/transport/nl80211.c: a command is a vendor   *)
(* command to the driver, which handles it before the sending call         *)
(* returns.  What the driver has to say is then in the socket: a reply, if *)
(* it has one, and an acknowledgement or an error, read in two calls.      *)
(*                                                                         *)
(* External: libnl numbers the requests and refuses a message with another *)
(* number than the one it expects, which is counted up with each           *)
(* acknowledgement or error it reads.                                      *)
(***************************************************************************)
EXTENDS Integers, Sequences, SequencesExt

CONSTANTS Replies,  \* what firmware answers: records with a status and a size, the
                    \* octets behind the response header
          Room      \* the octets behind the header that a response buffer has room for

ASSUME Nl80211Assumption == Room \in Nat /\ \A r \in Replies : r.size \in Nat

VARIABLES nl,         \* "closed", "idle", or the call to come inside send
          queue,      \* the messages in the socket
          seq,        \* the number of the request that nl_send_auto_complete sent last
          expect,     \* the one libnl expects messages for
          buffer,     \* the response buffer: whose reply it has, and how many octets of it
          ret,        \* what send returns, 0 or -1
          \* History: a command is its index in these.
          sent,       \* what was asked for
          answer,     \* what firmware answered, if it did
          outcome,    \* what its caller learned: "answered" is a return of 0
          reply,      \* whose reply its caller was given
          executed,   \* the commands firmware has executed
          broken      \* a receive has failed, or a command was acknowledged without data

socket   == <<nl, queue, seq, expect>>
commands == <<sent, answer, outcome, reply, executed, broken>>
nlvars   == <<socket, buffer, ret, commands>>

Junk     == 0
NoAnswer == [status |-> -1, size |-> 0, tlvs |-> <<>>]
Current  == Len(sent)
Fresh    == [of |-> Junk, len |-> Room]

NlInit ==
  /\ nl = "closed" /\ queue = <<>> /\ seq = 0 /\ expect = 1
  /\ buffer = Fresh /\ ret = 0
  /\ sent = <<>> /\ answer = <<>> /\ outcome = <<>> /\ reply = <<>> /\ executed = {}
  /\ broken = FALSE

-------------------------------------------------------------------------------
\* morsectrl_nl80211_init, which gives back what it got where a later step fails.
Open ==
  /\ nl = "closed"
  /\ \/ nl' = "idle" /\ ret' = 0
     \/ ret' = -1 /\ UNCHANGED nl
  /\ UNCHANGED <<queue, seq, expect, buffer, commands>>

\* morsectrl_nl80211_alloc of a response buffer.
ReadAlloc == buffer' = Fresh

\* A message, of the command it is about.
Message(type, c) == [kind |-> type, of |-> c, seq |-> seq]

Reply(c)   == Message("reply", c)
Bare(c)    == Message("bare", c)    \* without NL80211_ATTR_VENDOR_DATA
Ack(c)     == Message("ack", c)
Error(c)   == Message("error", c)

\* Bound: one receive fails, or one command is acknowledged without data, in a run.
MayBreak == ~broken

\* What the driver has to say.
Verdicts(c) ==
  {<<Reply(c), Ack(c)>>, <<Error(c)>>, <<Reply(c), Error(c)>>}
    \cup IF MayBreak THEN {<<Bare(c), Ack(c)>>, <<Ack(c)>>} ELSE {}

Record(request, result) ==
  /\ sent' = Append(sent, request) /\ answer' = Append(answer, NoAnswer)
  /\ outcome' = Append(outcome, result) /\ reply' = Append(reply, Junk)

\* morsectrl_nl80211_send up to nl_send_auto_complete.
Send(request) ==
  /\ nl = "idle"
  /\ Record(request, "pending")
  /\ seq' = seq + 1
  /\ nl' = "driver"
  /\ UNCHANGED <<queue, expect, buffer, ret, executed, broken>>

\* The driver has done with the command before the sending call returns.
Driver ==
  /\ nl = "driver"
  /\ \E verdict \in Verdicts(Current) :
       /\ queue' = queue \o verdict
       /\ IF verdict[1].kind = "reply"
            THEN \E r \in Replies : answer' = [answer EXCEPT ![Current] = r]
            ELSE UNCHANGED answer
       /\ \/ executed' = executed \cup {Current}
          \/ verdict[1].kind = "error" /\ UNCHANGED executed
  /\ nl' = "receive"
  /\ UNCHANGED <<seq, expect, buffer, ret, sent, outcome, reply, broken>>

\* No memory or no interface index; or nothing sent, which uses up a number; where an
\* attribute of the vendor command finds no room, NLA_PUT goes to nla_put_failure with
\* ret still 0.
SendFails(request) ==
  /\ nl = "idle"
  /\ \/ ret' = -1 /\ Record(request, "failed") /\ seq' \in {seq, seq + 1} /\ UNCHANGED broken
     \/ MayBreak /\ ret' = 0 /\ Record(request, "answered") /\ broken' = TRUE /\ UNCHANGED seq
  /\ nl' = "returned"
  /\ UNCHANGED <<queue, expect, buffer, executed>>

-------------------------------------------------------------------------------
\* Send returns.
Finish(r) ==
  /\ nl' = "returned" /\ ret' = r
  /\ outcome' = [outcome EXCEPT ![Current] = IF r = 0 THEN "answered" ELSE "failed"]
  /\ reply' = [reply EXCEPT ![Current] = buffer.of]

\* Mutant: the buffer's length is left as it was.
ReceiveHandler_KeepsLength(c) == buffer' = [of |-> c, len |-> buffer.len]

\* morsectrl_nl80211_receive_handler: as much as the buffer's length says.
ReceiveHandler(c) ==
  buffer' = [of |-> c,
             len |-> IF answer[c].size > buffer.len THEN buffer.len ELSE answer[c].size]

First == Head(queue)

\* The first call returns on a reply, with or without data; wait_for_ack is still set.
TakeReply ==
  /\ nl = "receive" /\ First.kind \in {"reply", "bare"}
  /\ queue' = Tail(queue) /\ nl' = "wait"
  /\ IF First.kind = "reply" THEN ReceiveHandler(First.of) ELSE UNCHANGED buffer
  /\ UNCHANGED <<expect, ret, outcome, reply, broken>>

\* Mutant: the error handler's NL_STOP ends the call without its error.
TakeError_Stop ==
  /\ First.kind = "error"
  /\ queue' = Tail(queue) /\ expect' = expect + 1
  /\ Finish(0) /\ UNCHANGED <<buffer, broken>>

\* morsectrl_nl80211_error_handler; the call ends with the error.
TakeError ==
  /\ First.kind = "error"
  /\ queue' = Tail(queue) /\ expect' = expect + 1
  /\ Finish(-1) /\ UNCHANGED <<buffer, broken>>

\* morsectrl_nl80211_ack_handler, or the end of nl_wait_for_ack.
TakeAck ==
  /\ First.kind = "ack"
  /\ queue' = Tail(queue) /\ expect' = expect + 1
  /\ Finish(0)
  /\ broken' = (broken \/ buffer.of # Current)
  /\ UNCHANGED buffer

\* The socket fails, or the message has another request's number and is dropped.
ReceiveFails ==
  /\ \/ MayBreak /\ UNCHANGED queue
     \/ First.seq # expect /\ queue' = Tail(queue)
  /\ Finish(-1) /\ broken' = TRUE
  /\ UNCHANGED <<expect, buffer>>

\* nl_recvmsgs with the handlers, then nl_wait_for_ack with handlers of its own.
Receive ==
  /\ nl \in {"receive", "wait"} /\ queue # <<>>
  /\ \/ First.seq = expect /\ (TakeReply \/ TakeError \/ TakeAck)
     \/ ReceiveFails
  /\ UNCHANGED <<seq, sent, answer, executed>>

\* The caller goes on.
Return == nl = "returned" /\ nl' = "idle" /\ UNCHANGED <<queue, seq, expect>>

-------------------------------------------------------------------------------
\* What a caller was given: the reply to another command maps to no state of
\* CommandChannel.
Calls ==
  [c \in DOMAIN outcome |->
    IF outcome[c] = "answered" /\ reply[c] # c THEN "mismatched" ELSE outcome[c]]

Channel == INSTANCE CommandChannel WITH calls <- Calls

===============================================================================
