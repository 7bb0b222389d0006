------------------------------ MODULE ChannelInfo ------------------------------
(***************************************************************************)
(* `channel` (src/channel.c): sets the channel if asked to and prints the  *)
(* full, the DTIM and the current channel, using one response buffer for   *)
(* the three queries.  What an earlier response has left in the buffer, and*)
(* in its length, is what a later one that does not fill it is printed     *)
(* with; how far it fills it depends on the transport.                     *)
(*                                                                         *)
(* A query is answered in full with status 0, or with a positive status    *)
(* and no body, of which command.c knows 110, a timeout; or the transport  *)
(* fails or the status is negative, which callers see alike.  Or the       *)
(* transport returns 0 and has filled nothing in, and the status is read   *)
(* from what the buffer held: ftdi_spi after a timeout, nl80211 after an   *)
(* acknowledgement without data or without having sent the command.        *)
(***************************************************************************)
EXTENDS Integers, Sequences

Transports == {"nl80211", "ftdi_spi", "uart_slip"}

Queries == <<"full", "dtim", "current">>

Junk == "junk"   \* what malloc, or the chip's memory, held
None == "none"

VARIABLES transport,
          opts,    \* [set, all: whether -c and -a are given]
          pc,      \* "set", the query to come or "done"
          body,    \* whose answer the body of the response buffer holds
          room,    \* data_len of the buffer: "whole" or "header"
          printed, \* [query -> whose answer was printed for it]
          ret,     \* what channel() returns
          \* History:
          refused,    \* has a query been answered with a positive status, or in parts
          unanswered  \* the queries for which send returned 0 and filled nothing in

QueryNames == {Queries[i] : i \in DOMAIN Queries}

\* Before the call.
Idle ==
  /\ opts = [set |-> FALSE, all |-> FALSE]
  /\ pc = "idle"
  /\ body = Junk /\ room = "whole"
  /\ printed = [q \in QueryNames |-> None]
  /\ refused = FALSE /\ unanswered = {}

\* The options are looked at and the buffers allocated.
Begin ==
  /\ pc = "idle"
  /\ opts' \in [set : BOOLEAN, all : BOOLEAN]
  /\ pc' \in {IF opts'.set THEN "set" ELSE "full", "done"}   \* "done": no memory
  /\ ret' = -1
  /\ UNCHANGED <<transport, body, room, printed, refused, unanswered>>

-------------------------------------------------------------------------------
\* SET_CHANNEL.  A positive status is passed over; without a frequency nothing is sent.
SetChannel ==
  /\ pc = "set"
  /\ \/ ret' = -1 /\ pc' = "done"
     \/ ret' \in {0, 1} /\ pc' = "full"
  /\ UNCHANGED <<transport, opts, body, room, printed, refused, unanswered>>

After(q) == CASE q = "full" -> IF opts.all THEN "dtim" ELSE "done"
              [] q = "dtim" -> "current"
              [] q = "current" -> "done"

\* A full answer.  nl80211 copies at most *state->len octets, which an earlier answer
\* has set; ftdi_spi reads data_len octets and then takes the length from the
\* header; uart_slip has the whole capacity.
Answered(q) ==
  /\ body' = IF room = "whole" \/ transport = "uart_slip" THEN q ELSE body
  /\ room' = IF transport = "nl80211" THEN room ELSE "whole"

\* A header alone.  ftdi_spi reads the chip's memory behind it as well.
RefusedAnswer ==
  /\ body' = IF transport = "ftdi_spi" /\ room = "whole" THEN Junk ELSE body
  /\ room' = "header"

\* What the status of a response reads as that was not filled in: the full channel is
\* the first query, and the others find what the one before has left.
LeftStatus(q) == IF q = "full" THEN {0, 1, -1} ELSE {ret}

\* A response that lies across a 64 KiB boundary of the chip's memory is read by two
\* CMD53s, of which the first may fail unnoticed (module SdioMemblock).
PartsAnswered ==
  /\ transport = "ftdi_spi"
  /\ body' = Junk /\ room' \in {"whole", "header"}

\* Mutant: a failed query is printed like any other.
Show_Failed(q, status) == printed' = [printed EXCEPT ![q] = body'] /\ pc' = After(q)

\* Only negative values end the command.
Show(q, status) ==
  IF status < 0 THEN pc' = "done" /\ UNCHANGED printed
  ELSE printed' = [printed EXCEPT ![q] = body'] /\ pc' = After(q)

Query(q) ==
  /\ pc = q
  /\ \E status \in {0, 1, -1} :
       /\ \/ status = 0 /\ Answered(q) /\ UNCHANGED <<refused, unanswered>>
          \/ status = 1 /\ RefusedAnswer /\ refused' = TRUE /\ UNCHANGED unanswered
          \/ status = -1 /\ UNCHANGED <<body, room, refused, unanswered>>
          \/ /\ transport \in {"nl80211", "ftdi_spi"} /\ status \in LeftStatus(q)
             /\ unanswered' = unanswered \cup {q} /\ UNCHANGED <<body, room, refused>>
          \/ PartsAnswered /\ refused' = TRUE /\ UNCHANGED unanswered
       /\ ret' = status
       /\ Show(q, status)
  /\ UNCHANGED <<transport, opts>>

Step == SetChannel \/ \E q \in QueryNames : Query(q)

-------------------------------------------------------------------------------
\* Every variable keeps to its type.
TypeOK ==
  /\ transport \in Transports
  /\ opts \in [set : BOOLEAN, all : BOOLEAN]
  /\ pc \in QueryNames \cup {"idle", "set", "done"}
  /\ body \in QueryNames \cup {Junk} /\ room \in {"whole", "header"}
  /\ printed \in [QueryNames -> QueryNames \cup {Junk, None}]
  /\ ret \in {0, 1, -1}
  /\ refused \in BOOLEAN /\ unanswered \subseteq QueryNames

\* As long as no query has a positive status or is answered in parts, every channel printed
\* is the one it is printed as, wherever the transport fails, but for those queries for which
\* it returned 0 with nothing filled in.  What such a query prints is no excuse for the ones
\* after it.
OwnUnlessRefused ==
  ~refused => \A q \in QueryNames : printed[q] \in {None, q} \/ q \in unanswered

===============================================================================
