--------------------------------- MODULE Slip ---------------------------------
(***************************************************************************)
(* SLIP framing, src/transport/slip.c: the decoder slip_rx as a transition *)
(* function on struct slip_rx_state, and the escape table of slip_tx.  An  *)
(* octet is one of the four special characters or a member of Plain; the   *)
(* characters that follow an ESC are ordinary data anywhere else.          *)
(***************************************************************************)
EXTENDS Integers, Sequences

CONSTANTS END, ESC, ESC_END, ESC_ESC,  \* 0xc0, 0xdb, 0xdc, 0xdd
          Plain                        \* every other octet

Special == {END, ESC, ESC_END, ESC_ESC}
Octet   == Plain \cup Special

ASSUME SlipAssumption ==
  /\ END # ESC /\ END # ESC_END /\ END # ESC_ESC
  /\ ESC # ESC_END /\ ESC # ESC_ESC /\ ESC_END # ESC_ESC
  /\ Plain \cap Special = {}

-------------------------------------------------------------------------------
\* Receiving.  The length of slip_rx_state is Len(buffer).

RxStatus == {"COMPLETE", "IN_PROGRESS", "BUFFER_LIMIT", "ERROR"}

RxState == [buffer : Seq(Octet), escape : BOOLEAN]

slip_rx_state_reset == [buffer |-> <<>>, escape |-> FALSE]

Rx(st, status) == [state |-> st, status |-> status]

\* Mutant: the length is compared with one octet too many.
slip_rx_append_OffByOne(st, limit, c) ==
  IF Len(st.buffer) > limit
    THEN Rx(st, "BUFFER_LIMIT")
    ELSE Rx([st EXCEPT !.buffer = Append(@, c)], "IN_PROGRESS")

slip_rx_append(st, limit, c) ==
  IF Len(st.buffer) = limit
    THEN Rx(st, "BUFFER_LIMIT")
    ELSE Rx([st EXCEPT !.buffer = Append(@, c)], "IN_PROGRESS")

\* Mutant: an END completes a frame of length zero.
slip_rx_end_EmptyFrame(st) == Rx(st, "COMPLETE")

\* An END outside an escape: with nothing received it only opens a frame.
slip_rx_end(st) == Rx(st, IF Len(st.buffer) > 0 THEN "COMPLETE" ELSE "IN_PROGRESS")

\* The state and the status after one received character.
slip_rx(st, limit, c) ==
  LET unescaped == [st EXCEPT !.escape = FALSE] IN
  CASE st.escape /\ c = ESC_END -> slip_rx_append(unescaped, limit, END)
    [] st.escape /\ c = ESC_ESC -> slip_rx_append(unescaped, limit, ESC)
    [] st.escape /\ c \notin {ESC_END, ESC_ESC} -> Rx(slip_rx_state_reset, "ERROR")
    [] ~st.escape /\ c = END -> slip_rx_end(st)
    [] ~st.escape /\ c = ESC -> Rx([st EXCEPT !.escape = TRUE], "IN_PROGRESS")
    [] ~st.escape /\ c \notin {END, ESC} -> slip_rx_append(st, limit, c)

-------------------------------------------------------------------------------
\* Sending: the characters slip_tx writes for one octet of a packet.

Escape(c) == CASE c = END -> <<ESC, ESC_END>>
               [] c = ESC -> <<ESC, ESC_ESC>>
               [] c \notin {END, ESC} -> <<c>>

===============================================================================
