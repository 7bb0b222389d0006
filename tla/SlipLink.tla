------------------------------- MODULE SlipLink -------------------------------
(***************************************************************************)
(* One direction of a serial line: a sender running slip_tx                *)
(* (src/transport/slip.c) character by character, and the receive loop of  *)
(* uart_slip_send (src/transport/uart_slip.c) feeding slip_rx.  Every      *)
(* write may fail, every character may be lost on the line, and noise may  *)
(* insert characters at any point.  The wire keeps its order and the       *)
(* decoder depends on nothing but the characters, so a character is        *)
(* received in the step that sends it.                                     *)
(***************************************************************************)
EXTENDS Slip

CONSTANTS Packets,    \* the packets that may be sent
          Limit,      \* buffer_length of the receiver
          MaxUpsets   \* bound on failed writes, lost and noise characters

ASSUME SlipLinkAssumption ==
  /\ Packets \subseteq Seq(Octet) \ {<<>>}
  /\ Limit \in Nat \ {0}
  /\ MaxUpsets \in Nat

VARIABLES phase,    \* where slip_tx is
          pkt,      \* the packet being sent
          idx,      \* the octet of pkt slip_tx is at
          ret,      \* slip_tx's ret
          rx,       \* the receiver's slip_rx_state
          got,      \* what slip_rx returned last, with the frame if COMPLETE
          \* History of the current packet.
          damage,   \* what has gone wrong since slip_tx was called
          refused,  \* slip_rx has reported BUFFER_LIMIT or ERROR in its body
          upsets    \* upsets so far

txvars  == <<phase, pkt, idx, ret>>
rxvars  == <<rx, got>>
lvars    == <<txvars, rxvars, damage, refused, upsets>>

Phase   == {"idle", "leader", "body", "second", "trailer"}
Outcome == {"sent", "lost", "failed"}

LinkInit ==
  /\ phase = "idle" /\ pkt = <<>> /\ idx = 1 /\ ret = 0
  /\ rx = slip_rx_state_reset
  /\ got = [status |-> "IN_PROGRESS", frame |-> <<>>]
  /\ damage = {} /\ refused = FALSE /\ upsets = 0

\* The receive loop: anything but IN_PROGRESS ends the frame, and the state is
\* reset before the next character is looked at.
Receive(c) ==
  LET r == slip_rx(rx, Limit, c) IN
  /\ rx'  = IF r.status = "IN_PROGRESS" THEN r.state ELSE slip_rx_state_reset
  /\ got' = [status |-> r.status,
             frame  |-> IF r.status = "COMPLETE" THEN r.state.buffer ELSE <<>>]
  /\ refused' = (phase # "leader" /\ (refused \/ r.status \in {"BUFFER_LIMIT", "ERROR"}))

\* One call of transport_tx_fn: the character arrives, is lost on the line, or
\* is not written at all.
Write(c, o) ==
  /\ IF o = "sent" THEN Receive(c) ELSE UNCHANGED <<rxvars, refused>>
  /\ IF o = "sent"
       THEN UNCHANGED <<damage, upsets>>
       ELSE /\ upsets < MaxUpsets
            /\ upsets' = upsets + 1
            /\ damage' = damage \cup {o}

WriteResult(o) == IF o = "failed" THEN -1 ELSE 0

-------------------------------------------------------------------------------
\* slip_tx

Call(p) ==
  /\ phase = "idle"
  /\ phase' = "leader" /\ pkt' = p /\ idx' = 1 /\ ret' = 0
  /\ damage' = {} /\ refused' = FALSE
  /\ UNCHANGED <<rxvars, upsets>>

\* Mutant: no leading END, the previous frame's END is taken to be enough.
TxLeader_Omitted(o) ==
  /\ phase = "leader" /\ o = "sent"
  /\ phase' = "body"
  /\ UNCHANGED <<pkt, idx, ret, rxvars, damage, refused, upsets>>

\* The leading END; its result is ignored.
TxLeader(o) ==
  /\ phase = "leader"
  /\ Write(END, o)
  /\ phase' = "body"
  /\ UNCHANGED <<pkt, idx, ret>>

AfterOctet == /\ idx' = idx + 1
              /\ phase' = IF idx = Len(pkt) THEN "trailer" ELSE "body"

\* The first (or only) character of an octet.  A failed ESC skips the second
\* character, and the loop goes on with the next octet.
TxOctet(o) ==
  /\ phase = "body"
  /\ LET chars == Escape(pkt[idx]) IN
       /\ Write(chars[1], o)
       /\ IF Len(chars) = 2 /\ o # "failed"
            THEN phase' = "second" /\ UNCHANGED idx
            ELSE AfterOctet
  /\ ret' = WriteResult(o)
  /\ UNCHANGED pkt

\* The second character of an escape.
TxSecond(o) ==
  /\ phase = "second"
  /\ Write(Escape(pkt[idx])[2], o)
  /\ AfterOctet
  /\ ret' = WriteResult(o)
  /\ UNCHANGED pkt

\* The trailing END; its result is ignored.
TxTrailer(o) ==
  /\ phase = "trailer"
  /\ Write(END, o)
  /\ phase' = "idle"
  /\ UNCHANGED <<pkt, idx, ret>>

\* A character nobody sent.  Before the leading END it does the packet no harm.
Noise(c) ==
  /\ upsets < MaxUpsets
  /\ upsets' = upsets + 1
  /\ damage' = IF phase \in {"idle", "leader"} THEN damage ELSE damage \cup {"noise"}
  /\ Receive(c)
  /\ UNCHANGED txvars

LinkNext ==
  \/ \E p \in Packets : Call(p)
  \/ \E o \in Outcome : TxLeader(o) \/ TxOctet(o) \/ TxSecond(o) \/ TxTrailer(o)
  \/ \E c \in Octet : Noise(c)

LinkSpec == LinkInit /\ [][LinkNext]_lvars

-------------------------------------------------------------------------------
\* Every variable keeps to its type; the receive buffer never outgrows Limit,
\* the memory slip_rx_append writes to.
LinkTypeOK ==
  /\ phase \in Phase /\ pkt \in Seq(Octet) /\ idx \in Nat \ {0} /\ ret \in {0, -1}
  /\ rx \in RxState /\ Len(rx.buffer) <= Limit
  /\ got \in [status : RxStatus, frame : Seq(Octet)]
  /\ damage \subseteq {"lost", "failed", "noise"}
  /\ refused \in BOOLEAN /\ upsets \in 0..MaxUpsets

Delivers(p) == got = [status |-> "COMPLETE", frame |-> p]

\* Whatever came before it, pending escapes, half a frame or a full buffer
\* included, a packet whose own characters all arrive is handed over octet for
\* octet by its trailing END if it fits, and is refused if it does not.
IntactDelivered ==
  [][phase = "trailer" /\ phase' = "idle" /\ damage' = {}
       => IF Len(pkt) <= Limit THEN Delivers(pkt)' /\ ~refused' ELSE refused']_lvars

\* On a line without upsets slip_rx reports a frame only for a trailing END: the
\* ENDs of two neighbouring packets make no frame of their own.
NoPhantomFrame ==
  [][upsets' = 0 /\ phase \in {"leader", "body", "second"}
       => got.status' # "COMPLETE"]_lvars

===============================================================================
