---------------------------- MODULE UartSlipProofs ----------------------------
(***************************************************************************)
(* Proofs about the UART transport, which is two specifications.           *)
(*                                                                         *)
(* SlipLink: SLIP framing delivers, for every set of packets, every buffer *)
(* length and any number of characters lost or made up by the line.        *)
(*                                                                         *)
(* UartSlip, whose frames the former carries: for every number of          *)
(* processes, commands, faults and response sizes, while no two processes  *)
(* start in one second, a caller is only ever given the answer to its own  *)
(* command, and the transport implements CommandChannel.                   *)
(***************************************************************************)
EXTENDS SlipLink, UartSlip, SequenceTheorems, TLAPS

-------------------------------------------------------------------------------
(* SlipLink. *)

\* slip_rx_append writes only where the test on buffer_length has found room.
LEMMA SlipRxAppendType ==
  ASSUME NEW st \in RxState, Len(st.buffer) <= Limit, NEW c \in Octet
  PROVE  LET r == slip_rx_append(st, Limit, c) IN
           /\ r.state \in RxState /\ Len(r.state.buffer) <= Limit
           /\ r.status \in RxStatus
<1>1. CASE Len(st.buffer) = Limit
  BY <1>1 DEF slip_rx_append, Rx, RxStatus
<1>2. CASE Len(st.buffer) # Limit
  <2> DEFINE new == [st EXCEPT !.buffer = Append(@, c)]
  <2>1. st.buffer \in Seq(Octet)
    BY DEF RxState
  <2>2. Append(st.buffer, c) \in Seq(Octet) /\ Len(Append(st.buffer, c)) <= Limit
    BY <1>2, <2>1, SlipLinkAssumption
  <2>3. new \in RxState /\ new.buffer = Append(st.buffer, c)
    BY <2>2 DEF RxState
  <2>4. slip_rx_append(st, Limit, c) = [state |-> new, status |-> "IN_PROGRESS"]
    BY <1>2 DEF slip_rx_append, Rx
  <2> HIDE DEF new
  <2>. QED  BY <2>2, <2>3, <2>4 DEF RxStatus
<1>. QED  BY <1>1, <1>2

\* slip_rx keeps to its types and never writes past the end of the buffer,
\* whatever character comes (slip_rx_append's test on buffer_length).
LEMMA SlipRxType ==
  ASSUME NEW st \in RxState, Len(st.buffer) <= Limit, NEW c \in Octet
  PROVE  LET r == slip_rx(st, Limit, c) IN
           /\ r.state \in RxState /\ Len(r.state.buffer) <= Limit
           /\ r.status \in RxStatus
<1> USE DEF RxState, RxStatus, Octet, Special
<1> DEFINE open == [st EXCEPT !.escape = FALSE]
<1>1. open \in RxState /\ Len(open.buffer) <= Limit
  OBVIOUS
<1>2. ASSUME NEW s \in RxState, Len(s.buffer) <= Limit, NEW d \in Octet
      PROVE  LET r == slip_rx_append(s, Limit, d) IN
               /\ r.state \in RxState /\ Len(r.state.buffer) <= Limit
               /\ r.status \in RxStatus
  BY <1>2, SlipRxAppendType
<1>3. CASE st.escape /\ c = ESC_END
  BY <1>1, <1>2, <1>3, SlipAssumption DEF slip_rx
<1>4. CASE st.escape /\ c = ESC_ESC
  BY <1>1, <1>2, <1>4, SlipAssumption DEF slip_rx
<1>5. CASE st.escape /\ c \notin {ESC_END, ESC_ESC}
  <2>1. slip_rx(st, Limit, c) = Rx(slip_rx_state_reset, "ERROR")
    BY <1>5, SlipAssumption DEF slip_rx
  <2>. QED
    BY <2>1, SlipLinkAssumption DEF Rx, slip_rx_state_reset
<1>6. CASE ~st.escape /\ c = END
  BY <1>6, SlipAssumption DEF slip_rx, slip_rx_end, Rx
<1>7. CASE ~st.escape /\ c = ESC
  BY <1>7, SlipAssumption DEF slip_rx, Rx
<1>8. CASE ~st.escape /\ c \notin {END, ESC}
  BY <1>2, <1>8 DEF slip_rx
<1>. QED
  BY <1>3, <1>4, <1>5, <1>6, <1>7, <1>8

-------------------------------------------------------------------------------
\* One received character, and one written one, keep the types of what they change.
LEMMA ReceiveType ==
  ASSUME LinkTypeOK, NEW c \in Octet, Receive(c)
  PROVE  /\ rx' \in RxState /\ Len(rx'.buffer) <= Limit
         /\ got' \in [status : RxStatus, frame : Seq(Octet)]
         /\ refused' \in BOOLEAN
<1> DEFINE r == slip_rx(rx, Limit, c)
<1>1. r.state \in RxState /\ Len(r.state.buffer) <= Limit /\ r.status \in RxStatus
  BY SlipRxType DEF LinkTypeOK
<1>2. slip_rx_state_reset \in RxState /\ Len(slip_rx_state_reset.buffer) <= Limit
  BY SlipLinkAssumption DEF slip_rx_state_reset, RxState
<1>3. r.state.buffer \in Seq(Octet)
  BY <1>1 DEF RxState
<1> HIDE DEF r
<1>4. /\ rx' = IF r.status = "IN_PROGRESS" THEN r.state ELSE slip_rx_state_reset
      /\ got' = [status |-> r.status,
                 frame  |-> IF r.status = "COMPLETE" THEN r.state.buffer ELSE <<>>]
      /\ refused' \in BOOLEAN
  BY DEF Receive, r, LinkTypeOK
<1>. QED
  BY <1>1, <1>2, <1>3, <1>4

LEMMA WriteType ==
  ASSUME LinkTypeOK, NEW c \in Octet, NEW o \in Outcome, Write(c, o)
  PROVE  /\ rx' \in RxState /\ Len(rx'.buffer) <= Limit
         /\ got' \in [status : RxStatus, frame : Seq(Octet)]
         /\ refused' \in BOOLEAN
         /\ damage' \subseteq {"lost", "failed", "noise"} /\ upsets' \in 0..MaxUpsets
<1>1. CASE o = "sent"
  BY <1>1, ReceiveType DEF Write, LinkTypeOK
<1>2. CASE o # "sent"
  <2>1. UNCHANGED <<rx, got, refused>>
    BY <1>2 DEF Write, rxvars
  <2>2. upsets' \in 0..MaxUpsets
    BY <1>2, SlipLinkAssumption DEF Write, LinkTypeOK
  <2>3. damage' \subseteq {"lost", "failed", "noise"}
    BY <1>2 DEF Write, LinkTypeOK, Outcome
  <2>. QED
    BY <2>1, <2>2, <2>3 DEF LinkTypeOK
<1>. QED
  BY <1>1, <1>2

\* Where slip_tx is in its packet.
Position ==
  /\ phase # "idle" => pkt \in Packets
  /\ phase = "leader" => idx = 1
  /\ phase \in {"body", "second"} => idx \in 1..Len(pkt)
  /\ phase = "second" => pkt[idx] \in {END, ESC}
  /\ phase = "trailer" => idx = Len(pkt) + 1

LEMMA EscapeType ==
  ASSUME NEW c \in Octet
  PROVE  /\ c \in {END, ESC} => Escape(c) \in Octet \X Octet /\ Len(Escape(c)) = 2
         /\ c \notin {END, ESC} => Escape(c) = <<c>> /\ Len(Escape(c)) = 1
         /\ Escape(c)[1] \in Octet
         /\ Escape(c)[1] # END
BY SlipAssumption DEF Escape, Octet, Special

LEMMA PacketType ==
  ASSUME NEW p \in Packets
  PROVE  p \in Seq(Octet) /\ Len(p) \in Nat \ {0}
BY SlipLinkAssumption

LEMMA InitType == LinkInit => LinkTypeOK /\ Position
<1> SUFFICES ASSUME LinkInit PROVE LinkTypeOK /\ Position
  OBVIOUS
<1>1. rx \in RxState /\ Len(rx.buffer) <= Limit
  BY SlipLinkAssumption DEF LinkInit, RxState, slip_rx_state_reset
<1>2. got \in [status : RxStatus, frame : Seq(Octet)]
  BY DEF LinkInit, RxStatus
<1>3. pkt \in Seq(Octet) /\ idx \in Nat \ {0} /\ ret \in {0, -1} /\ upsets \in 0..MaxUpsets
  BY SlipLinkAssumption DEF LinkInit
<1>4. damage \subseteq {"lost", "failed", "noise"} /\ refused \in BOOLEAN
  BY Zenon DEF LinkInit
<1>5. phase \in Phase /\ Position
  BY DEF LinkInit, Phase, Position
<1>. QED
  BY <1>1, <1>2, <1>3, <1>4, <1>5 DEF LinkTypeOK

LEMMA NextType == LinkTypeOK /\ Position /\ [LinkNext]_lvars => LinkTypeOK' /\ Position'
<1> SUFFICES ASSUME LinkTypeOK, Position, [LinkNext]_lvars PROVE LinkTypeOK' /\ Position'
  OBVIOUS
<1> END \in Octet
  BY DEF Octet, Special
<1>1. ASSUME NEW p \in Packets, Call(p) PROVE LinkTypeOK' /\ Position'
  <2>1. p \in Seq(Octet)
    BY PacketType
  <2>2. /\ phase' = "leader" /\ pkt' = p /\ idx' = 1 /\ ret' = 0
        /\ damage' = {} /\ refused' = FALSE /\ UNCHANGED <<rx, got, upsets>>
    BY <1>1 DEF Call, rxvars
  <2>3. damage' \subseteq {"lost", "failed", "noise"}
    BY <2>2, Zenon
  <2>4. Position'
    BY <2>2 DEF Position
  <2>5. /\ phase' \in Phase /\ pkt' \in Seq(Octet) /\ idx' \in Nat \ {0}
        /\ ret' \in {0, -1} /\ upsets' \in 0..MaxUpsets
    BY <2>1, <2>2 DEF LinkTypeOK, Phase
  <2>6. /\ rx' \in RxState /\ Len(rx'.buffer) <= Limit
        /\ got' \in [status : RxStatus, frame : Seq(Octet)]
    BY <2>2 DEF LinkTypeOK
  <2>7. refused' \in BOOLEAN
    BY <2>2
  <2>. QED
    BY <2>3, <2>4, <2>5, <2>6, <2>7 DEF LinkTypeOK
<1>2. ASSUME NEW o \in Outcome, TxLeader(o) PROVE LinkTypeOK' /\ Position'
  <2>1. pkt \in Packets /\ Len(pkt) \in Nat \ {0} /\ idx = 1
    BY <1>2, PacketType DEF TxLeader, Position
  <2>2. phase' = "body" /\ UNCHANGED <<pkt, idx, ret>>
    BY <1>2 DEF TxLeader
  <2>3. Position'
    BY <2>1, <2>2 DEF Position
  <2>. QED
    BY <1>2, <2>2, <2>3, WriteType DEF TxLeader, LinkTypeOK, Phase
<1>3. ASSUME NEW o \in Outcome, TxOctet(o) PROVE LinkTypeOK' /\ Position'
  <2>1. pkt \in Packets /\ pkt \in Seq(Octet) /\ Len(pkt) \in Nat \ {0} /\ idx \in 1..Len(pkt)
    BY <1>3, PacketType DEF TxOctet, Position
  <2> DEFINE c == pkt[idx]
  <2>2. c \in Octet
    BY <2>1
  <2>3. Escape(c)[1] \in Octet /\ Write(Escape(c)[1], o)
    BY <1>3, <2>2, EscapeType DEF TxOctet
  <2>4. ret' \in {0, -1} /\ pkt' = pkt
    BY <1>3 DEF TxOctet, WriteResult
  <2>5. \/ phase' = "second" /\ idx' = idx /\ c \in {END, ESC}
        \/ phase' \in {"trailer", "body"} /\ idx' = idx + 1 /\ (phase' = "trailer" <=> idx = Len(pkt))
    <3>1. CASE Len(Escape(c)) = 2 /\ o # "failed"
      BY <1>3, <3>1, <2>2, EscapeType DEF TxOctet
    <3>2. CASE ~(Len(Escape(c)) = 2 /\ o # "failed")
      BY <1>3, <3>2 DEF TxOctet, AfterOctet
    <3>. QED  BY <3>1, <3>2
  <2>6. Position'
    BY <2>1, <2>4, <2>5 DEF Position
  <2>7. phase' \in Phase /\ idx' \in Nat \ {0}
    BY <2>1, <2>5 DEF Phase
  <2>. QED
    BY <2>1, <2>3, <2>4, <2>6, <2>7, WriteType DEF LinkTypeOK
<1>4. ASSUME NEW o \in Outcome, TxSecond(o) PROVE LinkTypeOK' /\ Position'
  <2>1. pkt \in Packets /\ pkt \in Seq(Octet) /\ Len(pkt) \in Nat \ {0} /\ idx \in 1..Len(pkt)
    BY <1>4, PacketType DEF TxSecond, Position
  <2> DEFINE c == pkt[idx]
  <2>2. c \in Octet /\ c \in {END, ESC}
    BY <1>4, <2>1 DEF TxSecond, Position
  <2>3. Escape(c)[2] \in Octet /\ Write(Escape(c)[2], o)
    BY <1>4, <2>2, EscapeType DEF TxSecond
  <2>4. ret' \in {0, -1} /\ pkt' = pkt /\ phase' \in {"trailer", "body"}
        /\ idx' = idx + 1 /\ (phase' = "trailer" <=> idx = Len(pkt))
    BY <1>4 DEF TxSecond, WriteResult, AfterOctet
  <2>5. Position'
    BY <2>1, <2>4 DEF Position
  <2>. QED
    BY <2>1, <2>3, <2>4, <2>5, WriteType DEF LinkTypeOK, Phase
<1>5. ASSUME NEW o \in Outcome, TxTrailer(o) PROVE LinkTypeOK' /\ Position'
  <2>1. phase' = "idle" /\ UNCHANGED <<pkt, idx, ret>> /\ Write(END, o)
    BY <1>5 DEF TxTrailer
  <2>. QED
    BY <2>1, WriteType DEF LinkTypeOK, Position, Phase
<1>6. ASSUME NEW c \in Octet, Noise(c) PROVE LinkTypeOK' /\ Position'
  <2>1. UNCHANGED <<phase, pkt, idx, ret>> /\ Receive(c)
    BY <1>6 DEF Noise, txvars
  <2>2. upsets' \in 0..MaxUpsets /\ damage' \subseteq {"lost", "failed", "noise"}
    BY <1>6, SlipLinkAssumption DEF Noise, LinkTypeOK
  <2>. QED
    BY <2>1, <2>2, ReceiveType DEF LinkTypeOK, Position
<1>7. CASE UNCHANGED lvars
  BY <1>7 DEF lvars, txvars, rxvars, LinkTypeOK, Position
<1>. QED
  BY <1>1, <1>2, <1>3, <1>4, <1>5, <1>6, <1>7 DEF LinkNext

\* The decoder's buffer is never written past buffer_length, and every variable
\* keeps to its type, for any packets, buffer length and upsets.
THEOREM LinkTypeCorrect == LinkSpec => [](LinkTypeOK /\ Position)
BY InitType, NextType, PTL DEF LinkSpec

-------------------------------------------------------------------------------
\* What slip_rx does with each kind of character (the arms of its if chain).
LEMMA SlipRxArms ==
  ASSUME NEW st \in RxState, NEW c \in Octet
  PROVE  /\ st.escape /\ c = ESC_END =>
              slip_rx(st, Limit, c) = slip_rx_append([st EXCEPT !.escape = FALSE], Limit, END)
         /\ st.escape /\ c = ESC_ESC =>
              slip_rx(st, Limit, c) = slip_rx_append([st EXCEPT !.escape = FALSE], Limit, ESC)
         /\ st.escape /\ c = END => slip_rx(st, Limit, c) = Rx(slip_rx_state_reset, "ERROR")
         /\ ~st.escape /\ c = END => slip_rx(st, Limit, c) = slip_rx_end(st)
         /\ ~st.escape /\ c = ESC =>
              slip_rx(st, Limit, c) = Rx([st EXCEPT !.escape = TRUE], "IN_PROGRESS")
         /\ ~st.escape /\ c \notin {END, ESC} =>
              slip_rx(st, Limit, c) = slip_rx_append(st, Limit, c)
<1> st.escape \in BOOLEAN
  BY DEF RxState
<1>. QED
  BY SlipAssumption DEF slip_rx

\* The leading END of slip_tx clears whatever the receiver held: a pending escape,
\* half a frame or nothing.
LEMMA LeadingEndClears ==
  ASSUME LinkTypeOK, Receive(END)
  PROVE  rx'.buffer = <<>> /\ rx'.escape = FALSE
<1> DEFINE r == slip_rx(rx, Limit, END)
<1>1. rx' = IF r.status = "IN_PROGRESS" THEN r.state ELSE slip_rx_state_reset
  BY DEF Receive
<1>2. rx \in RxState /\ END \in Octet
  BY DEF LinkTypeOK, Octet, Special
<1>3. CASE rx.escape
  <2>1. r = Rx(slip_rx_state_reset, "ERROR")
    BY <1>2, <1>3, SlipRxArms
  <2>. QED  BY <1>1, <2>1 DEF Rx, slip_rx_state_reset
<1>4. CASE ~rx.escape
  <2>1. r = slip_rx_end(rx)
    BY <1>2, <1>4, SlipRxArms
  <2>2. CASE Len(rx.buffer) > 0
    BY <1>1, <2>1, <2>2 DEF slip_rx_end, Rx, slip_rx_state_reset
  <2>3. CASE ~(Len(rx.buffer) > 0)
    <3>1. rx' = rx
      BY <1>1, <2>1, <2>3 DEF slip_rx_end, Rx
    <3>2. rx.buffer = <<>>
      BY <1>2, <2>3 DEF RxState
    <3>. QED  BY <1>2, <1>4, <3>1, <3>2 DEF RxState
  <2>. QED  BY <2>2, <2>3
<1>. QED
  BY <1>2, <1>3, <1>4 DEF RxState

\* An octet appended to the prefix of a packet before it makes the next prefix,
\* or finds the buffer full because the packet is too long for it.
LEMMA AppendExtends ==
  ASSUME NEW p \in Seq(Octet), NEW i \in 1..Len(p), NEW st \in RxState,
         st.buffer = SubSeq(p, 1, i - 1), Len(st.buffer) <= Limit
  PROVE  LET r == slip_rx_append(st, Limit, p[i]) IN
         \/ /\ r.status = "IN_PROGRESS"
            /\ r.state.buffer = SubSeq(p, 1, i) /\ r.state.escape = st.escape
         \/ r.status = "BUFFER_LIMIT" /\ Limit < Len(p)
<1>1. Len(st.buffer) = i - 1
  BY SubSeqProperties, SlipLinkAssumption
<1>2. Append(SubSeq(p, 1, i - 1), p[i]) = SubSeq(p, 1, i)
  <2>1. /\ Len(SubSeq(p, 1, i)) = i /\ Len(SubSeq(p, 1, i - 1)) = i - 1
        /\ SubSeq(p, 1, i) \in Seq(Octet) /\ SubSeq(p, 1, i - 1) \in Seq(Octet)
        /\ p[i] \in Octet
    OBVIOUS
  <2>2. Append(SubSeq(p, 1, i - 1), p[i]) \in Seq(Octet)
        /\ Len(Append(SubSeq(p, 1, i - 1), p[i])) = i
    BY <2>1
  <2>3. ASSUME NEW j \in 1..i
        PROVE  Append(SubSeq(p, 1, i - 1), p[i])[j] = SubSeq(p, 1, i)[j]
    BY <2>1
  <2>. QED  BY <2>1, <2>2, <2>3, SeqEqual
<1>3. CASE Len(st.buffer) = Limit
  BY <1>1, <1>3, SlipLinkAssumption DEF slip_rx_append, Rx
<1>4. CASE Len(st.buffer) # Limit
  BY <1>2, <1>4 DEF slip_rx_append, Rx, RxState
<1>. QED
  BY <1>3, <1>4

-------------------------------------------------------------------------------
\* The receiver follows an undamaged packet: it holds what has been sent of it,
\* or has refused it because it is too long.
Held == rx.buffer = SubSeq(pkt, 1, idx - 1) /\ (rx.escape <=> phase = "second")

Sync ==
  damage = {} /\ phase \in {"body", "second", "trailer"} =>
    \/ ~refused /\ Held
    \/ refused /\ Limit < Len(pkt)

\* A character that is written and arrives in a step that leaves the packet
\* undamaged; a refusal stays recorded until the next packet.
LEMMA CleanWrite ==
  ASSUME NEW c, NEW o, Write(c, o), damage' = {}
  PROVE  damage = {} /\ Receive(c)
BY DEF Write

LEMMA RefusalStays ==
  ASSUME NEW c, Receive(c), phase # "leader", refused
  PROVE  refused'
BY DEF Receive

\* The state after an octet, given what slip_rx_append made of it.
LEMMA ReceiveAppend ==
  ASSUME LinkTypeOK, Position, phase \in {"body", "second"}, ~refused,
         NEW c \in Octet, Receive(c), NEW st \in RxState,
         slip_rx(rx, Limit, c) = slip_rx_append(st, Limit, pkt[idx]),
         st.buffer = SubSeq(pkt, 1, idx - 1), Len(st.buffer) <= Limit, ~st.escape
  PROVE  \/ ~refused' /\ rx'.buffer = SubSeq(pkt, 1, idx) /\ ~rx'.escape
         \/ refused' /\ Limit < Len(pkt)
<1> DEFINE r == slip_rx_append(st, Limit, pkt[idx])
<1>1. pkt \in Seq(Octet) /\ idx \in 1..Len(pkt)
  BY PacketType DEF Position
<1>2. \/ r.status = "IN_PROGRESS" /\ r.state.buffer = SubSeq(pkt, 1, idx) /\ r.state.escape = st.escape
      \/ r.status = "BUFFER_LIMIT" /\ Limit < Len(pkt)
  BY <1>1, AppendExtends
<1>3. /\ rx' = IF r.status = "IN_PROGRESS" THEN r.state ELSE slip_rx_state_reset
      /\ refused' = (r.status \in {"BUFFER_LIMIT", "ERROR"})
  BY DEF Receive
<1> HIDE DEF r
<1>. QED
  BY <1>2, <1>3

\* A character that slip_rx takes without a verdict.
LEMMA ReceiveQuiet ==
  ASSUME NEW c, Receive(c), NEW st, slip_rx(rx, Limit, c) = Rx(st, "IN_PROGRESS")
  PROVE  rx' = st /\ (refused' <=> phase # "leader" /\ refused)
<1> DEFINE r == slip_rx(rx, Limit, c)
<1>1. /\ rx' = IF r.status = "IN_PROGRESS" THEN r.state ELSE slip_rx_state_reset
      /\ refused' = (phase # "leader" /\ (refused \/ r.status \in {"BUFFER_LIMIT", "ERROR"}))
  BY DEF Receive
<1>2. r.status = "IN_PROGRESS" /\ r.state = st
  BY DEF Rx
<1> HIDE DEF r
<1>. QED
  BY <1>1, <1>2

LEMMA SyncNext == LinkTypeOK /\ Position /\ Sync /\ [LinkNext]_lvars => Sync'
<1> SUFFICES ASSUME LinkTypeOK, Position, Sync, [LinkNext]_lvars,
                    damage' = {}, phase' \in {"body", "second", "trailer"}
             PROVE  (~refused /\ Held)' \/ (refused /\ Limit < Len(pkt))'
  BY DEF Sync
<1>0. rx \in RxState /\ Len(rx.buffer) <= Limit /\ END \in Octet /\ ESC \in Octet
  BY DEF LinkTypeOK, Octet, Special
<1>1. ASSUME NEW p \in Packets, Call(p) PROVE FALSE
  BY <1>1 DEF Call
<1>2. ASSUME NEW o \in Outcome, TxLeader(o) PROVE (~refused /\ Held)'
  <2>1. Receive(END) /\ phase = "leader" /\ phase' = "body" /\ UNCHANGED <<pkt, idx>>
    BY <1>2, CleanWrite DEF TxLeader
  <2>2. idx = 1 /\ SubSeq(pkt, 1, 0) = <<>>
    BY <2>1, SubSeqEmpty DEF Position
  <2>3. ~refused'
    BY <2>1 DEF Receive
  <2>4. rx'.buffer = <<>> /\ ~rx'.escape
    BY <1>0, <2>1, LeadingEndClears
  <2>. QED
    BY <2>1, <2>2, <2>3, <2>4 DEF Held
<1>3. ASSUME NEW o \in Outcome, TxOctet(o)
      PROVE  (~refused /\ Held)' \/ (refused /\ Limit < Len(pkt))'
  <2> DEFINE c == pkt[idx]
  <2>1. /\ pkt \in Packets /\ pkt \in Seq(Octet) /\ Len(pkt) \in Nat /\ idx \in 1..Len(pkt)
        /\ c \in Octet /\ phase = "body" /\ pkt' = pkt
    BY <1>3, PacketType DEF TxOctet, Position
  <2>2. damage = {} /\ Receive(Escape(c)[1])
    BY <1>3, CleanWrite DEF TxOctet
  <2>3. o = "sent"
    BY <1>3, <2>2 DEF TxOctet, Write
  <2>4. CASE refused
    BY <2>1, <2>2, <2>4, RefusalStays DEF Sync
  <2>5. CASE ~refused /\ c \in {END, ESC}
    <3>1. Escape(c)[1] = ESC /\ Len(Escape(c)) = 2
      BY <2>5, SlipAssumption DEF Escape
    <3>2. phase' = "second" /\ idx' = idx
      BY <1>3, <2>3, <3>1 DEF TxOctet
    <3>3. ~rx.escape /\ rx.buffer = SubSeq(pkt, 1, idx - 1)
      BY <2>1, <2>2, <2>5 DEF Sync, Held
    <3>4. slip_rx(rx, Limit, ESC) = Rx([rx EXCEPT !.escape = TRUE], "IN_PROGRESS")
      BY <1>0, <3>3, SlipRxArms
    <3>5. rx' = [rx EXCEPT !.escape = TRUE] /\ ~refused'
      BY <2>2, <2>5, <3>1, <3>4, ReceiveQuiet
    <3>. QED
      BY <1>0, <2>1, <3>2, <3>3, <3>5 DEF Held, RxState
  <2>6. CASE ~refused /\ c \notin {END, ESC}
    <3>1. Escape(c)[1] = c /\ Len(Escape(c)) = 1
      BY <2>6 DEF Escape
    <3>2. phase' # "second" /\ idx' = idx + 1
      BY <1>3, <3>1 DEF TxOctet, AfterOctet
    <3>3. ~rx.escape /\ rx.buffer = SubSeq(pkt, 1, idx - 1)
      BY <2>1, <2>2, <2>6 DEF Sync, Held
    <3>4. slip_rx(rx, Limit, c) = slip_rx_append(rx, Limit, c)
      BY <1>0, <2>1, <2>6, <3>3, SlipRxArms
    <3>5. \/ ~refused' /\ rx'.buffer = SubSeq(pkt, 1, idx) /\ ~rx'.escape
          \/ refused' /\ Limit < Len(pkt)
      BY <1>0, <2>1, <2>2, <2>6, <3>1, <3>3, <3>4, ReceiveAppend
    <3>. QED
      BY <2>1, <3>2, <3>5 DEF Held
  <2>. QED
    BY <2>4, <2>5, <2>6
<1>4. ASSUME NEW o \in Outcome, TxSecond(o)
      PROVE  (~refused /\ Held)' \/ (refused /\ Limit < Len(pkt))'
  <2> DEFINE c == pkt[idx]
  <2> DEFINE st == [rx EXCEPT !.escape = FALSE]
  <2>1. /\ pkt \in Packets /\ pkt \in Seq(Octet) /\ Len(pkt) \in Nat /\ idx \in 1..Len(pkt)
        /\ c \in Octet /\ c \in {END, ESC} /\ phase = "second" /\ pkt' = pkt
    BY <1>4, PacketType DEF TxSecond, Position
  <2>2. damage = {} /\ Receive(Escape(c)[2])
    BY <1>4, CleanWrite DEF TxSecond
  <2>3. CASE refused
    BY <2>1, <2>2, <2>3, RefusalStays DEF Sync
  <2>4. CASE ~refused
    <3>1. rx.escape /\ rx.buffer = SubSeq(pkt, 1, idx - 1)
      BY <2>1, <2>2, <2>4 DEF Sync, Held
    <3>2. Escape(c)[2] \in Octet
          /\ slip_rx(rx, Limit, Escape(c)[2]) = slip_rx_append(st, Limit, c)
      <4>1. CASE c = END
        <5>1. Escape(c)[2] = ESC_END /\ ESC_END \in Octet
          BY <4>1, SlipAssumption DEF Escape, Octet, Special
        <5>. QED  BY <1>0, <3>1, <4>1, <5>1, SlipRxArms
      <4>2. CASE c = ESC
        <5>1. Escape(c)[2] = ESC_ESC /\ ESC_ESC \in Octet
          BY <4>2, SlipAssumption DEF Escape, Octet, Special
        <5>. QED  BY <1>0, <3>1, <4>2, <5>1, SlipRxArms
      <4>. QED  BY <2>1, <4>1, <4>2
    <3>3. st \in RxState /\ ~st.escape /\ st.buffer = rx.buffer
      BY <1>0 DEF RxState
    <3> HIDE DEF st
    <3>4. \/ ~refused' /\ rx'.buffer = SubSeq(pkt, 1, idx) /\ ~rx'.escape
          \/ refused' /\ Limit < Len(pkt)
      BY <1>0, <2>1, <2>2, <2>4, <3>1, <3>2, <3>3, ReceiveAppend
    <3>5. phase' # "second" /\ idx' = idx + 1
      BY <1>4 DEF TxSecond, AfterOctet
    <3>. QED
      BY <2>1, <3>4, <3>5 DEF Held
  <2>. QED
    BY <2>3, <2>4
<1>5. ASSUME NEW o \in Outcome, TxTrailer(o) PROVE FALSE
  BY <1>5 DEF TxTrailer
<1>6. ASSUME NEW c \in Octet, Noise(c) PROVE FALSE
  BY <1>6 DEF Noise, txvars
<1>7. CASE UNCHANGED lvars
  BY <1>7 DEF lvars, txvars, rxvars, Sync, Held
<1>. QED
  BY <1>1, <1>2, <1>3, <1>4, <1>5, <1>6, <1>7 DEF LinkNext

\* The last character of an undamaged packet completes it, if it fits.
LEMMA TrailerDelivers ==
  ASSUME LinkTypeOK, Position, Sync, NEW o \in Outcome, TxTrailer(o), damage' = {}
  PROVE  IF Len(pkt) <= Limit THEN Delivers(pkt)' /\ ~refused' ELSE refused'
<1>1. pkt \in Seq(Octet) /\ Len(pkt) \in Nat \ {0} /\ idx = Len(pkt) + 1 /\ phase = "trailer"
      /\ pkt' = pkt
  BY PacketType DEF TxTrailer, Position
<1>2. damage = {} /\ Receive(END)
  BY CleanWrite DEF TxTrailer
<1>3. CASE refused
  BY <1>1, <1>2, <1>3, RefusalStays, SlipLinkAssumption DEF Sync
<1>4. CASE ~refused
  <2>1. rx \in RxState /\ ~rx.escape /\ rx.buffer = pkt /\ Len(pkt) <= Limit
    BY <1>1, <1>2, <1>4, SubSeqFull DEF Sync, Held, LinkTypeOK
  <2>2. slip_rx(rx, Limit, END) = Rx(rx, "COMPLETE")
    <3>1. slip_rx(rx, Limit, END) = slip_rx_end(rx)
      BY <2>1, SlipRxArms DEF Octet, Special
    <3>. QED  BY <1>1, <2>1, <3>1 DEF slip_rx_end
  <2>3. got' = [status |-> "COMPLETE", frame |-> pkt] /\ ~refused'
    <3> DEFINE r == slip_rx(rx, Limit, END)
    <3>1. /\ got' = [status |-> r.status,
                     frame  |-> IF r.status = "COMPLETE" THEN r.state.buffer ELSE <<>>]
          /\ refused' = (phase # "leader" /\ (refused \/ r.status \in {"BUFFER_LIMIT", "ERROR"}))
      BY <1>2 DEF Receive
    <3>2. r.status = "COMPLETE" /\ r.state = rx
      BY <2>2 DEF Rx
    <3> HIDE DEF r
    <3>. QED
      BY <1>4, <2>1, <3>1, <3>2
  <2>. QED
    BY <1>1, <2>1, <2>3 DEF Delivers
<1>. QED
  BY <1>3, <1>4

\* For every set of packets, every buffer length and any upsets before it, a
\* packet whose characters all arrive is handed over whole, or refused when the
\* buffer is too short: what slip_tx's leading END and escapes are for.
THEOREM PacketsIntact == LinkSpec => IntactDelivered
<1>1. LinkInit => Sync
  BY DEF LinkInit, Sync
<1>2. LinkTypeOK /\ Position /\ Sync /\ [LinkNext]_lvars
      => [phase = "trailer" /\ phase' = "idle" /\ damage' = {}
            => IF Len(pkt) <= Limit THEN Delivers(pkt)' /\ ~refused' ELSE refused']_lvars
  <2> SUFFICES ASSUME LinkTypeOK, Position, Sync, LinkNext,
                      phase = "trailer", phase' = "idle", damage' = {}
               PROVE  IF Len(pkt) <= Limit THEN Delivers(pkt)' /\ ~refused' ELSE refused'
    OBVIOUS
  <2>1. \E o \in Outcome : TxTrailer(o)
    BY DEF LinkNext, Call, TxLeader, TxOctet, TxSecond, Noise, txvars
  <2>. QED
    BY <2>1, TrailerDelivers
<1>. QED
  BY <1>1, <1>2, SyncNext, LinkTypeCorrect, PTL DEF LinkSpec, IntactDelivered

-------------------------------------------------------------------------------
\* The receiver on a line without upsets: an escape is pending exactly between the two
\* characters of an escape, and nothing is left over from the packet before.
Quiet ==
  upsets = 0 => /\ rx.escape <=> phase = "second"
                /\ phase \in {"idle", "leader"} => rx.buffer = <<>>

\* Without a fault a character arrives as it was sent.
LEMMA FaultlessWrite ==
  ASSUME LinkTypeOK, NEW c, NEW o, Write(c, o), upsets' = 0
  PROVE  o = "sent" /\ upsets = 0 /\ Receive(c)
BY DEF Write, LinkTypeOK

\* Outside an escape no character but END ends a frame or leaves an escape pending,
\* ESC excepted.
LEMMA OrdinaryCharacter ==
  ASSUME LinkTypeOK, ~rx.escape, NEW c \in Octet \ {END}, Receive(c)
  PROVE  got'.status # "COMPLETE" /\ (rx'.escape <=> c = ESC)
<1> DEFINE r == slip_rx(rx, Limit, c)
<1>1. /\ rx' = IF r.status = "IN_PROGRESS" THEN r.state ELSE slip_rx_state_reset
      /\ got'.status = r.status
  BY DEF Receive
<1>2. rx \in RxState
  BY DEF LinkTypeOK
<1>3. CASE c = ESC
  <2>1. r = Rx([rx EXCEPT !.escape = TRUE], "IN_PROGRESS")
    BY <1>2, <1>3, SlipRxArms
  <2>2. r.status = "IN_PROGRESS" /\ r.state = [rx EXCEPT !.escape = TRUE]
    BY <2>1 DEF Rx
  <2> HIDE DEF r
  <2>. QED  BY <1>1, <1>2, <1>3, <2>2 DEF RxState
<1>4. CASE c # ESC
  <2>1. r = slip_rx_append(rx, Limit, c)
    BY <1>2, <1>4, SlipRxArms
  <2>2. \/ r.status = "BUFFER_LIMIT"
        \/ r.status = "IN_PROGRESS" /\ ~r.state.escape
    BY <1>2, <2>1 DEF slip_rx_append, Rx, RxState
  <2> HIDE DEF r
  <2>. QED  BY <1>1, <1>4, <2>2 DEF slip_rx_state_reset
<1>. QED  BY <1>3, <1>4

\* The second character of an escape ends no frame, and ends the escape.
LEMMA EscapedCharacter ==
  ASSUME LinkTypeOK, rx.escape, NEW c \in {ESC_END, ESC_ESC}, Receive(c)
  PROVE  got'.status # "COMPLETE" /\ ~rx'.escape
<1> DEFINE r  == slip_rx(rx, Limit, c)
           st == [rx EXCEPT !.escape = FALSE]
<1>1. /\ rx' = IF r.status = "IN_PROGRESS" THEN r.state ELSE slip_rx_state_reset
      /\ got'.status = r.status
  BY DEF Receive
<1>2. rx \in RxState /\ c \in Octet
  BY DEF LinkTypeOK, Octet, Special
<1>3. \E d : r = slip_rx_append(st, Limit, d)
  BY <1>2, SlipRxArms
<1>4. \/ r.status = "BUFFER_LIMIT"
      \/ r.status = "IN_PROGRESS" /\ ~r.state.escape
  BY <1>2, <1>3 DEF slip_rx_append, Rx, RxState
<1> HIDE DEF r
<1>. QED  BY <1>1, <1>4 DEF slip_rx_state_reset

\* An END outside an escape leaves nothing behind, and ends a frame if there is one.
LEMMA EndOutside ==
  ASSUME LinkTypeOK, ~rx.escape, Receive(END)
  PROVE  /\ rx'.buffer = <<>> /\ ~rx'.escape
         /\ rx.buffer = <<>> => got'.status # "COMPLETE"
<1>1. rx \in RxState /\ END \in Octet
  BY DEF LinkTypeOK, Octet, Special
<1>2. slip_rx(rx, Limit, END) = slip_rx_end(rx)
  BY <1>1, SlipRxArms
<1>3. rx.buffer = <<>> => got'.status # "COMPLETE"
  BY <1>2 DEF Receive, slip_rx_end, Rx
<1>. QED  BY <1>3, LeadingEndClears

\* One step on a line without upsets.
LEMMA QuietNext ==
  ASSUME LinkTypeOK, Position, Quiet, LinkNext, upsets' = 0
  PROVE  Quiet' /\ (phase \in {"leader", "body", "second"} => got'.status # "COMPLETE")
<1>1. ASSUME NEW p \in Packets, Call(p)
      PROVE  Quiet' /\ phase \notin {"leader", "body", "second"}
  BY <1>1 DEF Call, Quiet, rxvars
<1>2. ASSUME NEW o \in Outcome, TxLeader(o) PROVE Quiet' /\ got'.status # "COMPLETE"
  <2>1. phase = "leader" /\ phase' = "body" /\ upsets = 0 /\ Receive(END)
    BY <1>2, FaultlessWrite DEF TxLeader
  <2>. QED  BY <2>1, EndOutside DEF Quiet
<1>3. ASSUME NEW o \in Outcome, TxOctet(o) PROVE Quiet' /\ got'.status # "COMPLETE"
  <2> DEFINE c == pkt[idx]
  <2>1. phase = "body" /\ o = "sent" /\ upsets = 0 /\ Receive(Escape(c)[1])
    BY <1>3, FaultlessWrite DEF TxOctet
  <2>2. c \in Octet
    BY <2>1, PacketType DEF Position
  <2>3. Escape(c)[1] \in Octet \ {END}
    BY <2>2, EscapeType
  <2>4. got'.status # "COMPLETE" /\ (rx'.escape <=> Escape(c)[1] = ESC)
    BY <2>1, <2>3, OrdinaryCharacter DEF Quiet
  <2>5. Escape(c)[1] = ESC <=> Len(Escape(c)) = 2
    BY <2>2, SlipAssumption DEF Escape
  <2>6. phase' \in {"second", "trailer", "body"} /\ (phase' = "second" <=> Len(Escape(c)) = 2)
    BY <1>3, <2>1 DEF TxOctet, AfterOctet
  <2>. QED  BY <2>4, <2>5, <2>6 DEF Quiet
<1>4. ASSUME NEW o \in Outcome, TxSecond(o) PROVE Quiet' /\ got'.status # "COMPLETE"
  <2> DEFINE c == pkt[idx]
  <2>1. phase = "second" /\ c \in {END, ESC} /\ upsets = 0 /\ Receive(Escape(c)[2])
    BY <1>4, FaultlessWrite DEF TxSecond, Position
  <2>2. Escape(c)[2] \in {ESC_END, ESC_ESC}
    BY <2>1, SlipAssumption DEF Escape
  <2>3. got'.status # "COMPLETE" /\ ~rx'.escape
    BY <2>1, <2>2, EscapedCharacter DEF Quiet
  <2>4. phase' \in {"trailer", "body"}
    BY <1>4 DEF TxSecond, AfterOctet
  <2>. QED  BY <2>3, <2>4 DEF Quiet
<1>5. ASSUME NEW o \in Outcome, TxTrailer(o)
      PROVE  Quiet' /\ phase \notin {"leader", "body", "second"}
  <2>1. phase = "trailer" /\ phase' = "idle" /\ upsets = 0 /\ Receive(END)
    BY <1>5, FaultlessWrite DEF TxTrailer
  <2>. QED  BY <2>1, EndOutside DEF Quiet
<1>6. ASSUME NEW c \in Octet, Noise(c) PROVE FALSE
  BY <1>6 DEF Noise, LinkTypeOK
<1>. QED
  BY <1>1, <1>2, <1>3, <1>4, <1>5, <1>6 DEF LinkNext

\* However many packets follow one another on a line without upsets, too long ones
\* included, slip_rx reports a frame only for a trailing END.
THEOREM NoFrameOutside == LinkSpec => NoPhantomFrame
<1> DEFINE Silent == upsets' = 0 /\ phase \in {"leader", "body", "second"} => got.status' # "COMPLETE"
<1>1. LinkInit => Quiet
  BY DEF LinkInit, Quiet, slip_rx_state_reset
<1>2. LinkTypeOK /\ Position /\ Quiet /\ [LinkNext]_lvars => Quiet'
  <2>1. CASE UNCHANGED lvars
    BY <2>1 DEF Quiet, lvars, txvars, rxvars
  <2>2. CASE LinkNext
    BY <2>2, QuietNext DEF Quiet
  <2>. QED  BY <2>1, <2>2
<1>3. LinkTypeOK /\ Position /\ Quiet /\ [LinkNext]_lvars => [Silent]_lvars
  BY QuietNext
<1>. QED
  BY <1>1, <1>2, <1>3, LinkTypeCorrect, PTL DEF LinkSpec, NoPhantomFrame

-------------------------------------------------------------------------------
(* UartSlip. *)

\* The sequence numbers given out so far are not in the future of the process
\* that draws the next one.
Drawn == /\ seed <= second
         /\ \A c \in Command : /\ seqNum[c][1] <= seed
                               /\ seqNum[c][1] = seed => seqNum[c][2] <= nth

\* No two commands were given the same sequence number.
Unique == \A c, d \in Command : seqNum[c] = seqNum[d] => c = d

\* A whole frame is some command's, and one the device sent answers a command it
\* has executed.
Request  == {f \in Frame : f.form = Whole => f.cmd \in Command /\ f.seq = seqNum[f.cmd]}
Response == {f \in Request : f.form = Whole => f.cmd \in executed}

Traced == toDev \in Seq(Request) /\ toHost \in Seq(Response)

WaitsForOne == host = "waiting" => Current \in Command

IInv == TypeOK /\ WaitsForOne /\ Drawn /\ Unique /\ Traced /\ MatchedResponse

-------------------------------------------------------------------------------
\* Sequences.

LEMMA HeadTail ==
  ASSUME NEW S, NEW q \in Seq(S), q # <<>>
  PROVE  Head(q) \in S /\ Tail(q) \in Seq(S)
OBVIOUS

LEMMA AppendSeq ==
  ASSUME NEW S, NEW q \in Seq(S), NEW e \in S
  PROVE  Append(q, e) \in Seq(S)
OBVIOUS

LEMMA ConsSeq ==
  ASSUME NEW S, NEW q \in Seq(S), NEW e \in S
  PROVE  <<e>> \o q \in Seq(S)
OBVIOUS

LEMMA SeqMonotone ==
  ASSUME NEW S, NEW T, S \subseteq T, NEW q \in Seq(S)
  PROVE  q \in Seq(T)
OBVIOUS

\* A table with an entry for every command, after the next command is added.
LEMMA AppendTable ==
  ASSUME NEW T, NEW n \in Nat, NEW t \in [1..n -> T], NEW e \in T
  PROVE  /\ Append(t, e) \in [1..(n + 1) -> T]
         /\ \A c \in 1..n : Append(t, e)[c] = t[c]
         /\ Append(t, e)[n + 1] = e
<1>1. t \in Seq(T) /\ Len(t) = n
  OBVIOUS
<1>2. /\ Append(t, e) \in Seq(T) /\ Len(Append(t, e)) = Len(t) + 1
      /\ \A i \in 1..Len(t) : Append(t, e)[i] = t[i]
      /\ Append(t, e)[Len(t) + 1] = e
  BY <1>1, AppendProperties
<1>3. Append(t, e) \in [1..(n + 1) -> T]
  BY <1>1, <1>2, LenProperties
<1>. QED  BY <1>1, <1>2, <1>3

-------------------------------------------------------------------------------
\* The invariant.

LEMMA InitInv == Init => IInv
BY UartSlipAssumption
   DEF Init, IInv, TypeOK, WaitsForOne, Drawn, Unique, Traced, MatchedResponse,
       Command, Current, SeqNum

\* A frame that is no longer any command's may stand in either queue.
LEMMA GarbledSeq ==
  ASSUME TypeOK, NEW S \in {Request, Response}, NEW q \in Seq(S), q # <<>>,
         NEW r \in Garbled(q)
  PROVE  r \in Seq(S)
<1>1. Head(q) \in Frame /\ Head(q) \in S /\ Tail(q) \in Seq(S)
  <2>1. Head(q) \in S /\ Tail(q) \in Seq(S)
    BY HeadTail
  <2>. QED  BY <2>1 DEF Request, Response
<1>2. ASSUME NEW d \in Damaged PROVE [Head(q) EXCEPT !.form = d, !.cmd = 0] \in S
  BY <1>1, <1>2 DEF Frame, Damaged, Whole, Request, Response
<1>3. ASSUME NEW d \in Damaged
      PROVE <<[Head(q) EXCEPT !.form = d, !.cmd = 0]>> \o Tail(q) \in Seq(S)
  BY <1>1, <1>2, ConsSeq
<1>. QED  BY <1>1, <1>3 DEF Garbled

\* The step that gives the next command its number keeps every part of the
\* invariant but the one about host.
LEMMA TransmitInv ==
  ASSUME IInv, host = "idle", NEW form \in {Whole} \cup Damaged,
         NEW result \in {"pending", "failed"},
         host' = IF result = "pending" THEN "waiting" ELSE "idle",
         capacity' \in Nat, faults' \in Nat,
         UNCHANGED <<second, seed, toHost, executed>>,
         Transmit(form, result)
  PROVE  IInv'
<1> DEFINE c0 == Len(seqNum) + 1
<1> DEFINE s0 == <<seed, nth + 1>>
<1>0. /\ TypeOK /\ seqNum \in Seq(SeqNum) /\ s0 \in SeqNum /\ Len(seqNum) \in Nat
      /\ seed \in Nat /\ nth \in Nat
  BY DEF IInv, TypeOK, SeqNum
<1>1. /\ nth' = nth + 1 /\ seqNum' = Append(seqNum, s0)
      /\ toDev' = Append(toDev, NewFrame(form))
      /\ outcome' = Append(outcome, result) /\ reply' = Append(reply, 0)
  BY DEF Transmit
<1>2. /\ Command' = 1..c0 /\ Command = 1..Len(seqNum) /\ Command' = Command \cup {c0}
      /\ c0 \notin Command
      /\ \A c \in Command : seqNum'[c] = seqNum[c]
      /\ seqNum'[c0] = s0
      /\ seqNum' \in Seq(SeqNum) /\ Len(seqNum') = c0
  BY <1>0, <1>1, AppendProperties, LenProperties DEF Command
<1>3. /\ outcome' \in [Command' -> Result]
      /\ \A c \in Command : outcome'[c] = outcome[c]
      /\ outcome'[c0] = result
  <2>1. Len(seqNum) \in Nat /\ outcome \in [1..Len(seqNum) -> Result] /\ result \in Result
    BY <1>0, <1>2 DEF TypeOK, Result
  <2>2. Append(outcome, result) \in [1..(Len(seqNum) + 1) -> Result]
    BY <2>1, AppendTable
  <2>3. \A c \in 1..Len(seqNum) : Append(outcome, result)[c] = outcome[c]
    BY <2>1, AppendTable
  <2>4. Append(outcome, result)[Len(seqNum) + 1] = result
    BY <2>1, AppendTable
  <2>. QED  BY <1>1, <1>2, <2>2, <2>3, <2>4
<1>4. /\ reply' \in [Command' -> Nat]
      /\ \A c \in Command : reply'[c] = reply[c]
  <2>1. Len(seqNum) \in Nat /\ reply \in [1..Len(seqNum) -> Nat] /\ 0 \in Nat
    BY <1>0, <1>2 DEF TypeOK
  <2>2. Append(reply, 0) \in [1..(Len(seqNum) + 1) -> Nat]
    BY <2>1, AppendTable
  <2>3. \A c \in 1..Len(seqNum) : Append(reply, 0)[c] = reply[c]
    BY <2>1, AppendTable
  <2>. QED  BY <1>1, <1>2, <2>2, <2>3
<1>5. Request \subseteq Request' /\ Response \subseteq Response'
  BY <1>2 DEF Request, Response
<1>6. NewFrame(form) \in Request'
  BY <1>0, <1>2 DEF NewFrame, Request, Frame, SeqNum
<1>7. Traced'
  <2>1. toDev \in Seq(Request') /\ toHost' \in Seq(Response')
    BY <1>5, SeqMonotone DEF IInv, Traced
  <2>. QED  BY <1>1, <1>6, <2>1, AppendSeq DEF Traced
<1>8. toDev' \in Seq(Frame) /\ toHost' \in Seq(Frame)
  <2>1. Request' \subseteq Frame
    BY DEF Request
  <2>. QED  BY <1>0, <1>1, <1>6, <2>1, AppendSeq DEF TypeOK
<1>9. \A c \in Command' : outcome'[c] = "pending" <=> host' = "waiting" /\ c = Current'
  <2>1. \A c \in Command : outcome[c] # "pending"
    BY <1>0 DEF TypeOK
  <2>2. Current' = c0
    BY <1>2 DEF Current
  <2>. QED  BY <1>2, <1>3, <2>1, <2>2
<1>10. TypeOK'
  BY <1>0, <1>1, <1>2, <1>3, <1>4, <1>8, <1>9 DEF TypeOK
<1>11. WaitsForOne'
  BY <1>2 DEF WaitsForOne, Current
<1>12. Drawn'
  <2>1. \A c \in Command : seqNum[c] \in Nat \X Nat
    BY <1>0 DEF Command, SeqNum
  <2>2. s0[1] = seed /\ s0[2] = nth + 1
    OBVIOUS
  <2>3. ASSUME NEW c \in Command
        PROVE  seqNum'[c][1] <= seed' /\ (seqNum'[c][1] = seed' => seqNum'[c][2] <= nth')
    BY <1>0, <1>1, <1>2, <2>1 DEF Drawn, IInv
  <2>4. seqNum'[c0][1] <= seed' /\ (seqNum'[c0][1] = seed' => seqNum'[c0][2] <= nth')
    BY <1>0, <1>1, <1>2, <2>2
  <2>. QED  BY <1>2, <2>3, <2>4 DEF Drawn, IInv
<1>13. Unique'
  <2>1. \A c \in Command : seqNum[c] # s0
    BY <1>0 DEF IInv, Drawn
  <2>. QED  BY <1>2, <2>1 DEF IInv, Unique
<1>14. MatchedResponse'
  BY <1>2, <1>3, <1>4 DEF IInv, MatchedResponse
<1>. QED
  BY <1>7, <1>10, <1>11, <1>12, <1>13, <1>14 DEF IInv

\* A step that neither issues nor settles a command.
LEMMA QuietInv ==
  ASSUME IInv, UNCHANGED <<seqNum, outcome, reply, executed>>,
         host' \in {"down", "idle", "waiting"}, host' = "waiting" <=> host = "waiting",
         second' \in Nat, seed' \in Nat, nth' \in Nat, capacity' \in Nat, faults' \in Nat,
         Drawn', toDev' \in Seq(Request), toHost' \in Seq(Response)
  PROVE  IInv'
<1>1. Command' = Command /\ Current' = Current /\ Request' = Request /\ Response' = Response
  BY DEF Command, Current, Request, Response
<1>2. Request \subseteq Frame /\ Response \subseteq Frame
  BY DEF Request, Response
<1>3. toDev' \in Seq(Frame) /\ toHost' \in Seq(Frame)
  BY <1>2, SeqMonotone
<1>4. TypeOK'
  BY <1>1, <1>3 DEF IInv, TypeOK
<1>. QED
  BY <1>1, <1>4 DEF IInv, WaitsForOne, Unique, Traced, MatchedResponse

\* A step that settles the outstanding command.
LEMMA SettleInv ==
  ASSUME IInv, host = "waiting", host' \in {"down", "idle"},
         UNCHANGED <<second, seed, nth, capacity, toDev, seqNum, executed>>,
         faults' \in Nat, toHost' \in Seq(Response),
         NEW r \in {"answered", "failed"}, NEW c0 \in Nat,
         outcome' = [outcome EXCEPT ![Current] = r],
         reply' = [reply EXCEPT ![Current] = c0],
         r = "answered" => c0 = Current
  PROVE  IInv'
<1>1. Command' = Command /\ Current' = Current /\ Request' = Request /\ Response' = Response
  BY DEF Command, Current, Request, Response
<1>2. toHost' \in Seq(Frame) /\ toDev' \in Seq(Frame)
  <2>1. Response \subseteq Frame
    BY DEF Request, Response
  <2>. QED  BY <2>1, SeqMonotone DEF IInv, TypeOK
<1>3. Current \in Command /\ TypeOK
  BY DEF IInv, WaitsForOne
<1>4. outcome' \in [Command' -> Result] /\ reply' \in [Command' -> Nat]
  BY <1>1, <1>3 DEF TypeOK, Result
<1>5. \A c \in Command' : outcome'[c] # "pending"
  BY <1>1, <1>3 DEF TypeOK
<1>6. TypeOK'
  BY <1>1, <1>2, <1>3, <1>4, <1>5 DEF TypeOK
<1>7. MatchedResponse'
  BY <1>1, <1>3 DEF IInv, TypeOK, MatchedResponse
<1>8. Drawn'
  BY <1>1 DEF IInv, Drawn
<1>. QED
  BY <1>1, <1>6, <1>7, <1>8 DEF IInv, WaitsForOne, Unique, Traced

\* The frame RxAccept takes answers the command its caller sent.
LEMMA AcceptsOwn ==
  ASSUME IInv, RxAccept
  PROVE  /\ Head(toHost).cmd = Current /\ Current \in Command /\ Current \in executed
         /\ host = "waiting"
<1>1. /\ toHost # <<>> /\ Head(toHost).form = Whole /\ Head(toHost).seq = seqNum[Current]
      /\ host = "waiting"
  BY DEF RxAccept, Receiving, Valid
<1>2. Head(toHost) \in Response /\ Current \in Command
  BY <1>1, HeadTail DEF IInv, Traced, WaitsForOne
<1>. QED
  BY <1>1, <1>2 DEF Response, Request, IInv, Unique

\* The device executes the command it was sent, and answers that one.
LEMMA DeviceInv == ASSUME IInv, Device PROVE IInv'
<1> DEFINE f == Head(toDev)
<1>1. /\ TypeOK /\ Drawn /\ f \in Request /\ toDev' \in Seq(Request) /\ Sizes \subseteq Nat
      /\ toHost \in Seq(Response)
  BY HeadTail, UartSlipAssumption DEF Device, IInv, Traced
<1>2. UNCHANGED <<second, host, seed, nth, capacity, seqNum, outcome, reply, faults>>
  BY DEF Device
<1>3. Command' = Command /\ Current' = Current /\ Request' = Request
  BY <1>2 DEF Command, Current, Request
<1>4. CASE UNCHANGED <<toHost, executed>>
  <2>1. Drawn'
    BY <1>1, <1>2 DEF Drawn, Command
  <2>. QED  BY <1>1, <1>2, <1>4, <2>1, QuietInv DEF TypeOK
<1>5. ASSUME NEW n \in Sizes, f.form = Whole, executed' = executed \cup {f.cmd},
             toHost' = Append(toHost, [f EXCEPT !.size = n])
      PROVE  IInv'
  <2>1. f.cmd \in Command /\ executed' \subseteq Command
    BY <1>1, <1>5 DEF Request, TypeOK
  <2>2. Response \subseteq Response'
    BY <1>3, <1>5 DEF Response
  <2>3. [f EXCEPT !.size = n] \in Response'
    BY <1>1, <1>3, <1>5, <2>1 DEF Response, Request, Frame, Whole
  <2>4. toHost' \in Seq(Response')
    BY <1>1, <1>5, <2>2, <2>3, SeqMonotone, AppendSeq
  <2>5. toDev' \in Seq(Frame) /\ toHost' \in Seq(Frame)
    <3>1. Request \subseteq Frame /\ Response' \subseteq Frame
      BY <1>3 DEF Response, Request
    <3>. QED  BY <1>1, <2>4, <3>1, SeqMonotone
  <2>6. TypeOK'
    BY <1>1, <1>2, <1>3, <2>1, <2>5 DEF TypeOK
  <2>7. Drawn'
    BY <1>1, <1>2 DEF Drawn, Command
  <2>. QED
    BY <1>1, <1>2, <1>3, <2>4, <2>6, <2>7
       DEF IInv, WaitsForOne, Unique, Traced, MatchedResponse
<1>. QED
  BY <1>4, <1>5 DEF Device

LEMMA NextInv == ASSUME SeparateSeconds, IInv, [Next]_vars PROVE IInv'
<1>0. /\ TypeOK /\ Drawn /\ toDev \in Seq(Request) /\ toHost \in Seq(Response)
      /\ Sizes \subseteq Nat
      /\ host \in {"down", "idle", "waiting"} /\ second \in Nat /\ seed \in Nat
      /\ nth \in Nat /\ capacity \in Nat /\ faults \in Nat
  BY UartSlipAssumption DEF IInv, TypeOK, Traced
<1>1. CASE Tick
  <2>1. Drawn'
    BY <1>0, <1>1 DEF Tick, Drawn, Command, history
  <2>. QED  BY <1>0, <1>1, <2>1, QuietInv DEF Tick, line, history
<1>2. CASE Start
  <2>1. seed < second /\ seed' = second /\ second' = second /\ nth' = 0 /\ seqNum' = seqNum
    BY <1>2 DEF Start, history
  <2>2. \A c \in Command : seqNum[c] \in Nat \X Nat
    BY <1>0 DEF TypeOK, Command, SeqNum
  <2>3. Drawn'
    BY <1>0, <2>1, <2>2 DEF Drawn, Command
  <2>. QED  BY <1>0, <1>2, <2>1, <2>3, QuietInv DEF Start, line, history
<1>3. CASE Stop
  <2>1. toHost' \in Seq(Response)
    BY <1>0, <1>3, EmptySeq DEF Stop
  <2>2. CASE host = "waiting"
    <3>1. reply[Current] \in Nat /\ reply' = [reply EXCEPT ![Current] = reply[Current]]
      <4>1. Current \in Command /\ reply \in [Command -> Nat]
        BY <1>0, <2>2 DEF IInv, WaitsForOne, TypeOK
      <4>2. reply' = reply
        BY <1>3 DEF Stop
      <4>. QED  BY <4>1, <4>2
    <3>2. Len(outcome) = Current
      <4>1. seqNum \in Seq(SeqNum) /\ outcome \in [1..Len(seqNum) -> Result]
        BY <1>0, LenProperties DEF TypeOK, Command
      <4>. QED  BY <4>1 DEF Current
    <3>3. outcome' = [outcome EXCEPT ![Current] = "failed"]
      BY <1>3, <2>2, <3>2 DEF Stop
    <3>. QED  BY <1>0, <1>3, <2>1, <2>2, <3>1, <3>3, SettleInv DEF Stop
  <2>3. CASE host # "waiting"
    <3>1. Drawn'
      BY <1>0, <1>3 DEF Stop, Drawn, Command
    <3>. QED  BY <1>0, <1>3, <2>1, <2>3, <3>1, QuietInv DEF Stop
  <2>. QED  BY <2>2, <2>3
<1>4. ASSUME NEW n \in Sizes, Send(n) PROVE IInv'
  <2>1. n \in Nat /\ faults' \in Nat
    BY <1>0, <1>4 DEF Send, Fault
  <2>2. PICK form \in {Whole} \cup Damaged : Transmit(form, "pending")
    BY <1>4 DEF Send, Damaged
  <2>. QED  BY <1>4, <2>1, <2>2, TransmitInv DEF Send
<1>5. CASE SendFails
  <2>1. faults' \in Nat /\ "badcrc" \in {Whole} \cup Damaged
    BY <1>0, <1>5 DEF SendFails, Fault, Damaged
  <2>. QED  BY <1>0, <1>5, <2>1, TransmitInv DEF SendFails
<1>6. CASE RxIgnore
  <2>1. toHost' \in Seq(Response) /\ Drawn'
    BY <1>0, <1>6, HeadTail DEF RxIgnore, Receiving, Drawn, Command, history
  <2>. QED  BY <1>0, <1>6, <2>1, QuietInv DEF RxIgnore, history
<1>7. CASE RxAccept
  <2>1. toHost' \in Seq(Response)
    BY <1>0, <1>7, HeadTail DEF RxAccept, Receiving
  <2>2. Head(toHost).cmd = Current /\ Current \in Nat
    BY <1>0, <1>7, AcceptsOwn DEF Command, TypeOK
  <2>. QED  BY <1>0, <1>7, <2>1, <2>2, AcceptsOwn, SettleInv DEF RxAccept
<1>8. ASSUME host = "waiting", host' = "idle", faults' \in Nat, toHost' \in Seq(Response),
             UNCHANGED <<second, seed, nth, capacity, toDev, seqNum, reply, executed>>,
             outcome' = [outcome EXCEPT ![Current] = "failed"]
      PROVE  IInv'
  <2>1. reply[Current] \in Nat /\ reply' = [reply EXCEPT ![Current] = reply[Current]]
    BY <1>0, <1>8 DEF IInv, WaitsForOne, TypeOK
  <2>. QED  BY <1>8, <2>1, SettleInv
<1>9. CASE RxFail
  <2>1. Head(toHost) \in Response /\ Tail(toHost) \in Seq(Response)
    BY <1>0, <1>9, HeadTail DEF RxFail, Receiving
  <2>2. CASE Head(toHost).form = "aborted"
    BY <1>0, <1>8, <1>9, <2>1, <2>2 DEF RxFail, Receiving
  <2>3. CASE Head(toHost).form # "aborted"
    <3>1. Head(toHost).size - capacity \in Nat
      BY <1>0, <1>9, <2>1, <2>3 DEF RxFail, Fits, Response, Request, Frame
    <3>2. Rest(Head(toHost)) \in Response
      BY <2>1, <3>1 DEF Rest, Response, Request, Frame, Whole, Damaged
    <3>3. <<Rest(Head(toHost))>> \o Tail(toHost) \in Seq(Response)
      BY <2>1, <3>2, ConsSeq
    <3>. QED  BY <1>0, <1>8, <1>9, <2>3, <3>3 DEF RxFail, Receiving
  <2>. QED  BY <2>2, <2>3
<1>10. CASE ReadError
  BY <1>0, <1>8, <1>10 DEF ReadError, Fault, line
<1>11. CASE Device
  BY <1>11, DeviceInv
<1>12. CASE Garble
  <2>1. faults' \in Nat /\ Drawn'
    BY <1>0, <1>12 DEF Garble, Fault, Drawn, Command, history
  <2>2. toDev' \in Seq(Request) /\ toHost' \in Seq(Response)
    BY <1>0, <1>12, GarbledSeq DEF Garble
  <2>. QED  BY <1>0, <1>12, <2>1, <2>2, QuietInv DEF Garble, history
<1>13. CASE UNCHANGED vars
  <2>1. Drawn'
    BY <1>0, <1>13 DEF vars, Drawn, Command, history
  <2>. QED  BY <1>0, <1>13, <2>1, QuietInv DEF vars, history, line
<1>. QED
  BY <1>1, <1>2, <1>3, <1>4, <1>5, <1>6, <1>7, <1>9, <1>10, <1>11, <1>12, <1>13
     DEF Next, Host

-------------------------------------------------------------------------------
\* The theorems.

LEMMA Inductive == ASSUME SeparateSeconds PROVE Spec => []IInv
BY InitInv, NextInv, PTL DEF Spec

\* For any number of processes, commands and faults every variable keeps to its
\* type, and uart_slip_send waits exactly while its last command is outstanding.
THEOREM TypeCorrect == ASSUME SeparateSeconds PROVE Spec => []TypeOK
<1>1. IInv => TypeOK
  BY DEF IInv
<1>. QED  BY <1>1, Inductive, PTL

\* The sequence number does match a command to its response, whatever earlier
\* processes left on the line, as long as no two of them start in one second.
THEOREM ResponsesMatch == ASSUME SeparateSeconds PROVE Spec => []MatchedResponse
<1>1. IInv => MatchedResponse
  BY DEF IInv
<1>. QED  BY <1>1, Inductive, PTL

\* While responses match, a caller's view is the outcome of its commands.
AsSeen == Calls = outcome /\ DOMAIN outcome = Command

LEMMA CallsAreOutcomes == IInv => AsSeen
<1> SUFFICES ASSUME IInv PROVE Calls = outcome /\ DOMAIN outcome = Command
  BY DEF AsSeen
<1>1. outcome \in [Command -> Result]
  BY DEF IInv, TypeOK
<1>2. \A c \in Command : Calls[c] = outcome[c]
  BY DEF IInv, MatchedResponse, Calls
<1>3. Calls = [c \in Command |-> Calls[c]]
  BY DEF Calls
<1>. QED  BY <1>1, <1>2, <1>3

\* A step of the transport is a step of the channel or leaves it alone.
LEMMA ChannelStep ==
  ASSUME IInv, IInv', Next PROVE [Channel!Next]_(Channel!cvars)
<1> AsSeen /\ AsSeen'
  BY CallsAreOutcomes, PTL
<1>0. Calls = outcome /\ Calls' = outcome' /\ DOMAIN outcome = Command
  BY DEF AsSeen
<1>1. CASE Tick \/ Start \/ RxIgnore \/ Garble
  BY <1>0, <1>1 DEF Tick, Start, RxIgnore, Garble, history, Channel!cvars
<1>2. ASSUME NEW result \in {"pending", "failed"}, host = "idle", executed' = executed,
             outcome' = Append(outcome, result)
      PROVE  Channel!Next
  <2>1. Channel!NonePending
    BY <1>0, <1>2 DEF Channel!NonePending, IInv, TypeOK
  <2>. QED  BY <1>0, <1>2, <2>1 DEF Channel!Next, Channel!Issue
<1>3. ASSUME NEW n \in Sizes, Send(n) PROVE Channel!Next
  BY <1>2, <1>3 DEF Send, Transmit
<1>4. CASE SendFails
  BY <1>2, <1>4 DEF SendFails, Transmit
<1>5. ASSUME host = "waiting", executed' = executed,
             outcome' = [outcome EXCEPT ![Current] = "failed"]
      PROVE  Channel!Next
  <2>1. Current \in Command /\ outcome[Current] = "pending"
    BY <1>5 DEF IInv, TypeOK, WaitsForOne
  <2>2. Channel!Fail(Current)
    BY <1>0, <1>5, <2>1 DEF Channel!Fail
  <2>. QED  BY <1>0, <2>1, <2>2 DEF Channel!Next
<1>6. CASE RxFail \/ ReadError
  BY <1>5, <1>6 DEF RxFail, ReadError, Receiving
<1>7. CASE RxAccept
  <2>1. Current \in Command /\ outcome[Current] = "pending" /\ Current \in executed
    BY <1>7, AcceptsOwn DEF IInv, TypeOK, WaitsForOne
  <2>2. Channel!Answer(Current)
    BY <1>0, <1>7, <2>1 DEF Channel!Answer, RxAccept
  <2>. QED  BY <1>0, <2>1, <2>2 DEF Channel!Next
<1>8. CASE Stop
  <2>1. CASE host = "waiting"
    <3>1. Len(outcome) = Current
      <4>1. seqNum \in Seq(SeqNum) /\ outcome \in [1..Len(seqNum) -> Result]
        BY LenProperties DEF IInv, TypeOK, Command
      <4>. QED  BY <4>1 DEF Current
    <3>. QED  BY <1>5, <1>8, <2>1, <3>1 DEF Stop
  <2>2. CASE host # "waiting"
    BY <1>0, <1>8, <2>2 DEF Stop, Channel!cvars
  <2>. QED  BY <2>1, <2>2
<1>9. CASE Device
  <2> DEFINE f == Head(toDev)
  <2>1. CASE f.form # Whole \/ f.cmd \in executed
    BY <1>0, <1>9, <2>1 DEF Device, Channel!cvars
  <2>2. CASE f.form = Whole /\ f.cmd \notin executed
    <3>1. f \in Request
      BY <1>9, HeadTail DEF Device, IInv, Traced
    <3>2. f.cmd \in Command
      BY <2>2, <3>1 DEF Request
    <3>3. Channel!Execute(f.cmd)
      BY <1>0, <1>9, <2>2 DEF Device, Channel!Execute
    <3>. QED  BY <1>0, <3>2, <3>3 DEF Channel!Next
  <2>. QED  BY <2>1, <2>2
<1>. QED
  BY <1>1, <1>3, <1>4, <1>6, <1>7, <1>8, <1>9 DEF Next, Host

\* uart_slip keeps what transport.h promises of every transport, for any number
\* of processes, commands and faults: it implements CommandChannel.
THEOREM ImplementsChannel == ASSUME SeparateSeconds PROVE Spec => ChannelSpec
<1>1. Init => Channel!Init
  BY DEF Init, Calls, Command, Channel!Init
<1>2. IInv /\ IInv' /\ [Next]_vars => [Channel!Next]_(Channel!cvars)
  <2>1. CASE UNCHANGED vars
    BY <2>1 DEF vars, history, Calls, Command, Channel!cvars
  <2>. QED  BY <2>1, ChannelStep
<1>. QED  BY <1>1, <1>2, Inductive, PTL DEF Spec, ChannelSpec, Channel!Spec

===============================================================================
