---------------------------- MODULE MorseCliProofs -----------------------------
(***************************************************************************)
(* Proofs about MorseCli for every build and every length of a             *)
(* configuration file, and about the command of its table whose processes  *)
(* depend on one another, `standby`, for any number of them.  What is      *)
(* needed of the table of handlers is stated once for a record (Polite,    *)
(* Honest), shown for each row, and carried over to the table.             *)
(***************************************************************************)
EXTENDS MorseCli, TLAPS

\* A legacy handler explains itself when argc is 0.
Polite(h) == (h.form = "legacy") => (0 \in h.help)

\* What main and handlers return.
Codes == Returns \cup {-19, -12, -4, -1, 2, 4, 22}

\* What a handler returns of its own is one of these.
Coded(h) == h.wrong \subseteq Codes /\ h.nomem \in Codes /\ h.refusal \subseteq Codes

\* 0 is for help that was asked for and for an accepted command.
Honest(h) ==
  /\ 0 \notin h.wrong /\ h.nomem # 0 /\ 0 \notin h.refusal
  /\ \A argc \in 1..MaxArgc : (argc \in h.help) => (argc = 1)

-------------------------------------------------------------------------------
(* The rows.                                                                   *)

LEMMA LegacyCoded ==
  /\ \A direct, help, counts : Coded(Legacy(direct, help, counts))
  /\ \A direct : Coded(ArgTable(direct))
<1>1. -1 \in Codes /\ {-1} \subseteq Codes /\ {} \subseteq Codes
  BY SMT DEF Codes
<1> QED BY <1>1, Zenon DEF Coded, Legacy, ArgTable

LEMMA LegacyHonest ==
  ASSUME NEW direct, NEW help, NEW counts, help \subseteq 0..1
  PROVE  Honest(Legacy(direct, help, counts))
<1>1. -1 # 0
  BY SMT
<1>2. \A argc \in 1..MaxArgc : (argc \in help) => (argc = 1)
  BY SMT DEF MaxArgc
<1> QED BY <1>1, <1>2, Zenon DEF Honest, Legacy

LEMMA ArgTableFields ==
  ASSUME NEW direct
  PROVE  Polite(ArgTable(direct)) /\ Honest(ArgTable(direct))
<1>1. -1 # 0
  BY SMT
<1>2. "argtable" # "legacy"
  BY SMT
<1> QED BY <1>1, <1>2, Zenon DEF Polite, Honest, ArgTable, Legacy

LEMMA RowsPolite ==
  /\ Polite(ampdu) /\ Polite(bsscolor) /\ Polite(cac) /\ Polite(cts_self_ps)
  /\ Polite(dynamic_peering) /\ Polite(keepalive) /\ Polite(li) /\ Polite(long_sleep)
  /\ Polite(maxampdulen) /\ Polite(mbca) /\ Polite(mbssid) /\ Polite(mesh_config)
  /\ Polite(mpsw) /\ Polite(opclass) /\ Polite(uapsd) /\ Polite(wakeaction) /\ Polite(twt)
  /\ Polite(ecsa_info) /\ Polite(vendor_ie) /\ Polite(coredump) /\ Polite(health)
  /\ Polite(hw_version) /\ Polite(macaddr) /\ Polite(otp) /\ Polite(version)
  /\ Polite(tx_pkt_lifetime_us) /\ Polite(dhcpc) /\ Polite(duty_cycle) /\ Polite(get)
  /\ Polite(set) /\ Polite(raw) /\ Polite(tcp_keepalive) /\ Polite(whitelist)
  /\ Polite(arp_periodic_refresh)
<1>1. 0 \in {0} /\ 0 \in 0..1 /\ 0 \in (0..MaxArgc) \ {13}
  BY SMT DEF MaxArgc
<1>2. /\ Polite(ampdu) /\ Polite(bsscolor) /\ Polite(cac) /\ Polite(cts_self_ps)
      /\ Polite(dynamic_peering) /\ Polite(keepalive) /\ Polite(li) /\ Polite(long_sleep)
      /\ Polite(maxampdulen) /\ Polite(mbca) /\ Polite(mbssid) /\ Polite(mesh_config)
      /\ Polite(mpsw) /\ Polite(opclass) /\ Polite(uapsd) /\ Polite(wakeaction) /\ Polite(twt)
  BY <1>1, ZenonT(30)
  DEF Polite, Legacy, ampdu, bsscolor, cac, cts_self_ps, dynamic_peering, keepalive, li, long_sleep,
      maxampdulen, mbca, mbssid, mesh_config, mpsw, opclass, uapsd, wakeaction, twt
<1>3. /\ Polite(ecsa_info) /\ Polite(coredump) /\ Polite(health) /\ Polite(hw_version)
      /\ Polite(macaddr) /\ Polite(otp) /\ Polite(tx_pkt_lifetime_us)
  BY <1>1, ZenonT(30)
  DEF Polite, Legacy, ecsa_info, coredump, health, hw_version, macaddr, otp, tx_pkt_lifetime_us
<1>4. Polite(version) /\ Polite(raw) /\ Polite(tcp_keepalive) /\ Polite(whitelist)
  BY ArgTableFields DEF version, raw, tcp_keepalive, whitelist
<1>5. Polite(vendor_ie) /\ Polite(dhcpc) /\ Polite(duty_cycle)
  BY <1>1, Zenon DEF Polite, Legacy, vendor_ie, dhcpc, duty_cycle
<1>6. Polite(get) /\ Polite(set)
  BY <1>1, Zenon DEF Polite, Legacy, get, set
<1>7. "argtable" # "legacy"
  BY SMT
<1>8. Polite(arp_periodic_refresh)
  BY <1>7, Zenon DEF Polite, ArgTable, Legacy, arp_periodic_refresh
<1> QED BY <1>2, <1>3, <1>4, <1>5, <1>6, <1>8

LEMMA RowsHonest ==
  /\ Honest(ampdu) /\ Honest(bsscolor) /\ Honest(cac) /\ Honest(cts_self_ps)
  /\ Honest(dynamic_peering) /\ Honest(keepalive) /\ Honest(li) /\ Honest(long_sleep)
  /\ Honest(maxampdulen) /\ Honest(mbca) /\ Honest(mbssid) /\ Honest(mesh_config)
  /\ Honest(mpsw) /\ Honest(opclass) /\ Honest(uapsd) /\ Honest(wakeaction) /\ Honest(twt)
  /\ Honest(coredump) /\ Honest(health) /\ Honest(hw_version) /\ Honest(macaddr)
  /\ Honest(otp) /\ Honest(version) /\ Honest(tx_pkt_lifetime_us) /\ Honest(duty_cycle)
  /\ Honest(get) /\ Honest(set) /\ Honest(raw) /\ Honest(tcp_keepalive) /\ Honest(whitelist)
<1>1. {0} \subseteq 0..1 /\ 0..1 \subseteq 0..1
  BY SMT
<1>2. /\ Honest(ampdu) /\ Honest(bsscolor) /\ Honest(cac) /\ Honest(cts_self_ps)
      /\ Honest(dynamic_peering) /\ Honest(keepalive) /\ Honest(li) /\ Honest(long_sleep)
      /\ Honest(maxampdulen) /\ Honest(mbca) /\ Honest(mbssid) /\ Honest(mesh_config)
      /\ Honest(mpsw) /\ Honest(opclass) /\ Honest(uapsd) /\ Honest(wakeaction) /\ Honest(twt)
  BY <1>1, LegacyHonest
  DEF ampdu, bsscolor, cac, cts_self_ps, dynamic_peering, keepalive, li, long_sleep,
      maxampdulen, mbca, mbssid, mesh_config, mpsw, opclass, uapsd, wakeaction, twt
<1>3. /\ Honest(coredump) /\ Honest(health) /\ Honest(hw_version)
      /\ Honest(macaddr) /\ Honest(otp) /\ Honest(tx_pkt_lifetime_us)
  BY <1>1, LegacyHonest
  DEF coredump, health, hw_version, macaddr, otp, tx_pkt_lifetime_us
<1>4. Honest(version) /\ Honest(raw) /\ Honest(tcp_keepalive) /\ Honest(whitelist)
  BY ArgTableFields DEF version, raw, tcp_keepalive, whitelist
<1>5. /\ -1 # 0 /\ 1 # 0 /\ 2 # 0
      /\ \A argc \in 1..MaxArgc : argc \notin {0}
  BY SMT DEF MaxArgc
<1>6. Honest(duty_cycle)
  BY <1>5, Zenon DEF Honest, Legacy, duty_cycle
<1>7. Honest(get) /\ Honest(set)
  BY <1>5, Zenon DEF Honest, Legacy, get, set
<1> QED BY <1>2, <1>3, <1>4, <1>6, <1>7

LEMMA CodesAre == Codes \subseteq Int /\ Returns \subseteq Codes
BY SMT DEF Codes, Returns

LEMMA RowsCoded ==
  /\ Coded(ampdu) /\ Coded(bsscolor) /\ Coded(cac) /\ Coded(cts_self_ps)
  /\ Coded(dynamic_peering) /\ Coded(keepalive) /\ Coded(li) /\ Coded(long_sleep)
  /\ Coded(maxampdulen) /\ Coded(mbca) /\ Coded(mbssid) /\ Coded(mesh_config)
  /\ Coded(mpsw) /\ Coded(opclass) /\ Coded(uapsd) /\ Coded(wakeaction) /\ Coded(twt)
  /\ Coded(ecsa_info) /\ Coded(vendor_ie) /\ Coded(coredump) /\ Coded(health)
  /\ Coded(hw_version) /\ Coded(macaddr) /\ Coded(otp) /\ Coded(version)
  /\ Coded(tx_pkt_lifetime_us) /\ Coded(dhcpc) /\ Coded(duty_cycle) /\ Coded(get)
  /\ Coded(set) /\ Coded(raw) /\ Coded(tcp_keepalive) /\ Coded(whitelist)
  /\ Coded(arp_periodic_refresh)
<1>1. /\ Coded(ampdu) /\ Coded(bsscolor) /\ Coded(cac) /\ Coded(cts_self_ps)
      /\ Coded(dynamic_peering) /\ Coded(keepalive) /\ Coded(li) /\ Coded(long_sleep)
      /\ Coded(maxampdulen) /\ Coded(mbca) /\ Coded(mbssid) /\ Coded(mesh_config)
      /\ Coded(mpsw) /\ Coded(opclass) /\ Coded(uapsd) /\ Coded(wakeaction)
      /\ Coded(twt) /\ Coded(ecsa_info) /\ Coded(coredump) /\ Coded(health)
      /\ Coded(hw_version) /\ Coded(macaddr) /\ Coded(otp) /\ Coded(tx_pkt_lifetime_us)
  BY LegacyCoded, ZenonT(30)
  DEF ampdu, bsscolor, cac, cts_self_ps, dynamic_peering, keepalive, li, long_sleep,
      maxampdulen, mbca, mbssid, mesh_config, mpsw, opclass, uapsd, wakeaction, twt,
      ecsa_info, coredump, health, hw_version, macaddr, otp, tx_pkt_lifetime_us
<1>2. /\ Coded(version) /\ Coded(raw) /\ Coded(tcp_keepalive) /\ Coded(whitelist)
  BY LegacyCoded, Zenon DEF version, raw, tcp_keepalive, whitelist
<1>3. /\ {-1} \subseteq Codes /\ {-1, 0} \subseteq Codes /\ {1} \subseteq Codes /\ {1, 2} \subseteq Codes
      /\ {-1, 22} \subseteq Codes /\ {0} \subseteq Codes /\ {} \subseteq Codes
      /\ -1 \in Codes /\ 0 \in Codes /\ 2 \in Codes
  BY SMT DEF Codes, Returns
<1>4. /\ Coded(vendor_ie) /\ Coded(dhcpc) /\ Coded(duty_cycle) /\ Coded(get)
      /\ Coded(set) /\ Coded(arp_periodic_refresh)
  BY <1>3, ZenonT(30) DEF Coded, Legacy, ArgTable, vendor_ie, dhcpc, duty_cycle, get, set, arp_periodic_refresh
<1> QED BY <1>1, <1>2, <1>4

-------------------------------------------------------------------------------
(* The table.                                                                  *)

LEMMA TablePolite == \A c \in DOMAIN Simple : Polite(Simple[c])
BY RowsPolite, SMTT(60) DEF Simple

LEMMA TableCoded == \A c \in DOMAIN Simple : Coded(Simple[c])
BY RowsCoded, SMTT(60) DEF Simple

LEMMA TableHonest == \A c \in DOMAIN Simple \ Unsure : Honest(Simple[c])
BY RowsHonest, SMTT(60) DEF Simple, Unsure, Others

LEMMA TableNames == DOMAIN Simple \cap Others = {} /\ "reset" \notin DOMAIN Simple
BY SMT DEF Simple, Others

-------------------------------------------------------------------------------
(* The transport is open while a handler uses it, and closed again.            *)

\* Where the handler's name is settled, and while the transport is open.
Handling ==
  /\ (pc \in {"parse", "direct", "open", "call", "channel", "close"}) => (command \in Names)
  /\ (pc = "call") => (Needed(command) => state = "open")
  /\ (state = "open") => \/ pc \in {"call", "channel", "close"}
                         \/ (pc = "exit" /\ command = "reset")

OpenInv == UsedOnlyOpen /\ Handling

LEMMA OpenInit == Init => OpenInv
BY SMT DEF Init, OpenInv, UsedOnlyOpen, Handling, None

LEMMA OpenStep == OpenInv /\ [Next]_vars => OpenInv'
<1> SUFFICES ASSUME OpenInv, [Next]_vars PROVE OpenInv'
  OBVIOUS
<1> USE DEF OpenInv, UsedOnlyOpen, Handling, mvars, cvars, Goto, Leave, Finish
<1>1. CASE ParseArgs
  BY <1>1, SMT DEF ParseArgs
<1>2. CASE ReadLine
  BY <1>2, SMT DEF ReadLine, Passthrough, Option
<1>3. CASE CloseFile
  BY <1>3, SMT DEF CloseFile
<1>4. CASE ParseTransport
  BY <1>4, SMT DEF ParseTransport, Parsed
<1>5. CASE Usage
  <2>1. ~ \E c \in DOMAIN Simple : Form(c) = "legacy" /\ 0 \notin Simple[c].help
    BY TablePolite, SMT DEF Polite, Form
  <2>2. used' = used
    BY <1>5, <2>1, SMT DEF Usage
  <2> QED BY <1>5, <2>2, SMT DEF Usage
<1>6. CASE Lookup
  BY <1>6, SMT DEF Lookup
<1>7. CASE ParseHandlerArgs
  BY <1>7, SMT DEF ParseHandlerArgs
<1>8. CASE CheckDirect
  BY <1>8, SMT DEF CheckDirect
<1>9. CASE Open
  BY <1>9, SMT DEF Open, Needed
<1>10. CASE CallSimple
  <2>1. command # "reset" /\ pc = "call"
    BY <1>10, TableNames, SMT DEF CallSimple
  <2>2. state = "open"
    BY <2>1, SMT DEF Needed, Intf
  <2>3. pc' = "close" /\ used' \subseteq used \cup {state} /\ UNCHANGED <<state, command>>
    BY <1>10, SMT DEF CallSimple, Call, Send
  <2> QED BY <2>1, <2>2, <2>3, SMT
<1>11. CASE CallOther
  <2>1. (Intf(command) \/ HasReset(transport)) => (state = "open")
    BY <1>11, SMT DEF CallOther, Needed
  <2>2. used' = used \cup (IF Intf(command) \/ HasReset(transport) THEN {state} ELSE {})
    BY <1>11, SMT DEF CallOther
  <2>3. pc = "call" /\ pc' = "close" /\ UNCHANGED <<state, command>>
    BY <1>11, SMT DEF CallOther
  <2>4. CASE Intf(command) \/ HasReset(transport)
    <3>1. used' = used \cup {state} /\ state = "open"
      BY <2>1, <2>2, <2>4, Zenon
    <3> QED BY <2>3, <3>1, SMT
  <2>5. CASE ~(Intf(command) \/ HasReset(transport))
    <3>1. used' = used \cup {}
      BY <2>2, <2>5, Zenon
    <3> QED BY <2>3, <3>1, SMT
  <2> QED BY <2>4, <2>5
<1>12. CASE CallChannel
  <2>1. /\ pc = "call" /\ pc' = "channel" /\ UNCHANGED <<state, command>>
        /\ used' = used \cup {state} /\ command = "channel"
    BY <1>12, SMT DEF CallChannel
  <2>2. state = "open"
    BY <2>1, SMT DEF Needed, Intf
  <2> QED BY <2>1, <2>2, SMT
<1>13. CASE ChannelStep
  BY <1>13, SMT DEF ChannelStep
<1>14. CASE ChannelReturns
  BY <1>14, SMT DEF ChannelReturns
<1>15. CASE Close
  BY <1>15, SMT DEF Close, Intf
<1>16. CASE UNCHANGED vars
  BY <1>16, SMT DEF vars, Needed, HasReset
<1> QED
  BY <1>1, <1>2, <1>3, <1>4, <1>5, <1>6, <1>7, <1>8, <1>9, <1>10, <1>11, <1>12, <1>13,
     <1>14, <1>15, <1>16 DEF Next

\* No handler uses a transport that is not open (morsectrl.c:291).
THEOREM OnlyOpen == Spec => []UsedOnlyOpen
<1>1. OpenInv => UsedOnlyOpen
  BY DEF OpenInv
<1> QED BY OpenInit, OpenStep, <1>1, PTL DEF Spec

\* What was opened is closed, but for `reset` (morsectrl.c:312).
THEOREM Closed == Spec => []ClosedInTheEnd
<1>1. OpenInv => ClosedInTheEnd
  BY SMT DEF OpenInv, Handling, ClosedInTheEnd
<1> QED BY OpenInit, OpenStep, <1>1, PTL DEF Spec

-------------------------------------------------------------------------------
(* The exit status.                                                            *)

\* What `ret` says when a handler, or the process, has ended, and that nothing but a
\* handler makes it anything else.
Reported ==
  /\ ret \in Int
  /\ (pc = "usage") => (ret # 0)
  /\ (pc = "channel") => (command = "channel")
  /\ (pc \in {"close", "exit"} /\ ret = 0 /\ command \notin Unsure) =>
       \/ helped = TRUE \/ sent = "accepted"
       \/ sent = "unanswered" /\ transport \in Silent

LEMMA ReportedInit == Init => Reported
BY SMT DEF Init, Reported

LEMMA CallReported ==
  ASSUME Reported, CallSimple
  PROVE  Reported'
<1> USE DEF Reported, Finish, Goto
<1>1. command \in DOMAIN Simple /\ command' = command /\ transport' = transport
  BY SMT DEF CallSimple
<1> DEFINE h == Simple[command]
<1>2. Coded(h) /\ (command \notin Unsure => Honest(h))
  BY <1>1, TableCoded, TableHonest
<1>3. pc' = "close"
  BY SMT DEF CallSimple, Call, Send
<1>4. Call(h)
  BY DEF CallSimple
<1> HIDE DEF h
<1>5. PICK argc \in 1..MaxArgc :
        \/ argc \in h.help /\ Finish(0) /\ helped' = (argc = 1)
        \/ \E r \in h.wrong : Finish(r)
        \/ Finish(h.nomem)
        \/ Send(h)
  BY <1>4, SMT DEF Call
<1>0. h.wrong \subseteq Int /\ h.nomem \in Int /\ h.refusal \subseteq Int
  BY <1>2, CodesAre DEF Coded
<1>6. CASE argc \in h.help /\ Finish(0) /\ helped' = (argc = 1)
  <2>1. (command \notin Unsure) => (argc = 1)
    BY <1>2, <1>5, <1>6, Zenon DEF Honest
  <2>2. (argc = 1) => (helped' = TRUE)
    BY <1>6, Zenon
  <2>3. ret' = 0
    BY <1>6, Zenon
  <2> QED BY <1>1, <1>3, <2>1, <2>2, <2>3, SMT
<1>7. CASE \E r \in h.wrong : Finish(r)
  BY <1>0, <1>1, <1>2, <1>3, <1>7, SMT DEF Honest
<1>8. CASE Finish(h.nomem)
  BY <1>0, <1>1, <1>2, <1>3, <1>8, SMT DEF Honest
<1>9. CASE Send(h)
  BY <1>0, <1>1, <1>2, <1>3, <1>9, SMT DEF Honest, Send, Returns
<1> QED BY <1>5, <1>6, <1>7, <1>8, <1>9

LEMMA TransportNames == Transports \subseteq {"nl80211", "ftdi_spi", "uart_slip"}
BY BuiltAssumption, SMT DEF Transports, ToSet

LEMMA ConfigCodes == \A t \in Transports : Config(t) \subseteq {0, 2, -12}
<1> SUFFICES ASSUME NEW t \in Transports PROVE Config(t) \subseteq {0, 2, -12}
  OBVIOUS
<1>1. CASE t = "nl80211"
  BY <1>1, SMT DEF Config
<1>2. CASE t = "ftdi_spi"
  BY <1>2, SMT DEF Config
<1>3. CASE t = "uart_slip"
  BY <1>3, SMT DEF Config
<1> QED BY <1>1, <1>2, <1>3, TransportNames, Zenon

LEMMA ReportedStep == Reported /\ [Next]_vars => Reported'
<1> SUFFICES ASSUME Reported, [Next]_vars PROVE Reported'
  OBVIOUS
<1> USE DEF Reported, mvars, cvars, Goto, Leave, Finish
<1>1. CASE ParseArgs
  BY <1>1, SMT DEF ParseArgs
<1>2. CASE ReadLine
  BY <1>2, SMT DEF ReadLine, Passthrough, Option
<1>3. CASE CloseFile
  BY <1>3, SMT DEF CloseFile
<1>4. CASE ParseTransport
  BY <1>4, ConfigCodes, SMT DEF ParseTransport, Parsed
<1>5. CASE Usage
  BY <1>5, SMT DEF Usage
<1>6. CASE Lookup
  BY <1>6, SMT DEF Lookup
<1>7. CASE ParseHandlerArgs
  BY <1>7, SMT DEF ParseHandlerArgs
<1>8. CASE CheckDirect
  BY <1>8, SMT DEF CheckDirect
<1>9. CASE Open
  BY <1>9, SMT DEF Open
<1>10. CASE CallSimple
  BY <1>10, CallReported
<1>11. CASE CallOther
  BY <1>11, SMT DEF CallOther, Returns, Unsure
<1>12. CASE CallChannel
  BY <1>12, SMT DEF CallChannel, Channel!Begin
<1>13. CASE ChannelStep
  BY <1>13, SMT DEF ChannelStep, Channel!Step, Channel!SetChannel, Channel!Query
<1>14. CASE ChannelReturns
  BY <1>14, SMT DEF ChannelReturns, Unsure, Others
<1>15. CASE Close
  BY <1>15, SMT DEF Close
<1>16. CASE UNCHANGED vars
  BY <1>16, SMT DEF vars
<1> QED
  BY <1>1, <1>2, <1>3, <1>4, <1>5, <1>6, <1>7, <1>8, <1>9, <1>10, <1>11, <1>12, <1>13,
     <1>14, <1>15, <1>16 DEF Next

\* 0 is for help, for accepted commands and for those that nl80211 or ftdi_spi returns 0
\* for without an answer; over a UART the firmware has accepted the command.  255 is left
\* to ssh (morsectrl.c:322).
THEOREM StatusHonest == Spec => []HonestExit
<1>1. Reported => HonestExit
  <2> SUFFICES ASSUME Reported, pc = "exit" PROVE HonestExit
    BY DEF HonestExit
  <2>1. ret \in Int
    BY DEF Reported
  <2>2. ExitStatus # 255 /\ (ExitStatus = 0 => ret = 0)
    BY <2>1, SMT DEF ExitStatus
  <2> QED BY <2>2, SMT DEF Reported, HonestExit
<1> QED BY ReportedInit, ReportedStep, <1>1, PTL DEF Spec

-------------------------------------------------------------------------------
(* The configuration file.                                                     *)

\* The options' shape, and the promise, which is inductive with it.
Yielding ==
  /\ opt = [trans |-> opt.trans, iface |-> opt.iface, cfg |-> opt.cfg]
  /\ FileYields

LEMMA YieldingInit == Init => Yielding
BY SMT DEF Init, Yielding, FileYields

LEMMA ReadYields ==
  ASSUME Yielding, ReadLine
  PROVE  Yielding'
<1> USE DEF Yielding, FileYields, Leave
<1>1. UNCHANGED line
  BY SMT DEF ReadLine
<1>2. CASE Passthrough("trans", Transports \cup {"unknown"})
  BY <1>1, <1>2, SMT DEF Passthrough, Vacant
<1>3. CASE Passthrough("iface", {"file"})
  BY <1>1, <1>3, SMT DEF Passthrough, Vacant
<1>4. CASE Option
  <2>1. CASE UNCHANGED <<opt, garbled>>
    BY <1>1, <2>1, SMT
  <2>2. CASE ~UNCHANGED <<opt, garbled>>
    <3>1. PICK over \in IF line.cfg = <<>> THEN {{}} ELSE SUBSET {"trans", "iface", "command"} :
            /\ opt' = [trans |-> IF "trans" \in over /\ line.trans # None THEN "unknown"
                                                                        ELSE opt.trans,
                       iface |-> IF "iface" \in over /\ line.iface # None THEN "unknown"
                                                                        ELSE opt.iface,
                       cfg   |-> Append(opt.cfg, "file")]
            /\ garbled' = (garbled \/ "command" \in over)
      BY <1>4, <2>2, Zenon DEF Option
    <3>2. opt' = [trans |-> opt'.trans, iface |-> opt'.iface, cfg |-> opt'.cfg]
      BY <3>1, SMT
    <3>3. ASSUME line.cfg = <<>>
          PROVE  over = {}
      BY <3>1, <3>3, SMT
    <3>4. ASSUME over = {}
          PROVE  opt'.trans = opt.trans /\ opt'.iface = opt.iface
      BY <3>1, <3>4, SMT
    <3>5. ASSUME over = {}, ~garbled
          PROVE  ~garbled'
      BY <3>1, <3>5, Zenon
    <3> QED BY <1>1, <3>2, <3>3, <3>4, <3>5, SMT
  <2> QED BY <2>1, <2>2
<1> QED BY <1>2, <1>3, <1>4, SMT DEF ReadLine

LEMMA YieldingStep == Yielding /\ [Next]_vars => Yielding'
<1> SUFFICES ASSUME Yielding, [Next]_vars PROVE Yielding'
  OBVIOUS
<1>1. CASE ReadLine
  BY <1>1, ReadYields
<1>2. CASE UNCHANGED <<line, opt, garbled>>
  BY <1>2, SMT DEF Yielding, FileYields
<1>3. ReadLine \/ UNCHANGED <<line, opt, garbled>>
  BY SMT DEF Next, ParseArgs, CloseFile, ParseTransport, Usage, Lookup, ParseHandlerArgs,
     CheckDirect, Open, CallSimple, CallOther, CallChannel, ChannelStep, ChannelReturns,
     Close, vars, mvars
<1> QED BY <1>1, <1>2, <1>3

\* Without -c, a configuration file leaves the command line's choices alone
\* (config_file.c:22).
THEOREM CommandLinePrevails == Spec => []FileYields
<1>1. Yielding => FileYields
  BY DEF Yielding
<1> QED BY YieldingInit, YieldingStep, <1>1, PTL DEF Spec

-------------------------------------------------------------------------------
(* channel.                                                                    *)

\* As long as no query was refused, the response buffer is as long as it was made.
Owned ==
  /\ body \in Channel!QueryNames \cup {Channel!Junk}
  /\ printed \in [Channel!QueryNames -> Channel!QueryNames \cup {Channel!Junk, None}]
  /\ unanswered \subseteq Channel!QueryNames
  /\ ~refused => /\ room = "whole"
                 /\ \A q \in Channel!QueryNames : printed[q] \in {None, q} \/ q \in unanswered

LEMMA OwnedInit == Init => Owned
BY SMT DEF Init, Owned, Channel!Idle, Channel!None, None

\* How a query comes back, and what becomes of the buffer.
ComesBack(q, status) ==
  \/ status = 0 /\ Channel!Answered(q) /\ UNCHANGED <<refused, unanswered>>
  \/ status = 1 /\ Channel!RefusedAnswer /\ refused' = TRUE /\ UNCHANGED unanswered
  \/ status = -1 /\ UNCHANGED <<body, room, refused, unanswered>>
  \/ unanswered' = unanswered \cup {q} /\ UNCHANGED <<body, room, refused>>
  \/ Channel!PartsAnswered /\ refused' = TRUE /\ UNCHANGED unanswered

LEMMA QueryOwned ==
  ASSUME Owned, NEW q \in Channel!QueryNames, Channel!Query(q)
  PROVE  Owned'
<1> USE DEF Owned
<1>1. PICK status \in {0, 1, -1} : ComesBack(q, status) /\ Channel!Show(q, status)
  BY SMT DEF Channel!Query, ComesBack
<1>2. \/ UNCHANGED printed
      \/ status # -1 /\ printed' = [printed EXCEPT ![q] = body']
  BY <1>1, SMT DEF Channel!Show
<1>3. CASE status = 0 /\ Channel!Answered(q) /\ UNCHANGED <<refused, unanswered>>
  BY <1>2, <1>3, SMT DEF Channel!Answered
<1>4. CASE status = 1 /\ Channel!RefusedAnswer /\ refused' = TRUE /\ UNCHANGED unanswered
  BY <1>2, <1>4, SMT DEF Channel!RefusedAnswer
<1>5. CASE status = -1 /\ UNCHANGED <<body, room, refused, unanswered>>
  BY <1>2, <1>5, SMT
<1>6. CASE unanswered' = unanswered \cup {q} /\ UNCHANGED <<body, room, refused>>
  BY <1>2, <1>6, SMT
<1>7. CASE Channel!PartsAnswered /\ refused' = TRUE /\ UNCHANGED unanswered
  BY <1>2, <1>7, SMT DEF Channel!PartsAnswered
<1> QED BY <1>1, <1>3, <1>4, <1>5, <1>6, <1>7, Zenon DEF ComesBack

LEMMA OwnedStep == Owned /\ [Next]_vars => Owned'
<1> SUFFICES ASSUME Owned, [Next]_vars PROVE Owned'
  OBVIOUS
<1>1. CASE \E q \in Channel!QueryNames : Channel!Query(q)
  BY <1>1, QueryOwned
<1>2. CASE UNCHANGED <<body, room, printed, refused, unanswered>>
  BY <1>2, SMT DEF Owned
<1>3. \/ \E q \in Channel!QueryNames : Channel!Query(q)
      \/ UNCHANGED <<body, room, printed, refused, unanswered>>
  BY SMT DEF Next, ParseArgs, ReadLine, CloseFile, ParseTransport, Usage, Lookup,
     ParseHandlerArgs, CheckDirect, Open, CallSimple, CallOther, CallChannel, ChannelStep,
     ChannelReturns, Close, vars, cvars, Channel!Begin, Channel!Step, Channel!SetChannel
<1> QED BY <1>1, <1>2, <1>3

\* What `channel` prints is what it was asked for, as long as no query is refused, and but
\* for queries for which send returned 0 without an answer (channel.c:189).
THEOREM ChannelsOwned == Spec => []OwnChannels
<1>1. Owned => OwnChannels
  BY SMT DEF Owned, OwnChannels, Channel!OwnUnlessRefused, Channel!None, None
<1> QED BY OwnedInit, OwnedStep, <1>1, PTL DEF Spec

-------------------------------------------------------------------------------
(* Types.                                                                      *)

\* The steps of main for which a transport has been chosen.
Chosen == {"lookup", "parse", "direct", "open", "call", "channel", "close"}

Typed ==
  /\ TypeOK
  /\ line.trans \in Transports \cup {None} /\ line.iface \in {None, "line"}
  /\ opt = [trans |-> opt.trans, iface |-> opt.iface, cfg |-> opt.cfg]
  /\ opt.cfg \in Seq({"line", "file"}) /\ Len(opt.cfg) <= read + 1
  /\ pc \in Chosen => transport \in Transports
  /\ opts \in [set : BOOLEAN, all : BOOLEAN]
  /\ query \in Channel!QueryNames \cup {"idle", "set", "done"}
  /\ room \in {"whole", "header"} /\ refused \in BOOLEAN

\* A sequence within the bound.
LEMMA Bounded ==
  ASSUME NEW S, NEW n \in Nat, NEW s \in Seq(S), Len(s) <= n
  PROVE  s \in BoundedSeq(S, n)
<1>1. s \in [1..Len(s) -> S] /\ Len(s) \in 0..n
  OBVIOUS
<1>. QED  BY <1>1 DEF BoundedSeq, SeqOf

LEMMA TypedInit == Init => Typed
<1> SUFFICES ASSUME Init PROVE Typed
  OBVIOUS
<1>1. /\ line.trans \in Transports \cup {None} /\ line.iface \in {None, "line"}
      /\ line.cfg \in {<<>>, <<"line">>}
      /\ opt = [trans |-> line.trans, iface |-> line.iface, cfg |-> line.cfg]
      /\ pc = "args" /\ read = 0
  BY SMT DEF Init
<1>2. line.cfg \in Seq({"line", "file"}) /\ Len(line.cfg) <= 1
  <2>1. /\ <<>> \in Seq({"line", "file"}) /\ Len(<<>>) = 0
        /\ <<"line">> \in Seq({"line", "file"}) /\ Len(<<"line">>) = 1
    OBVIOUS
  <2>2. CASE line.cfg = <<>>
    BY <2>1, <2>2
  <2>3. CASE line.cfg = <<"line">>
    <3> DEFINE cfg == line.cfg
    <3>1. cfg = <<"line">>
      BY <2>3
    <3> HIDE DEF cfg
    <3>2. cfg \in Seq({"line", "file"}) /\ Len(cfg) <= 1
      BY <2>1, <3>1
    <3>. QED  BY <3>2 DEF cfg
  <2>. QED  BY <1>1, <2>2, <2>3
<1>3. opt.cfg \in BoundedSeq({"line", "file"}, MaxLines + 1)
  BY <1>1, <1>2, MaxLinesAssumption, Bounded
<1>4. /\ opt.trans \in Transports \cup {None, "unknown"}
      /\ opt.iface \in {None, "line", "file", "unknown"}
  BY <1>1
<1>5. /\ read \in 0..MaxLines /\ garbled \in BOOLEAN
      /\ transport \in Transports \cup {None} /\ state \in {"none", "parsed", "open", "gone"}
      /\ command \in Names \cup {None} /\ used \subseteq {"none", "parsed", "open", "gone"}
      /\ sent \in {None, "failed", "accepted", "unanswered"} /\ helped \in BOOLEAN
      /\ ret \in Returns
  <2>1. read \in 0..MaxLines
    BY <1>1, MaxLinesAssumption
  <2>2. /\ garbled = FALSE /\ transport = None /\ state = "none" /\ command = None /\ used = {}
        /\ sent = None /\ helped = FALSE /\ ret = 0
    BY Zenon DEF Init
  <2>. QED  BY <2>1, <2>2 DEF Returns
<1>6. /\ opts \in [set : BOOLEAN, all : BOOLEAN] /\ query = "idle"
      /\ room = "whole" /\ refused \in BOOLEAN
  BY DEF Init, Channel!Idle
<1>7. TypeOK
  BY <1>1, <1>3, <1>4, <1>5 DEF TypeOK
<1>. QED  BY <1>1, <1>2, <1>6, <1>7 DEF Typed, Chosen

\* A step that leaves the options, the table of lines and the channel command alone.
LEMMA TypedOtherwise ==
  ASSUME Typed, UNCHANGED <<line, opt, read, garbled, cvars>>,
         pc' \in {"args", "file", "transport", "usage", "exit"} \cup (Chosen \ {"channel"}),
         pc' \in Chosen => transport' \in Transports,
         transport' \in Transports \cup {None},
         state' \in {"none", "parsed", "open", "gone"}, command' \in Names \cup {None},
         used' \subseteq {"none", "parsed", "open", "gone"},
         sent' \in {None, "failed", "accepted", "unanswered"}, helped' \in BOOLEAN, ret' \in Codes
  PROVE  Typed'
BY DEF Typed, TypeOK, cvars, Codes, Chosen

LEMMA ReadTyped ==
  ASSUME Typed, ReadLine
  PROVE  Typed'
<1>0. /\ pc = "file" /\ read < MaxLines /\ read' = read + 1 /\ read \in 0..MaxLines
      /\ UNCHANGED <<line, transport, state, command, used, sent, helped, cvars>>
  BY DEF ReadLine, Typed, TypeOK
<1>1. /\ opt'.trans \in Transports \cup {None, "unknown"}
      /\ opt'.iface \in {None, "line", "file", "unknown"}
      /\ opt' = [trans |-> opt'.trans, iface |-> opt'.iface, cfg |-> opt'.cfg]
      /\ opt'.cfg \in {opt.cfg, Append(opt.cfg, "file")}
      /\ garbled' \in BOOLEAN /\ pc' \in {"file", "exit"} /\ ret' \in {ret, -1}
  <2>0. /\ opt.trans \in Transports \cup {None, "unknown"}
        /\ opt.iface \in {None, "line", "file", "unknown"} /\ garbled \in BOOLEAN
        /\ opt = [trans |-> opt.trans, iface |-> opt.iface, cfg |-> opt.cfg]
    BY DEF Typed, TypeOK
  <2>1. CASE Passthrough("trans", Transports \cup {"unknown"})
    BY <1>0, <2>0, <2>1, SMT DEF Passthrough, Leave
  <2>2. CASE Passthrough("iface", {"file"})
    BY <1>0, <2>0, <2>2, SMT DEF Passthrough, Leave
  <2>3. CASE Option
    <3>1. CASE UNCHANGED <<opt, garbled>>
      BY <1>0, <2>0, <2>3, <3>1, SMT DEF Option, Leave
    <3>2. CASE ~UNCHANGED <<opt, garbled>>
      <4>1. PICK over :
              /\ opt' = [trans |-> IF "trans" \in over /\ line.trans # None THEN "unknown"
                                                                          ELSE opt.trans,
                         iface |-> IF "iface" \in over /\ line.iface # None THEN "unknown"
                                                                          ELSE opt.iface,
                         cfg   |-> Append(opt.cfg, "file")]
              /\ garbled' = (garbled \/ "command" \in over)
              /\ UNCHANGED <<pc, ret>>
        BY <2>3, <3>2, Zenon DEF Option
      <4>. QED  BY <1>0, <2>0, <4>1, SMT
    <3>. QED  BY <3>1, <3>2
  <2>. QED  BY <2>1, <2>2, <2>3 DEF ReadLine
<1>2. opt'.cfg \in Seq({"line", "file"}) /\ Len(opt'.cfg) <= read' + 1
  BY <1>0, <1>1 DEF Typed
<1>3. opt'.cfg \in BoundedSeq({"line", "file"}, MaxLines + 1)
  BY <1>0, <1>2, MaxLinesAssumption, Bounded
<1>4. read' \in 0..MaxLines
  BY <1>0, MaxLinesAssumption
<1>5. TypeOK'
  BY <1>0, <1>1, <1>3, <1>4 DEF Typed, TypeOK
<1>. QED  BY <1>0, <1>1, <1>2, <1>5 DEF Typed, cvars, Chosen

LEMMA TypedStep == Typed /\ OpenInv /\ Owned /\ [Next]_vars => Typed'
<1> SUFFICES ASSUME Typed, OpenInv, Owned, [Next]_vars PROVE Typed'
  OBVIOUS
<1>0. /\ pc \in {"args", "file", "transport", "usage", "exit"} \cup Chosen
      /\ pc \in Chosen => transport \in Transports
      /\ transport \in Transports \cup {None}
      /\ state \in {"none", "parsed", "open", "gone"} /\ command \in Names \cup {None}
      /\ used \subseteq {"none", "parsed", "open", "gone"}
      /\ sent \in {None, "failed", "accepted", "unanswered"} /\ helped \in BOOLEAN /\ ret \in Codes
      /\ {0, 1, 2, 4, -1, -4, -12, -19} \subseteq Codes /\ Returns \subseteq Codes
  BY DEF Typed, TypeOK, Chosen, Codes, Returns
<1> USE DEF Goto, Leave, Finish, mvars
<1>1. CASE ParseArgs
  <2>1. /\ pc' \in {"transport", "file", "exit"} /\ ret' \in {ret, 0, 1} /\ helped' \in BOOLEAN
        /\ UNCHANGED <<line, opt, read, garbled, transport, state, command, used, sent, cvars>>
    BY <1>0, <1>1 DEF ParseArgs
  <2>. QED  BY <1>0, <2>1, TypedOtherwise DEF Chosen
<1>2. CASE ReadLine
  BY <1>2, ReadTyped
<1>3. CASE CloseFile
  BY <1>0, <1>3, TypedOtherwise, SMT DEF CloseFile, Chosen
<1>4. CASE ParseTransport
  <2>1. UNCHANGED <<line, opt, read, garbled, command, used, sent, cvars>>
    BY <1>4 DEF ParseTransport
  <2>2. /\ transport' \in Transports \cup {None} /\ state' \in {state, "parsed"}
        /\ helped' \in BOOLEAN
    BY <1>0, <1>4 DEF ParseTransport
  <2>3. /\ pc' \in {"usage", "lookup", "exit"} /\ ret' \in {-1, 0, -19, -12, 2}
        /\ pc' = "lookup" => transport' \in Transports
    <3> DEFINE t == IF opt.trans = None THEN Head(Built) ELSE opt.trans
    <3>1. CASE t \notin Transports /\ Parsed(-19)
      BY <3>1, SMT DEF Parsed
    <3>2. CASE t \in Transports /\ Parsed(-12)
      BY <3>2, SMT DEF Parsed
    <3>3. CASE t \in Transports /\ transport' = t /\ \E r \in Config(t) : Parsed(r)
      <4>1. Config(t) \subseteq {0, 2, -12}
        BY <3>3, ConfigCodes
      <4>. QED  BY <3>3, <4>1, SMT DEF Parsed
    <3>4. CASE Leave(0)
      BY <3>4
    <3>. QED  BY <1>4, <3>1, <3>2, <3>3, <3>4, SMT DEF ParseTransport
  <2>. QED  BY <1>0, <2>1, <2>2, <2>3, TypedOtherwise DEF Chosen, Codes
<1>5. CASE Usage
  <2>1. /\ pc' = "exit" /\ ret' = ret /\ used' \subseteq used \cup {state}
        /\ UNCHANGED <<line, opt, read, garbled, transport, state, command, sent, helped, cvars>>
    BY <1>5 DEF Usage
  <2>. QED  BY <1>0, <2>1, TypedOtherwise DEF Chosen
<1>6. CASE Lookup
  BY <1>0, <1>6, TypedOtherwise, SMT DEF Lookup, Chosen
<1>7. CASE ParseHandlerArgs
  <2>1. /\ pc' \in {"direct", "exit"} /\ ret' \in {ret, 0, 1} /\ helped' \in BOOLEAN
        /\ pc = "parse"
        /\ UNCHANGED <<line, opt, read, garbled, transport, state, command, used, sent, cvars>>
    BY <1>0, <1>7 DEF ParseHandlerArgs
  <2>. QED  BY <1>0, <2>1, TypedOtherwise DEF Chosen
<1>8. CASE CheckDirect
  BY <1>0, <1>8, TypedOtherwise, SMT DEF CheckDirect, Chosen
<1>9. CASE Open
  BY <1>0, <1>9, TypedOtherwise, SMT DEF Open, Chosen
<1>10. CASE CallSimple
  <2>1. /\ pc = "call" /\ command \in DOMAIN Simple /\ Call(Simple[command])
        /\ UNCHANGED <<line, opt, read, garbled, transport, state, command, cvars>>
    BY <1>10 DEF CallSimple
  <2>2. Coded(Simple[command])
    BY <2>1, TableCoded
  <2>3. /\ pc' = "close" /\ ret' \in Codes /\ helped' \in BOOLEAN
        /\ used' \in {used, used \cup {state}} /\ sent' \in {sent, "accepted", "failed", "unanswered"}
    <3> DEFINE h == Simple[command]
    <3>1. Call(h) /\ Coded(h)
      BY <2>1, <2>2
    <3> HIDE DEF h
    <3>2. PICK argc \in 1..MaxArgc :
            \/ argc \in h.help /\ Finish(0) /\ helped' = (argc = 1) /\ UNCHANGED <<used, sent>>
            \/ /\ used' = used \cup {state} /\ UNCHANGED helped
               /\ \/ \E r \in h.wrong : Finish(r) /\ UNCHANGED sent
                  \/ Finish(h.nomem) /\ UNCHANGED sent
                  \/ Send(h)
      BY <3>1, SMT DEF Call
    <3>3. h.wrong \subseteq Codes /\ h.nomem \in Codes /\ h.refusal \subseteq Codes
      BY <3>1 DEF Coded
    <3>4. CASE Send(h) /\ used' = used \cup {state} /\ UNCHANGED helped
      <4>1. /\ sent' \in {"accepted", "failed", "unanswered"}
            /\ \E r \in Codes : Finish(r)
        BY <1>0, <3>3, <3>4 DEF Send
      <4>. QED  BY <1>0, <3>4, <4>1
    <3>5. CASE Finish(0) /\ helped' = (argc = 1) /\ UNCHANGED <<used, sent>>
      BY <1>0, <3>5
    <3>6. CASE /\ used' = used \cup {state} /\ UNCHANGED <<helped, sent>>
               /\ (\E r \in h.wrong : Finish(r)) \/ Finish(h.nomem)
      BY <1>0, <3>3, <3>6
    <3>. QED  BY <3>2, <3>4, <3>5, <3>6, Zenon
  <2>4. used' \subseteq {"none", "parsed", "open", "gone"}
    BY <1>0, <2>3
  <2>. QED  BY <1>0, <2>1, <2>3, <2>4, TypedOtherwise DEF Chosen
<1>11. CASE CallOther
  BY <1>0, <1>11, TypedOtherwise, SMT DEF CallOther, Chosen
<1>12. CASE CallChannel
  <2>1. /\ pc = "call" /\ pc' = "channel" /\ used' = used \cup {state}
        /\ opts' \in [set : BOOLEAN, all : BOOLEAN] /\ query' \in {"set", "full", "done"}
        /\ ret' = -1
        /\ UNCHANGED <<line, opt, read, garbled, state, command, sent, helped, transport, body,
                       room, printed, refused, unanswered>>
    BY <1>12, SMT DEF CallChannel, Channel!Begin
  <2>2. Channel!TypeOK'
    BY <1>0, <2>1, TransportNames DEF Typed, Owned, Channel!TypeOK, Channel!Transports, Chosen,
       Channel!QueryNames, Channel!Queries, Channel!None, None
  <2>. QED
    BY <1>0, <2>1, <2>2 DEF Typed, TypeOK, Chosen, Channel!QueryNames, Channel!Queries, Codes
<1>13. CASE ChannelStep
  <2>1. /\ pc = "channel" /\ Channel!Step
        /\ UNCHANGED <<pc, line, opt, read, garbled, state, command, used, sent, helped>>
    BY <1>13 DEF ChannelStep
  <2>2. /\ UNCHANGED <<transport, opts>> /\ ret' \in {0, 1, -1}
        /\ query' \in Channel!QueryNames \cup {"idle", "set", "done"}
        /\ room' \in {"whole", "header"} /\ refused' \in BOOLEAN /\ Owned'
    <3>1. CASE Channel!SetChannel
      BY <3>1 DEF Channel!SetChannel, Channel!QueryNames, Channel!Queries, Typed, Owned
    <3>2. ASSUME NEW q \in Channel!QueryNames, Channel!Query(q)
          PROVE  /\ UNCHANGED <<transport, opts>> /\ ret' \in {0, 1, -1}
                 /\ query' \in Channel!QueryNames \cup {"idle", "set", "done"}
                 /\ room' \in {"whole", "header"} /\ refused' \in BOOLEAN /\ Owned'
      <4>1. PICK status \in {0, 1, -1} :
              ComesBack(q, status) /\ ret' = status /\ Channel!Show(q, status)
        BY <3>2, SMT DEF Channel!Query, ComesBack
      <4>2. room \in {"whole", "header"} /\ refused \in BOOLEAN
        BY DEF Typed
      <4>3. room' \in {"whole", "header"} /\ refused' \in BOOLEAN
        BY <4>1, <4>2 DEF ComesBack, Channel!Answered, Channel!RefusedAnswer, Channel!PartsAnswered
      <4>4. query' \in {"done", Channel!After(q)}
        BY <4>1 DEF Channel!Show
      <4>5. q \in {"full", "dtim", "current"}
        BY DEF Channel!QueryNames, Channel!Queries
      <4>6. Channel!After(q) \in {"dtim", "current", "done"}
        BY <4>5 DEF Channel!After
      <4>7. query' \in Channel!QueryNames \cup {"idle", "set", "done"}
        BY <4>4, <4>6 DEF Channel!QueryNames, Channel!Queries
      <4>8. UNCHANGED <<transport, opts>>
        BY <3>2 DEF Channel!Query
      <4>. QED  BY <3>2, <4>1, <4>3, <4>7, <4>8, QueryOwned
    <3>. QED  BY <2>1, <3>1, <3>2 DEF Channel!Step
  <2>3. Channel!TypeOK'
    BY <1>0, <2>1, <2>2, TransportNames DEF Typed, Owned, Channel!TypeOK, Channel!Transports, Chosen,
       Channel!None, None
  <2>. QED
    BY <1>0, <2>1, <2>2, <2>3 DEF Typed, TypeOK, Chosen, Codes
<1>14. CASE ChannelReturns
  BY <1>0, <1>14, TypedOtherwise, SMT DEF ChannelReturns, Chosen
<1>15. CASE Close
  BY <1>0, <1>15, TypedOtherwise, SMT DEF Close, Chosen
<1>16. CASE UNCHANGED vars
  BY <1>16 DEF vars, mvars, cvars, Typed, TypeOK, Channel!TypeOK
<1> QED
  BY <1>1, <1>2, <1>3, <1>4, <1>5, <1>6, <1>7, <1>8, <1>9, <1>10, <1>11, <1>12, <1>13,
     <1>14, <1>15, <1>16 DEF Next

\* Every variable of main and of `channel` keeps to its type: what is returned is one
\* of the values that ExitStatus maps, whatever the handlers and the file do.
THEOREM TypeCorrect == Spec => []TypeOK
<1>1. Typed => TypeOK
  BY DEF Typed
<1>. QED
  BY <1>1, TypedInit, TypedStep, OpenInit, OpenStep, OwnedInit, OwnedStep, PTL DEF Spec

-------------------------------------------------------------------------------
(* standby.  Its processes follow one another, whatever main makes of them.    *)

CONSTANTS Stores, Enters, Bare, Configs, Channels, NoFilter, Parallel

VARIABLES steps, held, session, tuned, setter, unheard, asleep, filter, config

Session == INSTANCE Standby WITH pc <- steps

Procs == Session!Procs

\* The steps of a process that has started and not ended.
Midway == {"query", "open", "close", "load", "channel", "enter", "filter", "config"}

\* One process runs at a time, and before it sends the firmware to sleep it has tuned it.
Prepared ==
  /\ \A p, q \in Procs : steps[p] \in Midway /\ steps[q] \in Midway => p = q
  /\ \A p \in Enters \ unheard : steps[p] = "enter" => setter = p /\ tuned = held[p]

\* What a process may do next, whatever its subcommand.
SessionStep(p) ==
  /\ steps' \in [Procs -> Midway \cup {"start", "done", "killed"}]
  /\ \A q \in Procs \ {p} : steps'[q] = steps[q]

LEMMA SessionGoto ==
  ASSUME Session!TypeOK, NEW p \in Procs, NEW s \in Midway \cup {"done", "killed"},
         Session!Goto(p, s)
  PROVE  SessionStep(p) /\ steps'[p] = s
BY SMT DEF Session!TypeOK, Session!Goto, SessionStep, Midway, Procs, Session!None

LEMMA SessionReturn ==
  ASSUME Session!TypeOK, NEW p \in Procs, Session!Return(p)
  PROVE  SessionStep(p) /\ steps'[p] = "done"
BY SessionGoto DEF Session!Return

\* A process is of a subcommand.
Subcommands ==
  /\ \A p \in Procs : steps[p] = "enter" => p \in Enters \cup Bare
  /\ \A p \in Procs : steps[p] = "channel" => p \in Enters
  /\ \A p \in Procs : steps[p] = "load" => p \in Enters
  /\ \A p \in Procs : steps[p] \in {"filter", "config"} => p \in Configs

SessionInv == Session!TypeOK /\ Subcommands /\ Prepared

LEMMA EntersRun == Enters \subseteq Procs
BY DEF Procs, Session!Procs

LEMMA SessionInit == Session!Init => SessionInv
<1> USE DEF Session!Init, Procs, Session!None, Session!Absent, Session!Junk
<1>1. Session!Init => Session!TypeOK
  BY SMT DEF Session!TypeOK
<1>2. Session!Init => Subcommands /\ Prepared
  BY EntersRun, SMT DEF Subcommands, Prepared, Midway
<1>. QED  BY <1>1, <1>2 DEF SessionInv

\* A process that starts goes to the first step of its subcommand.
LEMMA SessionStart ==
  ASSUME Session!StandbyAssumption, ~Parallel, SessionInv, NEW p \in Procs, Session!Start(p)
  PROVE  SessionInv'
<1> DEFINE first == CASE p \in Stores -> "query" [] p \in Enters -> "load"
                       [] p \in Bare -> "enter" [] p \in Configs -> "filter"
<1>1. /\ p \in Stores \cup Enters \cup Bare \cup Configs
      /\ Stores \cap Enters = {} /\ Bare \cap (Stores \cup Enters) = {}
      /\ Configs \cap (Stores \cup Enters \cup Bare) = {}
  BY DEF Procs, Session!Procs, Session!StandbyAssumption
<1>2. /\ first \in {"query", "load", "enter", "filter"}
      /\ first = "load" => p \in Enters
      /\ first = "enter" => p \in Bare \ Enters
      /\ first = "filter" => p \in Configs
  <2>1. CASE p \in Stores   BY <1>1, <2>1
  <2>2. CASE p \in Enters   BY <1>1, <2>2
  <2>3. CASE p \in Bare     BY <1>1, <2>3
  <2>4. CASE p \in Configs  BY <1>1, <2>4
  <2>. QED  BY <1>1, <2>1, <2>2, <2>3, <2>4
<1>3. /\ Session!Goto(p, first) /\ UNCHANGED <<held, session, tuned, setter, unheard, asleep, filter, config>>
      /\ \A q \in Procs : steps[q] \in {"start", "done", "killed"}
  <2>1. Session!Running = {}
    BY DEF Session!Start
  <2>. QED  BY <2>1 DEF Session!Start, Session!firmware, Session!Running, Procs
<1> HIDE DEF first
<1>4. SessionStep(p) /\ steps'[p] = first
  BY <1>2, <1>3, SessionGoto DEF Midway, SessionInv
<1>5. Session!TypeOK'
  BY <1>3, <1>4 DEF SessionStep, SessionInv, Session!TypeOK, Midway, Procs
<1>6. Subcommands'
  BY <1>2, <1>3, <1>4 DEF SessionStep, Subcommands
<1>7. Prepared'
  BY <1>2, <1>3, <1>4, EntersRun DEF SessionStep, Prepared, Midway
<1>. QED  BY <1>5, <1>6, <1>7 DEF SessionInv

\* What every other step of a process leaves.
LEMMA SessionMoves ==
  ASSUME SessionInv, NEW p \in Procs, steps[p] \in Midway, SessionStep(p),
         steps'[p] \in (Midway \ {"load", "filter"}) \cup {"done", "killed"},
         steps'[p] = "channel" => steps[p] = "load",
         steps'[p] = "enter" => steps[p] = "channel",
         steps'[p] = "enter" /\ p \notin unheard' => setter' = p /\ tuned' = held'[p],
         steps'[p] = "config" => steps[p] = "filter",
         held' \in [Procs -> Channels \cup {"junk"}],
         session' \in {"absent", "empty", "junk"} \cup Channels,
         tuned' \in Channels \cup {"junk"}, setter' \in Enters \cup {"none"},
         unheard' \subseteq Enters, asleep' \in Enters \cup Bare \cup {"none"},
         filter' \in Configs \cup {"none"}, config' \in Configs \cup {"none"}
  PROVE  SessionInv'
<1>1. Session!TypeOK'
  BY DEF SessionStep, Session!TypeOK, Midway, Procs, Session!Absent, Session!Empty,
         Session!Junk, Session!None
<1>2. \A q \in Procs : steps'[q] = steps[q] \/ q = p
  BY DEF SessionStep
<1>3. Subcommands'
  BY <1>2 DEF Subcommands, SessionInv, Midway
<1>4. \A q \in Procs : steps'[q] \in Midway => q = p
  BY <1>2 DEF SessionInv, Prepared
<1>5. Prepared'
  BY <1>4, EntersRun DEF Prepared, Midway
<1>. QED  BY <1>1, <1>3, <1>5 DEF SessionInv

\* The types, as they are in a process's step.
LEMMA SessionTypes ==
  ASSUME SessionInv
  PROVE  /\ held \in [Procs -> Channels \cup {"junk"}]
         /\ session \in {"absent", "empty", "junk"} \cup Channels
         /\ tuned \in Channels \cup {"junk"} /\ setter \in Enters \cup {"none"}
         /\ unheard \subseteq Enters /\ asleep \in Enters \cup Bare \cup {"none"}
         /\ filter \in Configs \cup {"none"} /\ config \in Configs \cup {"none"}
BY DEF SessionInv, Session!TypeOK, Procs, Session!Absent, Session!Empty, Session!Junk,
       Session!None

LEMMA SessionNext ==
  ASSUME Session!StandbyAssumption, ~Parallel, SessionInv, [Session!Next]_(Session!vars)
  PROVE  SessionInv'
<1> USE DEF Session!firmware, Session!Accepted, Session!Refused, Session!Lost, Session!Empty,
            Session!Absent
<1>0. Session!TypeOK
  BY DEF SessionInv
<1>1. ASSUME NEW p \in Procs, Session!Query(p) PROVE SessionInv'
  <2>1. \/ Session!Goto(p, "open") \/ Session!Return(p)
    BY <1>1 DEF Session!Query
  <2>2. SessionStep(p) /\ steps'[p] \in {"open", "done"}
    BY <1>0, <2>1, SessionGoto, SessionReturn DEF Midway
  <2>3. steps[p] = "query" /\ held' \in [Procs -> Channels \cup {"junk"}]
    BY <1>1, SessionTypes DEF Session!Query
  <2>4. UNCHANGED <<session, tuned, setter, unheard, asleep, filter, config>>
    BY <1>1 DEF Session!Query
  <2>. QED  BY <2>2, <2>3, <2>4, SessionTypes, SessionMoves DEF Midway
<1>2. ASSUME NEW p \in Procs, Session!Open(p) PROVE SessionInv'
  <2>1. \/ Session!Goto(p, "close") \/ Session!Return(p)
    BY <1>2 DEF Session!Open
  <2>2. SessionStep(p) /\ steps'[p] \in {"close", "done"}
    BY <1>0, <2>1, SessionGoto, SessionReturn DEF Midway
  <2>3. /\ steps[p] = "open" /\ session' \in {session, "empty"}
        /\ UNCHANGED <<held, tuned, setter, unheard, asleep, filter, config>>
    BY <1>2 DEF Session!Open
  <2>. QED  BY <2>2, <2>3, SessionTypes, SessionMoves DEF Midway
<1>3. ASSUME NEW p \in Procs, Session!Close(p) PROVE SessionInv'
  <2>1. Session!Return(p)
    BY <1>3 DEF Session!Close
  <2>2. SessionStep(p) /\ steps'[p] = "done"
    BY <1>0, <2>1, SessionReturn
  <2>3. /\ steps[p] = "close" /\ session' \in {session, held[p]}
        /\ UNCHANGED <<held, tuned, setter, unheard, asleep, filter, config>>
    BY <1>3 DEF Session!Close
  <2>. QED  BY <2>2, <2>3, SessionTypes, SessionMoves DEF Midway
<1>4. ASSUME NEW p \in Procs, Session!Load(p) PROVE SessionInv'
  <2>1. \/ Session!Goto(p, "channel") \/ Session!Return(p)
    BY <1>4 DEF Session!Load
  <2>2. SessionStep(p) /\ steps'[p] \in {"channel", "done"}
    BY <1>0, <2>1, SessionGoto, SessionReturn DEF Midway
  <2>3. /\ steps[p] = "load" /\ held' \in [Procs -> Channels \cup {"junk"}]
    BY <1>4, SessionTypes DEF Session!Load
  <2>4. UNCHANGED <<session, tuned, setter, unheard, asleep, filter, config>>
    BY <1>4 DEF Session!Load
  <2>. QED  BY <2>2, <2>3, <2>4, SessionTypes, SessionMoves DEF Midway
<1>5. ASSUME NEW p \in Procs, Session!SetChannel(p) PROVE SessionInv'
  <2>1. PICK r \in {0, 1, -1}, answered \in BOOLEAN :
          /\ \/ tuned' = held[p] /\ setter' = p
             \/ ~(answered /\ r = 0) /\ UNCHANGED <<tuned, setter>>
          /\ unheard' = IF answered \/ r # 0 THEN unheard ELSE unheard \cup {p}
          /\ IF r # 0 THEN Session!Return(p) ELSE Session!Goto(p, "enter")
    BY <1>5 DEF Session!SetChannel, Session!Stops
  <2>2. SessionStep(p) /\ steps'[p] \in {"enter", "done"} /\ (steps'[p] = "enter" => r = 0)
    <3>1. CASE r = 0   BY <1>0, <2>1, <3>1, SessionGoto DEF Midway
    <3>2. CASE r # 0   BY <1>0, <2>1, <3>2, SessionReturn DEF Midway
    <3>. QED  BY <3>1, <3>2
  <2>3. steps[p] = "channel" /\ p \in Enters /\ UNCHANGED <<held, session, asleep, filter, config>>
    BY <1>5 DEF Session!SetChannel, SessionInv, Subcommands
  <2>4. /\ tuned' \in {tuned, held[p]} /\ setter' \in {setter, p}
        /\ unheard' \in {unheard, unheard \cup {p}}
    BY <2>1
  <2>5. steps'[p] = "enter" /\ p \notin unheard' => setter' = p /\ tuned' = held'[p]
    BY <2>1, <2>2, <2>3
  <2>. QED  BY <2>2, <2>3, <2>4, <2>5, SessionTypes, SessionMoves DEF Midway
<1>6. ASSUME NEW p \in Procs, Session!Enter(p) PROVE SessionInv'
  <2>1. Session!Return(p)
    BY <1>6 DEF Session!Enter
  <2>2. SessionStep(p) /\ steps'[p] = "done"
    BY <1>0, <2>1, SessionReturn
  <2>3. /\ steps[p] = "enter" /\ p \in Enters \cup Bare /\ asleep' \in {asleep, p}
        /\ UNCHANGED <<held, session, tuned, setter, unheard, filter, config>>
    BY <1>6 DEF Session!Enter, SessionInv, Subcommands
  <2>. QED  BY <2>2, <2>3, SessionTypes, SessionMoves DEF Midway
<1>7. ASSUME NEW p \in Procs, Session!SetFilter(p) PROVE SessionInv'
  <2>1. \/ Session!Goto(p, "config") \/ Session!Return(p)
    BY <1>7 DEF Session!SetFilter
  <2>2. SessionStep(p) /\ steps'[p] \in {"config", "done"}
    BY <1>0, <2>1, SessionGoto, SessionReturn DEF Midway
  <2>3. /\ steps[p] = "filter" /\ p \in Configs /\ filter' \in {filter, p}
        /\ UNCHANGED <<held, session, tuned, setter, unheard, asleep, config>>
    BY <1>7 DEF Session!SetFilter, SessionInv, Subcommands
  <2>. QED  BY <2>2, <2>3, SessionTypes, SessionMoves DEF Midway
<1>8. ASSUME NEW p \in Procs, Session!SetConfig(p) PROVE SessionInv'
  <2>1. Session!Return(p)
    BY <1>8 DEF Session!SetConfig
  <2>2. SessionStep(p) /\ steps'[p] = "done"
    BY <1>0, <2>1, SessionReturn
  <2>3. /\ steps[p] = "config" /\ p \in Configs /\ config' \in {config, p}
        /\ UNCHANGED <<held, session, tuned, setter, unheard, asleep, filter>>
    BY <1>8 DEF Session!SetConfig, SessionInv, Subcommands
  <2>. QED  BY <2>2, <2>3, SessionTypes, SessionMoves DEF Midway
<1>9. ASSUME NEW p \in Procs, Session!Kill(p) PROVE SessionInv'
  <2>1. /\ steps[p] \in Midway /\ Session!Goto(p, "killed")
        /\ UNCHANGED <<held, session, tuned, setter, unheard, asleep, filter, config>>
    BY <1>0, <1>9 DEF Session!Kill, Session!Running, Session!TypeOK, Midway, Procs
  <2>2. SessionStep(p) /\ steps'[p] = "killed"
    BY <1>0, <2>1, SessionGoto
  <2>. QED  BY <2>1, <2>2, SessionTypes, SessionMoves
<1>10. CASE UNCHANGED Session!vars
  BY <1>10 DEF Session!vars, SessionInv, Session!TypeOK, Subcommands, Prepared
<1>. QED
  BY <1>1, <1>2, <1>3, <1>4, <1>5, <1>6, <1>7, <1>8, <1>9, <1>10, SessionStart
     DEF Session!Next, Session!Step, Procs

\* Every variable of the standby processes keeps to its type.
THEOREM StandbyTypeCorrect ==
  ASSUME Session!StandbyAssumption, ~Parallel PROVE Session!Spec => []Session!TypeOK
<1>1. SessionInv => Session!TypeOK
  BY DEF SessionInv
<1>. QED  BY <1>1, SessionInit, SessionNext, PTL DEF Session!Spec

\* An `enter` with a directory puts the firmware to sleep on the channel it has itself
\* set, however many processes failed, were killed or set none before it
\* (standby.c:576), unless its SET_CHANNEL came back with 0 and no answer.
THEOREM SleepsWhereTuned ==
  ASSUME Session!StandbyAssumption, ~Parallel
  PROVE  Session!Spec => Session!SleepsOnOwnChannel
<1> DEFINE Tuned == \A p \in Enters \ unheard :
                       asleep' = p /\ asleep # p => setter = p /\ tuned = held[p]
<1>1. SessionInv /\ [Session!Next]_(Session!vars) => [Tuned]_(Session!vars)
  <2> SUFFICES ASSUME SessionInv, Session!Next, NEW p \in Enters \ unheard, asleep' = p, asleep # p
               PROVE  setter = p /\ tuned = held[p]
    OBVIOUS
  <2>1. PICK q \in Procs : Session!Step(q) \/ Session!Kill(q)
    BY DEF Session!Next, Procs
  <2>2. Session!Enter(q)
    BY <2>1 DEF Session!Step, Session!Kill, Session!Start, Session!Query, Session!Open, Session!Close,
                Session!Load, Session!SetChannel, Session!SetFilter, Session!SetConfig, Session!firmware
  <2>3. steps[q] = "enter" /\ asleep' = q
    BY <2>2 DEF Session!Enter
  <2>. QED  BY <2>3 DEF SessionInv, Prepared
<1>. QED
  BY <1>1, SessionInit, SessionNext, PTL DEF Session!Spec, Session!SleepsOnOwnChannel

===============================================================================
