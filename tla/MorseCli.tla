------------------------------- MODULE MorseCli --------------------------------
(***************************************************************************)
(* One run of morse_cli: the options, a configuration file (-f), the       *)
(* choice of a transport, the table of handlers and the exit status        *)
(* (src/morsectrl.c, src/config_file.c, src/transport/transport.c).  The   *)
(* handlers of module Handlers run here, `channel` runs as ChannelInfo has *)
(* it, and the others, which have modules of their own, do as they like.   *)
(***************************************************************************)
EXTENDS Handlers, Sequences, SequencesExt

CONSTANTS
  Built,    \* the transports, in the order they were linked
  MaxLines  \* bound: the lines of a configuration file that say something

None == "none"

ASSUME BuiltAssumption == Built \in Seq({"nl80211", "ftdi_spi", "uart_slip"}) /\ Built # <<>>
ASSUME MaxLinesAssumption == MaxLines \in Nat

VARIABLES
  pc,
  line,      \* what the command line has: [mode, trans, iface, cfg, file]
  opt,       \* what has come of it: [trans, iface, cfg]; cfg names the origin of each option
  read,      \* lines of the configuration file read
  garbled,   \* has the file's text run over the subcommand's name in argv
  transport, \* mors.transport: the name of its ops, or None for NULL
  state,     \* "none", "parsed", "open" or "gone" (ops cleared)
  command,
  used,      \* History: the states of the transport a handler has used it in
  sent,      \* History: the outcome of a handler's command: None, "failed", "accepted" or
             \* "unanswered", when send returned 0 without a response
  helped,    \* History: a help or a version text was what the user asked for
  ret,
  \* ChannelInfo
  opts, query, body, room, printed, refused, unanswered

cvars == <<opts, query, body, room, printed, refused, unanswered>>
mvars == <<line, opt, read, garbled, transport, state, command, used, sent, helped>>
vars  == <<pc, ret, mvars, cvars>>

Channel == INSTANCE ChannelInfo WITH pc <- query

HasDriver(t) == t = "nl80211"
HasReset(t)  == t = "ftdi_spi"

Transports == ToSet(Built)

DriverCommandsSupported == \E t \in Transports : HasDriver(t)

-------------------------------------------------------------------------------
\* -t takes only the names of Built.
Init ==
  /\ pc = "args"
  /\ line \in [mode : {"help", "version", "bad", "command"}, trans : Transports \cup {None},
               iface : {None, "line"}, cfg : {<<>>, <<"line">>}, file : BOOLEAN]
  /\ opt = [trans |-> line.trans, iface |-> line.iface, cfg |-> line.cfg]
  /\ read = 0 /\ garbled = FALSE
  /\ transport = None /\ state = "none"
  /\ command = None /\ used = {} /\ sent = None /\ helped = FALSE
  /\ ret = 0
  /\ Channel!Idle

Goto(p) == pc' = p
Leave(r) == pc' = "exit" /\ ret' = r

\* -h makes the parser return -1, which nobody takes back; -v only counts where the
\* subcommand is missing.
ParseArgs ==
  /\ pc = "args"
  /\ \/ line.mode = "help" /\ Goto("transport") /\ UNCHANGED <<ret, helped>>
     \/ line.mode = "version" /\ Leave(0) /\ helped' = TRUE
     \/ line.mode = "bad" /\ Leave(1) /\ UNCHANGED helped
     \/ /\ line.mode = "command" /\ Goto(IF line.file THEN "file" ELSE "transport")
        /\ UNCHANGED <<ret, helped>>
  /\ UNCHANGED <<line, opt, read, garbled, transport, state, command, used, sent, cvars>>

-------------------------------------------------------------------------------
(* morsectrl_config_file_parse                                                 *)

\* Mutant: `transport` and `interface` lines count whatever the command line has.
Vacant_Never(field) == TRUE
Vacant(field) == opt[field] = None

\* A line without '=' fails.
Passthrough(field, values) ==
  /\ Vacant(field)
  /\ \/ \E v \in values : opt' = [opt EXCEPT ![field] = v] /\ UNCHANGED <<pc, ret>>
     \/ Leave(-1) /\ UNCHANGED opt
  /\ UNCHANGED garbled

\* An option is appended in place.  Where the options are those of the command line, that
\* is in argv, and runs over the strings that follow there: the subcommand follows for
\* certain, but not at once if other options are in between.
Option ==
  /\ opt.trans \in Transports
  /\ \/ /\ \E over \in IF line.cfg = <<>> THEN {{}} ELSE SUBSET {"trans", "iface", "command"} :
             /\ opt' = [trans |-> IF "trans" \in over /\ line.trans # None THEN "unknown"
                                                                         ELSE opt.trans,
                        iface |-> IF "iface" \in over /\ line.iface # None THEN "unknown"
                                                                         ELSE opt.iface,
                        cfg   |-> Append(opt.cfg, "file")]
             /\ garbled' = (garbled \/ "command" \in over)
        /\ UNCHANGED <<pc, ret>>
     \/ Leave(-1) /\ UNCHANGED <<opt, garbled>>   \* too long for the buffer

ReadLine ==
  /\ pc = "file" /\ read < MaxLines
  /\ read' = read + 1
  /\ \/ Passthrough("trans", Transports \cup {"unknown"})
     \/ Passthrough("iface", {"file"})
     \/ Option
  /\ UNCHANGED <<line, transport, state, command, used, sent, helped, cvars>>

\* All the lines are read, or none, because the file cannot be opened.
CloseFile ==
  /\ pc = "file"
  /\ \/ Goto("transport") /\ UNCHANGED ret
     \/ read = 0 /\ Leave(-1)
  /\ UNCHANGED <<mvars, cvars>>

-------------------------------------------------------------------------------
(* morsectrl_transport_parse, and -h                                           *)

\* What the ops' parse makes of the options.  ftdi_spi takes the last value of an option,
\* and exits by itself where one of them asks for help; uart_slip has to have a device,
\* not an empty option, and nl80211 looks at none.
Config(t) == CASE t = "nl80211"   -> {0}
               [] t = "ftdi_spi"  -> IF opt.cfg = <<>> THEN {0} ELSE {0, 2}
               [] t = "uart_slip" -> IF opt.cfg = <<>> THEN {-12} ELSE {0, -12}

\* For -h any transport does, and none as well.
Parsed(r) == IF line.mode = "help" THEN Goto("usage") /\ ret' = -1
             ELSE IF r = 0 THEN Goto("lookup") /\ ret' = 0
             ELSE Leave(r)

ParseTransport ==
  LET t == IF opt.trans = None THEN Head(Built) ELSE opt.trans IN
  /\ pc = "transport"
  /\ \/ t \notin Transports /\ Parsed(-19) /\ UNCHANGED <<transport, state, helped>>
     \/ t \in Transports /\ Parsed(-12) /\ UNCHANGED <<transport, state, helped>>
     \/ /\ t \in Transports
        /\ transport' = t /\ state' = "parsed"
        /\ \/ \E r \in Config(t) : Parsed(r) /\ UNCHANGED helped
           \/ t = "ftdi_spi" /\ opt.cfg # <<>> /\ Leave(0) /\ helped' = TRUE
  /\ UNCHANGED <<line, opt, read, garbled, command, used, sent, cvars>>

\* Every legacy handler of the list is called with argc 0.
Usage ==
  /\ pc = "usage"
  /\ used' = used \cup (IF \E c \in DOMAIN Simple :
                            /\ Direct(c) \/ DriverCommandsSupported
                            /\ Form(c) = "legacy" /\ 0 \notin Simple[c].help
                       THEN {state} ELSE {})
  /\ Leave(ret)
  /\ UNCHANGED <<line, opt, read, garbled, transport, state, command, sent, helped, cvars>>

-------------------------------------------------------------------------------
(* The handler: lookup, arguments, transport, call.                            *)

Lookup ==
  /\ pc = "lookup"
  /\ \/ ~garbled /\ command' \in Names /\ Goto("parse") /\ UNCHANGED ret
     \/ Leave(2) /\ UNCHANGED command
  /\ UNCHANGED <<line, opt, read, garbled, transport, state, used, sent, helped, cvars>>

ParseHandlerArgs ==
  /\ pc = "parse"
  /\ \/ Goto("direct") /\ UNCHANGED <<ret, helped>>
     \/ Form(command) = "argtable" /\ Leave(0) /\ helped' = TRUE
     \/ Form(command) = "argtable" /\ Leave(1) /\ UNCHANGED helped
  /\ UNCHANGED <<line, opt, read, garbled, transport, state, command, used, sent, cvars>>

CheckDirect ==
  /\ pc = "direct"
  /\ IF Direct(command) \/ HasDriver(transport) THEN Goto("open") /\ UNCHANGED ret ELSE Leave(4)
  /\ UNCHANGED <<mvars, cvars>>

Needed(c) == Intf(c) \/ HasReset(transport)

\* A device whose name has an option of the file behind it does not exist.
Open ==
  /\ pc = "open"
  /\ \/ ~Needed(command) /\ Goto("call") /\ UNCHANGED <<ret, state>>
     \/ /\ Needed(command)
        /\ (transport = "uart_slip") => (Len(opt.cfg) = 1)
        /\ state' = "open" /\ Goto("call") /\ UNCHANGED ret
     \/ Needed(command) /\ \E r \in {-4, 2} : Leave(r) /\ UNCHANGED state
  /\ UNCHANGED <<line, opt, read, garbled, transport, command, used, sent, helped, cvars>>

Finish(r) == Goto("close") /\ ret' = r

\* nl80211 returns 0 for an acknowledgement without data and when the command does not fit
\* its message, ftdi_spi when the firmware does not answer in time.
Silent == {"nl80211", "ftdi_spi"}

\* morsectrl_send_command, and what the handler makes of it.  The status of a response that
\* was not filled in is what malloc left there.
Send(h) ==
  \E r \in Returns :
    \/ /\ sent' = IF r = 0 THEN "accepted" ELSE "failed"
       /\ Finish(IF h.flat /\ r # 0 THEN 2 ELSE r)
    \/ r = 0 /\ sent' = "failed" /\ \E c \in h.refusal : Finish(c)
    \/ /\ transport \in Silent /\ sent' = "unanswered"
       /\ \E c \in {IF h.flat /\ r # 0 THEN 2 ELSE r} \cup h.refusal : Finish(c)

Call(h) ==
  \E argc \in 1..MaxArgc :
    \/ argc \in h.help /\ Finish(0) /\ helped' = (argc = 1) /\ UNCHANGED <<used, sent>>
    \/ /\ argc \notin h.help
       /\ used' = used \cup {state} /\ UNCHANGED helped
       /\ \/ \E r \in h.wrong : Finish(r) /\ UNCHANGED sent
          \/ argc \in h.counts /\ Finish(h.nomem) /\ UNCHANGED sent
          \/ argc \in h.counts /\ Send(h)

CallSimple ==
  /\ pc = "call" /\ command \in DOMAIN Simple
  /\ Call(Simple[command])
  /\ UNCHANGED <<line, opt, read, garbled, transport, state, command, cvars>>

\* `reset` uses a transport it can reset the chip with.
CallOther ==
  /\ pc = "call" /\ command \in Others \ {"channel"}
  /\ used' = used \cup (IF Intf(command) \/ HasReset(transport) THEN {state} ELSE {})
  /\ sent' \in {None, "failed", "accepted", "unanswered"}
  /\ \E r \in Returns : Finish(r)
  /\ UNCHANGED <<line, opt, read, garbled, transport, state, command, helped, cvars>>

CallChannel ==
  /\ pc = "call" /\ command = "channel"
  /\ Channel!Begin /\ Goto("channel")
  /\ used' = used \cup {state}
  /\ UNCHANGED <<line, opt, read, garbled, state, command, sent, helped>>

ChannelStep ==
  /\ pc = "channel" /\ query # "done"
  /\ Channel!Step
  /\ UNCHANGED <<pc, line, opt, read, garbled, state, command, used, sent, helped>>

ChannelReturns ==
  /\ pc = "channel" /\ query = "done" /\ Finish(ret)
  /\ UNCHANGED <<mvars, cvars>>

\* Mutant: nothing is closed.
Close_Never == pc = "close" /\ Leave(ret) /\ UNCHANGED <<mvars, cvars>>

\* The deinit clears the ops.
Close ==
  /\ pc = "close"
  /\ state' = IF Intf(command) THEN "gone" ELSE state
  /\ Leave(ret)
  /\ UNCHANGED <<line, opt, read, garbled, transport, command, used, sent, helped, cvars>>

Next ==
  \/ ParseArgs \/ ReadLine \/ CloseFile \/ ParseTransport \/ Usage
  \/ Lookup \/ ParseHandlerArgs \/ CheckDirect \/ Open
  \/ CallSimple \/ CallOther \/ CallChannel \/ ChannelStep \/ ChannelReturns \/ Close

Spec == Init /\ [][Next]_vars

\* Mutant: only negative values are mapped.
ExitStatus_Negative == (IF ret < 0 THEN 2 ELSE ret) % 256

\* What is left of main's result when the process has ended.
ExitStatus == (IF ret < 0 \/ ret > 254 THEN 2 ELSE ret) % 256

-------------------------------------------------------------------------------
\* Every variable keeps to its type.
TypeOK ==
  /\ pc \in {"args", "file", "transport", "usage", "lookup", "parse", "direct", "open", "call",
            "channel", "close", "exit"}
  /\ opt.trans \in Transports \cup {None, "unknown"}
  /\ opt.iface \in {None, "line", "file", "unknown"}
  /\ opt.cfg \in BoundedSeq({"line", "file"}, MaxLines + 1)
  /\ read \in 0..MaxLines /\ garbled \in BOOLEAN
  /\ transport \in Transports \cup {None}
  /\ state \in {"none", "parsed", "open", "gone"}
  /\ command \in Names \cup {None}
  /\ used \subseteq {"none", "parsed", "open", "gone"}
  /\ sent \in {None, "failed", "accepted", "unanswered"} /\ helped \in BOOLEAN
  /\ ret \in Returns \cup {-19, -12, -4, -1, 2, 4, 22}
  /\ (pc = "channel") => Channel!TypeOK

\* Handlers touch the transport only while it is open, those that are called for the usage
\* text, perhaps without any transport, included.
UsedOnlyOpen == used \subseteq {"open"}

\* Whatever the handler, what was opened is closed when the process ends, but for `reset`.
ClosedInTheEnd == (pc = "exit" /\ state = "open") => command = "reset"

\* Commands whose 0 may mean less: see their records in Handlers and their own modules.
Unsure == Others \cup {"arp_periodic_refresh", "dhcpc", "ecsa_info", "vendor_ie"}

\* Scripts may rely on the exit status as far as the transport lets them: 0 is for help
\* that was asked for, for commands the firmware has accepted, whatever it answers, and for
\* those that nl80211 or ftdi_spi takes for answered when they are not; and 255 is left to
\* ssh.  Over a UART 0 does mean that the firmware has accepted the command.
HonestExit ==
  (pc = "exit") =>
    /\ ExitStatus # 255
    /\ (ExitStatus = 0 /\ command \notin Unsure) =>
         \/ helped \/ sent = "accepted"
         \/ sent = "unanswered" /\ transport \in Silent

\* A configuration file does not replace the transport, the interface or the subcommand of
\* a command line that gives no options for the transport.
FileYields ==
  (line.cfg = <<>>) => /\ line.trans \in {None, opt.trans}
                       /\ line.iface \in {None, opt.iface}
                       /\ ~garbled

\* The channels `channel` shows are the ones it was asked for, over the transport chosen, but
\* for queries that were refused, answered in parts or not answered at all.
OwnChannels == (pc = "channel") => Channel!OwnUnlessRefused

===============================================================================
