------------------------------- MODULE Arguments -------------------------------
(***************************************************************************)
(* From the command line to the command: main's table of options           *)
(* (src/morsectrl.c), the table and the checks of `raw` (src/raw.c), `set` *)
(* and `get` (src/params.c) with the conversions of src/utilities.c, and   *)
(* the handlers of Getopt.                                                 *)
(***************************************************************************)
EXTENDS Getopt

CONSTANTS Lines,          \* the command lines
          TransportArgs   \* the names of the transports, as arguments

\* main has a name, argv[0]; no syllable is empty.
ASSUME ArgumentsAssumption ==
  Lines \subseteq Seq(Seq(STRING \ {""})) \ {<<>>}

VARIABLES argv,   \* the command line
          stage,  \* what is done: "main", "sub", "legacy", "options" or "end"
          issued  \* the command that has been sent, if any

gvars == <<avars, argv, stage, issued>>

-------------------------------------------------------------------------------
Help == arg_lit0("h", <<"help">>)

\* main.
MainTable ==
  <<Help,
    arg_lit0("d", <<"debug">>),
    arg_str0("i", <<"interface">>),
    arg_str0("f", <<"con", "fig", "file">>),
    arg_rexn("t", <<"transport">>, TransportArgs, 0, 1),
    arg_str0("c", <<"con", "fig">>),
    arg_lit0("v", <<>>),
    [arg_str1("", <<>>) EXCEPT !.stop = TRUE]>>

Command == 8

\* raw_init.
RawTable ==
  <<Help,
    arg_csi0("s", <<"s", "lot_def">>, 2),
    arg_lit0("x", <<"cross_slot">>),
    arg_csi0("a", <<"aid_group">>, 2),
    arg_int0("t", <<"s", "tart_time">>),
    arg_csi0("b", <<"bcn_spread">>, 2),
    arg_csi0("p", <<"praw">>, 3),
    arg_rexn("", <<>>, {<<"enable">>, <<"disable">>, <<"delete">>}, 1, 1),
    arg_int1("", <<>>)>>

-------------------------------------------------------------------------------
\* Conversions of an int to uint8_t and uint16_t, and its comparison as uint32_t.
U8(n)  == n % 256
U16(n) == n % 65536
Exceeds(n, m) == n < 0 \/ n > m

\* What raw makes of an option: its values on the wire, or that it is refused.
Sends(vs) == [ok |-> TRUE, values |-> vs]
Bad       == [ok |-> FALSE, values |-> <<>>]

SlotDef(v, cross) ==
  LET slots == U8(v[2])
  IN IF slots \in 1..63 /\ ~Exceeds(v[1], slots * 410099) /\ v[1] >= slots * 500
     THEN Sends(<<v[1], slots, cross>>) ELSE Bad

AidGroup(v) ==
  LET from == U16(v[1])
      to   == U16(v[2])
  IN IF from <= to /\ from >= 1 /\ to <= 2007 THEN Sends(<<from, to>>) ELSE Bad

StartTime(v) == IF Exceeds(v, 255 * 2 * 1024) THEN Bad ELSE Sends(<<v>>)

\* The lower bound of the validity is tested on the periodicity.
Praw(v) ==
  IF \/ v[1] \notin 1..255
     \/ v[2] # -1 /\ (v[2] > 255 \/ v[1] < 1)
     \/ v[3] \notin 0..255 \/ v[3] >= v[1]
  THEN Bad
  ELSE Sends(<<v[1], IF v[2] = -1 THEN 255 ELSE U8(v[2]), v[3], IF v[2] = -1 THEN 1 ELSE 0>>)

BcnSpread(v) == Sends(<<U16(v[1]), U16(v[2])>>)

Given(g, i) == g[i] # <<>>

\* The options of raw in a table of values, by the tag they are sent with.
RawOptions(g) ==
  [tag \in {t \in {"SLOT_DEF", "GROUP", "START_TIME", "PRAW", "BCN_SPREAD"} :
              \/ t = "SLOT_DEF" /\ Given(g, 2)
              \/ t = "GROUP" /\ Given(g, 4)
              \/ t = "START_TIME" /\ Given(g, 5)
              \/ t = "PRAW" /\ Given(g, 7)
              \/ t = "BCN_SPREAD" /\ Given(g, 6)} |->
     CASE tag = "SLOT_DEF"   -> SlotDef(g[2][1], Len(g[3]))
       [] tag = "GROUP"      -> AidGroup(g[4][1])
       [] tag = "START_TIME" -> StartTime(g[5][1])
       [] tag = "PRAW"       -> Praw(g[7][1])
       [] tag = "BCN_SPREAD" -> BcnSpread(g[6][1])]

\* The room for options as raw has cleared it: a tag of 0 is SLOT_DEF.
ClearedRoom == [tag \in {"SLOT_DEF"} |-> Sends(<<0, 0, 0>>)]

\* raw: the command it sends, if it does not refuse what it was given.  `delete` goes to
\* the end past the options and past the length, which then takes in all the room.
RawCommand(g) ==
  LET id     == g[9][1]
      what   == g[8][1]
      opts   == IF what = <<"delete">> THEN ClearedRoom ELSE RawOptions(g)
      tags   == DOMAIN opts
      update == what # <<"delete">> /\ tags # {}
  IN IF \/ id > 65535
        \/ \E t \in tags : ~opts[t].ok
        \/ {"PRAW", "BCN_SPREAD"} \subseteq tags
        \/ update /\ U16(id) = 0
     THEN NoCommand
     ELSE [command |-> "raw", id |-> U16(id), what |-> what, update |-> update,
           options |-> [t \in tags |-> opts[t].values]]

-------------------------------------------------------------------------------
Param(id, name, type, min) == [id |-> id, name |-> name, type |-> type, min |-> min]

params ==
  <<Param(0, <<"traffic_delivery_wait">>, "uint32", 0),
    Param(1, <<"ack_timeout_adjust">>, "uint32", 0),
    Param(8, <<"wake_action", "_gpio">>, "int32", -1),
    Param(9, <<"wake_action", "_gpio", "_pulse">>, "uint32", 50),
    Param(10, <<"connection_monitor_gpio">>, "int32", -1),
    Param(11, <<"input_trigger", "_gpio">>, "int32", -1),
    Param(12, <<"input_trigger", "_mode">>, "int32", -1)>>

\* match_str_to_param: the first one whose name begins so.
MatchStrToParam(str) ==
  LET is == {i \in DOMAIN params : IsPrefix(str, params[i].name)}
  IN IF is = {} THEN 0 ELSE CHOOSE i \in is : \A j \in is : i <= j

\* str_to_uint32_range and str_to_int32_range: the number is cut to a word before it is
\* compared.  No maximum excludes a word.
StrToRange(str, type, min) ==
  /\ IsNumber(str)
  /\ WordOf(str) >= min \/ (type = "uint32" /\ WordOf(str) < 0)

\* set and get, with their argv.
ParamCommand(args) ==
  LET set == args[1] = <<"set">>
      i   == MatchStrToParam(args[2])
  IN IF \/ (IF set THEN Len(args) < 3 ELSE Len(args) # 2)
        \/ i = 0
        \/ set /\ ~StrToRange(args[3], params[i].type, params[i].min)
     THEN NoCommand
     ELSE IF set THEN [command |-> "set", id |-> params[i].id, value |-> WordOf(args[3])]
     ELSE [command |-> "get", id |-> params[i].id]

-------------------------------------------------------------------------------
GInit ==
  /\ argv \in Lines
  /\ table = MainTable /\ vector = argv
  /\ pass = "tagged" /\ limit = Len(argv)
  /\ optind = 1 /\ place = <<>> /\ tab = 1
  /\ got = [i \in DOMAIN table |-> <<>>] /\ idx = 0 /\ errors = 0
  /\ stage = "main" /\ issued = NoCommand

\* A step of the parse of main's or the command's arguments.
Parsing ==
  /\ stage \in {"main", "sub"}
  /\ ParseStep
  /\ UNCHANGED <<argv, stage, issued>>

End == stage' = "end" /\ UNCHANGED <<avars, argv>>

\* help, which is the first entry of each table, and errors end the process.
Stops == errors # 0 \/ Given(got, 1)

ParseStops ==
  /\ stage \in {"main", "sub"} /\ pass = "done" /\ Stops
  /\ End /\ UNCHANGED issued

SubArgv == SubSeq(argv, idx + 1, Len(argv))

GetoptCommands == {<<"mpsw">>, <<"twt">>, <<"duty_cycle">>, <<"vendor_ie">>}

\* The loop over the handlers.
Dispatch ==
  /\ stage = "main" /\ pass = "done" /\ ~Stops
  /\ LET name == got[Command][1]
     IN \/ /\ name = <<"raw">> /\ Parse(RawTable, SubArgv)
           /\ stage' = "sub" /\ UNCHANGED <<argv, issued>>
        \/ /\ name \in {<<"set">>, <<"get">>}
           /\ vector' = SubArgv /\ stage' = "legacy"
           /\ UNCHANGED <<argv, issued, table, pass, limit, optind, place, tab, got, idx,
                          errors>>
        \/ /\ name \in GetoptCommands /\ Loops(SubArgv)
           /\ Loop(OptionsOf(SubArgv), OptionArgs(SubArgv))
           /\ stage' = "options" /\ UNCHANGED <<argv, issued>>
        \/ name \in GetoptCommands /\ ~Loops(SubArgv) /\ issued' = WithoutLoop(SubArgv) /\ End
        \/ /\ name \notin {<<"raw">>, <<"set">>, <<"get">>} \cup GetoptCommands
           /\ UNCHANGED issued /\ End

Raw ==
  /\ stage = "sub" /\ pass = "done" /\ ~Stops
  /\ issued' = RawCommand(got) /\ End

SetGet ==
  /\ stage = "legacy"
  /\ issued' = IF Len(vector) < 2 THEN NoCommand ELSE ParamCommand(vector)
  /\ End

Options ==
  /\ stage = "options"
  /\ \/ Getopt /\ UNCHANGED <<argv, stage, issued>>
     \/ /\ pass = "done"
        /\ issued' = IF errors = 0 THEN AfterLoop(SubArgv) ELSE NoCommand
        /\ End

Ended == stage = "end" /\ UNCHANGED gvars

GNext == Parsing \/ ParseStops \/ Dispatch \/ Raw \/ SetGet \/ Options \/ Ended

\* A process runs until it ends: weak fairness of Next, which can always take a step.
GSpec == GInit /\ [][GNext]_gvars /\ ([]<><<GNext>>_gvars \/ []<>(stage = "end"))

-------------------------------------------------------------------------------
(* What a command line means, in one pass over its arguments. *)

\* A group of short options with a dash in it, which getopt takes for one of its own.
Dashed(arg) == IsOption(arg) /\ arg[2] # "-" /\ \E i \in 3..Len(arg) : arg[i] = "-"

\* The first letter of a group that is no option, or that takes the rest as its value.
LastLetter(tbl, letters) ==
  LET ks == {k \in DOMAIN letters :
               LET i == ShortOption(tbl, letters[k]) IN i = 0 \/ HasValue(tbl[i])}
  IN IF ks = {} THEN Len(letters) + 1 ELSE CHOOSE k \in ks : \A j \in ks : k <= j

\* What has been read: wait is the option whose value is due, full that it was a long one,
\* whose value may not be empty.
Nothing(tbl) ==
  [wait |-> 0, full |-> FALSE, over |-> FALSE, bad |-> FALSE, words |-> <<>>,
   args |-> [i \in DOMAIN tbl |-> <<>>]]

Spoilt(acc) == [acc EXCEPT !.bad = TRUE]

Give(acc, i, v) == [acc EXCEPT !.args = [acc.args EXCEPT ![i] = Append(@, v)]]

Await(acc, i, full) == [acc EXCEPT !.wait = i, !.full = full]

\* Letters of options that take no value.
GiveAll(tbl, acc, letters) ==
  LET times(i) == Cardinality({k \in DOMAIN letters : ShortOption(tbl, letters[k]) = i})
  IN [acc EXCEPT !.args = [i \in DOMAIN tbl |-> acc.args[i] \o [k \in 1..times(i) |-> <<>>]]]

ReadValue(acc, arg) ==
  LET given == Await(Give(acc, acc.wait, arg), 0, FALSE)
  IN IF acc.full /\ arg = <<>> THEN Spoilt(given) ELSE given

ReadLong(tbl, acc, arg) ==
  LET is == LongMatches(tbl, NameOf(arg))
      i  == CHOOSE j \in is : TRUE
  IN CASE Cardinality(is) # 1 -> Spoilt(acc)
       [] Cardinality(is) = 1 /\ HasEqual(arg) ->
            IF HasValue(tbl[i]) /\ EqualValue(arg) # <<>>
            THEN Give(acc, i, EqualValue(arg)) ELSE Spoilt(acc)
       [] Cardinality(is) = 1 /\ ~HasEqual(arg) ->
            IF HasValue(tbl[i]) THEN Await(acc, i, TRUE) ELSE Give(acc, i, <<>>)

ReadLetters(tbl, acc, letters) ==
  LET k     == LastLetter(tbl, letters)
      flags == GiveAll(tbl, acc, SubSeq(letters, 1, k - 1))
      i     == ShortOption(tbl, letters[k])
  IN CASE k > Len(letters)            -> flags
       [] k <= Len(letters) /\ i = 0 -> Spoilt(acc)
       [] k = Len(letters) /\ i # 0  -> Await(flags, i, FALSE)
       [] k < Len(letters) /\ i # 0  -> Give(flags, i, SubSeq(letters, k + 1, Len(letters)))

\* Words end the options.
Word(acc, arg) == [acc EXCEPT !.over = TRUE, !.words = Append(acc.words, arg)]

\* One argument after those that have been read.
Read(tbl, acc, arg) ==
  CASE acc.wait # 0              -> ReadValue(acc, arg)
    [] acc.wait = 0 /\ acc.over  -> Word(acc, arg)
    [] acc.wait = 0 /\ ~acc.over ->
         CASE arg = <<"-", "-">> -> [acc EXCEPT !.over = TRUE]
           [] IsLong(arg)        -> ReadLong(tbl, acc, arg)
           [] IsOption(arg) /\ arg[2] # "-" -> ReadLetters(tbl, acc, Tail(arg))
           [] ~IsOption(arg)     -> Word(acc, arg)

\* After the first n arguments, without those whose places are passed over.
Readings(tbl, args, passed) ==
  LET after[n \in 0..(Len(args) - 1)] ==
        IF n = 0 THEN Nothing(tbl)
        ELSE IF n + 1 \in passed THEN after[n - 1] ELSE Read(tbl, after[n - 1], args[n + 1])
  IN after

MeaningBut(tbl, args, passed) == Readings(tbl, args, passed)[Len(args) - 1]

Meaning(tbl, args) == MeaningBut(tbl, args, {})

\* The untagged entries among the first n.
Words(tbl, n) == Cardinality({i \in 1..n : Untagged(tbl[i])})

\* The words that a table is concerned with: a command ends main's.
WordsFor(tbl, words) ==
  IF \E i \in DOMAIN tbl : tbl[i].stop /\ words # <<>>
  THEN <<Head(words)>> ELSE words

\* The arguments of each entry; the untagged ones take one word each.
ArgsOf(tbl, m) ==
  [i \in DOMAIN tbl |->
     IF Untagged(tbl[i]) THEN <<WordsFor(tbl, m.words)[Words(tbl, i)]>> ELSE m.args[i]]

\* A line is right if every option is known, with its value, none comes too often and the
\* words are as many as the table asks for, each of its kind.
Right(tbl, args) ==
  LET m == Meaning(tbl, args)
  IN /\ ~m.bad /\ m.wait = 0
     /\ Len(WordsFor(tbl, m.words)) = Words(tbl, Len(tbl))
     /\ \A i \in DOMAIN tbl :
          LET as == ArgsOf(tbl, m)[i]
          IN /\ Len(as) \in tbl[i].min..tbl[i].max
             /\ \A k \in DOMAIN as : Scan(tbl[i], 0, as[k]).error = ""

ValuesOf(tbl, args) ==
  LET as == ArgsOf(tbl, Meaning(tbl, args))
  IN [i \in DOMAIN tbl |-> [k \in DOMAIN as[i] |-> Scan(tbl[i], 0, as[i][k]).value]]

NoDashes == \A i \in DOMAIN argv : ~Dashed(argv[i])

\* arg_parse accepts exactly the right lines and finds their values, though it goes over
\* them twice, with scans for the stop in between, and keeps what it finds.
ParsedAsGrammar ==
  stage \in {"main", "sub"} /\ pass = "done" /\ NoDashes =>
    IF errors = 0 THEN Right(table, vector) /\ got = ValuesOf(table, vector)
                  ELSE ~Right(table, vector)

\* The command line from the command on.
SubLine == Meaning(MainTable, argv).words

\* The numbers that fields of 8 and of 16 bits have room for.
Field8  == 0..255
Field16 == 0..65535

\* None of the numbers that raw cuts, or refuses too late, is too wide for its field.
RawFits(g) ==
  /\ g[9][1] \in Field16
  /\ \A i \in {4, 6} : Given(g, i) => \A k \in 1..2 : g[i][1][k] \in Field16
  /\ Given(g, 2) => g[2][1][2] \in Field8
  /\ Given(g, 7) => g[7][1][2] = -1 \/ g[7][1][2] \in Field8

\* The command sent is the one typed: no more and no less than its options, each with the
\* numbers that were given, if these fit their fields on the wire.  With `delete` nothing
\* of the options is sent but zeros, which are not to be an update.
RawAsTyped(sent, g) ==
  /\ sent.id = g[9][1] /\ sent.what = g[8][1]
  /\ IF sent.what = <<"delete">>
     THEN /\ ~sent.update
          /\ \A t \in DOMAIN sent.options :
               \A k \in DOMAIN sent.options[t] : sent.options[t][k] = 0
     ELSE /\ DOMAIN sent.options = DOMAIN RawOptions(g)
          /\ sent.update = (DOMAIN sent.options # {})
          /\ Given(g, 2) => sent.options["SLOT_DEF"] = g[2][1] \o <<Len(g[3])>>
          /\ Given(g, 4) => sent.options["GROUP"] = g[4][1]
          /\ Given(g, 5) => sent.options["START_TIME"] = <<g[5][1]>>
          /\ Given(g, 6) => sent.options["BCN_SPREAD"] = g[6][1]
          /\ Given(g, 7) /\ g[7][1][2] # -1 => sent.options["PRAW"] = g[7][1] \o <<0>>
          /\ Given(g, 7) /\ g[7][1][2] = -1 =>
               sent.options["PRAW"] = <<g[7][1][1], 255, g[7][1][3], 1>>

\* The places of an option -b of mpsw, of which getopt knows that it takes one word.
BoundsAt(args) == {k \in 2..Len(args) : args[k] = <<"-", "b">>}

Plain(arg) == arg = <<>> \/ Head(arg) # "-"

\* It takes a second word, and none where another option follows.
UpperBounds(args) ==
  {k \in 4..Len(args) : k - 2 \in BoundsAt(args) /\ Plain(args[k - 1]) /\ Plain(args[k])}

Unbound(args) == {k \in BoundsAt(args) : k < Len(args) /\ ~Plain(args[k + 1])}

PassedOver(args) ==
  IF args[1] = <<"mpsw">> THEN UpperBounds(args) \cup Unbound(args) ELSE {}

OptionMeaning(args) == MeaningBut(OptionsOf(args), OptionArgs(args), PassedOver(args))

\* The last value given for option i, as a word, if it fits one.
LastWord(m, i, word) ==
  IF m.args[i] = <<>> THEN word = 0
  ELSE LET arg == m.args[i][Len(m.args[i])]
       IN arg = <<>> \/ Strtol(arg).n.hi = 0 => word = WordOf(arg)

\* The letters of the options is that have been given.
Letters(tbl, m, is) == {tbl[i].short : i \in {j \in is : m.args[j] # <<>>}}

MpswAsTyped(sent, m, args) ==
  LET uppers == UpperBounds(args)
  IN /\ sent.set = Letters(MpswOptions, m, 1..3)
     /\ LastWord(m, 1, sent.bounds[1]) /\ LastWord(m, 2, sent.window)
     /\ uppers = {} => sent.bounds[2] = 0
     /\ uppers # {} /\ m.words = <<>> =>
          LET arg == args[CHOOSE k \in uppers : \A j \in uppers : j <= k]
          IN arg = <<>> \/ Strtol(arg).n.hi = 0 => sent.bounds[2] = WordOf(arg)

TwtAsTyped(sent, m) ==
  /\ LastWord(m, 1, sent.flow_id) /\ LastWord(m, 3, sent.wake_duration)
  /\ LastWord(m, 5, sent.setup) /\ LastWord(m, 2, sent.wake_interval.lo)

DutyCycleAsTyped(sent, m) ==
  /\ sent.set = {"duty_cycle", "ext"} \cup Letters(DutyCycleOptions, m, {2})
  /\ LastWord(m, 1, sent.mode) /\ sent.duty_cycle \in DutyCycles

\* An OUI of other characters than digits is not sent as it was given.
VendorIeAsTyped(sent, m) ==
  /\ sent.opcode = Letters(VendorIeOptions, m, 1..4) /\ Cardinality(sent.opcode) = 1
  /\ sent.frames = Letters(VendorIeOptions, m, 5..7) /\ sent.frames # {}
  /\ \A i \in {1, 2} : \A str \in ToSet(m.args[i]) :
       hexstr2bin(str, Len(str) \div 2).ok =>
         sent.data = hexstr2bin(str, Len(str) \div 2).octets

\* What is sent is what the options say, each with its last value, and no option is
\* counted that was not given.
OptionsAsTyped(sent, args) ==
  LET m == OptionMeaning(args)
  IN /\ ~m.bad /\ m.wait = 0
     /\ sent.command = "mpsw" => MpswAsTyped(sent, m, args)
     /\ sent.command = "twt" => TwtAsTyped(sent, m)
     /\ sent.command = "duty_cycle" => DutyCycleAsTyped(sent, m)
     /\ sent.command = "vendor_ie" => VendorIeAsTyped(sent, m)

\* A command against its line, from its name on.
AsTyped(sent, args) ==
  /\ args[1] = <<IF sent.command = "get_duty_cycle" THEN "duty_cycle" ELSE sent.command>>
  /\ args[1] \in GetoptCommands /\ Loops(args) => OptionsAsTyped(sent, args)
  /\ sent.command = "raw" =>
       /\ Right(RawTable, args)
       /\ RawFits(ValuesOf(RawTable, args)) => RawAsTyped(sent, ValuesOf(RawTable, args))
  /\ sent.command \in {"set", "get"} =>
       \E i \in DOMAIN params :
         /\ params[i].id = sent.id /\ IsPrefix(args[2], params[i].name)
         /\ sent.command = "set" /\ args[3] # <<>> =>
              LET n == Strtol(args[3]).n
              IN n.hi = 0 => n.lo = sent.value

\* A command that is sent is the one typed: parsing, checking and converting have taken
\* no argument for another and changed none that fits its field.
SentAsTyped ==
  issued # NoCommand /\ NoDashes => Right(MainTable, argv) /\ AsTyped(issued, SubLine)

\* Bounds in the argument of their option, `-b7`, which mpsw looks at again and again once
\* it has others.
AttachedBounds ==
  \E i \in DOMAIN argv : Len(argv[i]) > 2 /\ SubSeq(argv[i], 1, 2) = <<"-", "b">>

\* Every command line comes to its end, but for two kinds: `-d-` and `mpsw -b 5 10 -b7` never
\* do.
ParseReturns ==
  NoDashes /\ ~(<<"mpsw">> \in ToSet(argv) /\ AttachedBounds) ~> stage = "end"

===============================================================================
