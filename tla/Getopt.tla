--------------------------------- MODULE Getopt ---------------------------------
(***************************************************************************)
(* Subcommands that look for their options themselves, with the getopt     *)
(* that src/argtable3/argtable3.c puts in the place of the C library's,    *)
(* from the `optind` main has left: mpsw, twt, duty_cycle and vendor_ie,   *)
(* with the conversions of src/utilities.c.                                *)
(***************************************************************************)
EXTENDS ArgTable

CONSTANTS HexDigits,
          Percent,  \* [numerals -> what strtof and a multiplication by 100 make of them]
          MaxIe     \* MAX_VENDOR_IE_LENGTH

\* The letter of an option of mpsw is no number.
ASSUME GetoptAssumption ==
  /\ \A s \in DOMAIN Percent : Percent[s] \in Nat
  /\ MaxIe \in Nat \ {0}
  /\ "b" \notin DOMAIN Numeral

NoCommand == [command |-> "none"]

-------------------------------------------------------------------------------
\* Conversions.  A number is cut to a word before it is compared, and an empty string
\* is 0.

IsNumber(str) == str # <<>> => Strtol(str).ok /\ Strtol(str).rest = <<>>

WordOf(str) == IF str = <<>> THEN 0 ELSE Strtol(str).n.lo

str_to_uint32(str) == IF IsNumber(str) THEN Scanned(WordOf(str)) ELSE Refused("value")

str_to_uint32_range(str, max) ==
  IF IsNumber(str) /\ WordOf(str) \in 0..max THEN Scanned(WordOf(str)) ELSE Refused("value")

str_to_uint64(str) ==
  IF ~IsNumber(str) THEN Refused("value")
  ELSE Scanned(IF str = <<>> THEN [hi |-> 0, lo |-> 0] ELSE Strtol(str).n)

expression_to_int(str) ==
  CASE str \in {<<s>> : s \in {"true", "enable", "yes", "t", "y", "1"}}   -> Scanned(1)
    [] str \in {<<s>> : s \in {"false", "disable", "no", "f", "n", "0"}} -> Scanned(0)
    [] OTHER -> Refused("value")

\* Of words without a sign.
Above(a, b) == IF (a < 0) = (b < 0) THEN a > b ELSE a < 0

\* An octet is a pair of digits.
hex2byte(pair) == {pair[1], pair[2]} \subseteq HexDigits

Octet(str, k) == SubSeq(str, 2 * k - 1, 2 * k)

\* As many octets as precede the first that is none, and whether these are all.
hexstr2bin(str, length) ==
  LET bad == {k \in 1..length : ~hex2byte(Octet(str, k))}
      good == IF bad = {} THEN length ELSE (CHOOSE k \in bad : \A j \in bad : k <= j) - 1
  IN [ok |-> bad = {}, octets |-> [k \in 1..good |-> Octet(str, k)]]

-------------------------------------------------------------------------------
\* The options' letters, as tables; n is the largest value of a range.
Lit(letter)        == Entry("lit", letter, <<>>, 0, 1)
Value(kind, letter, n) == [Entry(kind, letter, <<>>, 0, 1) EXCEPT !.n = n]

MpswOptions == <<Value("bounds", "b", 0), Value("word", "w", 0), Value("expr", "e", 0)>>

TwtOptions ==
  <<Value("range", "f", 7), Value("uint64", "w", 0), Value("range", "d", 65280),
    Value("uint64", "t", 0), Value("range", "c", 7), Value("word", "m", 0),
    Value("range", "e", 31)>>

DutyCycleOptions == <<Value("range", "m", 1), Lit("o")>>

\* The first four are the commands of which there may be one.
VendorIeOptions ==
  <<Value("element", "a", 0), Value("oui", "o", 0), Lit("c"), Lit("r"), Lit("p"), Lit("s"),
    Lit("b"), Entry("help", "h", <<>>, 0, 1)>>

check_cmd_opcode_not_set == \A i \in 1..4 : got[i] = <<>>

\* What a handler makes of an option's value.
Element(str) ==
  LET length == Len(str) \div 2
      bin    == hexstr2bin(str, length)
  IN IF ~check_cmd_opcode_not_set \/ Len(str) % 2 = 1 \/ length > MaxIe \/ ~bin.ok
     THEN Refused("value") ELSE Scanned(bin.octets)

\* Octets that cannot be read are left 0.
Oui(str) ==
  LET octets == hexstr2bin(str, 3).octets
  IN IF ~check_cmd_opcode_not_set \/ Len(str) \div 2 # 3 THEN Refused("value")
     ELSE Scanned(octets \o [k \in 1..(3 - Len(octets)) |-> <<"0", "0">>])

Converted(i, str) ==
  LET e == table[i]
  IN CASE e.kind = "word"   -> str_to_uint32(str)
       [] e.kind = "range"  -> str_to_uint32_range(str, e.n)
       [] e.kind = "uint64" -> str_to_uint64(str)
       [] e.kind = "expr"   -> expression_to_int(str)
       [] e.kind = "element" -> Element(str)
       [] e.kind = "oui"    -> Oui(str)
       [] e.kind = "help"   -> Refused("help")
       [] e.kind = "lit"    -> IF e.short \in {"c", "r"} /\ ~check_cmd_opcode_not_set
                               THEN Refused("value") ELSE Scanned("given")

-------------------------------------------------------------------------------
\* Mutant: optind is where main's own parse has left it.
Loop_Stale(options, args) ==
  /\ table' = options /\ vector' = args
  /\ pass' = "getopt" /\ limit' = Len(args)
  /\ got' = [i \in DOMAIN options |-> <<>>]
  /\ errors' = 0
  /\ UNCHANGED <<optind, place, tab, idx>>

\* The loop over getopt begins, with args; main has reset optind.
Loop(options, args) ==
  /\ table' = options /\ vector' = args
  /\ pass' = "getopt" /\ limit' = Len(args)
  /\ optind' = 1
  /\ got' = [i \in DOMAIN options |-> <<>>]
  /\ errors' = 0
  /\ UNCHANGED <<place, tab, idx>>

Looping == pass = "getopt"

\* The handler ends: nothing is sent.
Refuse ==
  /\ errors' = 1 /\ pass' = "done"
  /\ UNCHANGED <<optind, place, got>>

\* getopt has returned -1.  There is no permutation: what follows is not looked at.
NoMore == pass' = "done" /\ UNCHANGED <<optind, place, got, errors>>

\* An option and its value have been found, rest and next are what getopt goes on with.
\* Of a value given several times the last one counts.
Found(i, str, rest, next) ==
  LET s == Converted(i, str)
  IN IF s.error # "" THEN Refuse
     ELSE /\ got' = [got EXCEPT ![i] = <<s.value>>]
          /\ place' = rest /\ optind' = next
          /\ UNCHANGED <<pass, errors>>

\* parse_bounds_flag_args: up to two words, from the argument before next on, where a
\* value of its own argument is.
BoundsWords(next) ==
  LET word(k) == k <= Len(vector) /\ (vector[k] = <<>> \/ Head(vector[k]) # "-")
  IN IF ~word(next) THEN <<>>
     ELSE IF word(next + 1) THEN SubSeq(vector, next, next + 1) ELSE <<vector[next]>>

FoundBounds(i, next) ==
  LET words == BoundsWords(next)
      old   == IF got[i] = <<>> THEN <<0, 0>> ELSE got[i][1]
      new   == [k \in 1..2 |-> IF k <= Len(words) THEN WordOf(words[k]) ELSE old[k]]
  IN IF \/ \E k \in DOMAIN words : ~IsNumber(words[k])
        \/ new[1] = new[2]
        \/ Above(new[1], new[2]) /\ new[2] # 0
     THEN Refuse
     ELSE /\ got' = [got EXCEPT ![i] = <<new>>]
          /\ place' = <<>> /\ optind' = next - 1 + Len(words)
          /\ UNCHANGED <<pass, errors>>

FoundValue(i, str, next) ==
  IF table[i].kind = "bounds" THEN FoundBounds(i, next) ELSE Found(i, str, <<>>, next)

\* One letter of an argument.
GetoptLetter(letters) ==
  LET i    == ShortOption(table, Head(letters))
      rest == Tail(letters)
      after == IF rest = <<>> THEN optind + 1 ELSE optind
      takes == i # 0 /\ table[i].kind \notin {"lit", "help"}
  IN \/ i = 0 /\ letters = <<"-">> /\ NoMore
     \/ i = 0 /\ letters # <<"-">> /\ Refuse
     \/ i # 0 /\ ~takes /\ Found(i, <<>>, rest, after)
     \/ takes /\ rest # <<>> /\ FoundValue(i, rest, optind + 1)
     \/ takes /\ rest = <<>> /\ optind + 1 >= limit /\ Refuse
     \/ takes /\ rest = <<>> /\ optind + 1 < limit /\ FoundValue(i, vector[optind + 2], optind + 2)

\* The next argument, if it is an option.
GetoptArgument ==
  IF optind < limit /\ IsOption(This) /\ This # <<"-", "-">>
  THEN place' = Tail(This) /\ UNCHANGED <<optind, pass, got, errors>>
  ELSE NoMore

Getopt ==
  /\ Looping
  /\ IF place = <<>> THEN GetoptArgument ELSE GetoptLetter(place)
  /\ UNCHANGED <<table, vector, limit, tab, idx>>

-------------------------------------------------------------------------------
\* The commands, of the options that have been found.
Optional(i, default) == IF got[i] = <<>> THEN default ELSE got[i][1]

Are(options) == {table[i].short : i \in {j \in options : got[j] # <<>>}}

MpswCommand ==
  [command |-> "mpsw", set |-> Are(1..3), bounds |-> Optional(1, <<0, 0>>),
   window |-> Optional(2, 0), enable |-> Optional(3, 0)]

\* -t, -m and -e are for other commands of twt, which this build does not have.
TwtCommand ==
  [command |-> "twt", flow_id |-> Optional(1, 0), wake_interval |-> Optional(2, [hi |-> 0, lo |-> 0]),
   wake_duration |-> Optional(3, 0), setup |-> Optional(5, 0)]

DutyCycle(set, value, mode) ==
  [command |-> "duty_cycle", set |-> set, duty_cycle |-> value, mode |-> mode]

\* The limits of a duty cycle, in hundredths of a percent.
DutyCycles == 1..10000

PercentOf(str) ==
  IF str # <<>> /\ Head(str) \in DOMAIN Percent THEN Percent[Head(str)] ELSE 0

DutyCycleCommand(args) ==
  DutyCycle({"duty_cycle", "ext"} \cup Are({2}), PercentOf(args[3]), Optional(1, 0))

\* Without a command or a frame type it explains itself.
VendorIeCommand ==
  IF check_cmd_opcode_not_set \/ Are(5..7) = {} THEN NoCommand
  ELSE [command |-> "vendor_ie", opcode |-> Are(1..4), frames |-> Are(5..7),
        data |-> IF got[1] # <<>> THEN got[1][1] ELSE Optional(2, <<>>)]

\* The handlers, with their argv: do they come to their loop, with what, and what do they
\* send after it?
duty_cycle_parse_cmd(args) == IF Len(args) < 2 THEN <<"get">> ELSE args[2]

Loops(args) ==
  CASE args[1] = <<"mpsw">> -> TRUE
    [] args[1] = <<"vendor_ie">> -> Len(args) >= 2
    [] args[1] = <<"twt">> -> Len(args) >= 3 /\ args[2] = <<"conf">>
    [] args[1] = <<"duty_cycle">> ->
         /\ duty_cycle_parse_cmd(args) = <<"enable">> /\ Len(args) >= 3
         /\ PercentOf(args[3]) \in DutyCycles

OptionsOf(args) ==
  CASE args[1] = <<"mpsw">> -> MpswOptions         [] args[1] = <<"vendor_ie">> -> VendorIeOptions
    [] args[1] = <<"twt">> -> TwtOptions           [] args[1] = <<"duty_cycle">> -> DutyCycleOptions

OptionArgs(args) ==
  CASE args[1] \in {<<"mpsw">>, <<"vendor_ie">>} -> args
    [] args[1] = <<"twt">> -> Tail(args)
    [] args[1] = <<"duty_cycle">> -> SubSeq(args, 3, Len(args))

AfterLoop(args) ==
  CASE args[1] = <<"mpsw">> -> MpswCommand         [] args[1] = <<"vendor_ie">> -> VendorIeCommand
    [] args[1] = <<"twt">> -> TwtCommand           [] args[1] = <<"duty_cycle">> -> DutyCycleCommand(args)

\* Without a loop: duty_cycle alone, `airtime` and `disable`, whatever follows.
WithoutLoop(args) ==
  CASE args[1] # <<"duty_cycle">> -> NoCommand
    [] args[1] = <<"duty_cycle">> ->
         CASE duty_cycle_parse_cmd(args) \in {<<"get">>, <<"airtime">>} -> [command |-> "get_duty_cycle"]
           [] duty_cycle_parse_cmd(args) = <<"disable">> -> DutyCycle({"duty_cycle"}, 10000, 0)
           [] OTHER -> NoCommand

===============================================================================
