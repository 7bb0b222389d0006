------------------------------- MODULE ArgTable -------------------------------
(***************************************************************************)
(* Argument tables: arg_parse of src/argtable3/argtable3.c, with the       *)
(* getopt_long it brings along, the scan functions of the kinds of entries *)
(* and what Morse Micro has added, ARG_STOPPARSE and arg_csi.              *)
(*                                                                         *)
(* An argument is a sequence of syllables, strings that the code only ever *)
(* matches as a whole: "-", "=", ",", the letter of a short option, the    *)
(* parts that the names of long options have in common, a numeral.         *)
(***************************************************************************)
EXTENDS Integers, Sequences, FiniteSets, SequencesExt

CONSTANTS Numeral,   \* [numerals -> [hi, lo]]: hi * 2^32 + lo, lo a signed word of 32 bits
          MaxErrors  \* the room of arg_end

ASSUME ArgTableAssumption ==
  /\ \A s \in DOMAIN Numeral : Numeral[s].hi \in Nat /\ Numeral[s].lo \in Int
  /\ MaxErrors \in Nat \ {0}

VARIABLES table,     \* the entries of the table being parsed
          vector,    \* argv, the name of the program or command first
          pass,      \* of arg_parse: "tagged", "find", "again", "untagged", "check" or "done"
          limit,     \* argc of the pass
          optind,    \* the index of the argument looked at, vector[optind + 1]
          place,     \* what is left of a group of short options
          tab,       \* the entry that untagged arguments are tried on
          got,       \* [entries -> the values scanned]
          idx,       \* the index of the argument that stopped the parse
          errors     \* how many errors the end of the table has registered

avars == <<table, vector, pass, limit, optind, place, tab, got, idx, errors>>

-------------------------------------------------------------------------------
\* The entries of a table: n values separated by commas, or choices that a pattern admits.
Entry(kind, short, long, min, max) ==
  [kind |-> kind, short |-> short, long |-> long, min |-> min, max |-> max,
   n |-> 1, choices |-> {}, stop |-> FALSE]

arg_lit0(short, long)           == Entry("lit", short, long, 0, 1)
arg_int0(short, long)           == Entry("int", short, long, 0, 1)
arg_int1(short, long)           == Entry("int", short, long, 1, 1)
arg_csi0(short, long, n)        == [Entry("csi", short, long, 0, 1) EXCEPT !.n = n]
arg_str0(short, long)           == Entry("str", short, long, 0, 1)
arg_str1(short, long)           == Entry("str", short, long, 1, 1)
arg_rexn(short, long, choices, min, max) ==
  [Entry("rex", short, long, min, max) EXCEPT !.choices = choices]

HasValue(e) == e.kind # "lit"
Untagged(e) == e.short = "" /\ e.long = <<>>

Neg(n) == [hi |-> -n.hi, lo |-> -n.lo]

NoNumber == [ok |-> FALSE, n |-> [hi |-> 0, lo |-> 0], rest |-> <<>>]

\* strtol, and strtol0X before it: a sign, a numeral in some base, and what follows it.
Strtol(arg) ==
  LET signed == arg # <<>> /\ Head(arg) \in {"-", "+"}
      digits == IF signed THEN Tail(arg) ELSE arg
  IN IF digits = <<>> \/ Head(digits) \notin DOMAIN Numeral THEN NoNumber
     ELSE LET n == Numeral[Head(digits)]
          IN [ok |-> TRUE, n |-> IF signed /\ Head(arg) = "-" THEN Neg(n) ELSE n,
              rest |-> Tail(digits)]

Scanned(v)  == [error |-> "", value |-> v]
Refused(er) == [error |-> er, value |-> <<>>]

\* detectsuffix: nothing may follow a number but its unit.
Factor(suffix) ==
  CASE suffix = <<>>     -> 1
    [] suffix = <<"KB">> -> 1024
    [] suffix = <<"MB">> -> 1048576
    [] suffix = <<"GB">> -> 1073741824
    [] OTHER             -> 0

INT_MAX == 2147483647

ScanInt(arg) ==
  LET s == Strtol(arg)
      f == Factor(s.rest)
  IN IF ~s.ok \/ f = 0 THEN Refused("BADINT")
     ELSE IF s.n.hi # 0 \/ s.n.lo \notin -(INT_MAX \div f) - 1 .. INT_MAX \div f
          THEN Refused("OVERFLOW")
     ELSE Scanned(s.n.lo * f)

\* arg_csi_scanfn: n numbers; what stands between one and the next comma is passed over.
ScanCsi(n, arg) ==
  LET commas    == {i \in DOMAIN arg : arg[i] = ","}
      comma(k)  == CHOOSE i \in commas : Cardinality({j \in commas : j <= i}) = k
      start(k)  == IF k = 1 THEN 1 ELSE comma(k - 1) + 1
      number(k) == Strtol(SubSeq(arg, start(k), Len(arg)))
      count     == Cardinality(commas) + 1
  IN CASE count < n -> Refused("NOTENOUGH")
       [] count > n -> Refused("TOOMANY")
       [] count = n ->
            IF \E k \in 1..n : ~number(k).ok \/ number(k).n.hi # 0 THEN Refused("BADINT")
            ELSE Scanned([k \in 1..n |-> number(k).n.lo])

ScanLit == Scanned("given")

ScanStr(arg) == Scanned(arg)

ScanRex(choices, arg) == IF arg \in choices THEN Scanned(arg) ELSE Refused("REGNOMATCH")

\* The scan function of an entry that has count values.
Scan(e, count, arg) ==
  IF count = e.max THEN Refused("MAXCOUNT")
  ELSE CASE e.kind = "lit" -> ScanLit
         [] e.kind = "int" -> ScanInt(arg)
         [] e.kind = "csi" -> ScanCsi(e.n, arg)
         [] e.kind = "rex" -> ScanRex(e.choices, arg)
         [] e.kind = "str" -> ScanStr(arg)

-------------------------------------------------------------------------------
Empty == [i \in DOMAIN table |-> <<>>]

\* arg_register_error, called n times: when the end is full its last error is the limit.
Register(n) == errors' = IF errors + n <= MaxErrors THEN errors + n ELSE MaxErrors

\* The scan function of entry i is called with arg, after so many errors of getopt.
Take(i, arg, before) ==
  LET s == Scan(table[i], Len(got[i]), arg)
  IN /\ got' = IF s.error = "" THEN [got EXCEPT ![i] = Append(@, s.value)] ELSE got
     /\ Register(IF s.error = "" THEN before ELSE before + 1)

\* arg_parse is called: arg_reset, and the first pass of arg_parse_tagged.
Parse(tbl, argv) ==
  /\ table' = tbl /\ vector' = argv
  /\ pass' = "tagged" /\ limit' = Len(argv)
  /\ optind' = 1 /\ place' = <<>> /\ tab' = 1
  /\ got' = [i \in DOMAIN tbl |-> <<>>] /\ idx' = 0 /\ errors' = 0

Tagging == pass \in {"tagged", "again"}

\* The argument looked at.
This == vector[optind + 1]

IsOption(arg) == Len(arg) > 1 /\ arg[1] = "-"
IsLong(arg)   == IsOption(arg) /\ arg[2] = "-" /\ Len(arg) > 2

AtOption == Tagging /\ place = <<>> /\ optind < limit /\ IsOption(This)

\* getopt_long returns -1: what follows is not tagged.
NextPass ==
  /\ pass' = IF pass = "tagged" THEN "find" ELSE "untagged"
  /\ place' = <<>> /\ tab' = 1
  /\ UNCHANGED <<table, vector, limit, got, idx, errors>>

EndOfOptions ==
  /\ Tagging /\ place = <<>>
  /\ \/ optind >= limit /\ UNCHANGED optind
     \/ optind < limit /\ ~IsOption(This) /\ UNCHANGED optind
     \/ optind < limit /\ This = <<"-", "-">> /\ optind' = optind + 1
  /\ NextPass

\* parse_long_options: a name, whole or cut short, up to a "=".
NameOf(arg) ==
  LET eq == {i \in 3..Len(arg) : arg[i] = "="}
  IN IF eq = {} THEN SubSeq(arg, 3, Len(arg))
     ELSE SubSeq(arg, 3, (CHOOSE i \in eq : \A j \in eq : i <= j) - 1)

HasEqual(arg)   == \E i \in 3..Len(arg) : arg[i] = "="
EqualValue(arg) == SubSeq(arg, Len(NameOf(arg)) + 4, Len(arg))

\* alloc_longoptions.
LongOptions(tbl) == {i \in DOMAIN tbl : tbl[i].long # <<>>}

LongMatches(tbl, name) ==
  LET exact == {i \in LongOptions(tbl) : tbl[i].long = name}
  IN IF exact # {} THEN exact ELSE {i \in LongOptions(tbl) : IsPrefix(name, tbl[i].long)}

LongOption(arg) ==
  LET is == LongMatches(table, NameOf(arg))
      i == CHOOSE j \in is : TRUE
      known == Cardinality(is) = 1 /\ (HasValue(table[i]) \/ ~HasEqual(arg))
      next == known /\ HasValue(table[i]) /\ ~HasEqual(arg)
      last == optind + 1 = Len(vector)
      value == IF next THEN vector[optind + 2] ELSE EqualValue(arg)
  IN \/ /\ ~known
        /\ Register(1) /\ optind' = optind + 1 /\ UNCHANGED got
     \/ /\ next /\ last
        /\ Register(1) /\ optind' = optind + 1 /\ UNCHANGED got
     \/ /\ known /\ ~(next /\ last)
        /\ Take(i, value,
                IF HasValue(table[i]) /\ value = <<>> THEN 1 ELSE 0)
        /\ optind' = IF next THEN optind + 2 ELSE optind + 1

\* One option with two dashes; in the middle of a group they begin a long option as well.
ParseLong ==
  /\ \/ AtOption /\ IsLong(This) /\ LongOption(This)
     \/ Tagging /\ Len(place) > 1 /\ Head(place) = "-" /\ LongOption(<<"-">> \o place)
  /\ place' = <<>>
  /\ UNCHANGED <<table, vector, pass, limit, tab, idx>>

\* A dash at the end of a group: getopt_internal returns BADARG and stays where it is.
ParseDash ==
  /\ Tagging /\ place = <<"-">>
  /\ Register(1)
  /\ place' = <<>>
  /\ UNCHANGED <<table, vector, pass, limit, optind, tab, got, idx>>

\* find_shortoption: the first entry with that letter, if any.
ShortOption(tbl, letter) ==
  LET is == {i \in DOMAIN tbl : tbl[i].short = letter}
  IN IF is = {} THEN 0 ELSE CHOOSE i \in is : \A j \in is : i <= j

\* The letter is passed, and the argument if it was its last.
PassLetter(rest) ==
  /\ place' = rest
  /\ optind' = IF rest = <<>> THEN optind + 1 ELSE optind

\* Mutant: an unknown letter at the end of an argument is not passed.
PassUnknown_Stays(rest) == place' = rest /\ UNCHANGED optind

PassUnknown(rest) == PassLetter(rest)

ParseLetter(letters) ==
  LET i == ShortOption(table, Head(letters))
      rest == Tail(letters)
      last == optind + 1 >= limit
  IN \/ /\ i = 0
        /\ Register(1) /\ PassUnknown(rest) /\ UNCHANGED got
     \/ /\ i # 0 /\ ~HasValue(table[i])
        /\ Take(i, <<>>, 0) /\ PassLetter(rest)
     \/ /\ i # 0 /\ HasValue(table[i]) /\ rest # <<>>
        /\ Take(i, rest, 0) /\ PassLetter(<<>>)
     \/ /\ i # 0 /\ HasValue(table[i]) /\ rest = <<>> /\ ~last
        /\ Take(i, vector[optind + 2], 0)
        /\ place' = <<>> /\ optind' = optind + 2
     \/ /\ i # 0 /\ HasValue(table[i]) /\ rest = <<>> /\ last
        /\ Register(1) /\ PassLetter(<<>>) /\ UNCHANGED got

\* One letter of a group of short options.
ParseShort ==
  /\ \/ AtOption /\ This[2] # "-" /\ ParseLetter(Tail(This))
     \/ Tagging /\ place # <<>> /\ Head(place) # "-" /\ ParseLetter(place)
  /\ UNCHANGED <<table, vector, pass, limit, tab, idx>>

-------------------------------------------------------------------------------
\* Mutant: what the first pass has found is kept.
Again_Kept(stop) ==
  /\ pass' = "again" /\ limit' = stop
  /\ optind' = 1 /\ place' = <<>> /\ tab' = 1
  /\ UNCHANGED <<table, vector, idx, got, errors>>

\* arg_reset, and arg_parse_tagged again, as far as stop.
Again(stop) ==
  /\ pass' = "again" /\ limit' = stop
  /\ optind' = 1 /\ place' = <<>> /\ tab' = 1
  /\ got' = Empty /\ errors' = 0
  /\ UNCHANGED <<table, vector, idx>>

\* One round of arg_parse_find_stop.
Find ==
  /\ pass = "find"
  /\ IF tab > Len(table) \/ optind >= limit THEN Again(limit)
     ELSE LET e == table[tab]
              s == Scan(e, Len(got[tab]), This)
          IN IF Untagged(e) /\ s.error = "" /\ e.stop THEN Again(optind + 1)
             ELSE /\ IF Untagged(e) /\ s.error = ""
                     THEN /\ got' = [got EXCEPT ![tab] = Append(@, s.value)]
                          /\ optind' = optind + 1 /\ UNCHANGED tab
                     ELSE tab' = tab + 1 /\ UNCHANGED <<got, optind>>
                  /\ UNCHANGED <<table, vector, pass, limit, place, idx, errors>>

\* The end of arg_parse_untagged: each argument that is left is an error, the first one
\* of the last entry that was tried on it, if any.
Leftover ==
  /\ Register(limit - optind)
  /\ optind' = limit /\ pass' = "check"
  /\ UNCHANGED <<table, vector, limit, place, tab, got, idx>>

\* One round of arg_parse_untagged.
ParseUntagged ==
  /\ pass = "untagged"
  /\ IF optind >= limit
     THEN pass' = "check" /\ UNCHANGED <<table, vector, limit, optind, place, tab, got,
                                         idx, errors>>
     ELSE IF tab > Len(table) THEN Leftover
     ELSE LET e == table[tab]
              s == Scan(e, Len(got[tab]), This)
          IN /\ \/ /\ ~Untagged(e)
                   /\ tab' = tab + 1 /\ UNCHANGED <<pass, optind, got, idx>>
                \/ /\ Untagged(e) /\ s.error = ""
                   /\ got' = [got EXCEPT ![tab] = Append(@, s.value)]
                   /\ IF e.stop
                      THEN idx' = optind /\ pass' = "check" /\ UNCHANGED optind
                      ELSE optind' = optind + 1 /\ UNCHANGED <<idx, pass>>
                   /\ UNCHANGED tab
                \/ /\ Untagged(e) /\ s.error # ""
                   /\ tab' = tab + 1 /\ UNCHANGED <<pass, optind, got, idx>>
             /\ UNCHANGED <<table, vector, limit, place, errors>>

\* arg_parse_check, if there are no errors.
Check ==
  /\ pass = "check"
  /\ IF errors = 0
     THEN Register(Cardinality({i \in DOMAIN table : Len(got[i]) < table[i].min}))
     ELSE UNCHANGED errors
  /\ pass' = "done"
  /\ UNCHANGED <<table, vector, limit, optind, place, tab, got, idx>>

ParseStep ==
  EndOfOptions \/ ParseLong \/ ParseDash \/ ParseShort \/ Find \/ ParseUntagged \/ Check

===============================================================================
