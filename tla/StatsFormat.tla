------------------------------ MODULE StatsFormat ------------------------------
(***************************************************************************)
(* How the value of a statistic is shown: src/stats_format.h,              *)
(* src/stats_format_json.c, src/stats_format_regular.c and                 *)
(* src/offchip_statistics.c.  What is shown in JSON is a sequence of       *)
(* tokens: brackets, commas, "key", a key with its colon, and "value", a   *)
(* number or a string.                                                     *)
(***************************************************************************)
EXTENDS Integers, Sequences, SequencesExt

Formats == {"dec", "udec", "hex", "0hex", "ampdu_aggregates", "ampdu_bitmap", "txop", "pageset",
            "retries", "raw", "calibration", "duty_cycle", "mac_state", "default"}

IntegerFormats == {"dec", "udec", "hex", "0hex"}

\* get_signed_value_as_int64 and get_unsigned_value_as_uint64 take these, and make 0
\* of anything else.
Widths == {1, 2, 4, 8}

NumPagesets   == 2
AppStatsCount == 13

\* The octets of a value that its function reads, whatever the TLV's length is.
SizeOf ==
  [ampdu_aggregates |-> 17 * 4, ampdu_bitmap |-> 16 * 4,
   txop |-> 8 + 4 * 4 + 1, pageset |-> NumPagesets * 8,
   retries |-> 16 + AppStatsCount * (8 + 4), raw |-> (8 + 7) * 4,
   calibration |-> 5 * 4, duty_cycle |-> 4 * 8, mac_state |-> 8]

Reads(format, len) ==
  CASE format \in IntegerFormats -> IF len \in Widths THEN len ELSE 0
    [] format \in DOMAIN SizeOf  -> SizeOf[format]
    [] format = "default"        -> len

-------------------------------------------------------------------------------
\* A member without a comma behind it and one with it.
Final  == <<"key", "value">>
Member == Final \o <<",">>

\* n times item, with a comma before each but the first.
Listed(n, item) ==
  LET list[i \in 1..n] == IF i = 1 THEN item ELSE list[i - 1] \o <<",">> \o item IN list[n]

Integer == <<"value">>
Text    == <<"value">>   \* aggregates, bitmap and what has no format

Object(members) == <<"{">> \o members \o <<"}">>
Array(values)   == <<"[">> \o values \o <<"]">>

Txop     == Object(Member \o Member \o Member \o Member \o Final)
Pageset  == Array(Listed(NumPagesets, Object(Member \o Member \o Final)))
Retries  == Array(Listed(AppStatsCount, Object(Member \o Member \o Final)))
Raw      == Object((<<"key">> \o Object(Member \o Member \o Member \o Final) \o <<",">>)
                   \o (<<"key">> \o Object(Member \o Member \o Member \o Final)))
Calibration == Object(<<"key">> \o Object(Member \o Member \o Member \o Member \o Final))
DutyCycle   == Object(Member \o Member \o Member \o Member \o Final)
MacState    == Object(Member \o Member \o Member \o Member \o Member \o Member
                      \o Member \o Member \o Member \o Member \o Final)

\* The table of stats_format_json.c.
JsonValue(format) ==
  CASE format \in IntegerFormats -> Integer
    [] format = "txop"        -> Txop
    [] format = "pageset"     -> Pageset
    [] format = "retries"     -> Retries
    [] format = "raw"         -> Raw
    [] format = "calibration" -> Calibration
    [] format = "duty_cycle"  -> DutyCycle
    [] format = "mac_state"   -> MacState
    [] OTHER                  -> Text

-------------------------------------------------------------------------------
\* A reader of JSON: the brackets that are open, innermost first, and what may come.
Expecting(s, what) == [s EXCEPT !.may = what]

Opened(s, bracket) ==
  [open |-> <<bracket>> \o s.open, may |-> IF bracket = "{" THEN {"key", "}"}
                                                         ELSE {"value", "{", "[", "]"}]
After(open) ==
  IF open = <<>> THEN {"end"} ELSE {",", IF Head(open) = "{" THEN "}" ELSE "]"}

Reader(s, token) ==
  IF token \notin s.may THEN Expecting(s, {})
  ELSE CASE token \in {"{", "["} -> Opened(s, token)
         [] token \in {"}", "]"} -> [open |-> Tail(s.open), may |-> After(Tail(s.open))]
         [] token = "key"   -> Expecting(s, {"value", "{", "["})
         [] token = "value" -> Expecting(s, After(s.open))
         [] token = ","     -> Expecting(s, IF Head(s.open) = "{" THEN {"key"} ELSE {"value", "{", "["})

\* The reader after tokens.
Scan(s, tokens) ==
  LET after[n \in 0..Len(tokens)] == IF n = 0 THEN s ELSE Reader(after[n - 1], tokens[n])
  IN after[Len(tokens)]

\* tokens are one JSON object.
IsJsonObject(tokens) ==
  Scan([open |-> <<>>, may |-> {"{"}], tokens) = [open |-> <<>>, may |-> {"end"}]

===============================================================================
