------------------------------ MODULE MCArguments ------------------------------
(***************************************************************************)
(* Command lines with up to two of main's options, each in several forms   *)
(* and some of them wrong, and with up to two of the options of a command. *)
(***************************************************************************)
EXTENDS Arguments

\* hi and lo of the numbers that the lines contain.
MCNumeral ==
  [s \in {"0", "1", "2", "3", "5", "63", "255", "257", "300", "500", "2007", "65537", "70000",
          "600000", "2G", "4G+1"} |->
     CASE s = "0" -> [hi |-> 0, lo |-> 0]       [] s = "1" -> [hi |-> 0, lo |-> 1]
       [] s = "2" -> [hi |-> 0, lo |-> 2]       [] s = "3" -> [hi |-> 0, lo |-> 3]
       [] s = "5" -> [hi |-> 0, lo |-> 5]       [] s = "63" -> [hi |-> 0, lo |-> 63]
       [] s = "255" -> [hi |-> 0, lo |-> 255]   [] s = "257" -> [hi |-> 0, lo |-> 257]
       [] s = "300" -> [hi |-> 0, lo |-> 300]   [] s = "500" -> [hi |-> 0, lo |-> 500]
       [] s = "2007" -> [hi |-> 0, lo |-> 2007] [] s = "65537" -> [hi |-> 0, lo |-> 65537]
       [] s = "70000" -> [hi |-> 0, lo |-> 70000]
       [] s = "600000" -> [hi |-> 0, lo |-> 600000]
       [] s = "2G" -> [hi |-> 1, lo |-> -2147483647 - 1]
       [] s = "4G+1" -> [hi |-> 1, lo |-> 1]]

\* Hundredths: the float below 0.53, times 100, is below 53.
MCPercent ==
  [s \in {"0", "5", "0.53", "300"} |->
     CASE s = "0" -> 0 [] s = "5" -> 500 [] s = "0.53" -> 52 [] s = "300" -> 30000]

MCTransportArgs == {<<"uart">>, <<"ftdi">>}

\* Options of main: sequences of arguments.
MainOptions ==
  {<< <<"-", "d">> >>, << <<"-", "-", "debug">> >>, << <<"-", "-", "debug", "=", "1">> >>,
   << <<"-", "i">>, <<"wlan">> >>, << <<"-", "i", "wlan">> >>, << <<"-", "d", "i">>, <<"raw">> >>,
   << <<"-", "-", "con">>, <<"raw">> >>, << <<"-", "-", "con", "fig">>, <<"-", "d">> >>,
   << <<"-", "-", "con", "fig", "file", "=", "x">> >>, << <<"-", "-", "interface", "=">> >>,
   << <<"-", "t">>, <<"uart">> >>, << <<"-", "-", "transport">>, <<"raw">> >>,
   << <<"-", "z", "d">> >>, << <<"-", "d", "-">> >>, << <<"-", "d", "-", "help">> >>,
   << <<"-", "i">> >>, << <<"-", "d", "i">> >>, << <<"-", "d", "i", "x">> >>, << <<"-", "-", "interface">> >>,
   << <<"-", "d", "-", "interface">> >>, << <<"-", "d", "-", "x">> >>,
   << <<"-", "v", "z">> >>, << <<"-", "-", "help">> >>, << <<"-", "-">> >>, << <<"-">> >>,
   << <<>> >>}

RawSome ==
  {<< <<"-", "s", "500", ",", "1">> >>, << <<"-", "-", "s", "lot_def">>, <<"600000", ",", "2">> >>,
   << <<"-", "x", "s">>, <<"70000", ",", "257">> >>, << <<"-", "s">>, <<"500", ",", "63">> >>,
   << <<"-", "s", "500", ",">> >>, << <<"-", "s", "500", ",", "1", ",", "1">> >>, << <<"-", "-", "s">>, <<"5">> >>,
   << <<"-", "x">> >>, << <<"-", "a", "1", ",", "2007">> >>, << <<"-", "a">>, <<"65537", ",", "2">> >>,
   << <<"-", "a", "2", ",", "1">> >>,
   << <<"-", "t">>, <<"5", "KB">> >>, << <<"-", "t">>, <<"-", "5">> >>, << <<"-", "t", "2G">> >>,
   << <<"-", "-", "s", "tart_time", "=", "500">> >>, << <<"-", "t", "5", "x">> >>,
   << <<"-", "b", "1", ",", "70000">> >>, << <<"-", "b", "2", ",", "3">> >>,
   << <<"-", "-", "praw", "=", "5", ",", "-", "1", ",", "3">> >>,
   << <<"-", "p">>, <<"5", ",", "0", ",", "1">> >>, << <<"-", "p", "5", ",", "300", ",", "1">> >>,
   << <<"-", "p", "3", "x", ",", "2", ",", "5">> >>, << <<"-", "h">> >>}

RawWords ==
  {<< <<"enable">>, <<"5">> >>, << <<"disable">>, <<"0">> >>, << <<"delete">>, <<"5">> >>,
   << <<"5">>, <<"enable">> >>, << <<"enable">> >>, << <<"enable">>, <<"-", "1">> >>,
   << <<"enable">>, <<"70000">>, <<"5">>, <<"x">> >>, << <<"-", "-">>, <<"enable">>, <<"-", "1">> >>}

ParamLines ==
  {<< <<"set">>, n, v >> : n \in {<<>>, <<"wake_action">>, <<"wake_action", "_gpio", "_pulse">>,
                                  <<"ack_timeout_adjust">>, <<"input_trigger", "_mode">>, <<"mode">>},
                           v \in {<<>>, <<"5">>, <<"63">>, <<"-", "1">>, <<"-", "5">>, <<"4G+1">>,
                                  <<"x">>, <<"5", "KB">>}}
  \cup {<< <<"get">>, <<"input_trigger", "_mode">> >>, << <<"get">>, <<"x">> >>, << <<"get">> >>,
        << <<"set">>, <<"wake_action">> >>}

MpswSome ==
  {<< <<"-", "b">>, <<"5">>, <<"63">> >>, << <<"-", "b">>, <<"63">>, <<"5">> >>,
   << <<"-", "b">>, <<"63">>, <<"0">> >>, << <<"-", "b">>, <<"5">> >>, << <<"-", "b">>, <<>> >>,
   << <<"-", "b", "5">>, <<"63">> >>, << <<"-", "b">>, <<"-", "5">> >>, << <<"-", "b">> >>,
   << <<"-", "w">>, <<"5">> >>, << <<"-", "w", "4G+1">> >>, << <<"-", "w">>, <<"5", "x">> >>,
   << <<"-", "w">> >>, << <<"-", "e">>, <<"1">> >>, << <<"-", "e", "disable">> >>,
   << <<"-", "e">>, <<"5">> >>, << <<"-", "-">> >>, << <<"-", "z">> >>, << <<"63">> >>}

TwtSome ==
  {<< <<"-", "f">>, <<"3">> >>, << <<"-", "f", "63">> >>, << <<"-", "w">>, <<"4G+1">> >>,
   << <<"-", "w", "300">> >>, << <<"-", "d">>, <<"70000">> >>, << <<"-", "d">>, <<"4G+1">> >>,
   << <<"-", "d", "500">> >>, << <<"-", "t">>, <<"5">> >>, << <<"-", "c">>, <<"2">> >>,
   << <<"-", "c">> >>, << <<"-", "m">>, <<"70000">> >>, << <<"-", "e", "63">> >>,
   << <<"-", "-", "f">> >>, << <<"-">> >>}

DutySome ==
  {<< <<"-", "o">> >>, << <<"-", "o", "m", "1">> >>, << <<"-", "m">>, <<"0">> >>,
   << <<"-", "m">>, <<"5">> >>, << <<"-", "u">>, <<"5">> >>, << <<"-", "o", "-">> >>,
   << <<"x">> >>}

VendorIeSome ==
  {<< <<"-", "a">>, <<"0", "1", "2", "3">> >>, << <<"-", "a", "0", "1", "2">> >>,
   << <<"-", "a">>, <<"x", "1">> >>, << <<"-", "a">>, <<>> >>,
   << <<"-", "a">>, <<"0", "0", "1", "1", "2", "2", "3", "3">> >>,
   << <<"-", "o">>, <<"0", "1", "2", "3", "5", "5">> >>, << <<"-", "o", "0", "1">> >>,
   << <<"-", "o">>, <<"0", "1", "2", "x", "5", "5">> >>, << <<"-", "c">> >>, << <<"-", "r", "p">> >>,
   << <<"-", "p">> >>, << <<"-", "s", "b">> >>, << <<"-", "h">> >>, << <<"x">> >>}

Pairs(S) == {<<>>} \cup S \cup {a \o b : a, b \in S}

MCLines ==
  {<< <<"morse_cli">> >> \o words :
     words \in {m \o << <<"raw">> >> \o w : m \in Pairs(MainOptions),
                 w \in {<< <<"enable">>, <<"5">> >>, << <<"-", "x">> >>}}
       \cup {m : m \in Pairs(MainOptions)}
       \cup {<< <<"raw">> >> \o o \o w : o \in Pairs(RawSome), w \in RawWords}
       \cup ParamLines \cup {<< <<"-", "d">> >> \o p : p \in ParamLines}
       \cup {<< <<"mpsw">> >> \o o : o \in Pairs(MpswSome)}
       \cup {<< <<"mpsw">> >> \o a \o << <<"-", "b">> >> \o b : a, b \in MpswSome}
       \cup {<< <<"-", "d">>, <<"twt">>, c >> \o o : c \in {<<"conf">>, <<"remove">>}, o \in Pairs(TwtSome)}
       \cup {<< <<"vendor_ie">> >> \o o : o \in Pairs(VendorIeSome)}
       \cup {<< <<"duty_cycle">>, <<"enable">>, n >> \o o :
               n \in {<<"0">>, <<"0.53">>, <<"5", "x">>, <<"300">>}, o \in Pairs(DutySome)}
       \cup {<< <<"duty_cycle">> >> \o o :
               o \in {<<>>, << <<"airtime">> >>, << <<"disable">>, <<"5">> >>, << <<"x">> >>,
                      << <<"enable">> >>}}}

===============================================================================
