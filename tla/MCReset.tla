-------------------------------- MODULE MCReset --------------------------------
(***************************************************************************)
(* An adapter of two channels, another one whose serial number begins with *)
(* the first one's and which has ports without an MPSSE, a third one, and  *)
(* their channels in different orders.                                     *)
(***************************************************************************)
EXTENDS Reset

Channel(loc, serial, type, port) ==
  [loc |-> loc, serial |-> serial, type |-> type, port |-> port]

A1 == Channel(1, <<1>>, "2232H", "A")
A2 == Channel(2, <<1>>, "2232H", "B")
B1 == Channel(3, <<1, 2>>, "4232H", "A")
B2 == Channel(4, <<1, 2>>, "4232H", "B")
B3 == Channel(5, <<1, 2>>, "4232H", "C")
C1 == Channel(6, <<3>>, "232H", "-")
D1 == Channel(7, <<4>>, "2232C", "A")
D2 == Channel(8, <<4>>, "2232C", "B")

MCPlugged == {<<A1, A2>>, <<B3, B2, A2, D2, B1, A1>>, <<A2, A1, B3, B1, B2, C1>>, <<D1, C1>>}

MCSerialNumbers == {<<>>, <<1>>, <<1, 2>>}

===============================================================================
