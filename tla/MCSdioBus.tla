------------------------------- MODULE MCSdioBus -------------------------------
(***************************************************************************)
(* Blocks of two octets, so that a checksum of two octets tells any two of *)
(* them apart, delays of a few octets, and transfers of 24 octets, so that *)
(* a CMD53 of two blocks takes two or three.                               *)
(***************************************************************************)
EXTENDS SdioBus

\* Memory with octets that look like start tokens, responses, Junk and echoes.
MCContent(a) == <<252, 254, 0, 250, 170, 255>>[(a % 6) + 1]

MCRequests ==
  {None, [None EXCEPT !.cmd = 63],
   [None EXCEPT !.cmd = 52, !.write = TRUE, !.addr = 65537, !.data = <<5>>]}
  \cup {[cmd |-> 53, write |-> FALSE, blocks |-> blocks, addr |-> 40001, count |-> count,
         data |-> <<>>] : blocks \in BOOLEAN, count \in {1, 2}}
  \cup {[cmd |-> 53, write |-> TRUE, blocks |-> TRUE, addr |-> 40001, count |-> 1, data |-> d] :
          d \in {<<252, 5>>}}
  \cup {[cmd |-> 53, write |-> TRUE, blocks |-> blocks, addr |-> 40000, count |-> 2,
         data |-> IF blocks THEN <<255, 254, 252, 5>> ELSE <<0, 255>>] : blocks \in BOOLEAN}

MCOutOfStep == {[None EXCEPT !.cmd = 63]}

\* Nothing, the answers to a synchronisation, and a response.
MCLeftovers == {<<>>, <<250, 170, 250, 171>>, <<0, 229, 254, 0>>}

\* The response at once, last in time or too late; then blocks or answers to them at
\* once, in time or too late.  What is damaged gets the usual response, and a refusal is
\* followed by nothing.
MCMoodsFor(out) ==
  LET blocks == IF out[2] = 64 + 53 THEN loop_count(Request(SubSeq(out, 2, 7))) ELSE 0
      gaps   == [1..blocks -> {0, 1, 3, 5, 6, 7}]
      Of(responses, gs, damaged) ==
        [delay : {0, 2, 3}, response : responses, gaps : gs, damaged : damaged]
  IN Of({<<0>>}, gaps, 0..blocks) \cup Of({<<0, 1>>}, gaps, {0})
       \cup Of({<<4>>}, [1..blocks -> {0}], {0})

===============================================================================
