-------------------------------- MODULE MCStats --------------------------------
(***************************************************************************)
(* Two tags the firmware file knows, one shown as an integer and one as a  *)
(* structure, and answers that are refused, sound, cut off by the buffer   *)
(* and malformed.                                                          *)
(***************************************************************************)
EXTENDS Stats

Statistic(tag, format) == [tag |-> tag, format |-> format]

\* The tag of a section that is no statistics' is unknown, of two records with one tag the
\* first one counts.
MCSections ==
  <<[offchip |-> FALSE, records |-> <<Statistic("none", "udec")>>],
    [offchip |-> TRUE, records |-> <<Statistic("count", "udec")>>],
    [offchip |-> TRUE, records |-> <<Statistic("state", "mac_state"), Statistic("count", "mac_state")>>]>>

TLV(tag, len) == [tag |-> tag, len |-> len]

Answer(tlvs) == [status |-> 0, size |-> Begin(tlvs, Len(tlvs) + 1), tlvs |-> tlvs]

MCCores == <<"app", "mac">>

MCReplies ==
  {[status |-> 1, size |-> 0, tlvs |-> <<>>],
   Answer(<<TLV("state", 8), TLV("count", 1)>>),
   Answer(<<TLV("none", 1)>>),
   Answer(<<TLV("count", 4), TLV("state", 8)>>)}

===============================================================================
