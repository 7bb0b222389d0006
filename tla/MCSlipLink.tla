------------------------------ MODULE MCSlipLink ------------------------------
(***************************************************************************)
(* Packets over one plain octet and the three characters that matter to    *)
(* the decoder, one longer than the receive buffer.                        *)
(***************************************************************************)
EXTENDS SlipLink

MCPackets == UNION { [1..n -> {END, ESC, ESC_END, "a"}] : n \in 1..3 }

===============================================================================
