------------------------------ MODULE MCStandby ------------------------------
(***************************************************************************)
(* Processes of one subcommand are interchangeable, but for whether their  *)
(* configuration file has a filter, and so are channels.                   *)
(***************************************************************************)
EXTENDS Standby, TLC

Symmetry ==
  Permutations(Enters) \cup Permutations(Configs \ NoFilter) \cup Permutations(Channels)

===============================================================================
