------------------------------- MODULE Handlers --------------------------------
(***************************************************************************)
(* The subcommands that send one command to the firmware and report how it *)
(* ended: one record per entry MM_CLI_HANDLER puts into the table of       *)
(* src/morsectrl.c.  What a handler does with its arguments is cut down to *)
(* what main and the user can tell from the outside:                       *)
(*   form    "legacy" handlers count and parse their own arguments, for    *)
(*           "argtable" ones main does;                                    *)
(*   direct  may it be sent to a chip without a driver in between;         *)
(*   help    the counts at which it explains itself and returns 0;         *)
(*   counts  the counts it goes on with, if the values are right too;      *)
(*   wrong   what it may return for arguments it does not like;            *)
(*   nomem   what it returns without memory for its buffers;               *)
(*   refusal what it may return where the status is 0 but the answer has a *)
(*           code of its own that says no;                                 *)
(*   flat    does every other return become MORSE_CMD_ERR.                 *)
(* argc counts the subcommand itself; MaxArgc bounds it.                   *)
(***************************************************************************)
EXTENDS Integers

MaxArgc == 14

\* What a command can come back with: a transport error (-ETRANSERR), a status of the
\* firmware, among them a negative one, 110, a timeout, and values an exit status
\* cannot hold.
Returns == {-22, -2, 0, 1, 110, 255, 256}

Legacy(direct, help, counts) ==
  [form |-> "legacy", direct |-> direct, help |-> help, counts |-> counts,
   wrong |-> {-1}, nomem |-> -1, refusal |-> {}, flat |-> FALSE]

ArgTable(direct) == [Legacy(direct, {}, 1..MaxArgc) EXCEPT !.form = "argtable"]

\* Mutant: `argc == 1`, so that the call for the usage text goes on.
long_sleep_One == Legacy(TRUE, {1}, 2..MaxArgc)

-------------------------------------------------------------------------------
(* AP, mesh and power save commands.                                           *)
ampdu           == Legacy(FALSE, 0..1, 2..MaxArgc)
bsscolor        == Legacy(TRUE,  {0}, {2})
cac             == Legacy(FALSE, {0}, {2})
cts_self_ps     == Legacy(TRUE,  {0}, {2})
dynamic_peering == Legacy(FALSE, {0}, {6})
keepalive       == Legacy(FALSE, {0}, 2..3)
li              == Legacy(FALSE, {0}, {3})
long_sleep      == Legacy(TRUE,  0..1, 2..MaxArgc)
maxampdulen     == Legacy(TRUE,  0..1, 2..MaxArgc)
mbca            == Legacy(FALSE, {0}, {11})
mbssid          == Legacy(FALSE, {0}, 2..5)
mesh_config     == Legacy(FALSE, {0}, 5..7)
mpsw            == Legacy(TRUE,  {0}, 1..MaxArgc)
opclass         == Legacy(FALSE, {0}, 2..5)
uapsd           == Legacy(FALSE, {0}, 2..7)
wakeaction      == Legacy(FALSE, {0}, {3})
twt             == Legacy(FALSE, {0}, 3..MaxArgc)

\* A wrong count is taken for a question: usage, and 0.
ecsa_info == Legacy(FALSE, (0..MaxArgc) \ {13}, {13})

\* -h, and options that name no command or no frame, end it with 0 and nothing sent.
vendor_ie == [Legacy(FALSE, {0}, 2..MaxArgc) EXCEPT !.wrong = {-1, 0}]

-------------------------------------------------------------------------------
(* Queries and the like.                                                       *)
coredump   == Legacy(FALSE, {0}, {1})
health     == Legacy(TRUE,  {0}, {1})
hw_version == Legacy(TRUE,  {0}, {1})
macaddr    == Legacy(TRUE,  {0}, {1, 3})
otp        == Legacy(TRUE,  {0}, {2, 4})
version    == ArgTable(TRUE)
tx_pkt_lifetime_us == Legacy(TRUE, {0}, {2})

\* The retcode of the answer decides what is printed and not what is returned.
dhcpc == [Legacy(FALSE, {0}, {2}) EXCEPT !.refusal = {0}]

\* Alone it queries, with `airtime` too, for which the answer has to be in burst mode;
\* else it sets, with one of two commands by the transport.
duty_cycle == [Legacy(TRUE, {0}, 1..MaxArgc) EXCEPT !.refusal = {-1}]

-------------------------------------------------------------------------------
(* Generic parameters and offloads.                                            *)
get == [Legacy(TRUE, {0}, {2}) EXCEPT !.wrong = {1}, !.nomem = 2,
                                       !.flat = TRUE]
set == [Legacy(TRUE, {0}, 3..MaxArgc) EXCEPT !.wrong = {1, 2}, !.nomem = 2,
                                                !.flat = TRUE]

raw           == ArgTable(FALSE)
tcp_keepalive == ArgTable(TRUE)
whitelist     == ArgTable(TRUE)

\* Without memory it returns what it started from, and that is 0.
arp_periodic_refresh ==
  [ArgTable(TRUE) EXCEPT !.wrong = {-1, 22}, !.nomem = 0]

-------------------------------------------------------------------------------
\* The table, less the commands with a course of their own.
Simple ==
  [ampdu |-> ampdu, arp_periodic_refresh |-> arp_periodic_refresh, bsscolor |-> bsscolor,
   cac |-> cac, coredump |-> coredump, cts_self_ps |-> cts_self_ps, dhcpc |-> dhcpc,
   duty_cycle |-> duty_cycle, dynamic_peering |-> dynamic_peering, ecsa_info |-> ecsa_info,
   get |-> get, health |-> health, hw_version |-> hw_version, keepalive |-> keepalive,
   li |-> li, long_sleep |-> long_sleep, macaddr |-> macaddr, maxampdulen |-> maxampdulen,
   mbca |-> mbca, mbssid |-> mbssid, mesh_config |-> mesh_config, mpsw |-> mpsw,
   opclass |-> opclass, otp |-> otp, raw |-> raw, set |-> set,
   tcp_keepalive |-> tcp_keepalive, twt |-> twt, tx_pkt_lifetime_us |-> tx_pkt_lifetime_us,
   uapsd |-> uapsd, vendor_ie |-> vendor_ie, version |-> version,
   wakeaction |-> wakeaction, whitelist |-> whitelist]

\* The others have a course of their own; `reset` alone requires no interface.  All may be
\* sent to a chip directly, and all but standby leave their arguments to main.
Others == {"channel", "load_elf", "reset", "standby", "stats"}

Names == DOMAIN Simple \cup Others

Form(c)   == IF c \in DOMAIN Simple THEN Simple[c].form
             ELSE IF c = "standby" THEN "legacy" ELSE "argtable"
Direct(c) == c \in Others \/ Simple[c].direct
Intf(c)   == c # "reset"

===============================================================================
