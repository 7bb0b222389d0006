-------------------------------- MODULE Standby --------------------------------
(***************************************************************************)
(* `standby` (src/standby.c) as several processes run it against one chip: *)
(* `store` puts the current channel into a session file when wpa_supplicant*)
(* has associated, `enter <dir>` loads that file, sets the channel and puts*)
(* the firmware into standby; `enter` alone does the latter only.  `config *)
(* <file>` sets the wake filter and then the configuration.                *)
(*                                                                         *)
(* A command is carried out or not, and is answered with status 0 or with  *)
(* a positive one (command.c knows 110, a timeout), or what send_command   *)
(* returns is negative, an error of the transport or of the firmware.  Or  *)
(* the transport returns 0 without an answer (ftdi_spi after a timeout,    *)
(* nl80211 after an acknowledgement alone), and the status is what malloc  *)
(* left in the buffer.                                                     *)
(* Processes are killed between any two steps.                             *)
(***************************************************************************)
EXTENDS Integers, FiniteSets

CONSTANTS Stores, Enters, Configs, \* the processes, by subcommand
          Bare,       \* the `enter`s without a directory
          Channels,   \* what the firmware may be tuned to
          NoFilter,   \* the config files (named as their processes) without a filter
          Parallel    \* whether processes run at the same time

Procs == Stores \cup Enters \cup Bare \cup Configs

ASSUME StandbyAssumption ==
  /\ NoFilter \subseteq Configs /\ Parallel \in BOOLEAN
  /\ Stores \cap Enters = {} /\ Bare \cap (Stores \cup Enters) = {}
  /\ Configs \cap (Stores \cup Enters \cup Bare) = {}

Absent == "absent"
Empty  == "empty"     \* fopen "w" has cut the file and nothing is written yet
Junk   == "junk"      \* what malloc left in a buffer
None   == "none"

VARIABLES pc,      \* [Procs -> the step to come, "done" or "killed"]
          held,    \* [Procs -> the channel in the process's buffer]
          session, \* the session file: Absent, Empty or the channel it holds
          tuned,   \* the firmware's channel
          setter,  \* History: the `enter` whose SET_CHANNEL was the last to be carried out
          unheard, \* History: those whose SET_CHANNEL came back with 0 and no answer
          asleep,  \* whose STANDBY_MODE_CMD_ENTER put the firmware into standby
          filter,  \* whose wake filter the firmware has
          config   \* whose configuration it has

firmware == <<tuned, setter, unheard, asleep, filter, config>>
vars == <<pc, held, session, firmware>>

Init ==
  /\ pc = [p \in Procs |-> "start"] /\ held = [p \in Procs |-> Junk]
  /\ session \in {Absent} \cup Channels /\ tuned \in Channels
  /\ setter = None /\ unheard = {} /\ asleep = None /\ filter = None /\ config = None

-------------------------------------------------------------------------------
Goto(p, next) == pc' = [pc EXCEPT ![p] = next]

\* The end of the process; what it returns is the last command's outcome, or -1.
Return(p) == Goto(p, "done")

Running == {p \in Procs : pc[p] \notin {"start", "done", "killed"}}

\* What send_command returns; but for 0 in an answer it is open whether the command was
\* carried out.
Accepted == 0
Refused  == 1    \* a positive status, in a response without a body
Lost     == -1   \* an error

Start(p) ==
  /\ pc[p] = "start"
  /\ Parallel \/ Running = {}
  /\ Goto(p, CASE p \in Stores -> "query"  [] p \in Enters  -> "load"
               [] p \in Bare   -> "enter"  [] p \in Configs -> "filter")
  /\ UNCHANGED <<held, session, firmware>>

\* standby_store_session_cmd: GET_FULL_CHANNEL.  Only negative values end it; a
\* positive status goes on with a response that holds nothing.
Query(p) ==
  /\ pc[p] = "query"
  /\ \/ held' = [held EXCEPT ![p] = tuned] /\ Goto(p, "open")
     \/ Goto(p, "open") /\ UNCHANGED held
     \/ Return(p) /\ UNCHANGED held
  /\ UNCHANGED <<session, firmware>>

\* standby_session_store: fopen "w".
Open(p) ==
  /\ pc[p] = "open"
  /\ \/ session' = Empty /\ Goto(p, "close")
     \/ Return(p) /\ UNCHANGED session
  /\ UNCHANGED <<held, firmware>>

\* fclose writes out what fprintf has buffered; its result is not looked at.
Close(p) ==
  /\ pc[p] = "close"
  /\ session' \in {held[p], session}
  /\ Return(p)
  /\ UNCHANGED <<held, firmware>>

\* standby_session_load, which may fail to open the file.  Without lines a file is
\* parsed successfully, and the command keeps what its buffer held.
Load(p) ==
  /\ pc[p] = "load"
  /\ \/ Return(p) /\ UNCHANGED held
     \/ session = Empty /\ Goto(p, "channel") /\ UNCHANGED held
     \/ /\ session \notin {Absent, Empty}
        /\ held' = [held EXCEPT ![p] = session] /\ Goto(p, "channel")
  /\ UNCHANGED <<session, firmware>>

\* Mutant: the check is for negative values alone.
Stops_Negative(r) == r < 0

\* standby() gives up when process_standby_enter returns anything but 0.
Stops(r) == r # 0

\* SET_CHANNEL; without an answer it is open whether the channel was set.
SetChannel(p) ==
  /\ pc[p] = "channel"
  /\ \E r \in {Accepted, Refused, Lost}, heard \in BOOLEAN :
       /\ \/ tuned' = held[p] /\ setter' = p
          \/ ~(heard /\ r = Accepted) /\ UNCHANGED <<tuned, setter>>
       /\ unheard' = IF heard \/ r # Accepted THEN unheard ELSE unheard \cup {p}
       /\ IF Stops(r) THEN Return(p) ELSE Goto(p, "enter")
  /\ UNCHANGED <<held, session, asleep, filter, config>>

\* STANDBY_MODE_CMD_ENTER, the last command.
Enter(p) ==
  /\ pc[p] = "enter"
  /\ asleep' \in {asleep, p}
  /\ Return(p)
  /\ UNCHANGED <<held, session, tuned, setter, unheard, filter, config>>

\* process_set_config_cmd: SET_WAKE_FILTER, if the file has a filter; the old one
\* stays in the firmware otherwise.
SetFilter(p) ==
  /\ pc[p] = "filter"
  /\ IF p \in NoFilter THEN Goto(p, "config") /\ UNCHANGED filter
     ELSE /\ filter' \in {filter, p}
          /\ Goto(p, "config") \/ Return(p)
  /\ UNCHANGED <<held, session, tuned, setter, unheard, asleep, config>>

\* STANDBY_MODE_CMD_SET_CONFIG_V2.
SetConfig(p) ==
  /\ pc[p] = "config"
  /\ config' \in {config, p}
  /\ Return(p)
  /\ UNCHANGED <<held, session, tuned, setter, unheard, asleep, filter>>

Kill(p) ==
  /\ p \in Running
  /\ Goto(p, "killed")
  /\ UNCHANGED <<held, session, firmware>>

Step(p) ==
  \/ Start(p) \/ Query(p) \/ Open(p) \/ Close(p) \/ Load(p) \/ SetChannel(p)
  \/ Enter(p) \/ SetFilter(p) \/ SetConfig(p)

Next == \E p \in Procs : Step(p) \/ Kill(p)

Spec == Init /\ [][Next]_vars

-------------------------------------------------------------------------------
\* Every variable keeps to its type.
TypeOK ==
  /\ pc \in [Procs -> {"start", "query", "open", "close", "load", "channel", "enter",
                       "filter", "config", "done", "killed"}]
  /\ held \in [Procs -> Channels \cup {Junk}]
  /\ session \in {Absent, Empty, Junk} \cup Channels
  /\ tuned \in Channels \cup {Junk} /\ setter \in Enters \cup {None}
  /\ unheard \subseteq Enters /\ asleep \in Enters \cup Bare \cup {None}
  /\ filter \in Configs \cup {None} /\ config \in Configs \cup {None}

\* "Set the channel before we go to sleep" (standby.c:576), processes one after the
\* other: when an `enter` with a directory puts the firmware to sleep, the firmware is
\* tuned to the channel this very process has given it, whatever failed or killed
\* processes and `enter`s without one did: unless its SET_CHANNEL had no answer and was
\* taken for accepted.
SleepsOnOwnChannel ==
  [][\A p \in Enters \ unheard :
       asleep' = p /\ asleep # p => setter = p /\ tuned = held[p]]_vars

\* "load the saved standby parameters" (standby.c:558): what SET_CHANNEL is given
\* is a channel that some process has saved.
LoadedWasSaved == \A p \in Enters : pc[p] = "channel" => held[p] # Junk

===============================================================================
