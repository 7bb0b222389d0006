------------------------------- MODULE GpioReset -------------------------------
(***************************************************************************)
(* `reset` over a GPIO of the host, morsectrl_reset (src/reset.c): the pin *)
(* is exported, driven low, made an input again and unexported through     *)
(* /sys/class/gpio (src/gpioctrl.c), which all processes share.            *)
(*                                                                         *)
(* Any access may fail and any process may be killed between two accesses. *)
(***************************************************************************)
EXTENDS Integers, FiniteSets

CONSTANTS Procs,    \* the processes, each of which runs one reset
          Pin       \* the number of the pin

VARIABLES pc,        \* [Procs -> the access to come, "done" or "killed"]
          ret,       \* [Procs -> what morsectrl_reset returns]
          low,       \* History: processes since whose gpio_set_dir "out" the pin was low
          sent,      \* History: processes whose pin was low for all of RESET_TIME_MS
          last,      \* History: the last process to be done or killed
          crowded,   \* History: processes that have not had the pin to themselves
          exported,  \* the pins under /sys/class/gpio
          direction, \* of the pin
          value      \* what it drives as an output

vars == <<pc, ret, low, sent, last, crowded, exported, direction, value>>

\* Nothing pulls an input low: the chip's reset line is high.
Level == IF direction = "out" THEN value ELSE 1

\* The first two digits of n, of which snprintf has made a string.
TwoDigits[n \in Nat] == IF n < 100 THEN n ELSE TwoDigits[n \div 10]

\* gpio_sysfs_write gives the kernel two characters, whatever the pin.
SysfsPin == TwoDigits[Pin]

Present == Pin \in exported

Init ==
  /\ pc = [p \in Procs |-> "start"] /\ ret = [p \in Procs |-> 0]
  /\ low = {} /\ sent = {} /\ last = "none" /\ crowded = {}
  /\ exported = {} /\ direction = "in" /\ value \in {0, 1}

-------------------------------------------------------------------------------
Goto(p, next) ==
  /\ pc' = [pc EXCEPT ![p] = next]
  /\ last' = IF next \in {"done", "killed"} THEN p ELSE last

Continue(p, next) == Goto(p, next) /\ UNCHANGED ret

Return(p, r) == Goto(p, "done") /\ ret' = [ret EXCEPT ![p] = r]

\* The pin becomes an input: every process's pulse is over.
LetGo == direction' = "in" /\ low' = {} /\ UNCHANGED value

Running == {p \in Procs : pc[p] \notin {"start", "done", "killed"}}

\* gpio_export: an exported pin is taken as it is.
Look(p) ==
  /\ pc[p] = "start"
  /\ crowded' = IF Running = {} THEN crowded ELSE crowded \cup Running \cup {p}
  /\ Continue(p, IF Present THEN "out" ELSE "export")
  /\ UNCHANGED <<low, sent, exported, direction, value>>

\* The kernel refuses a pin that is exported already.
Export(p) ==
  /\ pc[p] = "export"
  /\ \/ /\ SysfsPin \notin exported
        /\ exported' = exported \cup {SysfsPin}
        /\ Continue(p, "out")
     \/ Return(p, -1) /\ UNCHANGED exported
  /\ UNCHANGED <<low, sent, direction, value>>

\* gpio_set_dir "out", which drives low.
DirectionOut(p) ==
  /\ pc[p] = "out"
  /\ \/ /\ Present
        /\ direction' = "out" /\ value' = 0 /\ low' = low \cup {p}
        /\ Continue(p, "value")
     \/ Return(p, -1) /\ UNCHANGED <<low, direction, value>>
  /\ UNCHANGED <<sent, exported>>

\* gpio_set_val 0, which the kernel refuses for an input.
DriveLow(p) ==
  /\ pc[p] = "value"
  /\ \/ /\ Present /\ direction = "out"
        /\ value' = 0
        /\ Continue(p, "in")
     \/ Return(p, -1) /\ UNCHANGED value
  /\ UNCHANGED <<low, sent, exported, direction>>

\* Mutant: an error of gpio_set_dir is ignored.
DirectionIn_Ignored(p) ==
  /\ pc[p] = "in"
  /\ \/ Present /\ LetGo /\ Continue(p, "look")
     \/ Continue(p, "look") /\ UNCHANGED <<low, direction, value>>
  /\ sent' = IF p \in low THEN sent \cup {p} ELSE sent
  /\ UNCHANGED exported

\* gpio_set_dir "in", after RESET_TIME_MS.
DirectionIn(p) ==
  /\ pc[p] = "in"
  /\ \/ Present /\ LetGo /\ Continue(p, "look")
     \/ Return(p, -1) /\ UNCHANGED <<low, direction, value>>
  /\ sent' = IF p \in low THEN sent \cup {p} ELSE sent
  /\ UNCHANGED exported

\* gpio_unexport: a pin that is not exported is left so.
LookAgain(p) ==
  /\ pc[p] = "look"
  /\ IF Present THEN Continue(p, "unexport") ELSE Return(p, 0)
  /\ UNCHANGED <<low, sent, exported, direction, value>>

\* A pin that is let go stays as it is or becomes an input, as the driver has it.
Unexport(p) ==
  /\ pc[p] = "unexport"
  /\ \/ /\ SysfsPin \in exported
        /\ exported' = exported \ {SysfsPin}
        /\ LetGo \/ UNCHANGED <<low, direction, value>>
        /\ Return(p, 0)
     \/ Return(p, -1) /\ UNCHANGED <<low, exported, direction, value>>
  /\ UNCHANGED sent

Kill(p) ==
  /\ p \in Running
  /\ Continue(p, "killed")
  /\ UNCHANGED <<low, sent, exported, direction, value>>

Access(p) ==
  \/ Export(p) \/ DirectionOut(p) \/ DriveLow(p) \/ DirectionIn(p)
  \/ LookAgain(p) \/ Unexport(p) \/ Kill(p)

Next == \E p \in Procs : Look(p) \/ (Access(p) /\ UNCHANGED crowded)

Spec == Init /\ [][Next]_vars

-------------------------------------------------------------------------------
\* Every variable keeps to its type.
TypeOK ==
  /\ pc \in [Procs -> {"start", "export", "out", "value", "in", "look", "unexport",
                       "done", "killed"}]
  /\ ret \in [Procs -> {0, -1}]
  /\ low \subseteq Procs /\ sent \subseteq Procs /\ last \in Procs \cup {"none"}
  /\ crowded \subseteq Procs
  /\ exported \subseteq {SysfsPin} /\ direction \in {"in", "out"} /\ value \in {0, 1}
  /\ low # {} => Level = 0

Succeeded == {p \in Procs : pc[p] = "done" /\ ret[p] = 0}

\* A reset that has had the pin to itself and returns 0 has held the chip in reset
\* and has let go of it, whatever the failed, killed or simultaneous resets before it
\* left behind.
LastReleases ==
  Running = {} /\ last \in Succeeded \ crowded => Level = 1 /\ last \in sent

\* If no process fails or is killed, the chip is left out of reset, in whatever order
\* they reach the pin they share.
AllRelease == Succeeded = Procs => Level = 1

===============================================================================
