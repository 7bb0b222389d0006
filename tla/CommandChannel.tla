---------------------------- MODULE CommandChannel ----------------------------
(***************************************************************************)
(* What morsectrl_transport_send promises its callers, whatever the        *)
(* transport (src/transport/transport.h): commands are issued one at a     *)
(* time; the device executes a command at most once, perhaps after the     *)
(* caller has given up on it; and a command that is reported as answered   *)
(* was executed, and its answer is its own.                                *)
(***************************************************************************)
EXTENDS Naturals, Sequences

VARIABLES calls,     \* calls[c]: what the caller knows of its c-th command
          executed   \* the commands the device has executed

cvars == <<calls, executed>>

CallState == {"pending", "answered", "failed"}

TypeOK == calls \in Seq(CallState) /\ executed \subseteq DOMAIN calls

Init == calls = <<>> /\ executed = {}

NonePending == \A c \in DOMAIN calls : calls[c] # "pending"

\* A command that cannot even be transmitted fails at once.
Issue == /\ NonePending
         /\ \E s \in {"pending", "failed"} : calls' = Append(calls, s)
         /\ UNCHANGED executed

Execute(c) == /\ c \notin executed
              /\ executed' = executed \cup {c}
              /\ UNCHANGED calls

Answer(c) == /\ calls[c] = "pending" /\ c \in executed
             /\ calls' = [calls EXCEPT ![c] = "answered"]
             /\ UNCHANGED executed

Fail(c) == /\ calls[c] = "pending"
           /\ calls' = [calls EXCEPT ![c] = "failed"]
           /\ UNCHANGED executed

Next == Issue \/ \E c \in DOMAIN calls : Execute(c) \/ Answer(c) \/ Fail(c)

Spec == Init /\ [][Next]_cvars

===============================================================================
