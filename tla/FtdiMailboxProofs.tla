--------------------------- MODULE FtdiMailboxProofs ---------------------------
(***************************************************************************)
(* Proofs about module FtdiMailbox, for every number of commands, polls    *)
(* and failing accesses: but for the commands that were sent before the    *)
(* firmware was done with an earlier one, and for those of which a failed  *)
(* transfer went unnoticed, a response reaches its own caller only; no     *)
(* command is executed twice; and the mailbox implements CommandChannel.   *)
(***************************************************************************)
EXTENDS FtdiMailbox, SequenceTheorems, TLAPS

\* The steps before the doorbell may ring for the current command.
Preparing == {"locate", "clear", "write", "trigger"}

Torn == Current \in torn

\* Whose the two buffers are, of a command that was sent to a settled firmware:
\* memory does not say, the order of the steps does.
Alone ==
  Current \notin crowded =>
    /\ pc \in Preparing => Settled /\ runs[Current] = 0
    /\ pc \in {"write", "trigger"} => ~status
    /\ doorbell => fw = None /\ (cmdMem = Current \/ Torn)
    /\ fw \in {None, Current} \/ Torn
    /\ (pc = "poll" /\ status) \/ pc = "read" => Settled /\ (respMem = Current \/ Torn)

Mailbox ==
  /\ pc \in Steps => Current \in Command
  /\ pc = "poll" => polls < MaxPolls
  /\ pc = "trigger" => cmdMem # None /\ (cmdMem = Current \/ Torn)
  /\ Alone

\* The commands that may be executed more than once.
Excused(c, cr, t) == c \in cr \/ \E d \in t : d > c

\* What was executed, answered and handed over so far.
History ==
  /\ \A c \in Command : c \in {fw, respMem} \/ reply[c] = c => runs[c] > 0
  /\ pc \in Steps \ {"clearAgain"} => reply[Current] = None
  /\ doorbell /\ cmdMem \in Command => runs[cmdMem] = 0 \/ Excused(cmdMem, crowded, torn)

IInv == TypeOK /\ Mailbox /\ History /\ OwnResponse /\ ExecutedOnce

-------------------------------------------------------------------------------
\* A table with an entry for every command, after the next command is added.
LEMMA AppendTable ==
  ASSUME NEW T, NEW n \in Nat, NEW t \in [1..n -> T], NEW e \in T
  PROVE  /\ Append(t, e) \in [1..(n + 1) -> T]
         /\ \A c \in 1..n : Append(t, e)[c] = t[c]
         /\ Append(t, e)[n + 1] = e
<1>1. t \in Seq(T) /\ Len(t) = n
  OBVIOUS
<1>2. /\ Append(t, e) \in Seq(T) /\ Len(Append(t, e)) = Len(t) + 1
      /\ \A i \in 1..Len(t) : Append(t, e)[i] = t[i]
      /\ Append(t, e)[Len(t) + 1] = e
  BY <1>1, AppendProperties
<1>3. Append(t, e) \in [1..(n + 1) -> T]
  BY <1>1, <1>2, LenProperties
<1>. QED  BY <1>1, <1>2, <1>3

\* Tables that agree are the same.
LEMMA SameTable ==
  ASSUME NEW S, NEW T, NEW f \in [S -> T], NEW g \in [S -> T], \A x \in S : f[x] = g[x]
  PROVE  f = g
OBVIOUS

Result == {"pending", "answered", "failed"}

\* Settling the current command leaves none pending and the others as they were.
LEMMA SettlesCurrent ==
  ASSUME IInv, pc \in Steps, NEW r \in {"answered", "failed"}, Settle(r)
  PROVE  /\ outcome' \in Seq(Result) /\ Command' = Command /\ Current' = Current
         /\ outcome'[Current] = r
         /\ \A c \in Command : outcome'[c] # "pending" /\ (c # Current => outcome'[c] = outcome[c])
<1>1. outcome \in Seq(Result) /\ Current \in Command
  BY DEF IInv, TypeOK, Mailbox, Result
<1>2. Len(outcome) \in Nat /\ Command = 1..Len(outcome)
  BY <1>1 DEF Command
<1>3. outcome' \in [1..Len(outcome) -> Result]
  BY <1>1, <1>2 DEF Settle, Result
<1>4. outcome' \in Seq(Result) /\ Len(outcome') = Len(outcome) /\ DOMAIN outcome' = DOMAIN outcome
  BY <1>2, <1>3, LenProperties DEF Command
<1>5. \A c \in Command : outcome[c] = "pending" => c = Current
  BY DEF IInv, TypeOK
<1>6. outcome'[Current] = r /\ \A c \in Command : c # Current => outcome'[c] = outcome[c]
  BY <1>1, <1>2 DEF Settle, Command
<1>7. Command' = Command /\ Current' = Current
  BY <1>4 DEF Command, Current
<1>. QED  BY <1>1, <1>4, <1>5, <1>6, <1>7

\* Commands are numbers, and none of them is None or Mixed.
LEMMA Commands ==
  ASSUME TypeOK
  PROVE  /\ Current \in Nat /\ Command = 1..Current /\ None \notin Command /\ Mixed \notin Command
         /\ Current \notin Command => Current = None
BY DEF TypeOK, Command, Current, None, Mixed

\* The invariant holds before any process has started.
LEMMA InitInv == Init => IInv
<1> SUFFICES ASSUME Init PROVE IInv
  OBVIOUS
<1>1. outcome = <<>> /\ Command = {} /\ Current = 0 /\ pc = "down" /\ pc \notin Steps \cup Preparing
  BY DEF Init, Command, Current, Steps, Preparing
<1>2. TypeOK
  <2>1. /\ outcome \in Seq(Result) /\ reply \in [Command -> {None, Mixed} \cup Command]
        /\ runs \in [Command -> Nat]
    BY <1>1 DEF Init
  <2>2. polls \in 0..MaxPolls /\ faults \in Nat
    BY FtdiMailboxAssumption DEF Init
  <2>. QED  BY <1>1, <2>1, <2>2 DEF Init, TypeOK, Result, None
<1>3. Mailbox /\ History
  BY <1>1 DEF Init, Mailbox, Alone, History, None
<1>. QED  BY <1>1, <1>2, <1>3 DEF IInv, OwnResponse, ExecutedOnce

\* A command that is sent finds the doorbell silent and the firmware done, or is
\* one of the crowded.
LEMMA SendInv == ASSUME IInv, Send PROVE IInv'
<1> DEFINE n == Len(outcome)
<1>1. /\ outcome \in Seq(Result) /\ n \in Nat /\ Command = 1..n /\ Current = n
      /\ reply \in [1..n -> {None, Mixed} \cup (1..n)] /\ runs \in [1..n -> Nat]
      /\ crowded \subseteq 1..n /\ torn \subseteq 1..n
  BY DEF IInv, TypeOK, Command, Current, Result
<1> HIDE DEF n
<1>2. /\ outcome' \in Seq(Result) /\ Len(outcome') = n + 1 /\ Command' = 1..(n + 1) /\ Current' = n + 1
      /\ \A c \in 1..n : outcome'[c] = outcome[c]
      /\ outcome'[n + 1] = "pending"
  <2>1. outcome' = Append(outcome, "pending") /\ "pending" \in Result
    BY DEF Send, Result
  <2>2. /\ outcome' \in Seq(Result) /\ Len(outcome') = n + 1
        /\ \A c \in 1..n : outcome'[c] = outcome[c]
        /\ outcome'[n + 1] = "pending"
    BY <1>1, <2>1, AppendProperties DEF n
  <2>. QED  BY <2>2, LenProperties DEF Command, Current
<1>3. /\ reply' \in [1..(n + 1) -> {None, Mixed} \cup (1..(n + 1))]
      /\ \A c \in 1..n : reply'[c] = reply[c]
      /\ reply'[n + 1] = None
  <2>1. reply \in [1..n -> {None, Mixed} \cup (1..(n + 1))]
    BY <1>1
  <2>2. reply' = Append(reply, None) /\ None \in {None, Mixed} \cup (1..(n + 1))
    BY DEF Send
  <2> DEFINE T == {None, Mixed} \cup (1..(n + 1))
  <2> HIDE DEF T
  <2>3. n \in Nat /\ reply \in [1..n -> T] /\ None \in T
    BY <1>1, <2>1, <2>2 DEF T
  <2>4. Append(reply, None) \in [1..(n + 1) -> T]
    BY <2>3, AppendTable
  <2>5. \A c \in 1..n : Append(reply, None)[c] = reply[c]
    BY <2>3, AppendTable
  <2>6. Append(reply, None)[n + 1] = None
    BY <2>3, AppendTable
  <2>. QED  BY <2>2, <2>4, <2>5, <2>6 DEF T
<1>4. /\ runs' \in [1..(n + 1) -> Nat]
      /\ \A c \in 1..n : runs'[c] = runs[c]
      /\ runs'[n + 1] = 0
  <2>1. runs' = Append(runs, 0) /\ 0 \in Nat
    BY DEF Send
  <2>2. Append(runs, 0) \in [1..(n + 1) -> Nat]
    BY <1>1, <2>1, AppendTable
  <2>3. \A c \in 1..n : Append(runs, 0)[c] = runs[c]
    BY <1>1, <2>1, AppendTable
  <2>4. Append(runs, 0)[n + 1] = 0
    BY <1>1, <2>1, AppendTable
  <2>. QED  BY <2>1, <2>2, <2>3, <2>4
<1>5. /\ pc' = "locate" /\ pc = "idle"
      /\ UNCHANGED <<polls, cmdMem, respMem, status, doorbell, fw, torn, faults>>
  BY DEF Send, chip
<1>6. /\ crowded' = IF Settled THEN crowded ELSE crowded \cup {n + 1}
      /\ n + 1 \notin crowded /\ n + 1 \notin torn
  BY <1>1 DEF Send
<1>7. \A c \in Command' : c \in Command \/ c = n + 1
  BY <1>1, <1>2
<1>8. TypeOK'
  <2>1. \A c \in 1..n : outcome[c] # "pending"
    BY <1>1, <1>5 DEF IInv, TypeOK, Steps
  <2>2. \A c \in Command' : outcome'[c] = "pending" <=> c = Current' /\ pc' \in Steps'
    BY <1>1, <1>2, <1>5, <2>1 DEF Steps
  <2>3. {cmdMem, respMem, fw} \subseteq {None, Mixed} \cup (1..n)
    BY <1>1 DEF IInv, TypeOK
  <2>4. {cmdMem', respMem', fw'} \subseteq {None, Mixed} \cup (1..(n + 1))
    BY <1>1, <1>5, <2>3
  <2>5. /\ pc' \in {"down", "idle"} \cup Steps /\ polls' \in 0..MaxPolls
        /\ status' \in BOOLEAN /\ doorbell' \in BOOLEAN /\ faults' \in Nat
        /\ (doorbell' => cmdMem' # None)
    BY <1>5 DEF IInv, TypeOK, Steps
  <2>6. crowded' \subseteq 1..(n + 1) /\ torn' \subseteq 1..(n + 1)
    BY <1>1, <1>5, <1>6
  <2>. QED  BY <1>2, <1>3, <1>4, <2>2, <2>4, <2>5, <2>6 DEF TypeOK, Result, None, Mixed, Steps
<1>9. Mailbox'
  <2>1. Current' \notin crowded' => Settled' /\ ~doorbell'
    BY <1>2, <1>5, <1>6 DEF Settled, None
  <2>2. runs'[Current'] = 0 /\ Current' \in Command'
    BY <1>1, <1>2, <1>4
  <2>3. Alone'
    BY <1>5, <2>1, <2>2 DEF Alone, Settled, None
  <2>. QED  BY <1>5, <2>2, <2>3 DEF Mailbox
<1>10. History'
  <2>1. {cmdMem, respMem, fw} \subseteq {None, Mixed} \cup (1..n) /\ n + 1 \notin {None, Mixed}
    BY <1>1 DEF IInv, TypeOK, None, Mixed
  <2>2. \A c \in Command' : c \in {fw', respMem'} \/ reply'[c] = c => runs'[c] > 0
    <3>1. ASSUME NEW c \in Command', c \in {fw', respMem'} \/ reply'[c] = c PROVE c \in Command
      BY <1>1, <1>2, <1>3, <1>5, <1>7, <2>1, <3>1 DEF None
    <3>. QED  BY <1>1, <1>3, <1>4, <1>5, <3>1 DEF IInv, History
  <2>3. \A c \in Command : Excused(c, crowded, torn) => Excused(c, crowded', torn')
    BY <1>5, <1>6 DEF Excused
  <2>4. doorbell' /\ cmdMem' \in Command' => runs'[cmdMem'] = 0 \/ Excused(cmdMem', crowded', torn')
    <3>1. SUFFICES ASSUME doorbell, cmdMem \in Command'
                   PROVE  runs'[cmdMem] = 0 \/ Excused(cmdMem, crowded', torn')
      BY <1>5 DEF Excused
    <3>2. cmdMem \in Command
      BY <1>1, <1>7, <2>1, <3>1
    <3>3. runs[cmdMem] = 0 \/ Excused(cmdMem, crowded, torn)
      BY <3>1, <3>2 DEF IInv, History
    <3>4. runs'[cmdMem] = runs[cmdMem]
      BY <1>1, <1>4, <3>2
    <3>. QED  BY <2>3, <3>2, <3>3, <3>4
  <2>5. reply'[Current'] = None'
    BY <1>2, <1>3 DEF None
  <2>. QED  BY <2>2, <2>4, <2>5 DEF History
<1>11. OwnResponse' /\ ExecutedOnce'
  <2>1. \A c \in Command' : reply'[c] \in {None, c} \/ c \in crowded' \cup torn'
    BY <1>1, <1>3, <1>5, <1>6, <1>7 DEF IInv, OwnResponse
  <2>2. \A c \in Command' : runs'[c] > 1 => c \in crowded' \/ \E d \in torn' : d > c
    BY <1>1, <1>4, <1>5, <1>6, <1>7 DEF IInv, ExecutedOnce
  <2>. QED  BY <2>1, <2>2 DEF OwnResponse, ExecutedOnce, None
<1>. QED  BY <1>8, <1>9, <1>10, <1>11 DEF IInv

\* What must hold of the doorbell after a step that lets nothing run: it rings for a
\* command that has not run, or that is excused.
Rings(c, t) ==
  /\ c # None
  /\ Current \notin crowded => fw = None /\ (c = Current \/ Current \in t)
  /\ c \in Command => runs[c] = 0 \/ Excused(c, crowded, torn)

\* Whatever is torn later excuses no fewer.
LEMMA TornMore ==
  ASSUME torn \subseteq torn', crowded' = crowded
  PROVE  \A c : Excused(c, crowded, torn) => Excused(c, crowded', torn')
BY DEF Excused

\* A step after which the current command is settled and the process is idle or gone,
\* and which changed neither who ran nor what is in the response buffer.
LEMMA SettleInv ==
  ASSUME IInv, pc \in Steps, NEW r \in {"answered", "failed"}, Settle(r),
         pc' \in {"down", "idle"}, polls' \in 0..MaxPolls, faults' \in Nat,
         cmdMem' \in {None, Mixed} \cup Command, status' \in BOOLEAN, doorbell' \in BOOLEAN,
         doorbell' => Rings(cmdMem', torn),
         UNCHANGED <<respMem, fw, reply, runs, crowded, torn>>
  PROVE  IInv'
<1>1. /\ outcome' \in Seq(Result) /\ Command' = Command /\ Current' = Current /\ Current \in Command
      /\ \A c \in Command : outcome'[c] # "pending"
  BY SettlesCurrent DEF IInv, Mailbox
<1>2. /\ pc' \in {"down", "idle"} \cup Steps' /\ pc' \notin Steps' /\ None' = None /\ Mixed' = Mixed
      /\ pc' \notin {"poll", "read", "write", "trigger", "clearAgain"} \cup Preparing'
  BY DEF Steps, Preparing, None, Mixed
<1>3. TypeOK'
  BY <1>1, <1>2 DEF IInv, TypeOK, Result, Rings
<1>4. Mailbox'
  BY <1>1, <1>2 DEF IInv, Mailbox, Alone, Torn, Rings, Settled
<1>5. History'
  BY <1>1, <1>2, TornMore DEF IInv, History, Rings
<1>. QED  BY <1>1, <1>2, <1>3, <1>4, <1>5 DEF IInv, OwnResponse, ExecutedOnce

\* An access that is reported as failed, with its effect on the chip or without.
LEMMA FailInv ==
  ASSUME IInv, pc \in Steps, Fail, polls' \in 0..MaxPolls,
         cmdMem' \in {None, Mixed} \cup Command, status' \in BOOLEAN, doorbell' \in BOOLEAN,
         doorbell' => Rings(cmdMem', torn),
         UNCHANGED <<respMem, fw, reply, runs, crowded, torn>>
  PROVE  IInv'
<1>1. faults' \in Nat /\ pc' \in {"down", "idle"} /\ Settle("failed")
  BY DEF Fail, IInv, TypeOK
<1>. QED  BY <1>1, SettleInv

\* While the doorbell and the buffer are left alone it rings as before.
LEMMA StillRings == ASSUME IInv, doorbell PROVE Rings(cmdMem, torn)
BY DEF IInv, TypeOK, Mailbox, Alone, History, Rings, Torn

\* A step that settles no command, runs none and hands no response over.
LEMMA QuietInv ==
  ASSUME IInv, UNCHANGED <<outcome, reply, runs, crowded>>, faults' \in Nat,
         torn \subseteq torn', torn' \subseteq Command,
         pc' \in {"down", "idle"} \cup Steps, pc' \in Steps <=> pc \in Steps,
         pc' = "clearAgain" <=> pc = "clearAgain", polls' \in 0..MaxPolls,
         {cmdMem', respMem', fw'} \subseteq {None, Mixed} \cup Command,
         status' \in BOOLEAN, doorbell' \in BOOLEAN, doorbell' => cmdMem' # None,
         \A c \in Command : c \in {fw', respMem'} => runs[c] > 0,
         doorbell' /\ cmdMem' \in Command => runs[cmdMem'] = 0 \/ Excused(cmdMem', crowded', torn'),
         Mailbox'
  PROVE  IInv'
<1>1. Command' = Command /\ Current' = Current /\ Steps' = Steps /\ None' = None /\ Mixed' = Mixed
  BY DEF Command, Current, Steps, None, Mixed
<1>2. TypeOK'
  BY <1>1 DEF IInv, TypeOK
<1>3. History'
  BY <1>1 DEF IInv, History
<1>. QED  BY <1>1, <1>2, <1>3 DEF IInv, OwnResponse, ExecutedOnce

\* Every step but Send.  Each of the host's either goes on or gives up.
LEMMA StepInv ==
  ASSUME IInv, Start \/ Stop \/ Host \/ Execute \/ Respond PROVE IInv'
<1> USE DEF None, Mixed
<1>0. /\ polls \in 0..MaxPolls /\ {cmdMem, respMem, fw} \subseteq {None, Mixed} \cup Command
      /\ status \in BOOLEAN /\ doorbell \in BOOLEAN /\ (doorbell => cmdMem # None)
      /\ pc \in {"down", "idle"} \cup Steps /\ faults \in Nat /\ MaxPolls \in Nat \ {0}
      /\ Mailbox /\ History /\ TypeOK
      /\ crowded \subseteq Command /\ torn \subseteq Command
      /\ (pc \in Steps => Current \in Command)
      /\ (doorbell => Rings(cmdMem, torn))
  BY FtdiMailboxAssumption, StillRings DEF IInv, TypeOK, Mailbox
<1>1. CASE Start
  <2>1. Mailbox'
    BY <1>0, <1>1 DEF Start, Mailbox, Alone, Torn, Settled, chip, caller, trouble, Steps, Preparing,
                      Command, Current
  <2>. QED  BY <1>0, <1>1, <2>1, QuietInv, TornMore DEF Start, chip, caller, trouble, Steps, History
<1>2. CASE Stop
  <2>0. UNCHANGED <<polls, respMem, status, doorbell, fw, reply, runs, crowded, torn, faults>>
    BY <1>2 DEF Stop, trouble
  <2>1. CASE pc = "idle"
    <3>0. cmdMem' = cmdMem /\ outcome' = outcome /\ pc' = "down"
      BY <1>2, <2>1 DEF Stop
    <3>1. Mailbox'
      BY <1>0, <2>0, <2>1, <3>0 DEF Mailbox, Alone, Torn, Settled, Steps, Preparing, Command, Current
    <3>. QED  BY <1>0, <2>0, <2>1, <3>0, <3>1, QuietInv, TornMore DEF Steps, History
  <2>2. CASE pc # "idle"
    <3>1. /\ pc \in Steps /\ Settle("failed") /\ pc' \in {"down", "idle"}
          /\ cmdMem' \in {None, Mixed} \cup Command
      BY <1>0, <1>2, <2>2 DEF Stop
    <3>2. doorbell' => Rings(cmdMem', torn)
      <4>1. SUFFICES ASSUME doorbell, cmdMem' # cmdMem PROVE Rings(cmdMem', torn)
        BY <1>0, <2>0
      <4>2. cmdMem' = Mixed /\ pc = "write"
        BY <1>2, <4>1 DEF Stop
      <4>3. Current \in crowded
        BY <1>0, <4>1, <4>2 DEF Mailbox, Alone, Preparing, Settled
      <4>. QED  BY <1>0, <4>2, <4>3, Commands DEF Rings
    <3>. QED  BY <1>0, <2>0, <3>1, <3>2, SettleInv
  <2>. QED  BY <2>1, <2>2
<1>3. CASE Locate
  <2>0. pc = "locate" /\ pc \in Steps /\ UNCHANGED <<polls, chip, reply, runs, crowded, torn>>
    BY <1>3 DEF Locate, Access, Steps, trouble
  <2>1. CASE Fail
    BY <1>0, <2>0, <2>1, FailInv DEF chip
  <2>2. CASE pc' = "clear" /\ UNCHANGED <<outcome, faults>>
    <3>1. Mailbox'
      BY <1>0, <2>0, <2>2 DEF Mailbox, Alone, Torn, Settled, chip, Steps, Preparing, Command, Current
    <3>. QED  BY <1>0, <2>0, <2>2, <3>1, QuietInv, TornMore DEF chip, Steps, History
  <2>. QED  BY <1>3, <2>1, <2>2 DEF Locate, Access
<1>4. CASE ClearStatus
  <2>0. /\ pc = "clear" /\ pc \in Steps /\ status' \in {FALSE, status} /\ status' \in BOOLEAN
        /\ UNCHANGED <<polls, cmdMem, respMem, doorbell, fw, reply, runs, crowded, torn>>
    BY <1>0, <1>4 DEF ClearStatus, Access, Steps, trouble
  <2>1. CASE Fail
    BY <1>0, <2>0, <2>1, FailInv
  <2>2. CASE status' = FALSE /\ pc' = "write" /\ UNCHANGED <<outcome, faults>>
    <3>1. Mailbox'
      BY <1>0, <2>0, <2>2 DEF Mailbox, Alone, Torn, Settled, Steps, Preparing, Command, Current
    <3>. QED  BY <1>0, <2>0, <2>2, <3>1, QuietInv, TornMore DEF Steps, History
  <2>. QED  BY <1>4, <2>1, <2>2 DEF ClearStatus, Access
<1>5. CASE WriteCommand
  <2>0. /\ pc = "write" /\ pc \in Steps /\ Current \in Command /\ cmdMem' \in {Current, Mixed, cmdMem}
        /\ (doorbell => Current \in crowded)
        /\ UNCHANGED <<polls, respMem, status, doorbell, fw, reply, runs, crowded>>
    BY <1>0, <1>5 DEF WriteCommand, Steps, Mailbox, Alone, Preparing, Settled
  <2>1. cmdMem' \in {None, Mixed} \cup Command
    BY <1>0, <2>0
  <2>2. doorbell' => Rings(cmdMem', torn)
    BY <1>0, <2>0, Commands DEF Rings, Excused
  <2>3. CASE Fail /\ UNCHANGED torn
    BY <1>0, <2>0, <2>1, <2>2, <2>3, FailInv
  <2>4. CASE pc' = "trigger" /\ cmdMem' = Current /\ UNCHANGED <<outcome, torn, faults>>
    <3>1. Mailbox'
      BY <1>0, <2>0, <2>4 DEF Mailbox, Alone, Torn, Settled, Steps, Preparing, Command, Current
    <3>. QED  BY <1>0, <2>0, <2>1, <2>2, <2>4, <3>1, QuietInv, TornMore DEF Steps, History, Rings
  <2>5. CASE /\ pc' = "trigger" /\ cmdMem' \in {cmdMem, Mixed} \ {None} /\ Tear
             /\ UNCHANGED outcome
    <3>1. torn' = torn \cup {Current} /\ torn' \subseteq Command /\ faults' \in Nat
      BY <1>0, <2>0, <2>5 DEF Tear
    <3>2. Command' = Command /\ Current' = Current /\ Torn'
      BY <2>5, <3>1 DEF Command, Current, Torn
    <3>3. Mailbox'
      BY <1>0, <2>0, <2>5, <3>1, <3>2 DEF Mailbox, Alone, Settled, Steps, Preparing
    <3>4. doorbell' /\ cmdMem' \in Command => runs[cmdMem'] = 0 \/ Excused(cmdMem', crowded', torn')
      <4>1. ASSUME doorbell', cmdMem' \in Command PROVE runs[cmdMem'] = 0 \/ Excused(cmdMem', crowded, torn)
        BY <2>2, <4>1 DEF Rings
      <4>2. ASSUME Excused(cmdMem', crowded, torn) PROVE Excused(cmdMem', crowded', torn')
        BY <2>0, <3>1, <4>2 DEF Excused
      <4>. QED  BY <4>1, <4>2
    <3>. QED  BY <1>0, <2>0, <2>1, <2>5, <3>1, <3>3, <3>4, QuietInv DEF Steps, History
  <2>. QED  BY <1>5, <2>0, <2>3, <2>4, <2>5 DEF WriteCommand
<1>6. CASE Trigger
  <2>0. /\ pc = "trigger" /\ pc \in Steps /\ polls' = 0 /\ polls' \in 0..MaxPolls
        /\ UNCHANGED <<cmdMem, respMem, status, fw, reply, runs, crowded, torn>>
    BY <1>0, <1>6 DEF Trigger, Access, Steps, trouble
  <2>1. /\ cmdMem = Current \/ Current \in torn
        /\ Current \in Command /\ cmdMem # None
        /\ (Current \notin crowded => fw = None /\ runs[Current] = 0 /\ ~status)
    BY <1>0, <2>0 DEF Mailbox, Alone, Preparing, Torn, Settled
  <2>2. Rings(cmdMem, torn)
    <3>1. CASE cmdMem = Current
      BY <2>1, <3>1 DEF Rings, Excused
    <3>2. CASE cmdMem # Current
      <4>1. cmdMem \in Command => cmdMem < Current
        BY <1>0, <3>2, Commands
      <4>. QED  BY <2>1, <3>2, <4>1 DEF Rings, Excused
    <3>. QED  BY <3>1, <3>2
  <2>3. doorbell' \in BOOLEAN
    BY <1>0, <1>6 DEF Trigger, Access
  <2>4. CASE Fail
    BY <1>0, <2>0, <2>2, <2>3, <2>4, FailInv
  <2>5. CASE doorbell' = TRUE /\ pc' = "poll" /\ UNCHANGED <<outcome, faults>>
    <3>1. Mailbox'
      BY <1>0, <2>0, <2>1, <2>5 DEF Mailbox, Alone, Torn, Settled, Steps, Preparing, Command, Current
    <3>. QED  BY <1>0, <2>0, <2>1, <2>2, <2>5, <3>1, QuietInv, TornMore DEF Steps, History, Rings
  <2>. QED  BY <1>6, <2>4, <2>5 DEF Trigger, Access
<1>7. CASE Poll
  <2>0. pc = "poll" /\ pc \in Steps /\ UNCHANGED <<chip, reply, runs, crowded, torn>>
    BY <1>7 DEF Poll, Steps, trouble
  <2>1. CASE Fail /\ UNCHANGED polls
    BY <1>0, <2>0, <2>1, FailInv DEF chip
  <2>2. CASE status /\ pc' = "read" /\ UNCHANGED <<polls, outcome, faults>>
    <3>1. Mailbox'
      BY <1>0, <2>0, <2>2 DEF Mailbox, Alone, Torn, Settled, chip, Steps, Preparing, Command, Current
    <3>. QED  BY <1>0, <2>0, <2>2, <3>1, QuietInv, TornMore DEF chip, Steps, History
  <2>3. CASE polls + 1 < MaxPolls /\ polls' = polls + 1 /\ UNCHANGED <<pc, outcome, faults>>
    <3>1. Mailbox'
      BY <1>0, <2>0, <2>3 DEF Mailbox, Alone, Torn, Settled, chip, Steps, Preparing, Command, Current
    <3>. QED  BY <1>0, <2>0, <2>3, <3>1, QuietInv, TornMore DEF chip, Steps, History
  <2>4. CASE polls' = polls + 1 /\ pc' = "idle" /\ Settle("answered") /\ UNCHANGED faults
    <3>1. polls' \in 0..MaxPolls
      BY <1>0, <2>0, <2>4 DEF Mailbox
    <3>. QED  BY <1>0, <2>0, <2>4, <3>1, SettleInv DEF chip
  <2>. QED  BY <1>7, <2>1, <2>2, <2>3, <2>4 DEF Poll
<1>8. CASE ReadResponse
  <2>0. pc = "read" /\ pc \in Steps /\ Current \in Command /\ UNCHANGED <<polls, chip, runs, crowded>>
    BY <1>0, <1>8 DEF ReadResponse, Steps
  <2>1. CASE Fail /\ UNCHANGED <<reply, torn>>
    BY <1>0, <2>0, <2>1, FailInv DEF chip
  <2>2. ASSUME NEW r \in {None, Mixed, respMem}, Give(r), pc' = "clearAgain", UNCHANGED outcome,
               torn \subseteq torn', torn' \subseteq Command, faults' \in Nat,
               r \in {None, Current} \/ Current \in crowded \cup torn'
        PROVE  IInv'
    <3>1. /\ Command' = Command /\ Current' = Current /\ 0 \notin Command /\ -1 \notin Command
          /\ Current \in Command
      BY <1>0, <2>0, <2>2, Commands DEF Command, Current
    <3>2. /\ reply' \in [Command -> {None, Mixed} \cup Command] /\ reply'[Current] = r
          /\ \A c \in Command : c # Current => reply'[c] = reply[c]
      BY <1>0, <2>2, <3>1 DEF Give, TypeOK
    <3>3. TypeOK'
      BY <1>0, <2>0, <2>2, <3>1, <3>2 DEF TypeOK, chip, Steps
    <3>4. Mailbox'
      BY <1>0, <2>0, <2>2, <3>1 DEF Mailbox, Alone, Torn, Settled, chip, Steps, Preparing
    <3>5. History'
      <4>1. \A c \in Command : reply'[c] = c => runs[c] > 0
        BY <1>0, <2>2, <3>1, <3>2 DEF History
      <4>2. doorbell /\ cmdMem \in Command => runs[cmdMem] = 0 \/ Excused(cmdMem, crowded', torn')
        BY <1>0, <2>0, <2>2, TornMore DEF History
      <4>. QED  BY <1>0, <2>0, <2>2, <3>1, <4>1, <4>2 DEF History, chip, Steps
    <3>6. OwnResponse' /\ ExecutedOnce'
      BY <2>0, <2>2, <3>1, <3>2 DEF IInv, OwnResponse, ExecutedOnce
    <3>. QED  BY <3>3, <3>4, <3>5, <3>6 DEF IInv
  <2>3. CASE /\ pc' = "clearAgain" /\ UNCHANGED <<outcome, torn, faults>>
             /\ \E r \in {respMem} \cup (IF fw = None THEN {} ELSE {Mixed}) : Give(r)
    <3>1. PICK r \in {respMem} \cup (IF fw = None THEN {} ELSE {Mixed}) : Give(r)
      BY <2>3
    <3>2. Current \notin crowded \cup torn => fw = None /\ respMem = Current
      BY <1>0, <2>0 DEF Mailbox, Alone, Torn, Settled
    <3>3. r \in {None, Mixed, respMem} /\ (r \in {None, Current} \/ Current \in crowded \cup torn')
      BY <2>3, <3>1, <3>2
    <3>. QED  BY <1>0, <2>2, <2>3, <3>1, <3>3
  <2>4. CASE /\ pc' = "clearAgain" /\ Tear /\ UNCHANGED outcome /\ \E r \in {None, Mixed} : Give(r)
    BY <1>0, <2>0, <2>2, <2>4 DEF Tear
  <2>. QED  BY <1>8, <2>1, <2>3, <2>4 DEF ReadResponse
<1>9. CASE ClearAgain
  <2>1. /\ pc \in Steps /\ pc' = "idle" /\ Settle("answered") /\ faults' \in Nat
        /\ UNCHANGED <<polls, cmdMem, respMem, doorbell, fw, reply, runs, crowded, torn>>
    BY <1>0, <1>9 DEF ClearAgain, Steps, trouble
  <2>2. status' \in BOOLEAN
    BY <1>0, <1>9 DEF ClearAgain
  <2>. QED  BY <1>0, <2>1, <2>2, SettleInv
<1>10. CASE Execute
  <2>0. /\ doorbell /\ fw = None /\ doorbell' = FALSE
        /\ fw' \in {cmdMem, Mixed} /\ fw' # None /\ (fw' = cmdMem \/ pc = "write")
        /\ runs' = [c \in Command |-> IF c = fw' THEN runs[c] + 1 ELSE runs[c]]
        /\ UNCHANGED <<host, cmdMem, respMem, status, outcome, reply, crowded, torn, faults>>
    BY <1>0, <1>10 DEF Execute, caller, trouble
  <2>1. Command' = Command /\ Current' = Current /\ (Torn' <=> Torn)
    BY <2>0 DEF Command, Current, Torn
  <2>2. /\ runs' \in [Command -> Nat]
        /\ \A c \in Command : runs'[c] = IF c = fw' THEN runs[c] + 1 ELSE runs[c]
    BY <1>0, <2>0 DEF TypeOK
  <2>3. TypeOK'
    <3>1. /\ {cmdMem', respMem', fw'} \subseteq {None, Mixed} \cup Command
          /\ doorbell' \in BOOLEAN /\ ~doorbell'
      BY <1>0, <2>0
    <3>. QED  BY <1>0, <2>0, <2>1, <2>2, <3>1 DEF TypeOK, host, Steps
  <2>4. Mailbox'
    <3>1. Current \notin crowded => /\ pc \notin Preparing /\ ~(pc = "poll" /\ status) /\ pc # "read"
                                    /\ (cmdMem = Current \/ Torn)
      BY <1>0, <2>0 DEF Mailbox, Alone, Settled
    <3>2. Alone'
      BY <2>0, <2>1, <3>1 DEF Alone, host, Preparing
    <3>. QED  BY <1>0, <2>0, <2>1, <3>2 DEF Mailbox, host, Steps
  <2>5. History'
    <3>1. \A c \in Command : c \in {fw', respMem} \/ reply[c] = c => runs'[c] > 0
      BY <1>0, <2>0, <2>2 DEF History, TypeOK
    <3>. QED  BY <1>0, <2>0, <2>1, <3>1 DEF History, host, Steps
  <2>6. OwnResponse' /\ ExecutedOnce'
    <3>1. \A c \in Command : runs'[c] > 1 => c \in crowded \/ \E d \in torn : d > c
      <4>1. SUFFICES ASSUME NEW c \in Command, runs'[c] > 1 PROVE c \in crowded \/ \E d \in torn : d > c
        OBVIOUS
      <4>2. runs[c] \in Nat
        BY <1>0 DEF TypeOK
      <4>3. CASE c # fw'
        BY <2>2, <4>1, <4>3 DEF IInv, ExecutedOnce
      <4>4. CASE c = fw'
        <5>1. c = cmdMem /\ runs[c] # 0
          BY <1>0, <2>0, <2>2, <4>1, <4>2, <4>4, Commands
        <5>. QED  BY <1>0, <2>0, <5>1 DEF Rings, Excused
      <4>. QED  BY <4>3, <4>4
    <3>. QED  BY <2>0, <2>1, <3>1 DEF IInv, OwnResponse, ExecutedOnce
  <2>. QED  BY <2>3, <2>4, <2>5, <2>6 DEF IInv
<1>11. CASE Respond
  <2>0. /\ fw # None /\ respMem' = fw /\ status' = TRUE /\ fw' = None
        /\ UNCHANGED <<host, cmdMem, doorbell, outcome, reply, runs, crowded, torn, faults>>
    BY <1>11 DEF Respond, caller, trouble
  <2>1. Current \notin crowded => pc \notin Preparing /\ ~doorbell /\ (fw = Current \/ Torn)
    BY <1>0, <2>0 DEF Mailbox, Alone, Settled
  <2>2. Command' = Command /\ Current' = Current /\ (Torn' <=> Torn)
    BY <2>0 DEF Command, Current, Torn
  <2>3. Alone'
    BY <2>0, <2>1, <2>2 DEF Alone, host, Preparing, Settled
  <2>4. Mailbox'
    BY <1>0, <2>0, <2>2, <2>3 DEF Mailbox, host, Steps
  <2>5. 0 \notin Command
    BY <1>0, Commands
  <2>6. /\ pc' = pc /\ polls' = polls
        /\ {cmdMem', respMem', fw'} \subseteq {None, Mixed} \cup Command
        /\ \A c \in Command : c \in {fw', respMem'} => runs[c] > 0
    BY <1>0, <2>0, <2>5 DEF History, host
  <2>7. doorbell' /\ cmdMem' \in Command => runs[cmdMem'] = 0 \/ Excused(cmdMem', crowded', torn')
    BY <1>0, <2>0, TornMore DEF History, Excused
  <2>. QED  BY <1>0, <2>0, <2>4, <2>6, <2>7, QuietInv DEF Steps
<1>. QED
  BY <1>1, <1>2, <1>3, <1>4, <1>5, <1>6, <1>7, <1>8, <1>9, <1>10, <1>11 DEF Host

LEMMA NextInv == ASSUME IInv, [Next]_vars PROVE IInv'
<1>1. CASE Send
  BY <1>1, SendInv
<1>2. CASE Start \/ Stop \/ Host \/ Execute \/ Respond
  BY <1>2, StepInv
<1>3. CASE UNCHANGED vars
  BY <1>3 DEF vars, host, chip, caller, trouble, IInv, TypeOK, Mailbox, Alone, Torn, Settled, History,
              Excused, OwnResponse, ExecutedOnce, Command, Current
<1>. QED  BY <1>1, <1>2, <1>3 DEF Next

LEMMA Inductive == Spec => []IInv
BY InitInv, NextInv, PTL DEF Spec

-------------------------------------------------------------------------------
\* The theorems.

\* Every variable keeps to its type, a command is outstanding exactly while
\* ftdi_spi_send runs, and the doorbell never rings for an empty buffer.
THEOREM TypeCorrect == Spec => []TypeOK
<1>1. IInv => TypeOK
  BY DEF IInv
<1>. QED  BY <1>1, Inductive, PTL

\* A caller of ftdi_spi_send is given the response to its own command, however many
\* commands before have failed, timed out or been killed; only a command that was
\* sent while the firmware still was at an earlier one, or one whose own transfer
\* has failed unnoticed, may be given something else.
THEOREM ResponsesOwn == Spec => []OwnResponse
<1>1. IInv => OwnResponse
  BY DEF IInv
<1>. QED  BY <1>1, Inductive, PTL

\* The firmware executes a command once, unless it was written while the doorbell
\* was ringing or the writing of a later one was torn unnoticed.
THEOREM CommandsExecutedOnce == Spec => []ExecutedOnce
<1>1. IInv => ExecutedOnce
  BY DEF IInv
<1>. QED  BY <1>1, Inductive, PTL

-------------------------------------------------------------------------------
\* Refinement.

Executed == {c \in Command : runs[c] > 0}

\* What a caller may rely on.
AsSeen ==
  /\ Calls \in [Command -> Result]
  /\ \A c \in Command :
       Calls[c] = IF c \in crowded \cup torn \/ (outcome[c] = "answered" /\ reply[c] = None)
                    THEN "failed" ELSE outcome[c]

LEMMA CallsAre == IInv => AsSeen
<1> SUFFICES ASSUME IInv PROVE AsSeen
  OBVIOUS
<1>1. /\ \A c \in Command : outcome[c] \in Result /\ (reply[c] \in {None, c} \/ c \in crowded \cup torn)
      /\ 0 \notin Command
  BY DEF IInv, TypeOK, OwnResponse, Command, Result
<1>2. ASSUME NEW c \in Command
      PROVE  Calls[c] = IF c \in crowded \cup torn \/ (outcome[c] = "answered" /\ reply[c] = None)
                          THEN "failed" ELSE outcome[c]
  BY <1>1 DEF Calls, None
<1>3. \A c \in Command : Calls[c] \in Result
  BY <1>1, <1>2 DEF Result
<1>. QED  BY <1>2, <1>3 DEF Calls, AsSeen

\* A step of the current command that runs nothing leaves the call as it is or settles
\* it, as a failure or with the answer of a command that was executed.
LEMMA CurrentChannel ==
  ASSUME IInv, IInv', pc \in Steps, Command' = Command, UNCHANGED <<runs, crowded>>,
         \A c \in Command : c # Current => /\ outcome'[c] = outcome[c] /\ reply'[c] = reply[c]
                                           /\ c \in torn' <=> c \in torn,
         torn \subseteq torn'
  PROVE  Channel!Next \/ UNCHANGED Channel!cvars
<1>0. AsSeen /\ AsSeen'
  BY CallsAre, PTL
<1>1. Current \in Command /\ outcome[Current] = "pending" /\ DOMAIN Calls = Command
  BY <1>0 DEF IInv, TypeOK, Mailbox, AsSeen
<1>2. Executed' = Executed
  BY DEF Executed
<1>3. \A c \in Command : c # Current => Calls'[c] = Calls[c]
  BY <1>0 DEF AsSeen, None
<1>4. Calls' = [Calls EXCEPT ![Current] = Calls'[Current]]
  BY <1>0, <1>1, <1>3 DEF AsSeen
<1>5. Calls' = Calls \/ (Calls[Current] = "pending" /\ Calls'[Current] \in {"answered", "failed"})
  <2>1. Calls[Current] \in {"pending", "failed"} /\ Calls'[Current] \in Result
    BY <1>0, <1>1 DEF AsSeen, Result
  <2>2. Calls[Current] = "failed" => Calls'[Current] = "failed"
    BY <1>0, <1>1 DEF AsSeen
  <2>3. Calls'[Current] = Calls[Current] => Calls' = Calls
    BY <1>0, <1>4 DEF AsSeen
  <2>. QED  BY <2>1, <2>2, <2>3 DEF Result
<1>6. CASE Calls' = Calls
  BY <1>2, <1>6 DEF Channel!cvars, Executed
<1>7. CASE Calls[Current] = "pending" /\ Calls'[Current] = "failed"
  <2>1. Channel!Fail(Current)
    BY <1>2, <1>4, <1>7 DEF Channel!Fail, Executed
  <2>. QED  BY <1>1, <2>1 DEF Channel!Next
<1>8. CASE Calls[Current] = "pending" /\ Calls'[Current] = "answered"
  <2>1. Current \in Command' /\ Current \notin crowded' \cup torn' /\ reply'[Current] # None
    BY <1>0, <1>1, <1>8 DEF AsSeen, None
  <2>2. reply'[Current] = Current
    BY <2>1 DEF IInv, OwnResponse, None
  <2>3. runs'[Current] > 0
    BY <2>1, <2>2 DEF IInv, History
  <2>4. Current \in Executed
    BY <1>1, <2>3 DEF Executed
  <2>5. Channel!Answer(Current)
    BY <1>2, <1>4, <1>8, <2>4 DEF Channel!Answer, Executed
  <2>. QED  BY <1>1, <2>5 DEF Channel!Next
<1>. QED  BY <1>5, <1>6, <1>7, <1>8

\* A command that is sent is issued, and not yet executed; nothing will be relied on
\* of one that is crowded.
LEMMA SendChannel == ASSUME IInv, IInv', Send PROVE Channel!Next
<1> DEFINE n == Len(outcome)
           s == IF Settled THEN "pending" ELSE "failed"
<1>0. AsSeen /\ AsSeen'
  BY CallsAre, PTL
<1>1. n \in Nat /\ Command = 1..n /\ outcome \in Seq(Result) /\ Current = n
  BY DEF IInv, TypeOK, Command, Current, Result
<1>2. /\ pc = "idle" /\ outcome' = Append(outcome, "pending")
      /\ reply' = Append(reply, None) /\ runs' = Append(runs, 0) /\ 0 \in Nat
      /\ None \in {None, Mixed} \cup Command /\ "pending" \in Result /\ s \in Result
  BY DEF Send, Result
<1>3. /\ Calls \in [1..n -> Result] /\ reply \in [1..n -> {None, Mixed} \cup Command]
      /\ runs \in [1..n -> Nat]
  BY <1>0, <1>1 DEF AsSeen, IInv, TypeOK
<1>4. outcome \in [1..n -> Result]
  BY <1>1, LenProperties
<1>12. /\ n + 1 \notin torn' /\ (n + 1 \in crowded' <=> ~Settled)
       /\ \A c \in 1..n : c \in crowded' \cup torn' <=> c \in crowded \cup torn
  BY <1>1 DEF Send, IInv, TypeOK
<1> HIDE DEF n
<1>5. Append(outcome, "pending") \in [1..(n + 1) -> Result]
  BY <1>1, <1>2, <1>4, AppendTable
<1>6. /\ \A c \in 1..n : Append(outcome, "pending")[c] = outcome[c]
      /\ \A c \in 1..n : Append(reply, None)[c] = reply[c]
      /\ \A c \in 1..n : Append(runs, 0)[c] = runs[c]
  <2>1. \A c \in 1..n : Append(outcome, "pending")[c] = outcome[c]
    BY <1>1, <1>2, <1>4, AppendTable
  <2>2. \A c \in 1..n : Append(reply, None)[c] = reply[c]
    BY <1>1, <1>2, <1>3, AppendTable
  <2>3. \A c \in 1..n : Append(runs, 0)[c] = runs[c]
    BY <1>1, <1>2, <1>3, AppendTable
  <2>. QED  BY <2>1, <2>2, <2>3
<1>7. Append(outcome, "pending")[n + 1] = "pending" /\ Append(runs, 0)[n + 1] = 0
  <2>1. Append(outcome, "pending")[n + 1] = "pending"
    BY <1>1, <1>2, <1>4, AppendTable
  <2>2. runs \in [1..n -> Nat] /\ n \in Nat /\ 0 \in Nat
    BY <1>1, <1>2, <1>3
  <2>3. Append(runs, 0)[n + 1] = 0
    BY <2>2, AppendTable
  <2>. QED  BY <2>1, <2>3
<1>8. /\ Command' = 1..(n + 1) /\ outcome'[n + 1] = "pending" /\ runs'[n + 1] = 0
      /\ \A c \in 1..n : /\ outcome'[c] = outcome[c] /\ reply'[c] = reply[c]
                         /\ runs'[c] = runs[c] /\ c \in Command'
      /\ \A c \in 1..(n + 1) : c \in 1..n \/ c = n + 1
      /\ n + 1 \in Command'
  <2>1. Command' = 1..(n + 1)
    BY <1>2, <1>5 DEF Command
  <2>2. \A c \in 1..n : outcome'[c] = outcome[c] /\ reply'[c] = reply[c] /\ runs'[c] = runs[c]
    BY <1>2, <1>6
  <2>3. outcome'[n + 1] = "pending" /\ runs'[n + 1] = 0
    BY <1>2, <1>7
  <2>. QED  BY <1>1, <2>1, <2>2, <2>3
<1>9. Calls' = Append(Calls, s)
  <2>1. Append(Calls, s) \in [1..(n + 1) -> Result]
    BY <1>1, <1>2, <1>3, AppendTable
  <2>2. \A c \in 1..n : Append(Calls, s)[c] = Calls[c]
    BY <1>1, <1>2, <1>3, AppendTable
  <2>3. Append(Calls, s)[n + 1] = s
    BY <1>1, <1>2, <1>3, AppendTable
  <2>4. \A c \in 1..n : Calls'[c] = Calls[c]
    BY <1>0, <1>1, <1>8, <1>12 DEF AsSeen, None
  <2>5. Calls'[n + 1] = s
    BY <1>0, <1>8, <1>12 DEF AsSeen
  <2>6. Calls' \in [1..(n + 1) -> Result]
    BY <1>0, <1>8 DEF AsSeen, Result
  <2>7. \A c \in 1..(n + 1) : Calls'[c] = Append(Calls, s)[c]
    BY <1>8, <2>2, <2>3, <2>4, <2>5
  <2> DEFINE A == Append(Calls, s)
             B == Calls'
             S == 1..(n + 1)
  <2>8. A \in [S -> Result] /\ B \in [S -> Result] /\ \A c \in S : B[c] = A[c]
    BY <2>1, <2>6, <2>7
  <2> HIDE DEF A, B, S
  <2>9. B = A
    BY <2>8, SameTable
  <2>. QED  BY <2>9 DEF A, B
<1>10. Executed' = Executed
  <2>1. \A c : (c \in Command' /\ runs'[c] > 0) <=> (c \in Command /\ runs[c] > 0)
    BY <1>1, <1>8
  <2>. QED  BY <2>1 DEF Executed
<1>11. Channel!NonePending
  <2>1. \A c \in Command : outcome[c] # "pending"
    BY <1>2 DEF IInv, TypeOK, Steps
  <2>. QED  BY <1>0, <2>1 DEF Channel!NonePending, AsSeen
<1>. QED  BY <1>9, <1>10, <1>11 DEF Channel!Next, Channel!Issue, Executed

\* A step of the mailbox is a step of the channel or leaves it alone.
LEMMA ChannelStep ==
  ASSUME IInv, IInv', [Next]_vars PROVE Channel!Next \/ UNCHANGED Channel!cvars
<1>1. CASE Send
  BY <1>1, SendChannel
<1>2. ASSUME UNCHANGED <<outcome, reply, runs, crowded, torn>> PROVE UNCHANGED Channel!cvars
  BY <1>2 DEF Channel!cvars, Calls, Command
<1>3. CASE Start \/ Respond \/ UNCHANGED vars
  BY <1>2, <1>3 DEF Start, Respond, vars, caller, trouble
<1>4. ASSUME pc \in Steps, UNCHANGED <<reply, runs, crowded>>, torn' \in {torn, torn \cup {Current}},
             UNCHANGED outcome \/ \E r \in {"answered", "failed"} : Settle(r)
      PROVE  Channel!Next \/ UNCHANGED Channel!cvars
  <2>1. Command' = Command /\ \A c \in Command : c # Current => outcome'[c] = outcome[c]
    BY <1>4, SettlesCurrent DEF Command
  <2>. QED  BY <1>4, <2>1, CurrentChannel
<1>5. CASE Stop
  <2>0. UNCHANGED <<reply, runs, crowded, torn>>
    BY <1>5 DEF Stop, trouble
  <2>1. CASE pc = "idle"
    BY <1>2, <1>5, <2>0, <2>1 DEF Stop
  <2>2. CASE pc # "idle"
    <3>1. pc \in Steps /\ Settle("failed")
      BY <1>5, <2>2 DEF Stop, IInv, TypeOK
    <3>. QED  BY <1>4, <2>0, <3>1
  <2>. QED  BY <2>1, <2>2
<1>6. CASE Locate \/ ClearStatus \/ WriteCommand \/ Trigger \/ Poll \/ ClearAgain
  <2>1. /\ pc \in Steps /\ UNCHANGED <<reply, runs, crowded>> /\ torn' \in {torn, torn \cup {Current}}
        /\ UNCHANGED outcome \/ Settle("answered") \/ Settle("failed")
    BY <1>6 DEF Locate, ClearStatus, WriteCommand, Trigger, Poll, ClearAgain, Access, Fail, Tear,
                Steps, trouble
  <2>. QED  BY <1>4, <2>1
<1>7. CASE ReadResponse
  <2>1. pc \in Steps /\ UNCHANGED <<runs, crowded>> /\ reply \in [Command -> {None, Mixed} \cup Command]
    BY <1>7 DEF ReadResponse, Steps, IInv, TypeOK
  <2>2. CASE Fail /\ UNCHANGED <<reply, torn>>
    BY <1>4, <2>1, <2>2 DEF Fail
  <2>3. ASSUME NEW r, Give(r), UNCHANGED outcome, torn' \in {torn, torn \cup {Current}}
        PROVE  Channel!Next \/ UNCHANGED Channel!cvars
    <3>1. Command' = Command /\ \A c \in Command : c # Current => reply'[c] = reply[c]
      BY <2>1, <2>3 DEF Give, Command
    <3>. QED  BY <2>1, <2>3, <3>1, CurrentChannel
  <2>. QED  BY <1>7, <2>2, <2>3 DEF ReadResponse, Tear
<1>8. CASE Execute
  <2>0. AsSeen /\ AsSeen'
    BY CallsAre, PTL
  <2>1. /\ runs' = [c \in Command |-> IF c = fw' THEN runs[c] + 1 ELSE runs[c]]
        /\ runs \in [Command -> Nat] /\ UNCHANGED <<outcome, reply, crowded, torn>>
    BY <1>8 DEF Execute, IInv, TypeOK, caller, trouble
  <2>2. Command' = Command /\ \A c \in Command : runs'[c] = IF c = fw' THEN runs[c] + 1 ELSE runs[c]
    BY <2>1 DEF Command
  <2>3. Calls' = Calls /\ DOMAIN Calls = Command
    BY <2>1, <2>2 DEF Calls
  <2>4. CASE fw' \in Command /\ runs[fw'] = 0
    <3>1. PICK c \in Command : c = fw'
      BY <2>4
    <3>2. Executed' = Executed \cup {c} /\ c \notin Executed
      BY <2>1, <2>2, <2>4, <3>1 DEF Executed
    <3>3. Channel!Execute(c) /\ c \in DOMAIN Calls
      BY <2>3, <3>2 DEF Channel!Execute, Executed
    <3>. QED  BY <3>3 DEF Channel!Next
  <2>5. CASE ~(fw' \in Command /\ runs[fw'] = 0)
    <3>1. Executed' = Executed
      BY <2>1, <2>2, <2>5 DEF Executed
    <3>. QED  BY <2>3, <3>1 DEF Channel!cvars, Executed
  <2>. QED  BY <2>4, <2>5
<1>. QED
  BY <1>1, <1>3, <1>5, <1>6, <1>7, <1>8 DEF Next, Host

\* But for what a timeout returns and for the commands that are crowded or torn,
\* ftdi_spi_send keeps what transport.h promises of every transport, for any number
\* of commands, polls and faults, and whatever the earlier commands have left behind.
THEOREM ImplementsChannel == Spec => ChannelSpec
<1>1. Init => Channel!Init
  BY DEF Init, Calls, Command, Channel!Init
<1>2. IInv /\ IInv' /\ [Next]_vars => [Channel!Next]_(Channel!cvars)
  BY ChannelStep
<1>. QED  BY <1>1, <1>2, Inductive, PTL DEF Spec, ChannelSpec, Channel!Spec

===============================================================================
