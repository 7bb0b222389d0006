--------------------------------- MODULE Stats ---------------------------------
(***************************************************************************)
(* `stats` (src/stats.c) over the nl80211 transport: for each core that is *)
(* selected a command, or a deprecated one if that fails, whose answer is  *)
(* a sequence of TLVs; each is looked up in the tables that the firmware   *)
(* file has of them and shown by the function for its format, as a line or *)
(* a member of a JSON object.                                              *)
(*                                                                         *)
(* An octet of an answer is its place in it.  What the walk reads where    *)
(* there is no TLV's beginning is any tag and length (Lengths).            *)
(***************************************************************************)
EXTENDS Nl80211, StatsFormat

CONSTANTS Cores,     \* the cores, in the order in which they are asked
          Sections,  \* of the firmware file: [offchip, records], of records [tag, format]
          Unknown,   \* a tag that it does not have
          Lengths    \* what may be read as the length of a TLV

\* morse_stats_load puts the records of the sections that have "_offchip_" in their name
\* one behind the other: the places in section i of those with this tag.
Records(i, tag) ==
  {j \in DOMAIN Sections[i].records : Sections[i].offchip /\ Sections[i].records[j].tag = tag}

\* get_stats_offchip: the first record of a tag.
FormatOf ==
  [tag \in UNION {{r.tag : r \in ToSet(Sections[i].records)} :
                  i \in {k \in DOMAIN Sections : Sections[k].offchip}} |->
     LET i == Min({k \in DOMAIN Sections : Records(k, tag) # {}})
     IN Sections[i].records[Min(Records(i, tag))].format]

ASSUME StatsAssumption ==
  /\ Sections \in Seq(ToSet(Sections))
  /\ \A i \in DOMAIN Sections :
       /\ Sections[i].records \in Seq(ToSet(Sections[i].records))
       /\ \A r \in ToSet(Sections[i].records) : r.format \in Formats
  /\ Cores \in Seq(ToSet(Cores)) /\ Lengths \subseteq Nat
  /\ \A r \in Replies : /\ r.tlvs \in Seq(ToSet(r.tlvs))
                        /\ \A i \in DOMAIN r.tlvs : r.tlvs[i].len \in Nat

VARIABLES pc,       \* "idle", the step to come or "done"
          opts,     \* [cores, reset, format, filter, file]
          core,     \* which of Cores it is the turn of
          result,   \* ret of stats() and of morsectrl_stats_cmd()
          pos,      \* buf - resp->stats
          left,     \* resp_sz
          first,    \* the static of stats_format_json_init
          out,      \* what has been printed, in tokens
          shown     \* History: the values shown of the last answer

walk  == <<pos, left>>
shows == <<first, out, shown>>
vars  == <<nlvars, pc, opts, core, result, walk, shows>>

Overhead == 4   \* STATS_TLV_OVERHEAD
Tags     == DOMAIN FormatOf \cup {Unknown}

\* -j or -p, which differ in their layout.
Json == opts.format = "json"

Init ==
  /\ NlInit
  /\ pc = "open"
  /\ opts \in [cores : SUBSET ToSet(Cores), reset : BOOLEAN,
               format : {"regular", "json"},
               filter : {"all", "some", "invalid"}, file : BOOLEAN]
  /\ core = 1 /\ result = 0 /\ pos = 0 /\ left = 0
  /\ first = TRUE /\ out = <<>> /\ shown = <<>>

-------------------------------------------------------------------------------
Done(r) == pc' = "done" /\ result' = r

\* main opens the transport before the handler is called.
Start ==
  /\ pc = "open" /\ Open
  /\ IF ret' = 0 THEN pc' = "load" /\ UNCHANGED result ELSE Done(-1)
  /\ UNCHANGED <<opts, core, walk, shows>>

\* Without a core all three are meant.
Selected == IF opts.cores = {} THEN ToSet(Cores) ELSE opts.cores

\* load_offchip_statistics fails only if the firmware file cannot be opened.
Load ==
  /\ pc = "load"
  /\ IF opts.file
       THEN /\ pc' = "core" /\ UNCHANGED result
            /\ out' = IF Json THEN <<"{">> ELSE <<>>
       ELSE Done(-1) /\ UNCHANGED out
  /\ UNCHANGED <<nlvars, opts, core, walk, first, shown>>

\* The next core, if it is meant, or the end.
NextCore ==
  /\ pc = "core"
  /\ IF core > Len(Cores)
       THEN Done(0) /\ out' = (IF Json THEN Append(out, "}") ELSE out) /\ UNCHANGED core
     ELSE IF Cores[core] \in Selected
       THEN pc' = "alloc" /\ UNCHANGED <<core, result, out>>
       ELSE core' = core + 1 /\ UNCHANGED <<pc, result, out>>
  /\ UNCHANGED <<nlvars, opts, walk, first, shown>>

\* The buffers and the filter of morsectrl_stats_cmd.
Alloc ==
  /\ pc = "alloc"
  /\ ReadAlloc
  /\ \/ opts.filter # "invalid" /\ pc' = "send" /\ UNCHANGED result
     \/ opts.filter = "invalid" /\ Done(1)   \* regcomp's code
     \/ Done(-1)                             \* no memory
  /\ UNCHANGED <<socket, ret, commands, opts, core, walk, shows>>

\* MORSE_COMMAND_..._STATS_LOG, or with 1 added ..._STATS_RESET.
Request == [core |-> Cores[core], reset |-> opts.reset, version |-> "new"]

\* Mutant: the mask is applied to the command before 1 is added to it.
OldRequest_Log == [Request EXCEPT !.version = "old", !.reset = FALSE]

\* OLD_STATS_COMMAND_MASK & cmd
OldRequest == [Request EXCEPT !.version = "old"]

Issue(request) ==
  /\ Send(request) \/ SendFails(request)
  /\ shown' = <<>>
  /\ UNCHANGED <<opts, core, result, walk, first, out>>

Query      == pc = "send" /\ Issue(Request) /\ pc' = "await"
QueryAgain == pc = "resend" /\ Issue(OldRequest) /\ pc' = "await_old"

Transport ==
  /\ pc \in {"await", "await_old"} /\ (Driver \/ Receive)
  /\ UNCHANGED <<pc, opts, core, result, walk, shows>>

\* morsectrl_send_command: an error of the transport, or the status that the buffer
\* holds, whoever left it there.
Statuses ==
  IF ret < 0 THEN {ret}
  ELSE IF buffer.of = Junk THEN {0, 1, -1} ELSE {answer[buffer.of].status}

\* What the buffer holds of an answer: its TLVs, whole or cut off.
Tlvs == IF buffer.of = Junk THEN <<>> ELSE answer[buffer.of].tlvs

Answered ==
  /\ pc = "await" /\ Return
  /\ \E status \in Statuses :
       IF status # 0 THEN pc' = "resend" /\ UNCHANGED result
       ELSE pc' = (IF opts.reset THEN "next" ELSE "walk") /\ result' = 0
  /\ pos' = 0 /\ left' = buffer.len
  /\ UNCHANGED <<buffer, ret, commands, opts, core, shows>>

\* What is there of the answer's text: all of it only if the buffer's length, which an
\* answer to the first command has set, allows for it.
TextReceived ==
  IF buffer.of = Current /\ buffer.len = answer[Current].size THEN "text" ELSE "cut"

\* The answer to the deprecated command is text.
AnsweredOld ==
  /\ pc = "await_old" /\ Return
  /\ \E status \in Statuses :
       /\ result' = status
       /\ pc' = "next"
       /\ out' = IF ~opts.reset /\ status = 0 THEN Append(out, TextReceived) ELSE out
  /\ UNCHANGED <<buffer, ret, commands, opts, core, walk, first, shown>>

\* stats() after morsectrl_stats_cmd().
Leave ==
  /\ pc = "next"
  /\ IF result # 0 THEN pc' = "done" /\ UNCHANGED core
                   ELSE pc' = "core" /\ core' = core + 1
  /\ UNCHANGED <<nlvars, opts, result, walk, shows>>

-------------------------------------------------------------------------------
\* Where the i-th TLV of an answer begins.
Begin(tlvs, i) ==
  LET begin[n \in 1..(Len(tlvs) + 1)] ==
        IF n = 1 THEN 0 ELSE begin[n - 1] + Overhead + tlvs[n - 1].len
  IN begin[i]

\* The tags and lengths that may be read at pos: the TLV's, if one begins there and
\* was received, or anything.
Headers ==
  LET here == {i \in DOMAIN Tlvs : Begin(Tlvs, i) = pos /\ pos + Overhead <= buffer.len}
  IN IF here # {} THEN {Tlvs[i] : i \in here} ELSE [tag : Tags, len : Lengths]

\* Mutant: every answer starts a list of its own.
Separator_PerCore == IF pos = 0 THEN <<>> ELSE <<",">>

\* stats_format_json_init: a comma but before the first member of the process.
Separator == IF first THEN <<>> ELSE <<",">>

Known(tag) == tag \in DOMAIN FormatOf

\* regexec on the key: the filter "some" takes one of the keys.
Filtered(tag) == opts.filter = "some" /\ tag # CHOOSE t \in DOMAIN FormatOf : TRUE

\* An unknown tag's octets are dumped, whatever the format and the filter.
Show(t) ==
  IF ~Known(t.tag) THEN out' = Append(out, "dump") /\ UNCHANGED <<first, shown>>
  ELSE IF Filtered(t.tag) THEN UNCHANGED <<out, first, shown>>
  ELSE /\ out' = Append(IF Json THEN out \o Separator ELSE out, FormatOf[t.tag])
       /\ first' = (first /\ ~Json)
       /\ shown' = Append(shown, [tag |-> t.tag, from |-> pos + Overhead,
                                  octets |-> Reads(FormatOf[t.tag], t.len)])

\* Mutant: the overhead is not taken off.
Remaining_NoOverhead(t) == left - t.len

Remaining(t) == left - (Overhead + t.len)

\* Mutant: a statistic that the filter leaves out is passed over before buf is moved.
Advance_Shown(t) ==
  IF Known(t.tag) /\ Filtered(t.tag) THEN UNCHANGED walk
  ELSE pos' = pos + Overhead + t.len /\ left' = Remaining(t)

Advance(t) == pos' = pos + Overhead + t.len /\ left' = Remaining(t)

\* The length is compared with what was left before the overhead.
Malformed(t) == t.len > left \/ t.len = 0

\* One round of the loop: a malformed TLV ends it without an error.
Walk ==
  /\ pc = "walk"
  /\ \/ /\ left > Overhead
        /\ \E t \in Headers :
             /\ ~Malformed(t)
             /\ Show(t)
             /\ Advance(t)
        /\ UNCHANGED pc
     \/ /\ left > Overhead => \E t \in Headers : Malformed(t)
        /\ pc' = "next" /\ UNCHANGED <<walk, shows>>
  /\ UNCHANGED <<nlvars, opts, core, result>>

Handler ==
  \/ Load \/ NextCore \/ Alloc \/ Query \/ QueryAgain \/ Transport
  \/ Answered \/ AnsweredOld \/ Leave \/ Walk

Finished == pc = "done" /\ UNCHANGED vars

Next == Start \/ Handler \/ Finished

Spec == Init /\ [][Next]_vars

\* The process goes on as long as there is something to do; the driver has spoken
\* before it is listened to.
FairSpec == Spec /\ WF_vars(Start \/ Handler)

-------------------------------------------------------------------------------
\* As long as every receive succeeds and every acknowledged command had its data, the
\* driver's answers are taken as CommandChannel promises.
ChannelSteps == Channel!Init /\ [][broken' \/ Channel!Next]_<<Calls, executed>>

\* Firmware's part of a whole answer: each TLV has the length its function reads, all
\* of them fit and none is empty.
Sound(a) ==
  /\ \A i \in DOMAIN a.tlvs :
       LET t == a.tlvs[i]
       IN t.len > 0 /\ (Known(t.tag) => Reads(FormatOf[t.tag], t.len) = t.len)
  /\ a.size = Begin(a.tlvs, Len(a.tlvs) + 1) /\ a.size <= Room

\* The tags that the filter lets pass.
Passing == {tag \in DOMAIN FormatOf : ~Filtered(tag)}

\* What should be shown of the i-th TLV, of the first n, if these tags pass, and of the
\* whole answer.
Value(tlvs, i) ==
  [tag |-> tlvs[i].tag, from |-> Begin(tlvs, i) + Overhead, octets |-> tlvs[i].len]

Values(tlvs, tags, n) ==
  LET upto[i \in 0..Len(tlvs)] ==
        IF i = 0 THEN <<>>
        ELSE IF tlvs[i].tag \in tags THEN Append(upto[i - 1], Value(tlvs, i)) ELSE upto[i - 1]
  IN upto[n]

Expected(a) == Values(a.tlvs, Passing, Len(a.tlvs))

\* Of a sound answer every known statistic that passes the filter is shown once, in
\* order, from its own octets and no others, whatever the answers and errors before it.
ShownWhole ==
  (/\ pc = "next" /\ result = 0 /\ ~opts.reset /\ ~broken
   /\ sent[Current].version = "new" /\ Sound(answer[Current]))
    => shown = Expected(answer[Current])

\* Whatever answer comes, cut off or malformed, the walk ends at most an overhead behind
\* what was received.
WalkBounded == pc \in {"walk", "next"} => pos <= buffer.len + Overhead

\* stats() that returns 0 has had each selected core's counters read or, with -r, reset,
\* by one of the two commands, and no other core's.
DoneAsAsked ==
  pc = "done" /\ result = 0 /\ ~broken =>
    {sent[c].core : c \in {c \in executed : outcome[c] = "answered" /\ answer[c].status = 0
                                           /\ sent[c].reset = opts.reset}} = Selected

\* What has been printed, token by token: a value follows its key.
Item(item) == IF item \in Formats THEN <<"key">> \o JsonValue(item) ELSE <<item>>

Tokens(items) ==
  LET upto[i \in 0..Len(items)] == IF i = 0 THEN <<>> ELSE upto[i - 1] \o Item(items[i])
  IN upto[Len(items)]

\* The members of all cores together make one JSON object, if the command succeeds, the
\* firmware file knows every tag and no deprecated command's text is in between.
JsonWellFormed ==
  pc = "done" /\ result = 0 /\ Json /\ ToSet(out) \cap {"dump", "text", "cut"} = {}
    => IsJsonObject(Tokens(out))

\* `stats` ends, whatever the driver and firmware answer.
StatsReturns == <>(pc = "done")

===============================================================================
