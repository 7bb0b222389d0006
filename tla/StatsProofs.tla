------------------------------ MODULE StatsProofs ------------------------------
(***************************************************************************)
(* Proofs about `stats` over nl80211, for every set of answers, every      *)
(* firmware file and any number of cores: the driver's answers are taken   *)
(* as the channel promises, every core that was asked for is read or       *)
(* reset, an answer is shown whole and from inside its own octets, and     *)
(* what is shown in JSON is one object.                                    *)
(***************************************************************************)
EXTENDS Stats, SequenceTheorems, WellFoundedInduction, TLAPS

-------------------------------------------------------------------------------
\* Where the TLVs of an answer begin, and what is shown of them.

\* A set of numbers has a smallest one.
LEMMA Smallest ==
  ASSUME NEW S \in SUBSET Nat, S # {} PROVE \E x \in S : \A y \in S : x <= y
<1>1. PICK x \in S : \A y \in S : <<y, x>> \notin OpToRel(<, Nat)
  BY WFMin, NatLessThanWellFounded, Zenon
<1>2. \A y \in S : ~(y < x)
  BY <1>1 DEF OpToRel
<1>. QED  BY <1>2

\* A sequence of TLVs.
IsTlvs(tlvs) == /\ tlvs \in Seq(ToSet(tlvs))
                /\ \A i \in 1..Len(tlvs) : tlvs[i].len \in Nat

\* The recursive function of Begin exists.
LEMMA BeginExists ==
  ASSUME NEW tlvs, NEW m \in Nat
  PROVE  \E f : f = [n \in 1..m |-> IF n = 1 THEN 0 ELSE f[n - 1] + Overhead + tlvs[n - 1].len]
<1> DEFINE step(f, n) == IF n = 1 THEN 0 ELSE f[n - 1] + Overhead + tlvs[n - 1].len
           Bad == {k \in Nat : ~\E f : f = [n \in 1..k |-> step(f, n)]}
<1>1. SUFFICES ASSUME Bad # {} PROVE FALSE
  OBVIOUS
<1>2. PICK x \in Bad : \A y \in Bad : x <= y
  <2> HIDE DEF Bad
  <2>1. Bad \in SUBSET Nat
    BY DEF Bad
  <2>. QED  BY <1>1, <2>1, Smallest
<1>3. x # 0
  <2>1. SUFFICES ASSUME x = 0 PROVE FALSE
    OBVIOUS
  <2> DEFINE f == [n \in 1..0 |-> 0]
  <2>2. f = [n \in 1..0 |-> step(f, n)]
    OBVIOUS
  <2>. QED  BY <1>2, <2>1, <2>2
<1>4. x - 1 \in Nat /\ x - 1 \notin Bad
  BY <1>2, <1>3
<1>5. PICK g : g = [n \in 1..(x - 1) |-> step(g, n)]
  BY <1>4
<1> DEFINE f == [n \in 1..x |-> step(g, n)]
<1>6. \A n \in 1..x : step(g, n) = step(f, n)
  <2>1. SUFFICES ASSUME NEW n \in 1..x, n # 1 PROVE g[n - 1] = f[n - 1]
    OBVIOUS
  <2>2. n - 1 \in 1..(x - 1) /\ n - 1 \in 1..x
    BY <1>4, <2>1
  <2>3. g[n - 1] = step(g, n - 1)
    BY <1>5, <2>2
  <2>4. f[n - 1] = step(g, n - 1)
    BY <2>2
  <2>. QED  BY <2>3, <2>4
<1>7. f = [n \in 1..x |-> step(f, n)]
  BY <1>6
<1>. QED  BY <1>2, <1>7

\* What Begin is at the beginning, and from one TLV to the next.
LEMMA BeginIs ==
  ASSUME NEW tlvs, IsTlvs(tlvs)
  PROVE  /\ Begin(tlvs, 1) = 0
         /\ \A i \in 1..Len(tlvs) : Begin(tlvs, i + 1) = Begin(tlvs, i) + Overhead + tlvs[i].len
<1> DEFINE m == Len(tlvs) + 1
           step(f, n) == IF n = 1 THEN 0 ELSE f[n - 1] + Overhead + tlvs[n - 1].len
           begin == CHOOSE f : f = [n \in 1..m |-> step(f, n)]
<1>1. m \in Nat /\ Len(tlvs) \in Nat
  BY DEF IsTlvs
<1>2. begin = [n \in 1..m |-> step(begin, n)]
  <2>1. \E f : f = [n \in 1..m |-> step(f, n)]
    BY <1>1, BeginExists
  <2>. QED  BY <2>1
<1>3. \A i : Begin(tlvs, i) = begin[i]
  BY DEF Begin
<1> HIDE DEF begin
<1>4. \A n \in 1..m : begin[n] = step(begin, n)
  BY <1>2
<1>5. begin[1] = 0
  <2>1. begin[1] = step(begin, 1)
    <3>1. 1 \in 1..m
      BY <1>1
    <3> HIDE DEF step, m
    <3>. QED  BY <1>4, <3>1
  <2>. QED  BY <2>1
<1>6. ASSUME NEW i \in 1..Len(tlvs)
      PROVE  begin[i + 1] = begin[i] + Overhead + tlvs[i].len
  <2>1. i + 1 \in 1..m /\ i + 1 # 1 /\ (i + 1) - 1 = i
    BY <1>1
  <2>. QED  BY <1>4, <2>1
<1>. QED  BY <1>3, <1>5, <1>6

\* TLVs begin in order, with an overhead at least in between.
LEMMA BeginInOrder ==
  ASSUME NEW tlvs, IsTlvs(tlvs)
  PROVE  /\ \A i \in 1..(Len(tlvs) + 1) : Begin(tlvs, i) \in Nat
         /\ \A i, j \in 1..(Len(tlvs) + 1) : i < j => Begin(tlvs, i) < Begin(tlvs, j)
<1> DEFINE m == Len(tlvs) + 1
           at(i) == Begin(tlvs, i)
<1>1. Len(tlvs) \in Nat /\ \A i \in 1..Len(tlvs) : tlvs[i].len \in Nat
  BY DEF IsTlvs
<1>2. at(1) = 0
  BY BeginIs
<1>3. \A i \in 1..Len(tlvs) : at(i + 1) = at(i) + Overhead + tlvs[i].len
  BY BeginIs
<1> HIDE DEF at
<1>4. \A n \in 1..m : n # 1 => n - 1 \in 1..Len(tlvs) /\ n - 1 \in 1..m /\ at(n) = at(n - 1) + Overhead + tlvs[n - 1].len
  <2>1. SUFFICES ASSUME NEW n \in 1..m, n # 1
                 PROVE  n - 1 \in 1..Len(tlvs) /\ n - 1 \in 1..m /\ at(n) = at(n - 1) + Overhead + tlvs[n - 1].len
    OBVIOUS
  <2>2. n - 1 \in 1..Len(tlvs) /\ n - 1 \in 1..m /\ (n - 1) + 1 = n
    BY <1>1, <2>1
  <2>. QED  BY <1>3, <2>2
<1>5. ASSUME NEW n \in 1..m PROVE at(n) \in Nat
  <2> DEFINE Bad == {i \in 1..m : at(i) \notin Nat}
  <2>1. SUFFICES ASSUME Bad # {} PROVE FALSE
    OBVIOUS
  <2>2. Bad \in SUBSET Nat
    BY <1>1
  <2>3. PICK x \in Bad : \A y \in Bad : x <= y
    <3> HIDE DEF Bad
    <3>. QED  BY <2>1, <2>2, Smallest
  <2>4. x \in 1..m /\ x # 1
    BY <1>2, <2>3
  <2>5. x - 1 \in 1..m /\ ~(x <= x - 1) /\ tlvs[x - 1].len \in Nat
    BY <1>1, <1>4, <2>4
  <2>6. at(x - 1) \in Nat
    BY <2>3, <2>5
  <2>7. at(x) \in Nat
    BY <1>4, <2>4, <2>5, <2>6 DEF Overhead
  <2>. QED  BY <2>3, <2>7
<1>6. ASSUME NEW i \in 1..m, NEW j \in 1..m, i < j PROVE at(i) < at(j)
  <2> DEFINE Bad == {k \in 1..m : i < k /\ ~(at(i) < at(k))}
  <2>1. SUFFICES ASSUME Bad # {} PROVE FALSE
    BY <1>6
  <2>2. Bad \in SUBSET Nat
    BY <1>1
  <2>3. PICK x \in Bad : \A y \in Bad : x <= y
    <3> HIDE DEF Bad
    <3>. QED  BY <2>1, <2>2, Smallest
  <2>4. x \in 1..m /\ i < x /\ x # 1
    BY <1>1, <2>3
  <2>5. x - 1 \in 1..m /\ ~(x <= x - 1) /\ tlvs[x - 1].len \in Nat
    BY <1>1, <1>4, <2>4
  <2>6. at(x - 1) < at(x)
    <3>1. at(x - 1) \in Nat /\ at(x) = at(x - 1) + Overhead + tlvs[x - 1].len
      BY <1>4, <1>5, <2>4, <2>5
    <3>. QED  BY <2>5, <3>1 DEF Overhead
  <2>7. CASE x - 1 = i
    BY <2>3, <2>6, <2>7
  <2>8. CASE x - 1 # i
    <3>1. i < x - 1
      BY <1>1, <2>4, <2>5, <2>8
    <3>2. at(i) < at(x - 1)
      BY <2>3, <2>5, <3>1
    <3>3. at(i) < at(x)
      BY <1>5, <2>4, <2>5, <2>6, <3>2
    <3>. QED  BY <2>3, <3>3
  <2>. QED  BY <2>7, <2>8
<1>. QED  BY <1>5, <1>6 DEF at

\* The recursive function of Values.
Accumulates(f, tlvs, tags, m) ==
  f = [n \in 0..m |-> IF n = 0 THEN <<>>
                      ELSE IF tlvs[n].tag \in tags THEN Append(f[n - 1], Value(tlvs, n))
                      ELSE f[n - 1]]

\* It exists.
LEMMA ValuesExists ==
  ASSUME NEW tlvs, NEW tags, NEW m \in Nat PROVE \E f : Accumulates(f, tlvs, tags, m)
<1> DEFINE step(f, n) == IF n = 0 THEN <<>>
                         ELSE IF tlvs[n].tag \in tags THEN Append(f[n - 1], Value(tlvs, n)) ELSE f[n - 1]
           Bad == {k \in Nat : ~\E f : f = [n \in 0..k |-> step(f, n)]}
<1>1. SUFFICES ASSUME Bad # {} PROVE FALSE
  BY DEF Accumulates
<1>2. PICK x \in Bad : \A y \in Bad : x <= y
  <2> HIDE DEF Bad
  <2>1. Bad \in SUBSET Nat
    BY DEF Bad
  <2>. QED  BY <1>1, <2>1, Smallest
<1>3. x # 0
  <2>1. SUFFICES ASSUME x = 0 PROVE FALSE
    OBVIOUS
  <2> DEFINE f == [n \in 0..0 |-> <<>>]
  <2>2. f = [n \in 0..0 |-> step(f, n)]
    OBVIOUS
  <2>. QED  BY <1>2, <2>1, <2>2
<1>4. x - 1 \in Nat /\ x - 1 \notin Bad
  <2>1. x \in Nat
    BY <1>2
  <2>2. x - 1 \in Nat /\ ~(x <= x - 1)
    BY <1>3, <2>1
  <2> HIDE DEF Bad
  <2>. QED  BY <1>2, <2>2
<1>5. PICK g : g = [n \in 0..(x - 1) |-> step(g, n)]
  BY <1>4
<1> DEFINE f == [n \in 0..x |-> step(g, n)]
<1>6. \A n \in 0..x : step(g, n) = step(f, n)
  <2>1. SUFFICES ASSUME NEW n \in 0..x, n # 0 PROVE g[n - 1] = f[n - 1]
    OBVIOUS
  <2>2. n - 1 \in 0..(x - 1) /\ n - 1 \in 0..x
    BY <1>4, <2>1
  <2>3. g[n - 1] = step(g, n - 1)
    BY <1>5, <2>2
  <2>4. f[n - 1] = step(g, n - 1)
    BY <2>2
  <2>. QED  BY <2>3, <2>4
<1>7. f = [n \in 0..x |-> step(f, n)]
  BY <1>6
<1>. QED  BY <1>2, <1>7

\* What is shown of no TLV, and what one more adds.
LEMMA ValuesIs ==
  ASSUME NEW tlvs, IsTlvs(tlvs), NEW tags
  PROVE  /\ Values(tlvs, tags, 0) = <<>>
         /\ \A i \in 1..Len(tlvs) :
              Values(tlvs, tags, i) =
                IF tlvs[i].tag \in tags
                  THEN Append(Values(tlvs, tags, i - 1), Value(tlvs, i))
                  ELSE Values(tlvs, tags, i - 1)
<1> DEFINE m == Len(tlvs)
           step(f, n) == IF n = 0 THEN <<>>
                         ELSE IF tlvs[n].tag \in tags THEN Append(f[n - 1], Value(tlvs, n)) ELSE f[n - 1]
           upto == CHOOSE f : f = [n \in 0..m |-> step(f, n)]
<1>1. m \in Nat
  BY DEF IsTlvs
<1>2. upto = [n \in 0..m |-> step(upto, n)]
  <2>1. \E f : f = [n \in 0..m |-> step(f, n)]
    <3>1. PICK f : Accumulates(f, tlvs, tags, m)
      <4> HIDE DEF m
      <4>. QED  BY <1>1, ValuesExists
    <3>2. f = [n \in 0..m |-> step(f, n)]
      BY <3>1 DEF Accumulates
    <3>. QED  BY <3>2
  <2>. QED  BY <2>1
<1>3. \A i : Values(tlvs, tags, i) = upto[i]
  BY DEF Values
<1> HIDE DEF upto
<1>4. \A n \in 0..m : upto[n] = step(upto, n)
  <2> HIDE DEF step
  <2>. QED  BY <1>2
<1>5. upto[0] = <<>>
  <2>1. upto[0] = step(upto, 0)
    <3>1. 0 \in 0..m
      BY <1>1
    <3> HIDE DEF step, m
    <3>. QED  BY <1>4, <3>1
  <2>. QED  BY <2>1
<1>6. ASSUME NEW i \in 1..m
      PROVE  upto[i] = IF tlvs[i].tag \in tags THEN Append(upto[i - 1], Value(tlvs, i)) ELSE upto[i - 1]
  <2>1. i \in 0..m /\ i # 0
    BY <1>1
  <2>2. upto[i] = step(upto, i)
    <3> HIDE DEF step
    <3>. QED  BY <1>4, <2>1
  <2>. QED  BY <2>1, <2>2
<1>. QED  BY <1>3, <1>5, <1>6

-------------------------------------------------------------------------------
\* Types.

Requests == [core : ToSet(Cores), reset : BOOLEAN, version : {"new", "old"}]
Answers  == Replies \cup {NoAnswer}
Results  == {"pending", "answered", "failed"}
Messages == [kind : {"reply", "bare", "ack", "error"}, of : Nat, seq : Nat]

\* The command is with the driver, or its messages are being read.
Pending == nl \in {"driver", "receive", "wait"}

\* The transport has a command, or its result.
Busy == Pending \/ nl = "returned"

NlType ==
  /\ nl \in {"closed", "idle", "driver", "receive", "wait", "returned"}
  /\ queue \in Seq(Messages) /\ seq \in Nat /\ expect \in Nat
  /\ buffer \in [of : Nat, len : 0..Room] /\ ret \in {0, -1} /\ broken \in BOOLEAN
  /\ sent \in Seq(Requests) /\ answer \in Seq(Answers)
  /\ outcome \in Seq(Results) /\ reply \in Seq(Nat)
  /\ Len(answer) = Len(sent) /\ Len(outcome) = Len(sent) /\ Len(reply) = Len(sent)
  /\ executed \subseteq 1..Len(sent)
  /\ buffer.of \in 0..Len(sent)
  /\ \A i \in 1..Len(queue) : queue[i].of \in 1..Len(sent)

Options == [cores : SUBSET ToSet(Cores), reset : BOOLEAN, format : {"regular", "json"},
            filter : {"all", "some", "invalid"}, file : BOOLEAN]

TypeOK ==
  /\ NlType
  /\ pc \in {"open", "load", "core", "alloc", "send", "await", "resend", "await_old",
             "next", "walk", "done"}
  /\ opts \in Options /\ core \in 1..(Len(Cores) + 1)
  /\ pos \in Nat /\ left \in Int
  /\ Busy <=> pc \in {"await", "await_old"}
  /\ pc \in {"await", "await_old"} => Len(sent) > 0

\* The walk's account of what is left.
Walking ==
  /\ pc \in {"resend", "await_old"} => pos = 0
  /\ pc = "walk" => pos + left = buffer.len /\ left >= -Overhead

\* Cores[i] has been read or reset.
Read(i) ==
  \E c \in executed : /\ outcome[c] = "answered" /\ answer[c].status = 0
                      /\ sent[c].reset = opts.reset /\ sent[c].core = Cores[i]

\* Messages and outcomes, as long as nothing is broken.
Exchange ==
  /\ nl \notin {"receive", "wait"} => queue = <<>>
  /\ nl = "receive" =>
       \/ Len(queue) = 1 /\ queue[1].kind \in {"ack", "error"}
       \/ Len(queue) = 2 /\ queue[1].kind \in {"reply", "bare"} /\ queue[2].kind \in {"ack", "error"}
  /\ nl = "wait" => Len(queue) = 1 /\ queue[1].kind \in {"ack", "error"}
  /\ \A i \in 1..Len(queue) :
       queue[i].of = Current /\ (queue[i].kind = "ack" => Current \in executed)
  /\ nl = "driver" => Current \notin executed
  /\ Pending => outcome[Current] = "pending"
  /\ \A c \in 1..Len(sent) :
       /\ outcome[c] = "pending" => Pending /\ c = Current
       /\ outcome[c] = "answered" => c \in executed /\ reply[c] = c
  /\ nl = "returned" /\ ret = 0 => outcome[Current] = "answered" /\ buffer.of = Current

\* What was asked for.
Asked ==
  /\ \A c \in 1..Len(sent) : sent[c].core \in Selected
  /\ pc \in {"alloc", "send", "await", "resend", "await_old", "walk", "next"} =>
       core <= Len(Cores) /\ Cores[core] \in Selected
  /\ pc \in {"await", "await_old"} =>
       sent[Current].core = Cores[core] /\ sent[Current].reset = opts.reset
  /\ pc = "done" /\ result = 0 => core = Len(Cores) + 1

\* What has been read.
Reading ==
  /\ \A i \in 1..(core - 1) : Cores[i] \in Selected => Read(i)
  /\ pc = "walk" \/ (pc = "next" /\ result = 0) => Read(core)

\* The octets of a that the buffer has room for.
Received(a) == IF a.size > Room THEN Room ELSE a.size

\* The buffer has the current command's answer, as much as it has room for.
Holds == buffer = [of |-> Current, len |-> Received(answer[Current])]

\* How far the walk has come in the sound answer to the current command.
Reached ==
  LET a == answer[Current]
  IN Sound(a) => \E i \in 1..(Len(a.tlvs) + 1) :
                   pos = Begin(a.tlvs, i) /\ shown = Values(a.tlvs, Passing, i - 1)

\* What the buffer holds, and what has been shown of it.
Showing ==
  /\ pc = "send" => buffer = Fresh
  /\ pc = "await" => buffer = Fresh \/ (nl \notin {"driver", "receive"} /\ Holds)
  /\ pc = "await" => shown = <<>>
  /\ pc = "await_old" => sent[Current].version = "old"
  /\ pc = "walk" => Len(sent) > 0 /\ Holds /\ ~opts.reset /\ Reached

IInv ==
  /\ TypeOK /\ Walking /\ WalkBounded /\ Asked
  /\ ~broken => Exchange /\ Reading /\ Showing /\ ShownWhole

-------------------------------------------------------------------------------
\* What the transport's steps leave in its tables.

\* Answers are typed.
LEMMA AnswerTypes ==
  ASSUME NEW a \in Answers PROVE a.size \in Nat /\ IsTlvs(a.tlvs)
<1>1. CASE a \in Replies
  <2>1. a.tlvs \in Seq(ToSet(a.tlvs)) /\ \A i \in DOMAIN a.tlvs : a.tlvs[i].len \in Nat
    BY <1>1, StatsAssumption
  <2>2. DOMAIN a.tlvs = 1..Len(a.tlvs)
    BY <2>1
  <2>3. a.size \in Nat
    BY <1>1, Nl80211Assumption
  <2>. QED  BY <2>1, <2>2, <2>3 DEF IsTlvs
<1>2. CASE a = NoAnswer
  <2>1. a.size = 0 /\ a.tlvs = <<>>
    BY <1>2 DEF NoAnswer
  <2>2. <<>> \in Seq(ToSet(<<>>)) /\ Len(<<>>) = 0
    OBVIOUS
  <2>. QED  BY <2>1, <2>2 DEF IsTlvs
<1>. QED  BY <1>1, <1>2 DEF Answers

\* A record of another command.
LEMMA Recorded ==
  ASSUME NlType, NEW request \in Requests, NEW res \in Results, Record(request, res)
  PROVE  /\ sent' \in Seq(Requests) /\ answer' \in Seq(Answers)
         /\ outcome' \in Seq(Results) /\ reply' \in Seq(Nat)
         /\ Len(sent') = Len(sent) + 1 /\ Len(answer') = Len(sent) + 1
         /\ Len(outcome') = Len(sent) + 1 /\ Len(reply') = Len(sent) + 1
         /\ \A c \in 1..Len(sent) : /\ sent'[c] = sent[c] /\ answer'[c] = answer[c]
                                    /\ outcome'[c] = outcome[c] /\ reply'[c] = reply[c]
         /\ sent'[Len(sent) + 1] = request /\ outcome'[Len(sent) + 1] = res
<1>1. /\ sent \in Seq(Requests) /\ answer \in Seq(Answers)
      /\ outcome \in Seq(Results) /\ reply \in Seq(Nat)
      /\ Len(answer) = Len(sent) /\ Len(outcome) = Len(sent) /\ Len(reply) = Len(sent)
  BY DEF NlType
<1>2. /\ sent' = Append(sent, request) /\ answer' = Append(answer, NoAnswer)
      /\ outcome' = Append(outcome, res) /\ reply' = Append(reply, Junk)
  BY DEF Record
<1>3. NoAnswer \in Answers /\ Junk \in Nat
  BY DEF Answers, Junk
<1>4. /\ sent' \in Seq(Requests) /\ Len(sent') = Len(sent) + 1
      /\ \A c \in 1..Len(sent) : sent'[c] = sent[c]
      /\ sent'[Len(sent) + 1] = request
  BY <1>1, <1>2, AppendProperties
<1>5. /\ answer' \in Seq(Answers) /\ Len(answer') = Len(answer) + 1
      /\ \A c \in 1..Len(answer) : answer'[c] = answer[c]
  BY <1>1, <1>2, <1>3, AppendProperties
<1>6. /\ outcome' \in Seq(Results) /\ Len(outcome') = Len(outcome) + 1
      /\ \A c \in 1..Len(outcome) : outcome'[c] = outcome[c]
      /\ outcome'[Len(outcome) + 1] = res
  BY <1>1, <1>2, AppendProperties
<1>7. /\ reply' \in Seq(Nat) /\ Len(reply') = Len(reply) + 1
      /\ \A c \in 1..Len(reply) : reply'[c] = reply[c]
  BY <1>1, <1>2, <1>3, AppendProperties
<1>. QED  BY <1>1, <1>4, <1>5, <1>6, <1>7

\* One entry of a table changes.
LEMMA Replaced ==
  ASSUME NEW T, NEW t \in Seq(T), NEW i \in 1..Len(t), NEW e \in T
  PROVE  /\ [t EXCEPT ![i] = e] \in Seq(T)
         /\ Len([t EXCEPT ![i] = e]) = Len(t)
         /\ [t EXCEPT ![i] = e][i] = e
         /\ \A j \in 1..Len(t) : j # i => [t EXCEPT ![i] = e][j] = t[j]
BY ExceptSeq

\* Send returns r.
LEMMA Settled ==
  ASSUME NlType, Len(sent) > 0, NEW r \in {0, -1}, Finish(r)
  PROVE  /\ outcome' \in Seq(Results) /\ reply' \in Seq(Nat)
         /\ Len(outcome') = Len(sent) /\ Len(reply') = Len(sent)
         /\ outcome'[Current] = IF r = 0 THEN "answered" ELSE "failed"
         /\ reply'[Current] = buffer.of
         /\ \A c \in 1..Len(sent) :
              c # Current => outcome'[c] = outcome[c] /\ reply'[c] = reply[c]
<1> DEFINE res == IF r = 0 THEN "answered" ELSE "failed"
<1>1. /\ outcome \in Seq(Results) /\ reply \in Seq(Nat)
      /\ Len(outcome) = Len(sent) /\ Len(reply) = Len(sent)
      /\ Current \in 1..Len(sent) /\ buffer.of \in Nat /\ res \in Results
  BY DEF NlType, Current, Results
<1>2. outcome' = [outcome EXCEPT ![Current] = res] /\ reply' = [reply EXCEPT ![Current] = buffer.of]
  BY DEF Finish
<1> HIDE DEF res
<1>3. /\ outcome' \in Seq(Results) /\ Len(outcome') = Len(outcome) /\ outcome'[Current] = res
      /\ \A c \in 1..Len(outcome) : c # Current => outcome'[c] = outcome[c]
  BY <1>1, <1>2, Replaced
<1>4. /\ reply' \in Seq(Nat) /\ Len(reply') = Len(reply) /\ reply'[Current] = buffer.of
      /\ \A c \in 1..Len(reply) : c # Current => reply'[c] = reply[c]
  BY <1>1, <1>2, Replaced
<1>. QED  BY <1>1, <1>3, <1>4 DEF res

\* A message is taken.
LEMMA Taken ==
  ASSUME NlType, queue # <<>>, queue' = Tail(queue)
  PROVE  /\ queue' \in Seq(Messages) /\ Len(queue') = Len(queue) - 1
         /\ \A i \in 1..Len(queue') : queue'[i] = queue[i + 1] /\ i + 1 \in 1..Len(queue)
         /\ First = queue[1] /\ First \in Messages /\ 1 \in 1..Len(queue)
<1>1. queue \in Seq(Messages) /\ Len(queue) \in Nat
  BY DEF NlType
<1>2. Len(queue) # 0
  BY <1>1, EmptySeq
<1>3. /\ queue' \in Seq(Messages) /\ Len(queue') = Len(queue) - 1
      /\ \A i \in 1..Len(queue') : queue'[i] = queue[i + 1]
  BY <1>1, HeadTailProperties
<1>4. First = queue[1] /\ First \in Messages
  BY <1>1, HeadTailProperties DEF First
<1>5. \A i \in 1..Len(queue') : i + 1 \in 1..Len(queue)
  BY <1>1, <1>3
<1>. QED  BY <1>1, <1>2, <1>3, <1>4, <1>5

\* What the driver has to say: a reply and a verdict, or a verdict, about the command.
LEMMA VerdictIs ==
  ASSUME NlType, NEW c \in Nat, NEW verdict \in Verdicts(c)
  PROVE  /\ verdict \in Seq(Messages) /\ \A i \in 1..Len(verdict) : verdict[i].of = c
         /\ \/ Len(verdict) = 1 /\ verdict[1].kind \in {"ack", "error"}
            \/ /\ Len(verdict) = 2 /\ verdict[1].kind \in {"reply", "bare"}
               /\ verdict[2].kind \in {"ack", "error"}
         /\ verdict[1].kind = "error" => \A i \in 1..Len(verdict) : verdict[i].kind # "ack"
<1>1. \A type \in {"reply", "bare", "ack", "error"} :
        Message(type, c) \in Messages /\ Message(type, c).of = c /\ Message(type, c).kind = type
  BY DEF NlType, Message, Messages
<1>2. ASSUME NEW a \in {"reply", "bare"}, NEW b \in {"ack", "error"},
             verdict = <<Message(a, c), Message(b, c)>>
      PROVE  /\ verdict \in Seq(Messages) /\ \A i \in 1..Len(verdict) : verdict[i].of = c
             /\ Len(verdict) = 2 /\ verdict[1].kind = a /\ verdict[2].kind = b
  BY <1>1, <1>2
<1>3. ASSUME NEW a \in {"ack", "error"}, verdict = <<Message(a, c)>>
      PROVE  /\ verdict \in Seq(Messages) /\ \A i \in 1..Len(verdict) : verdict[i].of = c
             /\ Len(verdict) = 1 /\ verdict[1].kind = a
  BY <1>1, <1>3
<1>4. \/ \E a \in {"reply", "bare"}, b \in {"ack", "error"} : verdict = <<Message(a, c), Message(b, c)>>
      \/ \E a \in {"ack", "error"} : verdict = <<Message(a, c)>>
  BY DEF Verdicts, Reply, Bare, Ack, Error
<1>5. CASE \E a \in {"reply", "bare"}, b \in {"ack", "error"} : verdict = <<Message(a, c), Message(b, c)>>
  BY <1>2, <1>5
<1>6. CASE \E a \in {"ack", "error"} : verdict = <<Message(a, c)>>
  <2>1. PICK a \in {"ack", "error"} : verdict = <<Message(a, c)>>
    BY <1>6
  <2>2. /\ verdict \in Seq(Messages) /\ \A i \in 1..Len(verdict) : verdict[i].of = c
        /\ Len(verdict) = 1 /\ verdict[1].kind = a
    BY <1>3, <2>1
  <2>. QED  BY <2>2
<1>. QED  BY <1>4, <1>5, <1>6

-------------------------------------------------------------------------------
\* Types are kept.

\* A request is one for a core.
LEMMA RequestType ==
  ASSUME TypeOK, Asked, pc \in {"send", "resend"}
  PROVE  /\ Request \in Requests /\ OldRequest \in Requests
         /\ Request = [core |-> Cores[core], reset |-> opts.reset, version |-> "new"]
         /\ OldRequest = [core |-> Cores[core], reset |-> opts.reset, version |-> "old"]
<1>1. Cores \in Seq(ToSet(Cores)) /\ core \in 1..Len(Cores)
  BY StatsAssumption DEF TypeOK, Asked
<1>2. Cores[core] \in ToSet(Cores) /\ opts.reset \in BOOLEAN
  BY <1>1 DEF TypeOK, Options
<1>. QED  BY <1>2 DEF Request, OldRequest, Requests

\* Another command.
LEMMA IssueType ==
  ASSUME NlType, NEW request \in Requests, Issue(request)
  PROVE  NlType' /\ nl' \in {"driver", "returned"} /\ Len(sent') > 0
<1> USE DEF Results
<1>1. CASE Send(request)
  <2>1. /\ Record(request, "pending") /\ seq' = seq + 1 /\ nl' = "driver"
        /\ UNCHANGED <<queue, expect, buffer, ret, executed, broken>>
    BY <1>1 DEF Send
  <2>. QED  BY <2>1, Recorded DEF NlType
<1>2. CASE SendFails(request)
  <2>1. /\ nl' = "returned" /\ UNCHANGED <<queue, expect, buffer, executed>>
        /\ seq' \in {seq, seq + 1} /\ ret' \in {0, -1} /\ broken' \in BOOLEAN
        /\ \E res \in {"failed", "answered"} : Record(request, res)
    BY <1>2 DEF SendFails, NlType
  <2>2. PICK res \in {"failed", "answered"} : Record(request, res)
    BY <2>1
  <2>. QED  BY <2>1, <2>2, Recorded DEF NlType
<1>. QED  BY <1>1, <1>2 DEF Issue

\* The driver has its say.
LEMMA DriverType ==
  ASSUME NlType, Len(sent) > 0, Driver PROVE NlType' /\ nl' = "receive"
<1>1. PICK verdict \in Verdicts(Current) :
        /\ queue' = queue \o verdict
        /\ IF verdict[1].kind = "reply"
             THEN \E r \in Replies : answer' = [answer EXCEPT ![Current] = r]
             ELSE UNCHANGED answer
        /\ \/ executed' = executed \cup {Current}
           \/ verdict[1].kind = "error" /\ UNCHANGED executed
  BY DEF Driver
<1>2. Current \in 1..Len(sent) /\ Current \in Nat
  BY DEF NlType, Current
<1>3. verdict \in Seq(Messages) /\ \A i \in 1..Len(verdict) : verdict[i].of = Current
  BY <1>2, VerdictIs
<1>4. /\ queue' \in Seq(Messages) /\ \A i \in 1..Len(queue') : queue'[i].of \in 1..Len(sent)
  <2>1. /\ queue' \in Seq(Messages) /\ Len(queue') = Len(queue) + Len(verdict)
        /\ \A i \in 1..(Len(queue) + Len(verdict)) :
             queue'[i] = IF i <= Len(queue) THEN queue[i] ELSE verdict[i - Len(queue)]
    BY <1>1, <1>3, ConcatProperties DEF NlType
  <2>2. ASSUME NEW i \in 1..Len(queue') PROVE queue'[i].of \in 1..Len(sent)
    <3>1. CASE i <= Len(queue)
      <4>1. i \in 1..Len(queue) /\ i \in 1..(Len(queue) + Len(verdict))
        BY <1>3, <2>1, <3>1 DEF NlType
      <4>2. queue'[i] = queue[i]
        BY <2>1, <3>1, <4>1
      <4>. QED  BY <4>1, <4>2 DEF NlType
    <3>2. CASE ~(i <= Len(queue))
      <4>1. i - Len(queue) \in 1..Len(verdict)
        BY <1>3, <2>1, <3>2 DEF NlType
      <4>2. i \in 1..(Len(queue) + Len(verdict))
        BY <2>1
      <4>3. queue'[i] = verdict[i - Len(queue)]
        BY <2>1, <3>2, <4>2
      <4>. QED  BY <1>2, <1>3, <4>1, <4>3
    <3>. QED  BY <3>1, <3>2
  <2>. QED  BY <2>1, <2>2
<1>5. answer' \in Seq(Answers) /\ Len(answer') = Len(sent)
  <2>1. CASE UNCHANGED answer
    BY <2>1 DEF NlType
  <2>2. CASE \E r \in Replies : answer' = [answer EXCEPT ![Current] = r]
    <3>1. PICK r \in Replies : answer' = [answer EXCEPT ![Current] = r]
      BY <2>2
    <3>2. r \in Answers /\ answer \in Seq(Answers) /\ Current \in 1..Len(answer)
      BY <1>2, <3>1 DEF Answers, NlType
    <3>. QED  BY <3>1, <3>2, Replaced DEF NlType
  <2>. QED  BY <1>1, <2>1, <2>2
<1>6. executed' \subseteq 1..Len(sent)
  BY <1>1, <1>2 DEF NlType
<1>7. nl' = "receive" /\ UNCHANGED <<seq, expect, buffer, ret, sent, outcome, reply, broken>>
  BY DEF Driver
<1>. QED  BY <1>4, <1>5, <1>6, <1>7 DEF NlType

\* What ReceiveHandler puts into the buffer.
LEMMA HandlerType ==
  ASSUME NlType, NEW c \in 1..Len(sent), ReceiveHandler(c)
  PROVE  buffer' \in [of : Nat, len : 0..Room] /\ buffer'.of = c
<1>1. answer[c].size \in Nat
  <2>1. answer[c] \in Answers
    BY DEF NlType
  <2>. QED  BY <2>1, AnswerTypes
<1>2. buffer.len \in 0..Room /\ Room \in Nat
  BY Nl80211Assumption DEF NlType
<1>. QED  BY <1>1, <1>2 DEF ReceiveHandler

\* A message is received, or not.
LEMMA ReceiveType ==
  ASSUME NlType, Len(sent) > 0, Receive
  PROVE  NlType' /\ nl' \in {"wait", "returned"} /\ Len(sent') > 0
<1>1. queue # <<>> /\ UNCHANGED <<seq, sent, answer, executed>>
  BY DEF Receive
<1>2. ASSUME queue' = Tail(queue)
      PROVE  queue' \in Seq(Messages) /\ \A i \in 1..Len(queue') : queue'[i].of \in 1..Len(sent)
  <2>1. /\ queue' \in Seq(Messages)
        /\ \A i \in 1..Len(queue') : queue'[i] = queue[i + 1] /\ i + 1 \in 1..Len(queue)
    BY <1>1, <1>2, Taken
  <2>. QED  BY <2>1 DEF NlType
<1>3. CASE TakeReply
  <2>1. /\ queue' = Tail(queue) /\ nl' = "wait" /\ UNCHANGED <<expect, ret, outcome, reply, broken>>
        /\ ReceiveHandler(First.of) \/ UNCHANGED buffer
    BY <1>3 DEF TakeReply
  <2>2. First.of \in 1..Len(sent)
    <3>1. First = queue[1] /\ 1 \in 1..Len(queue)
      BY <1>1, <2>1, Taken
    <3>. QED  BY <3>1 DEF NlType
  <2>3. buffer' \in [of : Nat, len : 0..Room] /\ buffer'.of \in 0..Len(sent)
    <3>1. CASE UNCHANGED buffer
      BY <3>1 DEF NlType
    <3>2. CASE ReceiveHandler(First.of)
      <4>1. PICK c \in 1..Len(sent) : ReceiveHandler(c)
        BY <2>2, <3>2
      <4>. QED  BY <4>1, HandlerType DEF NlType
    <3>. QED  BY <2>1, <3>1, <3>2
  <2>. QED  BY <1>1, <1>2, <2>1, <2>3 DEF NlType
<1>4. ASSUME NEW r \in {0, -1}, Finish(r), UNCHANGED buffer, broken' \in BOOLEAN,
             expect' \in {expect, expect + 1}, UNCHANGED queue \/ queue' = Tail(queue)
      PROVE  NlType' /\ nl' \in {"wait", "returned"} /\ Len(sent') > 0
  <2>1. nl' = "returned" /\ ret' = r
    BY <1>4 DEF Finish
  <2>2. /\ outcome' \in Seq(Results) /\ reply' \in Seq(Nat)
        /\ Len(outcome') = Len(sent) /\ Len(reply') = Len(sent)
    BY <1>4, Settled
  <2>. QED  BY <1>1, <1>2, <1>4, <2>1, <2>2 DEF NlType
<1>5. CASE TakeError
  <2>1. /\ Finish(-1) /\ UNCHANGED <<buffer, broken>> /\ expect' = expect + 1
        /\ queue' = Tail(queue) /\ broken' \in BOOLEAN /\ -1 \in {0, -1}
    BY <1>5 DEF TakeError, NlType
  <2>. QED  BY <1>4, <2>1
<1>6. CASE TakeAck
  <2>1. /\ Finish(0) /\ UNCHANGED buffer /\ expect' = expect + 1
        /\ queue' = Tail(queue) /\ broken' \in BOOLEAN /\ 0 \in {0, -1}
    BY <1>6 DEF TakeAck, NlType
  <2>. QED  BY <1>4, <2>1
<1>7. CASE ReceiveFails
  <2>1. /\ Finish(-1) /\ UNCHANGED <<expect, buffer>> /\ broken' \in BOOLEAN
        /\ (UNCHANGED queue \/ queue' = Tail(queue)) /\ -1 \in {0, -1}
    BY <1>7 DEF ReceiveFails
  <2>. QED  BY <1>4, <2>1
<1>. QED  BY <1>3, <1>5, <1>6, <1>7 DEF Receive

\* What leaves the transport alone.
LEMMA QuietType ==
  ASSUME NlType, UNCHANGED nlvars PROVE NlType' /\ (Busy' <=> Busy) /\ buffer' = buffer
BY DEF NlType, Busy, Pending, nlvars, socket, commands

\* The header read at pos has a length.
LEMMA HeaderLength ==
  ASSUME TypeOK, NEW t \in Headers PROVE t.len \in Nat
<1>1. IsTlvs(Tlvs)
  <2>1. CASE buffer.of = Junk
    <3>1. Tlvs = NoAnswer.tlvs /\ NoAnswer \in Answers
      BY <2>1 DEF Tlvs, NoAnswer, Answers
    <3>. QED  BY <3>1, AnswerTypes
  <2>2. CASE buffer.of # Junk
    <3>1. answer[buffer.of] \in Answers
      BY <2>2 DEF TypeOK, NlType, Junk
    <3>. QED  BY <2>2, <3>1, AnswerTypes DEF Tlvs
  <2>. QED  BY <2>1, <2>2
<1>2. \A i \in DOMAIN Tlvs : Tlvs[i].len \in Nat
  BY <1>1 DEF IsTlvs
<1>3. \A h \in [tag : Tags, len : Lengths] : h.len \in Nat
  BY StatsAssumption
<1>. QED  BY <1>2, <1>3 DEF Headers

\* Every step keeps the types and the walk inside the buffer.
LEMMA StepType ==
  ASSUME TypeOK, Walking, WalkBounded, Asked, [Next]_vars
  PROVE  TypeOK' /\ Walking' /\ WalkBounded'
<1> USE DEF Overhead
<1>0. /\ NlType /\ opts \in Options /\ core \in 1..(Len(Cores) + 1) /\ pos \in Nat /\ left \in Int
      /\ (Busy <=> pc \in {"await", "await_old"}) /\ Len(Cores) \in Nat
      /\ buffer.len \in Nat /\ buffer.len <= Room /\ Room \in Nat
  <2>1. Len(Cores) \in Nat
    BY StatsAssumption
  <2>2. buffer.len \in 0..Room /\ Room \in Nat
    BY Nl80211Assumption DEF TypeOK, NlType
  <2>. QED  BY <2>1, <2>2 DEF TypeOK
<1>1. CASE Start
  <2>1. /\ pc' \in {"load", "done"} /\ nl = "closed" /\ nl' \in {"idle", "closed"} /\ ret' \in {0, -1}
        /\ UNCHANGED <<queue, seq, expect, buffer, commands, opts, core, walk>>
    BY <1>1 DEF Start, Open, Done
  <2>. QED  BY <1>0, <2>1 DEF TypeOK, Walking, WalkBounded, NlType, Busy, Pending, commands, walk
<1>2. CASE Load
  <2>1. /\ pc = "load" /\ pc' \in {"core", "done"} /\ UNCHANGED nlvars
        /\ UNCHANGED <<opts, core, walk>>
    BY <1>2 DEF Load, Done
  <2>. QED  BY <1>0, <2>1, QuietType DEF TypeOK, Walking, WalkBounded, walk
<1>3. CASE NextCore
  <2>1. /\ pc = "core" /\ pc' \in {"core", "alloc", "done"} /\ UNCHANGED nlvars
        /\ UNCHANGED <<opts, walk>> /\ (core' = core \/ (core' = core + 1 /\ ~(core > Len(Cores))))
    BY <1>3 DEF NextCore, Done
  <2>2. core' \in 1..(Len(Cores) + 1)
    BY <1>0, <2>1
  <2>. QED  BY <1>0, <2>1, <2>2, QuietType DEF TypeOK, Walking, WalkBounded, walk
<1>4. CASE Alloc
  <2>1. /\ pc = "alloc" /\ pc' \in {"send", "done"} /\ UNCHANGED <<opts, core, walk, socket, ret, commands>>
        /\ buffer' = Fresh
    BY <1>4 DEF Alloc, ReadAlloc, Done
  <2>2. NlType' /\ (Busy' <=> Busy)
    BY <1>0, <2>1 DEF NlType, Fresh, Junk, socket, commands, Busy, Pending
  <2>. QED  BY <1>0, <2>1, <2>2 DEF TypeOK, Walking, WalkBounded, walk
<1>5. ASSUME NEW request \in Requests, Issue(request), pc' \in {"await", "await_old"},
             pc' = "await_old" => pos = 0
      PROVE  TypeOK' /\ Walking' /\ WalkBounded'
  <2>1. NlType' /\ nl' \in {"driver", "returned"} /\ Len(sent') > 0
    BY <1>0, <1>5, IssueType
  <2>2. UNCHANGED <<opts, core, walk>> /\ Busy'
    BY <1>5, <2>1 DEF Issue, Busy, Pending
  <2>. QED  BY <1>0, <1>5, <2>1, <2>2 DEF TypeOK, Walking, WalkBounded, walk
<1>6. CASE Query
  <2>1. Issue(Request) /\ pc' = "await" /\ Request \in Requests
    BY <1>6, RequestType DEF Query
  <2>. QED  BY <1>5, <2>1
<1>7. CASE QueryAgain
  <2>1. Issue(OldRequest) /\ pc' = "await_old" /\ OldRequest \in Requests /\ pos = 0
    BY <1>7, RequestType DEF QueryAgain, Walking
  <2>. QED  BY <1>5, <2>1
<1>8. CASE Transport
  <2>1. pc \in {"await", "await_old"} /\ UNCHANGED <<pc, opts, core, walk>> /\ Len(sent) > 0
    BY <1>8 DEF Transport, TypeOK
  <2>2. NlType' /\ Busy' /\ Len(sent') > 0
    <3>1. CASE Driver
      <4>1. NlType' /\ nl' = "receive"
        BY <1>0, <2>1, <3>1, DriverType
      <4>2. sent' = sent
        BY <3>1 DEF Driver
      <4>. QED  BY <2>1, <4>1, <4>2 DEF Busy, Pending
    <3>2. CASE Receive
      <4>1. NlType' /\ nl' \in {"wait", "returned"} /\ Len(sent') > 0
        BY <1>0, <2>1, <3>2, ReceiveType
      <4>. QED  BY <4>1 DEF Busy, Pending
    <3>. QED  BY <1>8, <3>1, <3>2 DEF Transport
  <2>. QED  BY <1>0, <2>1, <2>2 DEF TypeOK, Walking, WalkBounded, walk
<1>9. CASE Answered
  <2>1. /\ pc' \in {"resend", "next", "walk"} /\ pos' = 0 /\ left' = buffer.len
        /\ nl' = "idle" /\ UNCHANGED <<queue, seq, expect, buffer, ret, commands, opts, core>>
    BY <1>9 DEF Answered, Return
  <2>2. NlType' /\ ~Busy'
    BY <1>0, <2>1 DEF NlType, commands, Busy, Pending
  <2>. QED  BY <1>0, <2>1, <2>2 DEF TypeOK, Walking, WalkBounded
<1>10. CASE AnsweredOld
  <2>1. /\ pc = "await_old" /\ pc' = "next" /\ UNCHANGED walk
        /\ nl' = "idle" /\ UNCHANGED <<queue, seq, expect, buffer, ret, commands, opts, core>>
    BY <1>10 DEF AnsweredOld, Return
  <2>2. NlType' /\ ~Busy'
    BY <1>0, <2>1 DEF NlType, commands, Busy, Pending
  <2>. QED  BY <1>0, <2>1, <2>2 DEF TypeOK, Walking, WalkBounded, walk
<1>11. CASE Leave
  <2>1. /\ pc = "next" /\ pc' \in {"core", "done"} /\ UNCHANGED nlvars
        /\ UNCHANGED <<opts, walk>> /\ core' \in {core, core + 1} /\ core <= Len(Cores)
    BY <1>11 DEF Leave, Asked
  <2>. QED  BY <1>0, <2>1, QuietType DEF TypeOK, Walking, WalkBounded, walk
<1>12. CASE Walk
  <2>1. pc = "walk" /\ pc' \in {"walk", "next"} /\ UNCHANGED nlvars /\ UNCHANGED <<opts, core>>
    BY <1>12 DEF Walk
  <2>2. \/ UNCHANGED walk
        \/ /\ left > Overhead /\ pc' = "walk"
           /\ \E t \in Headers : ~Malformed(t) /\ Advance(t)
    BY <1>12, <2>1 DEF Walk
  <2>3. pos' \in Nat /\ left' \in Int /\ pos' + left' = buffer.len /\ left' >= -Overhead
    <3>1. CASE UNCHANGED walk
      BY <1>0, <2>1, <3>1 DEF walk, Walking
    <3>2. CASE left > Overhead /\ \E t \in Headers : ~Malformed(t) /\ Advance(t)
      <4>1. PICK t \in Headers : ~Malformed(t) /\ Advance(t)
        BY <3>2
      <4>2. t.len \in Nat
        BY HeaderLength
      <4>3. /\ pos' = pos + 4 + t.len /\ left' = left - (4 + t.len)
            /\ ~(t.len > left) /\ left > 4
        BY <3>2, <4>1 DEF Malformed, Advance, Remaining
      <4>4. pos + left = buffer.len
        BY <2>1 DEF Walking
      <4> DEFINE n == t.len
      <4>5. n \in Nat /\ pos' = pos + 4 + n /\ left' = left - (4 + n) /\ ~(n > left)
        BY <4>2, <4>3
      <4> HIDE DEF n
      <4>. QED  BY <1>0, <4>3, <4>4, <4>5
    <3>. QED  BY <2>2, <3>1, <3>2
  <2>4. NlType' /\ (Busy' <=> Busy) /\ buffer' = buffer
    BY <1>0, <2>1, QuietType
  <2>5. pos' <= buffer'.len + Overhead
    BY <1>0, <2>3, <2>4
  <2>6. TypeOK'
    BY <1>0, <2>1, <2>3, <2>4 DEF TypeOK
  <2>. QED  BY <2>1, <2>3, <2>4, <2>5, <2>6 DEF Walking, WalkBounded
<1>13. CASE UNCHANGED vars
  <2>1. UNCHANGED nlvars /\ UNCHANGED <<pc, opts, core, walk, sent>>
    BY <1>13 DEF vars, nlvars, commands
  <2>. QED  BY <1>0, <2>1, QuietType DEF TypeOK, Walking, WalkBounded, walk
<1>. QED
  BY <1>1, <1>2, <1>3, <1>4, <1>6, <1>7, <1>8, <1>9, <1>10, <1>11, <1>12, <1>13
  DEF Next, Handler, Finished

-------------------------------------------------------------------------------
\* Cores that are not meant are not asked.

\* Outside a new command, what was asked for stays.
LEMMA AskedStays ==
  ASSUME Asked, UNCHANGED <<sent, opts, core>>,
         pc' \in {"alloc", "send", "await", "resend", "await_old", "walk", "next"} =>
           core <= Len(Cores) /\ Cores[core] \in Selected,
         pc' \in {"await", "await_old"} => pc = pc',
         pc' = "done" /\ result' = 0 => core = Len(Cores) + 1
  PROVE  Asked'
<1>1. Selected' = Selected /\ Current' = Current
  BY DEF Selected, Current
<1>. QED  BY <1>1 DEF Asked

\* Every step asks for a core that is meant, in turn.
LEMMA StepAsked ==
  ASSUME TypeOK, Asked, [Next]_vars PROVE Asked'
<1>0. core \in 1..(Len(Cores) + 1) /\ Len(Cores) \in Nat
  <2>1. Len(Cores) \in Nat
    BY StatsAssumption
  <2>. QED  BY <2>1 DEF TypeOK
<1>1. CASE Start
  <2>1. /\ pc' = "load" \/ (pc' = "done" /\ result' = -1)
        /\ UNCHANGED <<sent, opts, core>>
    BY <1>1 DEF Start, Open, Done, commands
  <2>. QED  BY <2>1, AskedStays
<1>2. CASE Load
  <2>1. /\ pc' = "core" \/ (pc' = "done" /\ result' = -1)
        /\ UNCHANGED <<sent, opts, core>>
    BY <1>2 DEF Load, Done, nlvars, commands
  <2>. QED  BY <2>1, AskedStays
<1>3. CASE NextCore
  <2>1. UNCHANGED <<sent, opts>> /\ Selected' = Selected /\ Current' = Current
    BY <1>3 DEF NextCore, nlvars, commands, Selected, Current
  <2>2. \/ pc' = "done" /\ core > Len(Cores) /\ core' = core
        \/ pc' = "alloc" /\ ~(core > Len(Cores)) /\ Cores[core] \in Selected /\ core' = core
        \/ pc' = "core"
    BY <1>3 DEF NextCore, Done
  <2>. QED  BY <1>0, <2>1, <2>2 DEF Asked
<1>4. CASE Alloc
  <2>1. /\ pc = "alloc" /\ (pc' = "send" \/ (pc' = "done" /\ result' \in {1, -1}))
        /\ UNCHANGED <<sent, opts, core>>
    BY <1>4 DEF Alloc, Done, commands
  <2>2. core <= Len(Cores) /\ Cores[core] \in Selected
    BY <2>1 DEF Asked
  <2>. QED  BY <2>1, <2>2, AskedStays
<1>5. ASSUME NEW request \in Requests, Issue(request), pc' \in {"await", "await_old"},
             pc \in {"send", "resend"},
             request.core = Cores[core], request.reset = opts.reset
      PROVE  Asked'
  <2>1. PICK res \in Results : Record(request, res)
    BY <1>5 DEF Issue, Send, SendFails, Results
  <2>2. /\ Len(sent') = Len(sent) + 1 /\ \A c \in 1..Len(sent) : sent'[c] = sent[c]
        /\ sent'[Len(sent) + 1] = request /\ Len(sent) \in Nat
    BY <1>5, <2>1, Recorded DEF TypeOK, NlType
  <2>3. UNCHANGED <<opts, core>> /\ Selected' = Selected /\ Current' = Len(sent) + 1
    BY <1>5, <2>2 DEF Issue, Selected, Current
  <2>4. core <= Len(Cores) /\ Cores[core] \in Selected
    BY <1>5 DEF Asked
  <2>5. ASSUME NEW c \in 1..Len(sent') PROVE sent'[c].core \in Selected
    <3>1. CASE c = Len(sent) + 1
      BY <1>5, <2>2, <2>4, <3>1
    <3>2. CASE c # Len(sent) + 1
      <4>1. c \in 1..Len(sent)
        BY <2>2, <3>2
      <4>. QED  BY <2>2, <4>1 DEF Asked
    <3>. QED  BY <3>1, <3>2
  <2>. QED  BY <1>5, <2>2, <2>3, <2>4, <2>5 DEF Asked
<1>6. CASE Query \/ QueryAgain
  <2>1. pc \in {"send", "resend"} /\ pc' \in {"await", "await_old"}
    BY <1>6 DEF Query, QueryAgain
  <2>2. PICK request \in {Request, OldRequest} : Issue(request)
    BY <1>6 DEF Query, QueryAgain
  <2>3. request \in Requests /\ request.core = Cores[core] /\ request.reset = opts.reset
    BY <2>1, RequestType
  <2>. QED  BY <1>5, <2>1, <2>2, <2>3
<1>7. CASE Transport
  <2>1. pc \in {"await", "await_old"} /\ pc' = pc /\ UNCHANGED <<sent, opts, core>>
    BY <1>7 DEF Transport, Driver, Receive
  <2>. QED  BY <2>1, AskedStays DEF Asked
<1>8. CASE Answered \/ AnsweredOld
  <2>1. /\ pc \in {"await", "await_old"} /\ pc' \in {"resend", "next", "walk"}
        /\ UNCHANGED <<sent, opts, core>>
    BY <1>8 DEF Answered, AnsweredOld, commands
  <2>. QED  BY <2>1, AskedStays DEF Asked
<1>9. CASE Leave
  <2>1. UNCHANGED <<sent, opts>> /\ Selected' = Selected /\ Current' = Current
    BY <1>9 DEF Leave, nlvars, commands, Selected, Current
  <2>2. \/ pc' = "done" /\ result' # 0 /\ core' = core
        \/ pc' = "core"
    BY <1>9 DEF Leave
  <2>. QED  BY <1>0, <2>1, <2>2 DEF Asked
<1>10. CASE Walk
  <2>1. pc = "walk" /\ pc' \in {"walk", "next"} /\ UNCHANGED <<sent, opts, core>>
    BY <1>10 DEF Walk, nlvars, commands
  <2>. QED  BY <2>1, AskedStays DEF Asked
<1>11. CASE UNCHANGED vars
  <2>1. UNCHANGED <<sent, opts, core, pc, result>>
    BY <1>11 DEF vars, nlvars, commands
  <2>. QED  BY <2>1, AskedStays DEF Asked
<1>. QED
  BY <1>1, <1>2, <1>3, <1>4, <1>6, <1>7, <1>8, <1>9, <1>10, <1>11 DEF Next, Handler, Finished

-------------------------------------------------------------------------------
\* As long as nothing is broken, messages and outcomes are those of the exchange.

\* What is broken stays so.
LEMMA BrokenStays == ASSUME TypeOK, [Next]_vars, ~broken' PROVE ~broken
<1>1. ASSUME UNCHANGED broken PROVE ~broken
  BY <1>1
<1>2. ASSUME NEW request, Issue(request) PROVE ~broken
  BY <1>2 DEF Issue, Send, SendFails, MayBreak
<1>3. CASE Transport
  BY <1>3 DEF Transport, Driver, Receive, TakeReply, TakeError, TakeAck, ReceiveFails
<1>4. CASE Query \/ QueryAgain
  BY <1>2, <1>4 DEF Query, QueryAgain
<1>. QED
  BY <1>1, <1>3, <1>4
  DEF Next, Handler, Finished, Start, Open, Load, NextCore, Alloc, Answered, AnsweredOld, Return,
      Leave, Walk, vars, nlvars, commands

\* Another command is with the driver, or has failed.
LEMMA ExchangeIssue ==
  ASSUME TypeOK, Exchange, NEW request \in Requests, Issue(request), ~broken'
  PROVE  Exchange'
<1>1. nl = "idle" /\ queue' = queue /\ UNCHANGED <<executed, buffer>>
  BY DEF Issue, Send, SendFails
<1>2. \/ nl' = "driver" /\ Record(request, "pending")
      \/ nl' = "returned" /\ ret' = -1 /\ Record(request, "failed")
  BY DEF Issue, Send, SendFails
<1>3. PICK res \in Results : Record(request, res) /\ \/ nl' = "driver" /\ res = "pending"
                                                     \/ nl' = "returned" /\ ret' = -1 /\ res = "failed"
  BY <1>2 DEF Results
<1>4. /\ Len(sent') = Len(sent) + 1 /\ outcome'[Len(sent) + 1] = res /\ Len(sent) \in Nat
      /\ \A c \in 1..Len(sent) : outcome'[c] = outcome[c] /\ reply'[c] = reply[c]
  BY <1>3, Recorded DEF TypeOK, NlType
<1>5. queue = <<>> /\ Len(queue) = 0 /\ ~Pending
  BY <1>1 DEF Exchange, Pending
<1>6. \A c \in 1..Len(sent) : /\ outcome[c] # "pending"
                              /\ outcome[c] = "answered" => c \in executed /\ reply[c] = c
  BY <1>5 DEF Exchange
<1>7. Current' = Len(sent) + 1 /\ Current' \notin executed
  BY <1>4 DEF Current, TypeOK, NlType
<1>8. ASSUME NEW c \in 1..Len(sent')
      PROVE  /\ outcome'[c] = "pending" => Pending' /\ c = Current'
             /\ outcome'[c] = "answered" => c \in executed' /\ reply'[c] = c
  <2>1. CASE c = Len(sent) + 1
    BY <1>3, <1>4, <1>7, <2>1 DEF Pending
  <2>2. CASE c # Len(sent) + 1
    <3>1. c \in 1..Len(sent)
      BY <1>4, <2>2
    <3>. QED  BY <1>1, <1>4, <1>6, <3>1
  <2>. QED  BY <2>1, <2>2
<1>9. ret' = 0 => nl' # "returned"
  BY <1>3
<1>. QED  BY <1>1, <1>3, <1>4, <1>5, <1>7, <1>8, <1>9 DEF Exchange, Pending

\* The driver's verdict on the current command is in the socket.
LEMMA ExchangeDriver ==
  ASSUME TypeOK, Exchange, Len(sent) > 0, Driver PROVE Exchange'
<1>1. PICK verdict \in Verdicts(Current) :
        /\ queue' = queue \o verdict
        /\ \/ executed' = executed \cup {Current}
           \/ verdict[1].kind = "error" /\ UNCHANGED executed
  BY DEF Driver
<1>2. nl = "driver" /\ nl' = "receive" /\ UNCHANGED <<sent, outcome, reply, ret, buffer>>
  BY DEF Driver
<1>3. Current \in 1..Len(sent) /\ Current \in Nat /\ Current' = Current /\ queue = <<>>
  BY <1>2 DEF TypeOK, NlType, Exchange, Current
<1>4. /\ verdict \in Seq(Messages) /\ \A i \in 1..Len(verdict) : verdict[i].of = Current
      /\ \/ Len(verdict) = 1 /\ verdict[1].kind \in {"ack", "error"}
         \/ /\ Len(verdict) = 2 /\ verdict[1].kind \in {"reply", "bare"}
            /\ verdict[2].kind \in {"ack", "error"}
      /\ verdict[1].kind = "error" => \A i \in 1..Len(verdict) : verdict[i].kind # "ack"
  BY <1>3, VerdictIs DEF TypeOK
<1>5. queue' = verdict
  BY <1>1, <1>3, <1>4, ConcatEmptySeq
<1>6. \A i \in 1..Len(queue') :
        queue'[i].of = Current' /\ (queue'[i].kind = "ack" => Current' \in executed')
  BY <1>1, <1>3, <1>4, <1>5
<1>7. \A c \in 1..Len(sent') :
        /\ outcome'[c] = "pending" => Pending' /\ c = Current'
        /\ outcome'[c] = "answered" => c \in executed' /\ reply'[c] = c
  BY <1>1, <1>2, <1>3 DEF Exchange, Pending
<1>8. Pending' => outcome'[Current'] = "pending"
  BY <1>2, <1>3 DEF Exchange, Pending
<1>. QED  BY <1>2, <1>4, <1>5, <1>6, <1>7, <1>8 DEF Exchange

\* A message is taken: one less is in the socket, or the command is settled.
LEMMA ExchangeReceive ==
  ASSUME TypeOK, Exchange, Len(sent) > 0, Receive, ~broken' PROVE Exchange'
<1>0. /\ nl \in {"receive", "wait"} /\ queue # <<>> /\ UNCHANGED <<sent, executed>>
      /\ TakeReply \/ TakeError \/ TakeAck
      /\ queue' = Tail(queue)
  BY DEF Receive, ReceiveFails, TakeReply, TakeError, TakeAck
<1>1. /\ Len(queue') = Len(queue) - 1 /\ First = queue[1] /\ Len(queue) \in Nat
      /\ \A i \in 1..Len(queue') : queue'[i] = queue[i + 1] /\ i + 1 \in 1..Len(queue)
      /\ queue' \in Seq(Messages) /\ 1 \in 1..Len(queue)
  BY <1>0, Taken DEF TypeOK, NlType
<1>2. Current' = Current /\ Current \in 1..Len(sent) /\ outcome[Current] = "pending"
  BY <1>0 DEF TypeOK, NlType, Exchange, Current, Pending
<1>3. \A i \in 1..Len(queue') :
        queue'[i].of = Current' /\ (queue'[i].kind = "ack" => Current' \in executed')
  <2>1. \A i \in 1..Len(queue) :
          queue[i].of = Current /\ (queue[i].kind = "ack" => Current \in executed)
    BY DEF Exchange
  <2>. QED  BY <1>0, <1>1, <1>2, <2>1
<1>4. CASE TakeReply
  <2>1. nl = "receive" /\ nl' = "wait" /\ UNCHANGED <<outcome, reply>> /\ queue[1].kind \in {"reply", "bare"}
    BY <1>1, <1>4 DEF TakeReply
  <2>2. Len(queue) = 2 /\ queue[2].kind \in {"ack", "error"}
    BY <2>1 DEF Exchange
  <2>3. Len(queue') = 1 /\ queue'[1].kind \in {"ack", "error"}
    <3>1. Len(queue') = 1 /\ 1 \in 1..Len(queue') /\ 1 + 1 = 2
      BY <1>1, <2>2
    <3>. QED  BY <1>1, <2>2, <3>1
  <2>4. \A c \in 1..Len(sent') :
          /\ outcome'[c] = "pending" => Pending' /\ c = Current'
          /\ outcome'[c] = "answered" => c \in executed' /\ reply'[c] = c
    BY <1>0, <1>2, <2>1 DEF Exchange, Pending
  <2>. QED  BY <1>2, <1>3, <2>1, <2>3, <2>4 DEF Exchange, Pending
<1>5. ASSUME NEW r \in {0, -1}, Finish(r), UNCHANGED buffer, queue[1].kind \in {"ack", "error"},
             r = 0 => buffer.of = Current /\ Current \in executed
      PROVE  Exchange'
  <2>1. Len(queue) = 1
    BY <1>0, <1>5 DEF Exchange
  <2>2. queue' = <<>>
    BY <1>1, <2>1, EmptySeq
  <2>3. nl' = "returned" /\ ret' = r
    BY <1>5 DEF Finish
  <2>4. /\ outcome'[Current] = IF r = 0 THEN "answered" ELSE "failed"
        /\ reply'[Current] = buffer.of
        /\ \A c \in 1..Len(sent) :
             c # Current => outcome'[c] = outcome[c] /\ reply'[c] = reply[c]
    BY <1>5, Settled DEF TypeOK
  <2>5. \A c \in 1..Len(sent) : c # Current =>
          outcome[c] # "pending" /\ (outcome[c] = "answered" => c \in executed /\ reply[c] = c)
    BY DEF Exchange
  <2>6. \A c \in 1..Len(sent') :
          outcome'[c] # "pending" /\ (outcome'[c] = "answered" => c \in executed' /\ reply'[c] = c)
    BY <1>0, <1>5, <2>4, <2>5
  <2>7. ret' = 0 => outcome'[Current'] = "answered" /\ buffer'.of = Current'
    BY <1>2, <1>5, <2>3, <2>4
  <2>. QED  BY <1>3, <2>2, <2>3, <2>6, <2>7 DEF Exchange, Pending
<1>6. CASE TakeError
  <2>1. Finish(-1) /\ UNCHANGED buffer /\ queue[1].kind = "error" /\ -1 \in {0, -1} /\ ~(-1 = 0)
    BY <1>1, <1>6 DEF TakeError
  <2>. QED  BY <1>5, <2>1
<1>7. CASE TakeAck
  <2>1. /\ Finish(0) /\ UNCHANGED buffer /\ queue[1].kind = "ack" /\ 0 \in {0, -1}
        /\ buffer.of = Current
    BY <1>1, <1>7 DEF TakeAck, TypeOK, NlType
  <2>2. Current \in executed
    BY <1>1, <2>1 DEF Exchange
  <2>. QED  BY <1>5, <2>1, <2>2
<1>. QED  BY <1>0, <1>4, <1>6, <1>7

\* Every step that breaks nothing keeps to the exchange.
LEMMA StepExchange ==
  ASSUME TypeOK, Asked, Exchange, [Next]_vars, ~broken' PROVE Exchange'
<1>1. ASSUME UNCHANGED <<queue, commands>>, ~Pending, ~Pending', nl' # "returned"
      PROVE  Exchange'
  <2>1. nl \notin {"receive", "wait"} /\ nl' \notin {"receive", "wait", "driver"}
    BY <1>1 DEF Pending
  <2>. QED  BY <1>1, <2>1 DEF Exchange, commands, Current
<1>2. ASSUME UNCHANGED nlvars PROVE Exchange'
  BY <1>2 DEF Exchange, nlvars, socket, commands, Current, Pending
<1>3. CASE Start
  <2>1. nl = "closed" /\ nl' \in {"closed", "idle"} /\ UNCHANGED <<queue, commands>>
    BY <1>3 DEF Start, Open
  <2>. QED  BY <1>1, <2>1 DEF Pending
<1>4. CASE Load \/ NextCore \/ Leave \/ Walk \/ UNCHANGED vars
  BY <1>2, <1>4 DEF Load, NextCore, Leave, Walk, vars
<1>5. CASE Alloc
  <2>1. pc = "alloc" /\ UNCHANGED <<queue, nl, commands>>
    BY <1>5 DEF Alloc, socket
  <2>2. ~Busy
    BY <2>1 DEF TypeOK
  <2>. QED  BY <1>1, <2>1, <2>2 DEF Busy, Pending
<1>6. CASE Query \/ QueryAgain
  <2>1. pc \in {"send", "resend"} /\ \E request \in {Request, OldRequest} : Issue(request)
    BY <1>6 DEF Query, QueryAgain
  <2>. QED  BY <2>1, RequestType, ExchangeIssue
<1>7. CASE Transport
  <2>1. Len(sent) > 0 /\ (Driver \/ Receive)
    BY <1>7 DEF Transport, TypeOK
  <2>. QED  BY <2>1, ExchangeDriver, ExchangeReceive
<1>8. CASE Answered \/ AnsweredOld
  <2>1. nl = "returned" /\ nl' = "idle" /\ UNCHANGED <<queue, commands>>
    BY <1>8 DEF Answered, AnsweredOld, Return
  <2>. QED  BY <1>1, <2>1 DEF Pending
<1>. QED
  BY <1>3, <1>4, <1>5, <1>6, <1>7, <1>8 DEF Next, Handler, Finished

-------------------------------------------------------------------------------
\* Every core that is meant is read or reset.

\* What is known of a command that was answered stays known.
LEMMA AnsweredStays ==
  ASSUME TypeOK, Asked, Exchange, [Next]_vars, NEW c \in 1..Len(sent), outcome[c] = "answered"
  PROVE  /\ outcome'[c] = outcome[c] /\ answer'[c] = answer[c] /\ sent'[c] = sent[c]
         /\ executed \subseteq executed'
<1>1. ASSUME UNCHANGED <<outcome, answer, sent, executed>>
      PROVE  /\ outcome'[c] = outcome[c] /\ answer'[c] = answer[c] /\ sent'[c] = sent[c]
             /\ executed \subseteq executed'
  BY <1>1
<1>2. CASE Query \/ QueryAgain
  <2>1. pc \in {"send", "resend"} /\ \E request \in {Request, OldRequest} : Issue(request)
    BY <1>2 DEF Query, QueryAgain
  <2>2. PICK request \in Requests : Issue(request)
    BY <2>1, RequestType
  <2>3. PICK res \in Results : Record(request, res)
    BY <2>2 DEF Issue, Send, SendFails, Results
  <2>4. executed' = executed
    BY <2>2 DEF Issue, Send, SendFails
  <2>. QED  BY <2>3, <2>4, Recorded DEF TypeOK
<1>3. CASE Transport
  <2>1. Len(sent) > 0 /\ Pending
    BY <1>3 DEF Transport, TypeOK, Driver, Receive, Pending
  <2>2. c # Current /\ Current \in 1..Len(sent)
    BY <2>1 DEF Exchange, TypeOK, NlType, Current
  <2>3. CASE Driver
    <3>1. UNCHANGED <<outcome, sent>> /\ executed \subseteq executed'
      BY <2>3 DEF Driver
    <3>2. UNCHANGED answer \/ \E r \in Replies : answer' = [answer EXCEPT ![Current] = r]
      BY <2>3 DEF Driver
    <3>3. answer \in Seq(Answers) /\ Len(answer) = Len(sent)
      BY DEF TypeOK, NlType
    <3>4. ASSUME NEW r \in Replies, answer' = [answer EXCEPT ![Current] = r]
          PROVE  answer'[c] = answer[c]
      BY <2>2, <3>3, <3>4
    <3>. QED  BY <3>1, <3>2, <3>4
  <2>4. CASE Receive
    <3>1. UNCHANGED <<answer, sent, executed>>
      BY <2>4 DEF Receive
    <3>2. UNCHANGED outcome \/ \E r \in {0, -1} : Finish(r)
      BY <2>4 DEF Receive, TakeReply, TakeError, TakeAck, ReceiveFails
    <3>3. ASSUME NEW r \in {0, -1}, Finish(r) PROVE outcome'[c] = outcome[c]
      BY <2>1, <2>2, <3>3, Settled DEF TypeOK
    <3>. QED  BY <3>1, <3>2, <3>3
  <2>. QED  BY <1>3, <2>3, <2>4 DEF Transport
<1>. QED
  BY <1>1, <1>2, <1>3
  DEF Next, Handler, Finished, Start, Open, Load, NextCore, Alloc, Answered, AnsweredOld, Return,
      Leave, Walk, vars, nlvars, commands

\* A core that has been read has been read for good.
LEMMA ReadStays ==
  ASSUME TypeOK, Asked, Exchange, [Next]_vars, NEW i, Read(i) PROVE Read(i)'
<1>1. PICK c \in executed : /\ outcome[c] = "answered" /\ answer[c].status = 0
                            /\ sent[c].reset = opts.reset /\ sent[c].core = Cores[i]
  BY DEF Read
<1>2. c \in 1..Len(sent)
  BY <1>1 DEF TypeOK, NlType
<1>3. /\ outcome'[c] = outcome[c] /\ answer'[c] = answer[c] /\ sent'[c] = sent[c]
      /\ c \in executed'
  BY <1>1, <1>2, AnsweredStays
<1>4. opts' = opts
  BY DEF Next, Handler, Finished, Start, Load, NextCore, Alloc, Query, QueryAgain, Issue, Transport,
         Answered, AnsweredOld, Leave, Walk, vars
<1>. QED  BY <1>1, <1>3, <1>4 DEF Read

\* A status of 0 is that of the current command's own answer.
LEMMA OwnStatus ==
  ASSUME TypeOK, Asked, Exchange, pc \in {"await", "await_old"}, nl = "returned", 0 \in Statuses
  PROVE  Read(core) /\ ret = 0 /\ buffer.of = Current /\ Current \in 1..Len(sent)
<1>1. ret \in {0, -1}
  BY DEF TypeOK, NlType
<1>2. ret = 0
  <2>1. SUFFICES ASSUME ret = -1 PROVE FALSE
    BY <1>1
  <2>2. Statuses = {-1}
    BY <2>1 DEF Statuses
  <2>. QED  BY <2>2
<1>3. outcome[Current] = "answered" /\ buffer.of = Current /\ Current \in 1..Len(sent)
  BY <1>2 DEF Exchange, TypeOK, NlType, Current
<1>4. Statuses = {answer[Current].status}
  BY <1>2, <1>3 DEF Statuses, Junk
<1>5. Current \in executed
  BY <1>3 DEF Exchange
<1>6. sent[Current].core = Cores[core] /\ sent[Current].reset = opts.reset
  BY DEF Asked
<1>. QED  BY <1>2, <1>3, <1>4, <1>5, <1>6 DEF Read

\* Every step reads or resets what it should.
LEMMA StepReading ==
  ASSUME TypeOK, Asked, Exchange, Reading, [Next]_vars PROVE Reading'
<1>1. ASSUME core' = core, (pc' = "walk" \/ (pc' = "next" /\ result' = 0)) => Read(core)
      PROVE  Reading'
  <2>1. \A i \in 1..(core' - 1) : Cores[i] \in Selected' => Read(i)'
    <3>1. Selected' = Selected
      BY DEF Next, Handler, Finished, Start, Load, NextCore, Alloc, Query, QueryAgain, Issue,
             Transport, Answered, AnsweredOld, Leave, Walk, vars, Selected
    <3>. QED  BY <1>1, <3>1, ReadStays DEF Reading
  <2>2. Read(core)' <=> \E c \in executed' :
            /\ outcome'[c] = "answered" /\ answer'[c].status = 0
            /\ sent'[c].reset = opts'.reset /\ sent'[c].core = Cores[core]
    BY <1>1 DEF Read
  <2>3. Read(core) => Read(core)'
    <3>1. ASSUME Read(core) PROVE Read(core)'
      <4>1. PICK i : i = core
        OBVIOUS
      <4>2. Read(i)'
        BY <3>1, <4>1, ReadStays DEF Read
      <4>. QED  BY <1>1, <4>1, <4>2 DEF Read
    <3>. QED  BY <3>1
  <2>. QED  BY <1>1, <2>1, <2>3 DEF Reading
<1>2. ASSUME core' = core + 1, pc' = "core", Cores[core] \in Selected => Read(core)
      PROVE  Reading'
  <2>1. Selected' = Selected
    BY DEF Next, Handler, Finished, Start, Load, NextCore, Alloc, Query, QueryAgain, Issue,
           Transport, Answered, AnsweredOld, Leave, Walk, vars, Selected
  <2>2. ASSUME NEW i \in 1..(core' - 1), Cores[i] \in Selected' PROVE Read(i)'
    <3>1. Read(i)
      <4>1. core \in Nat /\ (i \in 1..(core - 1) \/ i = core)
        BY <1>2, StatsAssumption DEF TypeOK
      <4>. QED  BY <1>2, <2>1, <2>2, <4>1 DEF Reading
    <3>. QED  BY <3>1, ReadStays
  <2>. QED  BY <1>2, <2>2 DEF Reading
<1>3. CASE Start
  BY <1>1, <1>3 DEF Start, Done
<1>4. CASE Load \/ Alloc \/ Query \/ QueryAgain
  BY <1>1, <1>4 DEF Load, Alloc, Query, QueryAgain, Issue, Done
<1>5. CASE NextCore
  BY <1>1, <1>2, <1>5 DEF NextCore, Done
<1>6. CASE Transport
  <2>1. core' = core /\ pc' \in {"await", "await_old"}
    BY <1>6 DEF Transport
  <2>. QED  BY <1>1, <2>1
<1>7. CASE Answered
  <2>1. /\ core' = core /\ pc = "await" /\ nl = "returned"
        /\ pc' = "resend" \/ 0 \in Statuses
    BY <1>7 DEF Answered, Return
  <2>. QED  BY <1>1, <2>1, OwnStatus
<1>8. CASE AnsweredOld
  <2>1. /\ core' = core /\ pc = "await_old" /\ nl = "returned" /\ pc' = "next"
        /\ result' \in Statuses
    BY <1>8 DEF AnsweredOld, Return
  <2>. QED  BY <1>1, <2>1, OwnStatus
<1>9. CASE Leave
  <2>1. pc = "next" /\ \/ pc' = "done" /\ core' = core
                       \/ result = 0 /\ pc' = "core" /\ core' = core + 1
    BY <1>9 DEF Leave
  <2>. QED  BY <1>1, <1>2, <2>1 DEF Reading
<1>10. CASE Walk \/ UNCHANGED vars
  <2>1. /\ UNCHANGED <<core, result>>
        /\ (pc = "walk" /\ pc' \in {"walk", "next"}) \/ pc' = pc
    BY <1>10 DEF Walk, vars
  <2>. QED  BY <1>1, <2>1 DEF Reading
<1>. QED
  BY <1>3, <1>4, <1>5, <1>6, <1>7, <1>8, <1>9, <1>10 DEF Next, Handler, Finished

-------------------------------------------------------------------------------
\* A sound answer is shown whole.

\* Where the walk is at the beginning of the i-th TLV of a sound answer, it reads that
\* one's header and finds it well-formed; behind the last one nothing is left.
LEMMA WalkHere ==
  ASSUME TypeOK, Walking, Showing, pc = "walk",
         NEW a, a = answer[Current], Sound(a),
         NEW i \in 1..(Len(a.tlvs) + 1), pos = Begin(a.tlvs, i)
  PROVE  /\ i = Len(a.tlvs) + 1 => ~(left > Overhead)
         /\ i # Len(a.tlvs) + 1 =>
              /\ left > Overhead /\ Headers = {a.tlvs[i]} /\ ~Malformed(a.tlvs[i])
              /\ Begin(a.tlvs, i + 1) = pos + Overhead + a.tlvs[i].len
<1> DEFINE m == Len(a.tlvs)
           at(n) == Begin(a.tlvs, n)
<1>1. a \in Answers /\ Current # Junk
  BY DEF TypeOK, NlType, Showing, Current, Junk
<1>2. a.size \in Nat /\ IsTlvs(a.tlvs)
  BY <1>1, AnswerTypes
<1>3. m \in Nat /\ DOMAIN a.tlvs = 1..m /\ \A n \in 1..m : a.tlvs[n].len \in Nat
  BY <1>2 DEF IsTlvs
<1>4. a.size = at(m + 1) /\ a.size <= Room /\ Room \in Nat
  BY Nl80211Assumption DEF Sound
<1>5. buffer = [of |-> Current, len |-> Received(a)]
  BY DEF Showing, Holds
<1>6. buffer.len = at(m + 1)
  BY <1>2, <1>4, <1>5 DEF Received
<1>7. Tlvs = a.tlvs
  BY <1>1, <1>5 DEF Tlvs
<1>8. pos + left = at(m + 1) /\ left \in Int /\ pos = at(i)
  BY <1>6 DEF Walking, TypeOK
<1>9. \A n \in 1..m : at(n + 1) = at(n) + Overhead + a.tlvs[n].len
  BY <1>2, BeginIs
<1>10. \A n \in 1..(m + 1) : at(n) \in Nat
  BY <1>2, BeginInOrder
<1>11. \A j, n \in 1..(m + 1) : j < n => at(j) < at(n)
  BY <1>2, BeginInOrder
<1> HIDE DEF at, m
<1>12. CASE i = m + 1
  <2>1. left = 0
    <3>1. pos = at(m + 1) /\ at(m + 1) \in Nat
      BY <1>3, <1>8, <1>10, <1>12
    <3>. QED  BY <1>8, <3>1
  <2>. QED  BY <1>12, <2>1 DEF Overhead, m
<1>13. CASE i # m + 1
  <2>1. /\ i \in 1..m /\ i + 1 \in 1..(m + 1) /\ m + 1 \in 1..(m + 1) /\ i \in 1..(m + 1)
        /\ i + 1 = m + 1 \/ i + 1 < m + 1
    BY <1>3, <1>13 DEF m
  <2>2. a.tlvs[i].len \in Nat /\ a.tlvs[i].len > 0
    BY <1>3, <2>1 DEF Sound
  <2> DEFINE n == a.tlvs[i].len
  <2>3. at(i + 1) = at(i) + 4 + n /\ n \in Nat /\ n > 0
    BY <1>9, <2>1, <2>2 DEF Overhead
  <2>4. at(i) \in Nat /\ at(i + 1) \in Nat /\ at(m + 1) \in Nat
    BY <1>10, <2>1
  <2>5. at(i + 1) <= at(m + 1)
    <3>1. CASE i + 1 = m + 1
      BY <2>4, <3>1
    <3>2. CASE i + 1 < m + 1
      <4>1. at(i + 1) < at(m + 1)
        BY <1>11, <2>1, <3>2
      <4>. QED  BY <2>4, <4>1
    <3>. QED  BY <2>1, <3>1, <3>2
  <2> HIDE DEF n
  <2>6. left > 4 /\ ~(n > left) /\ n # 0 /\ pos + 4 <= buffer.len
    BY <1>6, <1>8, <2>3, <2>4, <2>5
  <2>7. \A j \in 1..m : at(j) = pos => j = i
    <3>1. ASSUME NEW j \in 1..m, at(j) = pos, j # i PROVE FALSE
      <4>1. j \in 1..(m + 1) /\ (j < i \/ i < j)
        BY <1>3, <2>1, <3>1
      <4>2. at(j) < at(i) \/ at(i) < at(j)
        BY <1>11, <2>1, <4>1
      <4>. QED  BY <1>8, <2>4, <3>1, <4>2
    <3>. QED  BY <3>1
  <2>8. {j \in DOMAIN Tlvs : Begin(Tlvs, j) = pos /\ pos + Overhead <= buffer.len} = {i}
    <3>1. \A j \in DOMAIN Tlvs : Begin(Tlvs, j) = pos <=> j = i
      BY <1>3, <1>7, <1>8, <2>7 DEF at
    <3>2. i \in DOMAIN Tlvs /\ pos + Overhead <= buffer.len
      BY <1>3, <1>7, <2>1, <2>6 DEF Overhead
    <3>. QED  BY <3>1, <3>2
  <2>9. Headers = {a.tlvs[i]}
    <3>1. Headers = {Tlvs[j] : j \in {i}}
      BY <2>8 DEF Headers
    <3>. QED  BY <1>7, <3>1
  <2>10. ~Malformed(a.tlvs[i])
    BY <2>6 DEF Malformed, n
  <2>. QED  BY <1>8, <1>9, <1>13, <2>1, <2>6, <2>9, <2>10 DEF Overhead, at, m
<1>. QED  BY <1>12, <1>13 DEF m

\* A round of the walk shows the TLV that begins there, as it should be shown.
LEMMA ShowHere ==
  ASSUME NEW a, IsTlvs(a.tlvs), Sound(a), NEW i \in 1..Len(a.tlvs), pos = Begin(a.tlvs, i),
         shown = Values(a.tlvs, Passing, i - 1), Show(a.tlvs[i])
  PROVE  shown' = Values(a.tlvs, Passing, i)
<1> DEFINE t == a.tlvs[i]
           before == Values(a.tlvs, Passing, i - 1)
<1>1. PICK tags : tags = Passing
  OBVIOUS
<1>2. Values(a.tlvs, Passing, i) = IF t.tag \in tags THEN Append(before, Value(a.tlvs, i)) ELSE before
  <2>1. \A n \in 1..Len(a.tlvs) :
          Values(a.tlvs, tags, n) =
            IF a.tlvs[n].tag \in tags THEN Append(Values(a.tlvs, tags, n - 1), Value(a.tlvs, n))
                                      ELSE Values(a.tlvs, tags, n - 1)
    BY ValuesIs
  <2>2. Values(a.tlvs, tags, i) =
          IF t.tag \in tags THEN Append(Values(a.tlvs, tags, i - 1), Value(a.tlvs, i))
                            ELSE Values(a.tlvs, tags, i - 1)
    BY <2>1
  <2>. QED  BY <1>1, <2>2
<1>3. t.tag \in tags <=> Known(t.tag) /\ ~Filtered(t.tag)
  BY <1>1 DEF Passing, Known
<1>4. CASE ~Known(t.tag) \/ Filtered(t.tag)
  <2>1. shown' = shown
    BY <1>4 DEF Show
  <2>. QED  BY <1>2, <1>3, <1>4, <2>1
<1>5. CASE Known(t.tag) /\ ~Filtered(t.tag)
  <2>1. shown' = Append(shown, [tag |-> t.tag, from |-> pos + Overhead,
                                octets |-> Reads(FormatOf[t.tag], t.len)])
    BY <1>5 DEF Show
  <2>2. i \in DOMAIN a.tlvs
    BY DEF IsTlvs
  <2>3. Reads(FormatOf[t.tag], t.len) = t.len
    BY <1>5, <2>2 DEF Sound
  <2>4. [tag |-> t.tag, from |-> pos + Overhead, octets |-> Reads(FormatOf[t.tag], t.len)]
          = Value(a.tlvs, i)
    BY <2>3 DEF Value
  <2>. QED  BY <1>2, <1>3, <1>5, <2>1, <2>4
<1>. QED  BY <1>4, <1>5

\* A round of the walk keeps to what should be shown, and its end has shown it all.
LEMMA WalkShows ==
  ASSUME TypeOK, Walking, Showing, Walk,
         NEW a, a = answer[Current], Sound(a)
  PROVE  /\ pc' = "walk" => \E i \in 1..(Len(a.tlvs) + 1) :
                              pos' = Begin(a.tlvs, i) /\ shown' = Values(a.tlvs, Passing, i - 1)
         /\ pc' = "next" => shown' = Expected(a)
<1>1. pc = "walk"
  BY DEF Walk
<1>2. PICK i \in 1..(Len(a.tlvs) + 1) :
        pos = Begin(a.tlvs, i) /\ shown = Values(a.tlvs, Passing, i - 1)
  BY <1>1 DEF Showing, Reached
<1>3. IsTlvs(a.tlvs) /\ Len(a.tlvs) \in Nat
  <2>1. a \in Answers
    BY <1>1 DEF TypeOK, NlType, Showing, Current
  <2>. QED  BY <2>1, AnswerTypes DEF IsTlvs
<1>4. CASE i = Len(a.tlvs) + 1
  <2>1. ~(left > Overhead)
    BY <1>1, <1>2, <1>4, WalkHere
  <2>2. pc' = "next" /\ shown' = shown
    BY <2>1 DEF Walk, shows
  <2>3. i - 1 = Len(a.tlvs)
    BY <1>3, <1>4
  <2>. QED  BY <1>2, <2>2, <2>3 DEF Expected
<1>5. CASE i # Len(a.tlvs) + 1
  <2>1. /\ left > Overhead /\ Headers = {a.tlvs[i]} /\ ~Malformed(a.tlvs[i])
        /\ Begin(a.tlvs, i + 1) = pos + Overhead + a.tlvs[i].len
    BY <1>1, <1>2, <1>5, WalkHere
  <2>2. UNCHANGED pc /\ Show(a.tlvs[i]) /\ Advance(a.tlvs[i])
    BY <2>1 DEF Walk
  <2>3. i \in 1..Len(a.tlvs) /\ i + 1 \in 1..(Len(a.tlvs) + 1) /\ (i + 1) - 1 = i
    BY <1>2, <1>3, <1>5
  <2>4. shown' = Values(a.tlvs, Passing, i)
    BY <1>2, <1>3, <2>2, <2>3, ShowHere
  <2>5. pos' = Begin(a.tlvs, i + 1)
    BY <2>1, <2>2 DEF Advance
  <2>6. pos' = Begin(a.tlvs, i + 1) /\ shown' = Values(a.tlvs, Passing, (i + 1) - 1)
    BY <2>3, <2>4, <2>5
  <2>. QED  BY <1>1, <2>2, <2>3, <2>6
<1>. QED  BY <1>4, <1>5

\* The tags that pass stay, as the options do.
LEMMA PassingStays == ASSUME opts' = opts PROVE Passing' = Passing
BY DEF Passing, Filtered

\* The transport puts nothing but the current command's answer into a fresh buffer.
LEMMA TransportShows ==
  ASSUME TypeOK, Exchange, Transport, pc = "await", ~broken',
         buffer = Fresh \/ (nl \notin {"driver", "receive"} /\ Holds)
  PROVE  buffer' = Fresh \/ (nl' \notin {"driver", "receive"} /\ Holds')
<1>0. Len(sent) > 0 /\ Current \in 1..Len(sent)
  BY DEF TypeOK, NlType, Current
<1>1. CASE Driver
  <2>1. nl = "driver" /\ buffer' = buffer
    BY <1>1 DEF Driver
  <2>. QED  BY <2>1
<1>2. CASE Receive
  <2>1. /\ nl \in {"receive", "wait"} /\ queue # <<>> /\ UNCHANGED <<sent, answer>>
        /\ TakeReply \/ TakeError \/ TakeAck
    BY <1>2 DEF Receive, ReceiveFails
  <2>2. Current' = Current /\ answer'[Current'] = answer[Current]
    BY <2>1 DEF Current
  <2>3. CASE TakeReply
    <3>1. /\ nl = "receive" /\ nl' = "wait" /\ queue' = Tail(queue)
          /\ ReceiveHandler(First.of) \/ UNCHANGED buffer
      BY <2>3 DEF TakeReply
    <3>2. buffer = Fresh
      BY <3>1
    <3>3. First.of = Current
      <4>1. First = queue[1] /\ 1 \in 1..Len(queue)
        BY <2>1, <3>1, Taken DEF TypeOK
      <4>. QED  BY <4>1 DEF Exchange
    <3>4. CASE ReceiveHandler(First.of)
      <4>1. buffer' = [of |-> Current, len |-> Received(answer[Current])]
        BY <3>2, <3>3, <3>4 DEF ReceiveHandler, Received, Fresh
      <4>2. Received(answer[Current])' = Received(answer[Current])
        BY <2>2 DEF Received
      <4>. QED  BY <2>2, <3>1, <4>1, <4>2 DEF Holds
    <3>. QED  BY <3>1, <3>2, <3>4
  <2>4. CASE TakeError \/ TakeAck
    <3>1. nl' = "returned" /\ buffer' = buffer
      BY <2>4 DEF TakeError, TakeAck, Finish
    <3>2. Received(answer[Current])' = Received(answer[Current])
      BY <2>2 DEF Received
    <3>. QED  BY <2>2, <3>1, <3>2 DEF Holds
  <2>. QED  BY <2>1, <2>3, <2>4
<1>. QED  BY <1>1, <1>2 DEF Transport

\* Every step shows what it should.
LEMMA StepShowing ==
  ASSUME TypeOK, Walking, Asked, Exchange, Showing, ShownWhole, [Next]_vars, ~broken', ~broken
  PROVE  Showing' /\ ShownWhole'
<1>1. ASSUME pc' \notin {"send", "await", "await_old", "walk", "next"}
      PROVE  Showing' /\ ShownWhole'
  BY <1>1 DEF Showing, ShownWhole
<1>2. CASE Start \/ Load \/ NextCore \/ Leave
  BY <1>1, <1>2 DEF Start, Load, NextCore, Leave, Done
<1>3. CASE Alloc
  <2>1. pc' \in {"send", "done"} /\ buffer' = Fresh
    BY <1>3 DEF Alloc, ReadAlloc, Done
  <2>2. Fresh' = Fresh
    BY DEF Fresh
  <2>. QED  BY <2>1, <2>2 DEF Showing, ShownWhole
<1>4. CASE Query
  <2>1. pc = "send" /\ pc' = "await" /\ buffer' = buffer /\ shown' = <<>>
    BY <1>4 DEF Query, Issue, Send, SendFails
  <2>2. Fresh' = Fresh
    BY DEF Fresh
  <2>. QED  BY <2>1, <2>2 DEF Showing, ShownWhole
<1>5. CASE QueryAgain
  <2>1. /\ pc = "resend" /\ pc' = "await_old" /\ Issue(OldRequest)
        /\ OldRequest \in Requests /\ OldRequest.version = "old"
    BY <1>5, RequestType DEF QueryAgain
  <2>2. PICK res \in Results : Record(OldRequest, res)
    BY <2>1 DEF Issue, Send, SendFails, Results
  <2>3. Len(sent') = Len(sent) + 1 /\ sent'[Len(sent) + 1] = OldRequest
    BY <2>1, <2>2, Recorded DEF TypeOK
  <2>4. sent'[Current'].version = "old"
    BY <2>1, <2>3 DEF Current
  <2>. QED  BY <2>1, <2>4 DEF Showing, ShownWhole
<1>6. CASE Transport
  <2>1. pc' = pc /\ pc \in {"await", "await_old"} /\ shown' = shown /\ sent' = sent
    BY <1>6 DEF Transport, Driver, Receive, shows
  <2>2. CASE pc = "await"
    <3>1. buffer' = Fresh \/ (nl' \notin {"driver", "receive"} /\ Holds')
      BY <1>6, <2>2, TransportShows DEF Showing
    <3>2. Fresh' = Fresh
      BY DEF Fresh
    <3>. QED  BY <2>1, <2>2, <3>1, <3>2 DEF Showing, ShownWhole
  <2>3. CASE pc = "await_old"
    BY <2>1, <2>3 DEF Showing, ShownWhole, Current
  <2>. QED  BY <2>1, <2>2, <2>3
<1>7. CASE Answered
  <2>1. /\ pc = "await" /\ nl = "returned" /\ pos' = 0
        /\ UNCHANGED <<buffer, sent, answer, opts, shown>>
        /\ \/ pc' = "resend"
           \/ pc' = "next" /\ opts.reset
           \/ pc' = "walk" /\ ~opts.reset /\ 0 \in Statuses
    BY <1>7 DEF Answered, Return, commands, shows
  <2>2. CASE pc' = "resend"
    BY <1>1, <2>2
  <2>3. CASE pc' = "next" /\ opts.reset
    BY <2>1, <2>3 DEF Showing, ShownWhole
  <2>4. CASE pc' = "walk" /\ ~opts.reset /\ 0 \in Statuses
    <3>1. buffer.of = Current /\ Current \in 1..Len(sent)
      BY <2>1, <2>4, OwnStatus
    <3>2. Holds /\ shown = <<>>
      BY <2>1, <3>1 DEF Showing, Fresh, Junk
    <3>3. Holds' /\ Current' = Current /\ answer'[Current'] = answer[Current]
      BY <2>1, <3>2 DEF Holds, Current, Received
    <3>4. PICK a : a = answer[Current]
      OBVIOUS
    <3>5. IsTlvs(a.tlvs) /\ Len(a.tlvs) \in Nat
      <4>1. a \in Answers
        BY <3>1, <3>4 DEF TypeOK, NlType
      <4>. QED  BY <4>1, AnswerTypes DEF IsTlvs
    <3>6. PICK tags : tags = Passing'
      OBVIOUS
    <3>7. 0 = Begin(a.tlvs, 1) /\ <<>> = Values(a.tlvs, tags, 0) /\ 1 \in 1..(Len(a.tlvs) + 1) /\ 1 - 1 = 0
      BY <3>5, BeginIs, ValuesIs
    <3>8. Reached'
      <4>1. pos' = Begin(a.tlvs, 1) /\ shown' = Values(a.tlvs, Passing', 1 - 1)
        BY <2>1, <3>2, <3>6, <3>7
      <4>2. a = answer'[Current']
        BY <3>3, <3>4
      <4>. QED  BY <3>7, <4>1, <4>2 DEF Reached
    <3>9. Len(sent') > 0
      BY <2>1, <3>1 DEF TypeOK, NlType
    <3>. QED  BY <2>1, <2>4, <3>3, <3>8, <3>9 DEF Showing, ShownWhole
  <2>. QED  BY <2>1, <2>2, <2>3, <2>4
<1>8. CASE AnsweredOld
  <2>1. pc = "await_old" /\ pc' = "next" /\ sent' = sent
    BY <1>8 DEF AnsweredOld, commands
  <2>2. sent'[Current'].version = "old"
    BY <2>1 DEF Showing, Current
  <2>. QED  BY <2>1, <2>2 DEF Showing, ShownWhole
<1>9. CASE Walk
  <2>1. /\ pc = "walk" /\ pc' \in {"walk", "next"}
        /\ UNCHANGED <<buffer, sent, answer, opts, result>>
    BY <1>9 DEF Walk, nlvars, commands
  <2>2. Current' = Current /\ answer'[Current'] = answer[Current] /\ Passing' = Passing
    BY <2>1, PassingStays DEF Current
  <2>3. PICK a : a = answer[Current]
    OBVIOUS
  <2>4. CASE pc' = "walk"
    <3>1. Reached'
      <4>1. SUFFICES ASSUME Sound(a)
                     PROVE  \E i \in 1..(Len(a.tlvs) + 1) :
                              pos' = Begin(a.tlvs, i) /\ shown' = Values(a.tlvs, Passing', i - 1)
        BY <2>2, <2>3 DEF Reached
      <4>. QED  BY <1>9, <2>2, <2>3, <2>4, <4>1, WalkShows
    <3>2. Holds' /\ Len(sent') > 0 /\ ~opts'.reset
      BY <2>1, <2>2 DEF Showing, Holds, Received
    <3>. QED  BY <2>4, <3>1, <3>2 DEF Showing, ShownWhole
  <2>5. CASE pc' = "next"
    <3>1. Sound(a) => shown' = Expected(a)'
      <4>1. Expected(a)' = Expected(a)
        BY <2>2 DEF Expected
      <4>. QED  BY <1>9, <2>3, <2>5, <4>1, WalkShows
    <3>2. ShownWhole'
      BY <2>2, <2>3, <3>1 DEF ShownWhole
    <3>. QED  BY <2>5, <3>2 DEF Showing
  <2>. QED  BY <2>1, <2>4, <2>5
<1>10. CASE UNCHANGED vars
  <2>1. UNCHANGED <<pc, nl, buffer, sent, answer, opts, result, shown, pos, broken>>
    BY <1>10 DEF vars, nlvars, commands, socket, shows, walk
  <2>2. Current' = Current /\ Passing' = Passing
    BY <2>1, PassingStays DEF Current
  <2>. QED  BY <2>1, <2>2 DEF Showing, ShownWhole, Holds, Received, Fresh, Reached, Expected
<1>. QED
  BY <1>2, <1>3, <1>4, <1>5, <1>6, <1>7, <1>8, <1>9, <1>10 DEF Next, Handler, Finished

-------------------------------------------------------------------------------
\* The theorems.

LEMMA InitInv == Init => IInv
<1>1. SUFFICES ASSUME Init PROVE IInv
  OBVIOUS
<1>2. /\ nl = "closed" /\ queue = <<>> /\ seq = 0 /\ expect = 1 /\ buffer = Fresh /\ ret = 0
      /\ sent = <<>> /\ answer = <<>> /\ outcome = <<>> /\ reply = <<>> /\ executed = {}
      /\ broken = FALSE
  BY <1>1 DEF Init, NlInit
<1>3. pc = "open" /\ opts \in Options /\ core = 1 /\ pos = 0 /\ left = 0
  BY <1>1 DEF Init, Options
<1>4. Len(<<>>) = 0 /\ 1..0 = {} /\ \A S : <<>> \in Seq(S)
  OBVIOUS
<1>5. Fresh \in [of : Nat, len : 0..Room] /\ Fresh.of = 0
  BY Nl80211Assumption DEF Fresh, Junk
<1>6. NlType
  <2>1. /\ queue \in Seq(Messages) /\ sent \in Seq(Requests) /\ answer \in Seq(Answers)
        /\ outcome \in Seq(Results) /\ reply \in Seq(Nat)
    BY <1>2, EmptySeq
  <2>2. /\ Len(queue) = 0 /\ Len(sent) = 0 /\ Len(answer) = 0 /\ Len(outcome) = 0
        /\ Len(reply) = 0
    BY <1>2, <1>4
  <2>3. buffer.of \in 0..Len(sent) /\ executed \subseteq 1..Len(sent)
    BY <1>2, <1>5, <2>2
  <2>4. /\ nl = "closed" /\ seq \in Nat /\ expect \in Nat /\ ret \in {0, -1} /\ broken \in BOOLEAN
        /\ buffer \in [of : Nat, len : 0..Room]
    BY <1>2, <1>5
  <2>5. \A i \in 1..Len(queue) : queue[i].of \in 1..Len(sent)
    BY <1>4, <2>2
  <2>. QED  BY <2>1, <2>2, <2>3, <2>4, <2>5 DEF NlType
<1>7. Len(Cores) \in Nat
  BY StatsAssumption
<1>8. TypeOK
  BY <1>2, <1>3, <1>4, <1>6, <1>7 DEF TypeOK, Busy, Pending
<1>9. Walking /\ WalkBounded
  BY <1>3 DEF Walking, WalkBounded
<1>10. Asked /\ Reading /\ Showing /\ ShownWhole
  BY <1>2, <1>3, <1>4 DEF Asked, Reading, Showing, ShownWhole
<1>11. Exchange
  BY <1>2, <1>4 DEF Exchange, Pending
<1>. QED  BY <1>8, <1>9, <1>10, <1>11 DEF IInv

LEMMA NextInv == IInv /\ [Next]_vars => IInv'
<1>1. SUFFICES ASSUME IInv, [Next]_vars PROVE IInv'
  OBVIOUS
<1>2. TypeOK /\ Walking /\ WalkBounded /\ Asked
  BY <1>1 DEF IInv
<1>3. TypeOK' /\ Walking' /\ WalkBounded' /\ Asked'
  BY <1>1, <1>2, StepType, StepAsked
<1>4. ASSUME ~broken' PROVE Exchange' /\ Reading' /\ Showing' /\ ShownWhole'
  <2>1. ~broken
    BY <1>1, <1>2, <1>4, BrokenStays
  <2>2. Exchange /\ Reading /\ Showing /\ ShownWhole
    BY <1>1, <2>1 DEF IInv
  <2>3. Exchange' /\ Reading'
    BY <1>1, <1>2, <1>4, <2>2, StepExchange, StepReading
  <2>4. Showing' /\ ShownWhole'
    BY <1>1, <1>2, <1>4, <2>1, <2>2, StepShowing
  <2>. QED  BY <2>3, <2>4
<1>. QED  BY <1>3, <1>4 DEF IInv

LEMMA Inductive == Spec => []IInv
BY InitInv, NextInv, PTL DEF Spec

\* The transport's and the command's variables keep their types, for every set of
\* answers that firmware may give: no buffer holds more than it has room for.
THEOREM TypeCorrect == Spec => []TypeOK
<1>1. IInv => TypeOK
  BY DEF IInv
<1>. QED  BY <1>1, Inductive, PTL

\* However its TLVs are cut off or malformed, the walk over an answer ends at most an
\* overhead behind what was received (morsectrl_stats_cmd's loop).
THEOREM WalkStaysBounded == Spec => []WalkBounded
<1>1. IInv => WalkBounded
  BY DEF IInv
<1>. QED  BY <1>1, Inductive, PTL

\* Of a sound answer every known statistic that passes the filter is shown once, in order
\* and from its own octets, whatever came before it.
THEOREM ShowsWhole == Spec => []ShownWhole
<1>1. IInv => ShownWhole
  BY DEF IInv, ShownWhole
<1>. QED  BY <1>1, Inductive, PTL

\* A `stats` that returns 0 has had the counters of each selected core, and of no other,
\* read or reset by a command of its own.
THEOREM StatsDoneAsAsked == Spec => []DoneAsAsked
<1>1. IInv => DoneAsAsked
  <2>1. SUFFICES ASSUME IInv, pc = "done", result = 0, ~broken
                 PROVE  {sent[c].core : c \in {c \in executed : outcome[c] = "answered"
                                                 /\ answer[c].status = 0
                                                 /\ sent[c].reset = opts.reset}} = Selected
    BY DEF DoneAsAsked
  <2> DEFINE done == {c \in executed : outcome[c] = "answered" /\ answer[c].status = 0
                                       /\ sent[c].reset = opts.reset}
  <2>2. core = Len(Cores) + 1 /\ Len(Cores) \in Nat /\ DOMAIN Cores = 1..Len(Cores)
    BY <2>1, StatsAssumption DEF IInv, Asked
  <2>3. \A c \in done : sent[c].core \in Selected
    BY <2>1 DEF IInv, TypeOK, NlType, Asked
  <2>4. Selected \subseteq ToSet(Cores)
    BY <2>1 DEF IInv, TypeOK, Options, Selected
  <2>5. ASSUME NEW k \in Selected PROVE \E c \in done : sent[c].core = k
    <3>1. PICK i \in 1..Len(Cores) : Cores[i] = k
      BY <2>2, <2>4, <2>5 DEF ToSet
    <3>2. Read(i)
      BY <2>1, <2>2, <2>5, <3>1 DEF IInv, Reading
    <3>. QED  BY <3>1, <3>2 DEF Read
  <2> HIDE DEF done
  <2>6. {sent[c].core : c \in done} = Selected
    BY <2>3, <2>5
  <2>. QED  BY <2>6 DEF done
<1>. QED  BY <1>1, Inductive, PTL

-------------------------------------------------------------------------------
\* The driver's answers are taken as CommandChannel promises.

\* Unless something is broken the channel's calls are the outcomes.
AsSeen == ~broken => Calls = outcome

LEMMA CallsAre == IInv => AsSeen
<1>1. SUFFICES ASSUME IInv, ~broken PROVE Calls = outcome
  BY DEF AsSeen
<1>2. outcome \in [1..Len(sent) -> Results] /\ DOMAIN outcome = 1..Len(sent)
  BY <1>1, LenProperties DEF IInv, TypeOK, NlType
<1>3. \A c \in 1..Len(sent) : outcome[c] = "answered" => reply[c] = c
  BY <1>1 DEF IInv, Exchange
<1>4. Calls = [c \in 1..Len(sent) |->
                IF outcome[c] = "answered" /\ reply[c] # c THEN "mismatched" ELSE outcome[c]]
  BY <1>2 DEF Calls
<1>5. \A c \in 1..Len(sent) :
        (IF outcome[c] = "answered" /\ reply[c] # c THEN "mismatched" ELSE outcome[c]) = outcome[c]
  BY <1>3
<1>. QED  BY <1>2, <1>4, <1>5

\* A step of the process is one of the channel or leaves it alone, or breaks something.
LEMMA ChannelStep ==
  ASSUME IInv, IInv', [Next]_vars
  PROVE  broken' \/ Channel!Next \/ UNCHANGED <<Calls, executed>>
<1>0. SUFFICES ASSUME ~broken' PROVE Channel!Next \/ UNCHANGED <<Calls, executed>>
  OBVIOUS
<1>1. TypeOK /\ Asked /\ Exchange /\ ~broken
  BY <1>0, BrokenStays DEF IInv
<1>2. Calls = outcome /\ Calls' = outcome' /\ DOMAIN outcome = 1..Len(sent)
  <2>1. AsSeen /\ AsSeen'
    BY CallsAre, PTL
  <2>. QED  BY <1>0, <1>1, <2>1 DEF AsSeen, TypeOK, NlType
<1>3. CASE UNCHANGED <<outcome, executed>>
  BY <1>2, <1>3
<1>4. CASE Query \/ QueryAgain
  <2>1. pc \in {"send", "resend"} /\ \E request \in {Request, OldRequest} : Issue(request)
    BY <1>4 DEF Query, QueryAgain
  <2>2. PICK request \in {Request, OldRequest} : Issue(request)
    BY <2>1
  <2>3. /\ nl = "idle" /\ executed' = executed
        /\ \E res \in {"pending", "failed"} : outcome' = Append(outcome, res)
    BY <1>0, <2>2 DEF Issue, Send, SendFails, Record
  <2>4. \A c \in DOMAIN outcome : outcome[c] # "pending"
    BY <1>1, <1>2, <2>3 DEF Exchange, Pending
  <2>. QED  BY <1>2, <2>3, <2>4 DEF Channel!Next, Channel!Issue, Channel!NonePending
<1>5. CASE Transport
  <2>1. Len(sent) > 0 /\ Pending
    BY <1>1, <1>5 DEF Transport, TypeOK, Driver, Receive, Pending
  <2>2. Current \in DOMAIN outcome /\ outcome[Current] = "pending"
    BY <1>1, <1>2, <2>1 DEF Exchange, TypeOK, NlType, Current
  <2>3. PICK c \in DOMAIN outcome : c = Current
    BY <2>2
  <2>4. CASE Driver
    <3>1. UNCHANGED outcome /\ (executed' = executed \cup {c} \/ UNCHANGED executed)
      BY <2>3, <2>4 DEF Driver
    <3>2. c \notin executed
      BY <1>1, <2>3, <2>4 DEF Exchange, Driver
    <3>. QED  BY <1>2, <3>1, <3>2 DEF Channel!Next, Channel!Execute
  <2>5. CASE Receive
    <3>1. queue # <<>> /\ UNCHANGED executed /\ (TakeReply \/ TakeError \/ TakeAck)
      BY <1>0, <2>5 DEF Receive, ReceiveFails
    <3>2. CASE TakeReply
      BY <1>3, <3>1, <3>2 DEF TakeReply
    <3>3. CASE TakeError
      <4>1. outcome' = [outcome EXCEPT ![c] = "failed"]
        BY <2>3, <3>3 DEF TakeError, Finish
      <4>. QED  BY <1>2, <2>2, <2>3, <3>1, <4>1 DEF Channel!Next, Channel!Fail
    <3>4. CASE TakeAck
      <4>1. outcome' = [outcome EXCEPT ![c] = "answered"]
        BY <2>3, <3>4 DEF TakeAck, Finish
      <4>2. c \in executed
        <5>1. First = queue[1] /\ 1 \in 1..Len(queue)
          BY <1>1, <3>1, <3>4, Taken DEF TakeAck, TypeOK
        <5>. QED  BY <1>1, <2>3, <3>4, <5>1 DEF TakeAck, Exchange
      <4>. QED  BY <1>2, <2>2, <2>3, <3>1, <4>1, <4>2 DEF Channel!Next, Channel!Answer
    <3>. QED  BY <3>1, <3>2, <3>3, <3>4
  <2>. QED  BY <1>5, <2>4, <2>5 DEF Transport
<1>. QED
  BY <1>3, <1>4, <1>5
  DEF Next, Handler, Finished, Start, Open, Load, NextCore, Alloc, Answered, AnsweredOld, Return,
      Leave, Walk, vars, nlvars, commands

\* As long as every receive succeeds and every acknowledged command had its data, the
\* transport does what transport.h promises: a command counts as answered only with its
\* own reply, and firmware has executed it once.
THEOREM TakesAnswersInTurn == Spec => ChannelSteps
<1>1. Init => Channel!Init
  BY DEF Init, NlInit, Calls, Channel!Init
<1>2. IInv /\ IInv' /\ [Next]_vars => [broken' \/ Channel!Next]_<<Calls, executed>>
  BY ChannelStep
<1>. QED  BY <1>1, <1>2, Inductive, PTL DEF Spec, ChannelSteps

-------------------------------------------------------------------------------
\* What is printed in JSON.

Token == {"{", "}", "[", "]", ",", "key", "value", "dump", "text", "cut"}

\* The recursive function of Scan, and that it exists.
IsScan(f, s, tokens, n) ==
  f = [i \in 0..n |-> IF i = 0 THEN s ELSE Reader(f[i - 1], tokens[i])]

LEMMA ScanExists ==
  ASSUME NEW s, NEW tokens, NEW m \in Nat
  PROVE  \E f : IsScan(f, s, tokens, m)
<1> DEFINE step(f, i) == IF i = 0 THEN s ELSE Reader(f[i - 1], tokens[i])
           Bad == {n \in Nat : ~\E f : f = [i \in 0..n |-> step(f, i)]}
<1>1. SUFFICES ASSUME Bad # {} PROVE FALSE
  BY DEF IsScan
<1>2. PICK n \in Bad : \A k \in Bad : n <= k
  <2> HIDE DEF Bad
  <2>1. Bad \in SUBSET Nat
    BY DEF Bad
  <2>. QED  BY <1>1, <2>1, Smallest
<1>3. n # 0
  <2>1. SUFFICES ASSUME n = 0 PROVE FALSE
    OBVIOUS
  <2> DEFINE f == [i \in 0..0 |-> s]
  <2>2. f = [i \in 0..0 |-> step(f, i)]
    OBVIOUS
  <2>. QED  BY <1>2, <2>1, <2>2
<1>4. n - 1 \in Nat /\ n - 1 \notin Bad
  <2>1. n \in Nat
    OBVIOUS
  <2> HIDE DEF Bad
  <2>. QED  BY <1>2, <1>3, <2>1
<1>5. PICK g : g = [i \in 0..(n - 1) |-> step(g, i)]
  BY <1>4
<1> DEFINE f == [i \in 0..n |-> step(g, i)]
<1>6. \A i \in 0..n : step(g, i) = step(f, i)
  <2>1. SUFFICES ASSUME NEW i \in 0..n, i # 0 PROVE g[i - 1] = f[i - 1]
    OBVIOUS
  <2>2. i - 1 \in 0..(n - 1) /\ i - 1 \in 0..n
    BY <1>4, <2>1
  <2>3. g[i - 1] = step(g, i - 1)
    BY <1>5, <2>2
  <2>4. f[i - 1] = step(g, i - 1)
    BY <2>2
  <2>. QED  BY <2>3, <2>4
<1>7. f = [i \in 0..n |-> step(f, i)]
  BY <1>6
<1>. QED  BY <1>2, <1>7

\* It takes one token after the other.
Steps(f, s, tokens) ==
  f[0] = s /\ \A i \in 1..Len(tokens) : f[i] = Reader(f[i - 1], tokens[i])

LEMMA ScanSteps ==
  ASSUME NEW s, NEW tokens \in Seq(Token)
  PROVE  \E f : Steps(f, s, tokens) /\ Scan(s, tokens) = f[Len(tokens)]
<1> DEFINE m == Len(tokens)
           after == CHOOSE f : IsScan(f, s, tokens, m)
<1>1. m \in Nat
  OBVIOUS
<1>2. Scan(s, tokens) = after[m]
  BY DEF Scan, IsScan
<1>3. IsScan(after, s, tokens, m)
  <2>1. \E f : IsScan(f, s, tokens, m)
    <3> HIDE DEF m
    <3>. QED  BY <1>1, ScanExists
  <2>. QED  BY <2>1
<1> HIDE DEF after, m
<1>4. \A i \in 0..m : after[i] = IF i = 0 THEN s ELSE Reader(after[i - 1], tokens[i])
  BY <1>3 DEF IsScan
<1>5. Steps(after, s, tokens)
  BY <1>1, <1>4 DEF Steps, m
<1>. QED  BY <1>2, <1>5 DEF m

\* ... so that whatever does that ends where it does.
LEMMA ScanIs ==
  ASSUME NEW s, NEW tokens \in Seq(Token), NEW g, Steps(g, s, tokens)
  PROVE  Scan(s, tokens) = g[Len(tokens)]
<1>1. PICK f : Steps(f, s, tokens) /\ Scan(s, tokens) = f[Len(tokens)]
  BY ScanSteps
<1> DEFINE Bad == {i \in 0..Len(tokens) : f[i] # g[i]}
<1>2. Bad = {}
  <2>1. SUFFICES ASSUME Bad # {} PROVE FALSE
    OBVIOUS
  <2>2. PICK i \in Bad : \A k \in Bad : i <= k
    <3>1. Bad \in SUBSET Nat
      OBVIOUS
    <3> HIDE DEF Bad
    <3>. QED  BY <2>1, <3>1, Smallest
  <2>3. i # 0
    BY <1>1, <2>2 DEF Steps
  <2>4. i \in 1..Len(tokens) /\ i - 1 \in 0..Len(tokens) /\ i - 1 \notin Bad
    BY <2>2, <2>3
  <2>5. f[i - 1] = g[i - 1]
    BY <2>4
  <2>6. f[i] = Reader(f[i - 1], tokens[i]) /\ g[i] = Reader(g[i - 1], tokens[i])
    BY <1>1, <2>4 DEF Steps
  <2>. QED  BY <2>2, <2>5, <2>6
<1>. QED  BY <1>1, <1>2

\* Reading two sequences is reading one after the other.
LEMMA ScanConcat ==
  ASSUME NEW s, NEW a \in Seq(Token), NEW b \in Seq(Token)
  PROVE  a \o b \in Seq(Token) /\ Scan(s, a \o b) = Scan(Scan(s, a), b)
<1>1. PICK f : Steps(f, s, a) /\ Scan(s, a) = f[Len(a)]
  BY ScanSteps
<1>2. PICK h : Steps(h, Scan(s, a), b) /\ Scan(Scan(s, a), b) = h[Len(b)]
  BY ScanSteps
<1> DEFINE n == Len(a)
           m == Len(b)
           g == [i \in 0..(n + m) |-> IF i <= n THEN f[i] ELSE h[i - n]]
<1>3. /\ a \o b \in Seq(Token) /\ Len(a \o b) = n + m /\ n \in Nat /\ m \in Nat
      /\ \A i \in 1..(n + m) : (a \o b)[i] = IF i <= n THEN a[i] ELSE b[i - n]
  BY ConcatProperties
<1>4. g[0] = s
  BY <1>1, <1>3 DEF Steps
<1>5. \A i \in 0..n : g[i] = f[i]
  BY <1>3
<1>6. \A i \in 0..m : g[n + i] = h[i]
  <2>1. h[0] = f[n]
    BY <1>1, <1>2 DEF Steps
  <2>. QED  BY <1>3, <2>1
<1>7. ASSUME NEW i \in 1..(n + m) PROVE g[i] = Reader(g[i - 1], (a \o b)[i])
  <2>1. CASE i <= n
    <3>1. i \in 1..n /\ i \in 0..n /\ i - 1 \in 0..n
      BY <1>3, <2>1
    <3>2. g[i] = f[i] /\ g[i - 1] = f[i - 1]
      BY <1>5, <3>1
    <3>3. (a \o b)[i] = a[i]
      BY <1>3, <2>1
    <3>. QED  BY <1>1, <3>1, <3>2, <3>3 DEF Steps
  <2>2. CASE ~(i <= n)
    <3> DEFINE j == i - n
    <3>1. j \in 1..m /\ j \in 0..m /\ j - 1 \in 0..m /\ i = n + j /\ i - 1 = n + (j - 1)
      BY <1>3, <2>2
    <3>2. g[i] = h[j] /\ g[i - 1] = h[j - 1]
      <4> HIDE DEF g, j
      <4>. QED  BY <1>6, <3>1
    <3>3. (a \o b)[i] = b[j]
      BY <1>3, <2>2
    <3>4. h[j] = Reader(h[j - 1], b[j])
      BY <1>2, <3>1 DEF Steps
    <3>. QED  BY <3>2, <3>3, <3>4
  <2>. QED  BY <2>1, <2>2
<1> HIDE DEF g
<1>8. Steps(g, s, a \o b)
  BY <1>3, <1>4, <1>7 DEF Steps
<1>9. Scan(s, a \o b) = g[n + m]
  BY <1>3, <1>8, ScanIs
<1>10. g[n + m] = h[m]
  BY <1>3, <1>6
<1>. QED  BY <1>2, <1>3, <1>9, <1>10

\* A sequence of one.
LEMMA Single ==
  ASSUME NEW S, NEW t \in S PROVE <<t>> \in Seq(S) /\ Len(<<t>>) = 1 /\ <<t>>[1] = t
OBVIOUS

\* Reading a token, and none.
LEMMA ScanOne ==
  ASSUME NEW s, NEW t \in Token
  PROVE  <<t>> \in Seq(Token) /\ Scan(s, <<t>>) = Reader(s, t) /\ Scan(s, <<>>) = s
<1>1. <<t>> \in Seq(Token) /\ Len(<<t>>) = 1 /\ <<t>>[1] = t
  BY Single
<1>2. PICK f : Steps(f, s, <<t>>) /\ Scan(s, <<t>>) = f[1]
  BY <1>1, ScanSteps
<1>3. <<>> \in Seq(Token) /\ Len(<<>>) = 0
  OBVIOUS
<1>4. PICK h : Steps(h, s, <<>>) /\ Scan(s, <<>>) = h[0]
  BY <1>3, ScanSteps
<1>5. f[0] = s /\ f[1] = Reader(f[0], <<t>>[1])
  <2>1. \A i \in 1..1 : f[i] = Reader(f[i - 1], <<t>>[i])
    BY <1>1, <1>2 DEF Steps
  <2>2. 1 \in 1..1 /\ 1 - 1 = 0
    OBVIOUS
  <2>3. f[1] = Reader(f[1 - 1], <<t>>[1])
    BY <2>1, <2>2, Zenon
  <2>. QED  BY <1>2, <2>2, <2>3 DEF Steps
<1>6. h[0] = s
  BY <1>4 DEF Steps
<1>. QED  BY <1>1, <1>2, <1>4, <1>5, <1>6

\* A reader, and what may come where a value may.
At(o, m)  == [open |-> o, may |-> m]
AnyValue == {"value", "{", "["}
Inside(b, o) == <<b>> \o o

\* What a reader does with each token.
LEMMA ReaderIs ==
  ASSUME NEW o \in Seq(Token), NEW m
  PROVE  /\ "key" \in m => Reader(At(o, m), "key") = At(o, AnyValue)
         /\ "value" \in m => Reader(At(o, m), "value") = At(o, After(o))
         /\ "{" \in m => Reader(At(o, m), "{") = At(Inside("{", o), {"key", "}"})
         /\ "[" \in m => Reader(At(o, m), "[") = At(Inside("[", o), AnyValue \cup {"]"})
<1> USE DEF At
<1>1. \A w : Expecting(At(o, m), w) = At(o, w)
  BY DEF Expecting
<1>2. ASSUME "key" \in m PROVE Reader(At(o, m), "key") = At(o, AnyValue)
  BY <1>1, <1>2 DEF Reader, AnyValue
<1>3. ASSUME "value" \in m PROVE Reader(At(o, m), "value") = At(o, After(o))
  BY <1>1, <1>3 DEF Reader
<1>4. ASSUME "{" \in m PROVE Reader(At(o, m), "{") = At(Inside("{", o), {"key", "}"})
  BY <1>4 DEF Reader, Opened, Inside
<1>5. ASSUME "[" \in m PROVE Reader(At(o, m), "[") = At(Inside("[", o), AnyValue \cup {"]"})
  BY <1>5 DEF Reader, Opened, Inside, AnyValue
<1>. QED  BY <1>2, <1>3, <1>4, <1>5

\* The innermost bracket.
LEMMA Innermost ==
  ASSUME NEW o \in Seq(Token), NEW b \in Token
  PROVE  /\ Inside(b, o) \in Seq(Token) /\ Inside(b, o) # <<>>
         /\ Head(Inside(b, o)) = b /\ Tail(Inside(b, o)) = o
<1>1. <<b>> \in Seq(Token) /\ Len(<<b>>) = 1 /\ <<b>>[1] = b
  BY Single
<1>2. /\ <<b>> \o o \in Seq(Token) /\ Len(<<b>> \o o) = Len(<<b>>) + Len(o)
      /\ \A i \in 1..(Len(<<b>>) + Len(o)) :
           (<<b>> \o o)[i] = IF i <= Len(<<b>>) THEN <<b>>[i] ELSE o[i - Len(<<b>>)]
  BY <1>1, ConcatProperties
<1>3. /\ Len(<<b>> \o o) = Len(o) + 1 /\ Len(o) \in Nat
      /\ (<<b>> \o o)[1] = b /\ \A i \in 1..Len(o) : (<<b>> \o o)[i + 1] = o[i]
  BY <1>1, <1>2
<1> DEFINE c == <<b>> \o o
<1> HIDE DEF c
<1>4. c \in Seq(Token) /\ Len(c) = Len(o) + 1 /\ c[1] = b /\ \A i \in 1..Len(o) : c[i + 1] = o[i]
  BY <1>2, <1>3 DEF c
<1>5. c # <<>>
  BY <1>3, <1>4
<1>6. /\ Head(c) = c[1]
      /\ Tail(c) \in Seq(Token) /\ Len(Tail(c)) = Len(c) - 1
      /\ \A i \in 1..Len(Tail(c)) : Tail(c)[i] = c[i + 1]
  BY <1>4, <1>5, HeadTailProperties
<1>7. Tail(c) = o
  <2>1. Len(Tail(c)) = Len(o) /\ \A i \in 1..Len(o) : Tail(c)[i] = o[i]
    BY <1>3, <1>4, <1>6
  <2>. QED  BY <1>6, <2>1, SeqEqual
<1>. QED  BY <1>4, <1>5, <1>6, <1>7 DEF c, Inside

LEMMA ReaderInside ==
  ASSUME NEW o \in Seq(Token), NEW m
  PROVE  /\ "}" \in m => Reader(At(Inside("{", o), m), "}") = At(o, After(o))
         /\ "]" \in m => Reader(At(Inside("[", o), m), "]") = At(o, After(o))
         /\ "," \in m => Reader(At(Inside("{", o), m), ",") = At(Inside("{", o), {"key"})
         /\ "," \in m => Reader(At(Inside("[", o), m), ",") = At(Inside("[", o), AnyValue)
         /\ After(Inside("{", o)) = {",", "}"} /\ After(Inside("[", o)) = {",", "]"}
<1> DEFINE p == Inside("{", o)
           q == Inside("[", o)
<1>1. p # <<>> /\ Head(p) = "{" /\ Tail(p) = o
  BY Innermost DEF Token
<1>2. q # <<>> /\ Head(q) = "[" /\ Tail(q) = o
  BY Innermost DEF Token
<1> HIDE DEF p, q
<1>3. \A c, w : Expecting(At(c, m), w) = At(c, w)
  BY DEF Expecting, At
<1>4. After(p) = {",", "}"} /\ After(q) = {",", "]"}
  BY <1>1, <1>2 DEF After
<1>5. ASSUME "}" \in m PROVE Reader(At(p, m), "}") = At(o, After(o))
  BY <1>1, <1>5 DEF Reader, At
<1>6. ASSUME "]" \in m PROVE Reader(At(q, m), "]") = At(o, After(o))
  BY <1>2, <1>6 DEF Reader, At
<1>7. ASSUME "," \in m PROVE Reader(At(p, m), ",") = At(p, {"key"})
  <2>1. At(p, m).open = p /\ At(p, m).may = m
    BY DEF At
  <2>. QED  BY <1>1, <1>3, <1>7, <2>1 DEF Reader
<1>8. ASSUME "," \in m PROVE Reader(At(q, m), ",") = At(q, AnyValue)
  <2>1. At(q, m).open = q /\ At(q, m).may = m
    BY DEF At
  <2>. QED  BY <1>2, <1>3, <1>8, <2>1 DEF Reader, AnyValue
<1>. QED  BY <1>4, <1>5, <1>6, <1>7, <1>8 DEF p, q

\* Tokens that take the reader from s to t.
Leads(s, v, t) == v \in Seq(Token) /\ Scan(s, v) = t

LEMMA LeadsOne == ASSUME NEW s, NEW t \in Token PROVE Leads(s, <<t>>, Reader(s, t))
BY ScanOne DEF Leads

LEMMA LeadsOn ==
  ASSUME NEW s, NEW t, NEW u, NEW a, NEW b, Leads(s, a, t), Leads(t, b, u)
  PROVE  Leads(s, a \o b, u)
<1>1. a \in Seq(Token) /\ b \in Seq(Token) /\ Scan(s, a) = t /\ Scan(t, b) = u
  BY DEF Leads
<1>2. a \o b \in Seq(Token) /\ Scan(s, a \o b) = Scan(Scan(s, a), b)
  BY <1>1, ScanConcat
<1>. QED  BY <1>1, <1>2 DEF Leads

\* Tokens that are one value, in an object one or more members, or ones with a comma
\* behind the last, and in a list one or more values.
IsValue(v) ==
  \A o \in Seq(Token) : \A m : AnyValue \subseteq m => Leads(At(o, m), v, At(o, After(o)))
IsMembers(v) ==
  \A o \in Seq(Token) : \A m :
    "key" \in m => Leads(At(Inside("{", o), m), v, At(Inside("{", o), {",", "}"}))
IsOpenEnded(v) ==
  \A o \in Seq(Token) : \A m :
    "key" \in m => Leads(At(Inside("{", o), m), v, At(Inside("{", o), {"key"}))
IsValues(v) ==
  \A o \in Seq(Token) : \A m :
    AnyValue \subseteq m => Leads(At(Inside("[", o), m), v, At(Inside("[", o), {",", "]"}))

LEMMA PlainValue == IsValue(<<"value">>)
<1>1. SUFFICES ASSUME NEW o \in Seq(Token), NEW m, AnyValue \subseteq m
               PROVE  Leads(At(o, m), <<"value">>, At(o, After(o)))
  BY DEF IsValue
<1>2. Reader(At(o, m), "value") = At(o, After(o))
  BY <1>1, ReaderIs DEF AnyValue
<1>3. Leads(At(o, m), <<"value">>, Reader(At(o, m), "value"))
  BY LeadsOne DEF Token
<1>. QED  BY <1>2, <1>3

LEMMA KeyedValue == ASSUME NEW v, IsValue(v) PROVE IsMembers(<<"key">> \o v)
<1>1. SUFFICES ASSUME NEW o \in Seq(Token), NEW m, "key" \in m
               PROVE  Leads(At(Inside("{", o), m), <<"key">> \o v, At(Inside("{", o), {",", "}"}))
  BY DEF IsMembers
<1> DEFINE p == Inside("{", o)
<1>2. p \in Seq(Token) /\ After(p) = {",", "}"}
  BY Innermost, ReaderInside DEF Token
<1> HIDE DEF p
<1>3. Leads(At(p, m), <<"key">>, Reader(At(p, m), "key"))
  BY LeadsOne DEF Token
<1>4. Reader(At(p, m), "key") = At(p, AnyValue)
  BY <1>1, <1>2, ReaderIs
<1>5. Leads(At(p, AnyValue), v, At(p, After(p)))
  BY <1>2 DEF IsValue
<1>6. Leads(At(p, m), <<"key">> \o v, At(p, After(p)))
  BY <1>3, <1>4, <1>5, LeadsOn
<1>. QED  BY <1>2, <1>6 DEF p

LEMMA CommaEnds == ASSUME NEW v, IsMembers(v) PROVE IsOpenEnded(v \o <<",">>)
<1>1. SUFFICES ASSUME NEW o \in Seq(Token), NEW m, "key" \in m
               PROVE  Leads(At(Inside("{", o), m), v \o <<",">>, At(Inside("{", o), {"key"}))
  BY DEF IsOpenEnded
<1> DEFINE s == At(Inside("{", o), {",", "}"})
<1>2. Leads(At(Inside("{", o), m), v, s)
  BY <1>1 DEF IsMembers
<1>3. Leads(s, <<",">>, Reader(s, ","))
  BY LeadsOne DEF Token
<1>4. Reader(s, ",") = At(Inside("{", o), {"key"})
  BY ReaderInside
<1> HIDE DEF s
<1>. QED  BY <1>2, <1>3, <1>4, LeadsOn

LEMMA MoreOpen ==
  ASSUME NEW v, NEW w, IsOpenEnded(v), IsOpenEnded(w) PROVE IsOpenEnded(v \o w)
<1>1. SUFFICES ASSUME NEW o \in Seq(Token), NEW m, "key" \in m
               PROVE  Leads(At(Inside("{", o), m), v \o w, At(Inside("{", o), {"key"}))
  BY DEF IsOpenEnded
<1>2. Leads(At(Inside("{", o), m), v, At(Inside("{", o), {"key"}))
  BY <1>1 DEF IsOpenEnded
<1>3. Leads(At(Inside("{", o), {"key"}), w, At(Inside("{", o), {"key"}))
  BY DEF IsOpenEnded
<1>. QED  BY <1>2, <1>3, LeadsOn

LEMMA MoreMembers ==
  ASSUME NEW v, NEW w, IsOpenEnded(v), IsMembers(w) PROVE IsMembers(v \o w)
<1>1. SUFFICES ASSUME NEW o \in Seq(Token), NEW m, "key" \in m
               PROVE  Leads(At(Inside("{", o), m), v \o w, At(Inside("{", o), {",", "}"}))
  BY DEF IsMembers
<1>2. Leads(At(Inside("{", o), m), v, At(Inside("{", o), {"key"}))
  BY <1>1 DEF IsOpenEnded
<1>3. Leads(At(Inside("{", o), {"key"}), w, At(Inside("{", o), {",", "}"}))
  BY DEF IsMembers
<1>. QED  BY <1>2, <1>3, LeadsOn

LEMMA OneOfValues == ASSUME NEW v, IsValue(v) PROVE IsValues(v)
<1>1. SUFFICES ASSUME NEW o \in Seq(Token), NEW m, AnyValue \subseteq m
               PROVE  Leads(At(Inside("[", o), m), v, At(Inside("[", o), {",", "]"}))
  BY DEF IsValues
<1> DEFINE p == Inside("[", o)
<1>2. p \in Seq(Token) /\ After(p) = {",", "]"}
  BY Innermost, ReaderInside DEF Token
<1> HIDE DEF p
<1>3. Leads(At(p, m), v, At(p, After(p)))
  BY <1>1, <1>2 DEF IsValue
<1>. QED  BY <1>2, <1>3 DEF p

LEMMA MoreValues ==
  ASSUME NEW v, NEW w, IsValues(v), IsValue(w) PROVE IsValues(v \o <<",">> \o w)
<1>1. SUFFICES ASSUME NEW o \in Seq(Token), NEW m, AnyValue \subseteq m
               PROVE  Leads(At(Inside("[", o), m), v \o <<",">> \o w, At(Inside("[", o), {",", "]"}))
  BY DEF IsValues
<1> DEFINE p == Inside("[", o)
           s == At(p, {",", "]"})
<1>2. p \in Seq(Token) /\ After(p) = {",", "]"}
  BY Innermost, ReaderInside DEF Token
<1>3. Leads(At(p, m), v, s)
  BY <1>1 DEF IsValues
<1>4. Leads(s, <<",">>, Reader(s, ","))
  BY LeadsOne DEF Token
<1>5. Reader(s, ",") = At(p, AnyValue)
  BY ReaderInside
<1> HIDE DEF p, s
<1>6. Leads(At(p, m), v \o <<",">>, At(p, AnyValue))
  BY <1>3, <1>4, <1>5, LeadsOn
<1>7. Leads(At(p, AnyValue), w, At(p, After(p)))
  BY <1>2 DEF IsValue
<1>8. Leads(At(p, m), v \o <<",">> \o w, At(p, After(p)))
  BY <1>6, <1>7, LeadsOn
<1>. QED  BY <1>2, <1>8 DEF p

\* Brackets around them.
LEMMA ObjectIsValue == ASSUME NEW v, IsMembers(v) PROVE IsValue(Object(v))
<1>1. SUFFICES ASSUME NEW o \in Seq(Token), NEW m, AnyValue \subseteq m
               PROVE  Leads(At(o, m), Object(v), At(o, After(o)))
  BY DEF IsValue
<1> DEFINE s == At(Inside("{", o), {"key", "}"})
           t == At(Inside("{", o), {",", "}"})
<1>2. Leads(At(o, m), <<"{">>, Reader(At(o, m), "{"))
  BY LeadsOne DEF Token
<1>3. Reader(At(o, m), "{") = s
  BY <1>1, ReaderIs DEF AnyValue
<1>4. Leads(s, v, t)
  BY DEF IsMembers
<1>5. Leads(t, <<"}">>, Reader(t, "}"))
  BY LeadsOne DEF Token
<1>6. Reader(t, "}") = At(o, After(o))
  BY ReaderInside
<1> HIDE DEF s, t
<1>7. Leads(At(o, m), <<"{">> \o v, t)
  BY <1>2, <1>3, <1>4, LeadsOn
<1>8. Leads(At(o, m), <<"{">> \o v \o <<"}">>, At(o, After(o)))
  BY <1>5, <1>6, <1>7, LeadsOn
<1>. QED  BY <1>8 DEF Object

LEMMA ArrayIsValue == ASSUME NEW v, IsValues(v) PROVE IsValue(Array(v))
<1>1. SUFFICES ASSUME NEW o \in Seq(Token), NEW m, AnyValue \subseteq m
               PROVE  Leads(At(o, m), Array(v), At(o, After(o)))
  BY DEF IsValue
<1> DEFINE s == At(Inside("[", o), AnyValue \cup {"]"})
           t == At(Inside("[", o), {",", "]"})
<1>2. Leads(At(o, m), <<"[">>, Reader(At(o, m), "["))
  BY LeadsOne DEF Token
<1>3. Reader(At(o, m), "[") = s
  BY <1>1, ReaderIs DEF AnyValue
<1>4. Leads(s, v, t)
  BY DEF IsValues
<1>5. Leads(t, <<"]">>, Reader(t, "]"))
  BY LeadsOne DEF Token
<1>6. Reader(t, "]") = At(o, After(o))
  BY ReaderInside
<1> HIDE DEF s, t
<1>7. Leads(At(o, m), <<"[">> \o v, t)
  BY <1>2, <1>3, <1>4, LeadsOn
<1>8. Leads(At(o, m), <<"[">> \o v \o <<"]">>, At(o, After(o)))
  BY <1>5, <1>6, <1>7, LeadsOn
<1>. QED  BY <1>8 DEF Array

\* The members the formatters are made of.
LEMMA Pieces == IsMembers(Final) /\ IsOpenEnded(Member)
<1>1. /\ <<"key">> \in Seq(Token) /\ <<"value">> \in Seq(Token)
      /\ Len(<<"key">>) = 1 /\ Len(<<"value">>) = 1
      /\ <<"key">>[1] = "key" /\ <<"value">>[1] = "value"
  BY Single DEF Token
<1>2. Final = <<"key">> \o <<"value">>
  BY <1>1, ConcatProperties, SeqEqual DEF Final, Token
<1>3. IsMembers(<<"key">> \o <<"value">>)
  BY PlainValue, KeyedValue
<1>. QED  BY <1>2, <1>3, CommaEnds DEF Member

\* The recursive function of Listed, and that it exists.
IsList(f, n, item) ==
  f = [i \in 1..n |-> IF i = 1 THEN item ELSE f[i - 1] \o <<",">> \o item]

LEMMA ListExists ==
  ASSUME NEW m \in Nat \ {0}, NEW item PROVE \E f : IsList(f, m, item)
<1> DEFINE step(f, i) == IF i = 1 THEN item ELSE f[i - 1] \o <<",">> \o item
           Bad == {n \in Nat \ {0} : ~\E f : f = [i \in 1..n |-> step(f, i)]}
<1>1. SUFFICES ASSUME Bad # {} PROVE FALSE
  BY DEF IsList
<1>2. PICK n \in Bad : \A k \in Bad : n <= k
  <2> HIDE DEF Bad
  <2>1. Bad \in SUBSET Nat
    BY DEF Bad
  <2>. QED  BY <1>1, <2>1, Smallest
<1>3. n # 1
  <2>1. SUFFICES ASSUME n = 1 PROVE FALSE
    OBVIOUS
  <2> DEFINE f == [i \in 1..1 |-> item]
  <2>2. \A i \in 1..1 : step(f, i) = item
    <3> HIDE DEF Bad, f
    <3>1. \A i \in 1..1 : i = 1
      OBVIOUS
    <3>. QED  BY <3>1
  <2>3. f = [i \in 1..1 |-> step(f, i)]
    BY <2>2
  <2>. QED  BY <1>2, <2>1, <2>3
<1>4. n \in Nat /\ n - 1 \in Nat \ {0} /\ n - 1 \notin Bad
  <2>1. n \in Nat \ {0}
    OBVIOUS
  <2> HIDE DEF Bad
  <2>. QED  BY <1>2, <1>3, <2>1
<1>5. PICK g : g = [i \in 1..(n - 1) |-> step(g, i)]
  BY <1>4
<1> DEFINE f == [i \in 1..n |-> step(g, i)]
<1>6. \A i \in 1..n : step(g, i) = step(f, i)
  <2>1. SUFFICES ASSUME NEW i \in 1..n, i # 1 PROVE g[i - 1] = f[i - 1]
    OBVIOUS
  <2>2. i - 1 \in 1..(n - 1) /\ i - 1 \in 1..n
    <3> HIDE DEF Bad
    <3>. QED  BY <1>4, <2>1
  <2>3. g[i - 1] = step(g, i - 1)
    BY <1>5, <2>2
  <2>4. f[i - 1] = step(g, i - 1)
    BY <2>2
  <2>. QED  BY <2>3, <2>4
<1>7. f = [i \in 1..n |-> step(f, i)]
  BY <1>6
<1>. QED  BY <1>2, <1>7

\* Values with commas between them.
LEMMA ListedIsValues ==
  ASSUME NEW n \in Nat \ {0}, NEW item, IsValue(item)
  PROVE  IsValues(Listed(n, item))
<1> DEFINE list == CHOOSE f : IsList(f, n, item)
<1>1. Listed(n, item) = list[n]
  BY DEF Listed, IsList
<1>2. IsList(list, n, item)
  <2>1. \E f : IsList(f, n, item)
    BY ListExists
  <2>. QED  BY <2>1
<1> HIDE DEF list
<1>3. \A i \in 1..n : list[i] = IF i = 1 THEN item ELSE list[i - 1] \o <<",">> \o item
  BY <1>2 DEF IsList
<1> DEFINE Bad == {i \in 1..n : ~IsValues(list[i])}
<1>4. Bad = {}
  <2>1. SUFFICES ASSUME Bad # {} PROVE FALSE
    OBVIOUS
  <2>2. PICK i \in Bad : \A k \in Bad : i <= k
    <3>1. Bad \in SUBSET Nat
      OBVIOUS
    <3> HIDE DEF Bad
    <3>. QED  BY <2>1, <3>1, Smallest
  <2>3. i # 1
    <3>1. IsValues(item)
      BY OneOfValues
    <3>. QED  BY <1>3, <2>2, <3>1
  <2>4. i \in 1..n /\ i - 1 \in 1..n /\ ~IsValues(list[i])
    BY <2>2, <2>3
  <2>5. i - 1 \notin Bad
    <3> HIDE DEF Bad
    <3>. QED  BY <2>2, <2>4
  <2>6. IsValues(list[i - 1])
    BY <2>4, <2>5
  <2>7. list[i] = list[i - 1] \o <<",">> \o item
    BY <1>3, <2>3, <2>4
  <2>8. IsValues(list[i - 1] \o <<",">> \o item)
    BY <2>6, MoreValues
  <2>. QED  BY <2>4, <2>7, <2>8
<1>5. n \in 1..n /\ n \notin Bad
  BY <1>4
<1>. QED  BY <1>1, <1>5

\* Whatever the format of a statistic, one value is shown.
LEMMA FormatsAreValues == \A format \in Formats : IsValue(JsonValue(format))
<1> USE Pieces
<1>1. IsMembers(Member \o Member \o Final)
  BY MoreOpen, MoreMembers
<1>2. IsMembers(Member \o Member \o Member \o Final)
  BY MoreOpen, MoreMembers
<1>3. IsOpenEnded(Member \o Member \o Member \o Member)
  <2>1. IsOpenEnded(Member \o Member)
    BY MoreOpen
  <2>2. IsOpenEnded(Member \o Member \o Member)
    BY <2>1, MoreOpen
  <2>. QED  BY <2>2, MoreOpen
<1>4. IsMembers(Member \o Member \o Member \o Member \o Final)
  BY <1>3, MoreMembers
<1>5. IsOpenEnded(Member \o Member \o Member \o Member \o Member \o Member \o Member \o Member
                  \o Member \o Member)
  <2>1. IsOpenEnded(Member \o Member \o Member \o Member \o Member)
    BY <1>3, MoreOpen
  <2>2. IsOpenEnded(Member \o Member \o Member \o Member \o Member \o Member)
    BY <2>1, MoreOpen
  <2>3. IsOpenEnded(Member \o Member \o Member \o Member \o Member \o Member \o Member)
    BY <2>2, MoreOpen
  <2>4. IsOpenEnded(Member \o Member \o Member \o Member \o Member \o Member \o Member \o Member)
    BY <2>3, MoreOpen
  <2>5. IsOpenEnded(Member \o Member \o Member \o Member \o Member \o Member \o Member \o Member
                    \o Member)
    BY <2>4, MoreOpen
  <2>. QED  BY <2>5, MoreOpen
<1>6. IsMembers(Member \o Member \o Member \o Member \o Member \o Member \o Member \o Member
                \o Member \o Member \o Final)
  BY <1>5, MoreMembers
<1>7. IsValue(Txop) /\ IsValue(DutyCycle)
  BY <1>4, ObjectIsValue DEF Txop, DutyCycle
<1>8. IsValue(MacState)
  BY <1>6, ObjectIsValue DEF MacState
<1> DEFINE entry == Object(Member \o Member \o Final)
<1>9. IsValue(entry)
  BY <1>1, ObjectIsValue
<1> HIDE DEF entry
<1>10. IsValue(Pageset) /\ IsValue(Retries)
  <2>1. NumPagesets \in Nat \ {0} /\ AppStatsCount \in Nat \ {0}
    BY DEF NumPagesets, AppStatsCount
  <2>2. IsValues(Listed(NumPagesets, entry)) /\ IsValues(Listed(AppStatsCount, entry))
    BY <1>9, <2>1, ListedIsValues
  <2>3. IsValue(Array(Listed(NumPagesets, entry))) /\ IsValue(Array(Listed(AppStatsCount, entry)))
    BY <2>2, ArrayIsValue
  <2>. QED  BY <2>3 DEF Pageset, Retries, entry
<1>11. IsValue(Calibration)
  <2>1. IsValue(Object(Member \o Member \o Member \o Member \o Final))
    BY <1>4, ObjectIsValue
  <2>2. IsMembers(<<"key">> \o Object(Member \o Member \o Member \o Member \o Final))
    BY <2>1, KeyedValue
  <2>. QED  BY <2>2, ObjectIsValue DEF Calibration
<1>12. IsValue(Raw)
  <2> DEFINE half == Object(Member \o Member \o Member \o Final)
  <2>1. IsValue(half)
    BY <1>2, ObjectIsValue
  <2> HIDE DEF half
  <2>2. IsMembers(<<"key">> \o half)
    BY <2>1, KeyedValue
  <2>3. IsOpenEnded(<<"key">> \o half \o <<",">>)
    BY <2>2, CommaEnds
  <2>4. IsMembers((<<"key">> \o half \o <<",">>) \o (<<"key">> \o half))
    BY <2>2, <2>3, MoreMembers
  <2>. QED  BY <2>4, ObjectIsValue DEF Raw, half
<1>13. IsValue(Integer) /\ IsValue(Text)
  BY PlainValue DEF Integer, Text
<1>. QED  BY <1>7, <1>8, <1>10, <1>11, <1>12, <1>13 DEF JsonValue, Formats

\* The recursive function of Tokens, and that it exists.
IsTokens(f, items, n) ==
  f = [i \in 0..n |-> IF i = 0 THEN <<>> ELSE f[i - 1] \o Item(items[i])]

LEMMA TokensExist ==
  ASSUME NEW items, NEW m \in Nat
  PROVE  \E f : IsTokens(f, items, m)
<1> DEFINE step(f, i) == IF i = 0 THEN <<>> ELSE f[i - 1] \o Item(items[i])
           Bad == {n \in Nat : ~\E f : f = [i \in 0..n |-> step(f, i)]}
<1>1. SUFFICES ASSUME Bad # {} PROVE FALSE
  BY DEF IsTokens
<1>2. PICK n \in Bad : \A k \in Bad : n <= k
  <2> HIDE DEF Bad
  <2>1. Bad \in SUBSET Nat
    BY DEF Bad
  <2>. QED  BY <1>1, <2>1, Smallest
<1>3. n # 0
  <2>1. SUFFICES ASSUME n = 0 PROVE FALSE
    OBVIOUS
  <2> DEFINE f == [i \in 0..0 |-> <<>>]
  <2>2. f = [i \in 0..0 |-> step(f, i)]
    OBVIOUS
  <2>. QED  BY <1>2, <2>1, <2>2
<1>4. n - 1 \in Nat /\ n - 1 \notin Bad
  <2>1. n \in Nat
    OBVIOUS
  <2> HIDE DEF Bad
  <2>. QED  BY <1>2, <1>3, <2>1
<1>5. PICK g : g = [i \in 0..(n - 1) |-> step(g, i)]
  BY <1>4
<1> DEFINE f == [i \in 0..n |-> step(g, i)]
<1>6. \A i \in 0..n : step(g, i) = step(f, i)
  <2>1. SUFFICES ASSUME NEW i \in 0..n, i # 0 PROVE g[i - 1] = f[i - 1]
    OBVIOUS
  <2>2. i - 1 \in 0..(n - 1) /\ i - 1 \in 0..n
    BY <1>4, <2>1
  <2>3. g[i - 1] = step(g, i - 1)
    BY <1>5, <2>2
  <2>4. f[i - 1] = step(g, i - 1)
    BY <2>2
  <2>. QED  BY <2>3, <2>4
<1>7. f = [i \in 0..n |-> step(f, i)]
  BY <1>6
<1>. QED  BY <1>2, <1>7

\* One item after the other.
Joins(f, items) ==
  f[0] = <<>> /\ \A i \in 1..Len(items) : f[i] = f[i - 1] \o Item(items[i])

LEMMA TokensJoin ==
  ASSUME NEW S, NEW items \in Seq(S)
  PROVE  \E f : Joins(f, items) /\ Tokens(items) = f[Len(items)]
<1> DEFINE m == Len(items)
           upto == CHOOSE f : IsTokens(f, items, m)
<1>1. m \in Nat
  OBVIOUS
<1>2. Tokens(items) = upto[m]
  BY DEF Tokens, IsTokens
<1>3. IsTokens(upto, items, m)
  <2>1. \E f : IsTokens(f, items, m)
    <3> HIDE DEF m
    <3>. QED  BY <1>1, TokensExist
  <2>. QED  BY <2>1
<1> HIDE DEF upto, m
<1>4. \A i \in 0..m : upto[i] = IF i = 0 THEN <<>> ELSE upto[i - 1] \o Item(items[i])
  BY <1>3 DEF IsTokens
<1>5. Joins(upto, items)
  <2>1. upto[0] = <<>>
    BY <1>1, <1>4
  <2>2. \A i \in 1..m : upto[i] = upto[i - 1] \o Item(items[i])
    <3>1. \A i \in 1..m : i \in 0..m /\ i # 0
      BY <1>1
    <3>. QED  BY <1>4, <3>1, Zenon
  <2>. QED  BY <2>1, <2>2 DEF Joins, m
<1>. QED  BY <1>2, <1>5 DEF m

\* An item more.
LEMMA TokensAppend ==
  ASSUME NEW S, NEW items \in Seq(S), NEW x \in S
  PROVE  Tokens(Append(items, x)) = Tokens(items) \o Item(x)
<1> DEFINE longer == Append(items, x)
           m == Len(items)
<1>1. /\ longer \in Seq(S) /\ Len(longer) = m + 1 /\ m \in Nat
      /\ \A i \in 1..m : longer[i] = items[i]
      /\ longer[m + 1] = x
  BY AppendProperties
<1> HIDE DEF longer
<1>2. PICK f : Joins(f, items) /\ Tokens(items) = f[m]
  BY TokensJoin
<1>3. PICK g : Joins(g, longer) /\ Tokens(longer) = g[m + 1]
  BY <1>1, TokensJoin
<1> HIDE DEF m
<1>4. f[0] = <<>> /\ \A i \in 1..m : f[i] = f[i - 1] \o Item(items[i])
  BY <1>2 DEF Joins, m
<1>5. g[0] = <<>> /\ \A i \in 1..(m + 1) : g[i] = g[i - 1] \o Item(longer[i])
  BY <1>1, <1>3 DEF Joins
<1> DEFINE Bad == {i \in 0..m : f[i] # g[i]}
<1>6. Bad = {}
  <2>1. SUFFICES ASSUME Bad # {} PROVE FALSE
    OBVIOUS
  <2>2. PICK i \in Bad : \A k \in Bad : i <= k
    <3>1. Bad \in SUBSET Nat
      BY <1>1
    <3> HIDE DEF Bad
    <3>. QED  BY <2>1, <3>1, Smallest
  <2>3. i # 0
    BY <1>4, <1>5, <2>2
  <2>4. i \in 1..m /\ i \in 1..(m + 1) /\ i - 1 \in 0..m /\ i - 1 \notin Bad
    BY <1>1, <2>2, <2>3
  <2>5. f[i - 1] = g[i - 1]
    BY <2>4
  <2>6. f[i] = f[i - 1] \o Item(items[i]) /\ g[i] = g[i - 1] \o Item(items[i])
    BY <1>1, <1>4, <1>5, <2>4
  <2>. QED  BY <2>2, <2>5, <2>6
<1>7. f[m] = g[m]
  BY <1>1, <1>6
<1>8. g[m + 1] = g[m] \o Item(x)
  <2>1. m + 1 \in 1..(m + 1) /\ (m + 1) - 1 = m
    BY <1>1
  <2>. QED  BY <1>1, <1>5, <2>1
<1>. QED  BY <1>2, <1>3, <1>7, <1>8 DEF longer

LEMMA NoTokens == Tokens(<<>>) = <<>>
<1>1. <<>> \in Seq({}) /\ Len(<<>>) = 0
  BY EmptySeq
<1>2. PICK f : Joins(f, <<>>) /\ Tokens(<<>>) = f[0]
  BY <1>1, TokensJoin
<1>. QED  BY <1>2 DEF Joins

\* What is printed, what of it is not JSON, and the reader before it.
Output == Formats \cup {"{", "}", ",", "dump", "text", "cut"}
Mixed  == {"dump", "text", "cut"}
Start0 == At(<<>>, {"{"})

\* Printing an item more.
LEMMA LeadsAppend ==
  ASSUME NEW items \in Seq(Output), NEW x \in Output, NEW t, NEW u,
         Leads(Start0, Tokens(items), t), Leads(t, Item(x), u)
  PROVE  Leads(Start0, Tokens(Append(items, x)), u)
<1>1. Tokens(Append(items, x)) = Tokens(items) \o Item(x)
  BY TokensAppend
<1>. QED  BY <1>1, LeadsOn

LEMMA PrintedMore ==
  ASSUME NEW items \in Seq(Output), NEW x \in Output
  PROVE  Append(items, x) \in Seq(Output) /\ ToSet(Append(items, x)) = ToSet(items) \cup {x}
<1> DEFINE longer == Append(items, x)
           m == Len(items)
<1>1. /\ longer \in Seq(Output) /\ Len(longer) = m + 1 /\ m \in Nat
      /\ \A i \in 1..m : longer[i] = items[i]
      /\ longer[m + 1] = x
  BY AppendProperties
<1>2. DOMAIN longer = 1..(m + 1) /\ DOMAIN items = 1..m
  <2> HIDE DEF longer
  <2>. QED  BY <1>1 DEF m
<1> HIDE DEF longer, m
<1>3. \A i \in 1..(m + 1) : i \in 1..m \/ i = m + 1
  BY <1>1
<1>4. \A i \in 1..m : i \in 1..(m + 1)
  BY <1>1
<1>5. m + 1 \in 1..(m + 1)
  BY <1>1
<1>6. ToSet(longer) = ToSet(items) \cup {x}
  BY <1>1, <1>2, <1>3, <1>4, <1>5 DEF ToSet
<1>. QED  BY <1>1, <1>6 DEF longer

\* A statistic's item in the object, as its first member or a further one.
LEMMA ItemIsMember == \A format \in Formats : IsMembers(Item(format))
BY FormatsAreValues, KeyedValue DEF Item

LEMMA Bracket ==
  ASSUME NEW x \in {"{", "}", ","} PROVE Item(x) = <<x>> /\ x \in Token /\ x \in Output
BY DEF Item, Token, Output, Formats

\* The table has a format for every tag it knows.
LEMMA FormatKnown == \A tag \in DOMAIN FormatOf : FormatOf[tag] \in Formats
<1> DEFINE D == UNION {{r.tag : r \in ToSet(Sections[i].records)} :
                       i \in {k \in DOMAIN Sections : Sections[k].offchip}}
           S(tag) == {k \in DOMAIN Sections : Records(k, tag) # {}}
           f(tag) == Sections[Min(S(tag))].records[Min(Records(Min(S(tag)), tag))].format
<1>1. FormatOf = [tag \in D |-> f(tag)]
  BY DEF FormatOf
<1>2. SUFFICES ASSUME NEW tag \in D PROVE f(tag) \in Formats
  <2> HIDE DEF D, f
  <2>. QED  BY <1>1
<1>3. /\ DOMAIN Sections \subseteq Nat
      /\ \A i \in DOMAIN Sections : DOMAIN Sections[i].records \subseteq Nat
  BY StatsAssumption
<1>4. \A T \in SUBSET Nat : T # {} => Min(T) \in T
  <2>1. SUFFICES ASSUME NEW T \in SUBSET Nat, T # {} PROVE Min(T) \in T
    OBVIOUS
  <2>2. \E x \in T : \A y \in T : x <= y
    BY <2>1, Smallest
  <2>. QED  BY <2>2 DEF Min
<1>5. S(tag) # {} /\ S(tag) \subseteq DOMAIN Sections
  BY DEF Records, ToSet
<1>6. Min(S(tag)) \in S(tag)
  <2> DEFINE T == S(tag)
  <2>1. T \in SUBSET Nat /\ T # {}
    BY <1>3, <1>5
  <2> HIDE DEF T
  <2>2. Min(T) \in T
    BY <1>4, <2>1
  <2>. QED  BY <2>2 DEF T
<1>7. PICK i : i = Min(S(tag)) /\ i \in DOMAIN Sections /\ Records(i, tag) # {}
  BY <1>6
<1>8. Records(i, tag) \subseteq DOMAIN Sections[i].records
  BY DEF Records
<1>9. Min(Records(i, tag)) \in Records(i, tag)
  BY <1>3, <1>4, <1>7, <1>8
<1>10. PICK j : j = Min(Records(i, tag)) /\ j \in DOMAIN Sections[i].records
  BY <1>8, <1>9
<1>11. Sections[i].records[j].format \in Formats
  BY <1>7, <1>10, StatsAssumption DEF ToSet
<1>. QED  BY <1>7, <1>10, <1>11

-------------------------------------------------------------------------------
\* The object that has been printed so far.

\* What the reader expects between two members, or before the first one.
Between == At(Inside("{", <<>>), IF first THEN {"key", "}"} ELSE {",", "}"})

Forming ==
  /\ out \in Seq(Output)
  /\ pc \in {"open", "load"} => out = <<>> /\ first
  /\ Json /\ ToSet(out) \cap Mixed = {} =>
       /\ pc \notin {"open", "load", "done"} => Leads(Start0, Tokens(out), Between)
       /\ pc = "done" /\ result = 0 => Leads(Start0, Tokens(out), At(<<>>, {"end"}))

\* With a statistic more nothing is lost.
LEMMA ShownKept ==
  ASSUME NEW items \in Seq(Output), NEW format \in Formats
  PROVE  /\ Append(items \o Separator, format) \in Seq(Output)
         /\ ToSet(items) \subseteq ToSet(Append(items \o Separator, format))
<1>1. format \in Output /\ "," \in Output
  BY DEF Output
<1>2. CASE first
  <2>1. items \o Separator = items
    BY <1>2, ConcatEmptySeq DEF Separator
  <2>. QED  BY <1>1, <2>1, PrintedMore
<1>3. CASE ~first
  <2> DEFINE more == Append(items, ",")
  <2>1. items \o Separator = more
    BY <1>1, <1>3, AppendIsConcat DEF Separator
  <2>2. more \in Seq(Output) /\ ToSet(items) \subseteq ToSet(more)
    BY <1>1, PrintedMore
  <2> HIDE DEF more
  <2>3. Append(more, format) \in Seq(Output) /\ ToSet(more) \subseteq ToSet(Append(more, format))
    BY <1>1, <2>2, PrintedMore
  <2>. QED  BY <2>1, <2>2, <2>3
<1>. QED  BY <1>2, <1>3

\* A statistic that is shown as a member.
LEMMA ShownMember ==
  ASSUME NEW items \in Seq(Output), NEW format \in Formats,
         Leads(Start0, Tokens(items), Between)
  PROVE  Leads(Start0, Tokens(Append(items \o Separator, format)),
               At(Inside("{", <<>>), {",", "}"}))
<1> DEFINE p == Inside("{", <<>>)
<1>1. format \in Output /\ <<>> \in Seq(Token)
  BY EmptySeq DEF Output
<1>2. \A m : "key" \in m => Leads(At(p, m), Item(format), At(p, {",", "}"}))
  BY <1>1, ItemIsMember DEF IsMembers
<1>3. CASE first
  <2>1. items \o Separator = items
    BY <1>3, ConcatEmptySeq DEF Separator
  <2>2. Leads(Start0, Tokens(items), At(p, {"key", "}"}))
    BY <1>3 DEF Between
  <2>3. Leads(At(p, {"key", "}"}), Item(format), At(p, {",", "}"}))
    BY <1>2
  <2> HIDE DEF p
  <2>4. Leads(Start0, Tokens(Append(items, format)), At(p, {",", "}"}))
    BY <1>1, <2>2, <2>3, LeadsAppend
  <2>. QED  BY <2>1, <2>4 DEF p
<1>4. CASE ~first
  <2> DEFINE more == Append(items, ",")
  <2>1. items \o Separator = more
    BY <1>4, AppendIsConcat DEF Separator, Output
  <2>2. Leads(Start0, Tokens(items), At(p, {",", "}"}))
    BY <1>4 DEF Between
  <2>3. Item(",") = <<",">> /\ "," \in Token /\ "," \in Output
    BY Bracket
  <2>4. Reader(At(p, {",", "}"}), ",") = At(p, {"key"})
    BY <1>1, ReaderInside
  <2>5. Leads(At(p, {"key"}), Item(format), At(p, {",", "}"}))
    BY <1>2
  <2> HIDE DEF p
  <2>6. Leads(At(p, {",", "}"}), Item(","), At(p, {"key"}))
    BY <2>3, <2>4, LeadsOne
  <2>7. Leads(Start0, Tokens(more), At(p, {"key"}))
    BY <2>2, <2>3, <2>6, LeadsAppend
  <2>8. more \in Seq(Output)
    BY <2>3, PrintedMore
  <2> HIDE DEF more
  <2>9. Leads(Start0, Tokens(Append(more, format)), At(p, {",", "}"}))
    BY <1>1, <2>5, <2>7, <2>8, LeadsAppend
  <2>. QED  BY <2>1, <2>9 DEF p
<1>. QED  BY <1>3, <1>4

\* Text, a dump and what is shown without JSON are printed too.
LEMMA ShownForming ==
  ASSUME Forming, NEW t, Show(t), opts' = opts, pc = "walk", pc' = "walk"
  PROVE  Forming'
<1>1. out \in Seq(Output) /\ Json' = Json
  BY DEF Forming, Json
<1>2. CASE ~Known(t.tag)
  <2>1. out' = Append(out, "dump") /\ "dump" \in Output
    BY <1>2 DEF Show, Output
  <2>2. out' \in Seq(Output) /\ ToSet(out') = ToSet(out) \cup {"dump"}
    BY <1>1, <2>1, PrintedMore
  <2>3. ToSet(out') \cap Mixed # {}
    BY <2>2 DEF Mixed
  <2>. QED  BY <2>2, <2>3 DEF Forming
<1>3. CASE Known(t.tag) /\ Filtered(t.tag)
  <2>1. out' = out /\ first' = first
    BY <1>3 DEF Show
  <2>2. Between' = Between
    BY <2>1 DEF Between
  <2>. QED  BY <1>1, <2>1, <2>2 DEF Forming
<1>4. CASE Known(t.tag) /\ ~Filtered(t.tag)
  <2> DEFINE format == FormatOf[t.tag]
  <2>1. /\ out' = Append(IF Json THEN out \o Separator ELSE out, format)
        /\ first' = (first /\ ~Json)
    BY <1>4 DEF Show
  <2>2. format \in Formats /\ format \in Output
    BY <1>4, FormatKnown DEF Known, Output
  <2> HIDE DEF format
  <2>3. CASE Json
    <3> DEFINE more == Append(out \o Separator, format)
    <3>1. out' = more /\ first' = FALSE
      BY <2>1, <2>3
    <3>2. more \in Seq(Output) /\ ToSet(out) \subseteq ToSet(more)
      BY <1>1, <2>2, ShownKept
    <3> HIDE DEF more
    <3>3. ASSUME ToSet(out') \cap Mixed = {}
          PROVE  Leads(Start0, Tokens(more), At(Inside("{", <<>>), {",", "}"}))
      <4>1. Leads(Start0, Tokens(out), Between)
        BY <2>3, <3>1, <3>2, <3>3 DEF Forming
      <4>. QED  BY <1>1, <2>2, <4>1, ShownMember DEF more
    <3>4. Between' = At(Inside("{", <<>>), {",", "}"})
      BY <3>1 DEF Between
    <3>. QED  BY <3>1, <3>2, <3>3, <3>4 DEF Forming
  <2>4. CASE ~Json
    <3>1. out' \in Seq(Output)
      BY <1>1, <2>1, <2>2, <2>4, AppendProperties
    <3>. QED  BY <1>1, <2>4, <3>1 DEF Forming
  <2>. QED  BY <2>3, <2>4
<1>. QED  BY <1>2, <1>3, <1>4

\* What prints nothing.
LEMMA SameForming ==
  ASSUME Forming, out' = out, first' = first, opts' = opts,
         \/ pc' = pc /\ result' = result
         \/ pc = "open" /\ pc' = "load"
         \/ pc' = "done" /\ result' # 0
         \/ pc \notin {"open", "load", "done"} /\ pc' \notin {"open", "load", "done"}
  PROVE  Forming'
<1>1. Between' = Between /\ Json' = Json
  BY DEF Between, Json
<1>. QED  BY <1>1 DEF Forming

\* The object's brackets.
LEMMA LoadForming ==
  ASSUME Forming, Load PROVE Forming'
<1>1. pc = "load" /\ opts' = opts /\ first' = first /\ out = <<>> /\ first
  BY DEF Load, Forming
<1>2. CASE ~opts.file
  BY <1>1, <1>2, SameForming DEF Load, Done
<1>3. CASE opts.file
  <2>1. out' = (IF Json THEN <<"{">> ELSE <<>>) /\ pc' = "core" /\ Json' = Json
    BY <1>1, <1>3 DEF Load, Json
  <2>2. Item("{") = <<"{">> /\ "{" \in Token /\ "{" \in Output
    BY Bracket
  <2>3. out' \in Seq(Output)
    BY <2>1, <2>2, EmptySeq, Single
  <2>4. Leads(Start0, Item("{"), At(Inside("{", <<>>), {"key", "}"}))
    <3>1. Reader(Start0, "{") = At(Inside("{", <<>>), {"key", "}"})
      BY EmptySeq, ReaderIs DEF Start0
    <3>. QED  BY <2>2, <3>1, LeadsOne
  <2>5. Leads(Start0, Tokens(<<>>), Start0)
    BY NoTokens, <2>2, ScanOne, EmptySeq DEF Leads
  <2>6. Leads(Start0, Tokens(Append(<<>>, "{")), At(Inside("{", <<>>), {"key", "}"}))
    BY <2>2, <2>4, <2>5, EmptySeq, LeadsAppend
  <2>7. <<"{">> = Append(<<>>, "{")
    OBVIOUS
  <2>8. Between' = At(Inside("{", <<>>), {"key", "}"})
    BY <1>1 DEF Between
  <2>9. Json => Leads(Start0, Tokens(out'), Between')
    BY <2>1, <2>6, <2>7, <2>8
  <2>. QED  BY <2>1, <2>3, <2>9 DEF Forming
<1>. QED  BY <1>2, <1>3

LEMMA CoreForming ==
  ASSUME Forming, NextCore PROVE Forming'
<1>1. pc = "core" /\ opts' = opts /\ first' = first /\ out \in Seq(Output)
  BY DEF NextCore, Forming
<1>2. CASE ~(core > Len(Cores))
  BY <1>1, <1>2, SameForming DEF NextCore
<1>3. CASE core > Len(Cores)
  <2>1. out' = (IF Json THEN Append(out, "}") ELSE out) /\ pc' = "done" /\ Json' = Json
    BY <1>1, <1>3 DEF NextCore, Done, Json
  <2>2. Item("}") = <<"}">> /\ "}" \in Token /\ "}" \in Output
    BY Bracket
  <2>3. out' \in Seq(Output) /\ ToSet(out) \subseteq ToSet(out')
    BY <1>1, <2>1, <2>2, PrintedMore
  <2>4. ASSUME Json, ToSet(out') \cap Mixed = {}
        PROVE  Leads(Start0, Tokens(out'), At(<<>>, {"end"}))
    <3> DEFINE m == IF first THEN {"key", "}"} ELSE {",", "}"}
    <3>1. Leads(Start0, Tokens(out), Between) /\ Between = At(Inside("{", <<>>), m)
      BY <1>1, <2>3, <2>4 DEF Forming, Between
    <3>2. "}" \in m
      OBVIOUS
    <3> HIDE DEF m
    <3>3. Reader(At(Inside("{", <<>>), m), "}") = At(<<>>, After(<<>>))
      BY <3>2, EmptySeq, ReaderInside
    <3>4. After(<<>>) = {"end"}
      BY DEF After
    <3>5. Leads(Between, Item("}"), At(<<>>, {"end"}))
      BY <2>2, <3>1, <3>3, <3>4, LeadsOne
    <3>6. Leads(Start0, Tokens(Append(out, "}")), At(<<>>, {"end"}))
      BY <1>1, <2>2, <3>1, <3>5, LeadsAppend
    <3>. QED  BY <2>1, <2>4, <3>6
  <2>. QED  BY <2>1, <2>3, <2>4 DEF Forming
<1>. QED  BY <1>2, <1>3

LEMMA StepForming ==
  ASSUME Forming, [Next]_vars PROVE Forming'
<1>1. out \in Seq(Output)
  BY DEF Forming
<1>2. CASE Start
  BY <1>2, SameForming DEF Start, Done, shows
<1>3. CASE Alloc
  BY <1>3, SameForming DEF Alloc, Done, shows
<1>4. CASE Query \/ QueryAgain
  BY <1>4, SameForming DEF Query, QueryAgain, Issue
<1>5. CASE Transport
  BY <1>5, SameForming DEF Transport, shows
<1>6. CASE Answered
  <2>1. pc = "await" /\ pc' \in {"resend", "next", "walk"} /\ out' = out /\ first' = first /\ opts' = opts
    BY <1>6 DEF Answered, shows
  <2>. QED  BY <2>1, SameForming
<1>7. CASE AnsweredOld
  <2>1. pc = "await_old" /\ pc' = "next" /\ first' = first /\ opts' = opts
    BY <1>7 DEF AnsweredOld
  <2>2. CASE out' = out
    BY <2>1, <2>2, SameForming
  <2>3. CASE out' = Append(out, TextReceived)
    <3>1. TextReceived \in Mixed /\ TextReceived \in Output
      BY DEF TextReceived, Mixed, Output
    <3>2. out' \in Seq(Output) /\ ToSet(out') = ToSet(out) \cup {TextReceived}
      BY <1>1, <2>3, <3>1, PrintedMore
    <3>. QED  BY <2>1, <3>1, <3>2 DEF Forming
  <2>. QED  BY <1>7, <2>2, <2>3 DEF AnsweredOld
<1>8. CASE Leave
  <2>1. /\ pc = "next" /\ out' = out /\ first' = first /\ opts' = opts
        /\ (pc' = "done" /\ result' # 0) \/ pc' = "core"
    BY <1>8 DEF Leave, shows
  <2>. QED  BY <2>1, SameForming
<1>9. CASE Walk
  <2>1. CASE pc' = "next" /\ UNCHANGED shows
    BY <1>9, <2>1, SameForming DEF Walk, shows
  <2>2. CASE pc' = pc /\ \E t \in Headers : Show(t)
    BY <1>9, <2>2, ShownForming DEF Walk
  <2>. QED  BY <1>9, <2>1, <2>2 DEF Walk
<1>10. CASE UNCHANGED vars
  BY <1>10, SameForming DEF vars, shows
<1>. QED
  BY <1>2, <1>3, <1>4, <1>5, <1>6, <1>7, <1>8, <1>9, <1>10, LoadForming, CoreForming
  DEF Next, Handler, Finished

\* Whatever the answers and formats, with -j the members of all cores together make one
\* JSON object if the command succeeds (stats_format_json.c, load_offchip_statistics and
\* stats()).
THEOREM JsonIsWhole == Spec => []JsonWellFormed
<1>1. Init => Forming
  <2>1. Init => pc = "open" /\ out = <<>> /\ first
    BY DEF Init
  <2>. QED  BY <2>1, EmptySeq DEF Forming
<1>2. Forming /\ [Next]_vars => Forming'
  BY StepForming
<1>3. Forming => JsonWellFormed
  <2>1. ASSUME Forming, pc = "done", result = 0, Json, ToSet(out) \cap Mixed = {}
        PROVE  IsJsonObject(Tokens(out))
    <3>1. Leads(Start0, Tokens(out), At(<<>>, {"end"}))
      BY <2>1 DEF Forming
    <3>. QED  BY <3>1 DEF Leads, Start0, At, IsJsonObject
  <2>. QED  BY <2>1 DEF JsonWellFormed, Mixed
<1>. QED  BY <1>1, <1>2, <1>3, PTL DEF Spec

===============================================================================
