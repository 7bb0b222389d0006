---------------------------- MODULE ArgumentsProofs ----------------------------
(***************************************************************************)
(* Proofs about module Arguments, for every set of command lines and every *)
(* reading of their numerals.                                              *)
(*                                                                         *)
(* arg_parse goes over a line twice, with scans for its command in         *)
(* between; Meaning reads it once.  The readings After(n) of its first n   *)
(* arguments are what the two have in common: the invariant says, for each *)
(* pass and each place in the line, what has been found in terms of the    *)
(* reading up to there.  Sound says what a table must be like, and the     *)
(* tables of main and of `raw` are shown to be so.                         *)
(*                                                                         *)
(* What is sent rests on that and on a second invariant: that what stands  *)
(* behind the word that stops main's parse is the command's line, and that *)
(* a loop over getopt, wherever it is in that line, has found what the     *)
(* reading up to there says, a second bound of mpsw apart.                 *)
(***************************************************************************)
EXTENDS Arguments, FiniteSetTheorems, WellFoundedInduction, TLAPS

-------------------------------------------------------------------------------
(* Arguments: what the parse has found against what the line means.            *)

Syllables == STRING \ {""}

Args == Seq(Syllables)

\* The readings of the line being parsed, and what Right and ValuesOf look at.
After(n) == Readings(table, vector, {})[n]

Mean == Meaning(table, vector)

\* What arg_parse is right about, for any table that is like this.
Sound(tbl) ==
  /\ Len(tbl) \in Nat /\ DOMAIN tbl = 1..Len(tbl)
  /\ \A i \in DOMAIN tbl :
       /\ tbl[i].max = 1
       /\ tbl[i].min = IF Untagged(tbl[i]) THEN 1 ELSE 0
       /\ tbl[i].stop => /\ Untagged(tbl[i]) /\ tbl[i].kind = "str"
                         /\ \A j \in DOMAIN tbl : Untagged(tbl[j]) => j = i

\* What has been read of a line.
Reads(tbl, acc) ==
  /\ acc \in [wait : 0..Len(tbl), full : BOOLEAN, over : BOOLEAN, bad : BOOLEAN,
              words : Seq(Args), args : [DOMAIN tbl -> Seq(Args)]]
  /\ acc.wait # 0 => ~Untagged(tbl[acc.wait]) /\ HasValue(tbl[acc.wait]) /\ ~acc.over
  /\ ~acc.over => acc.words = <<>>
  /\ \A i \in DOMAIN tbl : Untagged(tbl[i]) => acc.args[i] = <<>>

\* An option may follow.
Ready(acc) == ~acc.bad /\ acc.wait = 0 /\ ~acc.over

\* What has been read is more.
Grows(tbl, a, b) ==
  /\ a.bad => b.bad
  /\ \/ b.bad
     \/ \A i \in DOMAIN tbl : /\ Len(a.args[i]) <= Len(b.args[i])
                              /\ \A k \in 1..Len(a.args[i]) : b.args[i][k] = a.args[i][k]

\* An option that is unknown, comes twice or has a value that is none of its kind.
Fails(tbl, acc) ==
  \/ acc.bad
  \/ \E i \in DOMAIN tbl :
       /\ ~Untagged(tbl[i])
       /\ \/ Len(acc.args[i]) > 1
          \/ \E k \in 1..Len(acc.args[i]) : Scan(tbl[i], 0, acc.args[i][k]).error # ""

\* The value found for an entry is that of its argument.
Match(e, values, args) ==
  \/ values = <<>> /\ args = <<>>
  \/ /\ Len(args) = 1 /\ Scan(e, 0, args[1]).error = ""
     /\ values = <<Scan(e, 0, args[1]).value>>

Matches(tbl, g, args) == \A i \in DOMAIN tbl : Match(tbl[i], g[i], args[i])

\* The first q letters of a group are options without a value.
AllFlags(tbl, letters, q) ==
  \A k \in 1..q : /\ ShortOption(tbl, letters[k]) # 0
                  /\ ~HasValue(tbl[ShortOption(tbl, letters[k])])

Part(tbl, acc, letters, q) == GiveAll(tbl, acc, SubSeq(letters, 1, q))

\* Of argument o, a group, the letters from j on are left.
Group(o, p, j) ==
  /\ o < limit /\ IsOption(vector[o + 1]) /\ vector[o + 1][2] # "-"
  /\ j \in 3..Len(vector[o + 1]) /\ p = SubSeq(vector[o + 1], j, Len(vector[o + 1]))

\* With p left of argument o the line is still good, and a are the arguments read so far.
On(o, p, a) ==
  /\ o <= limit /\ Ready(After(o - 1))
  /\ \/ p = <<>> /\ a = After(o - 1).args
     \/ \E j \in Nat : /\ Group(o, p, j) /\ AllFlags(table, Tail(vector[o + 1]), j - 2)
                       /\ a = Part(table, After(o - 1), Tail(vector[o + 1]), j - 2).args

\* The parse is behind what makes the line a bad one.
Off(o, p) ==
  \/ p = <<>> /\ After(o - 1).bad
  \/ p = <<>> /\ After(o - 1).wait # 0 /\ o = Len(vector)
  \/ After(o).bad /\ \E j \in Nat : Group(o, p, j)

\* As the first pass ends with e.
Ends(e) ==
  \/ e = Len(vector)
  \/ After(e - 1).bad
  \/ After(e - 1).wait = 0 /\ (After(e - 1).over \/ ~IsOption(vector[e + 1]))

\* As far as the second pass goes.
Edge ==
  limit = Len(vector) \/ (limit > 1 /\ Ends(limit - 1) /\ \E i \in DOMAIN table : table[i].stop)

\* All options have been found, words begin after argument e.
Tagged(e, g) ==
  /\ ~Mean.bad /\ Mean.wait = 0
  /\ Mean.words = [k \in 1..(Len(vector) - e) |-> vector[e + k]]
  /\ e \in 1..Len(vector)
  /\ limit = Len(vector) \/ (e < limit /\ \E i \in DOMAIN table : table[i].stop)
  /\ \A i \in DOMAIN table : ~Untagged(table[i]) => Match(table[i], g[i], Mean.args[i])

\* Entry i has the word that is its.
Filled(i, e, g) ==
  /\ Words(table, i) <= Len(vector) - e
  /\ Scan(table[i], 0, vector[e + Words(table, i)]).error = ""
  /\ g[i] = <<Scan(table[i], 0, vector[e + Words(table, i)]).value>>

Fits == Right(table, vector)

\* The entries before t have their words, the next one is at o.
Placed(e, o, t, g) ==
  /\ Tagged(e, g)
  /\ \A i \in DOMAIN table : Untagged(table[i]) =>
       /\ i < t => Filled(i, e, g)
       /\ i > t => g[i] = <<>>
       /\ i = t => \/ g[i] = <<>> /\ o = e + Words(table, t - 1)
                   \/ Filled(i, e, g) /\ o = e + Words(table, t)
  /\ (t > Len(table) \/ ~Untagged(table[t])) => o = e + Words(table, t - 1)
  /\ \A i \in DOMAIN table : table[i].stop => t <= i /\ g[i] = <<>>

\* Some entry has no word, as it should.
Missing(t, g) ==
  ~Fits /\ \E i \in DOMAIN table : Untagged(table[i]) /\ i < t /\ g[i] = <<>>

Lacking(g) == \E i \in DOMAIN table : Len(g[i]) < table[i].min

\* With these values the line is right, or it is not and arg_parse_check finds that out.
Accepts(g) == Fits /\ g = ValuesOf(table, vector) /\ ~Lacking(g)

Rejects(g) == ~Fits /\ Lacking(g)

\* The types of the parse.
ParseTyped ==
  /\ Sound(table)
  /\ vector \in Seq(Args) /\ vector # <<>>
  /\ \A k \in DOMAIN vector : ~Dashed(vector[k])
  /\ pass \in {"tagged", "find", "again", "untagged", "check", "done"}
  /\ optind \in 1..Len(vector) /\ limit \in 1..Len(vector) /\ idx \in 0..(Len(vector) - 1)
  /\ place \in Args /\ (place # <<>> => optind < limit)
  /\ tab \in 1..(Len(table) + 1)
  /\ got = [i \in DOMAIN table |-> got[i]]
  /\ errors \in Nat

ParseInv ==
  /\ ParseTyped
  /\ Tagging => \A i \in DOMAIN table : Untagged(table[i]) => got[i] = <<>>
  /\ pass \in {"tagged", "find"} => limit = Len(vector)
  /\ pass \in {"find", "untagged", "check", "done"} => place = <<>>
  /\ pass = "tagged" => Off(optind, place) \/ \E a : On(optind, place, a)
  /\ pass = "find" => \A i \in DOMAIN table : table[i].stop =>
                        Ends(optind) /\ tab <= i /\ got[i] = <<>>
  /\ pass = "again" => Edge
  /\ pass = "again" /\ errors = 0 => \E a : On(optind, place, a) /\ Matches(table, got, a)
  /\ pass \in {"again", "untagged", "check", "done"} /\ errors # 0 => ~Fits
  /\ pass = "untagged" /\ errors = 0 => 
       Missing(tab, got) \/ \E e \in 1..Len(vector) : Placed(e, optind, tab, got)
  /\ pass = "check" /\ errors = 0 => Accepts(got) \/ Rejects(got)
  /\ pass = "done" /\ errors = 0 => Fits /\ got = ValuesOf(table, vector)

ParsingInv ==
  /\ argv \in Lines
  /\ stage \in {"main", "sub"} /\ NoDashes =>
       /\ ParseInv
       /\ stage = "main" => vector = argv

-------------------------------------------------------------------------------
\* Numbers, sequences and sets.

\* A set of numbers has a smallest one.
LEMMA Smallest ==
  ASSUME NEW S \in SUBSET Nat, S # {} PROVE \E x \in S : \A y \in S : x <= y
<1>1. PICK x \in S : \A y \in S : <<y, x>> \notin OpToRel(<, Nat)
  BY WFMin, NatLessThanWellFounded, Zenon
<1>2. \A y \in S : ~(y < x)
  BY <1>1 DEF OpToRel
<1>. QED  BY <1>2

\* What is so at first and goes on from each number to the next is so for all.
LEMMA Onwards ==
  ASSUME NEW S, 0 \in S, \A n \in Nat : n \in S => n + 1 \in S
  PROVE  Nat \subseteq S
<1>1. SUFFICES ASSUME Nat \ S # {} PROVE FALSE
  OBVIOUS
<1>2. Nat \ S \in SUBSET Nat
  OBVIOUS
<1>3. PICK x \in Nat \ S : \A y \in Nat \ S : x <= y
  <2> DEFINE T == Nat \ S
  <2> HIDE DEF T
  <2>. QED  BY <1>1, <1>2, Smallest DEF T
<1>4. x # 0 /\ x - 1 \in Nat
  BY <1>3
<1>5. x - 1 \in S
  BY <1>3, <1>4
<1>. QED  BY <1>3, <1>4, <1>5

\* The entries of a table that a letter, or a name, stands for.
LEMMA ShortOptionIs ==
  ASSUME NEW tbl, NEW letter, Len(tbl) \in Nat, DOMAIN tbl = 1..Len(tbl), ShortOption(tbl, letter) # 0
  PROVE  /\ ShortOption(tbl, letter) \in DOMAIN tbl
         /\ tbl[ShortOption(tbl, letter)].short = letter
<1> DEFINE is == {i \in DOMAIN tbl : tbl[i].short = letter}
<1>1. is \in SUBSET Nat
  OBVIOUS
<1>2. is # {}
  BY DEF ShortOption
<1> HIDE DEF is
<1>3. \E i \in is : \A j \in is : i <= j
  BY <1>1, <1>2, Smallest
<1>4. ShortOption(tbl, letter) = CHOOSE i \in is : \A j \in is : i <= j
  BY <1>2 DEF ShortOption, is
<1>5. ShortOption(tbl, letter) \in is
  BY <1>3, <1>4
<1>. QED  BY <1>5 DEF is

\* A letter that is no empty syllable stands for no untagged entry.
LEMMA LetterTags ==
  ASSUME NEW tbl, NEW letter \in STRING \ {""}, Len(tbl) \in Nat, DOMAIN tbl = 1..Len(tbl),
         ShortOption(tbl, letter) # 0
  PROVE  ~Untagged(tbl[ShortOption(tbl, letter)])
BY ShortOptionIs DEF Untagged

LEMMA LongMatchIs ==
  ASSUME NEW tbl, NEW name, Cardinality(LongMatches(tbl, name)) = 1,
         NEW i, i = CHOOSE j \in LongMatches(tbl, name) : TRUE
  PROVE  i \in DOMAIN tbl /\ ~Untagged(tbl[i])
<1>1. LongMatches(tbl, name) # {}
  BY FS_EmptySet
<1>2. i \in LongMatches(tbl, name)
  BY <1>1
<1>3. i \in DOMAIN tbl /\ tbl[i].long # <<>>
  BY <1>2 DEF LongMatches, LongOptions
<1>. QED  BY <1>3 DEF Untagged

\* Parts of an argument are arguments.
LEMMA Cut ==
  ASSUME NEW s \in Args, NEW m \in Nat \ {0}, NEW n \in Nat, n <= Len(s)
  PROVE  /\ SubSeq(s, m, n) \in Args
         /\ Len(SubSeq(s, m, n)) = IF m <= n THEN n - m + 1 ELSE 0
         /\ \A k \in 1..(n - m + 1) : SubSeq(s, m, n)[k] = s[m + k - 1]
BY DEF Args

LEMMA ArgLength == ASSUME NEW s \in Args PROVE Len(s) \in Nat /\ (Len(s) = 0 <=> s = <<>>)
BY DEF Args

LEMMA NameTyped ==
  ASSUME NEW arg \in Args, Len(arg) > 2
  PROVE  NameOf(arg) \in Args /\ EqualValue(arg) \in Args /\ (~HasEqual(arg) => EqualValue(arg) = <<>>)
<1> DEFINE eq == {i \in 3..Len(arg) : arg[i] = "="}
<1>1. CASE eq = {}
  <2>1. NameOf(arg) = SubSeq(arg, 3, Len(arg))
    BY <1>1 DEF NameOf
  <2>2. NameOf(arg) \in Args /\ Len(NameOf(arg)) = Len(arg) - 2
    <3>1. Len(arg) \in Nat /\ 3 \in Nat \ {0} /\ Len(arg) <= Len(arg) /\ 3 <= Len(arg)
      BY ArgLength
    <3>2. SubSeq(arg, 3, Len(arg)) \in Args /\ Len(SubSeq(arg, 3, Len(arg))) = Len(arg) - 3 + 1
      BY <3>1, Cut
    <3>. QED  BY <2>1, <3>1, <3>2
  <2>3. EqualValue(arg) \in Args /\ Len(EqualValue(arg)) = 0
    <3>1. EqualValue(arg) = SubSeq(arg, Len(arg) + 2, Len(arg))
      <4>1. Len(NameOf(arg)) + 4 = Len(arg) + 2
        BY <2>2, ArgLength
      <4>. QED  BY <4>1 DEF EqualValue
    <3>2. Len(arg) \in Nat /\ Len(arg) + 2 \in Nat \ {0} /\ ~(Len(arg) + 2 <= Len(arg))
      BY ArgLength
    <3>3. SubSeq(arg, Len(arg) + 2, Len(arg)) \in Args /\ Len(SubSeq(arg, Len(arg) + 2, Len(arg))) = 0
      BY <3>2, Cut
    <3>. QED  BY <3>1, <3>3
  <2>4. EqualValue(arg) = <<>>
    BY <2>3, ArgLength
  <2>. QED  BY <2>2, <2>3, <2>4
<1>2. CASE eq # {}
  <2>1. eq \in SUBSET Nat
    BY DEF Args
  <2>2. \E i \in eq : \A j \in eq : i <= j
    <3> HIDE DEF eq
    <3>. QED  BY <1>2, <2>1, Smallest
  <2>3. PICK i \in eq : i = CHOOSE x \in eq : \A y \in eq : x <= y
    <3> HIDE DEF eq
    <3>. QED  BY <2>2
  <2>4. NameOf(arg) = SubSeq(arg, 3, i - 1) /\ i \in 3..Len(arg)
    BY <1>2, <2>3 DEF NameOf
  <2>5. NameOf(arg) \in Args /\ Len(NameOf(arg)) \in Nat
    BY <2>4, Cut, ArgLength
  <2>6. EqualValue(arg) \in Args
    BY <2>5, Cut, ArgLength DEF EqualValue
  <2>7. HasEqual(arg)
    BY <1>2 DEF HasEqual
  <2>. QED  BY <2>5, <2>6, <2>7
<1>. QED  BY <1>1, <1>2

-------------------------------------------------------------------------------
\* What reading one argument does.

\* The arguments of two readings, entry by entry.
\* r is acc, with one more argument of entry i.
Gives(acc, i, v, r) ==
  /\ r.args = [acc.args EXCEPT ![i] = Append(@, v)]
  /\ r.bad = acc.bad /\ r.over = acc.over /\ r.wait = acc.wait /\ r.full = acc.full
  /\ r.words = acc.words

LEMMA GiveIs ==
  ASSUME NEW tbl, Sound(tbl), NEW acc, Reads(tbl, acc), NEW i \in DOMAIN tbl, ~Untagged(tbl[i]), NEW v \in Args
  PROVE  Reads(tbl, Give(acc, i, v)) /\ Gives(acc, i, v, Give(acc, i, v))
<1> DEFINE more == [acc.args EXCEPT ![i] = Append(@, v)]
<1>1. acc.args \in [DOMAIN tbl -> Seq(Args)] /\ Append(acc.args[i], v) \in Seq(Args)
  BY DEF Reads
<1>2. more \in [DOMAIN tbl -> Seq(Args)] /\ \A j \in DOMAIN tbl : j # i => more[j] = acc.args[j]
  BY <1>1
<1>3. Give(acc, i, v) = [acc EXCEPT !.args = more]
  BY DEF Give
<1> HIDE DEF more
<1>4. /\ Reads(tbl, Give(acc, i, v)) /\ Give(acc, i, v).args = more
      /\ Give(acc, i, v).bad = acc.bad /\ Give(acc, i, v).over = acc.over
      /\ Give(acc, i, v).wait = acc.wait /\ Give(acc, i, v).full = acc.full
      /\ Give(acc, i, v).words = acc.words
  BY <1>2, <1>3 DEF Reads
<1>. QED  BY <1>4 DEF more, Gives

LEMMA SpoiltIs ==
  ASSUME NEW tbl, NEW acc, Reads(tbl, acc)
  PROVE  /\ Reads(tbl, Spoilt(acc)) /\ Spoilt(acc).bad
         /\ Spoilt(acc).args = acc.args /\ Spoilt(acc).over = acc.over /\ Spoilt(acc).wait = acc.wait
BY DEF Reads, Spoilt

\* r is acc, with the value of entry i awaited.
Awaits(acc, i, full, r) ==
  /\ r.args = acc.args /\ r.bad = acc.bad /\ r.over = acc.over
  /\ r.wait = i /\ r.full = full /\ r.words = acc.words

LEMMA Awaited ==
  ASSUME NEW tbl, NEW acc, Reads(tbl, acc), NEW full \in BOOLEAN, NEW i \in 0..Len(tbl),
         i # 0 => ~Untagged(tbl[i]) /\ HasValue(tbl[i]) /\ ~acc.over
  PROVE  Reads(tbl, Await(acc, i, full)) /\ Awaits(acc, i, full, Await(acc, i, full))
<1>1. /\ Reads(tbl, Await(acc, i, full))
      /\ Await(acc, i, full).args = acc.args /\ Await(acc, i, full).bad = acc.bad
      /\ Await(acc, i, full).over = acc.over /\ Await(acc, i, full).wait = i
      /\ Await(acc, i, full).full = full /\ Await(acc, i, full).words = acc.words
  BY DEF Reads, Await
<1>. QED  BY <1>1 DEF Awaits

LEMMA AwaitIs ==
  ASSUME NEW tbl, Sound(tbl), NEW acc, Reads(tbl, acc), NEW full \in BOOLEAN,
         NEW i \in DOMAIN tbl, ~Untagged(tbl[i]) /\ HasValue(tbl[i]) /\ ~acc.over
  PROVE  Reads(tbl, Await(acc, i, full)) /\ Awaits(acc, i, full, Await(acc, i, full))
<1>1. i \in 0..Len(tbl)
  BY DEF Sound
<1>. QED  BY <1>1, Awaited

LEMMA AwaitNone ==
  ASSUME NEW tbl, Sound(tbl), NEW acc, Reads(tbl, acc)
  PROVE  Reads(tbl, Await(acc, 0, FALSE)) /\ Awaits(acc, 0, FALSE, Await(acc, 0, FALSE))
<1>1. 0 \in 0..Len(tbl) /\ FALSE \in BOOLEAN /\ (0 # 0 => ~Untagged(tbl[0]) /\ HasValue(tbl[0]) /\ ~acc.over)
  BY DEF Sound
<1>. QED  BY <1>1, Awaited, Zenon

\* More arguments of one entry.
LEMMA GiveGrows ==
  ASSUME NEW tbl, Sound(tbl), NEW acc, Reads(tbl, acc), NEW i \in DOMAIN tbl, NEW v \in Args,
         NEW b, b.bad = acc.bad, b.args = [acc.args EXCEPT ![i] = Append(@, v)]
  PROVE  Grows(tbl, acc, b)
<1>1. acc.args \in [DOMAIN tbl -> Seq(Args)]
  BY DEF Reads
<1>2. \A j \in DOMAIN tbl : b.args[j] = IF j = i THEN Append(acc.args[j], v) ELSE acc.args[j]
  BY <1>1
<1>3. \A j \in DOMAIN tbl : /\ Len(acc.args[j]) <= Len(b.args[j])
                            /\ \A k \in 1..Len(acc.args[j]) : b.args[j][k] = acc.args[j][k]
  BY <1>1, <1>2
<1>. QED  BY <1>3 DEF Grows

LEMMA SameGrows ==
  ASSUME NEW tbl, NEW acc, Reads(tbl, acc), NEW b, b.args = acc.args, acc.bad => b.bad
  PROVE  Grows(tbl, acc, b)
BY DEF Grows, Reads

LEMMA GrowsOn ==
  ASSUME NEW tbl, NEW a, NEW b, NEW c, Reads(tbl, a), Reads(tbl, b), Reads(tbl, c),
         Grows(tbl, a, b), Grows(tbl, b, c)
  PROVE  Grows(tbl, a, c)
<1>1. a.args \in [DOMAIN tbl -> Seq(Args)] /\ b.args \in [DOMAIN tbl -> Seq(Args)] /\ c.args \in [DOMAIN tbl -> Seq(Args)]
  BY DEF Reads
<1>2. CASE b.bad \/ c.bad
  BY <1>2 DEF Grows
<1>3. CASE ~b.bad /\ ~c.bad
  <2>1. SUFFICES ASSUME NEW i \in DOMAIN tbl
                 PROVE  /\ Len(a.args[i]) <= Len(c.args[i])
                        /\ \A k \in 1..Len(a.args[i]) : c.args[i][k] = a.args[i][k]
    BY <1>3 DEF Grows
  <2>2. /\ Len(a.args[i]) <= Len(b.args[i]) /\ Len(b.args[i]) <= Len(c.args[i])
        /\ \A k \in 1..Len(a.args[i]) : b.args[i][k] = a.args[i][k]
        /\ \A k \in 1..Len(b.args[i]) : c.args[i][k] = b.args[i][k]
    BY <1>3 DEF Grows
  <2>3. Len(a.args[i]) \in Nat /\ Len(b.args[i]) \in Nat /\ Len(c.args[i]) \in Nat
    BY <1>1
  <2> DEFINE x == a.args[i]
             y == b.args[i]
             z == c.args[i]
  <2> HIDE DEF x, y, z
  <2>4. /\ Len(x) \in Nat /\ Len(y) \in Nat /\ Len(z) \in Nat /\ Len(x) <= Len(y) /\ Len(y) <= Len(z)
        /\ \A k \in 1..Len(x) : y[k] = x[k]
        /\ \A k \in 1..Len(y) : z[k] = y[k]
    BY <2>2, <2>3 DEF x, y, z
  <2>5. Len(x) <= Len(z) /\ \A k \in 1..Len(x) : z[k] = x[k]
    BY <2>4
  <2>. QED  BY <2>5 DEF x, z
<1>. QED  BY <1>2, <1>3

\* What fails goes on failing.
LEMMA FailsOn ==
  ASSUME NEW tbl, NEW a, NEW b, Reads(tbl, a), Reads(tbl, b), Grows(tbl, a, b), Fails(tbl, a)
  PROVE  Fails(tbl, b)
<1>1. CASE b.bad
  BY <1>1 DEF Fails
<1>2. CASE ~b.bad
  <2>1. PICK i \in DOMAIN tbl :
          /\ ~Untagged(tbl[i])
          /\ \/ Len(a.args[i]) > 1
             \/ \E k \in 1..Len(a.args[i]) : Scan(tbl[i], 0, a.args[i][k]).error # ""
    BY <1>2 DEF Fails, Grows
  <2>2. /\ Len(a.args[i]) <= Len(b.args[i])
        /\ \A k \in 1..Len(a.args[i]) : b.args[i][k] = a.args[i][k]
    BY <1>2 DEF Grows
  <2>3. Len(a.args[i]) \in Nat /\ Len(b.args[i]) \in Nat
    BY DEF Reads
  <2> DEFINE x == a.args[i]
             y == b.args[i]
             wrong(v) == Scan(tbl[i], 0, v).error # ""
  <2>4. /\ Len(x) \in Nat /\ Len(y) \in Nat /\ Len(x) <= Len(y)
        /\ \A k \in 1..Len(x) : y[k] = x[k]
        /\ Len(x) > 1 \/ \E k \in 1..Len(x) : wrong(x[k])
    BY <2>1, <2>2, <2>3
  <2>5. Len(y) > 1 \/ \E k \in 1..Len(y) : wrong(y[k])
    <3> HIDE DEF x, y, wrong
    <3>. QED  BY <2>4
  <2>. QED  BY <2>1, <2>5 DEF Fails
<1>. QED  BY <1>1, <1>2

LEMMA LastLetterIs ==
  ASSUME NEW tbl, NEW letters \in Args, NEW k, k = LastLetter(tbl, letters)
  PROVE  /\ k \in 1..(Len(letters) + 1) /\ AllFlags(tbl, letters, k - 1)
         /\ k <= Len(letters) => \/ ShortOption(tbl, letters[k]) = 0
                                 \/ HasValue(tbl[ShortOption(tbl, letters[k])])
<1> DEFINE ends(j) == ShortOption(tbl, letters[j]) = 0 \/ HasValue(tbl[ShortOption(tbl, letters[j])])
           ks == {j \in DOMAIN letters : ends(j)}
<1>1. DOMAIN letters = 1..Len(letters) /\ Len(letters) \in Nat
  BY DEF Args
<1>2. k = IF ks = {} THEN Len(letters) + 1 ELSE CHOOSE x \in ks : \A j \in ks : x <= j
  BY DEF LastLetter
<1>3. (\A j \in 1..(k - 1) : ~ends(j)) <=> AllFlags(tbl, letters, k - 1)
  BY DEF AllFlags
<1>4. CASE ks = {}
  <2>1. k = Len(letters) + 1 /\ \A j \in 1..Len(letters) : ~ends(j)
    BY <1>1, <1>2, <1>4
  <2> HIDE DEF ends
  <2>. QED  BY <1>1, <1>3, <2>1
<1>5. CASE ks # {}
  <2>1. ks \in SUBSET Nat
    BY <1>1
  <2>2. \E x \in ks : \A j \in ks : x <= j
    <3> HIDE DEF ks
    <3>. QED  BY <1>5, <2>1, Smallest
  <2>3. k \in ks /\ \A j \in ks : k <= j
    <3> HIDE DEF ks
    <3>. QED  BY <1>2, <1>5, <2>2
  <2>4. k \in 1..Len(letters) /\ ends(k) /\ \A j \in 1..Len(letters) : ends(j) => k <= j
    BY <1>1, <2>3
  <2>5. \A j \in 1..(k - 1) : ~ends(j)
    <3> HIDE DEF ends
    <3>. QED  BY <1>1, <2>4
  <2>. QED  BY <1>1, <1>3, <2>4, <2>5
<1>. QED  BY <1>4, <1>5

\* It is where the letters stop being options without a value.
LEMMA LastLetterAt ==
  ASSUME NEW tbl, NEW letters \in Args, NEW q \in 1..(Len(letters) + 1), AllFlags(tbl, letters, q - 1),
         q <= Len(letters) => \/ ShortOption(tbl, letters[q]) = 0
                              \/ HasValue(tbl[ShortOption(tbl, letters[q])])
  PROVE  LastLetter(tbl, letters) = q
<1> DEFINE k == LastLetter(tbl, letters)
           ends(j) == ShortOption(tbl, letters[j]) = 0 \/ HasValue(tbl[ShortOption(tbl, letters[j])])
<1>1. /\ k \in 1..(Len(letters) + 1) /\ \A j \in 1..(k - 1) : ~ends(j)
      /\ k <= Len(letters) => ends(k)
  BY LastLetterIs DEF AllFlags
<1>2. /\ \A j \in 1..(q - 1) : ~ends(j)
      /\ q <= Len(letters) => ends(q)
  BY DEF AllFlags
<1>3. Len(letters) \in Nat
  BY ArgLength
<1> HIDE DEF k, ends
<1>4. k = q
  BY <1>1, <1>2, <1>3
<1>. QED  BY <1>4 DEF k

\* How often the first letters stand for entry i.
Times(tbl, letters, i) == Cardinality({k \in DOMAIN letters : ShortOption(tbl, letters[k]) = i})

LEMMA TimesIs ==
  ASSUME NEW tbl, NEW letters \in Args, NEW i
  PROVE  Times(tbl, letters, i) \in Nat
<1> DEFINE is == {k \in 1..Len(letters) : ShortOption(tbl, letters[k]) = i}
<1>1. Len(letters) \in Nat /\ DOMAIN letters = 1..Len(letters)
  BY DEF Args
<1>2. IsFiniteSet(1..Len(letters))
  BY <1>1, FS_Interval
<1>3. IsFiniteSet(is)
  BY <1>2, FS_Subset
<1>4. Cardinality(is) \in Nat
  <2> HIDE DEF is
  <2>. QED  BY <1>3, FS_CardinalityType
<1>. QED  BY <1>1, <1>4 DEF Times

\* r is acc, with the options of all letters.
GivesAll(tbl, acc, letters, r) ==
  /\ r.args = [i \in DOMAIN tbl |-> acc.args[i] \o [k \in 1..Times(tbl, letters, i) |-> <<>>]]
  /\ r.bad = acc.bad /\ r.over = acc.over /\ r.wait = acc.wait /\ r.words = acc.words

LEMMA GiveAllIs ==
  ASSUME NEW tbl, Sound(tbl), NEW acc, Reads(tbl, acc), NEW letters \in Args
  PROVE  /\ Reads(tbl, GiveAll(tbl, acc, letters)) /\ Grows(tbl, acc, GiveAll(tbl, acc, letters))
         /\ GivesAll(tbl, acc, letters, GiveAll(tbl, acc, letters))
<1> DEFINE more == [i \in DOMAIN tbl |-> acc.args[i] \o [k \in 1..Times(tbl, letters, i) |-> <<>>]]
<1>1. acc.args \in [DOMAIN tbl -> Seq(Args)]
  BY DEF Reads
<1>2. ASSUME NEW i \in DOMAIN tbl
      PROVE  /\ more[i] \in Seq(Args) /\ Len(acc.args[i]) <= Len(more[i])
             /\ \A k \in 1..Len(acc.args[i]) : more[i][k] = acc.args[i][k]
  <2> DEFINE t == Times(tbl, letters, i)
             x == acc.args[i]
             y == [k \in 1..t |-> <<>>]
  <2>1. t \in Nat
    BY TimesIs
  <2>2. <<>> \in Args
    BY DEF Args
  <2> HIDE DEF t
  <2>3. y \in Seq(Args)
    BY <2>1, <2>2
  <2>4. x \in Seq(Args)
    BY <1>1
  <2> HIDE DEF x, y
  <2>5. /\ x \o y \in Seq(Args) /\ Len(x) <= Len(x \o y)
        /\ \A k \in 1..Len(x) : (x \o y)[k] = x[k]
    BY <2>3, <2>4
  <2>. QED  BY <2>5 DEF x, y, t
<1>3. GiveAll(tbl, acc, letters) = [acc EXCEPT !.args = more]
  BY DEF GiveAll, Times
<1>4. \A i \in DOMAIN tbl : Untagged(tbl[i]) => more[i] = <<>>
  <2>1. SUFFICES ASSUME NEW i \in DOMAIN tbl, Untagged(tbl[i]) PROVE more[i] = <<>>
    OBVIOUS
  <2>2. \A k \in DOMAIN letters : letters[k] \in Syllables /\ ShortOption(tbl, letters[k]) # i
    <3>1. SUFFICES ASSUME NEW k \in DOMAIN letters, ShortOption(tbl, letters[k]) = i PROVE FALSE
      BY DEF Args
    <3>2. letters[k] \in STRING \ {""}
      <4>1. letters[k] \in Syllables
        BY DEF Args
      <4>. QED  BY <4>1 DEF Syllables
    <3>3. i # 0
      BY DEF Sound
    <3>. QED  BY <2>1, <3>1, <3>2, <3>3, LetterTags DEF Sound
  <2>3. {k \in DOMAIN letters : ShortOption(tbl, letters[k]) = i} = {}
    BY <2>2
  <2>4. Times(tbl, letters, i) = 0
    BY <2>3, FS_EmptySet DEF Times
  <2>5. acc.args[i] = <<>>
    BY <2>1 DEF Reads
  <2>6. [k \in 1..Times(tbl, letters, i) |-> <<>>] = <<>>
    BY <2>4
  <2>. QED  BY <2>5, <2>6
<1>5. more \in [DOMAIN tbl -> Seq(Args)] /\ DOMAIN more = DOMAIN tbl
  BY <1>2
<1> HIDE DEF more
<1>6. /\ Reads(tbl, GiveAll(tbl, acc, letters)) /\ GiveAll(tbl, acc, letters).args = more
      /\ GiveAll(tbl, acc, letters).bad = acc.bad /\ GiveAll(tbl, acc, letters).over = acc.over
      /\ GiveAll(tbl, acc, letters).wait = acc.wait /\ GiveAll(tbl, acc, letters).words = acc.words
  BY <1>3, <1>4, <1>5 DEF Reads
<1>7. Grows(tbl, acc, GiveAll(tbl, acc, letters))
  BY <1>2, <1>6 DEF Grows
<1>. QED  BY <1>6, <1>7 DEF more, GivesAll

LEMMA ReadValueIs ==
  ASSUME NEW tbl, Sound(tbl), NEW acc, Reads(tbl, acc), acc.wait # 0, NEW arg \in Args
  PROVE  /\ Reads(tbl, ReadValue(acc, arg)) /\ Grows(tbl, acc, ReadValue(acc, arg))
         /\ ReadValue(acc, arg).args = [acc.args EXCEPT ![acc.wait] = Append(@, arg)]
         /\ ReadValue(acc, arg).bad = (acc.bad \/ (acc.full /\ arg = <<>>))
         /\ ReadValue(acc, arg).wait = 0 /\ ~ReadValue(acc, arg).over
<1> DEFINE gave  == Give(acc, acc.wait, arg)
           given == Await(gave, 0, FALSE)
<1>1. acc.wait \in DOMAIN tbl /\ ~Untagged(tbl[acc.wait]) /\ ~acc.over
  BY DEF Reads, Sound
<1>2. /\ Reads(tbl, gave) /\ gave.args = [acc.args EXCEPT ![acc.wait] = Append(@, arg)]
      /\ gave.bad = acc.bad /\ gave.over = acc.over
  BY <1>1, GiveIs DEF Gives
<1> HIDE DEF gave
<1>4. /\ Reads(tbl, given) /\ given.args = gave.args /\ given.bad = gave.bad /\ given.over = gave.over
      /\ given.wait = 0
  <2>1. Reads(tbl, Await(gave, 0, FALSE)) /\ Awaits(gave, 0, FALSE, Await(gave, 0, FALSE))
    BY <1>2, AwaitNone
  <2>. QED  BY <2>1 DEF Awaits
<1>5. ReadValue(acc, arg) = IF acc.full /\ arg = <<>> THEN Spoilt(given) ELSE given
  BY DEF ReadValue, gave
<1> HIDE DEF given
<1>6. /\ Reads(tbl, Spoilt(given)) /\ Spoilt(given).bad /\ Spoilt(given).args = given.args
      /\ Spoilt(given).over = given.over /\ Spoilt(given).wait = given.wait
  BY <1>4, SpoiltIs
<1>7. acc.bad \in BOOLEAN /\ acc.full \in BOOLEAN /\ Spoilt(given).bad \in BOOLEAN
  BY <1>6 DEF Reads
<1>8. /\ Reads(tbl, ReadValue(acc, arg))
      /\ ReadValue(acc, arg).args = [acc.args EXCEPT ![acc.wait] = Append(@, arg)]
      /\ ReadValue(acc, arg).bad = (acc.bad \/ (acc.full /\ arg = <<>>))
      /\ ReadValue(acc, arg).wait = 0 /\ ~ReadValue(acc, arg).over
  <2>1. CASE acc.full /\ arg = <<>>
    BY <1>1, <1>2, <1>4, <1>5, <1>6, <1>7, <2>1
  <2>2. CASE ~(acc.full /\ arg = <<>>)
    BY <1>1, <1>2, <1>4, <1>5, <1>7, <2>2
  <2>. QED  BY <2>1, <2>2
<1>9. CASE acc.full /\ arg = <<>>
  <2>1. ReadValue(acc, arg).bad
    BY <1>5, <1>6, <1>9
  <2>. QED  BY <1>8, <2>1 DEF Grows
<1>10. CASE ~(acc.full /\ arg = <<>>)
  <2>1. ReadValue(acc, arg).bad = acc.bad
    BY <1>2, <1>4, <1>5, <1>10
  <2>. QED  BY <1>1, <1>8, <2>1, GiveGrows
<1>. QED  BY <1>8, <1>9, <1>10

\* The entry a long option stands for, and what reading it does.
LongOf(tbl, arg) == CHOOSE j \in LongMatches(tbl, NameOf(arg)) : TRUE

LEMMA ReadLongIs ==
  ASSUME NEW tbl, Sound(tbl), NEW acc, Reads(tbl, acc), acc.wait = 0, ~acc.over,
         NEW arg \in Args, Len(arg) > 2,
         NEW i, i = LongOf(tbl, arg),
         NEW one, one = (Cardinality(LongMatches(tbl, NameOf(arg))) = 1)
  PROVE  /\ one => i \in DOMAIN tbl /\ ~Untagged(tbl[i])
         /\ ~one \/ (HasEqual(arg) /\ ~(HasValue(tbl[i]) /\ EqualValue(arg) # <<>>)) =>
              ReadLong(tbl, acc, arg) = Spoilt(acc)
         /\ one /\ HasEqual(arg) /\ HasValue(tbl[i]) /\ EqualValue(arg) # <<>> =>
              ReadLong(tbl, acc, arg) = Give(acc, i, EqualValue(arg))
         /\ one /\ ~HasEqual(arg) /\ HasValue(tbl[i]) => ReadLong(tbl, acc, arg) = Await(acc, i, TRUE)
         /\ one /\ ~HasEqual(arg) /\ ~HasValue(tbl[i]) => ReadLong(tbl, acc, arg) = Give(acc, i, <<>>)
         /\ Reads(tbl, ReadLong(tbl, acc, arg)) /\ Grows(tbl, acc, ReadLong(tbl, acc, arg))
         /\ ~ReadLong(tbl, acc, arg).over
<1> DEFINE r == ReadLong(tbl, acc, arg)
<1>1. one => i \in DOMAIN tbl /\ ~Untagged(tbl[i])
  BY LongMatchIs DEF LongOf
<1>2. i = CHOOSE j \in LongMatches(tbl, NameOf(arg)) : TRUE
  BY DEF LongOf
<1>3. one \in BOOLEAN /\ HasEqual(arg) \in BOOLEAN /\ HasValue(tbl[i]) \in BOOLEAN
  BY DEF HasEqual, HasValue
<1>4. /\ ~one \/ (HasEqual(arg) /\ ~(HasValue(tbl[i]) /\ EqualValue(arg) # <<>>)) => r = Spoilt(acc)
      /\ one /\ HasEqual(arg) /\ HasValue(tbl[i]) /\ EqualValue(arg) # <<>> =>
           r = Give(acc, i, EqualValue(arg))
      /\ one /\ ~HasEqual(arg) /\ HasValue(tbl[i]) => r = Await(acc, i, TRUE)
      /\ one /\ ~HasEqual(arg) /\ ~HasValue(tbl[i]) => r = Give(acc, i, <<>>)
  <2>1. CASE ~one
    BY <1>2, <2>1 DEF ReadLong
  <2>2. CASE one /\ HasEqual(arg)
    BY <1>2, <2>2 DEF ReadLong
  <2>3. CASE one /\ ~HasEqual(arg)
    BY <1>2, <2>3 DEF ReadLong
  <2>. QED  BY <1>3, <2>1, <2>2, <2>3
<1> HIDE DEF r
<1>5. EqualValue(arg) \in Args /\ <<>> \in Args
  BY NameTyped DEF Args
<1>6. Reads(tbl, Spoilt(acc)) /\ Grows(tbl, acc, Spoilt(acc)) /\ ~Spoilt(acc).over
  BY SpoiltIs DEF Grows
<1>7. ASSUME one, NEW v \in Args
      PROVE  Reads(tbl, Give(acc, i, v)) /\ Grows(tbl, acc, Give(acc, i, v)) /\ ~Give(acc, i, v).over
  <2>1. /\ Reads(tbl, Give(acc, i, v))
        /\ Give(acc, i, v).args = [acc.args EXCEPT ![i] = Append(@, v)]
        /\ Give(acc, i, v).bad = acc.bad /\ Give(acc, i, v).over = acc.over
    BY <1>1, <1>7, GiveIs DEF Gives
  <2>. QED  BY <1>1, <1>7, <2>1, GiveGrows
<1>8. ASSUME one, HasValue(tbl[i])
      PROVE  Reads(tbl, Await(acc, i, TRUE)) /\ Grows(tbl, acc, Await(acc, i, TRUE)) /\ ~Await(acc, i, TRUE).over
  <2>2. /\ Reads(tbl, Await(acc, i, TRUE))
        /\ Await(acc, i, TRUE).args = acc.args /\ Await(acc, i, TRUE).bad = acc.bad
        /\ Await(acc, i, TRUE).over = acc.over
    <3>1. i \in DOMAIN tbl /\ ~Untagged(tbl[i]) /\ HasValue(tbl[i]) /\ ~acc.over /\ TRUE \in BOOLEAN
      BY <1>1, <1>8
    <3>2. Reads(tbl, Await(acc, i, TRUE)) /\ Awaits(acc, i, TRUE, Await(acc, i, TRUE))
      BY <3>1, AwaitIs
    <3>. QED  BY <3>2 DEF Awaits
  <2>. QED  BY <2>2, SameGrows
<1>9. Reads(tbl, r) /\ Grows(tbl, acc, r) /\ ~r.over
  BY <1>3, <1>4, <1>5, <1>6, <1>7, <1>8
<1>. QED  BY <1>1, <1>4, <1>9 DEF r

\* r is acc with a group of which k is the last letter that is an option, i.
LettersRead(tbl, acc, letters, k, i, r) ==
  /\ k > Len(letters) => r = Part(tbl, acc, letters, Len(letters))
  /\ k <= Len(letters) /\ i = 0 => r = Spoilt(acc)
  /\ k = Len(letters) /\ i # 0 => r = Await(Part(tbl, acc, letters, k - 1), i, FALSE)
  /\ k < Len(letters) /\ i # 0 =>
       r = Give(Part(tbl, acc, letters, k - 1), i, SubSeq(letters, k + 1, Len(letters)))
  /\ Grows(tbl, Part(tbl, acc, letters, k - 1), r)

LEMMA ReadLettersIs ==
  ASSUME NEW tbl, Sound(tbl), NEW acc, Reads(tbl, acc), acc.wait = 0, ~acc.over,
         NEW letters \in Args, NEW k, k = LastLetter(tbl, letters),
         NEW i, i = ShortOption(tbl, letters[k])
  PROVE  /\ LettersRead(tbl, acc, letters, k, i, ReadLetters(tbl, acc, letters))
         /\ Reads(tbl, ReadLetters(tbl, acc, letters)) /\ Grows(tbl, acc, ReadLetters(tbl, acc, letters))
         /\ ~ReadLetters(tbl, acc, letters).over
<1> DEFINE r == ReadLetters(tbl, acc, letters)
           flags == Part(tbl, acc, letters, k - 1)
           value == SubSeq(letters, k + 1, Len(letters))
<1>1. /\ k \in 1..(Len(letters) + 1) /\ AllFlags(tbl, letters, k - 1) /\ Len(letters) \in Nat
      /\ k <= Len(letters) => i = 0 \/ HasValue(tbl[i])
  BY LastLetterIs, ArgLength
<1>2. /\ k > Len(letters) => r = flags
      /\ k <= Len(letters) /\ i = 0 => r = Spoilt(acc)
      /\ k = Len(letters) /\ i # 0 => r = Await(flags, i, FALSE)
      /\ k < Len(letters) /\ i # 0 => r = Give(flags, i, value)
  <2>1. r = CASE k > Len(letters)            -> flags
              [] k <= Len(letters) /\ i = 0 -> Spoilt(acc)
              [] k = Len(letters) /\ i # 0  -> Await(flags, i, FALSE)
              [] k < Len(letters) /\ i # 0  -> Give(flags, i, value)
    BY Zenon DEF ReadLetters, Part
  <2> HIDE DEF r, flags, value
  <2>2. CASE k > Len(letters)
    <3>1. ~(k <= Len(letters)) /\ ~(k = Len(letters)) /\ ~(k < Len(letters))
      BY <1>1, <2>2
    <3>. QED  BY <2>1, <2>2, <3>1, Zenon
  <2>3. CASE k = Len(letters)
    <3>1. k <= Len(letters) /\ ~(k > Len(letters)) /\ ~(k < Len(letters))
      BY <1>1, <2>3
    <3>. QED  BY <2>1, <2>3, <3>1, Zenon
  <2>4. CASE k < Len(letters)
    <3>1. k <= Len(letters) /\ ~(k > Len(letters)) /\ ~(k = Len(letters))
      BY <1>1, <2>4
    <3>. QED  BY <2>1, <2>4, <3>1, Zenon
  <2>5. k > Len(letters) \/ k = Len(letters) \/ k < Len(letters)
    BY <1>1
  <2>. QED  BY <2>2, <2>3, <2>4, <2>5
<1>3. SubSeq(letters, 1, k - 1) \in Args
  <2>1. 1 \in Nat \ {0} /\ k - 1 \in Nat /\ k - 1 <= Len(letters)
    BY <1>1
  <2>. QED  BY <2>1, Cut
<1>4. /\ Reads(tbl, flags) /\ Grows(tbl, acc, flags)
      /\ flags.bad = acc.bad /\ flags.over = acc.over /\ flags.wait = acc.wait
  <2> DEFINE first == SubSeq(letters, 1, k - 1)
  <2> HIDE DEF first
  <2>1. first \in Args /\ flags = GiveAll(tbl, acc, first)
    BY <1>3 DEF first, Part
  <2>2. /\ Reads(tbl, GiveAll(tbl, acc, first)) /\ Grows(tbl, acc, GiveAll(tbl, acc, first))
        /\ GivesAll(tbl, acc, first, GiveAll(tbl, acc, first))
    BY <2>1, GiveAllIs
  <2> HIDE DEF flags
  <2>. QED  BY <2>1, <2>2 DEF GivesAll
<1>5. k <= Len(letters) => /\ value \in Args /\ (value = <<>> <=> k = Len(letters))
                           /\ letters[k] \in STRING \ {""}
  <2>1. SUFFICES ASSUME k <= Len(letters)
                 PROVE  value \in Args /\ (value = <<>> <=> k = Len(letters)) /\ letters[k] \in Syllables
    BY DEF Syllables
  <2>2. k + 1 \in Nat \ {0} /\ Len(letters) <= Len(letters)
    BY <1>1
  <2>3. value \in Args /\ Len(value) = IF k + 1 <= Len(letters) THEN Len(letters) - (k + 1) + 1 ELSE 0
    BY <1>1, <2>2, Cut
  <2>4. Len(value) = 0 <=> k = Len(letters)
    BY <1>1, <2>1, <2>3
  <2>5. letters[k] \in Syllables
    BY <1>1, <2>1 DEF Args
  <2>. QED  BY <2>3, <2>4, <2>5, ArgLength
<1>6. k <= Len(letters) /\ i # 0 => i \in DOMAIN tbl /\ ~Untagged(tbl[i]) /\ HasValue(tbl[i])
  BY <1>1, <1>5, ShortOptionIs, LetterTags DEF Sound
<1>7. /\ Reads(tbl, Spoilt(acc)) /\ Grows(tbl, acc, Spoilt(acc)) /\ ~Spoilt(acc).over
      /\ Grows(tbl, flags, Spoilt(acc)) /\ Grows(tbl, flags, flags)
  <2> HIDE DEF flags
  <2>1. Reads(tbl, Spoilt(acc)) /\ Spoilt(acc).bad /\ Spoilt(acc).over = acc.over
    BY SpoiltIs
  <2>2. Grows(tbl, flags, flags)
    BY <1>4, SameGrows
  <2>. QED  BY <2>1, <2>2 DEF Grows
<1> HIDE DEF flags, r, value
<1>8. k <= Len(letters) /\ i # 0 =>
        /\ Reads(tbl, Give(flags, i, value)) /\ Grows(tbl, acc, Give(flags, i, value))
        /\ Grows(tbl, flags, Give(flags, i, value)) /\ ~Give(flags, i, value).over
  <2>1. SUFFICES ASSUME k <= Len(letters), i # 0
                 PROVE  /\ Reads(tbl, Give(flags, i, value)) /\ Grows(tbl, acc, Give(flags, i, value))
                        /\ Grows(tbl, flags, Give(flags, i, value)) /\ ~Give(flags, i, value).over
    OBVIOUS
  <2>2. i \in DOMAIN tbl /\ ~Untagged(tbl[i]) /\ value \in Args
    BY <1>5, <1>6, <2>1
  <2>3. /\ Reads(tbl, Give(flags, i, value)) /\ Give(flags, i, value).bad = flags.bad
        /\ Give(flags, i, value).args = [flags.args EXCEPT ![i] = Append(@, value)]
        /\ Give(flags, i, value).over = flags.over
    <3>1. Reads(tbl, Give(flags, i, value)) /\ Gives(flags, i, value, Give(flags, i, value))
      BY <1>4, <2>2, GiveIs
    <3>. QED  BY <3>1 DEF Gives
  <2>4. Grows(tbl, flags, Give(flags, i, value))
    BY <1>4, <2>2, <2>3, GiveGrows
  <2>. QED  BY <1>4, <2>3, <2>4, GrowsOn
<1>9. k <= Len(letters) /\ i # 0 =>
        /\ Reads(tbl, Await(flags, i, FALSE)) /\ Grows(tbl, acc, Await(flags, i, FALSE))
        /\ Grows(tbl, flags, Await(flags, i, FALSE)) /\ ~Await(flags, i, FALSE).over
  <2>1. SUFFICES ASSUME k <= Len(letters), i # 0
                 PROVE  /\ Reads(tbl, Await(flags, i, FALSE)) /\ Grows(tbl, acc, Await(flags, i, FALSE))
                        /\ Grows(tbl, flags, Await(flags, i, FALSE)) /\ ~Await(flags, i, FALSE).over
    OBVIOUS
  <2>2. i \in DOMAIN tbl /\ ~Untagged(tbl[i]) /\ HasValue(tbl[i]) /\ ~flags.over /\ FALSE \in BOOLEAN
    BY <1>4, <1>6, <2>1
  <2>3. Reads(tbl, Await(flags, i, FALSE)) /\ Awaits(flags, i, FALSE, Await(flags, i, FALSE))
    BY <1>4, <2>2, AwaitIs
  <2>4. Grows(tbl, flags, Await(flags, i, FALSE))
    BY <1>4, <2>3, SameGrows DEF Awaits
  <2>5. ~Await(flags, i, FALSE).over
    BY <2>2, <2>3 DEF Awaits
  <2>. QED  BY <1>4, <2>3, <2>4, <2>5, GrowsOn
<1>10. k > Len(letters) => k - 1 = Len(letters)
  BY <1>1
<1>11. (k > Len(letters) \/ (k <= Len(letters) /\ i = 0) \/ (k <= Len(letters) /\ i # 0))
       /\ (k <= Len(letters) <=> k = Len(letters) \/ k < Len(letters))
  BY <1>1
<1>12. Reads(tbl, r) /\ Grows(tbl, acc, r) /\ Grows(tbl, flags, r) /\ ~r.over
  BY <1>2, <1>4, <1>7, <1>8, <1>9, <1>11
<1>. QED  BY <1>2, <1>10, <1>12 DEF flags, r, value, LettersRead

\* An argument is two dashes, a long option, a group of short ones or a word.
LEMMA Dashes ==
  ASSUME NEW arg, arg = <<"-", "-">>
  PROVE  IsOption(arg) /\ ~IsLong(arg) /\ arg[2] = "-"
BY DEF IsOption, IsLong

LEMMA Shapes ==
  ASSUME NEW arg \in Args, IsOption(arg), arg[2] = "-", ~IsLong(arg)
  PROVE  arg = <<"-", "-">>
<1>0. Len(arg) > 1 /\ ~(Len(arg) > 2) /\ arg[1] = "-"
  BY DEF IsOption, IsLong
<1>1. Len(arg) = 2
  <2> DEFINE n == Len(arg)
  <2>1. n \in Nat /\ n > 1 /\ ~(n > 2)
    BY <1>0, ArgLength
  <2> HIDE DEF n
  <2>2. n = 2
    BY <2>1
  <2>. QED  BY <2>2 DEF n
<1>. QED  BY <1>0, <1>1 DEF Args

LEMMA ReadAwaited ==
  ASSUME NEW tbl, NEW acc, NEW arg, acc.wait # 0
  PROVE  Read(tbl, acc, arg) = ReadValue(acc, arg)
BY DEF Read

LEMMA ReadOver ==
  ASSUME NEW tbl, NEW acc, NEW arg, acc.wait = 0, acc.over
  PROVE  Read(tbl, acc, arg) = Word(acc, arg)
BY DEF Read

LEMMA ReadDashes ==
  ASSUME NEW tbl, NEW acc, NEW arg, acc.wait = 0, ~acc.over, arg = <<"-", "-">>
  PROVE  Read(tbl, acc, arg) = [acc EXCEPT !.over = TRUE]
BY Dashes DEF Read

LEMMA ReadLongOne ==
  ASSUME NEW tbl, NEW acc, NEW arg, acc.wait = 0, ~acc.over, IsLong(arg)
  PROVE  Read(tbl, acc, arg) = ReadLong(tbl, acc, arg)
<1>1. arg # <<"-", "-">> /\ IsOption(arg) /\ arg[2] = "-"
  BY Dashes DEF IsLong
<1>. QED  BY <1>1 DEF Read

LEMMA ReadGroup ==
  ASSUME NEW tbl, NEW acc, NEW arg, acc.wait = 0, ~acc.over, IsOption(arg), arg[2] # "-"
  PROVE  Read(tbl, acc, arg) = ReadLetters(tbl, acc, Tail(arg))
<1>1. arg # <<"-", "-">> /\ ~IsLong(arg)
  BY Dashes DEF IsLong
<1>. QED  BY <1>1 DEF Read

LEMMA ReadWord ==
  ASSUME NEW tbl, NEW acc, NEW arg, acc.wait = 0, ~acc.over, ~IsOption(arg)
  PROVE  Read(tbl, acc, arg) = Word(acc, arg)
<1>1. arg # <<"-", "-">> /\ ~IsLong(arg)
  BY Dashes DEF IsLong
<1>. QED  BY <1>1 DEF Read

\* r is acc after a word.
Worded(acc, arg, r) ==
  r.over /\ r.wait = 0 /\ r.bad = acc.bad /\ r.args = acc.args /\ r.words = Append(acc.words, arg)

LEMMA WordIs ==
  ASSUME NEW tbl, NEW acc, Reads(tbl, acc), acc.wait = 0, NEW arg \in Args
  PROVE  Reads(tbl, Word(acc, arg)) /\ Worded(acc, arg, Word(acc, arg))
<1>2. /\ Word(acc, arg).over = TRUE /\ Word(acc, arg).wait = 0 /\ Word(acc, arg).bad = acc.bad
      /\ Word(acc, arg).args = acc.args /\ Word(acc, arg).words = Append(acc.words, arg)
  BY DEF Reads, Word
<1>3. Append(acc.words, arg) \in Seq(Args)
  BY DEF Reads
<1>1. Reads(tbl, Word(acc, arg))
  BY <1>3 DEF Reads, Word
<1>. QED  BY <1>1, <1>2 DEF Worded

LEMMA DashesIs ==
  ASSUME NEW tbl, NEW acc, Reads(tbl, acc), acc.wait = 0, NEW r, r = [acc EXCEPT !.over = TRUE]
  PROVE  Reads(tbl, r) /\ r.over /\ r.wait = 0 /\ r.bad = acc.bad /\ r.args = acc.args /\ r.words = acc.words
<1>1. r.over = TRUE /\ r.wait = 0 /\ r.bad = acc.bad /\ r.args = acc.args /\ r.words = acc.words /\ r.full = acc.full
  BY DEF Reads
<1>2. Reads(tbl, r)
  BY DEF Reads
<1>. QED  BY <1>1, <1>2

\* The rest of a group is an argument.
LEMMA TailIs ==
  ASSUME NEW arg \in Args, Len(arg) > 1
  PROVE  /\ Tail(arg) \in Args /\ Tail(arg) # <<>> /\ Len(Tail(arg)) = Len(arg) - 1
         /\ \A k \in 1..(Len(arg) - 1) : Tail(arg)[k] = arg[k + 1]
<1>1. Tail(arg) \in Args /\ Len(Tail(arg)) = Len(arg) - 1
      /\ \A k \in 1..(Len(arg) - 1) : Tail(arg)[k] = arg[k + 1]
  BY DEF Args
<1>2. Len(Tail(arg)) # 0
  <2>1. Len(arg) \in Nat
    BY ArgLength
  <2>2. Len(Tail(arg)) = Len(arg) - 1
    BY <1>1
  <2> DEFINE x == Len(arg)
             y == Len(Tail(arg))
  <2>3. x \in Nat /\ x > 1 /\ y = x - 1
    BY <2>1, <2>2
  <2> HIDE DEF x, y
  <2>4. y # 0
    BY <2>3
  <2>. QED  BY <2>4 DEF y
<1>3. Tail(arg) # <<>>
  BY <1>1, <1>2, ArgLength
<1>. QED  BY <1>1, <1>3

LEMMA ReadIs ==
  ASSUME NEW tbl, Sound(tbl), NEW acc, Reads(tbl, acc), NEW arg \in Args
  PROVE  /\ Reads(tbl, Read(tbl, acc, arg)) /\ Grows(tbl, acc, Read(tbl, acc, arg))
         /\ acc.over => Worded(acc, arg, Read(tbl, acc, arg))
<1> DEFINE r == Read(tbl, acc, arg)
<1>1. acc.over => acc.wait = 0
  BY DEF Reads
<1>2. CASE acc.wait # 0
  <2>1. r = ReadValue(acc, arg)
    BY <1>2, ReadAwaited
  <2>2. Reads(tbl, ReadValue(acc, arg)) /\ Grows(tbl, acc, ReadValue(acc, arg))
    BY <1>2, ReadValueIs
  <2>. QED  BY <1>1, <1>2, <2>1, <2>2
<1>3. CASE acc.over
  <2>2. r = Word(acc, arg)
    BY <1>1, <1>3, ReadOver
  <2> HIDE DEF r
  <2>4. Reads(tbl, r) /\ Worded(acc, arg, r)
    BY <1>1, <1>3, <2>2, WordIs
  <2>5. Grows(tbl, acc, r)
    BY <2>4, SameGrows DEF Worded
  <2>. QED  BY <2>4, <2>5 DEF r
<1>4. CASE acc.wait = 0 /\ ~acc.over
  <2>1. CASE arg = <<"-", "-">>
    <3>1. r = [acc EXCEPT !.over = TRUE]
      BY <1>4, <2>1, ReadDashes
    <3> HIDE DEF r
    <3>2. Reads(tbl, r) /\ r.bad = acc.bad /\ r.args = acc.args
      BY <1>4, <3>1, DashesIs
    <3>3. Grows(tbl, acc, r)
      BY <3>2, SameGrows
    <3>. QED  BY <1>4, <3>2, <3>3 DEF r
  <2>2. CASE IsLong(arg)
    <3>1. r = ReadLong(tbl, acc, arg) /\ Len(arg) > 2
      BY <1>4, <2>2, ReadLongOne DEF IsLong
    <3>2. /\ Reads(tbl, ReadLong(tbl, acc, arg)) /\ Grows(tbl, acc, ReadLong(tbl, acc, arg))
      BY <1>4, <3>1, ReadLongIs
    <3>. QED  BY <1>4, <3>1, <3>2
  <2>3. CASE IsOption(arg) /\ arg[2] # "-"
    <3>1. r = ReadLetters(tbl, acc, Tail(arg)) /\ Len(arg) > 1
      BY <1>4, <2>3, ReadGroup DEF IsOption
    <3>2. Tail(arg) \in Args
      BY <3>1, TailIs
    <3>3. Reads(tbl, ReadLetters(tbl, acc, Tail(arg))) /\ Grows(tbl, acc, ReadLetters(tbl, acc, Tail(arg)))
      BY <1>4, <3>2, ReadLettersIs
    <3>. QED  BY <1>4, <3>1, <3>3
  <2>4. CASE ~IsOption(arg)
    <3>1. r = Word(acc, arg)
      BY <1>4, <2>4, ReadWord
    <3> HIDE DEF r
    <3>2. Reads(tbl, r) /\ Worded(acc, arg, r)
      BY <1>4, <3>1, WordIs
    <3>3. Grows(tbl, acc, r)
      BY <3>2, SameGrows DEF Worded
    <3>. QED  BY <1>4, <3>2, <3>3 DEF r
  <2>. QED  BY <2>1, <2>2, <2>3, <2>4, Shapes
<1>. QED  BY <1>2, <1>3, <1>4

-------------------------------------------------------------------------------
\* The readings of a line.

IsReadings(f, tbl, args, passed, m) ==
  f = [n \in 0..m |->
         IF n = 0 THEN Nothing(tbl)
         ELSE IF n + 1 \in passed THEN f[n - 1] ELSE Read(tbl, f[n - 1], args[n + 1])]

LEMMA ReadingsExist ==
  ASSUME NEW tbl, NEW args, NEW passed, NEW m \in Nat
  PROVE  \E f : IsReadings(f, tbl, args, passed, m)
<1> DEFINE step(f, n) == IF n = 0 THEN Nothing(tbl)
                         ELSE IF n + 1 \in passed THEN f[n - 1] ELSE Read(tbl, f[n - 1], args[n + 1])
           S == {n \in Nat : \E f : f = [i \in 0..n |-> step(f, i)]}
<1>1. 0 \in S
  <2> DEFINE f == [i \in 0..0 |-> Nothing(tbl)]
  <2>1. f = [i \in 0..0 |-> step(f, i)]
    OBVIOUS
  <2>. QED  BY <2>1
<1>2. ASSUME NEW n \in Nat, n \in S PROVE n + 1 \in S
  <2>1. PICK g : g = [i \in 0..n |-> step(g, i)]
    BY <1>2
  <2> DEFINE f == [i \in 0..(n + 1) |-> step(g, i)]
  <2>2. \A i \in 0..(n + 1) : step(g, i) = step(f, i)
    <3>1. SUFFICES ASSUME NEW i \in 0..(n + 1), i # 0 PROVE g[i - 1] = f[i - 1]
      OBVIOUS
    <3>2. i - 1 \in 0..n /\ i - 1 \in 0..(n + 1)
      BY <3>1
    <3>3. g[i - 1] = step(g, i - 1)
      BY <2>1, <3>2
    <3>4. f[i - 1] = step(g, i - 1)
      BY <3>2
    <3>. QED  BY <3>3, <3>4
  <2>3. f = [i \in 0..(n + 1) |-> step(f, i)]
    BY <2>2
  <2> HIDE DEF step, f
  <2>4. \E h : h = [i \in 0..(n + 1) |-> step(h, i)]
    BY <2>3
  <2>. QED  BY <2>4
<1> HIDE DEF S
<1>3. Nat \subseteq S
  BY <1>1, <1>2, Onwards
<1>. QED  BY <1>3 DEF S, IsReadings

LEMMA ReadingsAre ==
  ASSUME NEW tbl, NEW args, NEW passed, Len(args) \in Nat \ {0}, NEW n \in 0..(Len(args) - 1)
  PROVE  Readings(tbl, args, passed)[n] =
           IF n = 0 THEN Nothing(tbl)
           ELSE IF n + 1 \in passed THEN Readings(tbl, args, passed)[n - 1]
           ELSE Read(tbl, Readings(tbl, args, passed)[n - 1], args[n + 1])
<1> DEFINE m == Len(args) - 1
           f == CHOOSE g : IsReadings(g, tbl, args, passed, m)
<1>1. Readings(tbl, args, passed) = f
  BY DEF Readings, IsReadings
<1>2. m \in Nat
  OBVIOUS
<1>3. IsReadings(f, tbl, args, passed, m)
  <2>1. \E g : IsReadings(g, tbl, args, passed, m)
    <3> HIDE DEF m
    <3>. QED  BY <1>2, ReadingsExist
  <2>. QED  BY <2>1
<1> HIDE DEF f, m
<1>4. n \in 0..m
  BY DEF m
<1>5. f[n] = IF n = 0 THEN Nothing(tbl)
             ELSE IF n + 1 \in passed THEN f[n - 1] ELSE Read(tbl, f[n - 1], args[n + 1])
  BY <1>3, <1>4 DEF IsReadings
<1>. QED  BY <1>1, <1>5

\* From one argument to the next.
LEMMA PassingStep ==
  ASSUME NEW tbl, NEW args \in Seq(Args), args # <<>>, NEW passed
  PROVE  /\ Readings(tbl, args, passed)[0] = Nothing(tbl)
         /\ \A n \in 1..(Len(args) - 1) :
              /\ n + 1 \in passed => Readings(tbl, args, passed)[n] = Readings(tbl, args, passed)[n - 1]
              /\ n + 1 \notin passed => Readings(tbl, args, passed)[n]
                                        = Read(tbl, Readings(tbl, args, passed)[n - 1], args[n + 1])
<1>1. Len(args) \in Nat \ {0}
  OBVIOUS
<1>2. 0 \in 0..(Len(args) - 1) /\ \A n \in 1..(Len(args) - 1) : n \in 0..(Len(args) - 1) /\ n # 0
  BY <1>1
<1>. QED  BY <1>1, <1>2, ReadingsAre

LEMMA ReadingsStep ==
  ASSUME NEW tbl, NEW args \in Seq(Args), args # <<>>
  PROVE  /\ Readings(tbl, args, {})[0] = Nothing(tbl)
         /\ \A n \in 1..(Len(args) - 1) :
              Readings(tbl, args, {})[n] = Read(tbl, Readings(tbl, args, {})[n - 1], args[n + 1])
BY PassingStep

LEMMA NothingReads ==
  ASSUME NEW tbl, Sound(tbl)
  PROVE  Reads(tbl, Nothing(tbl)) /\ Ready(Nothing(tbl))
<1>1. [i \in DOMAIN tbl |-> <<>>] \in [DOMAIN tbl -> Seq(Args)] /\ 0 \in 0..Len(tbl) /\ <<>> \in Seq(Args)
  BY DEF Sound
<1>. QED  BY <1>1 DEF Nothing, Reads, Ready

LEMMA PassingReads ==
  ASSUME NEW tbl, Sound(tbl), NEW args \in Seq(Args), args # <<>>, NEW passed, NEW n \in 0..(Len(args) - 1)
  PROVE  Reads(tbl, Readings(tbl, args, passed)[n])
<1> DEFINE R == Readings(tbl, args, passed)
           S == {k \in Nat : k \in 0..(Len(args) - 1) => Reads(tbl, R[k])}
<1>1. 0 \in S
  BY NothingReads, PassingStep
<1>2. ASSUME NEW k \in Nat, k \in S PROVE k + 1 \in S
  <2>1. SUFFICES ASSUME k + 1 \in 0..(Len(args) - 1) PROVE Reads(tbl, R[k + 1])
    BY <1>2
  <2>2. /\ Len(args) \in Nat /\ k \in 0..(Len(args) - 1) /\ k + 1 \in 1..(Len(args) - 1)
        /\ (k + 1) - 1 = k /\ (k + 1) + 1 \in DOMAIN args
    BY <2>1
  <2>3. Reads(tbl, R[k]) /\ args[(k + 1) + 1] \in Args
    BY <1>2, <2>2
  <2>4. R[0] = Nothing(tbl) /\ \A m \in 1..(Len(args) - 1) :
          /\ m + 1 \in passed => R[m] = R[m - 1]
          /\ m + 1 \notin passed => R[m] = Read(tbl, R[m - 1], args[m + 1])
    <3> USE PassingStep
    <3>. QED  OBVIOUS
  <2>5. R[k + 1] = R[k] \/ R[k + 1] = Read(tbl, R[k], args[(k + 1) + 1])
    <3> HIDE DEF R
    <3>. QED  BY <2>2, <2>4
  <2> HIDE DEF R
  <2>. QED  BY <2>3, <2>5, ReadIs
<1> HIDE DEF S
<1>3. Nat \subseteq S
  BY <1>1, <1>2, Onwards
<1>. QED  BY <1>3 DEF S

LEMMA ReadingsRead ==
  ASSUME NEW tbl, Sound(tbl), NEW args \in Seq(Args), args # <<>>, NEW n \in 0..(Len(args) - 1)
  PROVE  Reads(tbl, Readings(tbl, args, {})[n])
BY PassingReads

\* The arguments of one reading are among those of each later one.
LEMMA ReadingsGrow ==
  ASSUME NEW tbl, Sound(tbl), NEW args \in Seq(Args), args # <<>>,
         NEW n \in 0..(Len(args) - 1), NEW m \in n..(Len(args) - 1)
  PROVE  Grows(tbl, Readings(tbl, args, {})[n], Readings(tbl, args, {})[m])
<1> DEFINE R == Readings(tbl, args, {})
           S == {k \in Nat : k \in n..(Len(args) - 1) => Grows(tbl, R[n], R[k])}
<1>0. Len(args) \in Nat /\ \A k \in 0..(Len(args) - 1) : Reads(tbl, R[k])
  BY ReadingsRead
<1>1. Grows(tbl, R[n], R[n])
  <2> HIDE DEF R
  <2>. QED  BY <1>0, SameGrows
<1>2. ASSUME NEW k \in Nat, k \in S PROVE k + 1 \in S
  <2>1. SUFFICES ASSUME k + 1 \in n..(Len(args) - 1) PROVE Grows(tbl, R[n], R[k + 1])
    BY <1>2
  <2>2. CASE k + 1 = n
    BY <1>1, <2>2
  <2>3. CASE k + 1 # n
    <3>1. /\ k \in n..(Len(args) - 1) /\ k \in 0..(Len(args) - 1) /\ k + 1 \in 1..(Len(args) - 1)
          /\ (k + 1) - 1 = k /\ (k + 1) + 1 \in DOMAIN args /\ k + 1 \in 0..(Len(args) - 1)
      BY <1>0, <2>1, <2>3
    <3>2. Grows(tbl, R[n], R[k]) /\ Reads(tbl, R[n]) /\ Reads(tbl, R[k]) /\ Reads(tbl, R[k + 1])
          /\ args[(k + 1) + 1] \in Args
      BY <1>0, <1>2, <3>1
    <3>3. R[k + 1] = Read(tbl, R[k], args[(k + 1) + 1])
      BY <3>1, ReadingsStep
    <3> HIDE DEF R
    <3>4. Grows(tbl, R[k], R[k + 1])
      BY <3>2, <3>3, ReadIs
    <3>. QED  BY <3>2, <3>4, GrowsOn
  <2>. QED  BY <2>2, <2>3
<1>3. 0 \in S
  <2>1. 0 \in n..(Len(args) - 1) => 0 = n
    BY <1>0
  <2>. QED  BY <1>1, <2>1
<1> HIDE DEF S
<1>4. Nat \subseteq S
  BY <1>2, <1>3, Onwards
<1>. QED  BY <1>4 DEF S

\* b is a with the words that come from argument e + 1 on, up to n.
Later(args, a, e, n, b) ==
  /\ b.over /\ b.wait = 0 /\ b.bad = a.bad /\ b.args = a.args
  /\ b.words = [k \in 1..(n + 1 - e) |-> args[e + k]]

\* Once options are over all that follows are words.
LEMMA ReadingsOver ==
  ASSUME NEW tbl, Sound(tbl), NEW args \in Seq(Args), args # <<>>,
         NEW n \in 0..(Len(args) - 1), NEW m \in n..(Len(args) - 1), NEW e \in 1..(n + 1),
         Later(args, Readings(tbl, args, {})[n], e, n, Readings(tbl, args, {})[n])
  PROVE  Later(args, Readings(tbl, args, {})[n], e, m, Readings(tbl, args, {})[m])
<1> DEFINE R == Readings(tbl, args, {})
           S == {k \in Nat : k \in n..(Len(args) - 1) => Later(args, R[n], e, k, R[k])}
<1>0. Len(args) \in Nat /\ \A k \in 0..(Len(args) - 1) : Reads(tbl, R[k])
  BY ReadingsRead
<1>2. ASSUME NEW k \in Nat, k \in S PROVE k + 1 \in S
  <2>1. SUFFICES ASSUME k + 1 \in n..(Len(args) - 1) PROVE Later(args, R[n], e, k + 1, R[k + 1])
    BY <1>2
  <2>2. CASE k + 1 = n
    BY <2>2
  <2>3. CASE k + 1 # n
    <3>1. /\ k \in n..(Len(args) - 1) /\ k \in 0..(Len(args) - 1) /\ k + 1 \in 1..(Len(args) - 1)
          /\ (k + 1) - 1 = k /\ (k + 1) + 1 \in DOMAIN args /\ k + 1 \in 0..(Len(args) - 1)
      BY <1>0, <2>1, <2>3
    <3>2. Later(args, R[n], e, k, R[k]) /\ Reads(tbl, R[k]) /\ args[(k + 1) + 1] \in Args
      BY <1>0, <1>2, <3>1
    <3>3. R[k + 1] = Read(tbl, R[k], args[(k + 1) + 1])
      BY <3>1, ReadingsStep
    <3> HIDE DEF R
    <3>4. R[k].over
      BY <3>2 DEF Later
    <3>5. Worded(R[k], args[(k + 1) + 1], R[k + 1])
      BY <3>2, <3>3, <3>4, ReadIs
    <3>6. R[k + 1].words = Append([i \in 1..(k + 1 - e) |-> args[e + i]], args[(k + 1) + 1])
      BY <3>2, <3>5 DEF Later, Worded
    <3>7. Append([i \in 1..(k + 1 - e) |-> args[e + i]], args[(k + 1) + 1])
            = [i \in 1..((k + 1) + 1 - e) |-> args[e + i]]
      <4>1. k + 1 - e \in Nat /\ (k + 1) + 1 - e = (k + 1 - e) + 1 /\ e + ((k + 1 - e) + 1) = (k + 1) + 1
        BY <3>1
      <4> DEFINE p == k + 1 - e
      <4> HIDE DEF p
      <4>2. Append([i \in 1..p |-> args[e + i]], args[e + (p + 1)]) = [i \in 1..(p + 1) |-> args[e + i]]
        BY <4>1 DEF p
      <4>. QED  BY <4>1, <4>2 DEF p
    <3>. QED  BY <3>2, <3>5, <3>6, <3>7 DEF Later, Worded
  <2>. QED  BY <2>2, <2>3
<1>3. 0 \in S
  <2>1. 0 \in n..(Len(args) - 1) => 0 = n
    BY <1>0
  <2>. QED  BY <2>1
<1> HIDE DEF S
<1>4. Nat \subseteq S
  BY <1>2, <1>3, Onwards
<1>. QED  BY <1>4 DEF S

\* Lines that are not right.
LEMMA WrongBad ==
  ASSUME NEW tbl, NEW args, Meaning(tbl, args).bad \/ Meaning(tbl, args).wait # 0
  PROVE  ~Right(tbl, args)
BY DEF Right

LEMMA WrongArgs ==
  ASSUME NEW tbl, Sound(tbl), NEW args, Reads(tbl, Meaning(tbl, args)), Fails(tbl, Meaning(tbl, args))
  PROVE  ~Right(tbl, args)
<1> DEFINE m == Meaning(tbl, args)
<1>1. CASE m.bad
  BY <1>1, WrongBad
<1>2. CASE ~m.bad
  <2> HIDE DEF m
  <2>1. PICK i \in DOMAIN tbl :
          /\ ~Untagged(tbl[i])
          /\ \/ Len(m.args[i]) > 1
             \/ \E k \in 1..Len(m.args[i]) : Scan(tbl[i], 0, m.args[i][k]).error # ""
    BY <1>2 DEF Fails, m
  <2>2. ArgsOf(tbl, m)[i] = m.args[i]
    BY <2>1 DEF ArgsOf
  <2>3. tbl[i].min = 0 /\ tbl[i].max = 1
    BY <2>1 DEF Sound
  <2>4. m.args[i] \in Seq(Args)
    BY DEF Reads, m
  <2>5. ~(/\ Len(m.args[i]) \in 0..1
          /\ \A k \in DOMAIN m.args[i] : Scan(tbl[i], 0, m.args[i][k]).error = "")
    <3> DEFINE x == m.args[i]
               ok(v) == Scan(tbl[i], 0, v).error = ""
    <3>1. x \in Seq(Args) /\ (Len(x) > 1 \/ \E k \in 1..Len(x) : ~ok(x[k]))
      BY <2>1, <2>4
    <3> HIDE DEF x, ok
    <3>2. ~(Len(x) \in 0..1 /\ \A k \in DOMAIN x : ok(x[k]))
      BY <3>1
    <3>. QED  BY <3>2 DEF x, ok
  <2>. QED  BY <2>2, <2>3, <2>5 DEF Right, m
<1>. QED  BY <1>1, <1>2

LEMMA WrongSoon ==
  ASSUME NEW tbl, Sound(tbl), NEW args \in Seq(Args), args # <<>>, NEW n \in 0..(Len(args) - 1),
         Fails(tbl, Readings(tbl, args, {})[n])
  PROVE  ~Right(tbl, args)
<1> DEFINE m == Len(args) - 1
<1>1. m \in n..(Len(args) - 1) /\ m \in 0..(Len(args) - 1)
  OBVIOUS
<1>2. Meaning(tbl, args) = Readings(tbl, args, {})[m]
  BY DEF Meaning, MeaningBut
<1> HIDE DEF m
<1>3. Reads(tbl, Readings(tbl, args, {})[n]) /\ Reads(tbl, Readings(tbl, args, {})[m])
  BY <1>1, ReadingsRead
<1>4. Grows(tbl, Readings(tbl, args, {})[n], Readings(tbl, args, {})[m])
  BY <1>1, ReadingsGrow
<1>. QED  BY <1>2, <1>3, <1>4, FailsOn, WrongArgs

-------------------------------------------------------------------------------
\* The letters of a group, one after the other.

LEMMA TimesFirst ==
  ASSUME NEW tbl, NEW letters \in Args, NEW q \in 0..Len(letters), NEW i
  PROVE  /\ SubSeq(letters, 1, q) \in Args
         /\ Times(tbl, SubSeq(letters, 1, q), i) = Cardinality({k \in 1..q : ShortOption(tbl, letters[k]) = i})
<1> DEFINE first == SubSeq(letters, 1, q)
<1>1. /\ first \in Args /\ Len(first) = q
      /\ \A k \in 1..q : first[k] = letters[k]
  <2>1. 1 \in Nat \ {0} /\ q \in Nat /\ q <= Len(letters) /\ Len(letters) \in Nat
    BY ArgLength
  <2>2. /\ SubSeq(letters, 1, q) \in Args
        /\ Len(SubSeq(letters, 1, q)) = IF 1 <= q THEN q - 1 + 1 ELSE 0
        /\ \A k \in 1..(q - 1 + 1) : SubSeq(letters, 1, q)[k] = letters[1 + k - 1]
    BY <2>1, Cut
  <2>3. \A k \in 1..q : k \in 1..(q - 1 + 1) /\ 1 + k - 1 = k
    BY <2>1
  <2>. QED  BY <2>1, <2>2, <2>3
<1> HIDE DEF first
<1>2. DOMAIN first = 1..q
  BY <1>1 DEF Args
<1>3. {k \in DOMAIN first : ShortOption(tbl, first[k]) = i} = {k \in 1..q : ShortOption(tbl, letters[k]) = i}
  BY <1>1, <1>2
<1>. QED  BY <1>1, <1>3 DEF first, Times

LEMMA TimesStep ==
  ASSUME NEW tbl, NEW letters \in Args, NEW q \in 0..(Len(letters) - 1), NEW i
  PROVE  Times(tbl, SubSeq(letters, 1, q + 1), i) =
           Times(tbl, SubSeq(letters, 1, q), i) + IF ShortOption(tbl, letters[q + 1]) = i THEN 1 ELSE 0
<1> DEFINE is(n) == {k \in 1..n : ShortOption(tbl, letters[k]) = i}
<1>1. q \in 0..Len(letters) /\ q + 1 \in 0..Len(letters) /\ Len(letters) \in Nat
  BY ArgLength
<1>2. /\ Times(tbl, SubSeq(letters, 1, q), i) = Cardinality(is(q))
      /\ Times(tbl, SubSeq(letters, 1, q + 1), i) = Cardinality(is(q + 1))
  BY <1>1, TimesFirst
<1>3. IsFiniteSet(is(q)) /\ Cardinality(is(q)) \in Nat
  <2>1. IsFiniteSet(1..q)
    BY <1>1, FS_Interval
  <2>2. IsFiniteSet(is(q))
    BY <2>1, FS_Subset
  <2> HIDE DEF is
  <2>. QED  BY <2>2, FS_CardinalityType
<1>4. CASE ShortOption(tbl, letters[q + 1]) = i
  <2>1. is(q + 1) = is(q) \cup {q + 1} /\ q + 1 \notin is(q)
    BY <1>1, <1>4
  <2> HIDE DEF is
  <2>. QED  BY <1>2, <1>3, <1>4, <2>1, FS_AddElement
<1>5. CASE ShortOption(tbl, letters[q + 1]) # i
  <2>1. is(q + 1) = is(q)
    BY <1>1, <1>5
  <2> HIDE DEF is
  <2>. QED  BY <1>2, <1>3, <1>5, <2>1
<1>. QED  BY <1>4, <1>5

\* A reading, with the options of the first q letters.
LEMMA PartIs ==
  ASSUME NEW tbl, Sound(tbl), NEW acc, Reads(tbl, acc), NEW letters \in Args, NEW q \in 0..Len(letters)
  PROVE  /\ Reads(tbl, Part(tbl, acc, letters, q)) /\ Grows(tbl, acc, Part(tbl, acc, letters, q))
         /\ GivesAll(tbl, acc, SubSeq(letters, 1, q), Part(tbl, acc, letters, q))
<1>1. SubSeq(letters, 1, q) \in Args
  BY TimesFirst
<1>. QED  BY <1>1, GiveAllIs DEF Part

LEMMA PartNone ==
  ASSUME NEW tbl, Sound(tbl), NEW acc, Reads(tbl, acc), NEW letters \in Args
  PROVE  Part(tbl, acc, letters, 0).args = acc.args
<1>1. 0 \in 0..Len(letters)
  BY ArgLength
<1>2. GivesAll(tbl, acc, SubSeq(letters, 1, 0), Part(tbl, acc, letters, 0))
  BY <1>1, PartIs
<1>3. \A i : Times(tbl, SubSeq(letters, 1, 0), i) = 0
  <2>1. SUFFICES ASSUME NEW i PROVE Times(tbl, SubSeq(letters, 1, 0), i) = 0
    OBVIOUS
  <2>2. {k \in 1..0 : ShortOption(tbl, letters[k]) = i} = {}
    OBVIOUS
  <2>. QED  BY <1>1, <2>2, TimesFirst, FS_EmptySet
<1>4. acc.args \in [DOMAIN tbl -> Seq(Args)]
  BY DEF Reads
<1>5. \A i \in DOMAIN tbl : acc.args[i] \o [k \in 1..0 |-> <<>>] = acc.args[i]
  <2>1. SUFFICES ASSUME NEW i \in DOMAIN tbl PROVE acc.args[i] \o [k \in 1..0 |-> <<>>] = acc.args[i]
    OBVIOUS
  <2>2. [k \in 1..0 |-> <<>>] = <<>>
    OBVIOUS
  <2>. QED  BY <1>4, <2>2
<1>6. Part(tbl, acc, letters, 0).args = [i \in DOMAIN tbl |-> acc.args[i] \o [k \in 1..0 |-> <<>>]]
  BY <1>2, <1>3 DEF GivesAll
<1>. QED  BY <1>4, <1>5, <1>6

\* Behind a sequence, one more of the same.
LEMMA OneMoreEmpty ==
  ASSUME NEW x \in Seq(Args), NEW t \in Nat
  PROVE  x \o [k \in 1..(t + 1) |-> <<>>] = Append(x \o [k \in 1..t |-> <<>>], <<>>)
<1> DEFINE y == [k \in 1..t |-> <<>>]
           z == [k \in 1..(t + 1) |-> <<>>]
<1>1. <<>> \in Args
  BY DEF Args
<1>2. y \in Seq(Args) /\ z \in Seq(Args) /\ z = Append(y, <<>>)
  BY <1>1
<1> HIDE DEF y, z
<1>3. x \o Append(y, <<>>) = Append(x \o y, <<>>)
  BY <1>1, <1>2
<1>. QED  BY <1>2, <1>3 DEF y, z

\* b is a with one more argument of entry i.
OneMore(a, i, v, b) == b = [a EXCEPT ![i] = Append(@, v)]

LEMMA PartStep ==
  ASSUME NEW tbl, Sound(tbl), NEW acc, Reads(tbl, acc), NEW letters \in Args,
         NEW q \in 0..(Len(letters) - 1), NEW i \in DOMAIN tbl, ShortOption(tbl, letters[q + 1]) = i
  PROVE  OneMore(Part(tbl, acc, letters, q).args, i, <<>>, Part(tbl, acc, letters, q + 1).args)
<1> DEFINE t(n, j) == Times(tbl, SubSeq(letters, 1, n), j)
           a == Part(tbl, acc, letters, q).args
           b == Part(tbl, acc, letters, q + 1).args
<1>1. q \in 0..Len(letters) /\ q + 1 \in 0..Len(letters) /\ Len(letters) \in Nat
  BY ArgLength
<1>2. /\ a = [j \in DOMAIN tbl |-> acc.args[j] \o [k \in 1..t(q, j) |-> <<>>]]
      /\ b = [j \in DOMAIN tbl |-> acc.args[j] \o [k \in 1..t(q + 1, j) |-> <<>>]]
  <2>1. GivesAll(tbl, acc, SubSeq(letters, 1, q), Part(tbl, acc, letters, q))
    BY <1>1, PartIs
  <2>2. GivesAll(tbl, acc, SubSeq(letters, 1, q + 1), Part(tbl, acc, letters, q + 1))
    BY <1>1, PartIs
  <2>. QED  BY <2>1, <2>2 DEF GivesAll
<1>3. \A j \in DOMAIN tbl : t(q, j) \in Nat /\ t(q + 1, j) = IF j = i THEN t(q, j) + 1 ELSE t(q, j)
  <2>1. SUFFICES ASSUME NEW j \in DOMAIN tbl
                 PROVE  t(q, j) \in Nat /\ t(q + 1, j) = IF j = i THEN t(q, j) + 1 ELSE t(q, j)
    OBVIOUS
  <2>2. SubSeq(letters, 1, q) \in Args
    BY <1>1, TimesFirst
  <2>3. t(q, j) \in Nat
    BY <2>2, TimesIs
  <2>4. t(q + 1, j) = t(q, j) + IF ShortOption(tbl, letters[q + 1]) = j THEN 1 ELSE 0
    BY TimesStep
  <2> HIDE DEF a, b, t
  <2>. QED  BY <2>3, <2>4
<1>4. acc.args \in [DOMAIN tbl -> Seq(Args)]
  BY DEF Reads
<1> HIDE DEF a, b, t
<1>5. \A j \in DOMAIN tbl : b[j] = IF j = i THEN Append(a[j], <<>>) ELSE a[j]
  <2>1. SUFFICES ASSUME NEW j \in DOMAIN tbl PROVE b[j] = IF j = i THEN Append(a[j], <<>>) ELSE a[j]
    OBVIOUS
  <2>2. acc.args[j] \in Seq(Args) /\ t(q, j) \in Nat
    BY <1>3, <1>4
  <2>3. acc.args[j] \o [k \in 1..(t(q, j) + 1) |-> <<>>] = Append(acc.args[j] \o [k \in 1..t(q, j) |-> <<>>], <<>>)
    BY <2>2, OneMoreEmpty
  <2>. QED  BY <1>2, <1>3, <2>3
<1>6. DOMAIN a = DOMAIN tbl /\ DOMAIN b = DOMAIN tbl /\ a = [j \in DOMAIN tbl |-> a[j]] /\ b = [j \in DOMAIN tbl |-> b[j]]
  BY <1>2
<1>7. b = [a EXCEPT ![i] = Append(@, <<>>)]
  BY <1>5, <1>6
<1>. QED  BY <1>7 DEF a, b, OneMore

\* More letters give more.
LEMMA PartGrows ==
  ASSUME NEW tbl, Sound(tbl), NEW acc, Reads(tbl, acc), NEW letters \in Args,
         NEW p \in 0..Len(letters), NEW q \in 0..p
  PROVE  Grows(tbl, Part(tbl, acc, letters, q), Part(tbl, acc, letters, p))
<1> DEFINE a == Part(tbl, acc, letters, q)
           b == Part(tbl, acc, letters, p)
           t(n, j) == Times(tbl, SubSeq(letters, 1, n), j)
<1>1. q \in 0..Len(letters) /\ Len(letters) \in Nat /\ q \in Nat /\ p \in Nat /\ q <= p
  BY ArgLength
<1>2. /\ a.args = [j \in DOMAIN tbl |-> acc.args[j] \o [k \in 1..t(q, j) |-> <<>>]]
      /\ b.args = [j \in DOMAIN tbl |-> acc.args[j] \o [k \in 1..t(p, j) |-> <<>>]]
      /\ a.bad = b.bad
  <2>1. GivesAll(tbl, acc, SubSeq(letters, 1, q), a)
    BY <1>1, PartIs
  <2>2. GivesAll(tbl, acc, SubSeq(letters, 1, p), b)
    BY PartIs
  <2>. QED  BY <2>1, <2>2 DEF GivesAll
<1>3. \A j \in DOMAIN tbl : t(q, j) \in Nat /\ t(p, j) \in Nat /\ t(q, j) <= t(p, j)
  <2>1. SUFFICES ASSUME NEW j \in DOMAIN tbl
                 PROVE  t(q, j) \in Nat /\ t(p, j) \in Nat /\ t(q, j) <= t(p, j)
    OBVIOUS
  <2> DEFINE is(n) == {k \in 1..n : ShortOption(tbl, letters[k]) = j}
  <2>2. t(q, j) = Cardinality(is(q)) /\ t(p, j) = Cardinality(is(p))
    BY <1>1, TimesFirst
  <2>3. IsFiniteSet(1..p)
    BY <1>1, FS_Interval
  <2>4. is(q) \subseteq is(p) /\ is(p) \subseteq 1..p
    BY <1>1
  <2> HIDE DEF is, t
  <2>5. IsFiniteSet(is(p)) /\ IsFiniteSet(is(q))
    BY <2>3, <2>4, FS_Subset
  <2>6. Cardinality(is(q)) <= Cardinality(is(p)) /\ Cardinality(is(q)) \in Nat /\ Cardinality(is(p)) \in Nat
    BY <2>4, <2>5, FS_Subset, FS_CardinalityType
  <2>. QED  BY <2>2, <2>6
<1>4. acc.args \in [DOMAIN tbl -> Seq(Args)] /\ <<>> \in Args
  BY DEF Reads, Args
<1> HIDE DEF a, b, t
<1>5. ASSUME NEW j \in DOMAIN tbl
      PROVE  /\ Len(a.args[j]) <= Len(b.args[j])
             /\ \A k \in 1..Len(a.args[j]) : b.args[j][k] = a.args[j][k]
  <2> DEFINE x == acc.args[j]
             n == t(q, j)
             m == t(p, j)
             y == [k \in 1..n |-> <<>>]
             z == [k \in 1..m |-> <<>>]
  <2>1. x \in Seq(Args) /\ n \in Nat /\ m \in Nat /\ n <= m
    BY <1>3, <1>4
  <2> HIDE DEF x, n, m
  <2>2. y \in Seq(Args) /\ z \in Seq(Args) /\ Len(y) = n /\ Len(z) = m /\ \A k \in 1..n : z[k] = y[k]
    BY <1>4, <2>1
  <2> HIDE DEF y, z
  <2>3. Len(x \o y) <= Len(x \o z) /\ \A k \in 1..Len(x \o y) : (x \o z)[k] = (x \o y)[k]
    BY <2>1, <2>2
  <2>4. a.args[j] = x \o y /\ b.args[j] = x \o z
    BY <1>2 DEF x, y, z, n, m
  <2>. QED  BY <2>3, <2>4
<1>6. Grows(tbl, a, b)
  BY <1>2, <1>5 DEF Grows
<1>. QED  BY <1>6 DEF a, b

-------------------------------------------------------------------------------
\* Errors and values.

LEMMA RegisterIs ==
  ASSUME errors \in Nat, NEW n \in Nat, Register(n)
  PROVE  errors' \in Nat /\ (errors' = 0 <=> errors = 0 /\ n = 0)
BY ArgTableAssumption DEF Register

LEMMA Counted ==
  ASSUME NEW before \in Nat, NEW ok \in BOOLEAN, NEW n, n = IF ok THEN before ELSE before + 1
  PROVE  n \in Nat /\ (n = 0 <=> before = 0 /\ ok)
OBVIOUS

\* What a scan function does to the errors and the values, if it is called.
Takes(i, s, before) ==
  /\ errors' \in Nat /\ (errors' = 0 <=> errors = 0 /\ before = 0 /\ s.error = "")
  /\ got' = IF s.error = "" THEN [got EXCEPT ![i] = Append(@, s.value)] ELSE got

LEMMA TakeIs ==
  ASSUME errors \in Nat, NEW i, NEW arg, NEW before \in Nat, Take(i, arg, before)
  PROVE  Takes(i, Scan(table[i], Len(got[i]), arg), before)
<1> DEFINE s == Scan(table[i], Len(got[i]), arg)
           n == IF s.error = "" THEN before ELSE before + 1
<1>1. /\ got' = IF s.error = "" THEN [got EXCEPT ![i] = Append(@, s.value)] ELSE got
      /\ Register(n)
  BY DEF Take
<1>2. n \in Nat /\ (n = 0 <=> before = 0 /\ s.error = "")
  <2> DEFINE ok == s.error = ""
  <2>1. n = (IF ok THEN before ELSE before + 1) /\ ok \in BOOLEAN
    OBVIOUS
  <2> HIDE DEF n, ok
  <2>2. n \in Nat /\ (n = 0 <=> before = 0 /\ ok)
    BY <2>1, Counted
  <2>. QED  BY <2>2 DEF ok
<1> HIDE DEF n
<1>3. errors' \in Nat /\ (errors' = 0 <=> errors = 0 /\ n = 0)
  BY <1>1, <1>2, RegisterIs
<1>. QED  BY <1>1, <1>2, <1>3 DEF Takes

LEMMA TakesOne ==
  ASSUME NEW i, NEW s, errors = 0, Takes(i, s, 0)
  PROVE  /\ s.error = "" => errors' = 0 /\ got' = [got EXCEPT ![i] = Append(@, s.value)]
         /\ s.error # "" => errors' # 0
BY Zenon DEF Takes

\* An entry of an option takes one value.
LEMMA ScanFull ==
  ASSUME NEW e, e.max = 1, NEW v
  PROVE  Scan(e, 1, v).error # ""
BY DEF Scan, Refused

\* They come twice, or one is of another kind.
Spoils(e, as) ==
  Len(as) > 1 \/ \E k \in 1..Len(as) : Scan(e, 0, as[k]).error # ""

LEMMA MatchMore ==
  ASSUME NEW e, e.max = 1, NEW values, NEW args \in Seq(Args), NEW v \in Args, Match(e, values, args),
         NEW s, s = Scan(e, Len(values), v)
  PROVE  /\ s.error = "" => Match(e, Append(values, s.value), Append(args, v))
         /\ s.error # "" => Spoils(e, Append(args, v))
<1>1. CASE values = <<>> /\ args = <<>>
  <2>1. Len(values) = 0 /\ Append(args, v) = <<v>> /\ Append(values, s.value) = <<s.value>>
    BY <1>1
  <2>2. Len(Append(args, v)) = 1 /\ Append(args, v)[1] = v
    BY <2>1
  <2>3. s = Scan(e, 0, v)
    BY <2>1
  <2>4. s.error = "" => Match(e, <<s.value>>, <<v>>)
    <3> DEFINE w == <<v>>
    <3>1. Len(w) = 1 /\ w[1] = v
      OBVIOUS
    <3> HIDE DEF w
    <3>2. s.error = "" => Match(e, <<s.value>>, w)
      BY <2>3, <3>1 DEF Match
    <3>. QED  BY <3>2 DEF w
  <2>5. s.error # "" => \E k \in 1..Len(Append(args, v)) : Scan(e, 0, Append(args, v)[k]).error # ""
    <3>1. 1 \in 1..Len(Append(args, v))
      BY <2>2
    <3>. QED  BY <2>2, <2>3, <3>1
  <2>. QED  BY <2>1, <2>4, <2>5 DEF Spoils
<1>2. CASE Len(args) = 1 /\ values = <<Scan(e, 0, args[1]).value>>
  <2>1. Len(values) = 1
    <3> DEFINE w == Scan(e, 0, args[1]).value
    <3>1. values = <<w>>
      BY <1>2
    <3> HIDE DEF w
    <3>. QED  BY <3>1
  <2>2. s.error # ""
    BY <2>1, ScanFull
  <2>3. Len(Append(args, v)) > 1
    <3>1. Len(args) = 1
      BY <1>2
    <3>2. Len(Append(args, v)) = Len(args) + 1
      OBVIOUS
    <3>. QED  BY <3>1, <3>2
  <2>. QED  BY <2>2, <2>3 DEF Spoils
<1>. QED  BY <1>1, <1>2 DEF Match

-------------------------------------------------------------------------------
\* One option, where the line is still good.

LEMMA HereIs ==
  ASSUME ParseTyped, optind < limit
  PROVE  /\ Sound(table) /\ vector \in Seq(Args) /\ vector # <<>> /\ Len(vector) \in Nat
         /\ This \in Args /\ optind \in 1..(Len(vector) - 1) /\ limit \in 1..Len(vector)
         /\ Reads(table, After(optind - 1)) /\ Reads(table, After(optind))
         /\ After(optind) = Read(table, After(optind - 1), This)
<1>1. /\ Sound(table) /\ vector \in Seq(Args) /\ vector # <<>>
      /\ optind \in 1..Len(vector) /\ limit \in 1..Len(vector)
  BY DEF ParseTyped
<1>2. Len(vector) \in Nat /\ optind \in 1..(Len(vector) - 1)
  BY <1>1
<1>3. optind - 1 \in 0..(Len(vector) - 1) /\ optind \in 0..(Len(vector) - 1) /\ optind + 1 \in DOMAIN vector
  BY <1>1, <1>2
<1>4. Reads(table, After(optind - 1)) /\ Reads(table, After(optind))
  BY <1>1, <1>3, ReadingsRead DEF After
<1>5. After(optind) = Read(table, After(optind - 1), This)
  BY <1>1, <1>2, ReadingsStep DEF After, This
<1>6. This \in Args
  BY <1>1, <1>3 DEF This
<1>. QED  BY <1>1, <1>2, <1>4, <1>5, <1>6

LEMMA NextIs ==
  ASSUME ParseTyped, optind < limit, optind + 1 # Len(vector)
  PROVE  /\ vector[optind + 2] \in Args /\ optind + 1 \in 1..(Len(vector) - 1)
         /\ Reads(table, After(optind + 1))
         /\ After(optind + 1) = Read(table, After(optind), vector[optind + 2])
<1>1. /\ Sound(table) /\ vector \in Seq(Args) /\ vector # <<>> /\ Len(vector) \in Nat
      /\ optind \in 1..(Len(vector) - 1)
  BY HereIs
<1>2. /\ optind + 1 \in 1..(Len(vector) - 1) /\ optind + 1 \in 0..(Len(vector) - 1)
      /\ (optind + 1) - 1 = optind /\ (optind + 1) + 1 = optind + 2 /\ optind + 2 \in DOMAIN vector
  BY <1>1
<1>3. Reads(table, After(optind + 1)) /\ vector[optind + 2] \in Args
  BY <1>1, <1>2, ReadingsRead DEF After
<1>4. After(optind + 1) = Read(table, After(optind), vector[optind + 2])
  BY <1>1, <1>2, ReadingsStep DEF After
<1>. QED  BY <1>2, <1>3, <1>4

\* A pass ends early only where no option stands.
LEMMA LastIs ==
  ASSUME ParseTyped, Edge, optind < limit, Ready(After(optind - 1)), IsOption(This)
  PROVE  limit = Len(vector) \/ optind + 1 < limit
<1>1. optind \in 1..(Len(vector) - 1) /\ limit \in 1..Len(vector) /\ Len(vector) \in Nat
  BY HereIs
<1>2. SUFFICES ASSUME limit # Len(vector), ~(optind + 1 < limit) PROVE FALSE
  OBVIOUS
<1>3. limit - 1 = optind
  BY <1>1, <1>2
<1>4. Ends(optind)
  BY <1>2, <1>3 DEF Edge
<1>5. optind # Len(vector)
  BY <1>1
<1>. QED  BY <1>4, <1>5 DEF Ends, Ready, This

\* A step that finds the line to be wrong, and one that calls the scan function of i.
Errs == errors' # 0 /\ Off(optind', place') /\ ~Fits

Took(a) ==
  \E i \in DOMAIN table, v \in Args :
    /\ ~Untagged(table[i]) /\ Take(i, v, 0)
    /\ On(optind', place', [a EXCEPT ![i] = Append(@, v)])

LEMMA LongCases ==
  ASSUME NEW arg, LongOption(arg), NEW i, i = LongOf(table, arg),
         NEW one, one = (Cardinality(LongMatches(table, NameOf(arg))) = 1)
  PROVE  \/ /\ ~(one /\ (HasValue(table[i]) \/ ~HasEqual(arg)))
            /\ Register(1) /\ optind' = optind + 1 /\ got' = got
         \/ /\ one /\ HasValue(table[i]) /\ ~HasEqual(arg) /\ optind + 1 = Len(vector)
            /\ Register(1) /\ optind' = optind + 1 /\ got' = got
         \/ /\ one /\ HasValue(table[i]) /\ ~HasEqual(arg) /\ optind + 1 # Len(vector)
            /\ Take(i, vector[optind + 2], IF vector[optind + 2] = <<>> THEN 1 ELSE 0)
            /\ optind' = optind + 2
         \/ /\ one /\ HasValue(table[i]) /\ HasEqual(arg)
            /\ Take(i, EqualValue(arg), IF EqualValue(arg) = <<>> THEN 1 ELSE 0)
            /\ optind' = optind + 1
         \/ /\ one /\ ~HasValue(table[i]) /\ ~HasEqual(arg)
            /\ Take(i, EqualValue(arg), 0) /\ optind' = optind + 1
<1> DEFINE known == one /\ (HasValue(table[i]) \/ ~HasEqual(arg))
           next == known /\ HasValue(table[i]) /\ ~HasEqual(arg)
           last == optind + 1 = Len(vector)
           value == IF next THEN vector[optind + 2] ELSE EqualValue(arg)
           before == IF HasValue(table[i]) /\ value = <<>> THEN 1 ELSE 0
<1>1. \/ ~known /\ Register(1) /\ optind' = optind + 1 /\ got' = got
      \/ next /\ last /\ Register(1) /\ optind' = optind + 1 /\ got' = got
      \/ /\ known /\ ~(next /\ last) /\ Take(i, value, before)
         /\ optind' = IF next THEN optind + 2 ELSE optind + 1
  BY DEF LongOption, LongOf
<1>2. CASE ~known \/ (next /\ last)
  BY <1>1, <1>2
<1>3. CASE known /\ next /\ ~last
  <2>1. value = vector[optind + 2] /\ before = IF vector[optind + 2] = <<>> THEN 1 ELSE 0
    BY <1>3
  <2>2. Take(i, value, before) /\ optind' = optind + 2
    BY <1>1, <1>3
  <2>. QED  BY <1>3, <2>1, <2>2
<1>4. CASE known /\ ~next
  <2>1. value = EqualValue(arg) /\ before = IF HasValue(table[i]) /\ EqualValue(arg) = <<>> THEN 1 ELSE 0
    BY <1>4
  <2>2. Take(i, value, before) /\ optind' = optind + 1
    BY <1>1, <1>4
  <2>3. CASE HasValue(table[i])
    BY <1>4, <2>1, <2>2, <2>3
  <2>4. CASE ~HasValue(table[i])
    <3>1. before = 0
      BY <2>1, <2>4
    <3>. QED  BY <1>4, <2>1, <2>2, <2>4, <3>1
  <2>. QED  BY <2>3, <2>4
<1>. QED  BY <1>2, <1>3, <1>4

\* Behind a bad option the line is wrong.
LEMMA BadErrs ==
  ASSUME ParseTyped, errors' # 0, place' = <<>>, NEW n \in 0..(Len(vector) - 1), optind' = n + 1, After(n).bad
  PROVE  Errs
<1>1. Sound(table) /\ vector \in Seq(Args) /\ vector # <<>>
  BY DEF ParseTyped
<1>2. Fails(table, Readings(table, vector, {})[n])
  BY DEF Fails, After
<1>3. ~Fits
  BY <1>1, <1>2, WrongSoon DEF Fits
<1>4. optind' - 1 = n
  OBVIOUS
<1>5. Off(optind', place')
  BY <1>4 DEF Off
<1>. QED  BY <1>3, <1>5 DEF Errs

\* So it is when it ends before a value that is due.
LEMMA WaitErrs ==
  ASSUME ParseTyped, errors' # 0, place' = <<>>, optind' = Len(vector), After(Len(vector) - 1).wait # 0
  PROVE  Errs
<1>1. Mean.wait # 0
  BY DEF Mean, Meaning, MeaningBut, After
<1>2. ~Fits
  BY <1>1, WrongBad DEF Fits, Mean
<1>3. Off(optind', place')
  BY DEF Off
<1>. QED  BY <1>2, <1>3 DEF Errs

\* An option with its value has been read.
LEMMA ReadyTook ==
  ASSUME NEW i \in DOMAIN table, ~Untagged(table[i]), NEW v \in Args, Take(i, v, 0), NEW a,
         place' = <<>>, NEW n \in Nat, optind' = n + 1, n + 1 <= limit, Ready(After(n)),
         After(n).args = [a EXCEPT ![i] = Append(@, v)]
  PROVE  Took(a)
<1>1. optind' - 1 = n /\ optind' <= limit
  OBVIOUS
<1>2. On(optind', place', [a EXCEPT ![i] = Append(@, v)])
  BY <1>1 DEF On
<1>. QED  BY <1>2 DEF Took

\* r is acc with the value that is due.
Values(acc, arg, r) ==
  /\ r.args = [acc.args EXCEPT ![acc.wait] = Append(@, arg)]
  /\ r.bad = (acc.bad \/ (acc.full /\ arg = <<>>)) /\ r.wait = 0 /\ ~r.over

LEMMA ValueIs ==
  ASSUME NEW tbl, Sound(tbl), NEW acc, Reads(tbl, acc), acc.wait # 0, NEW arg \in Args
  PROVE  Values(acc, arg, ReadValue(acc, arg))
<1>1. /\ ReadValue(acc, arg).args = [acc.args EXCEPT ![acc.wait] = Append(@, arg)]
      /\ ReadValue(acc, arg).bad = (acc.bad \/ (acc.full /\ arg = <<>>))
      /\ ReadValue(acc, arg).wait = 0 /\ ~ReadValue(acc, arg).over
  BY ReadValueIs
<1>. QED  BY <1>1 DEF Values

LEMMA LongMoves ==
  ASSUME ParseTyped, Edge, optind < limit, Ready(After(optind - 1)), IsLong(This), LongOption(This),
         place' = <<>>, NEW a, a = After(optind - 1).args
  PROVE  Errs \/ Took(a)
<1> DEFINE acc == After(optind - 1)
           r == After(optind)
           i == LongOf(table, This)
           one == Cardinality(LongMatches(table, NameOf(This))) = 1
           v == vector[optind + 2]
           w == EqualValue(This)
<1>1. /\ Sound(table) /\ vector \in Seq(Args) /\ vector # <<>> /\ Len(vector) \in Nat
      /\ This \in Args /\ optind \in 1..(Len(vector) - 1) /\ limit \in 1..Len(vector)
      /\ Reads(table, acc) /\ Reads(table, r) /\ r = Read(table, acc, This)
  BY HereIs
<1>2. ~acc.bad /\ acc.wait = 0 /\ ~acc.over /\ Len(This) > 2
  BY DEF Ready, IsLong
<1>3. r = ReadLong(table, acc, This)
  BY <1>1, <1>2, ReadLongOne
<1>4. /\ one => i \in DOMAIN table /\ ~Untagged(table[i])
      /\ ~one \/ (HasEqual(This) /\ ~(HasValue(table[i]) /\ w # <<>>)) => r = Spoilt(acc)
      /\ one /\ HasEqual(This) /\ HasValue(table[i]) /\ w # <<>> => r = Give(acc, i, w)
      /\ one /\ ~HasEqual(This) /\ HasValue(table[i]) => r = Await(acc, i, TRUE)
      /\ one /\ ~HasEqual(This) /\ ~HasValue(table[i]) => r = Give(acc, i, <<>>)
  <2> HIDE DEF acc, r, i, one, w
  <2>1. i = LongOf(table, This) /\ one = (Cardinality(LongMatches(table, NameOf(This))) = 1) /\ w = EqualValue(This)
    BY DEF i, one, w
  <2>. QED  BY <1>1, <1>2, <1>3, <2>1, ReadLongIs
<1>5. w \in Args /\ (~HasEqual(This) => w = <<>>) /\ <<>> \in Args
  BY <1>1, <1>2, NameTyped DEF Args
<1>6. limit = Len(vector) \/ optind + 1 < limit
  BY LastIs DEF IsLong
<1>7. \/ /\ ~(one /\ (HasValue(table[i]) \/ ~HasEqual(This)))
         /\ Register(1) /\ optind' = optind + 1 /\ got' = got
      \/ /\ one /\ HasValue(table[i]) /\ ~HasEqual(This) /\ optind + 1 = Len(vector)
         /\ Register(1) /\ optind' = optind + 1 /\ got' = got
      \/ /\ one /\ HasValue(table[i]) /\ ~HasEqual(This) /\ optind + 1 # Len(vector)
         /\ Take(i, v, IF v = <<>> THEN 1 ELSE 0)
         /\ optind' = optind + 2
      \/ /\ one /\ HasValue(table[i]) /\ HasEqual(This)
         /\ Take(i, w, IF w = <<>> THEN 1 ELSE 0)
         /\ optind' = optind + 1
      \/ /\ one /\ ~HasValue(table[i]) /\ ~HasEqual(This)
         /\ Take(i, w, 0) /\ optind' = optind + 1
  <2>1. one = (Cardinality(LongMatches(table, NameOf(This))) = 1) /\ i = LongOf(table, This)
    OBVIOUS
  <2> HIDE DEF one, i
  <2>. QED  BY <2>1, LongCases
<1> HIDE DEF acc, r, i, one, v, w
<1>8. errors \in Nat /\ optind \in 0..(Len(vector) - 1)
  BY <1>1 DEF ParseTyped
<1>9. ASSUME Register(1) PROVE errors' # 0
  <2>1. 1 \in Nat /\ 1 # 0
    OBVIOUS
  <2>. QED  BY <1>8, <1>9, <2>1, RegisterIs
<1>10. ASSUME NEW x, NEW before \in Nat, before # 0, Take(i, x, before) PROVE errors' # 0
  <2>1. Takes(i, Scan(table[i], Len(got[i]), x), before)
    BY <1>8, <1>10, TakeIs
  <2>. QED  BY <1>10, <2>1 DEF Takes
<1>11. ASSUME errors' # 0, optind' = optind + 1, r.bad PROVE Errs
  BY <1>8, <1>11, BadErrs DEF r
<1>12. ASSUME one, NEW x \in Args, Take(i, x, 0), r = Give(acc, i, x), optind' = optind + 1 PROVE Took(a)
  <2>1. i \in DOMAIN table /\ ~Untagged(table[i])
    BY <1>4, <1>12
  <2>2. Gives(acc, i, x, Give(acc, i, x))
    BY <1>1, <1>12, <2>1, GiveIs
  <2>3. r.args = [a EXCEPT ![i] = Append(@, x)] /\ Ready(r)
    BY <1>2, <1>12, <2>2 DEF Gives, Ready, acc
  <2>4. optind + 1 <= limit /\ optind \in Nat
    BY <1>1, <1>6
  <2>. QED  BY <1>12, <2>1, <2>3, <2>4, ReadyTook DEF r
<1>13. r = Spoilt(acc) => r.bad
  BY <1>1, SpoiltIs
<1>14. CASE ~(one /\ (HasValue(table[i]) \/ ~HasEqual(This))) /\ Register(1) /\ optind' = optind + 1
  <2>1. r = Spoilt(acc)
    BY <1>4, <1>14
  <2>. QED  BY <1>9, <1>11, <1>13, <1>14, <2>1
<1>15. CASE /\ one /\ HasValue(table[i]) /\ ~HasEqual(This) /\ optind + 1 = Len(vector)
            /\ Register(1) /\ optind' = optind + 1
  <2>1. r = Await(acc, i, TRUE) /\ i \in DOMAIN table /\ ~Untagged(table[i])
    BY <1>4, <1>15
  <2>2. Awaits(acc, i, TRUE, Await(acc, i, TRUE)) /\ i # 0
    <3>1. TRUE \in BOOLEAN /\ ~Untagged(table[i]) /\ HasValue(table[i]) /\ ~acc.over
      BY <1>2, <1>15, <2>1
    <3>2. i # 0
      BY <1>1, <2>1 DEF Sound
    <3>. QED  BY <1>1, <2>1, <3>1, <3>2, AwaitIs
  <2>3. r.wait # 0 /\ r = After(Len(vector) - 1)
    <3>1. Len(vector) - 1 = optind
      BY <1>8, <1>15
    <3>. QED  BY <2>1, <2>2, <3>1 DEF Awaits, r
  <2>. QED  BY <1>9, <1>15, <2>3, WaitErrs
<1>16. CASE /\ one /\ HasValue(table[i]) /\ ~HasEqual(This) /\ optind + 1 # Len(vector)
            /\ Take(i, v, IF v = <<>> THEN 1 ELSE 0) /\ optind' = optind + 2
  <2> DEFINE s == After(optind + 1)
  <2>1. r = Await(acc, i, TRUE) /\ i \in DOMAIN table /\ ~Untagged(table[i])
    BY <1>4, <1>16
  <2>2. Awaits(acc, i, TRUE, Await(acc, i, TRUE)) /\ i # 0
    <3>1. TRUE \in BOOLEAN /\ ~Untagged(table[i]) /\ HasValue(table[i]) /\ ~acc.over
      BY <1>2, <1>16, <2>1
    <3>2. i # 0
      BY <1>1, <2>1 DEF Sound
    <3>. QED  BY <1>1, <2>1, <3>1, <3>2, AwaitIs
  <2>3. v \in Args /\ optind + 1 \in 1..(Len(vector) - 1) /\ s = Read(table, r, v)
    BY <1>16, NextIs DEF v, r
  <2>4. r.wait = i /\ r.wait # 0 /\ r.full = TRUE /\ r.bad = acc.bad /\ r.args = acc.args
    BY <2>1, <2>2 DEF Awaits
  <2>5. s = ReadValue(r, v)
    BY <2>3, <2>4, ReadAwaited
  <2> HIDE DEF s
  <2>6. /\ s.args = [r.args EXCEPT ![r.wait] = Append(@, v)]
        /\ s.bad = (r.bad \/ (r.full /\ v = <<>>)) /\ s.wait = 0 /\ ~s.over
    <3>1. Sound(table) /\ Reads(table, r) /\ r.wait # 0 /\ v \in Args
      BY <1>1, <2>3, <2>4
    <3>2. Values(r, v, s)
      BY <2>5, <3>1, ValueIs
    <3>. QED  BY <3>2 DEF Values
  <2>7. /\ optind + 1 \in 0..(Len(vector) - 1) /\ optind + 1 \in Nat /\ optind' = (optind + 1) + 1
        /\ (optind + 1) + 1 <= limit
    BY <1>1, <1>6, <1>16, <2>3
  <2>8. CASE v = <<>>
    <3>1. Take(i, v, 1)
      BY <1>16, <2>8
    <3>2. errors' # 0
      <4>1. 1 \in Nat /\ 1 # 0
        OBVIOUS
      <4>. QED  BY <1>10, <3>1, <4>1
    <3>3. s.bad
      BY <2>4, <2>6, <2>8
    <3>. QED  BY <2>7, <3>2, <3>3, BadErrs DEF s
  <2>9. CASE v # <<>>
    <3>1. Take(i, v, 0)
      BY <1>16, <2>9
    <3>2. Ready(s) /\ s.args = [a EXCEPT ![i] = Append(@, v)]
      BY <1>2, <2>4, <2>6, <2>9 DEF Ready, acc
    <3>. QED  BY <2>1, <2>3, <2>7, <3>1, <3>2, ReadyTook DEF s
  <2>. QED  BY <2>8, <2>9
<1>17. CASE /\ one /\ HasValue(table[i]) /\ HasEqual(This)
            /\ Take(i, w, IF w = <<>> THEN 1 ELSE 0) /\ optind' = optind + 1
  <2>1. CASE w = <<>>
    <3>1. Take(i, w, 1) /\ r = Spoilt(acc)
      BY <1>4, <1>17, <2>1
    <3>2. errors' # 0
      <4>1. 1 \in Nat /\ 1 # 0
        OBVIOUS
      <4>. QED  BY <1>10, <3>1, <4>1
    <3>. QED  BY <1>11, <1>13, <1>17, <3>1, <3>2
  <2>2. CASE w # <<>>
    <3>1. Take(i, w, 0) /\ r = Give(acc, i, w)
      BY <1>4, <1>17, <2>2
    <3>. QED  BY <1>5, <1>12, <1>17, <3>1
  <2>. QED  BY <2>1, <2>2
<1>18. CASE /\ one /\ ~HasValue(table[i]) /\ ~HasEqual(This)
            /\ Take(i, w, 0) /\ optind' = optind + 1
  <2>1. w = <<>> /\ r = Give(acc, i, <<>>)
    BY <1>4, <1>5, <1>18
  <2>2. r = Give(acc, i, w)
    BY <2>1
  <2>. QED  BY <1>5, <1>12, <1>18, <2>2
<1>. QED  BY <1>7, <1>14, <1>15, <1>16, <1>17, <1>18

-------------------------------------------------------------------------------
\* One letter of a group, where the line is still good.

\* What is left of a group from its j-th letter on.
LettersOf(arg, j, letters) ==
  /\ letters \in Args /\ letters # <<>>
  /\ Head(letters) = Tail(arg)[j - 1] /\ Head(letters) = arg[j] /\ Head(letters) \in Syllables
  /\ Tail(letters) = SubSeq(arg, j + 1, Len(arg))
  /\ Tail(letters) = SubSeq(Tail(arg), j, Len(Tail(arg)))
  /\ Tail(letters) \in Args /\ (Tail(letters) = <<>> <=> j = Len(arg))
  /\ Tail(arg) \in Args /\ Len(Tail(arg)) = Len(arg) - 1 /\ j - 1 \in 1..Len(Tail(arg))

LEMMA LettersAt ==
  ASSUME NEW arg \in Args, NEW j \in 2..Len(arg), NEW letters, letters = SubSeq(arg, j, Len(arg))
  PROVE  LettersOf(arg, j, letters)
<1>1. arg \in Seq(Syllables) /\ Len(arg) \in Nat /\ Len(arg) > 1 /\ j \in Nat
  BY DEF Args
<1>2. /\ Tail(arg) \in Args /\ Len(Tail(arg)) = Len(arg) - 1
      /\ \A k \in 1..(Len(arg) - 1) : Tail(arg)[k] = arg[k + 1]
  BY <1>1, TailIs
<1>3. j \in Nat \ {0} /\ Len(arg) \in Nat /\ Len(arg) <= Len(arg) /\ j <= Len(arg)
  BY <1>1
<1>4. /\ letters \in Args /\ Len(letters) = Len(arg) - j + 1
      /\ \A k \in 1..(Len(arg) - j + 1) : letters[k] = arg[j + k - 1]
  BY <1>3, Cut
<1>5. letters # <<>> /\ Head(letters) = arg[j]
  <2>1. 1 \in 1..(Len(arg) - j + 1) /\ j + 1 - 1 = j /\ Len(arg) - j + 1 # 0
    BY <1>3
  <2>2. letters[1] = arg[j] /\ letters # <<>>
    BY <1>4, <2>1, ArgLength
  <2>3. Head(letters) = letters[1]
    BY <1>4, <2>2 DEF Args
  <2>. QED  BY <2>2, <2>3
<1>6. arg[j] \in Syllables /\ arg[j] = Tail(arg)[j - 1]
  <2>1. j - 1 \in 1..(Len(arg) - 1) /\ (j - 1) + 1 = j
    BY <1>1
  <2>2. arg[j] \in Syllables
    BY <1>1
  <2>. QED  BY <1>2, <2>1, <2>2
<1>7. /\ Tail(letters) \in Args /\ Len(Tail(letters)) = Len(arg) - j
      /\ \A k \in 1..(Len(arg) - j) : Tail(letters)[k] = arg[j + k]
  <2>1. /\ Tail(letters) \in Args /\ Len(Tail(letters)) = Len(letters) - 1
        /\ \A k \in 1..(Len(letters) - 1) : Tail(letters)[k] = letters[k + 1]
    BY <1>4, <1>5 DEF Args
  <2>2. \A k \in 1..(Len(arg) - j) : k + 1 \in 1..(Len(arg) - j + 1) /\ j + (k + 1) - 1 = j + k
    BY <1>3
  <2>3. Len(letters) - 1 = Len(arg) - j
    BY <1>3, <1>4
  <2>4. \A k \in 1..(Len(arg) - j) : Tail(letters)[k] = arg[j + k]
    BY <1>4, <2>1, <2>2, <2>3
  <2>. QED  BY <2>1, <2>3, <2>4
<1>8. Tail(letters) = SubSeq(arg, j + 1, Len(arg))
  <2> DEFINE x == Tail(letters)
             y == SubSeq(arg, j + 1, Len(arg))
  <2>1. j + 1 \in Nat \ {0} /\ Len(arg) - (j + 1) + 1 = Len(arg) - j /\ (~(j + 1 <= Len(arg)) => Len(arg) - j = 0)
    BY <1>3
  <2>2. /\ y \in Args /\ Len(y) = IF j + 1 <= Len(arg) THEN Len(arg) - (j + 1) + 1 ELSE 0
        /\ \A k \in 1..(Len(arg) - (j + 1) + 1) : y[k] = arg[(j + 1) + k - 1]
    BY <1>3, <2>1, Cut
  <2>3. \A k \in 1..(Len(arg) - j) : (j + 1) + k - 1 = j + k
    BY <1>3
  <2>4. Len(y) = Len(arg) - j /\ \A k \in 1..(Len(arg) - j) : y[k] = arg[j + k]
    <3>1. Len(y) = Len(arg) - j
      <4> HIDE DEF y
      <4>1. CASE j + 1 <= Len(arg)
        BY <2>1, <2>2, <4>1
      <4>2. CASE ~(j + 1 <= Len(arg))
        BY <2>1, <2>2, <4>2
      <4>. QED  BY <4>1, <4>2
    <3>2. ASSUME NEW k \in 1..(Len(arg) - j) PROVE y[k] = arg[j + k]
      <4> HIDE DEF y
      <4>1. k \in 1..(Len(arg) - (j + 1) + 1)
        BY <2>1
      <4>. QED  BY <2>2, <2>3, <4>1
    <3>. QED  BY <3>1, <3>2
  <2> HIDE DEF x, y
  <2>5. x \in Seq(Syllables) /\ y \in Seq(Syllables) /\ Len(x) = Len(y) /\ \A k \in 1..Len(x) : x[k] = y[k]
    BY <1>7, <2>2, <2>4 DEF x, Args
  <2>6. x = y
    BY <2>5
  <2>. QED  BY <2>6 DEF x, y
<1>9. Tail(letters) = SubSeq(Tail(arg), j, Len(Tail(arg)))
  <2> DEFINE x == Tail(letters)
             t == Tail(arg)
             y == SubSeq(t, j, Len(t))
  <2>1. Len(t) = Len(arg) - 1 /\ Len(t) \in Nat /\ Len(t) - j + 1 = Len(arg) - j /\ (~(j <= Len(t)) => Len(arg) - j = 0)
    BY <1>2, <1>3
  <2> HIDE DEF t
  <2>2. /\ y \in Args /\ Len(y) = IF j <= Len(t) THEN Len(t) - j + 1 ELSE 0
        /\ \A k \in 1..(Len(t) - j + 1) : y[k] = t[j + k - 1]
    <3>1. t \in Args /\ j \in Nat \ {0} /\ Len(t) \in Nat /\ Len(t) <= Len(t)
      BY <1>2, <1>3, <2>1 DEF t
    <3>. QED  BY <3>1, Cut
  <2>3. \A k \in 1..(Len(arg) - j) : j + k - 1 \in 1..(Len(arg) - 1) /\ (j + k - 1) + 1 = j + k
    BY <1>3
  <2>4. Len(y) = Len(arg) - j /\ \A k \in 1..(Len(arg) - j) : y[k] = arg[j + k]
    BY <1>2, <2>1, <2>2, <2>3 DEF t
  <2> HIDE DEF x, y
  <2>5. x \in Seq(Syllables) /\ y \in Seq(Syllables) /\ Len(x) = Len(y) /\ \A k \in 1..Len(x) : x[k] = y[k]
    BY <1>7, <2>2, <2>4 DEF x, Args
  <2>6. x = y
    BY <2>5
  <2>. QED  BY <2>6 DEF x, y, t
<1>10. Tail(letters) = <<>> <=> j = Len(arg)
  <2>1. Tail(letters) = <<>> <=> Len(Tail(letters)) = 0
    BY <1>7, ArgLength
  <2>2. Len(arg) - j = 0 <=> j = Len(arg)
    BY <1>3
  <2>. QED  BY <1>7, <2>1, <2>2
<1>11. j - 1 \in 1..(Len(arg) - 1)
  BY <1>1
<1>. QED  BY <1>2, <1>4, <1>5, <1>6, <1>7, <1>8, <1>9, <1>10, <1>11 DEF LettersOf

\* Options without a value to the last letter.
LEMMA LetterFlags ==
  ASSUME NEW tbl, Sound(tbl), NEW acc, Reads(tbl, acc), acc.wait = 0, ~acc.over,
         NEW letters \in Args, AllFlags(tbl, letters, Len(letters))
  PROVE  ReadLetters(tbl, acc, letters) = Part(tbl, acc, letters, Len(letters))
<1> DEFINE n == Len(letters) + 1
           i == ShortOption(tbl, letters[n])
<1>1. n \in 1..(Len(letters) + 1) /\ n - 1 = Len(letters) /\ ~(n <= Len(letters)) /\ n > Len(letters)
  BY ArgLength
<1> HIDE DEF n
<1>2. n = LastLetter(tbl, letters)
  BY <1>1, LastLetterAt
<1>3. LettersRead(tbl, acc, letters, n, i, ReadLetters(tbl, acc, letters))
  BY <1>2, ReadLettersIs
<1>. QED  BY <1>1, <1>3 DEF LettersRead

LEMMA FlagsMore ==
  ASSUME NEW tbl, NEW letters \in Args, NEW q \in 1..Len(letters), AllFlags(tbl, letters, q - 1),
         NEW i, i = ShortOption(tbl, letters[q]), i # 0, ~HasValue(tbl[i])
  PROVE  AllFlags(tbl, letters, q)
<1>1. \A k \in 1..q : k = q \/ k \in 1..(q - 1)
  BY ArgLength
<1>. QED  BY <1>1 DEF AllFlags

\* What is done with letter i of a group, rest after it.
LetterDoes(i, rest) ==
  \/ /\ i = 0 /\ Register(1) /\ got' = got /\ place' = rest
     /\ optind' = IF rest = <<>> THEN optind + 1 ELSE optind
  \/ /\ i # 0 /\ ~HasValue(table[i]) /\ Take(i, <<>>, 0) /\ place' = rest
     /\ optind' = IF rest = <<>> THEN optind + 1 ELSE optind
  \/ /\ i # 0 /\ HasValue(table[i]) /\ rest # <<>> /\ Take(i, rest, 0)
     /\ place' = <<>> /\ optind' = optind + 1
  \/ /\ i # 0 /\ HasValue(table[i]) /\ rest = <<>> /\ ~(optind + 1 >= limit)
     /\ Take(i, vector[optind + 2], 0) /\ place' = <<>> /\ optind' = optind + 2
  \/ /\ i # 0 /\ HasValue(table[i]) /\ rest = <<>> /\ optind + 1 >= limit
     /\ Register(1) /\ got' = got /\ place' = <<>> /\ optind' = optind + 1

LEMMA LetterCases ==
  ASSUME NEW letters, ParseLetter(letters)
  PROVE  LetterDoes(ShortOption(table, Head(letters)), Tail(letters))
BY DEF ParseLetter, PassUnknown, PassLetter, LetterDoes

LEMMA LetterMoves ==
  ASSUME ParseTyped, Edge, optind < limit, Ready(After(optind - 1)), IsOption(This), This[2] # "-",
         NEW j \in 2..Len(This), NEW letters, letters = SubSeq(This, j, Len(This)),
         AllFlags(table, Tail(This), j - 2),
         NEW a, a = Part(table, After(optind - 1), Tail(This), j - 2).args, ParseLetter(letters)
  PROVE  Errs \/ Took(a)
<1> DEFINE acc == After(optind - 1)
           r == After(optind)
           T == Tail(This)
           q == j - 1
           i == ShortOption(table, Head(letters))
           rest == Tail(letters)
           flags == Part(table, acc, T, q - 1)
           v == vector[optind + 2]
<1>1. /\ Sound(table) /\ vector \in Seq(Args) /\ vector # <<>> /\ Len(vector) \in Nat
      /\ This \in Args /\ optind \in 1..(Len(vector) - 1) /\ limit \in 1..Len(vector)
      /\ Reads(table, acc) /\ Reads(table, r) /\ r = Read(table, acc, This)
  BY HereIs
<1>2. ~acc.bad /\ acc.wait = 0 /\ ~acc.over
  BY DEF Ready
<1>3. r = ReadLetters(table, acc, T)
  BY <1>1, <1>2, ReadGroup
<1>4. /\ letters \in Args /\ letters # <<>>
      /\ Head(letters) = T[q] /\ Head(letters) \in Syllables
      /\ rest = SubSeq(This, j + 1, Len(This)) /\ rest = SubSeq(T, q + 1, Len(T))
      /\ rest \in Args /\ (rest = <<>> <=> j = Len(This))
      /\ T \in Args /\ Len(T) = Len(This) - 1 /\ q \in 1..Len(T)
  <2>1. q + 1 = j
    OBVIOUS
  <2>2. LettersOf(This, j, letters)
    BY <1>1, LettersAt
  <2>. QED  BY <2>1, <2>2 DEF LettersOf
<1>5. q - 1 = j - 2 /\ j + 1 - 2 = q /\ Len(This) \in Nat /\ Len(T) \in Nat /\ q - 1 \in 0..Len(T)
      /\ q \in 0..Len(T) /\ q - 1 \in 0..(Len(T) - 1) /\ (q - 1) + 1 = q /\ j + 1 \in Nat
      /\ (q = Len(T) <=> j = Len(This)) /\ (q < Len(T) <=> j < Len(This)) /\ (j < Len(This) \/ j = Len(This))
      /\ (j < Len(This) => j + 1 \in 3..Len(This))
  <2> HIDE DEF T
  <2>1. Len(This) \in Nat
    BY <1>1, ArgLength
  <2>. QED  BY <1>4, <2>1
<1>6. AllFlags(table, T, q - 1) /\ a = flags.args
  BY <1>5
<1>7. i # 0 => i \in DOMAIN table /\ ~Untagged(table[i])
  BY <1>1, <1>4, ShortOptionIs, LetterTags DEF Sound, Syllables
<1>8. \/ /\ i = 0 /\ Register(1) /\ got' = got /\ place' = rest
         /\ optind' = IF rest = <<>> THEN optind + 1 ELSE optind
      \/ /\ i # 0 /\ ~HasValue(table[i]) /\ Take(i, <<>>, 0) /\ place' = rest
         /\ optind' = IF rest = <<>> THEN optind + 1 ELSE optind
      \/ /\ i # 0 /\ HasValue(table[i]) /\ rest # <<>> /\ Take(i, rest, 0)
         /\ place' = <<>> /\ optind' = optind + 1
      \/ /\ i # 0 /\ HasValue(table[i]) /\ rest = <<>> /\ ~(optind + 1 >= limit)
         /\ Take(i, v, 0) /\ place' = <<>> /\ optind' = optind + 2
      \/ /\ i # 0 /\ HasValue(table[i]) /\ rest = <<>> /\ optind + 1 >= limit
         /\ Register(1) /\ got' = got /\ place' = <<>> /\ optind' = optind + 1
  <2>1. LetterDoes(i, rest)
    BY LetterCases
  <2> HIDE DEF i, rest
  <2>. QED  BY <2>1 DEF LetterDoes, v
<1>9. i = ShortOption(table, T[q])
  BY <1>4
<1>10. limit = Len(vector) \/ optind + 1 < limit
  BY LastIs
<1>11. /\ Reads(table, flags) /\ ~flags.bad /\ flags.wait = 0 /\ ~flags.over
  <2>1. GivesAll(table, acc, SubSeq(T, 1, q - 1), flags) /\ Reads(table, flags)
    BY <1>1, <1>4, <1>5, PartIs
  <2>. QED  BY <1>2, <2>1 DEF GivesAll
<1> HIDE DEF acc, r, T, q, i, rest, flags, v
<1>12. /\ i = 0 => r = Spoilt(acc)
       /\ i # 0 /\ HasValue(table[i]) /\ q = Len(T) => r = Await(flags, i, FALSE)
       /\ i # 0 /\ HasValue(table[i]) /\ q < Len(T) => r = Give(flags, i, rest)
  <2>1. SUFFICES ASSUME i = 0 \/ HasValue(table[i])
                 PROVE  /\ i = 0 => r = Spoilt(acc)
                        /\ i # 0 /\ q = Len(T) => r = Await(flags, i, FALSE)
                        /\ i # 0 /\ q < Len(T) => r = Give(flags, i, rest)
    OBVIOUS
  <2>2. q = LastLetter(table, T)
    <3>1. q \in 1..(Len(T) + 1)
      BY <1>4, <1>5
    <3>. QED  BY <1>4, <1>6, <1>9, <2>1, <3>1, LastLetterAt
  <2>3. LettersRead(table, acc, T, q, i, r)
    BY <1>1, <1>2, <1>3, <1>4, <1>9, <2>2, ReadLettersIs
  <2>4. q <= Len(T)
    BY <1>4, <1>5
  <2>. QED  BY <1>4, <2>3, <2>4 DEF LettersRead, flags
<1>13. errors \in Nat /\ optind \in 0..(Len(vector) - 1) /\ optind \in Nat /\ optind + 1 <= limit
  BY <1>1 DEF ParseTyped
<1>14. ASSUME Register(1) PROVE errors' # 0
  <2>1. 1 \in Nat /\ 1 # 0
    OBVIOUS
  <2>. QED  BY <1>13, <1>14, <2>1, RegisterIs
<1>15. CASE /\ i = 0 /\ Register(1) /\ place' = rest
            /\ optind' = IF rest = <<>> THEN optind + 1 ELSE optind
  <2>1. r.bad /\ errors' # 0
    BY <1>1, <1>12, <1>14, <1>15, SpoiltIs
  <2>2. CASE rest = <<>>
    BY <1>13, <1>15, <2>1, <2>2, BadErrs DEF r
  <2>3. CASE rest # <<>>
    <3>1. j + 1 \in 3..Len(This) /\ j + 1 \in Nat /\ optind' = optind
      BY <1>4, <1>5, <1>15, <2>3
    <3>2. Group(optind', place', j + 1)
      BY <1>4, <1>15, <3>1 DEF Group, This
    <3>3. Off(optind', place')
      BY <2>1, <3>1, <3>2 DEF Off, r
    <3>4. ~Fits
      <4>1. Fails(table, Readings(table, vector, {})[optind])
        BY <2>1 DEF Fails, After, r
      <4>. QED  BY <1>1, <1>13, <4>1, WrongSoon DEF Fits
    <3>. QED  BY <2>1, <3>3, <3>4 DEF Errs
  <2>. QED  BY <2>2, <2>3
<1>16. CASE /\ i # 0 /\ ~HasValue(table[i]) /\ Take(i, <<>>, 0) /\ place' = rest
            /\ optind' = IF rest = <<>> THEN optind + 1 ELSE optind
  <2> DEFINE more == Part(table, acc, T, q)
  <2>1. AllFlags(table, T, q)
    BY <1>4, <1>6, <1>9, <1>16, FlagsMore
  <2>2. more.args = [a EXCEPT ![i] = Append(@, <<>>)]
    <3> DEFINE p == q - 1
    <3>1. p \in 0..(Len(T) - 1) /\ p + 1 = q /\ i \in DOMAIN table /\ ShortOption(table, T[p + 1]) = i
      BY <1>5, <1>7, <1>9, <1>16
    <3>2. a = Part(table, acc, T, p).args
      BY <1>6 DEF flags
    <3> HIDE DEF p
    <3>3. OneMore(Part(table, acc, T, p).args, i, <<>>, Part(table, acc, T, p + 1).args)
      BY <1>1, <1>4, <3>1, PartStep
    <3>. QED  BY <3>1, <3>2, <3>3 DEF OneMore
  <2>3. <<>> \in Args
    BY DEF Args
  <2>4. CASE rest = <<>>
    <3>1. q = Len(T)
      BY <1>4, <1>5, <2>4
    <3>2. r = more
      <4>1. AllFlags(table, T, Len(T))
        BY <2>1, <3>1
      <4>. QED  BY <1>1, <1>2, <1>3, <1>4, <3>1, <4>1, LetterFlags
    <3>3. GivesAll(table, acc, SubSeq(T, 1, q), more)
      BY <1>1, <1>4, <1>5, PartIs
    <3>4. Ready(r)
      BY <1>2, <3>2, <3>3 DEF GivesAll, Ready
    <3>. QED  BY <1>7, <1>13, <1>16, <2>2, <2>3, <2>4, <3>2, <3>4, ReadyTook DEF r
  <2>5. CASE rest # <<>>
    <3>1. j + 1 \in 3..Len(This) /\ j + 1 \in Nat /\ optind' = optind
      BY <1>4, <1>5, <1>16, <2>5
    <3>2. Group(optind', place', j + 1)
      BY <1>4, <1>16, <3>1 DEF Group, This
    <3>3. On(optind', place', [a EXCEPT ![i] = Append(@, <<>>)])
      <4>1. AllFlags(table, Tail(vector[optind' + 1]), (j + 1) - 2)
        BY <1>5, <2>1, <3>1 DEF T, This
      <4>2. [a EXCEPT ![i] = Append(@, <<>>)] = Part(table, After(optind' - 1), Tail(vector[optind' + 1]), (j + 1) - 2).args
        BY <1>5, <2>2, <3>1 DEF T, This, acc
      <4>3. optind' <= limit /\ Ready(After(optind' - 1))
        BY <1>1, <3>1
      <4>. QED  BY <3>1, <3>2, <4>1, <4>2, <4>3 DEF On
    <3>. QED  BY <1>7, <1>16, <2>3, <3>3 DEF Took
  <2>. QED  BY <2>4, <2>5
<1>17. CASE /\ i # 0 /\ HasValue(table[i]) /\ rest # <<>> /\ Take(i, rest, 0)
            /\ place' = <<>> /\ optind' = optind + 1
  <2>1. q < Len(T)
    BY <1>4, <1>5, <1>17
  <2>2. r = Give(flags, i, rest)
    BY <1>12, <1>17, <2>1
  <2>3. Gives(flags, i, rest, Give(flags, i, rest))
    BY <1>1, <1>4, <1>7, <1>11, <1>17, GiveIs
  <2>4. r.args = [a EXCEPT ![i] = Append(@, rest)] /\ Ready(r)
    BY <1>6, <1>11, <2>2, <2>3 DEF Gives, Ready
  <2>. QED  BY <1>4, <1>7, <1>13, <1>17, <2>4, ReadyTook DEF r
<1>18. CASE /\ i # 0 /\ HasValue(table[i]) /\ rest = <<>>
  <2>1. q = Len(T)
    BY <1>4, <1>5, <1>18
  <2>2. r = Await(flags, i, FALSE)
    BY <1>12, <1>18, <2>1
  <2>3. Awaits(flags, i, FALSE, Await(flags, i, FALSE))
    <3>1. FALSE \in BOOLEAN /\ i \in DOMAIN table /\ ~Untagged(table[i]) /\ HasValue(table[i]) /\ ~flags.over
      BY <1>7, <1>11, <1>18
    <3>. QED  BY <1>1, <1>11, <3>1, AwaitIs
  <2>4. r.wait = i /\ r.wait # 0 /\ r.full = FALSE /\ ~r.bad /\ r.args = a
    BY <1>6, <1>11, <1>18, <2>2, <2>3 DEF Awaits
  <2>5. CASE optind + 1 >= limit /\ Register(1) /\ place' = <<>> /\ optind' = optind + 1
    <3>1. optind' = Len(vector) /\ optind = Len(vector) - 1
      BY <1>1, <1>10, <1>13, <2>5
    <3>2. After(Len(vector) - 1).wait # 0
      BY <2>4, <3>1 DEF r
    <3>. QED  BY <1>14, <2>5, <3>1, <3>2, WaitErrs
  <2>6. CASE ~(optind + 1 >= limit) /\ Take(i, v, 0) /\ place' = <<>> /\ optind' = optind + 2
    <3> DEFINE s == After(optind + 1)
    <3>1. /\ optind + 1 # Len(vector) /\ optind + 1 \in Nat /\ optind' = (optind + 1) + 1
          /\ (optind + 1) + 1 <= limit
      BY <1>1, <2>6
    <3>2. v \in Args /\ s = Read(table, r, v)
      BY <3>1, NextIs DEF v, r
    <3>3. s = ReadValue(r, v)
      BY <2>4, <3>2, ReadAwaited
    <3> HIDE DEF s
    <3>4. Values(r, v, s)
      BY <1>1, <2>4, <3>2, <3>3, ValueIs
    <3>5. Ready(s) /\ s.args = [a EXCEPT ![i] = Append(@, v)]
      BY <2>4, <3>4 DEF Values, Ready
    <3>. QED  BY <1>7, <1>18, <2>6, <3>1, <3>2, <3>5, ReadyTook DEF s
  <2>. QED  BY <1>8, <1>18, <2>5, <2>6
<1>. QED  BY <1>8, <1>15, <1>16, <1>17, <1>18

-------------------------------------------------------------------------------
\* What a step of the passes over the options does to the values and the place.

Kept ==
  /\ errors' \in Nat /\ (errors' = 0 => errors = 0) /\ got' = [i \in DOMAIN table |-> got'[i]]
  /\ \A i \in DOMAIN table : Untagged(table[i]) => got'[i] = got[i]

LEMMA TakeKeeps ==
  ASSUME ParseTyped, NEW i \in DOMAIN table, ~Untagged(table[i]), NEW x, NEW before \in Nat, Take(i, x, before)
  PROVE  Kept
<1> DEFINE s == Scan(table[i], Len(got[i]), x)
<1>1. errors \in Nat /\ got = [k \in DOMAIN table |-> got[k]]
  BY DEF ParseTyped
<1>2. Takes(i, s, before)
  BY <1>1, TakeIs
<1> HIDE DEF s
<1>3. errors' \in Nat /\ (errors' = 0 => errors = 0) /\ got' = IF s.error = "" THEN [got EXCEPT ![i] = Append(@, s.value)] ELSE got
  BY <1>2 DEF Takes
<1>4. \A j \in DOMAIN table : j # i => got'[j] = got[j]
  BY <1>1, <1>3
<1>5. got' = [k \in DOMAIN table |-> got'[k]]
  BY <1>1, <1>3
<1>. QED  BY <1>3, <1>4, <1>5 DEF Kept

LEMMA SameKeeps ==
  ASSUME ParseTyped, Register(1), got' = got
  PROVE  Kept
<1>1. errors \in Nat /\ got = [k \in DOMAIN table |-> got[k]] /\ 1 \in Nat
  BY DEF ParseTyped
<1>2. errors' \in Nat /\ (errors' = 0 => errors = 0)
  BY <1>1, RegisterIs
<1>. QED  BY <1>1, <1>2 DEF Kept

LEMMA LongKeeps ==
  ASSUME ParseTyped, NEW arg, LongOption(arg)
  PROVE  /\ Kept
         /\ optind' = optind + 1 \/ (optind' = optind + 2 /\ optind + 1 # Len(vector))
<1> DEFINE i == LongOf(table, arg)
           one == Cardinality(LongMatches(table, NameOf(arg))) = 1
           v == vector[optind + 2]
           w == EqualValue(arg)
<1>1. \/ Register(1) /\ optind' = optind + 1 /\ got' = got
      \/ /\ one /\ optind + 1 # Len(vector) /\ Take(i, v, IF v = <<>> THEN 1 ELSE 0)
         /\ optind' = optind + 2
      \/ one /\ Take(i, w, IF w = <<>> THEN 1 ELSE 0) /\ optind' = optind + 1
      \/ one /\ Take(i, w, 0) /\ optind' = optind + 1
  <2>1. one = (Cardinality(LongMatches(table, NameOf(arg))) = 1) /\ i = LongOf(table, arg)
    OBVIOUS
  <2> HIDE DEF one, i
  <2>. QED  BY <2>1, LongCases DEF v, w
<1>2. one => i \in DOMAIN table /\ ~Untagged(table[i])
  <2>1. SUFFICES ASSUME one PROVE i \in DOMAIN table /\ ~Untagged(table[i])
    OBVIOUS
  <2>2. i = CHOOSE j \in LongMatches(table, NameOf(arg)) : TRUE
    BY DEF LongOf
  <2> HIDE DEF i
  <2>. QED  BY <2>1, <2>2, LongMatchIs
<1> HIDE DEF i, one, v, w
<1>3. CASE Register(1) /\ optind' = optind + 1 /\ got' = got
  BY <1>3, SameKeeps
<1>4. ASSUME one, NEW x, NEW before \in Nat, Take(i, x, before) PROVE Kept
  BY <1>2, <1>4, TakeKeeps
<1>5. (IF v = <<>> THEN 1 ELSE 0) \in Nat /\ (IF w = <<>> THEN 1 ELSE 0) \in Nat /\ 0 \in Nat
  OBVIOUS
<1>6. CASE /\ one /\ optind + 1 # Len(vector) /\ Take(i, v, IF v = <<>> THEN 1 ELSE 0)
           /\ optind' = optind + 2
  BY <1>4, <1>5, <1>6
<1>7. CASE one /\ Take(i, w, IF w = <<>> THEN 1 ELSE 0) /\ optind' = optind + 1
  BY <1>4, <1>5, <1>7
<1>8. CASE one /\ Take(i, w, 0) /\ optind' = optind + 1
  BY <1>4, <1>5, <1>8
<1>. QED  BY <1>1, <1>3, <1>6, <1>7, <1>8

LEMMA LetterKeeps ==
  ASSUME ParseTyped, NEW letters \in Args, letters # <<>>, ParseLetter(letters)
  PROVE  /\ Kept
         /\ \/ place' = <<>> /\ optind' = optind + 1
            \/ place' = <<>> /\ optind' = optind + 2 /\ ~(optind + 1 >= limit)
            \/ place' = Tail(letters) /\ Tail(letters) # <<>> /\ optind' = optind
<1> DEFINE i == ShortOption(table, Head(letters))
           rest == Tail(letters)
           v == vector[optind + 2]
<1>1. \/ Register(1) /\ got' = got /\ place' = rest /\ optind' = IF rest = <<>> THEN optind + 1 ELSE optind
      \/ i # 0 /\ Take(i, <<>>, 0) /\ place' = rest /\ optind' = IF rest = <<>> THEN optind + 1 ELSE optind
      \/ i # 0 /\ Take(i, rest, 0) /\ place' = <<>> /\ optind' = optind + 1
      \/ i # 0 /\ ~(optind + 1 >= limit) /\ Take(i, v, 0) /\ place' = <<>> /\ optind' = optind + 2
      \/ Register(1) /\ got' = got /\ place' = <<>> /\ optind' = optind + 1
  <2>1. LetterDoes(i, rest)
    BY LetterCases
  <2> HIDE DEF i, rest
  <2>. QED  BY <2>1, Zenon DEF LetterDoes, v
<1>2. i # 0 => i \in DOMAIN table /\ ~Untagged(table[i])
  <2>1. Head(letters) \in Syllables
    BY DEF Args
  <2>2. Len(table) \in Nat /\ DOMAIN table = 1..Len(table)
    BY DEF ParseTyped, Sound
  <2>. QED  BY <2>1, <2>2, ShortOptionIs, LetterTags DEF Syllables
<1> HIDE DEF i, v
<1>3. ASSUME i # 0, NEW x, Take(i, x, 0) PROVE Kept
  <2>1. 0 \in Nat
    OBVIOUS
  <2>. QED  BY <1>2, <1>3, <2>1, TakeKeeps
<1>4. Kept
  BY <1>1, <1>3, SameKeeps
<1>. QED  BY <1>1, <1>4

\* There is no dash in what is left of a group.
LEMMA GroupHead ==
  ASSUME ParseTyped, NEW j \in Nat, Group(optind, place, j)
  PROVE  /\ optind < limit /\ IsOption(This) /\ This[2] # "-" /\ j \in 3..Len(This)
         /\ place = SubSeq(This, j, Len(This)) /\ LettersOf(This, j, place)
         /\ Head(place) # "-" /\ place # <<>>
<1>1. /\ optind < limit /\ IsOption(This) /\ This[2] # "-" /\ j \in 3..Len(This)
      /\ place = SubSeq(This, j, Len(This))
  BY DEF Group, This
<1>2. This \in Args /\ optind + 1 \in DOMAIN vector
  <2>1. This \in Args /\ vector \in Seq(Args) /\ optind \in 1..(Len(vector) - 1)
    BY <1>1, HereIs
  <2>. QED  BY <2>1
<1>3. j \in 2..Len(This)
  BY <1>1, <1>2, ArgLength
<1>4. LettersOf(This, j, place)
  BY <1>1, <1>2, <1>3, LettersAt
<1>5. ~Dashed(This)
  BY <1>2 DEF ParseTyped, This
<1>6. This[j] # "-"
  BY <1>1, <1>5 DEF Dashed
<1>. QED  BY <1>1, <1>4, <1>6 DEF LettersOf

LEMMA GroupStart ==
  ASSUME NEW arg \in Args, Len(arg) > 1
  PROVE  Tail(arg) = SubSeq(arg, 2, Len(arg)) /\ 2 \in 2..Len(arg)
<1> DEFINE x == Tail(arg)
           y == SubSeq(arg, 2, Len(arg))
<1>1. Len(arg) \in Nat /\ 2 \in Nat \ {0} /\ 2 <= Len(arg) /\ Len(arg) <= Len(arg) /\ Len(arg) - 2 + 1 = Len(arg) - 1
  BY ArgLength
<1>2. x \in Args /\ Len(x) = Len(arg) - 1 /\ \A k \in 1..(Len(arg) - 1) : x[k] = arg[k + 1]
  BY TailIs
<1>3. /\ y \in Args /\ Len(y) = Len(arg) - 1
      /\ \A k \in 1..(Len(arg) - 1) : y[k] = arg[2 + k - 1]
  BY <1>1, Cut
<1>4. \A k \in 1..(Len(arg) - 1) : 2 + k - 1 = k + 1
  BY <1>1
<1> HIDE DEF x, y
<1>5. x \in Seq(Syllables) /\ y \in Seq(Syllables) /\ Len(x) = Len(y) /\ \A k \in 1..Len(x) : x[k] = y[k]
  BY <1>2, <1>3, <1>4 DEF Args
<1>6. x = y
  BY <1>5
<1>. QED  BY <1>1, <1>6 DEF x, y

\* The steps of the passes over the options, where the line is still good.
LEMMA OnMoves ==
  ASSUME ParseTyped, Edge, NEW a, On(optind, place, a), ParseLong \/ ParseDash \/ ParseShort
  PROVE  Errs \/ Took(a)
<1>1. Ready(After(optind - 1))
  BY DEF On
<1>2. CASE place = <<>>
  <2>1. a = After(optind - 1).args
    <3>1. ASSUME NEW j \in Nat, Group(optind, place, j) PROVE FALSE
      BY <1>2, <3>1, GroupHead
    <3>. QED  BY <3>1 DEF On
  <2>2. optind < limit /\ IsOption(This)
    <3>1. ~(Len(place) > 1) /\ place # <<"-">>
      BY <1>2
    <3>. QED  BY <1>2, <3>1, Zenon DEF ParseLong, ParseDash, ParseShort, AtOption
  <2>3. This \in Args /\ Sound(table) /\ Reads(table, After(optind - 1)) /\ Len(This) > 1
    BY <2>2, HereIs DEF IsOption
  <2>4. CASE ParseLong
    <3>1. IsLong(This) /\ LongOption(This) /\ place' = <<>>
      BY <1>2, <2>4 DEF ParseLong
    <3>. QED  BY <1>1, <2>1, <2>2, <3>1, LongMoves
  <2>5. CASE ParseDash
    BY <1>2, <2>5 DEF ParseDash
  <2>6. CASE ParseShort
    <3>1. This[2] # "-" /\ ParseLetter(Tail(This))
      BY <1>2, <2>6 DEF ParseShort
    <3>2. Tail(This) = SubSeq(This, 2, Len(This)) /\ 2 \in 2..Len(This) /\ Tail(This) \in Args
      BY <2>3, GroupStart, TailIs
    <3>3. AllFlags(table, Tail(This), 2 - 2)
      BY DEF AllFlags
    <3>4. a = Part(table, After(optind - 1), Tail(This), 2 - 2).args
      <4>1. 2 - 2 = 0
        OBVIOUS
      <4>. QED  BY <2>1, <2>3, <3>2, <4>1, PartNone
    <3>. QED  BY <1>1, <2>2, <3>1, <3>2, <3>3, <3>4, LetterMoves
  <2>. QED  BY <2>4, <2>5, <2>6
<1>3. CASE place # <<>>
  <2>1. PICK j \in Nat : /\ Group(optind, place, j) /\ AllFlags(table, Tail(This), j - 2)
                         /\ a = Part(table, After(optind - 1), Tail(This), j - 2).args
    BY <1>3 DEF On, This
  <2>2. /\ optind < limit /\ IsOption(This) /\ This[2] # "-" /\ j \in 3..Len(This)
        /\ place = SubSeq(This, j, Len(This)) /\ Head(place) # "-"
    BY <2>1, GroupHead
  <2>3. ParseLetter(place)
    <3>1. Head(<<"-">>) = "-"
      OBVIOUS
    <3>. QED  BY <1>3, <2>2, <3>1 DEF ParseLong, ParseDash, ParseShort, AtOption
  <2>4. j \in 2..Len(This)
    BY <2>2
  <2>. QED  BY <1>1, <2>1, <2>2, <2>3, <2>4, LetterMoves
<1>. QED  BY <1>2, <1>3

LEMMA StaysBad ==
  ASSUME ParseTyped, NEW n \in 0..(Len(vector) - 1), NEW m \in n..(Len(vector) - 1), After(n).bad
  PROVE  After(m).bad
<1>1. Sound(table) /\ vector \in Seq(Args) /\ vector # <<>>
  BY DEF ParseTyped
<1>2. Grows(table, Readings(table, vector, {})[n], Readings(table, vector, {})[m])
  BY <1>1, ReadingsGrow
<1>. QED  BY <1>2 DEF Grows, After

\* Where the place is after a step.
PlaceMoves ==
  \/ place' = <<>> /\ optind' \in optind..Len(vector) /\ (optind' = optind => place = <<"-">>)
  \/ /\ place = <<>> /\ optind' = optind /\ optind < limit /\ IsOption(This) /\ This[2] # "-"
     /\ place' = Tail(Tail(This)) /\ place' # <<>>
  \/ place # <<>> /\ optind' = optind /\ place' = Tail(place) /\ place' # <<>>

LEMMA OptionMoves ==
  ASSUME ParseTyped, ParseLong \/ ParseDash \/ ParseShort
  PROVE  PlaceMoves /\ Kept
<1>1. /\ vector \in Seq(Args) /\ Len(vector) \in Nat /\ optind \in 1..Len(vector)
      /\ limit \in 1..Len(vector) /\ place \in Args
  BY DEF ParseTyped
<1>2. optind < limit \/ place = <<"-">>
  BY DEF ParseLong, ParseDash, ParseShort, AtOption, ParseTyped
<1>3. CASE ParseLong
  <2>1. PICK arg : LongOption(arg)
    BY <1>3 DEF ParseLong
  <2>2. /\ Kept
        /\ optind' = optind + 1 \/ (optind' = optind + 2 /\ optind + 1 # Len(vector))
    BY <2>1, LongKeeps
  <2>3. optind < limit
    BY <1>3 DEF ParseLong, AtOption, ParseTyped
  <2>4. optind' \in optind..Len(vector) /\ optind' # optind
    BY <1>1, <2>2, <2>3
  <2>5. place' = <<>>
    BY <1>3 DEF ParseLong
  <2>. QED  BY <2>2, <2>4, <2>5 DEF PlaceMoves
<1>4. CASE ParseDash
  <2>1. Register(1) /\ place = <<"-">> /\ place' = <<>> /\ optind' = optind /\ got' = got
    BY <1>4 DEF ParseDash
  <2>2. Kept
    BY <2>1, SameKeeps
  <2>3. optind' \in optind..Len(vector)
    BY <1>1, <2>1
  <2>. QED  BY <2>1, <2>2, <2>3 DEF PlaceMoves
<1>5. CASE ParseShort
  <2>1. \/ place = <<>> /\ optind < limit /\ IsOption(This) /\ This[2] # "-" /\ ParseLetter(Tail(This))
        \/ place # <<>> /\ optind < limit /\ ParseLetter(place)
    BY <1>5 DEF ParseShort, AtOption, ParseTyped
  <2>2. ASSUME NEW letters \in Args, letters # <<>>, ParseLetter(letters), optind < limit
        PROVE  /\ Kept
               /\ \/ place' = <<>> /\ optind' \in optind..Len(vector) /\ optind' # optind
                  \/ place' = Tail(letters) /\ place' # <<>> /\ optind' = optind
    <3>1. /\ Kept
          /\ \/ place' = <<>> /\ optind' = optind + 1
             \/ place' = <<>> /\ optind' = optind + 2 /\ ~(optind + 1 >= limit)
             \/ place' = Tail(letters) /\ Tail(letters) # <<>> /\ optind' = optind
      BY <2>2, LetterKeeps
    <3>2. (optind' = optind + 1 \/ (optind' = optind + 2 /\ ~(optind + 1 >= limit)))
             => optind' \in optind..Len(vector) /\ optind' # optind
      <4> DEFINE o == optind'
      <4> HIDE DEF o
      <4>1. (o = optind + 1 \/ (o = optind + 2 /\ ~(optind + 1 >= limit)))
             => o \in optind..Len(vector) /\ o # optind
        BY <1>1, <2>2
      <4>. QED  BY <4>1 DEF o
    <3>. QED  BY <3>1, <3>2
  <2>3. CASE place = <<>> /\ optind < limit /\ IsOption(This) /\ This[2] # "-" /\ ParseLetter(Tail(This))
    <3>1. Tail(This) \in Args /\ Tail(This) # <<>>
      <4>1. This \in Args /\ Len(This) > 1
        BY <2>3, HereIs DEF IsOption
      <4>. QED  BY <4>1, TailIs
    <3>. QED  BY <2>2, <2>3, <3>1 DEF PlaceMoves
  <2>4. CASE place # <<>> /\ optind < limit /\ ParseLetter(place)
    BY <1>1, <2>2, <2>4 DEF PlaceMoves
  <2>. QED  BY <2>1, <2>3, <2>4
<1>. QED  BY <1>3, <1>4, <1>5

\* They stay behind what makes the line a bad one.
LEMMA OffMoves ==
  ASSUME ParseTyped, Off(optind, place), ParseLong \/ ParseDash \/ ParseShort
  PROVE  Off(optind', place')
<1>1. /\ vector \in Seq(Args) /\ Len(vector) \in Nat /\ optind \in 1..Len(vector)
      /\ limit \in 1..Len(vector) /\ place \in Args
  BY DEF ParseTyped
<1>2. PlaceMoves
  BY OptionMoves
<1>3. optind < limit \/ place = <<"-">>
  BY DEF ParseLong, ParseDash, ParseShort, AtOption, ParseTyped
<1>4. CASE place = <<>>
  <2>1. optind < limit /\ place # <<"-">>
    <3>1. place # <<"-">>
      BY <1>4
    <3>. QED  BY <1>3, <3>1
  <2>2. After(optind - 1).bad
    <3>1. optind # Len(vector)
      BY <1>1, <2>1
    <3>2. ASSUME NEW j \in Nat, Group(optind, place, j) PROVE FALSE
      BY <1>4, <3>2, GroupHead
    <3>. QED  BY <1>4, <3>1, <3>2 DEF Off
  <2>3. CASE place' = <<>> /\ optind' \in optind..Len(vector)
    <3> DEFINE n == optind - 1
               m == optind' - 1
    <3>1. n \in 0..(Len(vector) - 1) /\ m \in n..(Len(vector) - 1)
      <4> DEFINE o == optind'
      <4>1. o \in optind..Len(vector)
        BY <2>3
      <4> HIDE DEF o
      <4>2. optind - 1 \in 0..(Len(vector) - 1) /\ o - 1 \in (optind - 1)..(Len(vector) - 1)
        BY <1>1, <4>1
      <4>. QED  BY <4>2 DEF o
    <3>2. After(n).bad
      BY <2>2
    <3> HIDE DEF n, m
    <3>3. After(m).bad
      BY <3>1, <3>2, StaysBad
    <3>. QED  BY <2>3, <3>3 DEF Off, m
  <2>4. CASE /\ optind' = optind /\ optind < limit /\ IsOption(This) /\ This[2] # "-"
             /\ place' = Tail(Tail(This)) /\ place' # <<>>
    <3>1. This \in Args /\ Len(This) > 1
      BY <2>4, HereIs DEF IsOption
    <3>2. LettersOf(This, 2, Tail(This))
      BY <3>1, GroupStart, LettersAt
    <3>3. place' = SubSeq(This, 3, Len(This)) /\ Len(This) # 2
      <4>1. 2 + 1 = 3
        OBVIOUS
      <4>. QED  BY <2>4, <3>2, <4>1 DEF LettersOf
    <3>4. 3 \in 3..Len(This) /\ 3 \in Nat
      <4>1. Len(This) \in Nat
        BY <3>1, ArgLength
      <4> DEFINE l == Len(This)
      <4>2. l \in Nat /\ l > 1 /\ l # 2
        BY <3>1, <3>3, <4>1
      <4> HIDE DEF l
      <4>3. 3 \in 3..l /\ 3 \in Nat
        BY <4>2
      <4>. QED  BY <4>3 DEF l
    <3>5. Group(optind', place', 3)
      BY <2>4, <3>3, <3>4 DEF Group, This
    <3>6. After(optind).bad
      <4>1. optind - 1 \in 0..(Len(vector) - 1) /\ optind \in (optind - 1)..(Len(vector) - 1)
        BY <1>1, <2>1
      <4>. QED  BY <2>2, <4>1, StaysBad
    <3>. QED  BY <2>4, <3>4, <3>5, <3>6 DEF Off
  <2>. QED  BY <1>2, <1>4, <2>3, <2>4 DEF PlaceMoves
<1>5. CASE place # <<>>
  <2>1. PICK j \in Nat : Group(optind, place, j)
    BY <1>5 DEF Off
  <2>2. After(optind).bad
    BY <1>5 DEF Off
  <2>3. /\ optind < limit /\ IsOption(This) /\ This[2] # "-" /\ j \in 3..Len(This)
        /\ LettersOf(This, j, place) /\ Head(place) # "-"
    BY <2>1, GroupHead
  <2>4. place # <<"-">>
    <3>1. Head(<<"-">>) = "-"
      OBVIOUS
    <3>. QED  BY <2>3, <3>1
  <2>5. CASE place' = <<>> /\ optind' \in optind..Len(vector) /\ (optind' = optind => place = <<"-">>)
    <3> DEFINE m == optind' - 1
    <3>1. optind \in 0..(Len(vector) - 1) /\ m \in optind..(Len(vector) - 1)
      <4> DEFINE o == optind'
      <4>1. o \in optind..Len(vector) /\ o # optind
        BY <2>4, <2>5
      <4> HIDE DEF o
      <4>2. optind \in 0..(Len(vector) - 1) /\ o - 1 \in optind..(Len(vector) - 1)
        BY <1>1, <2>3, <4>1
      <4>. QED  BY <4>2 DEF o
    <3> HIDE DEF m
    <3>2. After(m).bad
      BY <2>2, <3>1, StaysBad
    <3>. QED  BY <2>5, <3>2 DEF Off, m
  <2>6. CASE optind' = optind /\ place' = Tail(place) /\ place' # <<>>
    <3>1. place' = SubSeq(This, j + 1, Len(This)) /\ j # Len(This)
      BY <2>3, <2>6 DEF LettersOf
    <3>2. j + 1 \in 3..Len(This) /\ j + 1 \in Nat
      BY <2>3, <3>1
    <3>3. Group(optind', place', j + 1)
      BY <2>3, <2>6, <3>1, <3>2 DEF Group, This
    <3>. QED  BY <2>2, <2>6, <3>2, <3>3 DEF Off
  <2>. QED  BY <1>2, <1>5, <2>5, <2>6 DEF PlaceMoves
<1>. QED  BY <1>4, <1>5

\* The arguments read so far, where the line is still good.
LEMMA OnReads ==
  ASSUME ParseTyped, NEW o \in 1..Len(vector), NEW p, NEW a, On(o, p, a)
  PROVE  \E n \in 0..(Len(vector) - 1) : \E r :
           Reads(table, r) /\ r.args = a /\ Grows(table, r, After(n)) /\ Reads(table, After(n))
<1>1. /\ Sound(table) /\ vector \in Seq(Args) /\ vector # <<>> /\ Len(vector) \in Nat
      /\ limit \in 1..Len(vector)
  BY DEF ParseTyped
<1> DEFINE n == o - 1
           acc == After(n)
<1>2. n \in 0..(Len(vector) - 1) /\ n + 1 = o
  BY <1>1
<1>3. Reads(table, acc)
  BY <1>1, <1>2, ReadingsRead DEF After
<1>4. ~acc.bad /\ acc.wait = 0 /\ ~acc.over
  BY DEF On, Ready
<1>5. CASE a = acc.args
  <2>1. Grows(table, acc, acc)
    <3> HIDE DEF acc
    <3>. QED  BY <1>3, SameGrows
  <2>. QED  BY <1>2, <1>3, <1>5, <2>1
<1>6. CASE \E j \in Nat : /\ Group(o, p, j) /\ AllFlags(table, Tail(vector[o + 1]), j - 2)
                          /\ a = Part(table, After(o - 1), Tail(vector[o + 1]), j - 2).args
  <2> DEFINE arg == vector[o + 1]
             T == Tail(arg)
             r == After(o)
             k == LastLetter(table, T)
  <2>1. PICK j \in Nat : /\ Group(o, p, j) /\ AllFlags(table, T, j - 2)
                         /\ a = Part(table, acc, T, j - 2).args
    BY <1>6
  <2>2. o < limit /\ IsOption(arg) /\ arg[2] # "-" /\ j \in 3..Len(arg)
    BY <2>1 DEF Group
  <2>3. o \in 1..(Len(vector) - 1) /\ o \in 0..(Len(vector) - 1) /\ o + 1 \in DOMAIN vector
    BY <1>1, <2>2
  <2>4. arg \in Args /\ Reads(table, r) /\ r = Read(table, acc, arg)
    <3>1. Reads(table, r) /\ arg \in Args
      BY <1>1, <2>3, ReadingsRead DEF After
    <3>2. r = Read(table, acc, arg)
      BY <1>1, <2>3, ReadingsStep DEF After
    <3>. QED  BY <3>1, <3>2
  <2>5. T \in Args /\ Len(T) = Len(arg) - 1
    <3> HIDE DEF arg
    <3>1. Len(arg) > 1
      BY <2>2 DEF IsOption
    <3>. QED  BY <2>4, <3>1, TailIs
  <2> HIDE DEF acc, r, arg
  <2>6. r = ReadLetters(table, acc, T)
    BY <1>4, <2>2, <2>4, ReadGroup
  <2> DEFINE q == j - 2
             part == Part(table, acc, T, q)
  <2>7. q \in 0..Len(T) /\ q \in Nat /\ Len(T) \in Nat /\ AllFlags(table, T, q) /\ a = part.args
    <3>1. Len(arg) \in Nat
      BY <2>4, ArgLength
    <3> HIDE DEF T
    <3>2. q \in 0..Len(T) /\ q \in Nat /\ Len(T) \in Nat
      BY <2>2, <2>5, <3>1
    <3>. QED  BY <2>1, <3>2
  <2>8. /\ k \in 1..(Len(T) + 1)
        /\ k <= Len(T) => ShortOption(table, T[k]) = 0 \/ HasValue(table[ShortOption(table, T[k])])
    BY <2>5, LastLetterIs
  <2> HIDE DEF T, k, q
  <2>9. q <= k - 1
    <3>1. SUFFICES ASSUME ~(q <= k - 1) PROVE FALSE
      OBVIOUS
    <3>2. k \in 1..q /\ k <= Len(T)
      BY <2>7, <2>8, <3>1
    <3>. QED  BY <2>7, <2>8, <3>2 DEF AllFlags
  <2>10. k - 1 \in 0..Len(T) /\ q \in 0..(k - 1)
    BY <2>7, <2>8, <2>9
  <2>11. Grows(table, part, Part(table, acc, T, k - 1))
    BY <1>1, <1>3, <2>5, <2>10, PartGrows DEF acc
  <2>12. Grows(table, Part(table, acc, T, k - 1), r)
    <3> DEFINE i == ShortOption(table, T[k])
    <3>1. k = LastLetter(table, T) /\ i = ShortOption(table, T[k])
      BY DEF k
    <3> HIDE DEF i
    <3>2. LettersRead(table, acc, T, k, i, ReadLetters(table, acc, T))
      BY <1>1, <1>3, <1>4, <2>5, <3>1, ReadLettersIs DEF acc
    <3>. QED  BY <2>6, <3>2 DEF LettersRead
  <2>13. Reads(table, part) /\ Reads(table, Part(table, acc, T, k - 1))
    BY <1>1, <1>3, <2>5, <2>7, <2>10, PartIs DEF acc
  <2> HIDE DEF part
  <2>14. Grows(table, part, r)
    BY <2>4, <2>11, <2>12, <2>13, GrowsOn
  <2>. QED  BY <2>3, <2>4, <2>7, <2>13, <2>14 DEF r
<1>. QED  BY <1>5, <1>6 DEF On

\* An option that comes twice or with a value of another kind.
LEMMA OnFails ==
  ASSUME ParseTyped, NEW o \in 1..Len(vector), NEW p, NEW a, On(o, p, a),
         NEW i \in DOMAIN table, ~Untagged(table[i]), Spoils(table[i], a[i])
  PROVE  ~Fits
<1>1. Sound(table) /\ vector \in Seq(Args) /\ vector # <<>>
  BY DEF ParseTyped
<1>2. PICK n \in 0..(Len(vector) - 1) :
        \E r : Reads(table, r) /\ r.args = a /\ Grows(table, r, After(n)) /\ Reads(table, After(n))
  BY OnReads
<1>5. PICK r : Reads(table, r) /\ r.args = a /\ Grows(table, r, After(n)) /\ Reads(table, After(n))
  BY <1>2
<1>3. Fails(table, r)
  <2>1. r.args[i] = a[i]
    BY <1>5
  <2>2. Spoils(table[i], r.args[i])
    BY <2>1
  <2>3. \/ Len(r.args[i]) > 1
        \/ \E k \in 1..Len(r.args[i]) : Scan(table[i], 0, r.args[i][k]).error # ""
    BY <2>2, Zenon DEF Spoils
  <2>. QED  BY <2>3, Zenon DEF Fails
<1>4. Fails(table, After(n))
  BY <1>3, <1>5, FailsOn
<1>. QED  BY <1>1, <1>4, WrongSoon DEF Fits, After

\* A value that has been found is that of the argument, unless the line is wrong.
LEMMA TookMatches ==
  ASSUME ParseTyped, NEW a, On(optind, place, a), Matches(table, got, a), errors = 0, Took(a),
         optind' \in 1..Len(vector)
  PROVE  /\ errors' = 0 => \E b : On(optind', place', b) /\ Matches(table, got', b)
         /\ errors' # 0 => ~Fits
<1>1. /\ optind \in 1..Len(vector) /\ got = [k \in DOMAIN table |-> got[k]] /\ errors \in Nat /\ Sound(table)
  BY DEF ParseTyped
<1>2. PICK i \in DOMAIN table, v \in Args :
        /\ ~Untagged(table[i]) /\ Take(i, v, 0)
        /\ On(optind', place', [a EXCEPT ![i] = Append(@, v)])
  BY DEF Took
<1>3. a \in [DOMAIN table -> Seq(Args)]
  <2>1. PICK n \in 0..(Len(vector) - 1) :
          \E r : Reads(table, r) /\ r.args = a /\ Grows(table, r, After(n)) /\ Reads(table, After(n))
    BY <1>1, OnReads
  <2>2. PICK r : Reads(table, r) /\ r.args = a
    BY <2>1
  <2>. QED  BY <2>2 DEF Reads
<1> DEFINE s == Scan(table[i], Len(got[i]), v)
           b == [a EXCEPT ![i] = Append(@, v)]
<1>4. Takes(i, s, 0)
  <2>1. 0 \in Nat
    OBVIOUS
  <2>. QED  BY <1>1, <1>2, <2>1, TakeIs
<1>5. s = Scan(table[i], Len(got[i]), v)
  OBVIOUS
<1>6. b[i] = Append(a[i], v) /\ \A j \in DOMAIN table : j # i => b[j] = a[j]
  BY <1>3
<1>7. On(optind', place', b)
  BY <1>2
<1> HIDE DEF s, b
<1>8. table[i].max = 1 /\ a[i] \in Seq(Args) /\ Match(table[i], got[i], a[i])
  BY <1>1, <1>3 DEF Sound, Matches
<1>9. /\ s.error = "" => errors' = 0 /\ got' = [got EXCEPT ![i] = Append(@, s.value)]
      /\ s.error # "" => errors' # 0
  BY <1>4, TakesOne
<1>10. /\ s.error = "" => Match(table[i], Append(got[i], s.value), Append(a[i], v))
       /\ s.error # "" => Spoils(table[i], Append(a[i], v))
  BY <1>2, <1>5, <1>8, MatchMore
<1>11. CASE s.error = ""
  <2>1. errors' = 0 /\ got' = [got EXCEPT ![i] = Append(@, s.value)]
    BY <1>9, <1>11, Zenon
  <2>2. Match(table[i], Append(got[i], s.value), Append(a[i], v))
    BY <1>10, <1>11, Zenon
  <2>3. got'[i] = Append(got[i], s.value) /\ \A j \in DOMAIN table : j # i => got'[j] = got[j]
    BY <1>1, <2>1
  <2>4. Matches(table, got', b)
    BY <1>6, <1>8, <2>2, <2>3 DEF Matches
  <2>. QED  BY <1>7, <2>1, <2>4
<1>12. CASE s.error # ""
  <2>1. errors' # 0 /\ Spoils(table[i], Append(a[i], v))
    BY <1>9, <1>10, <1>12, Zenon
  <2>2. Spoils(table[i], b[i])
    BY <1>6, <2>1
  <2>3. ~Fits
    BY <1>2, <1>7, <2>2, OnFails
  <2>. QED  BY <2>1, <2>3
<1>. QED  BY <1>11, <1>12, Zenon

-------------------------------------------------------------------------------
\* The end of the options.

LEMMA EndCases ==
  ASSUME EndOfOptions
  PROVE  /\ place = <<>>
         /\ \/ optind >= limit /\ optind' = optind
            \/ optind < limit /\ ~IsOption(This) /\ optind' = optind
            \/ optind < limit /\ This = <<"-", "-">> /\ optind' = optind + 1
BY DEF EndOfOptions

\* Two dashes end the options.
DashesRead(acc, r) ==
  r.over /\ r.wait = 0 /\ r.bad = acc.bad /\ r.args = acc.args /\ r.words = acc.words

LEMMA DashesEnd ==
  ASSUME ParseTyped, optind < limit, Ready(After(optind - 1)), This = <<"-", "-">>
  PROVE  DashesRead(After(optind - 1), After(optind))
<1> DEFINE acc == After(optind - 1)
           r == After(optind)
<1>1. Reads(table, acc) /\ r = Read(table, acc, This) /\ acc.wait = 0 /\ ~acc.over
  BY HereIs DEF Ready
<1> HIDE DEF acc, r
<1>2. r = [acc EXCEPT !.over = TRUE]
  BY <1>1, ReadDashes
<1>3. r.over /\ r.wait = 0 /\ r.bad = acc.bad /\ r.args = acc.args /\ r.words = acc.words
  BY <1>1, <1>2, DashesIs
<1>. QED  BY <1>3 DEF acc, r, DashesRead

LEMMA WordEnds ==
  ASSUME ParseTyped, optind < limit, Ready(After(optind - 1)), ~IsOption(This)
  PROVE  Worded(After(optind - 1), This, After(optind))
<1> DEFINE acc == After(optind - 1)
           r == After(optind)
<1>1. Reads(table, acc) /\ r = Read(table, acc, This) /\ acc.wait = 0 /\ ~acc.over /\ This \in Args
  BY HereIs DEF Ready
<1> HIDE DEF acc, r
<1>2. r = Word(acc, This)
  BY <1>1, ReadWord
<1>3. Worded(acc, This, r)
  BY <1>1, <1>2, WordIs
<1>. QED  BY <1>3 DEF acc, r

LEMMA TaggedEnds ==
  ASSUME ParseTyped, limit = Len(vector), Off(optind, place) \/ \E a : On(optind, place, a), EndOfOptions
  PROVE  optind' \in 1..Len(vector) /\ Ends(optind')
<1>1. optind \in 1..Len(vector) /\ Len(vector) \in Nat
  BY DEF ParseTyped
<1>2. /\ place = <<>>
      /\ \/ optind >= limit /\ optind' = optind
         \/ optind < limit /\ ~IsOption(This) /\ optind' = optind
         \/ optind < limit /\ This = <<"-", "-">> /\ optind' = optind + 1
  BY EndCases
<1>3. \/ After(optind - 1).bad
      \/ optind = Len(vector)
      \/ Ready(After(optind - 1))
  <2>1. ASSUME NEW j \in Nat, Group(optind, place, j) PROVE FALSE
    BY <1>2, <2>1, GroupHead
  <2>. QED  BY <2>1 DEF Off, On
<1>4. CASE optind >= limit
  <2>1. optind' = optind /\ optind = Len(vector)
    BY <1>1, <1>2, <1>4
  <2>. QED  BY <1>1, <2>1 DEF Ends
<1>5. CASE optind < limit /\ ~IsOption(This) /\ optind' = optind
  <2>1. optind # Len(vector)
    BY <1>1, <1>5
  <2>. QED  BY <1>1, <1>3, <1>5, <2>1 DEF Ends, Ready, This
<1>6. CASE optind < limit /\ This = <<"-", "-">> /\ optind' = optind + 1
  <2>1. optind # Len(vector) /\ optind' \in 1..Len(vector) /\ optind' - 1 = optind
    BY <1>1, <1>6
  <2>2. CASE After(optind - 1).bad
    <3>1. optind - 1 \in 0..(Len(vector) - 1) /\ optind \in (optind - 1)..(Len(vector) - 1)
      BY <1>1, <1>6
    <3>2. After(optind).bad
      BY <2>2, <3>1, StaysBad
    <3>. QED  BY <2>1, <3>2 DEF Ends
  <2>3. CASE Ready(After(optind - 1))
    <3>1. DashesRead(After(optind - 1), After(optind))
      BY <1>6, <2>3, DashesEnd
    <3>. QED  BY <2>1, <3>1 DEF Ends, DashesRead
  <2>. QED  BY <1>3, <2>1, <2>2, <2>3
<1>. QED  BY <1>1, <1>2, <1>4, <1>5, <1>6

\* From where the options are over on, the words of the line are what is left of it.
LEMMA OverMeans ==
  ASSUME ParseTyped, NEW n \in 0..(Len(vector) - 1), NEW e \in 1..(n + 1),
         ~After(n).bad, Later(vector, After(n), e, n, After(n))
  PROVE  /\ ~Mean.bad /\ Mean.wait = 0 /\ Mean.args = After(n).args
         /\ Mean.words = [k \in 1..(Len(vector) - e) |-> vector[e + k]]
<1>1. Sound(table) /\ vector \in Seq(Args) /\ vector # <<>> /\ Len(vector) \in Nat
  BY DEF ParseTyped
<1> DEFINE m == Len(vector) - 1
<1>2. m \in n..(Len(vector) - 1) /\ m + 1 - e = Len(vector) - e
  BY <1>1
<1>3. Mean = After(m)
  BY DEF Mean, Meaning, MeaningBut, After
<1> HIDE DEF m
<1>4. Later(vector, Readings(table, vector, {})[n], e, m, Readings(table, vector, {})[m])
  BY <1>1, <1>2, ReadingsOver DEF After
<1>5. Later(vector, After(n), e, m, Mean)
  BY <1>3, <1>4 DEF After
<1>. QED  BY <1>2, <1>5 DEF Later

LEMMA AgainEnds ==
  ASSUME ParseTyped, Edge, NEW a, On(optind, place, a), Matches(table, got, a), EndOfOptions
  PROVE  optind' \in 1..Len(vector) /\ Tagged(optind', got)
<1>1. /\ optind \in 1..Len(vector) /\ limit \in 1..Len(vector) /\ Len(vector) \in Nat
      /\ Sound(table) /\ vector \in Seq(Args) /\ vector # <<>>
  BY DEF ParseTyped
<1>2. /\ place = <<>>
      /\ \/ optind >= limit /\ optind' = optind
         \/ optind < limit /\ ~IsOption(This) /\ optind' = optind
         \/ optind < limit /\ This = <<"-", "-">> /\ optind' = optind + 1
  BY EndCases
<1>3. optind <= limit /\ Ready(After(optind - 1)) /\ a = After(optind - 1).args
  <2>1. ASSUME NEW j \in Nat, Group(optind, place, j) PROVE FALSE
    BY <1>2, <2>1, GroupHead
  <2>. QED  BY <2>1 DEF On
<1> DEFINE acc == After(optind - 1)
           r == After(optind)
<1>4. optind - 1 \in 0..(Len(vector) - 1) /\ Reads(table, acc) /\ acc.words = <<>>
  <2>1. optind - 1 \in 0..(Len(vector) - 1)
    BY <1>1
  <2>2. Reads(table, acc)
    BY <1>1, <2>1, ReadingsRead DEF After
  <2>. QED  BY <1>3, <2>1, <2>2 DEF Reads, Ready
<1>5. \A i \in DOMAIN table : Match(table[i], got[i], a[i])
  BY DEF Matches
<1>6. CASE optind >= limit
  <2>1. optind = limit /\ optind' = optind
    BY <1>1, <1>2, <1>3, <1>6
  <2>2. limit = Len(vector)
    <3>1. SUFFICES ASSUME limit # Len(vector) PROVE FALSE
      OBVIOUS
    <3>2. limit > 1 /\ Ends(limit - 1)
      BY <3>1 DEF Edge
    <3> DEFINE n == limit - 2
               arg == vector[limit]
               b == After(n)
    <3>3. /\ limit - 1 # Len(vector) /\ (limit - 1) - 1 = n /\ (limit - 1) + 1 = limit
          /\ n \in 0..(Len(vector) - 1) /\ limit - 1 \in n..(Len(vector) - 1) /\ limit - 1 \in 1..(Len(vector) - 1)
          /\ limit \in DOMAIN vector
      BY <1>1, <3>2
    <3>4. b.bad \/ (b.wait = 0 /\ (b.over \/ ~IsOption(arg)))
      BY <3>2, <3>3 DEF Ends
    <3>5. ~b.bad
      BY <1>3, <2>1, <3>3, StaysBad DEF Ready
    <3>6. Reads(table, b) /\ arg \in Args /\ acc = Read(table, b, arg)
      <4>1. Reads(table, b) /\ arg \in Args
        BY <1>1, <3>3, ReadingsRead DEF After
      <4>2. After(limit - 1) = Read(table, b, arg)
        BY <1>1, <3>3, ReadingsStep DEF After
      <4>. QED  BY <2>1, <4>1, <4>2
    <3> HIDE DEF acc, b, arg
    <3>7. Worded(b, arg, acc)
      <4>1. CASE b.over
        BY <1>1, <3>6, <4>1, ReadIs
      <4>2. CASE ~b.over
        <5>1. acc = Word(b, arg)
          BY <3>4, <3>5, <3>6, <4>2, ReadWord
        <5>. QED  BY <3>4, <3>5, <3>6, <5>1, WordIs
      <4>. QED  BY <4>1, <4>2
    <3>. QED  BY <1>3, <3>7 DEF Worded, Ready, acc
  <2>3. Mean = acc
    <3>1. optind - 1 = Len(vector) - 1
      BY <2>1, <2>2
    <3>. QED  BY <3>1 DEF Mean, Meaning, MeaningBut, After
  <2>4. [k \in 1..(Len(vector) - optind) |-> vector[optind + k]] = <<>>
    BY <1>1, <2>1, <2>2
  <2> HIDE DEF acc
  <2>5. Tagged(optind, got)
    BY <1>1, <1>3, <1>4, <1>5, <2>2, <2>3, <2>4 DEF Tagged, Ready, acc
  <2>. QED  BY <1>1, <2>1, <2>5
<1>7. optind < limit => /\ optind \in 0..(Len(vector) - 1) /\ optind \in 1..(optind + 1)
                        /\ optind + 1 \in 1..(optind + 1) /\ optind + 1 - optind = 1 /\ optind + 1 - (optind + 1) = 0
                        /\ optind + 1 \in 1..Len(vector)
  BY <1>1
<1>8. limit = Len(vector) \/ \E i \in DOMAIN table : table[i].stop
  BY DEF Edge
<1>9. CASE optind < limit /\ ~IsOption(This) /\ optind' = optind
  <2>1. Worded(acc, This, r)
    BY <1>3, <1>9, WordEnds
  <2> HIDE DEF acc, r
  <2>2. r.words = [k \in 1..1 |-> vector[optind + k]]
    <3>1. r.words = Append(<<>>, vector[optind + 1])
      BY <1>4, <2>1 DEF Worded, This
    <3>2. Append(<<>>, vector[optind + 1]) = [k \in 1..1 |-> vector[optind + k]]
      OBVIOUS
    <3>. QED  BY <3>1, <3>2
  <2>3. Later(vector, r, optind, optind, r) /\ ~r.bad /\ r.args = a
    BY <1>3, <1>7, <1>9, <2>1, <2>2 DEF Later, Worded, acc, Ready
  <2>4. /\ ~Mean.bad /\ Mean.wait = 0 /\ Mean.args = a
        /\ Mean.words = [k \in 1..(Len(vector) - optind) |-> vector[optind + k]]
    BY <1>7, <1>9, <2>3, OverMeans DEF r
  <2>. QED  BY <1>1, <1>5, <1>8, <1>9, <2>4 DEF Tagged
<1>10. CASE optind < limit /\ This = <<"-", "-">> /\ optind' = optind + 1
  <2> DEFINE e == optind + 1
  <2>1. DashesRead(acc, r)
    BY <1>3, <1>10, DashesEnd
  <2> HIDE DEF acc, r
  <2>2. r.words = [k \in 1..0 |-> vector[e + k]]
    <3>1. r.words = <<>>
      BY <1>4, <2>1 DEF DashesRead
    <3>. QED  BY <3>1
  <2>3. Later(vector, r, e, optind, r) /\ ~r.bad /\ r.args = a
    BY <1>3, <1>7, <1>10, <2>1, <2>2 DEF Later, DashesRead, acc, Ready
  <2>4. limit = Len(vector) \/ e < limit
    BY <1>3, <1>10, LastIs, Dashes
  <2>5. e \in 1..(optind + 1) /\ e \in 1..Len(vector)
    BY <1>7, <1>10
  <2> HIDE DEF e
  <2>6. /\ ~Mean.bad /\ Mean.wait = 0 /\ Mean.args = a
        /\ Mean.words = [k \in 1..(Len(vector) - e) |-> vector[e + k]]
    BY <1>7, <1>10, <2>3, <2>5, OverMeans DEF r
  <2>7. Tagged(e, got)
    BY <1>5, <1>8, <2>4, <2>5, <2>6 DEF Tagged
  <2>. QED  BY <1>10, <2>5, <2>7 DEF e
<1>. QED  BY <1>2, <1>6, <1>9, <1>10

-------------------------------------------------------------------------------
\* How many entries take a word.

LEMMA WordsIs ==
  ASSUME NEW tbl, NEW n \in Nat
  PROVE  IsFiniteSet({i \in 1..n : Untagged(tbl[i])}) /\ Words(tbl, n) \in Nat
<1> DEFINE is == {i \in 1..n : Untagged(tbl[i])}
<1>1. IsFiniteSet(1..n)
  BY FS_Interval
<1>2. IsFiniteSet(is)
  BY <1>1, FS_Subset
<1>3. Words(tbl, n) = Cardinality(is)
  BY DEF Words
<1> HIDE DEF is
<1>4. Words(tbl, n) \in Nat
  BY <1>2, <1>3, FS_CardinalityType
<1>. QED  BY <1>2, <1>4 DEF is

LEMMA WordsNone ==
  ASSUME NEW tbl
  PROVE  Words(tbl, 0) = 0
<1>1. {i \in 1..0 : Untagged(tbl[i])} = {}
  OBVIOUS
<1>. QED  BY <1>1, FS_EmptySet DEF Words

LEMMA WordsStep ==
  ASSUME NEW tbl, NEW n \in Nat
  PROVE  /\ Untagged(tbl[n + 1]) => Words(tbl, n + 1) = Words(tbl, n) + 1
         /\ ~Untagged(tbl[n + 1]) => Words(tbl, n + 1) = Words(tbl, n)
<1> DEFINE is == {i \in 1..n : Untagged(tbl[i])}
           more == {i \in 1..(n + 1) : Untagged(tbl[i])}
<1>1. IsFiniteSet(is)
  BY WordsIs
<1>2. Words(tbl, n) = Cardinality(is) /\ Words(tbl, n + 1) = Cardinality(more)
  BY DEF Words
<1>3. CASE Untagged(tbl[n + 1])
  <2>1. more = is \cup {n + 1} /\ n + 1 \notin is
    BY <1>3
  <2> HIDE DEF is, more
  <2>2. Cardinality(more) = Cardinality(is) + 1
    BY <1>1, <2>1, FS_AddElement
  <2>. QED  BY <1>2, <1>3, <2>2
<1>4. CASE ~Untagged(tbl[n + 1])
  <2>1. more = is
    BY <1>4
  <2> HIDE DEF is, more
  <2>. QED  BY <1>2, <1>4, <2>1
<1>. QED  BY <1>3, <1>4

LEMMA WordsGrow ==
  ASSUME NEW tbl, NEW n \in Nat, NEW m \in 0..n
  PROVE  Words(tbl, m) <= Words(tbl, n)
<1> DEFINE is == {i \in 1..m : Untagged(tbl[i])}
           more == {i \in 1..n : Untagged(tbl[i])}
<1>1. IsFiniteSet(more) /\ is \subseteq more
  BY WordsIs
<1>2. Words(tbl, m) = Cardinality(is) /\ Words(tbl, n) = Cardinality(more)
  BY DEF Words
<1> HIDE DEF is, more
<1>. QED  BY <1>1, <1>2, FS_Subset

\* No word for the entries behind m.
LEMMA WordsEnd ==
  ASSUME NEW tbl, NEW n \in Nat, NEW m \in 0..n, \A i \in (m + 1)..n : ~Untagged(tbl[i])
  PROVE  Words(tbl, m) = Words(tbl, n)
<1>1. {i \in 1..m : Untagged(tbl[i])} = {i \in 1..n : Untagged(tbl[i])}
  <2>1. \A i \in 1..n : i \in 1..m \/ i \in (m + 1)..n
    OBVIOUS
  <2>. QED  BY <2>1
<1>. QED  BY <1>1 DEF Words

\* That of entry i is one more than those before.
LEMMA WordsAt ==
  ASSUME NEW tbl, NEW i \in Nat \ {0}, Untagged(tbl[i])
  PROVE  Words(tbl, i) = Words(tbl, i - 1) + 1 /\ Words(tbl, i) \in Nat \ {0} /\ Words(tbl, i - 1) \in Nat
<1> DEFINE n == i - 1
<1>1. n \in Nat /\ n + 1 = i
  OBVIOUS
<1> HIDE DEF n
<1>2. Words(tbl, n + 1) = Words(tbl, n) + 1 /\ Words(tbl, n) \in Nat
  BY <1>1, WordsStep, WordsIs
<1>. QED  BY <1>1, <1>2 DEF n

LEMMA WordsNotAt ==
  ASSUME NEW tbl, NEW i \in Nat \ {0}, ~Untagged(tbl[i])
  PROVE  Words(tbl, i) = Words(tbl, i - 1)
<1> DEFINE n == i - 1
<1>1. n \in Nat /\ n + 1 = i
  OBVIOUS
<1> HIDE DEF n
<1>2. Words(tbl, n + 1) = Words(tbl, n)
  BY <1>1, WordsStep
<1>. QED  BY <1>1, <1>2 DEF n

LEMMA ScannedIs ==
  ASSUME NEW v
  PROVE  Scanned(v).error = ""
<1> SUFFICES ASSUME NEW er PROVE [error |-> er, value |-> v].error = er
  BY DEF Scanned
<1>. QED  OBVIOUS

\* What is known of an entry that ends the parse.
Stopper(tbl, i) ==
  /\ Untagged(tbl[i]) /\ \A j \in DOMAIN tbl : Untagged(tbl[j]) => j = i
  /\ Words(tbl, i) = 1 /\ Words(tbl, Len(tbl)) = 1
  /\ \A m \in 0..(i - 1) : Words(tbl, m) = 0
  /\ \A arg : Scan(tbl[i], 0, arg).error = ""

\* The entry that ends the parse is the only one that takes a word, any word.
LEMMA StopIs ==
  ASSUME NEW tbl, Sound(tbl), NEW i \in DOMAIN tbl, tbl[i].stop
  PROVE  Stopper(tbl, i)
<1>1. /\ Untagged(tbl[i]) /\ \A j \in DOMAIN tbl : Untagged(tbl[j]) => j = i
      /\ tbl[i].kind = "str" /\ tbl[i].max = 1 /\ Len(tbl) \in Nat /\ DOMAIN tbl = 1..Len(tbl)
  BY DEF Sound
<1>2. \A m \in 0..(i - 1) : Words(tbl, m) = 0
  <2>1. SUFFICES ASSUME NEW m \in 0..(i - 1) PROVE Words(tbl, m) = 0
    OBVIOUS
  <2>2. {j \in 1..m : Untagged(tbl[j])} = {}
    <3>1. \A j \in 1..m : j \in DOMAIN tbl /\ j # i
      BY <1>1
    <3>. QED  BY <1>1, <3>1
  <2>. QED  BY <2>2, FS_EmptySet DEF Words
<1>3. i - 1 \in 0..(i - 1) /\ i \in Nat \ {0}
  BY <1>1
<1>4. Words(tbl, i) = 1
  <2>1. Words(tbl, i) = Words(tbl, i - 1) + 1 /\ Words(tbl, i - 1) = 0
    BY <1>1, <1>2, <1>3, WordsAt
  <2>. QED  BY <2>1
<1>5. Words(tbl, Len(tbl)) = 1
  <2>1. i \in 0..Len(tbl) /\ \A j \in (i + 1)..Len(tbl) : j \in DOMAIN tbl /\ j # i
    BY <1>1
  <2>2. \A j \in (i + 1)..Len(tbl) : ~Untagged(tbl[j])
    BY <1>1, <2>1
  <2>3. Words(tbl, i) = Words(tbl, Len(tbl))
    BY <1>1, <2>1, <2>2, WordsEnd
  <2>. QED  BY <1>4, <2>3
<1>6. \A arg : Scan(tbl[i], 0, arg).error = ""
  <2>1. SUFFICES ASSUME NEW arg PROVE Scan(tbl[i], 0, arg).error = ""
    OBVIOUS
  <2>2. Scan(tbl[i], 0, arg) = ScanStr(arg)
    BY <1>1 DEF Scan
  <2>3. ScanStr(arg).error = ""
    BY ScannedIs DEF ScanStr
  <2>. QED  BY <2>2, <2>3, Zenon
<1>. QED  BY <1>1, <1>2, <1>4, <1>5, <1>6, Zenon DEF Stopper

-------------------------------------------------------------------------------
\* The words of a line.

\* What the words of the line are for the table.
Spoken(e) ==
  /\ (\A i \in DOMAIN table : ~table[i].stop) =>
       WordsFor(table, Mean.words) = Mean.words /\ Len(WordsFor(table, Mean.words)) = Len(vector) - e
  /\ \A i \in DOMAIN table : table[i].stop /\ e < Len(vector) =>
       WordsFor(table, Mean.words) = <<vector[e + 1]>>
  /\ \A i \in DOMAIN table : table[i].stop /\ e = Len(vector) => WordsFor(table, Mean.words) = <<>>

LEMMA SpokenIs ==
  ASSUME ParseTyped, NEW e, NEW g, Tagged(e, g)
  PROVE  Spoken(e)
<1> DEFINE n == Len(vector) - e
           w == Mean.words
<1>1. e \in 1..Len(vector) /\ n \in Nat /\ (n = 0 <=> e = Len(vector)) /\ (e < Len(vector) => 1 \in 1..n)
  BY DEF Tagged, ParseTyped
<1>2. w = [k \in 1..n |-> vector[e + k]]
  BY DEF Tagged
<1> HIDE DEF n, w
<1>3. Len(w) = n /\ (n = 0 => w = <<>>) /\ (n # 0 => w # <<>> /\ Head(w) = vector[e + 1])
  BY <1>1, <1>2
<1>4. (\A i \in DOMAIN table : ~table[i].stop) => WordsFor(table, w) = w
  BY DEF WordsFor
<1>5. ASSUME NEW i \in DOMAIN table, table[i].stop
      PROVE  WordsFor(table, w) = IF w # <<>> THEN <<Head(w)>> ELSE w
  BY <1>5 DEF WordsFor
<1>6. \A i \in DOMAIN table : table[i].stop /\ e < Len(vector) => WordsFor(table, w) = <<vector[e + 1]>>
  BY <1>1, <1>3, <1>5
<1>7. \A i \in DOMAIN table : table[i].stop /\ e = Len(vector) => WordsFor(table, w) = <<>>
  BY <1>1, <1>3, <1>5
<1>. QED  BY <1>3, <1>4, <1>6, <1>7, Zenon DEF Spoken, n, w

\* An entry's word, if there are so many.
LEMMA WordIsAt ==
  ASSUME ParseTyped, NEW e, NEW g, Tagged(e, g), NEW i \in DOMAIN table, Untagged(table[i]),
         Words(table, i) <= Len(vector) - e
  PROVE  WordsFor(table, Mean.words)[Words(table, i)] = vector[e + Words(table, i)]
<1> DEFINE q == Words(table, i)
           w == WordsFor(table, Mean.words)
<1>1. /\ e \in 1..Len(vector) /\ Len(vector) \in Nat /\ Sound(table) /\ i \in Nat \ {0}
  BY DEF Tagged, ParseTyped, Sound
<1>2. q \in Nat \ {0}
  BY <1>1, WordsAt
<1>3. Spoken(e)
  BY SpokenIs
<1>4. CASE \A j \in DOMAIN table : ~table[j].stop
  <2>1. w = Mean.words
    BY <1>3, <1>4 DEF Spoken
  <2>2. Mean.words = [k \in 1..(Len(vector) - e) |-> vector[e + k]]
    BY DEF Tagged
  <2>3. q \in 1..(Len(vector) - e)
    BY <1>1, <1>2
  <2> HIDE DEF q, w
  <2>4. w[q] = vector[e + q]
    BY <2>1, <2>2, <2>3
  <2>. QED  BY <2>4 DEF q, w
<1>5. ASSUME NEW j \in DOMAIN table, table[j].stop
      PROVE  w[q] = vector[e + q]
  <2>1. Stopper(table, j)
    BY <1>1, <1>5, StopIs
  <2>2. q = 1
    BY <2>1 DEF Stopper
  <2>3. e < Len(vector)
    BY <1>1, <2>2
  <2>4. w = <<vector[e + 1]>>
    BY <1>3, <1>5, <2>3 DEF Spoken
  <2> HIDE DEF q, w
  <2>. QED  BY <2>2, <2>4
<1>. QED  BY <1>4, <1>5

\* What Right and ValuesOf find of an argument list that matches.
Scans(e, values, args) ==
  /\ Len(args) \in e.min..e.max /\ \A k \in DOMAIN args : Scan(e, 0, args[k]).error = ""
  /\ values = [k \in DOMAIN args |-> Scan(e, 0, args[k]).value]
  /\ ~(Len(values) < e.min)

LEMMA OneIsSome ==
  ASSUME NEW s, Len(s) = 1 PROVE s # <<>>
<1>1. Len(<<>>) = 0
  OBVIOUS
<1>. QED  BY <1>1

LEMMA MatchScans ==
  ASSUME NEW e, e.max = 1, e.min \in Nat, NEW values, NEW args, Match(e, values, args),
         args = <<>> \/ args = <<args[1]>>, e.min <= Len(args)
  PROVE  Scans(e, values, args)
<1>1. CASE values = <<>> /\ args = <<>>
  <2>1. Len(args) = 0 /\ DOMAIN args = {} /\ Len(values) = 0 /\ e.min = 0
    BY <1>1
  <2>2. values = [k \in DOMAIN args |-> Scan(e, 0, args[k]).value]
    BY <1>1, <2>1
  <2>. QED  BY <2>1, <2>2 DEF Scans
<1>2. CASE Len(args) = 1 /\ Scan(e, 0, args[1]).error = "" /\ values = <<Scan(e, 0, args[1]).value>>
  <2> DEFINE a == args[1]
             v == Scan(e, 0, a).value
  <2>1. Len(args) = 1
    BY <1>2
  <2>2. args = <<a>> /\ a = args[1]
    <3>1. args # <<>>
      BY <2>1, OneIsSome
    <3>. QED  BY <3>1, Zenon
  <2>8. values = <<v>>
    BY <1>2, Zenon
  <2>9. Scan(e, 0, a).error = ""
    BY <1>2, Zenon
  <2> HIDE DEF a, v
  <2>3. DOMAIN args = {1} /\ \A k \in DOMAIN args : args[k] = a
    BY <2>2
  <2>4. values = [k \in DOMAIN args |-> v] /\ Len(values) = 1
    BY <2>3, <2>8
  <2>5. [k \in DOMAIN args |-> v] = [k \in DOMAIN args |-> Scan(e, 0, args[k]).value]
    BY <2>3, Zenon DEF v
  <2>6. \A k \in DOMAIN args : Scan(e, 0, args[k]).error = ""
    BY <2>3, <2>9, Zenon
  <2>7. Len(args) \in e.min..e.max /\ ~(Len(values) < e.min)
    BY <2>1, <2>4
  <2>10. values = [k \in DOMAIN args |-> Scan(e, 0, args[k]).value]
    BY <2>4, <2>5
  <2>. QED  BY <2>6, <2>7, <2>10, Zenon DEF Scans
<1>. QED  BY <1>1, <1>2, Zenon DEF Match

\* A line that has every word that it should have is right.
LEMMA AllFilled ==
  ASSUME ParseTyped, NEW e, NEW g, Tagged(e, g), g = [i \in DOMAIN table |-> g[i]],
         Len(WordsFor(table, Mean.words)) = Words(table, Len(table)),
         \A i \in DOMAIN table : Untagged(table[i]) => Filled(i, e, g)
  PROVE  Accepts(g)
<1> DEFINE as == ArgsOf(table, Mean)
<1>1. /\ Sound(table) /\ vector \in Seq(Args) /\ vector # <<>> /\ Len(vector) \in Nat
      /\ Len(vector) - 1 \in 0..(Len(vector) - 1)
  BY DEF ParseTyped
<1>2. Reads(table, Mean)
  BY <1>1, ReadingsRead DEF Mean, Meaning, MeaningBut
<1>3. ASSUME NEW i \in DOMAIN table
      PROVE  Scans(table[i], g[i], as[i])
  <2>1. table[i].max = 1 /\ table[i].min = IF Untagged(table[i]) THEN 1 ELSE 0
    BY <1>1 DEF Sound
  <2>2. as[i] = IF Untagged(table[i]) THEN <<WordsFor(table, Mean.words)[Words(table, i)]>> ELSE Mean.args[i]
    BY DEF ArgsOf
  <2>3. CASE Untagged(table[i])
    <3> DEFINE w == vector[e + Words(table, i)]
    <3>1. Filled(i, e, g)
      BY <2>3
    <3>2. Words(table, i) <= Len(vector) - e
      BY <3>1 DEF Filled
    <3>3. as[i] = <<w>>
      BY <2>2, <2>3, <3>2, WordIsAt
    <3>4. Scan(table[i], 0, w).error = "" /\ g[i] = <<Scan(table[i], 0, w).value>>
      BY <3>1, Zenon DEF Filled
    <3> HIDE DEF w, as
    <3>5. as[i][1] = w /\ Len(as[i]) = 1 /\ table[i].min = 1
      BY <2>1, <2>3, <3>3
    <3>6. Match(table[i], g[i], as[i])
      BY <3>4, <3>5, Zenon DEF Match
    <3>7. as[i] = <<as[i][1]>>
      BY <3>3, <3>5
    <3>8. table[i].min \in Nat /\ table[i].min <= Len(as[i])
      BY <3>5
    <3>. QED  BY <2>1, <3>6, <3>7, <3>8, MatchScans
  <2>4. CASE ~Untagged(table[i])
    <3>1. as[i] = Mean.args[i] /\ table[i].min = 0
      BY <2>1, <2>2, <2>4
    <3>2. Mean.args[i] \in Seq(Args)
      BY <1>2 DEF Reads
    <3>3. Match(table[i], g[i], Mean.args[i])
      BY <2>4 DEF Tagged
    <3> HIDE DEF as
    <3>4. as[i] = <<>> \/ Len(as[i]) = 1
      BY <3>1, <3>3, Zenon DEF Match
    <3>5. as[i] = <<>> \/ as[i] = <<as[i][1]>>
      BY <3>1, <3>2, <3>4
    <3>6. table[i].min \in Nat /\ table[i].min <= Len(as[i])
      BY <3>1, <3>2
    <3>. QED  BY <2>1, <3>1, <3>3, <3>5, <3>6, MatchScans
  <2>. QED  BY <2>3, <2>4
<1>4. Fits
  <2>1. \A i \in DOMAIN table :
          /\ Len(as[i]) \in table[i].min..table[i].max
          /\ \A k \in DOMAIN as[i] : Scan(table[i], 0, as[i][k]).error = ""
    <3> HIDE DEF as
    <3>. QED  BY <1>3, Zenon DEF Scans
  <2>2. ~Mean.bad /\ Mean.wait = 0
    BY DEF Tagged
  <2>. QED  BY <2>1, <2>2, Zenon DEF Fits, Right, Mean
<1>5. g = ValuesOf(table, vector)
  <2>1. \A i \in DOMAIN table : g[i] = [k \in DOMAIN as[i] |-> Scan(table[i], 0, as[i][k]).value]
    <3> HIDE DEF as
    <3>. QED  BY <1>3, Zenon DEF Scans
  <2>2. ValuesOf(table, vector) =
          [i \in DOMAIN table |-> [k \in DOMAIN as[i] |-> Scan(table[i], 0, as[i][k]).value]]
    BY Zenon DEF ValuesOf, Mean
  <2> HIDE DEF as
  <2>3. [i \in DOMAIN table |-> g[i]]
          = [i \in DOMAIN table |-> [k \in DOMAIN as[i] |-> Scan(table[i], 0, as[i][k]).value]]
    BY <2>1, Zenon
  <2>. QED  BY <2>2, <2>3, Zenon
<1>6. ~Lacking(g)
  <2>1. \A i \in DOMAIN table : ~(Len(g[i]) < table[i].min)
    <3> HIDE DEF as
    <3>. QED  BY <1>3, Zenon DEF Scans
  <2>. QED  BY <2>1, Zenon DEF Lacking
<1>. QED  BY <1>4, <1>5, <1>6 DEF Accepts

\* Another number of words than the table asks for.
LEMMA WrongNumber ==
  ASSUME Len(WordsFor(table, Mean.words)) # Words(table, Len(table))
  PROVE  ~Fits
BY Zenon DEF Fits, Right, Mean

LEMMA OneHas ==
  ASSUME NEW w PROVE 1 \in DOMAIN <<w>> /\ <<w>>[1] = w
OBVIOUS

\* A word of another kind than that of its entry.
LEMMA WrongWord ==
  ASSUME ParseTyped, NEW e, NEW g, Tagged(e, g), NEW i \in DOMAIN table, Untagged(table[i]),
         Words(table, i) <= Len(vector) - e,
         Scan(table[i], 0, vector[e + Words(table, i)]).error # ""
  PROVE  ~Fits
<1> DEFINE w == vector[e + Words(table, i)]
           as == ArgsOf(table, Mean)[i]
<1>1. as = <<w>>
  <2>1. as = <<WordsFor(table, Mean.words)[Words(table, i)]>>
    BY DEF ArgsOf
  <2>. QED  BY <2>1, WordIsAt
<1>2. Scan(table[i], 0, w).error # ""
  OBVIOUS
<1> HIDE DEF w, as
<1>3. 1 \in DOMAIN as /\ as[1] = w
  BY <1>1, OneHas, Zenon
<1>4. ~\A k \in DOMAIN as : Scan(table[i], 0, as[k]).error = ""
  BY <1>2, <1>3, Zenon
<1>. QED  BY <1>4, Zenon DEF Fits, Right, Mean, as

-------------------------------------------------------------------------------
\* The untagged pass.

LEMMA FilledSome ==
  ASSUME NEW i, NEW e, NEW g, Filled(i, e, g)
  PROVE  g[i] # <<>> /\ Len(g[i]) = 1 /\ Words(table, i) <= Len(vector) - e
<1> DEFINE v == Scan(table[i], 0, vector[e + Words(table, i)]).value
<1>1. g[i] = <<v>> /\ Words(table, i) <= Len(vector) - e
  BY Zenon DEF Filled
<1> HIDE DEF v
<1>. QED  BY <1>1

\* Where the next word is: behind the words of the entries before, or of those and this one.
LEMMA NextWord ==
  ASSUME ParseTyped, NEW e, NEW t \in 1..(Len(table) + 1), NEW o, NEW g, Placed(e, o, t, g)
  PROVE  \/ o = e + Words(table, t - 1)
         \/ t <= Len(table) /\ Untagged(table[t]) /\ Filled(t, e, g) /\ o = e + Words(table, t)
<1>1. Len(table) \in Nat /\ DOMAIN table = 1..Len(table)
  BY DEF ParseTyped, Sound
<1>2. CASE t > Len(table) \/ ~Untagged(table[t])
  BY <1>2 DEF Placed
<1>3. CASE t <= Len(table) /\ Untagged(table[t])
  <2>1. t \in DOMAIN table
    BY <1>1, <1>3
  <2>. QED  BY <1>3, <2>1 DEF Placed
<1>. QED  BY <1>1, <1>2, <1>3

\* Before a command there are no words.
LEMMA StopFirst ==
  ASSUME ParseTyped, NEW e, NEW t \in 1..(Len(table) + 1), NEW o, NEW g, Placed(e, o, t, g),
         NEW i \in DOMAIN table, table[i].stop
  PROVE  o = e /\ Stopper(table, i) /\ t <= i /\ g[i] = <<>> /\ Words(table, t - 1) = 0
<1>1. Sound(table) /\ DOMAIN table = 1..Len(table) /\ Len(table) \in Nat /\ e \in Nat
  BY DEF ParseTyped, Sound, Placed, Tagged
<1>2. Stopper(table, i)
  BY <1>1, StopIs
<1>3. t <= i /\ g[i] = <<>>
  BY DEF Placed
<1>4. t - 1 \in 0..(i - 1)
  BY <1>1, <1>3
<1>5. Words(table, t - 1) = 0
  BY <1>2, <1>4 DEF Stopper
<1>6. ~(t <= Len(table) /\ Untagged(table[t]) /\ Filled(t, e, g))
  <2>1. SUFFICES ASSUME t <= Len(table), Untagged(table[t]), Filled(t, e, g) PROVE FALSE
    OBVIOUS
  <2>2. t \in DOMAIN table
    BY <1>1, <2>1
  <2>3. t = i
    BY <1>2, <2>1, <2>2 DEF Stopper
  <2>. QED  BY <1>3, <2>1, <2>3, FilledSome
<1>7. o = e + Words(table, t - 1)
  BY <1>6, NextWord
<1>. QED  BY <1>1, <1>2, <1>3, <1>5, <1>7

LEMMA EmptyLacks ==
  ASSUME ParseTyped, NEW g, NEW i \in DOMAIN table, Untagged(table[i]), g[i] = <<>>
  PROVE  Lacking(g)
<1>1. table[i].min = 1
  BY DEF ParseTyped, Sound
<1>2. Len(g[i]) = 0
  OBVIOUS
<1>. QED  BY <1>1, <1>2 DEF Lacking

\* No argument is left.
LEMMA PlacedEnds ==
  ASSUME ParseTyped, NEW e, Placed(e, optind, tab, got), optind >= limit
  PROVE  Accepts(got) \/ Rejects(got)
<1>1. /\ Sound(table) /\ DOMAIN table = 1..Len(table) /\ Len(table) \in Nat /\ e \in 1..Len(vector)
      /\ Len(vector) \in Nat /\ optind \in 1..Len(vector) /\ limit \in 1..Len(vector)
      /\ tab \in 1..(Len(table) + 1) /\ got = [i \in DOMAIN table |-> got[i]]
  BY DEF ParseTyped, Sound, Placed, Tagged
<1>2. Tagged(e, got)
  BY DEF Placed
<1>3. Spoken(e) /\ (limit = Len(vector) \/ (e < limit /\ \E i \in DOMAIN table : table[i].stop))
  BY <1>2, SpokenIs DEF Tagged
<1>4. ASSUME NEW i \in DOMAIN table, table[i].stop PROVE Rejects(got)
  <2>1. optind = e /\ Stopper(table, i) /\ got[i] = <<>>
    BY <1>1, <1>4, StopFirst
  <2>2. e = Len(vector)
    BY <1>1, <1>3, <2>1
  <2>3. WordsFor(table, Mean.words) = <<>>
    BY <1>3, <1>4, <2>2 DEF Spoken
  <2>4. Len(WordsFor(table, Mean.words)) # Words(table, Len(table))
    <3>1. Len(WordsFor(table, Mean.words)) = 0
      BY <2>3
    <3>2. Words(table, Len(table)) = 1
      BY <2>1, Zenon DEF Stopper
    <3>. QED  BY <3>1, <3>2
  <2>. QED  BY <2>1, <2>4, WrongNumber, EmptyLacks DEF Rejects, Stopper
<1>5. ASSUME \A i \in DOMAIN table : ~table[i].stop PROVE Accepts(got) \/ Rejects(got)
  <2> DEFINE W(n) == Words(table, n)
             all == Words(table, Len(table))
             n == Len(WordsFor(table, Mean.words))
  <2>1. n = Len(vector) - e /\ optind = Len(vector)
    BY <1>1, <1>3, <1>5 DEF Spoken
  <2>2. /\ all \in Nat
        /\ \A k \in 0..Len(table) : Words(table, k) \in Nat /\ Words(table, k) <= all
    <3>1. all \in Nat
      BY <1>1, WordsIs
    <3>2. ASSUME NEW k \in 0..Len(table) PROVE Words(table, k) \in Nat /\ Words(table, k) <= all
      <4>1. k \in Nat
        BY <1>1
      <4>. QED  BY <1>1, <4>1, WordsIs, WordsGrow
    <3>. QED  BY <3>1, <3>2
  <2>3. \/ optind = e + Words(table, tab - 1)
        \/ tab <= Len(table) /\ Untagged(table[tab]) /\ Filled(tab, e, got) /\ optind = e + Words(table, tab)
    BY <1>1, NextWord
  <2>4. ASSUME \A i \in DOMAIN table : Untagged(table[i]) => Filled(i, e, got)
        PROVE  Accepts(got)
    <3>1. \A i \in DOMAIN table : i > tab => ~Untagged(table[i])
      BY <2>4, FilledSome DEF Placed
    <3>2. CASE tab > Len(table)
      <4>1. tab - 1 = Len(table) /\ optind = e + Words(table, tab - 1)
        BY <1>1, <2>3, <3>2
      <4> HIDE DEF n, all
      <4>2. n = all
        BY <1>1, <2>1, <2>2, <4>1 DEF all
      <4>. QED  BY <1>1, <1>2, <2>4, <4>2, AllFilled DEF n, all
    <3>3. CASE tab <= Len(table)
      <4>1. tab \in DOMAIN table /\ tab \in Nat \ {0} /\ tab \in 0..Len(table)
        BY <1>1, <3>3
      <4>2. Words(table, tab) = all
        <5>1. \A i \in (tab + 1)..Len(table) : ~Untagged(table[i])
          BY <1>1, <3>1
        <5>. QED  BY <1>1, <4>1, <5>1, WordsEnd
      <4>3. optind = e + Words(table, tab)
        <5>1. CASE Untagged(table[tab])
          <6>1. got[tab] # <<>>
            BY <2>4, <4>1, <5>1, FilledSome
          <6>. QED  BY <4>1, <5>1, <6>1 DEF Placed
        <5>2. CASE ~Untagged(table[tab])
          <6>1. Words(table, tab) = Words(table, tab - 1)
            BY <4>1, <5>2, WordsNotAt
          <6>. QED  BY <2>3, <5>2, <6>1
        <5>. QED  BY <5>1, <5>2
      <4> HIDE DEF n, all
      <4>4. n = all
        BY <1>1, <2>1, <2>2, <4>2, <4>3
      <4>. QED  BY <1>1, <1>2, <2>4, <4>4, AllFilled DEF n, all
    <3>. QED  BY <1>1, <3>2, <3>3
  <2>5. ASSUME NEW i \in DOMAIN table, Untagged(table[i]), ~Filled(i, e, got)
        PROVE  Rejects(got)
    <3>1. ~(i < tab) /\ got[i] = <<>>
      BY <1>1, <2>5 DEF Placed
    <3>2. i \in Nat \ {0} /\ i - 1 \in Nat /\ i \in 0..Len(table) /\ i - 1 \in 0..Len(table) /\ tab <= i
      BY <1>1, <3>1
    <3>3. Words(table, i) = Words(table, i - 1) + 1 /\ Words(table, i - 1) \in Nat
      BY <2>5, <3>2, WordsAt
    <3>4. \E k \in 0..(i - 1) : optind = e + Words(table, k)
      <4>1. tab - 1 \in 0..(i - 1)
        BY <1>1, <3>2
      <4>2. CASE optind = e + Words(table, tab) /\ tab # i
        <5>1. tab \in 0..(i - 1)
          BY <1>1, <3>2, <4>2
        <5>. QED  BY <4>2, <5>1
      <4>. QED  BY <2>3, <2>5, <4>1, <4>2
    <3>5. PICK k \in 0..(i - 1) : optind = e + Words(table, k)
      BY <3>4
    <3>6. Words(table, k) <= Words(table, i - 1) /\ k \in 0..Len(table)
      BY <3>2, <3>5, WordsGrow
    <3> DEFINE a == Words(table, k)
               b == Words(table, i - 1)
               c == Words(table, i)
    <3>7. a \in Nat /\ b \in Nat /\ c = b + 1 /\ a <= b /\ c <= all /\ all \in Nat /\ optind = e + a
      BY <2>2, <3>2, <3>3, <3>5, <3>6
    <3> HIDE DEF a, b, c, n, all
    <3>8. n # all
      BY <1>1, <2>1, <3>7
    <3>. QED  BY <2>5, <3>1, <3>8, WrongNumber, EmptyLacks DEF Rejects, n, all
  <2>. QED  BY <2>4, <2>5
<1>. QED  BY <1>4, <1>5

\* More arguments than entries.
LEMMA PlacedLeft ==
  ASSUME ParseTyped, NEW e, Placed(e, optind, tab, got), optind < limit, tab > Len(table)
  PROVE  ~Fits
<1>1. /\ DOMAIN table = 1..Len(table) /\ Len(table) \in Nat /\ e \in 1..Len(vector)
      /\ Len(vector) \in Nat /\ optind \in 1..Len(vector) /\ limit \in 1..Len(vector)
      /\ tab \in 1..(Len(table) + 1)
  BY DEF ParseTyped, Sound, Placed, Tagged
<1>2. Tagged(e, got)
  BY DEF Placed
<1>3. tab - 1 = Len(table) /\ optind = e + Words(table, tab - 1)
  BY <1>1 DEF Placed
<1>4. \A i \in DOMAIN table : ~table[i].stop
  BY <1>1 DEF Placed
<1>5. Len(WordsFor(table, Mean.words)) = Len(vector) - e
  BY <1>2, <1>4, SpokenIs DEF Spoken
<1> DEFINE n == Len(WordsFor(table, Mean.words))
           all == Words(table, Len(table))
<1>6. all \in Nat /\ optind = e + all /\ n = Len(vector) - e
  BY <1>1, <1>3, <1>5, WordsIs
<1> HIDE DEF n, all
<1>7. n # all
  BY <1>1, <1>6
<1>. QED  BY <1>7, WrongNumber DEF n, all

\* An entry of an option takes no word.
LEMMA PlacedPasses ==
  ASSUME ParseTyped, NEW e, Placed(e, optind, tab, got), tab <= Len(table), ~Untagged(table[tab])
  PROVE  Placed(e, optind, tab + 1, got)
<1>1. /\ Sound(table) /\ DOMAIN table = 1..Len(table) /\ Len(table) \in Nat
      /\ tab \in 1..(Len(table) + 1) /\ tab \in Nat \ {0}
  BY DEF ParseTyped, Sound
<1>2. optind = e + Words(table, (tab + 1) - 1)
  <2>1. Words(table, tab) = Words(table, tab - 1)
    BY <1>1, WordsNotAt
  <2>2. optind = e + Words(table, tab - 1) /\ (tab + 1) - 1 = tab
    BY <1>1 DEF Placed
  <2>. QED  BY <2>1, <2>2
<1>3. \A i \in DOMAIN table : table[i].stop => tab + 1 <= i /\ got[i] = <<>>
  <2>1. \A i \in DOMAIN table : table[i].stop => tab <= i /\ got[i] = <<>> /\ Untagged(table[i])
    BY <1>1 DEF Placed, Sound
  <2>. QED  BY <1>1, <2>1
<1> DEFINE t == tab + 1
<1> HIDE DEF t
<1>4. ASSUME NEW i \in DOMAIN table, Untagged(table[i])
      PROVE  /\ i < t => Filled(i, e, got)
             /\ i > t => got[i] = <<>>
             /\ i = t => \/ got[i] = <<>> /\ optind = e + Words(table, t - 1)
                         \/ Filled(i, e, got) /\ optind = e + Words(table, t)
  <2>1. i # tab /\ i \in Nat
    BY <1>1, <1>4
  <2>2. (i < tab => Filled(i, e, got)) /\ (i > tab => got[i] = <<>>)
    BY <1>4 DEF Placed
  <2>3. (i < t => i < tab \/ i = tab) /\ (i > t => i > tab) /\ (i = t => i > tab)
    BY <1>1, <2>1 DEF t
  <2>4. optind = e + Words(table, t - 1)
    BY <1>2 DEF t
  <2>. QED  BY <1>2, <2>1, <2>2, <2>3, <2>4, Zenon
<1>5. Tagged(e, got)
  BY DEF Placed
<1>6. \A i \in DOMAIN table : Untagged(table[i]) =>
        /\ i < t => Filled(i, e, got)
        /\ i > t => got[i] = <<>>
        /\ i = t => \/ got[i] = <<>> /\ optind = e + Words(table, t - 1)
                    \/ Filled(i, e, got) /\ optind = e + Words(table, t)
  BY <1>4, Zenon
<1>7. optind = e + Words(table, t - 1)
  BY <1>2 DEF t
<1>8. \A i \in DOMAIN table : table[i].stop => t <= i /\ got[i] = <<>>
  BY <1>3 DEF t
<1>9. Placed(e, optind, t, got)
  BY <1>5, <1>6, <1>7, <1>8, Zenon DEF Placed
<1>. QED  BY <1>9 DEF t

\* The entry has no word yet, and the argument looked at is the one that is its.
LEMMA WordHere ==
  ASSUME ParseTyped, NEW e, Placed(e, optind, tab, got), tab <= Len(table), Untagged(table[tab]),
         got[tab] = <<>>, optind < limit
  PROVE  /\ This = vector[e + Words(table, tab)] /\ Words(table, tab) <= Len(vector) - e
         /\ optind + 1 = e + Words(table, tab)
<1>1. /\ DOMAIN table = 1..Len(table) /\ Len(table) \in Nat /\ e \in 1..Len(vector)
      /\ Len(vector) \in Nat /\ optind \in 1..Len(vector) /\ limit \in 1..Len(vector)
      /\ tab \in 1..(Len(table) + 1) /\ tab \in Nat \ {0} /\ tab \in DOMAIN table
  BY DEF ParseTyped, Sound, Placed, Tagged
<1>2. ~Filled(tab, e, got)
  BY FilledSome
<1>3. optind = e + Words(table, tab - 1)
  BY <1>1, <1>2, NextWord
<1> DEFINE a == Words(table, tab - 1)
           b == Words(table, tab)
<1>4. b = a + 1 /\ a \in Nat
  BY <1>1, WordsAt
<1>5. optind = e + a
  BY <1>3
<1> HIDE DEF a, b
<1>6. optind + 1 = e + b /\ b <= Len(vector) - e
  BY <1>1, <1>4, <1>5
<1>. QED  BY <1>6 DEF This, b

LEMMA TabIs ==
  ASSUME ParseTyped
  PROVE  /\ tab \in 1..(Len(table) + 1) /\ tab \in Nat /\ tab < tab + 1 /\ Len(table) \in Nat /\ DOMAIN table = 1..Len(table)
         /\ tab <= Len(table) => tab \in DOMAIN table
BY DEF ParseTyped, Sound

\* The entry refuses its word.
LEMMA PlacedRefused ==
  ASSUME ParseTyped, NEW e, Placed(e, optind, tab, got), tab <= Len(table), Untagged(table[tab]),
         got[tab] = <<>>, optind < limit, Scan(table[tab], 0, This).error # ""
  PROVE  Missing(tab + 1, got)
<1>1. tab \in DOMAIN table /\ tab < tab + 1
  BY TabIs, Zenon
<1>2. This = vector[e + Words(table, tab)] /\ Words(table, tab) <= Len(vector) - e
  BY WordHere
<1>3. Scan(table[tab], 0, vector[e + Words(table, tab)]).error # ""
  BY <1>2, Zenon
<1>4. Tagged(e, got)
  BY DEF Placed
<1>5. ~Fits
  BY <1>1, <1>2, <1>3, <1>4, WrongWord, Zenon
<1>. QED  BY <1>1, <1>5, Zenon DEF Missing

\* The entry has its word and refuses another.
LEMMA PlacedFull ==
  ASSUME ParseTyped, NEW e, Placed(e, optind, tab, got), tab <= Len(table), Untagged(table[tab]),
         got[tab] # <<>>
  PROVE  Placed(e, optind, tab + 1, got)
<1>1. /\ Sound(table) /\ DOMAIN table = 1..Len(table) /\ Len(table) \in Nat
      /\ tab \in 1..(Len(table) + 1) /\ tab \in DOMAIN table
  BY DEF ParseTyped, Sound
<1>2. Filled(tab, e, got) /\ optind = e + Words(table, (tab + 1) - 1)
  <2>1. Filled(tab, e, got) /\ optind = e + Words(table, tab) /\ (tab + 1) - 1 = tab
    BY <1>1 DEF Placed
  <2>. QED  BY <2>1
<1>3. \A i \in DOMAIN table : ~table[i].stop
  <2>1. SUFFICES ASSUME NEW i \in DOMAIN table, table[i].stop PROVE FALSE
    OBVIOUS
  <2>2. got[i] = <<>>
    BY <2>1 DEF Placed
  <2>3. tab = i
    BY <1>1, <2>1, StopIs DEF Stopper
  <2>. QED  BY <2>2, <2>3
<1> DEFINE t == tab + 1
<1> HIDE DEF t
<1>4. ASSUME NEW i \in DOMAIN table, Untagged(table[i])
      PROVE  /\ i < t => Filled(i, e, got)
             /\ i > t => got[i] = <<>>
             /\ i = t => \/ got[i] = <<>> /\ optind = e + Words(table, t - 1)
                         \/ Filled(i, e, got) /\ optind = e + Words(table, t)
  <2>1. i \in Nat
    BY <1>1, <1>4
  <2>2. (i < tab => Filled(i, e, got)) /\ (i > tab => got[i] = <<>>)
    BY <1>4 DEF Placed
  <2>3. (i < t => i < tab \/ i = tab) /\ (i > t => i > tab) /\ (i = t => i > tab)
    BY <1>1, <2>1 DEF t
  <2>4. optind = e + Words(table, t - 1)
    BY <1>2 DEF t
  <2>. QED  BY <1>2, <2>1, <2>2, <2>3, <2>4, Zenon
<1>5. Tagged(e, got)
  BY DEF Placed
<1>6. \A i \in DOMAIN table : Untagged(table[i]) =>
        /\ i < t => Filled(i, e, got)
        /\ i > t => got[i] = <<>>
        /\ i = t => \/ got[i] = <<>> /\ optind = e + Words(table, t - 1)
                    \/ Filled(i, e, got) /\ optind = e + Words(table, t)
  BY <1>4, Zenon
<1>7. optind = e + Words(table, t - 1)
  BY <1>2 DEF t
<1>8. \A i \in DOMAIN table : table[i].stop => t <= i /\ got[i] = <<>>
  BY <1>3 DEF t
<1>9. Placed(e, optind, t, got)
  BY <1>5, <1>6, <1>7, <1>8, Zenon DEF Placed
<1>. QED  BY <1>9 DEF t

\* The entry takes its word.
WordIn(e, g) ==
  /\ Tagged(e, g) /\ Filled(tab, e, g) /\ g = [i \in DOMAIN table |-> g[i]]
  /\ \A i \in DOMAIN table : i # tab => g[i] = got[i]

LEMMA WordTaken ==
  ASSUME ParseTyped, NEW e, Placed(e, optind, tab, got), tab <= Len(table), Untagged(table[tab]),
         got[tab] = <<>>, optind < limit, NEW s, s = Scan(table[tab], 0, This), s.error = "",
         NEW g, g = [got EXCEPT ![tab] = <<s.value>>]
  PROVE  WordIn(e, g)
<1> DEFINE v == s.value
<1>1. tab \in DOMAIN table /\ got = [i \in DOMAIN table |-> got[i]] /\ tab \in Nat
  <2>1. got = [i \in DOMAIN table |-> got[i]]
    BY Zenon DEF ParseTyped
  <2>2. tab \in DOMAIN table /\ tab \in Nat
    BY TabIs, Zenon
  <2>. QED  BY <2>1, <2>2
<1>2. g = [got EXCEPT ![tab] = <<v>>]
  OBVIOUS
<1>3. Scan(table[tab], 0, This).error = "" /\ v = Scan(table[tab], 0, This).value
  BY Zenon
<1> HIDE DEF v
<1>4. /\ g = [i \in DOMAIN table |-> g[i]] /\ g[tab] = <<v>>
      /\ \A i \in DOMAIN table : i # tab => g[i] = got[i]
  BY <1>1, <1>2, Zenon
<1>5. This = vector[e + Words(table, tab)] /\ Words(table, tab) <= Len(vector) - e
  BY WordHere, Zenon
<1>6. Filled(tab, e, g)
  BY <1>3, <1>4, <1>5, Zenon DEF Filled
<1>7. Tagged(e, g)
  <2>1. Tagged(e, got)
    BY Zenon DEF Placed
  <2>2. \A i \in DOMAIN table : ~Untagged(table[i]) => g[i] = got[i]
    BY <1>4, Zenon
  <2>. QED  BY <2>1, <2>2, Zenon DEF Tagged
<1>. QED  BY <1>4, <1>6, <1>7, Zenon DEF WordIn

LEMMA FilledSame ==
  ASSUME NEW i, NEW e, NEW g, NEW h, g[i] = h[i], Filled(i, e, g)
  PROVE  Filled(i, e, h)
BY Zenon DEF Filled

\* An entry that goes on has its word.
LEMMA PlacedTakes ==
  ASSUME ParseTyped, NEW e, Placed(e, optind, tab, got), tab <= Len(table), Untagged(table[tab]),
         ~table[tab].stop, got[tab] = <<>>, optind < limit,
         NEW g, Tagged(e, g), Filled(tab, e, g), \A i \in DOMAIN table : i # tab => g[i] = got[i]
  PROVE  Placed(e, optind + 1, tab, g)
<1>1. /\ Sound(table) /\ tab \in 1..(Len(table) + 1) /\ tab \in DOMAIN table
      /\ DOMAIN table = 1..Len(table) /\ Len(table) \in Nat
  BY TabIs DEF ParseTyped
<1>2. optind + 1 = e + Words(table, tab)
  BY WordHere
<1>3. \A i \in DOMAIN table : ~table[i].stop
  <2>1. SUFFICES ASSUME NEW i \in DOMAIN table, table[i].stop PROVE FALSE
    OBVIOUS
  <2>2. tab = i
    BY <1>1, <2>1, StopIs DEF Stopper
  <2>. QED  BY <2>1, <2>2
<1> DEFINE o == optind + 1
<1>4. o = e + Words(table, tab)
  BY <1>2
<1> HIDE DEF o
<1>5. ASSUME NEW i \in DOMAIN table, Untagged(table[i])
      PROVE  /\ i < tab => Filled(i, e, g)
             /\ i > tab => g[i] = <<>>
             /\ i = tab => Filled(i, e, g) /\ o = e + Words(table, tab)
  <2>1. (i < tab => i # tab) /\ (i > tab => i # tab)
    BY <1>1
  <2>2. (i < tab => Filled(i, e, got)) /\ (i > tab => got[i] = <<>>)
    BY <1>5 DEF Placed
  <2>3. i < tab => Filled(i, e, g)
    BY <2>1, <2>2, FilledSame, Zenon
  <2>. QED  BY <1>4, <2>1, <2>2, <2>3, Zenon
<1>6. ~(tab > Len(table))
  BY <1>1
<1>7. Placed(e, o, tab, g)
  BY <1>3, <1>5, <1>6, Zenon DEF Placed
<1>. QED  BY <1>7 DEF o

\* A command is the word there was to find.
LEMMA PlacedStops ==
  ASSUME ParseTyped, NEW e, Placed(e, optind, tab, got), tab <= Len(table), table[tab].stop,
         optind < limit, NEW g, g = [i \in DOMAIN table |-> g[i]], Tagged(e, g), Filled(tab, e, g)
  PROVE  Accepts(g)
<1>1. /\ Sound(table) /\ tab \in 1..(Len(table) + 1) /\ tab \in DOMAIN table
      /\ optind \in 1..Len(vector) /\ limit \in 1..Len(vector) /\ Len(vector) \in Nat
  BY TabIs DEF ParseTyped
<1>2. optind = e /\ Stopper(table, tab)
  BY <1>1, StopFirst
<1>3. \A i \in DOMAIN table : Untagged(table[i]) => Filled(i, e, g)
  BY <1>2 DEF Stopper
<1>4. e < Len(vector)
  BY <1>1, <1>2
<1>5. WordsFor(table, Mean.words) = <<vector[e + 1]>>
  BY <1>1, <1>4, SpokenIs DEF Spoken
<1>6. Len(WordsFor(table, Mean.words)) = Words(table, Len(table))
  <2>1. Words(table, Len(table)) = 1
    BY <1>2, Zenon DEF Stopper
  <2>2. Len(WordsFor(table, Mean.words)) = 1
    BY <1>5
  <2>. QED  BY <2>1, <2>2
<1>. QED  BY <1>3, <1>6, AllFilled

\* One round.
Tried == Scan(table[tab], Len(got[tab]), This)

Same == UNCHANGED <<table, vector, limit, place>>

Finished == optind >= limit /\ pass' = "check" /\ UNCHANGED <<optind, tab, got, idx, errors>>

Leaves ==
  /\ ~(optind >= limit) /\ tab > Len(table)
  /\ Register(limit - optind) /\ optind' = limit /\ pass' = "check" /\ UNCHANGED <<tab, got, idx>>

Passes ==
  /\ ~(optind >= limit) /\ ~(tab > Len(table)) /\ tab' = tab + 1
  /\ UNCHANGED <<pass, optind, got, idx, errors>>

Fills ==
  /\ ~(optind >= limit) /\ ~(tab > Len(table)) /\ Untagged(table[tab]) /\ Tried.error = ""
  /\ got' = [got EXCEPT ![tab] = Append(@, Tried.value)] /\ UNCHANGED <<tab, errors>>
  /\ \/ table[tab].stop /\ idx' = optind /\ pass' = "check" /\ UNCHANGED optind
     \/ ~table[tab].stop /\ optind' = optind + 1 /\ UNCHANGED <<idx, pass>>

LEMMA UntaggedCases ==
  ASSUME ParseUntagged
  PROVE  /\ pass = "untagged" /\ Same
         /\ \/ Finished \/ Leaves
            \/ Passes /\ ~Untagged(table[tab])
            \/ Passes /\ Untagged(table[tab]) /\ Tried.error # ""
            \/ Fills
<1> USE DEF Tried
<1>1. CASE optind >= limit
  BY <1>1, Zenon DEF ParseUntagged, Finished, Same
<1>2. CASE ~(optind >= limit) /\ tab > Len(table)
  BY <1>2, Zenon DEF ParseUntagged, Leaves, Leftover, Same
<1>. QED  BY <1>1, <1>2, Zenon DEF ParseUntagged, Passes, Fills, Same

LEMMA UntaggedKeeps ==
  ASSUME ParseTyped, place = <<>>, ParseUntagged
  PROVE  ParseTyped'
<1>1. /\ Sound(table) /\ vector \in Seq(Args) /\ vector # <<>> /\ Len(vector) \in Nat
      /\ \A k \in DOMAIN vector : ~Dashed(vector[k])
      /\ optind \in 1..Len(vector) /\ limit \in 1..Len(vector) /\ idx \in 0..(Len(vector) - 1)
      /\ place \in Args /\ tab \in 1..(Len(table) + 1) /\ got = [i \in DOMAIN table |-> got[i]]
      /\ errors \in Nat
  BY DEF ParseTyped
<1>2. Len(table) \in Nat /\ DOMAIN table = 1..Len(table)
  BY TabIs
<1>3. pass = "untagged" /\ Same
  BY UntaggedCases, Zenon
<1>4. (Sound(table) /\ \A k \in DOMAIN vector : ~Dashed(vector[k]))'
  BY <1>1, <1>3, Zenon DEF Same
<1>5. /\ vector' \in Seq(Args) /\ vector' # <<>> /\ limit' \in 1..Len(vector') /\ place' \in Args
      /\ place' = <<>>
  BY <1>1, <1>3 DEF Same
<1>6. Finished \/ Leaves \/ Passes \/ Fills
  BY UntaggedCases, Zenon
<1>7. pass' \in {"untagged", "check"}
  BY <1>3, <1>6, Zenon DEF Finished, Leaves, Passes, Fills
<1>8. /\ optind' \in 1..Len(vector) /\ tab' \in 1..(Len(table) + 1) /\ idx' \in 0..(Len(vector) - 1)
      /\ errors' \in Nat
  <2>1. CASE Finished
    BY <1>1, <2>1, Zenon DEF Finished
  <2>2. CASE Leaves
    <3>1. limit - optind \in Nat /\ Register(limit - optind)
      <4>1. ~(optind >= limit) /\ Register(limit - optind)
        BY <2>2, Zenon DEF Leaves
      <4>. QED  BY <1>1, <4>1
    <3>2. errors' \in Nat
      BY <1>1, <3>1, RegisterIs
    <3>. QED  BY <1>1, <2>2, <3>2, Zenon DEF Leaves
  <2>3. CASE Passes
    <3>1. /\ ~(tab > Len(table)) /\ tab' = tab + 1 /\ optind' = optind /\ idx' = idx /\ errors' = errors
      BY <2>3, Zenon DEF Passes
    <3>. QED  BY <1>1, <1>2, <3>1
  <2>4. CASE Fills
    <3>1. /\ ~(optind >= limit) /\ tab' = tab /\ errors' = errors
          /\ \/ optind' = optind /\ idx' = optind
             \/ optind' = optind + 1 /\ idx' = idx
      BY <2>4, Zenon DEF Fills
    <3>2. optind + 1 \in 1..Len(vector) /\ optind \in 0..(Len(vector) - 1)
      BY <1>1, <3>1
    <3>. QED  BY <1>1, <3>1, <3>2
  <2>. QED  BY <1>6, <2>1, <2>2, <2>3, <2>4
<1>9. got' = [i \in DOMAIN table |-> got'[i]]
  <2>1. got' = got \/ got' = [got EXCEPT ![tab] = Append(@, Tried.value)]
    BY <1>6, Zenon DEF Finished, Leaves, Passes, Fills
  <2> DEFINE v == Tried.value
  <2>2. got' = got \/ got' = [got EXCEPT ![tab] = Append(@, v)]
    BY <2>1
  <2> HIDE DEF v
  <2>. QED  BY <1>1, <2>2
<1>10. table' = table /\ vector' = vector /\ limit' = limit
  BY <1>3 DEF Same
<1>11. pass' \in {"tagged", "find", "again", "untagged", "check", "done"}
  BY <1>7
<1>. QED  BY <1>4, <1>5, <1>8, <1>9, <1>10, <1>11, Zenon DEF ParseTyped

\* An entry without its word stays so, and the line a bad one.
LEMMA MissingStays ==
  ASSUME ParseTyped, Missing(tab, got), ParseUntagged
  PROVE  /\ pass' = "check" => Rejects(got')
         /\ Missing(tab', got')
<1>1. ~Fits
  BY DEF Missing
<1>2. PICK i \in DOMAIN table : Untagged(table[i]) /\ i < tab /\ got[i] = <<>>
  BY DEF Missing
<1>3. /\ tab \in Nat /\ Len(table) \in Nat /\ DOMAIN table = 1..Len(table) /\ Sound(table)
      /\ (tab <= Len(table) => tab \in DOMAIN table)
  BY TabIs DEF ParseTyped
<1>4. Finished \/ Leaves \/ Passes \/ Fills
  BY UntaggedCases, Zenon
<1>5. i < tab' /\ got'[i] = <<>>
  <2>1. tab' \in {tab, tab + 1} /\ (got' = got \/ got' = [got EXCEPT ![tab] = Append(@, Tried.value)])
    BY <1>4, Zenon DEF Finished, Leaves, Passes, Fills
  <2>2. i < tab'
    BY <1>2, <1>3, <2>1
  <2>3. got'[i] = got[i]
    <3> DEFINE v == Tried.value
    <3>1. got' = got \/ got' = [got EXCEPT ![tab] = Append(@, v)]
      BY <2>1
    <3> HIDE DEF v
    <3>2. i # tab /\ got = [k \in DOMAIN table |-> got[k]]
      BY <1>2, <1>3 DEF ParseTyped
    <3>. QED  BY <1>2, <3>1, <3>2
  <2>. QED  BY <1>2, <2>2, <2>3
<1>6. Missing(tab', got')
  BY <1>1, <1>2, <1>5 DEF Missing
<1>7. Rejects(got')
  BY <1>1, <1>2, <1>5, EmptyLacks DEF Rejects
<1>. QED  BY <1>6, <1>7

\* After a round of the untagged pass.
Advances ==
  /\ pass' = "untagged" => Missing(tab', got') \/ \E e \in 1..Len(vector) : Placed(e, optind', tab', got')
  /\ pass' = "check" => Accepts(got') \/ Rejects(got')

LEMMA FilledFull ==
  ASSUME ParseTyped, NEW e, NEW g, NEW i \in DOMAIN table, Filled(i, e, g)
  PROVE  Scan(table[i], Len(g[i]), This).error # ""
<1>1. Len(g[i]) = 1 /\ table[i].max = 1
  BY FilledSome, Zenon DEF ParseTyped, Sound
<1>. QED  BY <1>1, ScanFull

LEMMA NoneYet ==
  ASSUME NEW g, NEW i, NEW s, g[i] = <<>>, s = Scan(table[i], Len(g[i]), This)
  PROVE  s = Scan(table[i], 0, This)
<1>1. Len(g[i]) = 0
  OBVIOUS
<1>. QED  BY <1>1

LEMMA PlacedSteps ==
  ASSUME ParseTyped, NEW e \in 1..Len(vector), Placed(e, optind, tab, got), ParseUntagged, errors = 0
  PROVE  /\ errors' = 0 => Advances
         /\ errors' # 0 => ~Fits
<1>1. /\ optind \in 1..Len(vector) /\ limit \in 1..Len(vector) /\ Len(vector) \in Nat
      /\ got = [i \in DOMAIN table |-> got[i]] /\ tab \in Nat /\ Len(table) \in Nat
      /\ (tab <= Len(table) => tab \in DOMAIN table)
  BY TabIs DEF ParseTyped
<1>2. pass = "untagged"
  BY UntaggedCases, Zenon
<1>3. CASE Finished
  <2>1. optind >= limit /\ pass' = "check" /\ got' = got /\ errors' = errors
    BY <1>3 DEF Finished
  <2>2. Accepts(got) \/ Rejects(got)
    BY <2>1, PlacedEnds
  <2>. QED  BY <2>1, <2>2, Zenon DEF Advances
<1>4. CASE Leaves
  <2>1. ~(optind >= limit) /\ tab > Len(table) /\ Register(limit - optind)
    BY <1>4 DEF Leaves
  <2>2. ~Fits
    BY <1>1, <2>1, PlacedLeft
  <2>3. limit - optind \in Nat /\ limit - optind # 0
    BY <1>1, <2>1
  <2>4. errors' # 0
    BY <2>1, <2>3, RegisterIs DEF ParseTyped
  <2>. QED  BY <2>2, <2>4
<1>5. CASE Passes /\ ~Untagged(table[tab])
  <2>1. /\ ~(optind >= limit) /\ ~(tab > Len(table)) /\ tab' = tab + 1
        /\ pass' = pass /\ optind' = optind /\ got' = got /\ errors' = errors
    BY <1>5, Zenon DEF Passes
  <2>2. Placed(e, optind, tab + 1, got)
    <3>1. tab <= Len(table)
      BY <1>1, <2>1
    <3>. QED  BY <1>5, <3>1, PlacedPasses
  <2>3. Placed(e, optind', tab', got')
    BY <2>1, <2>2
  <2>4. pass' = "untagged" /\ errors' = 0
    BY <1>2, <2>1
  <2>. QED  BY <2>3, <2>4 DEF Advances
<1>6. CASE Passes /\ Untagged(table[tab]) /\ Tried.error # ""
  <2>1. /\ ~(optind >= limit) /\ ~(tab > Len(table)) /\ tab' = tab + 1
        /\ pass' = pass /\ optind' = optind /\ got' = got /\ errors' = errors
    BY <1>6, Zenon DEF Passes
  <2>2. tab <= Len(table) /\ optind < limit
    <3>1. ~(optind >= limit) /\ ~(tab > Len(table))
      BY <2>1
    <3>. QED  BY <1>1, <3>1
  <2>3. CASE got[tab] = <<>>
    <3>1. Tried = Scan(table[tab], 0, This)
      BY <2>3, NoneYet DEF Tried
    <3>2. Scan(table[tab], 0, This).error # ""
      BY <1>6, <3>1, Zenon
    <3>3. Missing(tab + 1, got)
      BY <1>6, <2>2, <2>3, <3>2, PlacedRefused, Zenon
    <3>4. Missing(tab', got')
      BY <2>1, <3>3, Zenon
    <3>. QED  BY <1>2, <2>1, <3>4 DEF Advances
  <2>4. CASE got[tab] # <<>>
    <3>1. Placed(e, optind, tab + 1, got)
      BY <1>6, <2>2, <2>4, PlacedFull, Zenon
    <3>2. Placed(e, optind', tab', got')
      BY <2>1, <3>1, Zenon
    <3>. QED  BY <1>2, <2>1, <3>2 DEF Advances
  <2>. QED  BY <2>3, <2>4
<1>7. CASE Fills
  <2> DEFINE s == Tried
  <2>1. /\ ~(optind >= limit) /\ ~(tab > Len(table)) /\ Untagged(table[tab]) /\ s.error = ""
        /\ got' = [got EXCEPT ![tab] = Append(@, s.value)] /\ tab' = tab /\ errors' = errors
        /\ \/ table[tab].stop /\ pass' = "check"
           \/ ~table[tab].stop /\ optind' = optind + 1 /\ pass' = pass
    BY <1>7, Zenon DEF Fills
  <2>2. tab <= Len(table) /\ optind < limit /\ tab \in DOMAIN table
    <3>1. ~(optind >= limit) /\ ~(tab > Len(table))
      BY <2>1, Zenon
    <3>. QED  BY <1>1, <3>1
  <2>3. got[tab] = <<>>
    <3>1. SUFFICES ASSUME got[tab] # <<>> PROVE FALSE
      OBVIOUS
    <3>2. Filled(tab, e, got)
      BY <2>1, <2>2, <3>1, Zenon DEF Placed
    <3>3. Scan(table[tab], Len(got[tab]), This).error # ""
      BY <2>2, <3>2, FilledFull
    <3>. QED  BY <2>1, <3>3, Zenon DEF Tried
  <2>4. s = Scan(table[tab], 0, This)
    BY <2>3, NoneYet DEF Tried
  <2> HIDE DEF s
  <2>5. got' = [got EXCEPT ![tab] = <<s.value>>]
    <3> DEFINE v == s.value
    <3>1. got' = [got EXCEPT ![tab] = Append(@, v)]
      BY <2>1
    <3> HIDE DEF v
    <3>2. got' = [got EXCEPT ![tab] = Append(got[tab], v)]
      BY <3>1, Zenon
    <3>3. Append(got[tab], v) = <<v>>
      BY <2>3
    <3>. QED  BY <3>2, <3>3, Zenon DEF v
  <2>6. /\ Tagged(e, got') /\ Filled(tab, e, got') /\ got' = [i \in DOMAIN table |-> got'[i]]
        /\ \A i \in DOMAIN table : i # tab => got'[i] = got[i]
    <3>1. WordIn(e, got')
      BY <2>1, <2>2, <2>3, <2>4, <2>5, WordTaken, Zenon
    <3>. QED  BY <3>1, Zenon DEF WordIn
  <2>7. CASE table[tab].stop /\ pass' = "check"
    <3>1. Accepts(got')
      BY <2>2, <2>6, <2>7, PlacedStops, Zenon
    <3>. QED  BY <2>1, <2>7, <3>1, Zenon DEF Advances
  <2>8. CASE ~table[tab].stop /\ optind' = optind + 1 /\ pass' = pass
    <3>1. Placed(e, optind + 1, tab, got')
      BY <2>1, <2>2, <2>3, <2>6, <2>8, PlacedTakes, Zenon
    <3>2. Placed(e, optind', tab', got')
      BY <2>1, <2>8, <3>1, Zenon
    <3>. QED  BY <1>2, <2>1, <2>8, <3>2 DEF Advances
  <2>. QED  BY <2>1, <2>7, <2>8, Zenon
<1>. QED  BY <1>3, <1>4, <1>5, <1>6, <1>7, UntaggedCases, Zenon

-------------------------------------------------------------------------------
\* Each step keeps the invariant of the parse.

LEMMA OptionKeeps ==
  ASSUME ParseTyped, ParseLong \/ ParseDash \/ ParseShort
  PROVE  ParseTyped' /\ UNCHANGED <<table, vector, pass, limit, tab, idx>>
<1>1. /\ vector \in Seq(Args) /\ Len(vector) \in Nat /\ optind \in 1..Len(vector)
      /\ limit \in 1..Len(vector) /\ place \in Args /\ (place # <<>> => optind < limit)
  BY DEF ParseTyped
<1>2. UNCHANGED <<table, vector, pass, limit, tab, idx>>
  BY Zenon DEF ParseLong, ParseDash, ParseShort
<1>3. PlaceMoves /\ Kept
  BY OptionMoves
<1>4. optind' \in 1..Len(vector) /\ (place' # <<>> => optind' < limit)
  <2> DEFINE o == optind'
             p == place'
  <2>1. (p = <<>> /\ o \in optind..Len(vector)) \/ (o = optind /\ optind < limit)
    BY <1>1, <1>3 DEF PlaceMoves
  <2> HIDE DEF o, p
  <2>2. o \in 1..Len(vector) /\ (p # <<>> => o < limit)
    BY <1>1, <2>1
  <2>. QED  BY <2>2 DEF o, p
<1>5. place' \in Args
  <2>1. CASE place' = <<>>
    BY <2>1 DEF Args
  <2>2. CASE optind < limit /\ IsOption(This) /\ place' = Tail(Tail(This)) /\ place' # <<>>
    <3>1. This \in Args /\ Len(This) > 1
      BY <2>2, HereIs DEF IsOption
    <3>2. Tail(This) \in Args /\ Tail(This) # <<>>
      BY <3>1, TailIs
    <3> DEFINE t == Tail(This)
    <3> HIDE DEF t
    <3>3. t \in Args /\ t # <<>>
      BY <3>2 DEF t
    <3>4. Tail(t) \in Args
      BY <3>3 DEF Args
    <3>. QED  BY <2>2, <3>4 DEF t
  <2>3. CASE place # <<>> /\ place' = Tail(place)
    BY <1>1, <2>3 DEF Args
  <2>. QED  BY <1>3, <2>1, <2>2, <2>3 DEF PlaceMoves
<1>6. errors' \in Nat /\ got' = [i \in DOMAIN table |-> got'[i]]
  BY <1>3 DEF Kept
<1>7. ParseTyped'
  <2>1. (Sound(table) /\ vector \in Seq(Args) /\ vector # <<>> /\ \A k \in DOMAIN vector : ~Dashed(vector[k]))'
    BY <1>2, Zenon DEF ParseTyped
  <2>2. limit' \in 1..Len(vector') /\ idx' \in 0..(Len(vector') - 1) /\ tab' \in 1..(Len(table') + 1)
    BY <1>2, Zenon DEF ParseTyped
  <2>3. pass' \in {"tagged", "find", "again", "untagged", "check", "done"}
    BY <1>2, Zenon DEF ParseTyped
  <2>4. optind' \in 1..Len(vector') /\ (place' # <<>> => optind' < limit')
    BY <1>2, <1>4
  <2>5. got' = [i \in DOMAIN table' |-> got'[i]]
    BY <1>2, <1>6
  <2>. QED  BY <1>5, <1>6, <2>1, <2>2, <2>3, <2>4, <2>5, Zenon DEF ParseTyped
<1>. QED  BY <1>2, <1>7

\* The definitions of the line do not change with the place.
LEMMA SameOn ==
  ASSUME table' = table, vector' = vector, limit' = limit
  PROVE  /\ Fits' = Fits /\ (Off(optind, place)' <=> Off(optind', place'))
         /\ \A a : On(optind, place, a)' <=> On(optind', place', a)
<1>1. \A n : (After(n))' = After(n)
  BY DEF After
<1>2. \A a : On(optind, place, a)' <=> On(optind', place', a)
  BY <1>1, Zenon DEF On, Group
<1>3. Off(optind, place)' <=> Off(optind', place')
  BY <1>1, Zenon DEF Off, Group
<1>. QED  BY <1>2, <1>3, Zenon DEF Fits

LEMMA OptionSteps ==
  ASSUME ParseInv, ParseLong \/ ParseDash \/ ParseShort
  PROVE  ParseInv'
<1>1. ParseTyped /\ ParseTyped' /\ UNCHANGED <<table, vector, pass, limit, tab, idx>>
  BY OptionKeeps DEF ParseInv
<1>2. Kept /\ optind' \in 1..Len(vector)
  <2>1. ParseTyped' => optind' \in 1..Len(vector')
    BY DEF ParseTyped
  <2>. QED  BY <1>1, <2>1, OptionMoves
<1>3. pass \in {"tagged", "again"}
  BY Zenon DEF ParseLong, ParseDash, ParseShort, AtOption, Tagging
<1>4. /\ Fits' = Fits /\ (Off(optind, place)' <=> Off(optind', place'))
      /\ \A a : On(optind, place, a)' <=> On(optind', place', a)
  BY <1>1, SameOn
<1>5. Tagging' => \A i \in DOMAIN table' : Untagged(table[i])' => got'[i] = <<>>
  <2>1. \A i \in DOMAIN table : Untagged(table[i]) => got[i] = <<>>
    BY <1>3 DEF ParseInv, Tagging
  <2>. QED  BY <1>1, <1>2, <2>1, Zenon DEF Kept
<1>6. CASE pass = "tagged"
  <2>1. limit = Len(vector) /\ (Off(optind, place) \/ \E a : On(optind, place, a))
    BY <1>6 DEF ParseInv
  <2>2. Off(optind', place') \/ \E a : On(optind', place', a)
    <3>1. CASE Off(optind, place)
      BY <1>1, <3>1, OffMoves
    <3>2. ASSUME NEW a, On(optind, place, a) PROVE Off(optind', place') \/ \E b : On(optind', place', b)
      <4>1. Edge
        BY <2>1 DEF Edge
      <4>2. Errs \/ Took(a)
        BY <1>1, <3>2, <4>1, OnMoves
      <4>. QED  BY <4>2, Zenon DEF Errs, Took
    <3>. QED  BY <2>1, <3>1, <3>2
  <2>3. Off(optind, place)' \/ \E a : On(optind, place, a)'
    BY <1>4, <2>2
  <2>4. pass' = "tagged" /\ limit' = Len(vector')
    BY <1>1, <1>6, <2>1
  <2>. QED  BY <1>1, <1>5, <2>3, <2>4 DEF ParseInv
<1>7. CASE pass = "again"
  <2>1. Edge /\ (errors # 0 => ~Fits) /\ (errors = 0 => \E a : On(optind, place, a) /\ Matches(table, got, a))
    BY <1>7 DEF ParseInv
  <2>2. Edge'
    <3>1. \A n : (After(n))' = After(n)
      BY <1>1 DEF After
    <3>. QED  BY <1>1, <2>1, <3>1, Zenon DEF Edge, Ends
  <2>3. CASE errors # 0
    <3>1. ~Fits' /\ errors' # 0
      BY <1>2, <1>4, <2>1, <2>3 DEF Kept
    <3>. QED  BY <1>1, <1>5, <1>7, <2>2, <3>1 DEF ParseInv
  <2>4. CASE errors = 0
    <3>1. PICK a : On(optind, place, a) /\ Matches(table, got, a)
      BY <2>1, <2>4
    <3>2. Errs \/ Took(a)
      BY <1>1, <2>1, <3>1, OnMoves
    <3>3. /\ errors' # 0 => ~Fits
          /\ errors' = 0 => \E b : On(optind', place', b) /\ Matches(table, got', b)
      <4>1. CASE Errs
        BY <4>1 DEF Errs
      <4>2. CASE Took(a)
        BY <1>1, <1>2, <2>4, <3>1, <4>2, TookMatches
      <4>. QED  BY <3>2, <4>1, <4>2
    <3>4. errors' = 0 => \E b : On(optind, place, b)' /\ Matches(table', got', b)
      BY <1>1, <1>4, <3>3, Zenon
    <3>5. errors' # 0 => ~Fits'
      BY <1>4, <3>3
    <3>6. errors' = 0 => \E b : (On(optind, place, b) /\ Matches(table, got, b))'
      BY <3>4, Zenon DEF Matches
    <3>. QED  BY <1>1, <1>5, <1>7, <2>2, <3>5, <3>6, Zenon DEF ParseInv
  <2>. QED  BY <2>3, <2>4
<1>. QED  BY <1>3, <1>6, <1>7

LEMMA SamePlaced ==
  ASSUME table' = table, vector' = vector, limit' = limit
  PROVE  /\ \A e : Placed(e, optind, tab, got)' <=> Placed(e, optind', tab', got')
         /\ Missing(tab, got)' <=> Missing(tab', got')
         /\ Accepts(got)' <=> Accepts(got')
         /\ Rejects(got)' <=> Rejects(got')
<1>1. Mean' = Mean /\ Fits' = Fits
  BY DEF Mean, Fits
<1>2. ASSUME NEW e PROVE Placed(e, optind, tab, got)' <=> Placed(e, optind', tab', got')
  <2>1. Tagged(e, got)' <=> Tagged(e, got')
    BY <1>1, Zenon DEF Tagged
  <2>2. \A i : Filled(i, e, got)' <=> Filled(i, e, got')
    BY Zenon DEF Filled
  <2>. QED  BY <2>1, <2>2, Zenon DEF Placed
<1>3. Missing(tab, got)' <=> Missing(tab', got')
  BY <1>1, Zenon DEF Missing
<1>4. (Accepts(got)' <=> Accepts(got')) /\ (Rejects(got)' <=> Rejects(got'))
  BY <1>1, Zenon DEF Accepts, Rejects, Lacking
<1>. QED  BY <1>2, <1>3, <1>4

LEMMA EndSteps ==
  ASSUME ParseInv, EndOfOptions
  PROVE  ParseInv'
<1>1. /\ ParseTyped /\ optind \in 1..Len(vector) /\ limit \in 1..Len(vector) /\ Len(vector) \in Nat
      /\ Len(table) \in Nat /\ DOMAIN table = 1..Len(table)
  BY TabIs DEF ParseInv, ParseTyped
<1>2. /\ place = <<>>
      /\ \/ optind >= limit /\ optind' = optind
         \/ optind < limit /\ ~IsOption(This) /\ optind' = optind
         \/ optind < limit /\ This = <<"-", "-">> /\ optind' = optind + 1
  BY EndCases
<1>3. /\ pass' = IF pass = "tagged" THEN "find" ELSE "untagged"
      /\ place' = <<>> /\ tab' = 1 /\ UNCHANGED <<table, vector, limit, got, idx, errors>>
  BY DEF EndOfOptions, NextPass
<1>4. pass \in {"tagged", "again"}
  BY DEF EndOfOptions, Tagging
<1>5. optind' \in 1..Len(vector)
  <2> DEFINE o == optind'
  <2>1. o = optind \/ (optind < limit /\ o = optind + 1)
    BY <1>2
  <2> HIDE DEF o
  <2>2. o \in 1..Len(vector)
    BY <1>1, <2>1
  <2>. QED  BY <2>2 DEF o
<1>6. \A i \in DOMAIN table : Untagged(table[i]) => got[i] = <<>>
  BY <1>4 DEF ParseInv, Tagging
<1>7. ParseTyped'
  <2>1. (Sound(table) /\ vector \in Seq(Args) /\ vector # <<>> /\ \A k \in DOMAIN vector : ~Dashed(vector[k]))'
    BY <1>1, <1>3, Zenon DEF ParseTyped
  <2>2. /\ limit' \in 1..Len(vector') /\ idx' \in 0..(Len(vector') - 1)
        /\ got' = [i \in DOMAIN table' |-> got'[i]] /\ errors' \in Nat
    BY <1>1, <1>3, Zenon DEF ParseTyped
  <2>3. tab' \in 1..(Len(table') + 1)
    BY <1>1, <1>3
  <2>4. pass' \in {"tagged", "find", "again", "untagged", "check", "done"}
    BY <1>3
  <2>5. place' \in Args /\ place' = <<>>
    BY <1>3 DEF Args
  <2>6. optind' \in 1..Len(vector')
    BY <1>3, <1>5
  <2>. QED  BY <2>1, <2>2, <2>3, <2>4, <2>5, <2>6, Zenon DEF ParseTyped
<1>8. CASE pass = "tagged"
  <2>1. limit = Len(vector) /\ (Off(optind, place) \/ \E a : On(optind, place, a))
    BY <1>8 DEF ParseInv
  <2>2. Ends(optind')
    BY <1>1, <2>1, TaggedEnds
  <2>3. Ends(optind)'
    <3>1. \A n : (After(n))' = After(n)
      BY <1>3 DEF After
    <3>. QED  BY <1>3, <2>2, <3>1, Zenon DEF Ends
  <2>4. \A i \in DOMAIN table' : table'[i].stop => tab' <= i /\ got'[i] = <<>>
    <3>1. \A i \in DOMAIN table : table[i].stop => Untagged(table[i])
      BY <1>1 DEF ParseTyped, Sound
    <3>2. \A i \in DOMAIN table : 1 <= i
      BY <1>1
    <3>. QED  BY <1>3, <1>6, <3>1, <3>2, Zenon
  <2>5. pass' = "find" /\ limit' = Len(vector')
    BY <1>3, <1>8, <2>1
  <2>. QED  BY <1>3, <1>7, <2>3, <2>4, <2>5 DEF ParseInv, Tagging
<1>9. CASE pass = "again"
  <2>1. Edge /\ (errors # 0 => ~Fits) /\ (errors = 0 => \E a : On(optind, place, a) /\ Matches(table, got, a))
    BY <1>9 DEF ParseInv
  <2>2. errors' # 0 => ~Fits'
    BY <1>3, <2>1 DEF Fits
  <2>3. errors' = 0 => \E e \in 1..Len(vector') : Placed(e, optind, tab, got)'
    <3>1. SUFFICES ASSUME errors = 0 PROVE \E e \in 1..Len(vector) : Placed(e, optind', 1, got)
      <4>1. \A e : Placed(e, optind, tab, got)' <=> Placed(e, optind', tab', got')
        BY <1>3, SamePlaced
      <4>. QED  BY <1>3, <4>1, Zenon
    <3> DEFINE o == optind'
    <3>2. PICK a : On(optind, place, a) /\ Matches(table, got, a)
      BY <2>1, <3>1
    <3>3. Tagged(o, got)
      BY <1>1, <2>1, <3>2, AgainEnds
    <3>4. o = o + Words(table, 1 - 1)
      <4>1. Words(table, 0) = 0 /\ o \in Nat
        BY <1>1, <1>5, WordsNone
      <4> HIDE DEF o
      <4>2. o = o + Words(table, 0)
        BY <4>1
      <4>. QED  BY <4>2
    <3>5. \A i \in DOMAIN table : 1 <= i /\ ~(i < 1) /\ (table[i].stop => Untagged(table[i]))
      BY <1>1 DEF ParseTyped, Sound
    <3> HIDE DEF o
    <3>6. Placed(o, o, 1, got)
      BY <1>6, <3>3, <3>4, <3>5, Zenon DEF Placed
    <3>. QED  BY <1>5, <3>6 DEF o
  <2>4. pass' = "untagged"
    BY <1>3, <1>9
  <2>. QED  BY <1>3, <1>7, <2>2, <2>3, <2>4 DEF ParseInv, Tagging
<1>. QED  BY <1>4, <1>8, <1>9

LEMMA UntaggedSteps ==
  ASSUME ParseInv, ParseUntagged
  PROVE  ParseInv'
<1>1. pass = "untagged" /\ table' = table /\ vector' = vector /\ limit' = limit /\ place' = place
  BY UntaggedCases, Zenon DEF Same
<1>2. /\ ParseTyped /\ place = <<>> /\ (errors # 0 => ~Fits)
      /\ errors = 0 => Missing(tab, got) \/ \E e \in 1..Len(vector) : Placed(e, optind, tab, got)
  BY <1>1, Zenon DEF ParseInv
<1>3. ParseTyped'
  BY <1>2, UntaggedKeeps
<1>4. Finished \/ Leaves \/ Passes \/ Fills
  BY UntaggedCases, Zenon
<1>5. pass' \in {"untagged", "check"}
  BY <1>1, <1>4, Zenon DEF Finished, Leaves, Passes, Fills
<1>6. errors' = 0 => errors = 0
  <2>1. CASE Leaves
    <3>1. limit - optind \in Nat /\ Register(limit - optind) /\ errors \in Nat
      <4>1. ~(optind >= limit) /\ Register(limit - optind)
        BY <2>1, Zenon DEF Leaves
      <4>2. optind \in 1..Len(vector) /\ limit \in 1..Len(vector) /\ Len(vector) \in Nat /\ errors \in Nat
        BY <1>2 DEF ParseTyped
      <4>. QED  BY <4>1, <4>2
    <3>. QED  BY <3>1, RegisterIs
  <2>2. CASE Finished \/ Passes \/ Fills
    BY <2>2, Zenon DEF Finished, Passes, Fills
  <2>. QED  BY <1>4, <2>1, <2>2
<1>7. /\ errors' # 0 => ~Fits
      /\ errors' = 0 => Advances
  <2>1. CASE errors # 0
    BY <1>2, <1>6, <2>1
  <2>2. CASE errors = 0 /\ Missing(tab, got)
    <3>1. ~Fits
      BY <2>2 DEF Missing
    <3>2. Advances
      BY <1>2, <2>2, MissingStays DEF Advances
    <3>. QED  BY <3>1, <3>2
  <2>3. ASSUME errors = 0, NEW e \in 1..Len(vector), Placed(e, optind, tab, got)
        PROVE  (errors' # 0 => ~Fits) /\ (errors' = 0 => Advances)
    BY <1>2, <2>3, PlacedSteps
  <2>. QED  BY <1>2, <2>1, <2>2, <2>3
<1>8. /\ errors' # 0 => ~Fits'
      /\ errors' = 0 /\ pass' = "untagged" =>
           Missing(tab, got)' \/ \E e \in 1..Len(vector') : Placed(e, optind, tab, got)'
      /\ errors' = 0 /\ pass' = "check" => Accepts(got)' \/ Rejects(got)'
  <2>1. /\ \A e : Placed(e, optind, tab, got)' <=> Placed(e, optind', tab', got')
        /\ Missing(tab, got)' <=> Missing(tab', got')
        /\ Accepts(got)' <=> Accepts(got')
        /\ Rejects(got)' <=> Rejects(got')
    BY <1>1, SamePlaced
  <2>2. Fits' = Fits
    BY <1>1 DEF Fits
  <2>. QED  BY <1>1, <1>7, <2>1, <2>2, Zenon DEF Advances
<1>9. place' = <<>>
  BY <1>1, <1>2
<1>10. pass' \notin {"tagged", "find", "again", "done"}
  BY <1>5
<1>. QED  BY <1>3, <1>8, <1>9, <1>10, Zenon DEF ParseInv, Tagging

LEMMA CheckSteps ==
  ASSUME ParseInv, Check
  PROVE  ParseInv'
<1> DEFINE is == {i \in DOMAIN table : Len(got[i]) < table[i].min}
<1>1. /\ pass = "check" /\ pass' = "done" /\ UNCHANGED <<table, vector, limit, optind, place, tab, got, idx>>
      /\ IF errors = 0 THEN Register(Cardinality(is)) ELSE UNCHANGED errors
  BY Zenon DEF Check
<1>2. /\ ParseTyped /\ place = <<>> /\ (errors # 0 => ~Fits) /\ errors \in Nat
      /\ errors = 0 => Accepts(got) \/ Rejects(got)
  BY <1>1, Zenon DEF ParseInv, ParseTyped
<1>3. IsFiniteSet(is)
  <2>1. IsFiniteSet(DOMAIN table)
    BY <1>2, TabIs, FS_Interval
  <2>. QED  BY <2>1, FS_Subset
<1>4. is = {} <=> ~Lacking(got)
  BY Zenon DEF Lacking
<1> HIDE DEF is
<1>5. Cardinality(is) \in Nat /\ (Cardinality(is) = 0 <=> is = {})
  BY <1>3, FS_CardinalityType, FS_EmptySet
<1>6. /\ errors' \in Nat
      /\ errors' = 0 => Fits /\ got = ValuesOf(table, vector)
      /\ errors' # 0 => ~Fits
  <2>1. CASE errors # 0
    BY <1>1, <1>2, <2>1
  <2>2. CASE errors = 0
    <3>1. errors' \in Nat /\ (errors' = 0 <=> ~Lacking(got))
      BY <1>1, <1>2, <1>4, <1>5, <2>2, RegisterIs
    <3>. QED  BY <1>2, <2>2, <3>1 DEF Accepts, Rejects
  <2>. QED  BY <2>1, <2>2
<1>7. ParseTyped'
  BY <1>1, <1>2, <1>6, Zenon DEF ParseTyped
<1>8. errors' = 0 => Fits' /\ got' = ValuesOf(table', vector')
  BY <1>1, <1>6, Zenon DEF Fits
<1>9. errors' # 0 => ~Fits'
  BY <1>1, <1>6, Zenon DEF Fits
<1>10. place' = <<>> /\ pass' = "done"
  BY <1>1, <1>2
<1>. QED  BY <1>7, <1>8, <1>9, <1>10 DEF ParseInv, Tagging

LEMMA AgainSteps ==
  ASSUME ParseTyped, NEW stop \in 1..Len(vector), Again(stop),
         stop = Len(vector) \/ (stop > 1 /\ Ends(stop - 1) /\ \E i \in DOMAIN table : table[i].stop)
  PROVE  ParseInv'
<1>1. /\ pass' = "again" /\ limit' = stop /\ optind' = 1 /\ place' = <<>> /\ tab' = 1
      /\ got' = Empty /\ errors' = 0 /\ UNCHANGED <<table, vector, idx>>
  BY DEF Again
<1>2. Sound(table) /\ vector \in Seq(Args) /\ vector # <<>> /\ Len(vector) \in Nat /\ Len(table) \in Nat
  BY TabIs DEF ParseTyped
<1>3. got' = [i \in DOMAIN table |-> <<>>]
  BY <1>1 DEF Empty
<1>4. ParseTyped'
  <2>1. (Sound(table) /\ vector \in Seq(Args) /\ vector # <<>> /\ \A k \in DOMAIN vector : ~Dashed(vector[k]))'
    BY <1>1, Zenon DEF ParseTyped
  <2>2. idx' \in 0..(Len(vector') - 1) /\ limit' \in 1..Len(vector')
    BY <1>1, Zenon DEF ParseTyped
  <2>3. got' = [i \in DOMAIN table' |-> got'[i]]
    BY <1>1, <1>3
  <2>4. tab' \in 1..(Len(table') + 1) /\ optind' \in 1..Len(vector') /\ errors' \in Nat
    BY <1>1, <1>2
  <2>5. pass' \in {"tagged", "find", "again", "untagged", "check", "done"}
    BY <1>1
  <2>6. place' \in Args /\ place' = <<>>
    BY <1>1 DEF Args
  <2>. QED  BY <2>1, <2>2, <2>3, <2>4, <2>5, <2>6, Zenon DEF ParseTyped
<1>5. Edge'
  <2>1. \A n : (After(n))' = After(n)
    BY <1>1 DEF After
  <2>. QED  BY <1>1, <2>1, Zenon DEF Edge, Ends
<1>6. ASSUME NEW a, a = After(0).args PROVE On(optind, place, a)'
  <2>1. 0 \in 0..(Len(vector) - 1) /\ 1 - 1 = 0 /\ 1 <= stop
    BY <1>2
  <2>2. After(0) = Nothing(table)
    BY <1>2, ReadingsStep DEF After
  <2>3. Ready(After(0))
    BY <1>2, <2>2, NothingReads
  <2>4. \A n : (After(n))' = After(n)
    BY <1>1 DEF After
  <2>5. (After(optind - 1))' = After(0)
    BY <1>1, <2>1, <2>4
  <2>. QED  BY <1>1, <1>6, <2>1, <2>3, <2>4, <2>5, Zenon DEF On, Ready
<1>7. Matches(table', got', After(0).args)
  <2>1. After(0) = Nothing(table)
    BY <1>2, ReadingsStep DEF After
  <2>2. \A i \in DOMAIN table : After(0).args[i] = <<>> /\ got'[i] = <<>>
    BY <1>3, <2>1 DEF Nothing
  <2>. QED  BY <1>1, <2>2, Zenon DEF Matches, Match
<1>8. Tagging' => \A i \in DOMAIN table' : Untagged(table[i])' => got'[i] = <<>>
  BY <1>1, <1>3
<1>9. \E a : (On(optind, place, a) /\ Matches(table, got, a))'
  <2>1. PICK a : a = After(0).args
    OBVIOUS
  <2>2. On(optind, place, a)'
    BY <1>6, <2>1
  <2>3. Matches(table', got', a)
    BY <1>7, <2>1
  <2>4. (On(optind, place, a) /\ Matches(table, got, a))'
    BY <2>2, <2>3, Zenon DEF Matches
  <2>. QED  BY <2>4
<1>. QED  BY <1>1, <1>4, <1>5, <1>8, <1>9, Zenon DEF ParseInv

Rest == UNCHANGED <<table, vector, pass, limit, place, idx, errors>>

LEMMA FindCases ==
  ASSUME Find
  PROVE  /\ pass = "find"
         /\ \/ Again(limit)
            \/ /\ ~(tab > Len(table) \/ optind >= limit)
               /\ \/ Untagged(table[tab]) /\ table[tab].stop /\ Again(optind + 1)
                  \/ /\ Untagged(table[tab]) /\ ~table[tab].stop /\ Rest
                     /\ got' = [got EXCEPT ![tab] = Append(@, Tried.value)]
                     /\ optind' = optind + 1 /\ tab' = tab
                  \/ /\ ~(Untagged(table[tab]) /\ Tried.error = "") /\ Rest
                     /\ tab' = tab + 1 /\ got' = got /\ optind' = optind
<1>1. CASE tab > Len(table) \/ optind >= limit
  BY <1>1, Zenon DEF Find
<1>2. CASE ~(tab > Len(table) \/ optind >= limit)
  BY <1>2, Zenon DEF Find, Rest, Tried
<1>. QED  BY <1>1, <1>2

\* What has been found is as it was, but for the entries that take words.
LEMMA FindKeeps ==
  ASSUME ParseTyped, pass = "find", place = <<>>, Rest, ~(tab > Len(table) \/ optind >= limit),
         optind' \in {optind, optind + 1}, tab' \in {tab, tab + 1},
         got' = got \/ \E v : got' = [got EXCEPT ![tab] = v]
  PROVE  ParseTyped'
<1>1. /\ optind \in 1..Len(vector) /\ limit \in 1..Len(vector) /\ Len(vector) \in Nat
      /\ Len(table) \in Nat /\ tab \in 1..(Len(table) + 1) /\ got = [i \in DOMAIN table |-> got[i]]
  BY TabIs DEF ParseTyped
<1>2. UNCHANGED <<table, vector, pass, limit, place, idx, errors>>
  BY DEF Rest
<1>3. optind' \in 1..Len(vector) /\ tab' \in 1..(Len(table) + 1)
  <2> DEFINE o == optind'
             t == tab'
  <2>1. o \in {optind, optind + 1} /\ t \in {tab, tab + 1}
    OBVIOUS
  <2> HIDE DEF o, t
  <2>2. o \in 1..Len(vector) /\ t \in 1..(Len(table) + 1)
    BY <1>1, <2>1
  <2>. QED  BY <2>2 DEF o, t
<1>4. got' = [i \in DOMAIN table |-> got'[i]]
  BY <1>1
<1>5. (Sound(table) /\ vector \in Seq(Args) /\ vector # <<>> /\ \A k \in DOMAIN vector : ~Dashed(vector[k]))'
  BY <1>2, Zenon DEF ParseTyped
<1>6. /\ limit' \in 1..Len(vector') /\ idx' \in 0..(Len(vector') - 1) /\ errors' \in Nat
      /\ pass' \in {"tagged", "find", "again", "untagged", "check", "done"}
      /\ place' \in Args /\ place' = <<>>
  BY <1>2, Zenon DEF ParseTyped
<1>7. optind' \in 1..Len(vector') /\ tab' \in 1..(Len(table') + 1) /\ got' = [i \in DOMAIN table' |-> got'[i]]
  BY <1>2, <1>3, <1>4
<1>. QED  BY <1>5, <1>6, <1>7, Zenon DEF ParseTyped

LEMMA FindSteps ==
  ASSUME ParseInv, Find
  PROVE  ParseInv'
<1>1. /\ pass = "find" /\ ParseTyped /\ place = <<>> /\ limit = Len(vector)
      /\ \A i \in DOMAIN table : table[i].stop => Ends(optind) /\ tab <= i /\ got[i] = <<>>
  BY FindCases, Zenon DEF ParseInv
<1>2. /\ optind \in 1..Len(vector) /\ limit \in 1..Len(vector) /\ Len(vector) \in Nat /\ Sound(table)
      /\ tab \in Nat /\ Len(table) \in Nat /\ DOMAIN table = 1..Len(table)
      /\ (tab <= Len(table) => tab \in DOMAIN table)
  BY <1>1, TabIs DEF ParseTyped
<1>3. CASE Again(limit)
  BY <1>1, <1>2, <1>3, AgainSteps
<1>4. ASSUME ~(tab > Len(table) \/ optind >= limit),
             Untagged(table[tab]) /\ table[tab].stop /\ Again(optind + 1)
      PROVE  ParseInv'
  <2>1. tab \in DOMAIN table /\ optind + 1 \in 1..Len(vector) /\ optind + 1 > 1 /\ (optind + 1) - 1 = optind
    BY <1>2, <1>4
  <2>2. Ends((optind + 1) - 1) /\ \E i \in DOMAIN table : table[i].stop
    BY <1>1, <1>4, <2>1
  <2>. QED  BY <1>1, <1>4, <2>1, <2>2, AgainSteps
<1>5. ASSUME ParseTyped', Rest,
             \A i \in DOMAIN table : table[i].stop => Ends(optind') /\ tab' <= i /\ got'[i] = <<>>
      PROVE  ParseInv'
  <2>1. UNCHANGED <<table, vector, pass, limit, place, idx, errors>>
    BY <1>5 DEF Rest
  <2>2. Ends(optind)' <=> Ends(optind')
    <3>1. \A n : (After(n))' = After(n)
      BY <2>1 DEF After
    <3>. QED  BY <2>1, <3>1, Zenon DEF Ends
  <2>3. \A i \in DOMAIN table' : table'[i].stop => Ends(optind)' /\ tab' <= i /\ got'[i] = <<>>
    BY <1>5, <2>1, <2>2, Zenon
  <2>4. pass' = "find" /\ place' = <<>> /\ limit' = Len(vector')
    BY <1>1, <2>1
  <2>. QED  BY <1>5, <2>3, <2>4 DEF ParseInv, Tagging
<1>6. ASSUME ~(tab > Len(table) \/ optind >= limit), Untagged(table[tab]), ~table[tab].stop, Rest,
             got' = [got EXCEPT ![tab] = Append(@, Tried.value)], optind' = optind + 1, tab' = tab
      PROVE  ParseInv'
  <2>1. ParseTyped'
    <3>1. \E v : got' = [got EXCEPT ![tab] = v]
      BY <1>6, Zenon
    <3>2. optind' \in {optind, optind + 1} /\ tab' \in {tab, tab + 1}
      BY <1>6
    <3>. QED  BY <1>1, <1>6, <3>1, <3>2, FindKeeps
  <2>2. \A i \in DOMAIN table : ~table[i].stop
    <3>1. SUFFICES ASSUME NEW i \in DOMAIN table, table[i].stop PROVE FALSE
      OBVIOUS
    <3>2. tab \in DOMAIN table
      BY <1>2, <1>6
    <3>3. tab = i
      BY <1>2, <1>6, <3>1, <3>2, StopIs DEF Stopper
    <3>. QED  BY <1>6, <3>1, <3>3
  <2>. QED  BY <1>5, <1>6, <2>1, <2>2
<1>7. ASSUME ~(tab > Len(table) \/ optind >= limit), ~(Untagged(table[tab]) /\ Tried.error = ""), Rest,
             tab' = tab + 1, got' = got, optind' = optind
      PROVE  ParseInv'
  <2>1. ParseTyped'
    <3>1. optind' \in {optind, optind + 1} /\ tab' \in {tab, tab + 1}
      BY <1>7, Zenon
    <3>. QED  BY <1>1, <1>7, <3>1, FindKeeps, Zenon
  <2>2. ASSUME NEW i \in DOMAIN table, table[i].stop
        PROVE  Ends(optind') /\ tab' <= i /\ got'[i] = <<>>
    <3>1. Ends(optind) /\ tab <= i /\ got[i] = <<>> /\ i \in Nat
      <4>1. i \in Nat
        BY <1>2
      <4>. QED  BY <1>1, <2>2, <4>1
    <3>2. tab # i
      <4>1. SUFFICES ASSUME tab = i PROVE FALSE
        OBVIOUS
      <4>2. Tried = Scan(table[tab], 0, This)
        BY <3>1, <4>1, NoneYet DEF Tried
      <4>3. Stopper(table, i)
        BY <1>2, <2>2, StopIs
      <4>. QED  BY <1>7, <4>1, <4>2, <4>3, Zenon DEF Stopper
    <3>3. tab + 1 <= i
      BY <1>2, <3>1, <3>2
    <3>. QED  BY <1>7, <3>1, <3>3, Zenon
  <2>. QED  BY <1>5, <1>7, <2>1, <2>2, Zenon
<1>. QED  BY <1>3, <1>4, <1>6, <1>7, FindCases, Zenon

LEMMA ParseSteps ==
  ASSUME ParseInv, ParseStep
  PROVE  ParseInv'
BY OptionSteps, EndSteps, FindSteps, UntaggedSteps, CheckSteps DEF ParseStep

-------------------------------------------------------------------------------
\* The tables.

\* An option, and a word.
IsTagged(e) == ~Untagged(e) /\ e.max = 1 /\ e.min = 0 /\ e.stop = FALSE

IsWord(e) == Untagged(e) /\ e.max = 1 /\ e.min = 1

EntryOf(e, kind, short, long, min, max, stop) ==
  /\ e.kind = kind /\ e.short = short /\ e.long = long
  /\ e.min = min /\ e.max = max /\ e.stop = stop

LEMMA EntryIs ==
  ASSUME NEW kind, NEW short, NEW long, NEW min, NEW max
  PROVE  EntryOf(Entry(kind, short, long, min, max), kind, short, long, min, max, FALSE)
BY DEF Entry, EntryOf

LEMMA EntryWith ==
  ASSUME NEW kind, NEW short, NEW long, NEW min, NEW max, NEW x
  PROVE  /\ EntryOf([Entry(kind, short, long, min, max) EXCEPT !.n = x], kind, short, long, min, max, FALSE)
         /\ EntryOf([Entry(kind, short, long, min, max) EXCEPT !.choices = x], kind, short, long, min, max, FALSE)
         /\ EntryOf([Entry(kind, short, long, min, max) EXCEPT !.stop = x], kind, short, long, min, max, x)
BY DEF Entry, EntryOf

LEMMA TaggedIs ==
  ASSUME NEW e, NEW kind, NEW short, NEW long, short # "", EntryOf(e, kind, short, long, 0, 1, FALSE)
  PROVE  IsTagged(e)
BY Zenon DEF IsTagged, Untagged, EntryOf

LEMMA WordEntryIs ==
  ASSUME NEW e, NEW kind, NEW stop, EntryOf(e, kind, "", <<>>, 1, 1, stop)
  PROVE  IsWord(e) /\ e.kind = kind /\ e.stop = stop
BY Zenon DEF IsWord, Untagged, EntryOf

\* A table of options, of words behind them.
LEMMA SoundIs ==
  ASSUME NEW tbl, NEW n \in Nat, NEW m \in Nat, Len(tbl) = m, DOMAIN tbl = 1..m,
         \A i \in 1..n : IsTagged(tbl[i]),
         \A i \in (n + 1)..m : IsWord(tbl[i]),
         \A i \in (n + 1)..m : tbl[i].stop => tbl[i].kind = "str" /\ m = n + 1
  PROVE  Sound(tbl)
<1>1. Len(tbl) \in Nat /\ DOMAIN tbl = 1..Len(tbl)
  OBVIOUS
<1>2. \A i \in DOMAIN tbl : i \in 1..n \/ i \in (n + 1)..m
  OBVIOUS
<1>3. \A i \in DOMAIN tbl : /\ tbl[i].max = 1
                            /\ tbl[i].min = IF Untagged(tbl[i]) THEN 1 ELSE 0
  BY <1>2, Zenon DEF IsTagged, IsWord
<1>4. ASSUME NEW i \in DOMAIN tbl, tbl[i].stop
      PROVE  /\ Untagged(tbl[i]) /\ tbl[i].kind = "str"
             /\ \A j \in DOMAIN tbl : Untagged(tbl[j]) => j = i
  <2>1. i \in (n + 1)..m
    BY <1>2, <1>4, Zenon DEF IsTagged
  <2>2. Untagged(tbl[i]) /\ tbl[i].kind = "str" /\ m = n + 1
    BY <1>4, <2>1, Zenon DEF IsWord
  <2>3. \A j \in DOMAIN tbl : Untagged(tbl[j]) => j \in (n + 1)..m
    BY <1>2, Zenon DEF IsTagged
  <2>4. \A j, k \in (n + 1)..m : m = n + 1 => j = k
    OBVIOUS
  <2>. QED  BY <2>1, <2>2, <2>3, <2>4, Zenon
<1>. QED  BY <1>1, <1>3, <1>4, Zenon DEF Sound

LEMMA MainEntries ==
  /\ Len(MainTable) = 8 /\ DOMAIN MainTable = 1..8
  /\ MainTable[1] = Entry("lit", "h", <<"help">>, 0, 1)
  /\ MainTable[2] = Entry("lit", "d", <<"debug">>, 0, 1)
  /\ MainTable[3] = Entry("str", "i", <<"interface">>, 0, 1)
  /\ MainTable[4] = Entry("str", "f", <<"con", "fig", "file">>, 0, 1)
  /\ MainTable[5] = [Entry("rex", "t", <<"transport">>, 0, 1) EXCEPT !.choices = TransportArgs]
  /\ MainTable[6] = Entry("str", "c", <<"con", "fig">>, 0, 1)
  /\ MainTable[7] = Entry("lit", "v", <<>>, 0, 1)
  /\ MainTable[8] = [Entry("str", "", <<>>, 1, 1) EXCEPT !.stop = TRUE]
BY DEF MainTable, Help, arg_lit0, arg_str0, arg_str1, arg_rexn

LEMMA MainSound == Sound(MainTable)
<1> DEFINE t == MainTable
<1>1. Len(t) = 8 /\ DOMAIN t = 1..8
  BY MainEntries
<1>2. IsTagged(t[1])
  BY MainEntries, EntryIs, TaggedIs
<1>3. IsTagged(t[2])
  BY MainEntries, EntryIs, TaggedIs
<1>4. IsTagged(t[3])
  BY MainEntries, EntryIs, TaggedIs
<1>5. IsTagged(t[4])
  BY MainEntries, EntryIs, TaggedIs
<1>6. IsTagged(t[5])
  BY MainEntries, EntryWith, TaggedIs
<1>7. IsTagged(t[6])
  BY MainEntries, EntryIs, TaggedIs
<1>8. IsTagged(t[7])
  BY MainEntries, EntryIs, TaggedIs
<1>9. IsWord(t[8]) /\ t[8].kind = "str"
  <2>1. EntryOf([Entry("str", "", <<>>, 1, 1) EXCEPT !.stop = TRUE], "str", "", <<>>, 1, 1, TRUE)
    BY EntryWith, Zenon
  <2>2. EntryOf(t[8], "str", "", <<>>, 1, 1, TRUE)
    BY <2>1, MainEntries, Zenon
  <2>. QED  BY <2>2, WordEntryIs, Zenon
<1> HIDE DEF t
<1>10. \A i \in 1..7 : IsTagged(t[i])
  BY <1>2, <1>3, <1>4, <1>5, <1>6, <1>7, <1>8
<1>11. \A i \in (7 + 1)..8 : IsWord(t[i]) /\ t[i].kind = "str"
  <2>1. \A i \in (7 + 1)..8 : i = 8
    OBVIOUS
  <2>. QED  BY <1>9, <2>1, Zenon
<1>12. 7 \in Nat /\ 8 \in Nat /\ 8 = 7 + 1
  OBVIOUS
<1>. QED  BY <1>1, <1>10, <1>11, <1>12, SoundIs, Zenon DEF t

LEMMA RawEntries ==
  /\ Len(RawTable) = 9 /\ DOMAIN RawTable = 1..9
  /\ RawTable[1] = Entry("lit", "h", <<"help">>, 0, 1)
  /\ RawTable[2] = [Entry("csi", "s", <<"s", "lot_def">>, 0, 1) EXCEPT !.n = 2]
  /\ RawTable[3] = Entry("lit", "x", <<"cross_slot">>, 0, 1)
  /\ RawTable[4] = [Entry("csi", "a", <<"aid_group">>, 0, 1) EXCEPT !.n = 2]
  /\ RawTable[5] = Entry("int", "t", <<"s", "tart_time">>, 0, 1)
  /\ RawTable[6] = [Entry("csi", "b", <<"bcn_spread">>, 0, 1) EXCEPT !.n = 2]
  /\ RawTable[7] = [Entry("csi", "p", <<"praw">>, 0, 1) EXCEPT !.n = 3]
  /\ RawTable[8] = [Entry("rex", "", <<>>, 1, 1)
                     EXCEPT !.choices = {<<"enable">>, <<"disable">>, <<"delete">>}]
  /\ RawTable[9] = Entry("int", "", <<>>, 1, 1)
BY DEF RawTable, Help, arg_lit0, arg_int0, arg_int1, arg_csi0, arg_rexn

LEMMA RawSound == Sound(RawTable)
<1> DEFINE t == RawTable
<1>1. Len(t) = 9 /\ DOMAIN t = 1..9
  BY RawEntries
<1>2. IsTagged(t[1])
  BY RawEntries, EntryIs, TaggedIs
<1>3. IsTagged(t[2])
  BY RawEntries, EntryWith, TaggedIs
<1>4. IsTagged(t[3])
  BY RawEntries, EntryIs, TaggedIs
<1>5. IsTagged(t[4])
  BY RawEntries, EntryWith, TaggedIs
<1>6. IsTagged(t[5])
  BY RawEntries, EntryIs, TaggedIs
<1>7. IsTagged(t[6])
  BY RawEntries, EntryWith, TaggedIs
<1>8. IsTagged(t[7])
  BY RawEntries, EntryWith, TaggedIs
<1>9. IsWord(t[8]) /\ ~t[8].stop
  <2> DEFINE cs == {<<"enable">>, <<"disable">>, <<"delete">>}
  <2>2. EntryOf([Entry("rex", "", <<>>, 1, 1) EXCEPT !.choices = cs], "rex", "", <<>>, 1, 1, FALSE)
    BY EntryWith, Zenon
  <2>1. EntryOf(t[8], "rex", "", <<>>, 1, 1, FALSE)
    BY <2>2, RawEntries, Zenon
  <2>. QED  BY <2>1, WordEntryIs, Zenon
<1>10. IsWord(t[9]) /\ ~t[9].stop
  <2>2. EntryOf(Entry("int", "", <<>>, 1, 1), "int", "", <<>>, 1, 1, FALSE)
    BY EntryIs, Zenon
  <2>1. EntryOf(t[9], "int", "", <<>>, 1, 1, FALSE)
    BY <2>2, RawEntries, Zenon
  <2>. QED  BY <2>1, WordEntryIs, Zenon
<1> HIDE DEF t
<1>11. \A i \in 1..7 : IsTagged(t[i])
  BY <1>2, <1>3, <1>4, <1>5, <1>6, <1>7, <1>8
<1>12. \A i \in (7 + 1)..9 : IsWord(t[i]) /\ ~t[i].stop
  <2>1. \A i \in (7 + 1)..9 : i = 8 \/ i = 9
    OBVIOUS
  <2>. QED  BY <1>9, <1>10, <2>1, Zenon
<1>13. 7 \in Nat /\ 9 \in Nat
  OBVIOUS
<1>. QED  BY <1>1, <1>11, <1>12, <1>13, SoundIs, Zenon DEF t

-------------------------------------------------------------------------------
\* The whole of a process.

\* arg_parse has just been called.
Begun ==
  /\ Sound(table) /\ vector \in Seq(Args) /\ vector # <<>> /\ \A k \in DOMAIN vector : ~Dashed(vector[k])
  /\ pass = "tagged" /\ limit = Len(vector) /\ optind = 1 /\ place = <<>> /\ tab = 1
  /\ got = [i \in DOMAIN table |-> <<>>] /\ idx = 0 /\ errors = 0

LEMMA BegunInv == Begun => ParseInv
<1> SUFFICES ASSUME Begun PROVE ParseInv
  OBVIOUS
<1>1. /\ Sound(table) /\ vector \in Seq(Args) /\ vector # <<>> /\ Len(vector) \in Nat \ {0}
      /\ pass = "tagged" /\ limit = Len(vector) /\ optind = 1 /\ place = <<>> /\ tab = 1 /\ idx = 0 /\ errors = 0
      /\ got = [i \in DOMAIN table |-> <<>>] /\ Len(table) \in Nat
  BY DEF Begun, Sound
<1>2. ParseTyped
  <2>1. \A k \in DOMAIN vector : ~Dashed(vector[k])
    BY DEF Begun
  <2>2. optind \in 1..Len(vector) /\ limit \in 1..Len(vector) /\ idx \in 0..(Len(vector) - 1)
        /\ tab \in 1..(Len(table) + 1) /\ errors \in Nat
    BY <1>1
  <2>3. got = [i \in DOMAIN table |-> got[i]]
    BY <1>1
  <2>4. place \in Args /\ pass \in {"tagged", "find", "again", "untagged", "check", "done"}
    BY <1>1 DEF Args
  <2>. QED  BY <1>1, <2>1, <2>2, <2>3, <2>4, Zenon DEF ParseTyped
<1>3. On(optind, place, After(0).args)
  <2>1. After(0) = Nothing(table)
    BY <1>1, ReadingsStep DEF After
  <2>2. Ready(After(0))
    BY <1>1, <2>1, NothingReads
  <2>3. 1 <= limit /\ 1 - 1 = 0
    BY <1>1
  <2>. QED  BY <1>1, <2>2, <2>3 DEF On
<1>4. \A i \in DOMAIN table : got[i] = <<>>
  BY <1>1
<1>. QED  BY <1>1, <1>2, <1>3, <1>4 DEF ParseInv

\* Main's parse.
LEMMA ParsesFirst == GInit => ParsingInv
<1> SUFFICES ASSUME GInit PROVE ParsingInv
  OBVIOUS
<1>1. argv \in Lines /\ stage = "main" /\ vector = argv
  BY DEF GInit
<1>2. NoDashes => Begun
  <2>1. argv \in Seq(Args) /\ argv # <<>>
    BY <1>1, ArgumentsAssumption DEF Args, Syllables
  <2>2. table = MainTable
    BY DEF GInit
  <2>3. Sound(table)
    BY <2>2, MainSound
  <2>4. /\ pass = "tagged" /\ limit = Len(vector) /\ optind = 1 /\ place = <<>> /\ tab = 1
        /\ got = [i \in DOMAIN table |-> <<>>] /\ idx = 0 /\ errors = 0
    BY <1>1 DEF GInit
  <2>5. NoDashes => \A k \in DOMAIN vector : ~Dashed(vector[k])
    BY <1>1 DEF NoDashes
  <2>. QED  BY <1>1, <2>1, <2>3, <2>4, <2>5 DEF Begun
<1>3. NoDashes => ParseInv
  BY <1>2, BegunInv
<1>. QED  BY <1>1, <1>3 DEF ParsingInv

\* The parse of the command's arguments.
LEMMA ParsesSub ==
  ASSUME ParseInv, vector = argv, argv \in Lines, NoDashes, Parse(RawTable, SubArgv)
  PROVE  Begun'
<1>1. /\ argv \in Seq(Args) /\ argv # <<>> /\ idx \in 0..(Len(argv) - 1) /\ Len(argv) \in Nat
      /\ \A k \in DOMAIN argv : ~Dashed(argv[k])
  BY DEF ParseInv, ParseTyped
<1>2. /\ SubArgv \in Seq(Args) /\ SubArgv # <<>>
      /\ \A k \in DOMAIN SubArgv : ~Dashed(SubArgv[k])
  <2> DEFINE s == SubArgv
             n == Len(argv) - idx
  <2>1. n \in Nat \ {0} /\ \A k \in 1..n : idx + k \in DOMAIN argv
    BY <1>1
  <2>2. SubSeq(argv, idx + 1, Len(argv)) \in Seq(Args)
    BY <1>1
  <2>3. /\ Len(SubSeq(argv, idx + 1, Len(argv))) = n
        /\ \A k \in 1..n : SubSeq(argv, idx + 1, Len(argv))[k] = argv[idx + k]
    BY <1>1
  <2> HIDE DEF n
  <2>4. s \in Seq(Args) /\ Len(s) = n /\ \A k \in 1..n : s[k] = argv[idx + k]
    BY <2>2, <2>3 DEF SubArgv
  <2> HIDE DEF s
  <2>5. s # <<>> /\ DOMAIN s = 1..n
    BY <2>1, <2>4
  <2>6. \A k \in DOMAIN s : ~Dashed(s[k])
    BY <1>1, <2>1, <2>4, <2>5
  <2>. QED  BY <2>4, <2>5, <2>6 DEF s
<1>3. /\ table' = RawTable /\ vector' = SubArgv
      /\ pass' = "tagged" /\ limit' = Len(SubArgv) /\ optind' = 1 /\ place' = <<>> /\ tab' = 1
      /\ got' = [i \in DOMAIN RawTable |-> <<>>] /\ idx' = 0 /\ errors' = 0
  BY DEF Parse
<1>4. Sound(table)'
  BY <1>3, RawSound, Zenon DEF Sound
<1>5. \A k \in DOMAIN vector' : ~Dashed(vector'[k])
  BY <1>2, <1>3
<1>. QED  BY <1>2, <1>3, <1>4, <1>5, Zenon DEF Begun

LEMMA ParsesOn == ParsingInv /\ [GNext]_gvars => ParsingInv'
<1> SUFFICES ASSUME ParsingInv, [GNext]_gvars PROVE ParsingInv'
  OBVIOUS
<1>1. argv \in Lines
  BY DEF ParsingInv
<1>2. CASE Parsing
  <2>1. stage \in {"main", "sub"} /\ ParseStep /\ UNCHANGED <<argv, stage, issued>>
    BY <1>2 DEF Parsing
  <2>2. NoDashes' <=> NoDashes
    BY <2>1 DEF NoDashes
  <2>3. NoDashes => ParseInv'
    BY <2>1, ParseSteps DEF ParsingInv
  <2>4. NoDashes /\ stage = "main" => vector' = argv
    <3>1. vector' = vector
      BY <2>1, Zenon DEF ParseStep, EndOfOptions, NextPass, ParseLong, ParseDash, ParseShort, Find, Again,
                         ParseUntagged, Leftover, Check
    <3>. QED  BY <2>1, <3>1 DEF ParsingInv
  <2>. QED  BY <1>1, <2>1, <2>2, <2>3, <2>4 DEF ParsingInv
<1>3. CASE Dispatch
  <2>1. \/ stage' \notin {"main", "sub"} /\ argv' = argv
        \/ /\ stage = "main" /\ pass = "done" /\ Parse(RawTable, SubArgv)
           /\ stage' = "sub" /\ argv' = argv
    BY <1>3, Zenon DEF Dispatch, End
  <2>2. CASE stage' \notin {"main", "sub"} /\ argv' = argv
    BY <1>1, <2>2 DEF ParsingInv
  <2>3. CASE stage = "main" /\ Parse(RawTable, SubArgv) /\ stage' = "sub" /\ argv' = argv
    <3>1. NoDashes' <=> NoDashes
      BY <2>3 DEF NoDashes
    <3>2. NoDashes => Begun'
      BY <1>1, <2>3, ParsesSub DEF ParsingInv
    <3>3. Begun' => ParseInv'
      BY BegunInv, PTL
    <3>. QED  BY <1>1, <2>3, <3>1, <3>2, <3>3 DEF ParsingInv
  <2>. QED  BY <2>1, <2>2, <2>3
<1>4. CASE ParseStops \/ Raw \/ SetGet
  <2>1. stage' = "end" /\ argv' = argv
    BY <1>4 DEF ParseStops, Raw, SetGet, End
  <2>. QED  BY <1>1, <2>1 DEF ParsingInv
<1>5. CASE Options
  <2>1. stage' \in {"options", "end"} /\ argv' = argv
    BY <1>5 DEF Options, End
  <2>. QED  BY <1>1, <2>1 DEF ParsingInv
<1>6. CASE Ended \/ UNCHANGED gvars
  <2>1. UNCHANGED gvars
    BY <1>6 DEF Ended
  <2>2. /\ UNCHANGED <<table, vector, pass, limit, optind, place, tab, got, idx, errors>>
        /\ UNCHANGED <<argv, stage, issued>>
    BY <2>1 DEF gvars, avars
  <2>3. NoDashes' <=> NoDashes
    BY <2>2 DEF NoDashes
  <2>4. ParseInv' <=> ParseInv
    <3>1. ParseTyped' <=> ParseTyped
      BY <2>2, Zenon DEF ParseTyped
    <3>2. /\ (Fits' <=> Fits) /\ (Off(optind, place)' <=> Off(optind, place))
          /\ \A a : On(optind, place, a)' <=> On(optind, place, a)
      BY <2>2, SameOn
    <3>3. /\ \A e : Placed(e, optind, tab, got)' <=> Placed(e, optind, tab, got)
          /\ Missing(tab, got)' <=> Missing(tab, got)
          /\ Accepts(got)' <=> Accepts(got)
          /\ Rejects(got)' <=> Rejects(got)
      BY <2>2, SamePlaced
    <3>4. (Ends(optind)' <=> Ends(optind)) /\ (Edge' <=> Edge)
      <4>1. \A n : (After(n))' = After(n)
        BY <2>2 DEF After
      <4>. QED  BY <2>2, <4>1, Zenon DEF Edge, Ends
    <3>5. \A a : Matches(table, got, a)' <=> Matches(table, got, a)
      BY <2>2, Zenon DEF Matches
    <3>. QED  BY <2>2, <3>1, <3>2, <3>3, <3>4, <3>5, Zenon DEF ParseInv, Tagging
  <2>. QED  BY <2>2, <2>3, <2>4, Zenon DEF ParsingInv
<1>. QED  BY <1>2, <1>3, <1>4, <1>5, <1>6 DEF GNext

\* Whatever the line, if there is no dash in a group: arg_parse accepts the right lines and
\* no others, with the values that they give.
THEOREM ParsesAsGrammar == GSpec => []ParsedAsGrammar
<1>1. ParsingInv => ParsedAsGrammar
  BY DEF ParsingInv, ParseInv, ParsedAsGrammar, Fits
<1>. QED  BY ParsesFirst, ParsesOn, <1>1, PTL DEF GSpec

-------------------------------------------------------------------------------
(* Arguments: what is sent against what was typed.                             *)

\* What stands behind the word that ends main's parse is left to the command.
Stopped ==
  pass \in {"check", "done"} /\ errors = 0 /\ Fits =>
    \A i \in DOMAIN table : table[i].stop /\ got[i] # <<>> =>
      /\ idx \in 1..(Len(vector) - 1) /\ got[i] = <<vector[idx + 1]>>
      /\ Mean.words = [k \in 1..(Len(vector) - idx) |-> vector[idx + k]]

\* The readings of the line that a loop over getopt goes along.
Reading(n) == Readings(table, vector, PassedOver(SubLine))[n]

\* v is what the values vs of an option come to: the last one counts, and of an element or
\* an OUI there is but one.
Holds(e, v, vs) ==
  /\ v = <<>> <=> vs = <<>>
  /\ vs # <<>> =>
       LET last == vs[Len(vs)]
           bin  == hexstr2bin(last, Len(last) \div 2)
       IN /\ e.kind \in {"word", "range"} => v[1] = WordOf(last)
          /\ e.kind = "uint64" => v[1].lo = WordOf(last)
          /\ e.kind = "bounds" => v[1][1] = WordOf(last)
          /\ e.kind \in {"element", "oui"} => vs = <<last>> /\ (bin.ok => v[1] = bin.octets)

AllHold(g, args) == \A i \in DOMAIN table : Holds(table[i], g[i], args[i])

\* vendor_ie has taken one command at most.
OneCommand(g) ==
  SubLine[1] = <<"vendor_ie">> => \A i, j \in 1..4 : g[i] # <<>> /\ g[j] # <<>> => i = j

\* The second bound of mpsw is the last one before argument o + 1.
UpperSoFar(o) == {k \in UpperBounds(SubLine) : k <= o}

UpperHolds(o, g) ==
  SubLine[1] = <<"mpsw">> =>
    /\ UpperSoFar(o) = {} => g[1] = <<>> \/ g[1][1][2] = 0
    /\ \A k \in UpperSoFar(o) : (\A j \in UpperSoFar(o) : j <= k) =>
         g[1] # <<>> /\ g[1][1][2] = WordOf(SubLine[k])

\* Of argument o + 1 the letters from j on are left, those before are flags.
Inside(o, p, j) ==
  /\ o < Len(vector) /\ IsOption(vector[o + 1]) /\ vector[o + 1] # <<"-", "-">>
  /\ j \in 2..Len(vector[o + 1]) /\ p = SubSeq(vector[o + 1], j, Len(vector[o + 1]))
  /\ j > 2 => vector[o + 1][2] # "-"
  /\ AllFlags(table, Tail(vector[o + 1]), j - 2)

\* Where the loop is in the line, what has been read up to there is what has been found.
Reached(o, p, g) ==
  /\ Ready(Reading(o - 1))
  /\ \/ p = <<>> /\ AllHold(g, Reading(o - 1).args)
     \/ \E j \in Nat : /\ Inside(o, p, j)
                       /\ AllHold(g, Part(table, Reading(o - 1), Tail(vector[o + 1]), j - 2).args)

\* It has not come to stand on a second bound.
Clear(o) == SubLine[1] = <<"mpsw">> => o + 1 \notin UpperBounds(SubLine)

GoesOn(o, p, g) == Reached(o, p, g) /\ OneCommand(g) /\ UpperHolds(o, g) /\ Clear(o)

\* It is at its end, with all that the options say.
Complete(o, g) ==
  LET m == OptionMeaning(SubLine)
  IN /\ ~m.bad /\ m.wait = 0 /\ AllHold(g, m.args) /\ OneCommand(g) /\ UpperHolds(o, g)
     /\ SubLine[1] = <<"mpsw">> /\ m.words = <<>> => UpperSoFar(o) = UpperBounds(SubLine)

LoopTyped ==
  /\ SubLine[1] \in GetoptCommands /\ Loops(SubLine)
  /\ table = OptionsOf(SubLine) /\ vector = OptionArgs(SubLine)
  /\ vector \in Seq(Args) /\ vector # <<>>
  /\ \A k \in DOMAIN vector : ~Dashed(vector[k])
  /\ limit = Len(vector) /\ optind \in 1..Len(vector)
  /\ place \in Args /\ (place # <<>> => optind < Len(vector))
  /\ got = [i \in DOMAIN table |-> got[i]]
  /\ pass \in {"getopt", "done"} /\ errors \in Nat

LoopInv ==
  /\ LoopTyped
  /\ pass = "getopt" => GoesOn(optind, place, got)
  /\ pass = "done" /\ errors = 0 => Complete(optind, got)

SentInv ==
  /\ stage # "end" => issued = NoCommand
  /\ stage = "end" => SentAsTyped
  /\ NoDashes =>
       /\ stage = "main" => table = MainTable /\ Stopped
       /\ stage \in {"sub", "legacy", "options"} => Right(MainTable, argv)
       /\ stage = "sub" => table = RawTable /\ vector = SubLine /\ SubLine[1] = <<"raw">>
       /\ stage = "legacy" => vector = SubLine /\ SubLine[1] \in {<<"set">>, <<"get">>}
       /\ stage = "options" => SubArgv = SubLine /\ LoopInv

-------------------------------------------------------------------------------
\* Main's parse ends at the command.

LEMMA NoErrors ==
  ASSUME errors \in Nat, NEW n \in Nat, Register(n), errors' = 0
  PROVE  errors = 0
BY ArgTableAssumption DEF Register

LEMMA PassEarly ==
  ASSUME EndOfOptions \/ ParseLong \/ ParseDash \/ ParseShort \/ Find
  PROVE  pass' \notin {"check", "done"}
BY Zenon DEF EndOfOptions, NextPass, ParseLong, ParseDash, ParseShort, Find, Again, Tagging, AtOption

LEMMA StopNotYet ==
  ASSUME ParseInv, pass = "untagged", errors = 0, Fits
  PROVE  \E e \in 1..Len(vector) : Placed(e, optind, tab, got)
BY DEF ParseInv, Missing

LEMMA StopHere ==
  ASSUME ParseTyped, NEW e \in 1..Len(vector), Placed(e, optind, tab, got), Fills, table[tab].stop
  PROVE  /\ idx' = optind /\ optind \in 1..(Len(vector) - 1) /\ got'[tab] = <<vector[optind + 1]>>
         /\ Mean.words = [k \in 1..(Len(vector) - optind) |-> vector[optind + k]]
<1>1. /\ tab \in DOMAIN table /\ got = [i \in DOMAIN table |-> got[i]]
      /\ optind \in 1..Len(vector) /\ limit \in 1..Len(vector) /\ Len(vector) \in Nat
      /\ ~(optind >= limit) /\ idx' = optind /\ got' = [got EXCEPT ![tab] = Append(@, Tried.value)]
  <2>1. ~(optind >= limit) /\ ~(tab > Len(table)) /\ idx' = optind /\ got' = [got EXCEPT ![tab] = Append(@, Tried.value)]
    BY Zenon DEF Fills
  <2>2. /\ got = [i \in DOMAIN table |-> got[i]] /\ vector \in Seq(Args)
        /\ optind \in 1..Len(vector) /\ limit \in 1..Len(vector)
    BY DEF ParseTyped
  <2>. QED  BY <2>1, <2>2, TabIs
<1>2. optind = e /\ got[tab] = <<>>
  BY <1>1, TabIs, StopFirst
<1>3. Mean.words = [k \in 1..(Len(vector) - e) |-> vector[e + k]]
  BY DEF Placed, Tagged
<1>4. Tried.value = This
  <2>1. table[tab].kind = "str" /\ table[tab].max = 1
    BY <1>1 DEF ParseTyped, Sound
  <2>2. Len(got[tab]) = 0
    BY <1>2
  <2>3. Tried = Scan(table[tab], 0, This)
    BY <2>2 DEF Tried
  <2>4. Tried = ScanStr(This)
    BY <2>1, <2>3 DEF Scan
  <2>. QED  BY <2>4 DEF ScanStr, Scanned
<1>5. got'[tab] = <<vector[optind + 1]>>
  <2> DEFINE v == Tried.value
  <2>1. got' = [got EXCEPT ![tab] = Append(@, v)] /\ v = vector[optind + 1]
    BY <1>1, <1>4 DEF This
  <2> HIDE DEF v
  <2>. QED  BY <1>1, <1>2, <2>1
<1>. QED  BY <1>1, <1>2, <1>3, <1>5

LEMMA StoppedSteps ==
  ASSUME ParseInv, Stopped, ParseStep
  PROVE  Stopped'
<1>1. table' = table /\ vector' = vector
  BY Zenon DEF ParseStep, EndOfOptions, NextPass, ParseLong, ParseDash, ParseShort, Find, Again,
               ParseUntagged, Leftover, Check
<1>2. ParseTyped /\ errors \in Nat
  BY DEF ParseInv, ParseTyped
<1>3. (Fits' <=> Fits) /\ Mean' = Mean
  BY <1>1 DEF Fits, Mean
<1>4. CASE EndOfOptions \/ ParseLong \/ ParseDash \/ ParseShort \/ Find
  BY <1>4, PassEarly DEF Stopped
<1>5. CASE Check
  <2>1. pass = "check" /\ got' = got /\ idx' = idx /\ (errors' = errors \/ \E n \in Nat : Register(n))
    <3>1. Cardinality({i \in DOMAIN table : Len(got[i]) < table[i].min}) \in Nat
      <4>1. Len(table) \in Nat /\ DOMAIN table = 1..Len(table)
        BY <1>2, TabIs
      <4>2. IsFiniteSet(1..Len(table))
        BY <4>1, FS_Interval
      <4>3. IsFiniteSet({i \in 1..Len(table) : Len(got[i]) < table[i].min})
        BY <4>2, FS_Subset
      <4>. QED  BY <4>1, <4>3, FS_CardinalityType
    <3>. QED  BY <1>5, <3>1 DEF Check
  <2>2. errors' = 0 => errors = 0
    BY <1>2, <2>1, NoErrors
  <2>. QED  BY <1>1, <1>3, <2>1, <2>2 DEF Stopped
<1>6. CASE ParseUntagged
  <2>1. SUFFICES ASSUME pass' = "check", errors' = 0, Fits,
                        NEW i \in DOMAIN table, table[i].stop, got'[i] # <<>>
                 PROVE  /\ idx' \in 1..(Len(vector) - 1) /\ got'[i] = <<vector[idx' + 1]>>
                        /\ Mean.words = [k \in 1..(Len(vector) - idx') |-> vector[idx' + k]]
    <3>1. pass' # "done"
      BY <1>6, UntaggedCases, Zenon DEF Finished, Leaves, Passes, Fills
    <3>. QED  BY <1>1, <1>3, <3>1 DEF Stopped
  <2>2. pass = "untagged" /\ (Finished \/ Leaves \/ Fills)
    BY <1>6, <2>1, UntaggedCases, Zenon DEF Passes
  <2>3. errors = 0
    <3>1. CASE Leaves
      <4>1. Register(limit - optind) /\ ~(optind >= limit)
        BY <3>1, Zenon DEF Leaves
      <4>2. limit - optind \in Nat
        BY <1>2, <4>1 DEF ParseTyped
      <4>. QED  BY <1>2, <2>1, <4>1, <4>2, NoErrors
    <3>2. CASE Finished \/ Fills
      BY <2>1, <3>2, Zenon DEF Finished, Fills
    <3>. QED  BY <2>2, <3>1, <3>2
  <2>4. PICK e \in 1..Len(vector) : Placed(e, optind, tab, got)
    BY <2>1, <2>2, <2>3, StopNotYet
  <2>5. got[i] = <<>>
    BY <2>1, <2>4 DEF Placed
  <2>6. CASE Fills
    <3>1. tab = i
      <4>1. got' = [got EXCEPT ![tab] = Append(@, Tried.value)]
        BY <2>6, Zenon DEF Fills
      <4> DEFINE v == Tried.value
      <4>2. got' = [got EXCEPT ![tab] = Append(@, v)] /\ got = [j \in DOMAIN table |-> got[j]]
        BY <1>2, <4>1 DEF ParseTyped
      <4> HIDE DEF v
      <4>. QED  BY <2>1, <2>5, <4>2
    <3>. QED  BY <1>2, <2>1, <2>4, <2>6, <3>1, StopHere
  <2>7. CASE Finished \/ Leaves
    BY <2>1, <2>5, <2>7, Zenon DEF Finished, Leaves
  <2>. QED  BY <2>2, <2>6, <2>7
<1>. QED  BY <1>4, <1>5, <1>6, Zenon DEF ParseStep

\* Where main leaves the line to the command.
LEMMA MainEnds ==
  ASSUME ParseInv, Stopped, table = MainTable, vector = argv, pass = "done", errors = 0
  PROVE  /\ Right(MainTable, argv) /\ idx \in 1..(Len(argv) - 1)
         /\ SubArgv = SubLine /\ got[Command] = <<SubLine[1]>>
         /\ SubLine \in Seq(Args) /\ SubLine # <<>> /\ place = <<>>
         /\ \A k \in DOMAIN SubLine : ~Dashed(SubLine[k])
<1>1. Fits /\ Right(MainTable, argv) /\ got = ValuesOf(MainTable, argv) /\ place = <<>>
  BY DEF ParseInv, Fits
<1>2. argv \in Seq(Args) /\ \A k \in DOMAIN argv : ~Dashed(argv[k])
  BY DEF ParseInv, ParseTyped
<1>3. 8 \in DOMAIN MainTable /\ MainTable[8].stop /\ MainTable[8].min = 1 /\ MainTable[8].max = 1
  <2>1. EntryOf([Entry("str", "", <<>>, 1, 1) EXCEPT !.stop = TRUE], "str", "", <<>>, 1, 1, TRUE)
    BY EntryWith, Zenon
  <2>2. EntryOf(MainTable[8], "str", "", <<>>, 1, 1, TRUE)
    BY <2>1, MainEntries, Zenon
  <2>3. MainTable[8].stop = TRUE /\ MainTable[8].min = 1 /\ MainTable[8].max = 1
    BY <2>2, Zenon DEF EntryOf
  <2>4. 8 \in 1..8
    OBVIOUS
  <2>5. DOMAIN MainTable = 1..8
    BY MainEntries, Zenon
  <2>. QED  BY <2>3, <2>4, <2>5, Zenon
<1>4. got[8] # <<>>
  <2> DEFINE as == ArgsOf(MainTable, Meaning(MainTable, argv))
  <2>1. Len(as[8]) \in 1..1
    BY <1>1, <1>3 DEF Right
  <2>2. got[8] = [k \in DOMAIN as[8] |-> Scan(MainTable[8], 0, as[8][k]).value]
    BY <1>1, <1>3 DEF ValuesOf
  <2>3. as[8] = <<WordsFor(MainTable, Meaning(MainTable, argv).words)[Words(MainTable, 8)]>>
    <3>1. Untagged(MainTable[8])
      BY <1>3, MainSound DEF Sound
    <3>. QED  BY <1>3, <3>1 DEF ArgsOf
  <2> HIDE DEF as
  <2>. QED  BY <2>2, <2>3, OneHas
<1>5. /\ idx \in 1..(Len(argv) - 1) /\ got[8] = <<argv[idx + 1]>>
      /\ SubLine = [k \in 1..(Len(argv) - idx) |-> argv[idx + k]]
  BY <1>1, <1>3, <1>4 DEF Stopped, SubLine, Mean
<1>6. /\ SubArgv = [k \in 1..(Len(argv) - idx) |-> argv[idx + k]]
      /\ SubArgv \in Seq(Args)
  BY <1>2, <1>5 DEF SubArgv
<1>7. SubLine[1] = argv[idx + 1] /\ DOMAIN SubLine = 1..(Len(argv) - idx) /\ 1 \in DOMAIN SubLine
  <2> DEFINE n == Len(argv) - idx
             s == SubLine
  <2>1. n \in Nat \ {0} /\ s = [k \in 1..n |-> argv[idx + k]]
    BY <1>2, <1>5
  <2> HIDE DEF n, s
  <2>2. DOMAIN s = 1..n /\ 1 \in DOMAIN s /\ s[1] = argv[idx + 1]
    BY <2>1
  <2>. QED  BY <2>2 DEF n, s
<1>8. SubLine # <<>>
  <2>1. 1 \notin DOMAIN << >>
    OBVIOUS
  <2>. QED  BY <1>7, <2>1, Zenon
<1>9. \A k \in DOMAIN SubLine : ~Dashed(SubLine[k])
  <2> DEFINE n == idx
  <2>1. \A k \in 1..(Len(argv) - idx) : idx + k \in DOMAIN argv
    BY <1>2, <1>5
  <2>2. \A k \in 1..(Len(argv) - idx) : SubLine[k] = argv[idx + k]
    BY <1>5
  <2>. QED  BY <1>2, <1>7, <2>1, <2>2
<1>. QED  BY <1>1, <1>5, <1>6, <1>7, <1>8, <1>9 DEF Command

-------------------------------------------------------------------------------
\* The numbers of raw.

LEMMA NumberIs ==
  ASSUME NEW arg, Strtol(arg).ok
  PROVE  Strtol(arg).n.lo \in Int /\ Strtol(arg).n.hi \in Int
<1> DEFINE signed == arg # <<>> /\ Head(arg) \in {"-", "+"}
           digits == IF signed THEN Tail(arg) ELSE arg
           n      == Numeral[Head(digits)]
           v      == IF signed /\ Head(arg) = "-" THEN Neg(n) ELSE n
<1>1. /\ Strtol(arg) = IF digits = <<>> \/ Head(digits) \notin DOMAIN Numeral THEN NoNumber
                       ELSE [ok |-> TRUE, n |-> v, rest |-> Tail(digits)]
  BY DEF Strtol
<1> HIDE DEF v
<1>2. NoNumber.ok = FALSE
  BY DEF NoNumber
<1>3. ~(digits = <<>> \/ Head(digits) \notin DOMAIN Numeral)
  BY <1>1, <1>2, Zenon
<1> DEFINE rest == Tail(digits)
<1>4. Strtol(arg) = [ok |-> TRUE, n |-> v, rest |-> rest]
  BY <1>1, <1>3, Zenon
<1>5. Head(digits) \in DOMAIN Numeral
  BY <1>3
<1>6. n.hi \in Int /\ n.lo \in Int
  <2> HIDE DEF digits
  <2>. QED  BY <1>5, ArgTableAssumption
<1>7. v.lo \in Int /\ v.hi \in Int
  <2> HIDE DEF n, signed
  <2>1. Neg(n).lo = -n.lo /\ Neg(n).hi = -n.hi
    BY DEF Neg
  <2>. QED  BY <1>6, <2>1 DEF v
<1> HIDE DEF rest
<1>8. Strtol(arg).n = v
  BY <1>4
<1>. QED  BY <1>7, <1>8

\* An argument is one of its entry's kind.
Fine(s) == s.error = ""

LEMMA RefusedIs ==
  /\ ~Fine(Refused("BADINT")) /\ ~Fine(Refused("OVERFLOW")) /\ ~Fine(Refused("NOTENOUGH"))
  /\ ~Fine(Refused("TOOMANY")) /\ ~Fine(Refused("value")) /\ ~Fine(Refused("help"))
BY DEF Refused, Fine

LEMMA ScannedValue ==
  ASSUME NEW v
  PROVE  Scanned(v).value = v
<1> SUFFICES ASSUME NEW er PROVE [error |-> er, value |-> v].value = v
  BY DEF Scanned
<1>. QED  OBVIOUS

LEMMA FactorIs ==
  ASSUME NEW suffix
  PROVE  Factor(suffix) \in Int
BY SMT DEF Factor

LEMMA IntScanned ==
  ASSUME NEW arg, Fine(ScanInt(arg))
  PROVE  ScanInt(arg).value \in Int
<1> DEFINE s == Strtol(arg)
           f == Factor(s.rest)
<1>1. ScanInt(arg) = IF ~s.ok \/ f = 0 THEN Refused("BADINT")
                     ELSE IF s.n.hi # 0 \/ s.n.lo \notin -(INT_MAX \div f) - 1 .. INT_MAX \div f
                          THEN Refused("OVERFLOW")
                     ELSE Scanned(s.n.lo * f)
  BY DEF ScanInt
<1>2. s.ok => s.n.lo \in Int
  BY NumberIs
<1>3. f \in Int
  BY FactorIs
<1> HIDE DEF s, f
<1>4. ~Fine(Refused("BADINT")) /\ ~Fine(Refused("OVERFLOW"))
  BY RefusedIs
<1>5. s.ok /\ ScanInt(arg) = Scanned(s.n.lo * f)
  BY <1>1, <1>4, Zenon
<1>6. s.n.lo * f \in Int
  <2>0. \A a, b \in Int : a * b \in Int
    OBVIOUS
  <2>1. s.n.lo \in Int
    BY <1>2, <1>5
  <2>. QED  BY <1>3, <2>0, <2>1
<1>. QED  BY <1>5, <1>6, ScannedValue

LEMMA SyllablesAt ==
  ASSUME NEW arg \in Args, NEW c
  PROVE  Cardinality({i \in DOMAIN arg : arg[i] = c}) \in Nat
<1> DEFINE is == {i \in 1..Len(arg) : arg[i] = c}
<1>1. Len(arg) \in Nat /\ DOMAIN arg = 1..Len(arg)
  BY DEF Args
<1>2. IsFiniteSet(1..Len(arg))
  BY <1>1, FS_Interval
<1>3. IsFiniteSet(is)
  BY <1>2, FS_Subset
<1>4. Cardinality(is) \in Nat
  <2> HIDE DEF is
  <2>. QED  BY <1>3, FS_CardinalityType
<1>. QED  BY <1>1, <1>4

LEMMA CsiScanned ==
  ASSUME NEW n \in Nat, NEW arg \in Args, Fine(ScanCsi(n, arg))
  PROVE  ScanCsi(n, arg).value \in [1..n -> Int]
<1> DEFINE commas    == {i \in DOMAIN arg : arg[i] = ","}
           comma(k)  == CHOOSE i \in commas : Cardinality({j \in commas : j <= i}) = k
           start(k)  == IF k = 1 THEN 1 ELSE comma(k - 1) + 1
           number(k) == Strtol(SubSeq(arg, start(k), Len(arg)))
           count     == Cardinality(commas) + 1
           value     == [k \in 1..n |-> number(k).n.lo]
           bad       == \E k \in 1..n : ~number(k).ok \/ number(k).n.hi # 0
<1>1. ScanCsi(n, arg) = CASE count < n -> Refused("NOTENOUGH")
                          [] count > n -> Refused("TOOMANY")
                          [] count = n -> IF bad THEN Refused("BADINT") ELSE Scanned(value)
  BY DEF ScanCsi
<1>2. count \in Nat
  <2>1. Cardinality(commas) \in Nat
    BY SyllablesAt
  <2> HIDE DEF commas
  <2>. QED  BY <2>1
<1> HIDE DEF count, bad
<1>3. ~Fine(Refused("NOTENOUGH")) /\ ~Fine(Refused("TOOMANY")) /\ ~Fine(Refused("BADINT"))
  BY RefusedIs
<1>4. ScanCsi(n, arg) = IF bad THEN Refused("BADINT") ELSE Scanned(value)
  <2> HIDE DEF value
  <2>1. count < n \/ count > n \/ count = n
    BY <1>2
  <2>2. ~(count < n) /\ ~(count > n)
    BY <1>1, <1>2, <1>3
  <2>. QED  BY <1>1, <2>1, <2>2
<1>5. ~bad /\ ScanCsi(n, arg) = Scanned(value)
  <2> HIDE DEF value
  <2>. QED  BY <1>3, <1>4, Zenon
<1>6. \A k \in 1..n : number(k).ok
  BY <1>5 DEF bad
<1>7. \A k \in 1..n : number(k).n.lo \in Int
  <2> HIDE DEF start
  <2>. QED  BY <1>6, NumberIs
<1>8. value \in [1..n -> Int]
  <2> HIDE DEF number
  <2>. QED  BY <1>7
<1> HIDE DEF value
<1>. QED  BY <1>5, <1>8, ScannedValue

LEMMA OneElement ==
  ASSUME NEW vs \in Seq(Args), Len(vs) = 1
  PROVE  1 \in DOMAIN vs /\ vs[1] \in Args
OBVIOUS

LEMMA OneFunction ==
  ASSUME NEW h, h = [k \in 1..1 |-> h[k]]
  PROVE  h = <<h[1]>>
OBVIOUS

LEMMA OneValue ==
  ASSUME NEW vs \in Seq(Args), Len(vs) \in 0..1, NEW h, h = [k \in DOMAIN vs |-> h[k]]
  PROVE  /\ Len(vs) = 0 => h = <<>>
         /\ Len(vs) = 1 => h = <<h[1]>> /\ 1 \in DOMAIN vs /\ vs[1] \in Args
<1>1. Len(vs) = 0 => h = <<>>
  <2>1. SUFFICES ASSUME Len(vs) = 0 PROVE h = <<>>
    OBVIOUS
  <2>2. vs = <<>>
    BY <2>1
  <2>3. h = [k \in DOMAIN << >> |-> h[k]]
    BY <2>2
  <2>. QED  BY <2>3
<1>2. Len(vs) = 1 => h = <<h[1]>> /\ 1 \in DOMAIN vs /\ vs[1] \in Args
  <2>1. SUFFICES ASSUME Len(vs) = 1 PROVE h = <<h[1]>> /\ 1 \in DOMAIN vs /\ vs[1] \in Args
    OBVIOUS
  <2>2. DOMAIN vs = 1..1
    <3>1. DOMAIN vs = 1..Len(vs)
      OBVIOUS
    <3>. QED  BY <2>1, <3>1
  <2>3. h = [k \in 1..1 |-> h[k]]
    BY <2>2, Zenon
  <2>. QED  BY <2>1, <2>3, OneElement, OneFunction
<1>. QED  BY <1>1, <1>2

\* The value of an entry is that of one argument.
LEMMA ValueFrom ==
  ASSUME NEW tbl, Sound(tbl), NEW args \in Seq(Args), args # <<>>, Right(tbl, args),
         NEW g, g = ValuesOf(tbl, args), NEW i \in DOMAIN tbl, g[i] # <<>> \/ Untagged(tbl[i])
  PROVE  \E arg \in Args : Fine(Scan(tbl[i], 0, arg)) /\ g[i] = <<Scan(tbl[i], 0, arg).value>>
<1> DEFINE m == Meaning(tbl, args)
           vs == ArgsOf(tbl, m)[i]
<1>1. Reads(tbl, m)
  <2>1. Len(args) - 1 \in 0..(Len(args) - 1)
    OBVIOUS
  <2>. QED  BY <2>1, ReadingsRead DEF Meaning, MeaningBut
<1>2. /\ Len(vs) \in tbl[i].min..tbl[i].max
      /\ \A k \in DOMAIN vs : Fine(Scan(tbl[i], 0, vs[k]))
  BY Zenon DEF Right, Fine
<1>3. tbl[i].max = 1 /\ tbl[i].min = IF Untagged(tbl[i]) THEN 1 ELSE 0
  BY DEF Sound
<1>4. g[i] = [k \in DOMAIN vs |-> Scan(tbl[i], 0, vs[k]).value]
  BY DEF ValuesOf
<1>5. vs \in Seq(Args)
  <2>1. CASE Untagged(tbl[i])
    <3> DEFINE w == WordsFor(tbl, m.words)
    <3>1. vs = <<w[Words(tbl, i)]>>
      BY <2>1 DEF ArgsOf
    <3>2. Len(w) = Words(tbl, Len(tbl))
      BY DEF Right
    <3>3. w \in Seq(Args)
      <4>1. m.words \in Seq(Args)
        BY <1>1 DEF Reads
      <4> HIDE DEF m
      <4>2. m.words # <<>> => <<Head(m.words)>> \in Seq(Args)
        BY <4>1
      <4>. QED  BY <4>1, <4>2 DEF WordsFor
    <3>4. Words(tbl, i) \in Nat \ {0} /\ Words(tbl, i) <= Words(tbl, Len(tbl))
      <4>1. i \in Nat \ {0} /\ Len(tbl) \in Nat /\ i \in 0..Len(tbl)
        BY DEF Sound
      <4>. QED  BY <2>1, <4>1, WordsAt, WordsGrow
    <3> HIDE DEF w
    <3>5. w[Words(tbl, i)] \in Args
      BY <3>2, <3>3, <3>4
    <3>. QED  BY <3>1, <3>5
  <2>2. CASE ~Untagged(tbl[i])
    <3>1. vs = m.args[i]
      BY <2>2 DEF ArgsOf
    <3>. QED  BY <1>1, <3>1 DEF Reads
  <2>. QED  BY <2>1, <2>2
<1> DEFINE v(k) == Scan(tbl[i], 0, vs[k])
<1> HIDE DEF vs
<1>6. Len(vs) \in 0..1
  <2> DEFINE min == tbl[i].min
             max == tbl[i].max
             n   == Len(vs)
  <2>1. max = 1 /\ min \in {0, 1} /\ n \in min..max
    BY <1>2, <1>3
  <2> HIDE DEF min, max, n
  <2>2. n \in 0..1 \cup 1..1
    <3>1. CASE min = 0
      BY <2>1, <3>1
    <3>2. CASE min = 1
      BY <2>1, <3>2
    <3>. QED  BY <2>1, <3>1, <3>2
  <2>3. n \in 0..1
    BY <2>2
  <2>. QED  BY <2>3 DEF n
<1>7. g[i] = [k \in DOMAIN vs |-> v(k).value] /\ \A k \in DOMAIN vs : Fine(v(k))
  BY <1>2, <1>4
<1> HIDE DEF v
<1>8. g[i] = [k \in DOMAIN vs |-> g[i][k]] /\ \A k \in DOMAIN vs : g[i][k] = v(k).value
  BY <1>7
<1>9. Len(vs) = 1
  <2>1. Len(vs) = 0 => g[i] = <<>>
    BY <1>5, <1>6, <1>8, OneValue
  <2>2. CASE Untagged(tbl[i])
    <3>1. tbl[i].max = 1 /\ tbl[i].min = 1
      BY <1>3, <2>2, Zenon
    <3>2. Len(vs) \in 1..1
      BY <1>2, <3>1, Zenon
    <3>. QED  BY <3>2
  <2>3. CASE g[i] # <<>>
    BY <1>6, <2>1, <2>3
  <2>. QED  BY <2>2, <2>3
<1>10. g[i] = <<g[i][1]>> /\ 1 \in DOMAIN vs /\ vs[1] \in Args
  BY <1>5, <1>6, <1>8, <1>9, OneValue
<1>11. g[i] = <<v(1).value>> /\ Fine(v(1))
  BY <1>7, <1>8, <1>10
<1>. QED  BY <1>10, <1>11 DEF v

\* What raw finds in its table.
RawTyped(g) ==
  /\ g[9][1] \in Int
  /\ \A i \in {2, 4, 6} : Given(g, i) => g[i][1] \in [1..2 -> Int]
  /\ Given(g, 7) => g[7][1] \in [1..3 -> Int]
  /\ Given(g, 5) => g[5][1] \in Int

LEMMA CsiValue ==
  ASSUME NEW e, NEW n \in Nat, e.kind = "csi", e.n = n, e.max = 1, NEW arg \in Args, Fine(Scan(e, 0, arg))
  PROVE  Scan(e, 0, arg).value \in [1..n -> Int]
<1>1. Scan(e, 0, arg) = ScanCsi(n, arg)
  BY DEF Scan
<1>. QED  BY <1>1, CsiScanned

LEMMA IntValue ==
  ASSUME NEW e, e.kind = "int", e.max = 1, NEW arg, Fine(Scan(e, 0, arg))
  PROVE  Scan(e, 0, arg).value \in Int
<1>1. Scan(e, 0, arg) = ScanInt(arg)
  BY DEF Scan
<1>. QED  BY <1>1, IntScanned

LEMMA CsiEntry ==
  ASSUME NEW short, NEW long, NEW n
  PROVE  /\ [Entry("csi", short, long, 0, 1) EXCEPT !.n = n].kind = "csi"
         /\ [Entry("csi", short, long, 0, 1) EXCEPT !.n = n].n = n
         /\ [Entry("csi", short, long, 0, 1) EXCEPT !.n = n].max = 1
BY DEF Entry

LEMMA IntEntry ==
  ASSUME NEW short, NEW long, NEW min
  PROVE  Entry("int", short, long, min, 1).kind = "int" /\ Entry("int", short, long, min, 1).max = 1
BY DEF Entry

LEMMA RawValues ==
  ASSUME NEW args \in Seq(Args), args # <<>>, Right(RawTable, args), NEW g, g = ValuesOf(RawTable, args)
  PROVE  RawTyped(g)
<1>1. DOMAIN RawTable = 1..9
  BY RawEntries, Zenon
<1>2. /\ RawTable[2].kind = "csi" /\ RawTable[2].n = 2 /\ RawTable[2].max = 1
      /\ RawTable[4].kind = "csi" /\ RawTable[4].n = 2 /\ RawTable[4].max = 1
      /\ RawTable[6].kind = "csi" /\ RawTable[6].n = 2 /\ RawTable[6].max = 1
      /\ RawTable[7].kind = "csi" /\ RawTable[7].n = 3 /\ RawTable[7].max = 1
  <2>1. RawTable[2].kind = "csi" /\ RawTable[2].n = 2 /\ RawTable[2].max = 1
    <3> DEFINE e == [Entry("csi", "s", <<"s", "lot_def">>, 0, 1) EXCEPT !.n = 2]
    <3>1. e.kind = "csi" /\ e.n = 2 /\ e.max = 1
      BY CsiEntry
    <3>2. RawTable[2] = e
      BY RawEntries, Zenon
    <3> HIDE DEF e
    <3>. QED  BY <3>1, <3>2
  <2>2. RawTable[4].kind = "csi" /\ RawTable[4].n = 2 /\ RawTable[4].max = 1
    <3> DEFINE e == [Entry("csi", "a", <<"aid_group">>, 0, 1) EXCEPT !.n = 2]
    <3>1. e.kind = "csi" /\ e.n = 2 /\ e.max = 1
      BY CsiEntry
    <3>2. RawTable[4] = e
      BY RawEntries, Zenon
    <3> HIDE DEF e
    <3>. QED  BY <3>1, <3>2
  <2>3. RawTable[6].kind = "csi" /\ RawTable[6].n = 2 /\ RawTable[6].max = 1
    <3> DEFINE e == [Entry("csi", "b", <<"bcn_spread">>, 0, 1) EXCEPT !.n = 2]
    <3>1. e.kind = "csi" /\ e.n = 2 /\ e.max = 1
      BY CsiEntry
    <3>2. RawTable[6] = e
      BY RawEntries, Zenon
    <3> HIDE DEF e
    <3>. QED  BY <3>1, <3>2
  <2>4. RawTable[7].kind = "csi" /\ RawTable[7].n = 3 /\ RawTable[7].max = 1
    <3> DEFINE e == [Entry("csi", "p", <<"praw">>, 0, 1) EXCEPT !.n = 3]
    <3>1. e.kind = "csi" /\ e.n = 3 /\ e.max = 1
      BY CsiEntry
    <3>2. RawTable[7] = e
      BY RawEntries, Zenon
    <3> HIDE DEF e
    <3>. QED  BY <3>1, <3>2
  <2>. QED  BY <2>1, <2>2, <2>3, <2>4
<1>3. /\ RawTable[5].kind = "int" /\ RawTable[5].max = 1
      /\ RawTable[9].kind = "int" /\ RawTable[9].max = 1
  <2> DEFINE e5 == Entry("int", "t", <<"s", "tart_time">>, 0, 1)
             e9 == Entry("int", "", <<>>, 1, 1)
  <2>1. e5.kind = "int" /\ e5.max = 1
    BY IntEntry
  <2>3. e9.kind = "int" /\ e9.max = 1
    BY Zenon DEF Entry
  <2>2. RawTable[5] = e5 /\ RawTable[9] = e9
    BY RawEntries, Zenon
  <2> HIDE DEF e5, e9
  <2>. QED  BY <2>1, <2>2, <2>3
<1>4. Untagged(RawTable[9])
  <2>1. EntryOf(Entry("int", "", <<>>, 1, 1), "int", "", <<>>, 1, 1, FALSE)
    BY EntryIs, Zenon
  <2>2. EntryOf(RawTable[9], "int", "", <<>>, 1, 1, FALSE)
    BY <2>1, RawEntries, Zenon
  <2>. QED  BY <2>2, WordEntryIs, Zenon DEF IsWord
<1>5. \A i \in 1..9 : Given(g, i) \/ i = 9 =>
        \E arg \in Args : Fine(Scan(RawTable[i], 0, arg)) /\ g[i][1] = Scan(RawTable[i], 0, arg).value
  BY <1>1, <1>4, RawSound, ValueFrom DEF Given
<1>6. \A i \in {2, 4, 6} : Given(g, i) => g[i][1] \in [1..2 -> Int]
  <2>1. SUFFICES ASSUME NEW i \in {2, 4, 6}, Given(g, i) PROVE g[i][1] \in [1..2 -> Int]
    OBVIOUS
  <2>2. PICK arg \in Args : Fine(Scan(RawTable[i], 0, arg)) /\ g[i][1] = Scan(RawTable[i], 0, arg).value
    BY <1>5, <2>1
  <2>3. RawTable[i].kind = "csi" /\ RawTable[i].n = 2 /\ RawTable[i].max = 1
    BY <1>2, <2>1
  <2>. QED  BY <2>2, <2>3, CsiValue
<1>7. Given(g, 7) => g[7][1] \in [1..3 -> Int]
  <2>1. SUFFICES ASSUME Given(g, 7) PROVE g[7][1] \in [1..3 -> Int]
    OBVIOUS
  <2>2. PICK arg \in Args : Fine(Scan(RawTable[7], 0, arg)) /\ g[7][1] = Scan(RawTable[7], 0, arg).value
    BY <1>5, <2>1
  <2>. QED  BY <1>2, <2>2, CsiValue
<1>8. \A i \in {5, 9} : Given(g, i) \/ i = 9 => g[i][1] \in Int
  <2>1. SUFFICES ASSUME NEW i \in {5, 9}, Given(g, i) \/ i = 9 PROVE g[i][1] \in Int
    OBVIOUS
  <2>2. PICK arg \in Args : Fine(Scan(RawTable[i], 0, arg)) /\ g[i][1] = Scan(RawTable[i], 0, arg).value
    BY <1>5, <2>1
  <2>. QED  BY <1>3, <2>2, IntValue
<1>. QED  BY <1>6, <1>7, <1>8 DEF RawTyped

-------------------------------------------------------------------------------
\* What raw sends.

LEMMA SendsIs ==
  ASSUME NEW vs
  PROVE  Sends(vs).ok /\ Sends(vs).values = vs /\ ~Bad.ok
BY DEF Sends, Bad

\* Two or three numbers.
IsPair(v)   == \E a, b \in Int : v = <<a, b>>
IsTriple(v) == \E a, b, c \in Int : v = <<a, b, c>>

LEMMA Pair ==
  ASSUME NEW v \in [1..2 -> Int]
  PROVE  IsPair(v)
<1>1. v[1] \in Int /\ v[2] \in Int
  OBVIOUS
<1>2. v = <<v[1], v[2]>>
  OBVIOUS
<1>. QED  BY <1>1, <1>2, Zenon DEF IsPair

LEMMA Triple ==
  ASSUME NEW v \in [1..3 -> Int]
  PROVE  IsTriple(v)
<1>1. v[1] \in Int /\ v[2] \in Int /\ v[3] \in Int
  OBVIOUS
<1>2. v = <<v[1], v[2], v[3]>>
  OBVIOUS
<1>. QED  BY <1>1, <1>2, Zenon DEF IsTriple

LEMMA PairAnd ==
  ASSUME NEW a, NEW b, NEW c
  PROVE  <<a, b, c>> = <<a, b>> \o <<c>>
OBVIOUS

LEMMA TripleAnd ==
  ASSUME NEW a, NEW b, NEW c, NEW d
  PROVE  <<a, b, c, d>> = <<a, b, c>> \o <<d>>
OBVIOUS

LEMMA FitsField ==
  /\ \A n \in Field8 : U8(n) = n
  /\ \A n \in Field16 : U16(n) = n
BY SMT DEF U8, U16, Field8, Field16

LEMMA SlotDefIs ==
  ASSUME NEW v, IsPair(v), NEW cross, SlotDef(v, cross).ok, v[2] \in Field8
  PROVE  SlotDef(v, cross).values = v \o <<cross>>
<1>1. PICK a, b \in Int : v = <<a, b>>
  BY Zenon DEF IsPair
<1>2. <<a, b>>[1] = a /\ <<a, b>>[2] = b
  OBVIOUS
<1>3. v[1] = a /\ v[2] = b
  BY <1>1, <1>2, Zenon
<1> DEFINE slots == U8(v[2])
           cond  == slots \in 1..63 /\ ~Exceeds(v[1], slots * 410099) /\ v[1] >= slots * 500
           vs    == <<v[1], slots, cross>>
<1>4. SlotDef(v, cross) = IF cond THEN Sends(vs) ELSE Bad
  BY SMT DEF SlotDef
<1>5. vs = v \o <<cross>>
  <2>1. U8(v[2]) = b
    BY <1>3, FitsField, Zenon
  <2>2. vs = <<a, b, cross>>
    BY <1>3, <2>1, Zenon
  <2>3. <<a, b, cross>> = <<a, b>> \o <<cross>>
    BY PairAnd
  <2>. QED  BY <1>1, <2>2, <2>3, Zenon
<1> HIDE DEF cond, vs
<1>6. SlotDef(v, cross).values = vs
  BY <1>4, SendsIs, Zenon
<1>. QED  BY <1>5, <1>6, Zenon

LEMMA AidGroupIs ==
  ASSUME NEW v, IsPair(v), AidGroup(v).ok, v[1] \in Field16, v[2] \in Field16
  PROVE  AidGroup(v).values = v
<1>1. PICK a, b \in Int : v = <<a, b>>
  BY Zenon DEF IsPair
<1>2. <<a, b>>[1] = a /\ <<a, b>>[2] = b
  OBVIOUS
<1>3. v[1] = a /\ v[2] = b
  BY <1>1, <1>2, Zenon
<1> DEFINE from == U16(v[1])
           to   == U16(v[2])
           cond == from <= to /\ from >= 1 /\ to <= 2007
           vs   == <<from, to>>
<1>4. AidGroup(v) = IF cond THEN Sends(vs) ELSE Bad
  BY SMT DEF AidGroup
<1>5. vs = v
  BY <1>1, <1>3, FitsField, Zenon
<1> HIDE DEF cond, vs
<1>6. AidGroup(v).values = vs
  BY <1>4, SendsIs, Zenon
<1>. QED  BY <1>5, <1>6, Zenon

LEMMA BcnSpreadIs ==
  ASSUME NEW v, IsPair(v), v[1] \in Field16, v[2] \in Field16
  PROVE  BcnSpread(v).values = v
<1>1. PICK a, b \in Int : v = <<a, b>>
  BY Zenon DEF IsPair
<1>2. <<a, b>>[1] = a /\ <<a, b>>[2] = b
  OBVIOUS
<1>3. <<U16(v[1]), U16(v[2])>> = v
  BY <1>1, <1>2, FitsField, Zenon
<1>4. BcnSpread(v) = Sends(v)
  BY <1>3, Zenon DEF BcnSpread
<1>. QED  BY <1>4, SendsIs, Zenon

LEMMA StartTimeIs ==
  ASSUME NEW v, StartTime(v).ok
  PROVE  StartTime(v).values = <<v>>
<1> DEFINE cond == Exceeds(v, 255 * 2 * 1024)
           vs   == <<v>>
<1>1. StartTime(v) = IF cond THEN Bad ELSE Sends(vs)
  BY SMT DEF StartTime
<1> HIDE DEF cond, vs
<1>2. StartTime(v).values = vs
  BY <1>1, SendsIs, Zenon
<1>. QED  BY <1>2, Zenon DEF vs

LEMMA PrawIs ==
  ASSUME NEW v, IsTriple(v), Praw(v).ok, v[2] = -1 \/ v[2] \in Field8
  PROVE  /\ v[2] # -1 => Praw(v).values = v \o <<0>>
         /\ v[2] = -1 => Praw(v).values = <<v[1], 255, v[3], 1>>
<1>1. PICK a, b, c \in Int : v = <<a, b, c>>
  BY Zenon DEF IsTriple
<1>2. <<a, b, c>>[1] = a /\ <<a, b, c>>[2] = b /\ <<a, b, c>>[3] = c
  OBVIOUS
<1>3. v[1] = a /\ v[2] = b /\ v[3] = c
  BY <1>1, <1>2, Zenon
<1> DEFINE cond == \/ v[1] \notin 1..255
                   \/ v[2] # -1 /\ (v[2] > 255 \/ v[1] < 1)
                   \/ v[3] \notin 0..255 \/ v[3] >= v[1]
           vs   == <<v[1], IF v[2] = -1 THEN 255 ELSE U8(v[2]), v[3], IF v[2] = -1 THEN 1 ELSE 0>>
<1>4. Praw(v) = IF cond THEN Bad ELSE Sends(vs)
  BY SMT DEF Praw
<1>5. v[2] # -1 => vs = v \o <<0>>
  <2>1. SUFFICES ASSUME v[2] # -1 PROVE vs = v \o <<0>>
    OBVIOUS
  <2>2. U8(v[2]) = b
    BY <1>3, <2>1, FitsField, Zenon
  <2>3. vs = <<a, b, c, 0>>
    BY <1>3, <2>1, <2>2, Zenon
  <2>4. <<a, b, c, 0>> = <<a, b, c>> \o <<0>>
    BY TripleAnd
  <2>. QED  BY <1>1, <2>3, <2>4, Zenon
<1>6. v[2] = -1 => vs = <<v[1], 255, v[3], 1>>
  BY Zenon
<1> HIDE DEF cond, vs
<1>7. Praw(v).values = vs
  BY <1>4, SendsIs, Zenon
<1>. QED  BY <1>5, <1>6, <1>7, Zenon

\* The options, each by its tag.
LEMMA RawOptionsAre ==
  ASSUME NEW g
  PROVE  /\ Given(g, 2) => /\ "SLOT_DEF" \in DOMAIN RawOptions(g)
                           /\ RawOptions(g)["SLOT_DEF"] = SlotDef(g[2][1], Len(g[3]))
         /\ Given(g, 4) => /\ "GROUP" \in DOMAIN RawOptions(g)
                           /\ RawOptions(g)["GROUP"] = AidGroup(g[4][1])
         /\ Given(g, 5) => /\ "START_TIME" \in DOMAIN RawOptions(g)
                           /\ RawOptions(g)["START_TIME"] = StartTime(g[5][1])
         /\ Given(g, 7) => /\ "PRAW" \in DOMAIN RawOptions(g)
                           /\ RawOptions(g)["PRAW"] = Praw(g[7][1])
         /\ Given(g, 6) => /\ "BCN_SPREAD" \in DOMAIN RawOptions(g)
                           /\ RawOptions(g)["BCN_SPREAD"] = BcnSpread(g[6][1])
BY DEF RawOptions

LEMMA Typed ==
  ASSUME NEW g, RawTyped(g)
  PROVE  /\ \A i \in {2, 4, 6} : Given(g, i) => IsPair(g[i][1])
         /\ Given(g, 7) => IsTriple(g[7][1])
BY Pair, Triple, Zenon DEF RawTyped

LEMMA FieldsFit ==
  ASSUME NEW g, RawFits(g)
  PROVE  /\ g[9][1] \in Field16
         /\ Given(g, 4) => g[4][1][1] \in Field16 /\ g[4][1][2] \in Field16
         /\ Given(g, 6) => g[6][1][1] \in Field16 /\ g[6][1][2] \in Field16
         /\ Given(g, 2) => g[2][1][2] \in Field8
         /\ Given(g, 7) => g[7][1][2] = -1 \/ g[7][1][2] \in Field8
BY DEF RawFits

LEMMA RawSent ==
  ASSUME NEW g, RawTyped(g), RawCommand(g) # NoCommand, Len(g[3]) \in Int
  PROVE  /\ RawCommand(g).command = "raw"
         /\ RawFits(g) => RawAsTyped(RawCommand(g), g)
<1> DEFINE id   == g[9][1]
           what == g[8][1]
           opts == IF what = <<"delete">> THEN ClearedRoom ELSE RawOptions(g)
           tags == DOMAIN opts
           up   == what # <<"delete">> /\ tags # {}
           bad  == \/ id > 65535
                   \/ \E t \in tags : ~opts[t].ok
                   \/ {"PRAW", "BCN_SPREAD"} \subseteq tags
                   \/ up /\ U16(id) = 0
           out  == [t \in tags |-> opts[t].values]
<1>1. RawCommand(g) =
        IF bad THEN NoCommand
        ELSE [command |-> "raw", id |-> U16(id), what |-> what, update |-> up, options |-> out]
  BY SMT DEF RawCommand
<1>2. /\ RawCommand(g) = [command |-> "raw", id |-> U16(id), what |-> what, update |-> up, options |-> out]
      /\ ~bad
  <2> HIDE DEF bad, out, up, what, id
  <2>. QED  BY <1>1, Zenon
<1> DEFINE c == RawCommand(g)
<1>3. /\ c.command = "raw" /\ c.id = U16(id) /\ c.what = what /\ c.update = up
      /\ c.options = out
  <2> HIDE DEF bad, out, up, what, id
  <2>. QED  BY <1>2
<1>4. \A t \in tags : opts[t].ok
  BY <1>2
<1> HIDE DEF c, bad
<1>5. RawFits(g) => RawAsTyped(c, g)
  <2>1. SUFFICES ASSUME RawFits(g) PROVE RawAsTyped(c, g)
    OBVIOUS
  <2>2. c.id = g[9][1] /\ c.what = g[8][1]
    <3>1. U16(g[9][1]) = g[9][1]
      BY <2>1, FieldsFit, FitsField, Zenon
    <3>. QED  BY <1>3, <3>1, Zenon
  <2>3. CASE what = <<"delete">>
    <3>1. opts = ClearedRoom
      BY <2>3
    <3>2. out = [t \in {"SLOT_DEF"} |-> <<0, 0, 0>>]
      BY <3>1 DEF ClearedRoom, Sends
    <3>3. c.options = [t \in {"SLOT_DEF"} |-> <<0, 0, 0>>]
      BY <1>3, <3>2, Zenon
    <3>4. ~c.update
      BY <1>3, <2>3, Zenon
    <3>5. \A t \in DOMAIN c.options : \A k \in DOMAIN c.options[t] : c.options[t][k] = 0
      <4>1. \A k \in DOMAIN <<0, 0, 0>> : <<0, 0, 0>>[k] = 0
        OBVIOUS
      <4>. QED  BY <3>3, <4>1
    <3>. QED  BY <2>2, <2>3, <3>4, <3>5, Zenon DEF RawAsTyped
  <2>4. CASE what # <<"delete">>
    <3> DEFINE o == RawOptions(g)
    <3>1. opts = o
      BY <2>4
    <3>2. DOMAIN c.options = DOMAIN o /\ \A t \in DOMAIN o : o[t].ok /\ c.options[t] = o[t].values
      <4> HIDE DEF opts, o
      <4>. QED  BY <1>3, <1>4, <3>1
    <3>3. Given(g, 2) => c.options["SLOT_DEF"] = g[2][1] \o <<Len(g[3])>>
      <4>1. SUFFICES ASSUME Given(g, 2) PROVE c.options["SLOT_DEF"] = g[2][1] \o <<Len(g[3])>>
        OBVIOUS
      <4>2. IsPair(g[2][1]) /\ g[2][1][2] \in Field8
        BY <2>1, <4>1, Typed, FieldsFit, Zenon
      <4>3. "SLOT_DEF" \in DOMAIN o /\ o["SLOT_DEF"] = SlotDef(g[2][1], Len(g[3]))
        BY <4>1, RawOptionsAre
      <4> HIDE DEF o
      <4>4. SlotDef(g[2][1], Len(g[3])).ok /\ c.options["SLOT_DEF"] = SlotDef(g[2][1], Len(g[3])).values
        BY <3>2, <4>3
      <4>. QED  BY <4>2, <4>4, SlotDefIs, Zenon
    <3>4. Given(g, 4) => c.options["GROUP"] = g[4][1]
      <4>1. SUFFICES ASSUME Given(g, 4) PROVE c.options["GROUP"] = g[4][1]
        OBVIOUS
      <4>2. IsPair(g[4][1]) /\ g[4][1][1] \in Field16 /\ g[4][1][2] \in Field16
        BY <2>1, <4>1, Typed, FieldsFit, Zenon
      <4>3. "GROUP" \in DOMAIN o /\ o["GROUP"] = AidGroup(g[4][1])
        BY <4>1, RawOptionsAre
      <4> HIDE DEF o
      <4>4. AidGroup(g[4][1]).ok /\ c.options["GROUP"] = AidGroup(g[4][1]).values
        BY <3>2, <4>3
      <4>. QED  BY <4>2, <4>4, AidGroupIs, Zenon
    <3>5. Given(g, 5) => c.options["START_TIME"] = <<g[5][1]>>
      <4>1. SUFFICES ASSUME Given(g, 5) PROVE c.options["START_TIME"] = <<g[5][1]>>
        OBVIOUS
      <4>2. "START_TIME" \in DOMAIN o /\ o["START_TIME"] = StartTime(g[5][1])
        BY <4>1, RawOptionsAre
      <4> HIDE DEF o
      <4>3. StartTime(g[5][1]).ok /\ c.options["START_TIME"] = StartTime(g[5][1]).values
        BY <3>2, <4>2
      <4>. QED  BY <4>3, StartTimeIs
    <3>6. Given(g, 6) => c.options["BCN_SPREAD"] = g[6][1]
      <4>1. SUFFICES ASSUME Given(g, 6) PROVE c.options["BCN_SPREAD"] = g[6][1]
        OBVIOUS
      <4>2. IsPair(g[6][1]) /\ g[6][1][1] \in Field16 /\ g[6][1][2] \in Field16
        BY <2>1, <4>1, Typed, FieldsFit, Zenon
      <4>3. "BCN_SPREAD" \in DOMAIN o /\ o["BCN_SPREAD"] = BcnSpread(g[6][1])
        BY <4>1, RawOptionsAre
      <4> HIDE DEF o
      <4>4. c.options["BCN_SPREAD"] = BcnSpread(g[6][1]).values
        BY <3>2, <4>3
      <4>. QED  BY <4>2, <4>4, BcnSpreadIs, Zenon
    <3>7. /\ Given(g, 7) /\ g[7][1][2] # -1 => c.options["PRAW"] = g[7][1] \o <<0>>
          /\ Given(g, 7) /\ g[7][1][2] = -1 => c.options["PRAW"] = <<g[7][1][1], 255, g[7][1][3], 1>>
      <4>1. SUFFICES ASSUME Given(g, 7)
                     PROVE  /\ g[7][1][2] # -1 => c.options["PRAW"] = g[7][1] \o <<0>>
                            /\ g[7][1][2] = -1 => c.options["PRAW"] = <<g[7][1][1], 255, g[7][1][3], 1>>
        OBVIOUS
      <4>2. IsTriple(g[7][1]) /\ (g[7][1][2] = -1 \/ g[7][1][2] \in Field8)
        BY <2>1, <4>1, Typed, FieldsFit, Zenon
      <4>3. "PRAW" \in DOMAIN o /\ o["PRAW"] = Praw(g[7][1])
        BY <4>1, RawOptionsAre
      <4> HIDE DEF o
      <4>4. Praw(g[7][1]).ok /\ c.options["PRAW"] = Praw(g[7][1]).values
        BY <3>2, <4>3
      <4>. QED  BY <4>2, <4>4, PrawIs, Zenon
    <3>8. c.update = (DOMAIN c.options # {})
      BY <1>3, <2>4, <3>1, <3>2
    <3> HIDE DEF o
    <3>. QED  BY <1>3, <2>2, <2>4, <3>2, <3>3, <3>4, <3>5, <3>6, <3>7, <3>8, Zenon
              DEF RawAsTyped, o
  <2>. QED  BY <2>3, <2>4
<1>. QED  BY <1>3, <1>5 DEF c

-------------------------------------------------------------------------------
\* What set and get send, and what is sent at the end.

LEMMA MatchIs ==
  ASSUME NEW str, MatchStrToParam(str) # 0
  PROVE  /\ MatchStrToParam(str) \in DOMAIN params
         /\ IsPrefix(str, params[MatchStrToParam(str)].name)
<1> DEFINE is == {i \in DOMAIN params : IsPrefix(str, params[i].name)}
<1>1. MatchStrToParam(str) = IF is = {} THEN 0 ELSE CHOOSE i \in is : \A j \in is : i <= j
  BY DEF MatchStrToParam
<1>2. is \in SUBSET Nat
  <2>1. DOMAIN params = 1..7
    BY SMT DEF params
  <2>. QED  BY <2>1
<1>3. is # {}
  BY <1>1
<1>4. \E i \in is : \A j \in is : i <= j
  <2> HIDE DEF is
  <2>. QED  BY <1>2, <1>3, Smallest
<1>5. MatchStrToParam(str) \in is
  <2> HIDE DEF is
  <2>. QED  BY <1>1, <1>3, <1>4
<1>. QED  BY <1>5

LEMMA ParamTyped ==
  ASSUME NEW args, args[1] = <<"set">> \/ args[1] = <<"get">>, ParamCommand(args) # NoCommand
  PROVE  AsTyped(ParamCommand(args), args)
<1> SUFFICES ASSUME NEW c, c = ParamCommand(args) PROVE AsTyped(c, args)
  OBVIOUS
<1>8. c # NoCommand
  OBVIOUS
<1> DEFINE set == args[1] = <<"set">>
           i   == MatchStrToParam(args[2])
           bad == \/ (IF set THEN Len(args) < 3 ELSE Len(args) # 2)
                  \/ i = 0
                  \/ set /\ ~StrToRange(args[3], params[i].type, params[i].min)
           id  == params[i].id
           w   == WordOf(args[3])
           cs  == [command |-> "set", id |-> id, value |-> w]
           cg  == [command |-> "get", id |-> id]
           Named(j) == /\ params[j].id = c.id /\ IsPrefix(args[2], params[j].name)
                       /\ c.command = "set" /\ args[3] # <<>> =>
                            LET n == Strtol(args[3]).n
                            IN n.hi = 0 => n.lo = c.value
<1>1. c = IF bad THEN NoCommand ELSE IF set THEN cs ELSE cg
  BY SMT DEF ParamCommand
<1>2. i # 0 /\ c = IF set THEN cs ELSE cg
  <2>1. ~bad
    <3> HIDE DEF bad, cs, cg, set
    <3>. QED  BY <1>1, <1>8, Zenon
  <2>2. c = IF set THEN cs ELSE cg
    <3> HIDE DEF bad, cs, cg, set
    <3>. QED  BY <1>1, <2>1, Zenon
  <2>3. i # 0
    <3> HIDE DEF i
    <3>. QED  BY <2>1, Zenon
  <2>. QED  BY <2>2, <2>3, Zenon
<1>3. cs.command = "set" /\ cs.id = id /\ cs.value = w /\ cg.command = "get" /\ cg.id = id
  <2> HIDE DEF id, w
  <2>. QED  OBVIOUS
<1>4. i \in DOMAIN params /\ IsPrefix(args[2], params[i].name)
  <2>. QED  BY <1>2, MatchIs, Zenon
<1>5. args[3] # <<>> => w = Strtol(args[3]).n.lo
  BY Zenon DEF WordOf
<1> HIDE DEF i, cs, cg, w
<1>6. (c.command = "set" \/ c.command = "get") /\ args[1] = <<c.command>> /\ Named(i)
  <2>1. CASE set
    <3>1. c.command = "set" /\ c.id = id /\ c.value = w
      BY <1>2, <1>3, <2>1, Zenon
    <3>. QED  BY <1>4, <1>5, <2>1, <3>1, Zenon
  <2>2. CASE ~set
    <3>1. c.command = "get" /\ c.id = id /\ args[1] = <<"get">>
      BY <1>2, <1>3, <2>2, Zenon
    <3>2. c.command # "set"
      BY <3>1
    <3>. QED  BY <1>4, <3>1, <3>2, Zenon
  <2>. QED  BY <2>1, <2>2
<1>7. \E j \in DOMAIN params : Named(j)
  BY <1>4, <1>6, Zenon
<1>9. args[1] \notin GetoptCommands
  BY DEF GetoptCommands
<1>10. c.command # "get_duty_cycle" /\ c.command # "raw"
  BY <1>6
<1>11. args[1] = <<IF c.command = "get_duty_cycle" THEN "duty_cycle" ELSE c.command>>
  BY <1>6, <1>10, Zenon
<1>. QED  BY <1>7, <1>9, <1>10, <1>11, Zenon DEF AsTyped

\* What a process sends is judged by its line alone.
LEMMA SentNow ==
  ASSUME argv' = argv, NEW c, issued' = c,
         c # NoCommand /\ NoDashes => Right(MainTable, argv) /\ AsTyped(c, SubLine)
  PROVE  SentAsTyped'
<1>1. SubLine' = SubLine
  BY DEF SubLine
<1>2. NoDashes' <=> NoDashes
  BY DEF NoDashes
<1>. QED  BY <1>1, <1>2 DEF SentAsTyped

LEMMA NothingSent ==
  ASSUME argv' = argv, issued' = NoCommand
  PROVE  SentAsTyped'
BY DEF SentAsTyped

-------------------------------------------------------------------------------
\* The tables of the loops.

\* An option of a kind, by its letter.
Opt(e, kind, short) == IsTagged(e) /\ e.kind = kind /\ e.short = short

LEMMA OptIs ==
  ASSUME NEW kind, NEW short, short # "", NEW n
  PROVE  /\ Opt(Value(kind, short, n), kind, short)
         /\ Opt(Entry(kind, short, <<>>, 0, 1), kind, short)
<1>1. EntryOf(Value(kind, short, n), kind, short, <<>>, 0, 1, FALSE)
  BY EntryWith, Zenon DEF Value
<1>2. EntryOf(Entry(kind, short, <<>>, 0, 1), kind, short, <<>>, 0, 1, FALSE)
  BY EntryIs, Zenon
<1>. QED  BY <1>1, <1>2, TaggedIs, Zenon DEF Opt, EntryOf

LEMMA MpswTable ==
  /\ Len(MpswOptions) = 3 /\ DOMAIN MpswOptions = 1..3
  /\ Opt(MpswOptions[1], "bounds", "b") /\ Opt(MpswOptions[2], "word", "w")
  /\ Opt(MpswOptions[3], "expr", "e")
<1>1. /\ Len(MpswOptions) = 3 /\ DOMAIN MpswOptions = 1..3
      /\ MpswOptions[1] = Value("bounds", "b", 0) /\ MpswOptions[2] = Value("word", "w", 0)
      /\ MpswOptions[3] = Value("expr", "e", 0)
  BY DEF MpswOptions
<1>2. "b" # "" /\ "w" # "" /\ "e" # ""
  OBVIOUS
<1>. QED  BY <1>1, <1>2, OptIs, Zenon

LEMMA TwtTable ==
  /\ Len(TwtOptions) = 7 /\ DOMAIN TwtOptions = 1..7
  /\ Opt(TwtOptions[1], "range", "f") /\ Opt(TwtOptions[2], "uint64", "w")
  /\ Opt(TwtOptions[3], "range", "d") /\ Opt(TwtOptions[4], "uint64", "t")
  /\ Opt(TwtOptions[5], "range", "c") /\ Opt(TwtOptions[6], "word", "m")
  /\ Opt(TwtOptions[7], "range", "e")
<1> DEFINE d == 65280
<1> HIDE DEF d
<1>1. TwtOptions = <<Value("range", "f", 7), Value("uint64", "w", 0), Value("range", "d", d),
                     Value("uint64", "t", 0), Value("range", "c", 7), Value("word", "m", 0),
                     Value("range", "e", 31)>>
  BY SMT DEF TwtOptions, d
<1>2. /\ Len(TwtOptions) = 7 /\ DOMAIN TwtOptions = 1..7
      /\ TwtOptions[1] = Value("range", "f", 7) /\ TwtOptions[2] = Value("uint64", "w", 0)
      /\ TwtOptions[3] = Value("range", "d", d) /\ TwtOptions[4] = Value("uint64", "t", 0)
      /\ TwtOptions[5] = Value("range", "c", 7) /\ TwtOptions[6] = Value("word", "m", 0)
      /\ TwtOptions[7] = Value("range", "e", 31)
  BY <1>1
<1>3. /\ "f" # "" /\ "w" # "" /\ "d" # "" /\ "t" # "" /\ "c" # "" /\ "m" # "" /\ "e" # ""
  OBVIOUS
<1>. QED  BY <1>2, <1>3, OptIs, Zenon

LEMMA DutyCycleTable ==
  /\ Len(DutyCycleOptions) = 2 /\ DOMAIN DutyCycleOptions = 1..2
  /\ Opt(DutyCycleOptions[1], "range", "m") /\ Opt(DutyCycleOptions[2], "lit", "o")
<1>1. /\ Len(DutyCycleOptions) = 2 /\ DOMAIN DutyCycleOptions = 1..2
      /\ DutyCycleOptions[1] = Value("range", "m", 1)
      /\ DutyCycleOptions[2] = Entry("lit", "o", <<>>, 0, 1)
  BY DEF DutyCycleOptions, Lit
<1>2. "m" # "" /\ "o" # ""
  OBVIOUS
<1>. QED  BY <1>1, <1>2, OptIs, Zenon

LEMMA VendorIeTable ==
  /\ Len(VendorIeOptions) = 8 /\ DOMAIN VendorIeOptions = 1..8
  /\ Opt(VendorIeOptions[1], "element", "a") /\ Opt(VendorIeOptions[2], "oui", "o")
  /\ Opt(VendorIeOptions[3], "lit", "c") /\ Opt(VendorIeOptions[4], "lit", "r")
  /\ Opt(VendorIeOptions[5], "lit", "p") /\ Opt(VendorIeOptions[6], "lit", "s")
  /\ Opt(VendorIeOptions[7], "lit", "b") /\ Opt(VendorIeOptions[8], "help", "h")
<1>1. /\ Len(VendorIeOptions) = 8 /\ DOMAIN VendorIeOptions = 1..8
      /\ VendorIeOptions[1] = Value("element", "a", 0) /\ VendorIeOptions[2] = Value("oui", "o", 0)
      /\ VendorIeOptions[3] = Entry("lit", "c", <<>>, 0, 1)
      /\ VendorIeOptions[4] = Entry("lit", "r", <<>>, 0, 1)
      /\ VendorIeOptions[5] = Entry("lit", "p", <<>>, 0, 1)
      /\ VendorIeOptions[6] = Entry("lit", "s", <<>>, 0, 1)
      /\ VendorIeOptions[7] = Entry("lit", "b", <<>>, 0, 1)
      /\ VendorIeOptions[8] = Entry("help", "h", <<>>, 0, 1)
  BY DEF VendorIeOptions, Lit
<1>2. /\ "a" # "" /\ "o" # "" /\ "c" # "" /\ "r" # "" /\ "p" # "" /\ "s" # "" /\ "b" # "" /\ "h" # ""
  OBVIOUS
<1>. QED  BY <1>1, <1>2, OptIs, Zenon

\* What the steps of the loop ask of its table.
OptionKind(kind, short, i, name) ==
  /\ short # "-"
  /\ kind \in {"bounds", "word", "range", "uint64", "expr", "element", "oui", "lit", "help"}
  /\ name = <<"mpsw">> => kind \in {"bounds", "word", "expr"} /\ (kind = "bounds" <=> i = 1)
  /\ kind = "bounds" => name = <<"mpsw">> /\ short = "b"
  /\ name = <<"mpsw">> /\ short = "b" => kind = "bounds"
  /\ kind \in {"element", "oui"} => name = <<"vendor_ie">> /\ i \in {1, 2}
  /\ name = <<"vendor_ie">> /\ i \in 1..4 =>
       kind \in {"element", "oui"} \/ (kind = "lit" /\ short \in {"c", "r"})

OptionOf(e, i, name) == ~Untagged(e) /\ OptionKind(e.kind, e.short, i, name)

LoopTable(tbl, name) == Sound(tbl) /\ \A i \in DOMAIN tbl : OptionOf(tbl[i], i, name)

LEMMA OptionsSound ==
  ASSUME NEW tbl, NEW n \in Nat, Len(tbl) = n, DOMAIN tbl = 1..n, \A i \in 1..n : IsTagged(tbl[i])
  PROVE  Sound(tbl)
<1>1. \A i \in (n + 1)..n : FALSE
  OBVIOUS
<1>. QED  BY <1>1, SoundIs, Zenon

LEMMA OptionFor ==
  ASSUME NEW e, NEW kind, NEW short, Opt(e, kind, short), NEW i, NEW name, OptionKind(kind, short, i, name)
  PROVE  OptionOf(e, i, name)
BY Zenon DEF Opt, OptionOf, IsTagged

LEMMA LoopTables ==
  /\ LoopTable(MpswOptions, <<"mpsw">>) /\ LoopTable(TwtOptions, <<"twt">>)
  /\ LoopTable(DutyCycleOptions, <<"duty_cycle">>) /\ LoopTable(VendorIeOptions, <<"vendor_ie">>)
<1>1. LoopTable(MpswOptions, <<"mpsw">>)
  <2>1. \A i \in 1..3 : i = 1 \/ i = 2 \/ i = 3
    OBVIOUS
  <2>2. Sound(MpswOptions)
    <3>1. 3 \in Nat
      OBVIOUS
    <3>. QED  BY <2>1, <3>1, MpswTable, OptionsSound, Zenon DEF Opt
  <2>3. /\ OptionOf(MpswOptions[1], 1, <<"mpsw">>) /\ OptionOf(MpswOptions[2], 2, <<"mpsw">>)
        /\ OptionOf(MpswOptions[3], 3, <<"mpsw">>)
    <3>1. /\ OptionKind("bounds", "b", 1, <<"mpsw">>) /\ OptionKind("word", "w", 2, <<"mpsw">>)
          /\ OptionKind("expr", "e", 3, <<"mpsw">>)
      BY SMT DEF OptionKind
    <3>. QED  BY <3>1, MpswTable, OptionFor, Zenon
  <2>. QED  BY <2>1, <2>2, <2>3, MpswTable, Zenon DEF LoopTable
<1>2. LoopTable(TwtOptions, <<"twt">>)
  <2>1. \A i \in 1..7 : i = 1 \/ i = 2 \/ i = 3 \/ i = 4 \/ i = 5 \/ i = 6 \/ i = 7
    OBVIOUS
  <2>2. Sound(TwtOptions)
    <3>1. 7 \in Nat
      OBVIOUS
    <3>. QED  BY <2>1, <3>1, TwtTable, OptionsSound, Zenon DEF Opt
  <2>3. /\ OptionOf(TwtOptions[1], 1, <<"twt">>) /\ OptionOf(TwtOptions[2], 2, <<"twt">>)
        /\ OptionOf(TwtOptions[3], 3, <<"twt">>) /\ OptionOf(TwtOptions[4], 4, <<"twt">>)
        /\ OptionOf(TwtOptions[5], 5, <<"twt">>) /\ OptionOf(TwtOptions[6], 6, <<"twt">>)
        /\ OptionOf(TwtOptions[7], 7, <<"twt">>)
    <3>1. /\ OptionKind("range", "f", 1, <<"twt">>) /\ OptionKind("uint64", "w", 2, <<"twt">>)
          /\ OptionKind("range", "d", 3, <<"twt">>) /\ OptionKind("uint64", "t", 4, <<"twt">>)
          /\ OptionKind("range", "c", 5, <<"twt">>) /\ OptionKind("word", "m", 6, <<"twt">>)
          /\ OptionKind("range", "e", 7, <<"twt">>)
      BY SMT DEF OptionKind
    <3>. QED  BY <3>1, TwtTable, OptionFor, Zenon
  <2>. QED  BY <2>1, <2>2, <2>3, TwtTable, Zenon DEF LoopTable
<1>3. LoopTable(DutyCycleOptions, <<"duty_cycle">>)
  <2>1. \A i \in 1..2 : i = 1 \/ i = 2
    OBVIOUS
  <2>2. Sound(DutyCycleOptions)
    <3>1. 2 \in Nat
      OBVIOUS
    <3>. QED  BY <2>1, <3>1, DutyCycleTable, OptionsSound, Zenon DEF Opt
  <2>3. /\ OptionOf(DutyCycleOptions[1], 1, <<"duty_cycle">>)
        /\ OptionOf(DutyCycleOptions[2], 2, <<"duty_cycle">>)
    <3>1. /\ OptionKind("range", "m", 1, <<"duty_cycle">>) /\ OptionKind("lit", "o", 2, <<"duty_cycle">>)
      BY SMT DEF OptionKind
    <3>. QED  BY <3>1, DutyCycleTable, OptionFor, Zenon
  <2>. QED  BY <2>1, <2>2, <2>3, DutyCycleTable, Zenon DEF LoopTable
<1>4. LoopTable(VendorIeOptions, <<"vendor_ie">>)
  <2>1. \A i \in 1..8 : i = 1 \/ i = 2 \/ i = 3 \/ i = 4 \/ i = 5 \/ i = 6 \/ i = 7 \/ i = 8
    OBVIOUS
  <2>2. Sound(VendorIeOptions)
    <3>1. 8 \in Nat
      OBVIOUS
    <3>. QED  BY <2>1, <3>1, VendorIeTable, OptionsSound, Zenon DEF Opt
  <2>3. /\ OptionOf(VendorIeOptions[1], 1, <<"vendor_ie">>) /\ OptionOf(VendorIeOptions[2], 2, <<"vendor_ie">>)
        /\ OptionOf(VendorIeOptions[3], 3, <<"vendor_ie">>) /\ OptionOf(VendorIeOptions[4], 4, <<"vendor_ie">>)
        /\ OptionOf(VendorIeOptions[5], 5, <<"vendor_ie">>) /\ OptionOf(VendorIeOptions[6], 6, <<"vendor_ie">>)
        /\ OptionOf(VendorIeOptions[7], 7, <<"vendor_ie">>) /\ OptionOf(VendorIeOptions[8], 8, <<"vendor_ie">>)
    <3>1. /\ OptionKind("element", "a", 1, <<"vendor_ie">>) /\ OptionKind("oui", "o", 2, <<"vendor_ie">>)
          /\ OptionKind("lit", "c", 3, <<"vendor_ie">>) /\ OptionKind("lit", "r", 4, <<"vendor_ie">>)
          /\ OptionKind("lit", "p", 5, <<"vendor_ie">>) /\ OptionKind("lit", "s", 6, <<"vendor_ie">>)
          /\ OptionKind("lit", "b", 7, <<"vendor_ie">>) /\ OptionKind("help", "h", 8, <<"vendor_ie">>)
      BY SMT DEF OptionKind
    <3>. QED  BY <3>1, VendorIeTable, OptionFor, Zenon
  <2>. QED  BY <2>1, <2>2, <2>3, VendorIeTable, Zenon DEF LoopTable
<1>. QED  BY <1>1, <1>2, <1>3, <1>4

LEMMA OptionsLoop ==
  ASSUME NEW args, args[1] \in GetoptCommands
  PROVE  LoopTable(OptionsOf(args), args[1])
<1>1. CASE args[1] = <<"mpsw">>
  BY <1>1, LoopTables DEF OptionsOf
<1>2. CASE args[1] = <<"vendor_ie">>
  BY <1>2, LoopTables DEF OptionsOf
<1>3. CASE args[1] = <<"twt">>
  BY <1>3, LoopTables DEF OptionsOf
<1>4. CASE args[1] = <<"duty_cycle">>
  BY <1>4, LoopTables DEF OptionsOf
<1>. QED  BY <1>1, <1>2, <1>3, <1>4 DEF GetoptCommands

-------------------------------------------------------------------------------
\* What an option's value is converted to.

LEMMA AppendIs ==
  ASSUME NEW vs \in Seq(Args), NEW v \in Args
  PROVE  /\ Append(vs, v) \in Seq(Args) /\ Append(vs, v) # <<>>
         /\ Append(vs, v)[Len(Append(vs, v))] = v
         /\ vs = <<>> => Append(vs, v) = <<v>>
<1>1. Append(<<>>, v) = <<v>>
  OBVIOUS
<1>2. vs = <<>> => Append(vs, v) = <<v>>
  BY <1>1, Zenon
<1>3. Append(vs, v) \in Seq(Args) /\ Append(vs, v) # <<>> /\ Append(vs, v)[Len(Append(vs, v))] = v
  OBVIOUS
<1>. QED  BY <1>2, <1>3

\* A number's word is the one that its text has.
LEMMA NumberFound ==
  ASSUME NEW str, NEW max
  PROVE  /\ Fine(str_to_uint32(str)) => IsNumber(str) /\ str_to_uint32(str).value = WordOf(str)
         /\ Fine(str_to_uint32_range(str, max)) => str_to_uint32_range(str, max).value = WordOf(str)
         /\ Fine(str_to_uint64(str)) => str_to_uint64(str).value.lo = WordOf(str)
<1>1. ASSUME Fine(str_to_uint32(str))
      PROVE  IsNumber(str) /\ str_to_uint32(str) = Scanned(WordOf(str))
  BY <1>1, RefusedIs, Zenon DEF str_to_uint32
<1>2. ASSUME Fine(str_to_uint32_range(str, max))
      PROVE  str_to_uint32_range(str, max) = Scanned(WordOf(str))
  BY <1>2, RefusedIs, Zenon DEF str_to_uint32_range
<1>3. ASSUME Fine(str_to_uint64(str))
      PROVE  str_to_uint64(str) = Scanned(IF str = <<>> THEN [hi |-> 0, lo |-> 0] ELSE Strtol(str).n)
  BY <1>3, RefusedIs, Zenon DEF str_to_uint64
<1>4. (IF str = <<>> THEN [hi |-> 0, lo |-> 0] ELSE Strtol(str).n).lo = WordOf(str)
  <2>1. [hi |-> 0, lo |-> 0].lo = 0
    OBVIOUS
  <2>. QED  BY <2>1, Zenon DEF WordOf
<1>. QED  BY <1>1, <1>2, <1>3, <1>4, ScannedValue

LEMMA ElementFound ==
  ASSUME NEW str, Fine(Element(str))
  PROVE  /\ check_cmd_opcode_not_set
         /\ Element(str).value = hexstr2bin(str, Len(str) \div 2).octets
<1> DEFINE n == Len(str) \div 2
<1>1. Element(str) =
        IF ~check_cmd_opcode_not_set \/ Len(str) % 2 = 1 \/ n > MaxIe \/ ~hexstr2bin(str, n).ok
        THEN Refused("value") ELSE Scanned(hexstr2bin(str, n).octets)
  BY DEF Element
<1> HIDE DEF n
<1>2. check_cmd_opcode_not_set /\ Element(str) = Scanned(hexstr2bin(str, n).octets)
  BY <1>1, RefusedIs, Zenon
<1>. QED  BY <1>2, ScannedValue DEF n

LEMMA ThreeMore ==
  ASSUME NEW S, NEW q \in [1..3 -> S], NEW z
  PROVE  q \o [k \in 1..(3 - Len(q)) |-> z] = q
<1>1. Len(q) = 3
  OBVIOUS
<1>0. q \in Seq(S)
  <2>1. PICK a \in S, b \in S, c \in S : q = <<a, b, c>>
    <3>1. q = <<q[1], q[2], q[3]>> /\ q[1] \in S /\ q[2] \in S /\ q[3] \in S
      OBVIOUS
    <3>. QED  BY <3>1, Zenon
  <2>2. <<a, b, c>> \in Seq(S)
    OBVIOUS
  <2>. QED  BY <2>1, <2>2, Zenon
<1>2. [k \in 1..(3 - Len(q)) |-> z] = <<>>
  BY <1>1
<1>3. q \o <<>> = q
  BY <1>0
<1>. QED  BY <1>2, <1>3, Zenon

LEMMA ThreeOctets ==
  ASSUME NEW str, hexstr2bin(str, 3).ok, NEW o, o = hexstr2bin(str, 3).octets
  PROVE  o \o [k \in 1..(3 - Len(o)) |-> <<"0", "0">>] = o
<1> DEFINE bad == {k \in 1..3 : ~hex2byte(Octet(str, k))}
           good == IF bad = {} THEN 3 ELSE (CHOOSE k \in bad : \A j \in bad : k <= j) - 1
           oct == [k \in 1..good |-> Octet(str, k)]
<1>1. hexstr2bin(str, 3) = [ok |-> bad = {}, octets |-> oct]
  BY DEF hexstr2bin
<1>2. bad = {} /\ o = oct
  <2> HIDE DEF bad, oct
  <2>1. ASSUME NEW r, NEW b \in BOOLEAN, NEW c, r = [ok |-> b, octets |-> c], r.ok
        PROVE  b /\ r.octets = c
    BY <2>1
  <2>2. (bad = {}) \in BOOLEAN
    OBVIOUS
  <2>. QED  BY <1>1, <2>1, <2>2, Zenon
<1>3. o = [k \in 1..3 |-> Octet(str, k)]
  BY <1>2
<1>4. ASSUME NEW S, NEW q \in [1..3 -> S], NEW z PROVE q \o [k \in 1..(3 - Len(q)) |-> z] = q
  BY ThreeMore
<1>5. o \in [1..3 -> {Octet(str, k) : k \in 1..3}]
  BY <1>3
<1> HIDE DEF bad, good, oct
<1>. QED  BY <1>4, <1>5, Zenon

LEMMA OuiFound ==
  ASSUME NEW str, Fine(Oui(str))
  PROVE  /\ check_cmd_opcode_not_set
         /\ hexstr2bin(str, Len(str) \div 2).ok => Oui(str).value = hexstr2bin(str, Len(str) \div 2).octets
<1> DEFINE n == Len(str) \div 2
           o == hexstr2bin(str, 3).octets
           v == o \o [k \in 1..(3 - Len(o)) |-> <<"0", "0">>]
<1>1. Oui(str) = IF ~check_cmd_opcode_not_set \/ n # 3 THEN Refused("value") ELSE Scanned(v)
  BY DEF Oui
<1>2. hexstr2bin(str, 3).ok => v = o
  BY ThreeOctets
<1> HIDE DEF n, v, o
<1>3. check_cmd_opcode_not_set /\ n = 3 /\ Oui(str) = Scanned(v)
  BY <1>1, RefusedIs, Zenon
<1>4. Oui(str).value = v
  BY <1>3, ScannedValue
<1>5. n = Len(str) \div 2 /\ o = hexstr2bin(str, 3).octets
  BY DEF n, o
<1>. QED  BY <1>2, <1>3, <1>4, <1>5, Zenon

\* check_cmd_opcode_not_set, where a command of vendor_ie is taken.
LEMMA ConvertedAlone ==
  ASSUME NEW i, OptionOf(table[i], i, <<"vendor_ie">>), i \in 1..4, NEW str, Fine(Converted(i, str))
  PROVE  check_cmd_opcode_not_set
<1>1. CASE table[i].kind = "element"
  BY <1>1, ElementFound DEF Converted
<1>2. CASE table[i].kind = "oui"
  BY <1>2, OuiFound DEF Converted
<1>3. CASE table[i].kind = "lit" /\ table[i].short \in {"c", "r"}
  <2>1. Converted(i, str) = IF ~check_cmd_opcode_not_set THEN Refused("value") ELSE Scanned("given")
    BY <1>3 DEF Converted
  <2>. QED  BY <2>1, RefusedIs, Zenon
<1>. QED  BY <1>1, <1>2, <1>3, Zenon DEF OptionOf, OptionKind

LEMMA NeverHelp ==
  ASSUME NEW i, NEW str, Fine(Converted(i, str))
  PROVE  table[i].kind # "help"
<1>1. table[i].kind = "help" => Converted(i, str) = Refused("help")
  BY DEF Converted
<1>. QED  BY <1>1, RefusedIs, Zenon

\* What is found is what the option's last value comes to.
LEMMA ConvertedHolds ==
  ASSUME NEW i, NEW name, OptionOf(table[i], i, name), table[i].kind # "bounds", NEW str \in Args,
         Fine(Converted(i, str)), NEW vs \in Seq(Args), Holds(table[i], got[i], vs)
  PROVE  Holds(table[i], <<Converted(i, str).value>>, Append(vs, str))
<1> DEFINE v == Converted(i, str).value
           kind == table[i].kind
           more == Append(vs, str)
           bin == hexstr2bin(str, Len(str) \div 2)
<1>1. <<v>> # <<>> /\ more # <<>> /\ more[Len(more)] = str /\ (vs = <<>> => more = <<str>>) /\ <<v>>[1] = v
  BY AppendIs
<1>2. kind \in {"word", "range"} => v = WordOf(str)
  BY NumberFound DEF Converted
<1>3. kind = "uint64" => v.lo = WordOf(str)
  BY NumberFound DEF Converted
<1>4. kind \in {"element", "oui"} => more = <<str>> /\ (bin.ok => v = bin.octets)
  <2>1. ASSUME kind \in {"element", "oui"} PROVE check_cmd_opcode_not_set /\ (bin.ok => v = bin.octets)
    BY <2>1, ElementFound, OuiFound DEF Converted
  <2>2. ASSUME kind \in {"element", "oui"} PROVE i \in 1..4
    BY <2>2 DEF OptionOf, OptionKind
  <2>3. ASSUME kind \in {"element", "oui"} PROVE vs = <<>>
    BY <2>1, <2>2, <2>3, Zenon DEF Holds, check_cmd_opcode_not_set
  <2>. QED  BY <1>1, <2>1, <2>3, Zenon
<1> HIDE DEF v, more, bin
<1>5. LET last == more[Len(more)]
          b == hexstr2bin(last, Len(last) \div 2)
      IN /\ kind \in {"word", "range"} => <<v>>[1] = WordOf(last)
         /\ kind = "uint64" => <<v>>[1].lo = WordOf(last)
         /\ kind = "bounds" => <<v>>[1][1] = WordOf(last)
         /\ kind \in {"element", "oui"} => more = <<last>> /\ (b.ok => <<v>>[1] = b.octets)
  BY <1>1, <1>2, <1>3, <1>4, Zenon DEF bin
<1>. QED  BY <1>1, <1>5, Zenon DEF Holds, v, more

-------------------------------------------------------------------------------
\* The line that a loop goes along.

LEMMA LoopLine ==
  ASSUME LoopTyped
  PROVE  /\ vector \in Seq(Args) /\ vector # <<>> /\ Len(vector) \in Nat \ {0}
         /\ \A k \in 1..Len(vector) : vector[k] \in Args /\ ~Dashed(vector[k])
         /\ Sound(table) /\ Len(table) \in Nat /\ DOMAIN table = 1..Len(table)
         /\ \A i \in DOMAIN table : OptionOf(table[i], i, SubLine[1])
<1>1. vector \in Seq(Args) /\ vector # <<>> /\ Len(vector) \in Nat \ {0}
  BY DEF LoopTyped
<1>2. \A k \in 1..Len(vector) : vector[k] \in Args /\ ~Dashed(vector[k])
  BY <1>1 DEF LoopTyped
<1>3. LoopTable(table, SubLine[1])
  BY OptionsLoop DEF LoopTyped
<1>4. Sound(table) /\ \A i \in DOMAIN table : OptionOf(table[i], i, SubLine[1])
  BY <1>3, Zenon DEF LoopTable
<1>5. Len(table) \in Nat /\ DOMAIN table = 1..Len(table)
  BY <1>4, Zenon DEF Sound
<1>. QED  BY <1>1, <1>2, <1>4, <1>5, Zenon

LEMMA MpswLine ==
  ASSUME LoopTyped
  PROVE  /\ SubLine[1] = <<"mpsw">> => vector = SubLine
         /\ SubLine[1] # <<"mpsw">> => PassedOver(SubLine) = {}
<1>1. vector = OptionArgs(SubLine)
  BY DEF LoopTyped
<1>2. SubLine[1] = <<"mpsw">> => OptionArgs(SubLine) = SubLine
  BY DEF OptionArgs
<1>. QED  BY <1>1, <1>2, Zenon DEF PassedOver

LEMMA LoopReads ==
  ASSUME LoopTyped, NEW n \in 0..(Len(vector) - 1)
  PROVE  /\ Reads(table, Reading(n))
         /\ n > 0 /\ n + 1 \in PassedOver(SubLine) => Reading(n) = Reading(n - 1)
         /\ n > 0 /\ n + 1 \notin PassedOver(SubLine) =>
              Reading(n) = Read(table, Reading(n - 1), vector[n + 1])
<1>1. vector \in Seq(Args) /\ vector # <<>> /\ Len(vector) \in Nat \ {0} /\ Sound(table)
  BY LoopLine, Zenon
<1>2. Reads(table, Reading(n))
  BY <1>1, PassingReads, Zenon DEF Reading
<1>3. n > 0 => n \in 1..(Len(vector) - 1)
  BY <1>1
<1> DEFINE passed == PassedOver(SubLine)
           R(k) == Readings(table, vector, passed)[k]
<1>4. R(n) = IF n = 0 THEN Nothing(table)
             ELSE IF n + 1 \in passed THEN R(n - 1) ELSE Read(table, R(n - 1), vector[n + 1])
  <2> HIDE DEF passed
  <2>. QED  BY <1>1, ReadingsAre
<1>5. n > 0 => n # 0
  OBVIOUS
<1>6. n > 0 =>
        /\ n + 1 \in passed => R(n) = R(n - 1)
        /\ n + 1 \notin passed => R(n) = Read(table, R(n - 1), vector[n + 1])
  <2> HIDE DEF passed, R
  <2>. QED  BY <1>4, <1>5, Zenon
<1>. QED  BY <1>2, <1>6, Zenon DEF Reading

LEMMA OptionMeaningIs ==
  ASSUME LoopTyped
  PROVE  OptionMeaning(SubLine) = Reading(Len(vector) - 1)
BY Zenon DEF LoopTyped, OptionMeaning, MeaningBut, Reading

\* An option -b, and a second bound behind its first.
BoundOption == <<"-", "b">>

UpperAt(k) ==
  k \in 4..Len(vector) /\ vector[k - 2] = BoundOption /\ Plain(vector[k - 1]) /\ Plain(vector[k])

LEMMA UpperIs ==
  ASSUME LoopTyped, SubLine[1] = <<"mpsw">>, NEW k
  PROVE  k \in UpperBounds(SubLine) <=> UpperAt(k)
<1>1. vector = SubLine /\ Len(vector) \in Nat
  BY MpswLine, LoopLine
<1>2. k \in UpperBounds(vector) <=>
        k \in 4..Len(vector) /\ k - 2 \in BoundsAt(vector) /\ Plain(vector[k - 1]) /\ Plain(vector[k])
  BY Zenon DEF UpperBounds
<1>3. ASSUME k \in 4..Len(vector) PROVE k - 2 \in 2..Len(vector)
  BY <1>1, <1>3
<1>4. k \in 4..Len(vector) => (k - 2 \in BoundsAt(vector) <=> vector[k - 2] = BoundOption)
  BY <1>3, Zenon DEF BoundsAt, BoundOption
<1>. QED  BY <1>1, <1>2, <1>4, Zenon DEF UpperAt

LEMMA NotPlain ==
  ASSUME NEW arg \in Args
  PROVE  /\ IsOption(arg) => ~Plain(arg)
         /\ arg = BoundOption \/ arg = <<"-", "-">> => IsOption(arg)
<1>1. IsOption(arg) => arg # <<>> /\ Head(arg) = "-"
  BY DEF IsOption
<1>2. IsOption(BoundOption) /\ IsOption(<<"-", "-">>)
  BY DEF IsOption, BoundOption
<1>. QED  BY <1>1, <1>2, Zenon DEF Plain

\* What the loop passes over.
LEMMA PassedIs ==
  ASSUME LoopTyped, NEW k, k \in PassedOver(SubLine)
  PROVE  /\ SubLine[1] = <<"mpsw">>
         /\ UpperAt(k) \/ (vector[k] = BoundOption /\ k < Len(vector) /\ ~Plain(vector[k + 1]))
<1>1. SubLine[1] = <<"mpsw">>
  BY MpswLine, Zenon DEF PassedOver
<1>2. vector = SubLine
  BY <1>1, MpswLine, Zenon
<1>3. k \in UpperBounds(SubLine) \/ k \in Unbound(SubLine)
  BY <1>1, Zenon DEF PassedOver
<1>4. k \in Unbound(vector) => vector[k] = BoundOption /\ k < Len(vector) /\ ~Plain(vector[k + 1])
  BY Zenon DEF Unbound, BoundsAt, BoundOption
<1>. QED  BY <1>1, <1>2, <1>3, <1>4, UpperIs, Zenon

LEMMA ClearIs ==
  ASSUME LoopTyped, NEW o
  PROVE  Clear(o) <=> (SubLine[1] = <<"mpsw">> => ~UpperAt(o + 1))
BY UpperIs, Zenon DEF Clear

LEMMA NotPassed ==
  ASSUME LoopTyped, NEW o \in 1..(Len(vector) - 1), Clear(o),
         vector[o + 1] # BoundOption \/ o + 1 = Len(vector) \/ Plain(vector[o + 2])
  PROVE  o + 1 \notin PassedOver(SubLine)
<1> SUFFICES ASSUME o + 1 \in PassedOver(SubLine) PROVE FALSE
  OBVIOUS
<1>1. Len(vector) \in Nat /\ o \in Nat
  BY LoopLine
<1>2. vector[o + 1] = BoundOption /\ o + 1 < Len(vector) /\ ~Plain(vector[(o + 1) + 1])
  BY PassedIs, ClearIs, Zenon
<1>3. (o + 1) + 1 = o + 2 /\ ~(o + 1 = Len(vector))
  BY <1>1, <1>2
<1>. QED  BY <1>2, <1>3, Zenon

LEMMA ValueNotPassed ==
  ASSUME LoopTyped, NEW o \in 1..(Len(vector) - 2), ~Plain(vector[o + 1]), vector[o + 2] # BoundOption
  PROVE  o + 2 \notin PassedOver(SubLine)
<1> SUFFICES ASSUME o + 2 \in PassedOver(SubLine) PROVE FALSE
  OBVIOUS
<1>1. UpperAt(o + 2)
  BY PassedIs, Zenon
<1>2. (o + 2) - 1 = o + 1
  OBVIOUS
<1>. QED  BY <1>1, <1>2 DEF UpperAt

-------------------------------------------------------------------------------
\* A letter of a group.

LEMMA LetterAt ==
  ASSUME LoopTyped, NEW o \in 1..Len(vector), Ready(Reading(o - 1)), NEW p, NEW j, Inside(o, p, j),
         NEW i, i = ShortOption(table, Head(p)), i # 0,
         NEW A, A = vector[o + 1], NEW r, r = Part(table, Reading(o - 1), Tail(A), j - 2)
  PROVE  /\ o \in 1..(Len(vector) - 1) /\ A \in Args /\ IsOption(A) /\ j \in 2..Len(A) /\ A[2] # "-"
         /\ LettersOf(A, j, p) /\ i \in DOMAIN table
         /\ i = ShortOption(table, Tail(A)[j - 1]) /\ AllFlags(table, Tail(A), j - 2)
         /\ Reads(table, Reading(o - 1)) /\ Reads(table, r) /\ Ready(r)
<1>1. /\ o < Len(vector) /\ IsOption(A) /\ A # <<"-", "-">> /\ j \in 2..Len(A)
      /\ p = SubSeq(A, j, Len(A)) /\ (j > 2 => A[2] # "-") /\ AllFlags(table, Tail(A), j - 2)
  BY Zenon DEF Inside
<1>2. o \in 1..(Len(vector) - 1) /\ o + 1 \in 1..Len(vector) /\ o - 1 \in 0..(Len(vector) - 1)
  BY <1>1, LoopLine
<1>3. A \in Args /\ Sound(table)
  BY <1>2, LoopLine
<1>4. LettersOf(A, j, p)
  BY <1>1, <1>3, LettersAt, Zenon
<1>5. i = ShortOption(table, Tail(A)[j - 1])
  BY <1>4, Zenon DEF LettersOf
<1>6. i \in DOMAIN table /\ table[i].short = A[j]
  <2>1. Len(table) \in Nat /\ DOMAIN table = 1..Len(table) /\ Head(p) = A[j]
    BY <1>4, LoopLine, Zenon DEF LettersOf
  <2>. QED  BY <2>1, ShortOptionIs
<1>7. A[2] # "-"
  <2>1. A[j] # "-"
    BY <1>6, LoopLine, Zenon DEF OptionOf, OptionKind
  <2>2. j > 2 \/ j = 2
    <3>1. Len(A) \in Nat
      BY <1>3, ArgLength
    <3>. QED  BY <1>1, <3>1
  <2>. QED  BY <1>1, <2>1, <2>2, Zenon
<1>8. Reads(table, Reading(o - 1))
  BY <1>2, LoopReads, Zenon
<1>9. Reads(table, r) /\ Ready(r)
  <2>1. Tail(A) \in Args /\ j - 2 \in 0..Len(Tail(A))
    BY <1>1, <1>3, <1>4, ArgLength DEF LettersOf
  <2>2. Reads(table, r) /\ GivesAll(table, Reading(o - 1), SubSeq(Tail(A), 1, j - 2), r)
    BY <1>3, <1>8, <2>1, PartIs, Zenon
  <2>. QED  BY <2>2, Zenon DEF GivesAll, Ready
<1>. QED  BY <1>1, <1>2, <1>3, <1>4, <1>5, <1>6, <1>7, <1>8, <1>9, Zenon

\* What a letter gives whose value is the rest of its argument, or the next one.
LetterGives(i, rest, r, s) ==
  /\ rest # <<>> => Ready(s) /\ OneMore(r.args, i, rest, s.args)
  /\ rest = <<>> => s.wait = i /\ ~s.bad /\ s.full = FALSE /\ s.args = r.args

LEMMA LetterReads ==
  ASSUME LoopTyped, NEW o \in 1..Len(vector), Ready(Reading(o - 1)), NEW p, NEW j, Inside(o, p, j),
         NEW i, i = ShortOption(table, Head(p)), i # 0, HasValue(table[i])
  PROVE  LetterGives(i, Tail(p), Part(table, Reading(o - 1), Tail(vector[o + 1]), j - 2),
                     Read(table, Reading(o - 1), vector[o + 1]))
<1> SUFFICES ASSUME NEW r, r = Part(table, Reading(o - 1), Tail(vector[o + 1]), j - 2),
                    NEW s, s = Read(table, Reading(o - 1), vector[o + 1])
             PROVE  LetterGives(i, Tail(p), r, s)
  OBVIOUS
<1> DEFINE A == vector[o + 1]
           acc == Reading(o - 1)
<1>0. A = vector[o + 1] /\ r = Part(table, acc, Tail(A), j - 2)
  OBVIOUS
<1> HIDE DEF A
<1>1. /\ A \in Args /\ IsOption(A) /\ j \in 2..Len(A) /\ A[2] # "-"
      /\ LettersOf(A, j, p) /\ i \in DOMAIN table
      /\ i = ShortOption(table, Tail(A)[j - 1]) /\ AllFlags(table, Tail(A), j - 2)
      /\ Reads(table, acc) /\ Reads(table, r) /\ Ready(r)
  <2> HIDE DEF acc
  <2>1. Ready(acc) /\ acc = Reading(o - 1)
    BY DEF acc
  <2>. QED  BY <1>0, <2>1, LetterAt
<1> HIDE DEF acc
<1>2. Tail(A) \in Args /\ Len(A) \in Nat /\ Len(Tail(A)) = Len(A) - 1 /\ j - 1 \in 1..Len(Tail(A))
  BY <1>1, ArgLength DEF LettersOf
<1>3. (j - 1) - 1 = j - 2 /\ (j - 1) + 1 = j /\ j - 1 \in 1..(Len(Tail(A)) + 1)
  BY <1>1, <1>2
<1>4. LastLetter(table, Tail(A)) = j - 1
  BY <1>1, <1>2, <1>3, LastLetterAt, Zenon
<1>5. s = ReadLetters(table, acc, Tail(A)) /\ acc.wait = 0 /\ ~acc.over /\ ~acc.bad
  <2>1. Ready(acc)
    BY DEF acc
  <2>2. acc.wait = 0 /\ ~acc.over /\ ~acc.bad
    BY <2>1, Zenon DEF Ready
  <2>3. s = Read(table, acc, A)
    BY DEF A, acc
  <2>. QED  BY <1>1, <2>2, <2>3, ReadGroup, Zenon
<1>6. LettersRead(table, acc, Tail(A), j - 1, i, s)
  BY <1>1, <1>2, <1>4, <1>5, LoopLine, ReadLettersIs, Zenon
<1>7. r = Part(table, acc, Tail(A), j - 2) /\ Sound(table) /\ ~Untagged(table[i])
  <2>1. Sound(table) /\ ~Untagged(table[i])
    BY <1>1, LoopLine, Zenon DEF OptionOf
  <2>. QED  BY <2>1 DEF A, acc
<1>8. ASSUME Tail(p) # <<>> PROVE Ready(s) /\ OneMore(r.args, i, Tail(p), s.args)
  <2>1. j # Len(A) /\ Tail(p) = SubSeq(Tail(A), j, Len(Tail(A))) /\ Tail(p) \in Args
    BY <1>1, <1>8, Zenon DEF LettersOf
  <2>2. j - 1 < Len(Tail(A))
    BY <1>1, <1>2, <2>1
  <2>3. s = Give(r, i, Tail(p))
    BY <1>3, <1>6, <1>7, <2>1, <2>2, Zenon DEF LettersRead
  <2>4. Gives(r, i, Tail(p), s)
    BY <1>1, <1>7, <2>1, <2>3, GiveIs, Zenon
  <2>. QED  BY <1>1, <2>4, Zenon DEF Gives, OneMore, Ready
<1>9. ASSUME Tail(p) = <<>> PROVE s.wait = i /\ ~s.bad /\ s.full = FALSE /\ s.args = r.args
  <2>1. j = Len(A)
    BY <1>1, <1>9, Zenon DEF LettersOf
  <2>2. j - 1 = Len(Tail(A))
    BY <1>2, <2>1
  <2>3. s = Await(r, i, FALSE)
    BY <1>3, <1>6, <1>7, <2>2, Zenon DEF LettersRead
  <2>4. Awaits(r, i, FALSE, s)
    <3>1. FALSE \in BOOLEAN /\ ~r.over
      BY <1>1, Zenon DEF Ready
    <3>. QED  BY <1>1, <1>7, <2>3, <3>1, AwaitIs
  <2>. QED  BY <1>1, <2>4, Zenon DEF Awaits, Ready
<1>. QED  BY <1>8, <1>9, Zenon DEF LetterGives

\* A letter without one: it is the last of its argument, or others follow.
LEMMA FlagReads ==
  ASSUME LoopTyped, NEW o \in 1..Len(vector), Ready(Reading(o - 1)), NEW p, NEW j, Inside(o, p, j),
         NEW i, i = ShortOption(table, Head(p)), i # 0, ~HasValue(table[i]),
         NEW r, r = Part(table, Reading(o - 1), Tail(vector[o + 1]), j - 2),
         NEW s, s = Read(table, Reading(o - 1), vector[o + 1])
  PROVE  /\ Tail(p) = <<>> => Ready(s) /\ OneMore(r.args, i, <<>>, s.args)
         /\ Tail(p) # <<>> =>
              /\ Inside(o, Tail(p), j + 1)
              /\ OneMore(r.args, i, <<>>, Part(table, Reading(o - 1), Tail(vector[o + 1]), (j + 1) - 2).args)
<1> DEFINE A == vector[o + 1]
           acc == Reading(o - 1)
<1>0. A = vector[o + 1] /\ r = Part(table, acc, Tail(A), j - 2)
  OBVIOUS
<1> HIDE DEF A
<1>1. /\ A \in Args /\ IsOption(A) /\ j \in 2..Len(A) /\ A[2] # "-"
      /\ LettersOf(A, j, p) /\ i \in DOMAIN table
      /\ i = ShortOption(table, Tail(A)[j - 1]) /\ AllFlags(table, Tail(A), j - 2)
      /\ Reads(table, acc) /\ Reads(table, r) /\ Ready(r)
  <2> HIDE DEF acc
  <2>1. Ready(acc) /\ acc = Reading(o - 1)
    BY DEF acc
  <2>. QED  BY <1>0, <2>1, LetterAt
<1> HIDE DEF acc
<1>2. Tail(A) \in Args /\ Len(A) \in Nat /\ Len(Tail(A)) = Len(A) - 1 /\ j - 1 \in 1..Len(Tail(A))
  BY <1>1, ArgLength DEF LettersOf
<1>3. /\ (j - 1) - 1 = j - 2 /\ (j - 2) + 1 = j - 1 /\ (j + 1) - 2 = j - 1
      /\ j - 2 \in 0..(Len(Tail(A)) - 1) /\ j + 1 > 2
  BY <1>1, <1>2
<1>4. AllFlags(table, Tail(A), j - 1)
  BY <1>1, <1>2, <1>3, FlagsMore, Zenon
<1>5. r = Part(table, acc, Tail(A), j - 2) /\ Sound(table) /\ Ready(acc)
  <2>1. Sound(table)
    BY LoopLine, Zenon
  <2>. QED  BY <2>1 DEF A, acc
<1>6. OneMore(r.args, i, <<>>, Part(table, acc, Tail(A), j - 1).args)
  BY <1>1, <1>2, <1>3, <1>5, PartStep, Zenon
<1>7. ASSUME Tail(p) = <<>> PROVE Ready(s) /\ OneMore(r.args, i, <<>>, s.args)
  <2>1. j = Len(A)
    BY <1>1, <1>7, Zenon DEF LettersOf
  <2>2. j - 1 = Len(Tail(A))
    BY <1>2, <2>1
  <2>3. acc.wait = 0 /\ ~acc.over /\ ~acc.bad
    BY <1>5, Zenon DEF Ready
  <2>4. s = ReadLetters(table, acc, Tail(A))
    <3>1. s = Read(table, acc, A)
      BY DEF A, acc
    <3>. QED  BY <1>1, <2>3, <3>1, ReadGroup, Zenon
  <2>5. s = Part(table, acc, Tail(A), j - 1)
    BY <1>1, <1>2, <1>4, <1>5, <2>2, <2>3, <2>4, LetterFlags, Zenon
  <2>6. Ready(s)
    <3>1. j - 1 \in 0..Len(Tail(A))
      BY <1>2
    <3>2. GivesAll(table, acc, SubSeq(Tail(A), 1, j - 1), s)
      BY <1>1, <1>2, <1>5, <2>5, <3>1, PartIs, Zenon
    <3>. QED  BY <2>3, <3>2, Zenon DEF GivesAll, Ready
  <2>. QED  BY <1>6, <2>5, <2>6, Zenon
<1>8. ASSUME Tail(p) # <<>> PROVE Inside(o, Tail(p), j + 1)
  <2>1. j # Len(A) /\ Tail(p) = SubSeq(A, j + 1, Len(A))
    BY <1>1, <1>8, Zenon DEF LettersOf
  <2>2. j + 1 \in 2..Len(A)
    BY <1>1, <1>2, <2>1
  <2>3. o < Len(vector) /\ A # <<"-", "-">>
    BY Zenon DEF Inside, A
  <2>4. AllFlags(table, Tail(A), (j + 1) - 2)
    BY <1>3, <1>4, Zenon
  <2>. QED  BY <1>1, <2>1, <2>2, <2>3, <2>4, Zenon DEF Inside, A
<1>9. Part(table, acc, Tail(A), (j + 1) - 2) = Part(table, acc, Tail(A), j - 1)
  BY <1>3, Zenon
<1>. QED  BY <1>6, <1>7, <1>8, <1>9, Zenon DEF A, acc

-------------------------------------------------------------------------------
\* One more value.

LEMMA HoldsMore ==
  ASSUME LoopTyped, NEW a, DOMAIN a = DOMAIN table, AllHold(got, a),
         NEW i \in DOMAIN table, NEW v, NEW b, OneMore(a, i, v, b),
         NEW x, Holds(table[i], x, Append(a[i], v))
  PROVE  AllHold([got EXCEPT ![i] = x], b)
<1> DEFINE h == [got EXCEPT ![i] = x]
<1> SUFFICES ASSUME NEW k \in DOMAIN table PROVE Holds(table[k], h[k], b[k])
  BY Zenon DEF AllHold
<1> DEFINE y == Append(a[i], v)
<1>1. b = [a EXCEPT ![i] = y]
  BY Zenon DEF OneMore
<1> HIDE DEF y
<1>2. k = i => h[k] = x /\ b[k] = y
  BY <1>1 DEF LoopTyped
<1>3. k # i => h[k] = got[k] /\ b[k] = a[k]
  BY <1>1 DEF LoopTyped
<1>4. Holds(table[k], got[k], a[k])
  BY Zenon DEF AllHold
<1>5. k = i => Holds(table[k], x, y)
  BY Zenon DEF y
<1>. QED  BY <1>2, <1>3, <1>4, <1>5, Zenon

LEMMA OneCommandMore ==
  ASSUME LoopTyped, OneCommand(got), NEW i \in DOMAIN table,
         SubLine[1] = <<"vendor_ie">> /\ i \in 1..4 => check_cmd_opcode_not_set,
         NEW x, NEW h, h = [got EXCEPT ![i] = x]
  PROVE  OneCommand(h)
<1> SUFFICES ASSUME SubLine[1] = <<"vendor_ie">>, NEW m \in 1..4, NEW n \in 1..4, h[m] # <<>>, h[n] # <<>>
             PROVE  m = n
  BY DEF OneCommand
<1>1. table = VendorIeOptions
  BY DEF LoopTyped, OptionsOf
<1>2. m \in DOMAIN table /\ n \in DOMAIN table
  <2>1. DOMAIN table = 1..8
    BY <1>1, VendorIeTable, Zenon
  <2>. QED  BY <2>1
<1>3. \A k \in DOMAIN table : k # i => h[k] = got[k]
  BY DEF LoopTyped
<1>4. \A k \in 1..4 : i \in 1..4 => got[k] = <<>>
  BY Zenon DEF check_cmd_opcode_not_set
<1>5. got[m] # <<>> /\ got[n] # <<>> => m = n
  BY DEF OneCommand
<1>. QED  BY <1>2, <1>3, <1>4, <1>5, Zenon

LEMMA UpperSame ==
  ASSUME LoopTyped, SubLine[1] = <<"mpsw">>, NEW o \in Nat, NEW p \in Nat, o <= p,
         \A k \in (o + 1)..p : ~UpperAt(k)
  PROVE  UpperSoFar(p) = UpperSoFar(o)
<1>1. \A k : k \in UpperBounds(SubLine) <=> UpperAt(k)
  BY UpperIs
<1>2. \A k : UpperAt(k) => k \in Int
  BY DEF UpperAt
<1>3. \A k : UpperAt(k) => (k <= p <=> k <= o)
  <2> SUFFICES ASSUME NEW k, UpperAt(k), k <= p, ~(k <= o) PROVE FALSE
    <3>1. \A k : UpperAt(k) /\ k <= o => k <= p
      BY <1>2
    <3>. QED  BY <3>1
  <2>1. k \in (o + 1)..p
    BY <1>2
  <2>. QED  BY <2>1
<1>. QED  BY <1>1, <1>3, Zenon DEF UpperSoFar

\* The second bound is as it was.
UpperStays(g, h) ==
  h[1] = g[1] \/ (h[1] # <<>> /\ h[1][1][2] = IF g[1] = <<>> THEN 0 ELSE g[1][1][2])

LEMMA UpperKeeps ==
  ASSUME NEW o, NEW p, NEW g, NEW h, UpperHolds(o, g),
         SubLine[1] = <<"mpsw">> => UpperSoFar(p) = UpperSoFar(o) /\ UpperStays(g, h)
  PROVE  UpperHolds(p, h)
<1> SUFFICES ASSUME SubLine[1] = <<"mpsw">>
             PROVE  /\ UpperSoFar(p) = {} => h[1] = <<>> \/ h[1][1][2] = 0
                    /\ \A k \in UpperSoFar(p) : (\A j \in UpperSoFar(p) : j <= k) =>
                         h[1] # <<>> /\ h[1][1][2] = WordOf(SubLine[k])
  BY Zenon DEF UpperHolds
<1>1. UpperSoFar(p) = UpperSoFar(o) /\ UpperStays(g, h)
  OBVIOUS
<1>2. /\ UpperSoFar(o) = {} => g[1] = <<>> \/ g[1][1][2] = 0
      /\ \A k \in UpperSoFar(o) : (\A j \in UpperSoFar(o) : j <= k) =>
           g[1] # <<>> /\ g[1][1][2] = WordOf(SubLine[k])
  BY Zenon DEF UpperHolds
<1>. QED  BY <1>1, <1>2, Zenon DEF UpperStays

LEMMA UpperMore ==
  ASSUME LoopTyped, NEW p, UpperAt(p), NEW h, h[1] # <<>>, h[1][1][2] = WordOf(SubLine[p])
  PROVE  UpperHolds(p, h)
<1> SUFFICES ASSUME SubLine[1] = <<"mpsw">>
             PROVE  /\ UpperSoFar(p) = {} => h[1] = <<>> \/ h[1][1][2] = 0
                    /\ \A k \in UpperSoFar(p) : (\A j \in UpperSoFar(p) : j <= k) =>
                         h[1] # <<>> /\ h[1][1][2] = WordOf(SubLine[k])
  BY Zenon DEF UpperHolds
<1>1. p \in UpperBounds(SubLine) /\ p \in Int
  BY UpperIs DEF UpperAt
<1>2. p \in UpperSoFar(p)
  BY <1>1 DEF UpperSoFar
<1>3. ASSUME NEW k \in UpperSoFar(p), p <= k PROVE k = p
  <2>1. UpperAt(k) /\ k <= p
    BY UpperIs DEF UpperSoFar
  <2>. QED  BY <1>1, <1>3, <2>1 DEF UpperAt
<1>. QED  BY <1>2, <1>3, Zenon

\* Past an option, or past its value.
LEMMA OptionMove ==
  ASSUME LoopTyped, NEW o \in 1..(Len(vector) - 1), IsOption(vector[o + 1]), Clear(o)
  PROVE  /\ o + 1 \in 1..Len(vector) /\ Clear(o + 1)
         /\ SubLine[1] = <<"mpsw">> => UpperSoFar(o + 1) = UpperSoFar(o)
<1>1. Len(vector) \in Nat /\ o + 1 \in 1..Len(vector) /\ ~Plain(vector[o + 1])
  BY LoopLine, NotPlain
<1>2. ~UpperAt((o + 1) + 1)
  <2>1. ((o + 1) + 1) - 1 = o + 1
    OBVIOUS
  <2>. QED  BY <1>1, <2>1, Zenon DEF UpperAt
<1>3. ASSUME SubLine[1] = <<"mpsw">> PROVE UpperSoFar(o + 1) = UpperSoFar(o)
  <2>1. ~UpperAt(o + 1)
    BY <1>3, ClearIs, Zenon
  <2>2. \A k \in (o + 1)..(o + 1) : k = o + 1
    OBVIOUS
  <2>3. o \in Nat /\ o + 1 \in Nat /\ o <= o + 1
    OBVIOUS
  <2>. QED  BY <1>3, <2>1, <2>2, <2>3, UpperSame, Zenon
<1>. QED  BY <1>1, <1>2, <1>3, ClearIs, Zenon

LEMMA ValueMove ==
  ASSUME LoopTyped, NEW o \in 1..(Len(vector) - 2), IsOption(vector[o + 1]), Clear(o),
         SubLine[1] = <<"mpsw">> => ~UpperAt(o + 3)
  PROVE  /\ o + 2 \in 1..Len(vector) /\ Clear(o + 2)
         /\ SubLine[1] = <<"mpsw">> => UpperSoFar(o + 2) = UpperSoFar(o)
<1>1. Len(vector) \in Nat /\ o + 1 \in 1..Len(vector) /\ o + 2 \in 1..Len(vector) /\ ~Plain(vector[o + 1])
  BY LoopLine, NotPlain
<1>2. SubLine[1] = <<"mpsw">> => ~UpperAt((o + 2) + 1)
  <2>1. (o + 2) + 1 = o + 3
    OBVIOUS
  <2>. QED  BY <2>1, Zenon
<1>3. ASSUME SubLine[1] = <<"mpsw">> PROVE UpperSoFar(o + 2) = UpperSoFar(o)
  <2>1. ~UpperAt(o + 1)
    BY <1>3, ClearIs, Zenon
  <2>2. ~UpperAt(o + 2)
    <3>1. (o + 2) - 1 = o + 1
      OBVIOUS
    <3>. QED  BY <1>1, <3>1, Zenon DEF UpperAt
  <2>3. \A k \in (o + 1)..(o + 2) : k = o + 1 \/ k = o + 2
    OBVIOUS
  <2>4. o \in Nat /\ o + 2 \in Nat /\ o <= o + 2
    OBVIOUS
  <2>. QED  BY <1>3, <2>1, <2>2, <2>3, <2>4, UpperSame, Zenon
<1>. QED  BY <1>1, <1>2, <1>3, ClearIs, Zenon

\* -b alone is no number and no expression.
LEMMA BoundNoValue ==
  ASSUME NEW i, OptionOf(table[i], i, <<"mpsw">>), table[i].kind # "bounds", NEW str,
         Fine(Converted(i, str))
  PROVE  str # BoundOption
<1> SUFFICES ASSUME str = BoundOption PROVE FALSE
  OBVIOUS
<1>1. str = <<"-", "b">> /\ str # <<>> /\ Head(str) = "-" /\ Tail(str) = <<"b">>
  BY DEF BoundOption
<1>2. ~IsNumber(str)
  <2> DEFINE signed == str # <<>> /\ Head(str) \in {"-", "+"}
             digits == IF signed THEN Tail(str) ELSE str
  <2>1. digits = <<"b">>
    BY <1>1
  <2>2. Head(digits) \notin DOMAIN Numeral
    <3>0. Head(<<"b">>) = "b"
      OBVIOUS
    <3>1. Head(digits) = "b"
      BY <2>1, <3>0, Zenon
    <3>. QED  BY <3>1, GetoptAssumption, Zenon
  <2>3. Strtol(str) = NoNumber
    BY <2>2 DEF Strtol
  <2>4. ~NoNumber.ok
    BY DEF NoNumber
  <2>. QED  BY <1>1, <2>3, <2>4, Zenon DEF IsNumber
<1>3. table[i].kind = "word" \/ table[i].kind = "expr"
  BY Zenon DEF OptionOf, OptionKind
<1>4. CASE table[i].kind = "word"
  BY <1>2, <1>4, NumberFound DEF Converted
<1>5. CASE table[i].kind = "expr"
  <2>1. Converted(i, str) = expression_to_int(str)
    BY <1>5 DEF Converted
  <2>2. expression_to_int(str) = Refused("value")
    <3>1. /\ str \notin {<<s>> : s \in {"true", "enable", "yes", "t", "y", "1"}}
          /\ str \notin {<<s>> : s \in {"false", "disable", "no", "f", "n", "0"}}
      BY <1>1
    <3>. QED  BY <3>1, Zenon DEF expression_to_int
  <2>. QED  BY <2>1, <2>2, RefusedIs, Zenon
<1>. QED  BY <1>3, <1>4, <1>5

-------------------------------------------------------------------------------
\* What a step of getopt finds.

FoundAs(i, v, rest, next) ==
  /\ got' = [got EXCEPT ![i] = <<v>>] /\ place' = rest /\ optind' = next
  /\ pass' = pass /\ errors' = errors

LEMMA FoundIs ==
  ASSUME NEW i, NEW str, NEW rest, NEW next, Found(i, str, rest, next)
  PROVE  Refuse \/ (Fine(Converted(i, str)) /\ FoundAs(i, Converted(i, str).value, rest, next))
BY Zenon DEF Found, Fine, FoundAs

\* The loop goes on from here.
Onward(o, p, g) ==
  /\ GoesOn(o, p, g) /\ o \in 1..Len(vector) /\ p \in Args /\ (p # <<>> => o < Len(vector))
  /\ g = [k \in DOMAIN table |-> g[k]]

Moves == Onward(optind', place', got') /\ pass' = pass /\ errors' = errors

LEMMA ValueHolds ==
  ASSUME LoopTyped, OneCommand(got), UpperHolds(optind, got), NEW i \in DOMAIN table,
         table[i].kind # "bounds", NEW str \in Args, Fine(Converted(i, str)),
         NEW r, Reads(table, r), AllHold(got, r.args), NEW b, OneMore(r.args, i, str, b),
         NEW h, h = [got EXCEPT ![i] = <<Converted(i, str).value>>],
         NEW p, SubLine[1] = <<"mpsw">> => UpperSoFar(p) = UpperSoFar(optind)
  PROVE  AllHold(h, b) /\ h = [k \in DOMAIN table |-> h[k]] /\ OneCommand(h) /\ UpperHolds(p, h)
<1> DEFINE x == <<Converted(i, str).value>>
<1>1. OptionOf(table[i], i, SubLine[1])
  BY LoopLine, Zenon
<1>2. DOMAIN r.args = DOMAIN table /\ r.args[i] \in Seq(Args)
  BY DEF Reads
<1>3. got = [k \in DOMAIN table |-> got[k]]
  BY DEF LoopTyped
<1>4. Holds(table[i], x, Append(r.args[i], str))
  <2>1. Holds(table[i], got[i], r.args[i])
    BY Zenon DEF AllHold
  <2>. QED  BY <1>1, <1>2, <2>1, ConvertedHolds, Zenon
<1>5. h = [got EXCEPT ![i] = x]
  OBVIOUS
<1> HIDE DEF x
<1>6. AllHold(h, b) /\ h = [k \in DOMAIN table |-> h[k]]
  <2> DEFINE a == r.args
  <2>1. DOMAIN a = DOMAIN table /\ AllHold(got, a) /\ OneMore(a, i, str, b) /\ Holds(table[i], x, Append(a[i], str))
    BY <1>2, <1>4
  <2> HIDE DEF a
  <2>2. AllHold([got EXCEPT ![i] = x], b)
    BY <2>1, HoldsMore
  <2>3. h = [k \in DOMAIN table |-> h[k]]
    BY <1>3, <1>5
  <2>. QED  BY <1>5, <2>2, <2>3, Zenon
<1>7. OneCommand(h)
  <2>1. SubLine[1] = <<"vendor_ie">> /\ i \in 1..4 => check_cmd_opcode_not_set
    BY <1>1, ConvertedAlone, Zenon
  <2>. QED  BY <1>5, <2>1, OneCommandMore
<1>8. UpperHolds(p, h)
  <2>1. SubLine[1] = <<"mpsw">> => i # 1
    BY <1>1, Zenon DEF OptionOf, OptionKind
  <2>2. i # 1 => h[1] = got[1]
    BY <1>3, <1>5
  <2>. QED  BY <2>1, <2>2, UpperKeeps, Zenon DEF UpperStays
<1>. QED  BY <1>6, <1>7, <1>8

\* Before a letter of option i.
Before(j, i) ==
  /\ Inside(optind, place, j) /\ i = ShortOption(table, Head(place)) /\ i # 0
  /\ AllHold(got, Part(table, Reading(optind - 1), Tail(vector[optind + 1]), j - 2).args)

LEMMA BeforeIs ==
  ASSUME LoopTyped, GoesOn(optind, place, got), NEW j, NEW i, Before(j, i),
         NEW r, r = Part(table, Reading(optind - 1), Tail(vector[optind + 1]), j - 2)
  PROVE  /\ Ready(Reading(optind - 1)) /\ OneCommand(got) /\ UpperHolds(optind, got) /\ Clear(optind)
         /\ optind \in 1..(Len(vector) - 1) /\ IsOption(vector[optind + 1]) /\ vector[optind + 1] \in Args
         /\ i \in DOMAIN table /\ OptionOf(table[i], i, SubLine[1]) /\ Tail(place) \in Args
         /\ LettersOf(vector[optind + 1], j, place) /\ j \in 2..Len(vector[optind + 1])
         /\ AllFlags(table, Tail(vector[optind + 1]), j - 2)
         /\ Reads(table, r) /\ AllHold(got, r.args) /\ Inside(optind, place, j)
<1>1. Ready(Reading(optind - 1)) /\ OneCommand(got) /\ UpperHolds(optind, got) /\ Clear(optind)
  BY Zenon DEF GoesOn, Reached
<1>2. Inside(optind, place, j) /\ i = ShortOption(table, Head(place)) /\ i # 0 /\ AllHold(got, r.args)
  BY Zenon DEF Before
<1>3. optind \in 1..Len(vector)
  BY DEF LoopTyped
<1> DEFINE A == vector[optind + 1]
<1>4. A = vector[optind + 1] /\ r = Part(table, Reading(optind - 1), Tail(A), j - 2)
  OBVIOUS
<1> HIDE DEF A
<1>5. /\ optind \in 1..(Len(vector) - 1) /\ A \in Args /\ IsOption(A) /\ j \in 2..Len(A)
      /\ LettersOf(A, j, place) /\ i \in DOMAIN table /\ AllFlags(table, Tail(A), j - 2) /\ Reads(table, r)
  BY <1>1, <1>2, <1>3, <1>4, LetterAt
<1>6. OptionOf(table[i], i, SubLine[1]) /\ Tail(place) \in Args
  BY <1>5, LoopLine, Zenon DEF LettersOf
<1>. QED  BY <1>1, <1>2, <1>5, <1>6, Zenon DEF A

\* Behind argument o + 1, or its value.
LEMMA Behind ==
  ASSUME LoopTyped, NEW n \in 1..(Len(vector) - 1), NEW p, p = n + 1, Ready(Reading(n)),
         NEW h, AllHold(h, Reading(n).args), h = [k \in DOMAIN table |-> h[k]],
         OneCommand(h), UpperHolds(p, h), Clear(p)
  PROVE  Onward(p, <<>>, h)
<1>1. Len(vector) \in Nat
  BY LoopLine
<1>2. p \in 1..Len(vector) /\ p - 1 = n /\ <<>> \in Args
  BY <1>1 DEF Args
<1>. QED  BY <1>2, Zenon DEF Onward, GoesOn, Reached

LEMMA FlagSteps ==
  ASSUME LoopTyped, GoesOn(optind, place, got), NEW j, NEW i, Before(j, i), table[i].kind \in {"lit", "help"},
         Found(i, <<>>, Tail(place), IF Tail(place) = <<>> THEN optind + 1 ELSE optind)
  PROVE  Refuse \/ Moves
<1> DEFINE A == vector[optind + 1]
           acc == Reading(optind - 1)
           r == Part(table, acc, Tail(A), j - 2)
           s == Read(table, acc, A)
           next == IF Tail(place) = <<>> THEN optind + 1 ELSE optind
           x == Converted(i, <<>>).value
<1> SUFFICES ASSUME Fine(Converted(i, <<>>)), FoundAs(i, x, Tail(place), next) PROVE Moves
  <2> HIDE DEF Moves
  <2>. QED  BY FoundIs, Zenon
<1>1. /\ Ready(acc) /\ OneCommand(got) /\ UpperHolds(optind, got) /\ Clear(optind)
      /\ optind \in 1..(Len(vector) - 1) /\ IsOption(A) /\ A \in Args
      /\ i \in DOMAIN table /\ OptionOf(table[i], i, SubLine[1]) /\ Tail(place) \in Args
      /\ Reads(table, r) /\ AllHold(got, r.args) /\ Inside(optind, place, j)
  BY BeforeIs
<1>2. table[i].kind = "lit" /\ ~HasValue(table[i]) /\ table[i].kind # "bounds"
  <2>1. table[i].kind = "lit"
    BY NeverHelp, Zenon
  <2>. QED  BY <2>1 DEF HasValue
<1>3. SubLine[1] # <<"mpsw">>
  BY <1>1, <1>2, SMT DEF OptionOf, OptionKind
<1>4. i = ShortOption(table, Head(place)) /\ i # 0 /\ optind \in 1..Len(vector) /\ <<>> \in Args
  <2>1. <<>> \in Args
    BY DEF Args
  <2>. QED  BY <2>1, Zenon DEF Before, LoopTyped
<1>5. /\ Tail(place) = <<>> => Ready(s) /\ OneMore(r.args, i, <<>>, s.args)
      /\ Tail(place) # <<>> =>
           /\ Inside(optind, Tail(place), j + 1)
           /\ OneMore(r.args, i, <<>>, Part(table, acc, Tail(A), (j + 1) - 2).args)
  BY <1>1, <1>2, <1>4, FlagReads
<1> DEFINE h == [got EXCEPT ![i] = <<x>>]
<1>6. got' = h /\ place' = Tail(place) /\ optind' = next /\ pass' = pass /\ errors' = errors
  BY Zenon DEF FoundAs
<1>7. ASSUME NEW b, OneMore(r.args, i, <<>>, b), NEW p
      PROVE  AllHold(h, b) /\ h = [k \in DOMAIN table |-> h[k]] /\ OneCommand(h) /\ UpperHolds(p, h)
  <2> HIDE DEF r
  <2>. QED  BY <1>1, <1>2, <1>3, <1>4, <1>7, ValueHolds, Zenon
<1>8. CASE Tail(place) = <<>>
  <2>1. Ready(s) /\ OneMore(r.args, i, <<>>, s.args)
    BY <1>5, <1>8
  <2>2. Reading(optind) = s
    <3>1. optind + 1 \notin PassedOver(SubLine)
      BY <1>3, MpswLine, Zenon
    <3>2. optind \in 0..(Len(vector) - 1) /\ optind > 0
      BY <1>1
    <3>. QED  BY <3>1, <3>2, LoopReads, Zenon
  <2>3. Clear(optind + 1)
    BY <1>1, OptionMove, Zenon
  <2> HIDE DEF h, r, s
  <2>4. AllHold(h, s.args) /\ h = [k \in DOMAIN table |-> h[k]] /\ OneCommand(h) /\ UpperHolds(optind + 1, h)
    BY <1>7, <2>1
  <2>5. Onward(optind + 1, <<>>, h)
    BY <1>1, <2>1, <2>2, <2>3, <2>4, Behind
  <2>. QED  BY <1>6, <1>8, <2>5, Zenon DEF Moves
<1>9. CASE Tail(place) # <<>>
  <2> DEFINE q == Part(table, acc, Tail(A), (j + 1) - 2)
  <2>1. Inside(optind, Tail(place), j + 1) /\ OneMore(r.args, i, <<>>, q.args)
    BY <1>5, <1>9
  <2>2. AllHold(h, q.args) /\ h = [k \in DOMAIN table |-> h[k]] /\ OneCommand(h) /\ UpperHolds(optind, h)
    <3> HIDE DEF h, r, q
    <3>. QED  BY <1>7, <2>1
  <2> HIDE DEF h
  <2>3. j + 1 \in Nat /\ optind < Len(vector)
    <3>1. j + 1 \in 2..Len(A)
      BY <2>1, Zenon DEF Inside
    <3>. QED  BY <2>1, <3>1 DEF Inside
  <2>4. Reached(optind, Tail(place), h)
    BY <1>1, <2>1, <2>2, <2>3, Zenon DEF Reached
  <2>5. Onward(optind, Tail(place), h)
    BY <1>1, <1>4, <2>2, <2>3, <2>4, Zenon DEF Onward, GoesOn
  <2>. QED  BY <1>6, <1>9, <2>5, Zenon DEF Moves
<1>. QED  BY <1>8, <1>9

LEMMA OnlyBounds ==
  ASSUME LoopTyped, GoesOn(optind, place, got), NEW j, NEW i, Before(j, i), SubLine[1] = <<"mpsw">>
  PROVE  /\ j = 2
         /\ Tail(place) = <<>> => (vector[optind + 1] = BoundOption <=> table[i].kind = "bounds")
<1> DEFINE A == vector[optind + 1]
<1>1. /\ A \in Args /\ IsOption(A) /\ j \in 2..Len(A) /\ LettersOf(A, j, place)
      /\ i \in DOMAIN table /\ OptionOf(table[i], i, SubLine[1])
      /\ AllFlags(table, Tail(A), j - 2)
  BY BeforeIs
<1>2. Len(table) \in Nat /\ DOMAIN table = 1..Len(table) /\ Len(A) \in Nat
  BY <1>1, LoopLine, ArgLength
<1>3. j = 2
  <2> SUFFICES ASSUME j # 2 PROVE FALSE
    OBVIOUS
  <2>1. 1 \in 1..(j - 2)
    BY <1>1, <1>2
  <2> DEFINE f == ShortOption(table, Tail(A)[1])
  <2>2. f # 0 /\ ~HasValue(table[f])
    BY <1>1, <2>1, Zenon DEF AllFlags
  <2>3. f \in DOMAIN table
    <3> HIDE DEF A
    <3>. QED  BY <1>2, <2>2, ShortOptionIs
  <2> HIDE DEF f
  <2>4. table[f].kind = "lit"
    BY <2>2, Zenon DEF HasValue
  <2>5. OptionOf(table[f], f, SubLine[1])
    BY <2>3, LoopLine, Zenon
  <2>. QED  BY <2>4, <2>5, SMT DEF OptionOf, OptionKind
<1>4. ASSUME Tail(place) = <<>> PROVE A = BoundOption <=> table[i].kind = "bounds"
  <2>1. j = Len(A) /\ Head(place) = A[j]
    BY <1>1, <1>4, Zenon DEF LettersOf
  <2>2. A[1] = "-" /\ Len(A) = 2
    BY <1>1, <1>3, <2>1 DEF IsOption
  <2>3. table[i].short = A[2]
    <3>1. i = ShortOption(table, A[2]) /\ i # 0
      BY <1>3, <2>1, Zenon DEF Before
    <3> HIDE DEF A
    <3>. QED  BY <1>2, <3>1, ShortOptionIs
  <2>4. A = BoundOption <=> A[2] = "b"
    <3> HIDE DEF A
    <3>1. A = <<"-", A[2]>>
      BY <1>1, <2>2 DEF Args
    <3>2. <<"-", "b">>[2] = "b"
      OBVIOUS
    <3>. QED  BY <3>1, <3>2, Zenon DEF BoundOption
  <2>. QED  BY <1>1, <2>3, <2>4, SMT DEF OptionOf, OptionKind
<1>. QED  BY <1>3, <1>4

\* A value, in the argument of its option or behind it.
Remains(str) == str = Tail(place)

LEMMA BeforeReads ==
  ASSUME LoopTyped, GoesOn(optind, place, got), NEW j, NEW i, Before(j, i), HasValue(table[i])
  PROVE  LetterGives(i, Tail(place), Part(table, Reading(optind - 1), Tail(vector[optind + 1]), j - 2),
                     Read(table, Reading(optind - 1), vector[optind + 1]))
<1>1. Ready(Reading(optind - 1)) /\ Inside(optind, place, j)
  BY BeforeIs
<1>2. i = ShortOption(table, Head(place)) /\ i # 0 /\ optind \in 1..Len(vector)
  BY Zenon DEF Before, LoopTyped
<1>. QED  BY <1>1, <1>2, LetterReads, Zenon

LEMMA AttachedSteps ==
  ASSUME LoopTyped, GoesOn(optind, place, got), NEW j, NEW i, Before(j, i),
         table[i].kind \notin {"lit", "help", "bounds"},
         NEW str, Remains(str), str # <<>>, Found(i, str, <<>>, optind + 1)
  PROVE  Refuse \/ Moves
<1> DEFINE A == vector[optind + 1]
           acc == Reading(optind - 1)
           r == Part(table, acc, Tail(A), j - 2)
           s == Read(table, acc, A)
           x == Converted(i, str).value
<1> SUFFICES ASSUME Fine(Converted(i, str)), FoundAs(i, x, <<>>, optind + 1) PROVE Moves
  <2> HIDE DEF Moves
  <2>. QED  BY FoundIs, Zenon
<1>1. /\ Ready(acc) /\ OneCommand(got) /\ UpperHolds(optind, got) /\ Clear(optind)
      /\ optind \in 1..(Len(vector) - 1) /\ IsOption(A) /\ A \in Args /\ j \in 2..Len(A)
      /\ i \in DOMAIN table /\ str \in Args /\ LettersOf(A, j, place)
      /\ Reads(table, r) /\ AllHold(got, r.args) /\ Inside(optind, place, j)
  BY BeforeIs, Zenon DEF Remains
<1>2. HasValue(table[i]) /\ table[i].kind # "bounds"
  BY DEF HasValue
<1>3. i = ShortOption(table, Head(place)) /\ i # 0 /\ optind \in 1..Len(vector)
  BY Zenon DEF Before, LoopTyped
<1>4. Ready(s) /\ OneMore(r.args, i, str, s.args)
  <2>1. LetterGives(i, Tail(place), r, s)
    BY <1>2, BeforeReads, Zenon
  <2> HIDE DEF r, s
  <2>. QED  BY <2>1, Zenon DEF LetterGives, Remains
<1>5. Reading(optind) = s
  <2>1. A # BoundOption
    <3>1. j # Len(A) /\ j \in 2..Len(A) /\ Len(A) \in Nat
      BY <1>1, ArgLength, Zenon DEF LettersOf, Remains
    <3> HIDE DEF A
    <3>2. Len(A) # 2
      <4>1. ASSUME NEW n \in Nat, j \in 2..n, j # n PROVE n # 2
        BY <4>1
      <4>. QED  BY <3>1, <4>1, Zenon
    <3>3. Len(BoundOption) = 2
      BY DEF BoundOption
    <3>. QED  BY <3>2, <3>3, Zenon
  <2>2. optind + 1 \notin PassedOver(SubLine)
    BY <1>1, <2>1, NotPassed, Zenon
  <2>3. optind \in 0..(Len(vector) - 1) /\ optind > 0
    BY <1>1
  <2>. QED  BY <2>2, <2>3, LoopReads, Zenon
<1>6. Clear(optind + 1) /\ (SubLine[1] = <<"mpsw">> => UpperSoFar(optind + 1) = UpperSoFar(optind))
  BY <1>1, OptionMove, Zenon
<1> DEFINE h == [got EXCEPT ![i] = <<x>>]
<1>7. got' = h /\ place' = <<>> /\ optind' = optind + 1 /\ pass' = pass /\ errors' = errors
  BY Zenon DEF FoundAs
<1>8. AllHold(h, s.args) /\ h = [k \in DOMAIN table |-> h[k]] /\ OneCommand(h) /\ UpperHolds(optind + 1, h)
  <2> HIDE DEF r, s
  <2>. QED  BY <1>1, <1>2, <1>4, <1>6, ValueHolds, Zenon
<1> HIDE DEF h, r, s
<1>9. Onward(optind + 1, <<>>, h)
  BY <1>1, <1>4, <1>5, <1>6, <1>8, Behind
<1>. QED  BY <1>7, <1>9, Zenon DEF Moves

LEMMA NextReads ==
  ASSUME LoopTyped, GoesOn(optind, place, got), NEW j, NEW i, Before(j, i), HasValue(table[i]),
         Tail(place) = <<>>, optind + 1 < limit,
         SubLine[1] = <<"mpsw">> =>
           /\ vector[optind + 2] # BoundOption
           /\ vector[optind + 1] # BoundOption \/ Plain(vector[optind + 2])
  PROVE  /\ optind \in 1..(Len(vector) - 2) /\ vector[optind + 2] \in Args /\ Ready(Reading(optind + 1))
         /\ OneMore(Part(table, Reading(optind - 1), Tail(vector[optind + 1]), j - 2).args, i,
                    vector[optind + 2], Reading(optind + 1).args)
<1> DEFINE A == vector[optind + 1]
           acc == Reading(optind - 1)
           r == Part(table, acc, Tail(A), j - 2)
           s == Read(table, acc, A)
           str == vector[optind + 2]
           t == ReadValue(s, str)
<1>1. /\ Ready(acc) /\ OneCommand(got) /\ UpperHolds(optind, got) /\ Clear(optind)
      /\ optind \in 1..(Len(vector) - 1) /\ IsOption(A) /\ A \in Args
      /\ i \in DOMAIN table /\ OptionOf(table[i], i, SubLine[1])
      /\ Reads(table, r) /\ AllHold(got, r.args) /\ Inside(optind, place, j)
  BY BeforeIs
<1>3. i = ShortOption(table, Head(place)) /\ i # 0 /\ optind \in 1..Len(vector)
  BY Zenon DEF Before, LoopTyped
<1>4. s.wait = i /\ ~s.bad /\ s.full = FALSE /\ s.args = r.args
  <2>1. LetterGives(i, Tail(place), r, s)
    BY BeforeReads, Zenon
  <2> HIDE DEF r, s
  <2>. QED  BY <2>1, Zenon DEF LetterGives
<1>5. /\ optind \in 1..(Len(vector) - 2) /\ optind + 1 \in 1..(Len(vector) - 1) /\ str \in Args
      /\ optind \in 0..(Len(vector) - 1) /\ optind > 0
      /\ optind + 1 \in 0..(Len(vector) - 1) /\ optind + 1 > 0 /\ (optind + 1) - 1 = optind
      /\ (optind + 1) + 1 = optind + 2
  <2>1. limit = Len(vector)
    BY DEF LoopTyped
  <2>2. Len(vector) \in Nat /\ \A k \in 1..Len(vector) : vector[k] \in Args
    BY LoopLine
  <2>3. optind + 2 \in 1..Len(vector)
    BY <1>1, <2>1, <2>2
  <2>. QED  BY <1>1, <2>1, <2>2, <2>3
<1>7. Reading(optind) = s /\ Reads(table, s)
  <2>1. optind + 1 \notin PassedOver(SubLine)
    BY <1>1, NotPassed, MpswLine, Zenon
  <2>. QED  BY <1>5, <2>1, LoopReads, Zenon
<1>8. Reading(optind + 1) = t
  <2>1. optind + 2 \notin PassedOver(SubLine)
    <3>1. ~Plain(A)
      BY <1>1, NotPlain, Zenon
    <3>2. SubLine[1] # <<"mpsw">> => optind + 2 \notin PassedOver(SubLine)
      BY MpswLine, Zenon
    <3>3. SubLine[1] = <<"mpsw">> => optind + 2 \notin PassedOver(SubLine)
      BY <1>5, <3>1, ValueNotPassed, Zenon
    <3>. QED  BY <3>2, <3>3
  <2>2. Reading(optind + 1) = Read(table, s, str)
    <3> DEFINE n == optind + 1
    <3>1. n \in 0..(Len(vector) - 1) /\ n > 0 /\ n + 1 \notin PassedOver(SubLine) /\ n - 1 = optind /\ n + 1 = optind + 2
      BY <1>5, <2>1
    <3> HIDE DEF n
    <3>2. Reading(n) = Read(table, Reading(n - 1), vector[n + 1])
      BY <3>1, LoopReads, Zenon
    <3>. QED  BY <1>7, <3>1, <3>2, Zenon DEF n
  <2>3. s.wait # 0
    BY <1>3, <1>4
  <2> HIDE DEF s, str
  <2>. QED  BY <2>2, <2>3, ReadAwaited, Zenon
<1>9. Ready(t) /\ OneMore(r.args, i, str, t.args)
  <2>1. Sound(table) /\ s.wait # 0
    BY <1>3, <1>4, LoopLine
  <2>2. /\ t.args = [s.args EXCEPT ![s.wait] = Append(@, str)]
        /\ t.bad = (s.bad \/ (s.full /\ str = <<>>)) /\ t.wait = 0 /\ ~t.over
    <3> HIDE DEF s, str
    <3>. QED  BY <1>5, <1>7, <2>1, ReadValueIs
  <2> HIDE DEF s, r, str, t
  <2>3. ~t.bad
    BY <1>4, <2>2, Zenon
  <2>4. t.args = [r.args EXCEPT ![i] = Append(@, str)]
    BY <1>4, <2>2, Zenon
  <2>. QED  BY <2>2, <2>3, <2>4, Zenon DEF Ready, OneMore
<1>. QED  BY <1>5, <1>8, <1>9, Zenon

LEMMA NextSteps ==
  ASSUME LoopTyped, GoesOn(optind, place, got), NEW j, NEW i, Before(j, i),
         table[i].kind \notin {"lit", "help", "bounds"},
         Tail(place) = <<>>, optind + 1 < limit, Found(i, vector[optind + 2], <<>>, optind + 2)
  PROVE  Refuse \/ Moves
<1> DEFINE A == vector[optind + 1]
           acc == Reading(optind - 1)
           r == Part(table, acc, Tail(A), j - 2)
           str == vector[optind + 2]
           x == Converted(i, str).value
<1> SUFFICES ASSUME Fine(Converted(i, str)), FoundAs(i, x, <<>>, optind + 2) PROVE Moves
  <2> HIDE DEF Moves
  <2>. QED  BY FoundIs, Zenon
<1>1. /\ Ready(acc) /\ OneCommand(got) /\ UpperHolds(optind, got) /\ Clear(optind)
      /\ optind \in 1..(Len(vector) - 1) /\ IsOption(A) /\ A \in Args
      /\ i \in DOMAIN table /\ OptionOf(table[i], i, SubLine[1])
      /\ Reads(table, r) /\ AllHold(got, r.args) /\ Inside(optind, place, j)
  BY BeforeIs
<1>2. HasValue(table[i]) /\ table[i].kind # "bounds"
  BY DEF HasValue
<1>3. SubLine[1] = <<"mpsw">> => A # BoundOption /\ str # BoundOption
  <2>1. SubLine[1] = <<"mpsw">> => A # BoundOption
    BY <1>2, OnlyBounds, Zenon
  <2>2. SubLine[1] = <<"mpsw">> => str # BoundOption
    BY <1>1, <1>2, BoundNoValue, Zenon
  <2>. QED  BY <2>1, <2>2
<1>4. /\ optind \in 1..(Len(vector) - 2) /\ str \in Args /\ Ready(Reading(optind + 1))
      /\ OneMore(r.args, i, str, Reading(optind + 1).args)
  BY <1>2, <1>3, NextReads, Zenon
<1>5. optind + 1 \in 1..(Len(vector) - 1) /\ optind + 2 = (optind + 1) + 1
  <2>1. Len(vector) \in Nat
    BY LoopLine
  <2>. QED  BY <1>4, <2>1
<1>6. Clear(optind + 2) /\ (SubLine[1] = <<"mpsw">> => UpperSoFar(optind + 2) = UpperSoFar(optind))
  <2>1. SubLine[1] = <<"mpsw">> => ~UpperAt(optind + 3)
    <3>1. (optind + 3) - 2 = optind + 1
      BY <1>4
    <3>. QED  BY <1>3, <3>1, Zenon DEF UpperAt
  <2>. QED  BY <1>1, <1>4, <2>1, ValueMove, Zenon
<1> DEFINE h == [got EXCEPT ![i] = <<x>>]
<1>7. got' = h /\ place' = <<>> /\ optind' = optind + 2 /\ pass' = pass /\ errors' = errors
  BY Zenon DEF FoundAs
<1>8. /\ AllHold(h, Reading(optind + 1).args) /\ h = [k \in DOMAIN table |-> h[k]]
      /\ OneCommand(h) /\ UpperHolds(optind + 2, h)
  <2> DEFINE b == Reading(optind + 1).args
  <2>1. OneMore(r.args, i, str, b)
    BY <1>4
  <2> HIDE DEF r, str, b
  <2>2. AllHold(h, b) /\ h = [k \in DOMAIN table |-> h[k]] /\ OneCommand(h) /\ UpperHolds(optind + 2, h)
    BY <1>1, <1>2, <1>4, <1>6, <2>1, ValueHolds, Zenon
  <2>. QED  BY <2>2 DEF b
<1> HIDE DEF h, r
<1>9. Onward(optind + 2, <<>>, h)
  BY <1>4, <1>5, <1>6, <1>8, Behind
<1>. QED  BY <1>7, <1>9, Zenon DEF Moves

-------------------------------------------------------------------------------
\* Bounds.

\* The words behind an option.
WordAt(k) == k <= Len(vector) /\ Plain(vector[k])

LEMMA PairAt ==
  ASSUME NEW s \in Seq(Args), NEW a \in 1..Len(s), NEW b \in 1..Len(s), b = a + 1
  PROVE  SubSeq(s, a, b) = <<s[a], s[b]>>
<1> DEFINE q == SubSeq(s, a, b)
<1>1. q \in Seq(Args) /\ Len(q) = 2 /\ q[1] = s[a] /\ q[2] = s[b]
  OBVIOUS
<1> HIDE DEF q
<1>2. q = <<q[1], q[2]>>
  BY <1>1
<1>. QED  BY <1>1, <1>2, Zenon DEF q

LEMMA WordsFound ==
  ASSUME LoopTyped, NEW next \in 1..(Len(vector) + 1), NEW words, words = BoundsWords(next)
  PROVE  \/ words = <<>> /\ ~WordAt(next)
         \/ words = <<vector[next]>> /\ WordAt(next) /\ ~WordAt(next + 1)
         \/ words = <<vector[next], vector[next + 1]>> /\ WordAt(next) /\ WordAt(next + 1)
<1>1. words = IF ~WordAt(next) THEN <<>>
              ELSE IF WordAt(next + 1) THEN SubSeq(vector, next, next + 1) ELSE <<vector[next]>>
  BY DEF BoundsWords, WordAt, Plain
<1>2. ASSUME WordAt(next + 1) PROVE SubSeq(vector, next, next + 1) = <<vector[next], vector[next + 1]>>
  <2>1. vector \in Seq(Args) /\ Len(vector) \in Nat
    BY LoopLine
  <2>2. next \in 1..Len(vector) /\ next + 1 \in 1..Len(vector)
    BY <1>2, <2>1 DEF WordAt
  <2>. QED  BY <2>1, <2>2, PairAt
<1>. QED  BY <1>1, <1>2, Zenon

\* What is found of them.
BoundsAs(i, words, v) ==
  /\ \A k \in DOMAIN words : IsNumber(words[k])
  /\ words # <<>> => v[1] = WordOf(words[1])
  /\ words = <<>> => got[i] # <<>> /\ v[1] = got[i][1][1]
  /\ Len(words) = 2 => v[2] = WordOf(words[2])
  /\ Len(words) < 2 => v[2] = IF got[i] = <<>> THEN 0 ELSE got[i][1][2]

LEMMA BoundsFound ==
  ASSUME NEW i, NEW next, FoundBounds(i, next), NEW words, words = BoundsWords(next),
         words = <<>> \/ (\E a : words = <<a>>) \/ (\E a, b : words = <<a, b>>)
  PROVE  Refuse \/ \E v : BoundsAs(i, words, v) /\ FoundAs(i, v, <<>>, next - 1 + Len(words))
<1> DEFINE old == IF got[i] = <<>> THEN <<0, 0>> ELSE got[i][1]
           new == [k \in 1..2 |-> IF k <= Len(words) THEN WordOf(words[k]) ELSE old[k]]
<1> SUFFICES ASSUME ~Refuse PROVE BoundsAs(i, words, new) /\ FoundAs(i, new, <<>>, next - 1 + Len(words))
  <2> HIDE DEF new
  <2>. QED  BY Zenon
<1>1. /\ \A k \in DOMAIN words : IsNumber(words[k])
      /\ new[1] # new[2]
      /\ got' = [got EXCEPT ![i] = <<new>>] /\ place' = <<>> /\ optind' = next - 1 + Len(words)
      /\ pass' = pass /\ errors' = errors
  BY DEF FoundBounds
<1>2. /\ new[1] = IF 1 <= Len(words) THEN WordOf(words[1]) ELSE old[1]
      /\ new[2] = IF 2 <= Len(words) THEN WordOf(words[2]) ELSE old[2]
  OBVIOUS
<1>3. got[i] = <<>> => old[1] = 0 /\ old[2] = 0
  OBVIOUS
<1>4. got[i] # <<>> => old[1] = got[i][1][1] /\ old[2] = got[i][1][2]
  OBVIOUS
<1> HIDE DEF new, old
<1>5. CASE words = <<>>
  <2>1. Len(words) = 0
    BY <1>5
  <2>2. new[1] = old[1] /\ new[2] = old[2]
    BY <1>2, <2>1
  <2>3. got[i] # <<>>
    BY <1>1, <1>3, <2>2, Zenon
  <2>4. Len(words) # 2
    BY <2>1
  <2>. QED  BY <1>1, <1>3, <1>4, <1>5, <2>2, <2>3, <2>4, Zenon DEF BoundsAs, FoundAs
<1>6. CASE \E a : words = <<a>>
  <2>1. Len(words) = 1 /\ words # <<>>
    BY <1>6
  <2>2. new[1] = WordOf(words[1]) /\ new[2] = old[2] /\ Len(words) # 2
    BY <1>2, <2>1
  <2>3. old[2] = IF got[i] = <<>> THEN 0 ELSE got[i][1][2]
    BY <1>3, <1>4, Zenon
  <2>. QED  BY <1>1, <2>1, <2>2, <2>3, Zenon DEF BoundsAs, FoundAs
<1>7. CASE \E a, b : words = <<a, b>>
  <2>1. Len(words) = 2 /\ words # <<>>
    BY <1>7
  <2>2. new[1] = WordOf(words[1]) /\ new[2] = WordOf(words[2]) /\ ~(Len(words) < 2)
    BY <1>2, <2>1
  <2>. QED  BY <1>1, <2>1, <2>2, Zenon DEF BoundsAs, FoundAs
<1>. QED  BY <1>5, <1>6, <1>7

LEMMA HoldsSame ==
  ASSUME LoopTyped, NEW a, AllHold(got, a), NEW i \in DOMAIN table, NEW x, Holds(table[i], x, a[i])
  PROVE  AllHold([got EXCEPT ![i] = x], a)
<1> DEFINE h == [got EXCEPT ![i] = x]
<1> SUFFICES ASSUME NEW k \in DOMAIN table PROVE Holds(table[k], h[k], a[k])
  BY Zenon DEF AllHold
<1>1. k = i => h[k] = x
  BY DEF LoopTyped
<1>2. k # i => h[k] = got[k]
  BY DEF LoopTyped
<1>3. Holds(table[k], got[k], a[k])
  BY Zenon DEF AllHold
<1>. QED  BY <1>1, <1>2, <1>3, Zenon

LEMMA BoundsHold ==
  ASSUME NEW i, table[i].kind = "bounds", NEW words, NEW v, BoundsAs(i, words, v),
         NEW vs \in Seq(Args), Holds(table[i], got[i], vs)
  PROVE  /\ words = <<>> => Holds(table[i], <<v>>, vs)
         /\ words # <<>> /\ words[1] \in Args => Holds(table[i], <<v>>, Append(vs, words[1]))
<1> DEFINE kind == table[i].kind
<1>1. kind \notin {"word", "range", "uint64", "element", "oui"} /\ <<v>> # <<>> /\ <<v>>[1] = v
  OBVIOUS
<1> DEFINE u == <<v>>
<1>2. u # <<>> /\ u[1] = v
  OBVIOUS
<1> HIDE DEF u
<1>3. ASSUME words = <<>> PROVE Holds(table[i], u, vs)
  <2>1. got[i] # <<>> /\ v[1] = got[i][1][1]
    BY <1>3, Zenon DEF BoundsAs
  <2>2. vs # <<>> /\ got[i][1][1] = WordOf(vs[Len(vs)])
    BY <2>1, Zenon DEF Holds
  <2>. QED  BY <1>1, <1>2, <2>1, <2>2, Zenon DEF Holds
<1>4. ASSUME words # <<>>, words[1] \in Args PROVE Holds(table[i], u, Append(vs, words[1]))
  <2> DEFINE str == words[1]
             more == Append(vs, str)
  <2>1. more # <<>> /\ more[Len(more)] = str
    BY <1>4, AppendIs
  <2>2. v[1] = WordOf(str)
    BY <1>4, Zenon DEF BoundsAs
  <2> HIDE DEF str, more
  <2>3. Holds(table[i], u, more)
    BY <1>1, <1>2, <2>1, <2>2, Zenon DEF Holds
  <2>. QED  BY <2>3 DEF more, str
<1>. QED  BY <1>3, <1>4, Zenon DEF u

\* The other parts of the invariant, when bounds have been found.
LEMMA BoundsKeep ==
  ASSUME LoopTyped, OneCommand(got), UpperHolds(optind, got), NEW i \in DOMAIN table,
         OptionOf(table[i], i, SubLine[1]), table[i].kind = "bounds", NEW words, NEW v, BoundsAs(i, words, v),
         NEW h, h = [got EXCEPT ![i] = <<v>>], NEW p
  PROVE  /\ SubLine[1] = <<"mpsw">> /\ i = 1 /\ OneCommand(h) /\ h = [k \in DOMAIN table |-> h[k]]
         /\ UpperSoFar(p) = UpperSoFar(optind) /\ Len(words) < 2 => UpperHolds(p, h)
         /\ UpperAt(p) /\ Len(words) = 2 /\ words[2] = vector[p] => UpperHolds(p, h)
<1>1. SubLine[1] = <<"mpsw">> /\ i = 1
  BY SMT DEF OptionOf, OptionKind
<1>2. SubLine[1] # <<"vendor_ie">>
  BY <1>1
<1>3. OneCommand(h)
  BY <1>2, Zenon DEF OneCommand
<1> DEFINE u == <<v>>
<1>4. u # <<>> /\ u[1] = v
  OBVIOUS
<1>5. h[1] = u /\ h = [k \in DOMAIN table |-> h[k]]
  BY <1>1 DEF LoopTyped
<1> HIDE DEF u
<1>6. Len(words) < 2 => UpperStays(got, h)
  BY <1>1, <1>4, <1>5, Zenon DEF BoundsAs, UpperStays
<1>7. Len(words) = 2 => h[1] # <<>> /\ h[1][1][2] = WordOf(words[2])
  BY <1>1, <1>4, <1>5, Zenon DEF BoundsAs
<1>8. vector = SubLine
  BY <1>1, MpswLine, Zenon
<1>9. ASSUME UpperSoFar(p) = UpperSoFar(optind), Len(words) < 2 PROVE UpperHolds(p, h)
  BY <1>6, <1>9, UpperKeeps, Zenon
<1>10. ASSUME UpperAt(p), Len(words) = 2, words[2] = vector[p] PROVE UpperHolds(p, h)
  BY <1>7, <1>8, <1>10, UpperMore, Zenon
<1>. QED  BY <1>1, <1>3, <1>5, <1>9, <1>10, Zenon

LEMMA BoundsHere ==
  ASSUME LoopTyped, GoesOn(optind, place, got), NEW j, NEW i, Before(j, i), table[i].kind = "bounds"
  PROVE  /\ SubLine[1] = <<"mpsw">> /\ i \in DOMAIN table /\ OptionOf(table[i], i, SubLine[1])
         /\ Reads(table, Reading(optind - 1)) /\ Ready(Reading(optind - 1))
         /\ AllHold(got, Reading(optind - 1).args) /\ Reading(optind - 1).args[i] \in Seq(Args)
         /\ DOMAIN (Reading(optind - 1).args) = DOMAIN table
         /\ Holds(table[i], got[i], Reading(optind - 1).args[i])
         /\ Part(table, Reading(optind - 1), Tail(vector[optind + 1]), j - 2).args = Reading(optind - 1).args
<1> DEFINE A == vector[optind + 1]
           acc == Reading(optind - 1)
           r == Part(table, acc, Tail(A), j - 2)
<1>1. /\ Ready(acc) /\ optind \in 1..(Len(vector) - 1) /\ IsOption(A) /\ A \in Args
      /\ i \in DOMAIN table /\ OptionOf(table[i], i, SubLine[1])
      /\ Reads(table, r) /\ AllHold(got, r.args)
  BY BeforeIs
<1>2. optind - 1 \in 0..(Len(vector) - 1)
  BY <1>1, LoopLine
<1>3. SubLine[1] = <<"mpsw">>
  BY <1>1, SMT DEF OptionOf, OptionKind
<1>4. j = 2
  BY <1>3, OnlyBounds, Zenon
<1>5. Reads(table, acc) /\ Sound(table) /\ Tail(A) \in Args
  <2>1. Reads(table, acc) /\ Sound(table)
    BY <1>2, LoopReads, LoopLine, Zenon
  <2>. QED  BY <1>1, <2>1, TailIs DEF IsOption
<1>6. r.args = acc.args
  <2>1. j - 2 = 0
    BY <1>4
  <2>. QED  BY <1>5, <2>1, PartNone, Zenon
<1>7. AllHold(got, acc.args) /\ Holds(table[i], got[i], acc.args[i])
  <2> HIDE DEF r, acc
  <2>. QED  BY <1>1, <1>6 DEF AllHold
<1>8. acc.args[i] \in Seq(Args) /\ DOMAIN (acc.args) = DOMAIN table
  <2> HIDE DEF acc
  <2>. QED  BY <1>1, <1>5 DEF Reads
<1>. QED  BY <1>1, <1>3, <1>5, <1>6, <1>7, <1>8, Zenon

\* In the argument of the option, `-b5`: nothing is taken, the option is looked at again.
LEMMA BoundsAttached ==
  ASSUME LoopTyped, GoesOn(optind, place, got), NEW j, NEW i, Before(j, i), table[i].kind = "bounds",
         FoundBounds(i, optind + 1)
  PROVE  Refuse \/ Moves
<1> DEFINE A == vector[optind + 1]
           acc == Reading(optind - 1)
           r == Part(table, acc, Tail(A), j - 2)
<1>1. /\ Ready(acc) /\ OneCommand(got) /\ UpperHolds(optind, got) /\ Clear(optind)
      /\ optind \in 1..(Len(vector) - 1) /\ IsOption(A) /\ A \in Args
      /\ i \in DOMAIN table /\ OptionOf(table[i], i, SubLine[1])
      /\ Reads(table, r) /\ AllHold(got, r.args)
  BY BeforeIs
<1>2. optind + 1 \in 1..(Len(vector) + 1) /\ optind - 1 \in 0..(Len(vector) - 1) /\ optind \in 1..Len(vector)
  BY <1>1, LoopLine
<1> DEFINE words == BoundsWords(optind + 1)
<1>3. words = <<>>
  <2>1. ~WordAt(optind + 1)
    BY <1>1, NotPlain, Zenon DEF WordAt
  <2>. QED  BY <1>2, <2>1, WordsFound, Zenon
<1> SUFFICES ASSUME ~Refuse PROVE Moves
  <2> HIDE DEF Moves
  <2>. QED  BY Zenon
<1>4. PICK v : BoundsAs(i, words, v) /\ FoundAs(i, v, <<>>, (optind + 1) - 1 + Len(words))
  BY <1>3, BoundsFound, Zenon
<1> HIDE DEF words
<1> DEFINE h == [got EXCEPT ![i] = <<v>>]
<1>5. got' = h /\ place' = <<>> /\ optind' = optind /\ pass' = pass /\ errors' = errors
  <2>1. (optind + 1) - 1 + Len(words) = optind
    BY <1>1, <1>3
  <2>. QED  BY <1>4, <2>1, Zenon DEF FoundAs
<1>6. SubLine[1] = <<"mpsw">> /\ OneCommand(h) /\ h = [k \in DOMAIN table |-> h[k]] /\ UpperHolds(optind, h)
  <2>1. Len(words) < 2
    BY <1>3
  <2>2. UpperSoFar(optind) = UpperSoFar(optind)
    OBVIOUS
  <2> HIDE DEF r, acc, A
  <2>3. BoundsAs(i, words, v) /\ OptionOf(table[i], i, SubLine[1]) /\ i \in DOMAIN table
    BY <1>1, <1>4
  <2>4. SubLine[1] = <<"mpsw">> /\ OneCommand(h)
    BY <1>1, <2>3, BoundsKeep, Zenon
  <2>6. h = [k \in DOMAIN table |-> h[k]]
    BY <2>3 DEF LoopTyped
  <2>5. UpperHolds(optind, h)
    BY <1>1, <2>1, <2>2, <2>3, BoundsKeep, Zenon
  <2>. QED  BY <2>4, <2>5, <2>6
<1>7. AllHold(h, acc.args)
  <2>1. AllHold(got, acc.args) /\ Holds(table[i], got[i], acc.args[i]) /\ acc.args[i] \in Seq(Args)
    BY BoundsHere, Zenon
  <2> HIDE DEF acc, h
  <2>2. Holds(table[i], <<v>>, acc.args[i])
    BY <1>3, <1>4, <2>1, BoundsHold, Zenon
  <2>. QED  BY <1>1, <2>1, <2>2, HoldsSame, Zenon DEF h
<1> HIDE DEF h
<1>8. Onward(optind, <<>>, h)
  <2>1. <<>> \in Args
    BY DEF Args
  <2>. QED  BY <1>1, <1>2, <1>6, <1>7, <2>1, Zenon DEF Onward, GoesOn, Reached
<1>. QED  BY <1>5, <1>8, Zenon DEF Moves

LEMMA PassedBare ==
  ASSUME LoopTyped, SubLine[1] = <<"mpsw">>, NEW k \in 2..Len(vector)
  PROVE  /\ vector[k] = BoundOption /\ k < Len(vector) /\ ~Plain(vector[k + 1]) => k \in PassedOver(SubLine)
         /\ UpperAt(k) => k \in PassedOver(SubLine)
<1>1. vector = SubLine
  BY MpswLine, Zenon
<1>2. PassedOver(SubLine) = UpperBounds(SubLine) \cup Unbound(SubLine)
  BY Zenon DEF PassedOver
<1>3. vector[k] = BoundOption /\ k < Len(vector) /\ ~Plain(vector[k + 1]) => k \in Unbound(vector)
  BY Zenon DEF Unbound, BoundsAt, BoundOption
<1>4. UpperAt(k) => k \in UpperBounds(SubLine)
  BY UpperIs, Zenon
<1>. QED  BY <1>1, <1>2, <1>3, <1>4, Zenon

\* Behind the option: one word, two, or none.
LEMMA BoundsNext ==
  ASSUME LoopTyped, GoesOn(optind, place, got), NEW j, NEW i, Before(j, i), table[i].kind = "bounds",
         Tail(place) = <<>>, optind + 1 < limit, FoundBounds(i, optind + 2)
  PROVE  Refuse \/ Moves
<1> DEFINE A == vector[optind + 1]
           B == vector[optind + 2]
           acc == Reading(optind - 1)
           words == BoundsWords(optind + 2)
<1>1. /\ OneCommand(got) /\ UpperHolds(optind, got) /\ Clear(optind)
      /\ optind \in 1..(Len(vector) - 1) /\ IsOption(A) /\ A \in Args
  BY BeforeIs
<1>2. /\ SubLine[1] = <<"mpsw">> /\ i \in DOMAIN table /\ OptionOf(table[i], i, SubLine[1])
      /\ Ready(acc) /\ AllHold(got, acc.args) /\ acc.args[i] \in Seq(Args)
      /\ DOMAIN (acc.args) = DOMAIN table /\ Holds(table[i], got[i], acc.args[i])
      /\ Part(table, acc, Tail(A), j - 2).args = acc.args
  BY BoundsHere, Zenon
<1>3. A = BoundOption
  BY <1>2, OnlyBounds, Zenon
<1>4. /\ optind \in Nat /\ optind \in 1..(Len(vector) - 2) /\ optind + 2 \in 1..Len(vector)
      /\ optind + 2 \in 1..(Len(vector) + 1) /\ B \in Args /\ Len(vector) \in Nat
  <2>1. limit = Len(vector)
    BY DEF LoopTyped
  <2>2. Len(vector) \in Nat /\ \A k \in 1..Len(vector) : vector[k] \in Args
    BY LoopLine
  <2>3. optind + 2 \in 1..Len(vector)
    BY <1>1, <2>1, <2>2
  <2>. QED  BY <1>1, <2>1, <2>2, <2>3
<1>5. \/ words = <<>> /\ ~WordAt(optind + 2)
      \/ words = <<B>> /\ WordAt(optind + 2) /\ ~WordAt((optind + 2) + 1)
      \/ words = <<B, vector[(optind + 2) + 1]>> /\ WordAt(optind + 2) /\ WordAt((optind + 2) + 1)
  BY <1>4, WordsFound, Zenon
<1>6. WordAt(optind + 2) <=> Plain(B)
  BY <1>4 DEF WordAt
<1> SUFFICES ASSUME ~Refuse PROVE Moves
  <2> HIDE DEF Moves
  <2>. QED  BY Zenon
<1>7. PICK v : BoundsAs(i, words, v) /\ FoundAs(i, v, <<>>, (optind + 2) - 1 + Len(words))
  <2>1. words = <<>> \/ (\E a : words = <<a>>) \/ (\E a, b : words = <<a, b>>)
    BY <1>5, Zenon
  <2>. QED  BY <2>1, BoundsFound, Zenon
<1> HIDE DEF words
<1> DEFINE h == [got EXCEPT ![i] = <<v>>]
<1>8. /\ got' = h /\ place' = <<>> /\ pass' = pass /\ errors' = errors
      /\ optind' = (optind + 2) - 1 + Len(words)
  BY <1>7, Zenon DEF FoundAs
<1>9. h = [k \in DOMAIN table |-> h[k]]
  BY DEF LoopTyped
<1>10. /\ OneCommand(h)
       /\ \A p : /\ UpperSoFar(p) = UpperSoFar(optind) /\ Len(words) < 2 => UpperHolds(p, h)
                 /\ UpperAt(p) /\ Len(words) = 2 /\ words[2] = vector[p] => UpperHolds(p, h)
  <2> HIDE DEF acc, A, B
  <2>1. OneCommand(h)
    BY <1>1, <1>2, <1>7, BoundsKeep, Zenon
  <2>2. ASSUME NEW p
        PROVE  /\ UpperSoFar(p) = UpperSoFar(optind) /\ Len(words) < 2 => UpperHolds(p, h)
               /\ UpperAt(p) /\ Len(words) = 2 /\ words[2] = vector[p] => UpperHolds(p, h)
    BY <1>1, <1>2, <1>7, BoundsKeep, Zenon
  <2>. QED  BY <2>1, <2>2, Zenon
<1> DEFINE b == Reading(optind + 1).args
<1>11. ASSUME Plain(B), words # <<>>, words[1] = B
       PROVE  Ready(Reading(optind + 1)) /\ AllHold(h, b)
  <2>1. B # BoundOption
    BY <1>4, <1>11, NotPlain, Zenon
  <2>2. HasValue(table[i])
    BY DEF HasValue
  <2>3. Ready(Reading(optind + 1)) /\ OneMore(acc.args, i, B, b)
    BY <1>2, <1>11, <2>1, <2>2, NextReads, Zenon
  <2> HIDE DEF h, acc, b, B
  <2>4. Holds(table[i], <<v>>, Append(acc.args[i], B))
    BY <1>2, <1>4, <1>7, <1>11, BoundsHold, Zenon
  <2>5. AllHold(h, b)
    BY <1>2, <2>3, <2>4, HoldsMore, Zenon DEF h
  <2>. QED  BY <2>3, <2>5
<1>12. ASSUME NEW n \in 1..(Len(vector) - 1), NEW p, p = n + 1, Ready(Reading(n)), AllHold(h, Reading(n).args),
              UpperHolds(p, h), Clear(p)
       PROVE  Onward(p, <<>>, h)
  <2> HIDE DEF h
  <2>. QED  BY <1>9, <1>10, <1>12, Behind, Zenon
<1>13. CASE words = <<>> /\ ~WordAt(optind + 2)
  <2>1. optind' = optind + 1 /\ Len(words) < 2
    BY <1>4, <1>8, <1>13
  <2>2. Reading(optind) = acc
    <3>1. optind + 1 \in 2..Len(vector) /\ optind + 1 < Len(vector) /\ (optind + 1) + 1 = optind + 2
      BY <1>4
    <3>2. optind + 1 \in PassedOver(SubLine)
      BY <1>2, <1>3, <1>6, <1>13, <3>1, PassedBare, Zenon
    <3>3. optind \in 0..(Len(vector) - 1) /\ optind > 0
      BY <1>1
    <3>. QED  BY <3>2, <3>3, LoopReads, Zenon
  <2>3. AllHold(h, acc.args)
    <3> HIDE DEF h, acc, A, B
    <3>1. Holds(table[i], <<v>>, acc.args[i])
      BY <1>2, <1>7, <1>13, BoundsHold, Zenon
    <3>. QED  BY <1>2, <3>1, HoldsSame, Zenon DEF h
  <2>4. Clear(optind + 1) /\ UpperSoFar(optind + 1) = UpperSoFar(optind)
    BY <1>1, <1>2, OptionMove, Zenon
  <2> HIDE DEF h
  <2>5. UpperHolds(optind + 1, h)
    BY <1>10, <2>1, <2>4
  <2>6. Onward(optind + 1, <<>>, h)
    BY <1>1, <1>2, <1>12, <2>2, <2>3, <2>4, <2>5
  <2>. QED  BY <1>8, <2>1, <2>6, Zenon DEF Moves
<1>14. CASE words = <<B>> /\ WordAt(optind + 2) /\ ~WordAt((optind + 2) + 1)
  <2>1. Len(words) = 1 /\ words # <<>> /\ words[1] = B
    BY <1>14
  <2>2. optind' = optind + 2 /\ Len(words) < 2
    BY <1>4, <1>8, <2>1
  <2>3. Ready(Reading(optind + 1)) /\ AllHold(h, b)
    BY <1>6, <1>11, <1>14, <2>1
  <2>4. Clear(optind + 2) /\ UpperSoFar(optind + 2) = UpperSoFar(optind)
    <3>1. ~UpperAt(optind + 3)
      <4>1. (optind + 2) + 1 = optind + 3
        BY <1>4
      <4>2. UpperAt(optind + 3) => WordAt(optind + 3)
        BY DEF UpperAt, WordAt
      <4>. QED  BY <1>14, <4>1, <4>2
    <3>. QED  BY <1>1, <1>2, <1>4, <3>1, ValueMove, Zenon
  <2> HIDE DEF h
  <2>5. UpperHolds(optind + 2, h)
    BY <1>10, <2>2, <2>4
  <2>6. Onward(optind + 2, <<>>, h)
    <3>1. optind + 1 \in 1..(Len(vector) - 1) /\ optind + 2 = (optind + 1) + 1
      BY <1>4
    <3>. QED  BY <1>12, <2>3, <2>4, <2>5, <3>1
  <2>. QED  BY <1>8, <2>2, <2>6, Zenon DEF Moves
<1>15. CASE words = <<B, vector[(optind + 2) + 1]>> /\ WordAt(optind + 2) /\ WordAt((optind + 2) + 1)
  <2>1. Len(words) = 2 /\ words # <<>> /\ words[1] = B /\ words[2] = vector[(optind + 2) + 1]
    BY <1>15
  <2>2. /\ optind' = optind + 3 /\ (optind + 2) + 1 = optind + 3 /\ optind + 3 \in 4..Len(vector)
        /\ (optind + 3) - 2 = optind + 1 /\ (optind + 3) - 1 = optind + 2
        /\ optind + 2 \in 1..(Len(vector) - 1) /\ optind + 3 \in 2..Len(vector)
        /\ optind + 2 \in 0..(Len(vector) - 1) /\ optind + 2 > 0 /\ (optind + 2) - 1 = optind + 1
        /\ ((optind + 3) + 1) - 2 = optind + 2
    BY <1>4, <1>8, <1>15, <2>1 DEF WordAt
  <2>3. UpperAt(optind + 3)
    <3>1. Plain(vector[(optind + 2) + 1]) /\ Plain(B)
      BY <1>15, Zenon DEF WordAt
    <3>. QED  BY <1>3, <2>2, <3>1, Zenon DEF UpperAt
  <2>4. Reading(optind + 2) = Reading(optind + 1)
    <3>1. optind + 3 \in PassedOver(SubLine)
      BY <1>2, <2>2, <2>3, PassedBare, Zenon
    <3> DEFINE n == optind + 2
    <3>2. n \in 0..(Len(vector) - 1) /\ n > 0 /\ n + 1 \in PassedOver(SubLine) /\ n - 1 = optind + 1
      BY <2>2, <3>1
    <3> HIDE DEF n
    <3>3. Reading(n) = Reading(n - 1)
      BY <3>2, LoopReads, Zenon
    <3>. QED  BY <3>2, <3>3, Zenon DEF n
  <2>5. Ready(Reading(optind + 2)) /\ AllHold(h, Reading(optind + 2).args)
    <3>1. Ready(Reading(optind + 1)) /\ AllHold(h, b)
      BY <1>6, <1>11, <1>15, <2>1
    <3> HIDE DEF h
    <3>. QED  BY <2>4, <3>1, Zenon
  <2>6. Clear(optind + 3)
    <3>1. ~UpperAt((optind + 3) + 1)
      <4>1. vector[optind + 2] # BoundOption
        BY <1>4, <1>6, <1>15, NotPlain, Zenon
      <4>. QED  BY <2>2, <4>1, Zenon DEF UpperAt
    <3>. QED  BY <3>1, ClearIs, Zenon
  <2> HIDE DEF h
  <2>7. UpperHolds(optind + 3, h)
    BY <1>10, <2>1, <2>2, <2>3
  <2>8. Onward(optind + 3, <<>>, h)
    <3>1. optind + 3 = (optind + 2) + 1
      BY <2>2
    <3>. QED  BY <1>12, <2>2, <2>5, <2>6, <2>7, <3>1
  <2>. QED  BY <1>8, <2>2, <2>8, Zenon DEF Moves
<1>. QED  BY <1>5, <1>13, <1>14, <1>15

-------------------------------------------------------------------------------
\* The steps of the loop.

\* The letters that are left are not a dash alone.
LEMMA NoDashLeft ==
  ASSUME LoopTyped, NEW o \in 1..Len(vector), NEW p, NEW j, Inside(o, p, j)
  PROVE  p # <<"-">>
<1> SUFFICES ASSUME p = <<"-">> PROVE FALSE
  OBVIOUS
<1> DEFINE A == vector[o + 1]
<1>1. /\ o < Len(vector) /\ IsOption(A) /\ A # <<"-", "-">> /\ j \in 2..Len(A)
      /\ p = SubSeq(A, j, Len(A)) /\ (j > 2 => A[2] # "-")
  BY Zenon DEF Inside
<1>2. A \in Args /\ ~Dashed(A) /\ Len(A) \in Nat
  <2>1. o + 1 \in 1..Len(vector)
    BY <1>1, LoopLine
  <2>. QED  BY <2>1, LoopLine, ArgLength, Zenon
<1> HIDE DEF A
<1>3. LettersOf(A, j, p)
  BY <1>1, <1>2, LettersAt, Zenon
<1>4. A[j] = "-"
  <2>1. Head(<<"-">>) = "-"
    OBVIOUS
  <2>. QED  BY <1>3, <2>1, Zenon DEF LettersOf
<1>5. CASE j = 2
  <2>1. A[1] = "-" /\ A[2] = "-" /\ Len(A) = 2
    <3>1. Tail(p) = <<>>
      OBVIOUS
    <3>2. j = Len(A)
      BY <1>3, <3>1, Zenon DEF LettersOf
    <3>3. A[1] = "-"
      BY <1>1, <1>2 DEF IsOption, Args
    <3>. QED  BY <1>4, <1>5, <3>2, <3>3, Zenon
  <2>2. A = <<A[1], A[2]>>
    BY <1>2, <2>1 DEF Args
  <2>. QED  BY <1>1, <2>1, <2>2, Zenon
<1>6. CASE j > 2
  <2>1. j \in 3..Len(A)
    BY <1>1, <1>2, <1>6
  <2>. QED  BY <1>1, <1>2, <1>4, <1>6, <2>1, Zenon DEF Dashed
<1>. QED  BY <1>1, <1>5, <1>6

LEMMA LetterGoesOn ==
  ASSUME LoopTyped, GoesOn(optind, place, got), place # <<>>, GetoptLetter(place)
  PROVE  Refuse \/ Moves
<1> DEFINE i == ShortOption(table, Head(place))
           rest == Tail(place)
           next == IF rest = <<>> THEN optind + 1 ELSE optind
<1>1. PICK j \in Nat : /\ Inside(optind, place, j)
                       /\ AllHold(got, Part(table, Reading(optind - 1), Tail(vector[optind + 1]), j - 2).args)
  BY Zenon DEF GoesOn, Reached
<1>2. i # 0 => Before(j, i)
  BY <1>1, Zenon DEF Before
<1>3. place # <<"-">>
  BY <1>1, NoDashLeft DEF LoopTyped
<1>4. \/ i = 0 /\ Refuse
      \/ i # 0 /\ table[i].kind \in {"lit", "help"} /\ Found(i, <<>>, rest, next)
      \/ i # 0 /\ table[i].kind \notin {"lit", "help"} /\ rest # <<>> /\ FoundValue(i, rest, optind + 1)
      \/ i # 0 /\ table[i].kind \notin {"lit", "help"} /\ rest = <<>> /\ Refuse
      \/ /\ i # 0 /\ table[i].kind \notin {"lit", "help"} /\ rest = <<>> /\ optind + 1 < limit
         /\ FoundValue(i, vector[optind + 2], optind + 2)
  <2> HIDE DEF i
  <2>. QED  BY <1>3, Zenon DEF GetoptLetter, i
<1> HIDE DEF i
<1>5. ASSUME i # 0, table[i].kind \in {"lit", "help"}, Found(i, <<>>, rest, next) PROVE Refuse \/ Moves
  BY <1>2, <1>5, FlagSteps, Zenon
<1>6. ASSUME i # 0, table[i].kind \notin {"lit", "help"}, rest # <<>>, FoundValue(i, rest, optind + 1)
      PROVE  Refuse \/ Moves
  <2>1. CASE table[i].kind = "bounds"
    <3>1. FoundBounds(i, optind + 1)
      BY <1>6, <2>1, Zenon DEF FoundValue
    <3>. QED  BY <1>2, <1>6, <2>1, <3>1, BoundsAttached, Zenon
  <2>2. CASE table[i].kind # "bounds"
    <3>1. Found(i, rest, <<>>, optind + 1) /\ Remains(rest) /\ table[i].kind \notin {"lit", "help", "bounds"}
      BY <1>6, <2>2, Zenon DEF FoundValue, Remains
    <3>. QED  BY <1>2, <1>6, <3>1, AttachedSteps, Zenon
  <2>. QED  BY <2>1, <2>2, Zenon
<1>7. ASSUME i # 0, table[i].kind \notin {"lit", "help"}, rest = <<>>, optind + 1 < limit,
             FoundValue(i, vector[optind + 2], optind + 2)
      PROVE  Refuse \/ Moves
  <2>1. CASE table[i].kind = "bounds"
    <3>1. FoundBounds(i, optind + 2)
      BY <1>7, <2>1, Zenon DEF FoundValue
    <3>. QED  BY <1>2, <1>7, <2>1, <3>1, BoundsNext, Zenon
  <2>2. CASE table[i].kind # "bounds"
    <3>1. Found(i, vector[optind + 2], <<>>, optind + 2) /\ table[i].kind \notin {"lit", "help", "bounds"}
      BY <1>7, <2>2, Zenon DEF FoundValue
    <3>. QED  BY <1>2, <1>7, <3>1, NextSteps, Zenon
  <2>. QED  BY <2>1, <2>2, Zenon
<1>. QED  BY <1>4, <1>5, <1>6, <1>7, Zenon

\* An option begins.
LEMMA ArgumentStarts ==
  ASSUME LoopTyped, GoesOn(optind, place, got), place = <<>>, optind < limit,
         IsOption(This), This # <<"-", "-">>, place' = Tail(This), optind' = optind, got' = got,
         pass' = pass, errors' = errors
  PROVE  Moves
<1> DEFINE A == vector[optind + 1]
           acc == Reading(optind - 1)
<1>1. limit = Len(vector) /\ optind \in 1..Len(vector) /\ This = A /\ got = [k \in DOMAIN table |-> got[k]]
  BY DEF LoopTyped, This
<1>2. optind + 1 \in 1..Len(vector) /\ optind - 1 \in 0..(Len(vector) - 1)
  BY <1>1, LoopLine
<1>3. A \in Args /\ Sound(table) /\ Reads(table, acc)
  <2>1. Reads(table, acc)
    BY <1>2, LoopReads, Zenon
  <2>. QED  BY <1>2, <2>1, LoopLine, Zenon
<1>4. Len(A) > 1
  BY <1>1 DEF IsOption
<1>5. Ready(acc) /\ AllHold(got, acc.args) /\ OneCommand(got) /\ UpperHolds(optind, got) /\ Clear(optind)
  <2>1. ASSUME NEW j, Inside(optind, <<>>, j) PROVE FALSE
    <3>1. j \in 2..Len(A) /\ <<>> = SubSeq(A, j, Len(A))
      BY <2>1, Zenon DEF Inside
    <3>2. LettersOf(A, j, <<>>)
      <4> HIDE DEF A
      <4>. QED  BY <1>3, <3>1, LettersAt, Zenon
    <3>. QED  BY <3>2, Zenon DEF LettersOf
  <2>. QED  BY <2>1, Zenon DEF GoesOn, Reached
<1> HIDE DEF A, acc
<1>6. Tail(A) \in Args /\ Tail(A) # <<>> /\ Tail(A) = SubSeq(A, 2, Len(A)) /\ 2 \in 2..Len(A)
  BY <1>3, <1>4, TailIs, GroupStart
<1>7. Inside(optind, Tail(A), 2)
  <2>1. ~(2 > 2) /\ AllFlags(table, Tail(A), 2 - 2)
    BY DEF AllFlags
  <2>. QED  BY <1>1, <1>6, <2>1, Zenon DEF Inside, A
<1>8. Part(table, acc, Tail(A), 2 - 2).args = acc.args
  <2>1. 2 - 2 = 0
    OBVIOUS
  <2>. QED  BY <1>3, <1>6, <2>1, PartNone, Zenon
<1>9. Reached(optind, Tail(A), got)
  <2>1. 2 \in Nat /\ AllHold(got, Part(table, acc, Tail(A), 2 - 2).args)
    BY <1>5, <1>8
  <2>. QED  BY <1>5, <1>7, <2>1, Zenon DEF Reached, A, acc
<1>10. Onward(optind, Tail(A), got)
  BY <1>1, <1>5, <1>6, <1>9, Zenon DEF Onward, GoesOn
<1>. QED  BY <1>1, <1>10, Zenon DEF Moves

-------------------------------------------------------------------------------
\* The end of the loop.

\* What is behind the options does not change them.
Rested(a, b) ==
  b.over /\ b.wait = 0 /\ b.bad = a.bad /\ b.args = a.args /\ (a.words # <<>> => b.words # <<>>)

LEMMA WordsRest ==
  ASSUME LoopTyped, NEW n \in 0..(Len(vector) - 1), Reading(n).over, Reading(n).wait = 0,
         NEW m \in n..(Len(vector) - 1)
  PROVE  Rested(Reading(n), Reading(m))
<1> DEFINE S == {k \in Nat : k \in n..(Len(vector) - 1) => Rested(Reading(n), Reading(k))}
<1>0. Len(vector) \in Nat /\ Sound(table) /\ \A k \in 1..Len(vector) : vector[k] \in Args
  BY LoopLine
<1>1. Rested(Reading(n), Reading(n))
  BY Zenon DEF Rested
<1>2. ASSUME NEW k \in Nat, k \in S PROVE k + 1 \in S
  <2> SUFFICES ASSUME k + 1 \in n..(Len(vector) - 1) PROVE Rested(Reading(n), Reading(k + 1))
    OBVIOUS
  <2>1. CASE k + 1 = n
    BY <1>1, <2>1
  <2>2. CASE k + 1 # n
    <3>1. /\ k \in n..(Len(vector) - 1) /\ k \in 0..(Len(vector) - 1) /\ (k + 1) - 1 = k
          /\ k + 1 \in 0..(Len(vector) - 1) /\ k + 1 > 0 /\ (k + 1) + 1 \in 1..Len(vector)
      BY <1>0, <2>2
    <3> DEFINE a == Reading(k)
               b == Reading(k + 1)
               arg == vector[(k + 1) + 1]
    <3>2. Rested(Reading(n), a)
      BY <1>2, <3>1
    <3>3. Reads(table, a) /\ arg \in Args
      BY <1>0, <3>1, LoopReads, Zenon
    <3>4. b = a \/ b = Read(table, a, arg)
      <4> DEFINE q == k + 1
      <4>1. q \in 0..(Len(vector) - 1) /\ q > 0 /\ q - 1 = k
        BY <3>1
      <4> HIDE DEF q
      <4>2. Reading(q) = Reading(q - 1) \/ Reading(q) = Read(table, Reading(q - 1), vector[q + 1])
        BY <4>1, LoopReads, Zenon
      <4>. QED  BY <4>1, <4>2, Zenon DEF q
    <3> HIDE DEF a, b, arg
    <3>5. b = Read(table, a, arg) => Worded(a, arg, b)
      BY <1>0, <3>2, <3>3, ReadIs, Zenon DEF Rested
    <3>6. a.words \in Seq(Args)
      BY <3>3 DEF Reads
    <3>7. Append(a.words, arg) # <<>>
      BY <3>3, <3>6, AppendIs, Zenon
    <3>8. Rested(Reading(n), b)
      BY <3>2, <3>4, <3>5, <3>7, Zenon DEF Rested, Worded
    <3>. QED  BY <3>8 DEF b
  <2>. QED  BY <2>1, <2>2
<1>3. 0 \in S
  <2>1. 0 \in n..(Len(vector) - 1) => 0 = n
    BY <1>0
  <2>. QED  BY <1>1, <2>1
<1> HIDE DEF S
<1>4. Nat \subseteq S
  BY <1>2, <1>3, Onwards
<1>. QED  BY <1>4 DEF S

\* Options are over with argument o + 1.
LEMMA OptionsOver ==
  ASSUME LoopTyped, NEW o \in 1..(Len(vector) - 1), Ready(Reading(o - 1)), Clear(o),
         ~IsOption(vector[o + 1]) \/ vector[o + 1] = <<"-", "-">>
  PROVE  /\ Reading(o).over /\ Reading(o).wait = 0 /\ ~Reading(o).bad
         /\ Reading(o).args = Reading(o - 1).args
         /\ ~IsOption(vector[o + 1]) => Reading(o).words # <<>>
<1> DEFINE A == vector[o + 1]
           acc == Reading(o - 1)
           s == Reading(o)
<1>1. /\ o + 1 \in 1..Len(vector) /\ o \in 0..(Len(vector) - 1) /\ o > 0 /\ o - 1 \in 0..(Len(vector) - 1)
  BY LoopLine
<1>2. A \in Args /\ Sound(table) /\ Reads(table, acc)
  BY <1>1, LoopLine, LoopReads, Zenon
<1>3. A # BoundOption
  <2>1. BoundOption # <<"-", "-">>
    BY DEF BoundOption
  <2>. QED  BY <1>2, <2>1, NotPlain, Zenon
<1>4. s = Read(table, acc, A)
  <2>1. o + 1 \notin PassedOver(SubLine)
    BY <1>3, NotPassed, Zenon
  <2>. QED  BY <1>1, <2>1, LoopReads, Zenon
<1>5. acc.wait = 0 /\ ~acc.over /\ ~acc.bad
  BY Zenon DEF Ready
<1> HIDE DEF A, acc, s
<1>6. CASE ~IsOption(A)
  <2>1. s = Word(acc, A)
    BY <1>4, <1>5, <1>6, ReadWord, Zenon
  <2>2. Worded(acc, A, s)
    BY <1>2, <1>5, <2>1, WordIs, Zenon
  <2>3. Append(acc.words, A) # <<>>
    <3>1. acc.words \in Seq(Args)
      BY <1>2 DEF Reads
    <3>. QED  BY <1>2, <3>1, AppendIs, Zenon
  <2>4. s.over /\ s.wait = 0 /\ ~s.bad /\ s.args = acc.args /\ s.words # <<>>
    BY <1>5, <2>2, <2>3, Zenon DEF Worded
  <2>. QED  BY <2>4, Zenon DEF s, acc
<1>7. CASE A = <<"-", "-">> /\ IsOption(A)
  <2>1. s = [acc EXCEPT !.over = TRUE]
    BY <1>4, <1>5, <1>7, ReadDashes
  <2>2. s.over /\ s.wait = 0 /\ s.bad = acc.bad /\ s.args = acc.args
    BY <1>2, <1>5, <2>1, DashesIs
  <2>. QED  BY <1>5, <1>7, <2>2, Zenon DEF s, acc, A
<1>. QED  BY <1>6, <1>7, Zenon DEF A

\* A second bound that the loop does not come to stands behind a word.
LEMMA UpperBehind ==
  ASSUME LoopTyped, SubLine[1] = <<"mpsw">>, NEW o \in 1..(Len(vector) - 1), Ready(Reading(o - 1)), Clear(o),
         ~IsOption(vector[o + 1]) \/ vector[o + 1] = <<"-", "-">>,
         Reading(Len(vector) - 1).words = <<>>, NEW k, k \in UpperBounds(SubLine)
  PROVE  k <= o
<1> SUFFICES ASSUME ~(k <= o) PROVE FALSE
  OBVIOUS
<1>1. Len(vector) \in Nat /\ \A n \in 1..Len(vector) : vector[n] \in Args
  BY LoopLine
<1>2. UpperAt(k)
  BY UpperIs, Zenon
<1>3. k \in 4..Len(vector) /\ vector[k - 2] = BoundOption /\ Plain(vector[k - 1])
  BY <1>2, Zenon DEF UpperAt
<1>4. /\ Reading(o).over /\ Reading(o).wait = 0 /\ ~Reading(o).bad
      /\ ~IsOption(vector[o + 1]) => Reading(o).words # <<>>
  BY OptionsOver, Zenon
<1>5. \A n \in 0..(Len(vector) - 1), m \in 0..(Len(vector) - 1) :
        n <= m /\ Reading(n).over /\ Reading(n).wait = 0 => Rested(Reading(n), Reading(m))
  <2> TAKE n \in 0..(Len(vector) - 1), m \in 0..(Len(vector) - 1)
  <2> HAVE n <= m /\ Reading(n).over /\ Reading(n).wait = 0
  <2>1. m \in n..(Len(vector) - 1)
    OBVIOUS
  <2>. QED  BY <2>1, WordsRest, Zenon
<1>6. o \in 0..(Len(vector) - 1) /\ Len(vector) - 1 \in 0..(Len(vector) - 1) /\ o <= Len(vector) - 1
  BY <1>1
<1>7. Rested(Reading(o), Reading(Len(vector) - 1))
  BY <1>4, <1>5, <1>6, Zenon
<1>8. IsOption(vector[o + 1]) /\ vector[o + 1] = <<"-", "-">>
  BY <1>4, <1>7, Zenon DEF Rested
<1>9. ~Plain(vector[o + 1]) /\ vector[o + 1] # BoundOption
  <2>1. BoundOption # <<"-", "-">>
    BY DEF BoundOption
  <2>2. o + 1 \in 1..Len(vector)
    BY <1>1
  <2>. QED  BY <1>1, <1>8, <2>1, <2>2, NotPlain, Zenon
<1>10. k # o + 1
  BY <1>2, ClearIs, Zenon
<1>11. k # o + 2
  <2>1. k = o + 2 => k - 1 = o + 1
    BY <1>3
  <2>. QED  BY <1>3, <1>9, <2>1, Zenon
<1>12. k # o + 3
  <2>1. k = o + 3 => k - 2 = o + 1
    BY <1>3
  <2>. QED  BY <1>3, <1>9, <2>1, Zenon
<1> DEFINE n == k - 2
<1>13. /\ n \in 0..(Len(vector) - 1) /\ n > 0 /\ n + 1 = k - 1 /\ n - 1 \in 0..(Len(vector) - 1) /\ o <= n - 1
       /\ n <= Len(vector) - 1 /\ (k - 1) - 1 = k - 2 /\ k - 1 \in 1..Len(vector)
  BY <1>1, <1>3, <1>10, <1>11, <1>12
<1>14. Rested(Reading(o), Reading(n - 1))
  BY <1>4, <1>5, <1>6, <1>13, Zenon
<1>15. n + 1 \notin PassedOver(SubLine)
  <2> SUFFICES ASSUME k - 1 \in PassedOver(SubLine) PROVE FALSE
    BY <1>13
  <2>1. UpperAt(k - 1) \/ vector[k - 1] = BoundOption
    BY PassedIs, Zenon
  <2>2. ~Plain(BoundOption)
    <3>1. BoundOption \in Args
      <4>1. k - 2 \in 1..Len(vector)
        BY <1>1, <1>3
      <4>. QED  BY <1>1, <1>3, <4>1, Zenon
    <3>. QED  BY <3>1, NotPlain, Zenon
  <2>3. UpperAt(k - 1) => Plain(vector[(k - 1) - 1])
    BY Zenon DEF UpperAt
  <2>. QED  BY <1>3, <1>13, <2>1, <2>2, <2>3, Zenon
<1>16. Reading(n) = Read(table, Reading(n - 1), vector[n + 1])
  <2> HIDE DEF n
  <2>. QED  BY <1>13, <1>15, LoopReads, Zenon
<1> DEFINE a == Reading(n - 1)
           b == Reading(n)
           arg == vector[n + 1]
<1>17. Reads(table, a) /\ arg \in Args /\ Sound(table) /\ a.over
  <2>1. Reads(table, a)
    <3> HIDE DEF n
    <3>. QED  BY <1>13, LoopReads, Zenon
  <2>2. arg \in Args
    <3> HIDE DEF n
    <3>. QED  BY <1>1, <1>13, Zenon
  <2>. QED  BY <1>14, <2>1, <2>2, LoopLine, Zenon DEF Rested
<1>18. b.over /\ b.wait = 0 /\ b.words # <<>>
  <2>0. b = Read(table, a, arg)
    BY <1>16
  <2> HIDE DEF a, b, arg
  <2>1. Worded(a, arg, b)
    BY <1>17, <2>0, ReadIs, Zenon
  <2>2. a.words \in Seq(Args)
    BY <1>17 DEF Reads
  <2>3. Append(a.words, arg) # <<>>
    BY <1>17, <2>2, AppendIs, Zenon
  <2>. QED  BY <2>1, <2>3, Zenon DEF Worded
<1>19. Rested(b, Reading(Len(vector) - 1))
  <2> HIDE DEF n
  <2>. QED  BY <1>5, <1>6, <1>13, <1>18, Zenon
<1>. QED  BY <1>18, <1>19, Zenon DEF Rested

LEMMA LoopCompletes ==
  ASSUME LoopTyped, GoesOn(optind, place, got), place = <<>>,
         ~(optind < limit /\ IsOption(This) /\ This # <<"-", "-">>)
  PROVE  Complete(optind, got)
<1> DEFINE m == Reading(Len(vector) - 1)
           acc == Reading(optind - 1)
<1>1. limit = Len(vector) /\ optind \in 1..Len(vector) /\ This = vector[optind + 1]
  BY DEF LoopTyped, This
<1>2. Len(vector) \in Nat /\ \A k \in 1..Len(vector) : vector[k] \in Args
  BY LoopLine
<1>3. Ready(acc) /\ AllHold(got, acc.args) /\ OneCommand(got) /\ UpperHolds(optind, got) /\ Clear(optind)
  <2>1. ASSUME NEW j, Inside(optind, <<>>, j) PROVE FALSE
    <3>1. j \in 2..Len(vector[optind + 1]) /\ <<>> = SubSeq(vector[optind + 1], j, Len(vector[optind + 1])) /\ optind < Len(vector)
      BY <2>1, Zenon DEF Inside
    <3>2. vector[optind + 1] \in Args
      <4>1. optind + 1 \in 1..Len(vector)
        BY <1>1, <1>2, <3>1
      <4>. QED  BY <1>2, <4>1, Zenon
    <3> DEFINE A == vector[optind + 1]
    <3>3. A \in Args /\ j \in 2..Len(A) /\ <<>> = SubSeq(A, j, Len(A))
      BY <3>1, <3>2
    <3> HIDE DEF A
    <3>4. LettersOf(A, j, <<>>)
      BY <3>3, LettersAt, Zenon
    <3>. QED  BY <3>4, Zenon DEF LettersOf
  <2>. QED  BY <2>1, Zenon DEF GoesOn, Reached
<1>4. OptionMeaning(SubLine) = m
  BY OptionMeaningIs
<1> HIDE DEF m
<1>5. CASE optind = Len(vector)
  <2>1. m = acc
    BY <1>5 DEF m
  <2> HIDE DEF acc
  <2>2. ~m.bad /\ m.wait = 0 /\ AllHold(got, m.args)
    BY <1>3, <2>1, Zenon DEF Ready
  <2>3. SubLine[1] = <<"mpsw">> => UpperSoFar(optind) = UpperBounds(SubLine)
    <3> SUFFICES ASSUME SubLine[1] = <<"mpsw">>, NEW k \in UpperBounds(SubLine) PROVE k <= optind
      BY Zenon DEF UpperSoFar
    <3>1. UpperAt(k)
      BY UpperIs, Zenon
    <3>. QED  BY <1>2, <1>5, <3>1 DEF UpperAt
  <2>. QED  BY <1>3, <1>4, <2>2, <2>3, Zenon DEF Complete
<1>6. CASE optind # Len(vector)
  <2>1. optind \in 1..(Len(vector) - 1) /\ (~IsOption(vector[optind + 1]) \/ vector[optind + 1] = <<"-", "-">>)
    BY <1>1, <1>2, <1>6
  <2>2. /\ Reading(optind).over /\ Reading(optind).wait = 0 /\ ~Reading(optind).bad
        /\ Reading(optind).args = acc.args
    BY <1>3, <2>1, OptionsOver, Zenon
  <2>3. optind \in 0..(Len(vector) - 1) /\ Len(vector) - 1 \in optind..(Len(vector) - 1)
    BY <1>2, <2>1
  <2>4. Rested(Reading(optind), m)
    BY <2>2, <2>3, WordsRest, Zenon DEF m
  <2>5. ~m.bad /\ m.wait = 0 /\ AllHold(got, m.args)
    BY <1>3, <2>2, <2>4, Zenon DEF Rested
  <2>6. ASSUME SubLine[1] = <<"mpsw">>, m.words = <<>> PROVE UpperSoFar(optind) = UpperBounds(SubLine)
    <3>1. ASSUME NEW k, k \in UpperBounds(SubLine) PROVE k <= optind
      BY <1>3, <2>1, <2>6, <3>1, UpperBehind, Zenon DEF m
    <3>. QED  BY <3>1, Zenon DEF UpperSoFar
  <2>. QED  BY <1>3, <1>4, <2>5, <2>6, Zenon DEF Complete
<1>. QED  BY <1>5, <1>6

-------------------------------------------------------------------------------
\* The loop keeps its invariant.

LEMMA LineSame ==
  ASSUME argv' = argv
  PROVE  SubLine' = SubLine /\ NoDashes' = NoDashes /\ Right(MainTable, argv)' = Right(MainTable, argv)
BY DEF SubLine, NoDashes

LEMMA LoopSame ==
  ASSUME table' = table, vector' = vector, argv' = argv
  PROVE  /\ GoesOn(optind', place', got') => GoesOn(optind, place, got)'
         /\ Complete(optind', got') => Complete(optind, got)'
<1> DEFINE o == optind'
           p == place'
           g == got'
<1>1. SubLine' = SubLine
  BY LineSame
<1>2. PassedOver(SubLine)' = PassedOver(SubLine) /\ UpperBounds(SubLine)' = UpperBounds(SubLine)
  BY <1>1
<1>3. Reading(optind - 1)' = Reading(optind' - 1)
  BY <1>2, Zenon DEF Reading
<1>4. AllHold(got, Reading(optind - 1).args)' = AllHold(got', Reading(optind' - 1).args)
  BY <1>3, Zenon DEF AllHold
<1>5. ASSUME NEW j, Inside(optind', place', j) PROVE Inside(optind, place, j)'
  BY <1>5, Zenon DEF Inside
<1>6. Reached(optind', place', got') => Reached(optind, place, got)'
  <2> SUFFICES ASSUME Reached(optind', place', got') PROVE Reached(optind, place, got)'
    OBVIOUS
  <2>1. Ready(Reading(optind' - 1)) /\ Ready(Reading(optind - 1)')
    BY <1>3, Zenon DEF Reached
  <2>. QED  BY <1>3, <1>5, <2>1, Zenon DEF Reached, AllHold
<1>7. OneCommand(got)' = OneCommand(got')
  BY <1>1, Zenon DEF OneCommand
<1>8. UpperSoFar(optind)' = UpperSoFar(optind')
  BY <1>2, Zenon DEF UpperSoFar
<1>9. UpperHolds(optind, got)' = UpperHolds(optind', got')
  BY <1>1, <1>8, Zenon DEF UpperHolds
<1>10. Clear(optind)' = Clear(optind')
  BY <1>1, <1>2, Zenon DEF Clear
<1>11. ASSUME Complete(optind', got') PROVE Complete(optind, got)'
  <2>1. OptionMeaning(SubLine)' = OptionMeaning(SubLine)
    BY <1>1
  <2>2. AllHold(got, OptionMeaning(SubLine).args)' = AllHold(got', OptionMeaning(SubLine).args)
    BY <2>1, Zenon DEF AllHold
  <2>. QED  BY <1>1, <1>2, <1>7, <1>8, <1>9, <1>11, <2>1, <2>2, Zenon DEF Complete
<1>. QED  BY <1>6, <1>7, <1>9, <1>10, <1>11, Zenon DEF GoesOn

LEMMA TypedSame ==
  ASSUME LoopTyped, argv' = argv, table' = table, vector' = vector, limit' = limit,
         optind' \in 1..Len(vector), place' \in Args, place' # <<>> => optind' < Len(vector),
         got' = [i \in DOMAIN table |-> got'[i]], pass' \in {"getopt", "done"}, errors' \in Nat
  PROVE  LoopTyped'
<1>1. SubLine' = SubLine
  BY LineSame
<1>2. OptionsOf(SubLine)' = OptionsOf(SubLine) /\ OptionArgs(SubLine)' = OptionArgs(SubLine)
      /\ Loops(SubLine)' = Loops(SubLine)
  BY <1>1
<1>. QED  BY <1>1, <1>2, Zenon DEF LoopTyped

LEMMA LoopSteps ==
  ASSUME LoopInv, Getopt, argv' = argv
  PROVE  LoopInv'
<1>1. /\ LoopTyped /\ pass = "getopt" /\ GoesOn(optind, place, got)
      /\ table' = table /\ vector' = vector /\ limit' = limit
      /\ IF place = <<>> THEN GetoptArgument ELSE GetoptLetter(place)
  BY DEF LoopInv, Getopt, Looping
<1>2. /\ optind \in 1..Len(vector) /\ place \in Args /\ (place # <<>> => optind < Len(vector))
      /\ got = [i \in DOMAIN table |-> got[i]] /\ errors \in Nat /\ pass # "done"
  BY <1>1 DEF LoopTyped
<1>3. Refuse \/ Moves \/ (NoMore /\ Complete(optind, got))
  <2>1. CASE place # <<>>
    <3>1. GetoptLetter(place)
      BY <1>1, <2>1
    <3>. QED  BY <1>1, <2>1, <3>1, LetterGoesOn, Zenon
  <2>2. CASE place = <<>> /\ optind < limit /\ IsOption(This) /\ This # <<"-", "-">>
    <3>1. /\ place' = Tail(This) /\ optind' = optind /\ pass' = pass /\ got' = got /\ errors' = errors
      BY <1>1, <2>2 DEF GetoptArgument
    <3>. QED  BY <1>1, <2>2, <3>1, ArgumentStarts, Zenon
  <2>3. CASE place = <<>> /\ ~(optind < limit /\ IsOption(This) /\ This # <<"-", "-">>)
    <3>1. NoMore
      BY <1>1, <2>3 DEF GetoptArgument
    <3>. QED  BY <1>1, <2>3, <3>1, LoopCompletes, Zenon
  <2>. QED  BY <2>1, <2>2, <2>3, Zenon
<1>4. CASE Refuse
  <2>1. /\ optind' = optind /\ place' = place /\ got' = got /\ errors' = 1 /\ pass' = "done"
    BY <1>4 DEF Refuse
  <2>2. errors' \in Nat /\ errors' # 0 /\ pass' # "getopt" /\ pass' \in {"getopt", "done"}
    BY <2>1
  <2>3. LoopTyped'
    BY <1>1, <1>2, <2>1, <2>2, TypedSame, Zenon
  <2>. QED  BY <2>2, <2>3, Zenon DEF LoopInv
<1>5. CASE Moves
  <2>1. /\ GoesOn(optind', place', got') /\ optind' \in 1..Len(vector) /\ place' \in Args
        /\ (place' # <<>> => optind' < Len(vector))
        /\ got' = [k \in DOMAIN table |-> got'[k]] /\ pass' = pass /\ errors' = errors
    BY <1>5, Zenon DEF Moves, Onward
  <2>2. pass' \in {"getopt", "done"} /\ errors' \in Nat /\ pass' # "done"
    BY <1>1, <1>2, <2>1
  <2>3. LoopTyped'
    BY <1>1, <2>1, <2>2, TypedSame, Zenon
  <2>4. GoesOn(optind, place, got)'
    BY <1>1, <2>1, LoopSame, Zenon
  <2>. QED  BY <2>2, <2>3, <2>4, Zenon DEF LoopInv
<1>6. CASE NoMore /\ Complete(optind, got)
  <2>1. optind' = optind /\ place' = place /\ got' = got /\ errors' = errors /\ pass' = "done"
    BY <1>6 DEF NoMore
  <2>2. pass' \in {"getopt", "done"} /\ errors' \in Nat /\ pass' # "getopt"
    BY <1>2, <2>1
  <2>3. LoopTyped'
    BY <1>1, <1>2, <2>1, <2>2, TypedSame, Zenon
  <2>4. Complete(optind', got')
    BY <1>6, <2>1, Zenon
  <2>5. Complete(optind, got)'
    BY <1>1, <2>4, LoopSame, Zenon
  <2>. QED  BY <2>2, <2>3, <2>5, Zenon DEF LoopInv
<1>. QED  BY <1>3, <1>4, <1>5, <1>6

\* It begins.
LEMMA DutyLoops ==
  ASSUME NEW args, Loops(args), args[1] = <<"duty_cycle">>
  PROVE  Len(args) >= 3
BY DEF Loops

LEMMA ArgsAre ==
  ASSUME NEW args, args[1] \in GetoptCommands, Loops(args), NEW n, n = Len(args)
  PROVE  \/ OptionArgs(args) = args
         \/ OptionArgs(args) = Tail(args) /\ n >= 3
         \/ OptionArgs(args) = SubSeq(args, 3, n) /\ n >= 3
<1>1. args[1] \in {<<"mpsw">>, <<"vendor_ie">>} => OptionArgs(args) = args
  BY DEF OptionArgs
<1>2. args[1] = <<"twt">> => OptionArgs(args) = Tail(args) /\ n >= 3
  BY DEF OptionArgs, Loops
<1>3. args[1] = <<"duty_cycle">> => OptionArgs(args) = SubSeq(args, 3, n) /\ n >= 3
  <2>1. args[1] = <<"duty_cycle">> => OptionArgs(args) = SubSeq(args, 3, Len(args))
    BY DEF OptionArgs
  <2>2. args[1] = <<"duty_cycle">> => Len(args) >= 3
    BY DutyLoops
  <2>. QED  BY <2>1, <2>2
<1>. QED  BY <1>1, <1>2, <1>3, Zenon DEF GetoptCommands

LEMMA ArgsFrom ==
  ASSUME NEW args \in Seq(Args), Len(args) >= 3
  PROVE  /\ Tail(args) \in Seq(Args) /\ Len(Tail(args)) = Len(args) - 1
         /\ \A k \in 1..(Len(args) - 1) : Tail(args)[k] = args[k + 1]
         /\ SubSeq(args, 3, Len(args)) \in Seq(Args) /\ Len(SubSeq(args, 3, Len(args))) = Len(args) - 2
         /\ \A k \in 1..(Len(args) - 2) : SubSeq(args, 3, Len(args))[k] = args[k + 2]
<1>1. /\ Tail(args) \in Seq(Args) /\ Len(Tail(args)) = Len(args) - 1
      /\ \A k \in 1..(Len(args) - 1) : Tail(args)[k] = args[k + 1]
  OBVIOUS
<1>2. SubSeq(args, 3, Len(args)) \in Seq(Args) /\ Len(SubSeq(args, 3, Len(args))) = Len(args) - 2
  OBVIOUS
<1>3. \A k \in 1..(Len(args) - 2) : SubSeq(args, 3, Len(args))[k] = args[k + 2]
  OBVIOUS
<1>. QED  BY <1>1, <1>2, <1>3

LEMMA LoopArgs ==
  ASSUME NEW args \in Seq(Args), args # <<>>, \A k \in DOMAIN args : ~Dashed(args[k]),
         args[1] \in GetoptCommands, Loops(args), NEW v, v = OptionArgs(args)
  PROVE  v \in Seq(Args) /\ v # <<>> /\ \A k \in DOMAIN v : ~Dashed(v[k])
<1>1. v = args \/ (v = Tail(args) /\ Len(args) >= 3) \/ (v = SubSeq(args, 3, Len(args)) /\ Len(args) >= 3)
  BY ArgsAre, Zenon
<1>0. Len(args) \in Nat /\ DOMAIN args = 1..Len(args)
  OBVIOUS
<1>2. ASSUME NEW d \in {1, 2}, Len(args) >= 3, v \in Seq(Args), Len(v) = Len(args) - d,
             \A k \in 1..(Len(args) - d) : v[k] = args[k + d]
      PROVE  v # <<>> /\ \A k \in DOMAIN v : ~Dashed(v[k])
  <2>1. DOMAIN v = 1..Len(v) /\ v # <<>>
    BY <1>0, <1>2
  <2>2. ASSUME NEW k \in DOMAIN v PROVE ~Dashed(v[k])
    <3>1. k + d \in DOMAIN args /\ v[k] = args[k + d]
      BY <1>0, <1>2, <2>1
    <3>. QED  BY <3>1, Zenon
  <2>. QED  BY <2>1, <2>2
<1>3. CASE v = args
  BY <1>3
<1>4. CASE v = Tail(args) /\ Len(args) >= 3
  <2>1. v \in Seq(Args) /\ Len(v) = Len(args) - 1 /\ \A k \in 1..(Len(args) - 1) : v[k] = args[k + 1]
    BY <1>4, ArgsFrom, Zenon
  <2>2. 1 \in {1, 2}
    OBVIOUS
  <2>. QED  BY <1>2, <1>4, <2>1, <2>2, Zenon
<1>5. CASE v = SubSeq(args, 3, Len(args)) /\ Len(args) >= 3
  <2>1. v \in Seq(Args) /\ Len(v) = Len(args) - 2 /\ \A k \in 1..(Len(args) - 2) : v[k] = args[k + 2]
    BY <1>5, ArgsFrom, Zenon
  <2>2. 2 \in {1, 2}
    OBVIOUS
  <2>. QED  BY <1>2, <1>5, <2>1, <2>2, Zenon
<1>. QED  BY <1>1, <1>3, <1>4, <1>5

\* Nothing has been read, nothing been found.
AtStart(tbl, v, args, g) ==
  /\ Sound(tbl) /\ v \in Seq(Args) /\ v # <<>> /\ g = [i \in DOMAIN tbl |-> <<>>]
  /\ args[1] = <<"vendor_ie">> => tbl = VendorIeOptions

Starting(tbl, args, g, r) ==
  /\ Ready(r) /\ \A i \in DOMAIN tbl : Holds(tbl[i], g[i], r.args[i])
  /\ args[1] = <<"vendor_ie">> => \A i, j \in 1..4 : g[i] # <<>> /\ g[j] # <<>> => i = j

LEMMA StartHolds ==
  ASSUME NEW tbl, NEW v, NEW args, NEW g, AtStart(tbl, v, args, g), NEW passed
  PROVE  Starting(tbl, args, g, Readings(tbl, v, passed)[0])
<1> DEFINE r == Readings(tbl, v, passed)[0]
<1>1. r = Nothing(tbl)
  BY PassingStep, Zenon DEF AtStart
<1>2. Ready(r)
  BY <1>1, NothingReads, Zenon DEF AtStart
<1>3. ASSUME NEW i \in DOMAIN tbl PROVE Holds(tbl[i], g[i], r.args[i])
  <2>1. g[i] = <<>> /\ r.args[i] = <<>>
    BY <1>1, <1>3 DEF AtStart, Nothing
  <2>. QED  BY <2>1, Zenon DEF Holds
<1>4. ASSUME args[1] = <<"vendor_ie">>, NEW i \in 1..4 PROVE g[i] = <<>>
  <2>1. i \in DOMAIN VendorIeOptions
    <3>1. i \in 1..8
      BY <1>4
    <3>. QED  BY <3>1, VendorIeTable, Zenon
  <2>. QED  BY <1>4, <2>1 DEF AtStart
<1>. QED  BY <1>2, <1>3, <1>4, Zenon DEF Starting

LEMMA NoneBefore ==
  ASSUME NEW args, NEW k \in UpperBounds(args)
  PROVE  ~(k <= 1) /\ k # 2
<1>1. k \in 4..Len(args)
  BY DEF UpperBounds
<1>. QED  BY <1>1

LEMMA LoopBegins ==
  ASSUME SubLine \in Seq(Args), SubLine # <<>>, \A k \in DOMAIN SubLine : ~Dashed(SubLine[k]),
         SubLine[1] \in GetoptCommands, Loops(SubLine), Loop(OptionsOf(SubLine), OptionArgs(SubLine)),
         argv' = argv, place = <<>>
  PROVE  LoopInv'
<1> DEFINE T == OptionsOf(SubLine)
           V == OptionArgs(SubLine)
           g == [i \in DOMAIN T |-> <<>>]
<1>1. /\ table' = T /\ vector' = V /\ pass' = "getopt" /\ limit' = Len(V) /\ optind' = 1
      /\ got' = g /\ errors' = 0 /\ place' = <<>>
  BY DEF Loop
<1>2. SubLine' = SubLine
  BY LineSame
<1>3. V \in Seq(Args) /\ V # <<>> /\ \A k \in DOMAIN V : ~Dashed(V[k])
  BY LoopArgs, Zenon
<1>4. AtStart(T, V, SubLine, g)
  <2>1. LoopTable(T, SubLine[1])
    BY OptionsLoop
  <2>2. SubLine[1] = <<"vendor_ie">> => T = VendorIeOptions
    BY DEF OptionsOf
  <2> HIDE DEF T, V
  <2>. QED  BY <1>3, <2>1, <2>2, Zenon DEF AtStart, LoopTable
<1>5. g = [i \in DOMAIN T |-> g[i]]
  OBVIOUS
<1>6. /\ OptionsOf(SubLine)' = T /\ OptionArgs(SubLine)' = V /\ Loops(SubLine)'
      /\ UpperBounds(SubLine)' = UpperBounds(SubLine) /\ PassedOver(SubLine)' = PassedOver(SubLine)
  BY <1>2
<1> HIDE DEF T, V, g
<1>7. LoopTyped'
  <2>1. 1 \in 1..Len(V) /\ <<>> \in Args /\ 0 \in Nat
    BY <1>3 DEF Args
  <2>. QED  BY <1>1, <1>2, <1>3, <1>5, <1>6, <2>1, Zenon DEF LoopTyped
<1> DEFINE r == Readings(T, V, PassedOver(SubLine))[0]
<1>8. /\ Ready(r) /\ \A i \in DOMAIN T : Holds(T[i], g[i], r.args[i])
      /\ SubLine[1] = <<"vendor_ie">> => \A i, j \in 1..4 : g[i] # <<>> /\ g[j] # <<>> => i = j
  <2>1. Starting(T, SubLine, g, r)
    BY <1>4, StartHolds, Zenon
  <2> HIDE DEF r
  <2>. QED  BY <2>1, Zenon DEF Starting
<1>9. Reading(optind - 1)' = r
  <2>1. optind' - 1 = 0
    BY <1>1
  <2>. QED  BY <1>1, <1>6, <2>1, Zenon DEF Reading
<1> HIDE DEF r
<1>10. Reached(optind, place, got)'
  BY <1>1, <1>8, <1>9, Zenon DEF Reached, AllHold
<1>11. OneCommand(got)'
  BY <1>1, <1>2, <1>8, Zenon DEF OneCommand
<1>12. UpperHolds(optind, got)' /\ Clear(optind)'
  <2>1. \A k \in UpperBounds(SubLine) : ~(k <= 1) /\ k # 2
    BY NoneBefore, Zenon
  <2>2. UpperSoFar(optind)' = {}
    BY <1>1, <1>6, <2>1, Zenon DEF UpperSoFar
  <2>3. SubLine[1] = <<"mpsw">> => g[1] = <<>>
    <3>1. SubLine[1] = <<"mpsw">> => T = MpswOptions
      BY DEF OptionsOf, T
    <3>2. T = MpswOptions => 1 \in DOMAIN T
      <4>1. 1 \in 1..3
        OBVIOUS
      <4>. QED  BY <4>1, MpswTable, Zenon
    <3>. QED  BY <3>1, <3>2 DEF g
  <2>4. UpperHolds(optind, got)'
    BY <1>1, <1>2, <2>2, <2>3, Zenon DEF UpperHolds
  <2>5. 2 \notin UpperBounds(SubLine) /\ optind' + 1 = 2
    BY <1>1, <2>1
  <2>. QED  BY <1>6, <2>4, <2>5, Zenon DEF Clear
<1>13. pass' = "getopt" /\ pass' # "done"
  BY <1>1
<1>. QED  BY <1>7, <1>10, <1>11, <1>12, <1>13, Zenon DEF LoopInv, GoesOn

-------------------------------------------------------------------------------
\* What is sent after the loop.


LEMMA LettersAre ==
  ASSUME LoopTyped, NEW m, AllHold(got, m.args), NEW is, is \subseteq DOMAIN table
  PROVE  Are(is) = Letters(table, m, is)
<1>1. \A j \in is : got[j] # <<>> <=> m.args[j] # <<>>
  BY Zenon DEF AllHold, Holds
<1>2. {j \in is : got[j] # <<>>} = {j \in is : m.args[j] # <<>>}
  BY <1>1, Zenon
<1>. QED  BY <1>2, Zenon DEF Are, Letters

LEMMA WordGiven ==
  ASSUME LoopTyped, NEW m, AllHold(got, m.args), NEW i \in DOMAIN table
  PROVE  /\ table[i].kind \in {"word", "range"} => LastWord(m, i, Optional(i, 0))
         /\ table[i].kind = "uint64" => LastWord(m, i, Optional(i, [hi |-> 0, lo |-> 0]).lo)
         /\ table[i].kind = "bounds" => LastWord(m, i, Optional(i, <<0, 0>>)[1])
<1>1. Holds(table[i], got[i], m.args[i])
  BY Zenon DEF AllHold
<1>2. CASE m.args[i] = <<>>
  <2>1. got[i] = <<>>
    BY <1>1, <1>2, Zenon DEF Holds
  <2>2. /\ Optional(i, 0) = 0 /\ Optional(i, [hi |-> 0, lo |-> 0]) = [hi |-> 0, lo |-> 0]
        /\ Optional(i, <<0, 0>>) = <<0, 0>>
    BY <2>1, Zenon DEF Optional
  <2>3. <<0, 0>>[1] = 0 /\ [hi |-> 0, lo |-> 0].lo = 0
    OBVIOUS
  <2>. QED  BY <1>2, <2>2, <2>3, Zenon DEF LastWord
<1>3. CASE m.args[i] # <<>>
  <2> DEFINE last == m.args[i][Len(m.args[i])]
  <2>1. got[i] # <<>>
    BY <1>1, <1>3, Zenon DEF Holds
  <2>2. \A d : Optional(i, d) = got[i][1]
    BY <2>1, Zenon DEF Optional
  <2>3. /\ table[i].kind \in {"word", "range"} => got[i][1] = WordOf(last)
        /\ table[i].kind = "uint64" => got[i][1].lo = WordOf(last)
        /\ table[i].kind = "bounds" => got[i][1][1] = WordOf(last)
    BY <1>1, <1>3, Zenon DEF Holds
  <2>4. \A w : w = WordOf(last) => LastWord(m, i, w)
    BY <1>3, Zenon DEF LastWord
  <2>. QED  BY <2>2, <2>3, <2>4, Zenon
<1>. QED  BY <1>2, <1>3

LEMMA Largest ==
  ASSUME NEW n \in Nat, NEW S, S \subseteq 4..n, S # {}
  PROVE  \E k \in S : \A j \in S : j <= k
<1> DEFINE D == {n - k : k \in S}
<1>1. D \in SUBSET Nat /\ D # {}
  <2>1. \A k \in S : n - k \in Nat
    OBVIOUS
  <2>. QED  BY <2>1, Zenon
<1>2. \E d \in D : \A e \in D : d <= e
  <2> HIDE DEF D
  <2>. QED  BY <1>1, Smallest
<1>3. PICK d \in D : \A e \in D : d <= e
  BY <1>2
<1>4. PICK k \in S : d = n - k
  OBVIOUS
<1>5. ASSUME NEW j \in S PROVE j <= k
  <2>1. n - j \in D
    OBVIOUS
  <2>2. d <= n - j
    BY <1>3, <2>1
  <2>3. j \in Int /\ k \in Int
    OBVIOUS
  <2>. QED  BY <1>4, <2>2, <2>3
<1>. QED  BY <1>5

LEMMA MpswSent ==
  ASSUME LoopTyped, Complete(optind, got), SubLine[1] = <<"mpsw">>,
         NEW m, m = OptionMeaning(SubLine), NEW c, c = MpswCommand
  PROVE  MpswAsTyped(c, m, SubLine)
<1>1. table = MpswOptions /\ DOMAIN table = 1..3 /\ table[1].kind = "bounds" /\ table[2].kind = "word"
  <2>1. table = MpswOptions
    BY DEF LoopTyped, OptionsOf
  <2>. QED  BY <2>1, MpswTable, Zenon DEF Opt
<1>2. /\ AllHold(got, m.args) /\ UpperHolds(optind, got)
      /\ m.words = <<>> => UpperSoFar(optind) = UpperBounds(SubLine)
  BY Zenon DEF Complete
<1>3. /\ c.set = Are(1..3) /\ c.bounds = Optional(1, <<0, 0>>) /\ c.window = Optional(2, 0)
  BY DEF MpswCommand
<1>4. c.set = Letters(MpswOptions, m, 1..3)
  <2>1. 1..3 \subseteq DOMAIN table
    BY <1>1, Zenon
  <2>2. Are(1..3) = Letters(table, m, 1..3)
    BY <1>2, <2>1, LettersAre, Zenon
  <2>. QED  BY <1>1, <1>3, <2>2, Zenon
<1>5. LastWord(m, 1, c.bounds[1]) /\ LastWord(m, 2, c.window)
  <2>1. 1 \in DOMAIN table /\ 2 \in DOMAIN table /\ table[2].kind \in {"word", "range"}
    BY <1>1
  <2>. QED  BY <1>1, <1>2, <1>3, <2>1, WordGiven, Zenon
<1>6. c.bounds[2] = IF got[1] = <<>> THEN 0 ELSE got[1][1][2]
  <2>1. <<0, 0>>[2] = 0
    OBVIOUS
  <2>. QED  BY <1>3, <2>1, Zenon DEF Optional
<1>7. UpperBounds(SubLine) = {} => c.bounds[2] = 0
  <2> SUFFICES ASSUME UpperBounds(SubLine) = {} PROVE c.bounds[2] = 0
    OBVIOUS
  <2>1. UpperSoFar(optind) = {}
    BY Zenon DEF UpperSoFar
  <2>. QED  BY <1>2, <1>6, <2>1, Zenon DEF UpperHolds
<1>8. ASSUME UpperBounds(SubLine) # {}, m.words = <<>>,
             NEW k, k = CHOOSE x \in UpperBounds(SubLine) : \A j \in UpperBounds(SubLine) : j <= x
      PROVE  c.bounds[2] = WordOf(SubLine[k])
  <2>1. \E x \in UpperBounds(SubLine) : \A j \in UpperBounds(SubLine) : j <= x
    <3>1. \A x \in UpperBounds(SubLine) : x \in 4..Len(vector)
      BY UpperIs, Zenon DEF UpperAt
    <3>2. Len(vector) \in Nat
      BY LoopLine
    <3>. QED  BY <1>8, <3>1, <3>2, Largest, Zenon
  <2>2. k \in UpperBounds(SubLine) /\ \A j \in UpperBounds(SubLine) : j <= k
    <3> DEFINE P(x) == x \in UpperBounds(SubLine) /\ \A j \in UpperBounds(SubLine) : j <= x
    <3>. QED  BY <1>8, <2>1
  <2>3. got[1] # <<>> /\ got[1][1][2] = WordOf(SubLine[k])
    BY <1>2, <1>8, <2>2, Zenon DEF UpperHolds
  <2>. QED  BY <1>6, <2>3, Zenon
<1>. QED  BY <1>4, <1>5, <1>7, <1>8, Zenon DEF MpswAsTyped

LEMMA TwtSent ==
  ASSUME LoopTyped, Complete(optind, got), SubLine[1] = <<"twt">>,
         NEW m, m = OptionMeaning(SubLine), NEW c, c = TwtCommand
  PROVE  TwtAsTyped(c, m)
<1>1. /\ table = TwtOptions /\ DOMAIN table = 1..7 /\ table[1].kind = "range" /\ table[2].kind = "uint64"
      /\ table[3].kind = "range" /\ table[5].kind = "range"
  <2>1. table = TwtOptions
    BY DEF LoopTyped, OptionsOf
  <2>. QED  BY <2>1, TwtTable, Zenon DEF Opt
<1>2. AllHold(got, m.args)
  BY Zenon DEF Complete
<1>3. /\ c.flow_id = Optional(1, 0) /\ c.wake_interval = Optional(2, [hi |-> 0, lo |-> 0])
      /\ c.wake_duration = Optional(3, 0) /\ c.setup = Optional(5, 0)
  BY DEF TwtCommand
<1>4. 1 \in DOMAIN table /\ 2 \in DOMAIN table /\ 3 \in DOMAIN table /\ 5 \in DOMAIN table
  BY <1>1
<1>5. \A i \in DOMAIN table : table[i].kind = "range" => LastWord(m, i, Optional(i, 0))
  BY <1>2, WordGiven, Zenon
<1>6. LastWord(m, 2, Optional(2, [hi |-> 0, lo |-> 0]).lo)
  BY <1>1, <1>2, <1>4, WordGiven, Zenon
<1>. QED  BY <1>1, <1>3, <1>4, <1>5, <1>6, Zenon DEF TwtAsTyped

LEMMA DutyPercent ==
  ASSUME NEW args, Loops(args), args[1] = <<"duty_cycle">>
  PROVE  PercentOf(args[3]) \in DutyCycles
BY DEF Loops

LEMMA DutyCycleSent ==
  ASSUME LoopTyped, Complete(optind, got), SubLine[1] = <<"duty_cycle">>,
         NEW m, m = OptionMeaning(SubLine), NEW c, c = DutyCycleCommand(SubLine)
  PROVE  DutyCycleAsTyped(c, m)
<1>1. /\ table = DutyCycleOptions /\ DOMAIN table = 1..2 /\ table[1].kind = "range"
  <2>1. table = DutyCycleOptions
    BY DEF LoopTyped, OptionsOf
  <2>. QED  BY <2>1, DutyCycleTable, Zenon DEF Opt
<1>2. AllHold(got, m.args)
  BY Zenon DEF Complete
<1>3. /\ c.set = {"duty_cycle", "ext"} \cup Are({2}) /\ c.duty_cycle = PercentOf(SubLine[3])
      /\ c.mode = Optional(1, 0)
  BY DEF DutyCycleCommand, DutyCycle
<1>4. 1 \in DOMAIN table /\ {2} \subseteq DOMAIN table /\ table[1].kind \in {"word", "range"}
  BY <1>1
<1>5. Are({2}) = Letters(table, m, {2})
  BY <1>2, <1>4, LettersAre, Zenon
<1>6. LastWord(m, 1, Optional(1, 0))
  BY <1>2, <1>4, WordGiven, Zenon
<1>7. PercentOf(SubLine[3]) \in DutyCycles
  <2>1. Loops(SubLine)
    BY Zenon DEF LoopTyped
  <2>. QED  BY <2>1, DutyPercent, Zenon
<1>. QED  BY <1>1, <1>3, <1>5, <1>6, <1>7, Zenon DEF DutyCycleAsTyped

LEMMA OneLetter ==
  ASSUME NEW S, NEW x, S = {x}
  PROVE  Cardinality(S) = 1
BY FS_Singleton

LEMMA VendorIeSent ==
  ASSUME LoopTyped, Complete(optind, got), SubLine[1] = <<"vendor_ie">>,
         NEW m, m = OptionMeaning(SubLine), NEW c, c = VendorIeCommand, c # NoCommand
  PROVE  c.command = "vendor_ie" /\ VendorIeAsTyped(c, m)
<1>1. /\ table = VendorIeOptions /\ DOMAIN table = 1..8
      /\ table[1].kind = "element" /\ table[2].kind = "oui"
  <2>1. table = VendorIeOptions
    BY DEF LoopTyped, OptionsOf
  <2>. QED  BY <2>1, VendorIeTable, Zenon DEF Opt
<1>2. AllHold(got, m.args) /\ OneCommand(got)
  BY Zenon DEF Complete
<1>3. ~check_cmd_opcode_not_set /\ Are(5..7) # {}
  BY Zenon DEF VendorIeCommand
<1>4. /\ c.command = "vendor_ie" /\ c.opcode = Are(1..4) /\ c.frames = Are(5..7)
      /\ c.data = IF got[1] # <<>> THEN got[1][1] ELSE Optional(2, <<>>)
  BY <1>3 DEF VendorIeCommand
<1>5. 1..4 \subseteq DOMAIN table /\ 5..7 \subseteq DOMAIN table /\ 1 \in 1..4 /\ 2 \in 1..4 /\ 1 # 2
      /\ 1 \in DOMAIN table /\ 2 \in DOMAIN table
  BY <1>1
<1>6. Are(1..4) = Letters(table, m, 1..4) /\ Are(5..7) = Letters(table, m, 5..7)
  BY <1>2, <1>5, LettersAre, Zenon
<1>7. Cardinality(Are(1..4)) = 1
  <2>1. PICK i \in 1..4 : got[i] # <<>>
    BY <1>3, Zenon DEF check_cmd_opcode_not_set
  <2>2. \A j \in 1..4 : got[j] # <<>> => j = i
    BY <1>2, <2>1, Zenon DEF OneCommand
  <2>3. {j \in 1..4 : got[j] # <<>>} = {i}
    BY <2>1, <2>2, Zenon
  <2>4. Are(1..4) = {table[i].short}
    BY <2>3, Zenon DEF Are
  <2>. QED  BY <2>4, OneLetter, Zenon
<1>8. ASSUME NEW i \in {1, 2}, NEW str \in ToSet(m.args[i]), hexstr2bin(str, Len(str) \div 2).ok
      PROVE  c.data = hexstr2bin(str, Len(str) \div 2).octets
  <2> DEFINE octets == hexstr2bin(str, Len(str) \div 2).octets
  <2>1. i \in DOMAIN table /\ i \in 1..4 /\ table[i].kind \in {"element", "oui"}
    BY <1>1, <1>5
  <2>2. m.args[i] # <<>>
    BY <1>8 DEF ToSet
  <2>3. Holds(table[i], got[i], m.args[i])
    BY <1>2, <2>1, Zenon DEF AllHold
  <2> DEFINE last == m.args[i][Len(m.args[i])]
  <2>4. /\ got[i] # <<>> /\ m.args[i] = <<last>>
        /\ hexstr2bin(last, Len(last) \div 2).ok => got[i][1] = hexstr2bin(last, Len(last) \div 2).octets
    BY <2>1, <2>2, <2>3, Zenon DEF Holds
  <2>5. str = last
    <3> HIDE DEF last
    <3>1. \A x : ToSet(<<x>>) = {x}
      BY DEF ToSet
    <3>2. str \in ToSet(<<last>>)
      BY <1>8, <2>4, Zenon
    <3>. QED  BY <3>1, <3>2, Zenon
  <2>6. got[i][1] = octets
    BY <1>8, <2>4, <2>5, Zenon
  <2>7. c.data = got[i][1]
    <3>1. CASE i = 1
      BY <1>4, <2>4, <3>1, Zenon
    <3>2. CASE i = 2
      <4>1. got[1] = <<>>
        BY <1>2, <1>5, <2>4, <3>2, Zenon DEF OneCommand
      <4>. QED  BY <1>4, <2>4, <3>2, <4>1, Zenon DEF Optional
    <3>. QED  BY <3>1, <3>2
  <2>. QED  BY <2>6, <2>7, Zenon
<1>. QED  BY <1>1, <1>3, <1>4, <1>6, <1>7, <1>8, Zenon DEF VendorIeAsTyped


\* What a handler sends after its loop.
LEMMA CommandNames ==
  /\ MpswCommand.command = "mpsw" /\ TwtCommand.command = "twt"
  /\ \A args : DutyCycleCommand(args).command = "duty_cycle"
BY DEF MpswCommand, TwtCommand, DutyCycleCommand, DutyCycle

LEMMA OnlyOptions ==
  ASSUME NEW c, NEW args, NEW name \in {"mpsw", "twt", "duty_cycle", "vendor_ie"},
         c.command = name, args[1] = <<name>>, Loops(args) => OptionsAsTyped(c, args)
  PROVE  AsTyped(c, args)
<1>1. name \notin {"get_duty_cycle", "raw", "set", "get"}
  OBVIOUS
<1>2. (IF name = "get_duty_cycle" THEN "duty_cycle" ELSE name) = name
  BY <1>1
<1>3. args[1] = <<IF c.command = "get_duty_cycle" THEN "duty_cycle" ELSE c.command>>
  BY <1>2
<1>4. c.command # "raw" /\ c.command \notin {"set", "get"}
  BY <1>1
<1>. QED  BY <1>3, <1>4, Zenon DEF AsTyped

LEMMA AfterMpsw ==
  ASSUME LoopTyped, Complete(optind, got), SubLine[1] = <<"mpsw">>, NEW c, c = AfterLoop(SubLine)
  PROVE  AsTyped(c, SubLine)
<1>1. c = MpswCommand
  BY DEF AfterLoop
<1>2. c.command = "mpsw"
  BY <1>1, CommandNames, Zenon
<1> DEFINE m == OptionMeaning(SubLine)
<1>3. ~m.bad /\ m.wait = 0
  BY Zenon DEF Complete
<1>4. MpswAsTyped(c, m, SubLine)
  BY <1>1, MpswSent, Zenon
<1>5. c.command # "twt" /\ c.command # "duty_cycle" /\ c.command # "vendor_ie"
  BY <1>2
<1>6. OptionsAsTyped(c, SubLine)
  BY <1>3, <1>4, <1>5, Zenon DEF OptionsAsTyped
<1>7. "mpsw" \in {"mpsw", "twt", "duty_cycle", "vendor_ie"}
  OBVIOUS
<1>. QED  BY <1>2, <1>6, <1>7, OnlyOptions, Zenon

LEMMA AfterTwt ==
  ASSUME LoopTyped, Complete(optind, got), SubLine[1] = <<"twt">>, NEW c, c = AfterLoop(SubLine)
  PROVE  AsTyped(c, SubLine)
<1>1. c = TwtCommand
  BY DEF AfterLoop
<1>2. c.command = "twt"
  BY <1>1, CommandNames, Zenon
<1> DEFINE m == OptionMeaning(SubLine)
<1>3. ~m.bad /\ m.wait = 0
  BY Zenon DEF Complete
<1>4. TwtAsTyped(c, m)
  BY <1>1, TwtSent, Zenon
<1>5. c.command # "mpsw" /\ c.command # "duty_cycle" /\ c.command # "vendor_ie"
  BY <1>2
<1>6. OptionsAsTyped(c, SubLine)
  BY <1>3, <1>4, <1>5, Zenon DEF OptionsAsTyped
<1>7. "twt" \in {"mpsw", "twt", "duty_cycle", "vendor_ie"}
  OBVIOUS
<1>. QED  BY <1>2, <1>6, <1>7, OnlyOptions, Zenon

LEMMA AfterDutyCycle ==
  ASSUME LoopTyped, Complete(optind, got), SubLine[1] = <<"duty_cycle">>, NEW c, c = AfterLoop(SubLine)
  PROVE  AsTyped(c, SubLine)
<1>1. c = DutyCycleCommand(SubLine)
  BY DEF AfterLoop
<1>2. c.command = "duty_cycle"
  BY <1>1, CommandNames, Zenon
<1> DEFINE m == OptionMeaning(SubLine)
<1>3. ~m.bad /\ m.wait = 0
  BY Zenon DEF Complete
<1>4. DutyCycleAsTyped(c, m)
  BY <1>1, DutyCycleSent, Zenon
<1>5. c.command # "mpsw" /\ c.command # "twt" /\ c.command # "vendor_ie"
  BY <1>2
<1>6. OptionsAsTyped(c, SubLine)
  BY <1>3, <1>4, <1>5, Zenon DEF OptionsAsTyped
<1>7. "duty_cycle" \in {"mpsw", "twt", "duty_cycle", "vendor_ie"}
  OBVIOUS
<1>. QED  BY <1>2, <1>6, <1>7, OnlyOptions, Zenon

LEMMA AfterVendorIe ==
  ASSUME LoopTyped, Complete(optind, got), SubLine[1] = <<"vendor_ie">>,
         NEW c, c = AfterLoop(SubLine), c # NoCommand
  PROVE  AsTyped(c, SubLine)
<1>1. c = VendorIeCommand
  BY DEF AfterLoop
<1> DEFINE m == OptionMeaning(SubLine)
<1>2. c.command = "vendor_ie" /\ VendorIeAsTyped(c, m)
  BY <1>1, VendorIeSent, Zenon
<1>3. ~m.bad /\ m.wait = 0
  BY Zenon DEF Complete
<1>5. c.command # "mpsw" /\ c.command # "twt" /\ c.command # "duty_cycle"
  BY <1>2
<1>6. OptionsAsTyped(c, SubLine)
  BY <1>2, <1>3, <1>5, Zenon DEF OptionsAsTyped
<1>7. "vendor_ie" \in {"mpsw", "twt", "duty_cycle", "vendor_ie"}
  OBVIOUS
<1>. QED  BY <1>2, <1>6, <1>7, OnlyOptions, Zenon

LEMMA OptionsSent ==
  ASSUME LoopTyped, Complete(optind, got), NEW c, c = AfterLoop(SubLine), c # NoCommand
  PROVE  AsTyped(c, SubLine)
<1>1. SubLine[1] \in GetoptCommands
  BY Zenon DEF LoopTyped
<1>2. SubLine[1] \in {<<"mpsw">>, <<"twt">>, <<"duty_cycle">>, <<"vendor_ie">>}
  BY <1>1, Zenon DEF GetoptCommands
<1>. QED  BY <1>2, AfterMpsw, AfterTwt, AfterDutyCycle, AfterVendorIe, Zenon

\* What it sends without one.
LEMMA WithoutSent ==
  ASSUME NEW args, ~Loops(args), NEW c, c = WithoutLoop(args), c # NoCommand
  PROVE  AsTyped(c, args)
<1>1. args[1] = <<"duty_cycle">> /\ c.command \in {"duty_cycle", "get_duty_cycle"}
  <2>1. args[1] = <<"duty_cycle">>
    BY SMT DEF WithoutLoop
  <2> DEFINE is == duty_cycle_parse_cmd(args) \in {<<"get">>, <<"airtime">>}
             no == duty_cycle_parse_cmd(args) = <<"disable">>
  <2>2. is => c.command = "get_duty_cycle"
    BY <2>1, SMT DEF WithoutLoop
  <2>3. no => \E value : c = DutyCycle({"duty_cycle"}, value, 0)
    BY <2>1, SMT DEF WithoutLoop
  <2>4. \A value : DutyCycle({"duty_cycle"}, value, 0).command = "duty_cycle"
    BY DEF DutyCycle
  <2>5. no => c.command = "duty_cycle"
    BY <2>3, <2>4, Zenon
  <2>6. is \/ no
    BY <2>1, SMT DEF WithoutLoop
  <2> HIDE DEF is, no
  <2>. QED  BY <2>1, <2>2, <2>5, <2>6, Zenon
<1>2. CASE c.command = "duty_cycle"
  <2>1. "duty_cycle" \in {"mpsw", "twt", "duty_cycle", "vendor_ie"}
    OBVIOUS
  <2>. QED  BY <1>1, <1>2, <2>1, OnlyOptions, Zenon
<1>3. CASE c.command = "get_duty_cycle"
  <2>1. args[1] = <<IF c.command = "get_duty_cycle" THEN "duty_cycle" ELSE c.command>>
    BY <1>1, <1>3
  <2>2. c.command # "raw" /\ c.command \notin {"set", "get"}
    BY <1>3
  <2>. QED  BY <2>1, <2>2, Zenon DEF AsTyped
<1>. QED  BY <1>1, <1>2, <1>3

-------------------------------------------------------------------------------
\* The whole of a process, and what it has sent.

LEMMA SentFirst == GInit => SentInv
<1> SUFFICES ASSUME GInit PROVE SentInv
  OBVIOUS
<1>1. stage = "main" /\ issued = NoCommand /\ table = MainTable /\ pass = "tagged"
  BY DEF GInit
<1>2. Stopped
  BY <1>1 DEF Stopped
<1>3. stage # "end" /\ stage \notin {"sub", "legacy", "options"} /\ stage # "sub" /\ stage # "legacy"
      /\ stage # "options"
  BY <1>1
<1>. QED  BY <1>1, <1>2, <1>3, Zenon DEF SentInv

\* At its end only what has been sent counts.
LEMMA SentAtEnd ==
  ASSUME stage' = "end", SentAsTyped'
  PROVE  SentInv'
<1>1. stage' # "main" /\ stage' \notin {"sub", "legacy", "options"} /\ stage' # "sub" /\ stage' # "legacy"
      /\ stage' # "options"
  OBVIOUS
<1>. QED  BY <1>1, Zenon DEF SentInv

LEMMA SentOnward ==
  ASSUME SentInv, ParsingInv, Parsing
  PROVE  SentInv'
<1>1. stage \in {"main", "sub"} /\ ParseStep /\ argv' = argv /\ stage' = stage /\ issued' = issued
  BY DEF Parsing
<1>2. table' = table /\ vector' = vector
  BY <1>1, Zenon DEF ParseStep, EndOfOptions, NextPass, ParseLong, ParseDash, ParseShort, Find, Again,
                     ParseUntagged, Leftover, Check
<1>3. SubLine' = SubLine /\ NoDashes' = NoDashes /\ Right(MainTable, argv)' = Right(MainTable, argv)
  BY <1>1, LineSame, Zenon
<1>4. stage # "end" /\ stage # "legacy" /\ stage # "options"
  BY <1>1
<1>5. issued = NoCommand
  BY <1>4, Zenon DEF SentInv
<1>6. NoDashes => ParseInv
  BY <1>1, Zenon DEF ParsingInv
<1>7. stage = "main" /\ NoDashes => table = MainTable /\ Stopped'
  BY <1>1, <1>6, StoppedSteps, Zenon DEF SentInv
<1>8. stage \in {"sub", "legacy", "options"} /\ NoDashes => Right(MainTable, argv)
  BY Zenon DEF SentInv
<1>9. stage = "sub" /\ NoDashes => table = RawTable /\ vector = SubLine /\ SubLine[1] = <<"raw">>
  BY Zenon DEF SentInv
<1>. QED  BY <1>1, <1>2, <1>3, <1>4, <1>5, <1>7, <1>8, <1>9, Zenon DEF SentInv

LEMMA SentDispatch ==
  ASSUME SentInv, ParsingInv, Dispatch
  PROVE  SentInv'
<1> DEFINE name == got[Command][1]
<1>1. /\ stage = "main" /\ pass = "done" /\ ~Stops /\ argv' = argv
      /\ \/ name = <<"raw">> /\ Parse(RawTable, SubArgv) /\ stage' = "sub" /\ issued' = issued
         \/ name \in {<<"set">>, <<"get">>} /\ vector' = SubArgv /\ stage' = "legacy" /\ issued' = issued
         \/ /\ name \in GetoptCommands /\ Loops(SubArgv) /\ Loop(OptionsOf(SubArgv), OptionArgs(SubArgv))
            /\ stage' = "options" /\ issued' = issued /\ SubArgv' = SubArgv
         \/ name \in GetoptCommands /\ ~Loops(SubArgv) /\ issued' = WithoutLoop(SubArgv) /\ stage' = "end"
         \/ issued' = issued /\ stage' = "end"
  BY Zenon DEF Dispatch, End, Loop, SubArgv
<1>2. issued = NoCommand
  <2>1. stage # "end"
    BY <1>1
  <2>. QED  BY <2>1, Zenon DEF SentInv
<1>3. SubLine' = SubLine /\ NoDashes' = NoDashes /\ Right(MainTable, argv)' = Right(MainTable, argv)
  BY <1>1, LineSame, Zenon
<1>4. NoDashes => /\ Right(MainTable, argv) /\ SubArgv = SubLine /\ name = SubLine[1]
                  /\ SubLine \in Seq(Args) /\ SubLine # <<>> /\ place = <<>>
                  /\ \A k \in DOMAIN SubLine : ~Dashed(SubLine[k])
  <2> SUFFICES ASSUME NoDashes
               PROVE  /\ Right(MainTable, argv) /\ SubArgv = SubLine /\ name = SubLine[1]
                      /\ SubLine \in Seq(Args) /\ SubLine # <<>> /\ place = <<>>
                      /\ \A k \in DOMAIN SubLine : ~Dashed(SubLine[k])
    OBVIOUS
  <2>1. ParseInv /\ vector = argv
    BY <1>1, Zenon DEF ParsingInv
  <2>2. table = MainTable /\ Stopped
    BY <1>1, Zenon DEF SentInv
  <2>3. errors = 0
    BY <1>1, Zenon DEF Stops
  <2> DEFINE first == SubLine[1]
  <2>4. got[Command] = <<first>>
    BY <1>1, <2>1, <2>2, <2>3, MainEnds, Zenon
  <2>5. \A x : <<x>>[1] = x
    OBVIOUS
  <2>6. name = first
    <3> HIDE DEF first
    <3>1. <<first>>[1] = first
      BY <2>5
    <3>. QED  BY <2>4, <3>1, Zenon
  <2>. QED  BY <1>1, <2>1, <2>2, <2>3, <2>6, MainEnds, Zenon
<1> HIDE DEF name
<1>5. CASE name = <<"raw">> /\ Parse(RawTable, SubArgv) /\ stage' = "sub" /\ issued' = issued
  <2>1. table' = RawTable /\ vector' = SubArgv
    BY <1>5 DEF Parse
  <2>2. stage' # "end" /\ stage' # "main" /\ stage' # "legacy" /\ stage' # "options"
    BY <1>5
  <2>. QED  BY <1>2, <1>3, <1>4, <1>5, <2>1, <2>2, Zenon DEF SentInv
<1>6. CASE name \in {<<"set">>, <<"get">>} /\ vector' = SubArgv /\ stage' = "legacy" /\ issued' = issued
  <2>1. stage' # "end" /\ stage' # "main" /\ stage' # "sub" /\ stage' # "options"
    BY <1>6
  <2>. QED  BY <1>2, <1>3, <1>4, <1>6, <2>1, Zenon DEF SentInv
<1>7. CASE /\ name \in GetoptCommands /\ Loops(SubArgv) /\ Loop(OptionsOf(SubArgv), OptionArgs(SubArgv))
           /\ stage' = "options" /\ issued' = issued /\ SubArgv' = SubArgv
  <2>1. stage' # "end" /\ stage' # "main" /\ stage' # "sub" /\ stage' # "legacy"
    BY <1>7
  <2>2. NoDashes => LoopInv'
    BY <1>1, <1>4, <1>7, LoopBegins, Zenon
  <2>. QED  BY <1>2, <1>3, <1>4, <1>7, <2>1, <2>2, Zenon DEF SentInv
<1>8. CASE name \in GetoptCommands /\ ~Loops(SubArgv) /\ issued' = WithoutLoop(SubArgv) /\ stage' = "end"
  <2> DEFINE c == WithoutLoop(SubLine)
  <2>1. NoDashes => issued' = c
    BY <1>4, <1>8, Zenon
  <2>2. NoDashes /\ c # NoCommand => AsTyped(c, SubLine)
    BY <1>4, <1>8, WithoutSent, Zenon
  <2>3. CASE NoDashes
    <3>1. issued' = c /\ (c # NoCommand /\ NoDashes => Right(MainTable, argv) /\ AsTyped(c, SubLine))
      BY <1>4, <2>1, <2>2, <2>3, Zenon
    <3> HIDE DEF c
    <3>2. SentAsTyped'
      BY <1>1, <3>1, SentNow, Zenon
    <3>. QED  BY <1>8, <3>2, SentAtEnd, Zenon
  <2>4. CASE ~NoDashes
    <3>1. SentAsTyped'
      BY <1>3, <2>4 DEF SentAsTyped
    <3>. QED  BY <1>8, <3>1, SentAtEnd, Zenon
  <2>. QED  BY <2>3, <2>4, Zenon
<1>9. CASE issued' = issued /\ stage' = "end"
  BY <1>1, <1>2, <1>9, NothingSent, SentAtEnd, Zenon
<1>. QED  BY <1>1, <1>5, <1>6, <1>7, <1>8, <1>9, Zenon

LEMMA ValueCount ==
  ASSUME NEW args \in Seq(Args), args # <<>>, Right(RawTable, args), NEW g, g = ValuesOf(RawTable, args)
  PROVE  Len(g[3]) \in Int
<1>1. 3 \in DOMAIN RawTable
  <2>1. DOMAIN RawTable = 1..9
    BY RawEntries, Zenon
  <2>2. 3 \in 1..9
    OBVIOUS
  <2>. QED  BY <2>1, <2>2, Zenon
<1>2. CASE g[3] = <<>>
  BY <1>2
<1>3. CASE g[3] # <<>>
  <2> DEFINE tbl == RawTable
  <2>1. Sound(tbl) /\ Right(tbl, args) /\ g = ValuesOf(tbl, args) /\ 3 \in DOMAIN tbl
    BY <1>1, RawSound, Zenon
  <2> HIDE DEF tbl
  <2>2. \E arg \in Args : Fine(Scan(tbl[3], 0, arg)) /\ g[3] = <<Scan(tbl[3], 0, arg).value>>
    BY <1>3, <2>1, ValueFrom
  <2>3. PICK x : g[3] = <<x>>
    BY <2>2, Zenon
  <2>. QED  BY <2>3
<1>. QED  BY <1>2, <1>3

LEMMA SentRaw ==
  ASSUME SentInv, ParsingInv, Raw
  PROVE  SentInv'
<1> DEFINE c == RawCommand(got)
<1>1. stage = "sub" /\ pass = "done" /\ ~Stops /\ argv' = argv /\ issued' = c /\ stage' = "end"
  BY Zenon DEF Raw, End
<1>2. ASSUME c # NoCommand, NoDashes
      PROVE  Right(MainTable, argv) /\ AsTyped(c, SubLine)
  <2>1. ParseInv /\ errors = 0
    BY <1>1, <1>2, Zenon DEF ParsingInv, Stops
  <2>2. /\ Right(MainTable, argv) /\ table = RawTable /\ vector = SubLine /\ SubLine[1] = <<"raw">>
    <3>1. stage \in {"sub", "legacy", "options"}
      BY <1>1
    <3>. QED  BY <1>1, <1>2, <3>1, Zenon DEF SentInv
  <2>3. Right(table, vector) /\ got = ValuesOf(table, vector)
    BY <1>1, <2>1 DEF ParseInv, Fits
  <2>4. vector \in Seq(Args) /\ vector # <<>>
    BY <2>1, Zenon DEF ParseInv, ParseTyped
  <2>5. /\ Right(RawTable, SubLine) /\ got = ValuesOf(RawTable, SubLine)
        /\ SubLine \in Seq(Args) /\ SubLine # <<>>
    BY <2>2, <2>3, <2>4, Zenon
  <2>6. RawTyped(got)
    BY <2>5, RawValues, Zenon
  <2>7. Len(got[3]) \in Int
    BY <2>5, ValueCount, Zenon
  <2>8. c.command = "raw" /\ (RawFits(got) => RawAsTyped(c, got))
    BY <1>2, <2>6, <2>7, RawSent, Zenon
  <2> DEFINE g == ValuesOf(RawTable, SubLine)
  <2>9. RawFits(g) => RawAsTyped(c, g)
    BY <2>5, <2>8, Zenon
  <2> HIDE DEF c, g
  <2>10. SubLine[1] = <<IF c.command = "get_duty_cycle" THEN "duty_cycle" ELSE c.command>>
    BY <2>2, <2>8
  <2>11. SubLine[1] \notin GetoptCommands
    BY <2>2 DEF GetoptCommands
  <2>12. c.command \notin {"set", "get"}
    BY <2>8
  <2>. QED  BY <2>2, <2>5, <2>9, <2>10, <2>11, <2>12, Zenon DEF AsTyped, g
<1> HIDE DEF c
<1>3. SentAsTyped'
  BY <1>1, <1>2, SentNow, Zenon
<1>. QED  BY <1>1, <1>3, SentAtEnd, Zenon

LEMMA SentSetGet ==
  ASSUME SentInv, SetGet
  PROVE  SentInv'
<1> DEFINE c == IF Len(vector) < 2 THEN NoCommand ELSE ParamCommand(vector)
<1>1. stage = "legacy" /\ argv' = argv /\ issued' = c /\ stage' = "end"
  BY Zenon DEF SetGet, End
<1>2. ASSUME c # NoCommand, NoDashes
      PROVE  Right(MainTable, argv) /\ AsTyped(c, SubLine)
  <2>1. c = ParamCommand(vector)
    BY <1>2, Zenon
  <2>2. Right(MainTable, argv) /\ vector = SubLine /\ SubLine[1] \in {<<"set">>, <<"get">>}
    <3>1. stage \in {"sub", "legacy", "options"}
      BY <1>1
    <3>. QED  BY <1>1, <1>2, <3>1, Zenon DEF SentInv
  <2>3. c = ParamCommand(SubLine)
    BY <2>1, <2>2, Zenon
  <2>4. SubLine[1] = <<"set">> \/ SubLine[1] = <<"get">>
    BY <2>2, Zenon
  <2>5. ParamCommand(SubLine) # NoCommand
    BY <1>2, <2>3, Zenon
  <2>6. AsTyped(ParamCommand(SubLine), SubLine)
    BY <2>4, <2>5, ParamTyped, Zenon
  <2>. QED  BY <2>2, <2>3, <2>6, Zenon
<1> HIDE DEF c
<1>3. SentAsTyped'
  BY <1>1, <1>2, SentNow, Zenon
<1>. QED  BY <1>1, <1>3, SentAtEnd, Zenon

LEMMA SentOptions ==
  ASSUME SentInv, Options
  PROVE  SentInv'
<1>1. stage = "options" /\ argv' = argv
  BY Zenon DEF Options, End
<1>2. stage # "end" /\ stage # "main" /\ stage # "sub" /\ stage # "legacy"
      /\ stage \in {"sub", "legacy", "options"}
  BY <1>1
<1>3. issued = NoCommand /\ (NoDashes => Right(MainTable, argv) /\ SubArgv = SubLine /\ LoopInv)
  BY <1>1, <1>2, Zenon DEF SentInv
<1>4. SubLine' = SubLine /\ NoDashes' = NoDashes /\ Right(MainTable, argv)' = Right(MainTable, argv)
  BY <1>1, LineSame, Zenon
<1>5. CASE Getopt /\ stage' = stage /\ issued' = issued
  <2>1. SubArgv' = SubArgv
    BY <1>1, <1>5, Zenon DEF Getopt, SubArgv
  <2>2. NoDashes => LoopInv'
    BY <1>1, <1>3, <1>5, LoopSteps, Zenon
  <2>. QED  BY <1>1, <1>2, <1>3, <1>4, <1>5, <2>1, <2>2, Zenon DEF SentInv
<1>6. CASE pass = "done" /\ issued' = (IF errors = 0 THEN AfterLoop(SubArgv) ELSE NoCommand) /\ stage' = "end"
  <2> DEFINE c == IF errors = 0 THEN AfterLoop(SubArgv) ELSE NoCommand
  <2>1. ASSUME c # NoCommand, NoDashes
        PROVE  Right(MainTable, argv) /\ AsTyped(c, SubLine)
    <3>1. errors = 0 /\ c = AfterLoop(SubLine)
      BY <1>3, <2>1, Zenon
    <3>2. LoopTyped /\ Complete(optind, got)
      BY <1>3, <1>6, <2>1, <3>1, Zenon DEF LoopInv
    <3> HIDE DEF c
    <3>. QED  BY <1>3, <2>1, <3>1, <3>2, OptionsSent, Zenon
  <2>2. issued' = c
    BY <1>6
  <2> HIDE DEF c
  <2>3. SentAsTyped'
    BY <1>1, <2>1, <2>2, SentNow, Zenon
  <2>. QED  BY <1>6, <2>3, SentAtEnd, Zenon
<1>. QED  BY <1>5, <1>6, Zenon DEF Options, End

LEMMA SentStays ==
  ASSUME SentInv, UNCHANGED gvars
  PROVE  SentInv'
<1>1. /\ table' = table /\ vector' = vector /\ pass' = pass /\ limit' = limit /\ optind' = optind
      /\ place' = place /\ tab' = tab /\ got' = got /\ idx' = idx /\ errors' = errors
      /\ argv' = argv /\ stage' = stage /\ issued' = issued
  BY DEF gvars, avars
<1>2. SubLine' = SubLine /\ NoDashes' = NoDashes /\ Right(MainTable, argv)' = Right(MainTable, argv)
  BY <1>1, LineSame, Zenon
<1>3. SentAsTyped' = SentAsTyped
  BY <1>1, <1>2, Zenon DEF SentAsTyped
<1>4. Stopped' = Stopped
  BY <1>1, Zenon DEF Stopped, Fits, Mean
<1>5. SubArgv' = SubArgv
  BY <1>1, Zenon DEF SubArgv
<1>6. LoopInv => LoopInv'
  <2>1. GoesOn(optind', place', got') = GoesOn(optind, place, got) /\ Complete(optind', got') = Complete(optind, got)
    BY <1>1, Zenon
  <2>2. LoopTyped' = LoopTyped
    BY <1>1, <1>2, Zenon DEF LoopTyped
  <2>. QED  BY <1>1, <2>1, <2>2, LoopSame, Zenon DEF LoopInv
<1>. QED  BY <1>1, <1>2, <1>3, <1>4, <1>5, <1>6, Zenon DEF SentInv

LEMMA SentOn == SentInv /\ ParsingInv /\ [GNext]_gvars => SentInv'
<1> SUFFICES ASSUME SentInv, ParsingInv, [GNext]_gvars PROVE SentInv'
  OBVIOUS
<1>1. CASE ParseStops
  <2>1. stage \in {"main", "sub"} /\ issued' = issued /\ stage' = "end" /\ argv' = argv
    BY <1>1, Zenon DEF ParseStops, End
  <2>2. stage # "end"
    BY <2>1
  <2>3. issued = NoCommand
    BY <2>2, Zenon DEF SentInv
  <2>. QED  BY <2>1, <2>3, NothingSent, SentAtEnd, Zenon
<1>2. CASE Ended \/ UNCHANGED gvars
  BY <1>2, SentStays, Zenon DEF Ended
<1>3. Parsing \/ ParseStops \/ Dispatch \/ Raw \/ SetGet \/ Options \/ Ended \/ UNCHANGED gvars
  BY Zenon DEF GNext
<1>. QED  BY <1>1, <1>2, <1>3, SentOnward, SentDispatch, SentRaw, SentSetGet, SentOptions, Zenon

\* Whatever the line, if there is no dash in a group: what is sent is what was typed.
THEOREM SendsAsTyped == GSpec => []SentAsTyped
<1>1. SentInv => SentAsTyped
  BY Zenon DEF SentInv, SentAsTyped
<1>2. ParsingInv /\ SentInv /\ [GNext]_gvars => ParsingInv' /\ SentInv'
  BY ParsesOn, SentOn, Zenon
<1>. QED  BY ParsesFirst, SentFirst, <1>1, <1>2, PTL DEF GSpec
===============================================================================
