-------------------------------- MODULE Args -------------------------------
(***************************************************************************)
(* Command-line arguments (ffbase/args.h).                                 *)
(*                                                                         *)
(* A scheme is a sorted sequence of entries, perhaps an entry for any      *)
(* other argument, and what its last entry answers when all is done.       *)
(* Entries point to other schemes by number.  The same arguments are given *)
(* to ffargs_process_argv() as an array and to ffargs_process_line() as    *)
(* one line; both take one argument per step.                              *)
(***************************************************************************)
EXTENDS Strings

CONSTANTS
  ArgSchemes,   \* the schemes; the first one is where processing starts
  ArgWords,     \* arguments a user may give
  ArgMaxWords,  \* bound: arguments of a command line
  ArgUsedBits,  \* 64: entries that are watched for repetitions
  ArgEntries    \* names of the entries of schemes that are merged

ASSUME ArgsAssumption ==
  /\ ArgUsedBits \in Nat /\ ArgMaxWords \in Nat
  /\ \A n \in DOMAIN ArgSchemes : \A i, j \in DOMAIN ArgSchemes[n].entries :
       i < j => ffsz_cmp(ArgSchemes[n].entries[i].name, ArgSchemes[n].entries[j].name, FALSE) < 0

VARIABLE args  \* the command line, what is left of it, and both processors

DASHDASH == <<45, 45>>
NoEntry == [name |-> <<>>, type |-> "none", multi |-> FALSE, to |-> 0, ret |-> 0]

(* What a processor knows.  "calls" is kept here only: it is what the      *)
(* user's fields and functions are given, with the number of words used.   *)
Processor == [scheme |-> 1, visit |-> 0, dash |-> FALSE, used |-> {}, expect |-> 0, key |-> <<>>, calls |-> <<>>, ret |-> "go"]

Count(p) == Len(ArgSchemes[p.scheme].entries)
Entry(p, pos) == IF pos = Count(p) + 1 THEN ArgSchemes[p.scheme].any ELSE ArgSchemes[p.scheme].entries[pos]
IsAny(p, pos) == pos = Count(p) + 1
Stop(p, ret) == [p EXCEPT !.ret = ret]
Called(p, pos, key, val, words) ==
  [p EXCEPT !.calls = Append(@, [scheme |-> p.scheme, visit |-> p.visit, dash |-> p.dash, pos |-> pos, key |-> key, val |-> val, words |-> words]),
            !.ret = IF Entry(p, pos).ret # 0 THEN "user" ELSE "go"]

----------------------------------------------------------------------------
(* One argument *)

(* _ffargs_find(): the position of the entry, 0 when there is none; i is   *)
(* where its name belongs.                                                 *)
FoundAt(p, i, arg, partial) ==
  LET e == ArgSchemes[p.scheme].entries
      r == ffs_cmpz_n(arg, e[i + 1].name)
      only == i + 1 = Count(p) \/ ~ffsz_match(e[i + 2].name, arg)
      any == IF ArgSchemes[p.scheme].any = NoEntry THEN 0 ELSE Count(p) + 1
  IN  IF p.dash \/ i = Count(p) THEN any
      ELSE IF r = 0 \/ (partial /\ -r - 1 = Len(arg) /\ only) THEN i + 1
      ELSE any

ArgFind(p, arg, partial) ==
  FoundAt(p, FirstIn(Count(p), LAMBDA k : ffs_cmpz_n(arg, ArgSchemes[p.scheme].entries[k + 1].name) <= 0), arg, partial)

Number10(s) == s # <<>> /\ ToSet(s) \subseteq 48..57
Accepts(type, val) ==
  CASE type = "b" -> val \in {<<48>>, <<49>>}
    [] type = "u" -> Number10(val)
    [] type = "Z" -> Number10(val) \/ (val # <<>> /\ Number10(Front(val)) /\ Upper(Last(val)) \in {71, 75, 77})
    [] OTHER -> TRUE

(* _ffargs_value() *)
ArgValue(p, pos, key, val, words) ==
  IF ~Accepts(Entry(p, pos).type, val) THEN Stop(p, IF Entry(p, pos).type = "b" THEN "BOOL" ELSE "INT")
  ELSE Called(p, pos, key, val, words)

(* Definitions "Wrong..." are what a plausible slip would have made of the *)
(* definition below them; no specification uses them.                      *)

(* Wrong: the entries used in the old context still count. *)
WrongEnter(p, pos, arg, words) ==
  [Called(p, pos, arg, <<>>, words) EXCEPT !.scheme = Entry(p, pos).to, !.visit = @ + 1]

(* Another context: the entries used so far are forgotten. *)
Enter(p, pos, arg, words) ==
  [Called(p, pos, arg, <<>>, words) EXCEPT !.scheme = Entry(p, pos).to, !.visit = @ + 1, !.used = {}]

(* _ffargs_arg(), and the loop around it that gives the argument to the    *)
(* next context when an entry for any argument redirects.                  *)
RECURSIVE ArgProcess(_, _, _)
ProcessAt(p, pos, arg, opts) ==
  LET e == Entry(p, pos)
      any == IsAny(p, pos)
      watched == "duplicates" \in opts /\ pos <= ArgUsedBits
      q == [p EXCEPT !.used = IF watched THEN @ \cup {pos} ELSE @]
  IN  CASE ~p.dash /\ arg = DASHDASH -> [p EXCEPT !.dash = TRUE]
        [] (p.dash \/ arg # DASHDASH) /\ pos = 0 -> [Stop(p, "ARG") EXCEPT !.key = arg]
        [] OTHER ->
             CASE watched /\ pos \in p.used /\ ~any /\ ~e.multi -> [Stop(p, "DUP") EXCEPT !.key = arg]
               [] ~(watched /\ pos \in p.used /\ ~any /\ ~e.multi) /\ e.type \in {"{", ">"} ->
                    IF any THEN ArgProcess(Enter(q, pos, arg, 0), arg, opts) ELSE Enter(q, pos, arg, 1)
               [] OTHER ->
                    IF e.type \in {"0", "1"} THEN Called(q, pos, arg, <<>>, 1)
                    ELSE IF any THEN ArgValue(q, pos, arg, arg, 1)
                    ELSE [q EXCEPT !.expect = pos, !.key = arg]

ArgProcess(p, arg, opts) == ProcessAt(p, ArgFind(p, arg, "partial" \in opts), arg, opts)

TakeArg(p, arg, opts) ==
  IF p.expect # 0 THEN ArgValue([p EXCEPT !.expect = 0], p.expect, p.key, arg, 2) ELSE ArgProcess(p, arg, opts)

(* The end: _ffarg_ctx_done() *)
ArgsEnd(p) ==
  Stop(p, IF p.expect # 0 THEN "VAL" ELSE IF ArgSchemes[p.scheme].done # 0 THEN "user" ELSE "OK")

----------------------------------------------------------------------------
(* The command line *)

(* _ffargs_next(): up to a space, or between quotes. *)
LineNext(line) ==
  LET s == Suffix(line, ffs_skipany(line, {32}))
      quoted == s # <<>> /\ s[1] = 34
      t == IF quoted THEN Tail(s) ELSE s
      n == FirstIn(Len(t), LAMBDA i : t[i + 1] = IF quoted THEN 34 ELSE 32)
  IN  [done |-> s = <<>>, arg |-> Prefix(t, n), line |-> IF n = Len(t) THEN <<>> ELSE Suffix(t, n + 1)]

(* How a user writes an argument in a line. *)
Quoted(w) == IF w = <<>> \/ 32 \in ToSet(w) THEN <<34>> \o w \o <<34>> ELSE w
Line(words, sep) == FlattenSeq([i \in DOMAIN words |-> Quoted(words[i]) \o sep])

ArgsStart(words, opts, sep) ==
  LET skip == "skip" \in opts
      line == Line(words, sep)
  IN  [about |-> "process", words |-> words, opts |-> opts,
       argv |-> Processor, argi |-> IF skip THEN 1 ELSE 0,
       line |-> Processor, rest |-> IF skip THEN LineNext(line).line ELSE line]

ArgsInit ==
  \/ \E n \in 1..ArgMaxWords : \E words \in [1..n -> ArgWords], opts \in SUBSET {"partial", "duplicates", "skip"}, sep \in {<<32>>, <<32, 32>>} :
       args = ArgsStart(words, opts, sep)
  \/ args = [about |-> "merge", done |-> FALSE]

(* One turn of the loop of ffargs_process_argv(). *)
ArgvTurn ==
  /\ args.about = "process" /\ args.argv.ret = "go" /\ args.argi < Len(args.words)
  /\ LET i == args.argi + 1 IN args' = [args EXCEPT !.argi = i, !.argv = TakeArg(@, args.words[i], args.opts)]
ArgvEnd ==
  /\ args.about = "process" /\ args.argv.ret = "go" /\ args.argi = Len(args.words)
  /\ args' = [args EXCEPT !.argv = ArgsEnd(@)]

(* ffargs_process_line(), after the array was processed. *)
LineTurn ==
  /\ args.about = "process" /\ args.argv.ret # "go" /\ args.line.ret = "go"
  /\ LET next == LineNext(args.rest) IN
     /\ ~next.done
     /\ args' = [args EXCEPT !.rest = next.line, !.line = TakeArg(@, next.arg, args.opts)]
LineEnd ==
  /\ args.about = "process" /\ args.argv.ret # "go" /\ args.line.ret = "go"
  /\ LineNext(args.rest).done
  /\ args' = [args EXCEPT !.line = ArgsEnd(@)]

----------------------------------------------------------------------------
(* Merging schemes *)

(* Entry names that begin with a zero: the end, and any argument. *)
EndName == <<>>
AnyName == <<0>>
Special(name) == name \in {EndName, AnyName}
(* The first two bytes as the code reads them. *)
TwoBytes(name) ==
  IF name = EndName THEN 0 ELSE IF name = AnyName THEN 256 ELSE name[1] + 256 * (IF Len(name) = 1 THEN 0 ELSE name[2])
MergeCmp(a, b) ==
  IF Special(a) \/ Special(b) THEN Sign(TwoBytes(b), TwoBytes(a)) ELSE ffsz_cmp(a, b, FALSE)

(* ffarg_merge(); SameKey stands for -1.                                   *)
SameKey == <<<<-1>>>>
RECURSIVE MergeFrom(_, _, _)
MergeFrom(out, a, b) ==
  IF a = <<>> \/ b = <<>> THEN out \o a \o b
  ELSE LET r == MergeCmp(a[1], b[1]) IN
       IF r = 0 THEN SameKey
       ELSE IF r < 0 THEN MergeFrom(Append(out, a[1]), Tail(a), b) ELSE MergeFrom(Append(out, b[1]), a, Tail(b))
ffarg_merge(cap, a, b) == IF Len(a) + Len(b) > cap THEN SameKey ELSE MergeFrom(<<>>, a, b)

InOrder(names) == SetToSortSeq(names, LAMBDA a, b : MergeCmp(a, b) < 0)
AskMerge ==
  /\ args.about = "merge" /\ ~args.done
  /\ \E a, b \in SUBSET ArgEntries, cap \in {2, 2 * Cardinality(ArgEntries)} :
       args' = [about |-> "merge", done |-> TRUE, a |-> a, b |-> b, cap |-> cap,
                got |-> ffarg_merge(cap, InOrder(a), InOrder(b))]

ArgsNext == ArgvTurn \/ ArgvEnd \/ LineTurn \/ LineEnd \/ AskMerge

----------------------------------------------------------------------------
(* Properties *)

(* The entry with that name, the only one whose name begins so, or the     *)
(* entry for any argument when there is no such entry.                     *)
Meant(scheme, dash, key, partial) ==
  LET entries == ArgSchemes[scheme].entries
      named == {i \in DOMAIN entries : entries[i].name = key}
      begun == {i \in DOMAIN entries : IsPrefix(key, entries[i].name)}
      meant == IF dash THEN {} ELSE IF named # {} THEN named ELSE IF partial /\ Cardinality(begun) = 1 THEN begun ELSE {}
  IN  IF meant = {} THEN Len(entries) + 1 ELSE CHOOSE i \in meant : TRUE

ProcessorIsRight(p, taken, opts) ==
  LET c == p.calls
      single(k) == c[k].pos <= ArgUsedBits /\ c[k].pos <= Len(ArgSchemes[c[k].scheme].entries)
                   /\ ~ArgSchemes[c[k].scheme].entries[c[k].pos].multi
      partial == "partial" \in opts
      words == FoldLeft(LAMBDA n, call : n + call.words, 0, c)
  IN  /\ \A k \in DOMAIN c : c[k].pos = Meant(c[k].scheme, c[k].dash, c[k].key, partial)
      /\ "duplicates" \in opts =>
           \A j, k \in DOMAIN c : j < k /\ c[j].visit = c[k].visit /\ c[j].pos = c[k].pos => ~single(k)
      /\ p.ret = "DUP" => \E k \in DOMAIN c : c[k].visit = p.visit /\ c[k].pos = Meant(p.scheme, p.dash, p.key, partial)
      /\ p.ret = "ARG" =>
           /\ ArgSchemes[p.scheme].any = NoEntry
           /\ Meant(p.scheme, p.dash, p.key, partial) = Count(p) + 1
      /\ p.ret \in {"go", "OK", "VAL"} =>
           taken = words + (IF p.dash THEN 1 ELSE 0) + (IF p.expect # 0 THEN 1 ELSE 0)
      /\ p.ret = "VAL" <=> p.expect # 0 /\ p.ret # "go"
      /\ p.ret = "OK" => ArgSchemes[p.scheme].done = 0

MergeIsRight ==
  LET names == args.a \cup args.b IN
  IF args.got = SameKey THEN args.a \cap args.b # {} \/ Cardinality(args.a) + Cardinality(args.b) > args.cap
  ELSE args.got = InOrder(names) /\ args.a \cap args.b = {}

(* Every argument goes to exactly one entry, the one it names, none that   *)
(* may occur once is taken twice in one context, an array and a line of    *)
(* the same arguments do the same, and merged schemes stay sorted.         *)
ArgsAgree ==
  IF args.about = "merge" THEN args.done => MergeIsRight
  ELSE /\ ProcessorIsRight(args.argv, args.argi - (IF "skip" \in args.opts THEN 1 ELSE 0), args.opts)
       /\ args.line.ret # "go" => args.line = args.argv
=============================================================================
