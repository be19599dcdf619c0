------------------------------- MODULE Format ------------------------------
(***************************************************************************)
(* Formatted output and input (ffbase/str-format.h, str-format.c).         *)
(*                                                                         *)
(* %d, %u, %D, %U, %L are "int"; %f is "float"; %s and %q are "sz"; %S is  *)
(* "str"; %xb is "bytes"; %c is "fill"; %Z, %% and a character of the      *)
(* format are "char".                                                      *)
(*                                                                         *)
(* A format is a sequence of directives that carry their arguments: a      *)
(* character of the format itself, a string, an integer, a floating point  *)
(* number, bytes.  Output that does not fit is counted only, so that the   *)
(* caller can make room and format again.                                  *)
(***************************************************************************)
EXTENDS Convert, FiniteSetsExt

CONSTANTS
  FmtDirectives, \* directives with their arguments
  FmtMaxLen,     \* bound: directives in a format
  FmtCaps,       \* capacities
  FmtIntCap,     \* FFS_INTCAP: room that is counted for an integer
  FmtFltCap,     \* FFS_FLTCAP: room that is counted for a floating point number
  FmtFirst,      \* 80: what ffsz_allocfmt() allocates first
  MatchTexts,    \* texts that are matched, each followed by a zero
  MatchFormats   \* formats they are matched with

(* A directive is [kind, have, width, zero, arg] and, of an integer, sign  *)
(* and base, of a floating point number, prec.                             *)
ASSUME FormatAssumption ==
  /\ FmtIntCap \in Nat /\ FmtFltCap \in Nat /\ FmtCaps \subseteq Nat /\ FmtFirst \in Nat \ {0}
  /\ \A d \in FmtDirectives : d.kind \in {"char", "int", "float", "sz", "str", "bytes", "fill"}

VARIABLE fmt  \* a question and its answer

FmtInit == fmt = [about |-> "nothing"]

----------------------------------------------------------------------------
(* Output                                                                  *)

Justified(s, width) == s \o Filled(SPACE, IF width > Len(s) THEN width - Len(s) ELSE 0)

(* What a directive writes into this room; <<>> is "does not fit" for a    *)
(* number, and of a string is what there is room for.                      *)
Output(d, room) ==
  CASE d.kind = "int" -> ffs_fromint(d.arg, room, [Plain EXCEPT !.sign = d.sign, !.base = d.base, !.zero = d.zero, !.width = d.width])
    [] d.kind = "float" -> ffs_fromfloat(d.arg, room, d.prec, d.width, d.zero, FALSE)
    [] d.kind = "bytes" -> ffs_fromhex(d.arg, room, FALSE)
    [] d.kind = "fill" -> Filled(d.arg, IF d.have THEN d.width ELSE 1)
    [] d.kind = "char" -> <<d.arg>>
    [] d.kind = "sz" -> SubSeq(d.arg, 1, Min({room, IF d.have THEN d.width ELSE Len(d.arg)}))
    [] d.kind = "str" ->
         IF Len(d.arg) < d.width /\ d.width < room THEN Justified(d.arg, d.width)
         ELSE SubSeq(d.arg, 1, Min({room, Len(d.arg)}))

(* Phase 2: counting.  In phase 1 a number that does not fit is counted    *)
(* without its width.                                                      *)
Counted(d) ==
  CASE d.kind = "int" -> Max({FmtIntCap, d.width})
    [] d.kind = "float" -> FmtFltCap
    [] d.kind = "bytes" -> 2 * Len(d.arg)
    [] d.kind = "fill" -> IF d.have THEN d.width ELSE 1
    [] d.kind = "char" -> 1
    [] d.kind = "sz" -> IF d.have THEN d.width ELSE Len(d.arg)
    [] d.kind = "str" -> Max({Len(d.arg), d.width})

(* Definitions "Wrong..." are what a plausible slip would have made of the *)
(* definition below them; no specification uses them.                      *)

(* Wrong: a string is counted as what there was room for. *)
WrongCountedAs(d, out) ==
  CASE d.kind = "int" /\ out = <<>> -> FmtIntCap
    [] d.kind = "float" /\ out = <<>> -> FmtFltCap
    [] OTHER -> Len(out)

CountedAs(d, out) ==
  CASE d.kind = "int" /\ out = <<>> -> FmtIntCap
    [] d.kind = "float" /\ out = <<>> -> FmtFltCap
    [] d.kind \in {"int", "float"} /\ out # <<>> -> Len(out)
    [] OTHER -> Counted(d)

(* One directive: len counts, end is where the last byte was written.      *)
Written(f, d, out) == [len |-> f.len + CountedAs(d, out), end |-> f.len + Len(out), out |-> f.out \o out]

FormatOne(f, d, cap) ==
  IF f.len < cap THEN Written(f, d, Output(d, cap - f.len)) ELSE [f EXCEPT !.len = @ + Counted(d)]

(* ffs_formatv(): one byte of the capacity is never used. *)
Returned(f, cap) == [ret |-> IF f.len >= cap THEN -(f.len + 1) ELSE f.len, end |-> f.end, out |-> f.out]

ffs_formatv(ds, cap) ==
  Returned(FoldLeft(LAMBDA f, d : FormatOne(f, d, cap), [len |-> 0, end |-> 0, out |-> <<>>], ds), cap)

(* ffsz_formatv(): the text and a zero, or nothing and a zero. *)
Terminated(f) == IF f.ret >= 0 THEN Append(f.out, 0) ELSE <<0>>

ffsz_format(ds, cap) == IF cap = 0 THEN <<>> ELSE Terminated(ffs_formatv(ds, cap - 1))

(* What does not fit is formatted again with the room it asked for.        *)
Again(ds, first, spare) == IF first.ret < 0 THEN ffs_formatv(ds, -first.ret + spare) ELSE first

(* A text, unless the second attempt failed, too: NULL, or nothing added.  *)
TextOf(f, none) == IF f.ret < 0 THEN none ELSE SubSeq(f.out, 1, f.ret)

(* ffsz_allocfmtv(); <<-1>> is NULL. *)
ffsz_allocfmt(ds) == TextOf(Again(ds, ffs_formatv(ds, FmtFirst - 1), 0), <<-1>>)

(* ffstr_growfmtv() to len bytes with a capacity: what is added.  A buffer *)
(* that grows gets the room that was asked for, or more.                   *)
ffstr_growfmt(ds, cap, len, spare) == TextOf(Again(ds, ffs_formatv(ds, Max({cap - len, 0})), spare), <<>>)

----------------------------------------------------------------------------
(* Input: ffstr_matchfmtv().  A format is a sequence of literal characters *)
(* [var |-> FALSE, c] ("%%" is one of them) and variables [var |-> TRUE,   *)
(* int, width, base, sign]; places are from 0.                             *)

CharAt(s, i) == IF i < Len(s) THEN s[i + 1] ELSE 0

(* The literals of a format from its i-th part on. *)
Literals(ps, i) ==
  LET vars == {k \in i..Len(ps) : ps[k].var}
      end == IF vars = {} THEN Len(ps) ELSE Min(vars) - 1
  IN  [k \in 1..end - i + 1 |-> ps[i + k - 1].c]

Standing(s, at, delim) == \A k \in DOMAIN delim : CharAt(s, at + k - 1) = delim[k]

(* Wrong: after a part of the delimiter the search goes on behind it. *)
WrongDelimAt(s, from, delim) ==
  LET first == {at \in from..Len(s) - 1 : s[at + 1] = delim[1]}
  IN  IF first # {} /\ Standing(s, Min(first), delim) THEN Min(first) ELSE -1

(* The first place where all of the delimiter stands; -1 when there is no  *)
(* such place before the end.                                              *)
DelimAt(s, from, delim) ==
  LET all == {at \in from..Len(s) - 1 : Standing(s, at, delim)}
  IN  IF all = {} THEN -1 ELSE Min(all)

(* The chunk for a variable: where it ends, where the text goes on and     *)
(* with which part of the format.                                          *)
VarChunk(s, ps, i, at) ==
  LET p == ps[i]
      delim == Literals(ps, i + 1)
      d == DelimAt(s, at, delim)
  IN  CASE at + p.width > Len(s) -> [end |-> -1, at |-> 0, i |-> 0]
        [] at + p.width <= Len(s) /\ p.width # 0 -> [end |-> at + p.width, at |-> at + p.width, i |-> i + 1]
        [] p.width = 0 /\ i = Len(ps) -> [end |-> Len(s), at |-> Len(s), i |-> i + 1]
        [] p.width = 0 /\ i # Len(ps) /\ (delim = <<>> \/ d = -1) -> [end |-> -1, at |-> 0, i |-> 0]
        [] OTHER -> [end |-> d, at |-> d + Len(delim), i |-> i + 1 + Len(delim)]

NoMatch == [ret |-> -1, vals |-> <<>>]

RECURSIVE MatchFrom(_, _, _, _, _)
MatchFrom(s, ps, i, at, vals) ==
  LET c == VarChunk(s, ps, i, at)
      text == SubSeq(s, at + 1, c.end)
      int == ffs_toint(text, WideBits, ps[i].base, ps[i].sign)
  IN  IF i > Len(ps) THEN [ret |-> IF at = Len(s) THEN 0 ELSE at + 1, vals |-> vals]
      ELSE IF ~ps[i].var THEN (IF CharAt(s, at) # ps[i].c THEN NoMatch ELSE MatchFrom(s, ps, i + 1, at + 1, vals))
      ELSE IF c.end = -1 \/ (ps[i].int /\ (text = <<>> \/ int.ret # Len(text))) THEN NoMatch
      ELSE MatchFrom(s, ps, c.i, c.at, Append(vals, IF ps[i].int THEN <<int.dst>> ELSE text))

ffstr_matchfmt(s, ps) == MatchFrom(s, ps, 1, 0, <<>>)

----------------------------------------------------------------------------
(* The questions *)

AskOutput(ds, cap) ==
  fmt' = [about |-> "format", ds |-> ds, cap |-> cap, got |-> ffs_formatv(ds, cap), z |-> ffsz_format(ds, cap), alloc |-> ffsz_allocfmt(ds),
          grown |-> {ffstr_growfmt(ds, cap, len, spare) : len \in {0, 2}, spare \in {0, 3}}]

AskMatch(s, ps) == fmt' = [about |-> "match", s |-> s, ps |-> ps, got |-> ffstr_matchfmt(s, ps)]

FmtNext ==
  /\ fmt.about = "nothing"
  /\ \/ \E n \in 0..FmtMaxLen : \E ds \in [1..n -> FmtDirectives] : \E cap \in FmtCaps : AskOutput(ds, cap)
     \/ \E s \in MatchTexts, ps \in MatchFormats : AskMatch(s, ps)

----------------------------------------------------------------------------
(* Properties *)

(* The text of a format, with all the room there is. *)
Whole(ds) ==
  FlattenSeq([i \in DOMAIN ds |->
    LET d == ds[i] IN
    CASE d.kind = "str" -> Justified(d.arg, d.width)
      [] d.kind = "sz" /\ d.have -> SubSeq(d.arg, 1, d.width)
      [] OTHER -> Output(d, 1000)])

FormatIsWhole(whole) ==
  LET f == fmt.got IN
  /\ f.end <= fmt.cap
  /\ f.ret >= 0 <=> Len(whole) < fmt.cap
  /\ IF f.ret >= 0 THEN f.out = whole /\ f.ret = Len(whole) ELSE -f.ret > fmt.cap
  /\ fmt.z = IF Len(whole) + 1 < fmt.cap THEN Append(whole, 0) ELSE IF fmt.cap = 0 THEN <<>> ELSE <<0>>
  /\ fmt.alloc = whole
  /\ fmt.grown = {whole}

(* All ways to give the variables chunks of the text, so that the text     *)
(* begins with what the format then is.                                    *)
RECURSIVE Readings(_, _)
Readings(s, ps) ==
  IF ps = <<>> THEN {<<>>}
  ELSE IF ~ps[1].var THEN (IF s # <<>> /\ s[1] = ps[1].c THEN Readings(Tail(s), Tail(ps)) ELSE {})
  ELSE UNION {{<<SubSeq(s, 1, n)>> \o r : r \in Readings(Cut(s, n), Tail(ps))} :
                n \in IF ps[1].width # 0 THEN {ps[1].width} \cap (0..Len(s)) ELSE IF Len(ps) = 1 THEN {Len(s)} ELSE 0..Len(s)}

(* The one that a reader takes: each chunk as short as it can be.          *)
Shortest(rs) ==
  CHOOSE r \in rs : \A q \in rs : q = r \/ \E k \in DOMAIN r :
    Len(r[k]) < Len(q[k]) /\ \A j \in 1..k - 1 : q[j] = r[j]

MatchIsRight ==
  LET ps == fmt.ps
      vars == SelectSeq(ps, LAMBDA p : p.var)
      apart == \A i \in DOMAIN ps : i < Len(ps) /\ ps[i].var /\ ps[i].width = 0 => ~ps[i + 1].var
      rs == Readings(fmt.s, ps)
      r == Shortest(rs)
      length == FoldLeft(LAMBDA n, c : n + Len(c), Len(ps) - Len(vars), r)
      reads == apart /\ rs # {} /\ \A k \in DOMAIN vars : vars[k].int => r[k] # <<>> /\ ffs_toint(r[k], WideBits, vars[k].base, vars[k].sign).ret = Len(r[k])
      val(k) == IF vars[k].int THEN <<ffs_toint(r[k], WideBits, vars[k].base, vars[k].sign).dst>> ELSE r[k]
  IN  IF ~reads THEN fmt.got.ret = -1
      ELSE /\ fmt.got.ret = IF length = Len(fmt.s) THEN 0 ELSE length + 1
           /\ fmt.got.vals = [k \in DOMAIN vars |-> val(k)]

(* Nothing is written past the capacity; what is returned is the whole     *)
(* text, or a size with which the second attempt writes it; a text is      *)
(* matched just when it can be read so, with the shortest chunks.          *)
FormatsFit ==
  CASE fmt.about = "format" -> FormatIsWhole(Whole(fmt.ds))
    [] fmt.about = "match" -> MatchIsRight
    [] OTHER -> TRUE
=============================================================================
