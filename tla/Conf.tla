-------------------------------- MODULE Conf --------------------------------
(***************************************************************************)
(* ffconf (ffbase/conf.h): the reader of configuration text, which it is   *)
(* given in pieces.                                                        *)
(*                                                                         *)
(* A character stands for a class the reader tells apart: "sp" a blank     *)
(* (space, TAB, CR), "lf", "ctl" not printable, the quote "q", the         *)
(* backslash "b", "#", and printable ones: "a", the letter "x", the hex    *)
(* digits "4" and "1".  Pointers are positions in the whole text, of which *)
(* the reader has the piece that ends at conf.end.  An action is a turn of *)
(* the loop in ffconf_read(), which returns when conf.ret says so.         *)
(***************************************************************************)
EXTENDS Naturals, SequencesExt, FiniteSetsExt

CONSTANTS
  ConfWords,     \* the words a file may hold
  ConfGaps,      \* what may stand between two words
  ConfMaxWords,  \* bound: words in a file
  ConfPieces,    \* lengths of the pieces the caller gives
  ConfCutsLines  \* does the caller cut quoted text with a line break in it?

Chars == {"sp", "lf", "ctl", "q", "b", "#", "a", "x", "4", "1"}

(* The characters of a word, the text they stand for (of a bad word: what  *)
(* comes before the mistake).                                              *)
ASSUME ConfAssumption ==
  /\ \A w \in ConfWords : w.raw \in Seq(Chars) \ {<<>>} /\ w.bad \in BOOLEAN
  /\ ConfGaps \subseteq Seq(Chars) \ {<<>>}
  /\ ConfMaxWords \in Nat
  /\ ConfPieces \subseteq Nat \ {0}
  /\ ConfCutsLines \in BOOLEAN

VARIABLES
  file,  \* the file the caller reads
  conf,  \* struct ffconf, the input, and what the last call returned
  got    \* the words the caller has, and the part of the next one

confVars == <<file, conf, got>>

----------------------------------------------------------------------------
(* Files *)

(* A file of these words and gaps: its text, the words a reader is to      *)
(* find, and where quoted text with a line break in it may not be cut.     *)
FileOf(lead, items) ==
  LET raw(n)  == lead \o FlattenSeq([i \in 1..n |-> items[i].word.raw \o items[i].gap])
      nth(i)  == i - Max({0} \cup {j \in 1..(i - 1) : Contains(items[j].gap, "lf")})
      kind(i) == CASE nth(i) = 1 -> "key" [] nth(i) = 2 -> "val" [] OTHER -> "next"
      multi   == {i \in DOMAIN items : Contains(items[i].word.raw, "lf")}
  IN  [text  |-> raw(Len(items)),
       words |-> [i \in DOMAIN items |->
                    [kind |-> kind(i), quoted |-> items[i].word.raw[1] = "q",
                     text |-> items[i].word.text]],
       bad   |-> items # <<>> /\ Last(items).word.bad,
       whole |-> UNION {(Len(raw(i - 1)) + 1)..(Len(raw(i - 1)) + Len(items[i].word.raw) - 1) :
                         i \in multi}]

(* A mistake ends the reading: only the last word is bad. *)
Files ==
  {FileOf(lead, items) :
     lead \in ConfGaps \cup {<<>>},
     items \in {s \in SeqOf([word : ConfWords, gap : ConfGaps], ConfMaxWords) :
                  \A i \in DOMAIN s : s[i].word.bad => i = Len(s)}}

ConfStart(files) ==
  /\ file \in files
  /\ conf = [state |-> "white", flags |-> {}, line |-> 0, start |-> 1, xdata |-> "",
             pos |-> 1, ptr |-> 1, end |-> 0, ret |-> "more"]
  /\ got = [words |-> <<>>, part |-> <<>>]

ConfInit == ConfStart(Files)

----------------------------------------------------------------------------
(* The caller *)

Reading == conf.ret = "reading"

(* Call with what is left of the piece, or with the next one. *)
Read ==
  /\ conf.ret \notin {"reading", "error"}
  /\ \/ /\ conf.pos <= conf.end
        /\ conf' = [conf EXCEPT !.ret = "reading", !.ptr = conf.pos]
     \/ \E n \in ConfPieces :
          /\ conf.pos > conf.end
          /\ conf.end + n <= Len(file.text)
          /\ ConfCutsLines \/ conf.end + n \notin file.whole
          /\ conf' = [conf EXCEPT !.ret = "reading", !.ptr = conf.pos, !.end = conf.end + n]
  /\ UNCHANGED <<file, got>>

----------------------------------------------------------------------------
(* Ways out of a turn *)

Piece(from, to) == SubSeq(file.text, from, to)
Here == file.text[conf.pos]

(* The first character from here on that is not one of these; 0: none. *)
FirstNot(these) ==
  SelectInSubSeq(file.text, conf.pos, conf.end, LAMBDA c : c \notin these)

Continue(c) == conf' = c /\ UNCHANGED <<file, got>>

(* skip: *)
More(c) == Continue([c EXCEPT !.pos = conf.end + 1, !.ret = "more"])

(* chunk: *)
Chunk(out, c) ==
  /\ conf' = [c EXCEPT !.flags = @ \cup {"chunked"}, !.ret = "chunk"]
  /\ got' = [got EXCEPT !.part = @ \o out]
  /\ UNCHANGED file

Kind(flags) ==
  CASE "key" \notin flags -> "key" [] "val" \notin flags -> "val" [] OTHER -> "next"

(* Definitions "Wrong..." are what a plausible slip would have made of the *)
(* definition below them; no specification uses them.                      *)

(* Wrong: the next word is taken for the rest of this one. *)
WrongText(out, c) ==
  LET kind == Kind(conf.flags)
  IN  /\ conf' = [c EXCEPT !.flags = @ \cup ({kind} \ {"next"}), !.ret = kind]
      /\ got' = [words |-> Append(got.words, [kind |-> kind, quoted |-> "quoted" \in c.flags,
                                              text |-> got.part \o out]),
                 part |-> <<>>]
      /\ UNCHANGED file

(* text: *)
Text(out, c) ==
  LET kind == Kind(conf.flags)
  IN  /\ conf' = [c EXCEPT !.flags = (@ \ {"chunked"}) \cup ({kind} \ {"next"}), !.ret = kind]
      /\ got' = [words |-> Append(got.words, [kind |-> kind, quoted |-> "quoted" \in c.flags,
                                              text |-> got.part \o out]),
                 part |-> <<>>]
      /\ UNCHANGED file

(* err: *)
Error(pos) == Continue([conf EXCEPT !.pos = pos, !.ret = "error"])

----------------------------------------------------------------------------
(* Turns: one action per state of the reader *)

Turn(state) == Reading /\ conf.pos <= conf.end /\ conf.state = state

AtEnd == Reading /\ conf.pos > conf.end /\ More(conf)

(* I_WHITE1, which goes on as I_WHITE *)
AfterWord ==
  /\ Turn("white1")
  /\ IF Here \in {"sp", "lf"}
     THEN Continue([conf EXCEPT !.flags = @ \ {"quoted"}, !.state = "white"])
     ELSE Error(conf.pos)

(* Wrong: the start of the line is left behind. *)
WrongWhite ==
  /\ Turn("white")
  /\ LET p == FirstNot({"sp"})
     IN  \/ p = 0 /\ More(conf)
         \/ /\ p # 0 /\ file.text[p] = "lf"
            /\ Continue([conf EXCEPT !.pos = p + 1, !.flags = {}, !.line = @ + 1])
         \/ p # 0 /\ file.text[p] = "#" /\ Continue([conf EXCEPT !.pos = p, !.state = "comment"])
         \/ /\ p # 0 /\ file.text[p] \notin {"lf", "#"}
            /\ Continue([conf EXCEPT !.pos = p, !.ptr = p, !.state = "word"])

(* I_WHITE *)
White ==
  /\ Turn("white")
  /\ LET p == FirstNot({"sp"})
     IN  \/ p = 0 /\ More(conf)
         \/ /\ p # 0 /\ file.text[p] = "lf"
            /\ Continue([conf EXCEPT !.pos = p + 1, !.flags = {}, !.line = @ + 1, !.start = p + 1])
         \/ p # 0 /\ file.text[p] = "#" /\ Continue([conf EXCEPT !.pos = p, !.state = "comment"])
         \/ /\ p # 0 /\ file.text[p] \notin {"lf", "#"}
            /\ Continue([conf EXCEPT !.pos = p, !.ptr = p, !.state = "word"])

(* I_COMMENT.  At the end of the piece the position is lost: "d" is NULL   *)
(* when line_off is computed from it, so the start of the line is anything.*)
Comment ==
  /\ Turn("comment")
  /\ LET p == FirstNot(Chars \ {"lf"})
     IN  \/ p # 0 /\ Continue([conf EXCEPT !.pos = p, !.state = "white"])
         \/ \E any \in {0, Len(file.text)} : p = 0 /\ More([conf EXCEPT !.start = any])

(* I_WORD.  A word cut at its very end goes on with no character. *)
InWord ==
  /\ Turn("word")
  /\ LET p == FirstNot({"b", "#", "a", "x", "4", "1"})
     IN  \/ /\ Here = "q"
            /\ Continue([conf EXCEPT !.pos = @ + 1, !.ptr = conf.pos + 1, !.state = "quote",
                                     !.flags = @ \cup {"quoted"}])
         \/ p = 0 /\ Chunk(Piece(conf.pos, conf.end), [conf EXCEPT !.pos = conf.end + 1])
         \/ Here # "q" /\ p = conf.pos /\ "chunked" \notin conf.flags /\ Error(p)
         \/ /\ Here # "q" /\ (p > conf.pos \/ (p = conf.pos /\ "chunked" \in conf.flags))
            /\ Text(Piece(conf.pos, p - 1), [conf EXCEPT !.pos = p, !.state = "white1"])

(* I_QUOTE.  The text goes out from where "in" was set, but at the end of  *)
(* the piece only from here.                                               *)
InQuotes ==
  /\ Turn("quote")
  /\ LET p   == FirstNot({"sp", "#", "a", "x", "4", "1"})
         ch  == file.text[p]
         out == Piece(conf.ptr, p - 1)
         past == [conf EXCEPT !.pos = p + 1]
     IN  \/ p = 0 /\ Chunk(Piece(conf.pos, conf.end), [conf EXCEPT !.pos = conf.end + 1])
         \/ /\ p # 0 /\ ch = "lf"
            /\ Continue([past EXCEPT !.line = @ + 1, !.start = p + 1])
         \/ /\ p # 0 /\ ch = "b"
            /\ IF p = conf.pos THEN Continue([past EXCEPT !.state = "backslash"])
               ELSE Chunk(out, [past EXCEPT !.state = "backslash"])
         \/ p # 0 /\ ch = "q" /\ Text(out, [past EXCEPT !.state = "white1"])
         \/ p # 0 /\ ch = "ctl" /\ Error(p)

(* I_BACKSLASH *)
Escape ==
  /\ Turn("backslash")
  /\ \/ Here \in {"q", "b"} /\ Chunk(<<Here>>, [conf EXCEPT !.pos = @ + 1, !.state = "quote"])
     \/ Here = "x" /\ Continue([conf EXCEPT !.pos = @ + 1, !.state = "backslash_x1"])
     \/ Here \notin {"q", "b", "x"} /\ Error(conf.pos)

(* I_BACKSLASH_X1 *)
HighDigit ==
  /\ Turn("backslash_x1")
  /\ Continue([conf EXCEPT !.xdata = Here, !.pos = @ + 1, !.state = "backslash_x2"])

(* I_BACKSLASH_X2: the character with this code. *)
LowDigit ==
  /\ Turn("backslash_x2")
  /\ IF {conf.xdata, Here} \subseteq {"4", "1", "a"}
     THEN Chunk(<<conf.xdata \o Here>>, [conf EXCEPT !.pos = @ + 1, !.state = "quote"])
     ELSE Error(conf.pos)

ConfNext ==
  \/ Read \/ AtEnd \/ AfterWord \/ White \/ Comment \/ InWord \/ InQuotes
  \/ Escape \/ HighDigit \/ LowDigit

----------------------------------------------------------------------------
(* Properties *)

Good == IF file.bad THEN Front(file.words) ELSE file.words

(* Whatever the pieces, the caller puts together the words of the file,    *)
(* each with its kind and its quotes, none twice, none lost and none made  *)
(* up of what is no word; a piece of a word is announced as the kind it    *)
(* turns out to be; a mistake is reported where it is and nowhere else.    *)
ConfReadsTheFile ==
  /\ IsPrefix(got.words, file.words)
  /\ \A i \in DOMAIN got.words : got.words[i].quoted \/ got.words[i].text # <<>>
  /\ got.part # <<>> =>
       /\ Len(got.words) < Len(file.words)
       /\ IsPrefix(got.part, file.words[Len(got.words) + 1].text)
       /\ Kind(conf.flags) = file.words[Len(got.words) + 1].kind
  /\ conf.ret = "error" => file.bad /\ IsPrefix(Good, got.words)
  /\ conf.ret = "more" /\ conf.end = Len(file.text) => ~file.bad /\ got.words = file.words

(* conf.h:14: quoted text may hold line breaks.  A word the caller has put *)
(* together has all of its text.                                           *)
QuotedTextIsWhole == \A i \in DOMAIN got.words : got.words[i].text = file.words[i].text

(* The line and the column the caller shows for a word, a part of a word   *)
(* or a mistake are where the reader is in the file.                       *)
ConfTellsThePlace ==
  conf.ret \notin {"reading", "more"} =>
    LET breaks == {i \in 1..(conf.pos - 1) : file.text[i] = "lf"}
    IN  /\ conf.line = Cardinality(breaks)
        /\ conf.start = Max({0} \cup breaks) + 1
=============================================================================
