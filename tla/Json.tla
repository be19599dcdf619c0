-------------------------------- MODULE Json --------------------------------
(***************************************************************************)
(* ffjson (ffbase/json.h): the JSON parser, which is given a document in   *)
(* pieces and returns one element at a time.                               *)
(*                                                                         *)
(* A character is itself, or the name of what has no glyph: "sp", "lf",    *)
(* the codes "0001" and "d83dde00" (a pair of surrogates).  Pointers are   *)
(* positions in the whole document, of which the parser has the piece that *)
(* begins at json.beg and ends at json.end.  An action is a turn of the    *)
(* loop in ffjson_parse(), which returns when json.ret says so.            *)
(***************************************************************************)
EXTENDS Naturals, SequencesExt, FiniteSetsExt

CONSTANTS
  JsonPieces,    \* lengths of the pieces the caller gives
  JsonComments,  \* is FFJSON_FCOMMENTS set?
  FFS_FLTCAP     \* characters a number may have

ASSUME JsonAssumption ==
  JsonPieces \subseteq Nat \ {0} /\ JsonComments \in BOOLEAN /\ FFS_FLTCAP \in Nat

VARIABLES
  doc,    \* the document, and what it is made of
  json,   \* struct ffjson, the input, and what the last call returned
  items   \* the elements the caller has

jsonVars == <<doc, json, items>>

(* ffjson_init().  A document also says how reading it must end. *)
JsonStart ==
  [state |-> "before_val", next |-> "", flags |-> {}, ctxs |-> <<>>,
   buf |-> [own |-> FALSE, at |-> 0, len |-> 0, text |-> <<>>], esc |-> <<>>, hi |-> "", val |-> <<>>, intval |-> <<>>, fltval |-> <<>>,
   line |-> 1, linechar |-> 1, beg |-> 1, pos |-> 1, end |-> 0, ret |-> "more"]

JsonInit(documents) == doc \in documents /\ json = JsonStart /\ items = <<>>

----------------------------------------------------------------------------
(* The buffer: characters of the piece, or a copy of its own *)

(* What it holds.  What was in an earlier piece is not there any more.     *)
Held(buf) ==
  IF buf.own THEN buf.text
  ELSE [i \in 1..buf.len |-> IF buf.at < json.beg THEN "stale" ELSE doc.text[buf.at + i - 1]]

Size(buf) == IF buf.own THEN Len(buf.text) ELSE buf.len

NoBuf == JsonStart.buf

Copied(buf, more) == [NoBuf EXCEPT !.own = TRUE, !.text = Held(buf) \o more]

(* _ffjson_valadd() *)
ValAdd(buf, ch) ==
  IF buf.own THEN [buf EXCEPT !.text = Append(@, ch)]
  ELSE [buf EXCEPT !.at = IF @ = 0 \/ buf.len = 0 THEN json.pos ELSE @, !.len = @ + 1]

----------------------------------------------------------------------------
(* Ways out of a turn *)

Ch == doc.text[json.pos]

Goto(c) == json' = c /\ UNCHANGED <<doc, items>>

Past(c) ==
  [c EXCEPT !.pos = @ + 1,
            !.line     = IF Ch = "lf" THEN @ + 1 ELSE @,
            !.linechar = IF Ch = "lf" THEN 1 ELSE @ + 1]

Take(c) == Goto(Past(c))

Found(type, val) == items' = Append(items, [type |-> type, val |-> val]) /\ UNCHANGED doc

(* r = FFJSON_T...; goto end, with the character taken *)
Element(type, val, c) == json' = Past([c EXCEPT !.ret = type]) /\ Found(type, val)

JsonError(e) == Goto([json EXCEPT !.ret = e])

To(state) == [json EXCEPT !.state = state]

----------------------------------------------------------------------------
(* The caller *)

JsonErrors ==
  {"EBADCHAR", "EBADSTR", "EBADESCAPE", "EBADBOOL", "EBADNULL", "EBADCTX", "EBADCOMMENT",
   "ELARGE", "EFIN", "EINCOMPLETE"}

JsonRead ==
  /\ json.ret \notin JsonErrors \cup {"parsing", "ok"}
  /\ \/ /\ json.pos <= json.end
        /\ Goto([json EXCEPT !.ret = "parsing"])
     \/ \E n \in JsonPieces :
          /\ json.pos > json.end
          /\ json.end + n <= Len(doc.text)
          /\ Goto([json EXCEPT !.ret = "parsing", !.beg = json.pos, !.end = @ + n])

(* ffjson_fin() *)
JsonFin ==
  /\ json.ret \notin JsonErrors \cup {"parsing", "ok"}
  /\ json.end = Len(doc.text) /\ json.pos > json.end
  /\ IF json.ctxs = <<>> /\ json.state \in {"comment_line", "after_val"}
     THEN Goto([json EXCEPT !.ret = "ok"])
     ELSE JsonError("EINCOMPLETE")

----------------------------------------------------------------------------
(* Turns: one action per group of states *)

(* Definitions "Wrong..." are what a plausible slip would have made of the *)
(* definition below them; no specification uses them.                      *)

(* Wrong: data is referred to after its piece is gone. *)
WrongPieceEnd ==
  /\ json.ret = "parsing" /\ json.pos > json.end
  /\ Goto([json EXCEPT !.ret = "more"])

(* copy referenced data to internal buffer *)
PieceEnd ==
  /\ json.ret = "parsing" /\ json.pos > json.end
  /\ Goto([json EXCEPT !.ret = "more", !.buf = IF Size(@) # 0 /\ ~@.own THEN Copied(@, <<>>) ELSE @])

In(states) == json.ret = "parsing" /\ json.pos <= json.end /\ json.state \in states

Blank == Ch \in {"sp", "lf"} /\ Take(json)

(* case '/': where a comment may stand; it is not taken yet. *)
Slash == Ch = "/" /\ Goto([To("comment") EXCEPT !.next = json.state])

(* I_SPC_BEFORE_VAL, I_SPC_ARR *)
BeforeVal ==
  /\ In({"before_val", "before_arr"})
  /\ \/ Blank
     \/ Slash
     \/ Ch = "\"" /\ Take(To("str"))
     \/ Ch \in {"t", "f", "n"} /\ Take([To(Ch) EXCEPT !.esc = <<Ch>>])
     \/ /\ Ch = "["
        /\ Element("arr_open", <<>>, [To("before_arr") EXCEPT !.ctxs = Append(@, "[")])
     \/ /\ Ch = "{"
        /\ Element("obj_open", <<>>, [To("obj") EXCEPT !.ctxs = Append(@, "{")])
     \/ /\ Ch = "]" /\ json.state = "before_arr"
        /\ Element("arr_close", <<>>, [To("after_val") EXCEPT !.ctxs = Front(@)])
     \/ Ch = "]" /\ json.state # "before_arr" /\ JsonError("EBADCHAR")
     \/ Ch \notin {"sp", "lf", "/", "\"", "t", "f", "n", "[", "{", "]"} /\ Goto(To("num"))

(* I_CMT, I_CMT_SL, I_CMT_LN, I_CMT_MLN, I_CMT_MLN_SL *)
InComment ==
  /\ In({"comment", "comment_kind", "comment_line", "comment_multi", "comment_star"})
  /\ \/ /\ json.state = "comment"
        /\ IF JsonComments THEN Take(To("comment_kind")) ELSE JsonError("EBADCOMMENT")
     \/ /\ json.state = "comment_kind"
        /\ \/ Ch = "/" /\ Take(To("comment_line"))
           \/ Ch = "*" /\ Take(To("comment_multi"))
           \/ Ch \notin {"/", "*"} /\ JsonError("EBADCOMMENT")
     \/ json.state = "comment_line" /\ Take(IF Ch = "lf" THEN To(json.next) ELSE json)
     \/ json.state = "comment_multi" /\ Take(IF Ch = "*" THEN To("comment_star") ELSE json)
     \/ /\ json.state = "comment_star"
        /\ Take(IF Ch = "/" THEN To(json.next) ELSE To("comment_multi"))

(* I_STR, I_KEYSTR *)
InString ==
  /\ In({"str", "key"})
  /\ \/ /\ Ch = "\""
        /\ IF json.state = "key" THEN Element("key", Held(json.buf), [To("after_key") EXCEPT !.val = Held(json.buf)])
           ELSE Element("str", Held(json.buf), [To("after_val") EXCEPT !.val = Held(json.buf)])
     \/ Ch = "\\" /\ Take([To("esc") EXCEPT !.esc = <<>>, !.hi = "", !.next = json.state])
     \/ Ch \in {"0001", "lf"} /\ JsonError("EBADSTR")
     \/ Ch \notin {"\"", "\\", "0001", "lf"} /\ Take([json EXCEPT !.buf = ValAdd(@, Ch)])

(* json_esc_byte[], for the letters documents use *)
Unescaped(ch) == CASE ch = "n" -> "lf" [] OTHER -> ch

(* I_STR_ESC *)
AfterBackslash ==
  /\ In({"esc"})
  /\ \/ /\ Ch \in {"\"", "\\", "n", "/"}
        /\ Take([To(json.next) EXCEPT !.buf = Copied(@, <<Unescaped(Ch)>>)])
     \/ Ch = "u" /\ Take(To("hex"))
     \/ Ch \notin {"\"", "\\", "n", "/", "u"} /\ JsonError("EBADESCAPE")

(* I_STR_ESC_U2_BKSL, I_STR_ESC_U2 *)
BetweenSurrogates ==
  \/ In({"hex_bksl"}) /\ IF Ch = "\\" THEN Take(To("hex_u")) ELSE JsonError("EBADESCAPE")
  \/ In({"hex_u"}) /\ IF Ch = "u" THEN Take(To("hex")) ELSE JsonError("EBADESCAPE")

(* ffutf16_basic(), ffutf16_highsurr() *)
Unit(esc) ==
  CASE \E i \in 1..4 : esc[i] \notin {"0", "1", "3", "8", "d", "e"} -> "bad"
    [] esc[1] = "d" /\ esc[2] = "8" -> "high"
    [] esc[1] = "d" /\ esc[2] \in {"d", "e"} -> "low"
    [] OTHER -> "basic"

(* I_STR_ESC_U *)
HexDigit ==
  LET esc  == Append(json.esc, Ch)
      unit == FoldLeft(LAMBDA s, c : s \o c, "", esc)
      c    == [json EXCEPT !.esc = esc]
  IN  /\ In({"hex"})
      /\ \/ Len(esc) < 4 /\ Take(c)
         \/ /\ Len(esc) = 4 /\ Unit(esc) = "high" /\ json.hi = ""
            /\ Take([To("hex_bksl") EXCEPT !.hi = unit, !.esc = <<>>])
         \/ /\ Len(esc) = 4
            /\ (Unit(esc) = "basic" /\ json.hi = "") \/ (Unit(esc) = "low" /\ json.hi # "")
            /\ Take([c EXCEPT !.state = json.next, !.buf = Copied(@, <<json.hi \o unit>>)])
         \/ /\ Len(esc) = 4
            /\ Unit(esc) = "bad" \/ (Unit(esc) = "low") # (json.hi # "")
            /\ JsonError("EBADESCAPE")

NumChars == {"0", "1", "-", "+", ".", "e"}

Digits(s) == ToSet(s) \subseteq {"0", "1"} /\ s # <<>>

Unsigned(s) == IF Head(s) \in {"-", "+"} THEN Tail(s) ELSE s

(* ffs_toint() takes all of it; ffs_tofloat() does, without an exponent.   *)
IsInt(s) == s # <<>> /\ Digits(Unsigned(s))
IsNum(s) ==
  /\ s # <<>>
  /\ ToSet(Unsigned(s)) \subseteq {"0", "1", "."}
  /\ Digits(SelectSeq(Unsigned(s), LAMBDA c : c # "."))
  /\ Len(SelectSeq(s, LAMBDA c : c = ".")) <= 1

(* I_NUM.  The character after a number is looked at again. *)
InNumber ==
  LET s == Held(json.buf)
  IN  /\ In({"num"})
      /\ \/ Ch \in NumChars /\ Size(json.buf) = FFS_FLTCAP /\ JsonError("ELARGE")
         \/ /\ Ch \in NumChars /\ Size(json.buf) # FFS_FLTCAP
            /\ Take([json EXCEPT !.buf = ValAdd(@, Ch)])
         \/ Ch \notin NumChars /\ ~(IsInt(s) \/ IsNum(s)) /\ JsonError("EBADCHAR")
         \/ /\ Ch \notin NumChars /\ (IsInt(s) \/ IsNum(s))
            /\ LET type == IF IsInt(s) THEN "int" ELSE "num"
               IN  json' = [To("after_val") EXCEPT !.ret = type, !.intval = IF IsInt(s) THEN s ELSE @,
                                               !.fltval = IF IsInt(s) THEN @ ELSE s]
                   /\ Found(type, s)

Word(letter) ==
  CASE letter = "t" -> <<"t", "r", "u", "e">>
    [] letter = "f" -> <<"f", "a", "l", "s", "e">>
    [] letter = "n" -> <<"n", "u", "l", "l">>

(* I_TRUE, I_FALSE, I_NULL.  Only "true" sets intval. *)
InLiteral ==
  LET esc  == Append(json.esc, Ch)
      word == Word(json.state)
      bool == json.state # "n"
      int  == IF json.state = "t" THEN <<"1">> ELSE json.intval
  IN  /\ In({"t", "f", "n"})
      /\ \/ ~IsPrefix(esc, word) /\ JsonError(IF bool THEN "EBADBOOL" ELSE "EBADNULL")
         \/ IsStrictPrefix(esc, word) /\ Take([json EXCEPT !.esc = esc])
         \/ /\ esc = word
            /\ Element(IF bool THEN "bool" ELSE "null", IF bool THEN int ELSE <<>>,
                       [To("after_val") EXCEPT !.esc = esc, !.intval = int])

(* I_SPC_AFTER_VAL *)
AfterVal ==
  /\ In({"after_val"})
  /\ \/ Blank
     \/ Slash
     \/ Ch \notin {"sp", "lf", "/"} /\ Goto(To("next_val"))

Dropped == [json EXCEPT !.val = <<>>, !.intval = <<>>, !.fltval = <<>>, !.buf = NoBuf]

(* I_AFTER_VAL *)
BetweenVals ==
  LET ctx    == Last(json.ctxs)
      opened == IF Ch = "]" THEN "[" ELSE "{"
  IN  /\ In({"next_val"})
      /\ \/ json.ctxs = <<>> /\ JsonError("EFIN")
         \/ /\ json.ctxs # <<>> /\ Ch = ","
            /\ Take([Dropped EXCEPT !.state = IF ctx = "{" THEN "obj" ELSE "before_val"])
         \/ json.ctxs # <<>> /\ Ch \in {"]", "}"} /\ ctx # opened /\ JsonError("EBADCTX")
         \/ /\ json.ctxs # <<>> /\ Ch \in {"]", "}"} /\ ctx = opened
            /\ Element(IF Ch = "]" THEN "arr_close" ELSE "obj_close", <<>>,
                       [Dropped EXCEPT !.ctxs = Front(@), !.state = "after_val"])
         \/ json.ctxs # <<>> /\ Ch \notin {",", "]", "}"} /\ JsonError("EBADCHAR")

(* I_SPC_OBJ *)
InObject ==
  /\ In({"obj"})
  /\ \/ Blank
     \/ Slash
     \/ Ch = "\"" /\ Take(To("key"))
     \/ Ch = "}" /\ Element("obj_close", <<>>, [To("after_val") EXCEPT !.ctxs = Front(@)])
     \/ Ch \notin {"sp", "lf", "/", "\"", "}"} /\ JsonError("EBADCHAR")

(* I_SPC_AFTER_KEY *)
AfterKey ==
  /\ In({"after_key"})
  /\ \/ Blank
     \/ Slash
     \/ Ch = ":" /\ Take([To("before_val") EXCEPT !.val = <<>>, !.buf = NoBuf])
     \/ Ch \notin {"sp", "lf", "/", ":"} /\ JsonError("EBADCHAR")

JsonNext ==
  \/ JsonRead \/ JsonFin \/ PieceEnd \/ BeforeVal \/ InComment \/ InString \/ AfterBackslash
  \/ BetweenSurrogates \/ HexDigit \/ InNumber \/ InLiteral \/ AfterVal \/ BetweenVals
  \/ InObject \/ AfterKey

----------------------------------------------------------------------------
(* Properties *)

(* However the document is cut, the caller gets its elements in order,     *)
(* with their whole and unescaped values, and at the end the answer the    *)
(* document deserves; a mistake is reported after the elements before it,  *)
(* where it is (the documents end there), with the line and the place.     *)
JsonReadsBack ==
  /\ IsPrefix(items, doc.items)
  /\ json.ret \in JsonErrors \cup {"ok"} => items = doc.items /\ json.ret = doc.answer
  /\ json.ret \in JsonErrors \ {"EINCOMPLETE"} => json.pos = Len(doc.text)
  /\ json.ret # "parsing" =>
       LET breaks == {i \in 1..(json.pos - 1) : doc.text[i] = "lf"}
       IN  /\ json.line = Cardinality(breaks) + 1
           /\ json.linechar = json.pos - Max({0} \cup breaks)
=============================================================================
