----------------------------- MODULE JsonWriter -----------------------------
(***************************************************************************)
(* ffjsonw (ffbase/json-writer.h): the JSON writer, which adds one element *)
(* at a time to a growing buffer, with the commas, the white space and the *)
(* escapes it needs.  What a client has written goes to the parser.        *)
(*                                                                         *)
(* The writer does not check that a document is well formed, except what a *)
(* close ends: the client here writes well-formed documents, and closes    *)
(* that fail.                                                              *)
(***************************************************************************)
EXTENDS Json

CONSTANTS
  JsonStrings,  \* contents of strings and keys: sequences of characters
  JsonNumbers,  \* numbers, as the conversions write them
  JsonMaxItems, \* bound: elements of a document, the closes not counted
  FFS_INTCAP    \* characters an integer may take

ASSUME JsonWriterAssumption ==
  /\ \A n \in JsonNumbers : Len(n) <= FFS_FLTCAP /\ (IsInt(n) => Len(n) <= FFS_INTCAP)
  /\ JsonMaxItems \in Nat

VARIABLES
  jsonw,    \* struct ffjsonw, and the client's mistakes
  written   \* the elements written

jsonwVars == <<jsonw, written>>

(* ffjsonw_init(), and how the client wants it in flags *)
JsonwInit ==
  /\ jsonw \in [pretty : {"none", "tabs", "4spaces"}, comma : {FALSE}, wh : {FALSE},
                buf : {<<>>}, cap : {0}, ctxs : {<<>>}, failed : {FALSE}]
  /\ written = <<>>

----------------------------------------------------------------------------

Closes == {"arr_close", "obj_close"}
Opens  == {"arr_open", "obj_open"}

(* ffjson_escape() of a character, of a string.  With FFJSONW_FDONTESCAPE  *)
(* the client gives what is written here.                                  *)
EscapedChar(ch) ==
  CASE ch \in {"\"", "\\"} -> <<"\\", ch>>
    [] ch = "lf" -> <<"\\", "n">>
    [] ch = "0001" -> <<"\\", "u", "0", "0", "0", "1">>
    [] OTHER -> <<ch>>

Escaped(s) == FlattenSeq([i \in DOMAIN s |-> EscapedChar(s[i])])

Pretty == jsonw.pretty # "none"

(* Definitions "Wrong..." are what a plausible slip would have made of the *)
(* definition below them; no specification uses them.                      *)

(* Wrong: four spaces are counted as one tab. *)
Wrongffjsonw_size(t, s) ==
  1 + (IF Pretty THEN 1 + Len(jsonw.ctxs) ELSE 0)
  + CASE t \in {"str", "key"} -> 4 + Len(Escaped(s))
      [] t = "int" -> FFS_INTCAP
      [] t = "num" -> FFS_FLTCAP
      [] t \in {"null", "bool"} -> 5
      [] OTHER -> 1

ffjsonw_size(t, s) ==
  1 + (IF Pretty THEN 1 + 4 * Len(jsonw.ctxs) ELSE 0)
  + CASE t \in {"str", "key"} -> 4 + Len(Escaped(s))
      [] t = "int" -> FFS_INTCAP
      [] t = "num" -> FFS_FLTCAP
      [] t \in {"null", "bool"} -> 5
      [] OTHER -> 1

(* ffvec_growtwice() *)
Grown(by) ==
  LET len == Len(jsonw.buf)
  IN  IF len + by <= jsonw.cap THEN jsonw.cap ELSE len + Max({by, len})

(* [,] [WHITESPACE] *)
Lead(t) ==
  LET n == Len(jsonw.ctxs) - IF t \in Closes THEN 1 ELSE 0
  IN  (IF jsonw.comma /\ t \notin Closes THEN <<",">> ELSE <<>>)
      \o IF Pretty /\ jsonw.wh /\ jsonw.ctxs # <<>>
         THEN <<"lf">> \o [i \in 1..(IF jsonw.pretty = "tabs" THEN n ELSE 4 * n) |-> "sp"]
         ELSE <<>>

(* ["] INPUT ["] [:] [ ] *)
Body(t, s) ==
  CASE t = "str" -> <<"\"">> \o Escaped(s) \o <<"\"">>
    [] t = "key" -> <<"\"">> \o Escaped(s) \o <<"\"", ":">> \o IF Pretty THEN <<"sp">> ELSE <<>>
    [] t \in {"int", "num"} -> s
    [] t = "null" -> Word("n")
    [] t = "bool" -> Word(IF s = <<"1">> THEN "t" ELSE "f")
    [] t = "arr_open" -> <<"[">>
    [] t = "arr_close" -> <<"]">>
    [] t = "obj_open" -> <<"{">>
    [] t = "obj_close" -> <<"}">>

(* ffjsonw_add().  A close that fails has already added the white space    *)
(* and changed the flags.                                                  *)
JsonwAdd(t, s) ==
  LET wrong == t \in Closes /\ (jsonw.ctxs = <<>> \/ Body(t, s) # <<Last(jsonw.ctxs)>>)
  IN  /\ jsonw' =
           [jsonw EXCEPT
             !.cap = Grown(ffjsonw_size(t, s)),
             !.buf = @ \o Lead(t) \o IF wrong THEN <<>> ELSE Body(t, s),
             !.comma = t \notin Opens \cup {"key"}, !.wh = t # "key",
             !.ctxs = CASE t = "arr_open" -> Append(@, "]")
                        [] t = "obj_open" -> Append(@, "}")
                        [] t \in Closes /\ ~wrong -> Front(@)
                        [] OTHER -> @,
             !.failed = @ \/ wrong]
      /\ written' = IF wrong THEN written ELSE Append(written, [type |-> t, val |-> s])

----------------------------------------------------------------------------
(* The client *)

Complete == written # <<>> /\ jsonw.ctxs = <<>>

AfterAKey == written # <<>> /\ Last(written).type = "key"

MayAdd == Len(SelectSeq(written, LAMBDA i : i.type \notin Closes)) < JsonMaxItems

Scalars ==
  [type : {"str"}, val : JsonStrings]
  \cup [type : {"int"}, val : {n \in JsonNumbers : IsInt(n)}]
  \cup [type : {"num"}, val : {n \in JsonNumbers : ~IsInt(n)}]
  \cup [type : {"bool"}, val : {<<>>, <<"1">>}] \cup [type : {"null"}, val : {<<>>}]

InAnObject == jsonw.ctxs # <<>> /\ Last(jsonw.ctxs) = "}"

AddKey ==
  /\ MayAdd /\ InAnObject /\ ~AfterAKey
  /\ \E s \in JsonStrings : JsonwAdd("key", s)

(* ffjsonw_addstr(), ffjsonw_addint() and so on; of a key at the bound the *)
(* value is still written.                                                 *)
AddVal ==
  /\ ~Complete /\ (InAnObject => AfterAKey) /\ (MayAdd \/ AfterAKey)
  /\ \/ \E v \in Scalars : JsonwAdd(v.type, v.val)
     \/ \E t \in Opens : MayAdd /\ JsonwAdd(t, <<>>)

Close ==
  /\ ~Complete /\ jsonw.ctxs # <<>> /\ ~AfterAKey
  /\ JsonwAdd(IF InAnObject THEN "obj_close" ELSE "arr_close", <<>>)

(* The client closes what is not open, at a place where this leaves the    *)
(* comma as it was.                                                        *)
CloseWrong ==
  /\ ~jsonw.failed /\ jsonw.comma
  /\ \E t \in Closes : Body(t, <<>>) # (IF Complete THEN <<>> ELSE <<Last(jsonw.ctxs)>>) /\ JsonwAdd(t, <<>>)

JsonwNext == (AddKey \/ AddVal \/ Close \/ CloseWrong) /\ UNCHANGED jsonVars

(* What was written is a file, with a line break at the end. *)
Publish ==
  /\ Complete /\ doc.text = <<>>
  /\ doc' = [text |-> Append(jsonw.buf, "lf"), items |-> written, answer |-> "ok"]
  /\ UNCHANGED <<json, items, jsonwVars>>

----------------------------------------------------------------------------
(* Properties *)

(* The bytes an element takes, most of them written without a check, fit   *)
(* the room the writer made for it.                                        *)
JsonWriterFits == Len(jsonw.buf) <= jsonw.cap
=============================================================================
