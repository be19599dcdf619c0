----------------------------- MODULE JsonScheme ----------------------------
(***************************************************************************)
(* ffjson_scheme (ffbase/json-scheme.h): fills a C object from a JSON      *)
(* document.  It takes each element from the parser, finds the entry of    *)
(* the scheme that describes it, and stores the value in a field or calls  *)
(* a handler of the user; a handler of an array or object adds the context *)
(* in which what is inside is found.                                       *)
(*                                                                         *)
(* A scheme is a sequence of entries; contexts and handlers refer to it by *)
(* number.  An object is the number of the element that opened it.         *)
(***************************************************************************)
EXTENDS Json

CONSTANT JsonSchemes  \* the schemes: entries, and the type of the last one

(* An entry: its name, its type, whether dst is a handler, the types that  *)
(* the handler refuses, and the scheme of the context it adds (0: none).   *)
ASSUME JsonSchemeAssumption ==
  \A n \in DOMAIN JsonSchemes :
    /\ JsonSchemes[n].close \in {"", "arr_close", "obj_close"}
    /\ \A e \in ToSet(JsonSchemes[n].entries) :
         /\ e.type \in {"str", "int", "num", "bool", "arr_open", "obj_open", "any"}
         /\ e.adds \in {0} \cup DOMAIN JsonSchemes
         /\ e.type \in {"arr_open", "obj_open"} => e.func

VARIABLE scheme  \* struct ffjson_scheme, the result, what has been done

schemeVars == scheme

NoArg == [name |-> <<>>, type |-> "", func |-> FALSE, refuses |-> {}, adds |-> 0]

(* ffjson_scheme_init(), ffjson_scheme_addctx() of a caller's object       *)
SchemeInit(roots, icases) ==
  \E root \in roots, icase \in icases :
    scheme = [ctxs |-> <<[args |-> root, obj |-> 1]>>, root |-> root, arg |-> NoArg, jtype |-> "",
              icase |-> icase, ret |-> "ok", seen |-> 0, calls |-> <<>>]

----------------------------------------------------------------------------
(* Processing an element: operators take and return the scheme.            *)

Folded(name) == [i \in DOMAIN name |-> IF name[i] = "A" THEN "a" ELSE name[i]]

(* _ffjson_arg_find(), _ffjson_arg_ifind() *)
FindArg(args, name, icase) ==
  LET Is(e) == IF icase THEN Folded(e.name) = Folded(name) ELSE e.name = name
      i == SelectInSeq(JsonSchemes[args].entries, Is)
  IN  IF i = 0 THEN NoArg ELSE JsonSchemes[args].entries[i]

SchemeError(s) == [s EXCEPT !.ret = "ESCHEME"]

(* What the user sees: a field that is set, a handler that is called.      *)
Did(s, name, what, val) ==
  [s EXCEPT !.calls = Append(@, [obj |-> Last(s.ctxs).obj, name |-> name, what |-> what, val |-> val])]

(* A handler refuses with an error of its own. *)
Handled(s, what, val) ==
  LET called == Did(s, s.arg.name, what, val)
  IN  IF s.jtype \in s.arg.refuses THEN [called EXCEPT !.ret = "user"] ELSE called

(* In an array every element is described by "*". *)
WithStar(s) ==
  LET star == FindArg(Last(s.ctxs).args, <<"*">>, FALSE)
  IN  IF star = NoArg THEN SchemeError([s EXCEPT !.arg = NoArg]) ELSE [s EXCEPT !.arg = star]

(* case FFJSON_TOBJ_CLOSE, FFJSON_TARR_CLOSE *)
CloseCtx(s) ==
  LET close == JsonSchemes[Last(s.ctxs).args].close
      told == IF close = "" THEN s ELSE Did(s, <<>>, close, <<>>)
  IN  [told EXCEPT !.arg = [NoArg EXCEPT !.type = close], !.ctxs = Front(@)]

(* Definitions "Wrong..." are what a plausible slip would have made of the *)
(* definition below them; no specification uses them.                      *)

(* Wrong: the array around it goes on with the entry of what was closed.   *)
WrongClosed(s) == CloseCtx(s)

Closed(s) ==
  LET left == CloseCtx(s)
  IN  IF json.ctxs # <<>> /\ Last(json.ctxs) = "[" THEN WithStar(left) ELSE left

(* case FFJSON_TOBJ_OPEN, FFJSON_TARR_OPEN: below the top the handler must *)
(* add a context; "null" is an empty object or array, and closes it.       *)
Opened(s, t, r) ==
  LET called == Handled(s, "open", <<>>)
      inside == [called EXCEPT !.ctxs = Append(@, [args |-> s.arg.adds, obj |-> s.seen]), !.arg = NoArg]
      begun  == IF Len(json.ctxs) = 1 THEN s
                ELSE IF t # r THEN SchemeError(s)
                ELSE IF called.ret = "user" THEN called
                ELSE IF s.arg.adds = 0 THEN SchemeError(called)
                ELSE inside
      ready  == IF begun.ret = "ok" /\ r = "arr_open" THEN WithStar(begun) ELSE begun
  IN  IF ready.ret = "ok" /\ s.jtype = "null" THEN Closed(ready) ELSE ready

(* case FFJSON_TSTR, FFJSON_TINT, FFJSON_TNUM, FFJSON_TBOOL: an integer is *)
(* good for a number.  A value is what the parser has, which for "null" is *)
(* what it has reset.                                                      *)
Stored(s, t, r) ==
  LET val == CASE t = "str" -> json.val
               [] t = "num" -> IF r = "int" THEN json.intval ELSE json.fltval
               [] OTHER -> json.intval
  IN  IF t # r /\ ~(r = "int" /\ t = "num") THEN SchemeError(s)
      ELSE IF s.arg.func THEN Handled(s, "call", val) ELSE Did(s, s.arg.name, "set", val)

(* ffjson_scheme_process() *)
Processed(s, r) ==
  LET t    == IF s.arg.type = "any" THEN r ELSE s.arg.type
      as   == IF r = "null" THEN t ELSE r
      key  == FindArg(Last(s.ctxs).args, json.val, s.icase)
      typed == [s EXCEPT !.jtype = IF s.arg = NoArg THEN @ ELSE r]
  IN  CASE s.arg.type = "any" /\ ~s.arg.func -> SchemeError(s)
        [] r = "null" /\ t \in {"", "null", "arr_close", "obj_close"} -> SchemeError(typed)
        [] as \in {"obj_open", "arr_open"} -> Opened(typed, t, as)
        [] as \in {"obj_close", "arr_close"} -> Closed(typed)
        [] as = "key" -> IF key = NoArg THEN SchemeError([typed EXCEPT !.arg = NoArg]) ELSE [typed EXCEPT !.arg = key]
        [] OTHER -> Stored(typed, t, as)

(* ffjson_strval_acquire(): a string field takes the parser's own buffer.  *)
Acquired(s, r) ==
  IF s.arg.type = "str" /\ ~s.arg.func /\ r = "str" /\ json.val # <<>> /\ json.buf.own
  THEN [json EXCEPT !.buf = NoBuf] ELSE json

SchemeProcess ==
  /\ scheme.ret = "ok" /\ scheme.seen < Len(items)
  /\ scheme' = Processed([scheme EXCEPT !.seen = @ + 1], json.ret)
  /\ json' = Acquired(scheme, json.ret)
  /\ UNCHANGED <<doc, items>>

(* The loop of ffjson_parse_object(), which any caller of the two runs. *)
SchemeNext ==
  \/ SchemeProcess
  \/ scheme.ret = "ok" /\ scheme.seen = Len(items) /\ JsonNext /\ UNCHANGED scheme

----------------------------------------------------------------------------
(* Properties *)

OpenTypes == {"arr_open", "obj_open"}
CloseTypes == {"arr_close", "obj_close"}

(* The element that opened what element i is in, or what it closes. *)
Opener(i) ==
  LET Is(j, types) == items[j].type \in types
      open == {j \in 1..i - 1 :
                 /\ Is(j, OpenTypes)
                 /\ \A k \in j + 1..i - 1 :
                      Quantify(j..k, LAMBDA n : Is(n, OpenTypes)) > Quantify(j..k, LAMBDA n : Is(n, CloseTypes))}
  IN  Max({0} \cup open)

(* The scheme for what is inside element j, the entry that describes       *)
(* element i: by its key, or by "*" in an array.                           *)
RECURSIVE Inside(_), EntryFor(_)
EntryFor(i) ==
  LET j == Opener(i)
  IN  IF items[j].type = "arr_open" THEN FindArg(Inside(j), <<"*">>, FALSE)
      ELSE FindArg(Inside(j), items[i - 1].val, scheme.icase)
Inside(j) == IF j = 1 THEN scheme.root ELSE EntryFor(j).adds

HasStar(args) == FindArg(args, <<"*">>, FALSE) # NoArg

(* What an element is as its entry takes it. *)
TakenAs(i, e) ==
  CASE e.type = "any" -> items[i].type
    [] items[i].type = "null" \/ (items[i].type = "int" /\ e.type = "num") -> e.type
    [] OTHER -> items[i].type

Fits(i) ==
  LET e == EntryFor(i)
      r == TakenAs(i, e)
  IN  CASE i = 1 -> items[1].type = "obj_open" \/ (items[1].type = "arr_open" /\ HasStar(scheme.root))
        [] i > 1 /\ items[i].type \in CloseTypes -> TRUE
        [] i > 1 /\ items[i].type = "key" -> FindArg(Inside(Opener(i)), items[i].val, scheme.icase) # NoArg
        [] OTHER -> /\ e # NoArg /\ r \in {e.type} \cup (IF e.type = "any" /\ e.func THEN OpenTypes \cup {"str", "int", "num", "bool"} ELSE {})
                    /\ r \in OpenTypes => e.adds # 0 /\ (r = "arr_open" => HasStar(e.adds))

UserRefuses(i) ==
  /\ i > 1 /\ items[i].type \notin CloseTypes \cup {"key"}
  /\ EntryFor(i).func /\ items[i].type \in EntryFor(i).refuses
  /\ TakenAs(i, EntryFor(i)) \in {EntryFor(i).type} \cup (IF EntryFor(i).type = "any" THEN OpenTypes \cup {"str", "int", "num", "bool"} ELSE {})

(* What the user is to see of element i. *)
CallsFor(i) ==
  LET e == EntryFor(i)
      C(obj, name, what, val) == <<[obj |-> obj, name |-> name, what |-> what, val |-> val]>>
      Close(j) == IF JsonSchemes[Inside(j)].close = "" THEN <<>> ELSE C(j, <<>>, JsonSchemes[Inside(j)].close, <<>>)
  IN  CASE i = 1 \/ items[i].type = "key" -> <<>>
        [] i > 1 /\ items[i].type \in CloseTypes -> Close(Opener(i))
        [] i > 1 /\ items[i].type = "null" /\ e.type \in OpenTypes -> C(Opener(i), e.name, "open", <<>>) \o Close(i)
        [] i > 1 /\ items[i].type \in OpenTypes -> C(Opener(i), e.name, "open", <<>>)
        [] OTHER -> C(Opener(i), e.name, IF e.func THEN "call" ELSE "set", items[i].val)

(* Each element goes to the entry that its path in the document names, in  *)
(* the object it belongs to, once; every context that is opened is closed, *)
(* however deep, and an empty one stands for "null"; an element that does  *)
(* not fit, or that its handler refuses, ends it there and no other does.  *)
(* Said when the document or the processing ends.                          *)
SchemeFillsTheObject ==
  LET n == scheme.seen
      good == {i \in 1..n : Fits(i) /\ ~UserRefuses(i)}
  IN  /\ scheme.ret = "ok" /\ n = Len(doc.items) =>
           /\ good = 1..n
           /\ scheme.calls = FlattenSeq([i \in 1..n |-> CallsFor(i)])
           /\ n # 0 => Len(scheme.ctxs) = Len(json.ctxs)
      /\ scheme.ret # "ok" =>
           /\ good = 1..n - 1
           /\ IsPrefix(FlattenSeq([i \in 1..n - 1 |-> CallsFor(i)]), scheme.calls)
           /\ scheme.ret = "user" <=> UserRefuses(n)
=============================================================================
