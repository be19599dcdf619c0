------------------------------ MODULE MCSingle -----------------------------
(***************************************************************************)
(* The parts of the library that one thread uses on data of its own.  A    *)
(* behavior begins in one part and stays there.  The JSON reader and       *)
(* writer are one part: what is written is read back.                      *)
(***************************************************************************)
EXTENDS MCConf, JsonWriter, JsonScheme, Args, Format, Unicode, Calendar, Vec, Stream, NameTree

VARIABLE part

(* JSON documents: their text, elements and the answer they deserve. *)
D(text, its, verdict) == [text |-> text, items |-> its, answer |-> verdict]
I(t, v) == [type |-> t, val |-> v]
AO == I("arr_open", <<>>)
OO == I("obj_open", <<>>)
AC == I("arr_close", <<>>)
OC == I("obj_close", <<>>)
Q == "\""
MCDocs == {
  D(<<"[", "/", "/", "*", "lf", "1", "/", "*", "*", "1", "*", "/", ",", "/", "*", "*", "/", "1", ".", "0", "sp", "]", "/", "/", "a">>,
    <<AO, I("int", <<"1">>), I("num", <<"1", ".", "0">>), AC>>, "ok"),
  D(<<"{", "/", "*", "*", "/", Q, "a", Q, "/", "*", "*", "/", ":", "sp", "t", "r", "u", "e", ",", Q, "b", Q, ":", "f", "a", "l", "s", "e", "}", "lf">>,
    <<OO, I("key", <<"a">>), I("bool", <<"1">>), I("key", <<"b">>), I("bool", <<>>), OC>>, "ok"),
  D(<<Q, "a", "\\", "u", "d", "8", "3", "d", "\\", "u", "d", "e", "0", "0", "\\", "/", "\\", Q, "a", Q>>,
    <<I("str", <<"a", "d83dde00", "/", Q, "a">>)>>, "ok"),
  D(<<"{", ",">>, <<OO>>, "EBADCHAR"),
  D(<<"[", "1", "0", "1", ";">>, <<AO, I("int", <<"1", "0", "1">>)>>, "EBADCHAR"),
  D(<<"[", "1", "-", "sp">>, <<AO>>, "EBADCHAR"),
  D(<<"[", "1", "sp", "]", ",">>, <<AO, I("int", <<"1">>), AC>>, "EFIN"),
  D(<<Q, "a", "lf">>, <<>>, "EBADSTR"),
  D(<<Q, "a", Q, "]">>, <<I("str", <<"a">>)>>, "EFIN"),
  D(<<"{", Q, "a", Q, ",">>, <<OO, I("key", <<"a">>)>>, "EBADCHAR"),
  D(<<"{", Q, "a", Q, ":", ",">>, <<OO, I("key", <<"a">>)>>, "EBADCHAR"),
  D(<<"lf", "t", "r", "u", "E">>, <<>>, "EBADBOOL"),
  D(<<"n", "u", "l", "L">>, <<>>, "EBADNULL"),
  D(<<".">>, <<>>, "EINCOMPLETE"),
  D(<<"0", "0", "0", "0", "0">>, <<>>, "ELARGE"),
  D(<<Q, "\\", "1">>, <<>>, "EBADESCAPE"),
  D(<<"[", "1", "}">>, <<AO, I("int", <<"1">>)>>, "EBADCTX"),
  D(<<"[", "]", "a">>, <<AO, AC>>, "EFIN"),
  D(<<"[", "[", "]", "sp", "a">>, <<AO, AO, AC>>, "EBADCHAR"),
  D(<<"]">>, <<>>, "EBADCHAR"),
  D(<<"sp", "/", "z">>, <<>>, "EBADCOMMENT"),
  D(<<Q, "\\", "u", "d", "8", "3", "d", "a">>, <<>>, "EBADESCAPE"),
  D(<<Q, "\\", "u", "d", "8", "3", "d", "\\", "n">>, <<>>, "EBADESCAPE"),
  D(<<Q, "\\", "u", "d", "8", "3", "d", "\\", "u", "0", "0", "0", "1">>, <<>>, "EBADESCAPE"),
  D(<<Q, "\\", "u", "d", "8", "3", "d", "\\", "u", "d", "8", "0", "1">>, <<>>, "EBADESCAPE"),
  D(<<Q, "\\", "u", "d", "e", "0", "0">>, <<>>, "EBADESCAPE"),
  D(<<Q, "\\", "u", "d", "e", "0", "z">>, <<>>, "EBADESCAPE")}
MCStrings == {<<>>, <<"a">>, <<"lf", "a">>, <<Q, "0001">>}
MCNumbers == {<<"-", "1">>, <<"1", ".", "1">>}

(* Documents for schemes: objects and arrays, up to three deep *)
Part(text, its) == [text |-> text, items |-> its]
Leaves == {Part(<<"n", "u", "l", "l">>, <<I("null", <<>>)>>), Part(<<"f", "a", "l", "s", "e">>, <<I("bool", <<>>)>>),
            Part(<<"1">>, <<I("int", <<"1">>)>>), Part(<<".", "1">>, <<I("num", <<".", "1">>)>>),
            Part(<<Q, "\\", "n", "a", Q>>, <<I("str", <<"lf", "a">>)>>)}
Simple == {v \in Leaves : v.items[1].type \in {"null", "int"}}
List(parts) == FlattenSeq([i \in DOMAIN parts |-> (IF i = 1 THEN <<>> ELSE <<",">>) \o parts[i].text])
Its(parts) == FlattenSeq([i \in DOMAIN parts |-> parts[i].items])
Arr(parts) == Part(<<"[">> \o List(parts) \o <<"]">>, <<AO>> \o Its(parts) \o <<AC>>)
Obj(parts) == Part(<<"{">> \o List(parts) \o <<"}">>, <<OO>> \o Its(parts) \o <<OC>>)
Key(k, v) == Part(<<Q, k, Q, ":">> \o v.text, <<I("key", <<k>>)>> \o v.items)
Short == {<<>>} \cup {<<v>> : v \in Leaves}
Inner == {Arr(vs) : vs \in Short} \cup {Obj(<<>>)} \cup {Obj(<<Key(k, v)>>) : k \in {"o", "l", "s"}, v \in Leaves}
Deep == {Arr(<<v, w>>) : v \in Inner, w \in Simple} \cup {Obj(<<Key(k, v)>>) : k \in {"o", "l"}, v \in Inner}
Tops == {Obj(<<>>), Arr(<<>>)} \cup {Obj(<<Key(k, v)>>) : k \in {"A", "b", "o", "l", "n"}, v \in Leaves \cup Inner}
        \cup {Obj(<<Key(k, v)>>) : k \in {"o", "l"}, v \in Deep} \cup {Arr(<<v>>) : v \in Inner \cup Deep}
        \cup {Arr(<<v, w>>) : v, w \in Leaves} \cup {Obj(<<Key(k, v), Key("n", w)>>) : k \in {"n", "s"}, v \in Leaves, w \in Simple}
(* "null" for an array or object right below the top is left out. *)
TopNull(its) == \E i \in 2..Len(its) : its[i].type = "null" /\ (i = 2 \/ (its[i - 1] \in {I("key", <<k>>) : k \in {"o", "l"}}
  /\ Quantify(1..i, LAMBDA n : its[n].type \in {"arr_open", "obj_open"}) = 1 + Quantify(1..i, LAMBDA n : its[n].type \in {"arr_close", "obj_close"})))
MCSchemeDocs == {D(p.text, p.items, "ok") : p \in {q \in Tops : ~TopNull(q.items)}}

Field(name, type) == [name |-> <<name>>, type |-> type, func |-> FALSE, refuses |-> {}, adds |-> 0]
Func(name, type, refuses, adds) == [name |-> <<name>>, type |-> type, func |-> TRUE, refuses |-> refuses, adds |-> adds]
MCJsonSchemes ==
  << [entries |-> << Field("a", "int"), Field("n", "num"), Field("s", "str"), Func("b", "bool", {}, 0),
                     Func("o", "obj_open", {}, 1), Func("l", "arr_open", {}, 2) >>, close |-> "obj_close"],
     [entries |-> << Func("*", "any", {"num"}, 1) >>, close |-> "arr_close"],
     [entries |-> << Func("*", "obj_open", {}, 4), Func("l", "arr_open", {}, 0) >>, close |-> ""],
     [entries |-> << Field("o", "any"), Func("s", "str", {"str"}, 0), Func("l", "arr_open", {"null"}, 3), Func("a", "arr_open", {}, 4) >>, close |-> ""],
     [entries |-> << Field("*", "str") >>, close |-> "arr_close"] >>

(* Command lines *)
Ent(name, type, multi, to, ret) == [name |-> name, type |-> type, multi |-> multi, to |-> to, ret |-> ret]
MCSchemes ==
  << [entries |-> << Ent(<<45, 97>>, "1", FALSE, 0, 0), Ent(<<45, 97, 98>>, "u", FALSE, 0, 0), Ent(<<45, 98>>, "S", TRUE, 0, 0),
                     Ent(<<45, 99, 97>>, ">", FALSE, 2, 0), Ent(<<99>>, "b", FALSE, 0, 0) >>,
      any |-> Ent(<<>>, "{", FALSE, 2, 0), done |-> 0],
     [entries |-> << Ent(<<45, 97, 97>>, "b", FALSE, 0, 0), Ent(<<45, 97, 98>>, "0", FALSE, 0, 7), Ent(<<45, 99>>, "{", FALSE, 3, 0) >>,
      any |-> Ent(<<>>, "Z", FALSE, 0, 0), done |-> 5],
     [entries |-> << Ent(<<45, 97>>, "0", FALSE, 0, 0), Ent(<<45, 98>>, ">", TRUE, 3, 0) >>, any |-> NoEntry, done |-> 0] >>
MCWords == {<<45, 97>>, <<45, 97, 98>>, <<45, 98>>, <<45, 99>>, <<45>>, <<45, 45>>, <<48>>, <<50, 107>>, <<97, 32>>, <<>>, <<99>>}
MCEntries == {<<>>, <<0>>, <<45, 97>>, <<45, 97, 98>>, <<45, 98>>}

(* Numbers *)
Over(cs, n) == UNION {[1..k -> cs] : k \in 0..n}
MCIntTexts == Over({45, 43, 50, 53, 54, 102}, 3) \cup {<<45>> \o s : s \in Over({49, 50, 56}, 3)} \cup Over({51, 52, 55, 48}, 3)
MCFloatTexts == {a \o b \o c : a \in {<<>>, <<45>>, <<49>>, <<43, 50, 48>>}, b \in {<<>>, <<46>>, <<46, 53>>, <<46, 46>>},
  c \in {<<>>, <<101>>, <<69, 43>>, <<101, 45, 51>>, <<101, 51, 48, 57>>, <<120>>}}
MCParts == {0, 1, 4, 5, 499, 500, 999, 995, 1000, 1999, 9995, 12345, -1, -5, -500, -999, -995, -1000, -9996, -12340}

(* Formats *)
Dir(kind, arg) == [kind |-> kind, have |-> FALSE, width |-> 0, zero |-> FALSE, arg |-> arg]
Wid(d, width, zero) == [d EXCEPT !.have = TRUE, !.width = width, !.zero = zero]
AnInt(arg, sign, base) == Dir("int", arg) @@ [sign |-> sign, base |-> base]
MCDirectives ==
  {Dir("char", 120), AnInt(5, FALSE, 10), AnInt(128, TRUE, 10), Wid(AnInt(171, FALSE, 16), 3, TRUE), Wid(AnInt(250, TRUE, 10), 5, FALSE),
   Dir("float", 12500) @@ [prec |-> 2], Wid(Dir("float", -1000) @@ [prec |-> 0], 4, TRUE),
   Dir("sz", <<65, 66, 67>>), Wid(Dir("sz", <<65, 66, 67>>), 2, FALSE), Dir("str", <<65, 66>>), Wid(Dir("str", <<65>>), 4, FALSE),
   Dir("str", <<>>), Dir("bytes", <<171>>), Dir("fill", 45)}
Lit(c) == [var |-> FALSE, c |-> c]
Var(int, width) == [var |-> TRUE, int |-> int, width |-> width, base |-> 10, sign |-> TRUE]
MCMatchFormats ==
  Over({Lit(97), Lit(44), Var(FALSE, 0), Var(FALSE, 2), Var(TRUE, 0), Var(TRUE, 1)}, 3)
  \cup {<<Var(FALSE, 0), Lit(97), Lit(97), Lit(44)>>, <<Var(FALSE, 0), Lit(97), Lit(44), Var(TRUE, 0)>>, <<Var(TRUE, 0), Lit(44), Var(FALSE, 0), Lit(97)>>}
MCMatchTexts == Over({45, 49, 97, 44}, 4)

(* Characters *)
MCPage == (128 :> 1040) @@ (129 :> 65533) @@ (160 :> 160)
MCChars == {0, 65, 127, 128, 2047, 2048, 55295, 65535, 65536, 2097151, 2097152, 67108863, 67108864, 2147483647}

(* Days around the turns of years of every kind, times, texts of times. *)
MCDays == (0..1500) \cup (34600..34800) \cup (36100..36700) \cup (145700..146200) \cup (730000..730600) \cup (3651600..3651700)
MCTimes == [day : {0, 3}, sod : {0, 1, 86399}, nsec : {0, 1, 999999999}]
MCTexts == UNION {[1..k -> {Num(1), Num(7), Mark(":"), Mark(".")}] : k \in 1..6}

(* Elements of static data *)
MCStatic == <<2, 1>>

NoFile == FileOf(<<>>, <<>>)
NoDoc == D(<<>>, <<>>, "")

Jsons == <<jsonVars, jsonwVars, schemeVars>>
Pure == <<conv, fmt, uni, cal, stringsVars, sortVars>>
Readers == <<confVars, Jsons, args>>
Containers == <<vecVars, streamVars, treeVars>>

Init ==
  /\ part \in {"conf", "json", "jsonw", "args", "strings", "sort", "convert", "unicode", "calendar",
              "vector", "stream", "tree", "scheme", "format"}
  /\ IF part = "conf" THEN ConfInit ELSE ConfStart({NoFile})
  /\ JsonInit(CASE part = "json" -> MCDocs [] part = "scheme" -> MCSchemeDocs [] OTHER -> {NoDoc})
  /\ IF part = "scheme" THEN SchemeInit({1, 2, 5}, BOOLEAN) ELSE SchemeInit({1}, {FALSE})
  /\ JsonwInit /\ (part # "jsonw" => jsonw.pretty = "none")
  /\ IF part = "args" THEN ArgsInit ELSE args = [about |-> "merge", done |-> FALSE]
  /\ StringsInit /\ SortInit /\ ConvertInit /\ FmtInit /\ UniInit /\ CalInit
  /\ VecInit /\ StreamInit /\ TreeInit

ReaderNext ==
  \/ part = "conf" /\ ConfNext /\ UNCHANGED <<Jsons, args>>
  \/ part \in {"json", "jsonw"} /\ doc.text # <<>> /\ JsonNext /\ UNCHANGED <<confVars, jsonwVars, schemeVars, args>>
  \/ part = "scheme" /\ SchemeNext /\ UNCHANGED <<confVars, jsonwVars, args>>
  \/ part = "jsonw" /\ ((doc.text = <<>> /\ JsonwNext) \/ Publish) /\ UNCHANGED <<confVars, schemeVars, args>>
  \/ part = "args" /\ ArgsNext /\ UNCHANGED <<confVars, Jsons>>

PureNext ==
  \/ part = "strings" /\ StringsNext /\ UNCHANGED <<sortVars, conv, fmt, uni, cal>>
  \/ part = "sort" /\ SortNext /\ UNCHANGED <<stringsVars, conv, fmt, uni, cal>>
  \/ part = "convert" /\ ConvertNext /\ UNCHANGED <<stringsVars, sortVars, fmt, uni, cal>>
  \/ part = "format" /\ FmtNext /\ UNCHANGED <<stringsVars, sortVars, conv, uni, cal>>
  \/ part = "unicode" /\ UniNext /\ UNCHANGED <<stringsVars, sortVars, conv, fmt, cal>>
  \/ part = "calendar" /\ CalNext /\ UNCHANGED <<stringsVars, sortVars, conv, fmt, uni>>

ContainerNext ==
  \/ part = "vector" /\ VecNext /\ UNCHANGED <<streamVars, treeVars>>
  \/ part = "stream" /\ StreamNext /\ UNCHANGED <<vecVars, treeVars>>
  \/ part = "tree" /\ TreeNext /\ UNCHANGED <<vecVars, streamVars>>

Next ==
  /\ \/ ReaderNext /\ UNCHANGED <<Pure, Containers>>
     \/ PureNext /\ UNCHANGED <<Readers, Containers>>
     \/ ContainerNext /\ UNCHANGED <<Pure, Readers>>
  /\ UNCHANGED part

Spec == Init /\ [][Next]_<<part, Readers, Pure, Containers>>
=============================================================================
