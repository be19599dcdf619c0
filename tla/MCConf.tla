------------------------------- MODULE MCConf -------------------------------
(***************************************************************************)
(* Files for the configuration reader: plain and quoted words, escapes,    *)
(* comments, line breaks inside and between words, and mistakes.           *)
(***************************************************************************)
EXTENDS Conf

W(raw, text) == [raw |-> raw, text |-> text, bad |-> FALSE]
B(raw, text) == [raw |-> raw, text |-> text, bad |-> TRUE]
MCConfWords ==
  {W(<<"a", "#", "x">>, <<"a", "#", "x">>), W(<<"q", "q">>, <<>>),
   W(<<"q", "b", "q", "a", "b", "x", "4", "1", "sp", "q">>, <<"q", "a", "41", "sp">>),
   W(<<"q", "a", "lf", "a", "q">>, <<"a", "lf", "a">>),
   B(<<"a", "ctl">>, <<"a">>), B(<<"q", "a", "q", "a">>, <<"a">>),
   B(<<"ctl">>, <<>>), B(<<"q", "ctl">>, <<>>),
   B(<<"q", "a", "b", "a">>, <<"a">>), B(<<"q", "b", "x", "x", "4", "q">>, <<>>)}
MCConfGaps == {<<"sp">>, <<"lf">>, <<"sp", "#", "q", "lf", "sp">>}
ConfSpec == ConfInit /\ [][ConfNext]_confVars
=============================================================================
