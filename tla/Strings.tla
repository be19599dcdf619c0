------------------------------ MODULE Strings ------------------------------
(***************************************************************************)
(* Algorithms over buffers of bytes and zero-terminated strings            *)
(* (ffbase/string.h, ffbase/stringz.h).                                    *)
(*                                                                         *)
(* A string is a sequence of character codes without zeros; places are     *)
(* from 0 and -1 is "not found", as in the code.  All calls are pure: the  *)
(* caller asks one question and compares the answer with its contract.     *)
(***************************************************************************)
EXTENDS Sort

CONSTANTS
  Letters,     \* character codes
  TextMaxLen,  \* bound: characters of a text
  WordMaxLen,  \* bound: characters of what is looked for
  NameWidth    \* width of a name in an array of names

VARIABLES
  asked,  \* the question
  answer  \* what the code returns

stringsVars == <<asked, answer>>

None == [about |-> "nothing"]
StringsInit == asked = None /\ answer = None

Z(s, i) == IF i < Len(s) THEN s[i + 1] ELSE 0
FirstIn(n, Is(_)) == CHOOSE i \in 0..n : (i = n \/ Is(i)) /\ \A j \in 0..i - 1 : ~Is(j)
LastIn(n, Is(_)) == LET is == {i \in 0..n - 1 : Is(i)} IN IF is = {} THEN -1 ELSE Max(is)
OrNone(i, n) == IF i = n THEN -1 ELSE i
Suffix(s, i) == SubSeq(s, i + 1, Len(s))
Prefix(s, n) == SubSeq(s, 1, IF n < Len(s) THEN n ELSE Len(s))

Lower(c) == IF c \in 65..90 THEN c + 32 ELSE c
Upper(c) == IF c \in 97..122 THEN c - 32 ELSE c
Same(a, b, icase) == IF icase THEN Lower(a) = Lower(b) ELSE a = b
Sign(a, b) == IF a = b THEN 0 ELSE IF a < b THEN -1 ELSE 1
CaseSign(a, b, icase) == IF icase THEN Sign(Lower(a), Lower(b)) ELSE Sign(a, b)

----------------------------------------------------------------------------
(* Comparing *)

(* ffs_cmpz(), ffs_icmpz() *)
ffs_cmpz(s, z, icase) ==
  LET i == FirstIn(Len(s), LAMBDA k : Z(z, k) = 0 \/ ~Same(s[k + 1], Z(z, k), icase))
  IN  IF i = Len(s) THEN IF Z(z, i) # 0 THEN -1 ELSE 0
      ELSE IF Z(z, i) = 0 THEN 1
      ELSE CaseSign(s[i + 1], Z(z, i), icase)

(* ffs_cmpz_n() *)
ffs_cmpz_n(s, z) ==
  LET i == FirstIn(Len(s), LAMBDA k : Z(z, k) = 0 \/ s[k + 1] # Z(z, k))
  IN  IF i = Len(s) THEN IF Z(z, i) # 0 THEN -(i + 1) ELSE 0
      ELSE IF s[i + 1] < Z(z, i) THEN -(i + 1) ELSE i + 1

(* ffs_icmp(), memcmp() of the first n *)
ffs_icmp(s, t, n, icase) ==
  LET i == FirstIn(n, LAMBDA k : ~Same(s[k + 1], t[k + 1], icase))
  IN  IF i = n THEN 0 ELSE CaseSign(s[i + 1], t[i + 1], icase)

(* ffstr_cmp(), ffstr_icmp() *)
ffstr_cmp(s, t, icase) ==
  LET n == IF Len(s) < Len(t) THEN Len(s) ELSE Len(t)
      r == ffs_icmp(s, t, n, icase)
  IN  IF r # 0 THEN r ELSE Sign(Len(s), Len(t))

(* ffsz_cmp(), ffsz_icmp(): until a difference or the end of both. *)
ffsz_cmp(s, z, icase) ==
  LET i == FirstIn(Len(s) + 1, LAMBDA k : ~Same(Z(s, k), Z(z, k), icase) \/ Z(s, k) = 0)
  IN  CaseSign(Z(s, i), Z(z, i), icase)

(* ffs_matchz(); ffs_match(), ffs_imatch() *)
ffs_matchz(s, z) ==
  LET i == FirstIn(Len(s), LAMBDA k : Z(z, k) = 0 \/ s[k + 1] # Z(z, k))
  IN  Z(z, i) = 0
ffs_match(s, t, icase) == Len(s) >= Len(t) /\ ffs_icmp(s, t, Len(t), icase) = 0

(* ffsz_match(): does z begin with s. *)
ffsz_match(z, s) ==
  LET i == FirstIn(Len(z), LAMBDA k : k = Len(s) \/ z[k + 1] # s[k + 1]) IN i = Len(s)

(* ffstr_irmatch() *)
ffstr_irmatch(s, t) == Len(s) >= Len(t) /\ ffs_icmp(Suffix(s, Len(s) - Len(t)), t, Len(t), TRUE) = 0

----------------------------------------------------------------------------
(* Finding *)

(* ffs_findany(), ffs_findchar(); ffs_rfindany(), ffs_rfindchar() *)
ffs_findany(s, any) == OrNone(FirstIn(Len(s), LAMBDA i : s[i + 1] \in any), Len(s))
ffs_rfindany(s, any) == LastIn(Len(s), LAMBDA i : s[i + 1] \in any)

(* ffs_skipany(), ffs_skipchar(); ffs_rskipany(), ffstr_rskipchar() *)
ffs_skipany(s, any) == FirstIn(Len(s), LAMBDA i : s[i + 1] \notin any)
ffs_rskipany(s, any) == Len(s) - (LastIn(Len(s), LAMBDA i : s[i + 1] \notin any) + 1)

(* ffs_skip_ranges() *)
ffs_skip_ranges(s, ranges) ==
  OrNone(FirstIn(Len(s), LAMBDA i : \A r \in ranges : ~(r[1] <= s[i + 1] /\ s[i + 1] <= r[2])), Len(s))

(* Definitions "Wrong..." are what a plausible slip would have made of the *)
(* definition below them; no specification uses them.                      *)

(* Wrong: after a false start the search goes on behind it. *)
RECURSIVE WrongFindFrom(_, _, _, _)
WrongFindFrom(s, t, p, icase) ==
  LET i == FirstIn(Len(s) - p, LAMBDA k : Same(s[p + k + 1], t[1], icase)) + p
  IN  IF i = Len(s) \/ Len(t) > Len(s) - i THEN -1
      ELSE IF ffs_icmp(Suffix(s, i), t, Len(t), icase) = 0 THEN i
      ELSE WrongFindFrom(s, t, i + Len(t), icase)

(* ffs_findstr(), ffs_ifindstr(): from one first character to the next. *)
RECURSIVE FindFrom(_, _, _, _)
FindFrom(s, t, p, icase) ==
  LET i == FirstIn(Len(s) - p, LAMBDA k : Same(s[p + k + 1], t[1], icase)) + p
  IN  IF i = Len(s) \/ Len(t) > Len(s) - i THEN -1
      ELSE IF ffs_icmp(Suffix(s, i), t, Len(t), icase) = 0 THEN i
      ELSE FindFrom(s, t, i + 1, icase)

ffs_findstr(s, t, icase) ==
  IF Len(s) < Len(t) THEN -1
  ELSE IF t = <<>> THEN (IF s # <<>> THEN 0 ELSE -1)
  ELSE FindFrom(s, t, 0, icase)

(* ffs_rfindstr(): when one character is looked for and is not there, it   *)
(* reads in front of the string.  Not asked then.                          *)
ffs_rfindstr(s, t) ==
  LET n == Len(t) - 1
      i == LastIn(Len(s), LAMBDA k : k >= n /\ s[k + 1] = t[n + 1] /\ ffs_icmp(Suffix(s, k - n), t, n, FALSE) = 0)
  IN  IF Len(s) < Len(t) THEN -1
      ELSE IF t = <<>> THEN (IF s # <<>> THEN 0 ELSE -1)
      ELSE IF i = -1 THEN -1 ELSE i - n

(* ffs_split() *)
ffs_split(s, index) ==
  IF index = -1 THEN [first |-> s, second |-> <<>>]
  ELSE [first |-> Prefix(s, index), second |-> Suffix(s, index + 1)]

(* ffstr_trimwhite(): " \t\r\n" *)
ffstr_trimwhite(s) ==
  LET t == Suffix(s, ffs_skipany(s, {32, 9, 13, 10}))
  IN  Prefix(t, Len(t) - ffs_rskipany(t, {32, 9, 13, 10}))

(* ffs_wildcard(): i is in the pattern p, is in the string s; astk and     *)
(* astk_is are where to go on after the last asterisk.                     *)
RECURSIVE Wildcard(_, _, _, _, _, _, _)
Wildcard(p, s, icase, i, is, astk, astk_is) ==
  IF i = Len(p) THEN is = Len(s)
  ELSE IF p[i + 1] = 42 THEN i + 1 = Len(p) \/ Wildcard(p, s, icase, i + 1, is, i + 1, is)
  ELSE IF is = Len(s) THEN FALSE
  ELSE IF p[i + 1] = 63 \/ Same(p[i + 1], s[is + 1], icase) THEN Wildcard(p, s, icase, i + 1, is + 1, astk, astk_is)
  ELSE astk # 0 /\ Wildcard(p, s, icase, astk, astk_is + 1, astk, astk_is + 1)
ffs_wildcard(p, s, icase) == Wildcard(p, s, icase, 0, 0, 0, -1)

(* ffcharr_find_sorted_padding(): "01" is not "012". *)
CharrSign(search, name) ==
  LET r == ffs_icmp(search \o <<0>>, name, Len(search), FALSE)
  IN  IF r = 0 /\ Len(search) # NameWidth /\ name[Len(search) + 1] # 0 THEN 1 ELSE -r
Padded(name) == [i \in 1..NameWidth |-> Z(name, i - 1)]
ffcharr_find_sorted_padding(names, search) ==
  IF Len(search) > NameWidth THEN -1
  ELSE BinFind([i \in DOMAIN names |-> CharrSign(search, Padded(names[i]))])

----------------------------------------------------------------------------
(* Copying *)

(* ffs_lower(), ffs_upper(), ffs_titlecase(); in place or to a buffer. *)
ffs_lower(s, cap) == [i \in DOMAIN Prefix(s, cap) |-> Lower(s[i])]
ffs_upper(s, cap) == [i \in DOMAIN Prefix(s, cap) |-> Upper(s[i])]
ffs_titlecase(s, cap) ==
  LET capital[i \in 1..Len(s) + 1] == i = 1 \/ s[i - 1] = 32
  IN  [i \in DOMAIN Prefix(s, cap) |-> IF capital[i] THEN Upper(s[i]) ELSE Lower(s[i])]

(* _ffs_copyz(), _ffs_copy(); ffsz_copyz(), ffsz_copyn() *)
CopyZ(s, cap) == Prefix(s, cap)
ffsz_copyz(s, cap) == IF cap = 0 THEN <<>> ELSE Prefix(s, cap - 1) \o <<0>>

(* ffstr_growadd_replace(); an empty search would be found for ever. *)
RECURSIVE Replaced(_, _, _, _, _)
Replaced(in, search, replace, icase, all) ==
  LET pos == ffs_findstr(in, search, icase)
      rest == Suffix(in, pos + Len(search))
      more == Replaced(rest, search, replace, icase, all)
  IN  IF pos < 0 THEN [out |-> in, n |-> 0]
      ELSE IF ~all THEN [out |-> Prefix(in, pos) \o replace \o rest, n |-> 1]
      ELSE [out |-> Prefix(in, pos) \o replace \o more.out, n |-> 1 + more.n]

(* ffstr_gather() *)
ffstr_gather(s, d, total) ==
  LET n == IF Len(d) < total - Len(s) THEN Len(d) ELSE total - Len(s)
      t == s \o Prefix(d, n)
  IN  IF total <= Len(d) /\ s = <<>> THEN [out |-> Prefix(d, total), s |-> s, ret |-> total]
      ELSE IF total <= Len(s) THEN [out |-> Prefix(s, total), s |-> s, ret |-> 0]
      ELSE [out |-> IF Len(t) = total THEN t ELSE <<>>, s |-> t, ret |-> n]

----------------------------------------------------------------------------
(* The questions *)

TextsOf(cs, n) == UNION {[1..k -> cs] : k \in 0..n}
Texts == TextsOf(Letters, TextMaxLen)
Words == TextsOf(Letters, WordMaxLen)

AskPair(s, t) ==
  LET any == ToSet(t) IN
  /\ asked' = [about |-> "pair", s |-> s, t |-> t]
  /\ answer' =
       [compare |-> [icase \in BOOLEAN |-> <<ffs_cmpz(s, t, icase), ffstr_cmp(s, t, icase), ffsz_cmp(s, t, icase)>>],
        place |-> ffs_cmpz_n(s, t),
        begins |-> [icase \in BOOLEAN |->
           IF icase THEN <<ffs_match(s, t, TRUE)>> ELSE <<ffs_match(s, t, FALSE), ffs_matchz(s, t), ffsz_match(s, t)>>],
        ends |-> ffstr_irmatch(s, t),
        found |-> [icase \in BOOLEAN |-> ffs_findstr(s, t, icase)],
        rfound |-> IF Len(t) = 1 /\ t[1] \notin ToSet(s) THEN -1 ELSE ffs_rfindstr(s, t),
        any |-> <<ffs_findany(s, any), ffs_rfindany(s, any), ffs_skipany(s, any), ffs_rskipany(s, any),
                  ffs_skip_ranges(s, {<<c, c + 1>> : c \in any})>>,
        split |-> ffs_split(s, ffs_findany(s, any)),
        replaced |-> [all \in BOOLEAN |->
           IF t = <<>> THEN [out |-> s, n |-> 0] ELSE Replaced(s, t, <<0>>, FALSE, all)],
        gathered |-> [total \in 0..Len(s) + Len(t) |-> ffstr_gather(s, t, total)]]

AskOne(s, cap) ==
  /\ asked' = [about |-> "one", s |-> s, cap |-> cap]
  /\ answer' = [lower |-> ffs_lower(s, cap), upper |-> ffs_upper(s, cap), title |-> ffs_titlecase(s, cap),
                trim |-> ffstr_trimwhite(s), copy |-> CopyZ(s, cap), copyz |-> ffsz_copyz(s, cap)]

AskPattern(p, s, icase) ==
  /\ asked' = [about |-> "pattern", s |-> s, t |-> p, icase |-> icase]
  /\ answer' = [match |-> ffs_wildcard(p, s, icase)]

Names == TextsOf({97, 98}, WordMaxLen) \ {<<>>}
Ordered(names) == SetToSortSeq(names, LAMBDA x, y : ffstr_cmp(x, y, FALSE) < 0)

AskNames(names, s) ==
  LET a == Ordered(names) IN
  /\ asked' = [about |-> "names", s |-> s, names |-> a]
  /\ answer' = [found |-> <<SelectInSeq(a, LAMBDA z : ffs_cmpz(s, z, FALSE) = 0) - 1,
                            BinFind([i \in DOMAIN a |-> -ffs_cmpz(s, a[i], FALSE)]),
                            ffcharr_find_sorted_padding(a, s)>>]

StringsNext ==
  /\ asked = None
  /\ \/ \E s \in Texts, t \in Words : AskPair(s, t)
     \/ \E s \in Texts, cap \in 0..TextMaxLen + 1 : AskOne(s, cap)
     \/ \E s \in Texts, p \in TextsOf({42, 63, 97}, TextMaxLen), icase \in BOOLEAN : AskPattern(p, s, icase)
     \/ \E names \in SUBSET Names, s \in Words : AskNames(names, s)

----------------------------------------------------------------------------
(* Properties *)

Lowered(s, icase) == IF icase THEN [i \in DOMAIN s |-> Lower(s[i])] ELSE s
Before(s, t) == \E k \in 0..Len(s) :
  /\ k <= Len(t) /\ Prefix(s, k) = Prefix(t, k)
  /\ k < Len(t) /\ (k = Len(s) \/ s[k + 1] < t[k + 1])
Order(s, t) == IF s = t THEN 0 ELSE IF Before(s, t) THEN -1 ELSE 1
Places(s, t) == {i \in 0..Len(s) - Len(t) : Prefix(Suffix(s, i), Len(t)) = t}

Matches(p, s, icase) ==
  LET m[i \in 0..Len(p), k \in 0..Len(s)] ==
        IF i = Len(p) THEN k = Len(s)
        ELSE IF p[i + 1] = 42 THEN m[i + 1, k] \/ (k < Len(s) /\ m[i, k + 1])
        ELSE k < Len(s) /\ (p[i + 1] = 63 \/ Same(p[i + 1], s[k + 1], icase)) /\ m[i + 1, k + 1]
  IN  m[0, 0]

PairAgrees(s, t) ==
  /\ \A icase \in BOOLEAN :
       LET a == Lowered(s, icase) b == Lowered(t, icase) IN
       /\ \A r \in ToSet(answer.compare[icase]) : r = Order(a, b)
       /\ \A r \in ToSet(answer.begins[icase]) : r = IsPrefix(b, a)
       /\ s # <<>> => answer.found[icase] = IF Places(a, b) = {} THEN -1 ELSE Min(Places(a, b))
  /\ answer.ends = IsSuffix(Lowered(t, TRUE), Lowered(s, TRUE))
  /\ answer.place = Order(s, t) * (Len(LongestCommonPrefix({s, t})) + 1)
  /\ t # <<>> => answer.rfound = IF Places(s, t) = {} THEN -1 ELSE Max(Places(s, t))
  /\ LET n == answer.any[3] m == answer.any[4] IN
       /\ ToSet(Prefix(s, n)) \cup ToSet(Suffix(s, Len(s) - m)) \subseteq ToSet(t)
       /\ n < Len(s) => s[n + 1] \notin ToSet(t) /\ s[Len(s) - m] \notin ToSet(t)
  /\ LET i == answer.any[1] IN
       IF i = -1 THEN answer.split = [first |-> s, second |-> <<>>] /\ ToSet(s) \cap ToSet(t) = {}
       ELSE s = answer.split.first \o <<s[i + 1]>> \o answer.split.second
  /\ t # <<>> =>
       /\ answer.replaced[FALSE].out = ReplaceFirstSubSeq(<<0>>, t, s)
       /\ LET out == answer.replaced[TRUE].out IN
            /\ FlattenSeq([i \in DOMAIN out |-> IF out[i] = 0 THEN t ELSE <<out[i]>>]) = s
            /\ Places(out, t) = {}
            /\ Len(out) = Len(s) - answer.replaced[TRUE].n * (Len(t) - 1)
  /\ \A total \in DOMAIN answer.gathered :
       LET g == answer.gathered[total] IN total # 0 => g.out = Prefix(s \o t, total) /\ g.ret <= Len(t)

(* A wildcard pattern matches exactly the strings its comment says:        *)
(* "'*': >=0 any characters match", "'?': 1 any character matches".        *)
WildcardMatches ==
  asked.about = "pattern" => answer.match = Matches(asked.t, asked.s, asked.icase)

(* Whatever the strings are, comparisons are the order of their            *)
(* characters, searches return the first (or the last) place and only      *)
(* that, replacing leaves nothing behind and gathering gives the bytes of  *)
(* the stream; a pattern that is reported to match does match; sorted      *)
(* arrays of names are searched for whole names.                           *)
StringsAgree ==
  CASE asked.about = "pair" -> PairAgrees(asked.s, asked.t)
    [] asked.about = "one" ->
         LET s == asked.s n == asked.cap IN
         /\ answer.copy = Prefix(s, n) /\ Len(answer.copyz) <= n
         /\ n # 0 => Last(answer.copyz) = 0 /\ IsPrefix(Front(answer.copyz), s)
         /\ Lowered(answer.upper, TRUE) = answer.lower /\ Lowered(answer.title, TRUE) = answer.lower
         /\ \A i \in DOMAIN answer.title : answer.title[i] \in 65..90 => i = 1 \/ s[i - 1] = 32
         /\ \E i, j \in 0..Len(s) : s = Prefix(s, i) \o answer.trim \o Suffix(s, j) /\ ToSet(Prefix(s, i)) \cup ToSet(Suffix(s, j)) \subseteq {32}
         /\ answer.trim # <<>> => 32 \notin {answer.trim[1], Last(answer.trim)}
    [] asked.about = "pattern" ->
         /\ answer.match => Matches(asked.t, asked.s, asked.icase)
         /\ 42 \notin ToSet(asked.t) \/ Last(asked.t) = 42 => answer.match = Matches(asked.t, asked.s, asked.icase)
    [] asked.about = "names" ->
         \A i \in ToSet(answer.found) :
           IF i = -1 THEN asked.s \notin ToSet(asked.names) ELSE asked.names[i + 1] = asked.s
    [] OTHER -> TRUE
=============================================================================
