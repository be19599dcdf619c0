------------------------------ MODULE Unicode ------------------------------
(***************************************************************************)
(* UTF-8, UTF-16 and code pages (ffbase/unicode.h).                        *)
(*                                                                         *)
(* A text is a sequence of bytes.  A conversion is the sequence of pieces  *)
(* it writes one after the other; whether they fit is asked as the code    *)
(* asks.  TLC's integers have 31 bits, so every character has a size.      *)
(***************************************************************************)
EXTENDS Integers, SequencesExt

CONSTANTS
  UniChars,  \* characters that are encoded
  UniBytes,  \* bytes of the UTF-8 texts
  UniUnits,  \* code units of the UTF-16 texts
  UniMaxLen, \* bound: bytes or units of a text
  CodePage   \* the characters of some bytes from 0x80 on

ASSUME UnicodeAssumption ==
  /\ UniChars \subseteq Nat /\ UniUnits \subseteq 0..65535
  /\ UniBytes \subseteq 0..255 /\ DOMAIN CodePage \subseteq 128..255

VARIABLE uni  \* a question and its answer

UniInit == uni = [about |-> "nothing"]

NoSpace == <<-1>>  \* what a conversion returns when the result does not fit
U_REPL == 65533    \* U+FFFD, REPLACEMENT CHARACTER

----------------------------------------------------------------------------
(* UTF-8 characters *)

ffutf8_size(ch) == 1 + Len(SelectSeq(<<128, 2048, 65536, 2097152, 67108864>>, LAMBDA least : ch >= least))

(* ffutf8_encode(); <<>> is "returns 0". *)
ffutf8_encode(ch, cap) ==
  LET n == ffutf8_size(ch)
      lead == <<0, 192, 224, 240, 248, 252>>[n]
  IN  IF cap < n THEN <<>>
      ELSE [i \in 1..n |-> IF i = 1 THEN lead + (ch \div 64^(n - 1)) ELSE 128 + ((ch \div 64^(n - i)) % 64)]

(* The length that the first byte says: 2 to 6 leading bits; 0 is none.    *)
LengthIn(d) ==
  IF d < 128 THEN 1 ELSE IF d < 192 \/ d > 253 THEN 0
  ELSE CHOOSE n \in 2..6 : d \div 2^(7 - n) = 2^(n + 1) - 2

ffutf8_len(s) == IF s = <<>> THEN 0 ELSE LengthIn(s[1])

(* ffutf8_decode() of s *)
ffutf8_decode(s) ==
  LET n == ffutf8_len(s)
      first == IF n = 1 THEN s[1] ELSE s[1] % 2^(7 - n)
  IN  CASE s = <<>> -> [ret |-> -1, val |-> 0]
        [] s # <<>> /\ Len(s) < n -> [ret |-> -n, val |-> 0]
        [] s # <<>> /\ (n = 0 \/ (Len(s) >= n /\ \E i \in 2..n : s[i] \div 64 # 2)) -> [ret |-> 0, val |-> 0]
        [] OTHER -> [ret |-> n, val |-> FoldLeft(LAMBDA r, d : r * 64 + (d % 64), first, SubSeq(s, 2, n))]

Shifted(s, n) == SubSeq(s, n + 1, Len(s))

RECURSIVE ffutf8_valid(_)
ffutf8_valid(s) ==
  LET r == ffutf8_decode(s).ret IN s = <<>> \/ (r > 0 /\ ffutf8_valid(Shifted(s, r)))

----------------------------------------------------------------------------
(* Conversions *)

UniRepl == ffutf8_encode(U_REPL, 3)

(* The pieces ffutf8_from_utf8() copies: the rest of a text that ends in   *)
(* the middle of a character is one replacement.                           *)
RECURSIVE Pieces8(_)
Pieces8(s) ==
  LET r == ffutf8_decode(s).ret IN
  CASE s = <<>> -> <<>>
    [] s # <<>> /\ r < 0 -> <<UniRepl>>
    [] s # <<>> /\ r = 0 -> <<UniRepl>> \o Pieces8(Tail(s))
    [] OTHER -> <<SubSeq(s, 1, r)>> \o Pieces8(Shifted(s, r))

(* What it says it needs. *)
Capacity8(s) == Len(FlattenSeq(Pieces8(s)))

(* ffutf8_from_utf8(): only a replacement is checked for space. *)
ffutf8_from_utf8(s, cap) ==
  FoldLeft(LAMBDA out, p : IF out = NoSpace \/ (p = UniRepl /\ Len(out) + 3 > cap) THEN NoSpace ELSE out \o p,
           <<>>, Pieces8(s))

ffutf16_basic(u) == u \div 2048 # 27
ffutf16_highsurr(u) == u \div 1024 = 54
ffutf16_lowsurr(u) == u \div 1024 = 55
ffutf16_suppl(hi, lo) == 65536 + (hi - 55296) * 1024 + lo - 56320

(* The code unit of two bytes, in either order. *)
UnitOf(b, le) == IF le THEN b[1] + 256 * b[2] ELSE 256 * b[1] + b[2]
BytesOf(u, le) == IF le THEN <<u % 256, u \div 256>> ELSE <<u \div 256, u % 256>>
UnitsIn(src, le) == [i \in 1..Len(src) \div 2 |-> UnitOf(<<src[2 * i - 1], src[2 * i]>>, le)]

(* Definitions "Wrong..." are what a plausible slip would have made of the *)
(* definition below them; no specification uses them.                      *)

(* Wrong: the unit that breaks a pair is skipped. *)
WrongTakeUnit(st, u) ==
  CASE st.hs # 0 /\ ffutf16_lowsurr(u) -> [out |-> Append(st.out, ffutf16_suppl(st.hs, u)), hs |-> 0]
    [] st.hs # 0 /\ ~ffutf16_lowsurr(u) -> [out |-> Append(st.out, U_REPL), hs |-> 0]
    [] st.hs = 0 /\ ffutf16_highsurr(u) -> [st EXCEPT !.hs = u]
    [] OTHER -> [st EXCEPT !.out = Append(@, IF ffutf16_basic(u) THEN u ELSE U_REPL)]

(* One turn of the loop of ffutf8_from_utf16(): hs is the high surrogate   *)
(* that waits for its low one, or 0.                                       *)
TakeUnit(st, u) ==
  LET broken == IF st.hs # 0 THEN <<U_REPL>> ELSE <<>> IN
  CASE st.hs # 0 /\ ffutf16_lowsurr(u) -> [out |-> Append(st.out, ffutf16_suppl(st.hs, u)), hs |-> 0]
    [] ffutf16_highsurr(u) -> [out |-> st.out \o broken, hs |-> u]
    [] OTHER -> [out |-> st.out \o broken \o <<IF ffutf16_basic(u) THEN u ELSE U_REPL>>, hs |-> 0]

(* The characters ffutf8_from_utf16() writes. *)
Chars16(src, le) ==
  LET st == FoldLeft(TakeUnit, [out |-> <<>>, hs |-> 0], UnitsIn(src, le)) IN
  st.out \o IF st.hs # 0 \/ Len(src) % 2 # 0 THEN <<U_REPL>> ELSE <<>>

CapacityFor(chars) == FoldLeft(LAMBDA n, ch : n + ffutf8_size(ch), 0, chars)

(* Characters one after the other, each asked for its own space. *)
EncodeAll(chars, cap) ==
  FoldLeft(LAMBDA out, ch : IF out = NoSpace \/ ffutf8_encode(ch, cap - Len(out)) = <<>> THEN NoSpace
                            ELSE out \o ffutf8_encode(ch, cap - Len(out)), <<>>, chars)

ffutf8_from_utf16(src, le, cap) == EncodeAll(Chars16(src, le), cap)

(* The units ffutf8_to_utf16() writes: one per character, the replacement  *)
(* where the code would need a pair, and one per bad byte.                 *)
RECURSIVE Units8(_)
Units8(s) ==
  LET c == ffutf8_decode(s) IN
  IF s = <<>> THEN <<>>
  ELSE <<IF c.ret <= 0 \/ c.val > 65535 \/ ~ffutf16_basic(c.val) THEN U_REPL ELSE c.val>>
       \o Units8(IF c.ret <= 0 THEN Tail(s) ELSE Shifted(s, c.ret))

ffutf8_to_utf16(s, le, cap) ==
  IF Len(Units8(s)) > cap \div 2 THEN NoSpace ELSE FlattenSeq([i \in DOMAIN Units8(s) |-> BytesOf(Units8(s)[i], le)])

(* What it says it needs, of a text without errors: two units for a        *)
(* character that takes one.                                               *)
RECURSIVE Capacity16(_)
Capacity16(s) ==
  LET c == ffutf8_decode(s) IN
  IF s = <<>> THEN 0
  ELSE (IF c.val > 65535 \/ ~ffutf16_basic(c.val) THEN 4 ELSE 2) + Capacity16(Shifted(s, c.ret))

(* ffutf16_findchar() reads signed units in the order of the machine. *)
ffutf16_findchar(src, ch) ==
  LET units == UnitsIn(src, TRUE)
      signed(u) == IF u >= 32768 THEN u - 65536 ELSE u
      at == {i \in DOMAIN units : signed(units[i]) = ch}
  IN  IF at = {} THEN -1 ELSE 2 * ((CHOOSE i \in at : \A j \in at : i <= j) - 1)

(* ffutf_bom() of a text that is not empty: the encoding and its length. *)
ffutf_bom(s) ==
  LET starts(b) == Len(s) >= Len(b) /\ SubSeq(s, 1, Len(b)) = b IN
  CASE starts(<<255, 254>>) -> [ret |-> "UTF16LE", len |-> 2]
    [] starts(<<254, 255>>) -> [ret |-> "UTF16BE", len |-> 2]
    [] starts(<<239, 187, 191>>) -> [ret |-> "UTF8", len |-> 3]
    [] OTHER -> [ret |-> "none", len |-> Len(s)]

(* ffutf8_from_cp() *)
CpChars(s) == [i \in DOMAIN s |-> IF s[i] >= 128 THEN CodePage[s[i]] ELSE s[i]]
ffutf8_from_cp(s, cap) == EncodeAll(CpChars(s), cap)

----------------------------------------------------------------------------
(* The questions *)

AskChar(ch, cap) == uni' = [about |-> "char", ch |-> ch, cap |-> cap, got |-> ffutf8_encode(ch, cap)]

AskUtf8(s, cap, le) ==
  uni' = [about |-> "utf8", s |-> s, cap |-> cap, le |-> le, valid |-> ffutf8_valid(s),
          got |-> ffutf8_from_utf8(s, cap), wide |-> ffutf8_to_utf16(s, le, cap), bom |-> ffutf_bom(s)]

AskUtf16(src, cap, le, ch) ==
  uni' = [about |-> "utf16", src |-> src, cap |-> cap, le |-> le, ch |-> ch,
          got |-> ffutf8_from_utf16(src, le, cap), at |-> ffutf16_findchar(src, ch)]

AskPage(s, cap) == uni' = [about |-> "page", s |-> s, cap |-> cap, got |-> ffutf8_from_cp(s, cap)]

UniSeqs(S, n) == UNION {[1..k -> S] : k \in 1..n}

UniNext ==
  /\ uni.about = "nothing"
  /\ \/ \E ch \in UniChars, cap \in 0..6 : AskChar(ch, cap)
     \/ \E s \in UniSeqs(UniBytes, UniMaxLen), cap \in {2, 5, 12}, le \in BOOLEAN : AskUtf8(s, cap, le)
     \/ \E units \in UniSeqs(UniUnits, UniMaxLen - 1), cap \in {2, 5, 12}, le, odd \in BOOLEAN, ch \in {65, 55296} :
          AskUtf16(FlattenSeq([i \in DOMAIN units |-> BytesOf(units[i], le)]) \o (IF odd THEN <<0>> ELSE <<>>), cap, le, ch)
     \/ \E s \in UniSeqs(DOMAIN CodePage \cup {65}, UniMaxLen - 1), cap \in {0, 2, 5, 12} : AskPage(s, cap)

----------------------------------------------------------------------------
(* Properties *)

(* A character reads back as itself, from no fewer bytes than it has.      *)
CharReadsBack ==
  LET n == ffutf8_size(uni.ch) IN
  IF uni.cap < n THEN uni.got = <<>>
  ELSE /\ ffutf8_decode(uni.got) = [ret |-> n, val |-> uni.ch]
       /\ \A k \in 1..n - 1 : ffutf8_decode(SubSeq(uni.got, 1, k)).ret = -n
       /\ \A k \in 2..n : ffutf8_len(SubSeq(uni.got, k, n)) = 0
       /\ ffutf8_len(uni.got) = n

RECURSIVE CodePoints(_)
CodePoints(s) == IF s = <<>> THEN <<>> ELSE LET c == ffutf8_decode(s) IN <<c.val>> \o CodePoints(Shifted(s, c.ret))

(* A repaired text is valid and is the text itself when there was nothing  *)
(* to repair; characters of one unit survive the way to UTF-16 and back.   *)
TextsSurvive ==
  LET s == uni.s
      units == UnitsIn(uni.wide, uni.le)
      kept == uni.valid /\ \A i \in DOMAIN CodePoints(s) : CodePoints(s)[i] <= 65535 /\ ffutf16_basic(CodePoints(s)[i])
  IN  /\ uni.got = NoSpace => Capacity8(s) > uni.cap
      /\ uni.got # NoSpace =>
           /\ Len(uni.got) = Capacity8(s)
           /\ ffutf8_valid(uni.got)
           /\ uni.valid => uni.got = s
           /\ ffutf8_from_utf8(uni.got, uni.cap) = uni.got
      /\ uni.wide # NoSpace => Len(uni.wide) <= uni.cap
      /\ uni.valid => (uni.wide = NoSpace => Capacity16(s) > uni.cap) /\ Capacity16(s) >= 2 * Len(CodePoints(s))
      /\ uni.wide # NoSpace /\ kept =>
           /\ units = CodePoints(s)
           /\ CodePoints(ffutf8_from_utf16(uni.wide, uni.le, 3 * Len(s))) = CodePoints(s)
      /\ uni.bom.ret = "UTF8" => uni.bom.len = 3 /\ CodePoints(SubSeq(s, 1, 3)) = <<65279>>

(* A high surrogate with its low one is a character; every other surrogate *)
(* is a replacement, and so is what an odd length leaves.                  *)
PairsAreJoined ==
  LET u == UnitsIn(uni.src, uni.le)
      n == Len(u)
      pair(i) == i >= 1 /\ i < n /\ ffutf16_highsurr(u[i]) /\ ffutf16_lowsurr(u[i + 1])
      char(i) == CASE ffutf16_basic(u[i]) -> <<u[i]>>
                   [] pair(i) -> <<ffutf16_suppl(u[i], u[i + 1])>>
                   [] pair(i - 1) -> <<>>
                   [] OTHER -> <<U_REPL>>
      tail == IF Len(uni.src) % 2 = 1 /\ ~ffutf16_highsurr(u[n]) THEN <<U_REPL>> ELSE <<>>
      chars == FlattenSeq([i \in 1..n |-> char(i)]) \o tail
  IN  /\ uni.got = NoSpace <=> CapacityFor(chars) > uni.cap
      /\ uni.got # NoSpace => CodePoints(uni.got) = chars /\ Len(uni.got) = CapacityFor(chars)
      /\ uni.le /\ uni.ch < 32768 => (uni.at >= 0 <=> uni.ch \in ToSet(u))

PageIsRead ==
  IF uni.got = NoSpace THEN CapacityFor(CpChars(uni.s)) > uni.cap
  ELSE CodePoints(uni.got) = CpChars(uni.s) /\ Len(uni.got) <= uni.cap

(* What one function writes another reads back as the same characters;     *)
(* what cannot be read becomes a replacement, and nothing is written past  *)
(* the space that was given.                                               *)
UnicodeInverts ==
  CASE uni.about = "char" -> CharReadsBack
    [] uni.about = "utf8" -> TextsSurvive
    [] uni.about = "utf16" -> PairsAreJoined
    [] uni.about = "page" -> PageIsRead
    [] OTHER -> TRUE
=============================================================================
