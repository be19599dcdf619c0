------------------------------ MODULE Convert ------------------------------
(***************************************************************************)
(* Conversions between numbers and text (ffbase/str-convert.h).            *)
(*                                                                         *)
(* A text is a sequence of character codes.  Integers keep their widths:   *)
(* the widest has WideBits bits, where the code has 64.  A floating point  *)
(* number is a count of 10^-3 parts; its arithmetic is exact here.         *)
(***************************************************************************)
EXTENDS Integers, SequencesExt

CONSTANTS
  WideBits,    \* 64: bits of the widest integer
  NarrowBits,  \* 8, 16, 32: bits of a narrow one
  IntTexts,    \* texts that are converted to integers
  FloatTexts,  \* texts that are converted to floating point numbers
  Widths,      \* widths asked for
  Parts        \* floating point numbers that are written

ASSUME ConvertAssumption == NarrowBits \in Nat /\ WideBits \in Nat /\ NarrowBits < WideBits

VARIABLE conv  \* a question and its answer

ConvertInit == conv = [about |-> "nothing"]

Wide(n) == n % 2^WideBits
Cut(s, n) == SubSeq(s, n + 1, Len(s))
Filled(c, n) == [i \in 1..n |-> c]

MINUS == 45
PLUS == 43
DOT == 46
SPACE == 32

----------------------------------------------------------------------------
(* Text to number                                                          *)

(* ffchar_tohex(): c | 0x20 turns control characters, too.                 *)
ffchar_tohex(c) ==
  LET b == (IF (c % 64) \div 32 = 0 THEN c + 32 ELSE c) - 97 + 10 IN
  IF c \in 48..57 THEN c - 48 ELSE IF b \in 0..15 THEN b ELSE -1

Digit(c, base) ==
  IF base = 16 THEN ffchar_tohex(c) ELSE IF c - 48 \in 0..base - 1 THEN c - 48 ELSE -1

(* Definitions "Wrong..." are what a plausible slip would have made of the *)
(* definition below them; no specification uses them.                      *)

(* Wrong: the sum is not checked. *)
WrongNextDigit(r, b, base) ==
  IF base = 10 THEN (IF r * 10 >= 2^WideBits THEN -1 ELSE Wide(r * 10 + b))
  ELSE IF r >= 2^WideBits \div base THEN -1 ELSE Wide(r * base + b)

(* One digit more, or -1 when it is too much: checked arithmetic for       *)
(* decimals, the upper bits of what is there for the others.               *)
NextDigit(r, b, base) ==
  IF base = 10 THEN (IF r * 10 + b >= 2^WideBits THEN -1 ELSE r * 10 + b)
  ELSE IF r >= 2^WideBits \div base THEN -1 ELSE Wide(r * base + b)

Number(s, base) ==
  FoldLeft(LAMBDA a, c :
             IF a.done \/ a.r = -1 THEN a
             ELSE IF Digit(c, base) = -1 THEN [a EXCEPT !.done = TRUE]
             ELSE [a EXCEPT !.n = @ + 1, !.r = NextDigit(@, Digit(c, base), base)],
           [n |-> 0, r |-> 0, done |-> FALSE], s)

(* ffs_toint(): what it returns and, unless that is 0, stores.             *)
ffs_toint(s, bits, base, sign) ==
  LET signed == sign /\ s # <<>> /\ s[1] \in {MINUS, PLUS}
      a == Number(IF signed THEN Cut(s, 1) ELSE s, base)
      val == IF signed /\ s[1] = MINUS THEN -a.r ELSE a.r
  IN  IF a.n = 0 \/ a.r = -1 \/ a.r >= 2^bits THEN [ret |-> 0, dst |-> 0]
      ELSE [ret |-> a.n + (IF signed THEN 1 ELSE 0), dst |-> val % 2^bits]

IsDigit(c) == c \in 48..57

(* One character of ffs_tofloat(). *)
FloatChar(f, c) ==
  LET g == [f EXCEPT !.n = @ + 1]
      digit == [g EXCEPT !.m = @ * 10 + c - 48, !.digits = TRUE]
      frac == CASE IsDigit(c) -> [digit EXCEPT !.exp = @ - 1]
                [] c \in {69, 101} -> [g EXCEPT !.st = "expsign"]
                [] OTHER -> [f EXCEPT !.stop = TRUE]
      exp == IF IsDigit(c) THEN [g EXCEPT !.e = @ * 10 + c - 48, !.st = "exp"]
             ELSE [f EXCEPT !.st = "exp", !.stop = TRUE]
      int == CASE IsDigit(c) -> [digit EXCEPT !.st = "int"]
               [] c = DOT -> [g EXCEPT !.st = "frac"]
               [] OTHER -> [frac EXCEPT !.st = IF @ = "minus" THEN "int" ELSE @]
  IN  CASE f.stop -> f
        [] f.st = "minus" /\ c \in {MINUS, PLUS} -> [g EXCEPT !.minus = c = MINUS, !.st = "int"]
        [] f.st \in {"minus", "int"} /\ ~(f.st = "minus" /\ c \in {MINUS, PLUS}) -> int
        [] f.st = "frac" -> frac
        [] f.st = "expsign" /\ c \in {MINUS, PLUS} -> [g EXCEPT !.negexp = c = MINUS, !.st = "exp"]
        [] OTHER -> exp

(* ffs_tofloat(): the value is m * 10^exp. *)
ffs_tofloat(s) ==
  LET f == FoldLeft(FloatChar, [n |-> 0, st |-> "minus", m |-> 0, exp |-> 0, e |-> 0, digits |-> FALSE,
                                minus |-> FALSE, negexp |-> FALSE, stop |-> FALSE], s)
      exp == f.exp + (IF f.negexp THEN -f.e ELSE f.e)
  IN  IF ~f.digits \/ f.st = "expsign" \/ exp > 308 \/ exp < -324 THEN [ret |-> 0, m |-> 0, exp |-> 0]
      ELSE [ret |-> f.n, m |-> IF f.minus THEN -f.m ELSE f.m, exp |-> exp]

----------------------------------------------------------------------------
(* Number to text; <<>> is "returns 0".                                    *)

NumDigits(n, base) == IF n < base THEN 1 ELSE CHOOSE k \in 1..WideBits : base^(k - 1) <= n /\ n < base^k
Hex(d, up) == IF d < 10 THEN d + 48 ELSE d + IF up THEN 55 ELSE 87

(* The digits, from the last to the first. *)
DigitText(n, base, up) ==
  LET k == NumDigits(n, base) IN [i \in 1..k |-> Hex((n \div base^(k - i)) % base, up)]

(* _ffs_fromint_sep1000() *)
Sep1000(digits) ==
  LET len == Len(digits)
      n == len + (len \div 3) - (IF len % 3 = 0 THEN 1 ELSE 0)
  IN  [i \in 1..n |-> LET right == n - i IN
         IF right % 4 = 3 THEN 44 ELSE digits[len - (right - right \div 4)]]

(* ffs_fromint(): f holds the flags. *)
ffs_fromint(i, cap, f) ==
  LET minus == f.sign /\ i >= 2^(WideBits - 1)
      sign == IF f.sign \/ f.keepsign THEN 1 ELSE 0
      digits == DigitText(IF minus THEN Wide(-i) ELSE i, f.base, f.up)
      len == Len(digits)
      mark == IF minus THEN <<MINUS>> ELSE IF f.keepsign THEN <<PLUS>> ELSE <<>>
      s == IF f.base = 10 /\ f.sep1000 THEN Sep1000(digits)
           ELSE IF f.width <= len + sign THEN mark \o digits
           ELSE IF f.zero THEN mark \o Filled(48, f.width - Len(mark) - len) \o digits
           ELSE Filled(SPACE, f.width - sign - len) \o mark \o digits
      need == IF f.base = 10 /\ f.sep1000 THEN Len(s)
              ELSE IF f.width > len + sign THEN f.width ELSE len + sign
  IN  IF f.base = 10 /\ f.sep1000 /\ sign = 1 THEN <<>>
      ELSE IF need > cap THEN <<>> ELSE s

Plain == [base |-> 10, sign |-> FALSE, keepsign |-> FALSE, zero |-> FALSE, up |-> FALSE, sep1000 |-> FALSE, width |-> 0]

(* ffs_fromfloat() of d parts: the fraction is rounded, and dropped when   *)
(* it is zero; "-0" is written by hand.                                    *)
ffs_fromfloat(d, cap, prec, width, zero, keepsign) ==
  LET minus == d < 0
      a == IF minus THEN -d ELSE d
      scale == 10^prec
      rounded == ((a % 1000) * scale * 2 + 1000) \div 2000
      carry == prec # 0 /\ rounded = scale
      num == a \div 1000 + IF carry THEN 1 ELSE 0
      frac == IF prec = 0 \/ carry THEN 0 ELSE rounded
      w == IF width < 2 THEN 2 ELSE width
      zeros == IF 1 + w > cap THEN <<>>
               ELSE IF zero THEN <<MINUS>> \o Filled(48, w - 1) ELSE Filled(SPACE, w - 2) \o <<MINUS, 48>>
      int == IF minus /\ num = 0 THEN zeros
             ELSE ffs_fromint(IF minus THEN Wide(-num) ELSE num, cap,
                    [Plain EXCEPT !.width = width, !.zero = zero, !.keepsign = keepsign, !.sign = minus])
      tail == ffs_fromint(frac, cap - Len(int) - 1, [Plain EXCEPT !.width = prec, !.zero = TRUE])
  IN  IF int = <<>> \/ (frac # 0 /\ (Len(int) = cap \/ tail = <<>>)) THEN <<>>
      ELSE int \o IF frac # 0 THEN <<DOT>> \o tail ELSE <<>>

(* ffs_fromhex(), ffs_tohex() *)
ffs_fromhex(bytes, cap, up) ==
  IF Len(bytes) * 2 > cap THEN <<>>
  ELSE FlattenSeq([i \in DOMAIN bytes |-> <<Hex(bytes[i] \div 16, up), Hex(bytes[i] % 16, up)>>])
ffs_tohex(s, cap) ==
  IF cap < Len(s) \div 2 \/ Len(s) % 2 # 0 \/ \E i \in DOMAIN s : ffchar_tohex(s[i]) < 0 THEN [ret |-> -1, dst |-> <<>>]
  ELSE [ret |-> Len(s) \div 2,
        dst |-> [i \in 1..Len(s) \div 2 |-> ffchar_tohex(s[2 * i - 1]) * 16 + ffchar_tohex(s[2 * i])]]

----------------------------------------------------------------------------
(* The questions *)

Bases == {8, 10, 16}

ReadInt(s, bits, base, sign) ==
  conv' = [about |-> "int", s |-> s, bits |-> bits, base |-> base, sign |-> sign,
           got |-> ffs_toint(s, bits, base, sign), float |-> ffs_tofloat(s)]

WriteInt(i, cap, f) == conv' = [about |-> "text", i |-> i, cap |-> cap, f |-> f, got |-> ffs_fromint(i, cap, f)]

ReadFloat(s) == conv' = [about |-> "float", s |-> s, got |-> ffs_tofloat(s)]

WriteFloat(d, cap, prec, width, zero) ==
  LET s == ffs_fromfloat(d, cap, prec, width, zero, FALSE)
      digits == SelectSeq(s, LAMBDA c : c # SPACE)
  IN  conv' = [about |-> "parts", d |-> d, cap |-> cap, prec |-> prec, width |-> width,
               got |-> s, back |-> ffs_tofloat(digits)]

Bytes2(bytes, cap, up) ==
  LET s == ffs_fromhex(bytes, cap, up) IN
  conv' = [about |-> "hex", bytes |-> bytes, cap |-> cap, got |-> s, back |-> ffs_tohex(s, Len(bytes))]

Flags == [base : Bases, sign : BOOLEAN, keepsign : BOOLEAN, zero : BOOLEAN, up : {FALSE}, sep1000 : BOOLEAN, width : Widths]

ConvertNext ==
  /\ conv.about = "nothing"
  /\ \/ \E s \in IntTexts, bits \in {NarrowBits, WideBits}, base \in Bases, sign \in BOOLEAN : ReadInt(s, bits, base, sign)
     \/ \E i \in 0..2^WideBits - 1, cap \in Widths, f \in Flags : WriteInt(i, cap, f)
     \/ \E s \in FloatTexts : ReadFloat(s)
     \/ \E d \in Parts, cap \in Widths, prec \in 0..3, width \in Widths, zero \in BOOLEAN : WriteFloat(d, cap, prec, width, zero)
     \/ \E bytes \in UNION {[1..k -> {0, 31, 171}] : k \in 0..2}, cap \in 0..5, up \in BOOLEAN : Bytes2(bytes, cap, up)

----------------------------------------------------------------------------
(* Properties *)

(* The value of a text, and how many of its characters are the number.     *)
Run(s, base) == CHOOSE n \in 0..Len(s) :
  (\A i \in 1..n : Digit(s[i], base) # -1) /\ (n < Len(s) => Digit(s[n + 1], base) = -1)
Value(s, base) == FoldLeft(LAMBDA v, c : v * base + Digit(c, base), 0, s)

IntAgrees ==
  LET s == conv.s
      k == IF conv.sign /\ s # <<>> /\ s[1] \in {MINUS, PLUS} THEN 1 ELSE 0
      n == Run(Cut(s, k), conv.base)
      v == Value(SubSeq(s, k + 1, k + n), conv.base)
  IN  /\ conv.got.ret = IF n = 0 \/ v >= 2^conv.bits THEN 0 ELSE k + n
      /\ conv.got.ret # 0 =>
           conv.got.dst = (IF k = 1 /\ s[1] = MINUS THEN -v ELSE v) % 2^conv.bits
      /\ conv.base = 10 /\ conv.got.ret = Len(s) /\ v < 2^(conv.bits - 1) =>
           conv.float = [ret |-> Len(s), m |-> IF k = 1 /\ s[1] = MINUS THEN -v ELSE v, exp |-> 0]

TextAgrees ==
  LET f == conv.f
      s == conv.got
      inner == SelectSeq(s, LAMBDA c : c \notin {SPACE, 44})
      negative == f.sign /\ conv.i >= 2^(WideBits - 1)
  IN  /\ Len(s) <= conv.cap
      /\ s # <<>> =>
           /\ ffs_toint(inner, WideBits, f.base, TRUE) = [ret |-> Len(inner), dst |-> conv.i]
           /\ negative <=> MINUS \in ToSet(s)
           /\ f.base # 10 \/ ~f.sep1000 =>
                Len(s) >= f.width \/ (f.sign /\ ~f.keepsign /\ ~negative /\ Len(s) = f.width - 1)
           /\ \A j \in DOMAIN s : s[j] = 44 => (Len(s) - j) % 4 = 3 /\ j # 1
      /\ s = <<>> => conv.cap < f.width \/ conv.cap < 2 + ((4 * Len(DigitText(conv.i, f.base, FALSE))) \div 3) \/ f.sep1000

PartsAgree ==
  LET a == IF conv.d < 0 THEN -conv.d ELSE conv.d
      unit == 10^(3 - conv.prec)
      rounded == IF conv.prec = 0 THEN 1000 * (a \div 1000) ELSE unit * ((a + (unit \div 2)) \div unit)
      m == IF conv.back.m < 0 THEN -conv.back.m ELSE conv.back.m
  IN  /\ Len(conv.got) <= conv.cap
      /\ conv.got # <<>> =>
           /\ Len(conv.got) >= conv.width
           /\ m * 10^(3 + conv.back.exp) = rounded
           /\ MINUS \in ToSet(conv.got) <=> conv.d < 0
           /\ conv.back.m < 0 => conv.d < 0

(* What is written reads back as the same number, within the space given;  *)
(* reading takes the longest number, refuses one that does not fit, and    *)
(* two readers of the same text agree.                                     *)
ConversionsInvert ==
  CASE conv.about = "int" -> IntAgrees
    [] conv.about = "text" -> TextAgrees
    [] conv.about = "parts" -> PartsAgree
    [] conv.about = "float" ->
         conv.got.ret # 0 => ffs_tofloat(SubSeq(conv.s, 1, conv.got.ret)) = conv.got \/ Last(SubSeq(conv.s, 1, conv.got.ret)) \in {69, 101}
    [] conv.about = "hex" ->
         IF conv.cap < 2 * Len(conv.bytes) THEN conv.got = <<>>
         ELSE conv.back = [ret |-> Len(conv.bytes), dst |-> conv.bytes]
    [] OTHER -> TRUE
=============================================================================
