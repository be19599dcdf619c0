------------------------------ MODULE Calendar -----------------------------
(***************************************************************************)
(* Dates and times (ffbase/time.h).                                        *)
(*                                                                         *)
(* The seconds of a time are a day and a second of that day, because TLC's *)
(* integers have 31 bits.  The text of a date is a sequence of tokens:     *)
(* numbers, names and separators; how digits are read and written is the   *)
(* business of the conversions.                                            *)
(***************************************************************************)
EXTENDS Integers, SequencesExt, FiniteSetsExt

CONSTANTS
  CalDays,   \* days since 1 January of year 1 that are split
  CalEvery,  \* one day in so many is written as text
  CalYears,  \* years that are joined
  CalTimes,  \* times that are added and compared
  CalTexts   \* texts [[h:]m:]s[.ms] that are read


VARIABLE cal  \* a question and its answer

CalInit == cal = [about |-> "nothing"]

SecondsPerDay == 86400
Second == 1000000000  \* in nanoseconds

Times == [day : Int, sod : 0..SecondsPerDay - 1, nsec : 0..Second - 1]

(* The numbers here do not wrap; those of the code, of 32 bits, do not     *)
(* either up to these: 400 * (LastDay + 306) is the last multiple of 400   *)
(* below 2^32, and the days of LastYear, some months and days on, are      *)
(* below.                                                                  *)
LastDay == 10737112
LastYear == 29000

ASSUME CalendarAssumption ==
  /\ CalDays \subseteq Nat /\ CalYears \subseteq Nat /\ CalTimes \subseteq Times /\ CalEvery \in Nat \ {0}
  /\ (\A day \in CalDays : day <= LastDay) /\ (\A year \in CalYears : year <= LastYear)

Time(day, sod, nsec) == [day |-> day + (sod \div SecondsPerDay), sod |-> sod % SecondsPerDay, nsec |-> nsec]

----------------------------------------------------------------------------
(* Times *)

fftime_from_msec(msec) == Time(0, msec \div 1000, (msec % 1000) * 1000000)

fftime_add(t, u) ==
  LET nsec == t.nsec + u.nsec IN
  IF nsec >= Second THEN Time(t.day + u.day, t.sod + u.sod + 1, nsec - Second)
  ELSE Time(t.day + u.day, t.sod + u.sod, nsec)

fftime_sub(t, u) ==
  LET nsec == t.nsec - u.nsec IN
  IF nsec < 0 THEN Time(t.day - u.day, t.sod - u.sod - 1, nsec + Second)
  ELSE Time(t.day - u.day, t.sod - u.sod, nsec)

SameSecond(t, u) == t.day = u.day /\ t.sod = u.sod
EarlierSecond(t, u) == t.day < u.day \/ (t.day = u.day /\ t.sod < u.sod)

fftime_cmp(t, u) ==
  IF SameSecond(t, u) THEN (IF t.nsec = u.nsec THEN 0 ELSE IF t.nsec < u.nsec THEN -1 ELSE 1)
  ELSE IF EarlierSecond(t, u) THEN -1 ELSE 1

----------------------------------------------------------------------------
(* Dates *)

(* Definitions "Wrong..." are what a plausible slip would have made of the *)
(* definition below them; no specification uses them.                      *)

(* Wrong: every fourth year. *)
WrongLeap(year) == year % 4 = 0

Leap(year) == year % 4 = 0 /\ (year % 100 # 0 \/ year % 400 = 0)

MonthDays == <<31, 28, 31, 30, 31, 30, 31, 31, 30, 31, 30, 31>>

fftime_valid(d) ==
  /\ d.hour <= 23 /\ d.minute <= 59 /\ d.second <= 59 /\ d.nanosecond <= Second - 1
  /\ d.year # 0 /\ d.month \in 1..12 /\ d.day > 0
  /\ d.day <= MonthDays[d.month] \/ (d.day = 29 /\ d.month = 2 /\ Leap(d.year))

(* Days in years of the calendar that starts on 1 March. *)
YearDays(year) == year * 365 + (year \div 4) - (year \div 100) + (year \div 400)

(* Days of that year before a month; March is 1. *)
DaysBefore(mon) == ((367 * mon) \div 12) - 30

(* fftime_join1(): a month above 12 moves the year, and so does a January  *)
(* or February; nanoseconds above a second are divided the wrong way       *)
(* round.                                                                  *)
fftime_join1(d) ==
  LET over == d.nanosecond >= Second
      sod == d.hour * 3600 + d.minute * 60 + d.second + (IF over THEN d.nanosecond % Second ELSE 0)
      nsec == IF over THEN d.nanosecond \div Second ELSE d.nanosecond
      y == IF d.month > 12 THEN d.year + ((d.month - 1) \div 12) ELSE d.year
      m == (IF d.month > 12 THEN ((d.month - 1) % 12) + 1 ELSE d.month) - 2
      year == IF m <= 0 THEN y - 1 ELSE y
      mon == IF m <= 0 THEN m + 12 ELSE m
  IN  IF d.year <= 0 \/ d.month = 0 \/ d.day = 0 THEN Time(0, sod, nsec)
      ELSE Time(YearDays(year) - 365 + DaysBefore(mon) + 31 + 28 + d.day - 1, sod, nsec)

(* fftime_split1(): the year is first guessed from its mean length, which  *)
(* may be one too many, and starts in March until the end.                 *)
fftime_split1(t) ==
  LET days == t.day + 306
      guess == 1 + ((days * 400) \div YearDays(400))
      late == days < YearDays(guess)
      year == IF late THEN guess - 1 ELSE guess
      yday == days - YearDays(guess) + IF late THEN (IF Leap(guess) THEN 366 ELSE 365) ELSE 0
      mon == ((yday + 31) * 10) \div 306
      winter == yday >= 306
  IN  [year |-> IF winter THEN year + 1 ELSE year,
       month |-> IF winter THEN mon - 10 ELSE mon + 2,
       day |-> yday - DaysBefore(mon) + 1,
       hour |-> t.sod \div 3600, minute |-> (t.sod % 3600) \div 60, second |-> t.sod % 60,
       nanosecond |-> t.nsec,
       weekday |-> (1 + t.day) % 7,
       yearday |-> 1 + IF winter THEN yday - 306 ELSE yday + 31 + 28 + (IF Leap(year) THEN 1 ELSE 0)]

----------------------------------------------------------------------------
(* Texts of dates *)

Mark(s) == [is |-> s, n |-> 0]
Num(n) == [is |-> "number", n |-> n]

(* What the formats of fftime_tostr1() print. *)
DateFields ==
  [YMD |-> <<"year", "-", "month", "-", "day">>,
   WDMY |-> <<"weekday", ", ", "day", " ", "month", " ", "year">>,
   MDY |-> <<"month", "/", "day", "/", "year">>,
   DMY |-> <<"day", ".", "month", ".", "year">>,
   none |-> <<>>]
TimeFields ==
  [HMS |-> <<"hour", ":", "minute", ":", "second">>,
   MSEC |-> <<"hour", ":", "minute", ":", "second", ".", "msec">>,
   USEC |-> <<"hour", ":", "minute", ":", "second", ".", "usec">>,
   GMT |-> <<"hour", ":", "minute", ":", "second", " GMT">>,
   none |-> <<>>]

(* What _fftime_date_fromstr() and _fftime_time_fromstr() expect: two      *)
(* formats are read in another order than they are written.                *)
ReadDateFields == [DateFields EXCEPT !.MDY = <<"year", "/", "month", "/", "day">>, !.DMY = <<"year", ".", "month", ".", "day">>]
ReadTimeFields == [f \in {"HMS", "MSEC", "GMT", "none"} |-> TimeFields[f]]

Fields == {"year", "month", "day", "weekday", "hour", "minute", "second", "msec", "usec"}
IsName(fmt, f) == fmt = "WDMY" /\ f \in {"weekday", "month"}

Token(d, fmt, f) ==
  CASE f \notin Fields -> Mark(f)
    [] f = "msec" -> Num(d.nanosecond \div 1000000)
    [] f = "usec" -> Num(d.nanosecond \div 1000)
    [] OTHER -> [is |-> IF IsName(fmt, f) THEN f ELSE "number", n |-> d[f]]

fftime_tostr1(d, date, time) ==
  [i \in DOMAIN DateFields[date] |-> Token(d, date, DateFields[date][i])]
  \o (IF date # "none" /\ time # "none" THEN <<Mark(" ")>> ELSE <<>>)
  \o [i \in DOMAIN TimeFields[time] |-> Token(d, "", TimeFields[time][i])]

NoDate == [year |-> 0, month |-> 0, day |-> 0, hour |-> 0, minute |-> 0, second |-> 0, nanosecond |-> 0, weekday |-> 0]
Refused == [ret |-> 0, dt |-> NoDate]

SetField(d, f, n) == IF f = "msec" THEN [d EXCEPT !.nanosecond = n * 1000000] ELSE IF f \in Fields THEN [d EXCEPT ![f] = n] ELSE d

(* The tokens of s from "at" on are the fields. *)
Agree(s, at, fmt, fields) ==
  /\ Len(s) >= at + Len(fields)
  /\ \A i \in DOMAIN fields : s[at + i].is = IF fields[i] \in Fields /\ ~IsName(fmt, fields[i]) THEN "number" ELSE fields[i]

SetFields(d, s, at, fields) == FoldLeft(LAMBDA e, i : SetField(e, fields[i], s[at + i].n), d, [i \in DOMAIN fields |-> i])

(* fftime_fromstr1() for the formats with a fixed number of fields. *)
fftime_fromstr1(s, date, time) ==
  LET df == ReadDateFields[date]
      tf == ReadTimeFields[time]
      sep == IF date # "none" /\ time # "none" THEN 1 ELSE 0
      at == Len(df) + sep
  IN  IF /\ Agree(s, 0, date, df)
         /\ sep = 1 => Len(s) >= at /\ s[at].is = " "
         /\ Agree(s, at, "", tf)
      THEN [ret |-> at + Len(tf), dt |-> SetFields(SetFields(NoDate, s, 0, df), s, at, tf)]
      ELSE Refused

(* FFTIME_HMS_MSEC_VAR: how many of the numbers there are decides what     *)
(* they mean.                                                              *)
Numbers(s, n) == Len(s) >= 2 * n - 1 /\ \A i \in 1..2 * n - 1 : s[i].is = IF i % 2 = 1 THEN "number" ELSE ":"
ffmsecvar(s) ==
  LET more(n) == Len(s) >= 2 * n /\ s[2 * n].is = ":"
      n == IF more(1) THEN (IF more(2) THEN 3 ELSE 2) ELSE 1
      fields == SubSeq(<<"hour", ":", "minute", ":", "second">>, 7 - 2 * n, 5)
      end == 2 * n - 1
      d == SetFields(NoDate, s, 0, fields)
      frac == Len(s) > end /\ s[end + 1].is = "."
  IN  CASE ~Numbers(s, n) -> Refused
        [] Numbers(s, n) /\ frac /\ (Len(s) = end + 1 \/ s[end + 2].is # "number") -> Refused
        [] Numbers(s, n) /\ ~frac -> [ret |-> end, dt |-> d]
        [] OTHER -> [ret |-> end + 2, dt |-> [d EXCEPT !.nanosecond = s[end + 2].n * 1000000]]

----------------------------------------------------------------------------
(* The questions *)

AskDay(t) == LET d == fftime_split1(t) IN cal' = [about |-> "day", t |-> t, dt |-> d, back |-> fftime_join1(d)]

AskFormat(t, date, time) ==
  LET d == fftime_split1(t) IN
  cal' = [about |-> "format", dt |-> d, date |-> date, time |-> time, text |-> fftime_tostr1(d, date, time)]

AskDate(d) == cal' = [about |-> "date", dt |-> d, valid |-> fftime_valid(d), t |-> fftime_join1(d)]

AskTimes(t, u, msec) ==
  cal' = [about |-> "times", t |-> t, u |-> u, msec |-> msec, from |-> fftime_from_msec(msec),
          add |-> fftime_add(t, u), sub |-> fftime_sub(t, u), cmp |-> fftime_cmp(t, u)]

AskText(s) == cal' = [about |-> "text", s |-> s, got |-> ffmsecvar(s)]

CalDay == \E day \in CalDays, sod \in {0, SecondsPerDay - 1} : AskDay([day |-> day, sod |-> sod, nsec |-> 7])

CalFormat ==
  \E day \in CalDays, date \in DOMAIN DateFields, time \in DOMAIN TimeFields :
    /\ day % CalEvery = 0
    /\ AskFormat([day |-> day, sod |-> 3661, nsec |-> 123456789], date, time)

CalDate ==
  \E y \in CalYears, m \in 0..26, d \in {0, 1, 28, 29, 30, 31, 366}, h \in {0, 24}, mi \in {0, 60}, s \in {59, 60},
     ns \in {0, Second - 1, Second} :
    AskDate([NoDate EXCEPT !.year = y, !.month = m, !.day = d, !.hour = h, !.minute = mi, !.second = s, !.nanosecond = ns])

CalSum == \E t, u \in CalTimes, msec \in {0, 999, 1000, 86400001} : AskTimes(t, u, msec)

CalText == \E s \in CalTexts : AskText(s)

CalNext == cal.about = "nothing" /\ (CalDay \/ CalFormat \/ CalDate \/ CalSum \/ CalText)

CalSpec == CalInit /\ [][CalNext]_cal

----------------------------------------------------------------------------
(* Properties *)

(* The calendar itself: the days before a date, counted. *)
DaysIn(year, month) == IF month = 2 /\ year % 4 = 0 /\ (year % 100 = 0 => year % 400 = 0) THEN 29 ELSE MonthDays[month]
LeapYears(n) == Quantify(1..n, LAMBDA y : DaysIn(y, 2) = 29)
MonthStarts(year) ==
  LET f[m \in 1..12] == IF m = 1 THEN 0 ELSE f[m - 1] + DaysIn(year, m - 1) IN f
YearDay(d) == d.day + MonthStarts(d.year)[d.month]
DayNumber(d) == 365 * (d.year - 1) + LeapYears(d.year - 1) + YearDay(d) - 1

DayIsRight ==
  LET d == cal.dt
  IN  /\ fftime_valid(d)
      /\ DayNumber(d) = cal.t.day /\ YearDay(d) = d.yearday
      /\ cal.back = cal.t

FormatIsRight ==
  LET d == cal.dt
      read == fftime_fromstr1(cal.text, cal.date, cal.time)
      same(fields) == \A f \in fields : read.dt[f] = d[f]
  IN  cal.time # "USEC" =>
           /\ read.ret = Len(cal.text)
           /\ cal.date \in {"YMD", "WDMY"} => same({"year", "month", "day"})
           /\ cal.date = "WDMY" => same({"weekday"})
           /\ cal.time # "none" => same({"hour", "minute", "second"})
           /\ cal.time = "MSEC" => read.dt.nanosecond = 1000000 * (d.nanosecond \div 1000000)

DateIsRight ==
  LET d == cal.dt
      m == IF d.month = 0 THEN 1 ELSE d.month
      first == [NoDate EXCEPT !.year = d.year + ((m - 1) \div 12), !.month = 1 + ((m - 1) % 12), !.day = 1]
      skipped == d.year = 0 \/ d.month = 0 \/ d.day = 0
      sod == d.hour * 3600 + d.minute * 60 + d.second
  IN  /\ d.nanosecond < Second =>
           cal.t = Time(IF skipped THEN 0 ELSE DayNumber(first) + d.day - 1, sod, d.nanosecond)
      /\ cal.valid <=>
           /\ ~skipped /\ d.nanosecond < Second
           /\ [fftime_split1(cal.t) EXCEPT !.weekday = 0, !.yearday = 0] = [f \in DOMAIN NoDate \cup {"yearday"} |-> IF f = "yearday" THEN 0 ELSE d[f]]

TimesAreRight ==
  /\ fftime_sub(cal.add, cal.u) = cal.t
  /\ fftime_add(cal.sub, cal.u) = cal.t
  /\ cal.add.nsec \in 0..Second - 1 /\ cal.sub.nsec \in 0..Second - 1
  /\ cal.cmp = fftime_cmp(cal.sub, Time(0, 0, 0))
  /\ fftime_sub(fftime_add(cal.from, cal.t), cal.t) = cal.from
  /\ cal.from = Time(cal.msec \div 86400000, (cal.msec \div 1000) % SecondsPerDay, 1000000 * (cal.msec % 1000))

(* A text of three numbers, or of one, is read as the fixed format reads   *)
(* it with the missing fields added.                                       *)
TextIsRight ==
  LET n == Quantify(DOMAIN cal.s, LAMBDA i : cal.s[i].is = ":")
      full == FlattenSeq([i \in 1..2 - n |-> <<Num(0), Mark(":")>>]) \o cal.s
      exact == fftime_fromstr1(full, "none", "MSEC")
      short == fftime_fromstr1(full, "none", "HMS")
  IN  n <= 2 =>
        /\ exact.ret # 0 => cal.got.dt = exact.dt /\ cal.got.ret = exact.ret - 4 + 2 * n
        /\ cal.got.ret = Len(cal.s) => cal.got.dt \in {exact.dt, short.dt}

(* Splitting and joining agree with the counted calendar, a date is valid  *)
(* exactly when it comes back from its time, times form an ordered group,  *)
(* and a date that was written is read as the same date.                   *)
DatesInvert ==
  CASE cal.about = "day" -> DayIsRight
    [] cal.about = "format" -> FormatIsRight
    [] cal.about = "date" -> DateIsRight
    [] cal.about = "times" -> TimesAreRight
    [] cal.about = "text" -> TextIsRight
    [] OTHER -> TRUE
=============================================================================
