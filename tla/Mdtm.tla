-------------------------------- MODULE Mdtm --------------------------------
(***************************************************************************)
(* MDTM: domdtm (core.c) stats the file, turns st_mtime into a struct tm   *)
(* with convert_time (util.c), and replies "213 YYYYMMDDhhmmss".           *)
(*                                                                         *)
(* convert_time peels whole years off the day count with is_leap, then     *)
(* whole months.  is_leap falls off its end for years divisible by 400;    *)
(* the value it then returns is undefined, so each call is a choice        *)
(* between TRUE and FALSE, and the loops return the SET of outcomes the    *)
(* build can produce.  The month loop reads days_in_month[12] when the     *)
(* days left outnumber the twelve months; that read is taken to end the    *)
(* loop with month 12 (the word past the table is a positive int).         *)
(*                                                                         *)
(* The reply's fields are kept as numbers: every field the code can reach *)
(* fits its %0Nd width, so two replies are equal exactly when their        *)
(* fields are.                                                             *)
(***************************************************************************)
EXTENDS Integers, Sequences

CONSTANTS
    Times       \* st_mtime values, seconds since 1970-01-01 00:00 UTC

ASSUME Times \subseteq Nat

\* The 12 entries of days_in_month, indexed from 0 as in C.
DaysInMonth ==
    [m \in 0..11 |-> <<31, 28, 31, 30, 31, 30, 31, 31, 30, 31, 30, 31>>[m + 1]]

\* is_leap(year): the set of values one call may return.
IsLeap(year) ==
    IF year % 400 # 0 THEN {TRUE}
    ELSE IF year % 100 # 0 THEN {FALSE}
    ELSE IF year % 4 # 0 THEN {TRUE}
    ELSE BOOLEAN

YearLength(leap) == IF leap THEN 366 ELSE 365

\* The year loop of convert_time: <<days, year>> outcomes.  The test and
\* the subtraction call is_leap separately.
RECURSIVE YearLoop(_, _)
YearLoop(days, year) ==
    UNION { IF days < YearLength(c)
              THEN {<<days, year>>}
              ELSE UNION { YearLoop(days - YearLength(b), year + 1) :
                             b \in IsLeap(year) }
          : c \in IsLeap(year) }

\* The month loop of convert_time: <<month, days>> outcomes.
RECURSIVE MonthLoop(_, _, _)
MonthLoop(days, month, year) ==
    IF month = 12 THEN {<<12, days>>}
    ELSE UNION { LET i == DaysInMonth[month] + (IF month = 1 /\ leap THEN 1 ELSE 0)
                 IN  IF days < i THEN {<<month, days>>}
                     ELSE MonthLoop(days - i, month + 1, year)
               : leap \in IsLeap(year) }

\* convert_time(t): the struct tm fields domdtm reads, as a set of outcomes.
ConvertTime(t) ==
    UNION { { [tm_year |-> yd[2] - 1900, tm_mon |-> md[1], tm_mday |-> md[2] + 1,
               tm_hour |-> (t \div 3600) % 24, tm_min |-> (t \div 60) % 60,
               tm_sec |-> t % 60]
              : md \in MonthLoop(yd[1], 0, yd[2]) }
          : yd \in YearLoop(t \div 86400, 1970) }

\* The six fields domdtm formats with "%04d%02d%02d%02d%02d%02d".
MdtmFields(tm) ==
    <<tm.tm_year + 1900, tm.tm_mon, tm.tm_mday, tm.tm_hour, tm.tm_min, tm.tm_sec>>

(***************************************************************************)
(* Reference: the proleptic Gregorian date of a day count (days from       *)
(* civil), months numbered 1..12, as RFC 3659 requires of MDTM.            *)
(***************************************************************************)
RefMdtm(t) ==
    LET z   == t \div 86400 + 719468
        era == z \div 146097
        doe == z - era * 146097
        yoe == (doe - doe \div 1460 + doe \div 36524 - doe \div 146096) \div 365
        doy == doe - (365 * yoe + yoe \div 4 - yoe \div 100)
        mp  == (5 * doy + 2) \div 153
        d   == doy - (153 * mp + 2) \div 5 + 1
        m   == IF mp < 10 THEN mp + 3 ELSE mp - 9
        y   == yoe + era * 400 + (IF m <= 2 THEN 1 ELSE 0)
    IN  <<y, m, d, (t \div 3600) % 24, (t \div 60) % 60, t % 60>>

VARIABLES
    mtime,      \* st_mtime of the file named by MDTM's argument
    reply       \* "none", "550", or the fields of the 213 reply

vars == <<mtime, reply>>

Init ==
    /\ mtime \in Times
    /\ reply = "none"

\* domdtm, whole: vfs_stat fails or the file is not regular (550), or the
\* 213 reply carries the fields of one outcome of convert_time.
Mdtm ==
    /\ reply = "none"
    /\ \/ reply' = "550"
       \/ \E tm \in ConvertTime(mtime) : reply' = MdtmFields(tm)
    /\ UNCHANGED mtime

Next == Mdtm

Spec == Init /\ [][Next]_vars

(***************************************************************************)
(* MDTM answers with the file's modification time in UTC: the 213 reply's *)
(* fields are the calendar date and time of st_mtime (RFC 3659, and the   *)
(* comment "January 1, 1970 was a thursday" shows UTC is meant).           *)
(***************************************************************************)
MdtmIsUtc ==
    reply # "none" /\ reply # "550" => reply = RefMdtm(mtime)

=============================================================================
