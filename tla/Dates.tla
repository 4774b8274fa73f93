------------------------------- MODULE Dates -------------------------------
(***************************************************************************)
(* dateparse.py: the year of a delivery date that names only its day and   *)
(* month; and the filter of the poller on changed delivery texts.          *)
(*                                                                         *)
(* A date is its number of days since 1 January of the year 1, as Python's *)
(* date.toordinal() less one.  What the regular expression finds in a text *)
(* is [day, month], or None; a text is [channel, date].                    *)
(***************************************************************************)
EXTENDS Integers, FiniteSetsExt

CONSTANT None    \* no date in the text

Leap(year) == year % 4 = 0 /\ (year % 100 # 0 \/ year % 400 = 0)

MonthLength(year, month) ==
    CASE month = 2 -> IF Leap(year) THEN 29 ELSE 28
      [] month \in {4, 6, 9, 11} -> 30
      [] OTHER -> 31

NewYear(year) ==
    LET y == year - 1
    IN  365 * y + y \div 4 - y \div 100 + y \div 400

DaysBefore == <<0, 31, 59, 90, 120, 151, 181, 212, 243, 273, 304, 334>>

Ordinal(year, month, day) ==
    NewYear(year) + DaysBefore[month]
        + (IF month > 2 /\ Leap(year) THEN 1 ELSE 0) + day - 1

Gap(d, e) == IF d > e THEN d - e ELSE e - d

\* mutant: the year is today's
CandidatesThisYear(written, year) ==
    {Ordinal(y, written.month, written.day) :
        y \in {z \in {year} : written.day \in 1 .. MonthLength(z, written.month)}}

\* The years in which the written day exists: 29 February has few.
Candidates(written, year) ==
    {Ordinal(y, written.month, written.day) :
        y \in {z \in year - 1 .. year + 1 :
                  written.day \in 1 .. MonthLength(z, written.month)}}

\* today is [day number, its year].  Of two equally near the earlier one.
parse_delivery_date(written, today, year, roll_forward) ==
    IF written = None THEN None
    ELSE LET all == Candidates(written, year)
             some == IF roll_forward THEN {d \in all : d >= today} ELSE all
         IN  IF some = {} THEN None
             ELSE IF roll_forward THEN Min(some)
             ELSE Min({d \in some : \A e \in some : Gap(d, today) <= Gap(e, today)})

\* A swing of min_days or more, a switch of the channel, or no way to tell.
is_lead_time_change_significant(old, new, today, year, min_days) ==
    LET before == parse_delivery_date(old.date, today, year, FALSE)
        after == parse_delivery_date(new.date, today, year, FALSE)
    IN  \/ min_days <= 0
        \/ old.channel # new.channel
        \/ before = None \/ after = None
        \/ Gap(before, after) >= min_days

\* ao.py: in stock, but not delivered for longer than early_access_days.
Availability(in_stock, written, today, year, threshold) ==
    LET when == parse_delivery_date(written, today, year, TRUE)
    IN  CASE ~in_stock -> "oos"
          [] in_stock /\ when # None /\ when - today > threshold -> "early"
          [] OTHER -> "public"
=============================================================================
