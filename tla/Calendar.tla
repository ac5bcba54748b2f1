------------------------------ MODULE Calendar ------------------------------
(***************************************************************************)
(* Dates of governance: the end of a voting period, and whether the stages *)
(* of a contract fit its cycle.  The code adds to the fields of a broken-  *)
(* down local time and lets mktime normalise them; here that time is UTC,  *)
(* and a date is a number of days.  The time of day is kept by additions   *)
(* and left out.                                                           *)
(*                                                                         *)
(* A definition whose name ends in "Faulty" is a variant with a plausible  *)
(* mistake, not part of the model.                                         *)
(***************************************************************************)
EXTENDS Integers, Sequences

LOCAL INSTANCE SequencesExt

(* Months are counted from 0, as in tm_mon, and go on over years.          *)
IsLeap(y) == (y % 4 = 0 /\ y % 100 # 0) \/ y % 400 = 0
YearOf(m) == m \div 12
DaysIn(m) ==
    IF m % 12 = 1 THEN IF IsLeap(YearOf(m)) THEN 29 ELSE 28
    ELSE IF m % 12 \in {3, 5, 8, 10} THEN 30 ELSE 31

(* FirstDay[m]: number of the first day of month m, for some years.        *)
Months == 2023 * 12 .. 2026 * 12
FirstDay[m \in Months] == IF m = 2023 * 12 THEN 1 ELSE FirstDay[m - 1] + DaysIn(m - 1)
MonthOf(day) == CHOOSE m \in Months : FirstDay[m] <= day /\ day < FirstDay[m] + DaysIn(m)
DayOfMonth(day) == day - FirstDay[MonthOf(day)] + 1

(* mktime: a day past the end of its month runs into the next one.         *)
AddMonths(day, n) == FirstDay[MonthOf(day) + n] + DayOfMonth(day) - 1
AddDays(day, n) == day + n

(* The end of a period, of which one of the two lengths is 0.              *)
get_end_date_cycle(day, days, months) == AddDays(AddMonths(day, months), days)

-----------------------------------------------------------------------------
(* Which stages a contract may have.  A length of 0 is the remainder.      *)

SumOf(stages, Weight(_)) == FoldSeq(LAMBDA s, n : n + Weight(s), 0, stages)
RemainderLast(stages) == \A i \in 1 .. Len(stages) - 1 : stages[i].length # 0
HasRemainder(stages) == Last(stages).length = 0
InDays(stages) == \E i \in DOMAIN stages : stages[i].unit = "DAYS"

(* The cycle's length is in days: so are all of its stages.                *)
check_days_stages(period, stages) ==
    LET sum == SumOf(stages, LAMBDA s : s.length)
    IN  /\ RemainderLast(stages)
        /\ \A i \in DOMAIN stages : stages[i].unit = "DAYS"
        /\ IF HasRemainder(stages) THEN sum < period ELSE sum = period

(* The cycle's length is in months.  With a stage in days a month of a     *)
(* stage counts as 31 days and one of the cycle as 28.                     *)
check_months_stagesFaulty(period, stages) ==
    LET months == SumOf(stages, LAMBDA s : IF s.unit = "MONTHS" THEN s.length ELSE 0)
        days == SumOf(stages, LAMBDA s : IF s.unit = "MONTHS" THEN s.length * 31 ELSE s.length)
    IN  /\ RemainderLast(stages)
        /\ IF InDays(stages)
           THEN HasRemainder(stages) /\ days <= period * 28
           ELSE IF HasRemainder(stages) THEN months < period ELSE months = period
check_months_stages(period, stages) ==
    LET months == SumOf(stages, LAMBDA s : IF s.unit = "MONTHS" THEN s.length ELSE 0)
        days == SumOf(stages, LAMBDA s : IF s.unit = "MONTHS" THEN s.length * 31 ELSE s.length)
    IN  /\ RemainderLast(stages)
        /\ IF InDays(stages)
           THEN HasRemainder(stages) /\ days < period * 28
           ELSE IF HasRemainder(stages) THEN months < period ELSE months = period

check_stages(unit, period, stages) ==
    IF unit = "DAYS" THEN check_days_stages(period, stages) ELSE check_months_stages(period, stages)

-----------------------------------------------------------------------------
(* When they end. *)

PeriodEnd(day, unit, length) ==
    IF unit = "DAYS" THEN get_end_date_cycle(day, length, 0) ELSE get_end_date_cycle(day, 0, length)

(* Each stage of a cycle begins where the one before it has ended; the     *)
(* remainder ends with the cycle.                                          *)
StageEnds(start, cycleEnd, stages) ==
    FoldLeft(LAMBDA ends, s :
                 Append(ends, IF s.length = 0 THEN cycleEnd
                              ELSE PeriodEnd(IF ends = <<>> THEN start ELSE Last(ends), s.unit, s.length)),
             <<>>, stages)
=============================================================================
