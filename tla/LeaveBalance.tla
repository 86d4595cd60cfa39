---------------------------- MODULE LeaveBalance ----------------------------
(***************************************************************************)
(* The arithmetic of an annual-leave balance (leave/domain/                *)
(* leave-balance.ts).  A date is a number of days, 0 being 1 January of    *)
(* the year 1; the calendar is JavaScript's, Gregorian, in UTC.  Nobody is *)
(* hired, and no leave starts, before then.                                *)
(***************************************************************************)
EXTENDS Integers

CARRY_CAP == 10
NoDate == -1   \* no hire date on file

Least(a, b) == IF a <= b THEN a ELSE b
Greatest(a, b) == IF a >= b THEN a ELSE b

LeapDay(y) == IF y % 4 = 0 /\ (y % 100 # 0 \/ y % 400 = 0) THEN 1 ELSE 0
YearStart(y) == 365 * (y - 1) + (y - 1) \div 4 - (y - 1) \div 100 + (y - 1) \div 400
YearEnd(y) == YearStart(y + 1) - 1
YearOf(d) ==
  CHOOSE y \in (d \div 366 + 1)..(d \div 365 + 1) : YearStart(y) <= d /\ d <= YearEnd(y)

\* The same month and day five years on; of 29 February, 1 March.
FifthAnniversary(hired) ==
  LET y == YearOf(hired)
      k == hired - YearStart(y)
  IN YearStart(y + 5) + IF k < 59 + LeapDay(y) THEN k ELSE k - LeapDay(y) + LeapDay(y + 5)

EntitlementOn(hired, on) ==
  IF hired = NoDate \/ on < FifthAnniversary(hired) THEN 21 ELSE 30

\* floor(days / 30.44) + 1, at most 12, from 1 January or from the hire date.
MonthsAccrued(hired, on) ==
  LET start == Greatest(YearStart(YearOf(on)), hired)
  IN IF start > on THEN 0 ELSE Least(12, ((on - start) * 100) \div 3044 + 1)

\* Math.round((entitlement / 12) * months): half a day is rounded up.
Accrued(hired, on) ==
  (2 * EntitlementOn(hired, on) * MonthsAccrued(hired, on) + 12) \div 24

\* Mutant: an overdrawn year is carried as it is.
CarryOverFrom_NoFloor(hired, year, carried, annual) ==
  Least(CARRY_CAP, Accrued(hired, YearEnd(year)) + carried - annual)

\* What 31 December leaves for the next year, of a year's credit and annual leave.
CarryOverFrom(hired, year, carried, annual) ==
  Greatest(0, Least(CARRY_CAP, Accrued(hired, YearEnd(year)) + carried - annual))

\* Mutant: a part takes the rest of its year, however little is left.
SplitByYear_WholeYears(start, days) ==
  LET parts[at \in Nat \X Int] ==
        LET from == at[1]
            left == at[2]
            year == YearOf(from)
            room == YearEnd(year) - from + 1
        IN IF left <= 0 THEN {}
           ELSE {[year |-> year, days |-> room]} \cup parts[<<YearStart(year + 1), left - room>>]
  IN parts[<<start, days>>]

\* One part per leave year, each with what is left up to 31 December.
SplitByYear(start, days) ==
  LET parts[at \in Nat \X Int] ==
        LET from == at[1]
            left == at[2]
            year == YearOf(from)
            take == Least(left, YearEnd(year) - from + 1)
        IN IF left <= 0 THEN {}
           ELSE {[year |-> year, days |-> take]} \cup parts[<<YearStart(year + 1), left - take>>]
  IN parts[<<start, days>>]
=============================================================================
