--------------------------- MODULE LeaveRegister ---------------------------
(***************************************************************************)
(* What Leave promises (ADR-014 and the comments of leave.service.ts and   *)
(* leave-carry-over.service.ts), every operation an indivisible step: a    *)
(* request is decided once and filed once, its status and its ledger       *)
(* entries change together, each day of filed leave is in the ledger of    *)
(* its own year, and a year's balance is credited at most once.            *)
(***************************************************************************)
EXTENDS LeaveRules, LeaveBalance

CONSTANTS
  People,
  Leaves,   \* ids of leave requests
  Years,    \* the leave years that may be carried into
  Inputs,   \* what may be asked for: [emp, type, start, days]
  NotRaised

VARIABLES
  leave,    \* leave[l]: what was asked for, or NotRaised
  status,   \* status[l]
  ledger,   \* ledger[l]: the entries of l, each [year, days]
  carried   \* carried[e][y]: days credited to e for year y, 0 for none

vars == <<leave, status, ledger, carried>>

\* The days of leave i that lie in year y.
DaysIn(i, y) ==
  Greatest(0, Least(i.start + i.days - 1, YearEnd(y)) - Greatest(i.start, YearStart(y)) + 1)
Shares(i) ==
  {[year |-> y, days |-> DaysIn(i, y)] : y \in YearOf(i.start)..YearOf(i.start + i.days - 1)}

Init ==
  /\ leave = [l \in Leaves |-> NotRaised]
  /\ status = [l \in Leaves |-> "none"]
  /\ ledger = [l \in Leaves |-> {}]
  /\ carried = [e \in People |-> [y \in Years |-> 0]]

Raise(l, i) ==
  /\ status[l] = "none" /\ i.days \in 1..Cap[i.type]
  /\ leave' = [leave EXCEPT ![l] = i]
  /\ status' = [status EXCEPT ![l] = "pending"]
  /\ UNCHANGED <<ledger, carried>>

Move(l, to) ==
  /\ status[l] \in Statuses /\ to \in TRANSITIONS[status[l]]
  /\ status' = [status EXCEPT ![l] = to]
  /\ ledger' = IF to = "filed" THEN [ledger EXCEPT ![l] = Shares(leave[l])] ELSE ledger
  /\ UNCHANGED <<leave, carried>>

Credit(e, y, d) ==
  /\ carried[e][y] = 0
  /\ carried' = [carried EXCEPT ![e][y] = d]
  /\ UNCHANGED <<leave, status, ledger>>

Next ==
  \/ \E l \in Leaves, i \in Inputs : Raise(l, i)
  \/ \E l \in Leaves, to \in Statuses : Move(l, to)
  \/ \E e \in People, y \in Years, d \in 1..CARRY_CAP : Credit(e, y, d)

Spec == Init /\ [][Next]_vars
=============================================================================
