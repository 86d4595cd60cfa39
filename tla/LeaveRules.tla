----------------------------- MODULE LeaveRules -----------------------------
(***************************************************************************)
(* The rules of leave (leave/domain/leave-rules.ts): the types with their  *)
(* caps, the statuses and what may be raised.                              *)
(***************************************************************************)
EXTENDS Integers

MAX_REQUEST_DAYS == 365

\* The cap of a type; a type without one is held by MAX_REQUEST_DAYS.
Cap == [annual |-> MAX_REQUEST_DAYS, sick |-> 120, maternity |-> 84, paternity |-> 3,
        marriage |-> 5, bereavement |-> 5, hajj |-> 15,
        emergency |-> MAX_REQUEST_DAYS, unpaid |-> MAX_REQUEST_DAYS]

LIVE_STATUSES == {"pending", "approved", "filed"}

TRANSITIONS == [pending   |-> {"approved", "declined", "withdrawn"},
                approved  |-> {"filed"},
                declined  |-> {},
                withdrawn |-> {},
                filed     |-> {}]
Statuses == DOMAIN TRANSITIONS

\* Why leave may not be raised, or nothing.
RaiseRefusal(type, days, inPost, hajjOnRecord) ==
  \/ ~inPost
  \/ days \notin 1..MAX_REQUEST_DAYS
  \/ days > Cap[type]
  \/ type = "hajj" /\ hajjOnRecord
=============================================================================
