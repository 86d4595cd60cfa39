------------------------------- MODULE Leave -------------------------------
(***************************************************************************)
(* Leave requests, their ledger and the yearly carry-over as the           *)
(* transactions of leave.service.ts and leave-carry-over.service.ts run at *)
(* READ COMMITTED: a request reads and checks, others commit, it writes.   *)
(* The three paths (staff, client manager, employee) differ in which rows  *)
(* they see and share this code.                                           *)
(*                                                                         *)
(* Who is in post (hasJoined) is for Hiring: here anyone may be when a     *)
(* request reads it.  Left out: who may decide or withdraw, notes and who  *)
(* did what, the notification that follows a decision, edits of a hire     *)
(* date.                                                                   *)
(***************************************************************************)
EXTENDS LeaveRules, LeaveBalance, FiniteSets, Functions, Sequences

CONSTANTS
  People, Leaves, Years, Inputs,
  Hired,      \* Hired[e]: the day e was hired, or NoDate
  Lists,      \* the people in post a carry-over may find, by name: everyone's, a
              \* company's
  Requests,
  NotRaised, NoLeave, NoPerson

ASSUME LeaveAssumption ==
  /\ Inputs \subseteq [emp : People, type : DOMAIN Cap, start : Nat, days : Int]
  /\ Years \subseteq Nat \ {0, 1} /\ Hired \in [People -> Nat \cup {NoDate}]
  /\ \A list \in Lists : list \in Seq(People)
  /\ NoLeave \notin Leaves /\ NoPerson \notin People

VARIABLES
  leave, status, ledger, carried,   \* the committed rows, as in LeaveRegister
  req,       \* req[t]: where request t is, and what it has read
  crossed,   \* history: people for whom two requests were being raised at once
  late       \* history: the credits <<e, y>> computed before annual leave, or a credit,
             \* of e's year y - 1 was committed

rows == <<leave, status, ledger, carried>>
vars == <<leave, status, ledger, carried, req, crossed, late>>

\* The register's variables are the committed rows; what requests have read, and the
\* history, are hidden.
Register == INSTANCE LeaveRegister WITH
  leave <- leave, status <- status, ledger <- ledger, carried <- carried

Idle == [pc |-> "idle", leave |-> NoLeave, input |-> NotRaised, to |-> "none",
         emp |-> NoPerson, year |-> 0, days |-> 0, left |-> <<>>]

Init ==
  /\ Register!Init
  /\ req = [t \in Requests |-> Idle]
  /\ crossed = {} /\ late = {}

Finish(t) == req' = [req EXCEPT ![t] = Idle]

-----------------------------------------------------------------------------
(* Raising                                                                 *)

Raising(e) == \E t \in Requests : req[t].pc \in {"raise", "insert"} /\ req[t].input.emp = e

\* The employee, who is in post, is read before the transaction.
RaiseRead(t, l, i) ==
  /\ req[t] = Idle
  /\ status[l] = "none" /\ \A u \in Requests : req[u].leave # l
  /\ ~RaiseRefusal(i.type, i.days, TRUE, FALSE)
  /\ req' = [req EXCEPT ![t] = [Idle EXCEPT !.pc = "raise", !.leave = l, !.input = i]]
  /\ crossed' = IF Raising(i.emp) THEN crossed \cup {i.emp} ELSE crossed
  /\ UNCHANGED <<rows, late>>

\* Mutant: a request still pending is not on record.
HajjOnRecord_Decided(e) ==
  \E l \in Leaves : /\ status[l] \in {"approved", "filed"}
                    /\ leave[l].emp = e /\ leave[l].type = "hajj"

HajjOnRecord(e) ==
  \E l \in Leaves : /\ status[l] \in LIVE_STATUSES
                    /\ leave[l].emp = e /\ leave[l].type = "hajj"

\* checkRaise: the Hajj on record are counted.
RaiseCheck(t) ==
  LET r == req[t] IN
  /\ r.pc = "raise"
  /\ IF RaiseRefusal(r.input.type, r.input.days, TRUE, HajjOnRecord(r.input.emp))
       THEN Finish(t)
       ELSE req' = [req EXCEPT ![t].pc = "insert"]
  /\ UNCHANGED <<rows, crossed, late>>

RaiseInsert(t) ==
  LET r == req[t] IN
  /\ r.pc = "insert"
  /\ leave' = [leave EXCEPT ![r.leave] = r.input]
  /\ status' = [status EXCEPT ![r.leave] = "pending"]
  /\ Finish(t)
  /\ UNCHANGED <<ledger, carried, crossed, late>>

-----------------------------------------------------------------------------
(* decide, withdraw and file: all of them `move`                           *)

MoveFrom(to) == IF to = "filed" THEN "approved" ELSE "pending"

MoveRead(t, l, to) ==
  /\ req[t] = Idle /\ status[l] = MoveFrom(to)
  /\ req' = [req EXCEPT ![t] = [Idle EXCEPT !.pc = "move", !.leave = l, !.to = to]]
  /\ UNCHANGED <<rows, crossed, late>>

\* Credits of e into the years after Y that are made, or being made.
Credited(e, Y) ==
  {c \in {e} \X {y \in Years : y - 1 \in Y} :
     \/ carried[c[1]][c[2]] # 0
     \/ \E u \in Requests : req[u].pc = "credit" /\ req[u].emp = e /\ req[u].year = c[2]}

Moves(t) ==
  LET l == req[t].leave
      parts == SplitByYear(leave[l].start, leave[l].days)
  IN
  /\ status' = [status EXCEPT ![l] = req[t].to]
  /\ IF req[t].to = "filed"
       THEN /\ ledger' = [ledger EXCEPT ![l] = parts]
            /\ late' = IF leave[l].type = "annual"
                         THEN late \cup Credited(leave[l].emp, {p.year : p \in parts})
                         ELSE late
       ELSE UNCHANGED <<ledger, late>>

\* Mutant: the write is by id alone.
MoveWrite_ById(t) ==
  /\ req[t].pc = "move" /\ Moves(t) /\ Finish(t)
  /\ UNCHANGED <<leave, carried, crossed>>

\* The status is a condition of the UPDATE; the ledger entries of a filing are
\* in the same transaction.
MoveWrite(t) ==
  /\ req[t].pc = "move"
  /\ IF status[req[t].leave] = MoveFrom(req[t].to)
       THEN Moves(t)
       ELSE UNCHANGED <<status, ledger, late>>
  /\ Finish(t)
  /\ UNCHANGED <<leave, carried, crossed>>

-----------------------------------------------------------------------------
(* The carry-over: the worker's on 1 January, or run by hand               *)

\* The people in post are listed, everywhere or in one company.
CarryStart(t, list, y) ==
  /\ req[t] = Idle
  /\ req' = [req EXCEPT ![t] = [Idle EXCEPT !.pc = "person", !.year = y, !.left = list]]
  /\ UNCHANGED <<rows, crossed, late>>

AnnualEntries(l, e) == ledger[l] # {} /\ leave[l].emp = e /\ leave[l].type = "annual"

\* Mutant: the year of an entry is not looked at, though two years are read.
AnnualDays_BothYears(e, y) ==
  LET days == [l \in Leaves |-> SumFunctionOnSet([p \in ledger[l] |-> p.days], ledger[l])]
  IN SumFunctionOnSet(days, {l \in Leaves : AnnualEntries(l, e)})

AnnualDays(e, y) ==
  LET days == [l \in Leaves |-> SumFunctionOnSet([p \in ledger[l] |-> p.days],
                                               {p \in ledger[l] : p.year = y})]
  IN SumFunctionOnSet(days, {l \in Leaves : AnnualEntries(l, e)})

\* The next person's entries of both years: skip a year already credited, or one
\* that leaves nothing.
CarryRead(t) ==
  LET e == Head(req[t].left)
      y == req[t].year
      days == CarryOverFrom(Hired[e], y - 1,
                            IF y - 1 \in Years THEN carried[e][y - 1] ELSE 0,
                            AnnualDays(e, y - 1))
      rest == Tail(req[t].left)
  IN
  /\ req[t].pc = "person" /\ req[t].left # <<>>
  /\ req' = [req EXCEPT ![t] =
       IF carried[e][y] # 0 \/ days = 0
         THEN [@ EXCEPT !.left = rest]
         ELSE [@ EXCEPT !.pc = "credit", !.emp = e, !.days = days, !.left = rest]]
  /\ UNCHANGED <<rows, crossed, late>>

Credits(t) ==
  LET e == req[t].emp
      y == req[t].year
  IN
  /\ carried' = [carried EXCEPT ![e][y] = @ + req[t].days]
  /\ late' = late \cup Credited(e, {y})
  /\ req' = [req EXCEPT ![t] = [@ EXCEPT !.pc = "person", !.emp = NoPerson, !.days = 0]]

\* The partial unique index refuses a second credit, and the exception ends the run.
CarryWrite(t) ==
  /\ req[t].pc = "credit"
  /\ IF carried[req[t].emp][req[t].year] = 0
       THEN Credits(t)
       ELSE Finish(t) /\ UNCHANGED <<carried, late>>
  /\ UNCHANGED <<leave, status, ledger, crossed>>

CarryDone(t) ==
  /\ req[t].pc = "person" /\ req[t].left = <<>>
  /\ Finish(t)
  /\ UNCHANGED <<rows, crossed, late>>

-----------------------------------------------------------------------------
\* A transaction is rolled back or the process stops.
Fail(t) == req[t] # Idle /\ Finish(t) /\ UNCHANGED <<rows, crossed, late>>

Next ==
  \/ \E t \in Requests :
       \/ \E l \in Leaves, i \in Inputs : RaiseRead(t, l, i)
       \/ RaiseCheck(t) \/ RaiseInsert(t)
       \/ \E l \in Leaves, to \in Statuses \ {"pending"} : MoveRead(t, l, to)
       \/ MoveWrite(t)
       \/ \E list \in Lists, y \in Years : CarryStart(t, list, y)
       \/ CarryRead(t) \/ CarryWrite(t) \/ CarryDone(t) \/ Fail(t)

Spec == Init /\ [][Next]_vars
-----------------------------------------------------------------------------
TypeOK ==
  /\ leave \in [Leaves -> Inputs \cup {NotRaised}]
  /\ status \in [Leaves -> Statuses \cup {"none"}]
  /\ \A l \in Leaves : ledger[l] \subseteq [year : Int, days : 1..MAX_REQUEST_DAYS]
  /\ carried \in [People -> [Years -> 0..CARRY_CAP]]
  /\ req \in [Requests -> [pc : {"idle", "raise", "insert", "move", "person", "credit"},
                           leave : Leaves \cup {NoLeave}, input : Inputs \cup {NotRaised},
                           to : Statuses \cup {"none"}, emp : People \cup {NoPerson},
                           year : Years \cup {0}, days : 0..CARRY_CAP, left : Seq(People)]]
  /\ crossed \subseteq People /\ late \subseteq People \X Years

\* Whatever interleaves and fails, requests move once, the ledger holds each day
\* of filed leave in its year and of no other leave, and a year is credited once.
ImplementsRegister == Register!Spec

\* The ledger entries of filed leave, one for each year it touches, add up to its
\* days: none is lost at 31 December or charged to two years.  Other leave has none.
LedgerAddsUp ==
  \A l \in Leaves :
    SumFunctionOnSet([p \in ledger[l] |-> p.days], ledger[l])
      = IF status[l] = "filed" THEN leave[l].days ELSE 0

\* "Hajj leave is granted once during service", for whoever never had two
\* requests being raised at once: between the count and the insert nothing else
\* keeps a second one out.
HajjOnce ==
  \A e \in People \ crossed :
    Cardinality({l \in Leaves : /\ status[l] \in LIVE_STATUSES
                                /\ leave[l].emp = e /\ leave[l].type = "hajj"}) <= 1

\* "What the year before left unused ... at most 10 days, never negative": a
\* credit is that, counted over the days of the filed leave itself, unless annual
\* leave or a credit of the year before was entered after the carry-over had read it.
CarriedIsUnused ==
  \A e \in People, y \in Years : carried[e][y] # 0 /\ <<e, y>> \notin late =>
    LET annual == {l \in Leaves : /\ status[l] = "filed" /\ leave[l].emp = e
                                  /\ leave[l].type = "annual"}
        unused == Accrued(Hired[e], YearEnd(y - 1))
                    + (IF y - 1 \in Years THEN carried[e][y - 1] ELSE 0)
                    - SumFunctionOnSet([l \in annual |-> Register!DaysIn(leave[l], y - 1)], annual)
    IN carried[e][y] = IF unused > 10 THEN 10 ELSE unused
=============================================================================
