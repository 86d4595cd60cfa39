---------------------------- MODULE LeaveProofs ----------------------------
(***************************************************************************)
(* Hajj is granted once during service, to whoever never had two requests  *)
(* being raised at once: the invariant says what a raise relies on from    *)
(* its count to its insert.  Then the types, what is carried over, and the *)
(* refinement of LeaveRegister: there the invariant ties the ledger to the *)
(* leave that is filed, and a credit to what was read for it.              *)
(***************************************************************************)
EXTENDS Leave, LeaveArithmetic

RaisePcs == {"raise", "insert"}

\* A live Hajj of e.
Hajj(e, l) == status[l] \in LIVE_STATUSES /\ leave[l].emp = e /\ leave[l].type = "hajj"

\* What the argument needs of the types: of the rows, and of what raises and moves
\* have read; of other fields only that they are there.
Rows ==
  /\ leave \in [Leaves -> Inputs \cup {NotRaised}]
  /\ status \in [Leaves -> Statuses \cup {"none"}]
  /\ req = [t \in Requests |-> req[t]]
  /\ \A t \in Requests :
       /\ req[t] \in [pc : {"idle", "move", "person", "credit"} \cup RaisePcs,
                      leave : {req[t].leave}, input : {req[t].input}, to : {req[t].to},
                      emp : {req[t].emp}, year : {req[t].year}, days : {req[t].days},
                      left : {req[t].left}]
       /\ req[t].pc \in RaisePcs => req[t].leave \in Leaves /\ req[t].input \in Inputs
       /\ req[t].pc = "move" => req[t].leave \in Leaves /\ req[t].to \in Statuses

\* Two requests being raised for one person have crossed.
Alone ==
  \A t, u \in Requests :
    /\ t # u /\ req[t].pc \in RaisePcs /\ req[u].pc \in RaisePcs
    /\ req[t].input.emp = req[u].input.emp
    => req[t].input.emp \in crossed

\* What a request has found no Hajj for is still without one.
Cleared ==
  \A t \in Requests :
    /\ req[t].pc = "insert" /\ req[t].input.type = "hajj" /\ req[t].input.emp \notin crossed
    => ~HajjOnRecord(req[t].input.emp)

One == \A e \in People \ crossed : \A l, m \in Leaves : Hajj(e, l) /\ Hajj(e, m) => l = m

IInv == Rows /\ Alone /\ Cleared /\ One

-----------------------------------------------------------------------------
LEMMA Initially == Init => IInv
<1>1. Init => /\ leave = [l \in Leaves |-> NotRaised]
              /\ status = [l \in Leaves |-> "none"]
              /\ req = [t \in Requests |-> Idle]
  BY DEF Init, Register!Init
<1> QED
  BY <1>1 DEF IInv, Rows, Alone, Cleared, One, Hajj, Idle, RaisePcs, LIVE_STATUSES

\* If a person's live Hajj leaves are all the same one, there is at most one.
LEMMA OneIsOnce == One => HajjOnce
<1> SUFFICES ASSUME One, NEW e \in People \ crossed
             PROVE  Cardinality({l \in Leaves : Hajj(e, l)}) <= 1
  BY Zenon DEF HajjOnce, Hajj
<1> DEFINE S == {l \in Leaves : Hajj(e, l)}
<1> SUFFICES Cardinality(S) <= 1
  OBVIOUS
<1>1. CASE S = {}
  BY <1>1, FS_EmptySet
<1>2. CASE S # {}
  <2>1. PICK l \in S : TRUE
    BY <1>2
  <2>2. S = {l}
    BY <2>1 DEF One
  <2>3. Cardinality(S) = 1
    BY Zenon, <2>2, FS_Singleton
  <2> HIDE DEF S
  <2> QED
    BY <2>3
<1> QED
  BY <1>1, <1>2

-----------------------------------------------------------------------------
(* Raising                                                                 *)

LEMMA ReadKeeps ==
  ASSUME IInv, NEW t \in Requests, NEW l \in Leaves, NEW i \in Inputs, RaiseRead(t, l, i)
  PROVE  IInv'
<1>1. /\ UNCHANGED <<leave, status>>
      /\ req[t].pc = "idle"
      /\ req' = [req EXCEPT ![t] = [Idle EXCEPT !.pc = "raise", !.leave = l, !.input = i]]
      /\ crossed' = IF Raising(i.emp) THEN crossed \cup {i.emp} ELSE crossed
  BY DEF RaiseRead, rows, Idle
<1>2. /\ req'[t].pc = "raise" /\ req'[t].leave = l /\ req'[t].input = i
      /\ \A u \in Requests \ {t} : req'[u] = req[u]
  BY <1>1 DEF IInv, Rows, Idle
<1>3. Rows'
  BY <1>1, <1>2 DEF IInv, Rows, RaisePcs, Idle
<1>4. Alone'
  BY <1>1, <1>2 DEF IInv, Alone, Raising, RaisePcs
<1>5. Cleared'
  BY <1>1, <1>2 DEF IInv, Cleared, HajjOnRecord
<1>6. One'
  BY <1>1 DEF IInv, One, Hajj
<1> QED
  BY <1>3, <1>4, <1>5, <1>6 DEF IInv

LEMMA InsertKeeps ==
  ASSUME IInv, NEW t \in Requests, RaiseInsert(t)
  PROVE  IInv'
<1> DEFINE r == req[t]
<1>1. /\ r.pc = "insert" /\ r.leave \in Leaves /\ r.input \in Inputs
      /\ leave' = [leave EXCEPT ![r.leave] = r.input]
      /\ status' = [status EXCEPT ![r.leave] = "pending"]
      /\ req' = [req EXCEPT ![t] = Idle]
      /\ crossed' = crossed
  BY DEF RaiseInsert, Finish, IInv, Rows, RaisePcs
<1>2. /\ req'[t].pc = "idle"
      /\ \A u \in Requests \ {t} : req'[u] = req[u]
  BY <1>1 DEF IInv, Rows, Idle
<1>3. Rows'
  BY <1>1, <1>2 DEF IInv, Rows, RaisePcs, Idle, Statuses, TRANSITIONS
<1>4. Alone'
  BY <1>1, <1>2 DEF IInv, Alone, RaisePcs
<1>5. /\ leave'[r.leave] = r.input
      /\ \A l \in Leaves \ {r.leave} : leave'[l] = leave[l] /\ status'[l] = status[l]
  BY <1>1 DEF IInv, Rows
<1>6. \* No other raise of this person's is under way, unless they have crossed.
      ASSUME NEW u \in Requests, req'[u].pc = "insert", req'[u].input.emp \notin crossed
      PROVE  u # t /\ req[u].input.emp # r.input.emp
  BY <1>1, <1>2, <1>6 DEF IInv, Alone, RaisePcs
<1>7. Cleared'
  BY <1>1, <1>2, <1>5, <1>6 DEF IInv, Cleared, HajjOnRecord
<1>8. One'
  <2> SUFFICES ASSUME NEW e \in People \ crossed, NEW l \in Leaves, NEW m \in Leaves,
                      Hajj(e, l)', Hajj(e, m)', l # m
               PROVE  FALSE
    BY <1>1 DEF One
  <2>1. CASE l # r.leave /\ m # r.leave
    BY <2>1, <1>5 DEF IInv, One, Hajj
  <2>2. CASE l = r.leave \/ m = r.leave
    <3>1. r.input.emp = e /\ r.input.type = "hajj"
      BY <2>2, <1>5 DEF Hajj
    <3>2. HajjOnRecord(e)
      BY <2>2, <1>5 DEF Hajj, HajjOnRecord
    <3> QED
      BY <3>1, <3>2, <1>1 DEF IInv, Cleared
  <2> QED
    BY <2>1, <2>2
<1> QED
  BY <1>3, <1>4, <1>7, <1>8 DEF IInv

LEMMA CheckKeeps ==
  ASSUME IInv, NEW t \in Requests, RaiseCheck(t)
  PROVE  IInv'
<1>1. UNCHANGED <<leave, status, crossed>> /\ req[t].pc = "raise"
  BY DEF RaiseCheck, rows
<1>2. \/ req' = [req EXCEPT ![t] = Idle]
      \/ /\ req' = [req EXCEPT ![t].pc = "insert"]
         /\ ~(req[t].input.type = "hajj" /\ HajjOnRecord(req[t].input.emp))
  BY DEF RaiseCheck, Finish, RaiseRefusal
<1>3. /\ \A u \in Requests \ {t} : req'[u] = req[u]
      /\ \/ req'[t].pc = "idle"
         \/ /\ req'[t].pc = "insert"
            /\ req'[t].leave = req[t].leave /\ req'[t].input = req[t].input
            /\ ~(req[t].input.type = "hajj" /\ HajjOnRecord(req[t].input.emp))
  BY <1>2 DEF IInv, Rows, Idle
<1>4. Rows'
  BY <1>1, <1>2 DEF IInv, Rows, RaisePcs, Idle
<1>5. Alone'
  BY <1>1, <1>3 DEF IInv, Alone, RaisePcs
<1>6. Cleared'
  BY <1>1, <1>3 DEF IInv, Cleared, HajjOnRecord
<1>7. One'
  BY <1>1 DEF IInv, One, Hajj
<1> QED
  BY <1>4, <1>5, <1>6, <1>7 DEF IInv

-----------------------------------------------------------------------------
(* Everything else leaves raises alone and enters no leave.                *)

\* t is not raising, before or after, and what is live was live.
Quiet(t) ==
  /\ UNCHANGED <<leave, crossed>>
  /\ \A u \in Requests \ {t} : req'[u] = req[u]
  /\ req'[t].pc \notin RaisePcs
  /\ \A l \in Leaves : status'[l] \in LIVE_STATUSES => status[l] \in LIVE_STATUSES

LEMMA QuietKeeps ==
  ASSUME IInv, NEW t \in Requests, Quiet(t), Rows'
  PROVE  IInv'
<1>1. Alone'
  BY DEF IInv, Alone, Quiet
<1>2. Cleared'
  BY DEF IInv, Cleared, Quiet, HajjOnRecord, RaisePcs
<1>3. One'
  BY DEF IInv, One, Quiet, Hajj
<1> QED
  BY <1>1, <1>2, <1>3 DEF IInv

LEMMA MovesQuiet ==
  ASSUME IInv, NEW t \in Requests,
         \/ \E l \in Leaves, to \in Statuses \ {"pending"} : MoveRead(t, l, to)
         \/ MoveWrite(t)
  PROVE  Quiet(t) /\ Rows'
<1>1. ASSUME NEW l \in Leaves, NEW to \in Statuses \ {"pending"}, MoveRead(t, l, to)
      PROVE  Quiet(t) /\ Rows'
  BY <1>1 DEF IInv, Rows, MoveRead, rows, Idle, Quiet, RaisePcs
<1>2. CASE MoveWrite(t)
  <2> DEFINE l == req[t].leave
  <2>1. /\ UNCHANGED <<leave, crossed>> /\ req' = [req EXCEPT ![t] = Idle]
        /\ l \in Leaves /\ req[t].to \in Statuses
        /\ \/ status' = status
           \/ /\ status[l] = MoveFrom(req[t].to)
              /\ status' = [status EXCEPT ![l] = req[t].to]
    BY <1>2 DEF MoveWrite, Moves, Finish, IInv, Rows
  <2>2. MoveFrom(req[t].to) \in LIVE_STATUSES
    BY DEF MoveFrom, LIVE_STATUSES
  <2> QED
    BY <2>1, <2>2 DEF IInv, Rows, Idle, Quiet, RaisePcs
<1> QED
  BY <1>1, <1>2

LEMMA CarryQuiet ==
  ASSUME IInv, NEW t \in Requests,
         \/ \E list \in Lists, y \in Years : CarryStart(t, list, y)
         \/ CarryRead(t) \/ CarryWrite(t) \/ CarryDone(t)
  PROVE  Quiet(t) /\ Rows'
<1>1. UNCHANGED <<leave, status, crossed>>
  BY DEF CarryStart, CarryRead, CarryWrite, Credits, CarryDone, rows
<1>2. ASSUME NEW list \in Lists, NEW y \in Years, CarryStart(t, list, y)
      PROVE  Quiet(t) /\ Rows'
  BY <1>1, <1>2 DEF CarryStart, IInv, Rows, Idle, Quiet, RaisePcs
<1>3. CASE CarryRead(t)
  <2> DEFINE skip == [req[t] EXCEPT !.left = Tail(req[t].left)]
             credit(d) == [req[t] EXCEPT !.pc = "credit", !.emp = Head(req[t].left),
                                         !.days = d, !.left = Tail(req[t].left)]
  <2>1. /\ req[t].pc = "person"
        /\ \/ req' = [req EXCEPT ![t] = skip]
           \/ \E d : req' = [req EXCEPT ![t] = credit(d)]
    BY <1>3 DEF CarryRead
  <2>2. CASE req' = [req EXCEPT ![t] = skip]
    BY <1>1, <2>1, <2>2 DEF IInv, Rows, Quiet, RaisePcs
  <2>3. ASSUME NEW d, req' = [req EXCEPT ![t] = credit(d)]
        PROVE  Quiet(t) /\ Rows'
    BY <1>1, <2>1, <2>3 DEF IInv, Rows, Quiet, RaisePcs
  <2> QED
    BY <2>1, <2>2, <2>3
<1>4. CASE CarryWrite(t)
  <2> DEFINE next == [req[t] EXCEPT !.pc = "person", !.emp = NoPerson, !.days = 0]
  <2>1. req' = [req EXCEPT ![t] = next] \/ req' = [req EXCEPT ![t] = Idle]
    BY <1>4 DEF CarryWrite, Credits, Finish
  <2>2. CASE req' = [req EXCEPT ![t] = next]
    BY <1>1, <2>2 DEF IInv, Rows, Quiet, RaisePcs
  <2>3. CASE req' = [req EXCEPT ![t] = Idle]
    BY <1>1, <2>3 DEF IInv, Rows, Idle, Quiet, RaisePcs
  <2> QED
    BY <2>1, <2>2, <2>3
<1>5. CASE CarryDone(t)
  BY <1>1, <1>5 DEF CarryDone, Finish, IInv, Rows, Idle, Quiet, RaisePcs
<1> QED
  BY <1>2, <1>3, <1>4, <1>5

LEMMA FailQuiet ==
  ASSUME IInv, NEW t \in Requests, Fail(t)
  PROVE  Quiet(t) /\ Rows'
BY DEF Fail, Finish, rows, IInv, Rows, Idle, Quiet, RaisePcs

-----------------------------------------------------------------------------
\* "Hajj leave is granted once during service" (leave-rules.ts), for whoever never
\* had two requests being raised at once: the count of those on record, taken
\* before the insert, is then still so at the insert.
THEOREM HajjOnceProved == Spec => []HajjOnce
<1>1. IInv /\ [Next]_vars => IInv'
  <2> SUFFICES ASSUME IInv, [Next]_vars PROVE IInv'
    OBVIOUS
  <2>1. CASE UNCHANGED vars
    BY <2>1 DEF vars, IInv, Rows, Alone, Cleared, One, Hajj, HajjOnRecord
  <2>2. ASSUME NEW t \in Requests, NEW l \in Leaves, NEW i \in Inputs, RaiseRead(t, l, i)
        PROVE  IInv'
    BY <2>2, ReadKeeps
  <2>3. ASSUME NEW t \in Requests, RaiseCheck(t) PROVE IInv'
    BY <2>3, CheckKeeps
  <2>4. ASSUME NEW t \in Requests, RaiseInsert(t) PROVE IInv'
    BY <2>4, InsertKeeps
  <2>5. ASSUME NEW t \in Requests,
               \/ \E l \in Leaves, to \in Statuses \ {"pending"} : MoveRead(t, l, to)
               \/ MoveWrite(t)
        PROVE  IInv'
    BY <2>5, MovesQuiet, QuietKeeps
  <2>6. ASSUME NEW t \in Requests,
               \/ \E list \in Lists, y \in Years : CarryStart(t, list, y)
               \/ CarryRead(t) \/ CarryWrite(t) \/ CarryDone(t)
        PROVE  IInv'
    BY <2>6, CarryQuiet, QuietKeeps
  <2>7. ASSUME NEW t \in Requests, Fail(t) PROVE IInv'
    BY <2>7, FailQuiet, QuietKeeps
  <2> QED
    BY <2>1, <2>2, <2>3, <2>4, <2>5, <2>6, <2>7 DEF Next
<1>2. IInv => HajjOnce
  BY OneIsOnce DEF IInv
<1> QED
  BY Initially, <1>1, <1>2, PTL DEF Spec

-----------------------------------------------------------------------------
(* The register                                                            *)

\* The register counts the days of leave as the split does (its calendar is the same).
LEMMA SameDays ==
  ASSUME NEW i, NEW y
  PROVE  Register!DaysIn(i, y) = DaysWithin(i.start, i.days, y)
BY DEF Register!DaysIn, Register!Greatest, Register!Least, Register!YearStart, Register!YearEnd,
       DaysWithin, Greatest, Least, YearEnd, YearStart

\* So what it promises for a filing are the parts of the split.
LEMMA SameParts == ASSUME NEW i PROVE Register!Shares(i) = Parts(i.start, i.days)
<1>1. \A d : Register!YearOf(d) = YearOf(d)
  BY DEF Register!YearOf, YearOf, Register!YearStart, Register!YearEnd, YearEnd, YearStart
<1> QED BY <1>1, SameDays DEF Register!Shares, Parts

\* What a request remembers, by where it is.
Remembered(r) ==
  /\ r.pc \in RaisePcs => r.leave \in Leaves /\ r.input \in Inputs
                           /\ r.input.days \in 1..Cap[r.input.type]
  /\ r.pc = "move" => r.leave \in Leaves /\ r.to \in Statuses \ {"pending"}
  /\ r.pc \in {"person", "credit"} => r.year \in Years
  /\ r.pc = "credit" => r.emp \in People /\ r.days # 0

\* What is on record is what could be asked for, and only filed leave is in the ledger,
\* in parts that are its own.
Recorded ==
  /\ ledger = [l \in Leaves |-> ledger[l]]
  /\ IsFiniteSet({l \in Leaves : status[l] # "none"})
  /\ \A l \in Leaves :
       /\ status[l] # "none" => leave[l] \in Inputs /\ leave[l].days \in 1..Cap[leave[l].type]
       /\ ledger[l] = IF status[l] = "filed" THEN Register!Shares(leave[l]) ELSE {}

\* The id a raise will insert is still free, and no other request has it.
Reserved ==
  \A t \in Requests :
    req[t].pc \in RaisePcs =>
      /\ status[req[t].leave] = "none"
      /\ \A u \in Requests \ {t} : req[u].leave # req[t].leave

\* What the year before leaves to be carried into y, by the rows as they are.
Unused(e, y) ==
  CarryOverFrom(Hired[e], y - 1, IF y - 1 \in Years THEN carried[e][y - 1] ELSE 0,
                AnnualDays(e, y - 1))

\* A credit that is being made, or was made, is that still unless it is late.
Timely ==
  /\ \A t \in Requests :
       req[t].pc = "credit" /\ <<req[t].emp, req[t].year>> \notin late =>
         req[t].days = Unused(req[t].emp, req[t].year)
  /\ \A e \in People, y \in Years :
       carried[e][y] # 0 /\ <<e, y>> \notin late => carried[e][y] = Unused(e, y)

\* Where requests are and what they have read, as TypeOK has it.
RequestType == [pc : {"idle", "raise", "insert", "move", "person", "credit"},
                leave : Leaves \cup {NoLeave}, input : Inputs \cup {NotRaised},
                to : Statuses \cup {"none"}, emp : People \cup {NoPerson},
                year : Years \cup {0}, days : 0..CARRY_CAP, left : Seq(People)]

RegisterInv ==
  /\ TypeOK /\ Recorded /\ Reserved /\ Timely
  /\ \A t \in Requests : Remembered(req[t])

\* An idle request is one, and remembers nothing.
LEMMA IdleIs == Idle \in RequestType /\ Remembered(Idle)
BY DEF Idle, RequestType, Remembered, RaisePcs, CARRY_CAP

\* No cap is above the limit for any request.
LEMMA CapNat == \A type \in DOMAIN Cap : Cap[type] \in 1..MAX_REQUEST_DAYS
BY DEF Cap, MAX_REQUEST_DAYS

\* The filed leave of the ledger: its parts, and what those of one year add up to.
LEMMA FiledParts ==
  ASSUME Recorded, NEW l \in Leaves, status[l] = "filed"
  PROVE  /\ leave[l].start \in Nat /\ leave[l].days \in Nat /\ leave[l].days >= 1
         /\ leave[l].days <= MAX_REQUEST_DAYS
         /\ ledger[l] = Parts(leave[l].start, leave[l].days)
<1>1. leave[l] \in Inputs /\ leave[l].days \in 1..Cap[leave[l].type]
  BY DEF Recorded
<1>2. leave[l].start \in Nat /\ leave[l].type \in DOMAIN Cap
  BY <1>1, LeaveAssumption
<1> QED
  BY <1>1, <1>2, CapNat, SameParts DEF Recorded, MAX_REQUEST_DAYS

\* Added up over a year, they are the days of the leave in it.
LEMMA FiledSum ==
  ASSUME Recorded, NEW l \in Leaves, status[l] = "filed", NEW y \in Int
  PROVE  /\ SumFunctionOnSet([p \in ledger[l] |-> p.days], {p \in ledger[l] : p.year = y})
              = Register!DaysIn(leave[l], y)
         /\ Register!DaysIn(leave[l], y) \in Int
<1> DEFINE start == leave[l].start
           days == leave[l].days
<1>1. start \in Nat /\ days \in Nat /\ days >= 1 /\ ledger[l] = Parts(start, days)
  BY FiledParts
<1>2. Register!DaysIn(leave[l], y) = DaysWithin(start, days, y)
  BY SameDays
<1> HIDE DEF start, days
<1>3. DaysWithin(start, days, y) \in Int
  <2>1. YearStart(y) \in Int /\ YearStart(y + 1) \in Int
    BY YearLeap
  <2> QED BY <1>1, <2>1 DEF DaysWithin, Least, Greatest, YearEnd
<1> QED
  BY <1>1, <1>2, <1>3, PartsSum

\* The days of annual leave filed by e in year y: the ledger's sum over e's filed leave.
LEMMA AnnualIs ==
  ASSUME Recorded, NEW e, NEW y \in Int
  PROVE  LET annual == {l \in Leaves : /\ status[l] = "filed" /\ leave[l].emp = e
                                       /\ leave[l].type = "annual"}
             days == [l \in annual |-> Register!DaysIn(leave[l], y)]
         IN /\ AnnualDays(e, y) = SumFunctionOnSet(days, annual)
            /\ AnnualDays(e, y) \in Int
<1> DEFINE annual == {l \in Leaves : /\ status[l] = "filed" /\ leave[l].emp = e
                                     /\ leave[l].type = "annual"}
           days == [l \in annual |-> Register!DaysIn(leave[l], y)]
           sums == [l \in Leaves |-> SumFunctionOnSet([p \in ledger[l] |-> p.days],
                                                      {p \in ledger[l] : p.year = y})]
<1>1. {l \in Leaves : AnnualEntries(l, e)} = annual
  <2>1. ASSUME NEW l \in Leaves PROVE ledger[l] # {} <=> status[l] = "filed"
    <3>1. CASE status[l] = "filed"
      BY <3>1, FiledParts, PartsType
    <3>2. CASE status[l] # "filed"
      BY <3>2 DEF Recorded
    <3> QED BY <3>1, <3>2
  <2> QED BY <2>1 DEF AnnualEntries
<1>2. AnnualDays(e, y) = SumFunctionOnSet(sums, annual)
  BY <1>1 DEF AnnualDays
<1>3. \A l \in annual : sums[l] = days[l] /\ days[l] \in Int
  BY FiledSum
<1>4. IsFiniteSet(annual)
  <2>1. annual \subseteq {l \in Leaves : status[l] # "none"}
    OBVIOUS
  <2> HIDE DEF annual
  <2> QED BY <2>1, FS_Subset DEF Recorded
<1> HIDE DEF annual, days, sums
<1>5. AnnualDays(e, y) = SumFunctionOnSet(days, annual) /\ AnnualDays(e, y) \in Int
  BY <1>2, <1>3, <1>4, SumCong, SumInt
<1> QED
  BY <1>5 DEF annual, days

\* So what may be carried is at most ten days, and is what is unused.
LEMMA UnusedIs ==
  ASSUME TypeOK, Recorded, NEW e \in People, NEW y \in Years
  PROVE  /\ Unused(e, y) \in 0..CARRY_CAP
         /\ Unused(e, y) # 0 =>
              LET left == Accrued(Hired[e], YearEnd(y - 1))
                            + (IF y - 1 \in Years THEN carried[e][y - 1] ELSE 0)
                            - AnnualDays(e, y - 1)
              IN Unused(e, y) = IF left > CARRY_CAP THEN CARRY_CAP ELSE left
<1> DEFINE before == IF y - 1 \in Years THEN carried[e][y - 1] ELSE 0
<1>1. y - 1 \in Nat /\ y - 1 >= 1 /\ Hired[e] \in Nat \cup {NoDate}
  BY LeaveAssumption
<1>2. before \in Int
  BY DEF TypeOK, CARRY_CAP
<1>3. AnnualDays(e, y - 1) \in Int
  <2> DEFINE Y == y - 1
  <2>1. Y \in Int
    BY <1>1
  <2> HIDE DEF Y
  <2>2. AnnualDays(e, Y) \in Int
    BY <2>1, AnnualIs, Zenon
  <2> QED BY <2>2 DEF Y
<1> HIDE DEF before
<1>4. Unused(e, y) = CarryOverFrom(Hired[e], y - 1, before, AnnualDays(e, y - 1))
  BY DEF Unused, before
<1>5. LET unused == Accrued(Hired[e], YearEnd(y - 1)) + before - AnnualDays(e, y - 1)
      IN /\ Unused(e, y) \in 0..CARRY_CAP
         /\ Unused(e, y) # 0 =>
              Unused(e, y) = IF unused > CARRY_CAP THEN CARRY_CAP ELSE unused
  <2> DEFINE Y == y - 1
             annual == AnnualDays(e, Y)
             hired == Hired[e]
  <2>1. Y \in Nat /\ Y >= 1 /\ annual \in Int /\ hired \in Nat \cup {NoDate}
    BY <1>1, <1>3
  <2> HIDE DEF Y, annual, hired
  <2>2. LET unused == Accrued(hired, YearEnd(Y)) + before - annual
            over == CarryOverFrom(hired, Y, before, annual)
        IN /\ over \in 0..CARRY_CAP
           /\ over # 0 => over = IF unused > CARRY_CAP THEN CARRY_CAP ELSE unused
    BY <1>2, <2>1, CarryOverCapped
  <2>3. Unused(e, y) = CarryOverFrom(hired, Y, before, annual)
    BY <1>4 DEF Y, annual, hired
  <2> QED
    BY <2>2, <2>3 DEF Y, annual, hired
<1> QED
  BY <1>5 DEF before

\* A credit that is not late is then what the property says it is.
LEMMA TimelyIsUnused == TypeOK /\ Recorded /\ Timely => CarriedIsUnused
<1> SUFFICES ASSUME TypeOK, Recorded, Timely, NEW e \in People, NEW y \in Years,
                    carried[e][y] # 0, <<e, y>> \notin late
             PROVE  LET annual == {l \in Leaves : /\ status[l] = "filed" /\ leave[l].emp = e
                                                  /\ leave[l].type = "annual"}
                        unused == Accrued(Hired[e], YearEnd(y - 1))
                                    + (IF y - 1 \in Years THEN carried[e][y - 1] ELSE 0)
                                    - SumFunctionOnSet([l \in annual |->
                                                         Register!DaysIn(leave[l], y - 1)], annual)
                    IN carried[e][y] = IF unused > 10 THEN 10 ELSE unused
  BY DEF CarriedIsUnused
<1>1. carried[e][y] = Unused(e, y)
  BY DEF Timely
<1>2. y - 1 \in Int
  BY LeaveAssumption
<1> QED
  BY <1>1, <1>2, UnusedIs, AnnualIs DEF CARRY_CAP

-----------------------------------------------------------------------------
\* What may be carried depends on the rows alone, and of these on filed leave.
LEMMA UnusedSame ==
  ASSUME UNCHANGED <<ledger, carried>>,
         \A l \in Leaves : ledger[l] # {} => leave'[l] = leave[l],
         NEW e, NEW y
  PROVE  Unused(e, y)' = Unused(e, y)
<1>1. \A l \in Leaves : AnnualEntries(l, e)' <=> AnnualEntries(l, e)
  BY DEF AnnualEntries
<1>2. AnnualDays(e, y - 1)' = AnnualDays(e, y - 1)
  BY <1>1 DEF AnnualDays
<1> QED
  BY <1>2 DEF Unused

\* A step that only takes a request on, keeps what it remembers right and leaves the
\* rows alone.
LEMMA OnlyRemembers ==
  ASSUME RegisterInv, NEW t \in Requests, NEW r,
         UNCHANGED <<rows, late>>, crossed' \subseteq People,
         req' = [req EXCEPT ![t] = r],
         r \in RequestType, Remembered(r),
         r.pc \in RaisePcs => status[r.leave] = "none"
                              /\ \A u \in Requests \ {t} : req[u].leave # r.leave,
         \A u \in Requests \ {t} : req[u].pc \in RaisePcs => r.leave # req[u].leave,
         r.pc = "credit" => r.days = Unused(r.emp, r.year)
  PROVE  RegisterInv'
<1>1. /\ req' \in [Requests -> RequestType] /\ req'[t] = r
      /\ \A u \in Requests \ {t} : req'[u] = req[u]
  BY DEF RegisterInv, TypeOK, RequestType
<1>2. UNCHANGED <<leave, status, ledger, carried, late>>
  BY DEF rows
<1>3. TypeOK'
  BY <1>1, <1>2 DEF RegisterInv, TypeOK, RequestType
<1>4. Recorded'
  BY <1>2 DEF RegisterInv, Recorded, Register!Shares, Register!DaysIn
<1>5. Reserved'
  BY <1>1, <1>2 DEF RegisterInv, Reserved
<1>6. Timely'
  <2>1. \A e, y : Unused(e, y)' = Unused(e, y)
    BY <1>2, UnusedSame
  <2> QED
    BY <1>1, <1>2, <2>1 DEF RegisterInv, Timely
<1>7. \A u \in Requests : Remembered(req[u])'
  BY <1>1 DEF RegisterInv, Remembered
<1> QED
  BY <1>3, <1>4, <1>5, <1>6, <1>7 DEF RegisterInv

\* A request that ends, or is rolled back, writes nothing.
LEMMA BackToIdle ==
  ASSUME RegisterInv, NEW t \in Requests, UNCHANGED <<rows, late>>, crossed' = crossed, Finish(t)
  PROVE  RegisterInv'
<1>1. Idle.pc = "idle" /\ Idle.leave = NoLeave
  BY DEF Idle
<1>2. \A u \in Requests : req[u].pc \in RaisePcs => req[u].leave # NoLeave
  BY LeaveAssumption DEF RegisterInv, Remembered
<1>3. crossed' \subseteq People
  BY DEF RegisterInv, TypeOK
<1> QED
  BY <1>1, <1>2, <1>3, IdleIs, OnlyRemembers DEF Finish, RaisePcs

\* Raising takes an id that is free.
LEMMA RaiseReadKeeps ==
  ASSUME RegisterInv, NEW t \in Requests, NEW l \in Leaves, NEW i \in Inputs, RaiseRead(t, l, i)
  PROVE  RegisterInv'
<1> DEFINE r == [Idle EXCEPT !.pc = "raise", !.leave = l, !.input = i]
<1>1. /\ UNCHANGED <<rows, late>> /\ req' = [req EXCEPT ![t] = r]
      /\ status[l] = "none" /\ \A u \in Requests : req[u].leave # l
      /\ ~RaiseRefusal(i.type, i.days, TRUE, FALSE)
      /\ crossed' = crossed \/ crossed' = crossed \cup {i.emp}
  BY DEF RaiseRead
<1>2. i.emp \in People /\ i.type \in DOMAIN Cap /\ i.days \in Int
  BY LeaveAssumption
<1>3. i.days \in 1..Cap[i.type]
  BY <1>1, <1>2, CapNat DEF RaiseRefusal, MAX_REQUEST_DAYS
<1>4. crossed' \subseteq People
  BY <1>1, <1>2 DEF RegisterInv, TypeOK
<1>5. r.pc = "raise" /\ r.leave = l /\ r.input = i
  BY DEF Idle
<1>6. r \in RequestType
  BY IdleIs DEF RequestType
<1>7. Remembered(r)
  BY <1>3, <1>5 DEF Remembered, RaisePcs
<1> HIDE DEF r
<1> QED
  BY <1>1, <1>4, <1>5, <1>6, <1>7, OnlyRemembers

\* The Hajj check changes no row.
LEMMA RaiseCheckKeeps ==
  ASSUME RegisterInv, NEW t \in Requests, RaiseCheck(t)
  PROVE  RegisterInv'
<1>1. req[t].pc = "raise" /\ UNCHANGED <<rows, crossed, late>>
  BY DEF RaiseCheck
<1>2. CASE Finish(t)
  BY <1>1, <1>2, BackToIdle
<1>3. CASE req' = [req EXCEPT ![t].pc = "insert"]
  <2> DEFINE r == [req[t] EXCEPT !.pc = "insert"]
  <2>1. req[t] \in RequestType /\ Remembered(req[t])
    BY DEF RegisterInv, TypeOK, RequestType
  <2>2. r \in RequestType /\ r.pc = "insert" /\ r.leave = req[t].leave /\ r.input = req[t].input
    BY <2>1 DEF RequestType
  <2>3. req' = [req EXCEPT ![t] = r]
    BY <1>3
  <2> HIDE DEF r
  <2>4. Remembered(r)
    BY <1>1, <2>1, <2>2 DEF Remembered, RaisePcs
  <2>5. /\ status[r.leave] = "none"
        /\ \A u \in Requests \ {t} : req[u].leave # r.leave
    BY <1>1, <2>2 DEF RegisterInv, Reserved, RaisePcs
  <2>6. crossed' \subseteq People
    BY <1>1 DEF RegisterInv, TypeOK
  <2> QED
    BY <1>1, <2>2, <2>3, <2>4, <2>5, <2>6, OnlyRemembers
<1> QED
  BY <1>2, <1>3 DEF RaiseCheck

\* A move reads leave that has been raised.
LEMMA MoveReadKeeps ==
  ASSUME RegisterInv, NEW t \in Requests, NEW l \in Leaves, NEW to \in Statuses \ {"pending"},
         MoveRead(t, l, to)
  PROVE  RegisterInv'
<1> DEFINE r == [Idle EXCEPT !.pc = "move", !.leave = l, !.to = to]
<1>1. /\ UNCHANGED <<rows, late, crossed>> /\ req' = [req EXCEPT ![t] = r]
      /\ status[l] # "none"
  BY DEF MoveRead, MoveFrom
<1>2. r.pc = "move" /\ r.leave = l /\ r.to = to /\ r \in RequestType
  BY IdleIs DEF RequestType
<1>3. Remembered(r)
  BY <1>2 DEF Remembered, RaisePcs
<1>4. \A u \in Requests \ {t} : req[u].pc \in RaisePcs => l # req[u].leave
  BY <1>1 DEF RegisterInv, Reserved
<1>5. crossed' \subseteq People
  BY <1>1 DEF RegisterInv, TypeOK
<1> HIDE DEF r
<1> QED
  BY <1>1, <1>2, <1>3, <1>4, <1>5, OnlyRemembers DEF RaisePcs

\* A carry-over lists people in post.
LEMMA CarryStartKeeps ==
  ASSUME RegisterInv, NEW t \in Requests, NEW list \in Lists, NEW y \in Years,
         CarryStart(t, list, y)
  PROVE  RegisterInv'
<1> DEFINE r == [Idle EXCEPT !.pc = "person", !.year = y, !.left = list]
<1>1. UNCHANGED <<rows, late, crossed>> /\ req' = [req EXCEPT ![t] = r]
  BY DEF CarryStart
<1>2. r.pc = "person" /\ r.year = y /\ r.leave = NoLeave /\ r \in RequestType
  <2>1. list \in Seq(People) /\ Idle.leave = NoLeave
    BY LeaveAssumption DEF Idle
  <2> QED BY <2>1, IdleIs DEF RequestType
<1>3. Remembered(r)
  BY <1>2 DEF Remembered, RaisePcs
<1>4. \A u \in Requests : req[u].pc \in RaisePcs => NoLeave # req[u].leave
  BY LeaveAssumption DEF RegisterInv, Remembered
<1>5. crossed' \subseteq People
  BY <1>1 DEF RegisterInv, TypeOK
<1> HIDE DEF r
<1> QED
  BY <1>1, <1>2, <1>3, <1>4, <1>5, OnlyRemembers DEF RaisePcs

\* A credit is worked out from the rows as they are.
LEMMA CarryReadKeeps ==
  ASSUME RegisterInv, NEW t \in Requests, CarryRead(t)
  PROVE  RegisterInv'
<1> DEFINE e == Head(req[t].left)
           y == req[t].year
           rest == Tail(req[t].left)
           skip == [req[t] EXCEPT !.left = rest]
           credit == [req[t] EXCEPT !.pc = "credit", !.emp = e, !.days = Unused(e, y),
                                    !.left = rest]
<1>1. /\ req[t].pc = "person" /\ req[t].left # <<>> /\ UNCHANGED <<rows, late, crossed>>
      /\ req' = [req EXCEPT ![t] = IF carried[e][y] # 0 \/ Unused(e, y) = 0 THEN skip ELSE credit]
  BY DEF CarryRead, Unused
<1>2. /\ req[t] \in RequestType /\ Remembered(req[t]) /\ y \in Years
  BY <1>1 DEF RegisterInv, TypeOK, RequestType, Remembered
<1>3. req[t].left \in Seq(People)
  BY <1>2 DEF RequestType
<1>4. e \in People /\ rest \in Seq(People)
  <2> DEFINE s == req[t].left
  <2>1. s \in Seq(People) /\ s # <<>>
    BY <1>1, <1>3
  <2> HIDE DEF s
  <2>2. Head(s) \in People /\ Tail(s) \in Seq(People)
    BY <2>1
  <2> QED BY <2>2 DEF s
<1>5. Unused(e, y) \in 0..CARRY_CAP
  BY <1>2, <1>4, UnusedIs DEF RegisterInv
<1>6. crossed' \subseteq People
  BY <1>1 DEF RegisterInv, TypeOK
<1>7. \A u \in Requests \ {t} : req[u].pc \in RaisePcs => req[t].leave # req[u].leave
  BY DEF RegisterInv, Reserved
<1> HIDE DEF e, y, rest
<1>8. CASE carried[e][y] # 0 \/ Unused(e, y) = 0
  <2>1. skip \in RequestType /\ skip.pc = "person" /\ skip.leave = req[t].leave
        /\ skip.year = req[t].year
    BY <1>1, <1>2, <1>4 DEF RequestType
  <2>2. Remembered(skip)
    BY <1>1, <1>2, <2>1 DEF Remembered, RaisePcs
  <2>3. req' = [req EXCEPT ![t] = skip]
    BY <1>1, <1>8
  <2>4. UNCHANGED <<rows, late>>
    BY <1>1
  <2>5. \A u \in Requests \ {t} : req[u].pc \in RaisePcs => skip.leave # req[u].leave
    BY <1>7, <2>1
  <2>6. skip.pc \notin RaisePcs /\ skip.pc # "credit"
    BY <2>1 DEF RaisePcs
  <2> HIDE DEF skip, credit
  <2> QED
    BY <1>6, <2>1, <2>2, <2>3, <2>4, <2>5, <2>6, OnlyRemembers
<1>9. CASE ~(carried[e][y] # 0 \/ Unused(e, y) = 0)
  <2> DEFINE d == Unused(e, y)
  <2> HIDE DEF d
  <2>1. /\ credit \in RequestType /\ credit.pc = "credit" /\ credit.leave = req[t].leave
        /\ credit.emp = e /\ credit.year = y /\ credit.days = d
    BY <1>2, <1>4, <1>5 DEF RequestType, d, y
  <2>2. Remembered(credit)
    BY <1>2, <1>4, <1>9, <2>1 DEF Remembered, RaisePcs, d
  <2>3. req' = [req EXCEPT ![t] = credit]
    BY <1>1, <1>9
  <2> HIDE DEF credit
  <2> QED
    BY <1>1, <1>6, <1>7, <2>1, <2>2, <2>3, OnlyRemembers DEF RaisePcs, d
<1> QED
  BY <1>8, <1>9

-----------------------------------------------------------------------------
\* A pending request enters: its id was free, and the ledger does not hold it.
LEMMA RaiseInsertKeeps ==
  ASSUME RegisterInv, NEW t \in Requests, RaiseInsert(t)
  PROVE  RegisterInv' /\ Register!Raise(req[t].leave, req[t].input)
<1> DEFINE l == req[t].leave
           i == req[t].input
<1>1. /\ req[t].pc = "insert"
      /\ leave' = [leave EXCEPT ![l] = i] /\ status' = [status EXCEPT ![l] = "pending"]
      /\ req' = [req EXCEPT ![t] = Idle]
      /\ UNCHANGED <<ledger, carried, crossed, late>>
  BY DEF RaiseInsert, Finish
<1>2. /\ l \in Leaves /\ i \in Inputs /\ i.days \in 1..Cap[i.type]
      /\ status[l] = "none" /\ \A u \in Requests \ {t} : req[u].leave # l
  BY <1>1 DEF RegisterInv, Remembered, Reserved, RaisePcs
<1>3. Register!Raise(l, i)
  BY <1>1, <1>2 DEF Register!Raise, Register!Cap, Cap, Register!MAX_REQUEST_DAYS,
                    MAX_REQUEST_DAYS
<1> HIDE DEF l, i
<1>4. /\ leave \in [Leaves -> Inputs \cup {NotRaised}]
      /\ status \in [Leaves -> Statuses \cup {"none"}]
      /\ req \in [Requests -> RequestType]
  BY DEF RegisterInv, TypeOK, RequestType
<1>5. /\ leave' \in [Leaves -> Inputs \cup {NotRaised}]
      /\ status' \in [Leaves -> Statuses \cup {"none"}]
      /\ leave'[l] = i /\ status'[l] = "pending"
      /\ \A m \in Leaves \ {l} : leave'[m] = leave[m] /\ status'[m] = status[m]
  BY <1>1, <1>2, <1>4 DEF Statuses, TRANSITIONS
<1>6. /\ req' \in [Requests -> RequestType] /\ req'[t] = Idle
      /\ \A u \in Requests \ {t} : req'[u] = req[u]
  BY <1>1, <1>4, IdleIs
<1>7. TypeOK'
  BY <1>1, <1>5, <1>6 DEF RegisterInv, TypeOK, RequestType
<1>8. ledger[l] = {}
  BY <1>2 DEF RegisterInv, Recorded
<1>9. Recorded'
  <2>1. {m \in Leaves : status'[m] # "none"} = {m \in Leaves : status[m] # "none"} \cup {l}
    BY <1>2, <1>5
  <2>2. IsFiniteSet({m \in Leaves : status'[m] # "none"})
    <3> DEFINE S == {m \in Leaves : status[m] # "none"}
    <3>1. IsFiniteSet(S)
      BY DEF RegisterInv, Recorded
    <3> HIDE DEF S
    <3>2. IsFiniteSet(S \cup {l})
      BY <3>1, FS_AddElement
    <3> QED BY <2>1, <3>2 DEF S
  <2>3. ASSUME NEW m \in Leaves
        PROVE  /\ status'[m] # "none" =>
                    leave'[m] \in Inputs /\ leave'[m].days \in 1..Cap[leave'[m].type]
               /\ ledger'[m] = IF status'[m] = "filed" THEN Register!Shares(leave'[m]) ELSE {}
    BY <1>1, <1>2, <1>5, <1>8 DEF RegisterInv, Recorded
  <2>4. ledger' = [m \in Leaves |-> ledger'[m]]
    BY <1>1 DEF RegisterInv, Recorded
  <2> QED
    BY <2>2, <2>3, <2>4 DEF Recorded, Register!Shares, Register!DaysIn
<1>10. Reserved'
  <2> SUFFICES ASSUME NEW u \in Requests, req'[u].pc \in RaisePcs
               PROVE  /\ status'[req'[u].leave] = "none"
                      /\ \A v \in Requests \ {u} : req'[v].leave # req'[u].leave
    BY DEF Reserved
  <2>1. u # t /\ req'[u] = req[u]
    BY <1>6 DEF Idle, RaisePcs
  <2>2. /\ req[u].leave \in Leaves /\ status[req[u].leave] = "none" /\ req[u].leave # l
        /\ \A v \in Requests \ {u} : req[v].leave # req[u].leave
    BY <1>2, <2>1 DEF RegisterInv, Reserved, Remembered
  <2>3. Idle.leave # req[u].leave
    BY <2>2, LeaveAssumption DEF Idle
  <2> QED
    BY <1>5, <1>6, <2>1, <2>2, <2>3
<1>11. Timely'
  <2>1. \A e, y : Unused(e, y)' = Unused(e, y)
    BY <1>1, <1>5, <1>8, UnusedSame
  <2>2. Idle.pc = "idle"
    BY DEF Idle
  <2> QED
    BY <1>1, <1>6, <2>1, <2>2 DEF RegisterInv, Timely
<1>12. \A u \in Requests : Remembered(req[u])'
  BY <1>6, IdleIs DEF RegisterInv, Remembered
<1> QED
  BY <1>3, <1>7, <1>9, <1>10, <1>11, <1>12 DEF RegisterInv, l, i

\* The credits of a person into the years after those of a filing are late.
LEMMA CreditedLate ==
  ASSUME RegisterInv, NEW e \in People, NEW Y, NEW y \in Years, y - 1 \in Y,
         carried[e][y] # 0
           \/ \E u \in Requests : req[u].pc = "credit" /\ req[u].emp = e /\ req[u].year = y
  PROVE  <<e, y>> \in Credited(e, Y)
<1>1. <<e, y>> \in {e} \X {z \in Years : z - 1 \in Y}
  OBVIOUS
<1> QED
  BY <1>1 DEF Credited

\* Leave that is filed adds to the annual leave of its own years only, and only of
\* whoever took it.
LEMMA FilingSame ==
  ASSUME Recorded, NEW l \in Leaves, status[l] # "filed", status'[l] = "filed",
         leave' = leave, carried' = carried,
         \A m \in Leaves \ {l} : ledger'[m] = ledger[m] /\ status'[m] = status[m],
         NEW e, NEW y \in Int,
         \/ leave[l].emp # e \/ leave[l].type # "annual"
         \/ y \notin {p.year : p \in ledger'[l]}
  PROVE  AnnualDays(e, y)' = AnnualDays(e, y)
<1> DEFINE sums == [m \in Leaves |-> SumFunctionOnSet([p \in ledger[m] |-> p.days],
                                                      {p \in ledger[m] : p.year = y})]
           sumsNext == [m \in Leaves |-> SumFunctionOnSet([p \in ledger'[m] |-> p.days],
                                                      {p \in ledger'[m] : p.year = y})]
           S == {m \in Leaves : AnnualEntries(m, e)}
           SNext == {m \in Leaves : AnnualEntries(m, e)'}
<1>1. AnnualDays(e, y) = SumFunctionOnSet(sums, S)
      /\ AnnualDays(e, y)' = SumFunctionOnSet(sumsNext, SNext)
  BY DEF AnnualDays
<1>2. ledger[l] = {} /\ l \notin S
  BY DEF Recorded, AnnualEntries
<1>3. \A m \in Leaves \ {l} : m \in SNext <=> m \in S
  BY DEF AnnualEntries
<1>4. \A m \in Leaves \ {l} : sumsNext[m] = sums[m]
  OBVIOUS
<1>5. S \subseteq Leaves /\ SNext \subseteq Leaves
  OBVIOUS
<1>6. \A m \in S : sums[m] \in Int
  <2> SUFFICES ASSUME NEW m \in S
               PROVE  SumFunctionOnSet([p \in ledger[m] |-> p.days], {p \in ledger[m] : p.year = y}) \in Int
    OBVIOUS
  <2>1. status[m] = "filed"
    BY DEF Recorded, AnnualEntries
  <2> QED
    BY <2>1, FiledSum
<1>7. IsFiniteSet(S)
  <2>1. S \subseteq {m \in Leaves : status[m] # "none"}
    BY DEF Recorded, AnnualEntries
  <2> HIDE DEF S
  <2> QED BY <2>1, FS_Subset DEF Recorded
<1>8. CASE l \notin SNext
  <2>1. SNext = S
    BY <1>2, <1>3, <1>5, <1>8
  <2>2. \A m \in S : sumsNext[m] = sums[m]
    BY <1>2, <1>4, <1>5
  <2> HIDE DEF S, SNext, sums, sumsNext
  <2> QED
    BY <1>1, <1>7, <2>1, <2>2, SumCong
<1>9. CASE l \in SNext
  <2>1. {p \in ledger'[l] : p.year = y} = {}
    BY <1>9 DEF AnnualEntries
  <2>2. sumsNext[l] = 0
    BY <2>1, SumEmpty
  <2>3. SNext \ {l} = S /\ SNext = S \cup {l}
    BY <1>2, <1>3, <1>5, <1>9
  <2>4. \A m \in S : sumsNext[m] = sums[m]
    BY <1>2, <1>4, <1>5
  <2> HIDE DEF S, SNext, sums, sumsNext
  <2>5. IsFiniteSet(SNext) /\ \A m \in SNext : sumsNext[m] \in Int
    BY <1>6, <1>7, <2>2, <2>3, <2>4, FS_AddElement
  <2>6. SumFunctionOnSet(sumsNext, SNext) = 0 + SumFunctionOnSet(sumsNext, S)
    BY <1>9, <2>2, <2>3, <2>5, SumRemove
  <2>7. SumFunctionOnSet(sumsNext, S) = SumFunctionOnSet(sums, S)
    BY <1>7, <2>4, SumCong
  <2>8. SumFunctionOnSet(sums, S) \in Int
    BY <1>6, <1>7, SumInt
  <2> QED
    BY <1>1, <2>6, <2>7, <2>8
<1> QED
  BY <1>8, <1>9

\* A move keeps the promise of the ledger: what is filed is entered by years.
LEMMA MoveWriteKeeps ==
  ASSUME RegisterInv, NEW t \in Requests, MoveWrite(t)
  PROVE  /\ RegisterInv'
         /\ \/ UNCHANGED rows
            \/ Register!Move(req[t].leave, req[t].to) /\ req[t].leave \in Leaves
                 /\ req[t].to \in Statuses
<1> SUFFICES ASSUME NEW l, l = req[t].leave, NEW to, to = req[t].to
             PROVE  /\ RegisterInv'
                    /\ \/ UNCHANGED rows
                       \/ Register!Move(l, to) /\ l \in Leaves /\ to \in Statuses
  OBVIOUS
<1>1. /\ req[t].pc = "move" /\ UNCHANGED <<leave, carried, crossed>>
      /\ req' = [req EXCEPT ![t] = Idle]
      /\ IF status[l] = MoveFrom(to) THEN Moves(t) ELSE UNCHANGED <<status, ledger, late>>
  BY DEF MoveWrite, Finish
<1>2. l \in Leaves /\ to \in Statuses \ {"pending"}
  BY <1>1 DEF RegisterInv, Remembered
<1>3. CASE status[l] # MoveFrom(to)
  BY <1>1, <1>3, BackToIdle DEF rows, Finish
<1>4. CASE status[l] = MoveFrom(to)
  <2> DEFINE parts == SplitByYear(leave[l].start, leave[l].days)
             Y == {p.year : p \in parts}
  <2>1. /\ status' = [status EXCEPT ![l] = to]
        /\ IF to = "filed"
             THEN /\ ledger' = [ledger EXCEPT ![l] = parts]
                  /\ late' = IF leave[l].type = "annual"
                               THEN late \cup Credited(leave[l].emp, Y) ELSE late
             ELSE UNCHANGED <<ledger, late>>
    BY <1>1, <1>4 DEF Moves
  <2>2. /\ leave[l] \in Inputs /\ leave[l].days \in 1..Cap[leave[l].type]
        /\ leave[l].emp \in People /\ leave[l].type \in DOMAIN Cap
        /\ status[l] # "none" /\ status[l] # "filed"
    BY <1>2, <1>4, LeaveAssumption DEF RegisterInv, Recorded, MoveFrom
  <2>3. /\ leave[l].start \in Nat /\ leave[l].days \in Nat /\ leave[l].days >= 1
        /\ leave[l].days <= MAX_REQUEST_DAYS
    <3>1. Cap[leave[l].type] \in 1..MAX_REQUEST_DAYS
      BY <2>2, CapNat
    <3>2. leave[l].start \in Nat
      BY <2>2, LeaveAssumption
    <3> QED BY <2>2, <3>1, <3>2 DEF MAX_REQUEST_DAYS
  <2>4. parts = Register!Shares(leave[l]) /\ parts = Parts(leave[l].start, leave[l].days)
    BY <2>3, SplitIsParts, SameParts
  <2>5. parts \subseteq [year : Int, days : 1..MAX_REQUEST_DAYS]
    <3>1. Parts(leave[l].start, leave[l].days) \subseteq [year : Int, days : 1..leave[l].days]
      BY <2>3, PartsType
    <3>2. 1..leave[l].days \subseteq 1..MAX_REQUEST_DAYS
      BY <2>3 DEF MAX_REQUEST_DAYS
    <3> HIDE DEF parts
    <3> QED BY <2>4, <3>1, <3>2
  <2> HIDE DEF parts
  <2>6. Register!Move(l, to)
    BY <1>1, <1>2, <1>4, <2>1, <2>4
       DEF Register!Move, MoveFrom, Statuses, TRANSITIONS, Register!Statuses, Register!TRANSITIONS
  <2>7. /\ status' \in [Leaves -> Statuses \cup {"none"}] /\ status'[l] = to
        /\ \A m \in Leaves \ {l} : status'[m] = status[m]
        /\ \A m \in Leaves : status'[m] = "none" <=> status[m] = "none"
    BY <1>2, <2>1, <2>2 DEF RegisterInv, TypeOK, Statuses, TRANSITIONS
  <2>8. /\ ledger' = [m \in Leaves |-> ledger'[m]]
        /\ \A m \in Leaves \ {l} : ledger'[m] = ledger[m]
        /\ ledger'[l] = IF to = "filed" THEN parts ELSE {}
    BY <1>2, <2>1, <2>2 DEF RegisterInv, Recorded
  <2>9. /\ req' \in [Requests -> RequestType] /\ req'[t] = Idle
        /\ \A u \in Requests \ {t} : req'[u] = req[u]
    BY <1>1, IdleIs DEF RegisterInv, TypeOK, RequestType
  <2>10. late \subseteq late' /\ late' \subseteq People \X Years
    <3>1. Credited(leave[l].emp, Y) \subseteq People \X Years
      BY <2>2 DEF Credited
    <3> QED BY <2>1, <3>1 DEF RegisterInv, TypeOK
  <2>11. TypeOK'
    BY <1>1, <2>5, <2>7, <2>8, <2>9, <2>10 DEF RegisterInv, TypeOK, RequestType
  <2>12. Recorded'
    <3>1. {m \in Leaves : status'[m] # "none"} = {m \in Leaves : status[m] # "none"}
      BY <2>7
    <3>2. IsFiniteSet({m \in Leaves : status'[m] # "none"})
      BY <3>1 DEF RegisterInv, Recorded
    <3>3. ASSUME NEW m \in Leaves
          PROVE  /\ status'[m] # "none" =>
                      leave'[m] \in Inputs /\ leave'[m].days \in 1..Cap[leave'[m].type]
                 /\ ledger'[m] = IF status'[m] = "filed" THEN Register!Shares(leave'[m]) ELSE {}
      BY <1>1, <2>4, <2>7, <2>8 DEF RegisterInv, Recorded
    <3> QED
      BY <2>8, <3>2, <3>3 DEF Recorded, Register!Shares, Register!DaysIn
  <2>13. Reserved'
    <3> SUFFICES ASSUME NEW u \in Requests, req'[u].pc \in RaisePcs
                 PROVE  /\ status'[req'[u].leave] = "none"
                        /\ \A v \in Requests \ {u} : req'[v].leave # req'[u].leave
      BY DEF Reserved
    <3>1. u # t /\ req'[u] = req[u]
      BY <2>9 DEF Idle, RaisePcs
    <3>2. /\ req[u].leave \in Leaves /\ status[req[u].leave] = "none"
          /\ \A v \in Requests \ {u} : req[v].leave # req[u].leave
      BY <3>1 DEF RegisterInv, Reserved, Remembered
    <3>3. Idle.leave # req[u].leave
      BY <3>2, LeaveAssumption DEF Idle
    <3> QED
      BY <2>7, <2>9, <3>1, <3>2, <3>3
  <2>14. ASSUME NEW e \in People, NEW y \in Years, <<e, y>> \notin late',
                carried[e][y] # 0
                  \/ \E u \in Requests : req[u].pc = "credit" /\ req[u].emp = e /\ req[u].year = y
         PROVE  Unused(e, y)' = Unused(e, y)
    <3>1. CASE to # "filed"
      BY <1>1, <2>1, <3>1, UnusedSame
    <3>2. CASE to = "filed"
      <4>1. \/ leave[l].emp # e \/ leave[l].type # "annual"
            \/ y - 1 \notin Y
        BY <2>1, <2>14, <3>2, CreditedLate
      <4>2. y - 1 \in Int
        BY LeaveAssumption
      <4>3. AnnualDays(e, y - 1)' = AnnualDays(e, y - 1)
        <5>1. \/ leave[l].emp # e \/ leave[l].type # "annual"
              \/ y - 1 \notin {p.year : p \in ledger'[l]}
          BY <2>8, <3>2, <4>1
        <5>2. Recorded /\ status[l] # "filed" /\ status'[l] = "filed"
          BY <2>2, <2>7, <3>2 DEF RegisterInv
        <5> HIDE DEF Y
        <5> QED
          BY <1>1, <1>2, <2>7, <2>8, <4>2, <5>1, <5>2, FilingSame
      <4> QED
        BY <1>1, <4>3 DEF Unused
    <3> QED BY <3>1, <3>2
  <2>15. Timely'
    <3>1. ASSUME NEW u \in Requests \ {t}, req[u].pc = "credit",
                 NEW e, e = req[u].emp, NEW y, y = req[u].year, <<e, y>> \notin late'
          PROVE  req[u].days = Unused(e, y)'
      <4>1. e \in People /\ y \in Years
        BY <3>1 DEF RegisterInv, Remembered
      <4>2. req[u].days = Unused(e, y)
        BY <2>10, <3>1 DEF RegisterInv, Timely
      <4> QED
        BY <2>14, <3>1, <4>1, <4>2
    <3>2. ASSUME NEW e \in People, NEW y \in Years, carried'[e][y] # 0, <<e, y>> \notin late'
          PROVE  carried'[e][y] = Unused(e, y)'
      BY <1>1, <2>10, <2>14, <3>2 DEF RegisterInv, Timely
    <3>3. Idle.pc = "idle"
      BY DEF Idle
    <3> QED
      BY <2>9, <3>1, <3>2, <3>3 DEF Timely
  <2>16. \A u \in Requests : Remembered(req[u])'
    BY <2>9, IdleIs DEF RegisterInv, Remembered
  <2> QED
    BY <1>2, <2>6, <2>11, <2>12, <2>13, <2>15, <2>16 DEF RegisterInv
<1> QED
  BY <1>3, <1>4

\* A credit is entered once, within the cap, and makes late what was computed from the
\* balance it changes.
LEMMA CarryWriteKeeps ==
  ASSUME RegisterInv, NEW t \in Requests, CarryWrite(t)
  PROVE  /\ RegisterInv'
         /\ \/ UNCHANGED rows
            \/ \E e \in People, y \in Years, d \in 1..CARRY_CAP : Register!Credit(e, y, d)
<1> SUFFICES ASSUME NEW e, e = req[t].emp, NEW y, y = req[t].year, NEW d, d = req[t].days
             PROVE  /\ RegisterInv'
                    /\ \/ UNCHANGED rows
                       \/ \E f \in People, z \in Years, c \in 1..CARRY_CAP :
                            Register!Credit(f, z, c)
  OBVIOUS
<1>1. /\ req[t].pc = "credit" /\ UNCHANGED <<leave, status, ledger, crossed>>
      /\ IF carried[e][y] = 0 THEN Credits(t) ELSE Finish(t) /\ UNCHANGED <<carried, late>>
  BY DEF CarryWrite
<1>2. e \in People /\ y \in Years /\ d # 0 /\ d \in 0..CARRY_CAP /\ req[t] \in RequestType
  BY <1>1 DEF RegisterInv, Remembered, TypeOK, RequestType
<1>3. CASE carried[e][y] # 0
  BY <1>1, <1>3, BackToIdle DEF rows
<1>4. CASE carried[e][y] = 0
  <2> DEFINE r == [req[t] EXCEPT !.pc = "person", !.emp = NoPerson, !.days = 0]
  <2>1. /\ carried' = [carried EXCEPT ![e][y] = @ + d]
        /\ late' = late \cup Credited(e, {y})
        /\ req' = [req EXCEPT ![t] = r]
    BY <1>1, <1>4 DEF Credits
  <2>2. d \in 1..CARRY_CAP /\ d \in Int
    BY <1>2 DEF CARRY_CAP
  <2>3. carried \in [People -> [Years -> 0..CARRY_CAP]]
    BY DEF RegisterInv, TypeOK
  <2>4. carried' = [carried EXCEPT ![e][y] = d]
    <3>1. carried[e][y] + d = d
      BY <1>4, <2>2
    <3>2. carried' = [carried EXCEPT ![e] = [carried[e] EXCEPT ![y] = carried[e][y] + d]]
      BY <2>1
    <3> QED BY <3>1, <3>2
  <2>5. Register!Credit(e, y, d)
    BY <1>1, <1>4, <2>4 DEF Register!Credit
  <2>6. /\ carried' \in [People -> [Years -> 0..CARRY_CAP]] /\ carried'[e][y] = d
        /\ \A f \in People, z \in Years : f # e \/ z # y => carried'[f][z] = carried[f][z]
    BY <1>2, <2>3, <2>4
  <2>7. r \in RequestType /\ r.pc = "person" /\ r.leave = req[t].leave /\ r.year = y
    <3>1. 0 \in 0..CARRY_CAP /\ NoPerson \in People \cup {NoPerson}
      BY DEF CARRY_CAP
    <3>2. r.pc = "person" /\ r.leave = req[t].leave /\ r.year = req[t].year
      BY <1>2 DEF RequestType
    <3> QED BY <1>2, <3>1, <3>2 DEF RequestType
  <2>8. Remembered(r)
    BY <1>2, <2>7 DEF Remembered, RaisePcs
  <2> HIDE DEF r
  <2>9. /\ req' \in [Requests -> RequestType] /\ req'[t] = r
        /\ \A u \in Requests \ {t} : req'[u] = req[u]
    BY <2>1, <2>7 DEF RegisterInv, TypeOK, RequestType
  <2>10. late \subseteq late' /\ late' \subseteq People \X Years
    <3>1. Credited(e, {y}) \subseteq People \X Years
      BY <1>2 DEF Credited
    <3> QED BY <2>1, <3>1 DEF RegisterInv, TypeOK
  <2>11. TypeOK'
    BY <1>1, <2>6, <2>9, <2>10 DEF RegisterInv, TypeOK, RequestType
  <2>12. Recorded'
    BY <1>1 DEF RegisterInv, Recorded, Register!Shares, Register!DaysIn
  <2>13. Reserved'
    BY <1>1, <2>7, <2>9 DEF RegisterInv, Reserved, RaisePcs
  <2>14. ASSUME NEW f \in People, NEW z \in Years, <<f, z>> \notin late',
                carried[f][z] # 0
                  \/ \E u \in Requests : req[u].pc = "credit" /\ req[u].emp = f /\ req[u].year = z
         PROVE  Unused(f, z)' = Unused(f, z)
    <3>1. f # e \/ z - 1 # y
      BY <2>1, <2>14, CreditedLate
    <3>2. (IF z - 1 \in Years THEN carried[f][z - 1] ELSE 0)'
            = IF z - 1 \in Years THEN carried[f][z - 1] ELSE 0
      BY <2>6, <3>1
    <3>3. AnnualDays(f, z - 1)' = AnnualDays(f, z - 1)
      BY <1>1 DEF AnnualDays, AnnualEntries
    <3> QED
      BY <3>2, <3>3 DEF Unused
  <2>15. Timely'
    <3>1. ASSUME NEW u \in Requests \ {t}, req[u].pc = "credit",
                 NEW f, f = req[u].emp, NEW z, z = req[u].year, <<f, z>> \notin late'
          PROVE  req[u].days = Unused(f, z)'
      <4>1. f \in People /\ z \in Years
        BY <3>1 DEF RegisterInv, Remembered
      <4>2. req[u].days = Unused(f, z)
        BY <2>10, <3>1 DEF RegisterInv, Timely
      <4> QED
        BY <2>14, <3>1, <4>1, <4>2
    <3>2. ASSUME NEW f \in People, NEW z \in Years, carried'[f][z] # 0, <<f, z>> \notin late'
          PROVE  carried'[f][z] = Unused(f, z)'
      <4>1. CASE f = e /\ z = y
        <5>1. d = Unused(f, z)
          BY <1>1, <2>10, <3>2, <4>1 DEF RegisterInv, Timely
        <5>2. Unused(f, z)' = Unused(f, z)
          BY <1>1, <2>14, <3>2, <4>1
        <5> QED BY <2>6, <4>1, <5>1, <5>2
      <4>2. CASE f # e \/ z # y
        <5>1. carried'[f][z] = carried[f][z]
          BY <2>6, <4>2
        <5>2. carried[f][z] = Unused(f, z)
          BY <2>10, <3>2, <5>1 DEF RegisterInv, Timely
        <5> QED BY <2>14, <3>2, <5>1, <5>2
      <4> QED BY <4>1, <4>2
    <3> QED
      BY <2>7, <2>9, <3>1, <3>2 DEF Timely
  <2>16. \A u \in Requests : Remembered(req[u])'
    BY <2>8, <2>9 DEF RegisterInv, Remembered
  <2> QED
    BY <1>2, <2>2, <2>5, <2>11, <2>12, <2>13, <2>15, <2>16 DEF RegisterInv
<1> QED
  BY <1>3, <1>4

\* It holds at the start, which is the register's.
LEMMA RegisterInitially == Init => RegisterInv /\ Register!Init
<1> SUFFICES ASSUME Init PROVE RegisterInv /\ Register!Init
  OBVIOUS
<1>1. /\ Register!Init
      /\ leave = [l \in Leaves |-> NotRaised] /\ status = [l \in Leaves |-> "none"]
      /\ ledger = [l \in Leaves |-> {}] /\ carried = [e \in People |-> [y \in Years |-> 0]]
      /\ req = [t \in Requests |-> Idle] /\ crossed = {} /\ late = {}
  BY DEF Init, Register!Init
<1>2. Idle.pc = "idle"
  BY DEF Idle
<1>3. TypeOK
  BY <1>1, IdleIs DEF TypeOK, RequestType, CARRY_CAP
<1>4. Recorded
  <2>1. {l \in Leaves : status[l] # "none"} = {}
    BY <1>1
  <2>2. IsFiniteSet({l \in Leaves : status[l] # "none"})
    BY <2>1, FS_EmptySet
  <2> QED BY <1>1, <2>2 DEF Recorded
<1>5. Reserved /\ Timely
  BY <1>1, <1>2 DEF Reserved, Timely, RaisePcs
<1>6. \A t \in Requests : Remembered(req[t])
  BY <1>1, IdleIs
<1> QED
  BY <1>1, <1>3, <1>4, <1>5, <1>6 DEF RegisterInv

\* What a step keeps, and what it is to the register.
LEMMA RegisterStep == RegisterInv /\ [Next]_vars => RegisterInv' /\ [Register!Next]_(Register!vars)
<1> SUFFICES ASSUME RegisterInv, [Next]_vars PROVE RegisterInv' /\ [Register!Next]_(Register!vars)
  OBVIOUS
<1>1. ASSUME UNCHANGED rows PROVE [Register!Next]_(Register!vars)
  BY <1>1 DEF rows, Register!vars
<1>2. CASE UNCHANGED vars
  <2>1. UNCHANGED <<leave, status, ledger, carried, req, crossed, late>>
    BY <1>2 DEF vars
  <2>2. \A e, y : Unused(e, y)' = Unused(e, y)
    BY <2>1, UnusedSame
  <2>3. Recorded' /\ Reserved' /\ TypeOK'
    BY <2>1 DEF RegisterInv, Recorded, Reserved, TypeOK, Register!Shares, Register!DaysIn
  <2>4. Timely' /\ \A t \in Requests : Remembered(req[t])'
    BY <2>1, <2>2 DEF RegisterInv, Timely, Remembered
  <2> QED
    BY <1>1, <2>1, <2>3, <2>4 DEF RegisterInv, rows
<1>3. ASSUME NEW t \in Requests, NEW l \in Leaves, NEW i \in Inputs, RaiseRead(t, l, i)
      PROVE  RegisterInv' /\ UNCHANGED rows
  BY <1>3, RaiseReadKeeps DEF RaiseRead
<1>4. ASSUME NEW t \in Requests, RaiseCheck(t) PROVE RegisterInv' /\ UNCHANGED rows
  BY <1>4, RaiseCheckKeeps DEF RaiseCheck
<1>5. ASSUME NEW t \in Requests, NEW l \in Leaves, NEW to \in Statuses \ {"pending"},
             MoveRead(t, l, to)
      PROVE  RegisterInv' /\ UNCHANGED rows
  BY <1>5, MoveReadKeeps DEF MoveRead
<1>6. ASSUME NEW t \in Requests, NEW list \in Lists, NEW y \in Years, CarryStart(t, list, y)
      PROVE  RegisterInv' /\ UNCHANGED rows
  BY <1>6, CarryStartKeeps DEF CarryStart
<1>7. ASSUME NEW t \in Requests, CarryRead(t) PROVE RegisterInv' /\ UNCHANGED rows
  BY <1>7, CarryReadKeeps DEF CarryRead
<1>8. ASSUME NEW t \in Requests, CarryDone(t) \/ Fail(t) PROVE RegisterInv' /\ UNCHANGED rows
  BY <1>8, BackToIdle DEF CarryDone, Fail
<1>9. ASSUME NEW t \in Requests, RaiseInsert(t)
      PROVE  RegisterInv' /\ Register!Next
  <2>1. req[t].leave \in Leaves /\ req[t].input \in Inputs
    BY <1>9 DEF RaiseInsert, RegisterInv, Remembered, RaisePcs
  <2> QED BY <1>9, <2>1, RaiseInsertKeeps DEF Register!Next
<1>10. ASSUME NEW t \in Requests, MoveWrite(t)
       PROVE  RegisterInv' /\ (UNCHANGED rows \/ Register!Next)
  <2>1. Register!Statuses = Statuses
    BY DEF Register!Statuses, Statuses, Register!TRANSITIONS, TRANSITIONS
  <2> QED BY <1>10, <2>1, MoveWriteKeeps DEF Register!Next
<1>11. ASSUME NEW t \in Requests, CarryWrite(t)
       PROVE  RegisterInv' /\ (UNCHANGED rows \/ Register!Next)
  <2>1. Register!CARRY_CAP = CARRY_CAP
    BY DEF Register!CARRY_CAP, CARRY_CAP
  <2> QED BY <1>11, <2>1, CarryWriteKeeps DEF Register!Next
<1> QED
  BY <1>1, <1>2, <1>3, <1>4, <1>5, <1>6, <1>7, <1>8, <1>9, <1>10, <1>11 DEF Next

\* The rows, what requests have read and the history are of their types, the ledger's entries
\* of 1 to 365 days and the balances carried within the cap of 10.
THEOREM LeaveTyping == Spec => []TypeOK
<1>1. RegisterInv => TypeOK
  BY DEF RegisterInv
<1> QED
  BY RegisterInitially, RegisterStep, <1>1, PTL DEF Spec

\* splitByYear and the transaction of a filing: what is filed is charged in full, once,
\* however many years it touches, and nothing else is charged.
THEOREM LedgerAddsUpProved == Spec => []LedgerAddsUp
<1>1. RegisterInv => LedgerAddsUp
  <2> SUFFICES ASSUME RegisterInv, NEW l \in Leaves
               PROVE  SumFunctionOnSet([p \in ledger[l] |-> p.days], ledger[l])
                        = IF status[l] = "filed" THEN leave[l].days ELSE 0
    BY DEF LedgerAddsUp
  <2>1. Recorded
    BY DEF RegisterInv
  <2>2. CASE status[l] = "filed"
    <3>1. /\ leave[l].start \in Nat /\ leave[l].days \in Nat /\ leave[l].days >= 1
          /\ ledger[l] = Parts(leave[l].start, leave[l].days)
      BY <2>1, <2>2, FiledParts
    <3>2. ledger[l] = SplitByYear(leave[l].start, leave[l].days)
      BY <3>1, SplitIsParts
    <3> QED
      BY <2>2, <3>1, <3>2, SplitTotal
  <2>3. CASE status[l] # "filed"
    BY <2>1, <2>3, SumEmpty DEF Recorded
  <2> QED
    BY <2>2, <2>3
<1> QED
  BY RegisterInitially, RegisterStep, <1>1, PTL DEF Spec

\* "What the year before left unused ... at most 10 days, never negative"
\* (leave-carry-over.service.ts): a balance carried is that, by the days of the filed
\* leave itself, unless annual leave or a credit of that year came after it was computed.
THEOREM CarriedIsUnusedProved == Spec => []CarriedIsUnused
<1>1. RegisterInv => CarriedIsUnused
  BY TimelyIsUnused DEF RegisterInv
<1> QED
  BY RegisterInitially, RegisterStep, <1>1, PTL DEF Spec

\* Whatever interleaves and fails, the transactions of leave.service.ts and
\* leave-carry-over.service.ts are the indivisible steps of the register: moved once,
\* entered in the ledger by years as they are filed, credited once a year.
THEOREM RegisterImplemented == Spec => ImplementsRegister
BY RegisterInitially, RegisterStep, PTL DEF Spec, ImplementsRegister, Register!Spec
=============================================================================
