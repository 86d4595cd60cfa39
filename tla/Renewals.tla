------------------------------ MODULE Renewals ------------------------------
(***************************************************************************)
(* Documents nearing expiry, the GRO procedures that renew them, and the   *)
(* expiry dates a completed procedure writes back: the daily scan of       *)
(* Document expiry, its event's handler in GRO, the procedures' own        *)
(* transactions at READ COMMITTED, and the removal of a dependant, which   *)
(* cancels the renewal opened for them.                                    *)
(*                                                                         *)
(* One procedure type stands for each person: the renewal of their own     *)
(* residence permit.  Left out: assignees, notifications, the fields       *)
(* nothing reads, the deletion of a document.                              *)
(***************************************************************************)
EXTENDS Integers, Sequences, FiniteSets

CONSTANTS
  Employees, Dependants,
  Documents,   \* the documents on file that have an expiry date, in order of it
  Expiry,      \* Expiry[d]: the day document d expires
  EmployeeOf,  \* EmployeeOf[d]: whom d is of, or NoOne
  Renewable,   \* those whose category maps to a procedure
  Days,        \* the days that are looked at
  Dates,       \* expiry dates of a permit
  Procedures,  \* bound: ids of procedures
  Handlers,
  NoOne, NoDocument, NoProcedure, NoDate

Papers == {Documents[k] : k \in 1..Len(Documents)}
People == Employees \cup Dependants

ASSUME RenewalsAssumption ==
  /\ Documents \in Seq(Papers) /\ Expiry \in [Papers -> Int]
  /\ \A j, k \in 1..Len(Documents) : j <= k => Expiry[Documents[j]] <= Expiry[Documents[k]]
  /\ EmployeeOf \in [Papers -> Employees \cup {NoOne}] /\ Renewable \subseteq Papers
  /\ Days \subseteq Int /\ Days # {} /\ NoDate \notin Dates
  /\ Employees \cap Dependants = {} /\ NoOne \notin People
  /\ NoDocument \notin Papers /\ NoProcedure \notin Procedures

VARIABLES
  claimed,    \* claimed[d]: the tiers of d in exp_alerts
  proc,       \* proc[p]: the row of procedure p
  expiry,     \* expiry[x]: the expiry on the record of person x
  removed,    \* the dependants taken off file
  day,        \* today
  req,        \* req[t]: where handler t is, and what it has read
  alerts,     \* history: alerts[d][n], how often d was announced at tier n
  renewed,    \* history: renewed[x], the date last entered, by a completion or by hand
  disturbed,  \* history: documents and people two handlers were at work on at once,
              \* or whose handler stopped after a commit
  overtaken   \* history: people for whom a date was entered while the write of an
              \* earlier one was still to come, or whose write never came

hist == <<alerts, renewed, disturbed, overtaken>>
vars == <<claimed, proc, expiry, removed, day, req, hist>>

\* A procedure for x, opened by hand or because of document d.
Opened(status, x, d) == [status |-> status, for |-> x, source |-> d, result |-> NoDate]
NotOpened == Opened("none", NoOne, NoDocument)

\* A scan as of a day: which document is next, and the tier it claimed of it.
Scanning(pc, asOf, next, tier) ==
  [pc |-> pc, asOf |-> asOf, next |-> next, tier |-> tier,
   for |-> NoOne, proc |-> NoProcedure, to |-> "none", date |-> NoDate]
\* A handler at work on person x: the procedure, the status and the date it is about.
Acting(pc, x, p, to, date) ==
  [pc |-> pc, asOf |-> 0, next |-> 0, tier |-> 0,
   for |-> x, proc |-> p, to |-> to, date |-> date]
Idle == Acting("idle", NoOne, NoProcedure, "none", NoDate)

-----------------------------------------------------------------------------
(* Warning tiers and the procedures' workflow                              *)

EXPIRY_THRESHOLDS == {0, 1, 7, 14, 30, 60}
MAX_THRESHOLD == 60

\* The smallest tier already reached, of a date no further off than the widest.
TierFor(days) ==
  CHOOSE n \in EXPIRY_THRESHOLDS :
    days <= n /\ \A m \in EXPIRY_THRESHOLDS : days <= m => n <= m

\* Mutant: a rejected procedure can only be resumed.
TRANSITIONS_Rejected == [
  none |-> {}, not_started |-> {"in_progress", "cancelled"},
  in_progress |-> {"submitted", "cancelled"},
  submitted |-> {"approved", "rejected", "cancelled"},
  approved |-> {"completed", "cancelled"}, rejected |-> {"in_progress"},
  completed |-> {}, cancelled |-> {}]

TRANSITIONS == [
  none |-> {}, not_started |-> {"in_progress", "cancelled"},
  in_progress |-> {"submitted", "cancelled"},
  submitted |-> {"approved", "rejected", "cancelled"},
  approved |-> {"completed", "cancelled"}, rejected |-> {"in_progress", "cancelled"},
  completed |-> {}, cancelled |-> {}]

Statuses == DOMAIN TRANSITIONS \ {"none"}
Finished == {"completed", "cancelled"}

IsOpen(p) == proc[p].status \in Statuses \ Finished
OpenFor(x) == {p \in Procedures : IsOpen(p) /\ proc[p].for = x}

\* gro_processes_one_open_per_dependant: p may be open for x.
IndexAllows(p, x) == x \in Dependants => OpenFor(x) \subseteq {p}

-----------------------------------------------------------------------------
Init ==
  /\ claimed = [d \in Papers |-> {}]
  /\ proc = [p \in Procedures |-> NotOpened]
  /\ expiry \in [People -> Dates]
  /\ removed = {}
  /\ day \in Days
  /\ req = [t \in Handlers |-> Idle]
  /\ alerts = [d \in Papers |-> [n \in EXPIRY_THRESHOLDS |-> 0]]
  /\ renewed = expiry /\ disturbed = {} /\ overtaken = {}

Finish(t) == req' = [req EXCEPT ![t] = Idle]

AtWorkOn(t, x) == req[t].for = x
\* Handlers that have yet to write, on the record of x, the date of a completion.
Writing(x) == {t \in Handlers : AtWorkOn(t, x) /\ req[t].pc \in {"effect", "write"}}
Overtakes(x) == overtaken' = IF Writing(x) # {} THEN overtaken \cup {x} ELSE overtaken
\* A handler starts on person r.for.
Begin(t, r) ==
  /\ req[t] = Idle
  /\ req' = [req EXCEPT ![t] = r]
  /\ disturbed' = IF \E u \in Handlers : AtWorkOn(u, r.for) THEN disturbed \cup {r.for} ELSE disturbed

Insert(p, x, d) ==
  /\ proc[p].status = "none"
  /\ proc' = [proc EXCEPT ![p] = Opened("not_started", x, d)]

-----------------------------------------------------------------------------
(* The scan: the daily job, or run by hand                                 *)

\* The documents within the horizon are a first part of the list, as of today.
Scan(t) ==
  /\ req[t] = Idle
  /\ req' = [req EXCEPT ![t] = Scanning("scan", day, 1, 0)]
  /\ UNCHANGED <<claimed, proc, expiry, removed, day, hist>>

Listed(t) ==
  /\ req[t].next \in 1..Len(Documents)
  /\ Expiry[Documents[req[t].next]] <= req[t].asOf + MAX_THRESHOLD
Doc(t) == Documents[req[t].next]
Tier(t) == TierFor(Expiry[Doc(t)] - req[t].asOf)

\* On to the next document.
Skip(t) == req' = [req EXCEPT ![t] = Scanning("scan", @.asOf, @.next + 1, 0)]

\* Handlers of alerts of d.
Alerting(d) == {u \in Handlers : req[u].pc \in {"publish", "open"} /\ Doc(u) = d}

TakeTier(t) ==
  /\ claimed' = [claimed EXCEPT ![Doc(t)] = @ \cup {Tier(t)}]
  /\ req' = [req EXCEPT ![t] = Scanning("publish", @.asOf, @.next, Tier(t))]
  /\ disturbed' = IF Alerting(Doc(t)) # {} THEN disturbed \cup {Doc(t)} ELSE disturbed

\* Mutant: the unique index on (document, tier) is missing.
Claim_NoIndex(t) ==
  /\ req[t].pc = "scan" /\ Listed(t)
  /\ TakeTier(t)
  /\ UNCHANGED <<proc, expiry, removed, day, alerts, renewed, overtaken>>

\* The tier of the next document is claimed first; one already claimed is passed over.
Claim(t) ==
  /\ req[t].pc = "scan" /\ Listed(t)
  /\ IF Tier(t) \in claimed[Doc(t)] THEN Skip(t) /\ UNCHANGED <<claimed, disturbed>> ELSE TakeTier(t)
  /\ UNCHANGED <<proc, expiry, removed, day, alerts, renewed, overtaken>>

\* Mutant: a finished procedure of the document does not count.
ExistsForDocument_Open(d) == \E p \in Procedures : IsOpen(p) /\ proc[p].source = d

ExistsForDocument(d) == \E p \in Procedures : proc[p].source = d

\* Mutant: whether the document is linked to an employee is not looked at.
Opens_Unlinked(d) == d \in Renewable /\ ~ExistsForDocument(d)

\* A renewal is opened for a category that maps to one, of an employee, the first time.
Opens(d) == d \in Renewable /\ EmployeeOf[d] # NoOne /\ ~ExistsForDocument(d)

\* DocumentExpiring is published; GRO's handler looks for a procedure of the document.
Publish(t) ==
  /\ req[t].pc = "publish"
  /\ alerts' = [alerts EXCEPT ![Doc(t)][req[t].tier] = @ + 1]
  /\ IF Opens(Doc(t))
       THEN req' = [req EXCEPT ![t] = Scanning("open", @.asOf, @.next, @.tier)] ELSE Skip(t)
  /\ UNCHANGED <<claimed, proc, expiry, removed, day, renewed, disturbed, overtaken>>

OpenForDocument(t, p) ==
  /\ req[t].pc = "open"
  /\ Insert(p, EmployeeOf[Doc(t)], Doc(t))
  /\ Skip(t)
  /\ UNCHANGED <<claimed, expiry, removed, day, hist>>

ScanDone(t) ==
  /\ req[t].pc = "scan" /\ ~Listed(t)
  /\ Finish(t)
  /\ UNCHANGED <<claimed, proc, expiry, removed, day, hist>>

-----------------------------------------------------------------------------
(* Procedures                                                              *)

\* assertDependant, for a dependant.
CreateRead(t, x) ==
  /\ x \notin removed
  /\ Begin(t, Acting("create", x, NoProcedure, "none", NoDate))
  /\ UNCHANGED <<claimed, proc, expiry, removed, day, alerts, renewed, overtaken>>

\* Mutant: the partial unique index is missing.
CreateInsert_NoIndex(t, p) ==
  /\ req[t].pc = "create"
  /\ Insert(p, req[t].for, NoDocument) /\ Finish(t)
  /\ UNCHANGED <<claimed, expiry, removed, day, hist>>

CreateInsert(t, p) ==
  /\ req[t].pc = "create"
  /\ IF IndexAllows(p, req[t].for)
       THEN Insert(p, req[t].for, NoDocument)
       ELSE UNCHANGED proc
  /\ Finish(t)
  /\ UNCHANGED <<claimed, expiry, removed, day, hist>>

\* The resulting expiry is entered, or cleared, at any status.
SetResult(p, v) ==
  /\ proc[p].status # "none" /\ proc[p].result # v
  /\ proc' = [proc EXCEPT ![p].result = v]
  /\ UNCHANGED <<claimed, expiry, removed, day, req, hist>>

ChangeStatusRead(t, p, to) ==
  /\ to \in TRANSITIONS[proc[p].status]
  /\ Begin(t, Acting("move", proc[p].for, p, to, NoDate))
  /\ UNCHANGED <<claimed, proc, expiry, removed, day, alerts, renewed, overtaken>>

\* Mutant: the date is written when the procedure is approved.
Writes_Approved(t) == req[t].to = "approved" /\ proc[req[t].proc].result # NoDate
\* The row the UPDATE returns is completed and has a resulting expiry.
Writes(t) == req[t].to = "completed" /\ proc[req[t].proc].result # NoDate

\* By id, whatever the status is by now; then the effects of a completion.
ChangeStatus(t) ==
  LET r == req[t]
      refused == r.to \notin Finished /\ ~IndexAllows(r.proc, r.for)
      result == proc[r.proc].result
  IN
  /\ r.pc = "move"
  /\ proc' = IF refused THEN proc ELSE [proc EXCEPT ![r.proc].status = r.to]
  /\ req' = [req EXCEPT ![t] =
       IF Writes(t) /\ ~refused
         THEN Acting(IF r.for \in Dependants THEN "effect" ELSE "write", r.for, NoProcedure, "none", result)
         ELSE Idle]
  /\ IF r.to = "completed" /\ result # NoDate /\ r.for \notin removed
       THEN renewed' = [renewed EXCEPT ![r.for] = result] /\ Overtakes(r.for)
       ELSE UNCHANGED <<renewed, overtaken>>
  /\ UNCHANGED <<claimed, expiry, removed, day, alerts, disturbed>>

\* The dependant is looked for, among those on file.
EffectRead(t) ==
  /\ req[t].pc = "effect"
  /\ req' = [req EXCEPT ![t] = IF @.for \in removed THEN Idle ELSE Acting("write", @.for, NoProcedure, "none", @.date)]
  /\ UNCHANGED <<claimed, proc, expiry, removed, day, hist>>

\* By the employees' or the dependants' service, which refuses one off file.
EffectWrite(t) ==
  /\ req[t].pc = "write"
  /\ expiry' = IF req[t].for \in removed THEN expiry ELSE [expiry EXCEPT ![req[t].for] = req[t].date]
  /\ Finish(t)
  /\ UNCHANGED <<claimed, proc, removed, day, hist>>

-----------------------------------------------------------------------------
(* Dependants                                                              *)

RemoveRead(t, x) ==
  /\ x \in Dependants \ removed
  /\ Begin(t, Acting("remove", x, NoProcedure, "none", NoDate))
  /\ UNCHANGED <<claimed, proc, expiry, removed, day, alerts, renewed, overtaken>>

Remove(t) ==
  /\ req[t].pc = "remove"
  /\ removed' = removed \cup {req[t].for}
  /\ req' = [req EXCEPT ![t] = Acting("removed", @.for, NoProcedure, "none", NoDate)]
  /\ UNCHANGED <<claimed, proc, expiry, day, hist>>

\* DependantRemoved: their open procedure, of which the index leaves at most one.
CancelList(t) ==
  /\ req[t].pc = "removed"
  /\ IF OpenFor(req[t].for) = {}
       THEN Finish(t)
       ELSE \E p \in OpenFor(req[t].for) :
              req' = [req EXCEPT ![t] = Acting("cancel", @.for, p, "none", NoDate)]
  /\ UNCHANGED <<claimed, proc, expiry, removed, day, hist>>

\* changeStatus reads it again; an illegal move is an exception, which the bus swallows.
CancelRead(t) ==
  /\ req[t].pc = "cancel"
  /\ req' = [req EXCEPT ![t] =
       IF "cancelled" \in TRANSITIONS[proc[@.proc].status]
         THEN Acting("move", @.for, @.proc, "cancelled", NoDate) ELSE Idle]
  /\ UNCHANGED <<claimed, proc, expiry, removed, day, hist>>

\* A date is corrected on the record by hand.
EditExpiry(x, v) ==
  /\ x \notin removed /\ v # expiry[x]
  /\ expiry' = [expiry EXCEPT ![x] = v]
  /\ renewed' = [renewed EXCEPT ![x] = v]
  /\ Overtakes(x)
  /\ UNCHANGED <<claimed, proc, removed, day, req, alerts, disturbed>>

-----------------------------------------------------------------------------
\* Later, another day.
Tick(n) == n \in Days /\ n > day /\ day' = n
           /\ UNCHANGED <<claimed, proc, expiry, removed, req, hist>>

\* The process stops, or a transaction fails: what was to follow a commit is lost.
Fail(t) ==
  LET r == req[t] IN
  /\ r # Idle
  /\ disturbed' =
       disturbed \cup (IF r.pc \in {"publish", "open"} THEN {Doc(t)}
                       ELSE IF r.for # NoOne THEN {r.for} ELSE {})
  /\ overtaken' = IF r.pc \in {"effect", "write"} THEN overtaken \cup {r.for} ELSE overtaken
  /\ Finish(t)
  /\ UNCHANGED <<claimed, proc, expiry, removed, day, alerts, renewed>>

Next ==
  \/ \E t \in Handlers :
       \/ Scan(t) \/ Claim(t) \/ Publish(t) \/ ScanDone(t)
       \/ \E p \in Procedures : OpenForDocument(t, p) \/ CreateInsert(t, p)
       \/ \E x \in People : CreateRead(t, x) \/ RemoveRead(t, x)
       \/ \E p \in Procedures, to \in Statuses : ChangeStatusRead(t, p, to)
       \/ ChangeStatus(t) \/ EffectRead(t) \/ EffectWrite(t)
       \/ Remove(t) \/ CancelList(t) \/ CancelRead(t) \/ Fail(t)
  \/ \E p \in Procedures, v \in Dates \cup {NoDate} : SetResult(p, v)
  \/ \E x \in People, v \in Dates : EditExpiry(x, v)
  \/ \E n \in Days : Tick(n)

Spec == Init /\ [][Next]_vars
-----------------------------------------------------------------------------
TypeOK ==
  /\ claimed \in [Papers -> SUBSET EXPIRY_THRESHOLDS]
  /\ proc \in [Procedures -> [status : Statuses \cup {"none"}, for : People \cup {NoOne},
                              source : Papers \cup {NoDocument}, result : Dates \cup {NoDate}]]
  /\ \A p \in Procedures : proc[p].status = "none" <=> proc[p].for = NoOne
  /\ expiry \in [People -> Dates] /\ removed \subseteq Dependants /\ day \in Days
  /\ req \in [Handlers -> [pc : {"idle", "scan", "publish", "open", "create", "move", "effect",
                                 "write", "remove", "removed", "cancel"},
                           asOf : Days \cup {0}, next : 0..Len(Documents) + 1,
                           tier : EXPIRY_THRESHOLDS, for : People \cup {NoOne},
                           proc : Procedures \cup {NoProcedure},
                           to : Statuses \cup {"none"}, date : Dates \cup {NoDate}]]
  /\ alerts \in [Papers -> [EXPIRY_THRESHOLDS -> Nat]]
  /\ renewed \in [People -> Dates] /\ disturbed \subseteq Papers \cup People
  /\ overtaken \subseteq People

\* "Each (document, tier) fires at most once, ever": whatever scans overlap.
AlertOnce == \A d \in Papers, n \in EXPIRY_THRESHOLDS : alerts[d][n] <= 1

\* "At most one process per source document", though its event comes once per tier,
\* and exactly one once it has come: of a document no two alerts of which were
\* handled at once, and none of which was lost with its handler.
TrackedOnce ==
  \A d \in Renewable \ disturbed :
    /\ EmployeeOf[d] # NoOne /\ Alerting(d) = {}
    /\ \E n \in EXPIRY_THRESHOLDS : alerts[d][n] > 0
    => Cardinality({p \in Procedures : proc[p].source = d}) = 1

\* "One renewal in flight per dependant", though a status is written by id and one
\* that was cancelled meanwhile may be moved on.
OneOpenRenewal == \A x \in Dependants : Cardinality(OpenFor(x)) <= 1

\* "A removed dependant's open renewal has nothing left to renew": it is cancelled,
\* wherever it was, unless another handler was at work on the dependant, or the
\* removal's stopped.
RemovedClosed ==
  \A x \in removed \ disturbed :
    (\A t \in Handlers : ~AtWorkOn(t, x)) => OpenFor(x) = {}

\* The record of a person on file shows the expiry of the last completion, or the
\* last correction by hand, once its effect has run: that of the row as completed,
\* whatever result is entered after and whatever else is done for the person
\* meanwhile.  A date entered between a completion's commit and its effect, which
\* nothing prevents, may be written over by it: whoever that befell is excepted, and
\* whose effect was lost with its handler.
ExpiryFollows ==
  \A x \in People \ (removed \cup overtaken) :
    Writing(x) = {} => expiry[x] = renewed[x]
=============================================================================
