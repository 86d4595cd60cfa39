---------------------------- MODULE RequestDesk ----------------------------
(***************************************************************************)
(* A client's or an employee's request, the wait on its requester that     *)
(* pauses its service level, and the task that follows its due date, as    *)
(* the handlers of Requests and Tasks run at READ COMMITTED.               *)
(*                                                                         *)
(* Days are working days of the company's week, counted from 1, and none   *)
(* ends while a handler runs.  Comments and attachments appear as the      *)
(* reply they are when the requester's side makes them.  A task is "open"  *)
(* in progress too, and "done" when cancelled too.  Left out: assignees,   *)
(* the fields nothing reads, who sees what, tasks not made for a request.  *)
(***************************************************************************)
EXTENDS Integers

CONSTANTS
  Ids,         \* requests of clients and employees
  Dates,       \* due dates given or edited by hand
  Turnaround,  \* working days of the service level
  MaxDay,      \* bound: the last day
  Handlers,    \* slots of requests to the server
  NoId

ASSUME DeskAssumption ==
  /\ Turnaround \in Nat /\ MaxDay \in Nat \ {0}
  /\ Dates \subseteq Nat \ {0} /\ NoId \notin Ids

VARIABLES
  row,      \* row[i]: the request's row
  task,     \* task[i]: the row of the task made for it
  day,      \* today
  req,      \* req[t]: where handler t is, and what it has read
  owed,     \* history: owed[i], the date last set, later by each wait that ended
  waited,   \* history: waited[i], the days the present wait has lasted
  crossed,  \* history: requests whose date was edited while another handler was
            \* at work on them, or whose pause was lost with its handler
  loose     \* history: those whose task was dated or reopened by hand, or whose
            \* news of a date was lost with its handler

hist == <<owed, waited, crossed, loose>>
vars == <<row, task, day, req, hist>>

NoDate == 0
\* The due date of a request raised now.
DueFor == day + Turnaround

NotRaised == [status |-> "none", returnsTo |-> "none", since |-> NoDate, due |-> NoDate]
Raised(d) == [status |-> "open", returnsTo |-> "none", since |-> NoDate, due |-> d]
NoTask == [status |-> "none", due |-> NoDate]
\* A handler: what it works on, whether it edits the date, the row and the date
\* it has read or is to write, and the status asked for.
At(pc, i, edit, before, to, due) ==
  [pc |-> pc, id |-> i, edit |-> edit, before |-> before, to |-> to, due |-> due]
Idle == At("idle", NoId, FALSE, NotRaised, "none", NoDate)

Init ==
  /\ row = [i \in Ids |-> NotRaised] /\ task = [i \in Ids |-> NoTask]
  /\ day = 1
  /\ req = [t \in Handlers |-> Idle]
  /\ owed = [i \in Ids |-> NoDate] /\ waited = [i \in Ids |-> 0]
  /\ crossed = {} /\ loose = {}

-----------------------------------------------------------------------------
(* The status workflow and the database's guard on it                      *)

TRANSITIONS == [
  none |-> {},
  open |-> {"in_progress", "info_needed", "cancelled"},
  in_progress |-> {"info_needed", "resolved", "cancelled"},
  info_needed |-> {"open", "in_progress", "cancelled"},
  resolved |-> {"closed", "in_progress"},
  closed |-> {}, cancelled |-> {}]

Statuses == DOMAIN TRANSITIONS \ {"none"}

\* Mutant: the requester's side may return a request anywhere.
InfoGuard_AnyReturn(old, new, bySide) ==
  old.status = "info_needed" /\ new.status = "info_needed" => new.returnsTo = old.returnsTo

\* The trigger req_requests_info_guard; bySide: on a client's or an employee's
\* connection.
InfoGuard(old, new, bySide) ==
  /\ new.status = "info_needed" /\ old.status # "info_needed" =>
       ~bySide /\ old.status \in {"open", "in_progress"} /\ new.returnsTo = old.status
  /\ old.status = "info_needed" /\ new.status # "info_needed" /\ bySide =>
       new.status = old.returnsTo
  /\ old.status = "info_needed" /\ new.status = "info_needed" =>
       new.returnsTo = old.returnsTo

\* The date after a wait as r shows it: the same without a date or a wait.
DueAfterPause(r) == IF r.due # NoDate /\ r.since # NoDate THEN r.due + (day - r.since) ELSE r.due

-----------------------------------------------------------------------------
(* Handlers                                                                *)

Finish(t) == req' = [req EXCEPT ![t] = Idle]

\* Another handler is at work on i, and one of the two edits its date.
Crosses(t, i, edit) ==
  \E u \in Handlers \ {t} : req[u].id = i /\ (edit \/ req[u].edit)

Begin(t, r) ==
  /\ req[t] = Idle
  /\ req' = [req EXCEPT ![t] = r]
  /\ crossed' = IF Crosses(t, r.id, r.edit) THEN crossed \cup {r.id} ELSE crossed

\* Commit row r of request i; what it owes moves when a wait ends.
Commit(i, r) ==
  /\ row' = [row EXCEPT ![i] = r]
  /\ owed' = [owed EXCEPT ![i] =
       IF row[i].status = "info_needed" /\ r.status # "info_needed" /\ @ # NoDate
         THEN @ + waited[i] ELSE @]
  /\ waited' = [waited EXCEPT ![i] = IF r.status = "info_needed" THEN @ ELSE 0]

Dated(i, d) ==
  /\ row' = [row EXCEPT ![i].due = d]
  /\ owed' = [owed EXCEPT ![i] = d]
  /\ UNCHANGED waited

\* After the commit: the new date is published, if it is one.
Announce(t, d) ==
  req' = [req EXCEPT ![t] =
    IF d = @.before.due THEN Idle
    ELSE At("announce", @.id, @.edit, NotRaised, "none", d)]

\* By staff or a client manager: with the date asked for, or the service level's.
Create(t, i, d) ==
  /\ row[i].status = "none" /\ d \in Dates \cup {DueFor}
  /\ Begin(t, At("spawn", i, FALSE, NotRaised, "none", d))
  /\ row' = [row EXCEPT ![i] = Raised(d)]
  /\ owed' = [owed EXCEPT ![i] = d]
  /\ UNCHANGED <<task, day, waited, loose>>

\* By the employee: dated after the raise commits.
CreateForEmployee(t, i) ==
  /\ row[i].status = "none"
  /\ Begin(t, At("initial", i, FALSE, NotRaised, "none", NoDate))
  /\ row' = [row EXCEPT ![i] = Raised(NoDate)]
  /\ UNCHANGED <<task, day, owed, waited, loose>>

\* A date set meanwhile stands, and the event then carries none.
SetInitialDue(t) ==
  LET i == req[t].id IN
  /\ req[t].pc = "initial"
  /\ IF row[i].due = NoDate
       THEN /\ Dated(i, DueFor)
            /\ req' = [req EXCEPT ![t] = At("spawn", i, FALSE, NotRaised, "none", DueFor)]
       ELSE /\ req' = [req EXCEPT ![t].pc = "spawn"]
            /\ UNCHANGED <<row, owed, waited>>
  /\ UNCHANGED <<task, day, crossed, loose>>

\* A failure to set it is logged.
InitialDueFails(t) ==
  /\ req[t].pc = "initial"
  /\ req' = [req EXCEPT ![t].pc = "spawn"]
  /\ UNCHANGED <<row, task, day, hist>>

\* Tasks, on RequestCreated.
Spawn(t) ==
  /\ req[t].pc = "spawn"
  /\ task' = [task EXCEPT ![req[t].id] = [status |-> "open", due |-> req[t].due]]
  /\ Finish(t)
  /\ UNCHANGED <<row, day, hist>>

UpdateRead(t, i, d) ==
  /\ row[i].status # "none"
  /\ Begin(t, At("update", i, TRUE, row[i], "none", d))
  /\ UNCHANGED <<row, task, day, owed, waited, loose>>

Update(t) ==
  /\ req[t].pc = "update"
  /\ Dated(req[t].id, req[t].due)
  /\ Announce(t, req[t].due)
  /\ UNCHANGED <<task, day, crossed, loose>>

ProcessRead(t, i, to) ==
  /\ to \in TRANSITIONS[row[i].status]
  /\ Begin(t, At("process", i, FALSE, row[i], to, NoDate))
  /\ UNCHANGED <<row, task, day, owed, waited, loose>>

\* Mutant: the day the wait began is kept after it.
Processed_KeepSince(t) ==
  LET r == req[t]
      asking == r.to = "info_needed"
  IN [status |-> r.to,
      returnsTo |-> IF asking THEN r.before.status ELSE "none",
      since |-> IF asking THEN day ELSE row[r.id].since,
      due |-> IF DueAfterPause(r.before) # r.before.due
                THEN DueAfterPause(r.before) ELSE row[r.id].due]

\* The row `process` writes, by id: whatever the status is by now.
Processed(t) ==
  LET r == req[t]
      asking == r.to = "info_needed"
  IN [status |-> r.to,
      returnsTo |-> IF asking THEN r.before.status ELSE "none",
      since |-> IF asking THEN day ELSE NoDate,
      due |-> IF DueAfterPause(r.before) # r.before.due
                THEN DueAfterPause(r.before) ELSE row[r.id].due]

Process(t) ==
  LET i == req[t].id IN
  /\ req[t].pc = "process"
  /\ IF InfoGuard(row[i], Processed(t), FALSE)
       THEN Commit(i, Processed(t)) /\ Announce(t, Processed(t).due)
       ELSE Finish(t) /\ UNCHANGED <<row, owed, waited>>
  /\ UNCHANGED <<task, day, crossed, loose>>

\* A comment, or a file that passed its checks, from the requester's side.  One
\* that finds nothing waiting changes no request.
ReplyRead(t, i) ==
  /\ row[i].status = "info_needed"
  /\ Begin(t, At("reply", i, FALSE, row[i], "none", NoDate))
  /\ UNCHANGED <<row, task, day, owed, waited, loose>>

Returned(t) ==
  [status |-> req[t].before.returnsTo, returnsTo |-> "none", since |-> NoDate,
   due |-> row[req[t].id].due]

\* Conditional on the wait; refused by the guard if it is to return elsewhere, and
\* the comment with it.
ReturnIfWaiting(t) ==
  LET i == req[t].id IN
  /\ req[t].pc = "reply"
  /\ IF row[i].status = "info_needed" /\ InfoGuard(row[i], Returned(t), TRUE)
       THEN Commit(i, Returned(t)) /\ req' = [req EXCEPT ![t].pc = "extend"]
       ELSE Finish(t) /\ UNCHANGED <<row, owed, waited>>
  /\ UNCHANGED <<task, day, crossed, loose>>

\* Mutant: the date is moved from what it is by now, without the condition.
ExtendAfterReturn_Relative(t) ==
  LET r == req[t]
      next == DueAfterPause([r.before EXCEPT !.due = row[r.id].due])
  IN
  /\ r.pc = "extend"
  /\ row' = [row EXCEPT ![r.id].due = next]
  /\ Announce(t, next)
  /\ UNCHANGED <<task, day, hist>>

\* Mutant: the news of the new date is not published.
ExtendAfterReturn_Silent(t) ==
  LET r == req[t] IN
  /\ r.pc = "extend"
  /\ row' = IF row[r.id].due = r.before.due
              THEN [row EXCEPT ![r.id].due = DueAfterPause(r.before)] ELSE row
  /\ Finish(t)
  /\ UNCHANGED <<task, day, hist>>

\* The pause of a reply, once it has committed: if the date is the one read with it.
ExtendAfterReturn(t) ==
  LET r == req[t] IN
  /\ r.pc = "extend"
  /\ IF row[r.id].due = r.before.due
       THEN /\ row' = [row EXCEPT ![r.id].due = DueAfterPause(r.before)]
            /\ Announce(t, DueAfterPause(r.before))
       ELSE Finish(t) /\ UNCHANGED row
  /\ UNCHANGED <<task, day, hist>>

\* Tasks, on RequestDueDateChanged: an open task is moved by id.
FollowRead(t) ==
  LET k == task[req[t].id] IN
  /\ req[t].pc = "announce"
  /\ IF k.status = "open" /\ k.due # req[t].due
       THEN req' = [req EXCEPT ![t].pc = "follow"]
       ELSE Finish(t)
  /\ UNCHANGED <<row, task, day, hist>>

Follow(t) ==
  LET i == req[t].id IN
  /\ req[t].pc = "follow"
  /\ task' = IF task[i].status = "none" THEN task ELSE [task EXCEPT ![i].due = req[t].due]
  /\ Finish(t)
  /\ UNCHANGED <<row, day, hist>>

-----------------------------------------------------------------------------
(* Tasks by hand, the calendar, failures                                   *)

TaskUpdate(i, k) ==
  /\ task[i].status # "none"
  /\ task' = [task EXCEPT ![i] = k]
  /\ loose' = IF task[i].status = "done" \/ k.due # task[i].due
                THEN loose \cup {i} ELSE loose
  /\ UNCHANGED <<row, day, req, owed, waited, crossed>>

TaskRemove(i) ==
  /\ task[i].status # "none"
  /\ task' = [task EXCEPT ![i] = NoTask]
  /\ UNCHANGED <<row, day, req, hist>>

Tick ==
  /\ day < MaxDay /\ \A t \in Handlers : req[t] = Idle
  /\ day' = day + 1
  /\ waited' = [i \in Ids |-> IF row[i].status = "info_needed" THEN waited[i] + 1 ELSE waited[i]]
  /\ UNCHANGED <<row, task, req, owed, crossed, loose>>

\* A transaction rolls back or the process stops; what was to follow a commit is lost.
Fail(t) ==
  LET r == req[t] IN
  /\ r # Idle
  /\ crossed' = IF r.pc = "extend" THEN crossed \cup {r.id} ELSE crossed
  /\ loose' = IF r.pc \in {"initial", "spawn", "announce", "follow"} THEN loose \cup {r.id} ELSE loose
  /\ Finish(t)
  /\ UNCHANGED <<row, task, day, owed, waited>>

Next ==
  \/ \E t \in Handlers :
       \/ \E i \in Ids :
            \/ \E d \in Dates \cup {DueFor} : Create(t, i, d)
            \/ CreateForEmployee(t, i) \/ ReplyRead(t, i)
            \/ \E d \in Dates \cup {NoDate} : UpdateRead(t, i, d)
            \/ \E to \in Statuses : ProcessRead(t, i, to)
       \/ SetInitialDue(t) \/ InitialDueFails(t) \/ Spawn(t)
       \/ Update(t) \/ Process(t) \/ ReturnIfWaiting(t) \/ ExtendAfterReturn(t)
       \/ FollowRead(t) \/ Follow(t) \/ Fail(t)
  \/ \E i \in Ids :
       \/ \E s \in {"open", "done"}, d \in Dates \cup {task[i].due} :
            TaskUpdate(i, [status |-> s, due |-> d])
       \/ TaskRemove(i)
  \/ Tick

Spec == Init /\ [][Next]_vars
-----------------------------------------------------------------------------
Row == [status : Statuses \cup {"none"}, returnsTo : {"none", "open", "in_progress"},
        since : Nat, due : Nat]

\* With the two CHECKs of the migrations: a request waits exactly while it knows
\* where a reply returns it and since when it waits.
TypeOK ==
  /\ row \in [Ids -> Row]
  /\ \A i \in Ids : /\ (row[i].status = "info_needed") <=> (row[i].returnsTo # "none")
                    /\ (row[i].status = "info_needed") <=> (row[i].since # NoDate)
  /\ task \in [Ids -> [status : {"none", "open", "done"}, due : Nat]]
  /\ day \in 1..MaxDay
  /\ req \in [Handlers -> [pc : {"idle", "initial", "spawn", "update", "process", "reply",
                                 "extend", "announce", "follow"},
                           id : Ids \cup {NoId}, edit : BOOLEAN, before : Row,
                           to : Statuses \cup {"none"}, due : Nat]]
  /\ owed \in [Ids -> Nat] /\ waited \in [Ids -> Nat]
  /\ crossed \subseteq Ids /\ loose \subseteq Ids

\* Nobody is at work on i.
Quiet(i) == \A t \in Handlers : req[t].id # i

\* "The due date moves by the working days the wait lasted": a wait moves it once,
\* by all its days, however replies and moves by hand race to end it, as long as
\* nobody edits the date meanwhile and the process does not stop between a reply
\* and its pause.
PauseOnce ==
  \A i \in Ids \ crossed :
    Quiet(i) /\ row[i].status # "info_needed" => row[i].due = owed[i]

\* "While the task is open, it follows the request's due date whenever that
\* moves": under the same condition, and unless the news was lost or the task
\* dated or reopened by hand.
TaskFollows ==
  \A i \in Ids \ (crossed \cup loose) :
    Quiet(i) /\ task[i].status = "open" => task[i].due = row[i].due

\* A reply moves a request that waits, and only back to where it was asked from,
\* however long ago it was read; it never moves the date.
ReplyReturns ==
  [][\A t \in Handlers : req[t].pc = "reply" /\ req'[t].pc = "extend" =>
       LET i == req[t].id IN
       /\ row[i].status = "info_needed" /\ row'[i].status = row[i].returnsTo
       /\ row'[i].due = row[i].due]_vars
=============================================================================
