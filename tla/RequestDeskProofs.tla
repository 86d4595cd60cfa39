-------------------------- MODULE RequestDeskProofs --------------------------
(***************************************************************************)
(* A wait on the requester moves the due date once, by all its days; a     *)
(* reply returns a request only to where it was asked from; the open task  *)
(* follows its request's date; and types.                                  *)
(***************************************************************************)
EXTENDS RequestDesk, TLAPS

Handler ==
  [pc : {"idle", "initial", "spawn", "update", "process", "reply", "extend", "announce", "follow"},
   id : Ids \cup {NoId}, edit : BOOLEAN, before : Row, to : Statuses \cup {"none"}, due : Nat]
Tasks == [status : {"none", "open", "done"}, due : Nat]

\* A row knows since when it waits, and where a reply returns it, exactly while it
\* waits.
WaitsKnown(r) == /\ r.status = "info_needed" <=> r.returnsTo # "none"
                 /\ r.status = "info_needed" <=> r.since # NoDate
                 /\ r.since <= day

\* What a handler at work knows.
Sound(r) ==
  /\ WaitsKnown(r.before)
  /\ r.pc # "idle" => r.id \in Ids
  /\ r.pc = "update" => r.edit
  /\ r.pc = "process" => r.to \in TRANSITIONS[r.before.status]
  /\ r.pc \in {"reply", "extend"} => r.before.status = "info_needed"

Rows ==
  /\ row \in [Ids -> Row] /\ \A i \in Ids : WaitsKnown(row[i])
  /\ task \in [Ids -> Tasks]
  /\ day \in 1..MaxDay
  /\ owed \in [Ids -> Nat] /\ waited \in [Ids -> Nat]
  /\ crossed \subseteq Ids /\ loose \subseteq Ids
Reads == req \in [Handlers -> Handler] /\ \A t \in Handlers : Sound(req[t])
Typed == Rows /\ Reads

-----------------------------------------------------------------------------
(* Types                                                                   *)

LEMMA StatusSet ==
  Statuses = {"open", "in_progress", "info_needed", "resolved", "closed", "cancelled"}
BY DEF Statuses, TRANSITIONS

LEMMA Workflow ==
  \A s \in Statuses \cup {"none"} : \A to \in TRANSITIONS[s] :
    /\ to \in Statuses
    /\ to = "info_needed" => s \in {"open", "in_progress"}
<1>1. TRANSITIONS["none"] = {} /\ TRANSITIONS["closed"] = {} /\ TRANSITIONS["cancelled"] = {}
  BY DEF TRANSITIONS
<1>2. /\ TRANSITIONS["open"] = {"in_progress", "info_needed", "cancelled"}
      /\ TRANSITIONS["in_progress"] = {"info_needed", "resolved", "cancelled"}
      /\ TRANSITIONS["info_needed"] = {"open", "in_progress", "cancelled"}
      /\ TRANSITIONS["resolved"] = {"closed", "in_progress"}
  BY DEF TRANSITIONS
<1> QED
  BY <1>1, <1>2, StatusSet

\* The records the handlers make are of the types they are read with.
LEMMA NotRaisedTyped ==
  ASSUME day \in Nat
  PROVE  NotRaised \in Row /\ WaitsKnown(NotRaised)
BY StatusSet DEF NotRaised, Row, WaitsKnown, NoDate

LEMMA RaisedTyped ==
  ASSUME day \in Nat, NEW d \in Nat
  PROVE  Raised(d) \in Row /\ WaitsKnown(Raised(d)) /\ Raised(d).due = d /\ Raised(d).status = "open"
BY StatusSet DEF Raised, Row, WaitsKnown, NoDate

LEMMA IdleTyped ==
  ASSUME day \in Nat
  PROVE  /\ Idle \in Handler /\ Sound(Idle)
         /\ Idle.pc = "idle" /\ Idle.id = NoId /\ Idle.edit = FALSE
<1>1. NotRaised \in Row /\ WaitsKnown(NotRaised) /\ NoDate \in Nat
  BY NotRaisedTyped DEF NoDate
<1>2. /\ Idle \in Handler /\ Idle.before = NotRaised
      /\ Idle.pc = "idle" /\ Idle.id = NoId /\ Idle.edit = FALSE
  BY <1>1 DEF Idle, At, Handler
<1> QED BY <1>1, <1>2 DEF Sound

LEMMA AtSound ==
  ASSUME day \in Nat, NEW pc \in {"initial", "spawn", "announce"}, NEW i \in Ids,
         NEW e \in BOOLEAN, NEW d \in Nat
  PROVE  LET r == At(pc, i, e, NotRaised, "none", d) IN
         r \in Handler /\ Sound(r) /\ r.pc = pc /\ r.id = i /\ r.edit = e
<1> DEFINE r == At(pc, i, e, NotRaised, "none", d)
<1>1. NotRaised \in Row /\ WaitsKnown(NotRaised)
  BY NotRaisedTyped
<1>2. r \in Handler /\ r.pc = pc /\ r.id = i /\ r.edit = e /\ r.before = NotRaised
  BY <1>1 DEF At, Handler
<1>3. Sound(r)
  <2> HIDE DEF r
  <2> QED BY <1>1, <1>2 DEF Sound
<1> QED BY <1>2, <1>3

LEMMA AtPlain ==
  ASSUME day \in Nat, NEW pc \in {"initial", "spawn"}, NEW i \in Ids, NEW d \in Nat
  PROVE  LET r == At(pc, i, FALSE, NotRaised, "none", d) IN
         r \in Handler /\ Sound(r) /\ r.pc = pc /\ r.id = i /\ r.edit = FALSE
<1> DEFINE r == At(pc, i, FALSE, NotRaised, "none", d)
<1>1. NotRaised \in Row /\ WaitsKnown(NotRaised)
  BY NotRaisedTyped
<1>2. r \in Handler /\ r.pc = pc /\ r.id = i /\ r.edit = FALSE /\ r.before = NotRaised
  BY <1>1 DEF At, Handler
<1>3. Sound(r)
  <2> HIDE DEF r
  <2> QED BY <1>1, <1>2 DEF Sound
<1> QED BY <1>2, <1>3

LEMMA TypedInit == Init => Typed
<1> SUFFICES ASSUME Init PROVE Typed
  OBVIOUS
<1>1. day = 1 /\ day \in Nat /\ day \in 1..MaxDay
  BY DeskAssumption DEF Init
<1>2. Rows
  BY <1>1, NotRaisedTyped DEF Init, Rows, NoTask, Tasks, NoDate
<1>3. Reads
  BY <1>1, IdleTyped DEF Init, Reads
<1> QED BY <1>2, <1>3 DEF Typed

LEMMA PauseTyped ==
  ASSUME NEW r \in Row, r.since <= day, day \in Nat
  PROVE  /\ DueAfterPause(r) \in Nat /\ DueAfterPause(r) >= r.due
         /\ DueAfterPause(r) = NoDate => r.due = NoDate
BY DEF DueAfterPause, Row, NoDate

\* A handler goes on, or is done.
LEMMA GoesOn ==
  ASSUME Typed, NEW t \in Handlers, NEW r \in Handler, req' = [req EXCEPT ![t] = r],
         Sound(r), UNCHANGED day
  PROVE  Reads'
BY DEF Typed, Reads, Sound, WaitsKnown

\* A row is written that knows whether it waits.
LEMMA Written ==
  ASSUME Typed, NEW i \in Ids, NEW r \in Row, row' = [row EXCEPT ![i] = r], WaitsKnown(r),
         owed' \in [Ids -> Nat], waited' \in [Ids -> Nat], UNCHANGED <<task, day, loose>>,
         crossed' \subseteq Ids
  PROVE  Rows'
BY DEF Typed, Rows, WaitsKnown

LEMMA Unwritten ==
  ASSUME Typed, UNCHANGED <<row, task, day, owed, waited, loose>>, crossed' \subseteq Ids
  PROVE  Rows'
BY DEF Typed, Rows, WaitsKnown

LEMMA BeginTyped ==
  ASSUME Typed, NEW t \in Handlers, NEW r \in Handler, Begin(t, r), Sound(r), r.id \in Ids,
         UNCHANGED day
  PROVE  Reads' /\ crossed' \subseteq Ids
<1>1. crossed' \subseteq Ids
  BY DEF Begin, Typed, Rows
<1>2. req' = [req EXCEPT ![t] = r]
  BY DEF Begin
<1> QED BY <1>1, <1>2, GoesOn

LEMMA FinishTyped ==
  ASSUME Typed, NEW t \in Handlers, Finish(t), UNCHANGED day
  PROVE  Reads'
<1>1. Idle \in Handler /\ Sound(Idle)
  <2>1. day \in Nat
    BY DEF Typed, Rows
  <2> QED BY <2>1, IdleTyped
<1>2. req' = [req EXCEPT ![t] = Idle]
  BY DEF Finish
<1> QED BY <1>1, <1>2, GoesOn

LEMMA DatedTyped ==
  ASSUME Typed, NEW i \in Ids, NEW d \in Nat, Dated(i, d), UNCHANGED <<task, day, crossed, loose>>
  PROVE  Rows'
<1> DEFINE r == [row[i] EXCEPT !.due = d]
<1>1. /\ row' = [row EXCEPT ![i] = r]
      /\ owed' = [owed EXCEPT ![i] = d] /\ waited' = waited
  BY DEF Dated
<1>2. r \in Row /\ WaitsKnown(r)
  BY DEF Typed, Rows, WaitsKnown, Row
<1>3. owed' \in [Ids -> Nat] /\ waited' \in [Ids -> Nat] /\ crossed' \subseteq Ids
  BY <1>1 DEF Typed, Rows
<1> HIDE DEF r
<1> QED BY <1>1, <1>2, <1>3, Written

LEMMA CommitTyped ==
  ASSUME Typed, NEW i \in Ids, NEW r \in Row, WaitsKnown(r), Commit(i, r),
         UNCHANGED <<task, day, crossed, loose>>
  PROVE  Rows'
<1>1. row' = [row EXCEPT ![i] = r] /\ crossed' \subseteq Ids
  BY DEF Commit, Typed, Rows
<1>2. owed' \in [Ids -> Nat] /\ waited' \in [Ids -> Nat]
  BY DEF Commit, Typed, Rows
<1> QED BY <1>1, <1>2, Written

LEMMA AnnounceTyped ==
  ASSUME Typed, NEW t \in Handlers, NEW d \in Nat, Announce(t, d), req[t].id \in Ids, UNCHANGED day
  PROVE  Reads'
<1> DEFINE r == At("announce", req[t].id, req[t].edit, NotRaised, "none", d)
<1>1. req[t].edit \in BOOLEAN /\ day \in Nat
  BY DEF Typed, Rows, Reads, Handler
<1>2. r \in Handler /\ Sound(r)
  BY <1>1, AtSound
<1>3. req' = [req EXCEPT ![t] = r] \/ Finish(t)
  BY DEF Announce, Finish, Typed, Reads
<1> HIDE DEF r
<1> QED BY <1>2, <1>3, GoesOn, FinishTyped

\* What `pc` is moved to keeps a handler sound.
LEMMA PcTyped ==
  ASSUME Typed, NEW t \in Handlers, NEW pc \in {"spawn", "extend", "follow"},
         pc = "extend" => req[t].before.status = "info_needed", req[t].id \in Ids
  PROVE  LET r == [req[t] EXCEPT !.pc = pc] IN
         /\ r \in Handler /\ Sound(r) /\ r.pc = pc /\ r.id = req[t].id
         /\ r.edit = req[t].edit /\ r.before = req[t].before
<1> DEFINE r == [req[t] EXCEPT !.pc = pc]
<1>1. req[t] \in Handler /\ Sound(req[t])
  BY DEF Typed, Reads
<1>2. /\ r \in Handler /\ r.pc = pc /\ r.id = req[t].id
      /\ r.edit = req[t].edit /\ r.before = req[t].before
  BY <1>1 DEF Handler
<1>3. Sound(r)
  <2> HIDE DEF r
  <2> QED BY <1>1, <1>2 DEF Sound
<1> QED BY <1>2, <1>3

\* What the steps of each handler find.
LEMMA Known ==
  ASSUME Typed, NEW t \in Handlers
  PROVE  /\ day \in Nat /\ DueFor \in Nat
         /\ req[t] \in Handler /\ Sound(req[t]) /\ req[t].before \in Row /\ WaitsKnown(req[t].before)
         /\ req[t].pc # "idle" => req[t].id \in Ids /\ row[req[t].id] \in Row
                                  /\ WaitsKnown(row[req[t].id])
<1>1. day \in Nat /\ DueFor \in Nat
  BY DeskAssumption DEF Typed, Rows, DueFor
<1>2. req[t] \in Handler /\ Sound(req[t])
  BY DEF Typed, Reads
<1>3. req[t].before \in Row /\ WaitsKnown(req[t].before) /\ (req[t].pc # "idle" => req[t].id \in Ids)
  BY <1>2 DEF Handler, Sound
<1> QED BY <1>1, <1>2, <1>3 DEF Typed, Rows

LEMMA CreateTyped ==
  ASSUME Typed, NEW t \in Handlers, NEW i \in Ids, NEW d \in Dates \cup {DueFor}, Create(t, i, d)
  PROVE  Typed'
<1> DEFINE r == At("spawn", i, FALSE, NotRaised, "none", d)
<1>1. d \in Nat /\ day \in Nat
  BY DeskAssumption, Known
<1>2. r \in Handler /\ Sound(r) /\ r.id = i
  BY <1>1, AtPlain
<1>3. Begin(t, r) /\ row' = [row EXCEPT ![i] = Raised(d)] /\ owed' = [owed EXCEPT ![i] = d]
      /\ UNCHANGED <<task, day, waited, loose>>
  BY DEF Create
<1> HIDE DEF r
<1>4. Reads' /\ crossed' \subseteq Ids
  BY <1>2, <1>3, BeginTyped
<1>5. owed' \in [Ids -> Nat] /\ waited' \in [Ids -> Nat]
  BY <1>1, <1>3 DEF Typed, Rows
<1>6. Rows'
  BY <1>1, <1>3, <1>4, <1>5, RaisedTyped, Written
<1> QED BY <1>4, <1>6 DEF Typed

LEMMA CreateForEmployeeTyped ==
  ASSUME Typed, NEW t \in Handlers, NEW i \in Ids, CreateForEmployee(t, i)
  PROVE  Typed'
<1> DEFINE r == At("initial", i, FALSE, NotRaised, "none", NoDate)
<1>1. NoDate \in Nat /\ day \in Nat
  BY Known DEF NoDate
<1>2. r \in Handler /\ Sound(r) /\ r.id = i
  BY <1>1, AtPlain
<1>3. Begin(t, r) /\ row' = [row EXCEPT ![i] = Raised(NoDate)]
      /\ UNCHANGED <<task, day, owed, waited, loose>>
  BY DEF CreateForEmployee
<1> HIDE DEF r
<1>4. Reads' /\ crossed' \subseteq Ids
  BY <1>2, <1>3, BeginTyped
<1>5. owed' \in [Ids -> Nat] /\ waited' \in [Ids -> Nat]
  BY <1>3 DEF Typed, Rows
<1>6. Rows'
  BY <1>1, <1>3, <1>4, <1>5, RaisedTyped, Written
<1> QED BY <1>4, <1>6 DEF Typed

LEMMA SetInitialDueTyped ==
  ASSUME Typed, NEW t \in Handlers, SetInitialDue(t)
  PROVE  Typed'
<1> DEFINE i == req[t].id
           r == At("spawn", i, FALSE, NotRaised, "none", DueFor)
           s == [req[t] EXCEPT !.pc = "spawn"]
<1>1. i \in Ids /\ DueFor \in Nat /\ day \in Nat
  BY Known DEF SetInitialDue
<1>2. CASE row[i].due = NoDate
  <2>1. Dated(i, DueFor) /\ req' = [req EXCEPT ![t] = r] /\ UNCHANGED <<task, day, crossed, loose>>
    BY <1>2 DEF SetInitialDue
  <2>2. r \in Handler /\ Sound(r)
    BY <1>1, AtPlain
  <2> HIDE DEF r
  <2> QED BY <1>1, <2>1, <2>2, GoesOn, DatedTyped DEF Typed
<1>3. CASE row[i].due # NoDate
  <2>1. req' = [req EXCEPT ![t] = s] /\ UNCHANGED <<row, owed, waited, task, day, crossed, loose>>
    BY <1>3 DEF SetInitialDue
  <2>2. s \in Handler /\ Sound(s)
    BY <1>1, PcTyped
  <2>3. Rows'
    BY <2>1, Unwritten DEF Typed, Rows
  <2> HIDE DEF s
  <2> QED BY <2>1, <2>2, <2>3, GoesOn DEF Typed
<1> QED BY <1>2, <1>3

LEMMA InitialDueFailsTyped ==
  ASSUME Typed, NEW t \in Handlers, InitialDueFails(t)
  PROVE  Typed'
<1> DEFINE s == [req[t] EXCEPT !.pc = "spawn"]
<1>1. req' = [req EXCEPT ![t] = s] /\ UNCHANGED <<row, task, day, owed, waited, crossed, loose>>
  BY DEF InitialDueFails, hist
<1>2. req[t].id \in Ids
  BY Known DEF InitialDueFails
<1>3. s \in Handler /\ Sound(s)
  BY <1>2, PcTyped
<1>4. Rows'
  BY <1>1, Unwritten DEF Typed, Rows
<1> HIDE DEF s
<1> QED BY <1>1, <1>3, <1>4, GoesOn DEF Typed

\* A task is written, and nothing else.
LEMMA TaskWritten ==
  ASSUME Typed, NEW i \in Ids, NEW k \in Tasks, task' = [task EXCEPT ![i] = k] \/ task' = task,
         UNCHANGED <<row, day, owed, waited, crossed>>, loose' \subseteq Ids
  PROVE  Rows'
<1>1. task' \in [Ids -> Tasks]
  BY DEF Typed, Rows
<1> QED BY <1>1 DEF Typed, Rows, WaitsKnown

LEMMA SpawnTyped ==
  ASSUME Typed, NEW t \in Handlers, Spawn(t)
  PROVE  Typed'
<1>1. req[t].id \in Ids /\ req[t].due \in Nat
  BY Known DEF Spawn, Handler
<1>2. [status |-> "open", due |-> req[t].due] \in Tasks
  BY <1>1 DEF Tasks
<1>3. Rows'
  BY <1>1, <1>2, TaskWritten DEF Spawn, hist, Typed, Rows
<1> QED BY <1>3, FinishTyped DEF Spawn, Typed

LEMMA UpdateReadTyped ==
  ASSUME Typed, NEW t \in Handlers, NEW i \in Ids, NEW d \in Dates \cup {NoDate}, UpdateRead(t, i, d)
  PROVE  Typed'
<1> DEFINE r == At("update", i, TRUE, row[i], "none", d)
<1>1. d \in Nat /\ row[i] \in Row /\ WaitsKnown(row[i])
  BY DeskAssumption DEF NoDate, Typed, Rows
<1>2. r \in Handler /\ r.id = i /\ r.pc = "update" /\ r.edit = TRUE /\ r.before = row[i]
  BY <1>1 DEF At, Handler
<1>3. Begin(t, r) /\ UNCHANGED <<row, task, day, owed, waited, loose>>
  BY DEF UpdateRead
<1> HIDE DEF r
<1>4. Sound(r)
  BY <1>1, <1>2 DEF Sound
<1>5. Reads' /\ crossed' \subseteq Ids
  BY <1>2, <1>3, <1>4, BeginTyped
<1> QED BY <1>3, <1>5, Unwritten DEF Typed

LEMMA UpdateTyped ==
  ASSUME Typed, NEW t \in Handlers, Update(t)
  PROVE  Typed'
<1>1. req[t].id \in Ids /\ req[t].due \in Nat
  BY Known DEF Update, Handler
<1>2. Dated(req[t].id, req[t].due) /\ Announce(t, req[t].due) /\ UNCHANGED <<task, day, crossed, loose>>
  BY DEF Update
<1> QED BY <1>1, <1>2, DatedTyped, AnnounceTyped DEF Typed

LEMMA ProcessReadTyped ==
  ASSUME Typed, NEW t \in Handlers, NEW i \in Ids, NEW to \in Statuses, ProcessRead(t, i, to)
  PROVE  Typed'
<1> DEFINE r == At("process", i, FALSE, row[i], to, NoDate)
<1>1. row[i] \in Row /\ WaitsKnown(row[i]) /\ to \in TRANSITIONS[row[i].status] /\ NoDate \in Nat
  BY DEF NoDate, Typed, Rows, ProcessRead
<1>2. r \in Handler /\ r.id = i /\ r.pc = "process" /\ r.to = to /\ r.before = row[i]
  BY <1>1 DEF At, Handler
<1>3. Begin(t, r) /\ UNCHANGED <<row, task, day, owed, waited, loose>>
  BY DEF ProcessRead
<1> HIDE DEF r
<1>4. Sound(r)
  BY <1>1, <1>2 DEF Sound
<1>5. Reads' /\ crossed' \subseteq Ids
  BY <1>2, <1>3, <1>4, BeginTyped
<1> QED BY <1>3, <1>5, Unwritten DEF Typed

LEMMA ProcessedTyped ==
  ASSUME Typed, NEW t \in Handlers, req[t].pc = "process"
  PROVE  /\ Processed(t) \in Row /\ WaitsKnown(Processed(t))
         /\ Processed(t).status = req[t].to
         /\ Processed(t).since = IF req[t].to = "info_needed" THEN day ELSE NoDate
         /\ Processed(t).due = IF DueAfterPause(req[t].before) # req[t].before.due
                                 THEN DueAfterPause(req[t].before) ELSE row[req[t].id].due
<1> DEFINE r == req[t]
<1>1. /\ day \in Nat /\ day # NoDate /\ r \in Handler /\ Sound(r) /\ r.before \in Row
      /\ row[r.id] \in Row
  BY Known DEF Typed, Rows, NoDate
<1>2. /\ r.to \in Statuses
      /\ r.to = "info_needed" => r.before.status \in {"open", "in_progress"}
  BY <1>1, Workflow DEF Sound, Row
<1>3. DueAfterPause(r.before) \in Nat /\ row[r.id].due \in Nat
  BY <1>1, PauseTyped DEF Sound, WaitsKnown, Row
<1>4. Processed(t) \in Row
  BY <1>1, <1>2, <1>3, StatusSet DEF Processed, Row, NoDate
<1>5. WaitsKnown(Processed(t))
  BY <1>1, <1>2 DEF Processed, WaitsKnown, NoDate
<1> QED BY <1>4, <1>5 DEF Processed

LEMMA ProcessTyped ==
  ASSUME Typed, NEW t \in Handlers, Process(t)
  PROVE  Typed'
<1>1. req[t].pc = "process" /\ UNCHANGED <<task, day, crossed, loose>>
  BY DEF Process
<1>2. Processed(t) \in Row /\ WaitsKnown(Processed(t)) /\ req[t].id \in Ids /\ Processed(t).due \in Nat
  BY <1>1, ProcessedTyped, Known DEF Row
<1>3. CASE Commit(req[t].id, Processed(t)) /\ Announce(t, Processed(t).due)
  BY <1>1, <1>2, <1>3, CommitTyped, AnnounceTyped DEF Typed
<1>4. CASE Finish(t) /\ UNCHANGED <<row, owed, waited>>
  BY <1>1, <1>4, FinishTyped, Unwritten DEF Typed, Rows
<1> QED BY <1>3, <1>4 DEF Process

LEMMA ReplyReadTyped ==
  ASSUME Typed, NEW t \in Handlers, NEW i \in Ids, ReplyRead(t, i)
  PROVE  Typed'
<1> DEFINE r == At("reply", i, FALSE, row[i], "none", NoDate)
<1>1. row[i] \in Row /\ WaitsKnown(row[i]) /\ row[i].status = "info_needed" /\ NoDate \in Nat
  BY DEF NoDate, Typed, Rows, ReplyRead
<1>2. r \in Handler /\ r.id = i /\ r.pc = "reply" /\ r.before = row[i]
  BY <1>1 DEF At, Handler
<1>3. Begin(t, r) /\ UNCHANGED <<row, task, day, owed, waited, loose>>
  BY DEF ReplyRead
<1> HIDE DEF r
<1>4. Sound(r)
  BY <1>1, <1>2 DEF Sound
<1>5. Reads' /\ crossed' \subseteq Ids
  BY <1>2, <1>3, <1>4, BeginTyped
<1> QED BY <1>3, <1>5, Unwritten DEF Typed

LEMMA ReturnedTyped ==
  ASSUME Typed, NEW t \in Handlers, req[t].pc = "reply"
  PROVE  /\ Returned(t) \in Row /\ WaitsKnown(Returned(t))
         /\ Returned(t).status = req[t].before.returnsTo /\ Returned(t).status # "info_needed"
         /\ Returned(t).since = NoDate /\ Returned(t).due = row[req[t].id].due
<1> DEFINE r == req[t]
<1>1. /\ day \in Nat /\ r \in Handler /\ Sound(r) /\ r.before \in Row
      /\ row[r.id] \in Row
  BY Known
<1>2. r.before.returnsTo \in {"open", "in_progress"} /\ row[r.id].due \in Nat
  BY <1>1 DEF Sound, WaitsKnown, Row
<1>3. Returned(t) \in Row
  BY <1>1, <1>2, StatusSet DEF Returned, Row, NoDate
<1>4. WaitsKnown(Returned(t))
  BY <1>1, <1>2 DEF Returned, WaitsKnown, NoDate
<1> QED BY <1>2, <1>3, <1>4 DEF Returned

LEMMA ReturnIfWaitingTyped ==
  ASSUME Typed, NEW t \in Handlers, ReturnIfWaiting(t)
  PROVE  Typed'
<1> DEFINE s == [req[t] EXCEPT !.pc = "extend"]
<1>1. req[t].pc = "reply" /\ UNCHANGED <<task, day, crossed, loose>>
  BY DEF ReturnIfWaiting
<1>2. Returned(t) \in Row /\ WaitsKnown(Returned(t)) /\ req[t].id \in Ids /\ Sound(req[t])
  BY <1>1, ReturnedTyped, Known
<1>3. CASE Commit(req[t].id, Returned(t)) /\ req' = [req EXCEPT ![t] = s]
  <2>1. s \in Handler /\ Sound(s)
    BY <1>1, <1>2, PcTyped DEF Sound
  <2> HIDE DEF s
  <2> QED BY <1>1, <1>2, <1>3, <2>1, CommitTyped, GoesOn DEF Typed
<1>4. CASE Finish(t) /\ UNCHANGED <<row, owed, waited>>
  BY <1>1, <1>4, FinishTyped, Unwritten DEF Typed, Rows
<1> QED BY <1>3, <1>4 DEF ReturnIfWaiting

LEMMA ExtendAfterReturnTyped ==
  ASSUME Typed, NEW t \in Handlers, ExtendAfterReturn(t)
  PROVE  Typed'
<1> DEFINE i == req[t].id
           d == DueAfterPause(req[t].before)
           r == [row[i] EXCEPT !.due = d]
<1>1. req[t].pc = "extend" /\ UNCHANGED <<task, day, owed, waited, crossed, loose>>
  BY DEF ExtendAfterReturn, hist
<1>2. i \in Ids /\ row[i] \in Row /\ WaitsKnown(row[i]) /\ d \in Nat
  BY <1>1, Known, PauseTyped DEF WaitsKnown
<1>3. CASE row' = [row EXCEPT ![i] = r] /\ Announce(t, d)
  <2>1. r \in Row /\ WaitsKnown(r)
    BY <1>2 DEF Row, WaitsKnown
  <2>2. owed' \in [Ids -> Nat] /\ waited' \in [Ids -> Nat] /\ crossed' \subseteq Ids
    BY <1>1 DEF Typed, Rows
  <2> HIDE DEF r, d
  <2> QED BY <1>1, <1>2, <1>3, <2>1, <2>2, Written, AnnounceTyped DEF Typed
<1>4. CASE Finish(t) /\ UNCHANGED row
  BY <1>1, <1>4, FinishTyped, Unwritten DEF Typed, Rows
<1> QED BY <1>3, <1>4 DEF ExtendAfterReturn

LEMMA FollowReadTyped ==
  ASSUME Typed, NEW t \in Handlers, FollowRead(t)
  PROVE  Typed'
<1> DEFINE s == [req[t] EXCEPT !.pc = "follow"]
<1>1. req[t].pc = "announce" /\ UNCHANGED <<row, task, day, owed, waited, crossed, loose>>
  BY DEF FollowRead, hist
<1>2. req[t].id \in Ids /\ crossed' \subseteq Ids
  BY <1>1, Known DEF Typed, Rows
<1>3. Rows'
  BY <1>1, <1>2, Unwritten
<1>4. s \in Handler /\ Sound(s)
  BY <1>2, PcTyped
<1>5. req' = [req EXCEPT ![t] = s] \/ Finish(t)
  BY DEF FollowRead
<1> HIDE DEF s
<1> QED BY <1>1, <1>3, <1>4, <1>5, GoesOn, FinishTyped DEF Typed

LEMMA FollowTyped ==
  ASSUME Typed, NEW t \in Handlers, Follow(t)
  PROVE  Typed'
<1> DEFINE i == req[t].id
           k == [task[i] EXCEPT !.due = req[t].due]
<1>1. i \in Ids /\ req[t].due \in Nat
  BY Known DEF Follow, Handler
<1>2. k \in Tasks
  BY <1>1 DEF Typed, Rows, Tasks
<1>3. task' = [task EXCEPT ![i] = k] \/ task' = task
  BY DEF Follow
<1>4. Rows'
  <2> HIDE DEF k
  <2> QED BY <1>1, <1>2, <1>3, TaskWritten DEF Follow, hist, Typed, Rows
<1> QED BY <1>4, FinishTyped DEF Follow, Typed

LEMMA TaskUpdateTyped ==
  ASSUME Typed, NEW i \in Ids, NEW s \in {"open", "done"}, NEW d \in Dates \cup {task[i].due},
         TaskUpdate(i, [status |-> s, due |-> d])
  PROVE  Typed'
<1> DEFINE k == [status |-> s, due |-> d]
<1>1. d \in Nat
  BY DeskAssumption DEF Typed, Rows, Tasks
<1>2. k \in Tasks
  BY <1>1 DEF Tasks
<1>3. /\ task' = [task EXCEPT ![i] = k] /\ loose' \subseteq Ids
      /\ UNCHANGED <<row, day, req, owed, waited, crossed>>
  BY DEF TaskUpdate, Typed, Rows
<1> HIDE DEF k
<1>4. Rows'
  BY <1>2, <1>3, TaskWritten
<1> QED BY <1>3, <1>4 DEF Typed, Reads, Sound, WaitsKnown

LEMMA TaskRemoveTyped ==
  ASSUME Typed, NEW i \in Ids, TaskRemove(i)
  PROVE  Typed'
<1>1. NoTask \in Tasks
  BY DEF NoTask, Tasks, NoDate
<1>2. task' = [task EXCEPT ![i] = NoTask] /\ UNCHANGED <<row, day, req, owed, waited, crossed, loose>>
  BY DEF TaskRemove, hist
<1>3. Rows'
  BY <1>1, <1>2, TaskWritten DEF Typed, Rows
<1> QED BY <1>2, <1>3 DEF Typed, Reads, Sound, WaitsKnown

LEMMA TickTyped ==
  ASSUME Typed, Tick
  PROVE  Typed'
<1>1. /\ day \in Nat /\ day' = day + 1 /\ day' \in 1..MaxDay
      /\ UNCHANGED <<row, task, req, owed, crossed, loose>>
  BY DeskAssumption DEF Tick, Typed, Rows
<1>2. waited' \in [Ids -> Nat]
  BY DEF Tick, Typed, Rows
<1>3. \A r \in Row : WaitsKnown(r) => WaitsKnown(r)'
  BY <1>1 DEF WaitsKnown, Row
<1>4. Rows'
  BY <1>1, <1>2, <1>3 DEF Typed, Rows
<1>5. \A r \in Handler : Sound(r) => Sound(r)'
  BY <1>3 DEF Sound, Handler
<1> QED BY <1>1, <1>4, <1>5 DEF Typed, Reads

LEMMA FailTyped ==
  ASSUME Typed, NEW t \in Handlers, Fail(t)
  PROVE  Typed'
<1>1. Finish(t) /\ UNCHANGED <<row, task, day, owed, waited>>
  BY DEF Fail
<1>2. req[t].pc \in {"initial", "spawn", "extend", "announce", "follow"} => req[t].id \in Ids
  BY Known
<1>3. crossed' \subseteq Ids /\ loose' \subseteq Ids
  BY <1>2 DEF Fail, Typed, Rows
<1>4. Rows'
  BY <1>1, <1>3 DEF Typed, Rows, WaitsKnown
<1> QED BY <1>1, <1>4, FinishTyped DEF Typed

LEMMA TypedNext == Typed /\ [Next]_vars => Typed'
<1> SUFFICES ASSUME Typed, [Next]_vars PROVE Typed'
  OBVIOUS
<1>1. ASSUME UNCHANGED vars PROVE Typed'
  BY <1>1 DEF vars, hist, Typed, Rows, Reads, Sound, WaitsKnown
<1>2. ASSUME NEW t \in Handlers, NEW i \in Ids,
             \/ \E d \in Dates \cup {DueFor} : Create(t, i, d)
             \/ CreateForEmployee(t, i) \/ ReplyRead(t, i)
             \/ \E d \in Dates \cup {NoDate} : UpdateRead(t, i, d)
             \/ \E to \in Statuses : ProcessRead(t, i, to)
      PROVE  Typed'
  BY <1>2, CreateTyped, CreateForEmployeeTyped, ReplyReadTyped, UpdateReadTyped, ProcessReadTyped
<1>3. ASSUME NEW t \in Handlers, SetInitialDue(t) \/ InitialDueFails(t) \/ Spawn(t)
      PROVE  Typed'
  BY <1>3, SetInitialDueTyped, InitialDueFailsTyped, SpawnTyped
<1>4. ASSUME NEW t \in Handlers,
             Update(t) \/ Process(t) \/ ReturnIfWaiting(t) \/ ExtendAfterReturn(t)
      PROVE  Typed'
  BY <1>4, UpdateTyped, ProcessTyped, ReturnIfWaitingTyped, ExtendAfterReturnTyped
<1>5. ASSUME NEW t \in Handlers, FollowRead(t) \/ Follow(t) \/ Fail(t)
      PROVE  Typed'
  BY <1>5, FollowReadTyped, FollowTyped, FailTyped
<1>6. ASSUME NEW i \in Ids,
             \/ \E s \in {"open", "done"}, d \in Dates \cup {task[i].due} :
                  TaskUpdate(i, [status |-> s, due |-> d])
             \/ TaskRemove(i)
      PROVE  Typed'
  BY <1>6, TaskUpdateTyped, TaskRemoveTyped
<1>7. Tick => Typed'
  BY TickTyped
<1> QED BY <1>1, <1>2, <1>3, <1>4, <1>5, <1>6, <1>7 DEF Next

LEMMA AlwaysTyped == Spec => []Typed
BY TypedInit, TypedNext, PTL DEF Spec

\* Types, and with the CHECKs of the migrations: a request waits exactly while it
\* knows where a reply returns it and since when it waits, whatever handlers do.
THEOREM Typing == Spec => []TypeOK
<1>1. Typed => TypeOK
  BY DEF Typed, Rows, Reads, WaitsKnown, TypeOK, Handler, Tasks
<1> QED BY <1>1, AlwaysTyped, PTL

\* Only a reply's own transaction lets it move on to its pause.
LEMMA OnlyReturns ==
  ASSUME Typed, Next, NEW t \in Handlers, req[t].pc = "reply", req'[t].pc = "extend"
  PROVE  ReturnIfWaiting(t)
<1>1. Idle.pc = "idle" /\ req \in [Handlers -> Handler]
  BY DEF Idle, At, Typed, Reads
<1>2. ASSUME NEW u \in Handlers, NEW r, Begin(u, r) PROVE FALSE
  BY <1>1, <1>2 DEF Begin
<1>3. ASSUME NEW u \in Handlers, Finish(u) PROVE FALSE
  BY <1>1, <1>3 DEF Finish
<1>4. ASSUME NEW u \in Handlers, NEW pc \in {"spawn", "follow"}, req' = [req EXCEPT ![u].pc = pc]
      PROVE  FALSE
  BY <1>1, <1>4 DEF Handler
<1>5. ASSUME NEW u \in Handlers, NEW d, Announce(u, d) PROVE FALSE
  BY <1>1, <1>5 DEF Announce, At
<1>6. ASSUME NEW u \in Handlers, SetInitialDue(u) PROVE FALSE
  <2>1. CASE row[req[u].id].due = NoDate
    BY <1>1, <1>6, <2>1 DEF SetInitialDue, At
  <2> QED BY <1>4, <1>6, <2>1 DEF SetInitialDue
<1>7. ASSUME NEW u \in Handlers, ReturnIfWaiting(u) PROVE u = t
  BY <1>1, <1>3, <1>7 DEF ReturnIfWaiting
<1>8. ASSUME UNCHANGED req PROVE FALSE
  BY <1>8
<1>9. ASSUME NEW u \in Handlers, NEW i \in Ids,
             \/ \E d \in Dates \cup {DueFor} : Create(u, i, d)
             \/ CreateForEmployee(u, i) \/ ReplyRead(u, i)
             \/ \E d \in Dates \cup {NoDate} : UpdateRead(u, i, d)
             \/ \E to \in Statuses : ProcessRead(u, i, to)
      PROVE  FALSE
  BY <1>2, <1>9 DEF Create, CreateForEmployee, ReplyRead, UpdateRead, ProcessRead
<1>10. ASSUME NEW u \in Handlers,
              InitialDueFails(u) \/ Spawn(u) \/ FollowRead(u) \/ Follow(u) \/ Fail(u)
       PROVE  FALSE
  BY <1>3, <1>4, <1>10 DEF InitialDueFails, Spawn, FollowRead, Follow, Fail
<1>11. ASSUME NEW u \in Handlers, Update(u) \/ Process(u) \/ ExtendAfterReturn(u) PROVE FALSE
  BY <1>3, <1>5, <1>11 DEF Update, Process, ExtendAfterReturn
<1>12. ASSUME NEW i \in Ids,
              \/ \E s \in {"open", "done"}, d \in Dates \cup {task[i].due} :
                   TaskUpdate(i, [status |-> s, due |-> d])
              \/ TaskRemove(i)
       PROVE  FALSE
  BY <1>8, <1>12 DEF TaskUpdate, TaskRemove
<1>13. Tick => FALSE
  BY <1>8 DEF Tick
<1> QED BY <1>6, <1>7, <1>9, <1>10, <1>11, <1>12, <1>13 DEF Next

\* A reply moves a request that waits, and only back to where it was asked from,
\* whatever staff did to it since the reply was read.
THEOREM RepliesReturn == Spec => ReplyReturns
<1>1. ASSUME Typed, Next, NEW t \in Handlers, req[t].pc = "reply", req'[t].pc = "extend"
      PROVE  LET i == req[t].id IN
             /\ row[i].status = "info_needed" /\ row'[i].status = row[i].returnsTo
             /\ row'[i].due = row[i].due
  <2> DEFINE i == req[t].id
  <2>1. ReturnIfWaiting(t)
    BY <1>1, OnlyReturns
  <2>2. /\ Returned(t).status # "info_needed" /\ Returned(t).due = row[i].due
        /\ i \in Ids /\ row \in [Ids -> Row]
    BY <1>1, ReturnedTyped, Known DEF Typed, Rows
  <2>3. ~Finish(t)
    BY <1>1 DEF Finish, Idle, At, Typed, Reads
  <2>4. /\ row[i].status = "info_needed" /\ InfoGuard(row[i], Returned(t), TRUE)
        /\ row' = [row EXCEPT ![i] = Returned(t)]
    BY <2>1, <2>3 DEF ReturnIfWaiting, Commit
  <2> QED BY <2>2, <2>4 DEF InfoGuard
<1>2. Typed /\ [Next]_vars =>
        [\A t \in Handlers : req[t].pc = "reply" /\ req'[t].pc = "extend" =>
           LET i == req[t].id IN
           /\ row[i].status = "info_needed" /\ row'[i].status = row[i].returnsTo
           /\ row'[i].due = row[i].due]_vars
  BY <1>1
<1> QED BY <1>2, AlwaysTyped, PTL DEF Spec, ReplyReturns
-----------------------------------------------------------------------------
(* A wait moves the date once.  The date a request should have is known    *)
(* while handlers are at work on it too: it is the row's, or the one a     *)
(* reply is about to write; and whoever read the row would write either    *)
(* no new date or the one it owes when the wait ends.                      *)

Waits(i) == row[i].status = "info_needed"
Target(i) == IF Waits(i) /\ owed[i] # NoDate THEN owed[i] + waited[i] ELSE owed[i]
Moved(t) == DueAfterPause(req[t].before)

Unknown(i) == row[i].status = "none" => Quiet(i) /\ owed[i] = NoDate
Counted(i) == waited[i] = IF Waits(i) THEN day - row[i].since ELSE 0
Alone(i) ==
  \A t, u \in Handlers : t # u /\ req[t].id = i /\ req[u].id = i => ~req[t].edit
Settled(i) ==
  \/ row[i].due = owed[i]
  \/ \E t \in Handlers : /\ req[t].id = i /\ req[t].pc = "extend"
                         /\ req[t].before.due = row[i].due /\ Moved(t) = owed[i]
\* No day ends while a handler runs: what it read of a wait that has lasted is so.
Fresh(t, i) ==
  waited[i] > 0 =>
    /\ req[t].pc \notin {"initial", "extend"}
    /\ (req[t].pc \in {"process", "reply"} =>
          req[t].before.since = row[i].since /\ req[t].before.due = row[i].due)
Owing(t, i) ==
  req[t].pc \in {"process", "reply", "extend"} =>
    /\ Moved(t) \in {req[t].before.due, Target(i)}
    /\ (row[i].due = NoDate => req[t].before.due = NoDate)

Fine(i) ==
  /\ Unknown(i) /\ Counted(i) /\ Alone(i) /\ Settled(i)
  /\ \A t \in Handlers : req[t].id = i => Fresh(t, i) /\ Owing(t, i)

\* Handler t does not read i after the step: it is done with it, or was never at it.
Passes(t, i) ==
  \E r \in Handler :
    /\ req' = [req EXCEPT ![t] = r]
    /\ r.id = i => /\ req[t].id = i /\ r.pc \in {"idle", "spawn", "announce", "follow"}
                   /\ r.edit => req[t].edit

Same(i) == UNCHANGED <<day, row[i], owed[i], waited[i]>>

LEMMA MovedStays ==
  ASSUME NEW t \in Handlers, req'[t].before = req[t].before, UNCHANGED day
  PROVE  Moved(t)' = Moved(t)
BY DEF Moved, DueAfterPause

LEMMA PassesAlone ==
  ASSUME Typed, NEW i \in Ids, NEW t \in Handlers, Passes(t, i), Alone(i)
  PROVE  Alone(i)'
BY DEF Typed, Reads, Passes, Alone

\* A step that leaves i as it is, by a handler that is not about to move its date.
LEMMA Frame ==
  ASSUME Typed, NEW i \in Ids, Fine(i), NEW t \in Handlers, Passes(t, i), Same(i),
         req[t].id = i /\ req[t].pc = "extend" =>
           row[i].due = owed[i] \/ req[t].before.due # row[i].due
  PROVE  Fine(i)'
<1>1. PICK r \in Handler :
        /\ req' = [req EXCEPT ![t] = r]
        /\ r.id = i => /\ req[t].id = i /\ r.pc \in {"idle", "spawn", "announce", "follow"}
                       /\ r.edit => req[t].edit
  BY DEF Passes
<1>2. \A u \in Handlers : u # t => req'[u] = req[u] /\ Moved(u)' = Moved(u)
  BY <1>1, MovedStays DEF Same
<1>3. req'[t] = r
  BY <1>1 DEF Typed, Reads
<1>4. Unknown(i)'
  BY <1>2, <1>3, <1>1 DEF Fine, Unknown, Quiet, Same
<1>5. Counted(i)'
  BY DEF Fine, Counted, Waits, Same
<1>6. Alone(i)'
  BY PassesAlone DEF Fine
<1>7. Settled(i)'
  <2>1. CASE row[i].due = owed[i]
    BY <2>1 DEF Settled, Same
  <2>2. CASE row[i].due # owed[i]
    <3>1. PICK u \in Handlers : /\ req[u].id = i /\ req[u].pc = "extend"
                                /\ req[u].before.due = row[i].due /\ Moved(u) = owed[i]
      BY <2>2 DEF Fine, Settled
    <3>2. u # t
      BY <2>2, <3>1
    <3> QED BY <1>2, <3>1, <3>2 DEF Settled, Same
  <2> QED BY <2>1, <2>2
<1>8. Target(i)' = Target(i)
  BY DEF Target, Waits, Same
<1>9. ASSUME NEW u \in Handlers, req'[u].id = i PROVE Fresh(u, i)' /\ Owing(u, i)'
  <2>1. CASE u = t
    BY <1>1, <1>3, <1>9, <2>1 DEF Fresh, Owing
  <2>2. CASE u # t
    BY <1>2, <1>8, <1>9, <2>2 DEF Fine, Fresh, Owing, Same
  <2> QED BY <2>1, <2>2
<1> QED BY <1>4, <1>5, <1>6, <1>7, <1>9 DEF Fine

LEMMA IdlePasses ==
  ASSUME Typed, NEW t \in Handlers, Finish(t), NEW i \in Ids
  PROVE  Passes(t, i)
BY DeskAssumption, Known, IdleTyped DEF Finish, Passes

LEMMA AnnouncePasses ==
  ASSUME Typed, NEW t \in Handlers, NEW d \in Nat, Announce(t, d), req[t].id \in Ids, NEW i \in Ids
  PROVE  Passes(t, i)
<1> DEFINE r == At("announce", req[t].id, req[t].edit, NotRaised, "none", d)
<1>1. req[t].edit \in BOOLEAN /\ day \in Nat
  BY DEF Typed, Rows, Reads, Handler
<1>2. r \in Handler /\ r.pc = "announce" /\ r.id = req[t].id /\ r.edit = req[t].edit
  BY <1>1, AtSound
<1>3. req' = [req EXCEPT ![t] = r] \/ Finish(t)
  BY DEF Announce, Finish, Typed, Reads
<1> HIDE DEF r
<1> QED BY <1>2, <1>3, IdlePasses DEF Passes

LEMMA PcPasses ==
  ASSUME Typed, NEW t \in Handlers, NEW pc \in {"spawn", "follow"}, req' = [req EXCEPT ![t].pc = pc],
         req[t].id \in Ids, NEW i \in Ids
  PROVE  Passes(t, i)
<1> DEFINE r == [req[t] EXCEPT !.pc = pc]
<1>1. r \in Handler /\ r.pc = pc /\ r.id = req[t].id /\ r.edit = req[t].edit
  BY PcTyped
<1>2. req' = [req EXCEPT ![t] = r]
  OBVIOUS
<1> HIDE DEF r
<1> QED BY <1>1, <1>2 DEF Passes

\* A handler begins to read i.
LEMMA BeginFine ==
  ASSUME Typed, NEW t \in Handlers, NEW i \in Ids, NEW r \in Handler, Begin(t, r),
         r.id = i, r.before = row[i], r.pc \in {"update", "process", "reply"}, row[i].status # "none",
         Same(i), Fine(i), i \notin crossed'
  PROVE  Fine(i)'
<1>0. req[t] = Idle /\ req' = [req EXCEPT ![t] = r] /\ ~Crosses(t, i, r.edit) /\ req'[t] = r
      /\ Idle.id = NoId /\ Idle.pc = "idle"
  <2>1. Idle.id = NoId /\ Idle.pc = "idle"
    BY DEF Idle, At
  <2> QED BY <2>1 DEF Begin, Typed, Reads, Rows
<1>1. \A u \in Handlers : u # t => req'[u] = req[u] /\ Moved(u)' = Moved(u)
  BY <1>0, MovedStays DEF Same
<1>2. Unknown(i)' /\ Counted(i)'
  BY DEF Fine, Unknown, Counted, Waits, Same
<1>3. Alone(i)'
  BY <1>0, <1>1 DEF Fine, Alone, Crosses
<1>4. Settled(i)'
  <2>1. CASE row[i].due = owed[i]
    BY <2>1 DEF Settled, Same
  <2>2. CASE row[i].due # owed[i]
    BY <1>0, <1>1, <2>2 DEF Fine, Settled, Same
  <2> QED BY <2>1, <2>2
<1>5. Target(i)' = Target(i)
  BY DEF Target, Waits, Same
<1>6. Fresh(t, i)'
  BY <1>0 DEF Fresh, Same
<1>7. Owing(t, i)'
  <2>1. Moved(t)' = DueAfterPause(row[i]) /\ WaitsKnown(row[i])
    BY <1>0 DEF Moved, DueAfterPause, Same, Typed, Rows
  <2>2. CASE row[i].due = NoDate \/ row[i].since = NoDate
    BY <1>0, <2>1, <2>2 DEF DueAfterPause, Owing, Same
  <2>3. CASE row[i].due # NoDate /\ row[i].since # NoDate
    <3>1. Waits(i) /\ waited[i] = day - row[i].since /\ row[i].due \in Nat /\ waited[i] \in Nat
      BY <2>1, <2>3 DEF Fine, Counted, Waits, WaitsKnown, Typed, Rows, Row
    <3>2. Moved(t)' = row[i].due + waited[i]
      BY <2>1, <2>3, <3>1 DEF DueAfterPause
    <3>3. CASE waited[i] = 0
      BY <1>0, <2>3, <3>1, <3>2, <3>3 DEF Owing, Same
    <3>4. CASE waited[i] > 0
      <4>1. row[i].due = owed[i]
        BY <3>4 DEF Fine, Settled, Fresh
      <4> QED BY <1>0, <1>5, <2>3, <3>1, <3>2, <4>1 DEF Owing, Target, Same
    <3> QED BY <3>1, <3>3, <3>4
  <2> QED BY <2>2, <2>3
<1>8. ASSUME NEW u \in Handlers, u # t, req'[u].id = i PROVE Fresh(u, i)' /\ Owing(u, i)'
  BY <1>1, <1>5, <1>8 DEF Fine, Fresh, Owing, Same
<1> QED BY <1>2, <1>3, <1>4, <1>6, <1>7, <1>8 DEF Fine

\* A handler dates i, which nobody else at work on it edits.
LEMMA CreateFine ==
  ASSUME Typed, NEW t \in Handlers, NEW i \in Ids, NEW r \in Handler, Begin(t, r), r.id = i,
         r.pc \in {"initial", "spawn"}, NEW d \in Nat, row' = [row EXCEPT ![i] = Raised(d)],
         owed'[i] = d, UNCHANGED <<day, waited>>, row[i].status = "none", Fine(i)
  PROVE  Fine(i)'
<1>1. req' = [req EXCEPT ![t] = r] /\ req'[t] = r /\ \A u \in Handlers : req[u].id # i
  BY DEF Begin, Fine, Unknown, Quiet, Typed, Reads
<1>2. \A u \in Handlers : u # t => req'[u].id # i
  BY <1>1
<1>3. row'[i] = Raised(d) /\ Raised(d).status = "open" /\ Raised(d).due = d
  BY RaisedTyped DEF Typed, Rows
<1>4. waited'[i] = 0
  BY DEF Fine, Counted, Waits
<1>5. Unknown(i)' /\ Counted(i)' /\ Settled(i)'
  BY <1>3, <1>4 DEF Unknown, Counted, Waits, Settled
<1>6. Alone(i)'
  BY <1>2 DEF Alone
<1>7. \A u \in Handlers : req'[u].id = i => Fresh(u, i)' /\ Owing(u, i)'
  BY <1>1, <1>2, <1>4 DEF Fresh, Owing
<1> QED BY <1>5, <1>6, <1>7 DEF Fine

\* The row's date is set, as another that reads i will not undo.
LEMMA DatedFine ==
  ASSUME Typed, NEW t \in Handlers, NEW i \in Ids, req[t].id = i, req[t].pc \in {"initial", "update"},
         NEW d \in Nat, Dated(i, d), Passes(t, i), UNCHANGED day, Fine(i),
         req[t].pc = "initial" => row[i].due = NoDate /\ d # NoDate
  PROVE  Fine(i)'
<1>1. PICK r \in Handler :
        /\ req' = [req EXCEPT ![t] = r]
        /\ r.id = i => /\ req[t].id = i /\ r.pc \in {"idle", "spawn", "announce", "follow"}
                       /\ r.edit => req[t].edit
  BY DEF Passes
<1>2. \A u \in Handlers : u # t => req'[u] = req[u] /\ Moved(u)' = Moved(u)
  BY <1>1, MovedStays
<1>3. req'[t] = r
  BY <1>1 DEF Typed, Reads
<1>4. /\ row'[i].status = row[i].status /\ row'[i].since = row[i].since /\ row'[i].due = d
      /\ owed'[i] = d /\ waited' = waited /\ waited[i] \in Nat
  BY DEF Dated, Typed, Rows, Row
<1>5. Unknown(i)' /\ Counted(i)' /\ Settled(i)'
  BY <1>4 DEF Fine, Unknown, Quiet, Counted, Waits, Settled
<1>6. Alone(i)'
  BY PassesAlone DEF Fine
<1>7. ASSUME NEW u \in Handlers, u # t, req'[u].id = i PROVE Fresh(u, i)' /\ Owing(u, i)'
  <2>1. req'[u] = req[u] /\ req[u].id = i /\ Moved(u)' = Moved(u)
    BY <1>2, <1>7
  <2>2. req[t].pc = "initial"
    BY <1>7, <2>1 DEF Typed, Reads, Sound, Fine, Alone
  <2>3. waited[i] = 0 /\ d # NoDate /\ row[i].due = NoDate
    BY <1>4, <2>2 DEF Fine, Fresh
  <2>4. req[u].pc \in {"process", "reply", "extend"} => Moved(u) = req[u].before.due
    BY <2>1, <2>3 DEF Fine, Owing, Moved, DueAfterPause
  <2> QED BY <1>4, <2>1, <2>3, <2>4 DEF Fresh, Owing
<1>8. ASSUME req'[t].id = i PROVE Fresh(t, i)' /\ Owing(t, i)'
  BY <1>1, <1>3, <1>8 DEF Fresh, Owing
<1> QED BY <1>5, <1>6, <1>7, <1>8 DEF Fine

\* A move by hand commits: the one that ends a wait, or any other.
LEMMA ProcessFine ==
  ASSUME Typed, NEW t \in Handlers, NEW i \in Ids, req[t].id = i, req[t].pc = "process",
         Commit(i, Processed(t)), Passes(t, i), UNCHANGED day, Fine(i)
  PROVE  Fine(i)'
<1> DEFINE p == Processed(t)
           b == req[t].before
           d == DueAfterPause(b)
<1>1. PICK r \in Handler :
        /\ req' = [req EXCEPT ![t] = r]
        /\ r.id = i => /\ req[t].id = i /\ r.pc \in {"idle", "spawn", "announce", "follow"}
                       /\ r.edit => req[t].edit
  BY DEF Passes
<1>2. \A u \in Handlers : u # t => req'[u] = req[u] /\ Moved(u)' = Moved(u)
  BY <1>1, MovedStays
<1>3. req'[t] = r
  BY <1>1 DEF Typed, Reads
<1>4. /\ p.status = req[t].to
      /\ p.since = IF req[t].to = "info_needed" THEN day ELSE NoDate
      /\ p.due = IF d # b.due THEN d ELSE row[i].due
  BY ProcessedTyped
<1>5. /\ row'[i] = p
      /\ owed'[i] = IF Waits(i) /\ p.status # "info_needed" /\ owed[i] # NoDate
                      THEN owed[i] + waited[i] ELSE owed[i]
      /\ waited'[i] = IF p.status = "info_needed" THEN waited[i] ELSE 0
      /\ owed[i] \in Nat /\ waited[i] \in Nat /\ row[i].due \in Nat
  BY DEF Commit, Waits, Typed, Rows, Row
<1>6. /\ b \in Row /\ WaitsKnown(b) /\ WaitsKnown(row[i]) /\ day \in Nat
      /\ req[t].to \in TRANSITIONS[b.status]
  BY Known DEF Sound
<1>7. /\ d \in Nat /\ b.due \in Nat /\ d >= b.due /\ (d = NoDate => b.due = NoDate)
      /\ d \in {b.due, Target(i)} /\ (row[i].due = NoDate => b.due = NoDate)
  BY <1>6, PauseTyped DEF Fine, Owing, Moved, WaitsKnown, Row
<1>8. req[t].to \in Statuses /\ (req[t].to = "info_needed" => waited[i] = 0)
  <2>1. req[t].to \in Statuses /\ (req[t].to = "info_needed" => b.status # "info_needed")
    BY <1>6, Workflow DEF Row
  <2>2. waited[i] > 0 => Waits(i) /\ b.since = row[i].since
    BY DEF Fine, Counted, Fresh
  <2> QED BY <1>5, <1>6, <2>1, <2>2 DEF Waits, WaitsKnown
<1> HIDE DEF p, d, b
<1>9. Unknown(i)'
  BY <1>4, <1>5, <1>8, StatusSet DEF Unknown
<1>10. Counted(i)'
  BY <1>4, <1>5, <1>6, <1>8 DEF Counted, Waits
<1>11. Target(i)' = Target(i)
  BY <1>4, <1>5, <1>8 DEF Target, Waits
<1>12. Settled(i)'
  <2>1. CASE d # b.due
    <3>1. row'[i].due = Target(i)
      BY <1>4, <1>5, <1>7, <2>1
    <3>2. Target(i)' = owed'[i]
      BY <1>4, <1>5, <1>8 DEF Target, Waits
    <3> QED BY <1>11, <3>1, <3>2 DEF Settled
  <2>2. CASE d = b.due /\ row[i].due = owed[i]
    <3>1. waited[i] > 0 /\ owed[i] # NoDate => d = b.due + waited[i]
      BY <1>6, <2>2 DEF Fine, Counted, Fresh, Waits, WaitsKnown, DueAfterPause, d, b, NoDate
    <3>2. waited[i] = 0 \/ owed[i] = NoDate
      BY <1>5, <1>7, <2>2, <3>1
    <3> QED BY <1>4, <1>5, <2>2, <3>2 DEF Settled
  <2>3. CASE d = b.due /\ row[i].due # owed[i]
    <3>1. PICK u \in Handlers : /\ req[u].id = i /\ req[u].pc = "extend"
                                /\ req[u].before.due = row[i].due /\ Moved(u) = owed[i]
      BY <2>3 DEF Fine, Settled
    <3>2. u # t /\ waited[i] = 0
      BY <1>5, <3>1 DEF Fine, Fresh
    <3>3. req'[u] = req[u] /\ Moved(u)' = owed'[i] /\ row'[i].due = row[i].due
      BY <1>2, <1>4, <1>5, <2>3, <3>1, <3>2
    <3> QED BY <3>1, <3>3 DEF Settled
  <2> QED BY <2>1, <2>2, <2>3
<1>13. ~(waited'[i] > 0)
  BY <1>4, <1>5, <1>8
<1>14. row'[i].due = NoDate => row[i].due = NoDate
  BY <1>4, <1>5, <1>7
<1>15. ASSUME NEW u \in Handlers, req'[u].id = i PROVE Fresh(u, i)' /\ Owing(u, i)'
  <2>1. CASE u = t
    BY <1>1, <1>3, <1>15, <2>1 DEF Fresh, Owing
  <2>2. CASE u # t
    BY <1>2, <1>11, <1>13, <1>14, <1>15, <2>2 DEF Fine, Fresh, Owing
  <2> QED BY <2>1, <2>2
<1>16. Alone(i)'
  BY PassesAlone DEF Fine
<1> QED BY <1>9, <1>10, <1>12, <1>15, <1>16 DEF Fine

\* A reply ends the wait; the date is to follow.
LEMMA ReturnFine ==
  ASSUME Typed, NEW t \in Handlers, NEW i \in Ids, req[t].id = i, req[t].pc = "reply", Waits(i),
         Commit(i, Returned(t)), req' = [req EXCEPT ![t].pc = "extend"], UNCHANGED day, Fine(i)
  PROVE  Fine(i)'
<1> DEFINE p == Returned(t)
           b == req[t].before
<1>1. req'[t] = [req[t] EXCEPT !.pc = "extend"] /\ \A u \in Handlers : u # t => req'[u] = req[u]
  BY DEF Typed, Reads
<1>2. /\ req'[t].pc = "extend" /\ req'[t].id = i /\ req'[t].edit = req[t].edit /\ req'[t].before = b
  BY <1>1 DEF Typed, Reads, Handler
<1>3. \A u \in Handlers : /\ req'[u].id = req[u].id /\ req'[u].edit = req[u].edit
                          /\ req'[u].before = req[u].before /\ Moved(u)' = Moved(u)
                          /\ req[u].pc = "extend" => req'[u].pc = "extend"
  BY <1>1, <1>2, MovedStays
<1>4. p \in Row /\ p.status # "info_needed" /\ p.due = row[i].due
  BY ReturnedTyped
<1>5. /\ row'[i] = p
      /\ owed'[i] = IF owed[i] # NoDate THEN owed[i] + waited[i] ELSE owed[i]
      /\ waited'[i] = 0 /\ owed[i] \in Nat /\ waited[i] \in Nat
  BY <1>4 DEF Commit, Waits, Typed, Rows
<1>6. /\ b \in Row /\ WaitsKnown(b) /\ WaitsKnown(row[i]) /\ day \in Nat
  BY Known DEF Sound
<1> HIDE DEF p, b
<1>7. Unknown(i)'
  <2>1. row[i].status # "none" /\ p.status # "none"
    <3>1. p.status = b.returnsTo /\ b.returnsTo \in {"open", "in_progress"}
      BY Known, ReturnedTyped DEF Sound, WaitsKnown, Row, p, b
    <3> QED BY <3>1 DEF Waits
  <2> QED BY <1>5, <2>1 DEF Unknown
<1>8. Counted(i)'
  BY <1>4, <1>5 DEF Counted, Waits
<1>9. Alone(i)'
  BY <1>3 DEF Fine, Alone
<1>10. Target(i)' = Target(i)
  BY <1>4, <1>5 DEF Target, Waits
<1>11. Settled(i)'
  <2>1. CASE row[i].due = owed[i] /\ (waited[i] = 0 \/ owed[i] = NoDate)
    BY <1>4, <1>5, <2>1 DEF Settled
  <2>2. CASE row[i].due = owed[i] /\ waited[i] > 0 /\ owed[i] # NoDate
    <3>1. b.since = row[i].since /\ b.due = row[i].due /\ waited[i] = day - row[i].since
          /\ row[i].since # NoDate
      BY <1>6, <2>2 DEF Fine, Fresh, Counted, Waits, WaitsKnown, b
    <3>2. Moved(t) = owed[i] + waited[i]
      BY <2>2, <3>1 DEF Moved, DueAfterPause, b
    <3> QED BY <1>2, <1>3, <1>4, <1>5, <2>2, <3>1, <3>2 DEF Settled
  <2>3. CASE row[i].due # owed[i]
    <3>1. PICK u \in Handlers : /\ req[u].id = i /\ req[u].pc = "extend"
                                /\ req[u].before.due = row[i].due /\ Moved(u) = owed[i]
      BY <2>3 DEF Fine, Settled
    <3>2. waited[i] = 0
      BY <1>5, <3>1 DEF Fine, Fresh
    <3> QED BY <1>3, <1>4, <1>5, <3>1, <3>2 DEF Settled
  <2> QED BY <1>5, <2>1, <2>2, <2>3
<1>12. ASSUME NEW u \in Handlers, req'[u].id = i PROVE Fresh(u, i)' /\ Owing(u, i)'
  <2>1. Fresh(u, i)'
    BY <1>5 DEF Fresh
  <2>2. Owing(u, i)
    BY <1>3, <1>12 DEF Fine
  <2>3. req'[u].pc \in {"process", "reply", "extend"} => req[u].pc \in {"process", "reply", "extend"}
    BY <1>1
  <2>4. Owing(u, i)'
    BY <1>3, <1>4, <1>5, <1>10, <2>2, <2>3 DEF Owing
  <2> QED BY <2>1, <2>4
<1> QED BY <1>7, <1>8, <1>9, <1>11, <1>12 DEF Fine

\* The pause of a reply is applied.
LEMMA ExtendFine ==
  ASSUME Typed, NEW t \in Handlers, NEW i \in Ids, req[t].id = i, req[t].pc = "extend",
         row[i].due = req[t].before.due, row' = [row EXCEPT ![i].due = Moved(t)],
         Passes(t, i), UNCHANGED <<day, owed, waited>>, Fine(i)
  PROVE  Fine(i)'
<1>1. PICK r \in Handler :
        /\ req' = [req EXCEPT ![t] = r]
        /\ r.id = i => /\ req[t].id = i /\ r.pc \in {"idle", "spawn", "announce", "follow"}
                       /\ r.edit => req[t].edit
  BY DEF Passes
<1>2. \A u \in Handlers : u # t => req'[u] = req[u] /\ Moved(u)' = Moved(u)
  BY <1>1, MovedStays
<1>3. req'[t] = r
  BY <1>1 DEF Typed, Reads
<1>4. /\ row'[i].status = row[i].status /\ row'[i].since = row[i].since /\ row'[i].due = Moved(t)
      /\ owed[i] \in Nat /\ waited[i] \in Nat
  BY DEF Typed, Rows, Row
<1>5. waited[i] = 0 /\ Target(i) = owed[i] /\ Target(i)' = Target(i)
  BY <1>4 DEF Fine, Fresh, Target, Waits
<1>6. Moved(t) \in {row[i].due, owed[i]} /\ (Moved(t) = NoDate => row[i].due = NoDate)
  <2>1. req[t].before \in Row /\ WaitsKnown(req[t].before) /\ day \in Nat
    BY Known
  <2> QED BY <1>5, <2>1, PauseTyped DEF Fine, Owing, Moved, WaitsKnown
<1>7. Unknown(i)' /\ Counted(i)'
  BY <1>4 DEF Fine, Unknown, Quiet, Counted, Waits
<1>8. Alone(i)'
  BY PassesAlone DEF Fine
<1>9. Settled(i)'
  <2>1. CASE Moved(t) = owed[i]
    BY <1>4, <2>1 DEF Settled
  <2>2. CASE Moved(t) # owed[i]
    <3>1. Moved(t) = row[i].due
      BY <1>6, <2>2
    <3>2. PICK u \in Handlers : /\ req[u].id = i /\ req[u].pc = "extend"
                                /\ req[u].before.due = row[i].due /\ Moved(u) = owed[i]
      BY <2>2, <3>1 DEF Fine, Settled
    <3> QED BY <1>2, <1>4, <2>2, <3>1, <3>2 DEF Settled
  <2> QED BY <2>1, <2>2
<1>10. ASSUME NEW u \in Handlers, req'[u].id = i PROVE Fresh(u, i)' /\ Owing(u, i)'
  <2>1. CASE u = t
    BY <1>1, <1>3, <1>10, <2>1 DEF Fresh, Owing
  <2>2. CASE u # t
    BY <1>2, <1>4, <1>5, <1>6, <1>10, <2>2 DEF Fine, Fresh, Owing
  <2> QED BY <2>1, <2>2
<1> QED BY <1>7, <1>8, <1>9, <1>10 DEF Fine

\* A day ends, and everybody's wait is a day longer.
LEMMA TickFine ==
  ASSUME Typed, Tick, NEW i \in Ids, Fine(i)
  PROVE  Fine(i)'
<1>1. Idle.id = NoId /\ NoId # i
  BY DeskAssumption DEF Idle, At
<1>2. \A t \in Handlers : req'[t].id # i /\ req[t].id # i
  BY <1>1 DEF Tick
<1>3. /\ row'[i] = row[i] /\ owed'[i] = owed[i] /\ day' = day + 1 /\ day \in Nat
      /\ waited'[i] = IF Waits(i) THEN waited[i] + 1 ELSE waited[i]
      /\ row[i].since \in Nat
  BY DEF Tick, Waits, Typed, Rows, Row
<1>4. Unknown(i)' /\ Counted(i)' /\ Alone(i)'
  BY <1>2, <1>3 DEF Fine, Unknown, Quiet, Counted, Waits, Alone
<1>5. Settled(i)'
  BY <1>2, <1>3 DEF Fine, Settled
<1> QED BY <1>2, <1>4, <1>5 DEF Fine

Due == \A i \in Ids \ crossed : Fine(i)

LEMMA DueInit == Init => Due
<1> SUFFICES ASSUME Init, NEW i \in Ids PROVE Fine(i)
  BY DEF Due
<1>1. Idle.id = NoId /\ NoId # i
  BY DeskAssumption DEF Idle, At
<1>2. row[i] = NotRaised /\ owed[i] = NoDate /\ waited[i] = 0 /\ \A t \in Handlers : req[t].id # i
  BY <1>1 DEF Init
<1> QED
  BY <1>2 DEF Fine, Unknown, Quiet, Counted, Waits, Alone, Settled, NotRaised

\* One lemma for each action; j is any request.
LEMMA RaiseDue ==
  ASSUME Typed, Due, NEW t \in Handlers, NEW i \in Ids, NEW r \in Handler, Begin(t, r), r.id = i,
         r.pc \in {"initial", "spawn"}, NEW d \in Nat, row' = [row EXCEPT ![i] = Raised(d)],
         owed' = [owed EXCEPT ![i] = d], UNCHANGED <<day, waited>>, row[i].status = "none"
  PROVE  Due'
<1> SUFFICES ASSUME NEW j \in Ids, j \notin crossed' PROVE Fine(j)'
  BY DEF Due
<1>1. Fine(j) /\ req' = [req EXCEPT ![t] = r] /\ req[t] = Idle
  BY DEF Due, Begin
<1>2. CASE j = i
  BY <1>1, <1>2, CreateFine DEF Typed, Rows
<1>3. CASE j # i
  <2>1. Idle.pc = "idle"
    BY DEF Idle, At
  <2> QED BY <1>1, <1>3, <2>1, Frame DEF Passes, Same, Typed, Rows
<1> QED BY <1>2, <1>3

LEMMA CreateDue ==
  ASSUME Typed, Due, NEW t \in Handlers, NEW i \in Ids, NEW d \in Dates \cup {DueFor}, Create(t, i, d)
  PROVE  Due'
<1> DEFINE r == At("spawn", i, FALSE, NotRaised, "none", d)
<1>1. d \in Nat /\ day \in Nat
  BY DeskAssumption, Known
<1>2. r \in Handler /\ r.id = i /\ r.pc = "spawn"
  BY <1>1, AtPlain
<1>3. Begin(t, r) /\ row' = [row EXCEPT ![i] = Raised(d)] /\ owed' = [owed EXCEPT ![i] = d]
      /\ UNCHANGED <<day, waited>> /\ row[i].status = "none"
  BY DEF Create
<1> HIDE DEF r
<1> QED BY <1>1, <1>2, <1>3, RaiseDue

LEMMA CreateForEmployeeDue ==
  ASSUME Typed, Due, NEW t \in Handlers, NEW i \in Ids, CreateForEmployee(t, i)
  PROVE  Due'
<1> DEFINE r == At("initial", i, FALSE, NotRaised, "none", NoDate)
<1>1. NoDate \in Nat /\ day \in Nat
  BY Known DEF NoDate
<1>2. r \in Handler /\ r.id = i /\ r.pc = "initial"
  BY <1>1, AtPlain
<1>3. Begin(t, r) /\ row' = [row EXCEPT ![i] = Raised(NoDate)] /\ owed' = owed
      /\ UNCHANGED <<day, waited>> /\ row[i].status = "none"
  BY DEF CreateForEmployee
<1>4. CASE i \in crossed
  <2> SUFFICES ASSUME NEW j \in Ids, j \notin crossed' PROVE Fine(j)'
    BY DEF Due
  <2>1. Fine(j) /\ req' = [req EXCEPT ![t] = r] /\ req[t] = Idle /\ j # i
    BY <1>3, <1>4 DEF Due, Begin
  <2>2. Idle.pc = "idle"
    BY DEF Idle, At
  <2> HIDE DEF r
  <2> QED BY <1>2, <1>3, <2>1, <2>2, Frame DEF Passes, Same, Typed, Rows
<1>5. CASE i \notin crossed
  <2>1. owed' = [owed EXCEPT ![i] = NoDate]
    BY <1>3, <1>5 DEF Due, Fine, Unknown, Typed, Rows
  <2> HIDE DEF r
  <2> QED BY <1>1, <1>2, <1>3, <2>1, RaiseDue
<1> QED BY <1>4, <1>5

\* A handler begins to read.
LEMMA ReadDue ==
  ASSUME Typed, Due, NEW t \in Handlers, NEW i \in Ids, NEW r \in Handler, Begin(t, r),
         r.id = i, r.before = row[i], r.pc \in {"update", "process", "reply"}, row[i].status # "none",
         UNCHANGED <<day, row, owed, waited>>
  PROVE  Due'
<1> SUFFICES ASSUME NEW j \in Ids, j \notin crossed' PROVE Fine(j)'
  BY DEF Due
<1>1. Fine(j) /\ req' = [req EXCEPT ![t] = r] /\ req[t] = Idle /\ Same(j)
  BY DEF Due, Begin, Same
<1>2. CASE j = i
  BY <1>1, <1>2, BeginFine
<1>3. CASE j # i
  <2>1. Idle.pc = "idle"
    BY DEF Idle, At
  <2> QED BY <1>1, <1>3, <2>1, Frame DEF Passes
<1> QED BY <1>2, <1>3

LEMMA ReadsDue ==
  ASSUME Typed, Due, NEW t \in Handlers, NEW i \in Ids,
         \/ ReplyRead(t, i)
         \/ \E d \in Dates \cup {NoDate} : UpdateRead(t, i, d)
         \/ \E to \in Statuses : ProcessRead(t, i, to)
  PROVE  Due'
<1>1. row[i] \in Row /\ NoDate \in Nat
  BY DEF Typed, Rows, NoDate
<1>2. ASSUME ReplyRead(t, i) PROVE Due'
  <2> DEFINE r == At("reply", i, FALSE, row[i], "none", NoDate)
  <2>1. r \in Handler /\ r.id = i /\ r.pc = "reply" /\ r.before = row[i]
    BY <1>1 DEF At, Handler
  <2>2. Begin(t, r) /\ UNCHANGED <<day, row, owed, waited>> /\ row[i].status # "none"
    BY <1>2 DEF ReplyRead
  <2> HIDE DEF r
  <2> QED BY <2>1, <2>2, ReadDue
<1>3. ASSUME NEW d \in Dates \cup {NoDate}, UpdateRead(t, i, d) PROVE Due'
  <2> DEFINE r == At("update", i, TRUE, row[i], "none", d)
  <2>1. d \in Nat
    BY <1>1, DeskAssumption
  <2>2. r \in Handler /\ r.id = i /\ r.pc = "update" /\ r.before = row[i]
    BY <1>1, <2>1 DEF At, Handler
  <2>3. Begin(t, r) /\ UNCHANGED <<day, row, owed, waited>> /\ row[i].status # "none"
    BY <1>3 DEF UpdateRead
  <2> HIDE DEF r
  <2> QED BY <2>2, <2>3, ReadDue
<1>4. ASSUME NEW to \in Statuses, ProcessRead(t, i, to) PROVE Due'
  <2> DEFINE r == At("process", i, FALSE, row[i], to, NoDate)
  <2>1. r \in Handler /\ r.id = i /\ r.pc = "process" /\ r.before = row[i]
    BY <1>1 DEF At, Handler
  <2>2. TRANSITIONS["none"] = {}
    BY DEF TRANSITIONS
  <2>3. Begin(t, r) /\ UNCHANGED <<day, row, owed, waited>> /\ row[i].status # "none"
    BY <1>4, <2>2 DEF ProcessRead
  <2> HIDE DEF r
  <2> QED BY <2>1, <2>3, ReadDue
<1> QED BY <1>2, <1>3, <1>4

\* A handler passes, and no row is touched.
LEMMA PassDue ==
  ASSUME Typed, Due, NEW t \in Handlers, \A j \in Ids : Passes(t, j),
         UNCHANGED <<day, row, owed, waited>>, crossed \subseteq crossed',
         req[t].pc = "extend" => \/ req[t].id \in crossed'
                                 \/ req[t].before.due # row[req[t].id].due
  PROVE  Due'
<1> SUFFICES ASSUME NEW j \in Ids, j \notin crossed' PROVE Fine(j)'
  BY DEF Due
<1>1. Fine(j) /\ Same(j)
  BY DEF Due, Same
<1> QED BY <1>1, Frame

LEMMA InitialDue ==
  ASSUME Typed, Due, NEW t \in Handlers, SetInitialDue(t) \/ InitialDueFails(t)
  PROVE  Due'
<1> DEFINE i == req[t].id
           r == At("spawn", i, FALSE, NotRaised, "none", DueFor)
<1>1. req[t].pc = "initial" /\ i \in Ids /\ DueFor \in Nat /\ day \in Nat /\ UNCHANGED <<day, crossed>>
  BY Known DEF SetInitialDue, InitialDueFails, hist
<1>2. CASE SetInitialDue(t) /\ row[i].due = NoDate
  <2>1. Dated(i, DueFor) /\ req' = [req EXCEPT ![t] = r]
    BY <1>2 DEF SetInitialDue
  <2>2. r \in Handler /\ r.pc = "spawn" /\ r.id = i /\ r.edit = FALSE
    <3>1. NotRaised \in Row
      BY <1>1, NotRaisedTyped
    <3> QED BY <1>1, <3>1 DEF At, Handler
  <2>3. DueFor # NoDate
    BY DeskAssumption DEF DueFor, NoDate, Typed, Rows
  <2> HIDE DEF r
  <2>4. \A j \in Ids : Passes(t, j)
    BY <2>1, <2>2 DEF Passes
  <2> SUFFICES ASSUME NEW j \in Ids, j \notin crossed' PROVE Fine(j)'
    BY DEF Due
  <2>5. CASE j = i
    BY <1>1, <1>2, <2>1, <2>3, <2>4, <2>5, DatedFine DEF Due
  <2>6. CASE j # i
    <3>1. Same(j)
      BY <1>1, <2>1, <2>6 DEF Same, Dated, Typed, Rows
    <3> QED BY <1>1, <2>4, <3>1, Frame DEF Due
  <2> QED BY <2>5, <2>6
<1>3. CASE InitialDueFails(t) \/ row[i].due # NoDate
  <2>1. req' = [req EXCEPT ![t].pc = "spawn"] /\ UNCHANGED <<row, owed, waited>>
    BY <1>3 DEF SetInitialDue, InitialDueFails, hist
  <2>2. \A j \in Ids : Passes(t, j)
    BY <1>1, <2>1, PcPasses
  <2> QED BY <1>1, <2>1, <2>2, PassDue
<1> QED BY <1>2, <1>3

LEMMA UpdateDue ==
  ASSUME Typed, Due, NEW t \in Handlers, Update(t)
  PROVE  Due'
<1> DEFINE i == req[t].id
           d == req[t].due
<1>1. req[t].pc = "update" /\ i \in Ids /\ d \in Nat /\ Dated(i, d) /\ UNCHANGED <<day, crossed>>
  BY Known DEF Update, Handler
<1>2. \A j \in Ids : Passes(t, j)
  BY <1>1, AnnouncePasses DEF Update
<1> SUFFICES ASSUME NEW j \in Ids, j \notin crossed' PROVE Fine(j)'
  BY DEF Due
<1>3. CASE j = i
  BY <1>1, <1>2, <1>3, DatedFine DEF Due
<1>4. CASE j # i
  <2>1. Same(j)
    BY <1>1, <1>4 DEF Same, Dated, Typed, Rows
  <2> QED BY <1>1, <1>2, <2>1, Frame DEF Due
<1> QED BY <1>3, <1>4

LEMMA ProcessDue ==
  ASSUME Typed, Due, NEW t \in Handlers, Process(t)
  PROVE  Due'
<1> DEFINE i == req[t].id
<1>1. /\ req[t].pc = "process" /\ i \in Ids /\ UNCHANGED <<day, crossed>>
      /\ Processed(t).due \in Nat
  BY Known, ProcessedTyped DEF Process, Row
<1>2. CASE Commit(i, Processed(t)) /\ Announce(t, Processed(t).due)
  <2>1. \A j \in Ids : Passes(t, j)
    BY <1>1, <1>2, AnnouncePasses
  <2> SUFFICES ASSUME NEW j \in Ids, j \notin crossed' PROVE Fine(j)'
    BY DEF Due
  <2>2. CASE j = i
    BY <1>1, <1>2, <2>1, <2>2, ProcessFine DEF Due
  <2>3. CASE j # i
    <3>1. Same(j)
      BY <1>1, <1>2, <2>3 DEF Same, Commit, Typed, Rows
    <3> QED BY <1>1, <2>1, <3>1, Frame DEF Due
  <2> QED BY <2>2, <2>3
<1>3. CASE Finish(t) /\ UNCHANGED <<row, owed, waited>>
  <2>1. \A j \in Ids : Passes(t, j)
    BY <1>3, IdlePasses
  <2> QED BY <1>1, <1>3, <2>1, PassDue
<1> QED BY <1>2, <1>3 DEF Process

LEMMA ReturnDue ==
  ASSUME Typed, Due, NEW t \in Handlers, ReturnIfWaiting(t)
  PROVE  Due'
<1> DEFINE i == req[t].id
           s == [req[t] EXCEPT !.pc = "extend"]
<1>1. req[t].pc = "reply" /\ i \in Ids /\ UNCHANGED <<day, crossed>>
  BY Known DEF ReturnIfWaiting
<1>2. CASE Waits(i) /\ Commit(i, Returned(t)) /\ req' = [req EXCEPT ![t].pc = "extend"]
  <2> SUFFICES ASSUME NEW j \in Ids, j \notin crossed' PROVE Fine(j)'
    BY DEF Due
  <2>1. CASE j = i
    BY <1>1, <1>2, <2>1, ReturnFine DEF Due
  <2>2. CASE j # i
    <3>1. Same(j)
      BY <1>1, <1>2, <2>2 DEF Same, Commit, Typed, Rows
    <3>2. s \in Handler /\ s.id = i /\ req' = [req EXCEPT ![t] = s]
      BY <1>1, <1>2, PcTyped, Known DEF Sound
    <3> HIDE DEF s
    <3>3. Passes(t, j)
      BY <2>2, <3>2 DEF Passes
    <3> QED BY <1>1, <3>1, <3>3, Frame DEF Due
  <2> QED BY <2>1, <2>2
<1>3. CASE Finish(t) /\ UNCHANGED <<row, owed, waited>>
  <2>1. \A j \in Ids : Passes(t, j)
    BY <1>3, IdlePasses
  <2> QED BY <1>1, <1>3, <2>1, PassDue
<1> QED BY <1>2, <1>3 DEF ReturnIfWaiting, Waits

LEMMA ExtendDue ==
  ASSUME Typed, Due, NEW t \in Handlers, ExtendAfterReturn(t)
  PROVE  Due'
<1> DEFINE i == req[t].id
<1>1. /\ req[t].pc = "extend" /\ i \in Ids /\ UNCHANGED <<day, owed, waited, crossed>>
      /\ Moved(t) \in Nat
  BY Known, PauseTyped DEF ExtendAfterReturn, hist, Moved, WaitsKnown
<1>2. CASE row[i].due = req[t].before.due
  <2>1. row' = [row EXCEPT ![i].due = Moved(t)] /\ Announce(t, Moved(t))
    BY <1>2 DEF ExtendAfterReturn, Moved
  <2>2. \A j \in Ids : Passes(t, j)
    BY <1>1, <2>1, AnnouncePasses
  <2> SUFFICES ASSUME NEW j \in Ids, j \notin crossed' PROVE Fine(j)'
    BY DEF Due
  <2>3. CASE j = i
    BY <1>1, <1>2, <2>1, <2>2, <2>3, ExtendFine DEF Due
  <2>4. CASE j # i
    <3>1. Same(j)
      BY <1>1, <2>1, <2>4 DEF Same, Typed, Rows
    <3> QED BY <1>1, <2>2, <2>4, <3>1, Frame DEF Due
  <2> QED BY <2>3, <2>4
<1>3. CASE row[i].due # req[t].before.due
  <2>1. Finish(t) /\ UNCHANGED row
    BY <1>3 DEF ExtendAfterReturn
  <2>2. \A j \in Ids : Passes(t, j)
    BY <2>1, IdlePasses
  <2> QED BY <1>1, <1>3, <2>1, <2>2, PassDue
<1> QED BY <1>2, <1>3

LEMMA TasksDue ==
  ASSUME Typed, Due, NEW t \in Handlers, Spawn(t) \/ FollowRead(t) \/ Follow(t)
  PROVE  Due'
<1>1. /\ req[t].pc \in {"spawn", "announce", "follow"} /\ req[t].id \in Ids
      /\ UNCHANGED <<day, row, owed, waited, crossed>>
  BY Known DEF Spawn, FollowRead, Follow, hist
<1>2. Finish(t) \/ req' = [req EXCEPT ![t].pc = "follow"]
  BY DEF Spawn, FollowRead, Follow
<1>3. \A j \in Ids : Passes(t, j)
  BY <1>1, <1>2, IdlePasses, PcPasses
<1> QED BY <1>1, <1>3, PassDue

LEMMA FailDue ==
  ASSUME Typed, Due, NEW t \in Handlers, Fail(t)
  PROVE  Due'
<1>1. /\ Finish(t) /\ UNCHANGED <<day, row, owed, waited>> /\ crossed \subseteq crossed'
      /\ req[t].pc = "extend" => req[t].id \in crossed'
  BY DEF Fail
<1>2. \A j \in Ids : Passes(t, j)
  BY <1>1, IdlePasses
<1> QED BY <1>1, <1>2, PassDue

LEMMA TickDue ==
  ASSUME Typed, Due, Tick
  PROVE  Due'
BY TickFine DEF Due, Tick

\* Neither the rows nor the handlers change.
LEMMA StillDue ==
  ASSUME Due, UNCHANGED <<row, day, req, owed, waited, crossed>>
  PROVE  Due'
BY DEF Due, Fine, Unknown, Quiet, Counted, Waits, Alone, Settled, Fresh, Owing, Target, Moved,
       DueAfterPause

LEMMA DueNext == Typed /\ Due /\ [Next]_vars => Due'
<1> SUFFICES ASSUME Typed, Due, [Next]_vars PROVE Due'
  OBVIOUS
<1>1. ASSUME UNCHANGED vars PROVE Due'
  BY <1>1, StillDue DEF vars, hist
<1>2. ASSUME NEW t \in Handlers, NEW i \in Ids,
             \/ \E d \in Dates \cup {DueFor} : Create(t, i, d)
             \/ CreateForEmployee(t, i) \/ ReplyRead(t, i)
             \/ \E d \in Dates \cup {NoDate} : UpdateRead(t, i, d)
             \/ \E to \in Statuses : ProcessRead(t, i, to)
      PROVE  Due'
  BY <1>2, CreateDue, CreateForEmployeeDue, ReadsDue
<1>3. ASSUME NEW t \in Handlers, SetInitialDue(t) \/ InitialDueFails(t) \/ Spawn(t)
      PROVE  Due'
  BY <1>3, InitialDue, TasksDue
<1>4. ASSUME NEW t \in Handlers,
             Update(t) \/ Process(t) \/ ReturnIfWaiting(t) \/ ExtendAfterReturn(t)
      PROVE  Due'
  BY <1>4, UpdateDue, ProcessDue, ReturnDue, ExtendDue
<1>5. ASSUME NEW t \in Handlers, FollowRead(t) \/ Follow(t) \/ Fail(t)
      PROVE  Due'
  BY <1>5, TasksDue, FailDue
<1>6. ASSUME NEW i \in Ids,
             \/ \E s \in {"open", "done"}, d \in Dates \cup {task[i].due} :
                  TaskUpdate(i, [status |-> s, due |-> d])
             \/ TaskRemove(i)
      PROVE  Due'
  BY <1>6, StillDue DEF TaskUpdate, TaskRemove, hist
<1>7. Tick => Due'
  BY TickDue
<1> QED BY <1>1, <1>2, <1>3, <1>4, <1>5, <1>6, <1>7 DEF Next

\* However replies and moves by hand race to end a wait, the due date moves by it
\* once, as long as nobody edits the date meanwhile and no pause is lost with its
\* handler.
THEOREM PausedOnce == Spec => []PauseOnce
<1>1. Typed /\ Due => PauseOnce
  BY DEF Due, Fine, Settled, PauseOnce, Quiet
<1>2. Typed /\ Due /\ [Next]_vars => (Typed /\ Due)'
  BY TypedNext, DueNext
<1> QED BY <1>1, <1>2, TypedInit, DueInit, PTL DEF Spec
-----------------------------------------------------------------------------
(* The open task follows the request's date                                *)

Tells(t) == req[t].pc \in {"initial", "spawn", "announce", "follow"}

\* What handler t, at work on i, has read of its date, or is to pass on.
Told(t, i) ==
  /\ req[t].pc = "update" => req[t].before.due = row[i].due
  /\ req[t].pc \in {"process", "reply", "extend"} /\ row[i].due # owed[i] =>
       req[t].before.due = row[i].due
  /\ Tells(t) => /\ req[t].due = row[i].due
                 /\ req[t].edit \/ (waited[i] = 0 /\ row[i].due = owed[i])
  /\ req[t].pc = "initial" =>
       /\ row[i].due = NoDate /\ task[i].status = "none"
       /\ \A u \in Handlers \ {t} : req[u].id = i => ~Tells(u)

\* The task has the date, or somebody is about to give it.
TaskHeard(i) ==
  /\ row[i].status = "none" => task[i].status = "none"
  /\ task[i].status = "open" =>
       \/ task[i].due = row[i].due
       \/ \E t \in Handlers : req[t].id = i /\ req[t].pc \in {"announce", "follow"}

Heard(i) == TaskHeard(i) /\ \A t \in Handlers : req[t].id = i => Told(t, i)

Heeded == \A i \in Ids \ (crossed \cup loose) : Heard(i)

LEMMA IdleIs == Idle.id = NoId /\ Idle.pc = "idle" /\ NoId \notin Ids
BY DeskAssumption DEF Idle, At

LEMMA HeededInit == Init => Heeded
<1> SUFFICES ASSUME Init, NEW i \in Ids PROVE Heard(i)
  BY DEF Heeded
<1>1. task[i].status = "none" /\ \A t \in Handlers : req[t].id # i
  BY IdleIs DEF Init, NoTask
<1> QED BY <1>1 DEF Heard, TaskHeard

\* A step of a handler that is at work elsewhere, before and after.
LEMMA HeardElsewhere ==
  ASSUME Typed, NEW i \in Ids, Heard(i), NEW t \in Handlers, NEW r \in Handler,
         req' = [req EXCEPT ![t] = r], req[t].id # i, r.id # i,
         UNCHANGED <<row[i], task[i], owed[i], waited[i]>>
  PROVE  Heard(i)'
<1>1. req'[t] = r /\ \A u \in Handlers : u # t => req'[u] = req[u]
  BY DEF Typed, Reads
<1>2. TaskHeard(i)'
  BY <1>1 DEF Heard, TaskHeard
<1>3. ASSUME NEW u \in Handlers, req'[u].id = i PROVE Told(u, i)'
  BY <1>1, <1>3 DEF Heard, Told, Tells
<1> QED BY <1>2, <1>3 DEF Heard

\* The same for all requests but the one it works on.
LEMMA HeededBy ==
  ASSUME Typed, Heeded, NEW t \in Handlers, NEW i \in Ids, NEW r \in Handler,
         req' = [req EXCEPT ![t] = r], req[t].id \in {i, NoId}, r.id \in {i, NoId},
         \A j \in Ids \ {i} : UNCHANGED <<row[j], task[j], owed[j], waited[j]>>,
         crossed \subseteq crossed', loose \subseteq loose',
         i \notin crossed' \cup loose' => Heard(i)'
  PROVE  Heeded'
<1> SUFFICES ASSUME NEW j \in Ids, j \notin crossed' \cup loose' PROVE Heard(j)'
  BY DEF Heeded
<1>1. CASE j = i
  BY <1>1
<1>2. CASE j # i
  <2>1. Heard(j) /\ req[t].id # j /\ r.id # j
    BY <1>2, IdleIs DEF Heeded
  <2> QED BY <1>2, <2>1, HeardElsewhere
<1> QED BY <1>1, <1>2

\* A handler of i is done, or ends its work without a word.
LEMMA FinishHeard ==
  ASSUME Typed, NEW t \in Handlers, NEW i \in Ids, Finish(t), Heard(i),
         UNCHANGED <<row[i], owed[i], waited[i], task[i]>>,
         \/ req[t].pc \notin {"announce", "follow"}
         \/ task[i].status = "open" => task[i].due = row[i].due
  PROVE  Heard(i)'
<1>1. req'[t] = Idle /\ \A u \in Handlers : u # t => req'[u] = req[u]
  BY DEF Finish, Typed, Reads
<1>2. TaskHeard(i)'
  BY <1>1 DEF Heard, TaskHeard
<1>3. ASSUME NEW u \in Handlers, req'[u].id = i PROVE Told(u, i)'
  <2>1. u # t /\ Told(u, i)
    BY <1>1, <1>3, IdleIs DEF Heard
  <2>2. ~Tells(t)'
    BY <1>1, IdleIs DEF Tells
  <2> QED BY <1>1, <2>1, <2>2 DEF Told, Tells
<1> QED BY <1>2, <1>3 DEF Heard

LEMMA RaiseHeard ==
  ASSUME Typed, NEW t \in Handlers, NEW i \in Ids, NEW r \in Handler, Begin(t, r), r.id = i,
         r.pc \in {"initial", "spawn"}, NEW d \in Nat, row' = [row EXCEPT ![i] = Raised(d)],
         r.pc = "initial" => d = NoDate, r.due = d,
         owed'[i] = d, UNCHANGED <<task, waited>>, row[i].status = "none", Fine(i), Heard(i)
  PROVE  Heard(i)'
<1>1. req'[t] = r /\ \A u \in Handlers : u # t => req'[u].id # i
  BY DEF Begin, Fine, Unknown, Quiet, Typed, Reads
<1>2. row'[i].due = d /\ waited'[i] = 0 /\ task'[i].status = "none"
  BY RaisedTyped DEF Typed, Rows, Fine, Counted, Waits, Heard, TaskHeard
<1>3. TaskHeard(i)'
  BY <1>2 DEF TaskHeard
<1>4. Told(t, i)'
  BY <1>1, <1>2 DEF Told, Tells
<1> QED BY <1>1, <1>3, <1>4 DEF Heard

LEMMA ReadHeard ==
  ASSUME Typed, NEW t \in Handlers, NEW i \in Ids, NEW r \in Handler, Begin(t, r), r.id = i,
         r.before = row[i], r.pc \in {"update", "process", "reply"},
         UNCHANGED <<row, task, owed, waited>>, Heard(i)
  PROVE  Heard(i)'
<1>1. req[t] = Idle /\ req'[t] = r /\ \A u \in Handlers : u # t => req'[u] = req[u]
  BY DEF Begin, Typed, Reads
<1>2. TaskHeard(i)'
  BY <1>1, IdleIs DEF Heard, TaskHeard
<1>3. Told(t, i)' /\ ~Tells(t)'
  BY <1>1 DEF Told, Tells
<1>4. ASSUME NEW u \in Handlers, u # t, req'[u].id = i PROVE Told(u, i)'
  BY <1>1, <1>3, <1>4 DEF Heard, Told, Tells
<1> QED BY <1>2, <1>3, <1>4 DEF Heard

\* The event of an employee's request, with the date it now has, or without one.
LEMMA InitialHeard ==
  ASSUME Typed, NEW t \in Handlers, NEW i \in Ids, req[t].id = i, req[t].pc = "initial",
         SetInitialDue(t) \/ InitialDueFails(t), Fine(i), Heard(i)
  PROVE  Heard(i)'
<1>1. /\ Told(t, i) /\ row[i].due = NoDate /\ req[t].due = NoDate /\ task[i].status = "none"
      /\ \A u \in Handlers \ {t} : req[u].id = i => ~Tells(u)
  BY DEF Heard, Told, Tells
<1>2. task' = task /\ waited' = waited /\ \A u \in Handlers : u # t => req'[u] = req[u]
  BY <1>1 DEF SetInitialDue, InitialDueFails, Dated, hist, Typed, Reads
<1>3. TaskHeard(i)'
  BY <1>1, <1>2 DEF TaskHeard
<1>4. CASE SetInitialDue(t)
  <2>1. /\ row'[i].due = DueFor /\ owed'[i] = DueFor
        /\ req'[t] = At("spawn", i, FALSE, NotRaised, "none", DueFor)
    BY <1>1, <1>4 DEF SetInitialDue, Dated, Typed, Rows, Reads, Row
  <2>2. req'[t].pc = "spawn" /\ req'[t].due = DueFor
    BY <2>1 DEF At
  <2>3. waited[i] = 0
    BY DEF Fine, Fresh, Typed, Rows
  <2>4. Told(t, i)'
    BY <1>2, <2>1, <2>2, <2>3 DEF Told, Tells
  <2>5. ASSUME NEW u \in Handlers, u # t, req'[u].id = i PROVE Told(u, i)'
    <3>1. req'[u] = req[u] /\ ~Tells(u) /\ req[u].pc # "update"
      BY <1>1, <1>2, <2>5 DEF Fine, Alone, Typed, Reads, Sound
    <3> QED BY <2>1, <3>1 DEF Told, Tells
  <2> QED BY <1>3, <2>4, <2>5 DEF Heard
<1>5. CASE InitialDueFails(t)
  <2>1. /\ row' = row /\ owed' = owed /\ req'[t].pc = "spawn" /\ req'[t].due = req[t].due
        /\ req'[t].edit = req[t].edit
    BY <1>5 DEF InitialDueFails, hist, Typed, Reads, Handler
  <2>2. Told(t, i)'
    BY <1>1, <1>2, <2>1 DEF Told, Tells
  <2>3. ASSUME NEW u \in Handlers, u # t, req'[u].id = i PROVE Told(u, i)'
    <3>1. Told(u, i) /\ req'[u] = req[u] /\ req[u].pc # "initial"
      BY <1>1, <1>2, <2>3 DEF Heard, Tells
    <3> QED BY <1>2, <2>1, <3>1 DEF Told, Tells
  <2> QED BY <1>3, <2>2, <2>3 DEF Heard
<1> QED BY <1>4, <1>5

\* Who announces a date passes on what the row has by now.
LEMMA AnnounceSays ==
  ASSUME Typed, NEW t \in Handlers, NEW d \in Nat, Announce(t, d), req[t].id \in Ids
  PROVE  /\ \A u \in Handlers : u # t => req'[u] = req[u]
         /\ \/ d = req[t].before.due /\ req'[t] = Idle
            \/ /\ d # req[t].before.due /\ req'[t].pc = "announce" /\ req'[t].id = req[t].id
               /\ req'[t].edit = req[t].edit /\ req'[t].due = d
BY DEF Announce, At, Typed, Reads

\* An edit: nobody else is at work on the request.
LEMMA UpdateHeard ==
  ASSUME Typed, NEW t \in Handlers, NEW i \in Ids, req[t].id = i, Update(t), Fine(i), Heard(i)
  PROVE  Heard(i)'
<1> DEFINE d == req[t].due
<1>1. /\ req[t].pc = "update" /\ req[t].edit /\ d \in Nat /\ Dated(i, d) /\ Announce(t, d) /\ task' = task
      /\ Told(t, i)
  BY Known DEF Update, Handler, Sound, Heard
<1>2. \A u \in Handlers : u # t => req'[u] = req[u] /\ req[u].id # i
  BY <1>1, AnnounceSays DEF Fine, Alone
<1>3. row'[i].due = d /\ row'[i].status = row[i].status /\ owed'[i] = d
  BY <1>1 DEF Dated, Typed, Rows, Row
<1>4. \/ d = req[t].before.due /\ req'[t] = Idle
      \/ /\ d # req[t].before.due /\ req'[t].pc = "announce" /\ req'[t].id = i
         /\ req'[t].edit = req[t].edit /\ req'[t].due = d
  BY <1>1, AnnounceSays
<1>5. TaskHeard(i)'
  <2>1. CASE d = req[t].before.due
    <3>1. row[i].due = d
      BY <1>1, <2>1 DEF Told
    <3> QED BY <1>1, <1>2, <1>3, <3>1 DEF Heard, TaskHeard
  <2>2. CASE d # req[t].before.due
    BY <1>1, <1>3, <1>4, <2>2 DEF Heard, TaskHeard
  <2> QED BY <2>1, <2>2
<1>6. req'[t].id = i => Told(t, i)'
  BY <1>1, <1>3, <1>4, IdleIs DEF Told, Tells
<1> QED BY <1>2, <1>5, <1>6 DEF Heard

\* What a move by hand writes is due, or as it was.
LEMMA ProcessOwes ==
  ASSUME Typed, NEW t \in Handlers, NEW i \in Ids, req[t].id = i, req[t].pc = "process",
         Commit(i, Processed(t)), Fine(i)
  PROVE  /\ waited'[i] = 0 /\ owed'[i] = Target(i)
         /\ row'[i].due = Processed(t).due /\ row'[i].status # "none" /\ row[i].status # "none"
         /\ \/ /\ Processed(t).due = Moved(t) /\ Moved(t) = Target(i)
               /\ Moved(t) # req[t].before.due
            \/ Processed(t).due = row[i].due /\ Moved(t) = req[t].before.due
<1> DEFINE p == Processed(t)
           b == req[t].before
<1>1. /\ p.status = req[t].to
      /\ p.due = IF Moved(t) # b.due THEN Moved(t) ELSE row[i].due
  BY ProcessedTyped DEF Moved
<1>2. /\ row'[i] = p
      /\ owed'[i] = IF Waits(i) /\ p.status # "info_needed" /\ owed[i] # NoDate
                      THEN owed[i] + waited[i] ELSE owed[i]
      /\ waited'[i] = IF p.status = "info_needed" THEN waited[i] ELSE 0
      /\ owed[i] \in Nat /\ waited[i] \in Nat
  BY DEF Commit, Waits, Typed, Rows
<1>3. b \in Row /\ WaitsKnown(b) /\ WaitsKnown(row[i]) /\ req[t].to \in TRANSITIONS[b.status]
  BY Known DEF Sound
<1>4. Moved(t) \in {b.due, Target(i)}
  BY DEF Fine, Owing
<1> HIDE DEF p, b
<1>5. req[t].to \in Statuses /\ (req[t].to = "info_needed" => waited[i] = 0)
  <2>1. req[t].to \in Statuses /\ (req[t].to = "info_needed" => b.status # "info_needed")
    BY <1>3, Workflow DEF Row
  <2>2. waited[i] > 0 => Waits(i) /\ b.since = row[i].since
    BY DEF Fine, Counted, Fresh, b
  <2> QED BY <1>2, <1>3, <2>1, <2>2 DEF Waits, WaitsKnown
<1>6. p.status # "none" /\ row[i].status # "none"
  BY <1>1, <1>5, StatusSet DEF Fine, Unknown, Quiet
<1>7. waited'[i] = 0 /\ owed'[i] = Target(i)
  BY <1>1, <1>2, <1>5 DEF Target, Waits
<1> QED BY <1>1, <1>2, <1>4, <1>6, <1>7 DEF p, b

\* While somebody is yet to pass on the date, nothing more is due.
LEMMA ToldOwes ==
  ASSUME Typed, NEW i \in Ids, Fine(i), Heard(i), NEW t \in Handlers, req[t].id = i,
         NEW u \in Handlers, u # t, req[u].id = i, Tells(u)
  PROVE  waited[i] = 0 /\ row[i].due = owed[i] /\ Target(i) = owed[i]
<1>1. waited[i] = 0 /\ row[i].due = owed[i] /\ owed[i] \in Nat
  BY DEF Fine, Alone, Heard, Told, Typed, Rows
<1> QED BY <1>1 DEF Target

LEMMA ProcessHeard ==
  ASSUME Typed, NEW t \in Handlers, NEW i \in Ids, req[t].id = i, req[t].pc = "process",
         Commit(i, Processed(t)), Announce(t, Processed(t).due), UNCHANGED task, Fine(i), Heard(i)
  PROVE  Heard(i)'
<1> DEFINE d == Processed(t).due
           b == req[t].before
<1>1. /\ waited'[i] = 0 /\ owed'[i] = Target(i) /\ waited[i] \in Nat /\ owed[i] \in Nat
      /\ row'[i].due = d /\ row'[i].status # "none" /\ d \in Nat
      /\ \/ d = Moved(t) /\ Moved(t) = Target(i) /\ d # b.due
         \/ d = row[i].due /\ Moved(t) = b.due
  BY ProcessOwes, ProcessedTyped DEF Row, Typed, Rows
<1>2. \A u \in Handlers : u # t => req'[u] = req[u]
  BY <1>1, AnnounceSays
<1>3. \/ d = b.due /\ req'[t] = Idle
      \/ d # b.due /\ req'[t].pc = "announce" /\ req'[t].id = i /\ req'[t].due = d
  BY <1>1, AnnounceSays
<1>4. waited[i] > 0 => row[i].due = owed[i] /\ b.due = row[i].due
  BY DEF Fine, Fresh, Settled
<1>5. d # b.due => d = owed'[i]
  <2>1. CASE d = row[i].due /\ d # b.due
    <3>1. row[i].due = owed[i] /\ waited[i] = 0
      BY <1>1, <1>4, <2>1 DEF Heard, Told
    <3> QED BY <1>1, <2>1, <3>1 DEF Target
  <2> QED BY <1>1, <2>1
<1>6. ASSUME NEW u \in Handlers, u # t, req[u].id = i, Tells(u) PROVE d = row[i].due /\ owed'[i] = owed[i]
  BY <1>1, <1>6, ToldOwes
<1>7. TaskHeard(i)'
  <2>1. CASE d = row[i].due
    BY <1>1, <1>2, <2>1 DEF Heard, TaskHeard
  <2>2. CASE d # row[i].due
    BY <1>1, <1>3, <2>2 DEF TaskHeard
  <2> QED BY <2>1, <2>2
<1>8. req'[t].id = i => Told(t, i)'
  <2>1. CASE d = b.due
    BY <1>3, <2>1, IdleIs
  <2>2. CASE d # b.due
    BY <1>1, <1>3, <1>5, <2>2 DEF Told, Tells
  <2> QED BY <2>1, <2>2
<1>9. ASSUME NEW u \in Handlers, u # t, req'[u].id = i PROVE Told(u, i)'
  <2>1. req'[u] = req[u] /\ req[u].id = i /\ Told(u, i) /\ req[u].pc # "update"
    BY <1>2, <1>9 DEF Heard, Fine, Alone, Typed, Reads, Sound
  <2>2. CASE Tells(u)
    <3>1. d = row[i].due /\ owed'[i] = owed[i] /\ req[u].due = d /\ row[i].due = owed[i]
      BY <1>6, <1>9, <2>1, <2>2, ToldOwes DEF Told
    <3>2. req[u].pc = "initial" => d = b.due
      <4>1. CASE req[u].pc = "initial"
        <5>1. row[i].due = NoDate
          BY <2>1, <4>1 DEF Told
        <5> QED BY <3>1, <5>1 DEF Fine, Owing, b
      <4> QED BY <4>1
    <3>3. req[u].pc = "initial" => ~Tells(t)'
      BY <1>3, <3>2, IdleIs DEF Tells
    <3>4. \A v \in Handlers \ {t} : Tells(v)' <=> Tells(v)
      BY <1>2 DEF Tells
    <3> QED
      BY <1>1, <1>2, <2>1, <2>2, <3>1, <3>3, <3>4 DEF Told, Tells
  <2>3. CASE ~Tells(u)
    <3>1. CASE req[u].pc \in {"process", "reply", "extend"} /\ d # owed'[i]
      <4>1. d = row[i].due
        BY <1>1, <3>1
      <4>2. CASE waited[i] = 0
        BY <1>1, <2>1, <2>3, <3>1, <4>1, <4>2 DEF Told, Tells, Target
      <4>3. CASE waited[i] > 0
        BY <1>1, <2>1, <2>3, <3>1, <4>1, <4>3 DEF Fine, Fresh, Told, Tells
      <4> QED BY <1>1, <4>2, <4>3
    <3>2. CASE ~(req[u].pc \in {"process", "reply", "extend"} /\ d # owed'[i])
      BY <1>1, <2>1, <2>3, <3>2 DEF Told, Tells
    <3> QED BY <3>1, <3>2
  <2> QED BY <2>2, <2>3
<1> QED BY <1>7, <1>8, <1>9 DEF Heard

\* A reply ends the wait, and its pause is still to come.
LEMMA ReturnHeard ==
  ASSUME Typed, NEW t \in Handlers, NEW i \in Ids, req[t].id = i, req[t].pc = "reply", Waits(i),
         Commit(i, Returned(t)), req' = [req EXCEPT ![t].pc = "extend"], UNCHANGED task,
         Fine(i), Heard(i)
  PROVE  Heard(i)'
<1>1. /\ req'[t].pc = "extend" /\ req'[t].id = i /\ req'[t].before = req[t].before
      /\ \A u \in Handlers : u # t => req'[u] = req[u]
  BY DEF Typed, Reads, Handler
<1>2. /\ row'[i].due = row[i].due /\ row'[i].status # "none" /\ row[i].status # "none"
      /\ waited'[i] = 0 /\ waited[i] \in Nat /\ owed[i] \in Nat
      /\ owed'[i] = IF owed[i] # NoDate THEN owed[i] + waited[i] ELSE owed[i]
  <2>1. /\ Returned(t).due = row[i].due /\ Returned(t).status # "info_needed"
        /\ Returned(t).status = req[t].before.returnsTo
        /\ req[t].before.returnsTo \in {"open", "in_progress"}
    BY ReturnedTyped, Known DEF Sound, WaitsKnown, Row
  <2> QED BY <2>1 DEF Commit, Waits, Typed, Rows
<1>3. TaskHeard(i)'
  BY <1>1, <1>2 DEF Heard, TaskHeard
<1>4. ASSUME NEW u \in Handlers, req'[u].id = i PROVE Told(u, i)'
  <2>1. /\ req[u].id = i /\ req'[u].before = req[u].before /\ Told(u, i)
        /\ req'[u].pc = IF u = t THEN "extend" ELSE req[u].pc
        /\ u # t => req'[u] = req[u] /\ req[u].pc # "update"
    BY <1>1, <1>4 DEF Heard, Fine, Alone, Typed, Reads, Sound
  <2>2. CASE Tells(u)
    <3>1. u # t /\ waited[i] = 0 /\ row[i].due = owed[i]
      BY <2>2, ToldOwes, <2>1 DEF Tells
    <3>2. \A v \in Handlers : Tells(v)' => Tells(v)
      BY <1>1 DEF Tells
    <3>3. req[u].pc = "initial" => \A v \in Handlers \ {u} : req'[v].id = i => ~Tells(v)'
      BY <1>1, <2>1, <3>2 DEF Told
    <3> QED BY <1>2, <2>1, <2>2, <3>1, <3>3 DEF Told, Tells
  <2>3. CASE ~Tells(u)
    <3>1. CASE waited[i] = 0
      BY <1>2, <2>1, <2>3, <3>1 DEF Told, Tells
    <3>2. CASE waited[i] > 0
      <4>1. req[u].pc \in {"process", "reply"} => req[u].before.due = row[i].due
        BY <2>1, <3>2 DEF Fine, Fresh
      <4>2. req[u].pc # "extend"
        BY <2>1, <3>2 DEF Fine, Fresh
      <4> QED BY <1>2, <2>1, <2>3, <4>1, <4>2 DEF Told, Tells
    <3> QED BY <1>2, <3>1, <3>2
  <2> QED BY <2>2, <2>3
<1> QED BY <1>3, <1>4 DEF Heard

\* The pause of a reply is applied, and told.
LEMMA ExtendHeard ==
  ASSUME Typed, NEW t \in Handlers, NEW i \in Ids, req[t].id = i, req[t].pc = "extend",
         row[i].due = req[t].before.due, row' = [row EXCEPT ![i].due = Moved(t)], Moved(t) \in Nat,
         Announce(t, Moved(t)), UNCHANGED <<owed, waited, task>>, Fine(i), Heard(i)
  PROVE  Heard(i)'
<1> DEFINE d == Moved(t)
<1>1. \A u \in Handlers : u # t => req'[u] = req[u]
  BY AnnounceSays
<1>2. \/ d = row[i].due /\ req'[t] = Idle
      \/ d # row[i].due /\ req'[t].pc = "announce" /\ req'[t].id = i /\ req'[t].due = d
  BY AnnounceSays
<1>3. row'[i].due = d /\ row'[i].status = row[i].status
  BY DEF Typed, Rows, Row
<1>4. waited[i] = 0 /\ Target(i) = owed[i] /\ d \in {row[i].due, owed[i]}
  <2>1. waited[i] = 0 /\ owed[i] \in Nat /\ d \in {row[i].due, Target(i)}
    BY DEF Fine, Fresh, Owing, Typed, Rows
  <2> QED BY <2>1 DEF Target
<1> HIDE DEF d
<1>5. TaskHeard(i)'
  BY <1>1, <1>2, <1>3 DEF Heard, TaskHeard
<1>6. req'[t].id = i => Told(t, i)'
  BY <1>2, <1>3, <1>4, IdleIs DEF Told, Tells
<1>7. ASSUME NEW u \in Handlers, u # t, req'[u].id = i PROVE Told(u, i)'
  <2>1. req'[u] = req[u] /\ req[u].id = i /\ Told(u, i) /\ req[u].pc # "update"
    BY <1>1, <1>7 DEF Heard, Fine, Alone, Typed, Reads, Sound
  <2>2. CASE Tells(u)
    <3>1. row[i].due = owed[i]
      BY <1>7, <2>1, <2>2, ToldOwes
    <3>2. d = row[i].due /\ ~Tells(t)'
      BY <1>2, <1>4, <3>1, IdleIs DEF Tells
    <3>3. \A v \in Handlers : Tells(v)' => Tells(v)
      BY <1>1, <3>2 DEF Tells
    <3> QED BY <1>1, <1>3, <2>1, <3>2, <3>3 DEF Told, Tells
  <2>3. CASE ~Tells(u)
    BY <1>3, <1>4, <2>1, <2>3 DEF Told, Tells
  <2> QED BY <2>2, <2>3
<1> QED BY <1>5, <1>6, <1>7 DEF Heard

\* The task is made, or moved, with the date the row has.
LEMMA TaskWrittenHeard ==
  ASSUME Typed, NEW t \in Handlers, NEW i \in Ids, req[t].id = i, Spawn(t) \/ Follow(t),
         Fine(i), Heard(i)
  PROVE  Heard(i)'
<1>1. /\ Tells(t) /\ req[t].pc # "initial" /\ Told(t, i) /\ Finish(t)
      /\ row' = row /\ owed' = owed /\ waited' = waited
  BY DEF Spawn, Follow, hist, Heard, Tells
<1>2. req'[t] = Idle /\ \A u \in Handlers : u # t => req'[u] = req[u]
  BY <1>1 DEF Finish, Typed, Reads
<1>3. row[i].status # "none"
  BY DEF Fine, Unknown, Quiet
<1>4. task'[i].status = "open" => task'[i].due = row[i].due
  BY <1>1 DEF Spawn, Follow, Told, Typed, Rows, Tasks
<1>5. TaskHeard(i)'
  BY <1>1, <1>3, <1>4 DEF TaskHeard
<1>6. ASSUME NEW u \in Handlers, req'[u].id = i PROVE Told(u, i)'
  <2>1. u # t /\ req'[u] = req[u] /\ req[u].id = i /\ Told(u, i)
    BY <1>2, <1>6, IdleIs DEF Heard
  <2>2. req[u].pc # "initial"
    BY <1>1, <2>1 DEF Told
  <2> QED BY <1>1, <2>1, <2>2 DEF Told, Tells
<1> QED BY <1>5, <1>6 DEF Heard

LEMMA FollowReadHeard ==
  ASSUME Typed, NEW t \in Handlers, NEW i \in Ids, req[t].id = i, FollowRead(t), Heard(i)
  PROVE  Heard(i)'
<1>1. /\ Told(t, i) /\ req[t].pc = "announce" /\ UNCHANGED <<row, task, owed, waited>>
      /\ req[t].due = row[i].due
  BY DEF FollowRead, hist, Heard, Told, Tells
<1>2. CASE Finish(t) /\ ~(task[i].status = "open" /\ task[i].due # req[t].due)
  BY <1>1, <1>2, FinishHeard
<1>3. CASE req' = [req EXCEPT ![t].pc = "follow"]
  <2>1. /\ req'[t].pc = "follow" /\ req'[t].id = i /\ req'[t].edit = req[t].edit
        /\ req'[t].due = req[t].due /\ \A u \in Handlers : u # t => req'[u] = req[u]
    BY <1>3 DEF Typed, Reads, Handler
  <2>2. TaskHeard(i)'
    BY <1>1, <2>1 DEF Heard, TaskHeard
  <2>3. ASSUME NEW u \in Handlers, req'[u].id = i PROVE Told(u, i)'
    <3>1. Told(u, i) /\ \A v \in Handlers : /\ Tells(v)' <=> Tells(v) /\ req'[v].id = req[v].id
      BY <1>1, <2>1, <2>3 DEF Heard, Tells
    <3> QED BY <1>1, <2>1, <3>1 DEF Told, Tells
  <2> QED BY <2>2, <2>3 DEF Heard
<1> QED BY <1>2, <1>3 DEF FollowRead

\* A task done or removed by hand, or written with the date it has.
LEMMA ByHandHeard ==
  ASSUME Typed, NEW i \in Ids, Heard(i), UNCHANGED <<row, req, owed, waited>>,
         task[i].status # "none",
         task'[i].status = "open" => task[i].status = "open" /\ task'[i].due = task[i].due
  PROVE  Heard(i)'
<1>1. row[i].status # "none" /\ TaskHeard(i)'
  BY DEF Heard, TaskHeard
<1>2. ASSUME NEW u \in Handlers, req'[u].id = i PROVE Told(u, i)'
  <2>1. req[u].pc # "initial"
    BY <1>2 DEF Heard, Told
  <2> QED BY <1>2, <2>1 DEF Heard, Told, Tells
<1> QED BY <1>1, <1>2 DEF Heard

-----------------------------------------------------------------------------
(* One lemma for each group of actions                                     *)

LEMMA CreateHeeded ==
  ASSUME Typed, Due, Heeded, NEW t \in Handlers, NEW i \in Ids,
         CreateForEmployee(t, i) \/ \E d \in Dates \cup {DueFor} : Create(t, i, d)
  PROVE  Heeded'
<1>1. day \in Nat /\ NoDate \in Nat /\ \A d \in Dates \cup {DueFor} : d \in Nat
  BY DeskAssumption, Known DEF NoDate
<1>2. PICK d \in Nat, pc \in {"initial", "spawn"} :
        /\ Begin(t, At(pc, i, FALSE, NotRaised, "none", d))
        /\ row' = [row EXCEPT ![i] = Raised(d)] /\ row[i].status = "none"
        /\ pc = "initial" => d = NoDate
        /\ \/ owed' = [owed EXCEPT ![i] = d]
           \/ owed' = owed /\ d = NoDate
        /\ UNCHANGED <<task, waited, loose>>
  BY <1>1 DEF Create, CreateForEmployee
<1> DEFINE r == At(pc, i, FALSE, NotRaised, "none", d)
<1>3. r \in Handler /\ r.pc = pc /\ r.id = i /\ r.due = d
  BY <1>1, AtPlain DEF At
<1> HIDE DEF r
<1>4. req[t] = Idle /\ req' = [req EXCEPT ![t] = r] /\ crossed \subseteq crossed'
  BY <1>2 DEF Begin, r
<1>5. ASSUME i \notin crossed' \cup loose' PROVE Heard(i)'
  <2>1. Fine(i) /\ Heard(i)
    BY <1>2, <1>4, <1>5 DEF Due, Heeded
  <2>2. owed'[i] = d
    BY <1>2, <2>1 DEF Fine, Unknown, Typed, Rows
  <2> QED BY <1>2, <1>3, <2>1, <2>2, RaiseHeard DEF r
<1>6. \A j \in Ids \ {i} : UNCHANGED <<row[j], task[j], owed[j], waited[j]>>
  BY <1>2 DEF Typed, Rows
<1> QED BY <1>2, <1>3, <1>4, <1>5, <1>6, IdleIs, HeededBy

LEMMA ReadHeeded ==
  ASSUME Typed, Heeded, NEW t \in Handlers, NEW i \in Ids,
         \/ ReplyRead(t, i)
         \/ \E d \in Dates \cup {NoDate} : UpdateRead(t, i, d)
         \/ \E to \in Statuses : ProcessRead(t, i, to)
  PROVE  Heeded'
<1>1. row[i] \in Row /\ NoDate \in Nat /\ Dates \subseteq Nat
  BY DeskAssumption DEF Typed, Rows, NoDate
<1>2. PICK pc \in {"update", "process", "reply"}, e \in BOOLEAN, to \in Statuses \cup {"none"}, d \in Nat :
        Begin(t, At(pc, i, e, row[i], to, d)) /\ UNCHANGED <<row, task, owed, waited, loose>>
  BY <1>1 DEF ReplyRead, UpdateRead, ProcessRead
<1> DEFINE r == At(pc, i, e, row[i], to, d)
<1>3. r \in Handler /\ r.pc = pc /\ r.id = i /\ r.before = row[i]
  BY <1>1 DEF At, Handler
<1> HIDE DEF r
<1>4. req[t] = Idle /\ req' = [req EXCEPT ![t] = r] /\ crossed \subseteq crossed'
  BY <1>2 DEF Begin, r
<1>5. ASSUME i \notin crossed' \cup loose' PROVE Heard(i)'
  <2>1. Heard(i)
    BY <1>2, <1>4, <1>5 DEF Heeded
  <2> QED BY <1>2, <1>3, <2>1, ReadHeard DEF r
<1> QED BY <1>2, <1>3, <1>4, <1>5, IdleIs, HeededBy

\* A handler at work stays on its request, or is done.
LEMMA StaysOn ==
  ASSUME Typed, NEW t \in Handlers, req[t].id \in Ids,
         \/ Finish(t)
         \/ \E d \in Nat : Announce(t, d)
         \/ \E pc \in {"spawn", "extend", "follow"} : req' = [req EXCEPT ![t].pc = pc]
         \/ \E d \in Nat : req' = [req EXCEPT ![t] = At("spawn", req[t].id, FALSE, NotRaised, "none", d)]
  PROVE  \E r \in Handler : req' = [req EXCEPT ![t] = r] /\ r.id \in {req[t].id, NoId}
<1>1. Idle \in Handler /\ Idle.id = NoId /\ day \in Nat /\ req[t] \in Handler
  BY Known, IdleTyped, IdleIs
<1>2. CASE Finish(t)
  BY <1>1, <1>2 DEF Finish
<1>3. ASSUME NEW d \in Nat, req' = [req EXCEPT ![t] = At("spawn", req[t].id, FALSE, NotRaised, "none", d)]
      PROVE  \E r \in Handler : req' = [req EXCEPT ![t] = r] /\ r.id \in {req[t].id, NoId}
  <2> DEFINE r == At("spawn", req[t].id, FALSE, NotRaised, "none", d)
  <2>1. r \in Handler /\ r.id = req[t].id
    BY <1>1, AtPlain
  <2> HIDE DEF r
  <2> QED BY <1>3, <2>1 DEF r
<1>4. ASSUME NEW d \in Nat, Announce(t, d)
      PROVE  \E r \in Handler : req' = [req EXCEPT ![t] = r] /\ r.id \in {req[t].id, NoId}
  <2> DEFINE r == At("announce", req[t].id, req[t].edit, NotRaised, "none", d)
  <2>1. r \in Handler /\ r.id = req[t].id
    BY <1>1, AtSound DEF Handler
  <2>2. req' = [req EXCEPT ![t] = r] \/ Finish(t)
    BY <1>4 DEF Announce, Finish, Typed, Reads
  <2> HIDE DEF r
  <2> QED BY <1>2, <2>1, <2>2
<1>5. ASSUME NEW pc \in {"spawn", "extend", "follow"}, req' = [req EXCEPT ![t].pc = pc]
      PROVE  \E r \in Handler : req' = [req EXCEPT ![t] = r] /\ r.id \in {req[t].id, NoId}
  <2> DEFINE r == [req[t] EXCEPT !.pc = pc]
  <2>1. r \in Handler /\ r.id = req[t].id /\ req' = [req EXCEPT ![t] = r]
    BY <1>1, <1>5 DEF Handler
  <2> HIDE DEF r
  <2> QED BY <2>1
<1> QED BY <1>2, <1>3, <1>4, <1>5

LEMMA InitialHeeded ==
  ASSUME Typed, Due, Heeded, NEW t \in Handlers, SetInitialDue(t) \/ InitialDueFails(t)
  PROVE  Heeded'
<1>0. req[t].id \in Ids
  BY Known DEF SetInitialDue, InitialDueFails
<1> SUFFICES ASSUME NEW i \in Ids, i = req[t].id PROVE Heeded'
  BY <1>0
<1>1. req[t].pc = "initial" /\ DueFor \in Nat /\ UNCHANGED <<crossed, loose, task, waited>>
  BY Known DEF SetInitialDue, InitialDueFails, hist, Dated
<1>2. \E r \in Handler : req' = [req EXCEPT ![t] = r] /\ r.id \in {i, NoId}
  BY <1>1, StaysOn DEF SetInitialDue, InitialDueFails
<1>3. \A j \in Ids \ {i} : UNCHANGED <<row[j], task[j], owed[j], waited[j]>>
  BY <1>1 DEF SetInitialDue, InitialDueFails, Dated, hist, Typed, Rows
<1>4. ASSUME i \notin crossed' \cup loose' PROVE Heard(i)'
  BY <1>1, <1>4, InitialHeard DEF Due, Heeded
<1> QED BY <1>1, <1>2, <1>3, <1>4, HeededBy

LEMMA UpdateHeeded ==
  ASSUME Typed, Due, Heeded, NEW t \in Handlers, Update(t)
  PROVE  Heeded'
<1>0. req[t].id \in Ids
  BY Known DEF Update
<1> SUFFICES ASSUME NEW i \in Ids, i = req[t].id PROVE Heeded'
  BY <1>0
<1>1. /\ req[t].pc = "update" /\ req[t].due \in Nat /\ UNCHANGED <<crossed, loose, task>>
      /\ Dated(i, req[t].due) /\ Announce(t, req[t].due)
  BY Known DEF Update, Handler
<1>2. \E r \in Handler : req' = [req EXCEPT ![t] = r] /\ r.id \in {i, NoId}
  BY <1>1, StaysOn
<1>3. \A j \in Ids \ {i} : UNCHANGED <<row[j], task[j], owed[j], waited[j]>>
  BY <1>1 DEF Dated, Typed, Rows
<1>4. ASSUME i \notin crossed' \cup loose' PROVE Heard(i)'
  BY <1>1, <1>4, UpdateHeard DEF Due, Heeded
<1> QED BY <1>1, <1>2, <1>3, <1>4, HeededBy

LEMMA CommitHeeded ==
  ASSUME Typed, Due, Heeded, NEW t \in Handlers, Process(t) \/ ReturnIfWaiting(t)
  PROVE  Heeded'
<1>0. req[t].id \in Ids
  BY Known DEF Process, ReturnIfWaiting
<1> SUFFICES ASSUME NEW i \in Ids, i = req[t].id PROVE Heeded'
  BY <1>0
<1>1. /\ req[t].pc \in {"process", "reply"} /\ UNCHANGED <<crossed, loose, task>>
  BY Known DEF Process, ReturnIfWaiting
<1>2. \/ Process(t) /\ Commit(i, Processed(t)) /\ Announce(t, Processed(t).due) /\ Processed(t).due \in Nat
      \/ /\ ReturnIfWaiting(t) /\ Waits(i) /\ Commit(i, Returned(t))
         /\ req' = [req EXCEPT ![t].pc = "extend"]
      \/ Finish(t) /\ UNCHANGED <<row, owed, waited>>
  <2>1. Process(t) => Processed(t).due \in Nat
    BY ProcessedTyped DEF Process, Row
  <2> QED BY <2>1 DEF Process, ReturnIfWaiting, Waits
<1>3. \E r \in Handler : req' = [req EXCEPT ![t] = r] /\ r.id \in {i, NoId}
  BY <1>1, <1>2, StaysOn
<1>4. \A j \in Ids \ {i} : UNCHANGED <<row[j], task[j], owed[j], waited[j]>>
  BY <1>1, <1>2 DEF Commit, Typed, Rows
<1>5. ASSUME i \notin crossed' \cup loose' PROVE Heard(i)'
  <2>1. Fine(i) /\ Heard(i)
    BY <1>1, <1>5 DEF Due, Heeded
  <2>2. Process(t) => req[t].pc = "process"
    BY DEF Process
  <2>3. ReturnIfWaiting(t) => req[t].pc = "reply"
    BY DEF ReturnIfWaiting
  <2> QED BY <1>1, <1>2, <2>1, <2>2, <2>3, ProcessHeard, ReturnHeard, FinishHeard
<1> QED BY <1>1, <1>3, <1>4, <1>5, HeededBy

LEMMA ExtendHeeded ==
  ASSUME Typed, Due, Heeded, NEW t \in Handlers, ExtendAfterReturn(t)
  PROVE  Heeded'
<1>0. req[t].id \in Ids
  BY Known DEF ExtendAfterReturn
<1> SUFFICES ASSUME NEW i \in Ids, i = req[t].id PROVE Heeded'
  BY <1>0
<1>1. /\ req[t].pc = "extend" /\ UNCHANGED <<owed, waited, crossed, loose, task>>
      /\ Moved(t) \in Nat
  BY Known, PauseTyped DEF ExtendAfterReturn, hist, Moved, WaitsKnown
<1>2. \/ /\ row[i].due = req[t].before.due /\ row' = [row EXCEPT ![i].due = Moved(t)]
         /\ Announce(t, Moved(t))
      \/ Finish(t) /\ UNCHANGED row
  BY DEF ExtendAfterReturn, Moved
<1>3. \E r \in Handler : req' = [req EXCEPT ![t] = r] /\ r.id \in {i, NoId}
  BY <1>1, <1>2, StaysOn
<1>4. \A j \in Ids \ {i} : UNCHANGED <<row[j], task[j], owed[j], waited[j]>>
  BY <1>1, <1>2 DEF Typed, Rows
<1>5. ASSUME i \notin crossed' \cup loose' PROVE Heard(i)'
  <2>1. Fine(i) /\ Heard(i)
    BY <1>1, <1>5 DEF Due, Heeded
  <2> QED BY <1>1, <1>2, <2>1, ExtendHeard, FinishHeard
<1> QED BY <1>1, <1>3, <1>4, <1>5, HeededBy

LEMMA TasksHeeded ==
  ASSUME Typed, Due, Heeded, NEW t \in Handlers, Spawn(t) \/ FollowRead(t) \/ Follow(t)
  PROVE  Heeded'
<1>0. req[t].id \in Ids
  BY Known DEF Spawn, FollowRead, Follow
<1> SUFFICES ASSUME NEW i \in Ids, i = req[t].id PROVE Heeded'
  BY <1>0
<1>1. UNCHANGED <<row, owed, waited, crossed, loose>>
  BY Known DEF Spawn, FollowRead, Follow, hist
<1>2. \E r \in Handler : req' = [req EXCEPT ![t] = r] /\ r.id \in {i, NoId}
  BY <1>1, StaysOn DEF Spawn, FollowRead, Follow
<1>3. \A j \in Ids \ {i} : UNCHANGED <<row[j], task[j], owed[j], waited[j]>>
  BY <1>1 DEF Spawn, FollowRead, Follow, Typed, Rows
<1>4. ASSUME i \notin crossed' \cup loose' PROVE Heard(i)'
  BY <1>1, <1>4, TaskWrittenHeard, FollowReadHeard DEF Due, Heeded
<1> QED BY <1>1, <1>2, <1>3, <1>4, HeededBy

\* What was about to be told is lost, and the task is let loose.
LEMMA FailHeeded ==
  ASSUME Typed, Heeded, NEW t \in Handlers, Fail(t)
  PROVE  Heeded'
<1> SUFFICES ASSUME NEW j \in Ids, j \notin crossed' \cup loose' PROVE Heard(j)'
  BY DEF Heeded
<1>1. /\ Finish(t) /\ UNCHANGED <<row, task, owed, waited>> /\ Heard(j)
      /\ req[t].pc \in {"announce", "follow"} => req[t].id # j
  BY DEF Fail, Heeded
<1>2. CASE req[t].id = j
  BY <1>1, <1>2, FinishHeard
<1>3. CASE req[t].id # j
  <2>1. Idle \in Handler /\ Idle.id # j /\ req' = [req EXCEPT ![t] = Idle]
    BY <1>1, Known, IdleTyped, IdleIs DEF Finish
  <2> QED BY <1>1, <1>3, <2>1, HeardElsewhere
<1> QED BY <1>2, <1>3

LEMMA ByHandHeeded ==
  ASSUME Typed, Heeded, NEW i \in Ids,
         \/ \E s \in {"open", "done"}, d \in Dates \cup {task[i].due} :
              TaskUpdate(i, [status |-> s, due |-> d])
         \/ TaskRemove(i)
  PROVE  Heeded'
<1> SUFFICES ASSUME NEW j \in Ids, j \notin crossed' \cup loose' PROVE Heard(j)'
  BY DEF Heeded
<1>1. Heard(j) /\ task[i].status # "none" /\ UNCHANGED <<row, req, owed, waited>>
  BY DEF TaskUpdate, TaskRemove, hist, Heeded
<1>2. CASE j = i
  <2>1. task[i] \in Tasks
    BY DEF Typed, Rows
  <2>2. task'[i].status = "open" => task[i].status = "open" /\ task'[i].due = task[i].due
    BY <1>2, <2>1 DEF TaskUpdate, TaskRemove, NoTask, Typed, Rows, Tasks
  <2> QED BY <1>1, <1>2, <2>2, ByHandHeard
<1>3. CASE j # i
  <2>1. task'[j] = task[j]
    BY <1>3 DEF TaskUpdate, TaskRemove, Typed, Rows
  <2> QED BY <1>1, <2>1 DEF Heard, TaskHeard, Told, Tells
<1> QED BY <1>2, <1>3

LEMMA TickHeeded ==
  ASSUME Typed, Heeded, Tick
  PROVE  Heeded'
<1> SUFFICES ASSUME NEW j \in Ids, j \notin crossed' \cup loose' PROVE Heard(j)'
  BY DEF Heeded
<1>1. Heard(j) /\ UNCHANGED <<row, task, req, owed>> /\ \A t \in Handlers : req[t].id # j
  BY IdleIs DEF Tick, Heeded
<1> QED BY <1>1 DEF Heard, TaskHeard

LEMMA HeededNext == Typed /\ Due /\ Heeded /\ [Next]_vars => Heeded'
<1> SUFFICES ASSUME Typed, Due, Heeded, [Next]_vars PROVE Heeded'
  OBVIOUS
<1>1. ASSUME UNCHANGED vars PROVE Heeded'
  BY <1>1 DEF vars, hist, Heeded, Heard, TaskHeard, Told, Tells
<1>2. ASSUME NEW t \in Handlers, NEW i \in Ids,
             \/ \E d \in Dates \cup {DueFor} : Create(t, i, d)
             \/ CreateForEmployee(t, i) \/ ReplyRead(t, i)
             \/ \E d \in Dates \cup {NoDate} : UpdateRead(t, i, d)
             \/ \E to \in Statuses : ProcessRead(t, i, to)
      PROVE  Heeded'
  BY <1>2, CreateHeeded, ReadHeeded
<1>3. ASSUME NEW t \in Handlers, SetInitialDue(t) \/ InitialDueFails(t) \/ Spawn(t)
      PROVE  Heeded'
  BY <1>3, InitialHeeded, TasksHeeded
<1>4. ASSUME NEW t \in Handlers,
             Update(t) \/ Process(t) \/ ReturnIfWaiting(t) \/ ExtendAfterReturn(t)
      PROVE  Heeded'
  BY <1>4, UpdateHeeded, CommitHeeded, ExtendHeeded
<1>5. ASSUME NEW t \in Handlers, FollowRead(t) \/ Follow(t) \/ Fail(t)
      PROVE  Heeded'
  BY <1>5, TasksHeeded, FailHeeded
<1>6. ASSUME NEW i \in Ids,
             \/ \E s \in {"open", "done"}, d \in Dates \cup {task[i].due} :
                  TaskUpdate(i, [status |-> s, due |-> d])
             \/ TaskRemove(i)
      PROVE  Heeded'
  BY <1>6, ByHandHeeded
<1>7. Tick => Heeded'
  BY TickHeeded
<1> QED BY <1>1, <1>2, <1>3, <1>4, <1>5, <1>6, <1>7 DEF Next

\* The open task has its request's date once nobody is at work on the request: of
\* those whose date nobody edited under another handler, whose pause and whose
\* news were not lost, and whose task nobody dated or reopened by hand.
THEOREM Following == Spec => []TaskFollows
<1>1. Typed /\ Due /\ Heeded => TaskFollows
  BY DEF Heeded, Heard, TaskHeard, TaskFollows, Quiet
<1>2. Typed /\ Due /\ Heeded /\ [Next]_vars => (Typed /\ Due /\ Heeded)'
  BY TypedNext, DueNext, HeededNext
<1> QED BY <1>1, <1>2, TypedInit, DueInit, HeededInit, PTL DEF Spec
=============================================================================
