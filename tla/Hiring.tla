------------------------------- MODULE Hiring -------------------------------
(***************************************************************************)
(* From candidate to employee: Recruitment's stages, Employees' records    *)
(* and the onboarding GRO runs, joined by events that are published after  *)
(* the commit and handled inside the same request, one handler after the   *)
(* other (EventBus.publish awaits them and swallows what they throw).      *)
(*                                                                         *)
(* Every update is the same transaction: read the row, check, write it by  *)
(* id.  At READ COMMITTED others commit between the read and the write.    *)
(* GroSequences describes the runs; here an employee's onboarding is       *)
(* running, completed or cancelled.  Left out: names, dates and vacancies, *)
(* edits of other fields, the account a termination closes.                *)
(***************************************************************************)
EXTENDS Naturals, FiniteSets

CONSTANTS
  Candidates,
  Employees,   \* ids of employee records: the bound on records made
  Requests,
  NoCandidate, NoEmployee

ASSUME HiringAssumption == NoCandidate \notin Candidates /\ NoEmployee \notin Employees

VARIABLES
  stage,        \* stage[c]: the candidate's committed stage, or "deleted"
  nationality,  \* nationality[c]: "none" on file, "SA", or "abroad"
  points,       \* points[c]: the employee id minted at mobilisation
  madeFor,      \* madeFor[e]: the candidate the id e was drawn for
  employment,   \* employment[e]: the employee's committed status, or "none"
  onboarding,   \* onboarding[e]: e's latest onboarding run, or "none"
  req,          \* req[t]: where request t is
  disturbed     \* history: candidates whose stage two requests were to change at
                \* once, or on whom such a request failed

vars == <<stage, nationality, points, madeFor, employment, onboarding, req, disturbed>>

Transitions ==
  [applied      |-> {"screening", "rejected", "withdrawn"},
   screening    |-> {"interview", "applied", "rejected", "withdrawn"},
   interview    |-> {"offer", "screening", "rejected", "withdrawn"},
   offer        |-> {"mobilisation", "hired", "interview", "rejected", "withdrawn"},
   mobilisation |-> {"rejected", "withdrawn"},
   hired        |-> {},
   rejected     |-> {},
   withdrawn    |-> {}]
Stages == DOMAIN Transitions
Nationalities == {"none", "SA", "abroad"}

At(pc, c, e, was, to) == [pc |-> pc, cand |-> c, emp |-> e, was |-> was, to |-> to]
Idle == At("idle", NoCandidate, NoEmployee, "-", "-")

Init ==
  /\ stage = [c \in Candidates |-> "applied"]
  /\ nationality \in [Candidates -> Nationalities]
  /\ points = [c \in Candidates |-> NoEmployee]
  /\ madeFor = [e \in Employees |-> NoCandidate]
  /\ employment = [e \in Employees |-> "none"]
  /\ onboarding = [e \in Employees |-> "none"]
  /\ req = [t \in Requests |-> Idle]
  /\ disturbed = {}

Place(t, pc, c, e, was, to) == req' = [req EXCEPT ![t] = At(pc, c, e, was, to)]
Goto(t, pc, e) == Place(t, pc, req[t].cand, e, "-", "-")
Finish(t) == req' = [req EXCEPT ![t] = Idle]

About(c) == \E t \in Requests : req[t].cand = c
Touch(c) == disturbed' = IF About(c) THEN disturbed \cup ({c} \cap Candidates) ELSE disturbed
Begin(t, pc, c, e, was, to) == req[t] = Idle /\ Place(t, pc, c, e, was, to) /\ Touch(c)
Fresh(e) == madeFor[e] = NoCandidate

-----------------------------------------------------------------------------
(* Recruitment: changeStage, remove, update                                *)

StageRead(t, c, to) ==
  /\ stage[c] \in Stages /\ to \in Transitions[stage[c]]
  /\ to = "hired" => nationality[c] # "none"
  /\ to = "mobilisation" => nationality[c] = "abroad"
  /\ Begin(t, "stage", c, NoEmployee, stage[c], to)
  /\ UNCHANGED <<stage, nationality, points, madeFor, employment, onboarding>>

\* Into mobilisation: the row is written by id with a freshly minted employee id,
\* and the event published if the row, as written, has a nationality.
StageMobilise(t) ==
  LET c == req[t].cand IN
  /\ req[t].pc = "stage" /\ req[t].to = "mobilisation" /\ stage[c] # "deleted"
  /\ stage' = [stage EXCEPT ![c] = "mobilisation"]
  /\ \E e \in Employees :
       /\ Fresh(e)
       /\ madeFor' = [madeFor EXCEPT ![e] = c]
       /\ points' = [points EXCEPT ![c] = e]
       /\ IF nationality[c] = "none" THEN Finish(t) ELSE Goto(t, "mobilise", e)
  /\ UNCHANGED <<nationality, employment, onboarding, disturbed>>

Moves(t, ends) ==
  LET c == req[t].cand
      to == req[t].to
  IN
  /\ req[t].pc = "stage" /\ to # "mobilisation" /\ stage[c] # "deleted"
  /\ stage' = [stage EXCEPT ![c] = to]
  /\ CASE req[t].was = "mobilisation" /\ points[c] # NoEmployee /\ to \in ends ->
            Goto(t, "ended", points[c])
       [] to = "hired" /\ nationality[c] # "none" -> Goto(t, "hire", NoEmployee)
       [] OTHER -> Finish(t)
  /\ UNCHANGED <<nationality, points, madeFor, employment, onboarding, disturbed>>

\* Mutant: a rejection during mobilisation ends nothing.
StageMove_WithdrawnOnly(t) == Moves(t, {"withdrawn"})

\* Any other stage; out of mobilisation, or into `hired`, an event follows.
StageMove(t) == Moves(t, {"withdrawn", "rejected"})

Remove(c) ==
  /\ stage[c] # "deleted"
  /\ stage' = [stage EXCEPT ![c] = "deleted"]
  /\ points' = [points EXCEPT ![c] = NoEmployee]
  /\ Touch(c)
  /\ UNCHANGED <<nationality, madeFor, employment, onboarding, req>>

EditNationality(c, n) ==
  /\ stage[c] # "deleted" /\ n # nationality[c]
  /\ nationality' = [nationality EXCEPT ![c] = n]
  /\ Touch(c)
  /\ UNCHANGED <<stage, points, madeFor, employment, onboarding, req>>

\* EmployeeJoined: completeMobilisation finds the candidate by employee id.
JoinedRead(t) ==
  LET c == req[t].cand IN
  /\ req[t].pc = "joined"
  /\ IF points[c] = req[t].emp /\ stage[c] = "mobilisation"
       THEN Goto(t, "join", req[t].emp)
       ELSE Finish(t)
  /\ UNCHANGED <<stage, nationality, points, madeFor, employment, onboarding, disturbed>>

Joins(t, to) ==
  LET c == req[t].cand IN
  /\ req[t].pc = "join" /\ stage[c] # "deleted"
  /\ stage' = [stage EXCEPT ![c] = to]
  /\ UNCHANGED <<nationality, points, madeFor, employment, onboarding, disturbed>>

\* Mutant: the system's move publishes CandidateHired, as a person's does.
JoinedWrite_Publishes(t) == Joins(t, "hired") /\ Goto(t, "hire", NoEmployee)

\* Mutant: the candidate takes the employee's status.
JoinedWrite_Active(t) == Joins(t, "active") /\ Finish(t)

JoinedWrite(t) == Joins(t, "hired") /\ Finish(t)

-----------------------------------------------------------------------------
(* Employees                                                               *)

\* CandidateHired: a record with an id of its own.
HireCreate(t) ==
  /\ req[t].pc = "hire"
  /\ \E e \in Employees :
       /\ Fresh(e)
       /\ madeFor' = [madeFor EXCEPT ![e] = req[t].cand]
       /\ employment' = [employment EXCEPT ![e] = "active"]
  /\ Finish(t)
  /\ UNCHANGED <<stage, nationality, points, onboarding, disturbed>>

\* Mutant: the record draws an id of its own here too.
MobiliseCreate_OwnId(t) ==
  /\ req[t].pc = "mobilise"
  /\ \E e \in Employees :
       /\ Fresh(e)
       /\ madeFor' = [madeFor EXCEPT ![e] = req[t].cand]
       /\ employment' = [employment EXCEPT ![e] = "onboarding"]
       /\ Goto(t, "start", e)
  /\ UNCHANGED <<stage, nationality, points, onboarding, disturbed>>

\* CandidateMobilising: a record with the id Recruitment minted, which no other
\* request knows before; then EmployeeMobilising.
MobiliseCreate(t) ==
  LET e == req[t].emp IN
  /\ req[t].pc = "mobilise"
  /\ employment' = [employment EXCEPT ![e] = "onboarding"]
  /\ Goto(t, "start", e)
  /\ UNCHANGED <<stage, nationality, points, madeFor, onboarding, disturbed>>

\* CandidateMobilisationEnded: only a record still `onboarding` is terminated.
EndedRead(t) ==
  LET e == req[t].emp IN
  /\ req[t].pc = "ended"
  /\ IF employment[e] = "onboarding"
       THEN Place(t, "update", req[t].cand, e, "-", "terminated")
       ELSE Finish(t)
  /\ UNCHANGED <<stage, nationality, points, madeFor, employment, onboarding, disturbed>>

\* By hand: a termination, of anyone; a status, unless onboarding.  Such a request
\* is about no candidate: it overlaps with theirs freely.
Terminate(t, e) ==
  /\ employment[e] # "none"
  /\ Begin(t, "update", NoCandidate, e, "-", "terminated")
  /\ UNCHANGED <<stage, nationality, points, madeFor, employment, onboarding>>

Reinstate(t, e) ==
  /\ employment[e] = "terminated"
  /\ Begin(t, "update", NoCandidate, e, "-", "active")
  /\ UNCHANGED <<stage, nationality, points, madeFor, employment, onboarding>>

\* EmployeesService.update: what it reads decides what it publishes.
UpdateRead(t) ==
  /\ req[t].pc = "update"
  /\ Place(t, "write", req[t].cand, req[t].emp, employment[req[t].emp], req[t].to)
  /\ UNCHANGED <<stage, nationality, points, madeFor, employment, onboarding, disturbed>>

UpdateWrite(t) ==
  LET e == req[t].emp
      was == req[t].was
      to == req[t].to
  IN
  /\ req[t].pc = "write"
  /\ employment' = [employment EXCEPT ![e] = to]
  /\ CASE was # "terminated" /\ to = "terminated" -> Goto(t, "left", e)
       [] was = "onboarding" /\ to = "active" -> Goto(t, "joined", e)
       [] OTHER -> Finish(t)
  /\ UNCHANGED <<stage, nationality, points, madeFor, onboarding, disturbed>>

-----------------------------------------------------------------------------
(* GRO: the employee's onboarding                                          *)

\* start, on EmployeeMobilising: a terminated employee is refused.
StartRead(t) ==
  LET e == req[t].emp IN
  /\ req[t].pc = "start"
  /\ IF employment[e] = "terminated" THEN Finish(t) ELSE Goto(t, "insert", e)
  /\ UNCHANGED <<stage, nationality, points, madeFor, employment, onboarding, disturbed>>

StartByHand(t, e) ==
  /\ employment[e] \notin {"none", "terminated"}
  /\ Begin(t, "insert", NoCandidate, e, "-", "-")
  /\ UNCHANGED <<stage, nationality, points, madeFor, employment, onboarding>>

\* A second running run is refused (OneRunningPerKind in GroSequences).
StartInsert(t) ==
  /\ req[t].pc = "insert"
  /\ onboarding' = [onboarding EXCEPT ![req[t].emp] = "running"]
  /\ Finish(t)
  /\ UNCHANGED <<stage, nationality, points, madeFor, employment, disturbed>>

\* The last step is filed; afterCompletion follows in the same request.
Complete(t, e) ==
  /\ onboarding[e] = "running"
  /\ onboarding' = [onboarding EXCEPT ![e] = "completed"]
  /\ Begin(t, "effect", madeFor[e], e, "-", "-")
  /\ UNCHANGED <<stage, nationality, points, madeFor, employment>>

EffectRead(t) ==
  LET e == req[t].emp IN
  /\ req[t].pc = "effect"
  /\ IF employment[e] = "onboarding"
       THEN Place(t, "update", req[t].cand, e, "-", "active")
       ELSE Finish(t)
  /\ UNCHANGED <<stage, nationality, points, madeFor, employment, onboarding, disturbed>>

CancelRun(e) ==
  /\ onboarding[e] = "running"
  /\ onboarding' = [onboarding EXCEPT ![e] = "cancelled"]
  /\ UNCHANGED <<stage, nationality, points, madeFor, employment, req, disturbed>>

\* EmployeeTerminated: a running onboarding is cancelled.
Left(t) ==
  LET e == req[t].emp IN
  /\ req[t].pc = "left"
  /\ onboarding' = IF onboarding[e] = "running"
                     THEN [onboarding EXCEPT ![e] = "cancelled"] ELSE onboarding
  /\ Finish(t)
  /\ UNCHANGED <<stage, nationality, points, madeFor, employment, disturbed>>

\* A statement fails, the row is gone or the process stops: what is committed
\* stays, the rest of the request never happens.
Fail(t) ==
  /\ req[t] # Idle
  /\ Finish(t)
  /\ disturbed' = disturbed \cup ({req[t].cand} \cap Candidates)
  /\ UNCHANGED <<stage, nationality, points, madeFor, employment, onboarding>>

-----------------------------------------------------------------------------
Recruitment(t) ==
  \/ \E c \in Candidates, to \in Stages : StageRead(t, c, to)
  \/ StageMobilise(t) \/ StageMove(t) \/ JoinedRead(t) \/ JoinedWrite(t)

EmployeesModule(t) ==
  \/ HireCreate(t) \/ MobiliseCreate(t) \/ EndedRead(t) \/ UpdateRead(t) \/ UpdateWrite(t)
  \/ \E e \in Employees : Terminate(t, e) \/ Reinstate(t, e)

Gro(t) ==
  \/ StartRead(t) \/ StartInsert(t) \/ EffectRead(t) \/ Left(t)
  \/ \E e \in Employees : StartByHand(t, e) \/ Complete(t, e)

Next ==
  \/ \E t \in Requests : Recruitment(t) \/ EmployeesModule(t) \/ Gro(t) \/ Fail(t)
  \/ \E c \in Candidates : Remove(c) \/ \E n \in Nationalities : EditNationality(c, n)
  \/ \E e \in Employees : CancelRun(e)

Spec == Init /\ [][Next]_vars
-----------------------------------------------------------------------------
Pcs == {"idle", "stage", "joined", "join", "hire", "mobilise", "ended", "update", "write",
        "start", "insert", "effect", "left"}
Employments == {"none", "onboarding", "active", "terminated"}

TypeOK ==
  /\ stage \in [Candidates -> Stages \cup {"deleted"}]
  /\ nationality \in [Candidates -> Nationalities]
  /\ points \in [Candidates -> Employees \cup {NoEmployee}]
  /\ madeFor \in [Employees -> Candidates \cup {NoCandidate}]
  /\ employment \in [Employees -> Employments]
  /\ onboarding \in [Employees -> {"none", "running", "completed", "cancelled"}]
  /\ req \in [Requests -> [pc : Pcs, cand : Candidates \cup {NoCandidate},
                           emp : Employees \cup {NoEmployee},
                           was : Employments \cup Stages \cup {"-"},
                           to : Employments \cup Stages \cup {"-"}]]
  /\ disturbed \subseteq Candidates

EmployeesOf(c) == {e \in Employees : madeFor[e] = c /\ employment[e] # "none"}
Quiet(c) == c \notin disturbed /\ ~About(c)

\* `hired`, by either way, means one employee record, of someone who has joined: once
\* the events that follow have been handled, of a candidate not disturbed.
HiredIsEmployed ==
  \A c \in Candidates : stage[c] = "hired" /\ Quiet(c) =>
    \E e \in Employees : EmployeesOf(c) = {e} /\ employment[e] # "onboarding"

\* A candidate in mobilisation points at the record made for them, whose
\* onboarding has been started and, while they are onboarding, not completed: under
\* the same condition.
MobilisingIsOnboarding ==
  \A c \in Candidates : stage[c] = "mobilisation" /\ Quiet(c) =>
    /\ EmployeesOf(c) = {points[c]}
    /\ employment[points[c]] = "onboarding" => onboarding[points[c]] \in {"running", "cancelled"}

\* A candidate who was rejected or has withdrawn, during mobilisation too, leaves
\* no record of an employee still to join: under the same condition.
EndedIsOver ==
  \A c \in Candidates : stage[c] \in {"rejected", "withdrawn"} /\ Quiet(c) =>
    \A e \in EmployeesOf(c) : employment[e] # "onboarding"

\* What candidate-hired.handler.ts says of every candidate: their employee "is
\* created at most once".
OneEmployeePerCandidate == \A c \in Candidates : Cardinality(EmployeesOf(c)) <= 1
=============================================================================
