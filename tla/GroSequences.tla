---------------------------- MODULE GroSequences ----------------------------
(***************************************************************************)
(* Onboarding and final-exit runs (gro/application/sequences.service.ts)   *)
(* as the database executes them: every request is a transaction of        *)
(* several statements at READ COMMITTED (no isolation level is set         *)
(* anywhere), so requests on one run interleave between statements.  What  *)
(* a transaction has written is seen by others only once it commits; until *)
(* then the rows it wrote are locked and another writer of the same row    *)
(* waits.  A statement that breaks a CHECK or a unique index aborts its    *)
(* transaction.  The effects of a completed run on its employee follow the *)
(* commit, outside the transaction.                                        *)
(*                                                                         *)
(* Left out: dates and who filed (no rule reads them), the owner of a run  *)
(* (`assign`), the audit entry (written in the same transaction), and the  *)
(* expiry an iqama or insurance filing records on the employee.            *)
(***************************************************************************)
EXTENDS SequenceEngine

CONSTANTS
  Requests,   \* the requests that may be under way at once
  Employees,
  Runs,       \* ids of runs, [employee, kind, nth]: the bound on runs created
  NoRun, NoStep, NoEmployee

ASSUME RunsAssumption ==
  /\ Runs \subseteq [employee : Employees, kind : Kinds, nth : Nat]
  /\ {"onboarding", "final_exit"} = Kinds
  /\ NoRun \notin Runs /\ NoStep \notin StepKeys /\ NoEmployee \notin Employees

VARIABLES
  status,      \* status[r]: the committed row of run r, "none" before it exists
  filed,       \* filed[r]: the steps whose committed row has a filing date
  employment,  \* employment[e]: employment status of e (Employees module)
  req,         \* req[t]: where request t is
  contested    \* history: runs on which two step requests were open at once

vars == <<status, filed, employment, req, contested>>

Idle == [pc |-> "idle", run |-> NoRun, step |-> NoStep, employee |-> NoEmployee]

\* Requests with a filing or a reopening under way.
FilePcs   == {"file-steps", "file-write", "file-reload", "file-complete",
              "file-commit", "late-commit", "complete-commit"}
ReopenPcs == {"reopen-steps", "reopen-write", "reopen-commit"}
StepPcs   == FilePcs \cup ReopenPcs
StartPcs  == {"start-check", "start-insert", "start-commit"}
AfterPcs  == {"effect-read", "effect-write", "cancel-write", "cancel-commit"}
Pcs       == StepPcs \cup StartPcs \cup AfterPcs \cup {"idle", "term-find"}

\* Request t between an UPDATE of a step row, or of a run row, and its commit.
HoldsStep(t) == req[t].pc \in {"file-reload", "file-complete", "file-commit",
                               "late-commit", "complete-commit", "reopen-commit"}
HoldsRun(t)  == req[t].pc \in {"complete-commit", "cancel-commit"}

StepLocked(t) == \E u \in Requests \ {t} :
  HoldsStep(u) /\ req[u].run = req[t].run /\ req[u].step = req[t].step
RunLocked(t, r) == \E u \in Requests \ {t} : HoldsRun(u) /\ req[u].run = r

\* The runs that keep a new run r from being inserted: same person, same kind.
Twins(r) == {x \in Runs : x.employee = r.employee /\ x.kind = r.kind}

StepRequestOn(r) == \E t \in Requests : req[t].pc \in StepPcs /\ req[t].run = r

Init ==
  /\ status = [r \in Runs |-> "none"]
  /\ filed = [r \in Runs |-> {}]
  /\ employment \in [Employees -> {"onboarding", "active"}]
  /\ req = [t \in Requests |-> Idle]
  /\ contested = {}

Place(t, pc, r, key, e) ==
  req' = [req EXCEPT ![t] = [pc |-> pc, run |-> r, step |-> key, employee |-> e]]
Goto(t, pc) == Place(t, pc, req[t].run, req[t].step, req[t].employee)
Finish(t) == Place(t, "idle", NoRun, NoStep, NoEmployee)
Begin(t, pc, r, key) == req[t] = Idle /\ Place(t, pc, r, key, r.employee)

OpenStepRequest(r) ==
  contested' = IF StepRequestOn(r) THEN contested \cup {r} ELSE contested

-----------------------------------------------------------------------------
(* start                                                                   *)

\* The employee is read before the transaction; the id is drawn fresh.
StartRead(t, r) ==
  /\ status[r] = "none" /\ \A u \in Requests : req[u].run # r
  /\ employment[r.employee] # "terminated"
  /\ Begin(t, "start-check", r, NoStep)
  /\ UNCHANGED <<status, filed, employment, contested>>

\* findMany of the running runs: refuse a second of the kind, and a final exit
\* while onboarding runs.
StartCheck(t) ==
  /\ req[t].pc = "start-check"
  /\ LET r == req[t].run
         running == {x \in Runs : x.employee = r.employee /\ status[x] = "running"}
         refused == \E x \in running :
                      x.kind = r.kind \/ (r.kind = "final_exit" /\ x.kind = "onboarding")
     IN IF refused THEN Finish(t) ELSE Goto(t, "start-insert")
  /\ UNCHANGED <<status, filed, employment, contested>>

\* Mutant: the partial unique index is missing.
StartInsert_NoIndex(t) ==
  /\ req[t].pc = "start-insert"
  /\ Goto(t, "start-commit")
  /\ UNCHANGED <<status, filed, employment, contested>>

\* The partial unique index: wait for an uncommitted twin, refuse a live one.
StartInsert(t) ==
  LET r == req[t].run IN
  /\ req[t].pc = "start-insert"
  /\ \A x \in Twins(r) : ~RunLocked(t, x)
  /\ \A u \in Requests \ {t} : ~(req[u].pc = "start-commit" /\ req[u].run \in Twins(r))
  /\ IF \E x \in Twins(r) : status[x] = "running" THEN Finish(t) ELSE Goto(t, "start-commit")
  /\ UNCHANGED <<status, filed, employment, contested>>

StartCommit(t) ==
  /\ req[t].pc = "start-commit"
  /\ status' = [status EXCEPT ![req[t].run] = "running"]
  /\ Finish(t)
  /\ UNCHANGED <<filed, employment, contested>>

-----------------------------------------------------------------------------
(* file                                                                    *)

\* load: the row, then (a second SELECT) its steps.
FileLoad(t, r, key) ==
  /\ key \in Steps[r.kind] /\ status[r] = "running"
  /\ Begin(t, "file-steps", r, key)
  /\ OpenStepRequest(r)
  /\ UNCHANGED <<status, filed, employment>>

\* Mutant: only a filed step is refused, a blocked one is not.
FileCheck_BlockedToo(t) ==
  LET r == req[t].run IN
  /\ req[t].pc = "file-steps"
  /\ IF req[t].step \notin filed[r] THEN Goto(t, "file-write") ELSE Finish(t)
  /\ UNCHANGED <<status, filed, employment, contested>>

FileCheck(t) ==
  LET r == req[t].run IN
  /\ req[t].pc = "file-steps"
  /\ IF StepState(r.kind, req[t].step, filed[r]) = "ready"
       THEN Goto(t, "file-write") ELSE Finish(t)
  /\ UNCHANGED <<status, filed, employment, contested>>

FileWrite(t) ==
  /\ req[t].pc = "file-write" /\ ~StepLocked(t)
  /\ Goto(t, "file-reload")
  /\ UNCHANGED <<status, filed, employment, contested>>

\* The reload sees this transaction's own write and what others committed.
FileReload(t) ==
  LET r == req[t].run IN
  /\ req[t].pc = "file-reload"
  /\ Goto(t, IF IsComplete(r.kind, filed[r] \cup {req[t].step}) THEN "file-complete"
             ELSE IF status[r] = "completed" THEN "late-commit" ELSE "file-commit")
  /\ UNCHANGED <<status, filed, employment, contested>>

\* Mutant: the completion waits for the run to be running again.
FileComplete_Waits(t) ==
  LET r == req[t].run IN
  /\ req[t].pc = "file-complete" /\ ~RunLocked(t, r) /\ status[r] # "cancelled"
  /\ Goto(t, "complete-commit")
  /\ UNCHANGED <<status, filed, employment, contested>>

\* UPDATE ... status = completed: a run cancelled meanwhile still has its
\* cancelled_at, so the CHECK refuses the row and the filing rolls back.
FileComplete(t) ==
  LET r == req[t].run IN
  /\ req[t].pc = "file-complete" /\ ~RunLocked(t, r)
  /\ IF status[r] = "cancelled" THEN Finish(t) ELSE Goto(t, "complete-commit")
  /\ UNCHANGED <<status, filed, employment, contested>>

\* The caller's view of a run another request completed meanwhile says
\* `completed`, and that view decides whether the effects follow.
FileCommit(t) ==
  /\ req[t].pc \in {"file-commit", "late-commit"}
  /\ filed' = [filed EXCEPT ![req[t].run] = @ \cup {req[t].step}]
  /\ IF req[t].pc = "late-commit" THEN Goto(t, "effect-read") ELSE Finish(t)
  /\ UNCHANGED <<status, employment, contested>>

CompleteCommit(t) ==
  /\ req[t].pc = "complete-commit"
  /\ filed' = [filed EXCEPT ![req[t].run] = @ \cup {req[t].step}]
  /\ status' = [status EXCEPT ![req[t].run] = "completed"]
  /\ Goto(t, "effect-read")
  /\ UNCHANGED <<employment, contested>>

\* afterCompletion: an onboarding makes someone mid-mobilisation active, a
\* final exit terminates.  The employee is read, then updated by id.
EffectRead(t) ==
  LET e == req[t].employee IN
  /\ req[t].pc = "effect-read"
  /\ IF \/ req[t].run.kind = "onboarding" /\ employment[e] = "onboarding"
        \/ req[t].run.kind = "final_exit" /\ employment[e] # "terminated"
       THEN Goto(t, "effect-write") ELSE Finish(t)
  /\ UNCHANGED <<status, filed, employment, contested>>

\* Mutant: the employee takes the candidate's status.
EffectJoin_Hired(t) ==
  /\ req[t].pc = "effect-write" /\ req[t].run.kind = "onboarding"
  /\ employment' = [employment EXCEPT ![req[t].employee] = "hired"]
  /\ Finish(t)
  /\ UNCHANGED <<status, filed, contested>>

EffectJoin(t) ==
  /\ req[t].pc = "effect-write" /\ req[t].run.kind = "onboarding"
  /\ employment' = [employment EXCEPT ![req[t].employee] = "active"]
  /\ Finish(t)
  /\ UNCHANGED <<status, filed, contested>>

\* The termination event is published on the transition into terminated only.
EffectLeave(t) ==
  LET e == req[t].employee IN
  /\ req[t].pc = "effect-write" /\ req[t].run.kind = "final_exit"
  /\ employment' = [employment EXCEPT ![e] = "terminated"]
  /\ IF employment[e] # "terminated" THEN Goto(t, "term-find") ELSE Finish(t)
  /\ UNCHANGED <<status, filed, contested>>

-----------------------------------------------------------------------------
(* reopen                                                                  *)

\* Mutant: a completed run may be reopened.
ReopenLoad_CompletedToo(t, r, key) ==
  /\ key \in Steps[r.kind] /\ status[r] \in {"running", "completed"}
  /\ Begin(t, "reopen-steps", r, key)
  /\ OpenStepRequest(r)
  /\ UNCHANGED <<status, filed, employment>>

ReopenLoad(t, r, key) ==
  /\ key \in Steps[r.kind] /\ status[r] = "running"
  /\ Begin(t, "reopen-steps", r, key)
  /\ OpenStepRequest(r)
  /\ UNCHANGED <<status, filed, employment>>

ReopenCheck(t) ==
  LET r == req[t].run IN
  /\ req[t].pc = "reopen-steps"
  /\ IF req[t].step \in filed[r] /\ FiledDependents(r.kind, req[t].step, filed[r]) = {}
       THEN Goto(t, "reopen-write") ELSE Finish(t)
  /\ UNCHANGED <<status, filed, employment, contested>>

ReopenWrite(t) ==
  /\ req[t].pc = "reopen-write" /\ ~StepLocked(t)
  /\ Goto(t, "reopen-commit")
  /\ UNCHANGED <<status, filed, employment, contested>>

ReopenCommit(t) ==
  /\ req[t].pc = "reopen-commit"
  /\ filed' = [filed EXCEPT ![req[t].run] = @ \ {req[t].step}]
  /\ Finish(t)
  /\ UNCHANGED <<status, employment, contested>>

-----------------------------------------------------------------------------
(* cancel, and cancelOnboardingOnTermination                               *)

CancelLoad(t, r) ==
  /\ status[r] = "running"
  /\ Begin(t, "cancel-write", r, NoStep)
  /\ UNCHANGED <<status, filed, employment, contested>>

\* Mutant: nothing refuses a cancelled row that has a completion date.
CancelWrite_NoCheck(t) ==
  /\ req[t].pc = "cancel-write" /\ ~RunLocked(t, req[t].run)
  /\ Goto(t, "cancel-commit")
  /\ UNCHANGED <<status, filed, employment, contested>>

\* UPDATE ... status = cancelled: a run completed meanwhile keeps its
\* completed_at, so the CHECK refuses the row.
CancelWrite(t) ==
  LET r == req[t].run IN
  /\ req[t].pc = "cancel-write" /\ ~RunLocked(t, r)
  /\ IF status[r] = "completed" THEN Finish(t) ELSE Goto(t, "cancel-commit")
  /\ UNCHANGED <<status, filed, employment, contested>>

CancelCommit(t) ==
  /\ req[t].pc = "cancel-commit"
  /\ status' = [status EXCEPT ![req[t].run] = "cancelled"]
  /\ Finish(t)
  /\ UNCHANGED <<filed, employment, contested>>

\* DELETE employees/:id: the employee is terminated, then the event is handled.
Terminate(t, e) ==
  /\ req[t] = Idle /\ employment[e] # "terminated"
  /\ employment' = [employment EXCEPT ![e] = "terminated"]
  /\ Place(t, "term-find", NoRun, NoStep, e)
  /\ UNCHANGED <<status, filed, contested>>

\* PATCH employees/:id: HR sets the status by hand, but never of someone who is
\* `onboarding`.  Of the statuses a hand may set, this is the one that undoes a
\* termination.
Reinstate(e) ==
  /\ employment[e] = "terminated"
  /\ employment' = [employment EXCEPT ![e] = "active"]
  /\ UNCHANGED <<status, filed, req, contested>>

\* The index allows at most one running onboarding, so the loop runs at most once.
TerminateFind(t) ==
  LET found == {r \in Runs : /\ r.employee = req[t].employee
                             /\ r.kind = "onboarding" /\ status[r] = "running"}
  IN
  /\ req[t].pc = "term-find"
  /\ IF found = {} THEN Finish(t)
     ELSE \E r \in found : Place(t, "cancel-write", r, NoStep, r.employee)
  /\ UNCHANGED <<status, filed, employment, contested>>

-----------------------------------------------------------------------------
\* A statement fails or the process dies: what was not committed is rolled
\* back, and effects still to come are lost.
Fail(t) ==
  /\ req[t] # Idle
  /\ Finish(t)
  /\ UNCHANGED <<status, filed, employment, contested>>

Accept(t) ==
  \/ \E r \in Runs : StartRead(t, r) \/ CancelLoad(t, r)
  \/ \E r \in Runs, key \in StepKeys : FileLoad(t, r, key) \/ ReopenLoad(t, r, key)
  \/ \E e \in Employees : Terminate(t, e)

Proceed(t) ==
  \/ StartCheck(t) \/ StartInsert(t) \/ StartCommit(t)
  \/ FileCheck(t) \/ FileWrite(t) \/ FileReload(t) \/ FileComplete(t)
  \/ FileCommit(t) \/ CompleteCommit(t)
  \/ EffectRead(t) \/ EffectJoin(t) \/ EffectLeave(t)
  \/ ReopenCheck(t) \/ ReopenWrite(t) \/ ReopenCommit(t)
  \/ CancelWrite(t) \/ CancelCommit(t) \/ TerminateFind(t)

Next ==
  \/ \E t \in Requests : Accept(t) \/ Proceed(t) \/ Fail(t)
  \/ \E e \in Employees : Reinstate(e)

Spec == Init /\ [][Next]_vars

\* Node runs a request's continuations, and PostgreSQL hands a freed row lock to
\* the waiters in their order: a request that can go on again and again does.
FairSpec == Spec /\ \A t \in Requests : SF_vars(Proceed(t))
-----------------------------------------------------------------------------
Statuses == {"none", "running", "completed", "cancelled"}

\* Types of the committed rows and of every request.
TypeOK ==
  /\ status \in [Runs -> Statuses]
  /\ filed \in [Runs -> SUBSET StepKeys]
  /\ employment \in [Employees -> {"onboarding", "active", "terminated"}]
  /\ req \in [Requests -> [pc : Pcs, run : Runs \cup {NoRun},
                           step : StepKeys \cup {NoStep},
                           employee : Employees \cup {NoEmployee}]]
  /\ contested \subseteq Runs

\* "At most one running sequence per employee per kind", whatever two starts
\* do at the same time: the check in `start` alone would let both pass.
OneRunningPerKind ==
  \A x, y \in Runs :
    /\ status[x] = "running" /\ status[y] = "running"
    /\ x.employee = y.employee /\ x.kind = y.kind
    => x = y

\* A finished run is final: a cancellation and a last filing that both read
\* `running` never overwrite each other's outcome.
FinishedRunsAreFinal ==
  [][\A r \in Runs : status[r] \in {"completed", "cancelled"} => status'[r] = status[r]]_vars

\* "File only ready steps, reopen only without filed dependents": on a run
\* where no two step requests were open at once, no step is ever filed ahead
\* of one it waits on.
StepOrder ==
  \A r \in Runs : r \notin contested => InOrder(r.kind, filed[r])

\* "Complete when the last step is filed", on the same runs: a completed run
\* has every step filed, and a running one is not waiting for a completion
\* nobody will make: some step of it can be filed.
Completion ==
  \A r \in Runs \ contested :
    /\ status[r] = "completed" => IsComplete(r.kind, filed[r])
    /\ status[r] = "running" =>
         \E key \in Steps[r.kind] : StepState(r.kind, key, filed[r]) = "ready"

\* Requests never wait on each other's row locks for ever.
RequestsFinish == \A t \in Requests : req[t] # Idle ~> req[t] = Idle

\* What sequence-engine.ts says of every run, contested or not: "a later
\* filing was made on the back of it, so that one is reopened first".
StepOrderAlways == \A r \in Runs : InOrder(r.kind, filed[r])

\* What ADR-018 says of every run: it "completes when its last step is filed".
LastFilingCompletes ==
  \A r \in Runs :
    status[r] = "running" /\ ~StepRequestOn(r) => ~IsComplete(r.kind, filed[r])
=============================================================================
