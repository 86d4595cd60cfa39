------------------------- MODULE GroSequencesProofs -------------------------
(***************************************************************************)
(* What holds of onboarding and final-exit runs for any requests,          *)
(* employees, runs and step lists: the typing invariant, and the inductive *)
(* invariant from which the safety properties of GroSequences follow.      *)
(***************************************************************************)
EXTENDS GroSequences, SequenceDefinitions, FiniteSetTheorems, WellFoundedInduction, TLAPS

-----------------------------------------------------------------------------
(* Typing                                                                  *)

\* Every request, wherever it stands, knows the run, step and employee its
\* next statement reads.
WellFormed ==
  \A t \in Requests :
    /\ req[t].pc \in StepPcs \cup StartPcs \cup AfterPcs =>
         req[t].run \in Runs /\ req[t].employee = req[t].run.employee
    /\ req[t].pc \in StepPcs => req[t].step \in Steps[req[t].run.kind]
    /\ req[t].pc = "term-find" => req[t].employee \in Employees

Typed == TypeOK /\ WellFormed

\* A run is a record of an employee, a kind and a number.
LEMMA RunRecord == \A r \in Runs : r.employee \in Employees /\ r.kind \in Kinds
BY RunsAssumption

\* Typing and well-formedness hold initially.
LEMMA TypedInit == Init => Typed
BY DEF Init, Typed, TypeOK, WellFormed, Idle, Pcs, StepPcs, FilePcs, ReopenPcs,
       StartPcs, AfterPcs, Statuses

\* Accepting a request keeps them.
LEMMA TypedAccept ==
  ASSUME Typed, NEW t \in Requests, Accept(t)
  PROVE  Typed'
<1> USE RunRecord, EngineAssumption
       DEF Typed, TypeOK, WellFormed, Idle, Pcs, StepPcs, FilePcs, ReopenPcs,
           StartPcs, AfterPcs, Statuses
<1>1. CASE \E r \in Runs : StartRead(t, r)
  BY <1>1 DEF StartRead, Begin, Place
<1>2. CASE \E r \in Runs : CancelLoad(t, r)
  BY <1>2 DEF CancelLoad, Begin, Place
<1>3. CASE \E r \in Runs, key \in StepKeys : FileLoad(t, r, key)
  BY <1>3 DEF FileLoad, Begin, Place, OpenStepRequest
<1>4. CASE \E r \in Runs, key \in StepKeys : ReopenLoad(t, r, key)
  BY <1>4 DEF ReopenLoad, Begin, Place, OpenStepRequest
<1>5. CASE \E e \in Employees : Terminate(t, e)
  BY <1>5 DEF Terminate, Place
<1>6. QED BY <1>1, <1>2, <1>3, <1>4, <1>5 DEF Accept

\* A request that stays with its run, or is done, is as well formed as before.
RequestType == [pc : Pcs, run : Runs \cup {NoRun}, step : StepKeys \cup {NoStep},
                employee : Employees \cup {NoEmployee}]

LEMMA GotoTyped ==
  ASSUME Typed, NEW t \in Requests, NEW pc \in StepPcs \cup AfterPcs \cup StartPcs,
         req[t].pc \in StepPcs \cup AfterPcs \cup StartPcs,
         pc \in StepPcs => req[t].pc \in StepPcs,
         Goto(t, pc)
  PROVE  req' \in [Requests -> RequestType] /\ WellFormed'
BY DEF Typed, TypeOK, WellFormed, RequestType, Pcs, StepPcs, FilePcs, ReopenPcs,
       StartPcs, AfterPcs, Goto, Place

LEMMA FinishTyped ==
  ASSUME Typed, NEW t \in Requests, Finish(t)
  PROVE  req' \in [Requests -> RequestType] /\ WellFormed'
BY DEF Typed, TypeOK, WellFormed, RequestType, Pcs, StepPcs, FilePcs, ReopenPcs,
       StartPcs, AfterPcs, Finish, Place

\* Each statement of a request keeps them.
LEMMA TypedProceed ==
  ASSUME Typed, NEW t \in Requests, Proceed(t)
  PROVE  Typed'
<1> SUFFICES req' \in [Requests -> RequestType] /\ WellFormed' /\
             status' \in [Runs -> Statuses] /\ filed' \in [Runs -> SUBSET StepKeys] /\
             employment' \in [Employees -> {"onboarding", "active", "terminated"}] /\
             contested' \subseteq Runs
  BY DEF Typed, TypeOK, RequestType
<1>0. /\ req[t].pc \in StepPcs \cup AfterPcs \cup StartPcs =>
            req[t].run \in Runs /\ req[t].employee \in Employees
      /\ req[t].pc \in StepPcs => req[t].step \in StepKeys
  BY RunRecord, EngineAssumption DEF Typed, TypeOK, WellFormed
<1>t. /\ status \in [Runs -> Statuses] /\ filed \in [Runs -> SUBSET StepKeys]
      /\ employment \in [Employees -> {"onboarding", "active", "terminated"}]
      /\ contested \subseteq Runs
  BY DEF Typed, TypeOK
<1> USE <1>0, <1>t, GotoTyped, FinishTyped DEF StepPcs, FilePcs, ReopenPcs, StartPcs, AfterPcs
<1>1. CASE StartCheck(t) BY <1>1 DEF StartCheck
<1>2. CASE StartInsert(t) BY <1>2 DEF StartInsert
<1>3. CASE StartCommit(t) BY <1>3 DEF StartCommit, Statuses
<1>4. CASE FileCheck(t) BY <1>4 DEF FileCheck
<1>5. CASE FileWrite(t) BY <1>5 DEF FileWrite
<1>6. CASE FileReload(t) BY <1>6 DEF FileReload
<1>7. CASE FileComplete(t) BY <1>7 DEF FileComplete
<1>8. CASE FileCommit(t) BY <1>8 DEF FileCommit
<1>9. CASE CompleteCommit(t) BY <1>9 DEF CompleteCommit, Statuses
<1>10. CASE EffectRead(t) BY <1>10 DEF EffectRead
<1>11. CASE EffectJoin(t) BY <1>11 DEF EffectJoin
<1>12. CASE EffectLeave(t) 
  <2>1. CASE Goto(t, "term-find")
    <3>1. req' \in [Requests -> RequestType] /\ WellFormed'
      BY <1>12, <2>1 DEF EffectLeave, Typed, TypeOK, WellFormed, RequestType, Pcs, Goto, Place
    <3>2. QED BY <1>12, <3>1 DEF EffectLeave
  <2>2. CASE Finish(t) BY <1>12, <2>2 DEF EffectLeave
  <2>3. QED BY <1>12, <2>1, <2>2 DEF EffectLeave
<1>13. CASE ReopenCheck(t) BY <1>13 DEF ReopenCheck
<1>14. CASE ReopenWrite(t) BY <1>14 DEF ReopenWrite
<1>15. CASE ReopenCommit(t) BY <1>15 DEF ReopenCommit
<1>16. CASE CancelWrite(t) BY <1>16 DEF CancelWrite
<1>17. CASE CancelCommit(t) BY <1>17 DEF CancelCommit, Statuses
<1>18. CASE TerminateFind(t)
  <2>1. ASSUME NEW r \in Runs, Place(t, "cancel-write", r, NoStep, r.employee)
        PROVE  req' \in [Requests -> RequestType] /\ WellFormed'
    BY <2>1, RunRecord DEF Typed, TypeOK, WellFormed, RequestType, Pcs, Place
  <2>2. QED BY <1>18, <2>1 DEF TerminateFind
<1>19. QED
  BY <1>1, <1>2, <1>3, <1>4, <1>5, <1>6, <1>7, <1>8, <1>9, <1>10, <1>11, <1>12,
     <1>13, <1>14, <1>15, <1>16, <1>17, <1>18 DEF Proceed

\* So does every step, and so typing always holds.
LEMMA TypedNext == Typed /\ [Next]_vars => Typed'
<1> SUFFICES ASSUME Typed, [Next]_vars PROVE Typed'
  OBVIOUS
<1>1. ASSUME NEW t \in Requests, Accept(t) PROVE Typed'
  BY <1>1, TypedAccept
<1>2. ASSUME NEW t \in Requests, Proceed(t) PROVE Typed'
  BY <1>2, TypedProceed
<1>3. ASSUME NEW t \in Requests, Fail(t) PROVE Typed'
  BY <1>3, FinishTyped DEF Fail, Typed, TypeOK, RequestType
<1>4. ASSUME NEW e \in Employees, Reinstate(e) PROVE Typed'
  BY <1>4 DEF Reinstate, Typed, TypeOK, WellFormed
<1>5. CASE UNCHANGED vars
  BY <1>5 DEF vars, Typed, TypeOK, WellFormed
<1>6. QED BY <1>1, <1>2, <1>3, <1>4, <1>5 DEF Next

\* TypeOK, whatever requests do and wherever they fail.
THEOREM Typing == Spec => []TypeOK
<1>1. Spec => []Typed
  BY TypedInit, TypedNext, PTL DEF Spec
<1>2. Typed => TypeOK
  BY DEF Typed
<1>3. QED BY <1>1, <1>2, PTL

-----------------------------------------------------------------------------
(* The row locks, and what a request that holds one may still rely on.     *)
(* A completion or a cancellation that has updated the run's row keeps     *)
(* every other one out, so the row it commits is the row it checked; a run *)
(* being started is no other request's.                                    *)

RunRows ==
  \A t \in Requests :
    /\ req[t].pc = "complete-commit" => status[req[t].run] \in {"running", "completed"}
    /\ req[t].pc = "cancel-commit" => status[req[t].run] \in {"running", "cancelled"}
    /\ req[t].pc \in StepPcs \cup AfterPcs => status[req[t].run] # "none"
    /\ req[t].pc \in StartPcs => status[req[t].run] = "none"
    /\ \A u \in Requests \ {t} :
         /\ HoldsRun(t) /\ HoldsRun(u) => req[t].run # req[u].run
         /\ req[t].pc \in StartPcs /\ req[u].pc \in StartPcs => req[t].run # req[u].run

\* Where a request stands after it is placed, and the others as they were.
LEMMA Placed ==
  ASSUME Typed, NEW t \in Requests, NEW pc, NEW r, NEW key, NEW e, Place(t, pc, r, key, e)
  PROVE  /\ req'[t].pc = pc /\ req'[t].run = r /\ req'[t].step = key
         /\ \A u \in Requests \ {t} : req'[u] = req[u]
BY DEF Place, Typed, TypeOK

LEMMA RunRowsInit == Init => RunRows
BY DEF Init, RunRows, Idle, StepPcs, FilePcs, ReopenPcs, StartPcs, AfterPcs, HoldsRun

LEMMA RunRowsAccept ==
  ASSUME Typed, RunRows, NEW t \in Requests, Accept(t)
  PROVE  RunRows'
<1> USE Placed DEF RunRows, Idle, StepPcs, FilePcs, ReopenPcs, StartPcs, AfterPcs,
                   HoldsRun, Begin
<1>1. CASE \E r \in Runs : StartRead(t, r)
  BY <1>1 DEF StartRead
<1>2. CASE \E r \in Runs : CancelLoad(t, r)
  BY <1>2 DEF CancelLoad
<1>3. CASE \E r \in Runs, key \in StepKeys : FileLoad(t, r, key)
  BY <1>3 DEF FileLoad
<1>4. CASE \E r \in Runs, key \in StepKeys : ReopenLoad(t, r, key)
  BY <1>4 DEF ReopenLoad
<1>5. CASE \E e \in Employees : Terminate(t, e)
  BY <1>5 DEF Terminate
<1>6. QED BY <1>1, <1>2, <1>3, <1>4, <1>5 DEF Accept

LEMMA RunRowsProceed ==
  ASSUME Typed, RunRows, NEW t \in Requests, Proceed(t)
  PROVE  RunRows'
<1>t. /\ status \in [Runs -> Statuses]
      /\ \A u \in Requests : req[u].pc \in StepPcs \cup AfterPcs \cup StartPcs => req[u].run \in Runs
  BY DEF Typed, TypeOK, WellFormed
<1> USE <1>t, Placed DEF RunRows, StepPcs, FilePcs, ReopenPcs, StartPcs, AfterPcs,
                   HoldsRun, Goto, Finish
<1>1. CASE StartCheck(t) BY <1>1 DEF StartCheck
<1>2. CASE StartInsert(t) BY <1>2 DEF StartInsert
<1>3. CASE StartCommit(t) BY <1>3 DEF StartCommit
<1>4. CASE FileCheck(t) BY <1>4 DEF FileCheck
<1>5. CASE FileWrite(t) BY <1>5 DEF FileWrite
<1>6. CASE FileReload(t) BY <1>6 DEF FileReload
<1>7. CASE FileComplete(t) BY <1>7 DEF FileComplete, RunLocked, Statuses
<1>8. CASE FileCommit(t) BY <1>8 DEF FileCommit
<1>9. CASE CompleteCommit(t) BY <1>9 DEF CompleteCommit
<1>10. CASE EffectRead(t) BY <1>10 DEF EffectRead
<1>11. CASE EffectJoin(t) BY <1>11 DEF EffectJoin
<1>12. CASE EffectLeave(t) BY <1>12 DEF EffectLeave
<1>13. CASE ReopenCheck(t) BY <1>13 DEF ReopenCheck
<1>14. CASE ReopenWrite(t) BY <1>14 DEF ReopenWrite
<1>15. CASE ReopenCommit(t) BY <1>15 DEF ReopenCommit
<1>16. CASE CancelWrite(t) BY <1>16 DEF CancelWrite, RunLocked, Statuses
<1>17. CASE CancelCommit(t) BY <1>17 DEF CancelCommit
<1>18. CASE TerminateFind(t) BY <1>18 DEF TerminateFind
<1>19. QED
  BY <1>1, <1>2, <1>3, <1>4, <1>5, <1>6, <1>7, <1>8, <1>9, <1>10, <1>11, <1>12,
     <1>13, <1>14, <1>15, <1>16, <1>17, <1>18 DEF Proceed

LEMMA RunRowsNext == Typed /\ RunRows /\ [Next]_vars => RunRows'
<1> SUFFICES ASSUME Typed, RunRows, [Next]_vars PROVE RunRows'
  OBVIOUS
<1>1. ASSUME NEW t \in Requests, Accept(t) PROVE RunRows'
  BY <1>1, RunRowsAccept
<1>2. ASSUME NEW t \in Requests, Proceed(t) PROVE RunRows'
  BY <1>2, RunRowsProceed
<1>3. ASSUME NEW t \in Requests, Fail(t) PROVE RunRows'
  BY <1>3, Placed DEF Fail, Finish, RunRows, StepPcs, FilePcs, ReopenPcs, StartPcs,
                      AfterPcs, HoldsRun
<1>4. ASSUME NEW e \in Employees, Reinstate(e) PROVE RunRows'
  BY <1>4 DEF Reinstate, RunRows, HoldsRun
<1>5. CASE UNCHANGED vars
  BY <1>5 DEF vars, RunRows, HoldsRun
<1>6. QED BY <1>1, <1>2, <1>3, <1>4, <1>5 DEF Next

LEMMA Rows == Spec => [](Typed /\ RunRows)
BY TypedInit, TypedNext, RunRowsInit, RunRowsNext, PTL DEF Spec

\* What a step may do to the row of a run: only its start, its completion and
\* its cancellation touch it.
LEMMA RowChanges ==
  ASSUME Typed, [Next]_vars
  PROVE  \/ status' = status
         \/ \E t \in Requests :
              /\ req[t].pc \in {"start-commit", "complete-commit", "cancel-commit"}
              /\ req[t].run \in Runs
              /\ status' = [status EXCEPT ![req[t].run] =
                              CASE req[t].pc = "start-commit" -> "running"
                                [] req[t].pc = "complete-commit" -> "completed"
                                [] req[t].pc = "cancel-commit" -> "cancelled"]
<1> USE DEF Typed, WellFormed, StepPcs, FilePcs, StartPcs, AfterPcs
<1>1. ASSUME NEW t \in Requests, Accept(t) PROVE status' = status
  BY <1>1 DEF Accept, StartRead, CancelLoad, FileLoad, ReopenLoad, Terminate
<1>2. CASE \E t \in Requests : StartCommit(t) BY <1>2 DEF StartCommit
<1>3. CASE \E t \in Requests : CompleteCommit(t) BY <1>3 DEF CompleteCommit
<1>4. CASE \E t \in Requests : CancelCommit(t) BY <1>4 DEF CancelCommit
<1>5. ASSUME NEW t \in Requests, Proceed(t),
             ~StartCommit(t), ~CompleteCommit(t), ~CancelCommit(t)
      PROVE  status' = status
  BY <1>5 DEF Proceed, StartCheck, StartInsert, FileCheck, FileWrite, FileReload,
     FileComplete, FileCommit, EffectRead, EffectJoin, EffectLeave, ReopenCheck,
     ReopenWrite, ReopenCommit, CancelWrite, TerminateFind
<1>6. ASSUME NEW t \in Requests, Fail(t) PROVE status' = status
  BY <1>6 DEF Fail
<1>7. ASSUME NEW e \in Employees, Reinstate(e) PROVE status' = status
  BY <1>7 DEF Reinstate
<1>8. CASE UNCHANGED vars BY <1>8 DEF vars
<1>9. QED BY <1>1, <1>2, <1>3, <1>4, <1>5, <1>6, <1>7, <1>8 DEF Next

\* FinishedRunsAreFinal: a request that commits a row has found it running, or
\* not there, under the lock it still holds.
THEOREM FinishedIsFinal == Spec => FinishedRunsAreFinal
<1>1. ASSUME Typed, RunRows, [Next]_vars, NEW r \in Runs,
             status[r] \in {"completed", "cancelled"}
      PROVE  status'[r] = status[r]
  BY <1>1, RowChanges DEF RunRows, Typed, TypeOK, HoldsRun, StartPcs
<1>2. Typed /\ RunRows /\ [Next]_vars =>
        [\A r \in Runs : status[r] \in {"completed", "cancelled"} =>
                           status'[r] = status[r]]_vars
  BY <1>1
<1>3. QED BY <1>2, Rows, PTL DEF Spec, FinishedRunsAreFinal

-----------------------------------------------------------------------------
(* One running run per employee and kind.  The check in `start` is made    *)
(* before the insert; what makes it hold is the index, which also sees the *)
(* insert of a twin that has not committed.                                *)

Exclusive ==
  \A t \in Requests : req[t].pc = "start-commit" =>
    /\ \A x \in Twins(req[t].run) : status[x] # "running"
    /\ \A u \in Requests \ {t} :
         req[u].pc = "start-commit" => req[u].run \notin Twins(req[t].run)

OneIInv == OneRunningPerKind /\ Exclusive

LEMMA ExclusiveNext == Typed /\ RunRows /\ OneIInv /\ [Next]_vars => OneIInv'
<1> SUFFICES ASSUME Typed, RunRows, OneIInv, [Next]_vars PROVE OneIInv'
  OBVIOUS
<1>t. /\ status \in [Runs -> Statuses]
      /\ \A u \in Requests : req[u].pc \in StepPcs \cup AfterPcs \cup StartPcs => req[u].run \in Runs
  BY DEF Typed, TypeOK, WellFormed
<1> USE <1>t, Placed
    DEF OneIInv, OneRunningPerKind, Exclusive, Twins, RunRows, HoldsRun,
        StepPcs, FilePcs, ReopenPcs, StartPcs, AfterPcs
<1>1. ASSUME NEW t \in Requests, Accept(t) PROVE OneIInv'
  BY <1>1 DEF Accept, StartRead, CancelLoad, FileLoad, ReopenLoad, Terminate, Begin
<1>2. ASSUME NEW t \in Requests, StartInsert(t) PROVE OneIInv'
  BY <1>2 DEF StartInsert, Goto, Finish
<1>3. ASSUME NEW t \in Requests, StartCommit(t) PROVE OneIInv'
  BY <1>3 DEF StartCommit, Finish
<1>4. ASSUME NEW t \in Requests, CompleteCommit(t) PROVE OneIInv'
  BY <1>4 DEF CompleteCommit, Goto
<1>5. ASSUME NEW t \in Requests, CancelCommit(t) PROVE OneIInv'
  BY <1>5 DEF CancelCommit, Finish
<1>6. ASSUME NEW t \in Requests, Proceed(t), ~StartInsert(t), ~StartCommit(t),
             ~CompleteCommit(t), ~CancelCommit(t)
      PROVE  OneIInv'
  <2>1. status' = status
    BY <1>6 DEF Proceed, StartCheck, FileCheck, FileWrite, FileReload,
       FileComplete, FileCommit, EffectRead, EffectJoin, EffectLeave, ReopenCheck,
       ReopenWrite, ReopenCommit, CancelWrite, TerminateFind
  <2>2. \A u \in Requests \ {t} : req'[u] = req[u]
    BY <1>6 DEF Proceed, StartCheck, FileCheck, FileWrite, FileReload,
       FileComplete, FileCommit, EffectRead, EffectJoin, EffectLeave, ReopenCheck,
       ReopenWrite, ReopenCommit, CancelWrite, TerminateFind, Goto, Finish
  <2>3. req'[t].pc # "start-commit"
    BY <1>6 DEF Proceed, StartCheck, FileCheck, FileWrite, FileReload,
       FileComplete, FileCommit, EffectRead, EffectJoin, EffectLeave, ReopenCheck,
       ReopenWrite, ReopenCommit, CancelWrite, TerminateFind, Goto, Finish
  <2>4. QED BY <2>1, <2>2, <2>3
<1>7. ASSUME NEW t \in Requests, Fail(t) PROVE OneIInv'
  BY <1>7 DEF Fail, Finish
<1>8. ASSUME NEW e \in Employees, Reinstate(e) PROVE OneIInv'
  BY <1>8 DEF Reinstate
<1>9. CASE UNCHANGED vars BY <1>9 DEF vars
<1>10. QED BY <1>1, <1>2, <1>3, <1>4, <1>5, <1>6, <1>7, <1>8, <1>9 DEF Next

\* OneRunningPerKind, for any number of starts at once.
THEOREM OneRunning == Spec => []OneRunningPerKind
<1>1. Init => OneIInv
  BY DEF Init, OneIInv, OneRunningPerKind, Exclusive, Idle
<1>2. OneIInv => OneRunningPerKind
  BY DEF OneIInv
<1>3. QED BY <1>1, <1>2, Rows, ExclusiveNext, PTL DEF Spec

-----------------------------------------------------------------------------
(* The order of the steps and the completion, on uncontested runs: what a  *)
(* request read of its run's steps is still so when it commits, because no *)
(* other step request is open on that run.                                 *)

FiledRows ==
  \A r \in Runs : filed[r] \subseteq Steps[r.kind] /\ (status[r] = "none" => filed[r] = {})

Alone ==
  \A t, u \in Requests :
    t # u /\ req[t].pc \in StepPcs /\ req[u].pc \in StepPcs /\ req[t].run = req[u].run
      => req[t].run \in contested

StillSo(pc, r, key) ==
  /\ pc \in StepPcs => status[r] # "completed"
  /\ pc \in FilePcs \ {"file-steps"} => Needs[r.kind][key] \subseteq filed[r]
  /\ pc \in {"file-complete", "complete-commit"} => IsComplete(r.kind, filed[r] \cup {key})
  /\ pc = "file-commit" => ~IsComplete(r.kind, filed[r] \cup {key})
  /\ pc # "late-commit"
  /\ pc \in {"reopen-write", "reopen-commit"} => FiledDependents(r.kind, key, filed[r]) = {}

StillAllSo ==
  \A t \in Requests :
    req[t].run \notin contested => StillSo(req[t].pc, req[t].run, req[t].step)

OrderedRuns ==
  \A r \in Runs \ contested :
    /\ InOrder(r.kind, filed[r])
    /\ status[r] = "completed" => IsComplete(r.kind, filed[r])
    /\ status[r] = "running" => ~IsComplete(r.kind, filed[r])

OrderIInv == FiledRows /\ Alone /\ StillAllSo /\ OrderedRuns

LEMMA OrderInit == Init => OrderIInv
BY RunRecord, EngineAssumption
   DEF Init, OrderIInv, FiledRows, Alone, StillAllSo, StillSo, OrderedRuns, InOrder, Idle,
       StepPcs, FilePcs, ReopenPcs

LEMMA FiledRowsNext == Typed /\ RunRows /\ FiledRows /\ [Next]_vars => FiledRows'
<1> SUFFICES ASSUME Typed, RunRows, FiledRows, [Next]_vars PROVE FiledRows'
  OBVIOUS
<1>t. /\ status \in [Runs -> Statuses] /\ filed \in [Runs -> SUBSET StepKeys]
      /\ \A u \in Requests : req[u].pc \in StepPcs => req[u].step \in Steps[req[u].run.kind]
  BY DEF Typed, TypeOK, WellFormed
<1> USE <1>t DEF FiledRows
<1>1. ASSUME NEW t \in Requests, FileCommit(t) \/ CompleteCommit(t) \/ ReopenCommit(t)
      PROVE  FiledRows'
  BY <1>1 DEF FileCommit, CompleteCommit, ReopenCommit, RunRows, StepPcs, FilePcs, ReopenPcs
<1>2. ASSUME filed' = filed PROVE FiledRows'
  BY <1>2, RowChanges
<1>3. ASSUME NEW t \in Requests, Accept(t) PROVE filed' = filed
  BY <1>3 DEF Accept, StartRead, CancelLoad, FileLoad, ReopenLoad, Terminate
<1>4. ASSUME NEW t \in Requests, Proceed(t),
             ~FileCommit(t), ~CompleteCommit(t), ~ReopenCommit(t)
      PROVE  filed' = filed
  BY <1>4 DEF Proceed, StartCheck, StartInsert, StartCommit, FileCheck, FileWrite,
     FileReload, FileComplete, EffectRead, EffectJoin, EffectLeave, ReopenCheck,
     ReopenWrite, CancelWrite, CancelCommit, TerminateFind
<1>5. ASSUME NEW t \in Requests, Fail(t) PROVE filed' = filed
  BY <1>5 DEF Fail
<1>6. ASSUME NEW e \in Employees, Reinstate(e) PROVE filed' = filed
  BY <1>6 DEF Reinstate
<1>7. CASE UNCHANGED vars BY <1>7, <1>2 DEF vars
<1>8. QED BY <1>1, <1>2, <1>3, <1>4, <1>5, <1>6, <1>7 DEF Next

\* Only FileLoad and ReopenLoad bring a request to a step of a run.
LEMMA AloneNext == Typed /\ Alone /\ [Next]_vars => Alone'
<1> SUFFICES ASSUME Typed, Alone, [Next]_vars PROVE Alone'
  OBVIOUS
<1> USE Placed DEF Alone, StepPcs, FilePcs, ReopenPcs
<1>1. ASSUME NEW t \in Requests, Accept(t) PROVE Alone'
  BY <1>1 DEF Accept, StartRead, CancelLoad, FileLoad, ReopenLoad, Terminate, Begin,
              OpenStepRequest, StepRequestOn
<1>2. ASSUME NEW t \in Requests, Proceed(t) PROVE Alone'
  <2>1. contested' = contested
    BY <1>2 DEF Proceed, StartCheck, StartInsert, StartCommit, FileCheck, FileWrite,
       FileReload, FileComplete, FileCommit, CompleteCommit, EffectRead, EffectJoin,
       EffectLeave, ReopenCheck, ReopenWrite, ReopenCommit, CancelWrite, CancelCommit,
       TerminateFind
  <2>2. \A u \in Requests \ {t} : req'[u] = req[u]
    BY <1>2 DEF Proceed, StartCheck, StartInsert, StartCommit, FileCheck, FileWrite,
       FileReload, FileComplete, FileCommit, CompleteCommit, EffectRead, EffectJoin,
       EffectLeave, ReopenCheck, ReopenWrite, ReopenCommit, CancelWrite, CancelCommit,
       TerminateFind, Goto, Finish
  <2>3. req'[t].pc \in StepPcs => req[t].pc \in StepPcs /\ req'[t].run = req[t].run
    BY <1>2 DEF Proceed, StartCheck, StartInsert, StartCommit, FileCheck, FileWrite,
       FileReload, FileComplete, FileCommit, CompleteCommit, EffectRead, EffectJoin,
       EffectLeave, ReopenCheck, ReopenWrite, ReopenCommit, CancelWrite, CancelCommit,
       TerminateFind, Goto, Finish
  <2>4. QED BY <2>1, <2>2, <2>3
<1>3. ASSUME NEW t \in Requests, Fail(t) PROVE Alone'
  BY <1>3 DEF Fail, Finish
<1>4. ASSUME NEW e \in Employees, Reinstate(e) PROVE Alone'
  BY <1>4 DEF Reinstate
<1>5. CASE UNCHANGED vars BY <1>5 DEF vars
<1>6. QED BY <1>1, <1>2, <1>3, <1>4, <1>5 DEF Next

\* A request that commits nothing keeps the order if what it now relies on is so.
LEMMA Quiet ==
  ASSUME Typed, OrderIInv, NEW t \in Requests, NEW pc, NEW r, NEW key, NEW e,
         Place(t, pc, r, key, e), UNCHANGED <<status, filed>>, contested \subseteq contested',
         r \notin contested' => StillSo(pc, r, key)
  PROVE  StillAllSo' /\ OrderedRuns'
<1>1. OrderedRuns'
  BY DEF OrderIInv, OrderedRuns
<1>2. ASSUME NEW u \in Requests, req'[u].run \notin contested'
      PROVE  StillSo(req'[u].pc, req'[u].run, req'[u].step)
  BY <1>2, Placed DEF OrderIInv, StillAllSo
<1>3. StillAllSo'
  BY <1>2 DEF StillAllSo, StillSo
<1>4. QED BY <1>1, <1>3

\* A place at which a request relies on nothing.
NoStepPcs == StartPcs \cup AfterPcs \cup {"idle", "term-find", "file-steps", "reopen-steps"}

LEMMA ReliesOnNothing ==
  ASSUME NEW pc \in NoStepPcs, NEW r, NEW key, pc \in StepPcs => status[r] # "completed"
  PROVE  StillSo(pc, r, key)
BY DEF NoStepPcs, StartPcs, AfterPcs, StillSo, StepPcs, FilePcs, ReopenPcs

LEMMA OrderAccept ==
  ASSUME Typed, OrderIInv, NEW t \in Requests, Accept(t)
  PROVE  StillAllSo' /\ OrderedRuns'
<1> USE Quiet, ReliesOnNothing DEF NoStepPcs, StartPcs, AfterPcs, StepPcs, FilePcs, ReopenPcs, Begin
<1>1. CASE \E r \in Runs : StartRead(t, r)
  BY <1>1 DEF StartRead
<1>2. CASE \E r \in Runs : CancelLoad(t, r)
  BY <1>2 DEF CancelLoad
<1>3. CASE \E r \in Runs, key \in StepKeys : FileLoad(t, r, key)
  BY <1>3 DEF FileLoad, OpenStepRequest
<1>4. CASE \E r \in Runs, key \in StepKeys : ReopenLoad(t, r, key)
  BY <1>4 DEF ReopenLoad, OpenStepRequest
<1>5. CASE \E e \in Employees : Terminate(t, e)
  BY <1>5 DEF Terminate
<1>6. QED BY <1>1, <1>2, <1>3, <1>4, <1>5 DEF Accept

\* A commit touches one run only: a request on another run, or off the steps,
\* goes on as it was; and no other request is on a step of an uncontested run.
LEMMA OthersStillSo ==
  ASSUME Typed, OrderIInv, NEW t \in Requests, NEW u \in Requests \ {t},
         req[t].pc \in StepPcs, req[u].run \notin contested,
         req'[u] = req[u],
         \A r \in Runs \ {req[t].run} : status'[r] = status[r] /\ filed'[r] = filed[r]
  PROVE  StillSo(req[u].pc, req[u].run, req[u].step)'
<1>1. StillSo(req[u].pc, req[u].run, req[u].step)
  BY DEF OrderIInv, StillAllSo
<1>2. CASE req[u].pc \in StepPcs
  <2>1. req[u].run \in Runs \ {req[t].run}
    BY <1>2 DEF Typed, WellFormed, OrderIInv, Alone
  <2>2. QED BY <1>1, <2>1 DEF StillSo
<1>3. CASE req[u].pc \notin StepPcs
  BY <1>1, <1>3 DEF StillSo, StepPcs, FilePcs, ReopenPcs
<1>4. QED BY <1>2, <1>3

LEMMA OrderProceed ==
  ASSUME Typed, RunRows, OrderIInv, NEW t \in Requests, Proceed(t)
  PROVE  StillAllSo' /\ OrderedRuns'
<1> DEFINE r == req[t].run   key == req[t].step
<1>s. r \notin contested => StillSo(req[t].pc, r, key)
  BY DEF OrderIInv, StillAllSo
<1>t. /\ status \in [Runs -> Statuses] /\ filed \in [Runs -> SUBSET StepKeys]
      /\ req[t].pc \in StepPcs \cup AfterPcs \cup StartPcs => r \in Runs
      /\ req[t].pc \in StepPcs => key \in Steps[r.kind]
  BY DEF Typed, TypeOK, WellFormed
<1>o. /\ OrderedRuns
      /\ \A x \in Runs : filed[x] \subseteq Steps[x.kind]
  BY DEF OrderIInv, FiledRows
\* A commit of a step, the others being as they were.
<1>c. ASSUME r \in Runs, req[t].pc \in StepPcs, OrderedRuns', contested' = contested,
             \A x \in Runs \ {r} : status'[x] = status[x] /\ filed'[x] = filed[x],
             Finish(t) \/ Goto(t, "effect-read")
      PROVE  StillAllSo' /\ OrderedRuns'
  <2>1. ASSUME NEW u \in Requests \ {t}, (req[u].run \notin contested)'
        PROVE  StillSo(req[u].pc, req[u].run, req[u].step)'
    <3>1. req'[u] = req[u]
      BY <1>c, Placed DEF Finish, Goto
    <3>2. QED BY <1>c, <2>1, <3>1, OthersStillSo
  <2>2. req'[t].pc \in {"idle", "effect-read"}
    BY <1>c, Placed DEF Finish, Goto
  <2>3. QED BY <1>c, <2>1, <2>2 DEF StillAllSo, StillSo, StepPcs, FilePcs, ReopenPcs
<1>1. CASE StartCheck(t)
  BY <1>1, Quiet, ReliesOnNothing DEF StartCheck, Goto, Finish, NoStepPcs, StartPcs, StepPcs, FilePcs, ReopenPcs
<1>2. CASE StartInsert(t)
  BY <1>2, Quiet, ReliesOnNothing DEF StartInsert, Goto, Finish, NoStepPcs, StartPcs, StepPcs, FilePcs, ReopenPcs
<1>10. CASE EffectRead(t)
  BY <1>10, Quiet, ReliesOnNothing DEF EffectRead, Goto, Finish, NoStepPcs, AfterPcs, StepPcs, FilePcs, ReopenPcs
<1>11. CASE EffectJoin(t)
  BY <1>11, Quiet, ReliesOnNothing DEF EffectJoin, Finish, NoStepPcs, StepPcs, FilePcs, ReopenPcs
<1>12. CASE EffectLeave(t)
  BY <1>12, Quiet, ReliesOnNothing DEF EffectLeave, Goto, Finish, NoStepPcs, StepPcs, FilePcs, ReopenPcs
<1>16. CASE CancelWrite(t)
  BY <1>16, Quiet, ReliesOnNothing DEF CancelWrite, Goto, Finish, NoStepPcs, AfterPcs, StepPcs, FilePcs, ReopenPcs
<1>18. CASE TerminateFind(t)
  BY <1>18, Quiet, ReliesOnNothing DEF TerminateFind, Finish, NoStepPcs, AfterPcs, StepPcs, FilePcs, ReopenPcs
<1>4. CASE FileCheck(t)
  <2>1. CASE Finish(t)
    BY <1>4, <2>1, Quiet, ReliesOnNothing DEF FileCheck, Finish, NoStepPcs, StepPcs, FilePcs, ReopenPcs
  <2>2. CASE Goto(t, "file-write") /\ StepState(r.kind, key, filed[r]) = "ready"
    <3>1. r \notin contested => StillSo("file-write", r, key)
      BY <1>s, <1>4, <2>2 DEF FileCheck, StepState, StillSo, StepPcs, FilePcs
    <3>2. QED BY <1>4, <2>2, <3>1, Quiet DEF FileCheck, Goto
  <2>3. QED BY <1>4, <2>1, <2>2 DEF FileCheck
<1>5. CASE FileWrite(t)
  <2>1. r \notin contested => StillSo("file-reload", r, key)
    BY <1>s, <1>5 DEF FileWrite, StillSo, StepPcs, FilePcs
  <2>2. QED BY <1>5, <2>1, Quiet DEF FileWrite, Goto
<1>6. CASE FileReload(t)
  <2> DEFINE pc == IF IsComplete(r.kind, filed[r] \cup {key}) THEN "file-complete"
                   ELSE IF status[r] = "completed" THEN "late-commit" ELSE "file-commit"
  <2>1. r \notin contested => StillSo(pc, r, key)
    BY <1>s, <1>6 DEF FileReload, StillSo, StepPcs, FilePcs
  <2>2. QED BY <1>6, <2>1, Quiet DEF FileReload, Goto
<1>7. CASE FileComplete(t)
  <2>1. r \notin contested => StillSo("complete-commit", r, key)
    BY <1>s, <1>7 DEF FileComplete, StillSo, StepPcs, FilePcs
  <2>2. CASE Finish(t)
    BY <1>7, <2>2, Quiet, ReliesOnNothing DEF FileComplete, Finish, NoStepPcs, StepPcs, FilePcs, ReopenPcs
  <2>3. CASE Goto(t, "complete-commit")
    BY <1>7, <2>1, <2>3, Quiet DEF FileComplete, Goto
  <2>4. QED BY <1>7, <2>2, <2>3 DEF FileComplete
<1>13. CASE ReopenCheck(t)
  <2>1. CASE Finish(t)
    BY <1>13, <2>1, Quiet, ReliesOnNothing DEF ReopenCheck, Finish, NoStepPcs, StepPcs, FilePcs, ReopenPcs
  <2>2. CASE Goto(t, "reopen-write") /\ FiledDependents(r.kind, key, filed[r]) = {}
    <3>1. r \notin contested => StillSo("reopen-write", r, key)
      BY <1>s, <1>13, <2>2 DEF ReopenCheck, StillSo, StepPcs, FilePcs, ReopenPcs
    <3>2. QED BY <1>13, <2>2, <3>1, Quiet DEF ReopenCheck, Goto
  <2>3. QED BY <1>13, <2>1, <2>2 DEF ReopenCheck
<1>14. CASE ReopenWrite(t)
  <2>1. r \notin contested => StillSo("reopen-commit", r, key)
    BY <1>s, <1>14 DEF ReopenWrite, StillSo, StepPcs, FilePcs, ReopenPcs
  <2>2. QED BY <1>14, <2>1, Quiet DEF ReopenWrite, Goto
<1>3. CASE StartCommit(t)
  <2>1. OrderedRuns'
    BY <1>3, <1>t, <1>o, RunRecord, EngineAssumption
       DEF StartCommit, RunRows, StartPcs, OrderIInv, FiledRows, OrderedRuns, IsComplete
  <2>2. ASSUME NEW u \in Requests \ {t}, req[u].run \notin contested
        PROVE  StillSo(req[u].pc, req[u].run, req[u].step)'
    <3>1. req'[u] = req[u]
      BY <1>3, Placed DEF StartCommit, Finish
    <3>2. StillSo(req[u].pc, req[u].run, req[u].step)
      BY <2>2 DEF OrderIInv, StillAllSo
    <3>3. req[u].pc \in StepPcs => req[u].run # r /\ req[u].run \in Runs
      BY <1>3 DEF StartCommit, RunRows, StartPcs, Typed, WellFormed
    <3>4. CASE req[u].pc \in StepPcs
      BY <1>3, <1>t, <3>1, <3>2, <3>3, <3>4 DEF StartCommit, StillSo
    <3>5. CASE req[u].pc \notin StepPcs
      BY <3>1, <3>2, <3>5 DEF StillSo, StepPcs, FilePcs, ReopenPcs
    <3>6. QED BY <3>4, <3>5
  <2>3. QED
    BY <1>3, <2>1, <2>2, Placed
       DEF StartCommit, Finish, StillAllSo, StillSo, StepPcs, FilePcs, ReopenPcs
<1>8. CASE FileCommit(t)
  <2>1. r \notin contested =>
          /\ Needs[r.kind][key] \subseteq filed[r] /\ ~IsComplete(r.kind, filed[r] \cup {key})
          /\ status[r] # "completed"
    BY <1>s, <1>8 DEF FileCommit, StillSo, StepPcs, FilePcs
  <2>2. r \in Runs /\ req[t].pc \in StepPcs
    BY <1>8, <1>t DEF FileCommit, StepPcs, FilePcs
  <2>3. OrderedRuns'
    BY <1>8, <1>t, <1>o, <2>1, <2>2 DEF FileCommit, OrderedRuns, InOrder
  <2>4. QED BY <1>8, <1>t, <2>2, <2>3, <1>c DEF FileCommit
<1>9. CASE CompleteCommit(t)
  <2>1. r \notin contested =>
          Needs[r.kind][key] \subseteq filed[r] /\ IsComplete(r.kind, filed[r] \cup {key})
    BY <1>s, <1>9 DEF CompleteCommit, StillSo, StepPcs, FilePcs
  <2>2. r \in Runs /\ req[t].pc \in StepPcs
    BY <1>9, <1>t DEF CompleteCommit, StepPcs, FilePcs
  <2>3. OrderedRuns'
    BY <1>9, <1>t, <1>o, <2>1, <2>2 DEF CompleteCommit, OrderedRuns, InOrder
  <2>4. QED BY <1>9, <1>t, <2>2, <2>3, <1>c DEF CompleteCommit
<1>15. CASE ReopenCommit(t)
  <2>1. r \notin contested =>
          FiledDependents(r.kind, key, filed[r]) = {} /\ status[r] # "completed"
    BY <1>s, <1>15 DEF ReopenCommit, StillSo, StepPcs, ReopenPcs
  <2>2. r \in Runs /\ req[t].pc \in StepPcs /\ key \in Steps[r.kind]
    BY <1>15, <1>t DEF ReopenCommit, StepPcs, ReopenPcs
  <2>3. r \notin contested => InOrder(r.kind, filed[r] \ {key})
    BY <1>o, <2>1, <2>2 DEF OrderedRuns, InOrder, FiledDependents
  <2>4. ~IsComplete(r.kind, filed[r] \ {key})
    BY <2>2 DEF IsComplete
  <2>5. OrderedRuns'
    BY <1>15, <1>t, <1>o, <2>1, <2>2, <2>3, <2>4 DEF ReopenCommit, OrderedRuns
  <2>6. QED BY <1>15, <1>t, <2>2, <2>5, <1>c DEF ReopenCommit
<1>17. CASE CancelCommit(t)
  <2>1. OrderedRuns'
    BY <1>17, <1>t, <1>o DEF CancelCommit, OrderedRuns, AfterPcs
  <2>2. ASSUME NEW u \in Requests \ {t}, req[u].run \notin contested
        PROVE  StillSo(req[u].pc, req[u].run, req[u].step)'
    BY <1>17, <1>t, <2>2, Placed
       DEF CancelCommit, Finish, OrderIInv, StillAllSo, StillSo, AfterPcs
  <2>3. QED
    BY <1>17, <2>1, <2>2, Placed
       DEF CancelCommit, Finish, StillAllSo, StillSo, StepPcs, FilePcs, ReopenPcs
<1>19. QED
  BY <1>1, <1>2, <1>3, <1>4, <1>5, <1>6, <1>7, <1>8, <1>9, <1>10, <1>11, <1>12,
     <1>13, <1>14, <1>15, <1>16, <1>17, <1>18 DEF Proceed

LEMMA OrderNext == Typed /\ RunRows /\ OrderIInv /\ [Next]_vars => OrderIInv'
<1> SUFFICES ASSUME Typed, RunRows, OrderIInv, [Next]_vars PROVE OrderIInv'
  OBVIOUS
<1>0. FiledRows' /\ Alone'
  BY FiledRowsNext, AloneNext DEF OrderIInv
<1> SUFFICES StillAllSo' /\ OrderedRuns'
  BY <1>0 DEF OrderIInv
<1>1. ASSUME NEW t \in Requests, Accept(t) PROVE StillAllSo' /\ OrderedRuns'
  BY <1>1, OrderAccept
<1>2. ASSUME NEW t \in Requests, Proceed(t) PROVE StillAllSo' /\ OrderedRuns'
  BY <1>2, OrderProceed
<1>3. ASSUME NEW t \in Requests, Fail(t) PROVE StillAllSo' /\ OrderedRuns'
  BY <1>3, Quiet, ReliesOnNothing DEF Fail, Finish, NoStepPcs, StepPcs, FilePcs, ReopenPcs
<1>4. ASSUME NEW e \in Employees, Reinstate(e) PROVE StillAllSo' /\ OrderedRuns'
  BY <1>4 DEF Reinstate, OrderIInv, StillAllSo, StillSo, OrderedRuns
<1>5. CASE UNCHANGED vars
  BY <1>5 DEF vars, OrderIInv, StillAllSo, StillSo, OrderedRuns
<1>6. QED BY <1>1, <1>2, <1>3, <1>4, <1>5 DEF Next

LEMMA Order == Spec => []OrderIInv
BY OrderInit, OrderNext, Rows, PTL DEF Spec

\* StepOrder, for every list of steps and any number of requests.
THEOREM StepsInOrder == Spec => []StepOrder
<1>1. OrderIInv => StepOrder
  BY DEF OrderIInv, OrderedRuns, StepOrder
<1>2. QED BY <1>1, Order, PTL

\* Of an unfinished list some step is ready: of the steps not filed, one waits
\* on none of them.
LEMMA SomeStepReady ==
  ASSUME NEW kind \in Kinds, NEW done \in SUBSET StepKeys, ~IsComplete(kind, done)
  PROVE  \E key \in Steps[kind] : StepState(kind, key, done) = "ready"
<1> DEFINE open == Steps[kind] \ done
<1>1. open \in SUBSET Steps[kind] /\ open # {}
  BY DEF IsComplete
<1>0. \A T \in SUBSET Steps[kind] :
        T # {} => \E key \in T : Needs[kind][key] \cap T = {}
  BY EngineAssumption
<1> HIDE DEF open
<1>2. PICK key \in open : Needs[kind][key] \cap open = {}
  BY <1>0, <1>1, Zenon
<1> USE DEF open
<1>3. Needs[kind][key] \subseteq Steps[kind]
  BY <1>2, EngineAssumption
<1>4. QED BY <1>2, <1>3 DEF StepState

\* Completion: no run waits for a completion that nobody will make.
THEOREM Completes == Spec => []Completion
<1>1. Typed /\ OrderIInv => Completion
  BY SomeStepReady, RunRecord DEF Typed, TypeOK, OrderIInv, OrderedRuns, Completion
<1>2. QED BY <1>1, Order, Rows, PTL

-----------------------------------------------------------------------------
(* The step lists                                                          *)

\* Of some positions in a list one is the first: the intervals up to them have a
\* smallest.
LEMMA FirstPosition ==
  ASSUME NEW I, I \subseteq Nat, I # {}
  PROVE  \E m \in I : \A k \in I : m <= k
<1> DEFINE W == {1..m : m \in I}
<1>1. W \subseteq FiniteSubsetsOf(Nat) /\ W # {}
  <2>1. \A m \in I : IsFiniteSet(1..m) /\ 1..m \subseteq Nat
    BY FS_Interval
  <2> QED BY <2>1 DEF FiniteSubsetsOf
<1>2. PICK A \in W : \A B \in W : <<B, A>> \notin StrictSubsetOrdering(Nat)
  <2> HIDE DEF W
  <2> QED BY <1>1, FS_StrictSubsetOrderingWellFounded, WFMin
<1>3. PICK m \in I : A = 1..m
  OBVIOUS
<1>4. ASSUME NEW k \in I, k < m PROVE FALSE
  <2>1. 1..k \in W /\ 1..k \subseteq 1..m /\ 1..k # 1..m
    BY <1>4
  <2>2. <<1..k, 1..m>> \in StrictSubsetOrdering(Nat)
    BY <1>1, <1>3, <2>1 DEF FiniteSubsetsOf, StrictSubsetOrdering
  <2> QED BY <1>2, <1>3, <2>1, <2>2
<1> QED BY <1>4

\* What integrityProblems is for: lists it finds nothing wrong with are what the
\* engine assumes, for steps that wait on earlier ones only never wait in a circle.
THEOREM SoundListsMeetEngine ==
  ASSUME NEW list \in Seq([key : StepKeys, day : Nat, needs : SUBSET StepKeys]),
         Sound(list)
  PROVE  /\ KeysOf(list) \subseteq StepKeys /\ (Len(list) > 0 => KeysOf(list) # {})
         /\ \A key \in KeysOf(list) : NeedsOf(list, key) \subseteq KeysOf(list)
         /\ \A T \in SUBSET KeysOf(list) :
              T # {} => \E key \in T : NeedsOf(list, key) \cap T = {}
<1> DEFINE Entry == [key : StepKeys, day : Nat, needs : SUBSET StepKeys]
<1>0. list \in Seq(Entry)
  OBVIOUS
<1> HIDE DEF Entry
<1>1. /\ DOMAIN list = 1..Len(list) /\ Len(list) \in Nat
      /\ \A i \in DOMAIN list : list[i] \in Entry
  BY <1>0
<1> USE DEF Entry
<1>2. KeysOf(list) \subseteq StepKeys /\ (Len(list) > 0 => KeysOf(list) # {})
  <2>1. Len(list) > 0 => 1 \in DOMAIN list
    BY <1>1
  <2>2. \A i \in DOMAIN list : list[i].key \in KeysOf(list)
    BY DEF KeysOf
  <2> QED BY <1>1, <2>1, <2>2 DEF KeysOf
<1>3. \A i \in DOMAIN list : NeedsOf(list, list[i].key) = list[i].needs
  BY DEF NeedsOf, Sound
<1>4. \A i \in DOMAIN list : \A n \in list[i].needs :
        \E j \in DOMAIN list : j < i /\ list[j].key = n
  <2> SUFFICES ASSUME NEW i \in DOMAIN list, NEW n \in list[i].needs
               PROVE  \E j \in DOMAIN list : j < i /\ list[j].key = n
    OBVIOUS
  <2>1. PICK j \in 1..(i - 1) : list[j].key = n
    BY DEF Sound
  <2>2. j \in DOMAIN list /\ j < i
    BY <1>1, <2>1
  <2> QED BY <2>1, <2>2
<1>5. \A key \in KeysOf(list) : NeedsOf(list, key) \subseteq KeysOf(list)
  BY <1>3, <1>4 DEF KeysOf
<1>6. ASSUME NEW T \in SUBSET KeysOf(list), T # {}
      PROVE  \E key \in T : NeedsOf(list, key) \cap T = {}
  <2> DEFINE I == {i \in DOMAIN list : list[i].key \in T}
  <2>1. I \subseteq Nat /\ I # {}
    BY <1>1, <1>6 DEF KeysOf
  <2>2. PICK m \in I : \A k \in I : m <= k
    <3> HIDE DEF I
    <3> QED BY <2>1, FirstPosition
  <2>3. list[m].needs \cap T = {}
    BY <1>1, <1>4, <2>2
  <2> QED BY <1>3, <2>2, <2>3
<1> QED
  BY <1>2, <1>5, <1>6
=============================================================================
