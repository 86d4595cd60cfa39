---------------------------- MODULE HiringProofs ----------------------------
(***************************************************************************)
(* What Hiring promises of any candidates, employees and number of         *)
(* requests: types, and the three invariants of candidates whose stage no  *)
(* two requests were to change at once.                                    *)
(*                                                                         *)
(* Base says what a request may rely on between two of its steps, whoever  *)
(* else is at work; Story, of a candidate who is not disturbed, how their  *)
(* stage, the records made for them and the one request about them fit.    *)
(***************************************************************************)
EXTENDS Hiring, TLAPS

-----------------------------------------------------------------------------
(* The inductive invariant                                                 *)

\* Requests that act on a record which has been made.
WithRecord == {"update", "write", "start", "insert", "effect", "left", "joined", "join"}

Carries(t) ==
  LET r == req[t] IN
  /\ r.pc \in WithRecord => r.emp \in Employees /\ employment[r.emp] # "none"
  /\ r.pc = "ended" => r.emp \in Employees
  /\ r.pc \in {"stage", "hire", "mobilise", "effect", "joined", "join"} => r.cand \in Candidates
  /\ r.pc = "stage" => r.was \in Stages /\ r.to \in Transitions[r.was]
  /\ r.pc \in {"update", "write"} => r.to \in {"active", "terminated"}
  /\ r.pc \in {"update", "write"} /\ r.to = "active" /\ r.cand \notin Candidates =>
       employment[r.emp] # "onboarding" /\ (r.pc = "write" => r.was # "onboarding")
  /\ r.pc = "mobilise" =>
       r.emp \in Employees /\ madeFor[r.emp] = r.cand /\ employment[r.emp] = "none"
  /\ r.pc = "idle" => r = Idle

\* An id minted at mobilisation is one request's alone until its record is made.
OwnIds ==
  \A t, u \in Requests :
    req[t].pc = "mobilise" /\ req[u].pc = "mobilise" /\ req[t].emp = req[u].emp => t = u

Records ==
  \A e \in Employees :
    /\ employment[e] # "none" => madeFor[e] \in Candidates
    /\ onboarding[e] # "none" => employment[e] # "none"

Base == TypeOK /\ Records /\ OwnIds /\ \A t \in Requests : Carries(t)

\* The ids drawn for c, whether or not their record has been made yet.
Drawn(c) == {e \in Employees : madeFor[e] = c}
Busy(c, pcs) == \E t \in Requests : req[t].cand = c /\ req[t].pc \in pcs
Alone(c) == \A t, u \in Requests : req[t].cand = c /\ req[u].cand = c => t = u

\* How c's stage and the records made for them fit.
BeforeOffer(c) ==
  stage[c] \in {"applied", "screening", "interview", "offer"} => Drawn(c) = {}
Mobilising(c) ==
  stage[c] = "mobilisation" =>
    /\ points[c] \in Employees /\ Drawn(c) = {points[c]}
    /\ ~Busy(c, {"mobilise"}) => employment[points[c]] # "none"
    /\ /\ employment[points[c]] = "onboarding"
       /\ ~Busy(c, {"start", "insert", "effect", "update", "write"})
       => onboarding[points[c]] \in {"running", "cancelled"}
Hired(c) ==
  stage[c] = "hired" /\ ~Busy(c, {"hire"}) =>
    \E e \in Employees : Drawn(c) = {e} /\ employment[e] \notin {"none", "onboarding"}
\* A record still onboarding is about to be terminated.
Over(c) ==
  stage[c] \in {"rejected", "withdrawn"} =>
    \A e \in Drawn(c) : employment[e] = "onboarding" =>
      \E t \in Requests : /\ req[t].cand = c /\ req[t].emp = e
                          /\ \/ req[t].pc = "ended"
                             \/ req[t].pc \in {"update", "write"} /\ req[t].to = "terminated"
Stands(c) == BeforeOffer(c) /\ Mobilising(c) /\ Hired(c) /\ Over(c)

\* What request t relies on when it is the one about c.
Follows(c, t) ==
  LET r == req[t] IN
  /\ r.pc = "stage" => /\ r.was = stage[c]
                       /\ r.to = "hired" => nationality[c] # "none"
                       /\ r.to = "mobilisation" => nationality[c] = "abroad"
  /\ r.pc = "hire" => stage[c] = "hired" /\ Drawn(c) = {}
  /\ r.pc \in {"mobilise", "start", "insert", "join"} => stage[c] = "mobilisation" /\ points[c] = r.emp
  /\ r.pc \in {"ended", "effect", "update", "write", "joined"} => madeFor[r.emp] = c
  /\ r.pc \in {"joined", "join"} => employment[r.emp] # "onboarding"

Story(c) ==
  /\ Alone(c) /\ Stands(c)
  /\ \A t \in Requests : req[t].cand = c => Follows(c, t)

IInv == Base /\ \A c \in Candidates \ disturbed : Story(c)

LEMMA StageFacts ==
  /\ Stages = {"applied", "screening", "interview", "offer", "mobilisation", "hired",
                "rejected", "withdrawn"}
  /\ \A s \in Stages : Transitions[s] \subseteq Stages
BY DEF Stages, Transitions

LEMMA BaseInit == Init => Base
BY HiringAssumption DEF Init, Base, TypeOK, Records, OwnIds, Carries, Idle, At, Pcs, WithRecord, Employments,
   Stages, Transitions, Nationalities

LEMMA BaseStageRead ==
  ASSUME Base, NEW t \in Requests, NEW c \in Candidates, NEW to \in Stages, StageRead(t, c, to)
  PROVE  Base'
<1> USE HiringAssumption DEF StageRead, Begin, Place, Touch, At, Idle
<1>1. TypeOK'
  BY StageFacts DEF Base, TypeOK, Carries, Records, Pcs, WithRecord, Employments
<1>2. Records'
  BY DEF Base, TypeOK, Records, Carries, WithRecord, Employments
<1>3. OwnIds'
  BY DEF Base, TypeOK, OwnIds, Carries, Records
<1>4. \A u \in Requests : Carries(u)'
  BY DEF Base, TypeOK, Carries, Records, OwnIds, WithRecord, Employments
<1> QED BY <1>1, <1>2, <1>3, <1>4 DEF Base

LEMMA BaseStageMobilise ==
  ASSUME Base, NEW t \in Requests, StageMobilise(t)
  PROVE  Base'
<1> USE HiringAssumption DEF StageMobilise, Goto, Place, Finish, Fresh, At, Idle
<1>1. TypeOK'
  BY StageFacts DEF Base, TypeOK, Carries, Records, Pcs, WithRecord, Employments
<1>2. Records'
  BY DEF Base, TypeOK, Records, Carries, WithRecord, Employments
<1>3. OwnIds'
  BY DEF Base, TypeOK, OwnIds, Carries, Records
<1>4. \A u \in Requests : Carries(u)'
  BY DEF Base, TypeOK, Carries, Records, OwnIds, WithRecord, Employments
<1> QED BY <1>1, <1>2, <1>3, <1>4 DEF Base

LEMMA BaseStageMove ==
  ASSUME Base, NEW t \in Requests, StageMove(t)
  PROVE  Base'
<1> USE HiringAssumption DEF StageMove, Moves, Goto, Place, Finish, At, Idle
<1>1. TypeOK'
  BY StageFacts DEF Base, TypeOK, Carries, Records, Pcs, WithRecord, Employments
<1>2. Records'
  BY DEF Base, TypeOK, Records, Carries, WithRecord, Employments
<1>3. OwnIds'
  BY DEF Base, TypeOK, OwnIds, Carries, Records
<1>4. \A u \in Requests : Carries(u)'
  BY DEF Base, TypeOK, Carries, Records, OwnIds, WithRecord, Employments
<1> QED BY <1>1, <1>2, <1>3, <1>4 DEF Base

LEMMA BaseJoinedRead ==
  ASSUME Base, NEW t \in Requests, JoinedRead(t)
  PROVE  Base'
<1> USE HiringAssumption DEF JoinedRead, Goto, Place, Finish, At, Idle
<1>1. TypeOK'
  BY StageFacts DEF Base, TypeOK, Carries, Records, Pcs, WithRecord, Employments
<1>2. Records'
  BY DEF Base, TypeOK, Records, Carries, WithRecord, Employments
<1>3. OwnIds'
  BY DEF Base, TypeOK, OwnIds, Carries, Records
<1>4. \A u \in Requests : Carries(u)'
  BY DEF Base, TypeOK, Carries, Records, OwnIds, WithRecord, Employments
<1> QED BY <1>1, <1>2, <1>3, <1>4 DEF Base

LEMMA BaseJoinedWrite ==
  ASSUME Base, NEW t \in Requests, JoinedWrite(t)
  PROVE  Base'
<1> USE HiringAssumption DEF JoinedWrite, Joins, Finish, At, Idle
<1>1. TypeOK'
  BY StageFacts DEF Base, TypeOK, Carries, Records, Pcs, WithRecord, Employments
<1>2. Records'
  BY DEF Base, TypeOK, Records, Carries, WithRecord, Employments
<1>3. OwnIds'
  BY DEF Base, TypeOK, OwnIds, Carries, Records
<1>4. \A u \in Requests : Carries(u)'
  BY DEF Base, TypeOK, Carries, Records, OwnIds, WithRecord, Employments
<1> QED BY <1>1, <1>2, <1>3, <1>4 DEF Base

LEMMA BaseHireCreate ==
  ASSUME Base, NEW t \in Requests, HireCreate(t)
  PROVE  Base'
<1> USE HiringAssumption DEF HireCreate, Finish, Fresh, At, Idle
<1>1. TypeOK'
  BY StageFacts DEF Base, TypeOK, Carries, Records, Pcs, WithRecord, Employments
<1>2. Records'
  BY DEF Base, TypeOK, Records, Carries, WithRecord, Employments
<1>3. OwnIds'
  BY DEF Base, TypeOK, OwnIds, Carries, Records
<1>4. \A u \in Requests : Carries(u)'
  BY DEF Base, TypeOK, Carries, Records, OwnIds, WithRecord, Employments
<1> QED BY <1>1, <1>2, <1>3, <1>4 DEF Base

LEMMA BaseMobiliseCreate ==
  ASSUME Base, NEW t \in Requests, MobiliseCreate(t)
  PROVE  Base'
<1> USE HiringAssumption DEF MobiliseCreate, Goto, Place, At, Idle
<1>1. TypeOK'
  BY StageFacts DEF Base, TypeOK, Carries, Records, Pcs, WithRecord, Employments
<1>2. Records'
  BY DEF Base, TypeOK, Records, Carries, WithRecord, Employments
<1>3. OwnIds'
  BY DEF Base, TypeOK, OwnIds, Carries, Records
<1>4. \A u \in Requests : Carries(u)'
  BY DEF Base, TypeOK, Carries, Records, OwnIds, WithRecord, Employments
<1> QED BY <1>1, <1>2, <1>3, <1>4 DEF Base

LEMMA BaseEndedRead ==
  ASSUME Base, NEW t \in Requests, EndedRead(t)
  PROVE  Base'
<1> USE HiringAssumption DEF EndedRead, Place, Finish, At, Idle
<1>1. TypeOK'
  BY StageFacts DEF Base, TypeOK, Carries, Records, Pcs, WithRecord, Employments
<1>2. Records'
  BY DEF Base, TypeOK, Records, Carries, WithRecord, Employments
<1>3. OwnIds'
  BY DEF Base, TypeOK, OwnIds, Carries, Records
<1>4. \A u \in Requests : Carries(u)'
  BY DEF Base, TypeOK, Carries, Records, OwnIds, WithRecord, Employments
<1> QED BY <1>1, <1>2, <1>3, <1>4 DEF Base

LEMMA BaseTerminate ==
  ASSUME Base, NEW t \in Requests, NEW e \in Employees, Terminate(t, e)
  PROVE  Base'
<1> USE HiringAssumption DEF Terminate, Begin, Place, Touch, At, Idle
<1>1. TypeOK'
  BY StageFacts DEF Base, TypeOK, Carries, Records, Pcs, WithRecord, Employments
<1>2. Records'
  BY DEF Base, TypeOK, Records, Carries, WithRecord, Employments
<1>3. OwnIds'
  BY DEF Base, TypeOK, OwnIds, Carries, Records
<1>4. \A u \in Requests : Carries(u)'
  BY DEF Base, TypeOK, Carries, Records, OwnIds, WithRecord, Employments
<1> QED BY <1>1, <1>2, <1>3, <1>4 DEF Base

LEMMA BaseReinstate ==
  ASSUME Base, NEW t \in Requests, NEW e \in Employees, Reinstate(t, e)
  PROVE  Base'
<1> USE HiringAssumption DEF Reinstate, Begin, Place, Touch, At, Idle
<1>1. TypeOK'
  BY StageFacts DEF Base, TypeOK, Carries, Records, Pcs, WithRecord, Employments
<1>2. Records'
  BY DEF Base, TypeOK, Records, Carries, WithRecord, Employments
<1>3. OwnIds'
  BY DEF Base, TypeOK, OwnIds, Carries, Records
<1>4. \A u \in Requests : Carries(u)'
  BY DEF Base, TypeOK, Carries, Records, OwnIds, WithRecord, Employments
<1> QED BY <1>1, <1>2, <1>3, <1>4 DEF Base

LEMMA BaseUpdateRead ==
  ASSUME Base, NEW t \in Requests, UpdateRead(t)
  PROVE  Base'
<1> USE HiringAssumption DEF UpdateRead, Place, At, Idle
<1>1. TypeOK'
  BY StageFacts DEF Base, TypeOK, Carries, Records, Pcs, WithRecord, Employments
<1>2. Records'
  BY DEF Base, TypeOK, Records, Carries, WithRecord, Employments
<1>3. OwnIds'
  BY DEF Base, TypeOK, OwnIds, Carries, Records
<1>4. \A u \in Requests : Carries(u)'
  BY DEF Base, TypeOK, Carries, Records, OwnIds, WithRecord, Employments
<1> QED BY <1>1, <1>2, <1>3, <1>4 DEF Base

LEMMA BaseUpdateWrite ==
  ASSUME Base, NEW t \in Requests, UpdateWrite(t)
  PROVE  Base'
<1> USE HiringAssumption DEF UpdateWrite, Goto, Place, Finish, At, Idle
<1>1. TypeOK'
  BY StageFacts DEF Base, TypeOK, Carries, Records, Pcs, WithRecord, Employments
<1>2. Records'
  BY DEF Base, TypeOK, Records, Carries, WithRecord, Employments
<1>3. OwnIds'
  BY DEF Base, TypeOK, OwnIds, Carries, Records
<1>4. \A u \in Requests : Carries(u)'
  BY DEF Base, TypeOK, Carries, Records, OwnIds, WithRecord, Employments
<1> QED BY <1>1, <1>2, <1>3, <1>4 DEF Base

LEMMA BaseStartRead ==
  ASSUME Base, NEW t \in Requests, StartRead(t)
  PROVE  Base'
<1> USE HiringAssumption DEF StartRead, Goto, Place, Finish, At, Idle
<1>1. TypeOK'
  <2>1. req[t].emp \in Employees
    BY DEF Base, Carries, WithRecord
  <2> QED BY <2>1 DEF Base, TypeOK, Pcs, Employments
<1>2. Records'
  BY DEF Base, TypeOK, Records, Carries, WithRecord, Employments
<1>3. OwnIds'
  BY DEF Base, TypeOK, OwnIds, Carries, Records
<1>4. \A u \in Requests : Carries(u)'
  BY DEF Base, TypeOK, Carries, Records, OwnIds, WithRecord, Employments
<1> QED BY <1>1, <1>2, <1>3, <1>4 DEF Base

LEMMA BaseStartByHand ==
  ASSUME Base, NEW t \in Requests, NEW e \in Employees, StartByHand(t, e)
  PROVE  Base'
<1> USE HiringAssumption DEF StartByHand, Begin, Place, Touch, At, Idle
<1>1. TypeOK'
  BY StageFacts DEF Base, TypeOK, Carries, Records, Pcs, WithRecord, Employments
<1>2. Records'
  BY DEF Base, TypeOK, Records, Carries, WithRecord, Employments
<1>3. OwnIds'
  BY DEF Base, TypeOK, OwnIds, Carries, Records
<1>4. \A u \in Requests : Carries(u)'
  BY DEF Base, TypeOK, Carries, Records, OwnIds, WithRecord, Employments
<1> QED BY <1>1, <1>2, <1>3, <1>4 DEF Base

LEMMA BaseStartInsert ==
  ASSUME Base, NEW t \in Requests, StartInsert(t)
  PROVE  Base'
<1> USE HiringAssumption DEF StartInsert, Finish, At, Idle
<1>1. TypeOK'
  BY StageFacts DEF Base, TypeOK, Carries, Records, Pcs, WithRecord, Employments
<1>2. Records'
  BY DEF Base, TypeOK, Records, Carries, WithRecord, Employments
<1>3. OwnIds'
  BY DEF Base, TypeOK, OwnIds, Carries, Records
<1>4. \A u \in Requests : Carries(u)'
  BY DEF Base, TypeOK, Carries, Records, OwnIds, WithRecord, Employments
<1> QED BY <1>1, <1>2, <1>3, <1>4 DEF Base

LEMMA BaseComplete ==
  ASSUME Base, NEW t \in Requests, NEW e \in Employees, Complete(t, e)
  PROVE  Base'
<1> USE HiringAssumption DEF Complete, Begin, Place, Touch, At, Idle
<1>1. TypeOK'
  BY StageFacts DEF Base, TypeOK, Carries, Records, Pcs, WithRecord, Employments
<1>2. Records'
  BY DEF Base, TypeOK, Records, Carries, WithRecord, Employments
<1>3. OwnIds'
  BY DEF Base, TypeOK, OwnIds, Carries, Records
<1>4. \A u \in Requests : Carries(u)'
  BY DEF Base, TypeOK, Carries, Records, OwnIds, WithRecord, Employments
<1> QED BY <1>1, <1>2, <1>3, <1>4 DEF Base

LEMMA BaseEffectRead ==
  ASSUME Base, NEW t \in Requests, EffectRead(t)
  PROVE  Base'
<1> USE HiringAssumption DEF EffectRead, Place, Finish, At, Idle
<1>1. TypeOK'
  BY StageFacts DEF Base, TypeOK, Carries, Records, Pcs, WithRecord, Employments
<1>2. Records'
  BY DEF Base, TypeOK, Records, Carries, WithRecord, Employments
<1>3. OwnIds'
  BY DEF Base, TypeOK, OwnIds, Carries, Records
<1>4. \A u \in Requests : Carries(u)'
  BY DEF Base, TypeOK, Carries, Records, OwnIds, WithRecord, Employments
<1> QED BY <1>1, <1>2, <1>3, <1>4 DEF Base

LEMMA BaseLeft ==
  ASSUME Base, NEW t \in Requests, Left(t)
  PROVE  Base'
<1> USE HiringAssumption DEF Left, Finish, At, Idle
<1>1. TypeOK'
  BY StageFacts DEF Base, TypeOK, Carries, Records, Pcs, WithRecord, Employments
<1>2. Records'
  BY DEF Base, TypeOK, Records, Carries, WithRecord, Employments
<1>3. OwnIds'
  BY DEF Base, TypeOK, OwnIds, Carries, Records
<1>4. \A u \in Requests : Carries(u)'
  BY DEF Base, TypeOK, Carries, Records, OwnIds, WithRecord, Employments
<1> QED BY <1>1, <1>2, <1>3, <1>4 DEF Base

LEMMA BaseFail ==
  ASSUME Base, NEW t \in Requests, Fail(t)
  PROVE  Base'
<1> USE HiringAssumption DEF Fail, Finish, At, Idle
<1>1. TypeOK'
  BY StageFacts DEF Base, TypeOK, Carries, Records, Pcs, WithRecord, Employments
<1>2. Records'
  BY DEF Base, TypeOK, Records, Carries, WithRecord, Employments
<1>3. OwnIds'
  BY DEF Base, TypeOK, OwnIds, Carries, Records
<1>4. \A u \in Requests : Carries(u)'
  BY DEF Base, TypeOK, Carries, Records, OwnIds, WithRecord, Employments
<1> QED BY <1>1, <1>2, <1>3, <1>4 DEF Base

LEMMA BaseCancelRun ==
  ASSUME Base, NEW e \in Employees, CancelRun(e)
  PROVE  Base'
<1> USE HiringAssumption DEF CancelRun, At, Idle
<1>1. TypeOK'
  BY StageFacts DEF Base, TypeOK, Carries, Records, Pcs, WithRecord, Employments
<1>2. Records'
  BY DEF Base, TypeOK, Records, Carries, WithRecord, Employments
<1>3. OwnIds'
  BY DEF Base, TypeOK, OwnIds, Carries, Records
<1>4. \A u \in Requests : Carries(u)'
  BY DEF Base, TypeOK, Carries, Records, OwnIds, WithRecord, Employments
<1> QED BY <1>1, <1>2, <1>3, <1>4 DEF Base

LEMMA BaseRemove ==
  ASSUME Base, NEW c \in Candidates, Remove(c)
  PROVE  Base'
<1> USE HiringAssumption DEF Remove, Touch, At, Idle
<1>1. TypeOK'
  BY StageFacts DEF Base, TypeOK, Carries, Records, Pcs, WithRecord, Employments
<1>2. Records'
  BY DEF Base, TypeOK, Records, Carries, WithRecord, Employments
<1>3. OwnIds'
  BY DEF Base, TypeOK, OwnIds, Carries, Records
<1>4. \A u \in Requests : Carries(u)'
  BY DEF Base, TypeOK, Carries, Records, OwnIds, WithRecord, Employments
<1> QED BY <1>1, <1>2, <1>3, <1>4 DEF Base

LEMMA BaseEditNationality ==
  ASSUME Base, NEW c \in Candidates, NEW n \in Nationalities, EditNationality(c, n)
  PROVE  Base'
<1> USE HiringAssumption DEF EditNationality, Touch, At, Idle
<1>1. TypeOK'
  BY StageFacts DEF Base, TypeOK, Carries, Records, Pcs, WithRecord, Employments
<1>2. Records'
  BY DEF Base, TypeOK, Records, Carries, WithRecord, Employments
<1>3. OwnIds'
  BY DEF Base, TypeOK, OwnIds, Carries, Records
<1>4. \A u \in Requests : Carries(u)'
  BY DEF Base, TypeOK, Carries, Records, OwnIds, WithRecord, Employments
<1> QED BY <1>1, <1>2, <1>3, <1>4 DEF Base

-----------------------------------------------------------------------------
(* The story of a candidate                                                *)

\* What happens elsewhere may change the status of their records only to `active` or
\* `terminated`, and their run only to `running` or `cancelled`.
LEMMA Elsewhere ==
  ASSUME Base, NEW c \in Candidates, Story(c),
         stage'[c] = stage[c], points'[c] = points[c], nationality'[c] = nationality[c],
         \A u \in Requests : req[u].cand = c \/ req'[u].cand = c => req'[u] = req[u],
         Drawn(c)' = Drawn(c),
         \A e \in Drawn(c) : employment'[e] = employment[e]
           \/ (employment[e] # "none" /\ employment'[e] \in {"active", "terminated"}),
         \A e \in Drawn(c) : onboarding'[e] = onboarding[e]
           \/ onboarding'[e] \in {"running", "cancelled"},
         \A e \in Drawn(c) : madeFor'[e] = c
  PROVE  Story(c)'
<1>1. Alone(c)'
  BY DEF Story, Alone
<1>2. \A pcs : Busy(c, pcs)' <=> Busy(c, pcs)
  BY DEF Busy
<1>3. BeforeOffer(c)'
  BY DEF Story, Stands, BeforeOffer
<1>4. Mobilising(c)'
  BY <1>2 DEF Story, Stands, Mobilising
<1>5. Hired(c)'
  BY <1>2 DEF Story, Stands, Hired
<1>6. Over(c)'
  BY DEF Story, Stands, Over
<1>7. ASSUME NEW t \in Requests, req'[t].cand = c PROVE Follows(c, t)'
  <2>1. req'[t] = req[t] /\ Follows(c, t)
    BY <1>7 DEF Story
  <2>2. req[t].pc \in {"joined", "ended", "effect", "update", "write"} => req[t].emp \in Drawn(c)
    BY <2>1 DEF Follows, Drawn, Base, Carries, WithRecord
  <2>3. req[t].pc = "join" => req[t].emp \in Drawn(c)
    BY <2>1 DEF Follows, Story, Stands, Mobilising
  <2> QED BY <2>1, <2>2, <2>3 DEF Follows
<1> QED BY <1>1, <1>3, <1>4, <1>5, <1>6, <1>7 DEF Story, Stands

\* While t is the one request about c, what Busy says is what it says of t.
LEMMA TheOne ==
  ASSUME NEW c \in Candidates, NEW t \in Requests,
         \A u \in Requests \ {t} : req[u].cand # c /\ req'[u] = req[u]
  PROVE  /\ Alone(c)'
         /\ \A pcs : Busy(c, pcs)' <=> req'[t].cand = c /\ req'[t].pc \in pcs
BY DEF Alone, Busy

LEMMA StoryStageRead ==
  ASSUME Base, NEW t \in Requests, NEW d \in Candidates, NEW to \in Stages, StageRead(t, d, to),
         NEW c \in Candidates \ disturbed', Story(c)
  PROVE  Story(c)'
<1> USE HiringAssumption DEF StageRead, Begin, Place, Touch, At, Idle
<1>1. CASE req[t].cand # c /\ req'[t].cand # c
  <2>1. Drawn(c)' = Drawn(c)
    BY <1>1 DEF Drawn, Base, TypeOK, Carries
  <2>2. \A e \in Drawn(c) : employment'[e] = employment[e]
           \/ (employment[e] # "none" /\ employment'[e] \in {"active", "terminated"})
    BY <1>1 DEF Drawn, Base, TypeOK, Carries, WithRecord
  <2>3. \A e \in Drawn(c) : onboarding'[e] = onboarding[e] \/ onboarding'[e] \in {"running", "cancelled"}
    BY <1>1 DEF Drawn, Base, TypeOK, Carries, WithRecord
  <2>4. /\ stage'[c] = stage[c] /\ points'[c] = points[c] /\ nationality'[c] = nationality[c]
        /\ \A e \in Drawn(c) : madeFor'[e] = c
    BY <1>1, <2>1 DEF Drawn, Base, TypeOK, Carries
  <2>5. \A u \in Requests : req[u].cand = c \/ req'[u].cand = c => req'[u] = req[u]
    BY <1>1 DEF Base, TypeOK
  <2> QED BY <2>1, <2>2, <2>3, <2>4, <2>5, Elsewhere
<1>2. CASE req[t].cand = c \/ req'[t].cand = c
  <2>1. \A u \in Requests \ {t} : req[u].cand # c /\ req'[u] = req[u]
    BY <1>2 DEF Base, TypeOK, Story, Alone, About
  <2>2. Alone(c)' /\ \A pcs : Busy(c, pcs)' <=> req'[t].cand = c /\ req'[t].pc \in pcs
    BY <2>1, TheOne
  <2>3. \A pcs : Busy(c, pcs) <=> req[t].cand = c /\ req[t].pc \in pcs
    BY <2>1 DEF Busy
  <2>4. Carries(t) /\ (req[t].cand = c => Follows(c, t)) /\ Stands(c)
    BY DEF Base, Story
  <2>5. req'[t].cand = c => Follows(c, t)'
    BY <1>2, <2>3, <2>4 DEF Base, TypeOK, Records, Follows, Carries, WithRecord, Stands, BeforeOffer, Mobilising, Drawn, Transitions, Stages
  <2>6. BeforeOffer(c)'
    BY <1>2, <2>3, <2>4 DEF Base, TypeOK, Follows, Carries, WithRecord, Stands, BeforeOffer, Mobilising, Drawn, Transitions, Stages
  <2>7. Mobilising(c)'
    BY <1>2, <2>2, <2>3, <2>4 DEF Base, TypeOK, Follows, Carries, WithRecord, Stands, BeforeOffer, Mobilising, Drawn, Transitions, Stages
  <2>8. Hired(c)'
    BY <1>2, <2>2, <2>3, <2>4 DEF Base, TypeOK, Follows, Carries, WithRecord, Stands, BeforeOffer, Mobilising, Hired, Drawn, Transitions, Stages
  <2>9. Over(c)'
    BY <1>2, <2>1, <2>2, <2>3, <2>4 DEF Base, TypeOK, Follows, Carries, WithRecord, Stands, BeforeOffer, Mobilising, Over, Drawn, Transitions, Stages
  <2> QED BY <2>1, <2>2, <2>5, <2>6, <2>7, <2>8, <2>9 DEF Story, Stands
<1> QED BY <1>1, <1>2

LEMMA StoryStageMobilise ==
  ASSUME Base, NEW t \in Requests, StageMobilise(t),
         NEW c \in Candidates \ disturbed', Story(c)
  PROVE  Story(c)'
<1> USE HiringAssumption DEF StageMobilise, Goto, Place, Finish, Fresh, At, Idle
<1>1. CASE req[t].cand # c /\ req'[t].cand # c
  <2>1. Drawn(c)' = Drawn(c)
    BY <1>1 DEF Drawn, Base, TypeOK, Carries
  <2>2. \A e \in Drawn(c) : employment'[e] = employment[e]
           \/ (employment[e] # "none" /\ employment'[e] \in {"active", "terminated"})
    BY <1>1 DEF Drawn, Base, TypeOK, Carries, WithRecord
  <2>3. \A e \in Drawn(c) : onboarding'[e] = onboarding[e] \/ onboarding'[e] \in {"running", "cancelled"}
    BY <1>1 DEF Drawn, Base, TypeOK, Carries, WithRecord
  <2>4. /\ stage'[c] = stage[c] /\ points'[c] = points[c] /\ nationality'[c] = nationality[c]
        /\ \A e \in Drawn(c) : madeFor'[e] = c
    BY <1>1, <2>1 DEF Drawn, Base, TypeOK, Carries
  <2>5. \A u \in Requests : req[u].cand = c \/ req'[u].cand = c => req'[u] = req[u]
    BY <1>1 DEF Base, TypeOK
  <2> QED BY <2>1, <2>2, <2>3, <2>4, <2>5, Elsewhere
<1>2. CASE req[t].cand = c \/ req'[t].cand = c
  <2>1. \A u \in Requests \ {t} : req[u].cand # c /\ req'[u] = req[u]
    BY <1>2 DEF Base, TypeOK, Story, Alone, About
  <2>2. Alone(c)' /\ \A pcs : Busy(c, pcs)' <=> req'[t].cand = c /\ req'[t].pc \in pcs
    BY <2>1, TheOne
  <2>3. \A pcs : Busy(c, pcs) <=> req[t].cand = c /\ req[t].pc \in pcs
    BY <2>1 DEF Busy
  <2>4. Carries(t) /\ (req[t].cand = c => Follows(c, t)) /\ Stands(c)
    BY DEF Base, Story
  <2>5. req'[t].cand = c => Follows(c, t)'
    BY <1>2, <2>3, <2>4 DEF Base, TypeOK, Records, Follows, Carries, WithRecord, Stands, BeforeOffer, Mobilising, Drawn, Transitions, Stages
  <2>6. BeforeOffer(c)'
    BY <1>2, <2>3, <2>4 DEF Base, TypeOK, Follows, Carries, WithRecord, Stands, BeforeOffer, Mobilising, Drawn, Transitions, Stages
  <2>7. Mobilising(c)'
    <3>1. c = req[t].cand /\ stage[c] = "offer" /\ nationality[c] # "none" /\ Drawn(c) = {}
      <4>1. c = req[t].cand
        BY <1>2 DEF Base, TypeOK
      <4>2. /\ stage[c] \in Stages /\ "mobilisation" \in Transitions[stage[c]] /\ nationality[c] = "abroad"
        BY <4>1, <2>4 DEF Follows, Carries
      <4>3. stage[c] = "offer"
        BY <4>2 DEF Transitions, Stages
      <4> QED BY <4>1, <4>2, <4>3, <2>4 DEF Stands, BeforeOffer
    <3>2. PICK e \in Employees :
            /\ Fresh(e) /\ madeFor' = [madeFor EXCEPT ![e] = c] /\ points' = [points EXCEPT ![c] = e]
            /\ req'[t].pc = "mobilise" /\ req'[t].cand = c
      <4>1. PICK e \in Employees :
              /\ Fresh(e) /\ madeFor' = [madeFor EXCEPT ![e] = c] /\ points' = [points EXCEPT ![c] = e]
              /\ req' = [req EXCEPT ![t] = At("mobilise", c, e, "-", "-")]
        BY <3>1
      <4> QED BY <4>1 DEF Base, TypeOK
    <3>3. Drawn(c)' = {e} /\ points'[c] = e
      BY <3>1, <3>2 DEF Drawn, Base, TypeOK
    <3>4. Busy(c, {"mobilise"})'
      BY <2>2, <3>2
    <3>5. employment'[e] = "none"
      BY <3>2, HiringAssumption DEF Base, Records, TypeOK
    <3> QED BY <3>3, <3>4, <3>5 DEF Mobilising
  <2>8. Hired(c)'
    BY <1>2, <2>2, <2>3, <2>4 DEF Base, TypeOK, Follows, Carries, WithRecord, Stands, BeforeOffer, Mobilising, Hired, Drawn, Transitions, Stages
  <2>9. Over(c)'
    BY <1>2, <2>1, <2>2, <2>3, <2>4 DEF Base, TypeOK, Follows, Carries, WithRecord, Stands, BeforeOffer, Mobilising, Over, Drawn, Transitions, Stages
  <2> QED BY <2>1, <2>2, <2>5, <2>6, <2>7, <2>8, <2>9 DEF Story, Stands
<1> QED BY <1>1, <1>2

LEMMA StoryStageMove ==
  ASSUME Base, NEW t \in Requests, StageMove(t),
         NEW c \in Candidates \ disturbed', Story(c)
  PROVE  Story(c)'
<1> USE HiringAssumption DEF StageMove, Moves, Goto, Place, Finish, At, Idle
<1>1. CASE req[t].cand # c /\ req'[t].cand # c
  <2>1. Drawn(c)' = Drawn(c)
    BY <1>1 DEF Drawn, Base, TypeOK, Carries
  <2>2. \A e \in Drawn(c) : employment'[e] = employment[e]
           \/ (employment[e] # "none" /\ employment'[e] \in {"active", "terminated"})
    BY <1>1 DEF Drawn, Base, TypeOK, Carries, WithRecord
  <2>3. \A e \in Drawn(c) : onboarding'[e] = onboarding[e] \/ onboarding'[e] \in {"running", "cancelled"}
    BY <1>1 DEF Drawn, Base, TypeOK, Carries, WithRecord
  <2>4. /\ stage'[c] = stage[c] /\ points'[c] = points[c] /\ nationality'[c] = nationality[c]
        /\ \A e \in Drawn(c) : madeFor'[e] = c
    BY <1>1, <2>1 DEF Drawn, Base, TypeOK, Carries
  <2>5. \A u \in Requests : req[u].cand = c \/ req'[u].cand = c => req'[u] = req[u]
    BY <1>1 DEF Base, TypeOK
  <2> QED BY <2>1, <2>2, <2>3, <2>4, <2>5, Elsewhere
<1>2. CASE req[t].cand = c \/ req'[t].cand = c
  <2>1. \A u \in Requests \ {t} : req[u].cand # c /\ req'[u] = req[u]
    BY <1>2 DEF Base, TypeOK, Story, Alone, About
  <2>2. Alone(c)' /\ \A pcs : Busy(c, pcs)' <=> req'[t].cand = c /\ req'[t].pc \in pcs
    BY <2>1, TheOne
  <2>3. \A pcs : Busy(c, pcs) <=> req[t].cand = c /\ req[t].pc \in pcs
    BY <2>1 DEF Busy
  <2>4. Carries(t) /\ (req[t].cand = c => Follows(c, t)) /\ Stands(c)
    BY DEF Base, Story
  <2>5. req'[t].cand = c => Follows(c, t)'
    BY <1>2, <2>3, <2>4 DEF Base, TypeOK, Records, Follows, Carries, WithRecord, Stands, BeforeOffer, Mobilising, Drawn, Transitions, Stages
  <2>6. BeforeOffer(c)'
    BY <1>2, <2>3, <2>4 DEF Base, TypeOK, Follows, Carries, WithRecord, Stands, BeforeOffer, Mobilising, Drawn, Transitions, Stages
  <2>7. Mobilising(c)'
    BY <1>2, <2>2, <2>3, <2>4 DEF Base, TypeOK, Follows, Carries, WithRecord, Stands, BeforeOffer, Mobilising, Drawn, Transitions, Stages
  <2>8. Hired(c)'
    BY <1>2, <2>2, <2>3, <2>4 DEF Base, TypeOK, Follows, Carries, WithRecord, Stands, BeforeOffer, Mobilising, Hired, Drawn, Transitions, Stages
  <2>9. Over(c)'
    BY <1>2, <2>1, <2>2, <2>3, <2>4 DEF Base, TypeOK, Follows, Carries, WithRecord, Stands, BeforeOffer, Mobilising, Over, Drawn, Transitions, Stages
  <2> QED BY <2>1, <2>2, <2>5, <2>6, <2>7, <2>8, <2>9 DEF Story, Stands
<1> QED BY <1>1, <1>2

LEMMA StoryJoinedRead ==
  ASSUME Base, NEW t \in Requests, JoinedRead(t),
         NEW c \in Candidates \ disturbed', Story(c)
  PROVE  Story(c)'
<1> USE HiringAssumption DEF JoinedRead, Goto, Place, Finish, At, Idle
<1>1. CASE req[t].cand # c /\ req'[t].cand # c
  <2>1. Drawn(c)' = Drawn(c)
    BY <1>1 DEF Drawn, Base, TypeOK, Carries
  <2>2. \A e \in Drawn(c) : employment'[e] = employment[e]
           \/ (employment[e] # "none" /\ employment'[e] \in {"active", "terminated"})
    BY <1>1 DEF Drawn, Base, TypeOK, Carries, WithRecord
  <2>3. \A e \in Drawn(c) : onboarding'[e] = onboarding[e] \/ onboarding'[e] \in {"running", "cancelled"}
    BY <1>1 DEF Drawn, Base, TypeOK, Carries, WithRecord
  <2>4. /\ stage'[c] = stage[c] /\ points'[c] = points[c] /\ nationality'[c] = nationality[c]
        /\ \A e \in Drawn(c) : madeFor'[e] = c
    BY <1>1, <2>1 DEF Drawn, Base, TypeOK, Carries
  <2>5. \A u \in Requests : req[u].cand = c \/ req'[u].cand = c => req'[u] = req[u]
    BY <1>1 DEF Base, TypeOK
  <2> QED BY <2>1, <2>2, <2>3, <2>4, <2>5, Elsewhere
<1>2. CASE req[t].cand = c \/ req'[t].cand = c
  <2>1. \A u \in Requests \ {t} : req[u].cand # c /\ req'[u] = req[u]
    BY <1>2 DEF Base, TypeOK, Story, Alone, About
  <2>2. Alone(c)' /\ \A pcs : Busy(c, pcs)' <=> req'[t].cand = c /\ req'[t].pc \in pcs
    BY <2>1, TheOne
  <2>3. \A pcs : Busy(c, pcs) <=> req[t].cand = c /\ req[t].pc \in pcs
    BY <2>1 DEF Busy
  <2>4. Carries(t) /\ (req[t].cand = c => Follows(c, t)) /\ Stands(c)
    BY DEF Base, Story
  <2>5. req'[t].cand = c => Follows(c, t)'
    BY <1>2, <2>3, <2>4 DEF Base, TypeOK, Records, Follows, Carries, WithRecord, Stands, BeforeOffer, Mobilising, Drawn, Transitions, Stages
  <2>6. BeforeOffer(c)'
    BY <1>2, <2>3, <2>4 DEF Base, TypeOK, Follows, Carries, WithRecord, Stands, BeforeOffer, Mobilising, Drawn, Transitions, Stages
  <2>7. Mobilising(c)'
    BY <1>2, <2>2, <2>3, <2>4 DEF Base, TypeOK, Follows, Carries, WithRecord, Stands, BeforeOffer, Mobilising, Drawn, Transitions, Stages
  <2>8. Hired(c)'
    BY <1>2, <2>2, <2>3, <2>4 DEF Base, TypeOK, Follows, Carries, WithRecord, Stands, BeforeOffer, Mobilising, Hired, Drawn, Transitions, Stages
  <2>9. Over(c)'
    BY <1>2, <2>1, <2>2, <2>3, <2>4 DEF Base, TypeOK, Follows, Carries, WithRecord, Stands, BeforeOffer, Mobilising, Over, Drawn, Transitions, Stages
  <2> QED BY <2>1, <2>2, <2>5, <2>6, <2>7, <2>8, <2>9 DEF Story, Stands
<1> QED BY <1>1, <1>2

LEMMA StoryJoinedWrite ==
  ASSUME Base, NEW t \in Requests, JoinedWrite(t),
         NEW c \in Candidates \ disturbed', Story(c)
  PROVE  Story(c)'
<1> USE HiringAssumption DEF JoinedWrite, Joins, Finish, At, Idle
<1>1. CASE req[t].cand # c /\ req'[t].cand # c
  <2>1. Drawn(c)' = Drawn(c)
    BY <1>1 DEF Drawn, Base, TypeOK, Carries
  <2>2. \A e \in Drawn(c) : employment'[e] = employment[e]
           \/ (employment[e] # "none" /\ employment'[e] \in {"active", "terminated"})
    BY <1>1 DEF Drawn, Base, TypeOK, Carries, WithRecord
  <2>3. \A e \in Drawn(c) : onboarding'[e] = onboarding[e] \/ onboarding'[e] \in {"running", "cancelled"}
    BY <1>1 DEF Drawn, Base, TypeOK, Carries, WithRecord
  <2>4. /\ stage'[c] = stage[c] /\ points'[c] = points[c] /\ nationality'[c] = nationality[c]
        /\ \A e \in Drawn(c) : madeFor'[e] = c
    BY <1>1, <2>1 DEF Drawn, Base, TypeOK, Carries
  <2>5. \A u \in Requests : req[u].cand = c \/ req'[u].cand = c => req'[u] = req[u]
    BY <1>1 DEF Base, TypeOK
  <2> QED BY <2>1, <2>2, <2>3, <2>4, <2>5, Elsewhere
<1>2. CASE req[t].cand = c \/ req'[t].cand = c
  <2>1. \A u \in Requests \ {t} : req[u].cand # c /\ req'[u] = req[u]
    BY <1>2 DEF Base, TypeOK, Story, Alone, About
  <2>2. Alone(c)' /\ \A pcs : Busy(c, pcs)' <=> req'[t].cand = c /\ req'[t].pc \in pcs
    BY <2>1, TheOne
  <2>3. \A pcs : Busy(c, pcs) <=> req[t].cand = c /\ req[t].pc \in pcs
    BY <2>1 DEF Busy
  <2>4. Carries(t) /\ (req[t].cand = c => Follows(c, t)) /\ Stands(c)
    BY DEF Base, Story
  <2>5. req'[t].cand = c => Follows(c, t)'
    BY <1>2, <2>3, <2>4 DEF Base, TypeOK, Records, Follows, Carries, WithRecord, Stands, BeforeOffer, Mobilising, Drawn, Transitions, Stages
  <2>6. BeforeOffer(c)'
    BY <1>2, <2>3, <2>4 DEF Base, TypeOK, Follows, Carries, WithRecord, Stands, BeforeOffer, Mobilising, Drawn, Transitions, Stages
  <2>7. Mobilising(c)'
    BY <1>2, <2>2, <2>3, <2>4 DEF Base, TypeOK, Follows, Carries, WithRecord, Stands, BeforeOffer, Mobilising, Drawn, Transitions, Stages
  <2>8. Hired(c)'
    BY <1>2, <2>2, <2>3, <2>4 DEF Base, TypeOK, Follows, Carries, WithRecord, Stands, BeforeOffer, Mobilising, Hired, Drawn, Transitions, Stages
  <2>9. Over(c)'
    BY <1>2, <2>1, <2>2, <2>3, <2>4 DEF Base, TypeOK, Follows, Carries, WithRecord, Stands, BeforeOffer, Mobilising, Over, Drawn, Transitions, Stages
  <2> QED BY <2>1, <2>2, <2>5, <2>6, <2>7, <2>8, <2>9 DEF Story, Stands
<1> QED BY <1>1, <1>2

LEMMA StoryHireCreate ==
  ASSUME Base, NEW t \in Requests, HireCreate(t),
         NEW c \in Candidates \ disturbed', Story(c)
  PROVE  Story(c)'
<1> USE HiringAssumption DEF HireCreate, Finish, Fresh, At, Idle
<1>1. CASE req[t].cand # c /\ req'[t].cand # c
  <2>1. Drawn(c)' = Drawn(c)
    BY <1>1 DEF Drawn, Base, TypeOK, Carries
  <2>2. \A e \in Drawn(c) : employment'[e] = employment[e]
           \/ (employment[e] # "none" /\ employment'[e] \in {"active", "terminated"})
    BY <1>1 DEF Drawn, Base, TypeOK, Carries, WithRecord
  <2>3. \A e \in Drawn(c) : onboarding'[e] = onboarding[e] \/ onboarding'[e] \in {"running", "cancelled"}
    BY <1>1 DEF Drawn, Base, TypeOK, Carries, WithRecord
  <2>4. /\ stage'[c] = stage[c] /\ points'[c] = points[c] /\ nationality'[c] = nationality[c]
        /\ \A e \in Drawn(c) : madeFor'[e] = c
    BY <1>1, <2>1 DEF Drawn, Base, TypeOK, Carries
  <2>5. \A u \in Requests : req[u].cand = c \/ req'[u].cand = c => req'[u] = req[u]
    BY <1>1 DEF Base, TypeOK
  <2> QED BY <2>1, <2>2, <2>3, <2>4, <2>5, Elsewhere
<1>2. CASE req[t].cand = c \/ req'[t].cand = c
  <2>1. \A u \in Requests \ {t} : req[u].cand # c /\ req'[u] = req[u]
    BY <1>2 DEF Base, TypeOK, Story, Alone, About
  <2>2. Alone(c)' /\ \A pcs : Busy(c, pcs)' <=> req'[t].cand = c /\ req'[t].pc \in pcs
    BY <2>1, TheOne
  <2>3. \A pcs : Busy(c, pcs) <=> req[t].cand = c /\ req[t].pc \in pcs
    BY <2>1 DEF Busy
  <2>4. Carries(t) /\ (req[t].cand = c => Follows(c, t)) /\ Stands(c)
    BY DEF Base, Story
  <2>5. req'[t].cand = c => Follows(c, t)'
    BY <1>2, <2>3, <2>4 DEF Base, TypeOK, Records, Follows, Carries, WithRecord, Stands, BeforeOffer, Mobilising, Drawn, Transitions, Stages
  <2>6. BeforeOffer(c)'
    BY <1>2, <2>3, <2>4 DEF Base, TypeOK, Follows, Carries, WithRecord, Stands, BeforeOffer, Mobilising, Drawn, Transitions, Stages
  <2>7. Mobilising(c)'
    BY <1>2, <2>2, <2>3, <2>4 DEF Base, TypeOK, Follows, Carries, WithRecord, Stands, BeforeOffer, Mobilising, Drawn, Transitions, Stages
  <2>8. Hired(c)'
    BY <1>2, <2>2, <2>3, <2>4 DEF Base, TypeOK, Follows, Carries, WithRecord, Stands, BeforeOffer, Mobilising, Hired, Drawn, Transitions, Stages
  <2>9. Over(c)'
    BY <1>2, <2>1, <2>2, <2>3, <2>4 DEF Base, TypeOK, Follows, Carries, WithRecord, Stands, BeforeOffer, Mobilising, Over, Drawn, Transitions, Stages
  <2> QED BY <2>1, <2>2, <2>5, <2>6, <2>7, <2>8, <2>9 DEF Story, Stands
<1> QED BY <1>1, <1>2

LEMMA StoryMobiliseCreate ==
  ASSUME Base, NEW t \in Requests, MobiliseCreate(t),
         NEW c \in Candidates \ disturbed', Story(c)
  PROVE  Story(c)'
<1> USE HiringAssumption DEF MobiliseCreate, Goto, Place, At, Idle
<1>1. CASE req[t].cand # c /\ req'[t].cand # c
  <2>1. Drawn(c)' = Drawn(c)
    BY <1>1 DEF Drawn, Base, TypeOK, Carries
  <2>2. \A e \in Drawn(c) : employment'[e] = employment[e]
           \/ (employment[e] # "none" /\ employment'[e] \in {"active", "terminated"})
    BY <1>1 DEF Drawn, Base, TypeOK, Carries, WithRecord
  <2>3. \A e \in Drawn(c) : onboarding'[e] = onboarding[e] \/ onboarding'[e] \in {"running", "cancelled"}
    BY <1>1 DEF Drawn, Base, TypeOK, Carries, WithRecord
  <2>4. /\ stage'[c] = stage[c] /\ points'[c] = points[c] /\ nationality'[c] = nationality[c]
        /\ \A e \in Drawn(c) : madeFor'[e] = c
    BY <1>1, <2>1 DEF Drawn, Base, TypeOK, Carries
  <2>5. \A u \in Requests : req[u].cand = c \/ req'[u].cand = c => req'[u] = req[u]
    BY <1>1 DEF Base, TypeOK
  <2> QED BY <2>1, <2>2, <2>3, <2>4, <2>5, Elsewhere
<1>2. CASE req[t].cand = c \/ req'[t].cand = c
  <2>1. \A u \in Requests \ {t} : req[u].cand # c /\ req'[u] = req[u]
    BY <1>2 DEF Base, TypeOK, Story, Alone, About
  <2>2. Alone(c)' /\ \A pcs : Busy(c, pcs)' <=> req'[t].cand = c /\ req'[t].pc \in pcs
    BY <2>1, TheOne
  <2>3. \A pcs : Busy(c, pcs) <=> req[t].cand = c /\ req[t].pc \in pcs
    BY <2>1 DEF Busy
  <2>4. Carries(t) /\ (req[t].cand = c => Follows(c, t)) /\ Stands(c)
    BY DEF Base, Story
  <2>5. req'[t].cand = c => Follows(c, t)'
    BY <1>2, <2>3, <2>4 DEF Base, TypeOK, Records, Follows, Carries, WithRecord, Stands, BeforeOffer, Mobilising, Drawn, Transitions, Stages
  <2>6. BeforeOffer(c)'
    BY <1>2, <2>3, <2>4 DEF Base, TypeOK, Follows, Carries, WithRecord, Stands, BeforeOffer, Mobilising, Drawn, Transitions, Stages
  <2>7. Mobilising(c)'
    BY <1>2, <2>2, <2>3, <2>4 DEF Base, TypeOK, Follows, Carries, WithRecord, Stands, BeforeOffer, Mobilising, Drawn, Transitions, Stages
  <2>8. Hired(c)'
    BY <1>2, <2>2, <2>3, <2>4 DEF Base, TypeOK, Follows, Carries, WithRecord, Stands, BeforeOffer, Mobilising, Hired, Drawn, Transitions, Stages
  <2>9. Over(c)'
    BY <1>2, <2>1, <2>2, <2>3, <2>4 DEF Base, TypeOK, Follows, Carries, WithRecord, Stands, BeforeOffer, Mobilising, Over, Drawn, Transitions, Stages
  <2> QED BY <2>1, <2>2, <2>5, <2>6, <2>7, <2>8, <2>9 DEF Story, Stands
<1> QED BY <1>1, <1>2

LEMMA StoryEndedRead ==
  ASSUME Base, NEW t \in Requests, EndedRead(t),
         NEW c \in Candidates \ disturbed', Story(c)
  PROVE  Story(c)'
<1> USE HiringAssumption DEF EndedRead, Place, Finish, At, Idle
<1>1. CASE req[t].cand # c /\ req'[t].cand # c
  <2>1. Drawn(c)' = Drawn(c)
    BY <1>1 DEF Drawn, Base, TypeOK, Carries
  <2>2. \A e \in Drawn(c) : employment'[e] = employment[e]
           \/ (employment[e] # "none" /\ employment'[e] \in {"active", "terminated"})
    BY <1>1 DEF Drawn, Base, TypeOK, Carries, WithRecord
  <2>3. \A e \in Drawn(c) : onboarding'[e] = onboarding[e] \/ onboarding'[e] \in {"running", "cancelled"}
    BY <1>1 DEF Drawn, Base, TypeOK, Carries, WithRecord
  <2>4. /\ stage'[c] = stage[c] /\ points'[c] = points[c] /\ nationality'[c] = nationality[c]
        /\ \A e \in Drawn(c) : madeFor'[e] = c
    BY <1>1, <2>1 DEF Drawn, Base, TypeOK, Carries
  <2>5. \A u \in Requests : req[u].cand = c \/ req'[u].cand = c => req'[u] = req[u]
    BY <1>1 DEF Base, TypeOK
  <2> QED BY <2>1, <2>2, <2>3, <2>4, <2>5, Elsewhere
<1>2. CASE req[t].cand = c \/ req'[t].cand = c
  <2>1. \A u \in Requests \ {t} : req[u].cand # c /\ req'[u] = req[u]
    BY <1>2 DEF Base, TypeOK, Story, Alone, About
  <2>2. Alone(c)' /\ \A pcs : Busy(c, pcs)' <=> req'[t].cand = c /\ req'[t].pc \in pcs
    BY <2>1, TheOne
  <2>3. \A pcs : Busy(c, pcs) <=> req[t].cand = c /\ req[t].pc \in pcs
    BY <2>1 DEF Busy
  <2>4. Carries(t) /\ (req[t].cand = c => Follows(c, t)) /\ Stands(c)
    BY DEF Base, Story
  <2>5. req'[t].cand = c => Follows(c, t)'
    BY <1>2, <2>3, <2>4 DEF Base, TypeOK, Records, Follows, Carries, WithRecord, Stands, BeforeOffer, Mobilising, Drawn, Transitions, Stages
  <2>6. BeforeOffer(c)'
    BY <1>2, <2>3, <2>4 DEF Base, TypeOK, Follows, Carries, WithRecord, Stands, BeforeOffer, Mobilising, Drawn, Transitions, Stages
  <2>7. Mobilising(c)'
    BY <1>2, <2>2, <2>3, <2>4 DEF Base, TypeOK, Follows, Carries, WithRecord, Stands, BeforeOffer, Mobilising, Drawn, Transitions, Stages
  <2>8. Hired(c)'
    BY <1>2, <2>2, <2>3, <2>4 DEF Base, TypeOK, Follows, Carries, WithRecord, Stands, BeforeOffer, Mobilising, Hired, Drawn, Transitions, Stages
  <2>9. Over(c)'
    BY <1>2, <2>1, <2>2, <2>3, <2>4 DEF Base, TypeOK, Follows, Carries, WithRecord, Stands, BeforeOffer, Mobilising, Over, Drawn, Transitions, Stages
  <2> QED BY <2>1, <2>2, <2>5, <2>6, <2>7, <2>8, <2>9 DEF Story, Stands
<1> QED BY <1>1, <1>2

LEMMA StoryTerminate ==
  ASSUME Base, NEW t \in Requests, NEW i \in Employees, Terminate(t, i),
         NEW c \in Candidates \ disturbed', Story(c)
  PROVE  Story(c)'
<1> USE HiringAssumption DEF Terminate, Begin, Place, Touch, At, Idle
<1>1. CASE req[t].cand # c /\ req'[t].cand # c
  <2>1. Drawn(c)' = Drawn(c)
    BY <1>1 DEF Drawn, Base, TypeOK, Carries
  <2>2. \A e \in Drawn(c) : employment'[e] = employment[e]
           \/ (employment[e] # "none" /\ employment'[e] \in {"active", "terminated"})
    BY <1>1 DEF Drawn, Base, TypeOK, Carries, WithRecord
  <2>3. \A e \in Drawn(c) : onboarding'[e] = onboarding[e] \/ onboarding'[e] \in {"running", "cancelled"}
    BY <1>1 DEF Drawn, Base, TypeOK, Carries, WithRecord
  <2>4. /\ stage'[c] = stage[c] /\ points'[c] = points[c] /\ nationality'[c] = nationality[c]
        /\ \A e \in Drawn(c) : madeFor'[e] = c
    BY <1>1, <2>1 DEF Drawn, Base, TypeOK, Carries
  <2>5. \A u \in Requests : req[u].cand = c \/ req'[u].cand = c => req'[u] = req[u]
    BY <1>1 DEF Base, TypeOK
  <2> QED BY <2>1, <2>2, <2>3, <2>4, <2>5, Elsewhere
<1>2. CASE req[t].cand = c \/ req'[t].cand = c
  <2>1. \A u \in Requests \ {t} : req[u].cand # c /\ req'[u] = req[u]
    BY <1>2 DEF Base, TypeOK, Story, Alone, About
  <2>2. Alone(c)' /\ \A pcs : Busy(c, pcs)' <=> req'[t].cand = c /\ req'[t].pc \in pcs
    BY <2>1, TheOne
  <2>3. \A pcs : Busy(c, pcs) <=> req[t].cand = c /\ req[t].pc \in pcs
    BY <2>1 DEF Busy
  <2>4. Carries(t) /\ (req[t].cand = c => Follows(c, t)) /\ Stands(c)
    BY DEF Base, Story
  <2>5. req'[t].cand = c => Follows(c, t)'
    BY <1>2, <2>3, <2>4 DEF Base, TypeOK, Records, Follows, Carries, WithRecord, Stands, BeforeOffer, Mobilising, Drawn, Transitions, Stages
  <2>6. BeforeOffer(c)'
    BY <1>2, <2>3, <2>4 DEF Base, TypeOK, Follows, Carries, WithRecord, Stands, BeforeOffer, Mobilising, Drawn, Transitions, Stages
  <2>7. Mobilising(c)'
    BY <1>2, <2>2, <2>3, <2>4 DEF Base, TypeOK, Follows, Carries, WithRecord, Stands, BeforeOffer, Mobilising, Drawn, Transitions, Stages
  <2>8. Hired(c)'
    BY <1>2, <2>2, <2>3, <2>4 DEF Base, TypeOK, Follows, Carries, WithRecord, Stands, BeforeOffer, Mobilising, Hired, Drawn, Transitions, Stages
  <2>9. Over(c)'
    BY <1>2, <2>1, <2>2, <2>3, <2>4 DEF Base, TypeOK, Follows, Carries, WithRecord, Stands, BeforeOffer, Mobilising, Over, Drawn, Transitions, Stages
  <2> QED BY <2>1, <2>2, <2>5, <2>6, <2>7, <2>8, <2>9 DEF Story, Stands
<1> QED BY <1>1, <1>2

LEMMA StoryReinstate ==
  ASSUME Base, NEW t \in Requests, NEW i \in Employees, Reinstate(t, i),
         NEW c \in Candidates \ disturbed', Story(c)
  PROVE  Story(c)'
<1> USE HiringAssumption DEF Reinstate, Begin, Place, Touch, At, Idle
<1>1. CASE req[t].cand # c /\ req'[t].cand # c
  <2>1. Drawn(c)' = Drawn(c)
    BY <1>1 DEF Drawn, Base, TypeOK, Carries
  <2>2. \A e \in Drawn(c) : employment'[e] = employment[e]
           \/ (employment[e] # "none" /\ employment'[e] \in {"active", "terminated"})
    BY <1>1 DEF Drawn, Base, TypeOK, Carries, WithRecord
  <2>3. \A e \in Drawn(c) : onboarding'[e] = onboarding[e] \/ onboarding'[e] \in {"running", "cancelled"}
    BY <1>1 DEF Drawn, Base, TypeOK, Carries, WithRecord
  <2>4. /\ stage'[c] = stage[c] /\ points'[c] = points[c] /\ nationality'[c] = nationality[c]
        /\ \A e \in Drawn(c) : madeFor'[e] = c
    BY <1>1, <2>1 DEF Drawn, Base, TypeOK, Carries
  <2>5. \A u \in Requests : req[u].cand = c \/ req'[u].cand = c => req'[u] = req[u]
    BY <1>1 DEF Base, TypeOK
  <2> QED BY <2>1, <2>2, <2>3, <2>4, <2>5, Elsewhere
<1>2. CASE req[t].cand = c \/ req'[t].cand = c
  <2>1. \A u \in Requests \ {t} : req[u].cand # c /\ req'[u] = req[u]
    BY <1>2 DEF Base, TypeOK, Story, Alone, About
  <2>2. Alone(c)' /\ \A pcs : Busy(c, pcs)' <=> req'[t].cand = c /\ req'[t].pc \in pcs
    BY <2>1, TheOne
  <2>3. \A pcs : Busy(c, pcs) <=> req[t].cand = c /\ req[t].pc \in pcs
    BY <2>1 DEF Busy
  <2>4. Carries(t) /\ (req[t].cand = c => Follows(c, t)) /\ Stands(c)
    BY DEF Base, Story
  <2>5. req'[t].cand = c => Follows(c, t)'
    BY <1>2, <2>3, <2>4 DEF Base, TypeOK, Records, Follows, Carries, WithRecord, Stands, BeforeOffer, Mobilising, Drawn, Transitions, Stages
  <2>6. BeforeOffer(c)'
    BY <1>2, <2>3, <2>4 DEF Base, TypeOK, Follows, Carries, WithRecord, Stands, BeforeOffer, Mobilising, Drawn, Transitions, Stages
  <2>7. Mobilising(c)'
    BY <1>2, <2>2, <2>3, <2>4 DEF Base, TypeOK, Follows, Carries, WithRecord, Stands, BeforeOffer, Mobilising, Drawn, Transitions, Stages
  <2>8. Hired(c)'
    BY <1>2, <2>2, <2>3, <2>4 DEF Base, TypeOK, Follows, Carries, WithRecord, Stands, BeforeOffer, Mobilising, Hired, Drawn, Transitions, Stages
  <2>9. Over(c)'
    BY <1>2, <2>1, <2>2, <2>3, <2>4 DEF Base, TypeOK, Follows, Carries, WithRecord, Stands, BeforeOffer, Mobilising, Over, Drawn, Transitions, Stages
  <2> QED BY <2>1, <2>2, <2>5, <2>6, <2>7, <2>8, <2>9 DEF Story, Stands
<1> QED BY <1>1, <1>2

LEMMA StoryUpdateRead ==
  ASSUME Base, NEW t \in Requests, UpdateRead(t),
         NEW c \in Candidates \ disturbed', Story(c)
  PROVE  Story(c)'
<1> USE HiringAssumption DEF UpdateRead, Place, At, Idle
<1>1. CASE req[t].cand # c /\ req'[t].cand # c
  <2>1. Drawn(c)' = Drawn(c)
    BY <1>1 DEF Drawn, Base, TypeOK, Carries
  <2>2. \A e \in Drawn(c) : employment'[e] = employment[e]
           \/ (employment[e] # "none" /\ employment'[e] \in {"active", "terminated"})
    BY <1>1 DEF Drawn, Base, TypeOK, Carries, WithRecord
  <2>3. \A e \in Drawn(c) : onboarding'[e] = onboarding[e] \/ onboarding'[e] \in {"running", "cancelled"}
    BY <1>1 DEF Drawn, Base, TypeOK, Carries, WithRecord
  <2>4. /\ stage'[c] = stage[c] /\ points'[c] = points[c] /\ nationality'[c] = nationality[c]
        /\ \A e \in Drawn(c) : madeFor'[e] = c
    BY <1>1, <2>1 DEF Drawn, Base, TypeOK, Carries
  <2>5. \A u \in Requests : req[u].cand = c \/ req'[u].cand = c => req'[u] = req[u]
    BY <1>1 DEF Base, TypeOK
  <2> QED BY <2>1, <2>2, <2>3, <2>4, <2>5, Elsewhere
<1>2. CASE req[t].cand = c \/ req'[t].cand = c
  <2>1. \A u \in Requests \ {t} : req[u].cand # c /\ req'[u] = req[u]
    BY <1>2 DEF Base, TypeOK, Story, Alone, About
  <2>2. Alone(c)' /\ \A pcs : Busy(c, pcs)' <=> req'[t].cand = c /\ req'[t].pc \in pcs
    BY <2>1, TheOne
  <2>3. \A pcs : Busy(c, pcs) <=> req[t].cand = c /\ req[t].pc \in pcs
    BY <2>1 DEF Busy
  <2>4. Carries(t) /\ (req[t].cand = c => Follows(c, t)) /\ Stands(c)
    BY DEF Base, Story
  <2>5. req'[t].cand = c => Follows(c, t)'
    BY <1>2, <2>3, <2>4 DEF Base, TypeOK, Records, Follows, Carries, WithRecord, Stands, BeforeOffer, Mobilising, Drawn, Transitions, Stages
  <2>6. BeforeOffer(c)'
    BY <1>2, <2>3, <2>4 DEF Base, TypeOK, Follows, Carries, WithRecord, Stands, BeforeOffer, Mobilising, Drawn, Transitions, Stages
  <2>7. Mobilising(c)'
    BY <1>2, <2>2, <2>3, <2>4 DEF Base, TypeOK, Follows, Carries, WithRecord, Stands, BeforeOffer, Mobilising, Drawn, Transitions, Stages
  <2>8. Hired(c)'
    BY <1>2, <2>2, <2>3, <2>4 DEF Base, TypeOK, Follows, Carries, WithRecord, Stands, BeforeOffer, Mobilising, Hired, Drawn, Transitions, Stages
  <2>9. Over(c)'
    BY <1>2, <2>1, <2>2, <2>3, <2>4 DEF Base, TypeOK, Follows, Carries, WithRecord, Stands, BeforeOffer, Mobilising, Over, Drawn, Transitions, Stages
  <2> QED BY <2>1, <2>2, <2>5, <2>6, <2>7, <2>8, <2>9 DEF Story, Stands
<1> QED BY <1>1, <1>2

LEMMA StoryUpdateWrite ==
  ASSUME Base, NEW t \in Requests, UpdateWrite(t),
         NEW c \in Candidates \ disturbed', Story(c)
  PROVE  Story(c)'
<1> USE HiringAssumption DEF UpdateWrite, Goto, Place, Finish, At, Idle
<1>1. CASE req[t].cand # c /\ req'[t].cand # c
  <2>1. Drawn(c)' = Drawn(c)
    BY <1>1 DEF Drawn, Base, TypeOK, Carries
  <2>2. \A e \in Drawn(c) : employment'[e] = employment[e]
           \/ (employment[e] # "none" /\ employment'[e] \in {"active", "terminated"})
    BY <1>1 DEF Drawn, Base, TypeOK, Carries, WithRecord
  <2>3. \A e \in Drawn(c) : onboarding'[e] = onboarding[e] \/ onboarding'[e] \in {"running", "cancelled"}
    BY <1>1 DEF Drawn, Base, TypeOK, Carries, WithRecord
  <2>4. /\ stage'[c] = stage[c] /\ points'[c] = points[c] /\ nationality'[c] = nationality[c]
        /\ \A e \in Drawn(c) : madeFor'[e] = c
    BY <1>1, <2>1 DEF Drawn, Base, TypeOK, Carries
  <2>5. \A u \in Requests : req[u].cand = c \/ req'[u].cand = c => req'[u] = req[u]
    BY <1>1 DEF Base, TypeOK
  <2> QED BY <2>1, <2>2, <2>3, <2>4, <2>5, Elsewhere
<1>2. CASE req[t].cand = c \/ req'[t].cand = c
  <2>1. \A u \in Requests \ {t} : req[u].cand # c /\ req'[u] = req[u]
    BY <1>2 DEF Base, TypeOK, Story, Alone, About
  <2>2. Alone(c)' /\ \A pcs : Busy(c, pcs)' <=> req'[t].cand = c /\ req'[t].pc \in pcs
    BY <2>1, TheOne
  <2>3. \A pcs : Busy(c, pcs) <=> req[t].cand = c /\ req[t].pc \in pcs
    BY <2>1 DEF Busy
  <2>4. Carries(t) /\ (req[t].cand = c => Follows(c, t)) /\ Stands(c)
    BY DEF Base, Story
  <2>5. req'[t].cand = c => Follows(c, t)'
    BY <1>2, <2>3, <2>4 DEF Base, TypeOK, Records, Follows, Carries, WithRecord, Stands, BeforeOffer, Mobilising, Drawn, Transitions, Stages
  <2>6. BeforeOffer(c)'
    BY <1>2, <2>3, <2>4 DEF Base, TypeOK, Follows, Carries, WithRecord, Stands, BeforeOffer, Mobilising, Drawn, Transitions, Stages
  <2>7. Mobilising(c)'
    BY <1>2, <2>2, <2>3, <2>4 DEF Base, TypeOK, Follows, Carries, WithRecord, Stands, BeforeOffer, Mobilising, Drawn, Transitions, Stages
  <2>8. Hired(c)'
    BY <1>2, <2>2, <2>3, <2>4 DEF Base, TypeOK, Follows, Carries, WithRecord, Stands, BeforeOffer, Mobilising, Hired, Drawn, Transitions, Stages
  <2>9. Over(c)'
    BY <1>2, <2>1, <2>2, <2>3, <2>4 DEF Base, TypeOK, Follows, Carries, WithRecord, Stands, BeforeOffer, Mobilising, Over, Drawn, Transitions, Stages
  <2> QED BY <2>1, <2>2, <2>5, <2>6, <2>7, <2>8, <2>9 DEF Story, Stands
<1> QED BY <1>1, <1>2

LEMMA StoryStartRead ==
  ASSUME Base, NEW t \in Requests, StartRead(t),
         NEW c \in Candidates \ disturbed', Story(c)
  PROVE  Story(c)'
<1> USE HiringAssumption DEF StartRead, Goto, Place, Finish, At, Idle
<1>1. CASE req[t].cand # c /\ req'[t].cand # c
  <2>1. Drawn(c)' = Drawn(c)
    BY <1>1 DEF Drawn, Base, TypeOK, Carries
  <2>2. \A e \in Drawn(c) : employment'[e] = employment[e]
           \/ (employment[e] # "none" /\ employment'[e] \in {"active", "terminated"})
    BY <1>1 DEF Drawn, Base, TypeOK, Carries, WithRecord
  <2>3. \A e \in Drawn(c) : onboarding'[e] = onboarding[e] \/ onboarding'[e] \in {"running", "cancelled"}
    BY <1>1 DEF Drawn, Base, TypeOK, Carries, WithRecord
  <2>4. /\ stage'[c] = stage[c] /\ points'[c] = points[c] /\ nationality'[c] = nationality[c]
        /\ \A e \in Drawn(c) : madeFor'[e] = c
    BY <1>1, <2>1 DEF Drawn, Base, TypeOK, Carries
  <2>5. \A u \in Requests : req[u].cand = c \/ req'[u].cand = c => req'[u] = req[u]
    BY <1>1 DEF Base, TypeOK
  <2> QED BY <2>1, <2>2, <2>3, <2>4, <2>5, Elsewhere
<1>2. CASE req[t].cand = c \/ req'[t].cand = c
  <2>1. \A u \in Requests \ {t} : req[u].cand # c /\ req'[u] = req[u]
    BY <1>2 DEF Base, TypeOK, Story, Alone, About
  <2>2. Alone(c)' /\ \A pcs : Busy(c, pcs)' <=> req'[t].cand = c /\ req'[t].pc \in pcs
    BY <2>1, TheOne
  <2>3. \A pcs : Busy(c, pcs) <=> req[t].cand = c /\ req[t].pc \in pcs
    BY <2>1 DEF Busy
  <2>4. Carries(t) /\ (req[t].cand = c => Follows(c, t)) /\ Stands(c)
    BY DEF Base, Story
  <2>5. req'[t].cand = c => Follows(c, t)'
    BY <1>2, <2>3, <2>4 DEF Base, TypeOK, Records, Follows, Carries, WithRecord, Stands, BeforeOffer, Mobilising, Drawn, Transitions, Stages
  <2>6. BeforeOffer(c)'
    BY <1>2, <2>3, <2>4 DEF Base, TypeOK, Follows, Carries, WithRecord, Stands, BeforeOffer, Mobilising, Drawn, Transitions, Stages
  <2>7. Mobilising(c)'
    BY <1>2, <2>2, <2>3, <2>4 DEF Base, TypeOK, Follows, Carries, WithRecord, Stands, BeforeOffer, Mobilising, Drawn, Transitions, Stages
  <2>8. Hired(c)'
    BY <1>2, <2>2, <2>3, <2>4 DEF Base, TypeOK, Follows, Carries, WithRecord, Stands, BeforeOffer, Mobilising, Hired, Drawn, Transitions, Stages
  <2>9. Over(c)'
    BY <1>2, <2>1, <2>2, <2>3, <2>4 DEF Base, TypeOK, Follows, Carries, WithRecord, Stands, BeforeOffer, Mobilising, Over, Drawn, Transitions, Stages
  <2> QED BY <2>1, <2>2, <2>5, <2>6, <2>7, <2>8, <2>9 DEF Story, Stands
<1> QED BY <1>1, <1>2

LEMMA StoryStartByHand ==
  ASSUME Base, NEW t \in Requests, NEW i \in Employees, StartByHand(t, i),
         NEW c \in Candidates \ disturbed', Story(c)
  PROVE  Story(c)'
<1> USE HiringAssumption DEF StartByHand, Begin, Place, Touch, At, Idle
<1>1. CASE req[t].cand # c /\ req'[t].cand # c
  <2>1. Drawn(c)' = Drawn(c)
    BY <1>1 DEF Drawn, Base, TypeOK, Carries
  <2>2. \A e \in Drawn(c) : employment'[e] = employment[e]
           \/ (employment[e] # "none" /\ employment'[e] \in {"active", "terminated"})
    BY <1>1 DEF Drawn, Base, TypeOK, Carries, WithRecord
  <2>3. \A e \in Drawn(c) : onboarding'[e] = onboarding[e] \/ onboarding'[e] \in {"running", "cancelled"}
    BY <1>1 DEF Drawn, Base, TypeOK, Carries, WithRecord
  <2>4. /\ stage'[c] = stage[c] /\ points'[c] = points[c] /\ nationality'[c] = nationality[c]
        /\ \A e \in Drawn(c) : madeFor'[e] = c
    BY <1>1, <2>1 DEF Drawn, Base, TypeOK, Carries
  <2>5. \A u \in Requests : req[u].cand = c \/ req'[u].cand = c => req'[u] = req[u]
    BY <1>1 DEF Base, TypeOK
  <2> QED BY <2>1, <2>2, <2>3, <2>4, <2>5, Elsewhere
<1>2. CASE req[t].cand = c \/ req'[t].cand = c
  <2>1. \A u \in Requests \ {t} : req[u].cand # c /\ req'[u] = req[u]
    BY <1>2 DEF Base, TypeOK, Story, Alone, About
  <2>2. Alone(c)' /\ \A pcs : Busy(c, pcs)' <=> req'[t].cand = c /\ req'[t].pc \in pcs
    BY <2>1, TheOne
  <2>3. \A pcs : Busy(c, pcs) <=> req[t].cand = c /\ req[t].pc \in pcs
    BY <2>1 DEF Busy
  <2>4. Carries(t) /\ (req[t].cand = c => Follows(c, t)) /\ Stands(c)
    BY DEF Base, Story
  <2>5. req'[t].cand = c => Follows(c, t)'
    BY <1>2, <2>3, <2>4 DEF Base, TypeOK, Records, Follows, Carries, WithRecord, Stands, BeforeOffer, Mobilising, Drawn, Transitions, Stages
  <2>6. BeforeOffer(c)'
    BY <1>2, <2>3, <2>4 DEF Base, TypeOK, Follows, Carries, WithRecord, Stands, BeforeOffer, Mobilising, Drawn, Transitions, Stages
  <2>7. Mobilising(c)'
    BY <1>2, <2>2, <2>3, <2>4 DEF Base, TypeOK, Follows, Carries, WithRecord, Stands, BeforeOffer, Mobilising, Drawn, Transitions, Stages
  <2>8. Hired(c)'
    BY <1>2, <2>2, <2>3, <2>4 DEF Base, TypeOK, Follows, Carries, WithRecord, Stands, BeforeOffer, Mobilising, Hired, Drawn, Transitions, Stages
  <2>9. Over(c)'
    BY <1>2, <2>1, <2>2, <2>3, <2>4 DEF Base, TypeOK, Follows, Carries, WithRecord, Stands, BeforeOffer, Mobilising, Over, Drawn, Transitions, Stages
  <2> QED BY <2>1, <2>2, <2>5, <2>6, <2>7, <2>8, <2>9 DEF Story, Stands
<1> QED BY <1>1, <1>2

LEMMA StoryStartInsert ==
  ASSUME Base, NEW t \in Requests, StartInsert(t),
         NEW c \in Candidates \ disturbed', Story(c)
  PROVE  Story(c)'
<1> USE HiringAssumption DEF StartInsert, Finish, At, Idle
<1>1. CASE req[t].cand # c /\ req'[t].cand # c
  <2>1. Drawn(c)' = Drawn(c)
    BY <1>1 DEF Drawn, Base, TypeOK, Carries
  <2>2. \A e \in Drawn(c) : employment'[e] = employment[e]
           \/ (employment[e] # "none" /\ employment'[e] \in {"active", "terminated"})
    BY <1>1 DEF Drawn, Base, TypeOK, Carries, WithRecord
  <2>3. \A e \in Drawn(c) : onboarding'[e] = onboarding[e] \/ onboarding'[e] \in {"running", "cancelled"}
    BY <1>1 DEF Drawn, Base, TypeOK, Carries, WithRecord
  <2>4. /\ stage'[c] = stage[c] /\ points'[c] = points[c] /\ nationality'[c] = nationality[c]
        /\ \A e \in Drawn(c) : madeFor'[e] = c
    BY <1>1, <2>1 DEF Drawn, Base, TypeOK, Carries
  <2>5. \A u \in Requests : req[u].cand = c \/ req'[u].cand = c => req'[u] = req[u]
    BY <1>1 DEF Base, TypeOK
  <2> QED BY <2>1, <2>2, <2>3, <2>4, <2>5, Elsewhere
<1>2. CASE req[t].cand = c \/ req'[t].cand = c
  <2>1. \A u \in Requests \ {t} : req[u].cand # c /\ req'[u] = req[u]
    BY <1>2 DEF Base, TypeOK, Story, Alone, About
  <2>2. Alone(c)' /\ \A pcs : Busy(c, pcs)' <=> req'[t].cand = c /\ req'[t].pc \in pcs
    BY <2>1, TheOne
  <2>3. \A pcs : Busy(c, pcs) <=> req[t].cand = c /\ req[t].pc \in pcs
    BY <2>1 DEF Busy
  <2>4. Carries(t) /\ (req[t].cand = c => Follows(c, t)) /\ Stands(c)
    BY DEF Base, Story
  <2>5. req'[t].cand = c => Follows(c, t)'
    BY <1>2, <2>3, <2>4 DEF Base, TypeOK, Records, Follows, Carries, WithRecord, Stands, BeforeOffer, Mobilising, Drawn, Transitions, Stages
  <2>6. BeforeOffer(c)'
    BY <1>2, <2>3, <2>4 DEF Base, TypeOK, Follows, Carries, WithRecord, Stands, BeforeOffer, Mobilising, Drawn, Transitions, Stages
  <2>7. Mobilising(c)'
    BY <1>2, <2>2, <2>3, <2>4 DEF Base, TypeOK, Follows, Carries, WithRecord, Stands, BeforeOffer, Mobilising, Drawn, Transitions, Stages
  <2>8. Hired(c)'
    BY <1>2, <2>2, <2>3, <2>4 DEF Base, TypeOK, Follows, Carries, WithRecord, Stands, BeforeOffer, Mobilising, Hired, Drawn, Transitions, Stages
  <2>9. Over(c)'
    BY <1>2, <2>1, <2>2, <2>3, <2>4 DEF Base, TypeOK, Follows, Carries, WithRecord, Stands, BeforeOffer, Mobilising, Over, Drawn, Transitions, Stages
  <2> QED BY <2>1, <2>2, <2>5, <2>6, <2>7, <2>8, <2>9 DEF Story, Stands
<1> QED BY <1>1, <1>2

LEMMA StoryComplete ==
  ASSUME Base, NEW t \in Requests, NEW i \in Employees, Complete(t, i),
         NEW c \in Candidates \ disturbed', Story(c)
  PROVE  Story(c)'
<1> USE HiringAssumption DEF Complete, Begin, Place, Touch, At, Idle
<1>1. CASE req[t].cand # c /\ req'[t].cand # c
  <2>1. Drawn(c)' = Drawn(c)
    BY <1>1 DEF Drawn, Base, TypeOK, Carries
  <2>2. \A e \in Drawn(c) : employment'[e] = employment[e]
           \/ (employment[e] # "none" /\ employment'[e] \in {"active", "terminated"})
    BY <1>1 DEF Drawn, Base, TypeOK, Carries, WithRecord
  <2>3. \A e \in Drawn(c) : onboarding'[e] = onboarding[e] \/ onboarding'[e] \in {"running", "cancelled"}
    BY <1>1 DEF Drawn, Base, TypeOK, Carries, WithRecord
  <2>4. /\ stage'[c] = stage[c] /\ points'[c] = points[c] /\ nationality'[c] = nationality[c]
        /\ \A e \in Drawn(c) : madeFor'[e] = c
    BY <1>1, <2>1 DEF Drawn, Base, TypeOK, Carries
  <2>5. \A u \in Requests : req[u].cand = c \/ req'[u].cand = c => req'[u] = req[u]
    BY <1>1 DEF Base, TypeOK
  <2> QED BY <2>1, <2>2, <2>3, <2>4, <2>5, Elsewhere
<1>2. CASE req[t].cand = c \/ req'[t].cand = c
  <2>1. \A u \in Requests \ {t} : req[u].cand # c /\ req'[u] = req[u]
    BY <1>2 DEF Base, TypeOK, Story, Alone, About
  <2>2. Alone(c)' /\ \A pcs : Busy(c, pcs)' <=> req'[t].cand = c /\ req'[t].pc \in pcs
    BY <2>1, TheOne
  <2>3. \A pcs : Busy(c, pcs) <=> req[t].cand = c /\ req[t].pc \in pcs
    BY <2>1 DEF Busy
  <2>4. Carries(t) /\ (req[t].cand = c => Follows(c, t)) /\ Stands(c)
    BY DEF Base, Story
  <2>5. req'[t].cand = c => Follows(c, t)'
    BY <1>2, <2>3, <2>4 DEF Base, TypeOK, Records, Follows, Carries, WithRecord, Stands, BeforeOffer, Mobilising, Drawn, Transitions, Stages
  <2>6. BeforeOffer(c)'
    BY <1>2, <2>3, <2>4 DEF Base, TypeOK, Follows, Carries, WithRecord, Stands, BeforeOffer, Mobilising, Drawn, Transitions, Stages
  <2>7. Mobilising(c)'
    BY <1>2, <2>2, <2>3, <2>4 DEF Base, TypeOK, Follows, Carries, WithRecord, Stands, BeforeOffer, Mobilising, Drawn, Transitions, Stages
  <2>8. Hired(c)'
    BY <1>2, <2>2, <2>3, <2>4 DEF Base, TypeOK, Follows, Carries, WithRecord, Stands, BeforeOffer, Mobilising, Hired, Drawn, Transitions, Stages
  <2>9. Over(c)'
    BY <1>2, <2>1, <2>2, <2>3, <2>4 DEF Base, TypeOK, Follows, Carries, WithRecord, Stands, BeforeOffer, Mobilising, Over, Drawn, Transitions, Stages
  <2> QED BY <2>1, <2>2, <2>5, <2>6, <2>7, <2>8, <2>9 DEF Story, Stands
<1> QED BY <1>1, <1>2

LEMMA StoryEffectRead ==
  ASSUME Base, NEW t \in Requests, EffectRead(t),
         NEW c \in Candidates \ disturbed', Story(c)
  PROVE  Story(c)'
<1> USE HiringAssumption DEF EffectRead, Place, Finish, At, Idle
<1>1. CASE req[t].cand # c /\ req'[t].cand # c
  <2>1. Drawn(c)' = Drawn(c)
    BY <1>1 DEF Drawn, Base, TypeOK, Carries
  <2>2. \A e \in Drawn(c) : employment'[e] = employment[e]
           \/ (employment[e] # "none" /\ employment'[e] \in {"active", "terminated"})
    BY <1>1 DEF Drawn, Base, TypeOK, Carries, WithRecord
  <2>3. \A e \in Drawn(c) : onboarding'[e] = onboarding[e] \/ onboarding'[e] \in {"running", "cancelled"}
    BY <1>1 DEF Drawn, Base, TypeOK, Carries, WithRecord
  <2>4. /\ stage'[c] = stage[c] /\ points'[c] = points[c] /\ nationality'[c] = nationality[c]
        /\ \A e \in Drawn(c) : madeFor'[e] = c
    BY <1>1, <2>1 DEF Drawn, Base, TypeOK, Carries
  <2>5. \A u \in Requests : req[u].cand = c \/ req'[u].cand = c => req'[u] = req[u]
    BY <1>1 DEF Base, TypeOK
  <2> QED BY <2>1, <2>2, <2>3, <2>4, <2>5, Elsewhere
<1>2. CASE req[t].cand = c \/ req'[t].cand = c
  <2>1. \A u \in Requests \ {t} : req[u].cand # c /\ req'[u] = req[u]
    BY <1>2 DEF Base, TypeOK, Story, Alone, About
  <2>2. Alone(c)' /\ \A pcs : Busy(c, pcs)' <=> req'[t].cand = c /\ req'[t].pc \in pcs
    BY <2>1, TheOne
  <2>3. \A pcs : Busy(c, pcs) <=> req[t].cand = c /\ req[t].pc \in pcs
    BY <2>1 DEF Busy
  <2>4. Carries(t) /\ (req[t].cand = c => Follows(c, t)) /\ Stands(c)
    BY DEF Base, Story
  <2>5. req'[t].cand = c => Follows(c, t)'
    BY <1>2, <2>3, <2>4 DEF Base, TypeOK, Records, Follows, Carries, WithRecord, Stands, BeforeOffer, Mobilising, Drawn, Transitions, Stages
  <2>6. BeforeOffer(c)'
    BY <1>2, <2>3, <2>4 DEF Base, TypeOK, Follows, Carries, WithRecord, Stands, BeforeOffer, Mobilising, Drawn, Transitions, Stages
  <2>7. Mobilising(c)'
    BY <1>2, <2>2, <2>3, <2>4 DEF Base, TypeOK, Follows, Carries, WithRecord, Stands, BeforeOffer, Mobilising, Drawn, Transitions, Stages
  <2>8. Hired(c)'
    BY <1>2, <2>2, <2>3, <2>4 DEF Base, TypeOK, Follows, Carries, WithRecord, Stands, BeforeOffer, Mobilising, Hired, Drawn, Transitions, Stages
  <2>9. Over(c)'
    BY <1>2, <2>1, <2>2, <2>3, <2>4 DEF Base, TypeOK, Follows, Carries, WithRecord, Stands, BeforeOffer, Mobilising, Over, Drawn, Transitions, Stages
  <2> QED BY <2>1, <2>2, <2>5, <2>6, <2>7, <2>8, <2>9 DEF Story, Stands
<1> QED BY <1>1, <1>2

LEMMA StoryLeft ==
  ASSUME Base, NEW t \in Requests, Left(t),
         NEW c \in Candidates \ disturbed', Story(c)
  PROVE  Story(c)'
<1> USE HiringAssumption DEF Left, Finish, At, Idle
<1>1. CASE req[t].cand # c /\ req'[t].cand # c
  <2>1. Drawn(c)' = Drawn(c)
    BY <1>1 DEF Drawn, Base, TypeOK, Carries
  <2>2. \A e \in Drawn(c) : employment'[e] = employment[e]
           \/ (employment[e] # "none" /\ employment'[e] \in {"active", "terminated"})
    BY <1>1 DEF Drawn, Base, TypeOK, Carries, WithRecord
  <2>3. \A e \in Drawn(c) : onboarding'[e] = onboarding[e] \/ onboarding'[e] \in {"running", "cancelled"}
    BY <1>1 DEF Drawn, Base, TypeOK, Carries, WithRecord
  <2>4. /\ stage'[c] = stage[c] /\ points'[c] = points[c] /\ nationality'[c] = nationality[c]
        /\ \A e \in Drawn(c) : madeFor'[e] = c
    BY <1>1, <2>1 DEF Drawn, Base, TypeOK, Carries
  <2>5. \A u \in Requests : req[u].cand = c \/ req'[u].cand = c => req'[u] = req[u]
    BY <1>1 DEF Base, TypeOK
  <2> QED BY <2>1, <2>2, <2>3, <2>4, <2>5, Elsewhere
<1>2. CASE req[t].cand = c \/ req'[t].cand = c
  <2>1. \A u \in Requests \ {t} : req[u].cand # c /\ req'[u] = req[u]
    BY <1>2 DEF Base, TypeOK, Story, Alone, About
  <2>2. Alone(c)' /\ \A pcs : Busy(c, pcs)' <=> req'[t].cand = c /\ req'[t].pc \in pcs
    BY <2>1, TheOne
  <2>3. \A pcs : Busy(c, pcs) <=> req[t].cand = c /\ req[t].pc \in pcs
    BY <2>1 DEF Busy
  <2>4. Carries(t) /\ (req[t].cand = c => Follows(c, t)) /\ Stands(c)
    BY DEF Base, Story
  <2>5. req'[t].cand = c => Follows(c, t)'
    BY <1>2, <2>3, <2>4 DEF Base, TypeOK, Records, Follows, Carries, WithRecord, Stands, BeforeOffer, Mobilising, Drawn, Transitions, Stages
  <2>6. BeforeOffer(c)'
    BY <1>2, <2>3, <2>4 DEF Base, TypeOK, Follows, Carries, WithRecord, Stands, BeforeOffer, Mobilising, Drawn, Transitions, Stages
  <2>7. Mobilising(c)'
    BY <1>2, <2>2, <2>3, <2>4 DEF Base, TypeOK, Follows, Carries, WithRecord, Stands, BeforeOffer, Mobilising, Drawn, Transitions, Stages
  <2>8. Hired(c)'
    BY <1>2, <2>2, <2>3, <2>4 DEF Base, TypeOK, Follows, Carries, WithRecord, Stands, BeforeOffer, Mobilising, Hired, Drawn, Transitions, Stages
  <2>9. Over(c)'
    BY <1>2, <2>1, <2>2, <2>3, <2>4 DEF Base, TypeOK, Follows, Carries, WithRecord, Stands, BeforeOffer, Mobilising, Over, Drawn, Transitions, Stages
  <2> QED BY <2>1, <2>2, <2>5, <2>6, <2>7, <2>8, <2>9 DEF Story, Stands
<1> QED BY <1>1, <1>2

LEMMA StoryFail ==
  ASSUME Base, NEW t \in Requests, Fail(t),
         NEW c \in Candidates \ disturbed', Story(c)
  PROVE  Story(c)'
<1> USE HiringAssumption DEF Fail, Finish, At, Idle
<1>1. CASE req[t].cand # c /\ req'[t].cand # c
  <2>1. Drawn(c)' = Drawn(c)
    BY <1>1 DEF Drawn, Base, TypeOK, Carries
  <2>2. \A e \in Drawn(c) : employment'[e] = employment[e]
           \/ (employment[e] # "none" /\ employment'[e] \in {"active", "terminated"})
    BY <1>1 DEF Drawn, Base, TypeOK, Carries, WithRecord
  <2>3. \A e \in Drawn(c) : onboarding'[e] = onboarding[e] \/ onboarding'[e] \in {"running", "cancelled"}
    BY <1>1 DEF Drawn, Base, TypeOK, Carries, WithRecord
  <2>4. /\ stage'[c] = stage[c] /\ points'[c] = points[c] /\ nationality'[c] = nationality[c]
        /\ \A e \in Drawn(c) : madeFor'[e] = c
    BY <1>1, <2>1 DEF Drawn, Base, TypeOK, Carries
  <2>5. \A u \in Requests : req[u].cand = c \/ req'[u].cand = c => req'[u] = req[u]
    BY <1>1 DEF Base, TypeOK
  <2> QED BY <2>1, <2>2, <2>3, <2>4, <2>5, Elsewhere
<1>2. CASE req[t].cand = c \/ req'[t].cand = c
  <2>1. \A u \in Requests \ {t} : req[u].cand # c /\ req'[u] = req[u]
    BY <1>2 DEF Base, TypeOK, Story, Alone, About
  <2>2. Alone(c)' /\ \A pcs : Busy(c, pcs)' <=> req'[t].cand = c /\ req'[t].pc \in pcs
    BY <2>1, TheOne
  <2>3. \A pcs : Busy(c, pcs) <=> req[t].cand = c /\ req[t].pc \in pcs
    BY <2>1 DEF Busy
  <2>4. Carries(t) /\ (req[t].cand = c => Follows(c, t)) /\ Stands(c)
    BY DEF Base, Story
  <2>5. req'[t].cand = c => Follows(c, t)'
    BY <1>2, <2>3, <2>4 DEF Base, TypeOK, Records, Follows, Carries, WithRecord, Stands, BeforeOffer, Mobilising, Drawn, Transitions, Stages
  <2>6. BeforeOffer(c)'
    BY <1>2, <2>3, <2>4 DEF Base, TypeOK, Follows, Carries, WithRecord, Stands, BeforeOffer, Mobilising, Drawn, Transitions, Stages
  <2>7. Mobilising(c)'
    BY <1>2, <2>2, <2>3, <2>4 DEF Base, TypeOK, Follows, Carries, WithRecord, Stands, BeforeOffer, Mobilising, Drawn, Transitions, Stages
  <2>8. Hired(c)'
    BY <1>2, <2>2, <2>3, <2>4 DEF Base, TypeOK, Follows, Carries, WithRecord, Stands, BeforeOffer, Mobilising, Hired, Drawn, Transitions, Stages
  <2>9. Over(c)'
    BY <1>2, <2>1, <2>2, <2>3, <2>4 DEF Base, TypeOK, Follows, Carries, WithRecord, Stands, BeforeOffer, Mobilising, Over, Drawn, Transitions, Stages
  <2> QED BY <2>1, <2>2, <2>5, <2>6, <2>7, <2>8, <2>9 DEF Story, Stands
<1> QED BY <1>1, <1>2

LEMMA StoryCancelRun ==
  ASSUME Base, NEW e \in Employees, CancelRun(e),
         NEW c \in Candidates \ disturbed', Story(c)
  PROVE  Story(c)'
<1> USE DEF CancelRun
<1>1. /\ UNCHANGED <<stage, points, nationality, req, employment, madeFor>>
      /\ \A f \in Employees : onboarding'[f] = onboarding[f] \/ onboarding'[f] = "cancelled"
  BY DEF Base, TypeOK
<1>2. Drawn(c)' = Drawn(c) /\ Drawn(c) \subseteq Employees /\ \A f \in Drawn(c) : madeFor'[f] = c
  BY <1>1 DEF Drawn
<1> QED BY <1>1, <1>2, Elsewhere

LEMMA StoryRemove ==
  ASSUME Base, NEW d \in Candidates, Remove(d),
         NEW c \in Candidates \ disturbed', Story(c)
  PROVE  Story(c)'
<1> USE DEF Remove, Touch
<1>1. /\ UNCHANGED <<req, employment, madeFor, onboarding>>
      /\ Drawn(c)' = Drawn(c) /\ \A f \in Drawn(c) : madeFor'[f] = c
  BY DEF Drawn
<1>2. CASE d # c
  <2>1. stage'[c] = stage[c] /\ points'[c] = points[c] /\ nationality'[c] = nationality[c]
    BY <1>2 DEF Base, TypeOK
  <2> QED BY <1>1, <2>1, Elsewhere
<1>3. CASE d = c
  <2>1. \A u \in Requests : req'[u].cand # c
    BY <1>1, <1>3 DEF About
  <2>2. Alone(c)' /\ \A pcs : ~Busy(c, pcs) /\ ~Busy(c, pcs)'
    BY <1>1, <2>1 DEF Alone, Busy
  <2> QED BY <1>1, <1>3, <2>1, <2>2 DEF Story, Stands, BeforeOffer, Mobilising, Hired, Over, Base, TypeOK
<1> QED BY <1>2, <1>3

LEMMA StoryEditNationality ==
  ASSUME Base, NEW d \in Candidates, NEW n \in Nationalities, EditNationality(d, n),
         NEW c \in Candidates \ disturbed', Story(c)
  PROVE  Story(c)'
<1> USE DEF EditNationality, Touch
<1>1. /\ UNCHANGED <<req, employment, madeFor, onboarding>>
      /\ Drawn(c)' = Drawn(c) /\ \A f \in Drawn(c) : madeFor'[f] = c
  BY DEF Drawn
<1>2. CASE d # c
  <2>1. stage'[c] = stage[c] /\ points'[c] = points[c] /\ nationality'[c] = nationality[c]
    BY <1>2 DEF Base, TypeOK
  <2> QED BY <1>1, <2>1, Elsewhere
<1>3. CASE d = c
  <2>1. \A u \in Requests : req'[u].cand # c
    BY <1>1, <1>3 DEF About
  <2>2. Alone(c)' /\ \A pcs : ~Busy(c, pcs) /\ ~Busy(c, pcs)'
    BY <1>1, <2>1 DEF Alone, Busy
  <2> QED BY <1>1, <1>3, <2>1, <2>2 DEF Story, Stands, BeforeOffer, Mobilising, Hired, Over, Base, TypeOK
<1> QED BY <1>2, <1>3

-----------------------------------------------------------------------------
(* Together                                                                *)

LEMMA Inductive ==
  ASSUME IInv, Next
  PROVE  IInv'
<1>1. Base /\ \A c \in Candidates \ disturbed : Story(c)
  BY DEF IInv
<1>2. disturbed \subseteq disturbed'
  BY DEF Next, Recruitment, EmployeesModule, Gro, Begin, Touch, StageRead, StageMobilise, StageMove, Moves,
     JoinedRead, JoinedWrite, Joins, HireCreate, MobiliseCreate, EndedRead, Terminate, Reinstate,
     UpdateRead, UpdateWrite, StartRead, StartByHand, StartInsert, Complete, EffectRead, Left, Fail,
     CancelRun, Remove, EditNationality
<1>3. ASSUME NEW t \in Requests, Recruitment(t) PROVE IInv'
  <2>1. CASE \E c \in Candidates, to \in Stages : StageRead(t, c, to)
    BY <1>1, <1>2, <2>1, BaseStageRead, StoryStageRead DEF IInv
  <2>2. CASE StageMobilise(t)
    BY <1>1, <1>2, <2>2, BaseStageMobilise, StoryStageMobilise DEF IInv
  <2>3. CASE StageMove(t)
    BY <1>1, <1>2, <2>3, BaseStageMove, StoryStageMove DEF IInv
  <2>4. CASE JoinedRead(t)
    BY <1>1, <1>2, <2>4, BaseJoinedRead, StoryJoinedRead DEF IInv
  <2>5. CASE JoinedWrite(t)
    BY <1>1, <1>2, <2>5, BaseJoinedWrite, StoryJoinedWrite DEF IInv
  <2> QED BY <1>3, <2>1, <2>2, <2>3, <2>4, <2>5 DEF Recruitment
<1>4. ASSUME NEW t \in Requests, EmployeesModule(t) PROVE IInv'
  <2>1. CASE HireCreate(t)
    BY <1>1, <1>2, <2>1, BaseHireCreate, StoryHireCreate DEF IInv
  <2>2. CASE MobiliseCreate(t)
    BY <1>1, <1>2, <2>2, BaseMobiliseCreate, StoryMobiliseCreate DEF IInv
  <2>3. CASE EndedRead(t)
    BY <1>1, <1>2, <2>3, BaseEndedRead, StoryEndedRead DEF IInv
  <2>4. CASE UpdateRead(t)
    BY <1>1, <1>2, <2>4, BaseUpdateRead, StoryUpdateRead DEF IInv
  <2>5. CASE UpdateWrite(t)
    BY <1>1, <1>2, <2>5, BaseUpdateWrite, StoryUpdateWrite DEF IInv
  <2>6. CASE \E e \in Employees : Terminate(t, e)
    BY <1>1, <1>2, <2>6, BaseTerminate, StoryTerminate DEF IInv
  <2>7. CASE \E e \in Employees : Reinstate(t, e)
    BY <1>1, <1>2, <2>7, BaseReinstate, StoryReinstate DEF IInv
  <2> QED BY <1>4, <2>1, <2>2, <2>3, <2>4, <2>5, <2>6, <2>7 DEF EmployeesModule
<1>5. ASSUME NEW t \in Requests, Gro(t) PROVE IInv'
  <2>1. CASE StartRead(t)
    BY <1>1, <1>2, <2>1, BaseStartRead, StoryStartRead DEF IInv
  <2>2. CASE StartInsert(t)
    BY <1>1, <1>2, <2>2, BaseStartInsert, StoryStartInsert DEF IInv
  <2>3. CASE EffectRead(t)
    BY <1>1, <1>2, <2>3, BaseEffectRead, StoryEffectRead DEF IInv
  <2>4. CASE Left(t)
    BY <1>1, <1>2, <2>4, BaseLeft, StoryLeft DEF IInv
  <2>5. CASE \E e \in Employees : StartByHand(t, e)
    BY <1>1, <1>2, <2>5, BaseStartByHand, StoryStartByHand DEF IInv
  <2>6. CASE \E e \in Employees : Complete(t, e)
    BY <1>1, <1>2, <2>6, BaseComplete, StoryComplete DEF IInv
  <2> QED BY <1>5, <2>1, <2>2, <2>3, <2>4, <2>5, <2>6 DEF Gro
<1>6. ASSUME NEW t \in Requests, Fail(t) PROVE IInv'
  BY <1>1, <1>2, <1>6, BaseFail, StoryFail DEF IInv
<1>7. ASSUME NEW c \in Candidates, Remove(c) PROVE IInv'
  BY <1>1, <1>2, <1>7, BaseRemove, StoryRemove DEF IInv
<1>8. ASSUME NEW c \in Candidates, NEW n \in Nationalities, EditNationality(c, n) PROVE IInv'
  BY <1>1, <1>2, <1>8, BaseEditNationality, StoryEditNationality DEF IInv
<1>9. ASSUME NEW e \in Employees, CancelRun(e) PROVE IInv'
  BY <1>1, <1>2, <1>9, BaseCancelRun, StoryCancelRun DEF IInv
<1> QED BY <1>3, <1>4, <1>5, <1>6, <1>7, <1>8, <1>9 DEF Next

LEMMA Initially == Init => IInv
<1> SUFFICES ASSUME Init PROVE IInv
  OBVIOUS
<1>1. \A c \in Candidates : Story(c)
  BY HiringAssumption DEF Init, Story, Alone, Stands, BeforeOffer, Mobilising, Hired, Over, Drawn, Follows, Idle, At
<1> QED BY <1>1, BaseInit DEF IInv

LEMMA Always == Spec => []IInv
<1>1. IInv /\ UNCHANGED vars => IInv'
  BY DEF vars, IInv, Base, TypeOK, Records, OwnIds, Carries, Story, Alone, Stands, BeforeOffer,
     Mobilising, Hired, Over, Drawn, Busy, Follows
<1> QED BY <1>1, Initially, Inductive, PTL DEF Spec

\* Candidates, records, runs and requests keep their types, whatever requests overlap.
THEOREM Typing == Spec => []TypeOK
<1>1. IInv => TypeOK
  BY DEF IInv, Base
<1> QED BY <1>1, Always, PTL

\* `hired`, by the direct way or through mobilisation, means one employee record, of
\* someone who has joined: of a candidate whose stage no two requests were to change
\* at once, however many others are at work on their employee.
THEOREM HiredOnce == Spec => []HiredIsEmployed
<1>1. IInv => HiredIsEmployed
  <2> SUFFICES ASSUME IInv, NEW c \in Candidates, stage[c] = "hired", Quiet(c)
               PROVE  \E e \in Employees : EmployeesOf(c) = {e} /\ employment[e] # "onboarding"
    BY DEF HiredIsEmployed
  <2>1. Hired(c) /\ ~Busy(c, {"hire"})
    BY DEF IInv, Quiet, About, Story, Stands, Busy
  <2>2. PICK e \in Employees : Drawn(c) = {e} /\ employment[e] \notin {"none", "onboarding"}
    BY <2>1 DEF Hired
  <2>3. EmployeesOf(c) = {e}
    BY <2>2 DEF EmployeesOf, Drawn
  <2> QED BY <2>2, <2>3
<1> QED BY <1>1, Always, PTL

\* In mobilisation, such a candidate points at the one record made for them, whose
\* onboarding was started and is not completed while they are onboarding.
THEOREM MobilisingOnboards == Spec => []MobilisingIsOnboarding
<1>1. IInv => MobilisingIsOnboarding
  <2> SUFFICES ASSUME IInv, NEW c \in Candidates, stage[c] = "mobilisation", Quiet(c)
               PROVE  /\ EmployeesOf(c) = {points[c]}
                      /\ employment[points[c]] = "onboarding" =>
                           onboarding[points[c]] \in {"running", "cancelled"}
    BY DEF MobilisingIsOnboarding
  <2>1. Mobilising(c) /\ \A pcs : ~Busy(c, pcs)
    BY DEF IInv, Quiet, About, Story, Stands, Busy
  <2>2. /\ Drawn(c) = {points[c]} /\ employment[points[c]] # "none"
        /\ employment[points[c]] = "onboarding" => onboarding[points[c]] \in {"running", "cancelled"}
    BY <2>1 DEF Mobilising
  <2>3. EmployeesOf(c) = {points[c]}
    BY <2>2 DEF EmployeesOf, Drawn
  <2> QED BY <2>2, <2>3
<1> QED BY <1>1, Always, PTL

\* Rejected or withdrawn, during mobilisation too, such a candidate leaves no record
\* of an employee still to join.
THEOREM EndedLeavesNobody == Spec => []EndedIsOver
<1>1. IInv => EndedIsOver
  BY DEF IInv, EndedIsOver, Quiet, About, Story, Stands, Over, EmployeesOf, Drawn
<1> QED BY <1>1, Always, PTL
=============================================================================
