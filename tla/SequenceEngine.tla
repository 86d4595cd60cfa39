--------------------------- MODULE SequenceEngine ---------------------------
(***************************************************************************)
(* The step engine of GRO sequences (gro/domain/sequence-engine.ts): pure  *)
(* functions of a sequence's kind and of the set of steps that are filed.  *)
(* A step's title, portal, fee and target date tell no rule apart and are  *)
(* left out.                                                               *)
(***************************************************************************)
EXTENDS Naturals, Sequences

CONSTANTS
  Kinds,      \* the kinds of sequence
  StepKeys,   \* every step key there is
  Steps,      \* Steps[kind]: the keys of that kind's steps
  Needs       \* Needs[kind][key]: the steps a step waits on

\* A list has a step; a step waits on steps of its own list, and never in a
\* circle: of any steps, one waits on none of them.  integrityProblems asks more
\* of the lists written in the code: a step waits on EARLIER steps only (see
\* SequenceDefinitions).
ASSUME EngineAssumption ==
  /\ Steps \in [Kinds -> SUBSET StepKeys]
  /\ Needs \in [Kinds -> [StepKeys -> SUBSET StepKeys]]
  /\ \A kind \in Kinds :
       /\ Steps[kind] # {}
       /\ \A key \in Steps[kind] : Needs[kind][key] \subseteq Steps[kind]
       /\ \A T \in SUBSET Steps[kind] :
            T # {} => \E key \in T : Needs[kind][key] \cap T = {}

\* stepsOf: what a step is, given the filed steps.
StepState(kind, key, filed) ==
  IF key \in filed THEN "filed"
  ELSE IF Needs[kind][key] \subseteq filed THEN "ready" ELSE "blocked"

\* filedDependents: the filed steps that were filed on the back of `key`.
FiledDependents(kind, key, filed) ==
  {s \in Steps[kind] \cap filed : key \in Needs[kind][s]}

\* isComplete: every step of the list is filed.
IsComplete(kind, filed) == Steps[kind] \subseteq filed

-----------------------------------------------------------------------------
\* The order the engine is there to keep: nothing is filed before what it
\* waits on.
InOrder(kind, filed) == \A s \in filed : Needs[kind][s] \subseteq filed
=============================================================================
