--------------------------- MODULE MCGroSequences ---------------------------
(***************************************************************************)
(* One employee; two or three runs.  The step lists are cut from the       *)
(* code's: of an onboarding, the iqama and two steps that wait on it and   *)
(* not on each other; of a final exit, its last step.                      *)
(***************************************************************************)
EXTENDS GroSequences, SequenceDefinitions, TLC

CONSTANTS e1, r1, r2

MCKinds == SEQUENCE_KINDS
MCSteps == [onboarding |-> {"iqama", "gosi", "contract"}, final_exit |-> {"depart"}]
MCStepKeys == MCSteps.onboarding \cup MCSteps.final_exit
MCNeeds == [kind \in MCKinds |-> [key \in MCStepKeys |->
              NeedsOf(SEQUENCES[kind], key) \cap MCSteps[kind]]]

Run(kind, n) == [employee |-> e1, kind |-> kind, nth |-> n]
\* An onboarding, and a final exit that may be started again.
MCRuns == {Run("onboarding", 1), Run("final_exit", 1), Run("final_exit", 2)}
\* One run of each kind, for liveness.
LiveRuns == {Run("onboarding", 1), Run("final_exit", 1)}

Requests2 == Permutations({r1, r2})
=============================================================================
