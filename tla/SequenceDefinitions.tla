------------------------- MODULE SequenceDefinitions -------------------------
(***************************************************************************)
(* The two step lists fixed in the code (gro/domain/sequence-definitions)  *)
(* and the integrity check the tests run on them.                          *)
(***************************************************************************)
EXTENDS Naturals, Sequences

Step(key, day, needs) == [key |-> key, day |-> day, needs |-> needs]

OnboardingSteps == <<
  Step("block-visa",   0, {}),
  Step("visa-auth",    7, {"block-visa"}),
  Step("gamca",       14, {"visa-auth"}),
  Step("enjaz",       21, {"gamca"}),
  Step("travel",      28, {"enjaz"}),
  Step("medical-ksa", 32, {"travel"}),
  Step("iqama",       40, {"medical-ksa"}),
  Step("insurance",   42, {"iqama"}),
  Step("gosi",        44, {"iqama"}),
  Step("contract",    46, {"iqama"}),
  Step("bank",        50, {"iqama", "contract"}) >>

FinalExitSteps == <<
  Step("notice",          0, {}),
  Step("clearance",       7, {"notice"}),
  Step("settlement",     14, {"clearance"}),
  Step("gosi-close",     18, {"settlement"}),
  Step("contract-close", 18, {"settlement"}),
  Step("exit-visa",      24, {"gosi-close", "contract-close"}),
  Step("ticket",         28, {"exit-visa"}),
  Step("depart",         32, {"ticket"}) >>

SEQUENCES == [onboarding |-> OnboardingSteps, final_exit |-> FinalExitSteps]
SEQUENCE_KINDS == DOMAIN SEQUENCES

KeysOf(list) == {list[i].key : i \in DOMAIN list}
NeedsOf(list, key) ==
  UNION {list[i].needs : i \in {j \in DOMAIN list : list[j].key = key}}

\* integrityProblems: keys are unique, each step waits only on EARLIER steps
\* whose target day is not later than its own, and the first waits on nothing.
Sound(list) ==
  /\ \A i, j \in DOMAIN list : list[i].key = list[j].key => i = j
  /\ \A i \in DOMAIN list : \A n \in list[i].needs :
        \E j \in 1..(i - 1) : list[j].key = n /\ list[j].day <= list[i].day
  /\ list # <<>> => list[1].needs = {}

ASSUME ListsAreSound == \A kind \in SEQUENCE_KINDS : Sound(SEQUENCES[kind])
=============================================================================
