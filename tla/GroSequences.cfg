CONSTANTS
  Kinds <- MCKinds
  StepKeys <- MCStepKeys
  Steps <- MCSteps
  Needs <- MCNeeds
  Runs <- MCRuns
  e1 = e1
  r1 = r1
  r2 = r2
  Requests = {r1, r2}
  Employees = {e1}
  NoRun = NoRun
  NoStep = NoStep
  NoEmployee = NoEmployee
SPECIFICATION Spec
SYMMETRY Requests2
INVARIANTS
  TypeOK
  OneRunningPerKind
  StepOrder
  Completion
PROPERTIES
  FinishedRunsAreFinal
