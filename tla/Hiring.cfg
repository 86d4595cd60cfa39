CONSTANTS
  c1 = c1
  e1 = e1
  e2 = e2
  r1 = r1
  r2 = r2
  Candidates = {c1}
  Employees = {e1, e2}
  Requests = {r1, r2}
  NoCandidate = NoCandidate
  NoEmployee = NoEmployee
SPECIFICATION Spec
SYMMETRY Alike
INVARIANTS
  TypeOK
  HiredIsEmployed
  MobilisingIsOnboarding
  EndedIsOver
CHECK_DEADLOCK FALSE
