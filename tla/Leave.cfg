CONSTANTS
  p1 = p1
  p2 = p2
  l1 = l1
  l2 = l2
  r1 = r1
  r2 = r2
  People = {p1, p2}
  Leaves = {l1, l2}
  Years = {2026, 2027}
  Inputs <- MCInputs
  Hired <- MCHired
  Lists <- MCLists
  Requests = {r1, r2}
  NoLeave = NoLeave
  NotRaised = NotRaised
  NoPerson = NoPerson
SPECIFICATION Spec
SYMMETRY Alike
INVARIANTS
  TypeOK
  LedgerAddsUp
  HajjOnce
  CarriedIsUnused
PROPERTIES
  ImplementsRegister
