CONSTANTS
  d1 = d1
  f1 = f1
  a1 = a1
  a2 = a2
  k1 = k1
  k2 = k2
  h1 = h1
  h2 = h2
  h3 = h3
  Docs = {d1}
  Fees = {f1}
  Files = {a1, a2}
  Keys = {k1, k2}
  MaxFiles = 1
  Handlers = {h1, h2, h3}
  NoItem = NoItem
  NoKey = NoKey
SPECIFICATION Spec
SYMMETRY Alike
CONSTRAINT Bounded
CHECK_DEADLOCK FALSE
INVARIANTS
  TypeOK
  AvailableWasChecked
  AvailableHasBlob
  RefusedIsGone
  SlotsKept
  NoOrphan
PROPERTIES
  HeldIsKept
