CONSTANTS
  i1 = i1
  h1 = h1
  h2 = h2
  Ids = {i1}
  Dates = {4}
  Turnaround = 2
  MaxDay = 3
  Handlers = {h1, h2}
  NoId = NoId
SPECIFICATION Spec
SYMMETRY Alike
INVARIANTS
  TypeOK
  PauseOnce
  TaskFollows
PROPERTIES
  ReplyReturns
