CONSTANTS
  e1 = e1
  c1 = c1
  iqama = iqama
  visa = visa
  p1 = p1
  p2 = p2
  y1 = y1
  y2 = y2
  h1 = h1
  h2 = h2
  Employees = {e1}
  Dependants = {c1}
  Documents <- MCDocuments
  Expiry <- MCExpiry
  EmployeeOf <- MCEmployeeOf
  Renewable = {iqama, visa}
  Days = {1, 55}
  Dates = {y1, y2}
  Procedures = {p1, p2}
  Handlers = {h1, h2}
  NoOne = NoOne
  NoDate = NoDate
  NoDocument = NoDocument
  NoProcedure = NoProcedure
SPECIFICATION Spec
SYMMETRY Alike
CONSTRAINTS Apart FewDisturbances
INVARIANTS
  TypeOK
  AlertOnce
  TrackedOnce
  OneOpenRenewal
  RemovedClosed
  ExpiryFollows
