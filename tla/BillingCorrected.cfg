CONSTANTS
  c1 = c1
  c2 = c2
  s1 = s1
  f1 = f1
  f2 = f2
  f3 = f3
  f4 = f4
  i1 = i1
  i2 = i2
  r1 = r1
  r2 = r2
  Fees = {f1, f2, f3, f4}
  Invoices = {i1, i2}
  SourceOf <- MCSourceOf
  Manual = Manual
  FeeClient <- MCFeeClient
  InvoiceClient <- MCInvoiceClient
  Steps = {s1}
  Amounts = {"as paid", "corrected"}
  Requests = {r1, r2}
  NoFee = NoFee
  NoInvoice = NoInvoice
  NoStep = NoStep
SPECIFICATION Spec
SYMMETRY Alike
PROPERTIES
  CorrectedOnlyWhileRecorded
