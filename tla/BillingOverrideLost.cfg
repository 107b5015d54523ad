\* An automatic sync after a manual override.
SPECIFICATION Spec
CONSTANTS
  Invoices = {i1, i2}
  NoInvoice = NoInvoice
  Records = {k1}
  Procs = {p1}
  MaxTotal = 2
  MaxMonth = 2
  DaysInMonth = 1
  StableSource = TRUE
  AllowPeriodMove = FALSE
  JobsFail = FALSE
  PayDuringJobs = FALSE
  StaleReceipts = FALSE
SYMMETRY MCSymmetry
INVARIANTS ManualOverrideHolds
