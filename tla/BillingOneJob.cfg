\* One job in flight, failing at any await, payments meanwhile; no record moves.
SPECIFICATION Spec
CONSTANTS
  Invoices = {i1, i2}
  NoInvoice = NoInvoice
  Records = {k1, k2}
  Procs = {p1}
  MaxTotal = 1
  MaxMonth = 2
  DaysInMonth = 1
  StableSource = TRUE
  AllowPeriodMove = FALSE
  JobsFail = TRUE
  PayDuringJobs = TRUE
  StaleReceipts = FALSE
SYMMETRY MCSymmetry
INVARIANTS   ClaimsAreBacked 
PROPERTIES AutomaticIssueIsClean
