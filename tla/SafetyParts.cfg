SPECIFICATION PartsSpec
CONSTANTS
  RepairMonths = {jan}
  Meanwhile = FALSE
  Accounts = {a1, a2}
  Calls = {r1, r2}
  RequestsOfCall = 2
  MaxSessions = 3
  EditsInFlight = FALSE
  Requests = {r1, r2}
  Sessions = {s1, s2}
  Codes = {o1, o2}
  Links = {l1, l2}
  MaxPasswords = 2
  LastMonth = 2
  Loads = {1}
  Readings = {0, 2}
  NoValue = NoValue
  MaxEntries = 2
  MaxFaults = 1
  BilledInvoices = {r1, r2}
  NoInvoice = NoInvoice
  Records = {k1}
  BillingJobs = {j1}
  MaxKwh = 2
SYMMETRY Symmetry
INVARIANTS TypesOK RepairIsWhole
  SessionFitsAccount DeadSessionCostsALogin RecoveredOnce  ReadingsChain
  InvoiceShowsRecord
PROPERTIES  SettledReadingsStand 
