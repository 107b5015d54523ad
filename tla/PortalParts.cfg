\* Two requests at the payment desk; Zalo's senders with restarts and lost
\* answers; two messages that renew Zalo's token;
\* everyone who writes a month; imports, syncs, bindings and links of two
\* plants; a ticket's requests.  The parts share model values, so that one
\* permutation serves several of them.
SPECIFICATION PartsSpec
CONSTANTS
  i1 = i1
  c1 = c1
  c2 = c2
  Invoices = {i1}
  Customers = {c1, c2}
  Staff = {s1}
  Owner <- MCOwner
  Receipts = {r1, r2}
  Procs = {p1, p2}
  MaxTotal = 3
  MaxMonth = 1
  MockEnabled = TRUE
  MaxInvoice = 1
  ExtraSenders = {"finalizer"}
  Messages = {p1, p2}
  MaxZaloToken = 2
  Providers = {"SOLARMAN", "SOLARMAN_LEGACY", "SEMS", "DEYE", "LUXPOWER"}
  Writers = {"schedule", "staff", "closing", "desk"}
  Plants = {p1, p2}
  Systems = {r1, r2}
  SystemRequests = {p1, p2}
  NoPlant = NoPlant
  NoSystem = NoSystem
  TicketRequests = {p1, p2}
  MaxTime = 5
SYMMETRY Symmetry
INVARIANTS TypesOK StatusMatchesMoney SentMeansDelivered DevicesFollowPlant
  NoWordIsMissed DeadTokensAreReplaced
PROPERTIES HistoryKeepsManualMonths
CHECK_DEADLOCK FALSE
