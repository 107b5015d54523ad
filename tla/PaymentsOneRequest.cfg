\* One request in flight, failures at every await, two invoices, three receipts.
SPECIFICATION DeskSpec
CONSTANTS
  i1 = i1
  i2 = i2
  c1 = c1
  c2 = c2
  Invoices = {i1, i2}
  Customers = {c1, c2}
  Staff = {s1}
  Owner <- MCOwner
  Receipts = {r1, r2, r3}
  Procs = {p1}
  MaxTotal = 2
  MaxMonth = 1
  MockEnabled = FALSE
SYMMETRY MCSymmetry
INVARIANTS OneFittingReceipt
PROPERTIES AcknowledgedForGood LedgerSpec
CHECK_DEADLOCK FALSE
