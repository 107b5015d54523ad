\* Edits, authorizations and lost transactions among two calls.
SPECIFICATION Spec
CONSTANTS
  p1 = p1
  p2 = p2
  w1 = w1
  w2 = w2
  NoCall = NoCall
  Workers = {w1}
  Procs = {p1, p2}
  WorkerOf <- MCOneWorker
  MaxTokens = 2
  Edits = TRUE
  LockLost = TRUE
  Authorizations = TRUE
INVARIANTS LockIsAtWork
SYMMETRY MCSymmetry
