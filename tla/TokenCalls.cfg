\* Two calls on two workers share one account.
SPECIFICATION FairSpec
CONSTANTS
  p1 = p1
  p2 = p2
  w1 = w1
  w2 = w2
  NoCall = NoCall
  Workers = {w1, w2}
  Procs = {p1, p2}
  WorkerOf <- MCOneEach
  MaxTokens = 2
  Edits = FALSE
  LockLost = FALSE
  Authorizations = FALSE
INVARIANTS
  NoSpentTokenStored
  OneExchangeAtATime
  NoTokenWasted
PROPERTIES
  CallsEnd
