SPECIFICATION PartsSpec
CONSTANTS
  Systems = {s1}
  Movable = {s1}
  Storing = {s1}
  Closing = {s1}
  MaxFaults = 2
  LastMonth = 2
  Loads = {1}
  Readings = {}
  NoValue = NoValue
  MaxEntries = 2
  MaxMeterFaults = 1
  Tabs = {t1}
  Sessions = {n1, n2}
INVARIANTS BackoffKept StrandedByFaults NobodyWaitsAlone
PROPERTIES EveryDueSyncIsServed ChainSettles CallsEnd DeadSessionIsLeft
