\* The hourly sync of a Deye system, alone, again and again.
SPECIFICATION Spec
CONSTANTS
  Kinds = {"DEYE"}
  Workers = {"schedule"}
INVARIANTS HistoryIsUpserted
