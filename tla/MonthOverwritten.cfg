\* A month is entered by hand, then the hourly sync runs.
SPECIFICATION Spec
CONSTANTS
  Kinds = {"SEMS"}
  Workers = {"schedule", "desk"}
PROPERTIES ManualMonthIsLocked
