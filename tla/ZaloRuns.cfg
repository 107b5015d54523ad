\* The schedule and an administrator start runs of the automation.
SPECIFICATION RunsSpec
CONSTANTS
  MaxInvoice = 2
  NoPhone = {1}
  BatchSize = 2
  Runs = {schedule, admin}
  OtherSenders = {}
  Finalizer = finalizer
  Restarts = FALSE
  AnswersLost = FALSE
PROPERTIES
  RunsRepeatNothing
  EveryInvoiceAnnounced
CHECK_DEADLOCK FALSE
