SPECIFICATION FairSpec
CONSTANTS
  hello = hello
  blank = blank
  alert = alert
  mail = mail
  Job = {hello, blank, alert, mail}
  Kind <- MCKind
  Bad = {blank}
  MaxFaults = 1
INVARIANTS
  Inv
  Accounted
  NoNeedlessCopies
PROPERTIES
  QueuesDrain
  ImplementsJobs
CHECK_DEADLOCK FALSE
