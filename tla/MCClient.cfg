CONSTANTS
  UserRoles = {"CUSTOMER", "MANAGER"}
  Visited <- EntryPages
  Clicked <- MoneyClicks
  MaxRequests = 2
SPECIFICATION Spec
INVARIANTS
  Inv
  SessionIsKnown
  OnlyTransfersOverlap
PROPERTIES
  PageSettles
CHECK_DEADLOCK FALSE
