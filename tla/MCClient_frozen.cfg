CONSTANTS
  UserRoles = {"CUSTOMER"}
  Visited <- ProfileEntry
  Clicked <- ProfileClicks
  MaxRequests = 2
SPECIFICATION Spec
INVARIANTS
  FrozenStayAway
CHECK_DEADLOCK FALSE
