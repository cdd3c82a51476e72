SPECIFICATION FairSpec
CONSTANTS
  ann = ann
  bob = bob
  hi = hi
  fromBob = fromBob
  again = again
  Nobody = Nobody
  Contact = {ann, bob}
  Sent = {hi}
  Got = {fromBob, again}
  Peer <- MCPeer
  PageSize = 1
  MaxSelects = 2
  MaxVisits = 1
  MaxDrops = 1
  MaxServed = 1
INVARIANTS
  Inv
  PaneIsKnown
  ListeningIsJoined
  NewestReadIsReturned
PROPERTY VerifyingEnds
CHECK_DEADLOCK FALSE
