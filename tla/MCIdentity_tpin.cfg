SPECIFICATION Spec
CONSTANTS
  alice = alice
  nobody = nobody
  r1 = r1
  r2 = r2
  carol = carol
  pw = pw
  pw2 = pw2
  tpin = tpin
  tpin2 = tpin2
  key = key
  NoSecret = NoSecret
  NoOp = NoOp
  Email = {alice, carol, nobody}
  User = {alice, carol}
  Start <- MCStart
  Request = {r1, r2}
  Given = {pw, pw2, tpin, tpin2, key}
  Operations <- MCOperations
  Posted <- MCPosted
  Verified <- MCVerified
  MaxCrashes = 0
INVARIANT TpinIsSetOnce
CHECK_DEADLOCK FALSE
