SPECIFICATION Spec
CONSTANTS
  a1 = a1
  a2 = a2
  b1 = b1
  f1 = f1
  alice = alice
  bob = bob
  cashier = cashier
  manager = manager
  r1 = r1
  r2 = r2
  m1 = m1
  m2 = m2
  NoAccount = NoAccount
  NoTxn = NoTxn
  NoOp = NoOp
  User = {alice, bob, cashier, manager}
  Account = {a1, a2, b1}
  Owner <- MCOwner
  Role <- MCRole
  Opening <- MCOpening
  Frozen = {b1}
  Amount = {1, 2}
  Request = {r1, r2}
  Filed = {f1}
  FiledDeposit <- MCFiledDeposit
  Operations <- MCOperations
  MaxAttempts = 2
  MaxCrashes = 0
  Task = {m1}
  TaskOperations <- MCTaskOperations
INVARIANT ErrorsMoveNothing
CHECK_DEADLOCK FALSE
