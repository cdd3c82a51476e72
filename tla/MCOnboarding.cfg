SPECIFICATION FairSpec
CONSTANTS
  meg = meg
  adam = adam
  carl = carl
  r1 = r1
  r2 = r2
  cash = cash
  e1 = e1
  e2 = e2
  e3 = e3
  e4 = e4
  e5 = e5
  m1 = m1
  m2 = m2
  m3 = m3
  m4 = m4
  m5 = m5
  m6 = m6
  doc1 = doc1
  doc2 = doc2
  First = {meg, adam, carl, cash}
  Request = {r1, r2}
  Start <- MCStart
  Operations <- MCOperations
  Email = {e1, e2, e3, e4, e5}
  Mobile = {m1, m2, m3, m4, m5, m6}
  Key = {doc1, doc2}
  Number = {1, 2}
  MaxCrashes = 1
  NoUser = NoUser
  NoKey = NoKey
  NoOp = NoOp
INVARIANTS
  Inv
  NothingIsShared
  DecisionsAreFounded
  AnswersStayTrue
PROPERTIES
  NothingIsUndone
  RequestsEnd
CHECK_DEADLOCK FALSE
