CONSTANTS
  t1 = t1
  t2 = t2
  t3 = t3
  t4 = t4
  l1 = l1
  l2 = l2
  d1 = d1
  d2 = d2
  n1 = n1
  n2 = n2
  e1 = e1
  e2 = e2
  NoLogin = NoLogin
  NoNickname = NoNickname
  Tokens = {t1, t2, t3}
  Logins = {l1, l2}
  Withdrawals = {d1, d2}
  Nicknames = {n1, n2}
  Edits = {e1, e2}
  Ttl = 2
  RedisFails = TRUE
SPECIFICATION AccountSpec
SYMMETRY Interchangeable
INVARIANTS
  AccountTypeOK
  IndexComplete
  OneTokenPerSession
  ConsentBeforeProfile
PROPERTIES
  RevokesAll
  WithdrawnForGood
  SessionsSpec
