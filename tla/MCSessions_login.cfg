CONSTANTS
  t1 = t1
  t2 = t2
  t3 = t3
  t4 = t4
  l1 = l1
  l2 = l2
  d1 = d1
  d2 = d2
  NoLogin = NoLogin
  Tokens = {t1, t2, t3, t4}
  Logins = {l1, l2}
  Withdrawals = {d1, d2}
  Ttl = 2
  RedisFails = FALSE
SPECIFICATION Spec
INVARIANT WithdrawnHasNoSession
