CONSTANTS
  u1 = u1
  u2 = u2
  u3 = u3
  r1 = r1
  r2 = r2
  w1 = w1
  NoWorker = NoWorker
  NoJob = NoJob
  s1 = s1
  s2 = s2
  Scheduler = Scheduler
  Photos = {1, 2, 3}
  Users = {u1, u2, u3}
  Owner <- Strangers
  RegisteredAt <- LastFirst
  Score <- AllSimilar
  CandidateLimit = 2
  Workers = {w1}
  MaxAttempts = 1
  Requests = {r1, r2}
  Senders = {s1, s2}
  Blockable <- OneWay
  Disturbances <- Search
SPECIFICATION Spec
SYMMETRY Interchangeable
INVARIANTS
  MatchedOnce
  DecisionHolds
  NoMissedPair
  NoDeadlock
PROPERTY
  LifecycleSpec
CHECK_DEADLOCK FALSE
