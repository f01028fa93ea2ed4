CONSTANTS
  p1 = p1
  p2 = p2
  u1 = u1
  u2 = u2
  w1 = w1
  w2 = w2
  NoWorker = NoWorker
  NoJob = NoJob
  Photos = {p1, p2}
  Users = {u1, u2}
  Owner <- TwoOwners
  RegisteredDate <- SameDay
  Workers = {w1, w2}
  MaxAttempts = 2
  RetryBaseSeconds = 1
  LeaseSeconds = 1
  TimeoutSeconds = 2
  MockModes <- FirstIsChecked
  MaxInFlight = 2
SPECIFICATION FairSpec
INVARIANTS
  TypeOK
  JobAgreesWithPhoto
  OneVerdict
PROPERTIES
  LeaseRespected
  LifecycleSpec
  ValidationEnds
  JobEnds
