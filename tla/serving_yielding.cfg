\* Every await of a locked section may hand the event loop over.
CONSTANTS
  r1 = r1
  r2 = r2
  r3 = r3
  m1 = m1
  m2 = m2
  Idle = Idle
  NoResult = NoResult
  Requests <- MCRequests
  Models = {m1, m2}
  ModelOf <- MCModelOf
  MaxBatch = 2
  MaxWait = 1
  MaxLoads = 1
  Cancellable = {}
  LockYields = TRUE
SPECIFICATION Spec
INVARIANTS
  TypeOK
  NoRequestLost
  OneVersionPerGroup
PROPERTIES
  OutcomeStable
  ImplementsService
CHECK_DEADLOCK FALSE
