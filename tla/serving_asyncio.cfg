\* asyncio's scheduling, with calls that may be cancelled.
CONSTANTS
  r1 = r1
  r2 = r2
  r3 = r3
  m1 = m1
  m2 = m2
  Idle = Idle
  NoResult = NoResult
  Requests <- MCRequests
  Models = {m1, m2}
  ModelOf <- MCModelOf
  MaxBatch = 2
  MaxWait = 2
  MaxLoads = 2
  Cancellable <- MCRequests
  LockYields = FALSE
SPECIFICATION FairSpec
INVARIANTS
  BatchBounded
  FreshAnswers
  StatsCountAnswers
PROPERTIES
  EveryCallAnswered
\* The server is idle once every call has been answered.
CHECK_DEADLOCK FALSE
