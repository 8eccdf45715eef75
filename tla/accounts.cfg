CONSTANTS
  r1 = r1
  r2 = r2
  r3 = r3
  b1 = b1
  b2 = b2
  b3 = b3
  w1 = w1
  w2 = w2
  t1 = t1
  t2 = t2
  t3 = t3
  t4 = t4
  None = None
  Requests = {r1, r2, r3}
  NumPages = 4
  PageSize = 2
  MaxTokens = 5
  Buffers = {b1, b2, b3}
  Sizes <- MCSizes
  MB = 4
  Word = 32
  LimitMB = 3
  Clients = {r1, r2, r3, b1}
  Total = 4
  MaxAllocs = 3
  SizesMB = {0, 1, 2, 4, 27, 28, 30}
  Workers = {w1, w2}
  Costs = {0, 1, 3}
  Budget = 4
  MaxCost = 3
  MaxDays = 1
  MaxMetrics = 5
  Texts = {t1, t2, t3, t4}
  Bytes <- MCBytes
  MaxBytes = 7
  Keep = 2
SPECIFICATION Spec
INVARIANTS
  PagesOwnedOnce
  PoolsWithinLimit
  EmbeddingsWithinLimit
  BudgetKept
