CONSTANTS
  m1 = m1
  m2 = m2
  x1 = x1
  x2 = x2
  x3 = x3
  p1 = p1
  p2 = p2
  p3 = p3
  p4 = p4
  p5 = p5
  prom1 = prom1
  prom2 = prom2
  otel = otel
  dog = dog
  r1 = r1
  r2 = r2
  r3 = r3
  r4 = r4
  NoMatch = NoMatch
  Off = Off
  NoOp = NoOp
  NoResult = NoResult
  Models = {m1, m2}
  Inputs = {x1, x2, x3}
  Score <- MCScore
  MaxSets = 3
  Prompts = {p1, p2, p3, p4, p5}
  KeyOf <- MCKeyOf
  Limit = 2
  Keep = 2
  Drafts = {0, 2}
  Lengths = {0, 3}
  MaxCalls = 5
  MaxTrainings = 2
  MaxRuns = 3
  Backends = {prom1, prom2, otel, dog}
  KindOf <- MCKindOf
  Installed = {"prometheus", "otel"}
  MaxMetrics = 3
  ModelIds = {m1, m2}
  Latencies = {0, 2, 5}
  Cap = 4
  Left = 2
  ErrorLimit = 40
  AverageLimit = 2
  Percent = 70
  PercentLimit = 2
  MaxRecords = 5
  MaxErrors = 3
  Requests = {r1, r2, r3, r4}
  Priority <- MCPriority
  BatchSize = 3
  Model = m1
  MaxLoads = 2
  NumGPUs = 3
  GPUType = "L4"
  MaxHanded = 2
  MemoryUses = {500, 800, 1000}
  Batteries = {19, 20, 60}
  MaxSamples = 3
SPECIFICATION Spec
INVARIANTS
  CachesAnswer
  EngineBooks
  RegisteredAsTrained
  RecordedOnce
  AlertsSound
  BoundedOvertaking
  ApiAnswers
  GPUAdviceKept
  EdgeAdviceSound
CHECK_DEADLOCK FALSE
