CONSTANTS
  v1 = v1
  v2 = v2
  v3 = v3
  None = None
  NoRequest = NoRequest
  Versions = {v1, v2}
  MaxDeploys = 2
  MaxRequests = 2
SPECIFICATION Spec
INVARIANTS
  EveryRequestRouted
