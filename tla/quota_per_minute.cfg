CONSTANTS
  a = a
  b = b
  c = c
  m1 = m1
  m2 = m2
  u = u
  NoUser = NoUser
  None = None
  NoCall = NoCall
  Requests <- MCRequests
  Priority <- MCPriority
  User <- MCUser
  Model <- MCModel
  Timeout <- MCTimeout
  Compute <- MCCompute
  Users = {u}
  Models = {m1, m2}
  Quota <- MCQuota
  MaxQueue = 2
  Minute = 2
  MaxTime = 3
  MaxTokens = 5
SPECIFICATION Spec
PROPERTIES
  QuotaIsPerMinute
