CONSTANTS
  v1 = v1
  v2 = v2
  v3 = v3
  None = None
  NoRequest = NoRequest
  Versions <- MCVersions
  MaxDeploys = 2
  MaxRequests = 2
SPECIFICATION Spec
SYMMETRY Symmetry
INVARIANTS
  TypeOK
  OnlyDeployedVersions
  CanarySound
PROPERTIES
  OnlyPromotionMovesActive
