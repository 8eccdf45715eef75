CONSTANTS
  churn = churn
  None = None
  Names = {churn, 1}
  MaxTrains = 3
  MaxServes = 3
SPECIFICATION Spec
INVARIANTS
  TypeOK
  ListedUnlessNested
  ArtifactAccounted

  
