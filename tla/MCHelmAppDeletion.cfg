SPECIFICATION FairSpec
CONSTANTS
  base = base
  istiod = istiod
  v1 = v1
  v2 = v2
  missing = missing
  x = x
  y = y
  Names = {base, istiod}
  NoName = NoName
  Versions = {v1, v2, missing}
  NoChart = NoChart
  Resolve <- MCResolve
  Values = {x, y, EmptyValues}
  EmptyValues = EmptyValues
  NilValues = NilValues
  Specs <- PinnedSpecs
  MaxEdits = 2
  MaxFaults = 0
  MaxRevisions = 5
PROPERTY
  DeletionCompletes
CHECK_DEADLOCK FALSE
