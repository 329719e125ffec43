SPECIFICATION Spec
CONSTANTS
  minimal = minimal
  full = full
  broken = broken
  appMinimal = appMinimal
  appFull = appFull
  own = own
  IopSpecs = {minimal, full, broken}
  AppSpecs = {appMinimal, appFull, own}
  UserAppSpecs = {own}
  NoSpec = NoSpec
  Convert <- MCConvert
  Unconvertible = Unconvertible
  DeepEqualHolds = FALSE
  MaxEdits = 3
  MaxAppEdits = 0
  MaxReports = 1
  MaxFaults = 0
INVARIANTS
  HelmAppExists
CHECK_DEADLOCK FALSE
