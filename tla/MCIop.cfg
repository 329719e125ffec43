SPECIFICATION FairSpec
CONSTANTS
  minimal = minimal
  full = full
  broken = broken
  appMinimal = appMinimal
  appFull = appFull
  own = own
  IopSpecs = {minimal, full, broken}
  AppSpecs = {appMinimal, appFull, own}
  UserAppSpecs = {own}
  NoSpec = NoSpec
  Convert <- MCConvert
  Unconvertible = Unconvertible
  DeepEqualHolds = FALSE
  MaxEdits = 3
  MaxAppEdits = 1
  MaxReports = 1
  MaxFaults = 1
INVARIANTS
  TypeOK
  WritesUnderFinalizer
  QuiescentMeansProcessed
PROPERTIES
  IopDeletionCompletes
  EditsReachHelmApp
  UnmanagedKeepsSpec
  ImplementsLifecycle
CHECK_DEADLOCK FALSE
