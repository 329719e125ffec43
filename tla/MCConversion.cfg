SPECIFICATION Spec
CONSTANTS
  Yes = Yes
  No = No
  Zero = Zero
  Five = Five
  Theirs = Theirs
  Ours = Ours
  NoList = NoList
  NilSpec = NilSpec
  MaxDepth = 5
  Empty = {No, Zero, NoName, NoList}
  Numbers = {Zero, Five}
  Strings = {"1.22", "latest"}
  DefaultVersion = "1.21.1"
  NoName = NoName
  Profiles <- MCProfiles
  IopSpecs <- MCIopSpecs
  UserHelmApps <- MCUserHelmApps
INVARIANTS
  TypeOK
  ComponentValuesWin
  UserWins
  ChartsInOrder
  InstalledAsAsked
  CopiedValuesReachIstiod
CHECK_DEADLOCK FALSE
