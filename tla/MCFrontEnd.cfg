SPECIFICATION FairSpec
CONSTANTS
  c = c
  d = d
  a1 = a1
  a2 = a2
  a3 = a3
  deep = deep
  Dirs <- DirsValue
  Parent <- ParentValue
  Listing <- ListingValue
  Here = a2
  Dot = dot
  Nowhere = nowhere
  Drives <- DrivesValue
  MaxVisible = 2
  ValidURL = validURL
  BadURL = badURL
  CommandLines <- CommandLinesValue
  MaxWorkers = 2
  MaxFiles = 2
  FrameRows = 1
  Rows = 5
  MaxWarnings = 1
  MaxAttempts = 2
  MaxHistory = 2
  MaxGone = 1
CHECK_DEADLOCK FALSE
INVARIANTS
  CursorVisible
  BoxIsWhole
  AtMostOneLateProbe
PROPERTIES
  FlagsOverrideFile
  RunComesBack
