SPECIFICATION MCSpec
CONSTANTS
  dirA = dirA
  dirB = dirB
  dirC = dirC
  scanned = scanned
  projected = projected
  None = None
  Folders = {dirA, dirB, dirC}
  Guids = {g}
  Ids = {i}
  Sections = {scanned, projected}
  SectionOf <- MCSectionOf
  Provider = {scanned, projected}
  Projected = {projected}
  Threshold = 1
  MaxAttempts = 2
  MaxErrors = 2
  MaxChanges = 2
  MaxPartial = 1
  e1 = e1
  s1 = s1
  Leaves = {e1, e2}
  Shelves = {s1, s2}
  Paths = {"a", "b"}
  Uids = {"u"}
  MaxRows = 3
  MaxEdits = 2
  MaxDisk = 3
  Scanned <- Before
  Libs = {l1, l2}
  Switched = {l1}
  MaxApiErrors = 2
  MaxOperator = 1
INVARIANTS
  NoChangeLost
  RowsVisible
PROPERTIES
  EventuallyScanned
  ReturnedComesBack
  PassesSettle
CHECK_DEADLOCK FALSE
