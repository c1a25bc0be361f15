SPECIFICATION FairSpec
CONSTANTS
  f1 = f1
  f2 = f2
  s1 = s1
  Files = {f1, f2}
  Sections = {s1}
  SectionOf <- OneSection
  Late = {f1}
  None = None
  Retries = 1
  SeedBatch = 1
  MaxChanges = 1
  MaxErrors = 1
  MaxCrashes = 1

  
PROPERTIES
  KeepsWanted
  EventuallyProjected
CHECK_DEADLOCK FALSE
