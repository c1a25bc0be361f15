SPECIFICATION ExecSpec
CONSTANTS
  play = play
  seek = seek
  ExecJobs = {play, seek}
  RemuxJobs = {play, seek}
  KindsOf <- MCKinds
  EntryOf <- MCEntry
  SkipOf <- MCSkip
  WorkerPods = {seek}
  Entries = {"film", "other"}
  MaxBytes = 4
  Keyframes = {0, 5, 6}
  Eof = 8
  Dur = 2
  Cached <- MCCached
  ExecFaults = 1
INVARIANTS
  RelayOrPlex
  StreamContiguous

  
CHECK_DEADLOCK FALSE
