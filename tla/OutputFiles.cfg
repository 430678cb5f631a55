\* Two backup names, and runs enough to find both in use.
CONSTANTS
  MaxSuffix = 1
  MaxRuns = 3
SPECIFICATION Spec
INVARIANTS
  TypeOK
  NothingLost
  LeavesNoTrace
  SuccessIsComplete
  WriterOwnsPath
PROPERTY OnlyAuthorizedChanges
