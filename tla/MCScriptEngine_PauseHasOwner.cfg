SPECIFICATION Spec
CONSTANTS
  Names = {main}
  NoName = NoName
  MaxJobs = 2
  RetiredCap = 1
  MaxReboots = 0
INVARIANT PauseHasOwner
