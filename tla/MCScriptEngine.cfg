SPECIFICATION Spec
CONSTANTS
  Names = {main}
  NoName = NoName
  MaxJobs = 3
  RetiredCap = 1
  MaxReboots = 0
INVARIANTS
  TypeOK OneOwner NothingLost SingleFlight SaveOwnsPending StatusTellsTruth
PROPERTIES
  NeverBackwards KeepsPromise
