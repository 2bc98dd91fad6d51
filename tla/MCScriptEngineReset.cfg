SPECIFICATION Spec
CONSTANTS
  Names = {main, pump}
  NoName = NoName
  MaxJobs = 2
  RetiredCap = 1
  MaxReboots = 1
INVARIANTS
  NamesAgree NamedIsSaved
PROPERTIES
  KeepsPromise
