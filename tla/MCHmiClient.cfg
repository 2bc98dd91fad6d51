SPECIFICATION FairSpec
CONSTANTS
  Parts = 2
  MaxValues = 4
  MaxClicks = 2
  MaxFaults = 1
INVARIANTS
  TypeOK SentWhole
PROPERTIES
  NeverOlder ClickStays HmiConverges
CHECK_DEADLOCK FALSE
