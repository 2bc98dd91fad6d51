SPECIFICATION Spec
CONSTANTS
  NumInputs = 1
  NumOutputs = 2
  DebounceTicks = 2
  ScanDivider = 1
  MaxAlarms = 3
PROPERTY PublishedWhole
