SPECIFICATION Spec
CONSTANTS
  NumInputs = 2
  NumOutputs = 2
  DebounceTicks = 3
  ScanDivider = 2
  MaxAlarms = 5
INVARIANTS
  TypeOK AlarmsAccounted EveryNthTick MirrorIsRecent StopLetsOneEnd
PROPERTIES
  KeepsFilter AppliesLastScan
