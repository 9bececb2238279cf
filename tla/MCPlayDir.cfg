SPECIFICATION Spec
CONSTANTS
  Totals <- SmallTotals
  RepeatModes <- AllRepeatModes
  PlayModes <- AllPlayModes
INVARIANTS
  TypeOK
  PluginProtocol
  StoppedIsStopped
PROPERTIES
  StopReturns
  ImplementsPlayback
CHECK_DEADLOCK FALSE
