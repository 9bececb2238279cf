SPECIFICATION Spec
CONSTANTS
  StartFaults <- Faults
  EditModes = {TRUE, FALSE}
CHECK_DEADLOCK FALSE
INVARIANTS
  TypeOK
  PluginProtocol
  ClosedAfterStop
PROPERTIES
  StopBeforeEnd
  DrainEnds
  ImplementsPlayback
