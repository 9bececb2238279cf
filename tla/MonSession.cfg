SPECIFICATION Spec
CONSTANTS
  p1 = p1
  p2 = p2
  Pids <- TwoPids
  InModes <- BothModes
  OutModes <- BothModes
  Faults <- AllFaults
  SpuriousWakeups = TRUE
INVARIANTS
  TypeOK
  InputProtocol
  MonitorAgrees
PROPERTIES
  SuppressionHolds
  MonitorComesBack
  ServerStops
