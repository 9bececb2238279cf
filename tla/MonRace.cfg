SPECIFICATION Spec
CONSTANTS
  p1 = p1
  p2 = p2
  Pids <- OnePid
  InModes <- BothModes
  OutModes <- BothModes
  Faults <- NoFault
  SpuriousWakeups = TRUE
INVARIANTS
  InputAlone
