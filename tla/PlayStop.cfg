SPECIFICATION Spec
CONSTANTS
  StartFaults <- NoFault
  EditModes = {FALSE}
CHECK_DEADLOCK FALSE
PROPERTY StopReturns
