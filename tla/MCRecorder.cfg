SPECIFICATION Spec
CONSTANTS
  Medias <- AllMedias
  StartFaults <- Faults
  CommitFaults = TRUE
  MaxTs <- Frames
  MaxLateTs = 1
  FrameSizes = {2}
  DiskSizes = {2, 5}
  Finalizations = {1}
  ScratchSpace = 0
  UIntMod = 8
  MaxLength = 1
  TsIncrement = 2
  AvSync = 1
INVARIANTS
  TypeOK
  PluginProtocol
  MbufNotShared
  NoStall
  NoLostWakeup
  ClosedAfterStop
PROPERTIES
  FramesInOrder
  CommitFits
  RecordTimeSound
  StopReturns
  ErrorFinalises
