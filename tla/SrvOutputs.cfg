SPECIFICATION Spec
CONSTANTS
  Types <- TwoTypes
  Codecs <- OneCodec
  Installations <- TwoOutputsInstallation
  Modes <- NoMode
CHECK_DEADLOCK FALSE
INVARIANT LockedByOthers
