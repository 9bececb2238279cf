SPECIFICATION Spec
CONSTANTS
  Types <- TwoTypes
  Codecs <- OneCodec
  Installations <- FullInstallation
  Modes <- NoMode
CHECK_DEADLOCK FALSE
INVARIANT EncInputOwned
