SPECIFICATION Spec
CONSTANTS
  Types <- TwoTypes
  Codecs <- OneCodec
  Installations <- AnyInstallation
  Modes <- PalOnly
CHECK_DEADLOCK FALSE
INVARIANTS
  TypeOK
  InputOwned
  DecoderFits
PROPERTIES
  OutputKept
  ImplementsPlayback
