SPECIFICATION Spec
CONSTANTS
  Totals <- TwoFiles
  RepeatModes <- NormalMode
  PlayModes <- FolderMode
PROPERTIES
  DirectoryGoesOn
