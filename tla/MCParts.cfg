CONSTANTS
  Projects <- AllProjects
  NoFile = NoFile
  Symbols <- EntitySymbols
  Types <- EntityTypes
  NumBackReferences = 2
SPECIFICATION PartsSpec
INVARIANTS UpToDate InputsReady ProcessesMatchNodes ClassesSound OverloadingSound NamesUnique
PROPERTIES NoNeedlessRebuild
CHECK_DEADLOCK FALSE
