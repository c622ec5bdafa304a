CONSTANTS
  Projects <- FailingProject
  NoFile = NoFile
SPECIFICATION Spec
INVARIANTS UpToDate
