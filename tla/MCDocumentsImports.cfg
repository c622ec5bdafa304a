CONSTANTS
  NumFiles = 2
  Imports <- ImporterFirst
  Qualities = {"ok", "syntax"}
  MaxEdits = 3
  Errors <- SomeErrors
  None = None
SPECIFICATION Spec
INVARIANTS ImportsFollowed
