CONSTANTS
  NumFiles = 2
  Imports <- ImporterFirst
  Qualities = {"ok"}
  MaxEdits = 3
  Errors <- SomeErrors
  None = None
SPECIFICATION Spec
INVARIANTS ChangesTracked
