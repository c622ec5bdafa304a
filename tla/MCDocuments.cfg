CONSTANTS
  NumFiles = 2
  Imports <- ImporterLast
  Qualities = {"ok", "syntax", "lexical"}
  MaxEdits = 3
  Errors <- SomeErrors
  None = None
SPECIFICATION Spec
INVARIANTS TypeOK DiagnosticsCurrent ChangesToErase IncrementalChangesTracked CompiledImportsFollowed
PROPERTIES RebuildsSettle
