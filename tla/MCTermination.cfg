CONSTANTS
  Names <- MCNames
  Vocabularies <- MCVocabularies
  NoFile = NoFile
SPECIFICATION PartsSpec
INVARIANTS RoundTrip AcceptedIsBalanced PrioritiesRespected
PROPERTIES ParsingTerminates LoopTerminates
CHECK_DEADLOCK FALSE
