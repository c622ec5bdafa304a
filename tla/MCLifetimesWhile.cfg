CONSTANTS
  TagKinds <- MCTagKinds
  FieldTypes <- MCFieldTypes
  FieldTags <- MCFieldTags
  Functions <- MCFunctions
  Copyable = {"H"}
  Referenced = "P"
  Vocabularies <- WhileVocabularies
SPECIFICATION Spec
INVARIANT DestroyedOnce
CHECK_DEADLOCK FALSE
