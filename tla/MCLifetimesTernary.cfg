CONSTANTS
  TagKinds <- MCTagKinds
  FieldTypes <- MCFieldTypes
  FieldTags <- MCFieldTags
  Functions <- MCFunctions
  Copyable = {"H"}
  Referenced = "P"
  Vocabularies <- TernaryVocabularies
SPECIFICATION Spec
INVARIANT ReferenceNotationKept
CHECK_DEADLOCK FALSE
