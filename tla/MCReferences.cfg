CONSTANTS
  TagKinds <- MCTagKinds
  FieldTypes <- MCFieldTypes
  FieldTags <- MCFieldTags
  Functions <- MCFunctions
  Copyable = {"H"}
  Referenced = "P"
  Vocabularies <- MCVocabularies
  Variables <- MCVariables
  Temporaries <- MCTemporaries
SPECIFICATION ReferencesSpec
INVARIANTS
  NoDanglingUse DestroyedOnce ReferencesExclusive ReferenceNotationKept AssertionsHold
  SearchFindsDerived NamesExclusive
PROPERTIES DerivationsKept NoneLeftDangling
CHECK_DEADLOCK FALSE
