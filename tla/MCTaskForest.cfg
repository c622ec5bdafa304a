CONSTANTS
  MaxId = 5
  MaxSubtasks = 3
  MaxYields = 1
SPECIFICATION Spec
INVARIANTS SiblingLists ScheduledExecutable NoTaskForgotten JoinsCompleted ChildrenInOrder
PROPERTIES ScheduledRuns
