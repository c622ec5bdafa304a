CONSTANTS
  NumThreads = 2
  Clients = {c1}
  Owner = owner
  Tasks = {1, 2}
  NoTask = NoTask
  MaxYields = 1
SPECIFICATION MCSpec
INVARIANTS TypeOK WakerConsistent NoLostWakeup ThreadsOwnTheirTasks
PROPERTIES PoolSpec EveryTaskTaken ShutdownCompletes
