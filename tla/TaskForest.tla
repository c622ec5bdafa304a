------------------------------ MODULE TaskForest ------------------------------
(***************************************************************************)
(* The tasks of one runner thread of sm_async_net: root tasks and subtasks *)
(* in one map, subtasks linked into the list of their siblings, the list   *)
(* of ready tasks and the stack of tasks to execute next.  The thread      *)
(* executes a task until it waits for a socket or for its subtasks, or     *)
(* finishes; the last subtask to finish hands over to its parent.          *)
(*                                                                         *)
(* User code is any program that keeps to the documented use: a task       *)
(* registers at most one socket operation at a time, joins subtasks with   *)
(* join_subtasks (which adds them and yields), and does not finish with an *)
(* operation registered.  The sockets, the queue the root tasks come from  *)
(* and the shutdown request of module Runner are the environment.          *)
(***************************************************************************)
EXTENDS Integers, Sequences, FiniteSets, Functions

CONSTANTS
  MaxId,        \* bound: task identifiers are 1 .. MaxId
  MaxSubtasks,  \* bound: subtasks joined by one call (join_subtasks takes 2 to 4 or a vector)
  MaxYields     \* bound: yields with nothing to wait for

ASSUME BoundsAssumption == MaxId \in Nat /\ MaxSubtasks \in Nat \ {0} /\ MaxYields \in Nat

VARIABLES
  pc,        \* where the thread is in its main loop
  tasks,     \* tasks_map: identifier -> RunningTask
  next_id,   \* g_next_task_id
  ready,     \* ready_for_execution_tasks still to be executed
  stack,     \* tasks_for_next_execution_stack, the last element on top
  current,   \* g_currently_running_task_id, zero when no task runs
  child,     \* the child to push next when a task has joined subtasks, zero at the end
  awaits,    \* the subtasks whose handles a suspended join_subtasks holds
  yields,    \* yields with nothing to wait for so far (for the bound)
  shutdown   \* the shutdown flag, set by the runner's destructor

vars == <<pc, tasks, next_id, ready, stack, current, child, awaits, yields, shutdown>>

Alive == DOMAIN tasks
Ids == 1 .. MaxId

\* A RunningTask without socket and children, as it is inserted into the map.
NewTask(parent, prev) ==
  [socket |-> FALSE, parent |-> parent, prev_sibling |-> prev, next_sibling |-> 0, last_child |-> 0]

Insert(m, id, task) == [i \in DOMAIN m \cup {id} |-> IF i = id THEN task ELSE m[i]]

RemoveExisting(m, id) == [i \in DOMAIN m \ {id} |-> m[i]]

Top(s) == s[Len(s)]

Pop(s) == SubSeq(s, 1, Len(s) - 1)

-------------------------------------------------------------------------------
(***************************************************************************)
(* Execution of the ready tasks.                                           *)
(***************************************************************************)
\* Mutant: a task stays in the ready list while it is executed.
StartReadyAgain ==
  /\ pc = "exec" /\ stack = <<>> /\ ready # <<>>
  /\ stack' = <<Head(ready)>>
  /\ UNCHANGED <<pc, tasks, next_id, ready, current, child, awaits, yields, shutdown>>

\* Mutant: the ready list is cleared after its first task.
StartReadyOnce ==
  /\ pc = "exec" /\ stack = <<>> /\ ready # <<>>
  /\ stack' = <<Head(ready)>>
  /\ ready' = <<>>
  /\ UNCHANGED <<pc, tasks, next_id, current, child, awaits, yields, shutdown>>

\* The next ready task starts the stack.
StartReady ==
  /\ pc = "exec" /\ stack = <<>> /\ ready # <<>>
  /\ stack' = <<Head(ready)>>
  /\ ready' = Tail(ready)
  /\ UNCHANGED <<pc, tasks, next_id, current, child, awaits, yields, shutdown>>

PopTask ==
  /\ pc = "exec" /\ stack # <<>>
  /\ current' = Top(stack)
  /\ stack' = Pop(stack)
  /\ pc' = "check"
  /\ UNCHANGED <<tasks, next_id, ready, child, awaits, yields, shutdown>>

\* The shutdown flag is read before every resumption.  A join_subtasks that is
\* resumed takes its results and ends.
Resume ==
  /\ pc = "check"
  /\ IF shutdown
     THEN pc' = "cleanup" /\ current' = 0 /\ UNCHANGED awaits
     ELSE pc' = "slice" /\ awaits' = [awaits EXCEPT ![current] = {}] /\ UNCHANGED current
  /\ UNCHANGED <<tasks, next_id, ready, stack, child, yields, shutdown>>

-------------------------------------------------------------------------------
(***************************************************************************)
(* What a task does in a slice.                                            *)
(***************************************************************************)
RegisterCurrentTaskSocketOperation ==
  /\ pc = "slice"
  /\ ~tasks[current].socket /\ tasks[current].last_child = 0
  /\ tasks' = [tasks EXCEPT ![current].socket = TRUE]
  /\ UNCHANGED <<pc, next_id, ready, stack, current, child, awaits, yields, shutdown>>

\* The destructor of the TaskSocketOperationHolder.
CancelTaskSocketOperation ==
  /\ pc = "slice" /\ tasks[current].socket
  /\ tasks' = [tasks EXCEPT ![current].socket = FALSE]
  /\ UNCHANGED <<pc, next_id, ready, stack, current, child, awaits, yields, shutdown>>

\* One subtask becomes the last child of the task.
AddCurrentTaskSubtaskImpl(m, id, subtask) ==
  LET prev   == m[id].last_child
      parent == [m EXCEPT ![id].last_child = subtask]
      linked == IF prev = 0 THEN parent ELSE [parent EXCEPT ![prev].next_sibling = subtask]
  IN  Insert(linked, subtask, NewTask(id, prev))

\* join_subtasks adds its subtasks one after the other.
AddCurrentTaskSubtask ==
  /\ pc \in {"slice", "join"} /\ ~tasks[current].socket
  /\ next_id <= MaxId /\ Cardinality(awaits[current]) < MaxSubtasks
  /\ tasks' = AddCurrentTaskSubtaskImpl(tasks, current, next_id)
  /\ next_id' = next_id + 1
  /\ awaits' = [awaits EXCEPT ![current] = @ \cup {next_id}]
  /\ pc' = "join"
  /\ UNCHANGED <<ready, stack, current, child, yields, shutdown>>

\* Then it yields, and the runner finds children.
YieldJoin ==
  /\ pc = "join"
  /\ child' = tasks[current].last_child
  /\ pc' = "push"
  /\ UNCHANGED <<tasks, next_id, ready, stack, current, awaits, yields, shutdown>>

\* Mutant: the children are put at the bottom of the stack.
PushChildBelow ==
  /\ pc = "push" /\ child # 0
  /\ stack' = <<child>> \o stack
  /\ child' = tasks[child].prev_sibling
  /\ UNCHANGED <<pc, tasks, next_id, ready, current, awaits, yields, shutdown>>

\* The children are pushed from the last one back, so that the first one is on top.
PushChild ==
  /\ pc = "push" /\ child # 0
  /\ stack' = Append(stack, child)
  /\ child' = tasks[child].prev_sibling
  /\ UNCHANGED <<pc, tasks, next_id, ready, current, awaits, yields, shutdown>>

PushEnd ==
  /\ pc = "push" /\ child = 0
  /\ current' = 0
  /\ pc' = "exec"
  /\ UNCHANGED <<tasks, next_id, ready, stack, child, awaits, yields, shutdown>>

\* A yield with a socket operation registered: the task waits for poll.
YieldSocket ==
  /\ pc = "slice" /\ tasks[current].socket
  /\ current' = 0
  /\ pc' = "exec"
  /\ UNCHANGED <<tasks, next_id, ready, stack, child, awaits, yields, shutdown>>

\* A yield with nothing to wait for: the task is resumed at once.
YieldReady ==
  /\ pc = "slice" /\ ~tasks[current].socket /\ tasks[current].last_child = 0
  /\ yields < MaxYields
  /\ yields' = yields + 1
  /\ pc' = "check"
  /\ UNCHANGED <<tasks, next_id, ready, stack, current, child, awaits, shutdown>>

\* Mutant: the next sibling keeps its link to the finished task.
UnlinkedForward(m, id) ==
  LET t == m[id]
      n == RemoveExisting(m, id)
      p == IF t.parent # 0 /\ t.prev_sibling # 0
           THEN [n EXCEPT ![t.prev_sibling].next_sibling = t.next_sibling] ELSE n
  IN  IF t.parent # 0 /\ p[t.parent].last_child = id
      THEN [p EXCEPT ![t.parent].last_child = t.prev_sibling]
      ELSE p

\* The map without a finished task, and the list of its siblings without it.
Unlinked(m, id) ==
  LET t == m[id]
      n == RemoveExisting(m, id)
      p == IF t.parent # 0 /\ t.prev_sibling # 0
           THEN [n EXCEPT ![t.prev_sibling].next_sibling = t.next_sibling] ELSE n
      q == IF t.parent # 0 /\ t.next_sibling # 0
           THEN [p EXCEPT ![t.next_sibling].prev_sibling = t.prev_sibling] ELSE p
  IN  IF t.parent # 0 /\ q[t.parent].last_child = id
      THEN [q EXCEPT ![t.parent].last_child = t.prev_sibling]
      ELSE q

\* Mutant: the parent goes on when the child that was added last is gone.
ParentAfterLastAdded(m, id) ==
  LET t == m[id] IN IF t.parent # 0 /\ m[t.parent].last_child = id THEN <<t.parent>> ELSE <<>>

\* Mutant: the parent's last child is compared after the finished task was unlinked.
ParentAfterUnlink(m, id) ==
  LET t == m[id] IN
    IF t.parent # 0 /\ Unlinked(m, id)[t.parent].last_child = id THEN <<t.parent>> ELSE <<>>

\* The parent goes on when its last child is gone.
ParentToExecute(m, id) ==
  LET t == m[id] IN
    IF t.parent # 0 /\ m[t.parent].last_child = id /\ t.prev_sibling = 0
    THEN <<t.parent>> ELSE <<>>

\* The slice ends the task.
Finish ==
  /\ pc = "slice"
  /\ ~tasks[current].socket /\ tasks[current].last_child = 0
  /\ tasks' = Unlinked(tasks, current)
  /\ stack' = stack \o ParentToExecute(tasks, current)
  /\ current' = 0
  /\ pc' = "exec"
  /\ UNCHANGED <<next_id, ready, child, awaits, yields, shutdown>>

-------------------------------------------------------------------------------
(***************************************************************************)
(* The rest of the main loop.                                              *)
(***************************************************************************)
AfterExecution ==
  /\ pc = "exec" /\ stack = <<>> /\ ready = <<>>
  /\ pc' = IF shutdown THEN "cleanup" ELSE "extract"
  /\ UNCHANGED <<tasks, next_id, ready, stack, current, child, awaits, yields, shutdown>>

\* Mutant: a root task does not use up its identifier.
ExtractSameId ==
  /\ pc = "extract"
  /\ next_id <= MaxId
  /\ IF shutdown
     THEN pc' = "cleanup" /\ UNCHANGED <<tasks, ready>>
     ELSE /\ tasks' = Insert(tasks, next_id, NewTask(0, 0))
          /\ ready' = Append(ready, next_id)
          /\ UNCHANGED pc
  /\ UNCHANGED <<next_id, stack, current, child, awaits, yields, shutdown>>

\* One root task from the queue.
ExtractTask ==
  /\ pc = "extract"
  /\ next_id <= MaxId
  /\ IF shutdown
     THEN pc' = "cleanup" /\ UNCHANGED <<tasks, next_id, ready>>
     ELSE /\ tasks' = Insert(tasks, next_id, NewTask(0, 0))
          /\ ready' = Append(ready, next_id)
          /\ next_id' = next_id + 1
          /\ UNCHANGED pc
  /\ UNCHANGED <<stack, current, child, awaits, yields, shutdown>>

ExtractEnd ==
  /\ pc = "extract"
  /\ pc' = "poll"
  /\ UNCHANGED <<tasks, next_id, ready, stack, current, child, awaits, yields, shutdown>>

\* poll returns with any n of the sockets ready; their tasks are appended in
\* the hash map's order, which is any order.
Poll ==
  /\ pc = "poll"
  /\ \E n \in 0 .. MaxId :
       \E s \in Injection(1 .. n, {id \in Alive : tasks[id].socket}) : ready' = ready \o s
  /\ pc' = "exec"
  /\ UNCHANGED <<tasks, next_id, stack, current, child, awaits, yields, shutdown>>

\* The end of the thread destroys the root tasks, and with them the subtasks.
Cleanup ==
  /\ pc = "cleanup"
  /\ tasks' = <<>> /\ ready' = <<>> /\ stack' = <<>>
  /\ awaits' = [id \in Ids |-> {}]
  /\ pc' = "exited"
  /\ UNCHANGED <<next_id, current, child, yields, shutdown>>

RequestShutdown ==
  /\ ~shutdown
  /\ shutdown' = TRUE
  /\ UNCHANGED <<pc, tasks, next_id, ready, stack, current, child, awaits, yields>>

Done == pc = "exited" /\ UNCHANGED vars

-------------------------------------------------------------------------------
Init ==
  /\ pc = "exec"
  /\ tasks = <<>>
  /\ next_id = 1
  /\ ready = <<>> /\ stack = <<>> /\ current = 0 /\ child = 0
  /\ awaits = [id \in Ids |-> {}]
  /\ yields = 0
  /\ shutdown = FALSE

EndSlice == YieldJoin \/ YieldSocket \/ YieldReady \/ Finish

Slice == EndSlice \/ AddCurrentTaskSubtask
         \/ RegisterCurrentTaskSocketOperation \/ CancelTaskSocketOperation

MainLoop == StartReady \/ PopTask \/ Resume \/ PushChild \/ PushEnd \/ AfterExecution
            \/ ExtractTask \/ ExtractEnd \/ Poll \/ Cleanup

Next == Slice \/ MainLoop \/ RequestShutdown \/ Done

\* The thread runs, and the slices of a task end.
Fairness == WF_vars(MainLoop) /\ WF_vars(EndSlice)

Spec == Init /\ [][Next]_vars /\ Fairness

-------------------------------------------------------------------------------
(***************************************************************************)
(* Properties.                                                             *)
(***************************************************************************)
TaskRecords == [socket : BOOLEAN, parent : Ids \cup {0}, prev_sibling : Ids \cup {0},
                next_sibling : Ids \cup {0}, last_child : Ids \cup {0}]

\* Every variable keeps its type.
TypeOK ==
  /\ pc \in {"exec", "check", "slice", "join", "push", "extract", "poll", "cleanup", "exited"}
  /\ Alive \subseteq 1 .. next_id - 1
  /\ \A id \in Alive : tasks[id] \in TaskRecords
  /\ next_id \in 1 .. MaxId + 1
  /\ ready \in Seq(Ids) /\ stack \in Seq(Ids)
  /\ current \in Ids \cup {0} /\ child \in Ids \cup {0}
  /\ awaits \in [Ids -> SUBSET Ids]
  /\ yields \in 0 .. MaxYields /\ shutdown \in BOOLEAN

\* The siblings of every parent form one doubly linked list in the order they
\* were added, which ends at the parent's last_child.
SiblingLists ==
  \A id \in Alive :
    LET t == tasks[id] IN
      /\ t.parent = 0 => t.prev_sibling = 0 /\ t.next_sibling = 0
      /\ t.parent # 0 =>
           /\ t.parent \in Alive
           /\ t.next_sibling = 0 <=> tasks[t.parent].last_child = id
      /\ t.prev_sibling # 0 =>
           /\ t.prev_sibling \in Alive /\ t.prev_sibling < id
           /\ tasks[t.prev_sibling].next_sibling = id
           /\ tasks[t.prev_sibling].parent = t.parent
      /\ t.next_sibling # 0 =>
           /\ t.next_sibling \in Alive
           /\ tasks[t.next_sibling].prev_sibling = id
      /\ t.last_child # 0 =>
           /\ t.last_child \in Alive
           /\ tasks[t.last_child].parent = id
           /\ tasks[t.last_child].next_sibling = 0

\* The tasks the thread is going to execute, in no order.
Scheduled == stack \o ready \o (IF pc \in {"check", "slice"} THEN <<current>> ELSE <<>>)

\* What the thread is going to execute can be executed, once: it is in the map
\* (or the runner halts with "A task scheduled for execution was removed!"), it
\* has no children, and it is nowhere else on the stack or in the ready list.
ScheduledExecutable ==
  pc \notin {"cleanup", "exited"} =>
    /\ \A i \in DOMAIN Scheduled : Scheduled[i] \in Alive /\ tasks[Scheduled[i]].last_child = 0
    /\ IsInjective(Scheduled)

\* No task is forgotten: a task that waits neither for a socket nor for a child
\* is running, on the stack or in the ready list, or the running task has joined
\* it and is about to push it; and a task never waits for both.
NoTaskForgotten ==
  pc \notin {"cleanup", "exited"} =>
    \A id \in Alive :
      /\ ~tasks[id].socket /\ tasks[id].last_child = 0 =>
           \/ id \in Range(Scheduled)
           \/ pc = "join" /\ tasks[id].parent = current
           \/ pc = "push" /\ tasks[id].parent = current /\ id <= child
      /\ ~(tasks[id].socket /\ tasks[id].last_child # 0)

\* A task that called join_subtasks is about to be resumed only when all the
\* subtasks are done, the assertion after the yield of join_subtasks; until
\* then they are its children.
JoinsCompleted ==
  /\ pc = "check" => awaits[current] \cap Alive = {}
  /\ \A id \in Alive : \A s \in awaits[id] \cap Alive : tasks[s].parent = id

\* Children are executed in the order they were passed to join_subtasks: of two
\* siblings on the stack the older one is nearer to the top.
ChildrenInOrder ==
  \A i, j \in DOMAIN stack :
    i < j /\ stack[i] \in Alive /\ stack[j] \in Alive
      /\ tasks[stack[i]].parent = tasks[stack[j]].parent /\ tasks[stack[i]].parent # 0
      => stack[j] < stack[i]

\* A task that was scheduled is executed, unless the runner shuts down: no
\* order of children, parents and sockets starves it.
ScheduledRuns ==
  \A id \in Ids : id \in Range(stack \o ready) ~> current = id \/ shutdown

=============================================================================
