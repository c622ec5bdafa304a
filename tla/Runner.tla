-------------------------------- MODULE Runner --------------------------------
(***************************************************************************)
(* The multithreaded runner of the sm_async_net library: a queue of root   *)
(* tasks shared by the runner threads, one PollWaker (an atomic flag and a *)
(* non-blocking pipe) per thread, the main loop of each thread, the two    *)
(* add_task functions and the shutdown sequence of the destructor.         *)
(*                                                                         *)
(* One step is one access to shared state: an atomic swap, a pipe write or *)
(* read, a read of the shutdown flag, a critical section of the queue's    *)
(* lock (split into one step per popped task), a poll call, a slice of a   *)
(* task between two yields.  Subtasks live inside one thread; they are     *)
(* the subject of module TaskForest.                                       *)
(***************************************************************************)
EXTENDS Integers, Sequences, FiniteSets

CONSTANTS
  NumThreads,   \* the argument of create_multithreaded_runner
  Clients,      \* threads outside the runner that share it to call add_task
  Owner,        \* the thread that owns the runner and destroys it
  Tasks,        \* root tasks (async function objects)
  NoTask,
  MaxYields     \* bound: yields with nothing to wait for, over all tasks

(***************************************************************************)
(* runner::constructor limits the number of threads to 1..128.             *)
(***************************************************************************)
NumThreadsLimited ==
  IF NumThreads < 1 THEN 1 ELSE IF NumThreads > 128 THEN 128 ELSE NumThreads

Threads == 1 .. NumThreadsLimited

\* The processes that may be inside a call of add_task or of the destructor.
Callers == Threads \cup Clients \cup {Owner}

ASSUME ConstantsAssumption ==
  /\ NumThreads \in Nat
  /\ Clients \cap Threads = {}
  /\ Owner \notin Threads \cup Clients
  /\ NoTask \notin Tasks
  /\ MaxYields \in Nat

VARIABLES
  pc,          \* where each caller is
  in_stack,    \* Queue: the pushed end (its last element was pushed last)
  out_stack,   \* Queue: the popped end (its last element is popped next)
  lock,        \* the thread holding the queue's lock across steps, or 0
  to_take,     \* number of pops the lock holder still has to do
  shutdown,    \* SharedState.shutdown_flag
  flag,        \* PollWaker.wakeup_in_progress_ of each thread's waker
  pipe,        \* number of bytes in each waker's pipe
  waking,      \* the waker a caller's "foreach waker: Wake" loop has reached
  arg,         \* the task a caller passed to add_task
  fresh,       \* tasks not yet passed to add_task
  tasks_map,   \* root tasks owned by each thread
  ready,       \* ready_for_execution_tasks still to be executed, per thread
  waiting,     \* tasks with a socket_to_wait
  sleep,       \* should_sleep computed by each thread for its next poll
  yields,      \* yields made so far (for the bound)
  finished,    \* tasks that ran to completion
  destroyed,   \* tasks destroyed at a yield point by the shutdown
  dropped      \* tasks add_task discarded

queue_vars == <<in_stack, out_stack, lock, to_take>>
waker_vars == <<flag, pipe, waking>>
task_vars  == <<tasks_map, ready, waiting, yields, finished, destroyed>>
vars == <<pc, queue_vars, shutdown, waker_vars, arg, fresh, task_vars, sleep,
          dropped>>

-------------------------------------------------------------------------------
(***************************************************************************)
(* class Queue: a FIFO of two stacks.                                      *)
(***************************************************************************)
QueueReverse(s) == [i \in 1 .. Len(s) |-> s[Len(s) + 1 - i]]

GetSize == Len(in_stack) + Len(out_stack)

IsEmpty == in_stack = <<>> /\ out_stack = <<>>

Push(k) == in_stack' = Append(in_stack, k) /\ UNCHANGED out_stack

\* Mutant: the elements keep their order when they move to the out stack.
RefilledInOrder == IF out_stack = <<>> THEN in_stack ELSE out_stack

\* TryPop refills the out stack only when it is empty.
Refilled == IF out_stack = <<>> THEN QueueReverse(in_stack) ELSE out_stack

PopResult == Refilled[Len(Refilled)]

TryPop ==
  /\ out_stack' = SubSeq(Refilled, 1, Len(Refilled) - 1)
  /\ in_stack'  = IF out_stack = <<>> THEN <<>> ELSE in_stack

-------------------------------------------------------------------------------
(***************************************************************************)
(* PollWaker::Wake, in two steps, inside the loop over all the wakers that *)
(* both add_task functions and the destructor end with.                    *)
(***************************************************************************)
\* Where a caller goes after the last waker of its loop.
AfterWakes(c) == IF c \in Threads THEN "run" ELSE IF c = Owner THEN "join" ELSE "idle"

\* Mutant: the loop goes one waker too far.
NextWakerPastEnd(c) ==
  IF waking[c] <= NumThreadsLimited
  THEN /\ waking' = [waking EXCEPT ![c] = @ + 1]
       /\ pc' = [pc EXCEPT ![c] = "swap"]
  ELSE /\ waking' = [waking EXCEPT ![c] = 0]
       /\ pc' = [pc EXCEPT ![c] = AfterWakes(c)]

\* The loop's step to the next waker, or its end.
NextWaker(c) ==
  IF waking[c] < NumThreadsLimited
  THEN /\ waking' = [waking EXCEPT ![c] = @ + 1]
       /\ pc' = [pc EXCEPT ![c] = "swap"]
  ELSE /\ waking' = [waking EXCEPT ![c] = 0]
       /\ pc' = [pc EXCEPT ![c] = AfterWakes(c)]

StartWakes(c) ==
  /\ waking' = [waking EXCEPT ![c] = 1]
  /\ pc' = [pc EXCEPT ![c] = "swap"]

\* Mutant: Wake writes a byte although a wakeup is in progress.
WakeAlwaysWrites(c) ==
  /\ pc[c] = "swap"
  /\ flag' = [flag EXCEPT ![waking[c]] = TRUE]
  /\ pc' = [pc EXCEPT ![c] = "write"]
  /\ UNCHANGED <<queue_vars, shutdown, pipe, waking, arg, fresh, task_vars, sleep, dropped>>

WakeSwap(c) ==
  /\ pc[c] = "swap"
  /\ flag' = [flag EXCEPT ![waking[c]] = TRUE]
  /\ IF flag[waking[c]]
     THEN NextWaker(c)
     ELSE pc' = [pc EXCEPT ![c] = "write"] /\ UNCHANGED waking
  /\ UNCHANGED <<queue_vars, shutdown, pipe, arg, fresh, task_vars, sleep, dropped>>

WakeWrite(c) ==
  /\ pc[c] = "write"
  /\ pipe' = [pipe EXCEPT ![waking[c]] = @ + 1]
  /\ NextWaker(c)
  /\ UNCHANGED <<queue_vars, shutdown, flag, arg, fresh, task_vars, sleep, dropped>>

(***************************************************************************)
(* PollWaker::ResetWake, in two steps.  The read end of the pipe is        *)
(* non-blocking: reading an empty pipe changes nothing.                    *)
(***************************************************************************)
ResetSwap(t) ==
  /\ pc[t] = "reset"
  /\ flag' = [flag EXCEPT ![t] = FALSE]
  /\ pc' = [pc EXCEPT ![t] = IF flag[t] THEN "read" ELSE "exec"]
  /\ UNCHANGED <<queue_vars, shutdown, pipe, waking, arg, fresh, task_vars, sleep, dropped>>

\* Mutant: ResetWake empties the pipe instead of reading one byte.
ResetReadAll(t) ==
  /\ pc[t] = "read"
  /\ pipe' = [pipe EXCEPT ![t] = 0]
  /\ pc' = [pc EXCEPT ![t] = "exec"]
  /\ UNCHANGED <<queue_vars, shutdown, flag, waking, arg, fresh, task_vars, sleep, dropped>>

ResetRead(t) ==
  /\ pc[t] = "read"
  /\ pipe' = [pipe EXCEPT ![t] = IF @ > 0 THEN @ - 1 ELSE 0]
  /\ pc' = [pc EXCEPT ![t] = "exec"]
  /\ UNCHANGED <<queue_vars, shutdown, flag, waking, arg, fresh, task_vars, sleep, dropped>>

-------------------------------------------------------------------------------
(***************************************************************************)
(* runner::add_task, called by a client.  A task that is already done is   *)
(* discarded; clients hold the runner, so no call starts after the         *)
(* destructor did.                                                         *)
(***************************************************************************)
ClientAddDone(c) ==
  /\ pc[c] = "idle" /\ pc[Owner] = "alive"
  /\ \E k \in fresh : fresh' = fresh \ {k} /\ dropped' = dropped \cup {k}
  /\ UNCHANGED <<pc, queue_vars, shutdown, waker_vars, arg, task_vars, sleep>>

ClientAdd(c) ==
  /\ pc[c] = "idle" /\ pc[Owner] = "alive"
  /\ \E k \in fresh :
       /\ fresh' = fresh \ {k}
       /\ arg' = [arg EXCEPT ![c] = k]
  /\ pc' = [pc EXCEPT ![c] = "push"]
  /\ UNCHANGED <<queue_vars, shutdown, waker_vars, task_vars, sleep, dropped>>

\* Mutant: add_task does not wake the threads.
PushWithoutWakes(c) ==
  /\ pc[c] = "push"
  /\ lock = 0
  /\ Push(arg[c])
  /\ arg' = [arg EXCEPT ![c] = NoTask]
  /\ pc' = [pc EXCEPT ![c] = AfterWakes(c)]
  /\ UNCHANGED <<lock, to_take, shutdown, waker_vars, fresh, task_vars, sleep, dropped>>

\* The critical section of both add_task functions.
PushTask(c) ==
  /\ pc[c] = "push"
  /\ lock = 0
  /\ Push(arg[c])
  /\ arg' = [arg EXCEPT ![c] = NoTask]
  /\ StartWakes(c)
  /\ UNCHANGED <<lock, to_take, shutdown, flag, pipe, fresh, task_vars, sleep, dropped>>

(***************************************************************************)
(* The free function add_task, called by the task running on thread t: it  *)
(* discards the new task when it is already done or the runner is shutting *)
(* down.                                                                   *)
(***************************************************************************)
FreeAddDiscards(t) ==
  /\ pc[t] = "run"
  /\ \E k \in fresh : fresh' = fresh \ {k} /\ dropped' = dropped \cup {k}
  /\ UNCHANGED <<pc, queue_vars, shutdown, waker_vars, arg, task_vars, sleep>>

FreeAdd(t) ==
  /\ pc[t] = "run"
  /\ ~shutdown
  /\ \E k \in fresh :
       /\ fresh' = fresh \ {k}
       /\ arg' = [arg EXCEPT ![t] = k]
  /\ pc' = [pc EXCEPT ![t] = "push"]
  /\ UNCHANGED <<queue_vars, shutdown, waker_vars, task_vars, sleep, dropped>>

\* Mutant: the destructor sets the flag and does not wake the threads.
DestructionWithoutWakes ==
  /\ pc[Owner] = "alive"
  /\ \A c \in Clients : pc[c] = "idle"
  /\ shutdown' = TRUE
  /\ pc' = [pc EXCEPT ![Owner] = "join"]
  /\ UNCHANGED <<queue_vars, waker_vars, arg, fresh, task_vars, sleep, dropped>>

(***************************************************************************)
(* runner::destructor.  The owner calls it when no client uses the runner. *)
(***************************************************************************)
BeginDestruction ==
  /\ pc[Owner] = "alive"
  /\ \A c \in Clients : pc[c] = "idle"
  /\ shutdown' = TRUE
  /\ StartWakes(Owner)
  /\ UNCHANGED <<queue_vars, flag, pipe, arg, fresh, task_vars, sleep, dropped>>

\* The destructors of the threads join them; then the shared state and the
\* tasks still in the queue go away.
Join ==
  /\ pc[Owner] = "join"
  /\ \A t \in Threads : pc[t] = "exited"
  /\ pc' = [pc EXCEPT ![Owner] = "gone"]
  /\ destroyed' = destroyed \cup {in_stack[i] : i \in DOMAIN in_stack}
                            \cup {out_stack[i] : i \in DOMAIN out_stack}
  /\ in_stack' = <<>> /\ out_stack' = <<>>
  /\ UNCHANGED <<lock, to_take, shutdown, waker_vars, arg, fresh, tasks_map,
                 ready, waiting, yields, finished, sleep, dropped>>

-------------------------------------------------------------------------------
(***************************************************************************)
(* The main loop of a runner thread.  First it executes the ready tasks,   *)
(* each until it finishes or waits for a socket, and reads the shutdown    *)
(* flag before every resumption.                                           *)
(***************************************************************************)
Exec(t) ==
  /\ pc[t] = "exec"
  /\ pc' = [pc EXCEPT ![t] = IF ready[t] = <<>> THEN "check"
                             ELSE IF shutdown THEN "cleanup" ELSE "run"]
  /\ UNCHANGED <<queue_vars, shutdown, waker_vars, arg, fresh, task_vars, sleep, dropped>>

\* Mutant: a finished task stays in the ready list.
ResumeDoneStaysReady(t) ==
  /\ pc[t] = "run"
  /\ LET k == Head(ready[t]) IN
       /\ tasks_map' = [tasks_map EXCEPT ![t] = @ \ {k}]
       /\ waiting' = waiting \ {k}
       /\ finished' = finished \cup {k}
  /\ pc' = [pc EXCEPT ![t] = "exec"]
  /\ UNCHANGED <<queue_vars, shutdown, waker_vars, arg, fresh, ready, yields, destroyed, sleep, dropped>>

\* The slice ends the task.
ResumeDone(t) ==
  /\ pc[t] = "run"
  /\ LET k == Head(ready[t]) IN
       /\ tasks_map' = [tasks_map EXCEPT ![t] = @ \ {k}]
       /\ waiting' = waiting \ {k}
       /\ finished' = finished \cup {k}
  /\ ready' = [ready EXCEPT ![t] = Tail(@)]
  /\ pc' = [pc EXCEPT ![t] = "exec"]
  /\ UNCHANGED <<queue_vars, shutdown, waker_vars, arg, fresh, yields, destroyed, sleep, dropped>>

\* The slice ends in a yield with a socket operation registered.
ResumeWaits(t) ==
  /\ pc[t] = "run"
  /\ waiting' = waiting \cup {Head(ready[t])}
  /\ ready' = [ready EXCEPT ![t] = Tail(@)]
  /\ pc' = [pc EXCEPT ![t] = "exec"]
  /\ UNCHANGED <<queue_vars, shutdown, waker_vars, arg, fresh, tasks_map, yields,
                 finished, destroyed, sleep, dropped>>

\* The slice ends in a yield with nothing to wait for: it is resumed again.
ResumeYields(t) ==
  /\ pc[t] = "run"
  /\ yields < MaxYields
  /\ yields' = yields + 1
  /\ waiting' = waiting \ {Head(ready[t])}
  /\ pc' = [pc EXCEPT ![t] = "exec"]
  /\ UNCHANGED <<queue_vars, shutdown, waker_vars, arg, fresh, tasks_map, ready,
                 finished, destroyed, sleep, dropped>>

\* The read of the shutdown flag between execution and extraction.
CheckShutdown(t) ==
  /\ pc[t] = "check"
  /\ pc' = [pc EXCEPT ![t] = IF shutdown THEN "cleanup" ELSE "lock"]
  /\ UNCHANGED <<queue_vars, shutdown, waker_vars, arg, fresh, task_vars, sleep, dropped>>

(***************************************************************************)
(* Extraction: under the queue's lock, half of the queued tasks, at least  *)
(* one, are moved into the thread's map.                                   *)
(***************************************************************************)
NumTasksToTake == IF GetSize = 0 THEN 0
                  ELSE IF GetSize \div 2 > 1 THEN GetSize \div 2 ELSE 1

LockQueue(t) ==
  /\ pc[t] = "lock"
  /\ lock = 0
  /\ lock' = t
  /\ to_take' = NumTasksToTake
  /\ pc' = [pc EXCEPT ![t] = "take"]
  /\ UNCHANGED <<in_stack, out_stack, shutdown, waker_vars, arg, fresh, task_vars, sleep, dropped>>

\* One iteration of the loop; leaving the main loop releases the lock.
TakeOne(t) ==
  /\ pc[t] = "take"
  /\ to_take > 0
  /\ IF shutdown
     THEN /\ pc' = [pc EXCEPT ![t] = "cleanup"]
          /\ lock' = 0 /\ to_take' = 0
          /\ UNCHANGED <<in_stack, out_stack, tasks_map, ready>>
     ELSE /\ TryPop
          /\ tasks_map' = [tasks_map EXCEPT ![t] = @ \cup {PopResult}]
          /\ ready' = [ready EXCEPT ![t] = Append(@, PopResult)]
          /\ to_take' = to_take - 1
          /\ UNCHANGED <<pc, lock>>
  /\ UNCHANGED <<shutdown, waker_vars, arg, fresh, waiting, yields, finished,
                 destroyed, sleep, dropped>>

UnlockQueue(t) ==
  /\ pc[t] = "take"
  /\ to_take = 0
  /\ lock' = 0
  /\ sleep' = [sleep EXCEPT ![t] = IsEmpty /\ ready[t] = <<>>]
  /\ pc' = [pc EXCEPT ![t] = "poll"]
  /\ UNCHANGED <<in_stack, out_stack, to_take, shutdown, waker_vars, arg, fresh, task_vars, dropped>>

(***************************************************************************)
(* The poll call: with an infinite timeout it returns when the waker's     *)
(* pipe holds a byte or a socket is ready, with a zero timeout at once.    *)
(* The ready sockets' tasks are appended in the hash map's order, which is *)
(* any order.                                                              *)
(***************************************************************************)
Orders(S) == {s \in [1 .. Cardinality(S) -> S] :
                \A i, j \in 1 .. Cardinality(S) : s[i] = s[j] => i = j}

Poll(t) ==
  /\ pc[t] = "poll"
  /\ \E S \in SUBSET (tasks_map[t] \cap waiting) :
       /\ sleep[t] => pipe[t] > 0 \/ S # {}
       /\ \E s \in Orders(S) : ready' = [ready EXCEPT ![t] = @ \o s]
  /\ pc' = [pc EXCEPT ![t] = IF pipe[t] > 0 THEN "reset" ELSE "exec"]
  /\ UNCHANGED <<queue_vars, shutdown, waker_vars, arg, fresh, tasks_map, waiting,
                 yields, finished, destroyed, sleep, dropped>>

\* The cleanup after the main loop destroys the tasks the thread owns.
Cleanup(t) ==
  /\ pc[t] = "cleanup"
  /\ destroyed' = destroyed \cup tasks_map[t]
  /\ waiting' = waiting \ tasks_map[t]
  /\ tasks_map' = [tasks_map EXCEPT ![t] = {}]
  /\ ready' = [ready EXCEPT ![t] = <<>>]
  /\ pc' = [pc EXCEPT ![t] = "exited"]
  /\ UNCHANGED <<queue_vars, shutdown, waker_vars, arg, fresh, yields, finished, sleep, dropped>>

-------------------------------------------------------------------------------
Init ==
  /\ pc = [c \in Callers |-> IF c \in Threads THEN "exec"
                             ELSE IF c = Owner THEN "alive" ELSE "idle"]
  /\ in_stack = <<>> /\ out_stack = <<>> /\ lock = 0 /\ to_take = 0
  /\ shutdown = FALSE
  /\ flag = [t \in Threads |-> FALSE]
  /\ pipe = [t \in Threads |-> 0]
  /\ waking = [c \in Callers |-> 0]
  /\ arg = [c \in Callers |-> NoTask]
  /\ fresh = Tasks
  /\ tasks_map = [t \in Threads |-> {}]
  /\ ready = [t \in Threads |-> <<>>]
  /\ waiting = {} /\ yields = 0
  /\ finished = {} /\ destroyed = {} /\ dropped = {}
  /\ sleep = [t \in Threads |-> FALSE]

Call(c) == PushTask(c) \/ WakeSwap(c) \/ WakeWrite(c)

Execute(t) == Exec(t) \/ ResumeDone(t) \/ ResumeWaits(t) \/ ResumeYields(t)
              \/ FreeAddDiscards(t) \/ FreeAdd(t)

Extract(t) == CheckShutdown(t) \/ LockQueue(t) \/ TakeOne(t) \/ UnlockQueue(t)

PollAndReset(t) == Poll(t) \/ ResetSwap(t) \/ ResetRead(t)

RunnerThread(t) == Execute(t) \/ Extract(t) \/ PollAndReset(t) \/ Cleanup(t)

Client(c) == ClientAddDone(c) \/ ClientAdd(c)

\* The runner is gone: the program goes on without it.
Done == pc[Owner] = "gone" /\ UNCHANGED vars

Next ==
  \/ \E c \in Callers : Call(c)
  \/ \E t \in Threads : RunnerThread(t)
  \/ \E c \in Clients : Client(c)
  \/ BeginDestruction \/ Join \/ Done

SafeSpec == Init /\ [][Next]_vars

(***************************************************************************)
(* Fairness: the operating system runs every thread that can go on; a poll *)
(* call returns once the pipe it watches holds a byte, and a task's slices *)
(* end (its yields are bounded).  Nothing is assumed of the sockets, of    *)
(* the clients' calls or of the destruction.                               *)
(***************************************************************************)
PollWakes(t) == Poll(t) /\ (pipe[t] > 0 \/ ~sleep[t])

ThreadProgress(t) ==
  Exec(t) \/ ResumeDone(t) \/ ResumeWaits(t) \/ Extract(t) \/ PollWakes(t)
  \/ ResetSwap(t) \/ ResetRead(t) \/ Cleanup(t)

Fairness ==
  /\ \A t \in Threads : WF_vars(ThreadProgress(t))
  /\ \A c \in Callers : WF_vars(WakeSwap(c) \/ WakeWrite(c)) /\ WF_vars(PushTask(c))
  /\ WF_vars(Join)

Spec == SafeSpec /\ Fairness

-------------------------------------------------------------------------------
(***************************************************************************)
(* Properties.                                                             *)
(***************************************************************************)
InQueue == {in_stack[i] : i \in DOMAIN in_stack} \cup {out_stack[i] : i \in DOMAIN out_stack}

\* Every variable keeps its type.
TypeOK ==
  /\ pc \in [Callers -> {"exec", "run", "check", "lock", "take", "poll", "reset", "read",
                         "cleanup", "exited", "idle", "push", "swap", "write",
                         "alive", "join", "gone"}]
  /\ in_stack \in Seq(Tasks) /\ out_stack \in Seq(Tasks)
  /\ lock \in Threads \cup {0} /\ to_take \in Nat
  /\ shutdown \in BOOLEAN
  /\ flag \in [Threads -> BOOLEAN]
  /\ pipe \in [Threads -> Nat]
  /\ waking \in [Callers -> Threads \cup {0}]
  /\ arg \in [Callers -> Tasks \cup {NoTask}]
  /\ tasks_map \in [Threads -> SUBSET Tasks]
  /\ ready \in [Threads -> Seq(Tasks)]
  /\ waiting \subseteq Tasks /\ yields \in 0 .. MaxYields
  /\ fresh \subseteq Tasks /\ finished \subseteq Tasks
  /\ destroyed \subseteq Tasks /\ dropped \subseteq Tasks
  /\ sleep \in [Threads -> BOOLEAN]

\* Caller c has set thread t's flag in Wake and not yet written the byte.
OwesByte(c, t) == pc[c] = "write" /\ waking[c] = t

\* The flag of a waker says exactly whether a wakeup is under way: a byte is in
\* the pipe or one caller is about to write it.  While its thread stands between
\* the swap and the read of ResetWake, the old byte comes on top.  So a pipe
\* never holds more than two bytes (the write in Wake, which halts the program
\* when it fails, always succeeds), at most one caller owes a byte, and the read
\* of ResetWake always finds its byte.
WakerConsistent ==
  \A t \in Threads :
    LET old == IF pc[t] = "read" THEN 1 ELSE 0 IN
      /\ \A c, d \in Callers : OwesByte(c, t) /\ OwesByte(d, t) => c = d
      /\ IF flag[t] /\ ~ \E c \in Callers : OwesByte(c, t)
         THEN pipe[t] = old + 1
         ELSE pipe[t] = old
      /\ (\E c \in Callers : OwesByte(c, t)) => flag[t]

\* Caller c will still call Wake for thread t, or is in the middle of it.
WillWake(c, t) == pc[c] \in {"swap", "write"} /\ waking[c] <= t

\* No lost wakeup: a thread that is in poll with an infinite timeout, while the
\* queue holds a task or the runner shuts down, finds a byte in its pipe or some
\* caller is on its way to wake it.
NoLostWakeup ==
  \A t \in Threads :
    pc[t] = "poll" /\ sleep[t] /\ (~IsEmpty \/ shutdown)
      => pipe[t] > 0 \/ \E c \in Callers : WillWake(c, t)

\* What a thread executes and polls for is its own: ready tasks are in the
\* thread's map, none twice (the runner halts with "A task scheduled for
\* execution was removed!" otherwise), and no two threads own the same task.
ThreadsOwnTheirTasks ==
  /\ \A t \in Threads :
       /\ \A i \in DOMAIN ready[t] : ready[t][i] \in tasks_map[t]
       /\ \A i, j \in DOMAIN ready[t] : ready[t][i] = ready[t][j] => i = j
       /\ pc[t] = "run" => ready[t] # <<>>
  /\ \A t, u \in Threads : t # u => tasks_map[t] \cap tasks_map[u] = {}
  /\ \A t \in Threads : tasks_map[t] \cap InQueue = {}

\* Runner implements TaskPool: first in first out, each accepted task taken
\* once, cancelled only by the shutdown.
Pool == INSTANCE TaskPool WITH
          Workers <- Threads,
          line <- QueueReverse(out_stack) \o in_stack,
          owned <- tasks_map,
          closed <- shutdown

PoolSpec == Pool!Spec

\* A task that was accepted is eventually taken out of the queue by a thread, or
\* destroyed with the runner, whatever the interleaving of the threads' polls
\* with the callers' wakes.
EveryTaskTaken == \A k \in Tasks : k \in InQueue ~> k \notin InQueue

\* The destructor terminates: every thread sees the shutdown, wherever it was.
ShutdownCompletes == shutdown ~> pc[Owner] = "gone"

=============================================================================
