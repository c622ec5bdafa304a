# Verification of parts of the Ü (U-00DC-Sprache) repository in TLA+

This directory holds TLA+ models of parts of the Ü repository, the TLC configurations that check
them on small instances, and TLAPS proofs that the safety properties of the concurrent and
stateful parts hold for every size: the runner of the asynchronous networking library, the tasks
of one of its threads, the incremental build, the documents of the language server and the
references graph of the compiler.

## 1. Inventory

| Part | State | Operations | What is hard about it |
| --- | --- | --- | --- |
| `extra_libs/sm_async_net` runner (`src/runner.u`, `src/poll_waker.u`, `src/queue.iu`) | task queue under a lock, shutdown flag, one waker (atomic flag and pipe) per thread, tasks of each thread | `runner::add_task`, free `add_task`, destructor, main loop of each thread | lost wakeups, the flag and the pipe change in separate steps, shutdown at any moment, work shared by taking half of the queue |
| tasks and subtasks of one runner thread (`src/runner.u`, `imports/join.iu`, `imports/tcp_stream.iu`) | map of tasks with parent and sibling links, ready list, stack of tasks to execute | resume, yield, register and cancel a socket operation, add and join subtasks, finish | list surgery while siblings run, handing over to the parent exactly once |
| build system (`build_system/src/build_graph.u`, `main.u`, `unix/process.u`) | files and their time stamps, dependency files, saved build graph, running processes | mark nodes, start commands in parallel, collect processes, save the graph | coarse time stamps, failures with other commands running, abort at any step, stale dependency files, loops |
| language server documents (`language_server/document.cpp`, `document_manager.cpp`, `server_processor.cpp`) | text, recorded changes, compiled state, running compilation, diagnostics of each open document | open, change, close, request, delayed rebuild, taking of a background result, notification of dependents | edits under a running compilation, results taken by whichever method comes first, rebuilds that trigger rebuilds |
| syntax analyzer and program writer (`compiler0/lex_synt_lib`) | position in the lexems, syntax elements under construction, errors | one per parsing function, recovery after errors, writing of elements | termination after errors, lists that end silently at the end of a file |
| references and lifetimes (`compiler0/code_builder_lib`: references graph, expressions, block elements) | references graph, storages of variables, emitted code | one per expression and block element | moves and references across branches and loops, temporaries, references stored in objects |
| classes, overloading and templates, name mangling (`compiler0/code_builder_lib`) | the classes and functions declared so far; tables of back references | declare a class or a function, call, cast, mangle | virtual tables of several parents, the order of specializations, names that must differ |
| language server message queue, transport, position mapping | queue of messages, sequences of text changes | push, pop, cancel, close; map a position | closing against waiting; not modelled |
| the rest: `compiler1`, interpreter, header converter, `ustlib`, version unification, editor plugins | none shared between processes, apart from `ustlib`'s shared pointers | sequential | not modelled, see section 6 |

The parts interact as follows. `Runner` gives root tasks to threads; `TaskForest` is what one
thread does with them (its `ExtractTask`, `Poll` and `RequestShutdown` are the environment
that `Runner` describes in detail). `Build` composes the build loop, the process group, the
commands, the file system and the saved graph. `Documents` composes the documents, their
manager, the processor loop and the compilations of the thread pool; it loads source graphs
the way `compiler0/lex_synt_lib/source_graph_loader.cpp` does. `SyntaxAnalyzer` composes the
grammar with the writer, as the header converter and the compiler do. `Lifetimes` composes the
code builder with the execution of the code it emits.

## 2. Modules

| Module | Content |
| --- | --- |
| `Runner` | the multithreaded runner, one step per access to shared state |
| `TaskPool` | abstract specification: what a runner promises to the callers of `add_task` |
| `TaskForest` | tasks, subtasks and the schedule of one thread |
| `Build` | incremental parallel builds, repeated, with failures, aborts and user changes in between |
| `Documents` | documents of the language server and the processor thread |
| `Grammar` | the parsing functions of the syntax analyzer, as sequences of steps |
| `ProgramWriter` | the writing of syntax elements as lexems |
| `SyntaxAnalyzer` | the analyzer at work on lexems chosen when they are first looked at |
| `ReferencesGraph`, `ReferencesGraphWalks` | the references graph of a function, one operator per method; the second has those that walk over parts and links recursively |
| `ReferenceTracking` | a graph changed in any order by the steps that straight code is made of |
| `FunctionContext` | the building of expressions in a function context |
| `BlockElements` | the building of block elements |
| `Execution` | what emitted code does to objects and references (external: LLVM and the machine) |
| `Lifetimes` | a function is written, compiled and run |
| `Classes` | classes, virtual tables, virtual calls and casts |
| `Templates`, `Overloading` | type templates and the deduction of their arguments; overloaded functions |
| `ManglingItanium`, `ManglingMSVC`, `Mangling` | the two manglers, and the names of a program's entities |
| `MCRunner`, `MCTaskForest`, `MCDocuments`, `MCLifetimes`, `MCClasses` | instances for TLC |
| `MCBuild`, `MCBuildProjects` | `Build` on small projects |
| `MCClassHierarchies`, `MCOverloading`, `MCMangling`, `MCSyntax` | small hierarchies, functions, entities and vocabularies |
| `MCParts` | builds, classes, overloading and names side by side: a behaviour is one of one part |
| `MCReferences` | programs (`Lifetimes`) and graphs (`ReferenceTracking`) side by side |
| `MCTermination` | parsing and the build of a graph with a loop side by side |
| `RunnerProofs`, `RunnerOwnershipProofs` | proofs about `Runner` and its refinement of `TaskPool` |
| `TaskLinksProofs`, `TaskForestProofs` | proofs about `TaskForest` |
| `BuildProofs`, `BuildUpToDateProofs` | proofs about `Build` |
| `DocumentsProofs` | proofs about `Documents` |
| `ReferenceTrackingProofs` | proofs about `ReferenceTracking` and the operators of `ReferencesGraph` |

Operators whose comment begins with "Mutant:" are wrong variants of the definition that
follows them, used to see that a property can fail: with the variant in place of the
definition, TLC finds the property violated. They are not part of any specification.

### Runner

State: `in_stack` and `out_stack` are the two stacks of `Queue`; `lock` and `to_take` are the
progress of the extraction under the queue's lock; `flag` and `pipe` are `wakeup_in_progress_`
and the bytes in the pipe of each `PollWaker`; `waking` is the position of a caller in the loop
that wakes all the threads; `tasks_map`, `ready`, `waiting` and `sleep` are the thread's map,
its ready list, the tasks with a socket to wait for, and `should_sleep`.

Actions: `ClientAddDone`, `ClientAdd` and `PushTask` are `runner::add_task`; `FreeAddDiscards`,
`FreeAdd` and `PushTask` are the free function; `WakeSwap` and `WakeWrite` are `Wake`, `ResetSwap`
and `ResetRead` are `ResetWake`; `BeginDestruction` and `Join` are the destructor; `Exec`,
`ResumeDone`, `ResumeWaits`, `ResumeYields`, `CheckShutdown`, `LockQueue`, `TakeOne`,
`UnlockQueue`, `Poll` and `Cleanup` are the main loop.

What a task does between two yields is arbitrary: it may call `add_task`, finish, wait for a
socket or yield. Sockets become ready at any time or never, and `poll` reports any ready subset
in any order (the order of the hash map). Nobody calls `runner::add_task` once the destructor
has begun: a client holds the runner while it uses it. A task that a thread owns is identified
with the object that was passed to `add_task`; the numbers given to tasks are in `TaskForest`.

### TaskForest

State: `tasks` is `tasks_map` with the links of `RunningTaskConnections`, `ready` and `stack` are
the vectors of the main loop, `current` is `g_currently_running_task_id`, `child` is the position
in the loop that pushes the children of a task that has joined subtasks, and `awaits` remembers
which subtasks a suspended `join_subtasks` waits for (only the properties and `Resume` use it).

Actions: `StartReady`, `PopTask` and `Resume` are the execution loop. A slice of a task registers
and cancels socket operations (`RegisterCurrentTaskSocketOperation`,
`CancelTaskSocketOperation`), adds subtasks one at a time (`AddCurrentTaskSubtask`) and ends with
`YieldJoin`, `YieldSocket`, `YieldReady` or `Finish`. After `YieldJoin` the runner walks the list
of siblings backwards from the last child: `PushChild` pushes one of them, `PushEnd` ends the
walk. `ExtractTask`, `ExtractEnd`, `Poll` and `Cleanup` are the rest of the main loop. User code keeps to the documented use: what the library forbids with an assertion
(finishing with a socket operation or children, two operations at once) is not done.

### Build

State: `mtime`, `content` and `deps` are the files, their abstract content and the parsed
dependency files; `saved` is the build graph on disk (only its command lines vary); `to_rebuild`
and `state` are `nodes_to_rebuild` and `nodes_state`; `running`, `exited`, `finished`, `closed` and
`work` are the process group and the index of the loop in `DoWork`; `project` is the build script
and never changes.

Actions: `StartBuild` is everything up to the build loop (loading of the graph and of the
dependency files, marking, search along the edges); `StartProcess`, `RunSpecialCommand` and
`StopOnLoop` are the inner loop; `WaitForProcesses` and `RemoveProcess` are `DoWork`;
`TakeFinishedProcesses`, `Drain` and `SaveGraph` follow it. `ProcessExits` is the end of a command,
`Abort` kills everything, and `EditSource`, `DeleteFile` and `ChangeCommand` are the user.
`NodesToRebuild` gives the result of the search (the least closed set) and not its steps, which
no other process sees.

Abstractions: a command writes all its outputs in one step, or none when it fails; files change
during a build only by its commands; the clock may stand still between writes, so equal time
stamps occur; the saved graph can always be written and read back. A command with a dependency
file reads a header only when its source says so, which is how new and dropped imports appear.
`ProjectsAssumption` excludes a header that is generated by a node and is found only through a
dependency file: nothing orders its reader after its writer.

### Documents

State of a document: `text` (version, the full text it comes from, quality), `changes`
(`text_changes_since_compiled_state_`), `required` and `finished` (the two flags), `compiled`, `task`
(the future), `diagnostics`, and `recent`, true until the rebuild delay since the last modification
is over. `first` and `tracked` in a compiled state only serve the properties.

Actions: `CheckFinished`, `Notify`, `EndFinished` and `StartRebuild` are `PerfromDelayedRebuild`, one
document and one notification at a time so that compilations can end in between;
`UpdateDiagnostics` and `Timeout` complete the loop of `Process`; `Open`, `Close`, `DidChange` and
`Request` are the messages; `CompileDone` and `DelayEnds` are the thread pool and the clock. Every
method that calls `TryTakeBackgroundStateUpdate` does so through `Take`. `published` is what the
editor was sent for a file: the document that reported it and the texts this document had read.
`UpdateDiagnostics` sends, for each file, what `Flattened` makes of the diagnostics of all documents:
the assignment at `server_processor.cpp:484` lets the last document that reports errors in a file
replace what the others and the file itself reported.

Abstractions: the imports of a file and the files on disk do not change, imports have no loops;
a `didChange` carries one change; a text parses, has a syntax error or has a lexical error (then
its imports are not loaded); diagnostics are the texts they were made from, with entries for the
document itself when a text does not parse and otherwise for the files in which `Errors`, any
function of the texts, finds some; documents are in the order of their numbers. The delay of a document may end while the
loop over the documents runs, where the code reads the clock once before the loop: the model
allows a little more than the code.

### Grammar, ProgramWriter and SyntaxAnalyzer

`Grammar` has one definition per parsing function, the sequence of its steps: take or expect a
lexem, report an error, call another function, loop, branch on the next lexems, make an element.
`SyntaxAnalyzer` executes them; `calls` is the call stack, `values` the elements made so far,
`error` the state of `PushErrorMessage` with its guard against endless repetition. Every lexem is
chosen from a vocabulary when it is first looked at. A program parsed without errors is written by
`ProgramWriter` and parsed again.

A trailing `^` marks the lexems of a completion request. The checks on the content of macro
definitions (names of contexts and of kinds of variables, redefinitions, which lexems may end a
repetition) and errors in literals are not represented; a missing return type is the leaf `void`
and an absent part is `none`. `Change` steps are what `ParseFunction` does to elements it has made:
`ConversionConstructor` renames, `ConstructorParams` adds a mutable `this`. `AsBuilt` is a program
with the deleted constructors as the header converter builds them, without parameters.

The writer's numbers and spacing are left out. What it does not write or does not write so that it
can be read is not read back (`Convertible`): bodies of functions, initializers of fields, lambdas,
`thread_local`, template types, the mark of conversion constructors, inner references and reference
tags of coroutine types, the types of parameters named `this`. Of these the header converter builds
none.

### ReferencesGraph, FunctionContext, BlockElements, Execution and Lifetimes

A node of the graph is a variable, a reference, a part of one of them (a path of fields) or an inner
reference node (a tag); a graph is the nodes with their `moved` flags, the links and the errors.

A context `fc` holds the references graph, the storages of variables, the loops that are open and
the emitted code. Every block element is an operator from context to context, elements with a
block inside are two. `Lifetimes` adds one element after another, whichever the code builder
accepts without an error; a complete function is executed by `Execution`, along every way its
conditions allow. `Execution` knows nothing of the references graph: it keeps, for every leaf of
an object, the stack of references that may access it, and records a fault when a dead object or
an invalidated reference is used.

`ReferenceTracking` has a graph alone, which takes one step after another without a program that
asks for them: `Declare` (a variable and its name), `CreateTemporary`, `AccessField` (the node of a
field), `Bind` (`TryAddLink` between any two nodes in use), `MoveVariable` (what the move operator
does to a name and its variable), `RemovePart` (the parts of a node and references that are no
names, as `RemoveNode` takes them away), `DestroyTemporary` (unused temporaries) and `LeaveScope`
(the end of a name and its variable). The order of the steps and the targets of links are freer
than in programs. Branches and loops are not part of it.

Not modelled: what follows an error, second order references, `cast_mut`, `alloca`, `for` over
tuples, `if_coro_advance`, references declared by a list of variables, coroutines, unsafe code and
constant evaluation.

### Classes, Overloading, Templates and Mangling

`Classes` declares one class after another (`BuildClass`); `TryFetchVirtualFunction` and
`PolymorphCastImpl` say what a call and a cast find in the tables of an object. `Overloading`
declares functions of one name (`Declare`) and resolves a call (`Call`); `Templates` deduces
template arguments and orders templates. The manglers are functions from an entity to its name;
lengths are not spelt out, a name with its length is one piece.

Not modelled: generated methods and fields of classes; overloaded operators, `enable_if` beyond a
comparison of a type, functions parameterized twice; numbers of 128 bits and the width of
positions in mangled names.

## 3. What the runs check

| Run | Result | What it shows |
| --- | --- | --- |
| `runner` (`MCRunner.cfg`) | passes, 316 thousand states | `TypeOK`; `WakerConsistent`: flag and pipe agree at every step; `NoLostWakeup`: no thread sleeps in `poll` with work or a shutdown pending unless a wakeup is on its way; `ThreadsOwnTheirTasks`; `PoolSpec`: the runner implements `TaskPool` (first in first out, each task taken once, cancelled only after the shutdown began); `EveryTaskTaken`, `ShutdownCompletes` |
| `task_forest` (`MCTaskForest.cfg`) | passes, 173 thousand states | `SiblingLists`, `ScheduledExecutable`, `NoTaskForgotten`, `JoinsCompleted`, `ChildrenInOrder`, `ScheduledRuns` |
| `documents` (`MCDocuments.cfg`) | passes, 362 thousand states | `TypeOK`, `DiagnosticsCurrent`, `ChangesToErase`, `IncrementalChangesTracked`, `CompiledImportsFollowed`, `RebuildsSettle` |
| `parts` (`MCParts.cfg`) | passes, 582 thousand states | builds: `UpToDate` (after success every output is what its command makes of the present inputs), `InputsReady`, `ProcessesMatchNodes`, `NoNeedlessRebuild`; classes: `ClassesSound`; overloading: `OverloadingSound`; names: `NamesUnique` |
| `syntax` (`MCTermination.cfg`) | passes, 448 thousand states | `RoundTrip`, `AcceptedIsBalanced`, `PrioritiesRespected`, `ParsingTerminates`; `LoopTerminates` for the build of a graph with a loop, with failures and aborts |
| `lifetimes` (`MCReferences.cfg`) | passes, 301 thousand states | programs: `NoDanglingUse`, `DestroyedOnce`, `ReferencesExclusive`, `ReferenceNotationKept`, `AssertionsHold`; graphs: `SearchFindsDerived` (the search along links and parts finds exactly what is derived), `NamesExclusive`, `DerivationsKept`, `NoneLeftDangling` |
| `build_failed_command` (`MCBuildFailedCommand.cfg`) | **violated** | `UpToDate` when a changed command fails once: finding 1 |
| `documents_tracking` (`MCDocumentsTracking.cfg`) | **violated** | `ChangesTracked`: finding 2 |
| `documents_imports` (`MCDocumentsImports.cfg`) | **violated** | `ImportsFollowed`: finding 3 |
| `lifetimes_while` (`MCLifetimesWhile.cfg`) | **violated** | `DestroyedOnce` with a move in the condition of a loop: finding 4 |
| `lifetimes_ternary` (`MCLifetimesTernary.cfg`) | **violated** | `ReferenceNotationKept` with an assignment through a ternary operator: finding 5 |
| `class_calls` (`MCClassesCalls.cfg`) | **violated** | `VirtualCallsDispatch`: finding 6 |

### Bounds, and why they are enough

* Runner: two threads, one client, the owner, two tasks, one idle yield. Two threads are enough
  for a waker that is woken by a client, by a task of the other thread, by its own task and by the
  destructor, in any overlap. Tasks are passed to `add_task` in the order of their numbers; symmetry
  is not used, since the run checks liveness too. The proofs remove these bounds for everything but liveness.
* TaskForest: five identifiers, up to three subtasks per join: the first, a middle and the last
  sibling can finish in every order, and joins nest. The proofs remove the bounds for safety.
* Build: the first project has two parallel commands, one with a dependency file, and a command
  that needs both; two user changes or aborts and a clock of four values allow an edit in the tick
  of a build, an edit after an abort and the removal of an import. Changes of command lines are
  checked on a second project with a generated file, without failures and aborts, because both
  break `UpToDate` there (finding 1 and the remark after it). The third project has a loop.
* Documents: two files, one of which imports the other; three texts allow one to be sent before,
  during and after a compilation. In the passing run the importing document comes last, so that
  what it reports replaces what the imported one reports of itself; in the two others it comes
  first. `SomeErrors` lets the errors in a file depend on its own text and on the importing one.
* Syntax: each vocabulary starts at one parsing function after a prefix and has a few lexems that
  may follow, three to six of them, and one or two more after an error.
* Lifetimes: each vocabulary has the parameters of one function and up to four block elements over
  a few structures (plain, with an immutable reference, with a mutable one, with two fields).
* ReferenceTracking: one variable, a structure with two fields, with a mutable name and three
  temporaries (a mutable reference to such a structure, a value that holds a reference, an immutable
  reference to a field), five nodes at a time: enough for a chain from a variable through its name or a part to two references. The proofs
  remove the bounds.
* Classes: hierarchies of four classes with two overloads of a method. Overloading: families of up
  to three functions out of those that differ in mutability, conversions or specialization.
  Names: about a thousand entities that share names, arguments and enclosing scopes, with a table of
  back references that overflows at two entries instead of ten.

### Fairness

* Runner: every thread that can take a step of its own eventually does (the operating system
  schedules it); `poll` returns when the pipe has a byte or its timeout is zero; a task's slice
  ends. Nothing is assumed about sockets, clients or the time of the destruction. Each caller gets
  the queue's lock, which is held only for a bounded loop.
* TaskForest: the main loop goes on and slices end.
* Build: the build system goes on and every command ends.
* Documents: the processor thread goes on (its waits have a timeout of at most five seconds),
  compilations end, time passes.
* Syntax: the lexems exist and the analyzer does not pause.

Deadlock is checked in the runs of `Runner`, `TaskForest` and `Documents`; `Done` in the first two
is the program after the runner is gone or the thread has ended. The other runs end when the
program, the hierarchy or the text is complete.

## 4. Findings

1. **A changed command that fails is forgotten** (`build_system/src/main.u:429`). The graph with the
   new command line is saved although the build failed. The next invocation compares with it, sees
   no change, finds the old output newer than its inputs and reports success.
   `build_graph.u:43-45` says that a changed command line causes a rebuild. The theorem
   `UpToDateWithoutFailures` shows that failures and aborts are the only causes.
2. **Changes during the first compilation are not recorded** (`language_server/document.cpp:198`).
   The comment at line 955 says that tracking is initialized for them, but `UpdateText` records
   only when there is a compiled state. When the first result is taken, positions are mapped as if
   the text were the compiled one. `IncrementalChangesTracked` shows that tracking is right when the
   compilation started with a compiled state and recorded changes.
3. **A document whose first build failed does not follow its imports**
   (`language_server/document.cpp:245`). It has no compiled state and ignores the notification that an
   imported document was rebuilt. `CompiledImportsFollowed` shows that documents that were compiled
   before are rebuilt.
4. **A variable moved in the condition of a `while` loop is destroyed twice**
   (`code_builder_lib/cb_block_elements.cpp:1453`). The state after the loop is made from the one
   copied before the condition is built; when the body does not come back to the condition,
   nothing notices the move.
5. **A reference stored through a ternary operator is not seen as pollution**
   (`code_builder_lib/cb_expressions.cpp:1036`). The result is created as a value and made a reference
   afterwards; its inner reference nodes stay those of a variable and end the search.
6. **A virtual call may look in the wrong field of a table** (`code_builder_lib/cb_virtual.cpp:532`).
   The number of the functions field is taken from the class of the call, not from the class whose
   table was reached. `ClassesSound` shows that calls are right where the two have the same number
   of parents.

The quoted sentences and the traces are in `PROJECT.json`. Met while modelling, and not checked by
a run:

* Build: a command line that is changed, built until its output is written, aborted before the
  graph is saved and then changed back leaves a stale output, because command lines are compared
  with the saved graph and not with what made the output.
* Syntax: a file may end inside the braces of an `enum` without an error; a standalone type name
  such as `tup[` ends silently; `fn ::()` is accepted with an empty name; `docs/en/enums.rst:20` and
  `c_interaction.rst:107` show `};` although a namespace body reports an error at `;`.
* Documents: the comment at `server_processor.cpp:475` says that errors in common imported files are
  collected from several documents; the assignment keeps those of one. While a document that
  reports errors in an open file has not read the file's present text (finding 3), or has been
  closed, the editor shows its old errors instead of those of the file's own last build.
* Writer: inner references of coroutine types are written between quotes, where the parser expects
  brackets, and their tags are lost; `non_sync` expressions lose their keyword, `virtual override` its `virtual`; initializers
  with `=` run into an assertion.
* Overloading: the selection is not monotonic in the set of functions; a coroutine compared with a
  template parameter on its left is incomparable (an assertion in debug builds) but not the other
  way round; `HasConversionConstructor` accepts any conversion constructor that matches, while
  `GetConversionConstructor` needs the selected one to be a conversion; matching the parameters of
  an alias keeps only the verdict on the last one (`cb_templates.cpp:600-616`).
* Mangling: substitution in the Itanium mangler compares text; template arguments of 128 bits are
  cut off.

## 5. Proofs

Every safety property of `Runner`, `TaskForest`, `Build`, `Documents` and `ReferenceTracking` that a
run checks, except for `SearchFindsDerived`, is also a theorem, for every value of the constants that the assumptions admit. In each case the property is
not inductive as it stands; what follows says what had to be added and why. The inductive invariants
were checked by TLC before they were proved.

### Assumptions

* `ConstantsAssumption` (`Runner`): any number of threads (the constructor limits it to 128), any set
  of clients and tasks, finite or not; callers are distinct.
* `BoundsAssumption` (`TaskForest`): any number of identifiers, of subtasks per join, of idle yields.
* `ProjectsAssumption` (`Build`): any set of projects whose nodes have disjoint outputs; a dependency
  file belongs to a node with a source, and headers are not generated.
* `DocumentsAssumption` (`Documents`): any number of files and edits; imports without loops (every
  set of files has one that imports none of the set). `NoneAssumption` says that `None` is nothing
  else.
* `TypesAssumption` (`ReferencesGraph`) and `TrackingAssumption` (`ReferenceTracking`): any types with any
  fields and inner references, any set of variables and temporaries of these types.

### Runner

* `RunnerTypeCorrect` (`RunnerProofs`): `SafeSpec => []TypeOK`. `TypeOK` alone is not inductive,
  since a pop from an empty queue or a resumption without ready task would leave it. `TInv` adds
  `LockDiscipline` (the thread that pops holds the lock, and the queue has at least as many tasks as
  it still has to pop), `RunsReadyTask` (a thread inside a slice has a ready task) and `PushesTask` (a
  caller about to push has a task). The order of the poll results needs that a thread owns finitely
  many tasks, `FiniteMaps`, proved in the same induction.
* `WakersConsistent` and `NoWakeupIsLost` (`RunnerProofs`): `SafeSpec => []WakerConsistent` and
  `SafeSpec => []NoLostWakeup`. The inductive invariant `IInv` consists of `Locations` (which places
  each process may be at, and the types of what the argument uses), `WakerConsistent`,
  `ResetSeesByte` (a thread enters `ResetWake` only with a byte in its pipe), `ShutdownSignalled` (a
  thread past its last look at the shutdown flag is signalled once the flag is set) and
  `QueueSignalled` (a thread about to sleep on a queue that is not empty is signalled). The heart of
  the argument is `ResetRead`: it removes the old byte only, and a wake that came after the swap has
  a byte or a writer of its own.
* `ThreadsOwnTasks` and `RunnerImplementsPool` (`RunnerOwnershipProofs`):
  `SafeSpec => []ThreadsOwnTheirTasks` and `SafeSpec => PoolSpec`. `OInv` says that a root task is in
  one place: `Apart` (no task is in the queue twice, in two maps, or in the queue and in a map),
  `Incoming` (what was not yet passed to `add_task`, or is carried by a caller, is in none of them, and
  no two callers carry the same task), `ReadyOwned` and `WaitingOwned` (ready lists and waiting sockets
  are of tasks in a map), `ShutdownSeen` (a thread leaves its main loop only for the shutdown, and
  leaves no tasks). For the refinement the two stacks are
  one line, the reverse of `out_stack` followed by `in_stack`: `PushLine` and `PopLine` show that a push
  appends to it and a pop, also one that turns the stack over, takes its first element. Then
  `PushTask` is the pool's `Accept`, `TakeOne` its `Take`, the end of a task its `Finish`, `Cleanup` and
  `Join` its `GiveUp` and `Dismantle`, and every other step leaves the pool unchanged.

### TaskForest

`TaskLinksProofs` has the facts about maps of tasks, `TaskForestProofs` the induction. `ForestInvariant`
is `Spec => []FInv`, from which follow `SiblingListsKept`, `ScheduledAreExecutable`,
`TasksAreRemembered`, `JoinsAreCompleted` and `ChildrenKeepOrder`, the five safety properties of the
run, and `TasksTypeCorrect`. `FInv` consists of

* `Forest(tasks)`: the links. `SiblingLists` speaks of the two ends of each link. That all the children
  of a task are in the list that ends at `last_child` follows from it only by an induction along the
  links; `Neighbours` says it of any two siblings: of two children the older one has a next sibling,
  not beyond the younger, and the younger a previous one. Without it, taking out a child with no
  previous sibling might leave its parent with children and no `last_child`. `AddForest` and `RemoveForest` show that adding a last child and taking out the first, a
  middle, the last or the only child keep the links.
* `Schedule`, `Runs`, `Remembered`: who is scheduled has no children and is scheduled once; the task
  that runs is not scheduled; who is not scheduled waits for a socket or for children, or is a child
  the running task is about to push (`ToPush`). The last case is what makes a join, many steps
  long, inductive.
* `Joins`: the subtasks a join waits for are children of its task as long as they are there, and
  identifiers are never reused.
* `StackOrder`: that siblings are in order on the stack is not inductive alone, because a task may be
  executed again, and pushed, when its last child ends. `Before(x, b)`, which says that `b` is no older
  sibling of `x` or of an ancestor of `x`, relates all the tasks on the stack and the one that runs. `Ancestors` are defined without recursion, as the intersection of the sets closed
  upwards.

### Build

* `LoopInvariant`, `ProcessesMatch` and `CommandsReadReadyFiles` (`BuildProofs`): `LInv` consists of
  `LoopTypes`, `Discipline` (as long as the build is not broken, a node is in progress exactly while it has a process
  in one of the lists of the group, once) and `StartedAfterInputs` (a node that was started reads
  nothing that a node not yet ready has still to write).
* `FreshMeansBuilt`, `BuildTypeCorrect`, `OutputsFollowInputs` and `NothingToRebuild`
  (`BuildUpToDateProofs`): `DInv` adds `FreshIsBuilt`: a node whose outputs are all newer than what it
  is known to read was built from the present contents, by some command line. This is what comparing
  time stamps rests on; equal stamps count as out of date, so it survives edits in the same tick,
  failures and aborts between any two writes. `InvocationBuilds` says the same of the nodes an
  invocation has finished or left alone.
* `UpToDateForStableCommands` and `UpToDateWithoutFailures`: that the command line is the present one
  too needs a hypothesis, because of finding 1. It holds for projects whose nodes have one command
  line, whatever fails or is killed, and it holds for all projects, with `BuiltAsSaved` (an output that looks fresh was
  made by the saved command line), as long as no command fails and no invocation is killed.

### Documents

`DocumentsInvariant` is `Spec => []DocumentsInv`, from which follow `DocumentsTypeCorrect`,
`ChangesCanBeErased`, `ChangesLeadToText`, `DiagnosticsAreCurrent` and `ImportsAreFollowed`.
`DocumentsInv` consists of

* `DocumentsSound`, one invariant per document (`DocumentInv`): what it compiled and what it compiles
  has the texts of its imports (`BuildsSound`); the build is of the present text unless a rebuild is
  required (`BuiltCurrent`); the recorded changes are at least as many as a running compilation will
  erase (`Erasable`); they connect the compiled text with the text that is being compiled and that with
  the present one (`Tracked`); texts come from full texts that were received before (`PastBases`).
  Each method of a document is shown to keep it, whichever method takes the result.
* `Publishing`: the diagnostics the manager keeps for a document are those it has, unless its last
  build is still to be noticed or told about.
* `Showing`: unless an update is coming, what the editor shows for a document is the flattened entry
  of the diagnostics the manager keeps, or its author has been closed, or its author is waiting for
  a build (it was opened again). The last two are needed because `Close` takes the diagnostics of a
  document away, and `Open` sends those of one document, without flattening those that remain.
* `Following`: if the last build of a document has read an older text of an open import, the document
  requires a rebuild, or the import will be rebuilt, is being built or has a result it has not told
  about, or the loop of notifications has still to reach the document. This
  relates two documents and the position of the loop, and is the reason why `Notify` is one step
  per document.

### ReferenceTracking

`b` is derived from `a` if there is a path of links and parts from `a` to `b`. Without induction over
paths this is said with closed sets, which no link leaves and which have the parts of their nodes:
`b` is in every closed set that has `a`. `SearchFindsDerived` shows on the instance that the search
of the code finds the same.

* `NamesStayExclusive`: `TrackingSpec => []NamesExclusive`, from the inductive invariant `TrackingInv`,
  proved in `GraphInvHolds`. It consists of `WellFormed` (links connect different
  nodes and never end in a part; the parent of a part is there; no two nodes are the same part),
  `Exclusive` (the property) and `NamesBound` (the name of a variable that is not moved is linked to
  it). The last is what protects the variable: `TryAddLink` refuses a second reference because of the
  link to a mutable name, so the link must be there whatever was removed before.
* `DerivationsStayKept`: `TrackingSpec => DerivationsKept`. A closed set after a step is, on the nodes
  that stay in use, a closed set before it. For `RemoveNodeLinks` the set before the step has the removed
  node if the set after it has one of those the node was linked from, or its parent; the links that
  are added around the node make this set closed.
* `NothingLeftDangling`: `TrackingSpec => NoneLeftDangling`. The compiler looks at the direct links of a
  variable, its parts and its name before it destroys or moves it; with `TrackingInv` the variable,
  its parts and its name are then a closed set, so nothing else is derived from it.
* `ErasureExact` and `MergeKeepsDerivations` are about the operators, for any graph: removing a node
  without parts neither loses nor makes up derivations between the others, and the state after an
  `if` has all the derivations of each branch. The second is what connects branches, which
  `ReferenceTracking` does not have, with the rest.

### What is only model-checked

* Liveness, which the proof system does not cover: `EveryTaskTaken`, `ShutdownCompletes`,
  `ScheduledRuns`, `RebuildsSettle`, `ParsingTerminates`, `LoopTerminates`.
* `SearchFindsDerived`: that the search reaches every derived node is an induction along its steps.
* Everything about `Lifetimes`, `Classes`, `Overloading`, `Mangling` and `SyntaxAnalyzer`: their
  definitions are recursive over programs, hierarchies, types and syntax, and what a recursive
  definition computes for every input is out of the prover's reach.
* That `NodesToRebuild` is what the worklist of `PerformGraphBuild` computes: the model has the result
  only.

## 6. Not modelled

`compiler1`, the interpreter, the header converter (but for what it hands to the writer) and the standard library are sequential programs
whose inputs are too large for an explicit model; of `compiler0` the lexer, macros, constant
evaluation, generated methods and the emission of code beyond lifetimes are left out. Transport and
protocol handling are input and output. The message queue of the language server, the mapping of
positions, version unification of packages, answers to requests, diagnostics in imported files, the
cache of files on disk, construction of the build graph from packages, the syntax of dependency
files, partial outputs of killed commands and signals during `poll` are left out too.

The definitions of the models stand for about 14,900 of the 65,600 lines of the implementation,
about 23 per cent; nothing is said about the rest. `PROJECT.json` lists every part, and the hazards
that no property covers with the reason.

## 7. Plan

1. Language server: the message queue composed with the processor loop; the mapping of positions
   against a reference definition on small texts; diagnostics in imported files.
2. Build system: the worklist search of `PerformGraphBuild` as an algorithm, shown to compute the
   least closed set of `NodesToRebuild`; version unification.
3. `ustlib`: shared pointers and their locks.
