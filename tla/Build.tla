--------------------------------- MODULE Build ---------------------------------
(***************************************************************************)
(* The incremental build of the build system: BK::Main's handling of the   *)
(* saved build graph around PerformGraphBuild, which marks the nodes to    *)
(* rebuild and runs their commands in parallel through a ProcessGroup, and *)
(* what happens between two invocations: the user edits sources, deletes   *)
(* files and changes the build script.                                     *)
(*                                                                         *)
(* The content of a file is abstract: a source has one of two versions; an *)
(* output is what its command makes of the files it reads.  Time stamps    *)
(* come from a coarse clock: several writes may have the same one.  Files  *)
(* do not change under a running build except by its commands.             *)
(***************************************************************************)
EXTENDS Integers, Sequences, FiniteSets

CONSTANTS
  Projects,        \* what may be built, and under which circumstances, see ProjectsAssumption
  NoFile

VARIABLE project   \* the project that is built, one of Projects

Graph == project.nodes           \* BuildGraph.nodes: a sequence of node records, see NodeRecords
Files == project.files           \* every file the nodes name
Commands == project.commands     \* command lines a node may have
Jobs == project.jobs             \* max_number_of_parallel_jobs
Failures == project.failures     \* whether commands may fail
Aborts == project.aborts         \* whether an invocation may be killed
MaxChanges == project.changes    \* bound: changes by the user
MaxTime == project.time          \* bound: values of the clock

Nodes == DOMAIN Graph

\* BuildGraph::Node, its command line apart.  A special command (copy_file,
\* generate_file) runs inside the build system.  A node with a dependency file
\* reads "header" too when its "source" has version 1.
NodeRecords(files) ==
  [inputs : SUBSET files, outputs : SUBSET files, program : files \cup {NoFile},
   special : BOOLEAN, dep_file : BOOLEAN, source : files \cup {NoFile}, header : files \cup {NoFile}]

GeneratedBy(nodes) == UNION {nodes[n].outputs : n \in DOMAIN nodes}

Sources == Files \ GeneratedBy(Graph)
NoGraph == <<>>
NoDeps == {NoFile}

ASSUME ProjectsAssumption ==
  \A p \in Projects :
    /\ p.nodes \in Seq(NodeRecords(p.files)) /\ NoFile \notin p.files
    /\ \A n \in DOMAIN p.nodes :
         /\ p.nodes[n].special \/ p.nodes[n].program \in p.files
         /\ p.nodes[n].dep_file => p.nodes[n].source \in p.nodes[n].inputs /\ p.nodes[n].header \in p.files
         /\ p.nodes[n].header \notin GeneratedBy(p.nodes)
    /\ \A n, m \in DOMAIN p.nodes : n # m => p.nodes[n].outputs \cap p.nodes[m].outputs = {}
    /\ p.commands # {} /\ p.jobs \in Nat \ {0} /\ p.changes \in Nat /\ p.time \in Nat \ {0}
    /\ p.failures \in BOOLEAN /\ p.aborts \in BOOLEAN

VARIABLES
  command,     \* the command line of each node in the build script
  mtime,       \* modification time of each file, zero when it does not exist
  content,     \* content of each file
  deps,        \* parsed dependency file of each node, NoDeps when there is none
  saved,       \* command lines of the saved build graph, or NoGraph
  now,         \* the clock
  changes,     \* changes made by the user (for the bound)
  phase,       \* where the invocation is
  to_rebuild,  \* nodes_to_rebuild
  state,       \* nodes_state
  running,     \* ProcessGroup.running_processes_
  exited,      \* running processes that ended: node -> success
  closed,      \* running processes whose pipe the group found closed
  work,        \* the index of DoWork's loop over the running processes
  finished     \* ProcessGroup.finished_processes_

disk == <<mtime, content, deps, now>>
vars == <<project, command, disk, saved, changes, phase, to_rebuild, state, running, exited, closed, work, finished>>

-------------------------------------------------------------------------------
(***************************************************************************)
(* Which nodes to rebuild.                                                 *)
(***************************************************************************)
Program(n) == IF Graph[n].special THEN {} ELSE {Graph[n].program}

Dependencies(n) == IF deps[n] = NoDeps THEN {} ELSE deps[n]

\* The files on which node n depends as far as PerformGraphBuild knows.
InputFiles(n) == Graph[n].inputs \cup Program(n) \cup Dependencies(n)

\* Mutant: equal modification times count as up to date.
MarkedWhenOlder(n) ==
  \/ saved[n] # command[n]
  \/ Graph[n].dep_file /\ deps[n] = NoDeps
  \/ \E f \in InputFiles(n) \cup Graph[n].outputs : mtime[f] = 0
  \/ \E i \in InputFiles(n), o \in Graph[n].outputs : mtime[i] > mtime[o]

\* Mutant: the outputs of a node are compared with the newest input of the graph.
MarkedByAnyInput(n) ==
  \/ saved[n] # command[n]
  \/ Graph[n].dep_file /\ deps[n] = NoDeps
  \/ \E f \in InputFiles(n) \cup Graph[n].outputs : mtime[f] = 0
  \/ \E m \in Nodes : \E i \in InputFiles(m), o \in Graph[n].outputs : mtime[i] >= mtime[o]

MarkedByItself(n) ==
  \/ saved[n] # command[n]
  \/ Graph[n].dep_file /\ deps[n] = NoDeps
  \/ \E f \in InputFiles(n) \cup Graph[n].outputs : mtime[f] = 0
  \/ \E i \in InputFiles(n), o \in Graph[n].outputs : mtime[i] >= mtime[o]

\* Node m reads an output of node n.
Feeds(n, m) == Graph[n].outputs \cap InputFiles(m) # {}

\* The search from the marked nodes along outputs that are inputs ends with the
\* least set that contains them and is closed.
NodesToRebuild ==
  LET marked == {n \in Nodes : MarkedByItself(n)}
      closedSets == {S \in SUBSET Nodes :
                       marked \subseteq S /\ \A n \in S, m \in Nodes : Feeds(n, m) => m \in S}
  IN  IF saved = NoGraph THEN Nodes ELSE {n \in Nodes : \A S \in closedSets : n \in S}

StartBuild ==
  /\ phase \in {"idle", "ok", "failed"}
  /\ to_rebuild' = NodesToRebuild
  /\ state' = [n \in Nodes |-> IF n \in to_rebuild' THEN "RebuildRequired" ELSE "Ready"]
  /\ phase' = IF to_rebuild' = {} THEN "succeeded" ELSE "start"
  /\ UNCHANGED <<project, command, disk, saved, changes, running, exited, closed, work, finished>>

-------------------------------------------------------------------------------
(***************************************************************************)
(* Commands.  The clock may advance with every write.                      *)
(***************************************************************************)
\* What the command of node n really reads.
Reads(n) ==
  Graph[n].inputs \cup Program(n)
  \cup (IF Graph[n].dep_file /\ content[Graph[n].source] = 1 THEN {Graph[n].header} ELSE {})

Result(n) == <<command[n], [f \in Reads(n) |-> content[f]]>>

\* The command of node n writes its outputs and its dependency file.
WriteOutputs(n) ==
  \E t \in {now, now + 1} :
    /\ t <= MaxTime
    /\ now' = t
    /\ mtime' = [f \in Files |-> IF f \in Graph[n].outputs THEN t ELSE mtime[f]]
    /\ content' = [f \in Files |-> IF f \in Graph[n].outputs THEN Result(n) ELSE content[f]]
    /\ deps' = [deps EXCEPT ![n] = IF Graph[n].dep_file THEN Reads(n) \ Program(n) ELSE @]

CanSucceed(n) == \A f \in Reads(n) : mtime[f] > 0

\* A process of the group ends, with its outputs written, or fails.
ProcessExits(n) ==
  /\ n \in {running[i] : i \in DOMAIN running} /\ n \notin DOMAIN exited
  /\ \/ /\ CanSucceed(n)
        /\ WriteOutputs(n)
        /\ exited' = [m \in DOMAIN exited \cup {n} |-> m = n \/ exited[m]]
     \/ /\ Failures \/ ~CanSucceed(n)
        /\ exited' = [m \in DOMAIN exited \cup {n} |-> m # n /\ exited[m]]
        /\ UNCHANGED disk
  /\ UNCHANGED <<project, command, saved, changes, phase, to_rebuild, state, running, closed, work, finished>>

-------------------------------------------------------------------------------
(***************************************************************************)
(* The build loop.                                                         *)
(***************************************************************************)
NumStarted == Cardinality({n \in to_rebuild : state[n] # "RebuildRequired"})
NumFinished == Cardinality({n \in to_rebuild : state[n] = "Ready"})

\* Mutant: a node starts when the nodes before it have started.
CanStartAfterStart(n) ==
  \A m \in Nodes : state[m] = "RebuildRequired" => Graph[m].outputs \cap InputFiles(n) = {}

\* No node that makes an input of node n has still to be made ready.
CanStartRebuild(n) ==
  \A m \in Nodes : state[m] # "Ready" => Graph[m].outputs \cap InputFiles(n) = {}

Selectable == {n \in Nodes : state[n] = "RebuildRequired" /\ CanStartRebuild(n)}

\* The linear search takes the first one.
Selected == CHOOSE n \in Selectable : \A m \in Selectable : n <= m

MayStart == phase = "start" /\ Len(running) < Jobs /\ NumStarted < Cardinality(to_rebuild)

StartProcess ==
  /\ MayStart /\ Selectable # {} /\ ~Graph[Selected].special
  /\ \/ /\ mtime[Graph[Selected].program] > 0
        /\ state' = [state EXCEPT ![Selected] = "RebuildInProgress"]
        /\ running' = Append(running, Selected)
        /\ UNCHANGED phase
     \/ /\ Failures \/ mtime[Graph[Selected].program] = 0
        /\ state' = [state EXCEPT ![Selected] = "RebuildInProgress"]
        /\ phase' = "broken"
        /\ UNCHANGED running
  /\ UNCHANGED <<project, command, disk, saved, changes, to_rebuild, exited, closed, work, finished>>

RunSpecialCommand ==
  /\ MayStart /\ Selectable # {} /\ Graph[Selected].special
  /\ \/ /\ CanSucceed(Selected)
        /\ WriteOutputs(Selected)
        /\ state' = [state EXCEPT ![Selected] = "Ready"]
        /\ UNCHANGED phase
     \/ /\ Failures \/ ~CanSucceed(Selected)
        /\ state' = [state EXCEPT ![Selected] = "RebuildInProgress"]
        /\ phase' = "broken"
        /\ UNCHANGED disk
  /\ UNCHANGED <<project, command, saved, changes, to_rebuild, running, exited, closed, work, finished>>

\* Mutant: the loop is noticed only when more nodes have finished than started.
StopOnLoopStrict ==
  /\ MayStart /\ Selectable = {} /\ NumFinished > NumStarted
  /\ phase' = "broken"
  /\ UNCHANGED <<project, command, disk, saved, changes, to_rebuild, state, running, exited, closed, work, finished>>

\* Nothing can start and nothing runs: the graph has a loop.
StopOnLoop ==
  /\ MayStart /\ Selectable = {} /\ NumFinished >= NumStarted
  /\ phase' = "broken"
  /\ UNCHANGED <<project, command, disk, saved, changes, to_rebuild, state, running, exited, closed, work, finished>>

\* DoWork: poll returns when some processes have closed their pipes (reading the
\* output of a process that goes on changes nothing).
WaitForProcesses ==
  /\ phase = "start"
  /\ ~MayStart \/ (Selectable = {} /\ NumFinished < NumStarted)
  /\ closed' \in SUBSET DOMAIN exited
  /\ running # <<>> => closed' # {}
  /\ phase' = "work" /\ work' = 1
  /\ UNCHANGED <<project, command, disk, saved, changes, to_rebuild, state, running, exited, finished>>

\* Mutant: the last process is dropped without being moved to the free place.
RemoveLastProcess ==
  /\ phase = "work" /\ work \in DOMAIN running
  /\ LET n == running[work]
     IN  \/ /\ n \in closed
            /\ running' = SubSeq(running, 1, Len(running) - 1)
            /\ exited' = [m \in DOMAIN exited \ {n} |-> exited[m]]
            /\ closed' = closed \ {n}
            /\ IF exited[n] THEN finished' = Append(finished, n) /\ UNCHANGED phase
                            ELSE phase' = "broken" /\ UNCHANGED finished
            /\ UNCHANGED work
         \/ /\ n \notin closed
            /\ work' = work + 1
            /\ UNCHANGED <<phase, running, exited, closed, finished>>
  /\ UNCHANGED <<project, command, disk, saved, changes, to_rebuild, state>>

\* One iteration of the loop that removes the finished processes.
RemoveProcess ==
  /\ phase = "work" /\ work \in DOMAIN running
  /\ LET n == running[work]
         last == running[Len(running)]
     IN  \/ /\ n \in closed
            /\ running' = SubSeq([running EXCEPT ![work] = last], 1, Len(running) - 1)
            /\ exited' = [m \in DOMAIN exited \ {n} |-> exited[m]]
            /\ closed' = closed \ {n}
            /\ IF exited[n] THEN finished' = Append(finished, n) /\ UNCHANGED phase
                            ELSE phase' = "broken" /\ UNCHANGED finished
            /\ UNCHANGED work
         \/ /\ n \notin closed
            /\ work' = work + 1
            /\ UNCHANGED <<phase, running, exited, closed, finished>>
  /\ UNCHANGED <<project, command, disk, saved, changes, to_rebuild, state>>

\* The end of DoWork; then all the finished processes are taken.
TakeFinishedProcesses ==
  /\ phase = "work" /\ work \notin DOMAIN running
  /\ LET done == {finished[i] : i \in DOMAIN finished} IN
       /\ state' = [n \in Nodes |-> IF n \in done THEN "Ready" ELSE state[n]]
       /\ phase' = IF \A n \in to_rebuild : state'[n] = "Ready" THEN "succeeded" ELSE "start"
  /\ finished' = <<>> /\ work' = 0
  /\ UNCHANGED <<project, command, disk, saved, changes, to_rebuild, running, exited, closed>>

\* The local variables of PerformGraphBuild are gone.
ForgetNodes == to_rebuild' = {} /\ state' = [n \in Nodes |-> "Ready"]

\* The destructor of the ProcessGroup waits for the processes still running.
Drain ==
  /\ phase = "broken"
  /\ \A i \in DOMAIN running : running[i] \in DOMAIN exited
  /\ running' = <<>> /\ exited' = <<>> /\ closed' = {} /\ finished' = <<>> /\ work' = 0
  /\ phase' = "lost"
  /\ ForgetNodes
  /\ UNCHANGED <<project, command, disk, saved, changes>>

\* Main saves the graph after a failed build too.
SaveGraph ==
  /\ phase \in {"succeeded", "lost"}
  /\ saved' = command
  /\ phase' = IF phase = "succeeded" THEN "ok" ELSE "failed"
  /\ ForgetNodes
  /\ UNCHANGED <<project, command, disk, changes, running, exited, closed, work, finished>>

\* The build system and its processes are killed.
Abort ==
  /\ Aborts
  /\ phase \in {"start", "work", "broken", "lost", "succeeded"}
  /\ changes < MaxChanges
  /\ changes' = changes + 1
  /\ phase' = "idle"
  /\ ForgetNodes
  /\ running' = <<>> /\ exited' = <<>> /\ closed' = {} /\ finished' = <<>> /\ work' = 0
  /\ UNCHANGED <<project, command, disk, saved>>

-------------------------------------------------------------------------------
(***************************************************************************)
(* The user, between two invocations.                                      *)
(***************************************************************************)
UserActs ==
  /\ phase \in {"idle", "ok", "failed"}
  /\ changes < MaxChanges
  /\ changes' = changes + 1
  /\ phase' = "idle"
  /\ UNCHANGED <<project, saved, to_rebuild, state, running, exited, closed, work, finished>>

EditSource(f) ==
  /\ \E t \in {now, now + 1} :
       /\ t <= MaxTime
       /\ now' = t
       /\ mtime' = [mtime EXCEPT ![f] = t]
  /\ content' = [content EXCEPT ![f] = 1 - @]
  /\ UNCHANGED <<command, deps>>

DeleteFile(f) ==
  /\ mtime[f] > 0
  /\ mtime' = [mtime EXCEPT ![f] = 0]
  /\ UNCHANGED <<command, content, deps, now>>

ChangeCommand(n) ==
  /\ \E c \in Commands \ {command[n]} : command' = [command EXCEPT ![n] = c]
  /\ UNCHANGED disk

User ==
  /\ UserActs
  /\ \/ \E f \in Sources : EditSource(f)
     \/ \E f \in Files : DeleteFile(f)
     \/ \E n \in Nodes : ChangeCommand(n)

-------------------------------------------------------------------------------
Init ==
  /\ project \in Projects
  /\ command = [n \in Nodes |-> CHOOSE c \in Commands : TRUE]
  /\ mtime = [f \in Files |-> IF f \in Sources THEN 1 ELSE 0]
  /\ content = [f \in Files |-> IF f \in Sources THEN 0 ELSE <<>>]
  /\ deps = [n \in Nodes |-> NoDeps]
  /\ saved = NoGraph
  /\ now = 1 /\ changes = 0
  /\ phase = "idle"
  /\ to_rebuild = {} /\ state = [n \in Nodes |-> "Ready"]
  /\ running = <<>> /\ exited = <<>> /\ closed = {} /\ work = 0 /\ finished = <<>>

BuildLoop == StartProcess \/ RunSpecialCommand \/ StopOnLoop \/ WaitForProcesses
             \/ RemoveProcess \/ TakeFinishedProcesses \/ Drain \/ SaveGraph

Next == StartBuild \/ BuildLoop \/ (\E n \in Nodes : ProcessExits(n)) \/ Abort \/ User

AllNodes == UNION {DOMAIN p.nodes : p \in Projects}

\* The build system runs, and every command ends.
Fairness == WF_vars(BuildLoop) /\ \A n \in AllNodes : WF_vars(ProcessExits(n))

Spec == Init /\ [][Next]_vars /\ Fairness

-------------------------------------------------------------------------------
(***************************************************************************)
(* Properties.                                                             *)
(***************************************************************************)
\* Every variable keeps its type.
TypeOK ==
  /\ command \in [Nodes -> Commands] /\ (saved = NoGraph \/ saved \in [Nodes -> Commands])
  /\ mtime \in [Files -> 0 .. MaxTime] /\ now \in 1 .. MaxTime
  /\ DOMAIN content = Files /\ \A f \in Sources : content[f] \in {0, 1}
  /\ deps \in [Nodes -> SUBSET (Files \cup {NoFile})]
  /\ phase \in {"idle", "start", "work", "broken", "lost", "succeeded", "ok", "failed"}
  /\ to_rebuild \subseteq Nodes
  /\ state \in [Nodes -> {"Ready", "RebuildRequired", "RebuildInProgress"}]
  /\ running \in Seq(Nodes) /\ finished \in Seq(Nodes) /\ closed \subseteq DOMAIN exited
  /\ Len(running) <= Jobs

\* When the build system has just reported success, every output is what its
\* command, as the build script has it now, makes of the present inputs: the
\* nodes that were not rebuilt did not need it.
UpToDate ==
  phase = "ok" =>
    \A n \in Nodes : \A o \in Graph[n].outputs : mtime[o] > 0 /\ content[o] = Result(n)

\* While the command of a node runs, no node that makes one of the files it
\* reads is running or waits to be rebuilt.
InputsReady ==
  \A i \in DOMAIN running : \A m \in Nodes :
    state[m] # "Ready" => Graph[m].outputs \cap Reads(running[i]) = {}

\* The process group and the build loop agree: a node is in progress exactly as
\* long as the group has its process, running or finished, once (PerformGraphBuild
\* asserts that a finished process belongs to a node in progress), and no more
\* than the permitted number of processes run.
ProcessesMatchNodes ==
  LET all == running \o finished IN
    /\ \A i, j \in DOMAIN all : all[i] = all[j] => i = j
    /\ Len(running) <= Jobs
    /\ phase \in {"start", "work"} =>
         {all[i] : i \in DOMAIN all} = {n \in Nodes : state[n] = "RebuildInProgress"}

\* Nothing is rebuilt when nothing has changed: a build right after a successful
\* one whose outputs are all newer than their inputs has nothing to do.
NoNeedlessRebuild ==
  [][ phase = "ok" /\ StartBuild
      /\ (\A n \in Nodes : \A i \in Reads(n), o \in Graph[n].outputs : mtime[i] < mtime[o])
      => to_rebuild' = {} ]_vars

\* Every invocation comes to an end, for graphs with loops too.
BuildTerminates == phase = "start" ~> phase \in {"ok", "failed", "idle"}

=============================================================================
