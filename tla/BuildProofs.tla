------------------------------ MODULE BuildProofs ------------------------------
(***************************************************************************)
(* What holds of the build loop for every project: the process group and   *)
(* the states of the nodes agree, and a command starts only when the files *)
(* it reads are ready.                                                     *)
(***************************************************************************)
EXTENDS Build, SequenceTheorems, WellFoundedInduction, TLAPS

\* The provers to try, in this order, with their time limits in seconds.
USE SMTT(30), ZenonT(30), SMTT(40), SMTT(50), SMTT(60)

ElementsOf(s) == {s[i] : i \in 1 .. Len(s)}

OnlyOnce(s) == \A i, j \in 1 .. Len(s) : s[i] = s[j] => i = j

NodeStates == {"Ready", "RebuildRequired", "RebuildInProgress"}

Phases == {"idle", "start", "work", "broken", "lost", "succeeded", "ok", "failed"}

\* The files node n reads whatever the contents of the files are.
AlwaysReads(n) == Graph[n].inputs \cup Program(n)

\* The types the discipline below needs.
LoopTypes ==
  /\ project \in Projects
  /\ phase \in Phases
  /\ to_rebuild \subseteq Nodes
  /\ state \in [Nodes -> NodeStates]
  /\ running \in Seq(Nodes) /\ finished \in Seq(Nodes) /\ Len(running) <= Jobs
  /\ \A n \in DOMAIN exited : exited[n] \in BOOLEAN
  /\ closed \subseteq DOMAIN exited

\* Every process of the group belongs to a node in progress, every node in
\* progress has one unless the build is broken, and no node has two.
Discipline ==
  /\ OnlyOnce(running) /\ OnlyOnce(finished) /\ ElementsOf(running) \cap ElementsOf(finished) = {}
  /\ \A n \in ElementsOf(running) \cup ElementsOf(finished) : state[n] = "RebuildInProgress"
  /\ phase \in {"start", "work"} =>
       \A n \in Nodes : state[n] = "RebuildInProgress" => n \in ElementsOf(running) \cup ElementsOf(finished)
  /\ phase \notin {"start", "work", "broken"} => running = <<>> /\ finished = <<>>
  /\ DOMAIN exited \subseteq ElementsOf(running)
  /\ \A n \in Nodes : state[n] # "Ready" => n \in to_rebuild

\* A node that was started reads nothing that has still to be made.
StartedAfterInputs ==
  \A n, m \in Nodes :
    /\ state[n] = "RebuildInProgress" \/ (n \in to_rebuild /\ state[n] = "Ready")
    /\ state[m] # "Ready"
    => Graph[m].outputs \cap AlwaysReads(n) = {}

LInv == LoopTypes /\ Discipline /\ StartedAfterInputs

-------------------------------------------------------------------------------
\* What the assumption says of the project that is built.
LEMMA ProjectFacts ==
  ASSUME project \in Projects
  PROVE  /\ Graph \in Seq(NodeRecords(Files)) /\ Nodes \subseteq Nat /\ NoFile \notin Files
         /\ \A n \in Nodes :
              /\ Graph[n].inputs \subseteq Files /\ Graph[n].outputs \subseteq Files
              /\ Graph[n].special \in BOOLEAN /\ Graph[n].dep_file \in BOOLEAN
              /\ Graph[n].special \/ Graph[n].program \in Files
              /\ Graph[n].dep_file => Graph[n].source \in Graph[n].inputs /\ Graph[n].header \in Files
         /\ \A n, m \in Nodes : Graph[n].header \notin Graph[m].outputs
         /\ \A n, m \in Nodes : n # m => Graph[n].outputs \cap Graph[m].outputs = {}
         /\ Commands # {} /\ Jobs \in Nat \ {0} /\ MaxChanges \in Nat /\ MaxTime \in Nat \ {0}
<1>1. /\ Graph \in Seq(NodeRecords(Files)) /\ NoFile \notin Files
      /\ \A n \in Nodes :
           /\ Graph[n].special \/ Graph[n].program \in Files
           /\ Graph[n].dep_file => Graph[n].source \in Graph[n].inputs /\ Graph[n].header \in Files
           /\ Graph[n].header \notin GeneratedBy(Graph)
      /\ \A n, m \in Nodes : n # m => Graph[n].outputs \cap Graph[m].outputs = {}
      /\ Commands # {} /\ Jobs \in Nat \ {0} /\ MaxChanges \in Nat /\ MaxTime \in Nat \ {0}
  BY ProjectsAssumption DEF Graph, Nodes, Files, Commands, Jobs, MaxChanges, MaxTime
<1>2. Nodes = 1 .. Len(Graph) /\ \A n \in Nodes : Graph[n] \in NodeRecords(Files)
  BY <1>1 DEF Nodes
<1>3. \A n \in Nodes : /\ Graph[n].inputs \subseteq Files /\ Graph[n].outputs \subseteq Files
                       /\ Graph[n].special \in BOOLEAN /\ Graph[n].dep_file \in BOOLEAN
  BY <1>2 DEF NodeRecords
<1>4. \A n, m \in Nodes : Graph[n].header \notin Graph[m].outputs
  BY <1>1 DEF GeneratedBy, Nodes
<1>5. Nodes \subseteq Nat
  BY <1>1, <1>2
<1>6. QED
  BY <1>1, <1>3, <1>4, <1>5

\* The project does not change.
LEMMA SameProject ==
  ASSUME project' = project
  PROVE  /\ Graph' = Graph /\ Files' = Files /\ Nodes' = Nodes /\ Commands' = Commands /\ Jobs' = Jobs
         /\ MaxTime' = MaxTime /\ Sources' = Sources
         /\ \A n : Program(n)' = Program(n)
         /\ \A n : AlwaysReads(n)' = AlwaysReads(n)
BY DEF Graph, Files, Nodes, Commands, Jobs, MaxTime, Sources, Program, AlwaysReads

\* The linear search finds a node when there is one.
LEMMA SelectedExists ==
  ASSUME project \in Projects, Selectable # {}
  PROVE  Selected \in Selectable
<1>1. Selectable \subseteq Nat
  BY ProjectFacts DEF Selectable
<1>2. \E n \in Selectable : \A m \in Selectable : ~(<<m, n>> \in OpToRel(<, Nat))
  BY <1>1, NatLessThanWellFounded, WFMin, Zenon
<1>3. PICK n \in Selectable : \A m \in Selectable : ~(<<m, n>> \in OpToRel(<, Nat))
  BY <1>2, Zenon
<1>4. ASSUME NEW m \in Nat, NEW k \in Nat, ~(<<m, k>> \in OpToRel(<, Nat)) PROVE k <= m
  <2>1. ~(<<m, k>> \in {ss \in Nat \X Nat : ss[1] < ss[2]})
    BY <1>4, Zenon DEF OpToRel
  <2>2. QED
    BY <2>1
<1>5. \A m \in Selectable : n <= m
  BY <1>1, <1>3, <1>4, Zenon
<1>6. QED
  BY <1>5 DEF Selected

\* Removing a process from its place in the group leaves the others.
LEMMA SwapRemove ==
  ASSUME NEW S, NEW s \in Seq(S), OnlyOnce(s), NEW i \in 1 .. Len(s),
         NEW r, r = SubSeq([s EXCEPT ![i] = s[Len(s)]], 1, Len(s) - 1)
  PROVE  /\ r \in Seq(S) /\ Len(r) = Len(s) - 1
         /\ OnlyOnce(r)
         /\ ElementsOf(r) = ElementsOf(s) \ {s[i]}
<1> DEFINE n == Len(s)  e == [s EXCEPT ![i] = s[n]]
<1>1. n \in Nat /\ n >= 1 /\ i \in 1 .. n /\ s[n] \in S
  OBVIOUS
<1>2. /\ e \in Seq(S) /\ Len(e) = n
      /\ \A j \in 1 .. n : e[j] = IF j = i THEN s[n] ELSE s[j]
  BY <1>1, ExceptSeq
<1>3. \A j \in 1 .. n - 1 : e[j] \in S
  BY <1>1, <1>2
<1>4. r = SubSeq(e, 1, n - 1)
  OBVIOUS
<1> HIDE DEF n, e
<1>5. /\ r \in Seq(S) /\ Len(r) = n - 1
      /\ \A j \in 1 .. n - 1 : r[j] = e[j]
  BY <1>1, <1>3, <1>4, SubSeqProperties
<1>6. \A j \in 1 .. n - 1 : r[j] = IF j = i THEN s[n] ELSE s[j]
  BY <1>1, <1>2, <1>5
<1>7. \A j, k \in 1 .. n : s[j] = s[k] => j = k
  BY DEF OnlyOnce, n
<1>8. OnlyOnce(r)
  BY <1>1, <1>5, <1>6, <1>7 DEF OnlyOnce
<1>9. ElementsOf(r) \subseteq ElementsOf(s) \ {s[i]}
  BY <1>1, <1>5, <1>6, <1>7 DEF ElementsOf, n
<1>10. ASSUME NEW j \in 1 .. n, j # i PROVE s[j] \in ElementsOf(r)
  <2>1. CASE j = n
    <3>1. i \in 1 .. n - 1
      BY <1>1, <1>10, <2>1
    <3>2. r[i] = s[j]
      BY <1>6, <2>1, <3>1, Zenon
    <3>3. QED
      BY <1>5, <3>1, <3>2 DEF ElementsOf
  <2>2. CASE j # n
    <3>1. j \in 1 .. n - 1
      BY <1>1, <2>2
    <3>2. r[j] = s[j]
      BY <1>6, <1>10, <3>1, ZenonT(40)
    <3>3. QED
      BY <1>5, <3>1, <3>2 DEF ElementsOf
  <2>3. QED
    BY <2>1, <2>2
<1>11. ElementsOf(s) \ {s[i]} \subseteq ElementsOf(r)
  BY <1>10 DEF ElementsOf, n
<1>12. QED
  BY <1>5, <1>8, <1>9, <1>11, Zenon DEF n

LEMMA AppendOnce ==
  ASSUME NEW S, NEW s \in Seq(S), NEW x \in S
  PROVE  /\ Append(s, x) \in Seq(S) /\ Len(Append(s, x)) = Len(s) + 1
         /\ ElementsOf(Append(s, x)) = ElementsOf(s) \cup {x}
         /\ OnlyOnce(s) /\ x \notin ElementsOf(s) => OnlyOnce(Append(s, x))
<1> DEFINE a == Append(s, x)
<1>1. /\ a \in Seq(S) /\ Len(a) = Len(s) + 1 /\ Len(s) \in Nat
      /\ \A i \in 1 .. Len(s) + 1 : a[i] = IF i = Len(s) + 1 THEN x ELSE s[i]
  BY AppendProperties
<1> HIDE DEF a
<1>2. ElementsOf(a) = ElementsOf(s) \cup {x}
  <2>1. ElementsOf(a) \subseteq ElementsOf(s) \cup {x}
    BY <1>1 DEF ElementsOf
  <2>2. x \in ElementsOf(a)
    BY <1>1 DEF ElementsOf
  <2>3. ElementsOf(s) \subseteq ElementsOf(a)
    BY <1>1 DEF ElementsOf
  <2>4. QED
    BY <2>1, <2>2, <2>3
<1>3. OnlyOnce(s) /\ x \notin ElementsOf(s) => OnlyOnce(a)
  BY <1>1 DEF OnlyOnce, ElementsOf
<1>4. QED
  BY <1>1, <1>2, <1>3 DEF a

LEMMA EmptyGroup == <<>> \in Seq(Nodes) /\ Len(<<>>) = 0 /\ ElementsOf(<<>>) = {} /\ OnlyOnce(<<>>)
<1>1. <<>> \in Seq(Nodes) /\ Len(<<>>) = 0
  OBVIOUS
<1>2. QED
  BY <1>1 DEF ElementsOf, OnlyOnce

-------------------------------------------------------------------------------
(***************************************************************************)
(* The invariant: one lemma per action.                                    *)
(***************************************************************************)
LEMMA StartBuildLInv == ASSUME LInv, StartBuild PROVE LInv'
<1>1. /\ LoopTypes /\ Discipline
  BY DEF LInv
<1>2. /\ phase \in {"idle", "ok", "failed"} /\ to_rebuild' = NodesToRebuild
      /\ state' = [n \in Nodes |-> IF n \in to_rebuild' THEN "RebuildRequired" ELSE "Ready"]
      /\ phase' \in {"succeeded", "start"}
      /\ UNCHANGED <<project, running, exited, closed, finished>>
  BY DEF StartBuild
<1>3. to_rebuild' \subseteq Nodes
  BY <1>2 DEF NodesToRebuild
<1>4. running = <<>> /\ finished = <<>>
  BY <1>1, <1>2 DEF Discipline
<1>5. \A n \in Nodes : state'[n] = IF n \in to_rebuild' THEN "RebuildRequired" ELSE "Ready"
  BY <1>2
<1>6. LoopTypes'
  BY SameProject, <1>1, <1>2, <1>3 DEF LoopTypes, Phases, NodeStates
<1>7. Discipline'
  BY SameProject, <1>1, <1>2, <1>4, <1>5, EmptyGroup DEF Discipline
<1>8. StartedAfterInputs'
  BY SameProject, <1>2, <1>5 DEF StartedAfterInputs
<1>9. QED
  BY <1>6, <1>7, <1>8 DEF LInv

\* A node is selected: everything it reads is ready.
LEMMA SelectedFacts ==
  ASSUME LInv, Selectable # {}
  PROVE  /\ Selected \in Nodes /\ state[Selected] = "RebuildRequired" /\ Selected \in to_rebuild
         /\ \A m \in Nodes : state[m] # "Ready" => Graph[m].outputs \cap InputFiles(Selected) = {}
         /\ \A m \in Nodes : state[m] # "Ready" => Graph[m].outputs \cap AlwaysReads(Selected) = {}
<1>1. Selected \in Selectable
  BY SelectedExists DEF LInv, LoopTypes
<1>2. /\ Selected \in Nodes /\ state[Selected] = "RebuildRequired"
      /\ \A m \in Nodes : state[m] # "Ready" => Graph[m].outputs \cap InputFiles(Selected) = {}
  BY <1>1 DEF Selectable, CanStartRebuild
<1>3. AlwaysReads(Selected) \subseteq InputFiles(Selected)
  BY DEF AlwaysReads, InputFiles
<1>4. QED
  BY <1>2, <1>3 DEF LInv, Discipline

\* A selected node is started, made ready at once, or fails to start.
LEMMA StartNodeLInv ==
  ASSUME LInv, NEW n \in Nodes, state[n] = "RebuildRequired", n \in to_rebuild, phase = "start",
         \A m \in Nodes : state[m] # "Ready" => Graph[m].outputs \cap AlwaysReads(n) = {},
         UNCHANGED <<project, to_rebuild, exited, closed, finished>>,
         \/ /\ state' = [state EXCEPT ![n] = "RebuildInProgress"]
            /\ running' = Append(running, n) /\ Len(running) < Jobs /\ phase' = phase
         \/ /\ state' = [state EXCEPT ![n] = "RebuildInProgress"]
            /\ running' = running /\ phase' = "broken"
         \/ /\ state' = [state EXCEPT ![n] = "Ready"]
            /\ running' = running /\ phase' = phase
  PROVE  LInv'
<1>1. LoopTypes /\ Discipline /\ StartedAfterInputs
  BY DEF LInv
<1>2. PICK x \in {"RebuildInProgress", "Ready"} : state' = [state EXCEPT ![n] = x]
  OBVIOUS
<1>3. \A m \in Nodes : state'[m] = IF m = n THEN x ELSE state[m]
  BY <1>1, <1>2 DEF LoopTypes
<1>4. n \notin ElementsOf(running) \cup ElementsOf(finished)
  BY <1>1 DEF Discipline
<1>5. /\ running' \in Seq(Nodes) /\ Len(running') <= Jobs /\ OnlyOnce(running')
      /\ ElementsOf(running') = ElementsOf(running) \cup (IF running' = running THEN {} ELSE {n})
  <2>1. running \in Seq(Nodes) /\ OnlyOnce(running) /\ Len(running) <= Jobs /\ Len(running) \in Nat /\ Jobs \in Nat
    BY <1>1, ProjectFacts DEF LoopTypes, Discipline
  <2>2. CASE running' = running
    BY <2>1, <2>2
  <2>3. CASE running' # running
    <3>1. running' = Append(running, n) /\ Len(running) < Jobs
      BY <2>3
    <3>2. QED
      BY <1>4, <2>1, <2>3, <3>1, AppendOnce
  <2>4. QED
    BY <2>2, <2>3
<1>6. LoopTypes'
  <2>1. state' \in [Nodes -> NodeStates]
    BY <1>1, <1>2 DEF LoopTypes, NodeStates
  <2>2. phase' \in Phases
    BY DEF Phases
  <2>3. QED
    BY SameProject, <1>1, <1>5, <2>1, <2>2 DEF LoopTypes
<1>7. Discipline'
  <2>1. \A m \in ElementsOf(running') \cup ElementsOf(finished) : m \in Nodes
    BY <1>1, <1>5 DEF LoopTypes, ElementsOf
  <2>2. running' # running => x = "RebuildInProgress"
    BY <1>1, <1>2, <1>3
  <2>3. running' = running /\ phase' = "start" => x = "Ready"
    <3>1. running # Append(running, n)
      BY <1>1 DEF LoopTypes
    <3>2. QED
      BY <1>1, <1>2, <1>3, <3>1
  <2>4. QED
    BY SameProject, <1>1, <1>3, <1>4, <1>5, <2>1, <2>2, <2>3 DEF Discipline
<1>8. StartedAfterInputs'
  BY SameProject, <1>1, <1>3 DEF StartedAfterInputs
<1>9. QED
  BY <1>6, <1>7, <1>8 DEF LInv

LEMMA StartProcessLInv == ASSUME LInv, StartProcess PROVE LInv'
<1>1. Selectable # {} /\ phase = "start" /\ Len(running) < Jobs
  BY DEF StartProcess, MayStart
<1>2. QED
  BY <1>1, SelectedFacts, StartNodeLInv DEF StartProcess

LEMMA RunSpecialCommandLInv == ASSUME LInv, RunSpecialCommand PROVE LInv'
<1>1. Selectable # {} /\ phase = "start"
  BY DEF RunSpecialCommand, MayStart
<1>2. QED
  BY <1>1, SelectedFacts, StartNodeLInv DEF RunSpecialCommand

\* A step that changes the phase only, or the ends of processes.
LEMMA PhaseLInv ==
  ASSUME LInv, UNCHANGED <<project, to_rebuild, state, running, finished>>, phase' \in Phases,
         phase' \in {"start", "work"} => phase \in {"start", "work"},
         phase' \notin {"start", "work", "broken"} => phase \notin {"start", "work", "broken"},
         DOMAIN exited' \subseteq ElementsOf(running), \A n \in DOMAIN exited' : exited'[n] \in BOOLEAN,
         closed' \subseteq DOMAIN exited'
  PROVE  LInv'
<1>1. LoopTypes'
  BY SameProject DEF LInv, LoopTypes
<1>2. Discipline'
  BY SameProject DEF LInv, Discipline
<1>3. StartedAfterInputs'
  BY SameProject DEF LInv, StartedAfterInputs
<1>4. QED
  BY <1>1, <1>2, <1>3 DEF LInv

LEMMA ProcessExitsLInv == ASSUME LInv, NEW n \in Nodes, ProcessExits(n) PROVE LInv'
<1>1. /\ n \in {running[i] : i \in DOMAIN running}
      /\ \/ exited' = [m \in DOMAIN exited \cup {n} |-> m = n \/ exited[m]]
         \/ exited' = [m \in DOMAIN exited \cup {n} |-> m # n /\ exited[m]]
      /\ UNCHANGED <<project, phase, to_rebuild, state, running, closed, finished>>
  BY DEF ProcessExits
<1>2. /\ DOMAIN exited \subseteq ElementsOf(running) /\ closed \subseteq DOMAIN exited /\ phase \in Phases
      /\ \A m \in DOMAIN exited : exited[m] \in BOOLEAN
      /\ DOMAIN running = 1 .. Len(running)
  BY DEF LInv, LoopTypes, Discipline
<1>3. n \in ElementsOf(running)
  BY <1>1, <1>2 DEF ElementsOf
<1>4. DOMAIN exited' = DOMAIN exited \cup {n} /\ \A m \in DOMAIN exited' : exited'[m] \in BOOLEAN
  BY <1>1, <1>2, ZenonT(40)
<1>5. QED
  BY <1>1, <1>2, <1>3, <1>4, PhaseLInv

LEMMA StopOnLoopLInv == ASSUME LInv, StopOnLoop PROVE LInv'
BY PhaseLInv DEF StopOnLoop, MayStart, LInv, LoopTypes, Discipline, Phases

LEMMA WaitForProcessesLInv == ASSUME LInv, WaitForProcesses PROVE LInv'
BY PhaseLInv DEF WaitForProcesses, LInv, LoopTypes, Discipline, Phases

LEMMA UserLInv == ASSUME LInv, User PROVE LInv'
BY PhaseLInv DEF User, UserActs, LInv, LoopTypes, Discipline, Phases

LEMMA RemoveProcessLInv == ASSUME LInv, RemoveProcess PROVE LInv'
<1> DEFINE n == running[work]
<1>1. LoopTypes /\ Discipline /\ StartedAfterInputs
  BY DEF LInv
<1>2. /\ phase = "work" /\ work \in 1 .. Len(running)
      /\ UNCHANGED <<project, to_rebuild, state>>
  BY <1>1 DEF RemoveProcess, LoopTypes
<1>3. CASE n \notin closed
  <2>1. UNCHANGED <<phase, running, exited, closed, finished>>
    BY <1>3 DEF RemoveProcess
  <2>2. QED
    BY <1>1, <1>2, <2>1, PhaseLInv DEF LoopTypes, Discipline
<1>4. CASE n \in closed
  <2>1. /\ running' = SubSeq([running EXCEPT ![work] = running[Len(running)]], 1, Len(running) - 1)
        /\ exited' = [m \in DOMAIN exited \ {n} |-> exited[m]]
        /\ closed' = closed \ {n}
        /\ IF exited[n] THEN finished' = Append(finished, n) /\ UNCHANGED phase
                        ELSE phase' = "broken" /\ UNCHANGED finished
    BY <1>4 DEF RemoveProcess
  <2>2. /\ running' \in Seq(Nodes) /\ Len(running') = Len(running) - 1
        /\ OnlyOnce(running') /\ ElementsOf(running') = ElementsOf(running) \ {n}
    <3>1. running \in Seq(Nodes) /\ OnlyOnce(running)
      BY <1>1 DEF LoopTypes, Discipline
    <3>2. QED
      BY <1>2, <2>1, <3>1, SwapRemove, ZenonT(40)
  <2>3. n \in Nodes /\ n \in ElementsOf(running) /\ n \notin ElementsOf(finished)
    <3>1. running[work] \in Nodes /\ running[work] \in ElementsOf(running)
      BY <1>1, <1>2 DEF LoopTypes, ElementsOf
    <3>2. QED
      BY <1>1, <3>1 DEF Discipline
  <2>4. /\ finished' \in Seq(Nodes) /\ OnlyOnce(finished')
        /\ ElementsOf(finished') \subseteq ElementsOf(finished) \cup {n}
        /\ phase' # "broken" => ElementsOf(finished') = ElementsOf(finished) \cup {n}
        /\ phase' \in {"work", "broken"}
    <3> HIDE DEF n
    <3>1. finished \in Seq(Nodes) /\ OnlyOnce(finished)
      BY <1>1 DEF LoopTypes, Discipline
    <3>2. CASE exited[n]
      <4>1. finished' = Append(finished, n) /\ phase' = "work"
        BY <1>2, <2>1, <3>2
      <4>2. QED
        BY <2>3, <3>1, <4>1, AppendOnce
    <3>3. CASE ~exited[n]
      BY <1>2, <2>1, <2>3, <3>1, <3>3
    <3>4. QED
      BY <3>2, <3>3
  <2>5. /\ DOMAIN exited' \subseteq ElementsOf(running') /\ closed' \subseteq DOMAIN exited'
        /\ \A m \in DOMAIN exited' : exited'[m] \in BOOLEAN
    <3> HIDE DEF n
    <3>1. QED
      BY <1>1, <2>1, <2>2, Zenon DEF LoopTypes, Discipline
  <2> HIDE DEF n
  <2>6. LoopTypes'
    <3>1. Len(running') <= Jobs
      BY <1>1, <2>2, ProjectFacts DEF LoopTypes
    <3>2. QED
      BY SameProject, <1>1, <1>2, <2>2, <2>4, <2>5, <3>1 DEF LoopTypes, Phases
  <2>7. Discipline'
    BY SameProject, <1>1, <1>2, <2>2, <2>3, <2>4, <2>5 DEF Discipline
  <2>8. StartedAfterInputs'
    BY SameProject, <1>1, <1>2 DEF StartedAfterInputs
  <2>9. QED
    BY <2>6, <2>7, <2>8 DEF LInv
<1>5. QED
  BY <1>3, <1>4

LEMMA TakeFinishedLInv == ASSUME LInv, TakeFinishedProcesses PROVE LInv'
<1> DEFINE done == {finished[i] : i \in DOMAIN finished}
<1>1. LoopTypes /\ Discipline /\ StartedAfterInputs
  BY DEF LInv
<1>2. /\ phase = "work"
      /\ state' = [n \in Nodes |-> IF n \in done THEN "Ready" ELSE state[n]]
      /\ phase' = IF \A n \in to_rebuild : state'[n] = "Ready" THEN "succeeded" ELSE "start"
      /\ finished' = <<>> /\ UNCHANGED <<project, to_rebuild, running, exited, closed>>
  BY DEF TakeFinishedProcesses
<1>3. done = ElementsOf(finished)
  BY <1>1 DEF LoopTypes, ElementsOf
<1>4. \A n \in Nodes : state'[n] = IF n \in ElementsOf(finished) THEN "Ready" ELSE state[n]
  BY <1>2, <1>3
<1> HIDE DEF done
<1>5. phase' = "succeeded" => running = <<>>
  <2>1. SUFFICES ASSUME phase' = "succeeded", running # <<>> PROVE FALSE
    OBVIOUS
  <2>2. \A n \in to_rebuild : state'[n] = "Ready"
    BY <1>2, <2>1
  <2>3. running[1] \in ElementsOf(running) /\ running[1] \in Nodes
    BY <1>1, <2>1 DEF LoopTypes, ElementsOf
  <2>4. QED
    BY <1>1, <1>4, <2>2, <2>3 DEF Discipline
<1>6. LoopTypes'
  <2>1. state' \in [Nodes -> NodeStates]
    BY <1>1, <1>2 DEF LoopTypes, NodeStates
  <2>2. QED
    BY SameProject, <1>1, <1>2, <2>1, EmptyGroup DEF LoopTypes, Phases
<1>7. Discipline'
  <2>1. \A n \in ElementsOf(running) \cup ElementsOf(finished) : n \in Nodes
    BY <1>1 DEF LoopTypes, ElementsOf
  <2>2. QED
    BY SameProject, <1>1, <1>2, <1>4, <1>5, <2>1, EmptyGroup DEF Discipline
<1>8. StartedAfterInputs'
  <2>1. \A n \in Nodes : n \in ElementsOf(finished) => state[n] = "RebuildInProgress"
    BY <1>1 DEF Discipline
  <2>2. QED
    BY SameProject, <1>1, <1>2, <1>4, <2>1 DEF StartedAfterInputs
<1>9. QED
  BY <1>6, <1>7, <1>8 DEF LInv

\* The end of an invocation, of whatever kind.
LEMMA ForgetLInv ==
  ASSUME LInv, ForgetNodes, project' = project, phase' \in {"idle", "lost", "ok", "failed"},
         running' = <<>>, finished' = <<>>, closed' \subseteq DOMAIN exited', DOMAIN exited' = {}
  PROVE  LInv'
<1>1. \A n \in Nodes : state'[n] = "Ready"
  BY DEF ForgetNodes
<1>2. LoopTypes'
  BY SameProject, EmptyGroup, ProjectFacts DEF LInv, LoopTypes, ForgetNodes, Phases, NodeStates
<1>3. Discipline'
  BY SameProject, <1>1, EmptyGroup DEF LInv, Discipline
<1>4. StartedAfterInputs'
  BY SameProject, <1>1 DEF LInv, StartedAfterInputs, ForgetNodes
<1>5. QED
  BY <1>2, <1>3, <1>4 DEF LInv

LEMMA StepLInv == LInv /\ [Next]_vars => LInv'
<1> SUFFICES ASSUME LInv, [Next]_vars PROVE LInv'
  OBVIOUS
<1>1. CASE UNCHANGED vars
  BY <1>1, SameProject DEF vars, LInv, LoopTypes, Discipline, StartedAfterInputs
<1>2. CASE Drain
  BY <1>2, ForgetLInv DEF Drain
<1>3. CASE Abort
  BY <1>3, ForgetLInv DEF Abort
<1>4. CASE SaveGraph
  <2>1. running = <<>> /\ finished = <<>> /\ DOMAIN exited = {} /\ closed = {}
    BY <1>4, EmptyGroup, Zenon DEF SaveGraph, LInv, Discipline, LoopTypes
  <2>2. QED
    BY <1>4, <2>1, ForgetLInv DEF SaveGraph
<1>5. CASE \E n \in Nodes : ProcessExits(n)
  BY <1>5, ProcessExitsLInv
<1>6. QED
  BY <1>1, <1>2, <1>3, <1>4, <1>5, StartBuildLInv, StartProcessLInv, RunSpecialCommandLInv, StopOnLoopLInv,
     WaitForProcessesLInv, RemoveProcessLInv, TakeFinishedLInv, UserLInv
  DEF Next, BuildLoop

LEMMA InitLInv == Init => LInv
<1> SUFFICES ASSUME Init PROVE LInv
  OBVIOUS
<1>1. \A n \in Nodes : state[n] = "Ready"
  BY DEF Init
<1>2. LoopTypes
  BY EmptyGroup, ProjectFacts DEF Init, LoopTypes, Phases, NodeStates
<1>3. Discipline
  BY <1>1, EmptyGroup DEF Init, Discipline
<1>4. StartedAfterInputs
  BY <1>1 DEF Init, StartedAfterInputs
<1>5. QED
  BY <1>2, <1>3, <1>4 DEF LInv

\* The invariant of the build loop holds for every project, whatever fails or
\* is killed and whatever the user does between two invocations.
THEOREM LoopInvariant == Spec => []LInv
BY InitLInv, StepLInv, PTL DEF Spec

-------------------------------------------------------------------------------
(***************************************************************************)
(* What follows.                                                           *)
(***************************************************************************)
LEMMA LoopMatches == LInv => ProcessesMatchNodes
<1> SUFFICES ASSUME LInv PROVE ProcessesMatchNodes
  OBVIOUS
<1> DEFINE all == running \o finished
<1>1. LoopTypes /\ Discipline
  BY DEF LInv
<1>2. PICK a \in Nat, b \in Nat : Len(running) = a /\ Len(finished) = b
  BY <1>1 DEF LoopTypes
<1>3. /\ DOMAIN all = 1 .. a + b
      /\ \A i \in 1 .. a + b : all[i] = IF i <= a THEN running[i] ELSE finished[i - a]
  <2>1. /\ all \in Seq(Nodes) /\ Len(all) = a + b
        /\ \A i \in 1 .. a + b : all[i] = IF i <= a THEN running[i] ELSE finished[i - a]
    BY <1>1, <1>2, ConcatProperties, ZenonT(40) DEF LoopTypes
  <2>2. QED
    BY <2>1
<1> HIDE DEF all
<1>4. ASSUME NEW i \in 1 .. a + b, i > a PROVE i - a \in 1 .. b /\ all[i] = finished[i - a] /\ all[i] \in ElementsOf(finished)
  BY <1>2, <1>3, <1>4 DEF ElementsOf
<1>5. ASSUME NEW i \in 1 .. a + b, i <= a PROVE i \in 1 .. a /\ all[i] = running[i] /\ all[i] \in ElementsOf(running)
  BY <1>2, <1>3, <1>5 DEF ElementsOf
<1>6. \A i, j \in DOMAIN all : all[i] = all[j] => i = j
  <2>1. SUFFICES ASSUME NEW i \in 1 .. a + b, NEW j \in 1 .. a + b, all[i] = all[j] PROVE i = j
    BY <1>3
  <2>2. CASE i <= a /\ j <= a
    BY <1>1, <1>2, <1>5, <2>1, <2>2 DEF Discipline, OnlyOnce
  <2>3. CASE i > a /\ j > a
    <3>1. i - a \in 1 .. b /\ j - a \in 1 .. b /\ finished[i - a] = finished[j - a]
      BY <1>4, <2>1, <2>3
    <3>2. i - a = j - a
      BY <1>1, <1>2, <3>1 DEF Discipline, OnlyOnce
    <3>3. QED
      BY <1>2, <3>2
  <2>4. CASE (i <= a /\ j > a) \/ (i > a /\ j <= a)
    BY <1>1, <1>4, <1>5, <2>1, <2>4 DEF Discipline
  <2>5. QED
    BY <1>2, <2>2, <2>3, <2>4
<1>7. {all[i] : i \in DOMAIN all} = ElementsOf(running) \cup ElementsOf(finished)
  <2>1. ASSUME NEW i \in DOMAIN all PROVE all[i] \in ElementsOf(running) \cup ElementsOf(finished)
    BY <1>2, <1>3, <1>4, <1>5
  <2>2. ASSUME NEW i \in 1 .. a PROVE i \in DOMAIN all /\ all[i] = running[i]
    BY <1>2, <1>3
  <2>3. ASSUME NEW i \in 1 .. b PROVE i + a \in DOMAIN all /\ all[i + a] = finished[i]
    <3>1. i + a \in 1 .. a + b /\ i + a > a /\ (i + a) - a = i
      BY <1>2
    <3>2. QED
      BY <1>3, <1>4, <3>1
  <2>4. ElementsOf(running) \subseteq {all[i] : i \in DOMAIN all}
    BY <1>2, <2>2 DEF ElementsOf
  <2>5. ElementsOf(finished) \subseteq {all[i] : i \in DOMAIN all}
    BY <1>2, <2>3 DEF ElementsOf
  <2>6. QED
    BY <2>1, <2>4, <2>5
<1>8. phase \in {"start", "work"} =>
        ElementsOf(running) \cup ElementsOf(finished) = {n \in Nodes : state[n] = "RebuildInProgress"}
  <2>1. \A n \in ElementsOf(running) \cup ElementsOf(finished) : n \in Nodes
    BY <1>1 DEF LoopTypes, ElementsOf
  <2>2. QED
    BY <1>1, <2>1 DEF Discipline
<1>9. QED
  BY <1>1, <1>6, <1>7, <1>8, Zenon DEF ProcessesMatchNodes, all, LoopTypes

LEMMA LoopReady == LInv => InputsReady
<1> SUFFICES ASSUME LInv, NEW i \in DOMAIN running, NEW m \in Nodes, state[m] # "Ready"
             PROVE  Graph[m].outputs \cap Reads(running[i]) = {}
  BY DEF InputsReady
<1>1. running[i] \in Nodes /\ running[i] \in ElementsOf(running)
  BY DEF LInv, LoopTypes, ElementsOf
<1>2. Graph[m].outputs \cap AlwaysReads(running[i]) = {}
  BY <1>1 DEF LInv, Discipline, StartedAfterInputs
<1>3. Reads(running[i]) \subseteq AlwaysReads(running[i]) \cup {Graph[running[i]].header}
  BY DEF Reads, AlwaysReads
<1>4. Graph[running[i]].header \notin Graph[m].outputs
  BY <1>1, ProjectFacts DEF LInv, LoopTypes
<1>5. QED
  BY <1>2, <1>3, <1>4

\* The process group and the states of the nodes agree in every build of every
\* project: PerformGraphBuild never takes a finished process of a node that is
\* not in progress, and never has two processes of one node.
THEOREM ProcessesMatch == Spec => []ProcessesMatchNodes
BY LoopInvariant, LoopMatches, PTL

\* No command ever reads a file that another command of the same build has
\* still to write, whatever the number of jobs.
THEOREM CommandsReadReadyFiles == Spec => []InputsReady
BY LoopInvariant, LoopReady, PTL

=============================================================================
