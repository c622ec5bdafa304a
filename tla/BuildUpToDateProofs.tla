-------------------------- MODULE BuildUpToDateProofs --------------------------
(***************************************************************************)
(* What the user is promised, for every project: a build that reports      *)
(* success leaves every output made from the present inputs, by the        *)
(* present command lines unless an earlier build failed or was killed, and *)
(* a second build has nothing to do.                                       *)
(***************************************************************************)
EXTENDS BuildProofs

\* The provers to try, in this order, with their time limits in seconds.
USE SMTT(30), ZenonT(30), SMTT(40), SMTT(50), SMTT(60)

\* Output o is what the command line c of node n makes of the present files.
Made(n, o, c) == content[o] = <<c, [f \in Reads(n) |-> content[f]]>>

\* The dependency file names what the command really reads.
DepsKnown(n) == Graph[n].dep_file => deps[n] = Reads(n) \ Program(n)

\* Every file of node n that the build system knows of is there.
Usable(n) ==
  /\ Graph[n].dep_file => deps[n] # NoDeps
  /\ \A f \in InputFiles(n) \cup Graph[n].outputs : mtime[f] > 0

BuiltBy(n, c) == Usable(n) /\ \A o \in Graph[n].outputs : Made(n, o, c) /\ DepsKnown(n)

\* The modification times tell nothing against node n.
LooksFresh(n) == Usable(n) /\ \A i \in InputFiles(n), o \in Graph[n].outputs : mtime[i] < mtime[o]

DiskTypes ==
  /\ command \in [Nodes -> Commands] /\ (saved = NoGraph \/ saved \in [Nodes -> Commands])
  /\ mtime \in [Files -> Nat] /\ now \in 1 .. MaxTime /\ \A f \in Files : mtime[f] <= now
  /\ DOMAIN content = Files /\ \A f \in Sources : content[f] \in {0, 1}
  /\ deps \in [Nodes -> SUBSET (Files \cup {NoFile})]
  /\ \A n \in Nodes : deps[n] = NoDeps \/ (Graph[n].dep_file /\ deps[n] \subseteq Files)

\* A node whose files look fresh was built from the present files.  This is what
\* comparing modification times rests on, and it holds at every moment.
FreshIsBuilt == \A n \in Nodes : LooksFresh(n) => \E c \in Commands : BuiltBy(n, c)

\* Node n has been rebuilt by this invocation.
Done(n) ==
  \/ n \in to_rebuild /\ state[n] = "Ready"
  \/ n \in ElementsOf(finished)
  \/ n \in DOMAIN exited /\ exited[n] = TRUE

\* In an invocation the nodes left alone are built and read nothing that is
\* rewritten; the nodes done are built by their present command lines.
InvocationBuilds ==
  /\ phase \in {"start", "work"} =>
       \A n \in Nodes :
         /\ n \notin to_rebuild => /\ \E c \in Commands : BuiltBy(n, c)
                                   /\ \A m \in to_rebuild : ~Feeds(m, n)
         /\ Done(n) => BuiltBy(n, command[n])
  /\ phase \in {"succeeded", "ok"} => \A n \in Nodes : \E c \in Commands : BuiltBy(n, c)
  /\ phase = "ok" => saved = command

DInv == LInv /\ DiskTypes /\ FreshIsBuilt /\ InvocationBuilds

-------------------------------------------------------------------------------
(***************************************************************************)
(* What a node reads.                                                      *)
(***************************************************************************)
LEMMA ReadFacts ==
  ASSUME LInv, DiskTypes, NEW n \in Nodes
  PROVE  /\ Reads(n) \subseteq Files /\ InputFiles(n) \subseteq Files /\ Graph[n].outputs \subseteq Files
         /\ AlwaysReads(n) \subseteq Reads(n) /\ AlwaysReads(n) \subseteq InputFiles(n)
         /\ \A m \in Nodes : Graph[m].outputs \cap AlwaysReads(n) = {} => Graph[m].outputs \cap Reads(n) = {}
         /\ DepsKnown(n) => Reads(n) = InputFiles(n)
<1>1. project \in Projects
  BY DEF LInv, LoopTypes
<1>2. Program(n) \subseteq Files
  BY <1>1, ProjectFacts DEF Program
<1>3. Reads(n) \subseteq Files
  BY <1>1, <1>2, ProjectFacts DEF Reads
<1>4. Dependencies(n) \subseteq Files
  BY DEF Dependencies, DiskTypes
<1>5. InputFiles(n) \subseteq Files /\ Graph[n].outputs \subseteq Files
  BY <1>1, <1>2, <1>4, ProjectFacts DEF InputFiles
<1>6. AlwaysReads(n) \subseteq Reads(n) /\ AlwaysReads(n) \subseteq InputFiles(n)
  BY DEF AlwaysReads, Reads, InputFiles
<1>7. ASSUME NEW m \in Nodes, Graph[m].outputs \cap AlwaysReads(n) = {} PROVE Graph[m].outputs \cap Reads(n) = {}
  <2>1. Reads(n) \subseteq AlwaysReads(n) \cup {Graph[n].header}
    BY DEF Reads, AlwaysReads
  <2>2. Graph[n].header \notin Graph[m].outputs
    BY <1>1, ProjectFacts
  <2>3. QED
    BY <1>7, <2>1, <2>2
<1>8. ASSUME DepsKnown(n) PROVE Reads(n) = InputFiles(n)
  <2>1. CASE Graph[n].dep_file
    <3>1. deps[n] = Reads(n) \ Program(n)
      BY <1>8, <2>1 DEF DepsKnown
    <3>2. deps[n] # NoDeps
      BY <1>1, <1>3, <3>1, ProjectFacts DEF NoDeps
    <3>3. QED
      BY <1>6, <3>1, <3>2 DEF InputFiles, Dependencies, AlwaysReads
  <2>2. CASE ~Graph[n].dep_file
    BY <2>2 DEF Reads, InputFiles, Dependencies, DiskTypes
  <2>3. QED
    BY <2>1, <2>2
<1>9. QED
  BY <1>3, <1>5, <1>6, <1>7, <1>8

LEMMA SameInputs ==
  ASSUME project' = project, NEW n, deps'[n] = deps[n]
  PROVE  InputFiles(n)' = InputFiles(n)
BY SameProject DEF InputFiles, Dependencies, NoDeps

\* A node stays built when the files it reads and its outputs stay.
LEMMA BuiltKept ==
  ASSUME LInv, DiskTypes, project' = project, NEW n \in Nodes, NEW c, BuiltBy(n, c), deps'[n] = deps[n],
         Graph[n].outputs # {} => \A f \in Reads(n) \cup Graph[n].outputs : content'[f] = content[f],
         \A f \in InputFiles(n) \cup Graph[n].outputs : mtime[f] > 0 => mtime'[f] > 0
  PROVE  BuiltBy(n, c)'
<1>1. InputFiles(n)' = InputFiles(n)
  BY SameInputs
<1>2. Usable(n)'
  BY SameProject, <1>1 DEF Usable, BuiltBy, NoDeps
<1>3. ASSUME NEW o \in Graph[n].outputs PROVE Made(n, o, c)' /\ DepsKnown(n)'
  <2>1. \A f \in Reads(n) \cup Graph[n].outputs : content'[f] = content[f]
    BY <1>3
  <2>2. Graph[n].dep_file => Graph[n].source \in Reads(n)
    BY ProjectFacts DEF LInv, LoopTypes, Reads
  <2>3. Reads(n)' = Reads(n)
    BY SameProject, <2>1, <2>2 DEF Reads
  <2>4. DepsKnown(n)'
    BY SameProject, <1>3, <2>3 DEF BuiltBy, DepsKnown
  <2>5. [f \in Reads(n) |-> content'[f]] = [f \in Reads(n) |-> content[f]]
    BY <2>1
  <2>6. content[o] = <<c, [f \in Reads(n) |-> content[f]]>> /\ content'[o] = content[o]
    BY <1>3, <2>1 DEF BuiltBy, Made
  <2>7. Made(n, o, c)'
    BY <2>3, <2>5, <2>6 DEF Made
  <2>8. QED
    BY <2>4, <2>7
<1>4. QED
  BY SameProject, <1>2, <1>3 DEF BuiltBy

\* A step that writes or deletes the files W: a node that looks fresh afterwards
\* reads none of them, since the outputs would be older than what was written.
LEMMA FreshStep ==
  ASSUME LInv, DiskTypes, project' = project, NEW n \in Nodes, NEW W, NEW C, C # {}, deps'[n] = deps[n],
         \A f \in Files \ W : mtime'[f] = mtime[f] /\ content'[f] = content[f],
         \A f \in W : mtime'[f] = 0 \/ (mtime'[f] \in Nat /\ mtime'[f] >= now /\ f \notin Graph[n].outputs),
         LooksFresh(n) => \E c \in C : BuiltBy(n, c),
         LooksFresh(n)'
  PROVE  \E c \in C : BuiltBy(n, c)'
<1>1. InputFiles(n)' = InputFiles(n) /\ InputFiles(n) \subseteq Files /\ Graph[n].outputs \subseteq Files
  BY SameInputs, ReadFacts
<1>2. CASE Graph[n].outputs = {}
  <2>1. PICK c \in C : TRUE
    OBVIOUS
  <2>2. BuiltBy(n, c)'
    BY SameProject, <1>2 DEF BuiltBy, LooksFresh
  <2>3. QED
    BY <2>2
<1>3. CASE Graph[n].outputs # {}
  <2>1. \A f \in InputFiles(n) \cup Graph[n].outputs : mtime'[f] > 0
    BY SameProject, <1>1 DEF LooksFresh, Usable
  <2>2. ASSUME NEW f \in W, f \in InputFiles(n) \cup Graph[n].outputs PROVE FALSE
    <3>1. mtime'[f] \in Nat /\ mtime'[f] >= now /\ f \notin Graph[n].outputs
      BY <2>1, <2>2
    <3>2. PICK o \in Graph[n].outputs : TRUE
      BY <1>3
    <3>3. o \notin W \/ mtime'[o] = 0
      BY <3>2
    <3>4. o \notin W /\ o \in Files
      BY <1>1, <2>1, <3>2, <3>3
    <3>5. mtime'[o] = mtime[o] /\ mtime[o] <= now /\ mtime[o] \in Nat /\ now \in Nat
      BY <3>4 DEF DiskTypes
    <3>6. mtime'[f] < mtime'[o]
      BY SameProject, <1>1, <2>2, <3>1, <3>2 DEF LooksFresh
    <3>7. QED
      BY <3>1, <3>5, <3>6
  <2>3. \A f \in InputFiles(n) \cup Graph[n].outputs : mtime'[f] = mtime[f] /\ content'[f] = content[f]
    BY <1>1, <2>2
  <2>4. LooksFresh(n)
    BY SameProject, <1>1, <2>3 DEF LooksFresh, Usable, NoDeps
  <2>5. PICK c \in C : BuiltBy(n, c)
    BY <2>4
  <2>6. Reads(n) = InputFiles(n)
    BY <1>3, <2>5, ReadFacts DEF BuiltBy
  <2>7. BuiltBy(n, c)'
    BY <2>3, <2>5, <2>6, BuiltKept
  <2>8. QED
    BY <2>7
<1>4. QED
  BY <1>2, <1>3

-------------------------------------------------------------------------------
(***************************************************************************)
(* A command writes its outputs.                                           *)
(***************************************************************************)
LEMMA WriteFacts ==
  ASSUME LInv, DiskTypes, NEW m \in Nodes, WriteOutputs(m)
  PROVE  /\ now' \in 1 .. MaxTime /\ now <= now' /\ now \in Nat /\ now' \in Nat /\ now' > 0
         /\ mtime' \in [Files -> Nat] /\ DOMAIN content' = Files /\ DOMAIN deps' = Nodes
         /\ \A f \in Files : mtime'[f] = IF f \in Graph[m].outputs THEN now' ELSE mtime[f]
         /\ \A f \in Files : content'[f] = IF f \in Graph[m].outputs THEN Result(m) ELSE content[f]
         /\ \A n \in Nodes : n # m => deps'[n] = deps[n]
         /\ deps'[m] = IF Graph[m].dep_file THEN Reads(m) \ Program(m) ELSE deps[m]
<1>1. PICK t \in {now, now + 1} :
        /\ t <= MaxTime /\ now' = t
        /\ mtime' = [f \in Files |-> IF f \in Graph[m].outputs THEN t ELSE mtime[f]]
        /\ content' = [f \in Files |-> IF f \in Graph[m].outputs THEN Result(m) ELSE content[f]]
        /\ deps' = [deps EXCEPT ![m] = IF Graph[m].dep_file THEN Reads(m) \ Program(m) ELSE @]
  BY DEF WriteOutputs
<1>2. now \in 1 .. MaxTime /\ MaxTime \in Nat /\ mtime \in [Files -> Nat] /\ DOMAIN deps = Nodes
  BY ProjectFacts DEF DiskTypes, LInv, LoopTypes
<1>3. now' \in 1 .. MaxTime /\ now <= now' /\ now \in Nat /\ now' \in Nat /\ now' > 0
  BY <1>1, <1>2
<1>4. mtime' \in [Files -> Nat]
  BY <1>1, <1>2, <1>3
<1>5. QED
  BY <1>1, <1>2, <1>3, <1>4

LEMMA WriteTypes ==
  ASSUME LInv, DiskTypes, NEW m \in Nodes, WriteOutputs(m), UNCHANGED <<project, command, saved>>
  PROVE  DiskTypes'
<1>1. \A f \in Files : mtime'[f] <= now'
  <2>1. \A f \in Files : mtime[f] \in Nat /\ mtime[f] <= now
    BY DEF DiskTypes
  <2>2. /\ now \in Nat /\ now' \in Nat /\ now <= now'
        /\ \A f \in Files : mtime'[f] = now' \/ mtime'[f] = mtime[f]
    BY WriteFacts, Zenon
  <2>3. QED
    BY <2>1, <2>2
<1>2. \A f \in Sources : content'[f] \in {0, 1}
  <2>1. \A f \in Sources : f \in Files /\ f \notin Graph[m].outputs
    BY DEF Sources, GeneratedBy, Nodes
  <2>2. QED
    BY <2>1, WriteFacts, ZenonT(40) DEF DiskTypes
<1>3. \A n \in Nodes : \/ deps'[n] = NoDeps \/ (Graph[n].dep_file /\ deps'[n] \subseteq Files)
  <2>1. \A n \in Nodes : n # m => deps'[n] = deps[n]
    BY WriteFacts, Zenon
  <2>2. Graph[m].dep_file => deps'[m] \subseteq Files
    BY WriteFacts, ReadFacts, ZenonT(40)
  <2>3. ~Graph[m].dep_file => deps'[m] = deps[m]
    BY WriteFacts, ZenonT(40)
  <2>4. QED
    BY <2>1, <2>2, <2>3 DEF DiskTypes
<1>4. deps' \in [Nodes -> SUBSET (Files \cup {NoFile})]
  <2>1. deps' = [deps EXCEPT ![m] = IF Graph[m].dep_file THEN Reads(m) \ Program(m) ELSE @]
    BY DEF WriteOutputs
  <2>2. Reads(m) \ Program(m) \in SUBSET (Files \cup {NoFile})
    BY ReadFacts
  <2>3. QED
    BY <2>1, <2>2 DEF DiskTypes
<1>5. NoDeps' = NoDeps /\ NoGraph' = NoGraph
  BY DEF NoDeps, NoGraph
<1>6. QED
  BY SameProject, <1>1, <1>2, <1>3, <1>4, <1>5, WriteFacts DEF DiskTypes

\* A command whose outputs another node does not read leaves that node built.
LEMMA WriteKeeps ==
  ASSUME LInv, DiskTypes, NEW m \in Nodes, WriteOutputs(m), project' = project,
         NEW n \in Nodes, n # m, NEW c, BuiltBy(n, c), Graph[m].outputs \cap AlwaysReads(n) = {}
  PROVE  BuiltBy(n, c)'
<1>1. /\ Graph[m].outputs \cap Reads(n) = {} /\ Graph[m].outputs \cap Graph[n].outputs = {}
      /\ Reads(n) \subseteq Files /\ Graph[n].outputs \subseteq Files /\ InputFiles(n) \subseteq Files
  BY ReadFacts, ProjectFacts, Zenon DEF LInv, LoopTypes
<1>2. \A f \in Reads(n) \cup Graph[n].outputs : content'[f] = content[f]
  BY <1>1, WriteFacts, ZenonT(40)
<1>3. \A f \in InputFiles(n) \cup Graph[n].outputs : mtime[f] > 0 => mtime'[f] > 0
  BY <1>1, WriteFacts, Zenon
<1>4. QED
  BY <1>2, <1>3, BuiltKept, WriteFacts, ZenonT(40)

\* A command that succeeds and does not read its own outputs builds its node.
LEMMA WriteMakes ==
  ASSUME LInv, DiskTypes, NEW m \in Nodes, WriteOutputs(m), CanSucceed(m), UNCHANGED <<project, command>>,
         Graph[m].outputs \cap AlwaysReads(m) = {}
  PROVE  BuiltBy(m, command[m])'
<1>1. /\ Graph[m].outputs \cap Reads(m) = {} /\ Reads(m) \subseteq Files /\ Graph[m].outputs \subseteq Files
      /\ AlwaysReads(m) \subseteq Reads(m)
  BY ReadFacts
<1>2. \A f \in Reads(m) : content'[f] = content[f] /\ mtime'[f] = mtime[f]
  BY <1>1, WriteFacts, ZenonT(40)
<1>3. Reads(m)' = Reads(m)
  <2>1. Graph[m].dep_file => Graph[m].source \in Reads(m)
    BY ProjectFacts DEF LInv, LoopTypes, Reads
  <2>2. QED
    BY SameProject, <1>2, <2>1 DEF Reads
<1>4. /\ Graph[m].dep_file => deps'[m] = Reads(m) \ Program(m)
      /\ ~Graph[m].dep_file => deps'[m] = NoDeps
  BY WriteFacts, ZenonT(40) DEF DiskTypes
<1>5. DepsKnown(m)'
  BY SameProject, <1>3, <1>4 DEF DepsKnown
<1>6. NoFile \notin Reads(m)
  BY <1>1, ProjectFacts DEF LInv, LoopTypes
<1>7. InputFiles(m)' \subseteq Reads(m) /\ (Graph[m].dep_file => deps'[m] # NoDeps)
  <2>1. Graph[m].dep_file => deps'[m] # NoDeps
    BY <1>4, <1>6 DEF NoDeps
  <2>2. Dependencies(m)' \subseteq Reads(m)
    BY <1>4, <2>1 DEF Dependencies, NoDeps
  <2>3. QED
    BY SameProject, <1>1, <2>1, <2>2 DEF InputFiles, AlwaysReads
<1>8. Usable(m)'
  <2>1. \A f \in Reads(m) : mtime'[f] > 0
    BY <1>2 DEF CanSucceed
  <2>2. \A f \in Graph[m].outputs : mtime'[f] > 0
    BY <1>1, WriteFacts, ZenonT(40)
  <2>3. QED
    BY SameProject, <1>7, <2>1, <2>2 DEF Usable, NoDeps
<1>9. ASSUME NEW o \in Graph[m].outputs PROVE Made(m, o, command[m])'
  <2>1. content'[o] = <<command[m], [f \in Reads(m) |-> content[f]]>>
    BY <1>1, <1>9, WriteFacts, ZenonT(40) DEF Result
  <2>2. [f \in Reads(m) |-> content'[f]] = [f \in Reads(m) |-> content[f]]
    BY <1>2
  <2>3. QED
    BY <1>3, <2>1, <2>2 DEF Made
<1>10. QED
  BY SameProject, <1>5, <1>8, <1>9 DEF BuiltBy

\* Whatever is written, what looks fresh is built.
LEMMA WriteFresh ==
  ASSUME DInv, NEW m \in Nodes, WriteOutputs(m), CanSucceed(m), UNCHANGED <<project, command>>,
         Graph[m].outputs \cap AlwaysReads(m) = {}
  PROVE  FreshIsBuilt'
<1>1. LInv /\ DiskTypes /\ FreshIsBuilt /\ project \in Projects
  BY DEF DInv, LInv, LoopTypes
<1>2. SUFFICES ASSUME NEW n \in Nodes, LooksFresh(n)' PROVE \E c \in Commands : BuiltBy(n, c)'
  BY SameProject DEF FreshIsBuilt
<1>3. CASE n = m
  <2>1. command[m] \in Commands /\ command' = command
    BY <1>1 DEF DiskTypes
  <2>2. BuiltBy(m, command[m])'
    BY <1>1, WriteMakes
  <2>3. \E c \in Commands : c = command[m] /\ BuiltBy(m, c)'
    BY <2>1, <2>2
  <2>4. QED
    BY <1>3, <2>3
<1>4. CASE n # m
  <2>1. Graph[m].outputs \cap Graph[n].outputs = {} /\ Commands # {}
    BY <1>1, <1>4, ProjectFacts
  <2>2. \A f \in Files \ Graph[m].outputs : mtime'[f] = mtime[f] /\ content'[f] = content[f]
    BY <1>1, WriteFacts, ZenonT(40)
  <2>3. Graph[m].outputs \subseteq Files
    BY <1>1, ReadFacts
  <2>4. \A f \in Graph[m].outputs : mtime'[f] \in Nat /\ mtime'[f] >= now /\ f \notin Graph[n].outputs
    BY <1>1, <2>1, <2>3, WriteFacts, ZenonT(40)
  <2>5. LooksFresh(n) => \E c \in Commands : BuiltBy(n, c)
    BY <1>1 DEF FreshIsBuilt
  <2>6. deps'[n] = deps[n]
    BY <1>1, <1>4, WriteFacts, ZenonT(40)
  <2>7. QED
    BY <1>1, <1>2, <2>1, <2>2, <2>4, <2>5, <2>6, FreshStep, ZenonT(40)
<1>5. QED
  BY <1>3, <1>4

-------------------------------------------------------------------------------
(***************************************************************************)
(* Steps that leave the disk alone.                                        *)
(***************************************************************************)
LEMMA SameDisk ==
  ASSUME UNCHANGED <<project, disk>>
  PROVE  /\ \A n : LooksFresh(n)' = LooksFresh(n)
         /\ \A n, c : BuiltBy(n, c)' = BuiltBy(n, c)
         /\ \A n, m : Feeds(n, m)' = Feeds(n, m)
<1>1. mtime' = mtime /\ content' = content /\ deps' = deps
  BY DEF disk
<1>2. \A n : InputFiles(n)' = InputFiles(n)
  BY <1>1, SameInputs
<1>3. \A n : Usable(n)' = Usable(n)
  BY SameProject, <1>1, <1>2 DEF Usable, NoDeps
<1>4. \A n : Reads(n)' = Reads(n)
  BY SameProject, <1>1 DEF Reads
<1>5. \A n, o, c : Made(n, o, c)' = Made(n, o, c)
  BY <1>1, <1>4 DEF Made
<1>6. \A n : DepsKnown(n)' = DepsKnown(n)
  BY SameProject, <1>1, <1>4 DEF DepsKnown
<1>7. QED
  BY SameProject, <1>1, <1>2, <1>3, <1>5, <1>6 DEF LooksFresh, BuiltBy, Feeds

LEMMA SameFresh ==
  ASSUME DInv, UNCHANGED <<project, disk>>
  PROVE  FreshIsBuilt'
BY SameDisk, SameProject DEF DInv, FreshIsBuilt

LEMMA SameTypes ==
  ASSUME DInv, UNCHANGED <<project, command, disk>>, saved' = saved \/ saved' = command
  PROVE  DiskTypes'
<1>1. mtime' = mtime /\ content' = content /\ deps' = deps /\ now' = now
  BY DEF disk
<1>2. QED
  BY <1>1, SameProject DEF DInv, DiskTypes, NoDeps, NoGraph

\* A step of the loop that neither writes a file nor makes a node done.
LEMMA LoopStepDInv ==
  ASSUME DInv, LInv', UNCHANGED <<project, command, disk, saved, to_rebuild>>, phase \in {"start", "work"},
         phase' \in {"start", "work", "broken"}, \A n \in Nodes : Done(n)' => Done(n)
  PROVE  DInv'
<1>1. InvocationBuilds'
  BY SameDisk, SameProject DEF DInv, InvocationBuilds
<1>2. QED
  BY <1>1, SameFresh, SameTypes DEF DInv

\* A step after which nothing is claimed of the nodes.
LEMMA OutsideDInv ==
  ASSUME DInv, LInv', UNCHANGED <<project, command, disk, saved>>,
         phase' \notin {"start", "work", "succeeded", "ok"}
  PROVE  DInv'
<1>1. InvocationBuilds'
  BY DEF InvocationBuilds
<1>2. QED
  BY <1>1, SameFresh, SameTypes DEF DInv

\* A node that is not rebuilt looks fresh, has the command line it was last
\* saved with, and reads no output of a node that is rebuilt.
LEMMA NotRebuilt ==
  ASSUME NEW n \in Nodes, n \notin NodesToRebuild
  PROVE  /\ saved # NoGraph /\ saved[n] = command[n]
         /\ ~(Graph[n].dep_file /\ deps[n] = NoDeps)
         /\ \A f \in InputFiles(n) \cup Graph[n].outputs : ~(mtime[f] = 0)
         /\ \A i \in InputFiles(n), o \in Graph[n].outputs : ~(mtime[i] >= mtime[o])
         /\ \A m \in NodesToRebuild : ~Feeds(m, n)
<1> DEFINE marked == {k \in Nodes : MarkedByItself(k)}
           closedSets == {S \in SUBSET Nodes : marked \subseteq S /\ \A k \in S, m \in Nodes : Feeds(k, m) => m \in S}
<1>1. saved # NoGraph /\ NodesToRebuild = {k \in Nodes : \A S \in closedSets : k \in S}
  BY DEF NodesToRebuild
<1>2. PICK S \in closedSets : n \notin S
  BY <1>1
<1>3. \A m \in NodesToRebuild : m \in S
  BY <1>1, <1>2
<1>4. n \notin marked /\ \A k \in S, m \in Nodes : Feeds(k, m) => m \in S
  BY <1>2
<1>5. ~MarkedByItself(n)
  BY <1>4
<1> HIDE DEF marked, closedSets
<1>6. \A m \in NodesToRebuild : ~Feeds(m, n)
  BY <1>2, <1>3, <1>4
<1>7. QED
  BY <1>1, <1>5, <1>6 DEF MarkedByItself

LEMMA NotRebuiltFresh ==
  ASSUME LInv, DiskTypes, NEW n \in Nodes, n \notin NodesToRebuild
  PROVE  LooksFresh(n)
<1>1. \A f \in InputFiles(n) \cup Graph[n].outputs : mtime[f] \in Nat
  BY ReadFacts DEF DiskTypes
<1>2. Usable(n)
  BY <1>1, NotRebuilt DEF Usable
<1>3. \A i \in InputFiles(n), o \in Graph[n].outputs : mtime[i] < mtime[o]
  BY <1>1, NotRebuilt
<1>4. QED
  BY <1>2, <1>3 DEF LooksFresh

LEMMA StartBuildDInv == ASSUME DInv, StartBuild PROVE DInv'
<1>1. LInv /\ DiskTypes /\ FreshIsBuilt
  BY DEF DInv
<1>2. /\ phase \in {"idle", "ok", "failed"} /\ to_rebuild' = NodesToRebuild
      /\ state' = [n \in Nodes |-> IF n \in to_rebuild' THEN "RebuildRequired" ELSE "Ready"]
      /\ phase' \in {"succeeded", "start"} /\ (phase' = "succeeded" => to_rebuild' = {})
      /\ UNCHANGED <<project, command, disk, saved, exited, finished>>
  BY DEF StartBuild
<1>3. LInv'
  BY <1>1, StartBuildLInv
<1>4. ASSUME NEW n \in Nodes, n \notin to_rebuild'
      PROVE  (\E c \in Commands : BuiltBy(n, c)') /\ \A m \in to_rebuild' : ~Feeds(m, n)'
  <2>1. \E c \in Commands : BuiltBy(n, c)
    BY <1>1, <1>2, <1>4, NotRebuiltFresh DEF FreshIsBuilt
  <2>2. \A m \in to_rebuild' : ~Feeds(m, n)
    BY <1>2, <1>4, NotRebuilt
  <2>3. QED
    BY <1>2, <2>1, <2>2, SameDisk
<1>5. ASSUME NEW n \in Nodes PROVE ~Done(n)'
  <2>1. ElementsOf(finished) = {} /\ DOMAIN exited = {}
    BY <1>1, <1>2, EmptyGroup DEF LInv, Discipline
  <2>2. n \in to_rebuild' => state'[n] = "RebuildRequired"
    BY <1>2
  <2>3. QED
    BY <1>2, <2>1, <2>2 DEF Done
<1>6. InvocationBuilds'
  BY SameProject, <1>2, <1>4, <1>5 DEF InvocationBuilds
<1>7. QED
  BY <1>2, <1>3, <1>6, SameFresh, SameTypes DEF DInv

-------------------------------------------------------------------------------
(***************************************************************************)
(* The steps of the loop.                                                  *)
(***************************************************************************)
\* A node that has still to be made is read by no node that is done.
LEMMA DoneApart ==
  ASSUME LInv, NEW n \in Nodes, Done(n), NEW m \in Nodes, state[m] # "Ready"
  PROVE  Graph[m].outputs \cap AlwaysReads(n) = {}
<1>1. state[n] = "RebuildInProgress" \/ (n \in to_rebuild /\ state[n] = "Ready")
  BY DEF LInv, Discipline, Done
<1>2. QED
  BY <1>1 DEF LInv, StartedAfterInputs

\* In an invocation the command of a node to rebuild writes its outputs.
LEMMA WriteDInv ==
  ASSUME DInv, LInv', NEW m \in Nodes, WriteOutputs(m), CanSucceed(m),
         UNCHANGED <<project, command, saved, to_rebuild, phase>>, phase \in {"start", "work", "broken"},
         m \in to_rebuild, state[m] # "Ready", Graph[m].outputs \cap AlwaysReads(m) = {},
         \A n \in Nodes : Done(n)' => Done(n) \/ n = m
  PROVE  DInv'
<1>1. LInv /\ DiskTypes /\ InvocationBuilds
  BY DEF DInv
<1>2. CASE phase = "broken"
  <2>1. InvocationBuilds'
    BY <1>2 DEF InvocationBuilds
  <2>2. QED
    BY <1>1, <2>1, WriteFresh, WriteTypes DEF DInv
<1>3. CASE phase # "broken"
  <2>1. ASSUME NEW n \in Nodes, n \notin to_rebuild
        PROVE  (\E c \in Commands : BuiltBy(n, c)') /\ \A k \in to_rebuild : ~Feeds(k, n)'
    <3>1. n # m /\ deps'[n] = deps[n]
      BY <1>1, <2>1, WriteFacts, ZenonT(40)
    <3>2. (\E c \in Commands : BuiltBy(n, c)) /\ \A k \in to_rebuild : ~Feeds(k, n)
      BY <1>1, <1>3, <2>1 DEF InvocationBuilds
    <3>3. Graph[m].outputs \cap AlwaysReads(n) = {}
      BY <1>1, <3>2, ReadFacts DEF Feeds
    <3>4. \E c \in Commands : BuiltBy(n, c)'
      BY <1>1, <3>1, <3>2, <3>3, WriteKeeps, ZenonT(40)
    <3>5. \A k \in to_rebuild : ~Feeds(k, n)'
      BY SameProject, <3>1, <3>2, SameInputs, ZenonT(40) DEF Feeds
    <3>6. QED
      BY <3>4, <3>5
  <2>2. ASSUME NEW n \in Nodes, Done(n)' PROVE BuiltBy(n, command[n])'
    <3>1. CASE n = m
      BY <1>1, <3>1, WriteMakes
    <3>2. CASE n # m
      <4>1. Done(n) /\ BuiltBy(n, command[n])
        BY <1>1, <1>3, <2>2, <3>2 DEF InvocationBuilds
      <4>2. Graph[m].outputs \cap AlwaysReads(n) = {}
        BY <1>1, <4>1, DoneApart
      <4>3. \A c : BuiltBy(n, c) => BuiltBy(n, c)'
        BY <1>1, <3>2, <4>2, WriteKeeps
      <4>4. command' = command
        OBVIOUS
      <4>5. QED
        BY <4>1, <4>3, <4>4
    <3>3. QED
      BY <3>1, <3>2
  <2>3. InvocationBuilds'
    BY SameProject, <1>3, <2>1, <2>2 DEF InvocationBuilds
  <2>4. QED
    BY <1>1, <2>3, WriteFresh, WriteTypes DEF DInv
<1>4. QED
  BY <1>2, <1>3

LEMMA ExitFacts ==
  ASSUME LInv, NEW m \in Nodes, ProcessExits(m)
  PROVE  /\ m \in ElementsOf(running) /\ \A k \in DOMAIN exited : exited[k] \in BOOLEAN
         /\ UNCHANGED <<project, command, saved, phase, to_rebuild, state, finished>>
BY DEF ProcessExits, LInv, LoopTypes, ElementsOf

LEMMA ProcessExitsDInv == ASSUME DInv, NEW m \in Nodes, ProcessExits(m) PROVE DInv'
<1>1. LInv /\ LInv'
  BY ProcessExitsLInv DEF DInv
<1>2. /\ m \in ElementsOf(running) /\ \A k \in DOMAIN exited : exited[k] \in BOOLEAN
      /\ UNCHANGED <<project, command, saved, phase, to_rebuild, state, finished>>
  BY <1>1, ExitFacts
<1>3. /\ phase \in {"start", "work", "broken"} /\ state[m] = "RebuildInProgress" /\ m \in to_rebuild
      /\ Graph[m].outputs \cap AlwaysReads(m) = {}
  BY <1>1, <1>2, EmptyGroup DEF LInv, Discipline, StartedAfterInputs
<1>4. CASE /\ CanSucceed(m) /\ WriteOutputs(m)
           /\ exited' = [k \in DOMAIN exited \cup {m} |-> k = m \/ exited[k]]
  <2>1. \A k \in DOMAIN exited : k # m => exited'[k] = exited[k]
    BY <1>2, <1>4
  <2>2. DOMAIN exited' = DOMAIN exited \cup {m}
    BY <1>4
  <2>3. \A n \in Nodes : Done(n)' => Done(n) \/ n = m
    BY <1>2, <2>1, <2>2 DEF Done
  <2>4. QED
    BY <1>1, <1>2, <1>3, <1>4, <2>3, WriteDInv
<1>5. CASE exited' = [k \in DOMAIN exited \cup {m} |-> k # m /\ exited[k]] /\ UNCHANGED disk
  <2>1. \A k \in DOMAIN exited : k # m => exited'[k] = exited[k]
    BY <1>2, <1>5
  <2>2. DOMAIN exited' = DOMAIN exited \cup {m} /\ exited'[m] = FALSE
    BY <1>5, ZenonT(40)
  <2>3. \A n \in Nodes : Done(n)' => Done(n)
    BY <1>2, <2>1, <2>2 DEF Done
  <2>4. QED
    BY <1>1, <1>2, <1>3, <1>5, <2>3, LoopStepDInv, OutsideDInv
<1>6. QED
  BY <1>4, <1>5 DEF ProcessExits

LEMMA StartProcessDInv == ASSUME DInv, StartProcess PROVE DInv'
<1>1. LInv /\ LInv'
  BY StartProcessLInv DEF DInv
<1>2. /\ Selectable # {} /\ phase = "start" /\ state' = [state EXCEPT ![Selected] = "RebuildInProgress"]
      /\ phase' \in {"start", "broken"}
      /\ UNCHANGED <<project, command, disk, saved, to_rebuild, exited, finished>>
  BY DEF StartProcess, MayStart
<1>3. \A n \in Nodes : Done(n)' => Done(n)
  BY <1>1, <1>2 DEF Done, LInv, LoopTypes
<1>4. QED
  BY <1>1, <1>2, <1>3, LoopStepDInv

LEMMA RunSpecialCommandDInv == ASSUME DInv, RunSpecialCommand PROVE DInv'
<1>1. LInv /\ LInv'
  BY RunSpecialCommandLInv DEF DInv
<1>2. /\ Selectable # {} /\ phase = "start"
      /\ UNCHANGED <<project, command, saved, to_rebuild, exited, finished>>
  BY DEF RunSpecialCommand, MayStart
<1>3. PICK m \in Nodes : m = Selected
  BY <1>1, <1>2, SelectedFacts
<1>4. /\ state[m] = "RebuildRequired" /\ m \in to_rebuild /\ Graph[m].outputs \cap AlwaysReads(m) = {}
  BY <1>1, <1>2, <1>3, SelectedFacts
<1>5. CASE CanSucceed(m) /\ WriteOutputs(m) /\ state' = [state EXCEPT ![m] = "Ready"] /\ UNCHANGED phase
  <2>1. \A n \in Nodes : Done(n)' => Done(n) \/ n = m
    BY <1>1, <1>2, <1>5 DEF Done, LInv, LoopTypes
  <2>2. QED
    BY <1>1, <1>2, <1>4, <1>5, <2>1, WriteDInv
<1>6. CASE state' = [state EXCEPT ![m] = "RebuildInProgress"] /\ phase' = "broken" /\ UNCHANGED disk
  BY <1>1, <1>2, <1>6, OutsideDInv
<1>7. QED
  BY <1>3, <1>5, <1>6 DEF RunSpecialCommand

LEMMA WaitForProcessesDInv == ASSUME DInv, WaitForProcesses PROVE DInv'
<1>1. LInv'
  BY WaitForProcessesLInv DEF DInv
<1>2. QED
  BY <1>1, LoopStepDInv, ZenonT(40) DEF WaitForProcesses, Done

LEMMA RemoveProcessDInv == ASSUME DInv, RemoveProcess PROVE DInv'
<1>1. LInv /\ LInv'
  BY RemoveProcessLInv DEF DInv
<1>2. phase = "work" /\ UNCHANGED <<project, command, disk, saved, to_rebuild, state>>
  BY DEF RemoveProcess
<1>3. PICK m : m = running[work]
  OBVIOUS
<1>4. CASE m \notin closed
  BY <1>1, <1>2, <1>3, <1>4, LoopStepDInv, ZenonT(40) DEF RemoveProcess, Done
<1>5. CASE m \in closed
  <2>1. /\ exited' = [k \in DOMAIN exited \ {m} |-> exited[k]]
        /\ IF exited[m] THEN finished' = Append(finished, m) /\ UNCHANGED phase
                        ELSE phase' = "broken" /\ UNCHANGED finished
    BY <1>3, <1>5 DEF RemoveProcess
  <2>2. /\ m \in DOMAIN exited /\ exited[m] \in BOOLEAN /\ m \in Nodes /\ finished \in Seq(Nodes)
    <3>1. m \in DOMAIN exited /\ DOMAIN exited \subseteq ElementsOf(running) /\ exited[m] \in BOOLEAN
      BY <1>1, <1>5 DEF LInv, LoopTypes, Discipline
    <3>2. QED
      BY <1>1, <3>1 DEF LInv, LoopTypes, ElementsOf
  <2>3. CASE exited[m] = TRUE
    <3>1. finished' = Append(finished, m) /\ phase' = phase
      BY <2>1, <2>3
    <3>2. ElementsOf(finished') = ElementsOf(finished) \cup {m}
      BY <2>2, <3>1, AppendOnce
    <3>3. \A n \in Nodes : Done(n)' => Done(n)
      BY <1>2, <2>1, <2>2, <2>3, <3>2 DEF Done
    <3>4. QED
      BY <1>1, <1>2, <3>1, <3>3, LoopStepDInv
  <2>4. CASE exited[m] # TRUE
    BY <1>1, <1>2, <2>1, <2>2, <2>4, OutsideDInv, ZenonT(40)
  <2>5. QED
    BY <2>3, <2>4, ZenonT(40)
<1>6. QED
  BY <1>4, <1>5

LEMMA TakenStates ==
  ASSUME LInv, TakeFinishedProcesses
  PROVE  \A n \in Nodes : state'[n] = IF n \in ElementsOf(finished) THEN "Ready" ELSE state[n]
BY DEF TakeFinishedProcesses, LInv, LoopTypes, ElementsOf

LEMMA TakeFinishedDInv == ASSUME DInv, TakeFinishedProcesses PROVE DInv'
<1>1. LInv /\ LInv'
  BY TakeFinishedLInv DEF DInv
<1>2. /\ phase = "work"
      /\ state' = [n \in Nodes |-> IF n \in {finished[i] : i \in DOMAIN finished} THEN "Ready" ELSE state[n]]
      /\ phase' = IF \A n \in to_rebuild : state'[n] = "Ready" THEN "succeeded" ELSE "start"
      /\ finished' = <<>> /\ UNCHANGED <<project, command, disk, saved, to_rebuild, exited>>
  BY DEF TakeFinishedProcesses
<1>3. \A n \in Nodes : state'[n] = IF n \in ElementsOf(finished) THEN "Ready" ELSE state[n]
  BY <1>1, TakenStates
<1>4. \A n \in Nodes : Done(n)' => Done(n)
  BY <1>2, <1>3, EmptyGroup DEF Done
<1>5. CASE phase' = "start"
  BY <1>1, <1>2, <1>4, <1>5, LoopStepDInv
<1>6. CASE phase' = "succeeded"
  <2>1. \A n \in to_rebuild : state'[n] = "Ready"
    BY <1>2, <1>6
  <2>2. ASSUME NEW n \in Nodes PROVE \E c \in Commands : BuiltBy(n, c)
    <3>1. CASE n \in to_rebuild
      <4>1. Done(n)
        BY <1>2, <1>4, <2>1, <3>1 DEF Done
      <4>2. QED
        BY <1>2, <4>1 DEF DInv, InvocationBuilds, DiskTypes
    <3>2. CASE n \notin to_rebuild
      BY <1>2, <3>2 DEF DInv, InvocationBuilds
    <3>3. QED
      BY <3>1, <3>2
  <2>3. InvocationBuilds'
    BY SameProject, <1>2, <1>6, <2>2, SameDisk DEF InvocationBuilds
  <2>4. QED
    BY <1>1, <1>2, <2>3, SameFresh, SameTypes DEF DInv
<1>7. QED
  BY <1>2, <1>5, <1>6

LEMMA SaveGraphDInv == ASSUME DInv, SaveGraph PROVE DInv'
<1>1. LInv'
  BY StepLInv DEF DInv, Next, BuildLoop
<1>2. /\ saved' = command /\ UNCHANGED <<project, command, disk>>
      /\ phase' = IF phase = "succeeded" THEN "ok" ELSE "failed"
  BY DEF SaveGraph
<1>3. InvocationBuilds'
  BY SameProject, <1>2, SameDisk DEF DInv, InvocationBuilds
<1>4. QED
  BY <1>1, <1>2, <1>3, SameFresh, SameTypes DEF DInv

-------------------------------------------------------------------------------
(***************************************************************************)
(* The user.                                                               *)
(***************************************************************************)
\* What a change by the user leaves: the files other than those of W, which are
\* deleted, or written and no output of a node.
LEMMA UserFacts ==
  ASSUME DInv, User
  PROVE  /\ UNCHANGED <<project, saved, deps>> /\ DiskTypes' /\ LInv' /\ phase' = "idle" /\ phase \in {"idle", "ok", "failed"}
         /\ \E W : /\ \A f \in Files \ W : mtime'[f] = mtime[f] /\ content'[f] = content[f]
                   /\ \A f \in W : \/ mtime'[f] = 0
                                   \/ mtime'[f] \in Nat /\ mtime'[f] >= now /\ \A n \in Nodes : f \notin Graph[n].outputs
<1> DEFINE Touched(W) ==
             /\ \A f \in Files \ W : mtime'[f] = mtime[f] /\ content'[f] = content[f]
             /\ \A f \in W : \/ mtime'[f] = 0
                             \/ mtime'[f] \in Nat /\ mtime'[f] >= now /\ \A n \in Nodes : f \notin Graph[n].outputs
<1>1. LInv /\ DiskTypes /\ LInv' /\ project \in Projects
  BY UserLInv DEF DInv, LInv, LoopTypes
<1>2. UNCHANGED <<project, saved>> /\ phase' = "idle" /\ phase \in {"idle", "ok", "failed"}
  BY DEF User, UserActs
<1>3. NoDeps' = NoDeps /\ NoGraph' = NoGraph
  BY DEF NoDeps, NoGraph
<1>4. ASSUME NEW f \in Sources, EditSource(f) PROVE UNCHANGED deps /\ DiskTypes' /\ \E W : Touched(W)
  <2>1. f \in Sources /\ EditSource(f)
    BY <1>4
  <2>2. PICK t \in {now, now + 1} : t <= MaxTime /\ now' = t /\ mtime' = [mtime EXCEPT ![f] = t]
    BY <2>1, ZenonT(40) DEF EditSource
  <2>3. /\ now \in Nat /\ now >= 1 /\ MaxTime \in Nat /\ mtime \in [Files -> Nat] /\ f \in Files
        /\ \A g \in Files : mtime[g] <= now
    BY <1>1, <2>1, ProjectFacts DEF DiskTypes, Sources
  <2>4. t \in Nat /\ t >= now /\ now' \in 1 .. MaxTime
    BY <2>2, <2>3
  <2>5. mtime' \in [Files -> Nat] /\ \A g \in Files : mtime'[g] = IF g = f THEN t ELSE mtime[g]
    BY <2>2, <2>3, <2>4
  <2>6. \A g \in Files : mtime'[g] <= now'
    BY <2>2, <2>3, <2>4, <2>5
  <2>7. /\ content' = [content EXCEPT ![f] = 1 - @] /\ UNCHANGED <<command, deps>>
    BY <2>1 DEF EditSource
  <2>8. /\ DOMAIN content' = Files /\ content[f] \in {0, 1}
        /\ \A g \in Files : content'[g] = IF g = f THEN 1 - content[f] ELSE content[g]
    BY <1>1, <2>1, <2>3, <2>7 DEF DiskTypes
  <2>9. \A g \in Sources : content'[g] \in {0, 1}
    BY <1>1, <2>8 DEF DiskTypes, Sources
  <2>10. DiskTypes'
    BY SameProject, <1>1, <1>2, <1>3, <2>4, <2>5, <2>6, <2>7, <2>8, <2>9 DEF DiskTypes
  <2>11. \A n \in Nodes : f \notin Graph[n].outputs
    BY DEF Sources, GeneratedBy, Nodes
  <2>12. \A g \in Files \ {f} : mtime'[g] = mtime[g] /\ content'[g] = content[g]
    BY <2>5, <2>8
  <2>13. mtime'[f] \in Nat /\ mtime'[f] >= now
    BY <2>3, <2>4, <2>5
  <2>14. Touched({f})
    BY <2>11, <2>12, <2>13
  <2> HIDE DEF Touched
  <2>15. \E W : Touched(W)
    BY <2>14, ZenonT(40)
  <2>16. QED
    BY <2>7, <2>10, <2>15
<1>5. ASSUME NEW f \in Files, DeleteFile(f) PROVE UNCHANGED deps /\ DiskTypes' /\ \E W : Touched(W)
  <2>1. f \in Files /\ DeleteFile(f)
    BY <1>5
  <2>2. mtime' = [mtime EXCEPT ![f] = 0] /\ UNCHANGED <<command, content, deps, now>>
    BY <2>1 DEF DeleteFile
  <2>3. /\ now \in Nat /\ mtime \in [Files -> Nat] /\ \A g \in Files : mtime[g] <= now
    BY <1>1, ProjectFacts DEF DiskTypes
  <2>4. mtime' \in [Files -> Nat] /\ \A g \in Files : mtime'[g] = IF g = f THEN 0 ELSE mtime[g]
    BY <2>1, <2>2, <2>3
  <2>5. \A g \in Files : mtime'[g] <= now'
    BY <2>2, <2>3, <2>4
  <2>6. DiskTypes'
    BY SameProject, <1>1, <1>2, <1>3, <2>2, <2>4, <2>5 DEF DiskTypes
  <2>7. \A g \in Files \ {f} : mtime'[g] = mtime[g] /\ content'[g] = content[g]
    BY <2>2, <2>4
  <2>8. mtime'[f] = 0
    BY <2>1, <2>4
  <2>9. Touched({f})
    BY <2>7, <2>8
  <2> HIDE DEF Touched
  <2>10. \E W : Touched(W)
    BY <2>9, ZenonT(40)
  <2>11. QED
    BY <2>2, <2>6, <2>10
<1>6. ASSUME NEW n \in Nodes, ChangeCommand(n) PROVE UNCHANGED deps /\ DiskTypes' /\ \E W : Touched(W)
  <2>1. ChangeCommand(n)
    BY <1>6
  <2>2. PICK c \in Commands : command' = [command EXCEPT ![n] = c]
    BY <2>1, ZenonT(40) DEF ChangeCommand
  <2>3. mtime' = mtime /\ content' = content /\ deps' = deps /\ now' = now
    BY <2>1 DEF ChangeCommand, disk
  <2>4. DiskTypes'
    BY SameProject, <1>1, <1>2, <1>3, <2>2, <2>3 DEF DiskTypes
  <2>5. \A g \in Files \ {} : mtime'[g] = mtime[g] /\ content'[g] = content[g]
    BY <2>3
  <2>6. Touched({})
    BY <2>5
  <2> HIDE DEF Touched
  <2>7. \E W : Touched(W)
    BY <2>6, ZenonT(40)
  <2>8. QED
    BY <2>3, <2>4, <2>7
<1> HIDE DEF Touched
<1>7. UNCHANGED deps /\ DiskTypes' /\ \E W : Touched(W)
  BY <1>4, <1>5, <1>6 DEF User
<1>8. QED
  BY <1>1, <1>2, <1>7 DEF Touched

LEMMA UserDInv == ASSUME DInv, User PROVE DInv'
<1>1. LInv /\ DiskTypes /\ FreshIsBuilt /\ UNCHANGED <<project, deps>> /\ DiskTypes' /\ LInv' /\ phase' = "idle"
  BY UserFacts DEF DInv
<1>2. PICK W : /\ \A f \in Files \ W : mtime'[f] = mtime[f] /\ content'[f] = content[f]
               /\ \A f \in W : \/ mtime'[f] = 0
                               \/ mtime'[f] \in Nat /\ mtime'[f] >= now /\ \A n \in Nodes : f \notin Graph[n].outputs
  BY UserFacts, Zenon
<1>3. ASSUME NEW n \in Nodes, LooksFresh(n)' PROVE \E c \in Commands : BuiltBy(n, c)'
  <2>1. (LooksFresh(n) => \E c \in Commands : BuiltBy(n, c)) /\ Commands # {}
    BY <1>1, ProjectFacts, ZenonT(40) DEF FreshIsBuilt, LInv, LoopTypes
  <2>2. QED
    BY <1>1, <1>2, <1>3, <2>1, FreshStep, ZenonT(40)
<1>4. InvocationBuilds'
  BY <1>1 DEF InvocationBuilds
<1>5. QED
  BY SameProject, <1>1, <1>3, <1>4 DEF DInv, FreshIsBuilt

-------------------------------------------------------------------------------
(***************************************************************************)
(* The invariant.                                                          *)
(***************************************************************************)
LEMMA StepDInv == DInv /\ [Next]_vars => DInv'
<1> SUFFICES ASSUME DInv, [Next]_vars PROVE DInv'
  OBVIOUS
<1>1. LInv'
  BY StepLInv DEF DInv
<1>2. CASE UNCHANGED vars
  <2>1. InvocationBuilds'
    BY <1>2, SameDisk, SameProject, ZenonT(40) DEF vars, DInv, InvocationBuilds, Done
  <2>2. QED
    BY <1>1, <1>2, <2>1, SameFresh, SameTypes DEF DInv, vars
<1>3. CASE StopOnLoop \/ Drain \/ Abort
  BY <1>1, <1>3, OutsideDInv DEF StopOnLoop, Drain, Abort
<1>4. CASE \E n \in Nodes : ProcessExits(n)
  BY <1>4, ProcessExitsDInv
<1>5. QED
  BY <1>2, <1>3, <1>4, StartBuildDInv, StartProcessDInv, RunSpecialCommandDInv, WaitForProcessesDInv,
     RemoveProcessDInv, TakeFinishedDInv, SaveGraphDInv, UserDInv
  DEF Next, BuildLoop

LEMMA InitDInv == Init => DInv
<1> SUFFICES ASSUME Init PROVE DInv
  OBVIOUS
<1>1. LInv /\ project \in Projects /\ Commands # {} /\ MaxTime \in Nat \ {0}
  BY InitLInv, ProjectFacts, ZenonT(40) DEF LInv, LoopTypes
<1>2. DiskTypes
  <2>1. mtime = [f \in Files |-> IF f \in Sources THEN 1 ELSE 0] /\ now = 1
    BY DEF Init
  <2>2. mtime \in [Files -> Nat] /\ now \in 1 .. MaxTime /\ \A f \in Files : mtime[f] <= now
    BY <1>1, <2>1
  <2>3. DOMAIN content = Files /\ \A f \in Sources : content[f] \in {0, 1}
    BY DEF Init, Sources
  <2>4. deps \in [Nodes -> SUBSET (Files \cup {NoFile})] /\ \A n \in Nodes : deps[n] = NoDeps
    BY DEF Init, NoDeps
  <2>5. command \in [Nodes -> Commands] /\ saved = NoGraph
    BY <1>1 DEF Init
  <2>6. QED
    BY <2>2, <2>3, <2>4, <2>5 DEF DiskTypes
<1>3. FreshIsBuilt
  <2>1. SUFFICES ASSUME NEW n \in Nodes, LooksFresh(n) PROVE \E c \in Commands : BuiltBy(n, c)
    BY DEF FreshIsBuilt
  <2>2. Graph[n].outputs = {}
    <3>1. SUFFICES ASSUME NEW o \in Graph[n].outputs PROVE FALSE
      OBVIOUS
    <3>2. o \in Files /\ o \notin Sources
      BY <1>1, <1>2, ReadFacts DEF Sources, GeneratedBy, Nodes
    <3>3. mtime[o] = 0
      BY <3>2 DEF Init
    <3>4. QED
      BY <2>1, <3>3 DEF LooksFresh, Usable
  <2>3. PICK c \in Commands : TRUE
    BY <1>1
  <2>4. BuiltBy(n, c)
    BY <2>1, <2>2 DEF LooksFresh, BuiltBy
  <2>5. QED
    BY <2>4
<1>4. InvocationBuilds
  BY DEF Init, InvocationBuilds
<1>5. QED
  BY <1>1, <1>2, <1>3, <1>4 DEF DInv

\* What looks fresh is built, at every moment of every history of builds,
\* failures, aborts and changes.
THEOREM FreshMeansBuilt == Spec => []DInv
BY InitDInv, StepDInv, PTL DEF Spec

\* Every variable keeps its type.
THEOREM BuildTypeCorrect == Spec => []TypeOK
<1>1. DInv => TypeOK
  <2> SUFFICES ASSUME DInv PROVE TypeOK
    OBVIOUS
  <2>1. \A f \in Files : mtime[f] \in Nat /\ mtime[f] <= now /\ now \in 1 .. MaxTime /\ MaxTime \in Nat
    BY ProjectFacts DEF DInv, DiskTypes, LInv, LoopTypes
  <2>2. \A f \in Files : mtime[f] \in 0 .. MaxTime
    BY <2>1
  <2>3. mtime \in [Files -> 0 .. MaxTime]
    BY <2>2 DEF DInv, DiskTypes
  <2>4. QED
    BY <2>3 DEF DInv, DiskTypes, LInv, LoopTypes, TypeOK, Phases, NodeStates
<1>2. QED
  BY <1>1, FreshMeansBuilt, PTL

\* The part of UpToDate that no failure can spoil: when success is reported, every
\* output is what some command line makes of the present inputs.
MadeFromPresentInputs ==
  phase = "ok" =>
    \A n \in Nodes : \A o \in Graph[n].outputs :
      mtime[o] > 0 /\ \E c \in Commands : content[o] = <<c, [f \in Reads(n) |-> content[f]]>>

LEMMA OkMeansMade == DInv => MadeFromPresentInputs
BY Zenon DEF DInv, InvocationBuilds, MadeFromPresentInputs, BuiltBy, Usable, Made

\* A build that reports success leaves no output that is older than what it was
\* made from, whatever failed or was killed before: comparing modification times,
\* with equal ones counted as out of date, misses no change of a file.
THEOREM OutputsFollowInputs == Spec => []MadeFromPresentInputs
BY OkMeansMade, FreshMeansBuilt, PTL

\* As long as command lines do not change, a build that reports success leaves
\* exactly what the build script asks for.
THEOREM UpToDateForStableCommands ==
  ASSUME \A p \in Projects : \A c, d \in p.commands : c = d
  PROVE  Spec => []UpToDate
<1>1. DInv => UpToDate
  <2> SUFFICES ASSUME DInv PROVE UpToDate
    OBVIOUS
  <2>1. \A c, d \in Commands : c = d
    BY DEF Commands, DInv, LInv, LoopTypes
  <2>2. command \in [Nodes -> Commands]
    BY DEF DInv, DiskTypes
  <2>3. QED
    BY <2>1, <2>2, OkMeansMade DEF MadeFromPresentInputs, UpToDate, Result
<1>2. QED
  BY <1>1, FreshMeansBuilt, PTL

\* A build right after a successful one rebuilds nothing if the outputs are newer
\* than what was read.
THEOREM NothingToRebuild == Spec => NoNeedlessRebuild
<1>1. ASSUME DInv, phase = "ok", StartBuild,
             \A n \in Nodes : \A i \in Reads(n), o \in Graph[n].outputs : mtime[i] < mtime[o]
      PROVE  to_rebuild' = {}
  <2>1. LInv /\ DiskTypes /\ saved = command /\ \A n \in Nodes : \E c \in Commands : BuiltBy(n, c)
    BY <1>1 DEF DInv, InvocationBuilds
  <2>2. ASSUME NEW n \in Nodes PROVE ~MarkedByItself(n)
    <3>1. PICK c \in Commands : BuiltBy(n, c)
      BY <2>1
    <3>2. \A f \in InputFiles(n) \cup Graph[n].outputs : mtime[f] \in Nat /\ mtime[f] > 0
      BY <2>1, <3>1, ReadFacts, ZenonT(40) DEF BuiltBy, Usable, DiskTypes
    <3>3. ASSUME NEW i \in InputFiles(n), NEW o \in Graph[n].outputs PROVE ~(mtime[i] >= mtime[o])
      <4>1. Reads(n) = InputFiles(n)
        BY <2>1, <3>1, ReadFacts, ZenonT(40) DEF BuiltBy
      <4>2. QED
        BY <1>1, <3>2, <4>1
    <3>4. \A f \in InputFiles(n) \cup Graph[n].outputs : mtime[f] # 0
      BY <3>2
    <3>5. saved[n] = command[n] /\ (Graph[n].dep_file => deps[n] # NoDeps)
      BY <2>1, <3>1 DEF BuiltBy, Usable
    <3>6. QED
      BY <3>3, <3>4, <3>5, ZenonT(40) DEF MarkedByItself
  <2>3. CASE saved = NoGraph
    <3>1. DOMAIN command = Nodes /\ DOMAIN NoGraph = {}
      BY <2>1 DEF DiskTypes, NoGraph
    <3>2. Nodes = {}
      BY <2>1, <2>3, <3>1
    <3>3. QED
      BY <1>1, <3>2 DEF StartBuild, NodesToRebuild
  <2>4. CASE saved # NoGraph
    <3> DEFINE marked == {n \in Nodes : MarkedByItself(n)}
               closedSets == {S \in SUBSET Nodes :
                                marked \subseteq S /\ \A n \in S, m \in Nodes : Feeds(n, m) => m \in S}
    <3>1. marked = {}
      BY <2>2
    <3>2. {} \in closedSets
      BY <3>1
    <3>3. NodesToRebuild = {n \in Nodes : \A S \in closedSets : n \in S}
      BY <2>4 DEF NodesToRebuild
    <3> HIDE DEF closedSets
    <3>4. NodesToRebuild = {}
      BY <3>2, <3>3
    <3>5. QED
      BY <1>1, <3>4 DEF StartBuild
  <2>5. QED
    BY <2>3, <2>4
<1>2. DInv => [phase = "ok" /\ StartBuild
               /\ (\A n \in Nodes : \A i \in Reads(n), o \in Graph[n].outputs : mtime[i] < mtime[o])
               => to_rebuild' = {}]_vars
  BY <1>1
<1>3. QED
  BY <1>2, FreshMeansBuilt, PTL DEF NoNeedlessRebuild

-------------------------------------------------------------------------------
(***************************************************************************)
(* Changing command lines, as long as no invocation fails or is killed.    *)
(***************************************************************************)
\* Between two invocations what looks fresh was built by the saved command lines;
\* in one, and after it, what need not be rebuilt was built by the present ones.
BuiltAsSaved ==
  /\ phase \notin {"broken", "lost", "failed"}
  /\ phase \in {"idle", "ok"} /\ saved # NoGraph => \A n \in Nodes : LooksFresh(n) => BuiltBy(n, saved[n])
  /\ phase \in {"start", "work"} => \A n \in Nodes : n \notin to_rebuild => BuiltBy(n, command[n])
  /\ phase \in {"succeeded", "ok"} => \A n \in Nodes : BuiltBy(n, command[n])

LEMMA WriteAsSaved ==
  ASSUME DInv, BuiltAsSaved, NEW m \in Nodes, WriteOutputs(m), m \in to_rebuild,
         UNCHANGED <<project, command, to_rebuild, phase>>, phase \in {"start", "work"}
  PROVE  BuiltAsSaved'
<1>1. ASSUME NEW n \in Nodes, n \notin to_rebuild PROVE BuiltBy(n, command[n])'
  <2>1. n # m /\ LInv /\ DiskTypes /\ BuiltBy(n, command[n]) /\ ~Feeds(m, n)
    BY <1>1 DEF BuiltAsSaved, DInv, InvocationBuilds
  <2>2. Graph[m].outputs \cap AlwaysReads(n) = {}
    BY <2>1, ReadFacts, ZenonT(40) DEF Feeds
  <2>3. \A c : BuiltBy(n, c) => BuiltBy(n, c)'
    BY <2>1, <2>2, WriteKeeps, ZenonT(40)
  <2>4. command' = command
    OBVIOUS
  <2>5. QED
    BY <2>1, <2>3, <2>4
<1>2. QED
  BY SameProject, <1>1 DEF BuiltAsSaved

LEMMA StepAsSaved ==
  ASSUME DInv, DInv', BuiltAsSaved, [Next]_vars, [phase' # "broken" /\ ~Abort]_vars
  PROVE  BuiltAsSaved'
<1>1. LInv /\ DiskTypes
  BY DEF DInv
<1>2. CASE UNCHANGED vars
  BY SameProject, <1>2, SameDisk DEF vars, BuiltAsSaved, NoGraph
<1>3. CASE StartBuild
  <2>1. /\ phase \in {"idle", "ok", "failed"} /\ to_rebuild' = NodesToRebuild
        /\ phase' \in {"succeeded", "start"} /\ (phase' = "succeeded" => to_rebuild' = {})
        /\ UNCHANGED <<project, command, disk, saved>>
    BY <1>3 DEF StartBuild
  <2>2. ASSUME NEW n \in Nodes, n \notin to_rebuild' PROVE BuiltBy(n, command[n])
    <3>1. LooksFresh(n) /\ saved # NoGraph /\ saved[n] = command[n]
      BY <1>1, <2>1, <2>2, NotRebuilt, NotRebuiltFresh, ZenonT(40)
    <3>2. QED
      BY <2>1, <3>1, Zenon DEF BuiltAsSaved
  <2>3. QED
    BY SameProject, <2>1, <2>2, SameDisk, ZenonT(40) DEF BuiltAsSaved
<1>4. CASE StartProcess \/ WaitForProcesses \/ RemoveProcess
  <2>1. /\ phase \in {"start", "work"} /\ phase' \in {"start", "work", "broken"}
        /\ UNCHANGED <<project, command, disk, saved, to_rebuild>>
    BY <1>4 DEF StartProcess, MayStart, WaitForProcesses, RemoveProcess
  <2>2. phase' # "broken"
    BY <2>1, ZenonT(40) DEF vars, BuiltAsSaved
  <2>3. QED
    BY SameProject, <2>1, <2>2, SameDisk, ZenonT(40) DEF BuiltAsSaved
<1>5. CASE RunSpecialCommand
  <2>1. /\ Selectable # {} /\ phase = "start" /\ UNCHANGED <<project, command, to_rebuild>>
    BY <1>5 DEF RunSpecialCommand, MayStart
  <2>2. phase' # "broken"
    BY <2>1 DEF vars
  <2>3. PICK m \in Nodes : m = Selected /\ m \in to_rebuild
    BY <1>1, <2>1, SelectedFacts
  <2>4. WriteOutputs(m) /\ phase' = phase
    BY <1>5, <2>2, <2>3, ZenonT(40) DEF RunSpecialCommand
  <2>5. QED
    BY <2>1, <2>3, <2>4, WriteAsSaved
<1>6. CASE \E m \in Nodes : ProcessExits(m)
  <2>1. PICK m \in Nodes : ProcessExits(m)
    BY <1>6
  <2>2. m \in ElementsOf(running) /\ UNCHANGED <<project, command, saved, to_rebuild, phase>>
    BY <1>1, <2>1, ExitFacts
  <2>3. phase \in {"start", "work"} /\ m \in to_rebuild
    BY <1>1, <2>2, EmptyGroup, ZenonT(40) DEF LInv, Discipline, BuiltAsSaved
  <2>4. CASE WriteOutputs(m)
    BY <2>2, <2>3, <2>4, WriteAsSaved
  <2>5. CASE UNCHANGED disk
    BY SameProject, <2>2, <2>3, <2>5, SameDisk, ZenonT(40) DEF BuiltAsSaved
  <2>6. QED
    BY <2>1, <2>4, <2>5 DEF ProcessExits
<1>7. CASE TakeFinishedProcesses
  <2>1. /\ phase = "work" /\ phase' \in {"succeeded", "start"}
        /\ phase' = "succeeded" => \A n \in to_rebuild : state'[n] = "Ready"
        /\ UNCHANGED <<project, command, disk, saved, to_rebuild>>
    BY <1>7 DEF TakeFinishedProcesses
  <2>2. CASE phase' = "start"
    BY SameProject, <2>1, <2>2, SameDisk DEF BuiltAsSaved
  <2>3. CASE phase' = "succeeded"
    <3>1. ASSUME NEW n \in Nodes, n \in to_rebuild PROVE BuiltBy(n, command[n])
      <4>1. state'[n] = IF n \in ElementsOf(finished) THEN "Ready" ELSE state[n]
        BY <1>1, <1>7, TakenStates
      <4>2. Done(n)
        BY <2>1, <2>3, <3>1, <4>1 DEF Done
      <4>3. QED
        BY <2>1, <4>2, ZenonT(40) DEF DInv, InvocationBuilds
    <3>2. \A n \in Nodes : BuiltBy(n, command[n])
      BY <2>1, <3>1 DEF BuiltAsSaved
    <3>3. QED
      BY SameProject, <2>1, <2>3, <3>2, SameDisk DEF BuiltAsSaved
  <2>4. QED
    BY <2>1, <2>2, <2>3
<1>8. CASE SaveGraph
  BY SameProject, <1>8, SameDisk DEF SaveGraph, BuiltAsSaved
<1>9. CASE User
  <2>1. UNCHANGED <<project, saved, deps>> /\ phase' = "idle" /\ phase \in {"idle", "ok", "failed"}
    BY <1>9, UserFacts, ZenonT(40)
  <2>2. PICK W : /\ \A f \in Files \ W : mtime'[f] = mtime[f] /\ content'[f] = content[f]
                 /\ \A f \in W : \/ mtime'[f] = 0
                                 \/ mtime'[f] \in Nat /\ mtime'[f] >= now /\ \A n \in Nodes : f \notin Graph[n].outputs
    BY <1>9, UserFacts
  <2>3. ASSUME NEW n \in Nodes, saved # NoGraph, LooksFresh(n)' PROVE BuiltBy(n, saved[n])'
    <3>1. PICK C : C = {saved[n]}
      BY ZenonT(40)
    <3>2. C # {} /\ (LooksFresh(n) => \E c \in C : BuiltBy(n, c))
      BY <2>1, <2>3, <3>1 DEF BuiltAsSaved
    <3>3. \E c \in C : BuiltBy(n, c)'
      BY <1>1, <2>1, <2>2, <2>3, <3>2, FreshStep, ZenonT(40)
    <3>4. saved' = saved
      BY <2>1
    <3>5. QED
      BY <3>1, <3>3, <3>4
  <2>4. QED
    BY SameProject, <2>1, <2>3, ZenonT(40) DEF BuiltAsSaved, NoGraph
<1>10. CASE StopOnLoop \/ Drain \/ Abort
  <2>1. phase # "broken" /\ phase \notin {"broken", "lost", "failed"}
    BY DEF BuiltAsSaved
  <2>2. CASE StopOnLoop
    BY <2>1, <2>2 DEF StopOnLoop, MayStart, vars
  <2>3. CASE Drain
    BY <2>1, <2>3 DEF Drain
  <2>4. CASE Abort
    BY <1>2, <2>4
  <2>5. QED
    BY <1>10, <2>2, <2>3, <2>4
<1>11. QED
  BY <1>2, <1>3, <1>4, <1>5, <1>6, <1>7, <1>8, <1>9, <1>10 DEF Next, BuildLoop

\* Whatever command lines the user changes, a build that reports success leaves
\* exactly what the build script asks for, provided no earlier invocation failed
\* or was killed.  (After one that did, the graph saved in main.u names command
\* lines that were never run, and UpToDate is false.)
THEOREM UpToDateWithoutFailures == Spec /\ [][phase' # "broken" /\ ~Abort]_vars => []UpToDate
<1>1. Init => BuiltAsSaved
  BY Zenon DEF Init, BuiltAsSaved
<1>2. DInv /\ DInv' /\ BuiltAsSaved /\ [Next]_vars /\ [phase' # "broken" /\ ~Abort]_vars => BuiltAsSaved'
  BY StepAsSaved
<1>3. BuiltAsSaved => UpToDate
  BY Zenon DEF BuiltAsSaved, UpToDate, BuiltBy, Usable, Made, Result
<1>4. QED
  BY <1>1, <1>2, <1>3, FreshMeansBuilt, PTL DEF Spec

=============================================================================
