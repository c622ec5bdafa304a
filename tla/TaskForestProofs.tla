--------------------------- MODULE TaskForestProofs ---------------------------
(***************************************************************************)
(* The safety properties of TaskForest, for any number of tasks and        *)
(* subtasks.  The invariant has four parts: the links between the tasks,   *)
(* what the stack and the ready list hold, the joins that wait, and the    *)
(* order of the stack.                                                     *)
(***************************************************************************)
EXTENDS TaskLinksProofs

\* The provers to try, in this order, with their time limits in seconds.
USE SMTT(30), ZenonT(30), SMTT(40), SMTT(50), SMTT(60)

-------------------------------------------------------------------------------
(***************************************************************************)
(* The schedule.                                                           *)
(***************************************************************************)
Active == pc \notin {"cleanup", "exited"}

InStack == Range(stack)
InReady == Range(ready)
Waiting == InStack \cup InReady

\* A child of the running task that is to be pushed.
ToPush(x) == tasks[x].parent = current /\ (pc = "join" \/ (pc = "push" /\ x <= child))

Types ==
  /\ pc \in {"exec", "check", "slice", "join", "push", "extract", "poll", "cleanup", "exited"}
  /\ Alive \subseteq 1 .. next_id - 1
  /\ next_id \in 1 .. MaxId + 1
  /\ ready \in Seq(Ids) /\ stack \in Seq(Ids)
  /\ current \in Ids \cup {0} /\ child \in Ids \cup {0}
  /\ awaits \in [Ids -> SUBSET Ids]
  /\ yields \in 0 .. MaxYields /\ shutdown \in BOOLEAN

\* No task is scheduled twice, and what is scheduled has no children.
Schedule ==
  /\ IsInjective(stack) /\ IsInjective(ready) /\ InStack \cap InReady = {}
  /\ \A x \in Waiting : x \in Alive /\ tasks[x].last_child = 0
  /\ pc \in {"extract", "poll"} => stack = <<>> /\ \A x \in InReady : tasks[x].socket = FALSE

\* The task that runs.
Runs ==
  /\ pc \in {"check", "slice", "join", "push"} => current \in Alive /\ current \notin Waiting
  /\ pc \in {"check", "slice"} => tasks[current].last_child = 0
  /\ pc \in {"join", "push"} => /\ tasks[current].last_child # 0 /\ tasks[current].socket = FALSE
                                /\ \A x \in Alive : tasks[x].parent = current =>
                                     /\ tasks[x].last_child = 0 /\ tasks[x].socket = FALSE
                                     /\ ToPush(x) => x \notin Waiting
  /\ pc = "push" /\ child # 0 => child \in Alive /\ tasks[child].parent = current

\* Who is not scheduled waits for a socket or for children.
Remembered ==
  \A x \in Alive :
    /\ tasks[x].socket = TRUE => tasks[x].last_child = 0
    /\ tasks[x].socket = FALSE /\ tasks[x].last_child = 0 =>
         \/ x \in Waiting
         \/ pc \in {"check", "slice"} /\ x = current
         \/ ToPush(x)

\* A join waits for children of its task.
Joins ==
  /\ \A id \in Ids : awaits[id] \subseteq 1 .. next_id - 1 /\ (id >= next_id => awaits[id] = {})
  /\ \A id \in Alive : \A s \in awaits[id] \cap Alive : tasks[s].parent = id

\* What is nearer to the top of the stack, and the running task, may be executed first.
StackOrder ==
  /\ \A i, j \in DOMAIN stack : i < j => Before(tasks, stack[j], stack[i])
  /\ pc \in {"check", "slice", "join", "push"} => \A i \in DOMAIN stack : Before(tasks, current, stack[i])

FInv == Types /\ Forest(tasks) /\ Joins /\ Schedule /\ Runs /\ StackOrder /\ (Active => Remembered)

-------------------------------------------------------------------------------
(***************************************************************************)
(* The steps of the main loop that leave the tasks alone.                  *)
(***************************************************************************)
LEMMA SmallSequences ==
  /\ <<>> \in Seq(Ids) /\ Range(<<>>) = {} /\ IsInjective(<<>>) /\ DOMAIN <<>> = {}
  /\ \A x \in Ids : /\ <<x>> \in Seq(Ids) /\ Range(<<x>>) = {x} /\ IsInjective(<<x>>)
                    /\ DOMAIN <<x>> = {1} /\ <<x>>[1] = x
<1>1. <<>> \in Seq(Ids) /\ Range(<<>>) = {} /\ IsInjective(<<>>) /\ DOMAIN <<>> = {}
  BY DEF Range, IsInjective
<1>2. ASSUME NEW x \in Ids
      PROVE  /\ <<x>> \in Seq(Ids) /\ Range(<<x>>) = {x} /\ IsInjective(<<x>>)
             /\ DOMAIN <<x>> = {1} /\ <<x>>[1] = x
  <2>1. <<x>> \in Seq(Ids) /\ DOMAIN <<x>> = {1} /\ <<x>>[1] = x
    OBVIOUS
  <2>2. QED
    BY <2>1 DEF Range, IsInjective
<1>3. QED
  BY <1>1, <1>2

LEMMA InvFacts ==
  ASSUME FInv
  PROVE  /\ Types /\ Forest(tasks) /\ Joins /\ Schedule /\ Runs /\ StackOrder
         /\ Active => Remembered
         /\ TaskMap(tasks) /\ Parents(tasks) /\ Prevs(tasks) /\ Nexts(tasks) /\ LastChildren(tasks)
         /\ Neighbours(tasks)
         /\ \A x \in Alive : /\ x \in Ids /\ x \in Nat /\ x # 0 /\ tasks[x].socket \in BOOLEAN
                             /\ tasks[x].parent \in Nat /\ tasks[x].prev_sibling \in Nat
                             /\ tasks[x].last_child \in Nat
<1>1. /\ Types /\ Forest(tasks) /\ Joins /\ Schedule /\ Runs /\ StackOrder
      /\ Active => Remembered
  BY DEF FInv
<1>2. /\ TaskMap(tasks) /\ Parents(tasks) /\ Prevs(tasks) /\ Nexts(tasks) /\ LastChildren(tasks)
      /\ Neighbours(tasks)
  BY <1>1 DEF Forest
<1>3. QED
  BY <1>1, <1>2, RecordFacts DEF Alive

LEMMA KeptTasks ==
  ASSUME FInv, UNCHANGED <<tasks, next_id, awaits>>
  PROVE  Forest(tasks)' /\ Joins'
<1>1. Forest(tasks) /\ Joins
  BY DEF FInv
<1>2. QED
  BY <1>1 DEF Joins, Alive

LEMMA StartReadyStep ==
  ASSUME FInv, StartReady
  PROVE  FInv'
<1> USE DEF StartReady
<1>1. Types /\ Schedule /\ Runs /\ StackOrder /\ (Active => Remembered)
  BY InvFacts
<1>2. ready \in Seq(Ids) /\ IsInjective(ready) /\ ready # <<>> /\ InStack = {}
  BY <1>1, SmallSequences DEF Types, Schedule, InStack
<1>3. PICK h \in Ids : /\ h = Head(ready) /\ h \in InReady /\ InReady' = InReady \ {h}
                       /\ ready' \in Seq(Ids) /\ IsInjective(ready')
  BY <1>2, TailFacts DEF InReady
<1>4. stack' \in Seq(Ids) /\ InStack' = {h} /\ IsInjective(stack') /\ DOMAIN stack' = {1}
  BY <1>3, SmallSequences DEF InStack
<1>5. Waiting' = Waiting /\ InStack' \cap InReady' = {}
  BY <1>2, <1>3, <1>4 DEF Waiting
<1>6. Types'
  BY <1>1, <1>3, <1>4 DEF Types, Alive
<1>7. Schedule'
  BY <1>1, <1>3, <1>4, <1>5 DEF Schedule, Alive
<1>8. Runs'
  BY <1>1, <1>5 DEF Runs, Alive, ToPush
<1>9. StackOrder'
  BY <1>4 DEF StackOrder
<1>10. Remembered'
  BY <1>1, <1>5 DEF Remembered, Alive, ToPush, Active
<1>11. QED
  BY <1>6, <1>7, <1>8, <1>9, <1>10, KeptTasks DEF FInv

LEMMA PopTaskStep ==
  ASSUME FInv, PopTask
  PROVE  FInv'
<1> USE DEF PopTask
<1>1. Types /\ Schedule /\ Runs /\ StackOrder /\ (Active => Remembered)
  BY InvFacts
<1>2. stack \in Seq(Ids) /\ IsInjective(stack) /\ stack # <<>>
  BY <1>1 DEF Types, Schedule
<1>3. /\ stack' \in Seq(Ids) /\ IsInjective(stack') /\ current' \in Ids
      /\ current' \in InStack /\ InStack' = InStack \ {current'}
      /\ Len(stack) \in DOMAIN stack /\ current' = stack[Len(stack)]
      /\ \A i \in DOMAIN stack' : i \in DOMAIN stack /\ i < Len(stack) /\ stack'[i] = stack[i]
  BY <1>2, PopFacts DEF InStack
<1>4. InReady' = InReady /\ InStack \cap InReady = {}
  BY <1>1 DEF InReady, Schedule
<1>5. Waiting' = Waiting \ {current'} /\ current' \in Waiting
  BY <1>3, <1>4 DEF Waiting
<1>6. Types'
  BY <1>1, <1>3 DEF Types, Alive
<1>7. Schedule'
  BY <1>1, <1>3, <1>4, <1>5 DEF Schedule, Alive
<1>8. Runs'
  BY <1>1, <1>5 DEF Runs, Alive, ToPush, Schedule
<1>9. StackOrder'
  BY <1>1, <1>3 DEF StackOrder
<1>10. Remembered'
  BY <1>1, <1>5 DEF Remembered, Alive, ToPush, Active
<1>11. QED
  BY <1>6, <1>7, <1>8, <1>9, <1>10, KeptTasks DEF FInv

LEMMA ResumeStep ==
  ASSUME FInv, Resume
  PROVE  FInv'
<1> USE DEF Resume
<1>1. Types /\ Joins /\ Schedule /\ Runs /\ StackOrder /\ (Active => Remembered)
  BY InvFacts
<1>2. Waiting' = Waiting /\ InStack' = InStack /\ InReady' = InReady
  BY DEF Waiting, InStack, InReady
<1>3. awaits' \in [Ids -> SUBSET Ids] /\ \A id \in Ids : awaits'[id] = awaits[id] \/ awaits'[id] = {}
  BY <1>1 DEF Types
<1>4. Types'
  BY <1>1, <1>3 DEF Types, Alive
<1>5. Forest(tasks)'
  BY InvFacts
<1>6. Joins'
  <2>1. \A id \in Ids : awaits'[id] \subseteq 1 .. next_id - 1 /\ (id >= next_id => awaits'[id] = {})
    BY <1>1, <1>3 DEF Joins
  <2>2. \A id \in Alive : \A s \in awaits'[id] \cap Alive : tasks[s].parent = id
    BY <1>1, <1>3, InvFacts DEF Joins
  <2>3. QED
    BY <2>1, <2>2 DEF Joins, Alive
<1>7. Schedule'
  BY <1>1, <1>2 DEF Schedule, Alive
<1>8. Runs'
  BY <1>1, <1>2 DEF Runs, Alive, ToPush
<1>9. StackOrder'
  BY <1>1 DEF StackOrder
<1>10. Active' => Remembered'
  BY <1>1, <1>2 DEF Remembered, Alive, ToPush, Active
<1>11. QED
  BY <1>4, <1>5, <1>6, <1>7, <1>8, <1>9, <1>10 DEF FInv

LEMMA YieldJoinStep ==
  ASSUME FInv, YieldJoin
  PROVE  FInv'
<1> USE DEF YieldJoin
<1>1. Types /\ Schedule /\ Runs /\ StackOrder /\ (Active => Remembered) /\ LastChildren(tasks) /\ Neighbours(tasks)
  BY InvFacts
<1>2. Waiting' = Waiting /\ InStack' = InStack /\ InReady' = InReady
  BY DEF Waiting, InStack, InReady
<1>3. current \in Alive /\ current # 0 /\ tasks[current].last_child # 0
  BY <1>1, InvFacts DEF Runs
<1>4. child' \in Alive /\ tasks[child'].parent = current /\ tasks[child'].next_sibling = 0
  BY <1>1, <1>3 DEF LastChildren, Alive
<1>5. ASSUME NEW x \in Alive, tasks[x].parent = current PROVE x <= child'
  <2>1. ~(child' < x)
    BY <1>1, <1>3, <1>4, <1>5 DEF Neighbours, Alive
  <2>2. QED
    BY <1>4, <2>1, InvFacts
<1>6. Types'
  BY <1>1, <1>4, InvFacts DEF Types, Alive
<1>7. Schedule'
  BY <1>1, <1>2 DEF Schedule, Alive
<1>8. Runs'
  BY <1>1, <1>2, <1>4 DEF Runs, Alive, ToPush
<1>9. StackOrder'
  BY <1>1 DEF StackOrder
<1>10. Remembered'
  BY <1>1, <1>2, <1>5 DEF Remembered, Alive, ToPush, Active
<1>11. QED
  BY <1>6, <1>7, <1>8, <1>9, <1>10, KeptTasks DEF FInv

LEMMA PushChildStep ==
  ASSUME FInv, PushChild
  PROVE  FInv'
<1> USE DEF PushChild
<1>1. /\ Types /\ Schedule /\ Runs /\ StackOrder /\ (Active => Remembered) /\ Forest(tasks)
      /\ Parents(tasks) /\ Prevs(tasks) /\ Neighbours(tasks)
  BY InvFacts
<1>2. current \in Alive /\ current # 0 /\ current \notin Waiting /\ current \in Nat
  BY <1>1, InvFacts DEF Runs
<1>3. child \in Alive /\ tasks[child].parent = current /\ child \in Ids /\ child \in Nat
  BY <1>1, InvFacts DEF Runs
<1>4. child \notin Waiting /\ tasks[child].last_child = 0 /\ current < child
  BY <1>1, <1>2, <1>3 DEF Runs, ToPush, Parents, Alive
<1>5. stack \in Seq(Ids) /\ IsInjective(stack) /\ child \notin InStack /\ child \notin InReady
  BY <1>1, <1>4 DEF Types, Schedule, Waiting
<1>6. /\ stack' \in Seq(Ids) /\ InStack' = InStack \cup {child} /\ IsInjective(stack')
      /\ \A i \in DOMAIN stack' : i = Len(stack) + 1 \/ i \in DOMAIN stack
      /\ \A i \in DOMAIN stack : stack'[i] = stack[i] /\ i < Len(stack) + 1
      /\ stack'[Len(stack) + 1] = child
  BY <1>3, <1>5, AppendFacts DEF InStack
<1>7. Waiting' = Waiting \cup {child} /\ InReady' = InReady
  BY <1>6 DEF Waiting, InReady
<1>8. child' \in Nat /\ (child' # 0 => child' \in Alive /\ child' < child /\ tasks[child'].parent = current)
  BY <1>1, <1>3, InvFacts DEF Prevs, Alive
<1>9. ASSUME NEW x \in Alive, tasks[x].parent = current, x <= child
      PROVE  x = child \/ x <= child'
  <2>1. x < child => x <= child'
    BY <1>1, <1>2, <1>3, <1>9 DEF Neighbours, Alive
  <2>2. QED
    BY <1>3, <1>9, <2>1, InvFacts
<1>10. ASSUME NEW x \in Alive, x <= child' PROVE x < child /\ x # child
  BY <1>3, <1>8, <1>10, InvFacts
<1>11. Types'
  BY <1>1, <1>6, <1>8, InvFacts DEF Types, Alive
<1>12. Schedule'
  BY <1>1, <1>3, <1>4, <1>5, <1>6, <1>7 DEF Schedule, Alive
<1>13. Runs'
  <2>1. current \notin Waiting'
    BY <1>2, <1>3, <1>4, <1>7
  <2>2. ASSUME NEW x \in Alive, ToPush(x)' PROVE x \notin Waiting'
    <3>1. tasks[x].parent = current /\ x <= child'
      BY <2>2 DEF ToPush
    <3>2. x < child /\ x # child
      BY <1>10, <3>1
    <3>3. ToPush(x)
      BY <1>3, <3>1, <3>2, InvFacts DEF ToPush
    <3>4. x \notin Waiting
      BY <1>1, <3>1, <3>3 DEF Runs
    <3>5. QED
      BY <1>7, <3>2, <3>4
  <2>3. QED
    BY <1>1, <1>2, <1>8, <2>1, <2>2 DEF Runs, Alive
<1>14. StackOrder'
  <2>1. ASSUME NEW i \in DOMAIN stack PROVE Before(tasks, child, stack[i])
    <3> SUFFICES ASSUME NEW a \in Ancestors(tasks, child), tasks[a].parent # 0,
                        tasks[a].parent = tasks[stack[i]].parent, a # stack[i]
                 PROVE  a < stack[i]
      BY DEF Before
    <3>1. stack[i] \in Waiting /\ stack[i] \in Alive /\ stack[i] \in Nat
      BY <1>1, InvFacts DEF Waiting, InStack, Range, Schedule
    <3>2. CASE a = child
      <4>1. ~ToPush(stack[i])
        BY <1>1, <1>3, <3>1, <3>2 DEF Runs
      <4>2. QED
        BY <1>3, <3>1, <3>2, <4>1 DEF ToPush
    <3>3. CASE a \in Ancestors(tasks, current)
      <4>1. Before(tasks, current, stack[i])
        BY <1>1 DEF StackOrder
      <4>2. QED
        BY <3>3, <4>1 DEF Before
    <3>4. QED
      BY <1>1, <1>2, <1>3, <3>2, <3>3, AncestorsOfChild DEF Alive
  <2>2. Before(tasks, current, child)
    <3> SUFFICES ASSUME NEW a \in Ancestors(tasks, current), tasks[a].parent = current PROVE FALSE
      BY <1>3 DEF Before
    <3>1. a \in Alive /\ a <= current
      BY <1>1, <1>2, AncestorFacts DEF Alive
    <3>2. current < a
      BY <1>1, <1>2, <3>1 DEF Parents, Alive
    <3>3. QED
      BY <1>2, <3>1, <3>2, InvFacts
  <2>3. Len(stack) \in Nat /\ \A i \in DOMAIN stack : i \in Nat
    BY <1>5
  <2>4. ASSUME NEW i \in DOMAIN stack', NEW j \in DOMAIN stack', i < j
        PROVE  Before(tasks, stack'[j], stack'[i])
    <3>1. i \in DOMAIN stack
      BY <1>6, <2>3, <2>4
    <3>2. CASE j \in DOMAIN stack
      BY <1>1, <1>6, <2>4, <3>1, <3>2 DEF StackOrder
    <3>3. CASE j = Len(stack) + 1
      BY <1>6, <2>1, <3>1, <3>3
    <3>4. QED
      BY <1>6, <3>2, <3>3
  <2>5. ASSUME NEW i \in DOMAIN stack' PROVE Before(tasks, current, stack'[i])
    <3>1. CASE i \in DOMAIN stack
      BY <1>1, <1>6, <3>1 DEF StackOrder
    <3>2. CASE i = Len(stack) + 1
      BY <1>6, <2>2, <3>2
    <3>3. QED
      BY <1>6, <3>1, <3>2
  <2>6. QED
    BY <2>4, <2>5 DEF StackOrder
<1>15. Remembered'
  <2>1. ASSUME NEW x \in Alive, ToPush(x) PROVE x \in Waiting' \/ ToPush(x)'
    BY <1>7, <1>9, <2>1 DEF ToPush
  <2>2. QED
    BY <1>1, <1>7, <2>1 DEF Remembered, Alive, Active
<1>16. QED
  BY <1>11, <1>12, <1>13, <1>14, <1>15, KeptTasks DEF FInv

\* Steps that only change where the thread is.
LEMMA PushEndStep ==
  ASSUME FInv, PushEnd
  PROVE  FInv'
<1> USE DEF PushEnd
<1>1. Types /\ Schedule /\ StackOrder /\ (Active => Remembered)
  BY InvFacts
<1>2. Waiting' = Waiting /\ InStack' = InStack /\ InReady' = InReady
  BY DEF Waiting, InStack, InReady
<1>3. Types' /\ Schedule' /\ Runs' /\ StackOrder'
  BY <1>1, <1>2 DEF Types, Schedule, Runs, StackOrder, Alive
<1>4. \A x \in Alive : ~ToPush(x)
  BY InvFacts DEF ToPush
<1>5. Remembered'
  BY <1>1, <1>2, <1>4 DEF Remembered, Alive, Active
<1>6. QED
  BY <1>3, <1>5, KeptTasks DEF FInv

LEMMA YieldSocketStep ==
  ASSUME FInv, YieldSocket
  PROVE  FInv'
<1> USE DEF YieldSocket
<1>1. Types /\ Schedule /\ StackOrder /\ (Active => Remembered)
  BY InvFacts
<1>2. Waiting' = Waiting /\ InStack' = InStack /\ InReady' = InReady
  BY DEF Waiting, InStack, InReady
<1>3. Types' /\ Schedule' /\ Runs' /\ StackOrder'
  BY <1>1, <1>2 DEF Types, Schedule, Runs, StackOrder, Alive
<1>4. Remembered'
  BY <1>1, <1>2 DEF Remembered, Alive, Active, ToPush
<1>5. QED
  BY <1>3, <1>4, KeptTasks DEF FInv

LEMMA YieldReadyStep ==
  ASSUME FInv, YieldReady
  PROVE  FInv'
<1> USE DEF YieldReady
<1>1. Types /\ Schedule /\ Runs /\ StackOrder /\ (Active => Remembered)
  BY InvFacts
<1>2. Waiting' = Waiting /\ InStack' = InStack /\ InReady' = InReady
  BY DEF Waiting, InStack, InReady
<1>3. Types'
  BY <1>1, BoundsAssumption DEF Types, Alive
<1>4. Schedule' /\ Runs' /\ StackOrder'
  BY <1>1, <1>2 DEF Schedule, Runs, StackOrder, Alive
<1>5. Remembered'
  BY <1>1, <1>2 DEF Remembered, Alive, Active, ToPush
<1>6. QED
  BY <1>3, <1>4, <1>5, KeptTasks DEF FInv

LEMMA AfterExecutionStep ==
  ASSUME FInv, AfterExecution
  PROVE  FInv'
<1> USE DEF AfterExecution
<1>1. Types /\ Schedule /\ StackOrder /\ (Active => Remembered)
  BY InvFacts
<1>2. Waiting' = Waiting /\ InStack' = InStack /\ InReady' = InReady /\ InReady = {}
  BY SmallSequences DEF Waiting, InStack, InReady
<1>3. Types' /\ Schedule' /\ Runs' /\ StackOrder'
  BY <1>1, <1>2 DEF Types, Schedule, Runs, StackOrder, Alive
<1>4. Remembered'
  BY <1>1, <1>2 DEF Remembered, Alive, Active, ToPush
<1>5. QED
  BY <1>3, <1>4, KeptTasks DEF FInv

LEMMA ExtractEndStep ==
  ASSUME FInv, ExtractEnd
  PROVE  FInv'
<1> USE DEF ExtractEnd
<1>1. Types /\ Schedule /\ StackOrder /\ (Active => Remembered)
  BY InvFacts
<1>2. Waiting' = Waiting /\ InStack' = InStack /\ InReady' = InReady
  BY DEF Waiting, InStack, InReady
<1>3. Types' /\ Schedule' /\ Runs' /\ StackOrder'
  BY <1>1, <1>2 DEF Types, Schedule, Runs, StackOrder, Alive
<1>4. Remembered'
  BY <1>1, <1>2 DEF Remembered, Alive, Active, ToPush
<1>5. QED
  BY <1>3, <1>4, KeptTasks DEF FInv

LEMMA ShutdownStep ==
  ASSUME FInv, RequestShutdown \/ Done \/ UNCHANGED vars
  PROVE  FInv'
<1>1. UNCHANGED <<pc, tasks, next_id, ready, stack, current, child, awaits, yields>> /\ shutdown' \in BOOLEAN
  BY InvFacts, Zenon DEF RequestShutdown, Done, vars, Types
<1>2. Types /\ Schedule /\ Runs /\ StackOrder /\ (Active => Remembered)
  BY InvFacts
<1>3. Waiting' = Waiting /\ InStack' = InStack /\ InReady' = InReady
  BY <1>1 DEF Waiting, InStack, InReady
<1>4. Types' /\ Schedule'
  BY <1>1, <1>2, <1>3 DEF Types, Schedule, Alive
<1>5. Runs' /\ StackOrder'
  BY <1>1, <1>2, <1>3 DEF Runs, StackOrder, Alive, ToPush
<1>6. Active' => Remembered'
  BY <1>1, <1>2, <1>3 DEF Remembered, Alive, Active, ToPush
<1>7. QED
  BY <1>1, <1>4, <1>5, <1>6, KeptTasks DEF FInv

\* The hash map's order of the tasks whose sockets are ready.
LEMMA OrderFacts ==
  ASSUME NEW S \in SUBSET Ids, NEW n \in Nat, NEW s \in Injection(1 .. n, S)
  PROVE  s \in Seq(Ids) /\ IsInjective(s) /\ Range(s) \subseteq S
<1>1. s \in [1 .. n -> S] /\ IsInjective(s)
  BY DEF Injection
<1>2. s \in Seq(Ids)
  BY <1>1
<1>3. DOMAIN s = 1 .. n /\ \A i \in 1 .. n : s[i] \in S
  BY <1>1
<1>4. QED
  BY <1>1, <1>2, <1>3 DEF Range

LEMMA PollStep ==
  ASSUME FInv, Poll
  PROVE  FInv'
<1> USE DEF Poll
<1>1. Types /\ Schedule /\ StackOrder /\ (Active => Remembered)
  BY InvFacts
<1>2. PICK S : S = {id \in Alive : tasks[id].socket}
  BY Zenon
<1>3. PICK n \in 0 .. MaxId : \E s \in Injection(1 .. n, S) : ready' = ready \o s
  BY <1>2, Zenon
<1>3a. PICK s \in Injection(1 .. n, S) : ready' = ready \o s
  BY <1>3
<1>4. \A x \in S : x \in Alive /\ tasks[x].socket = TRUE /\ x \in Ids
  BY <1>2, InvFacts
<1>5. s \in Seq(Ids) /\ IsInjective(s) /\ Range(s) \subseteq S
  <2>1. n \in Nat /\ S \in SUBSET Ids
    BY <1>4, BoundsAssumption
  <2>2. QED
    BY <1>3a, <2>1, OrderFacts
<1>6. \A x \in InReady : x \notin S
  BY <1>1, <1>4 DEF Schedule
<1>7. /\ ready' \in Seq(Ids) /\ IsInjective(ready') /\ InReady' = InReady \cup Range(s)
      /\ InStack' = InStack /\ InStack = {}
  <2>1. Range(ready) \cap Range(s) = {} /\ ready \in Seq(Ids) /\ IsInjective(ready)
    BY <1>1, <1>5, <1>6 DEF InReady, Types, Schedule
  <2>2. ready' \in Seq(Ids) /\ IsInjective(ready') /\ InReady' = InReady \cup Range(s)
    BY <1>3a, <1>5, <2>1, ConcatFacts DEF InReady
  <2>3. QED
    BY <1>1, <2>2, SmallSequences DEF InStack, Schedule
<1>8. \A x \in Waiting' : x \in Waiting \/ x \in S
  BY <1>5, <1>7 DEF Waiting
<1>9. \A x \in S : tasks[x].last_child = 0
  BY <1>1, <1>4 DEF Remembered, Active
<1>10. Types'
  BY <1>1, <1>7 DEF Types, Alive
<1>11. Schedule'
  BY <1>1, <1>4, <1>7, <1>8, <1>9 DEF Schedule, Alive
<1>12. Runs' /\ StackOrder'
  BY <1>1 DEF Runs, StackOrder, Schedule
<1>13. \A x \in Waiting : x \in Waiting'
  BY <1>7 DEF Waiting
<1>14. Remembered'
  BY <1>1, <1>13 DEF Remembered, Alive, Active, ToPush
<1>15. QED
  BY <1>10, <1>11, <1>12, <1>14, KeptTasks DEF FInv

LEMMA CleanupStep ==
  ASSUME FInv, Cleanup
  PROVE  FInv'
<1> USE DEF Cleanup
<1>1. Types
  BY InvFacts
<1>2. Alive' = {} /\ InStack' = {} /\ InReady' = {} /\ Waiting' = {} /\ DOMAIN tasks' = {}
  BY SmallSequences DEF Alive, InStack, InReady, Waiting
<1>3. Types'
  BY <1>1, <1>2, SmallSequences DEF Types
<1>4. Forest(tasks)'
  BY <1>2 DEF Forest, TaskMap, Parents, Prevs, Nexts, LastChildren, Neighbours
<1>5. Joins'
  BY <1>2 DEF Joins
<1>6. Schedule' /\ Runs'
  BY <1>2, SmallSequences DEF Schedule, Runs
<1>7. StackOrder'
  BY SmallSequences DEF StackOrder
<1>8. QED
  BY <1>3, <1>4, <1>5, <1>6, <1>7 DEF FInv, Active

-------------------------------------------------------------------------------
(***************************************************************************)
(* The steps that change the tasks.                                        *)
(***************************************************************************)
LEMMA StackKept ==
  ASSUME FInv, Forest(tasks'), \A x \in DOMAIN tasks' : x \in Alive => tasks'[x].parent = tasks[x].parent
  PROVE  /\ \A x, b \in Alive : x \in DOMAIN tasks' /\ b \in DOMAIN tasks' /\ Before(tasks, x, b) =>
              Before(tasks', x, b)
         /\ \A i \in DOMAIN stack : stack[i] \in Waiting /\ stack[i] \in Alive
<1>1. Forest(tasks)
  BY InvFacts
<1>2. \A x, b \in Alive : x \in DOMAIN tasks' /\ b \in DOMAIN tasks' /\ Before(tasks, x, b) => Before(tasks', x, b)
  BY <1>1, BeforeKept DEF Alive
<1>3. \A i \in DOMAIN stack : stack[i] \in Waiting
  BY DEF Waiting, InStack, Range
<1>4. \A x \in Waiting : x \in Alive
  BY InvFacts DEF Schedule
<1>5. QED
  BY <1>2, <1>3, <1>4

\* The order of the stack, when the stack stays.
LEMMA StackOrderKept ==
  ASSUME FInv, Forest(tasks'), \A x \in DOMAIN tasks' : x \in Alive => tasks'[x].parent = tasks[x].parent,
         \A x \in Alive : x \in DOMAIN tasks', stack' = stack, current' = current,
         pc' \in {"check", "slice", "join", "push"} => pc \in {"check", "slice", "join", "push"}
  PROVE  StackOrder'
<1>1. StackOrder /\ Runs
  BY InvFacts
<1>2. ASSUME NEW i \in DOMAIN stack, NEW j \in DOMAIN stack, i < j PROVE Before(tasks', stack[j], stack[i])
  BY <1>1, <1>2, StackKept DEF StackOrder
<1>3. ASSUME NEW i \in DOMAIN stack, pc \in {"check", "slice", "join", "push"} PROVE Before(tasks', current, stack[i])
  BY <1>1, <1>3, StackKept DEF StackOrder, Runs
<1>4. QED
  BY <1>2, <1>3 DEF StackOrder

\* A socket operation of the running task begins or ends.
LEMMA SocketStep ==
  ASSUME FInv, RegisterCurrentTaskSocketOperation \/ CancelTaskSocketOperation
  PROVE  FInv'
<1>1. /\ pc = "slice" /\ tasks[current].last_child = 0
      /\ \E b \in BOOLEAN : tasks' = [tasks EXCEPT ![current].socket = b]
      /\ UNCHANGED <<pc, next_id, ready, stack, current, child, awaits, yields, shutdown>>
  BY InvFacts, Zenon DEF RegisterCurrentTaskSocketOperation, CancelTaskSocketOperation, Runs
<1>2. PICK b \in BOOLEAN : tasks' = [tasks EXCEPT ![current].socket = b]
  BY <1>1, Zenon
<1>3. /\ Types /\ Joins /\ Schedule /\ Runs /\ StackOrder /\ (Active => Remembered) /\ Forest(tasks)
  BY InvFacts
<1>4. current \in Alive /\ current \notin Waiting
  BY <1>1, <1>3 DEF Runs
<1>5. /\ Forest(tasks') /\ SameLinks(tasks, tasks')
      /\ \A x \in Alive : tasks'[x].socket = IF x = current THEN b ELSE tasks[x].socket
  BY <1>2, <1>3, <1>4, SocketTasks, ZenonT(40) DEF Alive
<1>6. /\ Alive' = Alive
      /\ \A x \in Alive : tasks'[x].parent = tasks[x].parent /\ tasks'[x].last_child = tasks[x].last_child
  BY <1>5 DEF SameLinks, Alive
<1>7. Waiting' = Waiting /\ InStack' = InStack /\ InReady' = InReady
  BY <1>1 DEF Waiting, InStack, InReady
<1>8. Types'
  BY <1>1, <1>3, <1>6 DEF Types
<1>9. Joins'
  BY <1>1, <1>3, <1>6 DEF Joins
<1>10. Schedule'
  BY <1>1, <1>3, <1>6, <1>7 DEF Schedule
<1>11. Runs'
  BY <1>1, <1>3, <1>6, <1>7 DEF Runs
<1>12. StackOrder'
  BY <1>1, <1>5, <1>6, StackOrderKept DEF Alive
<1>13. Remembered'
  BY <1>1, <1>3, <1>5, <1>6, <1>7 DEF Remembered, Active, ToPush
<1>14. QED
  BY <1>5, <1>8, <1>9, <1>10, <1>11, <1>12, <1>13 DEF FInv

LEMMA AddSubtaskStep ==
  ASSUME FInv, AddCurrentTaskSubtask
  PROVE  FInv'
<1>1. /\ pc \in {"slice", "join"} /\ pc' = "join" /\ next_id <= MaxId /\ next_id' = next_id + 1
      /\ UNCHANGED <<ready, stack, current, child, yields, shutdown>>
      /\ tasks' = AddCurrentTaskSubtaskImpl(tasks, current, next_id)
      /\ awaits' = [awaits EXCEPT ![current] = @ \cup {next_id}]
  BY DEF AddCurrentTaskSubtask
<1>2. /\ Types /\ Joins /\ Schedule /\ Runs /\ StackOrder /\ (Active => Remembered) /\ Forest(tasks)
      /\ Parents(tasks)
  BY InvFacts
<1>3. /\ current \in Alive /\ current \notin Waiting /\ tasks[current].socket = FALSE
      /\ current \in Ids /\ current # 0
  BY <1>1, <1>2, InvFacts, Zenon DEF Runs, AddCurrentTaskSubtask
<1>4. PICK s \in Ids : s = next_id /\ s \in Nat
  BY <1>1, <1>2, BoundsAssumption DEF Types, Ids
<1>5. \A x \in Alive : x < s /\ x # s
  BY <1>2, <1>4 DEF Types
<1>6. s \notin Alive
  BY <1>5
<1>7. TaskMap(tasks') /\ AddedTo(tasks, tasks', current, s)
  BY <1>1, <1>2, <1>3, <1>4, <1>6, AddedTasks DEF Alive
<1>8. Forest(tasks')
  BY <1>2, <1>3, <1>5, <1>7, AddForest DEF Alive
<1>9. /\ Alive' = Alive \cup {s}
      /\ tasks'[s].parent = current /\ tasks'[s].last_child = 0 /\ tasks'[s].socket = FALSE
      /\ \A x \in Alive : /\ tasks'[x].parent = tasks[x].parent /\ tasks'[x].socket = tasks[x].socket
                          /\ tasks'[x].last_child = IF x = current THEN s ELSE tasks[x].last_child
  BY <1>7 DEF AddedTo, Alive
<1>10. Waiting' = Waiting /\ InStack' = InStack /\ InReady' = InReady /\ Waiting \subseteq Alive
  BY <1>1, <1>2 DEF Waiting, InStack, InReady, Schedule
<1>11. s # 0 /\ s \notin Waiting
  BY <1>6, <1>10, IdsFacts
\* In a slice the task has no children yet.
<1>12. ASSUME NEW x \in Alive, tasks[x].parent = current
       PROVE  pc = "join" /\ tasks[x].last_child = 0 /\ tasks[x].socket = FALSE /\ x \notin Waiting
  <2>1. tasks[current].last_child # 0
    BY <1>2, <1>3, <1>12 DEF Parents, Alive
  <2>2. pc = "join"
    BY <1>1, <1>2, <2>1 DEF Runs
  <2>3. QED
    BY <1>2, <1>12, <2>2 DEF Runs, ToPush
<1>13. Types'
  <2>1. next_id' \in 1 .. MaxId + 1 /\ Alive' \subseteq 1 .. next_id' - 1
    BY <1>1, <1>2, <1>4, <1>9, BoundsAssumption DEF Types
  <2>2. awaits' \in [Ids -> SUBSET Ids]
    BY <1>1, <1>2, <1>4, Zenon DEF Types
  <2>3. QED
    BY <1>1, <1>2, <2>1, <2>2 DEF Types
<1>14. Joins'
  <2>1. \A id \in Ids : awaits'[id] = IF id = current THEN awaits[id] \cup {s} ELSE awaits[id]
    BY <1>1, <1>2, <1>4, ZenonT(40) DEF Types
  <2>2. current < s /\ next_id' = s + 1
    BY <1>1, <1>3, <1>4, <1>5
  <2>3. \A id \in Ids : awaits[id] \subseteq 1 .. s - 1 /\ (id >= s => awaits[id] = {})
    BY <1>2, <1>4 DEF Joins
  <2>4. ASSUME NEW id \in Ids
        PROVE  awaits'[id] \subseteq 1 .. next_id' - 1 /\ (id >= next_id' => awaits'[id] = {})
    <3>1. id \in Nat /\ current \in Nat
      BY <1>3, IdsFacts
    <3>2. \A w \in 1 .. s - 1 : w \in 1 .. next_id' - 1
      BY <1>4, <2>2
    <3>3. s \in 1 .. next_id' - 1
      BY <1>4, <1>11, <2>2
    <3>4. awaits'[id] \subseteq 1 .. next_id' - 1
      BY <2>1, <2>3, <3>2, <3>3, Zenon
    <3>5. id >= next_id' => id >= s /\ id # current
      BY <1>4, <2>2, <3>1
    <3>6. QED
      BY <2>1, <2>3, <3>4, <3>5, Zenon
  <2>5. ASSUME NEW id \in Alive', NEW w \in awaits'[id] \cap Alive' PROVE tasks'[w].parent = id
    <3>1. \A i \in Ids : s \notin awaits[i]
      BY <1>4, <2>3
    <3>2. id \in Ids
      BY <1>4, <1>9, InvFacts
    <3>3. CASE w = s
      BY <1>9, <2>1, <2>5, <3>1, <3>2, <3>3, ZenonT(40)
    <3>4. CASE w # s
      <4>1. w \in awaits[id] /\ w \in Alive
        <5>1. awaits'[id] = awaits[id] \/ awaits'[id] = awaits[id] \cup {s}
          BY <2>1, <3>2, ZenonT(40)
        <5>2. w \in awaits'[id] /\ w \in Alive \cup {s}
          BY <1>9, <2>5
        <5>3. QED
          BY <3>4, <5>1, <5>2
      <4>2. id # s
        BY <1>4, <2>3, <4>1
      <4>3. id \in Alive
        BY <1>9, <2>5, <4>2
      <4>4. QED
        BY <1>2, <1>9, <4>1, <4>3 DEF Joins
    <3>5. QED
      BY <3>3, <3>4
  <2>6. QED
    BY <2>4, <2>5 DEF Joins
<1>15. Schedule'
  BY <1>1, <1>2, <1>3, <1>9, <1>10 DEF Schedule
<1>16. Runs'
  <2>1. current \in Alive' /\ current \notin Waiting' /\ tasks'[current].last_child # 0 /\ tasks'[current].socket = FALSE
    BY <1>3, <1>9, <1>10, <1>11
  <2>2. ASSUME NEW x \in Alive', tasks'[x].parent = current
        PROVE  tasks'[x].last_child = 0 /\ tasks'[x].socket = FALSE /\ x \notin Waiting'
    <3>1. CASE x = s
      BY <1>9, <1>10, <1>11, <3>1
    <3>2. CASE x # s
      <4>1. x \in Alive /\ tasks[x].parent = current
        BY <1>9, <2>2, <3>2
      <4>2. x # current
        BY <1>2, <1>3, <4>1, IdsFacts DEF Parents, Alive
      <4>3. QED
        BY <1>9, <1>10, <1>12, <4>1, <4>2, ZenonT(40)
    <3>3. QED
      BY <3>1, <3>2, ZenonT(40)
  <2>3. QED
    BY <1>1, <2>1, <2>2, ZenonT(40) DEF Runs
<1>17. StackOrder'
  BY <1>1, <1>8, <1>9, StackOrderKept DEF Alive
<1>18. Remembered'
  <2> SUFFICES ASSUME NEW x \in Alive'
               PROVE  /\ tasks'[x].socket = TRUE => tasks'[x].last_child = 0
                      /\ tasks'[x].socket = FALSE /\ tasks'[x].last_child = 0 => x \in Waiting' \/ ToPush(x)'
    BY ZenonT(40) DEF Remembered
  <2>1. CASE x = s
    BY <1>1, <1>9, <2>1 DEF ToPush
  <2>2. CASE x = current
    BY <1>3, <1>9, <1>11, <2>2
  <2>3. CASE x \in Alive /\ x # current
    <3>1. tasks'[x].socket = tasks[x].socket /\ tasks'[x].last_child = tasks[x].last_child
          /\ tasks'[x].parent = tasks[x].parent
      BY <1>9, <2>3
    <3>2. ToPush(x) => ToPush(x)'
      BY <1>1, <3>1 DEF ToPush
    <3>3. QED
      BY <1>1, <1>2, <1>10, <2>3, <3>1, <3>2 DEF Remembered, Active
  <2>4. QED
    BY <1>9, <2>1, <2>2, <2>3, Zenon
<1>19. QED
  BY <1>8, <1>13, <1>14, <1>15, <1>16, <1>17, <1>18 DEF FInv

LEMMA ExtractTaskStep ==
  ASSUME FInv, ExtractTask
  PROVE  FInv'
<1>1. /\ Types /\ Joins /\ Schedule /\ Runs /\ StackOrder /\ (Active => Remembered) /\ Forest(tasks)
  BY InvFacts
<1>2. CASE shutdown
  <2>1. pc' = "cleanup" /\ UNCHANGED <<tasks, next_id, ready, stack, current, child, awaits, yields, shutdown>>
    BY <1>2 DEF ExtractTask
  <2>2. Waiting' = Waiting /\ InStack' = InStack /\ InReady' = InReady
    BY <2>1 DEF Waiting, InStack, InReady
  <2>3. Types' /\ Schedule' /\ Runs' /\ StackOrder'
    BY <1>1, <2>1, <2>2 DEF Types, Schedule, Runs, StackOrder, Alive
  <2>4. QED
    BY <2>1, <2>3, KeptTasks DEF FInv, Active
<1>3. CASE ~shutdown
  <2>1. /\ pc = "extract" /\ pc' = "extract" /\ next_id <= MaxId /\ next_id' = next_id + 1
        /\ UNCHANGED <<stack, current, child, awaits, yields, shutdown>>
        /\ tasks' = Insert(tasks, next_id, NewTask(0, 0)) /\ ready' = Append(ready, next_id)
    BY <1>3 DEF ExtractTask
  <2>2. PICK s \in Ids : s = next_id /\ s \in Nat
    BY <1>1, <2>1, BoundsAssumption DEF Types, Ids
  <2>3. s \notin Alive
    BY <1>1, <2>2 DEF Types
  <2>4. Forest(tasks') /\ RootAdded(tasks, tasks', s)
    BY <1>1, <2>1, <2>2, <2>3, RootTasks DEF Alive
  <2>5. /\ Alive' = Alive \cup {s} /\ \A x \in Alive : tasks'[x] = tasks[x]
        /\ tasks'[s].last_child = 0 /\ tasks'[s].socket = FALSE
    BY <2>4 DEF RootAdded, Alive
  <2>6. \A x \in Waiting : x \in Alive
    BY <1>1 DEF Schedule
  <2>7. s \notin InReady /\ ready \in Seq(Ids) /\ IsInjective(ready) /\ InStack = {} /\ InStack' = InStack
    BY <1>1, <2>1, <2>3, <2>6, SmallSequences DEF Waiting, Types, Schedule, InStack
  <2>8. ready' \in Seq(Ids) /\ IsInjective(ready') /\ InReady' = InReady \cup {s}
    BY <2>1, <2>2, <2>7, AppendFacts DEF InReady
  <2>9. Waiting' = Waiting \cup {s}
    BY <2>7, <2>8 DEF Waiting
  <2>10. Types'
    <3>1. next_id' = s + 1 /\ s \in 1 .. MaxId /\ \A x \in Alive : x \in 1 .. s - 1
      BY <1>1, <2>1, <2>2 DEF Types, Ids
    <3>2. next_id' \in 1 .. MaxId + 1
      BY <3>1, BoundsAssumption
    <3>3. s \in 1 .. next_id' - 1 /\ \A x \in 1 .. s - 1 : x \in 1 .. next_id' - 1
      BY <3>1, BoundsAssumption
    <3>4. Alive' \subseteq 1 .. next_id' - 1
      BY <2>5, <3>1, <3>3
    <3>5. QED
      BY <1>1, <2>1, <2>8, <3>2, <3>4 DEF Types
  <2>11. Joins'
    <3>1. \A id \in Ids : awaits[id] \subseteq 1 .. s - 1 /\ (id >= s => awaits[id] = {})
      BY <1>1, <2>2 DEF Joins
    <3>2. \A id \in Ids : awaits'[id] \subseteq 1 .. next_id' - 1 /\ (id >= next_id' => awaits'[id] = {})
      <4>1. \A w \in 1 .. s - 1 : w \in 1 .. next_id' - 1
        BY <2>1, <2>2
      <4>2. \A id \in Ids : id >= next_id' => id >= s
        BY <2>1, <2>2, IdsFacts
      <4>3. QED
        BY <2>1, <3>1, <4>1, <4>2
    <3>3. ASSUME NEW id \in Alive', NEW w \in awaits'[id] \cap Alive' PROVE tasks'[w].parent = id
      <4>1. id \in Ids /\ awaits'[id] = awaits[id]
        BY <2>1, <2>2, <2>5, InvFacts
      <4>2. w \in 1 .. s - 1 /\ w \in awaits[id]
        BY <3>1, <3>3, <4>1
      <4>3. w # s /\ id # s
        <5>1. w # s
          BY <2>2, <4>2
        <5>2. s >= s
          BY <2>2
        <5>3. QED
          BY <2>2, <3>1, <4>2, <5>1, <5>2
      <4>4. w \in Alive /\ id \in Alive
        BY <2>5, <3>3, <4>3
      <4>5. QED
        BY <1>1, <2>5, <4>2, <4>4 DEF Joins
    <3>4. QED
      BY <3>2, <3>3 DEF Joins
  <2>12. Schedule'
    <3>1. stack = <<>> /\ IsInjective(stack) /\ \A x \in InReady : x \in Alive /\ tasks[x].socket = FALSE
      BY <1>1, <2>1 DEF Schedule, Waiting
    <3>2. \A x \in InReady' : tasks'[x].socket = FALSE
      BY <2>5, <2>8, <3>1
    <3>3. \A x \in Waiting' : x \in Alive' /\ tasks'[x].last_child = 0
      BY <1>1, <2>5, <2>9 DEF Schedule
    <3>4. QED
      BY <2>1, <2>7, <2>8, <3>1, <3>2, <3>3 DEF Schedule
  <2>13. Runs' /\ StackOrder'
    BY <1>1, <2>1, SmallSequences DEF Runs, StackOrder, Schedule
  <2>14. Remembered'
    BY <1>1, <2>1, <2>5, <2>9, Zenon DEF Remembered, Active, ToPush
  <2>15. QED
    BY <2>4, <2>10, <2>11, <2>12, <2>13, <2>14 DEF FInv
<1>4. QED
  BY <1>2, <1>3

LEMMA FinishStep ==
  ASSUME FInv, Finish
  PROVE  FInv'
<1>1. /\ pc = "slice" /\ tasks[current].last_child = 0 /\ pc' = "exec" /\ current' = 0
      /\ UNCHANGED <<next_id, ready, child, awaits, yields, shutdown>>
      /\ tasks' = Unlinked(tasks, current)
      /\ stack' = stack \o ParentToExecute(tasks, current)
  BY DEF Finish
<1>2. /\ Types /\ Joins /\ Schedule /\ Runs /\ StackOrder /\ (Active => Remembered) /\ Forest(tasks)
      /\ Parents(tasks) /\ LastChildren(tasks)
  BY InvFacts
<1>3. PICK id \in Alive : id = current /\ id \notin Waiting /\ id # 0 /\ id \in Ids
  BY <1>1, <1>2, InvFacts, ZenonT(40) DEF Runs
<1>4. TaskMap(tasks') /\ RemovedFrom(tasks, tasks', id)
  BY <1>1, <1>2, <1>3, RemovedTasks DEF Alive
<1>5. Forest(tasks')
  BY <1>1, <1>2, <1>3, <1>4, RemoveForest DEF Alive
<1>6. /\ Alive' = Alive \ {id}
      /\ \A x \in Alive' : /\ tasks'[x].parent = tasks[x].parent /\ tasks'[x].socket = tasks[x].socket
                           /\ tasks'[x].last_child = IF tasks[x].last_child = id THEN tasks[id].prev_sibling
                                                     ELSE tasks[x].last_child
  BY <1>4 DEF RemovedFrom, Alive
<1>7. PICK p \in Nat : p = tasks[id].parent
  BY <1>3, InvFacts
<1> DEFINE Resumed == p # 0 /\ tasks[p].last_child = id /\ tasks[id].prev_sibling = 0
<1>8. \A x \in Alive : tasks[x].last_child = id => x = p
  BY <1>2, <1>3, <1>7 DEF LastChildren, Alive
<1>9. p # 0 => p \in Alive' /\ p \in Ids /\ p \in Alive
  BY <1>2, <1>3, <1>6, <1>7, InvFacts DEF Parents, Alive
<1>10. \A x \in Waiting : x \in Alive /\ x \in Alive' /\ tasks[x].last_child = 0
  BY <1>2, <1>3, <1>6 DEF Schedule
<1>11. stack \in Seq(Ids) /\ IsInjective(stack) /\ InReady' = InReady
  BY <1>1, <1>2 DEF Types, Schedule, InReady
<1>12. ~Resumed => stack' = stack
  BY <1>1, <1>3, <1>7, <1>11 DEF ParentToExecute
<1>13. Resumed => stack' = Append(stack, p)
  <2>1. Resumed => stack' = stack \o <<p>>
    BY <1>1, <1>3, <1>7 DEF ParentToExecute
  <2>2. p \in Ids => stack \o <<p>> = Append(stack, p)
    BY <1>11, AppendIsConcat
  <2>3. QED
    BY <1>9, <2>1, <2>2
<1>14. Resumed => p \notin Waiting /\ p \notin InStack /\ p \notin InReady
  <2>1. Resumed => p \notin Waiting
    BY <1>3, <1>10
  <2>2. QED
    BY <2>1 DEF Waiting
<1>15. Resumed => /\ stack' \in Seq(Ids) /\ InStack' = InStack \cup {p} /\ IsInjective(stack')
                  /\ \A i \in DOMAIN stack' : i = Len(stack) + 1 \/ i \in DOMAIN stack
                  /\ \A i \in DOMAIN stack : stack'[i] = stack[i] /\ i < Len(stack) + 1
                  /\ stack'[Len(stack) + 1] = p
  <2> SUFFICES ASSUME Resumed
               PROVE  /\ stack' \in Seq(Ids) /\ InStack' = InStack \cup {p} /\ IsInjective(stack')
                      /\ \A i \in DOMAIN stack' : i = Len(stack) + 1 \/ i \in DOMAIN stack
                      /\ \A i \in DOMAIN stack : stack'[i] = stack[i] /\ i < Len(stack) + 1
                      /\ stack'[Len(stack) + 1] = p
    OBVIOUS
  <2>1. p \in Ids /\ stack' = Append(stack, p) /\ p \notin Range(stack)
    BY <1>9, <1>13, <1>14 DEF InStack
  <2>2. QED
    BY <1>11, <2>1, AppendFacts DEF InStack
<1>16. /\ stack' \in Seq(Ids) /\ IsInjective(stack')
       /\ \A x \in InStack' : x \in InStack \/ (Resumed /\ x = p)
       /\ \A x \in InStack : x \in InStack'
  BY <1>11, <1>12, <1>15 DEF InStack
<1>17. /\ \A x \in Waiting' : x \in Waiting \/ (Resumed /\ x = p)
       /\ \A x \in Waiting : x \in Waiting'
       /\ Resumed => p \in Waiting'
  BY <1>11, <1>15, <1>16 DEF Waiting
<1>18. Types'
  BY <1>1, <1>2, <1>6, <1>16 DEF Types
<1>19. Joins'
  BY <1>1, <1>2, <1>6 DEF Joins
<1>20. Schedule'
  <2>1. InStack' \cap InReady' = {}
    BY <1>2, <1>11, <1>14, <1>16 DEF Schedule
  <2>2. ASSUME NEW x \in Waiting' PROVE x \in Alive' /\ tasks'[x].last_child = 0
    <3>1. CASE x \in Waiting
      <4>1. x \in Alive' /\ tasks[x].last_child # id
        BY <1>3, <1>10, <3>1
      <4>2. QED
        BY <1>6, <1>10, <3>1, <4>1
    <3>2. CASE Resumed /\ x = p
      BY <1>6, <1>9, <3>2
    <3>3. QED
      BY <1>17, <3>1, <3>2
  <2>3. IsInjective(ready)'
    BY <1>1, <1>2 DEF Schedule
  <2>4. QED
    BY <1>1, <1>16, <2>1, <2>2, <2>3 DEF Schedule
<1>21. Runs'
  BY <1>1 DEF Runs
<1>22. StackOrder'
  <2>1. \A x \in DOMAIN tasks' : x \in Alive => tasks'[x].parent = tasks[x].parent
    BY <1>6 DEF Alive
  <2>2. ASSUME NEW i \in DOMAIN stack, NEW j \in DOMAIN stack, i < j PROVE Before(tasks', stack[j], stack[i])
    <3>1. /\ stack[i] \in Alive /\ stack[j] \in Alive
          /\ stack[i] \in DOMAIN tasks' /\ stack[j] \in DOMAIN tasks'
      BY <1>5, <1>10, <2>1, StackKept DEF Alive
    <3>2. QED
      BY <1>2, <1>5, <2>1, <2>2, <3>1, StackKept DEF StackOrder
  <2>3. ASSUME NEW i \in DOMAIN stack, Resumed PROVE Before(tasks', p, stack[i])
    <3>1. stack[i] \in Alive /\ stack[i] \in DOMAIN tasks'
      BY <1>5, <1>10, <2>1, StackKept DEF Alive
    <3>2. Before(tasks, id, stack[i])
      BY <1>1, <1>2, <1>3 DEF StackOrder
    <3>3. \A a \in Ancestors(tasks, p) : a \in Ancestors(tasks, id)
      BY <1>2, <1>3, <1>7, <2>3, AncestorsOfChild DEF Alive
    <3>4. Before(tasks, p, stack[i])
      BY <3>2, <3>3 DEF Before
    <3>5. p \in Alive /\ p \in DOMAIN tasks'
      BY <1>9, <2>3 DEF Alive
    <3>6. QED
      BY <1>5, <2>1, <3>1, <3>4, <3>5, StackKept, ZenonT(40)
  <2>4. Len(stack) \in Nat /\ \A i \in DOMAIN stack : i \in Nat
    BY <1>11
  <2>5. ASSUME NEW i \in DOMAIN stack', NEW j \in DOMAIN stack', i < j
        PROVE  Before(tasks', stack'[j], stack'[i])
    <3>1. CASE ~Resumed
      BY <1>12, <2>2, <2>5, <3>1
    <3>2. CASE Resumed
      <4>1. i \in DOMAIN stack /\ stack'[i] = stack[i]
        BY <1>15, <2>4, <2>5, <3>2
      <4>2. CASE j \in DOMAIN stack
        BY <1>15, <2>2, <2>5, <3>2, <4>1, <4>2
      <4>3. CASE j = Len(stack) + 1
        BY <1>15, <2>3, <3>2, <4>1, <4>3
      <4>4. QED
        BY <1>15, <3>2, <4>2, <4>3
    <3>3. QED
      BY <3>1, <3>2
  <2>6. QED
    BY <1>1, <2>5 DEF StackOrder
<1>23. Remembered'
  <2> SUFFICES ASSUME NEW x \in Alive'
               PROVE  /\ tasks'[x].socket = TRUE => tasks'[x].last_child = 0
                      /\ tasks'[x].socket = FALSE /\ tasks'[x].last_child = 0 => x \in Waiting'
    BY ZenonT(40) DEF Remembered
  <2>1. x \in Alive /\ x # id
    BY <1>6
  <2>2. CASE tasks[x].last_child = id
    <3>1. x = p /\ tasks'[x].last_child = tasks[id].prev_sibling /\ x # 0
      BY <1>6, <1>8, <2>1, <2>2, InvFacts
    <3>2. tasks[x].socket # TRUE
      BY <1>1, <1>2, <1>3, <2>1, <2>2, ZenonT(40) DEF Remembered, Active
    <3>3. QED
      BY <1>6, <1>17, <2>2, <3>1, <3>2, ZenonT(40)
  <2>3. CASE tasks[x].last_child # id
    <3>1. tasks'[x].last_child = tasks[x].last_child /\ tasks'[x].socket = tasks[x].socket
      BY <1>6, <2>3
    <3>2. QED
      BY <1>1, <1>2, <1>3, <1>17, <2>1, <3>1 DEF Remembered, Active, ToPush
  <2>4. QED
    BY <2>2, <2>3, Zenon
<1>24. QED
  BY <1>5, <1>18, <1>19, <1>20, <1>21, <1>22, <1>23 DEF FInv

-------------------------------------------------------------------------------
(***************************************************************************)
(* The theorems.                                                           *)
(***************************************************************************)
LEMMA InitInv == Init => FInv
<1> SUFFICES ASSUME Init PROVE FInv
  OBVIOUS
<1> USE DEF Init
<1>1. Alive = {} /\ InStack = {} /\ InReady = {} /\ Waiting = {} /\ DOMAIN tasks = {}
  BY SmallSequences DEF Alive, InStack, InReady, Waiting
<1>2. Types
  <2>1. next_id \in 1 .. MaxId + 1 /\ yields \in 0 .. MaxYields
    BY BoundsAssumption
  <2>2. awaits \in [Ids -> SUBSET Ids]
    OBVIOUS
  <2>3. QED
    BY <1>1, <2>1, <2>2, SmallSequences, ZenonT(40) DEF Types
<1>3. Forest(tasks)
  BY <1>1 DEF Forest, TaskMap, Parents, Prevs, Nexts, LastChildren, Neighbours
<1>4. Joins /\ Remembered
  BY <1>1 DEF Joins, Remembered
<1>5. Schedule /\ Runs
  BY <1>1, SmallSequences DEF Schedule, Runs
<1>6. StackOrder
  BY SmallSequences DEF StackOrder
<1>7. QED
  BY <1>2, <1>3, <1>4, <1>5, <1>6 DEF FInv

LEMMA NextInv == FInv /\ [Next]_vars => FInv'
<1> SUFFICES ASSUME FInv, [Next]_vars PROVE FInv'
  OBVIOUS
<1>1. CASE EndSlice
  BY <1>1, YieldJoinStep, YieldSocketStep, YieldReadyStep, FinishStep DEF EndSlice
<1>2. CASE Slice /\ ~EndSlice
  BY <1>2, AddSubtaskStep, SocketStep DEF Slice
<1>3. CASE MainLoop
  BY <1>3, StartReadyStep, PopTaskStep, ResumeStep, PushChildStep, PushEndStep, AfterExecutionStep,
     ExtractTaskStep, ExtractEndStep, PollStep, CleanupStep DEF MainLoop
<1>4. CASE RequestShutdown \/ Done \/ UNCHANGED vars
  BY <1>4, ShutdownStep
<1>5. QED
  BY <1>1, <1>2, <1>3, <1>4 DEF Next

\* The invariant of the proofs holds in every reachable state.
THEOREM ForestInvariant == Spec => []FInv
<1>1. QED
  BY InitInv, NextInv, PTL DEF Spec

\* Every variable of a runner thread keeps its type: identifiers come from the
\* counter, and the map holds records of tasks under identifiers already given.
THEOREM TasksTypeCorrect == Spec => []TypeOK
<1>1. FInv => TypeOK
  <2> SUFFICES ASSUME FInv PROVE TypeOK
    OBVIOUS
  <2>1. Types /\ TaskMap(tasks)
    BY DEF FInv, Forest
  <2>2. QED
    BY <2>1 DEF TypeOK, Types, TaskMap, Alive
<1>2. QED
  BY <1>1, ForestInvariant, PTL

\* add_current_task_subtask and the removal of a finished task keep the children
\* of every task in one doubly linked list that ends at its last_child.
THEOREM SiblingListsKept == Spec => []SiblingLists
<1>1. FInv => SiblingLists
  <2> SUFFICES ASSUME FInv PROVE SiblingLists
    OBVIOUS
  <2>1. Parents(tasks) /\ Prevs(tasks) /\ Nexts(tasks) /\ LastChildren(tasks)
    BY InvFacts, Zenon
  <2>2. QED
    BY <2>1 DEF SiblingLists, Parents, Prevs, Nexts, LastChildren, Alive
<1>2. QED
  BY <1>1, ForestInvariant, PTL

\* The tasks that are going to be executed: the stack, the ready list and the
\* running task.
LEMMA ScheduledFacts ==
  ASSUME FInv
  PROVE  /\ \A x : x \in Range(Scheduled) <=> x \in Waiting \/ (pc \in {"check", "slice"} /\ x = current)
         /\ IsInjective(Scheduled)
<1>1. Types /\ Schedule /\ Runs
  BY InvFacts
<1>2. /\ stack \in Seq(Ids) /\ ready \in Seq(Ids) /\ IsInjective(stack) /\ IsInjective(ready)
      /\ Range(stack) \cap Range(ready) = {} /\ Waiting = Range(stack) \cup Range(ready)
  BY <1>1 DEF Types, Schedule, Waiting, InStack, InReady
<1>3. PICK w : w = stack \o ready
  BY Zenon
<1>4. w \in Seq(Ids) /\ Range(w) = Waiting /\ IsInjective(w)
  BY <1>2, <1>3, ConcatFacts
<1>5. PICK r : r = IF pc \in {"check", "slice"} THEN <<current>> ELSE <<>>
  BY ZenonT(40)
<1>6. /\ r \in Seq(Ids) /\ IsInjective(r)
      /\ \A x : x \in Range(r) <=> pc \in {"check", "slice"} /\ x = current
  <2>1. CASE pc \in {"check", "slice"}
    <3>1. current \in Ids
      BY <1>1, <2>1, InvFacts, ZenonT(40) DEF Runs
    <3>2. r \in Seq(Ids) /\ IsInjective(r) /\ Range(r) = {current}
      BY <1>5, <2>1, <3>1, SmallSequences
    <3>3. QED
      BY <2>1, <3>2
  <2>2. CASE pc \notin {"check", "slice"}
    BY <1>5, <2>2, SmallSequences
  <2>3. QED
    BY <2>1, <2>2
<1>7. Range(w) \cap Range(r) = {}
  BY <1>1, <1>4, <1>6 DEF Runs
<1>8. Scheduled = w \o r
  BY <1>3, <1>5 DEF Scheduled
<1>9. Range(w \o r) = Range(w) \cup Range(r) /\ IsInjective(w \o r)
  BY <1>4, <1>6, <1>7, ConcatFacts
<1>10. QED
  BY <1>4, <1>6, <1>8, <1>9

\* No task is executed twice, after it was removed or while it has children: the
\* runner never meets "A task scheduled for execution was removed!".
THEOREM ScheduledAreExecutable == Spec => []ScheduledExecutable
<1>1. FInv => ScheduledExecutable
  <2> SUFFICES ASSUME FInv
               PROVE  /\ \A i \in DOMAIN Scheduled : Scheduled[i] \in Alive /\ tasks[Scheduled[i]].last_child = 0
                      /\ IsInjective(Scheduled)
    BY DEF ScheduledExecutable
  <2>1. \A i \in DOMAIN Scheduled : Scheduled[i] \in Range(Scheduled)
    BY DEF Range
  <2>2. \A x \in Range(Scheduled) : x \in Alive /\ tasks[x].last_child = 0
    BY ScheduledFacts, InvFacts, Zenon DEF Schedule, Runs
  <2>3. QED
    BY <2>1, <2>2, ScheduledFacts
<1>2. QED
  BY <1>1, ForestInvariant, PTL

\* Every task is scheduled, waits for its socket, has children it waits for or
\* is about to be pushed by the task that joined it.
THEOREM TasksAreRemembered == Spec => []NoTaskForgotten
<1>1. FInv => NoTaskForgotten
  <2> SUFFICES ASSUME FInv, Active, NEW id \in Alive
               PROVE  /\ ~tasks[id].socket /\ tasks[id].last_child = 0 =>
                           \/ id \in Range(Scheduled)
                           \/ pc = "join" /\ tasks[id].parent = current
                           \/ pc = "push" /\ tasks[id].parent = current /\ id <= child
                      /\ ~(tasks[id].socket /\ tasks[id].last_child # 0)
    BY DEF NoTaskForgotten, Active
  <2>1. Remembered /\ tasks[id].socket \in BOOLEAN
    BY InvFacts
  <2>2. CASE tasks[id].socket = TRUE
    BY <2>1, <2>2 DEF Remembered
  <2>3. CASE tasks[id].socket = FALSE /\ tasks[id].last_child = 0
    <3>1. \/ id \in Waiting
          \/ pc \in {"check", "slice"} /\ id = current
          \/ ToPush(id)
      BY <2>1, <2>3 DEF Remembered
    <3>2. ToPush(id) => \/ pc = "join" /\ tasks[id].parent = current
                        \/ pc = "push" /\ tasks[id].parent = current /\ id <= child
      BY DEF ToPush
    <3>3. ~ToPush(id) => id \in Range(Scheduled)
      BY <3>1, ScheduledFacts
    <3>4. QED
      BY <2>3, <3>2, <3>3
  <2>4. CASE tasks[id].socket = FALSE /\ tasks[id].last_child # 0
    BY <2>4
  <2>5. QED
    BY <2>1, <2>2, <2>3, <2>4, ZenonT(40)
<1>2. QED
  BY <1>1, ForestInvariant, PTL

\* The assertion of join_subtasks after its yield holds: a task is resumed only
\* when all the subtasks it joined are done.
THEOREM JoinsAreCompleted == Spec => []JoinsCompleted
<1>1. FInv => JoinsCompleted
  <2> SUFFICES ASSUME FInv PROVE JoinsCompleted
    OBVIOUS
  <2>1. Joins /\ Runs /\ Parents(tasks)
    BY InvFacts
  <2>2. ASSUME pc = "check", NEW s \in awaits[current], s \in Alive PROVE FALSE
    <3>1. current \in Alive /\ tasks[current].last_child = 0 /\ current # 0
      BY <2>1, <2>2, InvFacts, ZenonT(40) DEF Runs
    <3>2. tasks[s].parent = current
      BY <2>1, <2>2, <3>1 DEF Joins
    <3>3. QED
      BY <2>1, <2>2, <3>1, <3>2 DEF Parents, Alive
  <2>3. pc = "check" => awaits[current] \cap Alive = {}
    BY <2>2
  <2>4. QED
    BY <2>1, <2>3 DEF JoinsCompleted, Joins
<1>2. QED
  BY <1>1, ForestInvariant, PTL

\* Subtasks are executed in the order they were joined: the stack never holds
\* a younger sibling above an older one.
THEOREM ChildrenKeepOrder == Spec => []ChildrenInOrder
<1>1. FInv => ChildrenInOrder
  <2> SUFFICES ASSUME FInv, NEW i \in DOMAIN stack, NEW j \in DOMAIN stack, i < j,
                      stack[i] \in Alive, stack[j] \in Alive,
                      tasks[stack[i]].parent = tasks[stack[j]].parent, tasks[stack[i]].parent # 0
               PROVE  stack[j] < stack[i]
    BY DEF ChildrenInOrder
  <2>1. StackOrder /\ Schedule /\ Forest(tasks) /\ Types
    BY InvFacts
  <2>2. stack[j] \in Ancestors(tasks, stack[j])
    BY <2>1, AncestorFacts DEF Alive
  <2>3. Before(tasks, stack[j], stack[i])
    BY <2>1 DEF StackOrder
  <2>4. stack[j] # stack[i]
    <3>1. i # j
      <4>1. i \in Nat /\ j \in Nat
        BY <2>1 DEF Types
      <4>2. QED
        BY <4>1
    <3>2. QED
      BY <2>1, <3>1 DEF Schedule, IsInjective
  <2>5. QED
    BY <2>2, <2>3, <2>4 DEF Before
<1>2. QED
  BY <1>1, ForestInvariant, PTL

===============================================================================
