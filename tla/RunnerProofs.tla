----------------------------- MODULE RunnerProofs -----------------------------
(***************************************************************************)
(* Proofs about Runner, for any number of threads, clients and tasks: the  *)
(* wakers stay consistent, no wakeup is lost, and every variable keeps its *)
(* type.                                                                   *)
(***************************************************************************)
EXTENDS Runner, SequenceTheorems, FiniteSetTheorems, TLAPS

\* The provers to try, in this order, with their time limits in seconds.
USE SMTT(30), ZenonT(30), SMTT(40), SMTT(50), SMTT(60)

-------------------------------------------------------------------------------
(***************************************************************************)
(* The inductive invariant.                                                *)
(***************************************************************************)
ThreadPcs == {"exec", "run", "push", "swap", "write", "check", "lock", "take",
              "poll", "reset", "read", "cleanup", "exited"}

\* Where each kind of caller can be, and the types the wakers need.
Locations ==
  /\ pc \in [Callers -> ThreadPcs \cup {"idle", "alive", "join", "gone"}]
  /\ \A t \in Threads : pc[t] \in ThreadPcs
  /\ waking \in [Callers -> Threads \cup {0}]
  /\ \A c \in Callers : pc[c] \in {"swap", "write"} => waking[c] \in Threads
  /\ flag \in [Threads -> BOOLEAN]
  /\ pipe \in [Threads -> Nat]
  /\ sleep \in [Threads -> BOOLEAN]
  /\ shutdown \in BOOLEAN
  /\ in_stack \in Seq(Tasks) /\ out_stack \in Seq(Tasks)
  /\ fresh \subseteq Tasks
  /\ arg \in [Callers -> Tasks \cup {NoTask}]
  /\ \A c \in Callers : pc[c] = "push" => arg[c] \in Tasks

\* ResetWake is called only by a thread that saw a byte in its own pipe.
ResetSeesByte == \A t \in Threads : pc[t] = "reset" => pipe[t] > 0

Signalled(t) == pipe[t] > 0 \/ \E c \in Callers : WillWake(c, t)

\* A thread that did not see the shutdown before going to poll is signalled.
ShutdownSignalled ==
  \A t \in Threads : pc[t] \in {"lock", "take", "poll"} /\ shutdown => Signalled(t)

\* A thread that goes to sleep while the queue holds a task is signalled.
QueueSignalled ==
  \A t \in Threads : pc[t] = "poll" /\ sleep[t] /\ ~IsEmpty => Signalled(t)

IInv ==
  /\ Locations
  /\ WakerConsistent
  /\ ResetSeesByte
  /\ ShutdownSignalled
  /\ QueueSignalled

-------------------------------------------------------------------------------
(***************************************************************************)
(* Facts about the constants and the queue.                                *)
(***************************************************************************)
\* The clamp of the constructor leaves at least one thread, numbered from 1.
LEMMA ThreadsFacts ==
  /\ NumThreadsLimited \in Nat \ {0}
  /\ Threads = 1 .. NumThreadsLimited
  /\ Threads \subseteq Callers
  /\ Owner \in Callers
  /\ Clients \subseteq Callers
  /\ Owner \notin Threads
  /\ Clients \cap Threads = {}
BY ConstantsAssumption DEF NumThreadsLimited, Threads, Callers

\* Popping from an empty Queue leaves it empty, and a Queue holds tasks only.
LEMMA TryPopFacts ==
  ASSUME in_stack \in Seq(Tasks), out_stack \in Seq(Tasks), TryPop
  PROVE  /\ in_stack' \in Seq(Tasks)
         /\ out_stack' \in Seq(Tasks)
         /\ IsEmpty => IsEmpty'
<1> DEFINE r == Refilled
<1>1. r \in Seq(Tasks)
  <2>1. QueueReverse(in_stack) \in Seq(Tasks)
    BY DEF QueueReverse
  <2>2. QED
    BY <2>1 DEF Refilled
<1>2. Len(r) - 1 \in Int /\ Len(r) \in Nat
  BY <1>1
<1>3. SubSeq(r, 1, Len(r) - 1) \in Seq(Tasks)
  BY <1>1, <1>2
<1>4. IsEmpty => r = <<>>
  BY DEF IsEmpty, Refilled, QueueReverse
<1>5. r = <<>> => SubSeq(r, 1, Len(r) - 1) = <<>>
  OBVIOUS
<1>6. QED
  BY <1>3, <1>4, <1>5 DEF TryPop, IsEmpty

-------------------------------------------------------------------------------
(***************************************************************************)
(* A step that neither enters nor leaves a call of Wake or ResetWake.      *)
(***************************************************************************)
QuietPcs == (ThreadPcs \cup {"idle", "alive", "join", "gone"}) \ {"swap", "write", "read"}

\* Such a step keeps the wakers consistent and every signal a thread has.
LEMMA QuietStep ==
  ASSUME Locations, WakerConsistent,
         NEW p \in Callers, NEW x \in QuietPcs,
         pc[p] \in QuietPcs, pc' = [pc EXCEPT ![p] = x],
         UNCHANGED <<flag, pipe, waking>>
  PROVE  /\ WakerConsistent'
         /\ \A t \in Threads : Signalled(t)' <=> Signalled(t)
<1>1. \A c \in Callers, t \in Threads : OwesByte(c, t)' <=> OwesByte(c, t)
  BY DEF OwesByte, Locations, QuietPcs
<1>2. \A c \in Callers, t \in Threads : WillWake(c, t)' <=> WillWake(c, t)
  BY DEF WillWake, Locations, QuietPcs
<1>3. \A t \in Threads : pc'[t] = "read" <=> pc[t] = "read"
  BY ThreadsFacts DEF Locations, QuietPcs
<1>4. WakerConsistent'
  BY <1>1, <1>3 DEF WakerConsistent
<1>5. QED
  BY <1>2, <1>4 DEF Signalled

\* The invariant survives such a step when nobody comes to sleep or to the
\* queue's lock against the flag and the queue it has read.
LEMMA QuietInv ==
  ASSUME IInv, Locations',
         NEW p \in Callers, NEW x \in QuietPcs,
         pc[p] \in QuietPcs, pc' = [pc EXCEPT ![p] = x],
         UNCHANGED <<flag, pipe, waking, shutdown>>,
         p \in Threads /\ x = "reset" => pipe[p] > 0,
         p \in Threads /\ x = "lock" => ~shutdown,
         p \in Threads /\ x \in {"take", "poll"} => pc[p] \in {"lock", "take", "poll"},
         \A t \in Threads : pc'[t] = "poll" /\ sleep'[t] /\ ~IsEmpty'
                              => pc[t] = "poll" /\ sleep[t] /\ ~IsEmpty
  PROVE  IInv'
<1>1. Locations /\ WakerConsistent /\ ResetSeesByte /\ ShutdownSignalled /\ QueueSignalled
  BY DEF IInv
<1>2. /\ WakerConsistent'
      /\ \A t \in Threads : Signalled(t)' <=> Signalled(t)
  BY <1>1, QuietStep, ZenonT(40)
<1>3. \A t \in Threads : pc'[t] = IF t = p THEN x ELSE pc[t]
  BY <1>1, ThreadsFacts DEF Locations
<1>4. ResetSeesByte'
  BY <1>1, <1>3 DEF ResetSeesByte
<1>5. ShutdownSignalled'
  BY <1>1, <1>2, <1>3 DEF ShutdownSignalled
<1>6. QueueSignalled'
  BY <1>1, <1>2 DEF QueueSignalled
<1>7. QED
  BY <1>2, <1>4, <1>5, <1>6 DEF IInv

-------------------------------------------------------------------------------
(***************************************************************************)
(* The wakers' own steps.                                                  *)
(***************************************************************************)
\* The step of a caller's loop to its next waker leaves only the waker it was at.
LEMMA NextWakerFacts ==
  ASSUME Locations, NEW c \in Callers, pc[c] \in {"swap", "write"}, NextWaker(c)
  PROVE  /\ pc' \in [Callers -> ThreadPcs \cup {"idle", "alive", "join", "gone"}]
         /\ waking' \in [Callers -> Threads \cup {0}]
         /\ \A d \in Callers : d # c => pc'[d] = pc[d] /\ waking'[d] = waking[d]
         /\ pc'[c] \in {"swap", "run", "join", "idle"}
         /\ c \in Threads => pc'[c] \in {"swap", "run"}
         /\ pc'[c] = "swap" => waking'[c] \in Threads
         /\ \A t \in Threads : t # waking[c] /\ WillWake(c, t) => WillWake(c, t)'
<1>1. waking[c] \in Threads
  BY DEF Locations
<1>2. CASE waking[c] < NumThreadsLimited
  <2>1. waking' = [waking EXCEPT ![c] = waking[c] + 1] /\ pc' = [pc EXCEPT ![c] = "swap"]
    BY <1>2 DEF NextWaker
  <2>2. waking[c] + 1 \in Threads
    BY <1>1, <1>2, ThreadsFacts
  <2>3. \A t \in Threads : t # waking[c] /\ waking[c] <= t => waking[c] + 1 <= t
    BY <1>1, ThreadsFacts
  <2>4. QED
    BY <2>1, <2>2, <2>3 DEF Locations, WillWake, ThreadPcs
<1>3. CASE ~(waking[c] < NumThreadsLimited)
  <2>1. waking' = [waking EXCEPT ![c] = 0] /\ pc' = [pc EXCEPT ![c] = AfterWakes(c)]
    BY <1>3 DEF NextWaker
  <2>2. \A t \in Threads : t # waking[c] => ~ (waking[c] <= t)
    BY <1>1, <1>3, ThreadsFacts
  <2>3. AfterWakes(c) \in {"run", "join", "idle"} /\ (c \in Threads => AfterWakes(c) = "run")
    BY DEF AfterWakes
  <2>4. QED
    BY <2>1, <2>2, <2>3 DEF Locations, WillWake, ThreadPcs
<1>4. QED
  BY <1>2, <1>3

\* The swap of Wake makes the caller owe a byte, or finds one under way.
LEMMA WakeSwapInv == ASSUME IInv, NEW c \in Callers, WakeSwap(c) PROVE IInv'
<1> DEFINE u == waking[c]
<1>1. Locations /\ WakerConsistent /\ ResetSeesByte /\ ShutdownSignalled /\ QueueSignalled
  BY DEF IInv
<1>2. /\ pc[c] = "swap" /\ u \in Threads
      /\ flag' = [flag EXCEPT ![u] = TRUE]
      /\ UNCHANGED <<pipe, shutdown, sleep, in_stack, out_stack, arg, fresh>>
  BY <1>1 DEF WakeSwap, Locations, queue_vars
<1>3. CASE flag[u]
  <2>1. NextWaker(c) /\ flag' = flag
    BY <1>1, <1>2, <1>3 DEF WakeSwap, Locations
  <2>a. /\ pc' \in [Callers -> ThreadPcs \cup {"idle", "alive", "join", "gone"}]
        /\ waking' \in [Callers -> Threads \cup {0}]
        /\ \A d \in Callers : d # c => pc'[d] = pc[d] /\ waking'[d] = waking[d]
        /\ pc'[c] \in {"swap", "run", "join", "idle"}
        /\ c \in Threads => pc'[c] \in {"swap", "run"}
        /\ pc'[c] = "swap" => waking'[c] \in Threads
        /\ \A t \in Threads : t # u /\ WillWake(c, t) => WillWake(c, t)'
    BY <1>1, <1>2, <2>1, NextWakerFacts
  <2>2. Locations'
    <3>1. \A t \in Threads : pc'[t] \in ThreadPcs
      BY <1>1, <2>a, ThreadsFacts DEF Locations, ThreadPcs
    <3>2. \A d \in Callers : pc'[d] \in {"swap", "write"} => waking'[d] \in Threads
      BY <1>1, <2>a DEF Locations
    <3>3. \A d \in Callers : pc'[d] = "push" => arg'[d] \in Tasks
      BY <1>1, <1>2, <2>a DEF Locations
    <3>4. QED
      BY <1>1, <1>2, <2>1, <2>a, <3>1, <3>2, <3>3 DEF Locations
  <2>3. \A d \in Callers, t \in Threads : OwesByte(d, t)' <=> OwesByte(d, t)
    BY <1>1, <1>2, <2>a DEF OwesByte
  <2>4. \A t \in Threads : pc'[t] = pc[t] \/ (t = c /\ pc'[t] \in {"swap", "run"})
    BY <2>a, ThreadsFacts
  <2>5. WakerConsistent'
    BY <1>1, <1>2, <2>1, <2>3, <2>4 DEF WakerConsistent
  <2>6. ASSUME NEW t \in Threads, Signalled(t), pc[t] # "read" PROVE Signalled(t)'
    <3>1. CASE pipe[t] > 0
      BY <3>1, <1>2 DEF Signalled
    <3>2. CASE \E d \in Callers : WillWake(d, t) /\ d # c
      BY <3>2, <1>1, <1>2, <2>a DEF Signalled, WillWake
    <3>3. CASE WillWake(c, t) /\ t # u
      BY <3>3, <2>a DEF Signalled
    <3>4. CASE t = u
      <4>1. CASE \E d \in Callers : OwesByte(d, t)
        <5>1. PICK d \in Callers : OwesByte(d, t)
          BY <4>1
        <5>2. d # c /\ WillWake(d, t)
          BY <5>1, <1>2, ThreadsFacts DEF OwesByte, WillWake
        <5>3. QED
          BY <3>2, <5>2
      <4>2. CASE ~ \E d \in Callers : OwesByte(d, t)
        <5>1. pipe[t] = (IF pc[t] = "read" THEN 1 ELSE 0) + 1
          BY <4>2, <3>4, <1>1, <1>3 DEF WakerConsistent
        <5>2. QED
          BY <5>1, <2>6, <1>2 DEF Signalled
      <4>3. QED
        BY <4>1, <4>2
    <3>5. QED
      BY <2>6, <3>1, <3>2, <3>3, <3>4 DEF Signalled
  <2>7. ResetSeesByte' /\ ShutdownSignalled' /\ QueueSignalled'
    BY <1>1, <1>2, <2>4, <2>6 DEF ResetSeesByte, ShutdownSignalled, QueueSignalled, IsEmpty
  <2>8. QED
    BY <2>2, <2>5, <2>7 DEF IInv
<1>4. CASE ~flag[u]
  <2>1. pc' = [pc EXCEPT ![c] = "write"] /\ waking' = waking
    BY <1>2, <1>4 DEF WakeSwap
  <2>2. Locations'
    BY <1>1, <1>2, <2>1 DEF Locations, ThreadPcs
  <2>3. \A d \in Callers, t \in Threads :
          OwesByte(d, t)' <=> OwesByte(d, t) \/ (d = c /\ t = u)
    BY <1>1, <1>2, <2>1 DEF OwesByte, Locations
  <2>4. \A t \in Threads : pc'[t] = pc[t] \/ (t = c /\ pc'[t] = "write")
    BY <1>1, <2>1, ThreadsFacts DEF Locations
  <2>5. WakerConsistent'
    BY <1>1, <1>2, <1>4, <2>3, <2>4 DEF WakerConsistent, Locations
  <2>6. \A t \in Threads : Signalled(t) => Signalled(t)'
    BY <1>1, <1>2, <2>1 DEF Signalled, WillWake, Locations
  <2>7. ResetSeesByte' /\ ShutdownSignalled' /\ QueueSignalled'
    BY <1>1, <1>2, <2>4, <2>6 DEF ResetSeesByte, ShutdownSignalled, QueueSignalled, IsEmpty
  <2>8. QED
    BY <2>2, <2>5, <2>7 DEF IInv
<1>5. QED
  BY <1>3, <1>4

\* The write of Wake pays the byte the caller owes.
LEMMA WakeWriteInv == ASSUME IInv, NEW c \in Callers, WakeWrite(c) PROVE IInv'
<1>1. Locations /\ WakerConsistent /\ ResetSeesByte /\ ShutdownSignalled /\ QueueSignalled
  BY DEF IInv
<1>u. PICK u \in Threads : u = waking[c]
  BY <1>1 DEF WakeWrite, Locations
<1>2. /\ pc[c] = "write" /\ u = waking[c]
      /\ pipe' = [pipe EXCEPT ![u] = @ + 1]
      /\ NextWaker(c)
      /\ UNCHANGED <<flag, shutdown, sleep, in_stack, out_stack, arg, fresh>>
  BY <1>1, <1>u DEF WakeWrite, queue_vars
<1>3. /\ pc' \in [Callers -> ThreadPcs \cup {"idle", "alive", "join", "gone"}]
      /\ waking' \in [Callers -> Threads \cup {0}]
      /\ \A d \in Callers : d # c => pc'[d] = pc[d] /\ waking'[d] = waking[d]
      /\ pc'[c] \in {"swap", "run", "join", "idle"}
      /\ c \in Threads => pc'[c] \in {"swap", "run"}
      /\ pc'[c] = "swap" => waking'[c] \in Threads
      /\ \A t \in Threads : t # u /\ WillWake(c, t) => WillWake(c, t)'
  BY <1>1, <1>2, NextWakerFacts
<1>4. Locations'
  <2>1. \A t \in Threads : pc'[t] \in ThreadPcs
    BY <1>1, <1>3, ThreadsFacts DEF Locations, ThreadPcs
  <2>2. \A d \in Callers : pc'[d] \in {"swap", "write"} => waking'[d] \in Threads
    BY <1>1, <1>3 DEF Locations
  <2>3. \A d \in Callers : pc'[d] = "push" => arg'[d] \in Tasks
    BY <1>1, <1>2, <1>3 DEF Locations
  <2>4. pipe' \in [Threads -> Nat]
    BY <1>1, <1>2 DEF Locations
  <2>5. QED
    BY <1>1, <1>2, <1>3, <2>1, <2>2, <2>3, <2>4 DEF Locations
<1>5. \A t \in Threads : pc'[t] = pc[t] \/ (t = c /\ pc'[t] \in {"swap", "run"})
  BY <1>3, ThreadsFacts
<1>6. \A t \in Threads : pc'[t] = "read" <=> pc[t] = "read"
  BY <1>2, <1>5
<1>7. WakerConsistent'
  <2>1. \A d \in Callers, t \in Threads : OwesByte(d, t)' <=> OwesByte(d, t) /\ d # c
    BY <1>1, <1>2, <1>3 DEF OwesByte
  <2>2. OwesByte(c, u) /\ flag[u] /\ pipe[u] = IF pc[u] = "read" THEN 1 ELSE 0
    BY <1>1, <1>2 DEF OwesByte, WakerConsistent
  <2>3. \A d \in Callers : ~ OwesByte(d, u)'
    <3>1. \A d \in Callers : OwesByte(d, u) => d = c
      BY <1>1, <1>2, <2>2 DEF WakerConsistent
    <3>2. QED
      BY <1>2, <2>1, <3>1
  <2>4. pipe'[u] = (IF pc'[u] = "read" THEN 1 ELSE 0) + 1
    BY <1>1, <1>2, <1>6, <2>2 DEF Locations
  <2>5. \A t \in Threads : t # u => pipe'[t] = pipe[t]
    BY <1>1, <1>2 DEF Locations
  <2>6. \A d \in Callers, t \in Threads : t # u => (OwesByte(d, t)' <=> OwesByte(d, t))
    BY <1>2, <2>1 DEF OwesByte
  <2>7. QED
    <3> SUFFICES ASSUME NEW t \in Threads
                 PROVE  LET old == IF pc'[t] = "read" THEN 1 ELSE 0 IN
                          /\ \A d, e \in Callers : OwesByte(d, t)' /\ OwesByte(e, t)' => d = e
                          /\ IF flag'[t] /\ ~ \E d \in Callers : OwesByte(d, t)'
                             THEN pipe'[t] = old + 1 ELSE pipe'[t] = old
                          /\ (\E d \in Callers : OwesByte(d, t)') => flag'[t]
      BY DEF WakerConsistent
    <3>1. CASE t = u
      BY <3>1, <1>2, <2>2, <2>3, <2>4
    <3>2. CASE t # u
      BY <3>2, <1>1, <1>2, <1>6, <2>5, <2>6 DEF WakerConsistent
    <3>3. QED
      BY <3>1, <3>2
<1>8. ASSUME NEW t \in Threads, Signalled(t) PROVE Signalled(t)'
  <2>1. CASE pipe[t] > 0 \/ t = u
    BY <2>1, <1>1, <1>2 DEF Signalled, Locations
  <2>2. CASE t # u /\ \E d \in Callers : WillWake(d, t)
    BY <2>2, <1>3 DEF Signalled, WillWake
  <2>3. QED
    BY <1>8, <2>1, <2>2 DEF Signalled
<1>9. ResetSeesByte'
  <2>1. \A t \in Threads : pipe'[t] >= pipe[t] /\ pipe[t] \in Nat /\ pipe'[t] \in Nat
    BY <1>1, <1>2 DEF Locations
  <2>2. QED
    BY <1>1, <1>5, <2>1 DEF ResetSeesByte
<1>10. ShutdownSignalled' /\ QueueSignalled'
  BY <1>1, <1>2, <1>5, <1>8 DEF ShutdownSignalled, QueueSignalled, IsEmpty
<1>11. QED
  BY <1>4, <1>7, <1>9, <1>10 DEF IInv

\* The swap of ResetWake clears the flag of a thread that is awake.
LEMMA ResetSwapInv == ASSUME IInv, NEW u \in Threads, ResetSwap(u) PROVE IInv'
<1>1. Locations /\ WakerConsistent /\ ResetSeesByte /\ ShutdownSignalled /\ QueueSignalled
  BY DEF IInv
<1>2. /\ pc[u] = "reset" /\ pipe[u] > 0
      /\ flag' = [flag EXCEPT ![u] = FALSE]
      /\ UNCHANGED <<pipe, waking, shutdown, sleep, in_stack, out_stack, arg, fresh>>
  BY <1>1 DEF ResetSwap, ResetSeesByte, queue_vars
<1>3. flag[u] /\ pipe[u] = 1 /\ ~ \E c \in Callers : OwesByte(c, u)
  BY <1>1, <1>2 DEF WakerConsistent, Locations
<1>4. pc' = [pc EXCEPT ![u] = "read"]
  BY <1>3 DEF ResetSwap
<1>5. Locations'
  BY <1>1, <1>2, <1>4, ThreadsFacts DEF Locations, ThreadPcs
<1>6. \A d \in Callers, t \in Threads : OwesByte(d, t)' <=> OwesByte(d, t)
  BY <1>1, <1>2, <1>4, ThreadsFacts DEF OwesByte, Locations
<1>7. \A t \in Threads : pc'[t] = IF t = u THEN "read" ELSE pc[t]
  BY <1>1, <1>4, ThreadsFacts DEF Locations
<1>8. WakerConsistent'
  BY <1>1, <1>2, <1>3, <1>6, <1>7 DEF WakerConsistent, Locations
<1>9. \A t \in Threads : Signalled(t) => Signalled(t)'
  BY <1>1, <1>2, <1>4, ThreadsFacts DEF Signalled, WillWake, Locations
<1>10. ResetSeesByte' /\ ShutdownSignalled' /\ QueueSignalled'
  BY <1>1, <1>2, <1>7, <1>9 DEF ResetSeesByte, ShutdownSignalled, QueueSignalled, IsEmpty
<1>11. QED
  BY <1>5, <1>8, <1>10 DEF IInv

\* The read of ResetWake takes the byte that belongs to the cleared flag.
LEMMA ResetReadInv == ASSUME IInv, NEW u \in Threads, ResetRead(u) PROVE IInv'
<1>1. Locations /\ WakerConsistent /\ ResetSeesByte /\ ShutdownSignalled /\ QueueSignalled
  BY DEF IInv
<1>2. /\ pc[u] = "read" /\ pc' = [pc EXCEPT ![u] = "exec"]
      /\ pipe' = [pipe EXCEPT ![u] = IF @ > 0 THEN @ - 1 ELSE 0]
      /\ UNCHANGED <<flag, waking, shutdown, sleep, in_stack, out_stack, arg, fresh>>
  BY <1>1 DEF ResetRead, queue_vars
<1>3. pipe[u] > 0
  <2>1. pipe[u] = 1 + 1 \/ pipe[u] = 1
    BY <1>1, <1>2 DEF WakerConsistent
  <2>2. QED
    BY <2>1
<1>4. Locations'
  BY <1>1, <1>2, <1>3, ThreadsFacts DEF Locations, ThreadPcs
<1>5. \A d \in Callers, t \in Threads : OwesByte(d, t)' <=> OwesByte(d, t)
  BY <1>1, <1>2, ThreadsFacts DEF OwesByte, Locations
<1>6. \A t \in Threads : pc'[t] = IF t = u THEN "exec" ELSE pc[t]
  BY <1>1, <1>2, ThreadsFacts DEF Locations
<1>7. \A t \in Threads : pipe'[t] = IF t = u THEN pipe[u] - 1 ELSE pipe[t]
  BY <1>1, <1>2, <1>3 DEF Locations
<1>8. WakerConsistent'
  <2>1. /\ \A c, d \in Callers : OwesByte(c, u)' /\ OwesByte(d, u)' => c = d
        /\ IF flag'[u] /\ ~ \E c \in Callers : OwesByte(c, u)'
           THEN pipe'[u] = 1 ELSE pipe'[u] = 0
        /\ (\E c \in Callers : OwesByte(c, u)') => flag'[u]
    BY <1>1, <1>2, <1>5, <1>7 DEF WakerConsistent, Locations
  <2>2. QED
    BY <1>1, <1>2, <1>5, <1>6, <1>7, <2>1 DEF WakerConsistent
<1>9. \A t \in Threads : t # u /\ Signalled(t) => Signalled(t)'
  <2>1. \A d \in Callers, t \in Threads : WillWake(d, t) => WillWake(d, t)'
    BY <1>1, <1>2, ThreadsFacts DEF WillWake, Locations
  <2>2. QED
    BY <1>7, <2>1 DEF Signalled
<1>10. ResetSeesByte' /\ ShutdownSignalled' /\ QueueSignalled'
  BY <1>1, <1>2, <1>6, <1>7, <1>9 DEF ResetSeesByte, ShutdownSignalled, QueueSignalled, IsEmpty
<1>11. QED
  BY <1>4, <1>8, <1>10 DEF IInv

-------------------------------------------------------------------------------
(***************************************************************************)
(* The steps that put work into the shared state and start a wake loop.    *)
(***************************************************************************)
\* A caller that starts its loop over the wakers will reach every thread.
LEMMA StartWakesInv ==
  ASSUME IInv, NEW c \in Callers, pc[c] \in {"push", "alive"}, StartWakes(c),
         UNCHANGED <<flag, pipe, sleep, fresh>>,
         shutdown' \in BOOLEAN, in_stack' \in Seq(Tasks), out_stack' \in Seq(Tasks),
         arg' \in [Callers -> Tasks \cup {NoTask}],
         \A d \in Callers : d # c => arg'[d] = arg[d]
  PROVE  IInv'
<1>1. Locations /\ WakerConsistent /\ ResetSeesByte /\ ShutdownSignalled /\ QueueSignalled
  BY DEF IInv
<1>2. waking' = [waking EXCEPT ![c] = 1] /\ pc' = [pc EXCEPT ![c] = "swap"] /\ 1 \in Threads
  BY ThreadsFacts DEF StartWakes
<1>3. Locations'
  BY <1>1, <1>2 DEF Locations, ThreadPcs
<1>4. \A d \in Callers, t \in Threads : OwesByte(d, t)' <=> OwesByte(d, t)
  BY <1>1, <1>2 DEF OwesByte, Locations
<1>5. \A t \in Threads : pc'[t] = pc[t] \/ (t = c /\ pc'[t] = "swap" /\ pc[t] \in {"push", "alive"})
  BY <1>1, <1>2, ThreadsFacts DEF Locations
<1>6. \A t \in Threads : pc'[t] = "read" <=> pc[t] = "read"
  BY <1>5
<1>7. WakerConsistent'
  BY <1>1, <1>4, <1>6 DEF WakerConsistent
<1>8. \A t \in Threads : Signalled(t)'
  <2>1. \A t \in Threads : WillWake(c, t)'
    BY <1>1, <1>2, ThreadsFacts DEF WillWake, Locations
  <2>2. QED
    BY <2>1 DEF Signalled
<1>9. ResetSeesByte' /\ ShutdownSignalled' /\ QueueSignalled'
  BY <1>1, <1>5, <1>8 DEF ResetSeesByte, ShutdownSignalled, QueueSignalled
<1>10. QED
  BY <1>3, <1>7, <1>9 DEF IInv

\* A task comes into the queue only with a loop over the wakers behind it.
LEMMA PushTaskInv == ASSUME IInv, NEW c \in Callers, PushTask(c) PROVE IInv'
<1>1. in_stack' \in Seq(Tasks) /\ out_stack' \in Seq(Tasks)
  BY DEF IInv, Locations, PushTask, Push
<1>2. arg' \in [Callers -> Tasks \cup {NoTask}] /\ \A d \in Callers : d # c => arg'[d] = arg[d]
  BY DEF IInv, Locations, PushTask
<1>3. pc[c] = "push" /\ StartWakes(c) /\ UNCHANGED <<flag, pipe, sleep, fresh, shutdown>>
  BY DEF PushTask
<1>4. shutdown' \in BOOLEAN
  BY <1>3 DEF IInv, Locations
<1>5. QED
  BY <1>1, <1>2, <1>3, <1>4, StartWakesInv

\* The shutdown flag is set only with a loop over the wakers behind it.
LEMMA BeginDestructionInv == ASSUME IInv, BeginDestruction PROVE IInv'
<1>1. /\ pc[Owner] = "alive" /\ StartWakes(Owner) /\ shutdown' \in BOOLEAN
      /\ UNCHANGED <<flag, pipe, sleep, fresh, arg, in_stack, out_stack>>
  BY DEF BeginDestruction, queue_vars
<1>2. /\ in_stack' \in Seq(Tasks) /\ out_stack' \in Seq(Tasks)
      /\ arg' \in [Callers -> Tasks \cup {NoTask}]
      /\ \A d \in Callers : d # Owner => arg'[d] = arg[d]
  BY <1>1 DEF IInv, Locations
<1>3. QED
  BY <1>1, <1>2, ThreadsFacts, StartWakesInv

-------------------------------------------------------------------------------
(***************************************************************************)
(* The quiet steps of the threads, the clients and the owner.              *)
(***************************************************************************)
\* The execution of the ready tasks touches neither wakers nor queue.
LEMMA ExecuteInv == ASSUME IInv, NEW t \in Threads, Execute(t) PROVE IInv'
<1>1. Locations
  BY DEF IInv
<1>2. CASE \/ Exec(t) \/ ResumeDone(t) \/ ResumeWaits(t) \/ ResumeYields(t)
  <2>1. PICK x \in {"check", "cleanup", "run", "exec"} : pc' = [pc EXCEPT ![t] = x]
    BY <1>2 DEF Exec, ResumeDone, ResumeWaits, ResumeYields
  <2>2. /\ pc[t] \in {"exec", "run"}
        /\ UNCHANGED <<flag, pipe, waking, shutdown, sleep, in_stack, out_stack, arg, fresh>>
    BY <1>2 DEF Exec, ResumeDone, ResumeWaits, ResumeYields, queue_vars, waker_vars
  <2>3. Locations'
    BY ThreadsFacts, <1>1, <2>1, <2>2 DEF Locations, ThreadPcs
  <2>4. x \in QuietPcs /\ pc[t] \in QuietPcs
    BY <2>2 DEF QuietPcs, ThreadPcs
  <2>5. \A u \in Threads : pc'[u] = "poll" => pc[u] = "poll"
    BY <1>1, <2>1 DEF Locations
  <2>6. QED
    BY ThreadsFacts, <2>1, <2>2, <2>3, <2>4, <2>5, QuietInv, ZenonT(40) DEF IsEmpty
<1>3. CASE FreeAddDiscards(t)
  <2>1. /\ pc' = pc /\ pc' = [pc EXCEPT ![t] = "run"] /\ pc[t] = "run"
        /\ fresh' \subseteq fresh
        /\ UNCHANGED <<flag, pipe, waking, shutdown, sleep, in_stack, out_stack, arg>>
    BY <1>1, <1>3 DEF FreeAddDiscards, queue_vars, waker_vars, Locations
  <2>2. Locations'
    <3>1. pc' = pc /\ fresh' \subseteq fresh /\ UNCHANGED <<flag, pipe, waking, shutdown, sleep, in_stack, out_stack, arg>>
      BY <2>1
    <3>2. QED
      BY <1>1, <3>1, SMTT(60) DEF Locations
  <2>3. "run" \in QuietPcs
    BY DEF QuietPcs, ThreadPcs
  <2>4. QED
    BY ThreadsFacts, <2>1, <2>2, <2>3, QuietInv, ZenonT(40) DEF IsEmpty
<1>4. CASE FreeAdd(t)
  <2>1. PICK k \in fresh : arg' = [arg EXCEPT ![t] = k] /\ fresh' = fresh \ {k}
    BY <1>4, Zenon DEF FreeAdd
  <2>2. /\ pc' = [pc EXCEPT ![t] = "push"] /\ pc[t] = "run"
        /\ UNCHANGED <<flag, pipe, waking, shutdown, sleep, in_stack, out_stack>>
    BY <1>4 DEF FreeAdd, queue_vars, waker_vars
  <2>3. Locations'
    BY ThreadsFacts, <1>1, <2>1, <2>2, ZenonT(40) DEF Locations, ThreadPcs
  <2>4. {"run", "push"} \subseteq QuietPcs
    BY DEF QuietPcs, ThreadPcs
  <2>5. \A u \in Threads : pc'[u] = "poll" => pc[u] = "poll"
    BY <1>1, <2>2 DEF Locations
  <2>6. QED
    BY ThreadsFacts, <2>2, <2>3, <2>4, <2>5, QuietInv, ZenonT(40) DEF IsEmpty
<1>5. QED
  BY <1>2, <1>3, <1>4 DEF Execute

\* A thread goes to sleep only after it saw the queue empty under the lock.
LEMMA ExtractInv == ASSUME IInv, NEW t \in Threads, Extract(t) PROVE IInv'
<1>1. Locations
  BY DEF IInv
<1>2. {"check", "lock", "take", "poll", "cleanup"} \subseteq QuietPcs
  BY DEF QuietPcs, ThreadPcs
<1>3. CASE CheckShutdown(t)
  <2>1. PICK x \in {"cleanup", "lock"} :
          pc' = [pc EXCEPT ![t] = x] /\ (x = "lock" => ~shutdown)
    BY <1>3, Zenon DEF CheckShutdown
  <2>2. /\ pc[t] = "check"
        /\ UNCHANGED <<flag, pipe, waking, shutdown, sleep, in_stack, out_stack, arg, fresh>>
    BY <1>3 DEF CheckShutdown, queue_vars, waker_vars
  <2>3. Locations'
    BY ThreadsFacts, <1>1, <2>1, <2>2 DEF Locations, ThreadPcs
  <2>4. \A u \in Threads : pc'[u] = "poll" => pc[u] = "poll"
    BY <1>1, <2>1 DEF Locations
  <2>5. QED
    BY ThreadsFacts, <1>2, <2>1, <2>2, <2>3, <2>4, QuietInv, ZenonT(40) DEF IsEmpty
<1>4. CASE LockQueue(t)
  <2>1. /\ pc[t] = "lock" /\ pc' = [pc EXCEPT ![t] = "take"]
        /\ UNCHANGED <<flag, pipe, waking, shutdown, sleep, in_stack, out_stack, arg, fresh>>
    BY <1>4 DEF LockQueue, waker_vars
  <2>2. Locations'
    BY ThreadsFacts, <1>1, <2>1, ZenonT(40) DEF Locations, ThreadPcs
  <2>3. \A u \in Threads : pc'[u] = "poll" => pc[u] = "poll"
    BY <1>1, <2>1 DEF Locations
  <2>4. QED
    BY ThreadsFacts, <1>2, <2>1, <2>2, <2>3, QuietInv, ZenonT(40) DEF IsEmpty
<1>5. CASE TakeOne(t)
  <2>1. /\ pc[t] = "take"
        /\ UNCHANGED <<flag, pipe, waking, shutdown, sleep, arg, fresh>>
    BY <1>5 DEF TakeOne, waker_vars
  <2>2. PICK x \in {"cleanup", "take"} : pc' = [pc EXCEPT ![t] = x]
    BY <1>1, <1>5, <2>1, ZenonT(40) DEF TakeOne, Locations
  <2>3. in_stack' \in Seq(Tasks) /\ out_stack' \in Seq(Tasks) /\ (IsEmpty => IsEmpty')
    <3>1. CASE shutdown
      BY <1>1, <1>5, <3>1 DEF TakeOne, Locations, IsEmpty
    <3>2. CASE ~shutdown
      BY <1>1, <1>5, <3>2, TryPopFacts DEF TakeOne, Locations
    <3>3. QED
      BY <3>1, <3>2
  <2>4. Locations'
    BY ThreadsFacts, <1>1, <2>1, <2>2, <2>3, ZenonT(40) DEF Locations, ThreadPcs
  <2>5. \A u \in Threads : pc'[u] = "poll" => pc[u] = "poll"
    BY <1>1, <2>2 DEF Locations
  <2>6. QED
    BY ThreadsFacts, <1>2, <2>1, <2>2, <2>3, <2>4, <2>5, QuietInv, ZenonT(40)
<1>6. CASE UnlockQueue(t)
  <2>1. /\ pc[t] = "take" /\ pc' = [pc EXCEPT ![t] = "poll"]
        /\ sleep' = [sleep EXCEPT ![t] = IsEmpty /\ ready[t] = <<>>]
        /\ UNCHANGED <<flag, pipe, waking, shutdown, in_stack, out_stack, arg, fresh>>
    BY <1>6 DEF UnlockQueue, waker_vars
  <2>2. sleep' \in [Threads -> BOOLEAN]
    <3>1. (IsEmpty /\ ready[t] = <<>>) \in BOOLEAN
      OBVIOUS
    <3>2. sleep \in [Threads -> BOOLEAN]
      BY <1>1 DEF Locations
    <3>3. QED
      BY <2>1, <3>1, <3>2, ZenonT(40)
  <2>3. Locations'
    BY ThreadsFacts, <1>1, <2>1, <2>2 DEF Locations, ThreadPcs
  <2>4. \A u \in Threads : pc'[u] = "poll" /\ sleep'[u] /\ ~IsEmpty'
                             => pc[u] = "poll" /\ sleep[u] /\ ~IsEmpty
    BY ThreadsFacts, <1>1, <2>1, Zenon DEF Locations, IsEmpty
  <2>5. QED
    BY ThreadsFacts, <1>2, <2>1, <2>3, <2>4, QuietInv, ZenonT(40)
<1>7. QED
  BY <1>3, <1>4, <1>5, <1>6 DEF Extract

\* A poll call leads to ResetWake only when the pipe holds a byte.
LEMMA PollInv == ASSUME IInv, NEW t \in Threads, Poll(t) PROVE IInv'
<1>1. Locations
  BY DEF IInv
<1>2. PICK x \in {"reset", "exec"} :
        pc' = [pc EXCEPT ![t] = x] /\ (x = "reset" => pipe[t] > 0)
  BY ZenonT(40) DEF Poll
<1>3. /\ pc[t] = "poll"
      /\ UNCHANGED <<flag, pipe, waking, shutdown, sleep, in_stack, out_stack, arg, fresh>>
  BY ZenonT(40) DEF Poll, queue_vars, waker_vars
<1>4. Locations'
  BY ThreadsFacts, <1>1, <1>2, <1>3 DEF Locations, ThreadPcs
<1>5. {"reset", "exec", "poll"} \subseteq QuietPcs
  BY DEF QuietPcs, ThreadPcs
<1>6. \A u \in Threads : pc'[u] = "poll" => pc[u] = "poll"
  BY <1>1, <1>2 DEF Locations
<1>7. QED
  BY ThreadsFacts, <1>2, <1>3, <1>4, <1>5, <1>6, QuietInv, Zenon DEF IsEmpty

\* The cleanup of a thread that left its main loop.
LEMMA CleanupInv == ASSUME IInv, NEW t \in Threads, Cleanup(t) PROVE IInv'
<1>1. Locations
  BY DEF IInv
<1>2. /\ pc[t] = "cleanup" /\ pc' = [pc EXCEPT ![t] = "exited"]
      /\ UNCHANGED <<flag, pipe, waking, shutdown, sleep, in_stack, out_stack, arg, fresh>>
  BY DEF Cleanup, queue_vars, waker_vars
<1>3. Locations'
  BY ThreadsFacts, <1>1, <1>2, ZenonT(40) DEF Locations, ThreadPcs
<1>4. {"cleanup", "exited"} \subseteq QuietPcs
  BY DEF QuietPcs, ThreadPcs
<1>5. \A u \in Threads : pc'[u] = "poll" => pc[u] = "poll"
  BY <1>1, <1>2 DEF Locations
<1>6. QED
  BY ThreadsFacts, <1>2, <1>3, <1>4, <1>5, QuietInv, ZenonT(40) DEF IsEmpty

\* The entry of add_task, called by a client.
LEMMA ClientInv == ASSUME IInv, NEW c \in Clients, Client(c) PROVE IInv'
<1>1. Locations /\ c \in Callers /\ c \notin Threads
  BY ThreadsFacts DEF IInv
<1>2. {"idle", "push"} \subseteq QuietPcs
  BY DEF QuietPcs, ThreadPcs
<1>3. PICK x \in {"idle", "push"} :
        /\ pc' = [pc EXCEPT ![c] = x] /\ (x = "push" => arg'[c] \in Tasks)
        /\ arg' \in [Callers -> Tasks \cup {NoTask}]
        /\ \A d \in Callers : d # c => arg'[d] = arg[d]
  <2>1. CASE ClientAddDone(c)
    <3>1. pc' = [pc EXCEPT ![c] = "idle"] /\ arg' = arg
      BY <1>1, <2>1 DEF ClientAddDone, Locations
    <3>2. QED
      BY <1>1, <3>1, ZenonT(40) DEF Locations
  <2>2. CASE ClientAdd(c)
    <3>1. PICK k \in fresh : arg' = [arg EXCEPT ![c] = k]
      BY <2>2, Zenon DEF ClientAdd
    <3>2. pc' = [pc EXCEPT ![c] = "push"]
      BY <2>2 DEF ClientAdd
    <3>3. QED
      BY <1>1, <3>1, <3>2, ZenonT(40) DEF Locations
  <2>3. QED
    BY <2>1, <2>2 DEF Client
<1>4. /\ pc[c] = "idle" /\ fresh' \subseteq fresh
      /\ UNCHANGED <<flag, pipe, waking, shutdown, sleep, in_stack, out_stack>>
  BY DEF Client, ClientAddDone, ClientAdd, queue_vars, waker_vars
<1>5. Locations'
  BY <1>1, <1>3, <1>4 DEF Locations, ThreadPcs
<1>6. \A u \in Threads : pc'[u] = pc[u]
  BY <1>1, <1>3 DEF Locations
<1>7. QED
  BY <1>1, <1>2, <1>3, <1>4, <1>5, <1>6, QuietInv, ZenonT(40) DEF IsEmpty

\* The end of the destructor.
LEMMA JoinInv == ASSUME IInv, Join PROVE IInv'
<1>1. Locations
  BY DEF IInv
<1>2. /\ pc[Owner] = "join" /\ pc' = [pc EXCEPT ![Owner] = "gone"]
      /\ in_stack' = <<>> /\ out_stack' = <<>>
      /\ UNCHANGED <<flag, pipe, waking, shutdown, sleep, arg, fresh>>
  BY DEF Join, waker_vars
<1>3. Locations'
  BY ThreadsFacts, <1>1, <1>2 DEF Locations, ThreadPcs
<1>4. {"join", "gone"} \subseteq QuietPcs
  BY DEF QuietPcs, ThreadPcs
<1>5. QED
  BY ThreadsFacts, <1>2, <1>3, <1>4, QuietInv, ZenonT(40) DEF IsEmpty

-------------------------------------------------------------------------------
\* The invariant holds initially.
LEMMA InitIInv == Init => IInv
<1> SUFFICES ASSUME Init PROVE IInv
  OBVIOUS
<1>1. Locations
  <2>1. /\ pc \in [Callers -> ThreadPcs \cup {"idle", "alive", "join", "gone"}]
        /\ \A t \in Threads : pc[t] \in ThreadPcs
        /\ \A c \in Callers : pc[c] \notin {"swap", "write", "push"}
    BY ThreadsFacts DEF Init, ThreadPcs
  <2>2. waking \in [Callers -> Threads \cup {0}] /\ arg \in [Callers -> Tasks \cup {NoTask}]
    BY DEF Init
  <2>3. /\ flag \in [Threads -> BOOLEAN] /\ pipe \in [Threads -> Nat]
        /\ sleep \in [Threads -> BOOLEAN] /\ shutdown \in BOOLEAN
    BY ZenonT(40) DEF Init
  <2>4. in_stack \in Seq(Tasks) /\ out_stack \in Seq(Tasks) /\ fresh \subseteq Tasks
    BY DEF Init
  <2>5. QED
    BY <2>1, <2>2, <2>3, <2>4 DEF Locations
<1>2. \A c \in Callers : pc[c] \in {"exec", "alive", "idle"}
  BY DEF Init
<1>3. WakerConsistent
  BY ThreadsFacts, <1>2 DEF Init, WakerConsistent, OwesByte
<1>4. ResetSeesByte /\ ShutdownSignalled /\ QueueSignalled
  BY ThreadsFacts, <1>2 DEF ResetSeesByte, ShutdownSignalled, QueueSignalled
<1>5. QED
  BY <1>1, <1>3, <1>4 DEF IInv

\* Every step of the runner keeps the invariant.
LEMMA StepIInv == IInv /\ [Next]_vars => IInv'
<1> SUFFICES ASSUME IInv, [Next]_vars PROVE IInv'
  OBVIOUS
<1>1. ASSUME NEW c \in Callers, Call(c) PROVE IInv'
  BY <1>1, PushTaskInv, WakeSwapInv, WakeWriteInv DEF Call
<1>2. ASSUME NEW t \in Threads, RunnerThread(t) PROVE IInv'
  BY <1>2, ExecuteInv, ExtractInv, PollInv, ResetSwapInv, ResetReadInv, CleanupInv
     DEF RunnerThread, PollAndReset
<1>3. ASSUME NEW c \in Clients, Client(c) PROVE IInv'
  BY <1>3, ClientInv
<1>4. CASE BeginDestruction
  BY <1>4, BeginDestructionInv
<1>5. CASE Join
  BY <1>5, JoinInv
<1>6. CASE UNCHANGED vars
  BY <1>6 DEF vars, queue_vars, waker_vars, IInv, Locations, WakerConsistent, OwesByte,
     ResetSeesByte, ShutdownSignalled, QueueSignalled, Signalled, WillWake, IsEmpty
<1>7. QED
  BY <1>1, <1>2, <1>3, <1>4, <1>5, <1>6 DEF Next, Done

\* The flag of every waker always tells whether a byte is, or is about to be, in
\* its pipe, for any number of threads and callers.
THEOREM WakersConsistent == SafeSpec => []WakerConsistent
<1>1. IInv => WakerConsistent
  BY DEF IInv
<1>2. QED
  BY <1>1, InitIInv, StepIInv, PTL DEF SafeSpec

\* A thread never sleeps through a task in the queue or through the shutdown
\* without a byte in its pipe or a caller on its way to wake it.
THEOREM NoWakeupIsLost == SafeSpec => []NoLostWakeup
<1>1. IInv => NoLostWakeup
  BY DEF IInv, NoLostWakeup, QueueSignalled, ShutdownSignalled, Signalled
<1>2. QED
  BY <1>1, InitIInv, StepIInv, PTL DEF SafeSpec

-------------------------------------------------------------------------------
(***************************************************************************)
(* Type correctness.  It rests on the discipline of the queue's lock: a    *)
(* thread that pops takes no more tasks than the queue held when it        *)
(* locked, because everybody else waits for the lock; and on the order of  *)
(* the main loop: a thread runs a task, and calls add_task from it, only   *)
(* while the task is still the first of its ready list.                    *)
(***************************************************************************)
Pcs == {"exec", "run", "check", "lock", "take", "poll", "reset", "read", "cleanup",
        "exited", "idle", "push", "swap", "write", "alive", "join", "gone"}

\* The lock is held by the thread that pops, and the queue lasts for its pops.
LockDiscipline ==
  /\ \A t \in Threads : pc[t] = "take" => lock = t
  /\ lock # 0 => pc[lock] = "take" /\ to_take <= GetSize

\* A thread inside a slice of a task has this task as its first ready one.
RunsReadyTask ==
  \A t \in Threads : pc[t] \in {"run", "push", "swap", "write"} => ready[t] # <<>>

\* A caller that is about to push has a task to push.
PushesTask == \A c \in Callers : pc[c] = "push" => arg[c] \in Tasks

\* A thread owns finitely many tasks.
FiniteMaps == tasks_map \in [Threads -> SUBSET Tasks] /\ \A t \in Threads : IsFiniteSet(tasks_map[t])

TInv == TypeOK /\ LockDiscipline /\ RunsReadyTask /\ PushesTask

-------------------------------------------------------------------------------
\* Callers are the threads, numbered from 1, the clients and the owner.
LEMMA CallersFacts ==
  /\ NumThreadsLimited \in Nat \ {0}
  /\ Threads = 1 .. NumThreadsLimited
  /\ Threads \subseteq Callers /\ 0 \notin Threads
  /\ Owner \in Callers /\ Owner \notin Threads
  /\ Clients \subseteq Callers /\ Clients \cap Threads = {}
BY ConstantsAssumption DEF NumThreadsLimited, Threads, Callers

\* TryPop on a Queue that is not empty returns one of its tasks and leaves one
\* task less.
LEMMA TryPopTypes ==
  ASSUME in_stack \in Seq(Tasks), out_stack \in Seq(Tasks), GetSize > 0, TryPop
  PROVE  /\ in_stack' \in Seq(Tasks) /\ out_stack' \in Seq(Tasks)
         /\ PopResult \in Tasks
         /\ GetSize' = GetSize - 1
<1> DEFINE r == Refilled
<1>1. QueueReverse(in_stack) \in Seq(Tasks) /\ Len(QueueReverse(in_stack)) = Len(in_stack)
  BY DEF QueueReverse
<1>2. r \in Seq(Tasks) /\ Len(r) > 0
  BY <1>1 DEF Refilled, GetSize
<1>3. r[Len(r)] \in Tasks
  BY <1>2
<1>4. SubSeq(r, 1, Len(r) - 1) \in Seq(Tasks) /\ Len(SubSeq(r, 1, Len(r) - 1)) = Len(r) - 1
  <2>1. /\ Len(r) \in Nat /\ Len(r) - 1 \in Nat
        /\ \A i \in 1 .. Len(r) - 1 : r[i] \in Tasks
    BY <1>2
  <2>2. /\ SubSeq(r, 1, Len(r) - 1) \in Seq(Tasks)
        /\ Len(SubSeq(r, 1, Len(r) - 1)) = IF 1 <= Len(r) - 1 THEN Len(r) - 1 - 1 + 1 ELSE 0
    <3> HIDE DEF r
    <3>1. QED
      BY <2>1, SubSeqProperties
  <2>3. PICK n : n = Len(SubSeq(r, 1, Len(r) - 1))
    OBVIOUS
  <2>4. PICK m \in Nat : m = Len(r) - 1
    BY <2>1, Zenon
  <2>5. n = m
    BY <2>2, <2>3, <2>4
  <2>6. QED
    BY <2>2, <2>3, <2>4, <2>5
<1>5. CASE out_stack = <<>>
  <2>1. in_stack' = <<>> /\ Len(r) = Len(in_stack) /\ Len(out_stack) = 0
    BY <1>1, <1>5 DEF TryPop, Refilled
  <2>2. out_stack' \in Seq(Tasks) /\ Len(out_stack') = Len(in_stack) - 1 /\ Len(in_stack') = 0
    BY <1>4, <2>1 DEF TryPop
  <2>3. QED
    BY <1>3, <2>1, <2>2 DEF PopResult, GetSize
<1>6. CASE out_stack # <<>>
  <2>1. in_stack' = in_stack /\ r = out_stack
    BY <1>6 DEF TryPop, Refilled
  <2>2. out_stack' \in Seq(Tasks) /\ Len(out_stack') = Len(out_stack) - 1
    BY <1>4, <2>1 DEF TryPop
  <2>3. QED
    BY <1>3, <2>1, <2>2 DEF PopResult, GetSize
<1>7. QED
  BY <1>5, <1>6

\* The number of tasks a thread takes never exceeds the size of the queue.
LEMMA NumTasksToTakeBound ==
  ASSUME in_stack \in Seq(Tasks), out_stack \in Seq(Tasks)
  PROVE  NumTasksToTake \in Nat /\ NumTasksToTake <= GetSize
<1>1. GetSize \in Nat
  BY DEF GetSize
<1>2. QED
  BY <1>1 DEF NumTasksToTake

-------------------------------------------------------------------------------
(***************************************************************************)
(* One lemma per group of actions.                                         *)
(***************************************************************************)
\* A step that changes only where a caller is, outside the critical section.
LEMMA MoveTypes ==
  ASSUME TInv, NEW c \in Callers, NEW x \in Pcs \ {"take", "push"},
         pc[c] # "take", pc' = [pc EXCEPT ![c] = x],
         c \in Threads /\ x \in {"run", "swap", "write"} => ready[c] # <<>>,
         UNCHANGED <<in_stack, out_stack, lock, to_take, arg, ready>>
  PROVE  /\ pc' \in [Callers -> Pcs]
         /\ LockDiscipline' /\ RunsReadyTask' /\ PushesTask'
<1>1. pc \in [Callers -> Pcs] /\ LockDiscipline /\ RunsReadyTask /\ PushesTask
      /\ lock \in Threads \cup {0}
  BY DEF TInv, TypeOK, Pcs
<1>2. pc' \in [Callers -> Pcs]
  BY <1>1
<1>3. LockDiscipline'
  BY <1>1 DEF LockDiscipline, GetSize
<1>4. RunsReadyTask'
  BY <1>1 DEF RunsReadyTask
<1>5. PushesTask'
  BY <1>1 DEF PushesTask
<1>6. QED
  BY <1>2, <1>3, <1>4, <1>5

\* The two steps of Wake.
LEMMA WakeTypes == ASSUME TInv, NEW c \in Callers, WakeSwap(c) \/ WakeWrite(c) PROVE TInv'
<1>1. TypeOK /\ pc[c] \in {"swap", "write"}
  BY DEF TInv, WakeSwap, WakeWrite
<1>2. PICK x \in {"run", "join", "idle", "swap", "write"} : pc' = [pc EXCEPT ![c] = x]
  BY DEF WakeSwap, WakeWrite, NextWaker, AfterWakes
<1>3. waking' \in [Callers -> Threads \cup {0}]
  <2>1. \/ waking' = waking \/ waking' = [waking EXCEPT ![c] = 0]
        \/ waking[c] < NumThreadsLimited /\ waking' = [waking EXCEPT ![c] = waking[c] + 1]
    BY DEF WakeSwap, WakeWrite, NextWaker
  <2>2. waking \in [Callers -> Threads \cup {0}]
    BY <1>1 DEF TypeOK
  <2>3. QED
    BY CallersFacts, <2>1, <2>2
<1>4. flag' \in [Threads -> BOOLEAN] /\ pipe' \in [Threads -> Nat]
  <2>1. flag' = flag \/ flag' = [flag EXCEPT ![waking[c]] = TRUE]
    BY ZenonT(40) DEF WakeSwap, WakeWrite
  <2>2. pipe' = pipe \/ pipe' = [pipe EXCEPT ![waking[c]] = @ + 1]
    BY Zenon DEF WakeSwap, WakeWrite
  <2>3. flag \in [Threads -> BOOLEAN] /\ pipe \in [Threads -> Nat]
    BY <1>1 DEF TypeOK
  <2>4. flag' \in [Threads -> BOOLEAN]
    BY <2>1, <2>3, ZenonT(40)
  <2>5. pipe' \in [Threads -> Nat]
    <3>1. CASE waking[c] \in Threads
      <4>1. PICK u \in Threads : u = waking[c]
        BY <3>1
      <4>2. pipe' = pipe \/ pipe' = [pipe EXCEPT ![u] = pipe[u] + 1]
        BY <2>2, <2>3, <4>1
      <4>3. QED
        BY <2>3, <4>2
    <3>2. CASE waking[c] \notin Threads
      BY <2>2, <2>3, <3>2
    <3>3. QED
      BY <3>1, <3>2
  <2>6. QED
    BY <2>4, <2>5
<1>5. UNCHANGED <<queue_vars, shutdown, arg, fresh, task_vars, sleep, dropped>>
  BY DEF WakeSwap, WakeWrite
<1>6. c \in Threads => ready[c] # <<>>
  BY <1>1 DEF TInv, RunsReadyTask
<1>7. /\ pc' \in [Callers -> Pcs] /\ LockDiscipline' /\ RunsReadyTask' /\ PushesTask'
  BY <1>1, <1>2, <1>5, <1>6, MoveTypes, ZenonT(40) DEF queue_vars, task_vars, Pcs
<1>8. TypeOK'
  BY <1>1, <1>3, <1>4, <1>5, <1>7 DEF TypeOK, Pcs, queue_vars, task_vars
<1>9. QED
  BY <1>7, <1>8 DEF TInv

\* The two steps of ResetWake.
LEMMA ResetTypes == ASSUME TInv, NEW t \in Threads, ResetSwap(t) \/ ResetRead(t) PROVE TInv'
<1>1. TypeOK /\ pc[t] \in {"reset", "read"}
  BY DEF TInv, ResetSwap, ResetRead
<1>2. PICK x \in {"read", "exec"} : pc' = [pc EXCEPT ![t] = x]
  BY DEF ResetSwap, ResetRead
<1>3. flag' \in [Threads -> BOOLEAN] /\ pipe' \in [Threads -> Nat]
  <2>1. flag' = flag \/ flag' = [flag EXCEPT ![t] = FALSE]
    BY DEF ResetSwap, ResetRead
  <2>2. pipe' = pipe \/ pipe' = [pipe EXCEPT ![t] = IF @ > 0 THEN @ - 1 ELSE 0]
    BY DEF ResetSwap, ResetRead
  <2>3. flag \in [Threads -> BOOLEAN] /\ pipe \in [Threads -> Nat]
    BY <1>1 DEF TypeOK
  <2>4. flag' \in [Threads -> BOOLEAN]
    BY <2>1, <2>3, ZenonT(40)
  <2>5. pipe' \in [Threads -> Nat]
    BY <2>2, <2>3
  <2>6. QED
    BY <2>4, <2>5
<1>4. UNCHANGED <<queue_vars, shutdown, waking, arg, fresh, task_vars, sleep, dropped>>
  BY DEF ResetSwap, ResetRead
<1>5. /\ pc' \in [Callers -> Pcs] /\ LockDiscipline' /\ RunsReadyTask' /\ PushesTask'
  BY CallersFacts, <1>1, <1>2, <1>4, MoveTypes, ZenonT(40) DEF queue_vars, task_vars, Pcs
<1>6. TypeOK'
  BY <1>1, <1>3, <1>4, <1>5, ZenonT(40) DEF TypeOK, Pcs, queue_vars, task_vars
<1>7. QED
  BY <1>5, <1>6 DEF TInv

\* The critical section of add_task: it waits until nobody pops.
LEMMA PushTypes == ASSUME TInv, NEW c \in Callers, PushTask(c) PROVE TInv'
<1>1. TypeOK /\ LockDiscipline /\ RunsReadyTask /\ PushesTask
  BY DEF TInv
<1>2. /\ pc[c] = "push" /\ lock = 0 /\ pc' = [pc EXCEPT ![c] = "swap"]
      /\ in_stack' = Append(in_stack, arg[c]) /\ out_stack' = out_stack
      /\ arg' = [arg EXCEPT ![c] = NoTask] /\ waking' = [waking EXCEPT ![c] = 1]
      /\ UNCHANGED <<lock, to_take, shutdown, flag, pipe, fresh, task_vars, sleep, dropped>>
  BY DEF PushTask, Push, StartWakes
<1>3. in_stack' \in Seq(Tasks)
  BY <1>1, <1>2 DEF TypeOK, PushesTask
<1>4. TypeOK'
  <2>1. /\ pc' \in [Callers -> Pcs]
        /\ waking' \in [Callers -> Threads \cup {0}]
        /\ arg' \in [Callers -> Tasks \cup {NoTask}]
    BY CallersFacts, <1>1, <1>2 DEF TypeOK, Pcs
  <2>2. QED
    BY <1>1, <1>2, <1>3, <2>1 DEF TypeOK, Pcs, task_vars
<1>5. LockDiscipline'
  BY <1>1, <1>2 DEF LockDiscipline, TypeOK
<1>6. RunsReadyTask'
  BY <1>1, <1>2 DEF RunsReadyTask, TypeOK, task_vars
<1>7. PushesTask'
  BY <1>1, <1>2 DEF PushesTask, TypeOK
<1>8. QED
  BY <1>4, <1>5, <1>6, <1>7 DEF TInv

\* The entries of the two add_task functions.
LEMMA AddTypes ==
  ASSUME TInv, NEW c \in Callers,
         (c \in Clients /\ (ClientAddDone(c) \/ ClientAdd(c)))
           \/ (c \in Threads /\ (FreeAdd(c) \/ FreeAddDiscards(c)))
  PROVE  TInv'
<1>1. TypeOK /\ LockDiscipline /\ RunsReadyTask /\ PushesTask
  BY DEF TInv
<1>2. CASE ClientAddDone(c) \/ FreeAddDiscards(c)
  <2>1. /\ UNCHANGED <<pc, queue_vars, shutdown, waker_vars, arg, task_vars, sleep>>
        /\ fresh' \subseteq Tasks /\ dropped' \subseteq Tasks
    BY <1>1, <1>2 DEF ClientAddDone, FreeAddDiscards, TypeOK
  <2>2. TypeOK'
    BY <1>1, <2>1, ZenonT(40) DEF TypeOK, queue_vars, waker_vars, task_vars
  <2>3. LockDiscipline' /\ RunsReadyTask' /\ PushesTask'
    BY <1>1, <2>1, ZenonT(40) DEF LockDiscipline, RunsReadyTask, PushesTask, GetSize, queue_vars, task_vars
  <2>4. QED
    BY <2>2, <2>3 DEF TInv
<1>3. CASE (c \in Clients /\ ClientAdd(c)) \/ (c \in Threads /\ FreeAdd(c))
  <2>1. PICK k \in fresh : fresh' = fresh \ {k} /\ arg' = [arg EXCEPT ![c] = k]
    BY <1>3 DEF ClientAdd, FreeAdd
  <2>2. /\ (c \notin Threads /\ pc[c] = "idle") \/ (c \in Threads /\ pc[c] = "run")
        /\ pc' = [pc EXCEPT ![c] = "push"]
        /\ UNCHANGED <<queue_vars, shutdown, waker_vars, task_vars, sleep, dropped>>
    BY CallersFacts, <1>3 DEF ClientAdd, FreeAdd
  <2>3. k \in Tasks
    BY <1>1, <2>1 DEF TypeOK
  <2>4. TypeOK'
    BY <1>1, <2>1, <2>2, <2>3 DEF TypeOK, queue_vars, waker_vars, task_vars
  <2>5. LockDiscipline'
    BY <1>1, <2>2 DEF LockDiscipline, TypeOK, GetSize, queue_vars
  <2>6. RunsReadyTask'
    BY <1>1, <2>2 DEF RunsReadyTask, TypeOK, task_vars
  <2>7. PushesTask'
    BY <1>1, <2>1, <2>2, <2>3 DEF PushesTask, TypeOK
  <2>8. QED
    BY <2>4, <2>5, <2>6, <2>7 DEF TInv
<1>4. QED
  BY <1>2, <1>3

\* The execution of the ready tasks.
LEMMA ExecuteTypes == ASSUME TInv, NEW t \in Threads, Execute(t) PROVE TInv'
<1>1. TypeOK /\ LockDiscipline /\ RunsReadyTask /\ PushesTask
  BY DEF TInv
<1>2. CASE Exec(t)
  <2>1. PICK x \in {"check", "cleanup", "run"} :
          pc' = [pc EXCEPT ![t] = x] /\ (x = "run" => ready[t] # <<>>)
    BY <1>2, ZenonT(40) DEF Exec
  <2>2. /\ pc[t] = "exec"
        /\ UNCHANGED <<queue_vars, shutdown, waker_vars, arg, fresh, task_vars, sleep, dropped>>
    BY <1>2, Zenon DEF Exec
  <2>3. pc' \in [Callers -> Pcs] /\ LockDiscipline' /\ RunsReadyTask' /\ PushesTask'
    BY CallersFacts, <2>1, <2>2, MoveTypes, ZenonT(40) DEF Pcs, queue_vars, task_vars
  <2>4. TypeOK'
    BY <1>1, <2>2, <2>3 DEF TypeOK, Pcs, queue_vars, waker_vars, task_vars
  <2>5. QED
    BY <2>3, <2>4 DEF TInv
<1>3. CASE ResumeDone(t) \/ ResumeWaits(t) \/ ResumeYields(t)
  <2>1. /\ pc[t] = "run" /\ pc' = [pc EXCEPT ![t] = "exec"]
        /\ UNCHANGED <<queue_vars, shutdown, waker_vars, arg, fresh, destroyed, sleep, dropped>>
    BY <1>3 DEF ResumeDone, ResumeWaits, ResumeYields
  <2>2. ready[t] \in Seq(Tasks) /\ ready[t] # <<>>
    BY <1>1, <2>1 DEF TypeOK, RunsReadyTask
  <2>3. Head(ready[t]) \in Tasks /\ Tail(ready[t]) \in Seq(Tasks)
    BY <2>2
  <2>4. ready' \in [Threads -> Seq(Tasks)] /\ \A u \in Threads : u # t => ready'[u] = ready[u]
    <3>1. ready' = ready \/ ready' = [ready EXCEPT ![t] = Tail(ready[t])]
      BY <1>3 DEF ResumeDone, ResumeWaits, ResumeYields
    <3>2. ready \in [Threads -> Seq(Tasks)]
      BY <1>1 DEF TypeOK
    <3>3. QED
      BY <2>3, <3>1, <3>2, ZenonT(40)
  <2>5. /\ tasks_map' \in [Threads -> SUBSET Tasks]
        /\ waiting' \subseteq Tasks /\ finished' \subseteq Tasks
    <3>1. tasks_map' = tasks_map \/ tasks_map' = [tasks_map EXCEPT ![t] = tasks_map[t] \ {Head(ready[t])}]
      BY <1>3 DEF ResumeDone, ResumeWaits, ResumeYields
    <3>2. tasks_map' \in [Threads -> SUBSET Tasks]
      <4>1. tasks_map \in [Threads -> SUBSET Tasks]
        BY <1>1 DEF TypeOK
      <4>2. tasks_map[t] \ {Head(ready[t])} \in SUBSET Tasks
        BY <4>1
      <4>3. QED
        BY <3>1, <4>1, <4>2
    <3>3. waiting' \subseteq Tasks /\ finished' \subseteq Tasks
      BY <1>1, <1>3, <2>3 DEF ResumeDone, ResumeWaits, ResumeYields, TypeOK
    <3>4. QED
      BY <3>2, <3>3
  <2>6. yields' \in 0 .. MaxYields
    <3>1. yields' = yields \/ (yields < MaxYields /\ yields' = yields + 1)
      BY <1>3 DEF ResumeDone, ResumeWaits, ResumeYields
    <3>2. QED
      BY <1>1, <3>1, ConstantsAssumption DEF TypeOK
  <2>7. pc' \in [Callers -> Pcs]
    BY <1>1, <2>1, ZenonT(40) DEF TypeOK, Pcs
  <2>8. TypeOK'
    BY <1>1, <2>1, <2>4, <2>5, <2>6, <2>7 DEF TypeOK, Pcs, queue_vars, waker_vars
  <2>9. LockDiscipline'
    BY <1>1, <2>1 DEF LockDiscipline, TypeOK, GetSize, queue_vars
  <2>10. RunsReadyTask'
    BY CallersFacts, <1>1, <2>1, <2>4 DEF RunsReadyTask, TypeOK
  <2>11. PushesTask'
    BY <1>1, <2>1 DEF PushesTask, TypeOK
  <2>12. QED
    BY <2>8, <2>9, <2>10, <2>11 DEF TInv
<1>4. CASE FreeAddDiscards(t) \/ FreeAdd(t)
  BY CallersFacts, <1>4, AddTypes
<1>5. QED
  BY <1>2, <1>3, <1>4 DEF Execute

\* The extraction of tasks from the queue.
LEMMA ExtractTypes == ASSUME TInv, NEW t \in Threads, Extract(t) PROVE TInv'
<1>1. TypeOK /\ LockDiscipline /\ RunsReadyTask /\ PushesTask
  BY DEF TInv
<1>2. in_stack \in Seq(Tasks) /\ out_stack \in Seq(Tasks) /\ GetSize \in Nat /\ to_take \in Nat
  BY <1>1 DEF TypeOK, GetSize
<1>3. CASE CheckShutdown(t)
  <2>1. PICK x \in {"cleanup", "lock"} : pc' = [pc EXCEPT ![t] = x]
    BY <1>3, ZenonT(40) DEF CheckShutdown
  <2>2. /\ pc[t] = "check"
        /\ UNCHANGED <<queue_vars, shutdown, waker_vars, arg, fresh, task_vars, sleep, dropped>>
    BY <1>3 DEF CheckShutdown
  <2>3. pc' \in [Callers -> Pcs] /\ LockDiscipline' /\ RunsReadyTask' /\ PushesTask'
    BY CallersFacts, <2>1, <2>2, MoveTypes, ZenonT(40) DEF Pcs, queue_vars, task_vars
  <2>4. TypeOK'
    BY <1>1, <2>2, <2>3, ZenonT(40) DEF TypeOK, Pcs, queue_vars, waker_vars, task_vars
  <2>5. QED
    BY <2>3, <2>4 DEF TInv
<1>4. CASE LockQueue(t)
  <2>1. /\ pc[t] = "lock" /\ lock = 0 /\ lock' = t /\ to_take' = NumTasksToTake
        /\ pc' = [pc EXCEPT ![t] = "take"]
        /\ UNCHANGED <<in_stack, out_stack, shutdown, waker_vars, arg, fresh, task_vars, sleep, dropped>>
    BY <1>4 DEF LockQueue
  <2>2. to_take' \in Nat /\ to_take' <= GetSize'
    BY <1>2, <2>1, NumTasksToTakeBound DEF GetSize
  <2>3. pc' \in [Callers -> Pcs]
    BY <1>1, <2>1, Zenon DEF TypeOK, Pcs
  <2>4. TypeOK'
    BY <1>1, <2>1, <2>2, <2>3, ZenonT(40) DEF TypeOK, Pcs, waker_vars, task_vars
  <2>5. LockDiscipline'
    BY CallersFacts, <1>1, <2>1, <2>2 DEF LockDiscipline, TypeOK
  <2>6. RunsReadyTask' /\ PushesTask'
    BY <1>1, <2>1 DEF RunsReadyTask, PushesTask, TypeOK, task_vars
  <2>7. QED
    BY <2>4, <2>5, <2>6 DEF TInv
<1>5. CASE TakeOne(t) /\ shutdown
  <2>1. /\ pc[t] = "take" /\ lock' = 0 /\ to_take' = 0
        /\ pc' = [pc EXCEPT ![t] = "cleanup"]
        /\ UNCHANGED <<in_stack, out_stack, shutdown, waker_vars, arg, fresh, task_vars, sleep, dropped>>
    BY <1>5 DEF TakeOne, task_vars
  <2>2. pc' \in [Callers -> Pcs]
    BY <1>1, <2>1, ZenonT(40) DEF TypeOK, Pcs
  <2>3. TypeOK'
    BY <1>1, <2>1, <2>2 DEF TypeOK, Pcs, waker_vars, task_vars
  <2>4. LockDiscipline'
    BY CallersFacts, <1>1, <2>1 DEF LockDiscipline, TypeOK
  <2>5. RunsReadyTask' /\ PushesTask'
    BY <1>1, <2>1 DEF RunsReadyTask, PushesTask, TypeOK, task_vars
  <2>6. QED
    BY <2>3, <2>4, <2>5 DEF TInv
<1>6. CASE TakeOne(t) /\ ~shutdown
  <2>1. /\ pc[t] = "take" /\ to_take > 0 /\ to_take' = to_take - 1 /\ TryPop
        /\ tasks_map' = [tasks_map EXCEPT ![t] = @ \cup {PopResult}]
        /\ ready' = [ready EXCEPT ![t] = Append(@, PopResult)]
        /\ UNCHANGED <<pc, lock, shutdown, waker_vars, arg, fresh, waiting, yields,
                       finished, destroyed, sleep, dropped>>
    BY <1>6 DEF TakeOne
  <2>2. lock = t /\ to_take <= GetSize
    BY CallersFacts, <1>1, <2>1 DEF LockDiscipline
  <2>3. /\ in_stack' \in Seq(Tasks) /\ out_stack' \in Seq(Tasks)
        /\ PopResult \in Tasks /\ GetSize' = GetSize - 1
    BY <1>2, <2>1, <2>2, TryPopTypes
  <2>4. tasks_map' \in [Threads -> SUBSET Tasks] /\ ready' \in [Threads -> Seq(Tasks)]
    <3>1. tasks_map \in [Threads -> SUBSET Tasks] /\ ready \in [Threads -> Seq(Tasks)]
      BY <1>1 DEF TypeOK
    <3>2. /\ tasks_map[t] \cup {PopResult} \in SUBSET Tasks
          /\ Append(ready[t], PopResult) \in Seq(Tasks)
      BY <2>3, <3>1
    <3>3. QED
      BY <2>1, <3>1, <3>2
  <2>5. to_take' \in Nat /\ to_take' <= GetSize'
    BY <1>2, <2>1, <2>2, <2>3
  <2>6. TypeOK'
    BY <1>1, <2>1, <2>3, <2>4, <2>5, ZenonT(40) DEF TypeOK, waker_vars
  <2>7. LockDiscipline'
    BY <1>1, <2>1, <2>5 DEF LockDiscipline
  <2>8. \A u \in Threads : u # t => ready'[u] = ready[u]
    BY <1>1, <2>1 DEF TypeOK
  <2>9. RunsReadyTask' /\ PushesTask'
    BY <1>1, <2>1, <2>8, ZenonT(40) DEF RunsReadyTask, PushesTask
  <2>10. QED
    BY <2>6, <2>7, <2>9 DEF TInv
<1>7. CASE UnlockQueue(t)
  <2>1. /\ pc[t] = "take" /\ lock' = 0 /\ pc' = [pc EXCEPT ![t] = "poll"]
        /\ sleep' = [sleep EXCEPT ![t] = IsEmpty /\ ready[t] = <<>>]
        /\ UNCHANGED <<in_stack, out_stack, to_take, shutdown, waker_vars, arg, fresh, task_vars, dropped>>
    BY <1>7, Zenon DEF UnlockQueue
  <2>2. sleep' \in [Threads -> BOOLEAN]
    <3>1. (IsEmpty /\ ready[t] = <<>>) \in BOOLEAN /\ sleep \in [Threads -> BOOLEAN]
      BY <1>1 DEF TypeOK
    <3>2. QED
      BY <2>1, <3>1, ZenonT(40)
  <2>3. pc' \in [Callers -> Pcs]
    BY <1>1, <2>1, ZenonT(40) DEF TypeOK, Pcs
  <2>4. TypeOK'
    BY <1>1, <2>1, <2>2, <2>3 DEF TypeOK, Pcs, waker_vars, task_vars
  <2>5. LockDiscipline'
    BY CallersFacts, <1>1, <2>1 DEF LockDiscipline, TypeOK
  <2>6. RunsReadyTask' /\ PushesTask'
    BY <1>1, <2>1 DEF RunsReadyTask, PushesTask, TypeOK, task_vars
  <2>7. QED
    BY <2>4, <2>5, <2>6 DEF TInv
<1>8. QED
  BY <1>3, <1>4, <1>5, <1>6, <1>7 DEF Extract

\* The poll call.
LEMMA PollTypes == ASSUME TInv, FiniteMaps, NEW t \in Threads, Poll(t) PROVE TInv'
<1>1. TypeOK /\ LockDiscipline /\ RunsReadyTask /\ PushesTask
  BY DEF TInv
<1>2. tasks_map \in [Threads -> SUBSET Tasks] /\ ready \in [Threads -> Seq(Tasks)]
  BY <1>1 DEF TypeOK
<1>3. PICK S \in SUBSET (tasks_map[t] \cap waiting) :
        \E s \in Orders(S) : ready' = [ready EXCEPT ![t] = @ \o s]
  BY Zenon DEF Poll
<1>4. PICK s \in Orders(S) : ready' = [ready EXCEPT ![t] = @ \o s]
  BY <1>3, ZenonT(40)
<1>5. s \in Seq(Tasks)
  <2>1. IsFiniteSet(tasks_map[t]) /\ S \in SUBSET tasks_map[t]
    BY <1>3 DEF FiniteMaps
  <2>2. IsFiniteSet(S)
    BY <2>1, FS_Subset
  <2>3. PICK n \in Nat : n = Cardinality(S)
    BY <2>2, FS_CardinalityType
  <2>4. s \in [1 .. n -> Tasks]
    BY <1>2, <1>3, <1>4, <2>3 DEF Orders
  <2>5. QED
    BY <2>4
<1>6. ready' \in [Threads -> Seq(Tasks)] /\ \A u \in Threads : u # t => ready'[u] = ready[u]
  <2>1. ready[t] \o s \in Seq(Tasks)
    BY <1>2, <1>5
  <2>2. QED
    BY <1>2, <1>4, <2>1
<1>7. /\ pc[t] = "poll"
      /\ UNCHANGED <<queue_vars, shutdown, waker_vars, arg, fresh, tasks_map, waiting,
                     yields, finished, destroyed, sleep, dropped>>
  BY DEF Poll
<1>8. PICK x \in {"reset", "exec"} : pc' = [pc EXCEPT ![t] = x]
  BY ZenonT(40) DEF Poll
<1>9. pc' \in [Callers -> Pcs]
  BY <1>1, <1>8, ZenonT(40) DEF TypeOK, Pcs
<1>10. TypeOK'
  BY <1>1, <1>6, <1>7, <1>9, ZenonT(40) DEF TypeOK, Pcs, queue_vars, waker_vars
<1>11. LockDiscipline'
  BY <1>1, <1>7, <1>8 DEF LockDiscipline, TypeOK, GetSize, queue_vars
<1>12. RunsReadyTask' /\ PushesTask'
  BY <1>1, <1>6, <1>7, <1>8 DEF RunsReadyTask, PushesTask, TypeOK
<1>13. QED
  BY <1>10, <1>11, <1>12, ZenonT(40) DEF TInv

\* The cleanup of a thread that left its main loop.
LEMMA CleanupTypes == ASSUME TInv, NEW t \in Threads, Cleanup(t) PROVE TInv'
<1>1. TypeOK /\ LockDiscipline /\ RunsReadyTask /\ PushesTask
  BY DEF TInv
<1>2. /\ pc[t] = "cleanup" /\ pc' = [pc EXCEPT ![t] = "exited"]
      /\ destroyed' = destroyed \cup tasks_map[t] /\ waiting' = waiting \ tasks_map[t]
      /\ tasks_map' = [tasks_map EXCEPT ![t] = {}] /\ ready' = [ready EXCEPT ![t] = <<>>]
      /\ UNCHANGED <<queue_vars, shutdown, waker_vars, arg, fresh, yields, finished, sleep, dropped>>
  BY DEF Cleanup
<1>3. pc' \in [Callers -> Pcs] /\ destroyed' \subseteq Tasks /\ waiting' \subseteq Tasks
  BY <1>1, <1>2, ZenonT(40) DEF TypeOK, Pcs
<1>4. tasks_map' \in [Threads -> SUBSET Tasks] /\ ready' \in [Threads -> Seq(Tasks)]
  <2>1. tasks_map \in [Threads -> SUBSET Tasks] /\ ready \in [Threads -> Seq(Tasks)]
    BY <1>1 DEF TypeOK
  <2>2. QED
    BY <1>2, <2>1
<1>5. TypeOK'
  BY <1>1, <1>2, <1>3, <1>4, ZenonT(40) DEF TypeOK, Pcs, queue_vars, waker_vars
<1>6. LockDiscipline'
  BY <1>1, <1>2 DEF LockDiscipline, TypeOK, GetSize, queue_vars
<1>7. RunsReadyTask' /\ PushesTask'
  BY <1>1, <1>2 DEF RunsReadyTask, PushesTask, TypeOK
<1>8. QED
  BY <1>5, <1>6, <1>7 DEF TInv

\* The destructor of the runner.
LEMMA DestructorTypes == ASSUME TInv, BeginDestruction \/ Join PROVE TInv'
<1>1. TypeOK /\ LockDiscipline /\ RunsReadyTask /\ PushesTask
  BY DEF TInv
<1>2. CASE BeginDestruction
  <2>1. /\ pc[Owner] = "alive" /\ pc' = [pc EXCEPT ![Owner] = "swap"]
        /\ waking' = [waking EXCEPT ![Owner] = 1] /\ shutdown' = TRUE
        /\ UNCHANGED <<queue_vars, flag, pipe, arg, fresh, task_vars, sleep, dropped>>
    BY <1>2 DEF BeginDestruction, StartWakes
  <2>2. pc' \in [Callers -> Pcs] /\ LockDiscipline' /\ RunsReadyTask' /\ PushesTask'
    BY CallersFacts, <2>1, MoveTypes, ZenonT(40) DEF Pcs, queue_vars, task_vars
  <2>3. waking' \in [Callers -> Threads \cup {0}]
    BY CallersFacts, <1>1, <2>1 DEF TypeOK
  <2>4. TypeOK'
    BY <1>1, <2>1, <2>2, <2>3, ZenonT(40) DEF TypeOK, Pcs, queue_vars, task_vars
  <2>5. QED
    BY <2>2, <2>4 DEF TInv
<1>3. CASE Join
  <2>1. /\ pc[Owner] = "join" /\ pc' = [pc EXCEPT ![Owner] = "gone"]
        /\ \A t \in Threads : pc[t] = "exited"
        /\ destroyed' = destroyed \cup {in_stack[i] : i \in DOMAIN in_stack}
                                  \cup {out_stack[i] : i \in DOMAIN out_stack}
        /\ in_stack' = <<>> /\ out_stack' = <<>>
        /\ UNCHANGED <<lock, to_take, shutdown, waker_vars, arg, fresh, tasks_map,
                       ready, waiting, yields, finished, sleep, dropped>>
    BY <1>3, ZenonT(40) DEF Join
  <2> in_stack \in Seq(Tasks) /\ out_stack \in Seq(Tasks)
    BY <1>1, ZenonT(40) DEF TypeOK
  <2>2. /\ {in_stack[i] : i \in DOMAIN in_stack} \subseteq Tasks
        /\ {out_stack[i] : i \in DOMAIN out_stack} \subseteq Tasks
    OBVIOUS
  <2>3. /\ pc' \in [Callers -> Pcs] /\ destroyed' \subseteq Tasks
        /\ in_stack' \in Seq(Tasks) /\ out_stack' \in Seq(Tasks)
    BY CallersFacts, <1>1, <2>1, <2>2 DEF TypeOK, Pcs
  <2>4. TypeOK'
    BY <1>1, <2>1, <2>3, ZenonT(40) DEF TypeOK, Pcs, waker_vars
  <2>5. lock = 0
    BY <1>1, <2>1, ZenonT(40) DEF LockDiscipline, TypeOK
  <2>6. \A c \in Callers : pc'[c] = IF c = Owner THEN "gone" ELSE pc[c]
    BY <1>1, <2>1 DEF TypeOK
  <2>7. \A t \in Threads : pc'[t] \in {"exited", "gone"}
    BY CallersFacts, <2>1, <2>6
  <2>8. LockDiscipline'
    BY <2>1, <2>5, <2>7 DEF LockDiscipline
  <2>9. RunsReadyTask' /\ PushesTask'
    BY <1>1, <2>1, <2>6, <2>7 DEF RunsReadyTask, PushesTask
  <2>10. QED
    BY <2>4, <2>8, <2>9 DEF TInv
<1>4. QED
  BY <1>2, <1>3

-------------------------------------------------------------------------------
\* The tasks of a thread come one at a time, so they stay finitely many.
LEMMA FiniteMapsStep == ASSUME TInv, FiniteMaps, [Next]_vars PROVE FiniteMaps'
<1>1. \/ tasks_map' = tasks_map
      \/ \E t \in Threads, k \in Tasks : tasks_map' = [tasks_map EXCEPT ![t] = @ \cup {k}]
      \/ \E t \in Threads : \E k : tasks_map' = [tasks_map EXCEPT ![t] = @ \ {k}]
      \/ \E t \in Threads : tasks_map' = [tasks_map EXCEPT ![t] = {}]
  <2>1. ASSUME NEW t \in Threads, TakeOne(t)
        PROVE  tasks_map' = tasks_map
               \/ \E k \in Tasks : tasks_map' = [tasks_map EXCEPT ![t] = @ \cup {k}]
    <3>1. CASE shutdown
      BY <2>1, <3>1, Zenon DEF TakeOne
    <3>2. CASE ~shutdown
      <4>1. /\ pc[t] = "take" /\ to_take > 0 /\ TryPop
            /\ tasks_map' = [tasks_map EXCEPT ![t] = @ \cup {PopResult}]
        BY <2>1, <3>2, Zenon DEF TakeOne
      <4>2. /\ in_stack \in Seq(Tasks) /\ out_stack \in Seq(Tasks)
            /\ to_take <= GetSize /\ to_take \in Nat
        BY CallersFacts, <4>1 DEF TInv, TypeOK, LockDiscipline
      <4>3. GetSize > 0
        BY <4>1, <4>2 DEF GetSize
      <4>4. PopResult \in Tasks
        BY <4>1, <4>2, <4>3, TryPopTypes
      <4>5. QED
        BY <4>1, <4>4, Zenon
    <3>3. QED
      BY <3>1, <3>2
  <2>2. ASSUME NEW t \in Threads, RunnerThread(t), ~TakeOne(t)
        PROVE  \/ tasks_map' = tasks_map
               \/ \E k : tasks_map' = [tasks_map EXCEPT ![t] = @ \ {k}]
               \/ tasks_map' = [tasks_map EXCEPT ![t] = {}]
    BY <2>2, ZenonT(40) DEF RunnerThread, Execute, Extract, PollAndReset, Exec, ResumeDone, ResumeWaits,
       ResumeYields, FreeAddDiscards, FreeAdd, CheckShutdown, LockQueue, UnlockQueue, Poll,
       ResetSwap, ResetRead, Cleanup, task_vars
  <2>3. ASSUME NEW c \in Callers, Call(c) \/ Client(c) PROVE tasks_map' = tasks_map
    BY <2>3, Zenon DEF Call, Client, PushTask, WakeSwap, WakeWrite, ClientAdd, ClientAddDone, task_vars
  <2>4. ASSUME BeginDestruction \/ Join \/ UNCHANGED vars PROVE tasks_map' = tasks_map
    BY <2>4, ZenonT(40) DEF BeginDestruction, Join, vars, task_vars
  <2>5. QED
    BY CallersFacts, <2>1, <2>2, <2>3, <2>4, Zenon DEF Next, Done
<1>2. CASE tasks_map' = tasks_map
  BY <1>2 DEF FiniteMaps
<1>3. ASSUME NEW t \in Threads, NEW S \in SUBSET Tasks, IsFiniteSet(S),
             tasks_map' = [tasks_map EXCEPT ![t] = S]
      PROVE  FiniteMaps'
  BY <1>3 DEF FiniteMaps
<1>4. \A t \in Threads : tasks_map[t] \subseteq Tasks /\ IsFiniteSet(tasks_map[t])
  BY DEF FiniteMaps
<1>5. \A t \in Threads : \A k :
        IsFiniteSet(tasks_map[t] \cup {k}) /\ IsFiniteSet(tasks_map[t] \ {k})
  BY <1>4, FS_AddElement, FS_RemoveElement
<1>6. IsFiniteSet({})
  BY FS_EmptySet
<1>7. ASSUME NEW t \in Threads, NEW k \in Tasks, tasks_map' = [tasks_map EXCEPT ![t] = @ \cup {k}]
      PROVE  FiniteMaps'
  <2>1. tasks_map' = [tasks_map EXCEPT ![t] = tasks_map[t] \cup {k}]
    BY <1>7
  <2>2. tasks_map[t] \cup {k} \in SUBSET Tasks
    BY <1>4
  <2>3. QED
    BY <1>3, <1>5, <2>1, <2>2, ZenonT(40)
<1>8. ASSUME NEW t \in Threads, NEW k, tasks_map' = [tasks_map EXCEPT ![t] = @ \ {k}]
      PROVE  FiniteMaps'
  <2>1. tasks_map' = [tasks_map EXCEPT ![t] = tasks_map[t] \ {k}]
    BY <1>8
  <2>2. PICK S \in SUBSET Tasks : S = tasks_map[t] \ {k}
    BY <1>4, Zenon
  <2>3. IsFiniteSet(S)
    BY <1>5, <2>2, ZenonT(40)
  <2>4. QED
    BY <1>3, <2>1, <2>2, <2>3, ZenonT(40)
<1>9. ASSUME NEW t \in Threads, tasks_map' = [tasks_map EXCEPT ![t] = {}] PROVE FiniteMaps'
  <2>1. {} \in SUBSET Tasks
    OBVIOUS
  <2>2. QED
    BY <1>3, <1>6, <1>9, <2>1, ZenonT(40)
<1>10. QED
  BY <1>1, <1>2, <1>7, <1>8, <1>9, Zenon

\* The invariant holds initially.
LEMMA InitTInv == Init => TInv /\ FiniteMaps
<1> SUFFICES ASSUME Init PROVE TInv /\ FiniteMaps
  OBVIOUS
<1>1. pc \in [Callers -> {"exec", "alive", "idle"}]
  BY DEF Init
<1>2. /\ flag \in [Threads -> BOOLEAN] /\ pipe \in [Threads -> Nat]
      /\ waking \in [Callers -> Threads \cup {0}] /\ arg \in [Callers -> Tasks \cup {NoTask}]
      /\ sleep \in [Threads -> BOOLEAN] /\ tasks_map \in [Threads -> SUBSET Tasks]
  BY DEF Init
<1>3. ready \in [Threads -> Seq(Tasks)] /\ in_stack \in Seq(Tasks) /\ out_stack \in Seq(Tasks)
  BY DEF Init
<1>4. /\ lock = 0 /\ to_take = 0 /\ shutdown = FALSE /\ fresh = Tasks /\ waiting = {}
      /\ yields \in 0 .. MaxYields /\ finished = {} /\ destroyed = {} /\ dropped = {}
  BY ConstantsAssumption DEF Init
<1>5. TypeOK
  BY <1>1, <1>2, <1>3, <1>4, ZenonT(40) DEF TypeOK
<1>6. LockDiscipline /\ RunsReadyTask /\ PushesTask
  BY CallersFacts, <1>1, <1>4 DEF LockDiscipline, RunsReadyTask, PushesTask
<1>7. FiniteMaps
  BY <1>2, FS_EmptySet DEF Init, FiniteMaps
<1>8. QED
  BY <1>5, <1>6, <1>7 DEF TInv

\* Every step of the runner keeps the invariant.
LEMMA StepTInv == TInv /\ FiniteMaps /\ [Next]_vars => TInv' /\ FiniteMaps'
<1> SUFFICES ASSUME TInv, FiniteMaps, [Next]_vars PROVE TInv' /\ FiniteMaps'
  OBVIOUS
<1>1. ASSUME NEW c \in Callers, Call(c) PROVE TInv'
  BY <1>1, PushTypes, WakeTypes DEF Call
<1>2. ASSUME NEW t \in Threads, RunnerThread(t) PROVE TInv'
  BY <1>2, ExecuteTypes, ExtractTypes, PollTypes, ResetTypes, CleanupTypes
     DEF RunnerThread, PollAndReset
<1>3. ASSUME NEW c \in Clients, Client(c) PROVE TInv'
  BY CallersFacts, <1>3, AddTypes DEF Client
<1>4. ASSUME BeginDestruction \/ Join PROVE TInv'
  BY <1>4, DestructorTypes
<1>5. ASSUME UNCHANGED vars PROVE TInv'
  BY <1>5, ZenonT(40) DEF vars, queue_vars, waker_vars, task_vars, TInv, TypeOK, LockDiscipline,
     RunsReadyTask, PushesTask, GetSize
<1>6. TInv'
  BY <1>1, <1>2, <1>3, <1>4, <1>5 DEF Next, Done
<1>7. QED
  BY <1>6, FiniteMapsStep

\* The runner is type correct for any number of threads, clients and tasks; in
\* particular no thread pops from an empty queue or resumes a task it has not.
THEOREM RunnerTypeCorrect == SafeSpec => []TypeOK
<1>1. TInv => TypeOK
  BY DEF TInv
<1>2. QED
  BY <1>1, InitTInv, StepTInv, PTL DEF SafeSpec

=============================================================================
