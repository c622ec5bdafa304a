------------------------- MODULE RunnerOwnershipProofs -------------------------
(***************************************************************************)
(* Every root task is in one place: not yet passed to add_task, in the     *)
(* hands of one caller of add_task, once in the queue, in the map of one   *)
(* thread, or done.  From this it follows that threads own what they       *)
(* execute, and that the runner implements TaskPool: the queue of two      *)
(* stacks is a line, and each step of the runner is a step of the pool or  *)
(* changes nothing the pool speaks of.                                     *)
(***************************************************************************)
EXTENDS RunnerProofs

\* The provers to try, in this order, with their time limits in seconds.
USE SMTT(30), ZenonT(30), SMTT(40), SMTT(50), SMTT(60)

\* The queue as one line, its first task first.
LineOf(in, out) == QueueReverse(out) \o in
Line == LineOf(in_stack, out_stack)

\* No task is in the queue twice, in two maps, or in the queue and in a map.
Apart ==
  /\ \A i, j \in 1 .. Len(Line) : Line[i] = Line[j] => i = j
  /\ \A t, u \in Threads : t # u => tasks_map[t] \cap tasks_map[u] = {}
  /\ \A t \in Threads : \A i \in 1 .. Len(Line) : Line[i] \notin tasks_map[t]

NotAccepted(k) ==
  /\ \A i \in 1 .. Len(Line) : Line[i] # k
  /\ \A t \in Threads : k \notin tasks_map[t]
  /\ k \notin finished /\ k \notin destroyed

\* What is not yet in the queue was never there, and nobody else adds it.
Incoming ==
  /\ \A k \in fresh : NotAccepted(k)
  /\ \A c \in Callers : arg[c] # NoTask => arg[c] \notin fresh /\ NotAccepted(arg[c])
  /\ \A c, d \in Callers : arg[c] = arg[d] /\ arg[c] # NoTask => c = d

\* Where a thread is between the execution of its ready tasks and the next poll.
Extracting == {"check", "lock", "take", "poll"}

\* A ready task is in the map of its thread, once.  While new tasks are taken
\* from the queue, no ready task waits for a socket: poll will not find it again.
ReadyOwned ==
  \A t \in Threads :
    /\ \A i \in 1 .. Len(ready[t]) : ready[t][i] \in tasks_map[t]
    /\ \A i, j \in 1 .. Len(ready[t]) : ready[t][i] = ready[t][j] => i = j
    /\ pc[t] \in Extracting => \A i \in 1 .. Len(ready[t]) : ready[t][i] \notin waiting

WaitingOwned == \A k \in waiting : \E t \in Threads : k \in tasks_map[t]

\* A thread leaves its main loop only for the shutdown, and leaves no tasks.
ShutdownSeen ==
  /\ shutdown <=> pc[Owner] # "alive"
  /\ \A t \in Threads : pc[t] \in {"cleanup", "exited"} => shutdown
  /\ \A t \in Threads : pc[t] = "exited" => tasks_map[t] = {}

Ownership == Apart /\ Incoming /\ ReadyOwned /\ WaitingOwned

OInv == TInv /\ FiniteMaps /\ Ownership /\ ShutdownSeen

-------------------------------------------------------------------------------
(***************************************************************************)
(* The two stacks as a line.                                               *)
(***************************************************************************)
LEMMA ReverseElements ==
  ASSUME NEW out \in Seq(Tasks)
  PROVE  /\ QueueReverse(out) \in Seq(Tasks) /\ Len(QueueReverse(out)) = Len(out)
         /\ \A i \in 1 .. Len(out) : QueueReverse(out)[i] = out[Len(out) + 1 - i]
BY DEF QueueReverse

\* The line holds the popped end backwards, then the pushed end.
LEMMA LineElements ==
  ASSUME NEW in \in Seq(Tasks), NEW out \in Seq(Tasks)
  PROVE  /\ LineOf(in, out) \in Seq(Tasks)
         /\ Len(LineOf(in, out)) = Len(out) + Len(in)
         /\ \A i \in 1 .. Len(out) + Len(in) :
              LineOf(in, out)[i] = IF i <= Len(out) THEN out[Len(out) + 1 - i] ELSE in[i - Len(out)]
<1>1. PICK r : r = QueueReverse(out)
  OBVIOUS
<1>2. r \in Seq(Tasks) /\ Len(r) = Len(out)
  BY <1>1, ReverseElements
<1>3. \A i \in 1 .. Len(out) : r[i] = out[Len(out) + 1 - i]
  BY <1>1, ReverseElements
<1>4. /\ r \o in \in Seq(Tasks)
      /\ Len(r \o in) = Len(r) + Len(in)
      /\ \A i \in 1 .. Len(r) + Len(in) : (r \o in)[i] = IF i <= Len(r) THEN r[i] ELSE in[i - Len(r)]
  BY <1>2, ConcatProperties, ZenonT(40)
<1>5. LineOf(in, out) = r \o in
  BY <1>1 DEF LineOf
<1>6. PICK m \in Nat, n \in Nat : Len(out) = m /\ Len(in) = n
  <2>1. Len(out) \in Nat /\ Len(in) \in Nat
    OBVIOUS
  <2>2. QED
    BY <2>1, Zenon
<1>7. /\ r \o in \in Seq(Tasks) /\ Len(r \o in) = m + n
      /\ \A i \in 1 .. m + n : (r \o in)[i] = IF i <= m THEN r[i] ELSE in[i - m]
  BY <1>2, <1>4, <1>6
<1>8. \A i \in 1 .. m : r[i] = out[m + 1 - i]
  BY <1>3, <1>6
<1>9. \A i \in 1 .. m + n : (r \o in)[i] = IF i <= m THEN out[m + 1 - i] ELSE in[i - m]
  BY <1>7, <1>8
<1>10. QED
  BY <1>5, <1>6, <1>7, <1>9

\* The tasks in the queue are the tasks of the line.
LEMMA LineRange ==
  ASSUME in_stack \in Seq(Tasks), out_stack \in Seq(Tasks)
  PROVE  InQueue = {Line[i] : i \in 1 .. Len(Line)}
<1> DEFINE m == Len(out_stack)  n == Len(in_stack)
<1>1. /\ m \in Nat /\ n \in Nat
      /\ DOMAIN in_stack = 1 .. n /\ DOMAIN out_stack = 1 .. m
  OBVIOUS
<1>2. /\ Len(Line) = m + n
      /\ \A i \in 1 .. m + n : Line[i] = IF i <= m THEN out_stack[m + 1 - i] ELSE in_stack[i - m]
  BY LineElements, ZenonT(40) DEF Line
<1> HIDE DEF m, n
<1>3. ASSUME NEW k \in InQueue PROVE \E i \in 1 .. Len(Line) : Line[i] = k
  <2>1. CASE \E i \in 1 .. n : in_stack[i] = k
    <3>1. PICK i \in 1 .. n : in_stack[i] = k
      BY <2>1
    <3>2. i + m \in 1 .. Len(Line) /\ Line[i + m] = k
      BY <1>1, <1>2, <3>1
    <3>3. QED
      BY <3>2
  <2>2. CASE \E i \in 1 .. m : out_stack[i] = k
    <3>1. PICK i \in 1 .. m : out_stack[i] = k
      BY <2>2
    <3>2. m + 1 - i \in 1 .. Len(Line) /\ Line[m + 1 - i] = k
      BY <1>1, <1>2, <3>1
    <3>3. QED
      BY <3>2
  <2>3. QED
    BY <1>1, <2>1, <2>2 DEF InQueue
<1>4. ASSUME NEW i \in 1 .. Len(Line) PROVE Line[i] \in InQueue
  <2>1. i \in 1 .. m + n
    BY <1>2
  <2>2. CASE i <= m
    <3>1. m + 1 - i \in 1 .. m /\ Line[i] = out_stack[m + 1 - i]
      BY <1>1, <1>2, <2>1, <2>2
    <3>2. QED
      BY <1>1, <3>1 DEF InQueue
  <2>3. CASE ~(i <= m)
    <3>1. i - m \in 1 .. n /\ Line[i] = in_stack[i - m]
      BY <1>1, <1>2, <2>1, <2>3
    <3>2. QED
      BY <1>1, <3>1 DEF InQueue
  <2>4. QED
    BY <2>2, <2>3
<1>5. QED
  BY <1>3, <1>4

\* Push appends to the line.
LEMMA PushLine ==
  ASSUME in_stack \in Seq(Tasks), out_stack \in Seq(Tasks), NEW k \in Tasks, Push(k)
  PROVE  Line' = Append(Line, k)
<1> DEFINE r == QueueReverse(out_stack)
<1>1. r \in Seq(Tasks)
  BY DEF QueueReverse
<1>2. in_stack' = in_stack \o <<k>> /\ out_stack' = out_stack /\ <<k>> \in Seq(Tasks)
  BY AppendIsConcat DEF Push
<1>3. Line' = r \o (in_stack \o <<k>>) /\ Line = r \o in_stack
  BY <1>2 DEF Line, LineOf
<1> HIDE DEF r
<1>4. Line' = (r \o in_stack) \o <<k>>
  BY <1>1, <1>2, <1>3, ConcatAssociative
<1>5. Line \in Seq(Tasks)
  BY LineElements DEF Line
<1>6. QED
  BY <1>3, <1>4, <1>5, AppendIsConcat

\* TryPop takes the first task of the line.
LEMMA PopLine ==
  ASSUME in_stack \in Seq(Tasks), out_stack \in Seq(Tasks), GetSize > 0, TryPop
  PROVE  Line \in Seq(Tasks) /\ Line # <<>> /\ PopResult = Head(Line) /\ Line' = Tail(Line)
<1>1. in_stack' \in Seq(Tasks) /\ out_stack' \in Seq(Tasks) /\ GetSize' = GetSize - 1
  BY TryPopTypes
<1>2. /\ Line \in Seq(Tasks) /\ Len(Line) = GetSize
      /\ Line' \in Seq(Tasks) /\ Len(Line') = GetSize'
  BY <1>1, LineElements DEF GetSize, Line
<1>3. \E s \in Seq(Tasks) :
        /\ Len(s) > 0 /\ PopResult = s[Len(s)] /\ out_stack' = SubSeq(s, 1, Len(s) - 1)
        /\ Line = LineOf(in_stack', s)
  <2>1. CASE out_stack # <<>>
    BY <2>1 DEF TryPop, Refilled, PopResult, Line
  <2>2. CASE out_stack = <<>>
    <3> DEFINE s == QueueReverse(in_stack)
    <3>1. PICK n \in Nat : n = Len(in_stack)
      OBVIOUS
    <3>a. s \in Seq(Tasks) /\ Len(s) = n /\ n > 0
      BY <2>2, <3>1 DEF QueueReverse, GetSize
    <3>2. \A i \in 1 .. n : s[i] = in_stack[n + 1 - i]
      BY <2>2, <3>1 DEF QueueReverse
    <3>3. in_stack' = <<>> /\ out_stack' = SubSeq(s, 1, Len(s) - 1) /\ PopResult = s[Len(s)]
      BY <2>2 DEF TryPop, Refilled, PopResult
    <3> HIDE DEF s
    <3>4. PICK e \in Seq(Tasks) : e = <<>> /\ Len(e) = 0
      <4>1. <<>> \in Seq(Tasks) /\ Len(<<>>) = 0
        OBVIOUS
      <4>2. QED
        BY <4>1, Zenon
    <3>5. /\ LineOf(e, s) \in Seq(Tasks) /\ Len(LineOf(e, s)) = n
          /\ \A i \in 1 .. n : LineOf(e, s)[i] = s[n + 1 - i]
      <4>1. /\ LineOf(e, s) \in Seq(Tasks) /\ Len(LineOf(e, s)) = n + 0
            /\ \A i \in 1 .. n + 0 : LineOf(e, s)[i] = IF i <= n THEN s[n + 1 - i] ELSE e[i - n]
        <5>1. /\ LineOf(e, s) \in Seq(Tasks) /\ Len(LineOf(e, s)) = Len(s) + Len(e)
              /\ \A i \in 1 .. Len(s) + Len(e) :
                   LineOf(e, s)[i] = IF i <= Len(s) THEN s[Len(s) + 1 - i] ELSE e[i - Len(s)]
          BY <3>a, LineElements, ZenonT(40)
        <5>2. Len(e) = 0 /\ Len(s) = n
          BY <3>a, <3>4
        <5>3. QED
          BY <5>1, <5>2, ZenonT(40)
      <4>2. n + 0 = n
        OBVIOUS
      <4>3. QED
        BY <4>1, <4>2
    <3>6. Len(Line) = n /\ \A i \in 1 .. n : Line[i] = in_stack[i]
      <4>1. Len(out_stack) = 0
        BY <2>2
      <4>2. /\ Len(Line) = 0 + n
            /\ \A i \in 1 .. 0 + n : Line[i] = IF i <= 0 THEN out_stack[0 + 1 - i] ELSE in_stack[i - 0]
        <5>1. /\ Len(Line) = Len(out_stack) + Len(in_stack)
              /\ \A i \in 1 .. Len(out_stack) + Len(in_stack) :
                   Line[i] = IF i <= Len(out_stack) THEN out_stack[Len(out_stack) + 1 - i]
                                                    ELSE in_stack[i - Len(out_stack)]
          BY LineElements, ZenonT(40) DEF Line
        <5>2. QED
          BY <3>1, <4>1, <5>1, ZenonT(40)
      <4>3. 0 + n = n /\ \A i \in 1 .. n : ~(i <= 0) /\ i - 0 = i
        OBVIOUS
      <4>4. QED
        BY <4>2, <4>3
    <3>7. ASSUME NEW i \in 1 .. n PROVE LineOf(e, s)[i] = in_stack[i]
      <4>1. n + 1 - i \in 1 .. n /\ n + 1 - (n + 1 - i) = i
        OBVIOUS
      <4>2. s[n + 1 - i] = in_stack[i]
        BY <3>2, <4>1
      <4>3. QED
        BY <3>5, <4>2
    <3>8. Line = LineOf(in_stack', s)
      <4>1. Line = LineOf(e, s)
        <5>1. \A i \in 1 .. n : Line[i] = LineOf(e, s)[i]
          BY <3>6, <3>7, ZenonT(40)
        <5>2. Line \in Seq(Tasks) /\ LineOf(e, s) \in Seq(Tasks) /\ Len(Line) = Len(LineOf(e, s)) /\ Len(Line) = n
          BY <1>2, <3>5, <3>6
        <5>3. \A i \in 1 .. Len(Line) : Line[i] = LineOf(e, s)[i]
          BY <5>1, <5>2
        <5>4. QED
          BY <5>2, <5>3, SeqEqual, ZenonT(40)
      <4>2. QED
        BY <3>3, <3>4, <4>1
    <3>9. QED
      BY <3>a, <3>3, <3>8
  <2>3. QED
    BY <2>1, <2>2
<1>4. PICK s \in Seq(Tasks) :
        /\ Len(s) > 0 /\ PopResult = s[Len(s)] /\ out_stack' = SubSeq(s, 1, Len(s) - 1)
        /\ Line = LineOf(in_stack', s)
  BY <1>3
<1>5. PICK n \in Nat, m \in Nat : n + 1 = Len(s) /\ Len(in_stack') = m
  <2>1. Len(s) \in Nat /\ Len(s) > 0
    BY <1>4
  <2>2. Len(s) - 1 \in Nat /\ Len(s) - 1 + 1 = Len(s) /\ Len(in_stack') \in Nat
    BY <1>1, <2>1
  <2>3. QED
    BY <2>2, ZenonT(40)
<1>6. Len(out_stack') = n /\ \A i \in 1 .. n : out_stack'[i] = s[i]
  <2>1. out_stack' = SubSeq(s, 1, n) /\ n <= Len(s)
    BY <1>4, <1>5
  <2>2. \A i \in 1 .. n : s[i] \in Tasks
    BY <1>4, <1>5
  <2>3. QED
    BY <1>5, <2>1, <2>2, SubSeqProperties
<1>7. /\ Len(Line) = n + 1 + m /\ Len(Line') = n + m
      /\ \A i \in 1 .. n + 1 + m : Line[i] = IF i <= n + 1 THEN s[n + 1 + 1 - i] ELSE in_stack'[i - (n + 1)]
      /\ \A i \in 1 .. n + m : Line'[i] = IF i <= n THEN out_stack'[n + 1 - i] ELSE in_stack'[i - n]
  <2>1. n + 1 \in Nat /\ Len(s) = n + 1 /\ Len(in_stack') = m /\ Len(out_stack') = n
    BY <1>5, <1>6
  <2>2. /\ Len(LineOf(in_stack', s)) = n + 1 + m
        /\ \A i \in 1 .. n + 1 + m :
             LineOf(in_stack', s)[i] = IF i <= n + 1 THEN s[n + 1 + 1 - i] ELSE in_stack'[i - (n + 1)]
    <3>1. /\ Len(LineOf(in_stack', s)) = Len(s) + Len(in_stack')
          /\ \A i \in 1 .. Len(s) + Len(in_stack') :
               LineOf(in_stack', s)[i] = IF i <= Len(s) THEN s[Len(s) + 1 - i] ELSE in_stack'[i - Len(s)]
      BY <1>1, LineElements, ZenonT(40)
    <3>2. QED
      BY <2>1, <3>1, ZenonT(40)
  <2>3. /\ Len(LineOf(in_stack', out_stack')) = n + m
        /\ \A i \in 1 .. n + m :
             LineOf(in_stack', out_stack')[i] = IF i <= n THEN out_stack'[n + 1 - i] ELSE in_stack'[i - n]
    <3>1. /\ Len(LineOf(in_stack', out_stack')) = Len(out_stack') + Len(in_stack')
          /\ \A i \in 1 .. Len(out_stack') + Len(in_stack') :
               LineOf(in_stack', out_stack')[i] = IF i <= Len(out_stack') THEN out_stack'[Len(out_stack') + 1 - i]
                                                                          ELSE in_stack'[i - Len(out_stack')]
      BY <1>1, LineElements, ZenonT(40)
    <3>2. QED
      BY <2>1, <3>1, ZenonT(40)
  <2>4. Line = LineOf(in_stack', s) /\ Line' = LineOf(in_stack', out_stack')
    BY <1>4 DEF Line
  <2>5. QED
    BY <2>2, <2>3, <2>4
<1>8. Line # <<>> /\ Head(Line) = Line[1] /\ Line[1] = PopResult
  <2>1. Len(Line) > 0 /\ 1 \in 1 .. n + 1 + m /\ 1 <= n + 1 /\ n + 1 + 1 - 1 = Len(s)
    BY <1>5, <1>7
  <2>2. Line[1] = s[Len(s)]
    BY <1>7, <2>1
  <2>3. QED
    BY <1>2, <1>4, <2>1, <2>2
<1>9. Tail(Line) \in Seq(Tasks) /\ Len(Tail(Line)) = n + m /\ \A i \in 1 .. n + m : Tail(Line)[i] = Line[i + 1]
  BY <1>2, <1>7, <1>8, HeadTailProperties
<1>10. ASSUME NEW i \in 1 .. n + m PROVE Line'[i] = Line[i + 1]
  <2>1. i + 1 \in 1 .. n + 1 + m
    OBVIOUS
  <2>2. CASE i <= n
    <3>1. i + 1 <= n + 1 /\ n + 1 + 1 - (i + 1) = n + 1 - i /\ n + 1 - i \in 1 .. n
      BY <2>2
    <3>2. QED
      BY <1>6, <1>7, <2>1, <2>2, <3>1
  <2>3. CASE ~(i <= n)
    <3>1. ~(i + 1 <= n + 1) /\ i + 1 - (n + 1) = i - n
      BY <2>3
    <3>2. Line[i + 1] = in_stack'[i + 1 - (n + 1)]
      <4>1. Line[i + 1] = IF i + 1 <= n + 1 THEN s[n + 1 + 1 - (i + 1)] ELSE in_stack'[i + 1 - (n + 1)]
        <5>1. \A j \in 1 .. n + 1 + m : Line[j] = IF j <= n + 1 THEN s[n + 1 + 1 - j] ELSE in_stack'[j - (n + 1)]
          BY <1>7
        <5>2. PICK j \in 1 .. n + 1 + m : j = i + 1
          BY <2>1
        <5>3. Line[j] = IF j <= n + 1 THEN s[n + 1 + 1 - j] ELSE in_stack'[j - (n + 1)]
          BY <5>1
        <5>4. QED
          BY <5>2, <5>3
      <4>2. QED
        BY <3>1, <4>1, ZenonT(40)
    <3>3. Line'[i] = in_stack'[i - n]
      BY <1>7, <2>3, Zenon
    <3>4. QED
      BY <3>1, <3>2, <3>3
  <2>4. QED
    BY <2>2, <2>3
<1>11. Line' = Tail(Line)
  BY <1>2, <1>7, <1>9, <1>10, SeqEqual
<1>12. QED
  BY <1>2, <1>8, <1>11

\* The line of an empty queue.
LEMMA EmptyLine == LineOf(<<>>, <<>>) = <<>>
<1>1. PICK e : e = <<>>
  OBVIOUS
<1>2. e \in Seq(Tasks) /\ Len(e) = 0
  BY <1>1
<1>3. LineOf(e, e) \in Seq(Tasks) /\ Len(LineOf(e, e)) = Len(e) + Len(e)
  BY <1>2, LineElements, ZenonT(40)
<1>4. Len(LineOf(e, e)) = 0
  BY <1>2, <1>3
<1>5. LineOf(e, e) = <<>>
  BY <1>3, <1>4, EmptySeq
<1>6. QED
  BY <1>1, <1>5

\* A sequence without its first element, and with one more at the end.
LEMMA TailWithin ==
  ASSUME NEW S, NEW s \in Seq(S), s # <<>>
  PROVE  /\ Tail(s) \in Seq(S) /\ 1 \in 1 .. Len(s) /\ Head(s) = s[1]
         /\ \A i \in 1 .. Len(Tail(s)) :
              i + 1 \in 1 .. Len(s) /\ i + 1 # 1 /\ Tail(s)[i] = s[i + 1]
<1>1. PICK n \in Nat : n = Len(s)
  OBVIOUS
<1>2. n >= 1 /\ Len(Tail(s)) = n - 1 /\ Tail(s) \in Seq(S) /\ Head(s) = s[1]
  BY <1>1, HeadTailProperties, EmptySeq
<1>3. \A i \in 1 .. n - 1 : Tail(s)[i] = s[i + 1]
  BY <1>1, <1>2, HeadTailProperties
<1>4. \A i \in 1 .. n - 1 : i + 1 \in 1 .. n /\ i + 1 # 1
  BY <1>1
<1>5. QED
  BY <1>1, <1>2, <1>3, <1>4

LEMMA TailDistinct ==
  ASSUME NEW S, NEW s \in Seq(S), s # <<>>, \A i, j \in 1 .. Len(s) : s[i] = s[j] => i = j
  PROVE  /\ \A i \in 1 .. Len(Tail(s)) : Tail(s)[i] # Head(s)
         /\ \A i, j \in 1 .. Len(Tail(s)) : Tail(s)[i] = Tail(s)[j] => i = j
<1>1. ASSUME NEW i \in 1 .. Len(Tail(s)) PROVE Tail(s)[i] # Head(s)
  <2>1. i + 1 \in 1 .. Len(s) /\ i + 1 # 1 /\ Tail(s)[i] = s[i + 1] /\ 1 \in 1 .. Len(s) /\ Head(s) = s[1]
    BY TailWithin
  <2>2. s[i + 1] # s[1]
    BY <2>1
  <2>3. QED
    BY <2>1, <2>2
<1>2. ASSUME NEW i \in 1 .. Len(Tail(s)), NEW j \in 1 .. Len(Tail(s)), Tail(s)[i] = Tail(s)[j] PROVE i = j
  <2>1. i + 1 \in 1 .. Len(s) /\ Tail(s)[i] = s[i + 1] /\ j + 1 \in 1 .. Len(s) /\ Tail(s)[j] = s[j + 1]
    BY TailWithin
  <2>2. i + 1 = j + 1
    BY <1>2, <2>1
  <2>3. QED
    BY <2>2
<1>3. QED
  BY <1>1, <1>2

LEMMA AppendDistinct ==
  ASSUME NEW S, NEW s \in Seq(S), NEW k \in S,
         \A i, j \in 1 .. Len(s) : s[i] = s[j] => i = j, \A i \in 1 .. Len(s) : s[i] # k
  PROVE  /\ \A i \in 1 .. Len(Append(s, k)) :
              Append(s, k)[i] = k \/ \E j \in 1 .. Len(s) : Append(s, k)[i] = s[j]
         /\ \A i, j \in 1 .. Len(Append(s, k)) : Append(s, k)[i] = Append(s, k)[j] => i = j
<1>1. PICK n \in Nat : n = Len(s)
  OBVIOUS
<1>2. Len(Append(s, k)) = n + 1
  BY <1>1, AppendProperties
<1>3. \A i \in 1 .. n : i \in 1 .. n + 1 /\ Append(s, k)[i] = s[i] /\ s[i] # k
  BY <1>1, AppendProperties
<1>4. Append(s, k)[n + 1] = k
  BY <1>1, AppendProperties
<1>5. \A i \in 1 .. n + 1 : i = n + 1 \/ i \in 1 .. n
  BY <1>1
<1>6. \A i, j \in 1 .. n : s[i] = s[j] => i = j
  BY <1>1
<1>7. \A i \in 1 .. n + 1 : Append(s, k)[i] = k \/ \E j \in 1 .. n : Append(s, k)[i] = s[j]
  BY <1>3, <1>4, <1>5, ZenonT(40)
<1>8. \A i, j \in 1 .. n + 1 : Append(s, k)[i] = Append(s, k)[j] => i = j
  <2> SUFFICES ASSUME NEW i \in 1 .. n + 1, NEW j \in 1 .. n + 1, Append(s, k)[i] = Append(s, k)[j] PROVE i = j
    BY Zenon
  <2>1. CASE i \in 1 .. n /\ j \in 1 .. n
    BY <1>3, <1>6, <2>1, ZenonT(40)
  <2>2. CASE i = n + 1 /\ j \in 1 .. n
    BY <1>3, <1>4, <2>2, ZenonT(40)
  <2>3. CASE i \in 1 .. n /\ j = n + 1
    BY <1>3, <1>4, <2>3, ZenonT(40)
  <2>4. QED
    BY <1>5, <2>1, <2>2, <2>3, ZenonT(40)
<1>9. QED
  BY <1>1, <1>2, <1>7, <1>8

-------------------------------------------------------------------------------
(***************************************************************************)
(* Each task stays in one place: one lemma per kind of step.               *)
(***************************************************************************)
places == <<in_stack, out_stack, tasks_map, finished, destroyed, fresh, arg>>

\* A step that moves no task.
LEMMA KeepOwnership ==
  ASSUME OInv, UNCHANGED places, UNCHANGED <<ready, waiting>>,
         \A t \in Threads : pc'[t] \in Extracting => pc[t] \in Extracting \/ ready[t] = <<>>
  PROVE  Ownership'
<1>1. Line' = Line
  BY DEF places, Line
<1>2. Apart' /\ Incoming' /\ WaitingOwned'
  BY <1>1 DEF OInv, Ownership, Apart, Incoming, NotAccepted, WaitingOwned, places
<1>3. ReadyOwned'
  <2>1. ASSUME NEW t \in Threads, ready[t] = <<>> PROVE Len(ready[t]) = 0
    BY <2>1
  <2>2. QED
    BY <2>1 DEF OInv, Ownership, ReadyOwned, places
<1>4. QED
  BY <1>2, <1>3 DEF Ownership

\* A task is passed to add_task, or discarded by it.
LEMMA AddOwnership ==
  ASSUME OInv, NEW c \in Callers, NEW k \in fresh, fresh' = fresh \ {k},
         arg' = arg \/ arg' = [arg EXCEPT ![c] = k],
         UNCHANGED <<in_stack, out_stack, tasks_map, finished, destroyed, ready, waiting>>,
         \A t \in Threads : pc'[t] \in Extracting => pc[t] \in Extracting
  PROVE  Ownership'
<1>1. Line' = Line
  BY DEF Line
<1>2. Apart' /\ WaitingOwned' /\ ReadyOwned'
  BY <1>1 DEF OInv, Ownership, Apart, WaitingOwned, ReadyOwned
<1>3. \A j : NotAccepted(j)' <=> NotAccepted(j)
  BY <1>1 DEF NotAccepted
<1>4. arg \in [Callers -> Tasks \cup {NoTask}] /\ Incoming
  BY DEF OInv, TInv, TypeOK, Ownership
<1>5. Incoming'
  BY <1>3, <1>4 DEF Incoming
<1>6. QED
  BY <1>2, <1>5 DEF Ownership

\* A task is pushed into the queue.
LEMMA PushOwnership == ASSUME OInv, NEW c \in Callers, PushTask(c) PROVE Ownership'
<1> DEFINE k == arg[c]
<1>1. /\ pc[c] = "push" /\ Push(k) /\ arg' = [arg EXCEPT ![c] = NoTask] /\ pc' = [pc EXCEPT ![c] = "swap"]
      /\ UNCHANGED <<tasks_map, finished, destroyed, fresh, ready, waiting>>
  BY DEF PushTask, StartWakes, task_vars
<1>2. /\ k \in Tasks /\ in_stack \in Seq(Tasks) /\ out_stack \in Seq(Tasks)
      /\ arg \in [Callers -> Tasks \cup {NoTask}] /\ pc \in [Callers -> Pcs]
      /\ Apart /\ Incoming /\ ReadyOwned /\ WaitingOwned
  BY <1>1 DEF OInv, Ownership, TInv, TypeOK, PushesTask, Pcs
<1>3. k # NoTask
  BY <1>2, ConstantsAssumption
<1>4. Line' = Append(Line, k) /\ Line \in Seq(Tasks)
  BY <1>1, <1>2, PushLine, LineElements DEF Line
<1>5. /\ Len(Line') = Len(Line) + 1 /\ Len(Line) \in Nat
      /\ \A i \in 1 .. Len(Line) + 1 : Line'[i] = IF i = Len(Line) + 1 THEN k ELSE Line[i]
  BY <1>2, <1>4, AppendProperties
<1>6. NotAccepted(k)
  BY <1>2, <1>3 DEF Incoming
<1> HIDE DEF k
<1>7. Apart'
  <2>1. /\ \A i, j \in 1 .. Len(Line) : Line[i] = Line[j] => i = j
        /\ \A i \in 1 .. Len(Line) : Line[i] # k
    BY <1>2, <1>6 DEF Apart, NotAccepted
  <2>2. /\ \A i \in 1 .. Len(Line') : Line'[i] = k \/ \E j \in 1 .. Len(Line) : Line'[i] = Line[j]
        /\ \A i, j \in 1 .. Len(Line') : Line'[i] = Line'[j] => i = j
    BY <1>2, <1>4, <2>1, AppendDistinct
  <2>3. \A t \in Threads : k \notin tasks_map[t] /\ \A i \in 1 .. Len(Line) : Line[i] \notin tasks_map[t]
    BY <1>2, <1>6 DEF Apart, NotAccepted
  <2>4. \A t \in Threads : \A i \in 1 .. Len(Line') : Line'[i] \notin tasks_map'[t]
    BY <1>1, <2>2, <2>3
  <2>5. QED
    BY <1>1, <1>2, <2>2, <2>4 DEF Apart
<1>8. \A j : j # k /\ NotAccepted(j) => NotAccepted(j)'
  BY <1>1, <1>5 DEF NotAccepted
<1>9. Incoming'
  <2>1. \A d \in Callers : arg'[d] = IF d = c THEN NoTask ELSE arg[d]
    BY <1>1, <1>2
  <2>2. \A j \in fresh : j # k
    BY <1>2, <1>3 DEF Incoming, k
  <2>3. \A d \in Callers : d # c /\ arg[d] # NoTask => arg[d] # k
    BY <1>2, <1>3 DEF Incoming, k
  <2>4. QED
    BY <1>1, <1>2, <1>8, <2>1, <2>2, <2>3 DEF Incoming
<1>10. ReadyOwned' /\ WaitingOwned'
  BY <1>1, <1>2 DEF ReadyOwned, WaitingOwned, Extracting
<1>11. QED
  BY <1>7, <1>9, <1>10 DEF Ownership

\* A slice ends.
LEMMA ResumeOwnership ==
  ASSUME OInv, NEW t \in Threads, ResumeDone(t) \/ ResumeWaits(t) \/ ResumeYields(t)
  PROVE  Ownership'
<1> DEFINE k == Head(ready[t])
<1>1. /\ pc[t] = "run" /\ pc' = [pc EXCEPT ![t] = "exec"]
      /\ UNCHANGED <<in_stack, out_stack, destroyed, fresh, arg>>
  BY DEF ResumeDone, ResumeWaits, ResumeYields, queue_vars
<1>2. /\ ready \in [Threads -> Seq(Tasks)] /\ tasks_map \in [Threads -> SUBSET Tasks] /\ pc \in [Callers -> Pcs]
      /\ ready[t] # <<>> /\ Apart /\ Incoming /\ ReadyOwned /\ WaitingOwned
  BY <1>1 DEF OInv, Ownership, TInv, TypeOK, RunsReadyTask, Pcs
<1>3. /\ ready[t] \in Seq(Tasks) /\ Len(ready[t]) \in Nat /\ Len(ready[t]) >= 1 /\ k = ready[t][1]
      /\ Tail(ready[t]) \in Seq(Tasks) /\ Len(Tail(ready[t])) = Len(ready[t]) - 1
      /\ \A i \in 1 .. Len(ready[t]) - 1 : Tail(ready[t])[i] = ready[t][i + 1]
  <2>1. ready[t] \in Seq(Tasks)
    BY <1>2
  <2>2. QED
    BY <1>2, <2>1, HeadTailProperties
<1>4. k \in tasks_map[t]
  BY <1>2, <1>3 DEF ReadyOwned
<1>40. /\ \A i \in 1 .. Len(Tail(ready[t])) : Tail(ready[t])[i] \in tasks_map[t] /\ Tail(ready[t])[i] # k
       /\ \A i, j \in 1 .. Len(Tail(ready[t])) : Tail(ready[t])[i] = Tail(ready[t])[j] => i = j
  <2>1. /\ \A i, j \in 1 .. Len(ready[t]) : ready[t][i] = ready[t][j] => i = j
        /\ \A i \in 1 .. Len(ready[t]) : ready[t][i] \in tasks_map[t]
    BY <1>2 DEF ReadyOwned
  <2>2. /\ \A i \in 1 .. Len(Tail(ready[t])) : Tail(ready[t])[i] # k
        /\ \A i, j \in 1 .. Len(Tail(ready[t])) : Tail(ready[t])[i] = Tail(ready[t])[j] => i = j
    BY <1>2, <1>3, <2>1, TailDistinct
  <2>3. \A i \in 1 .. Len(Tail(ready[t])) : i + 1 \in 1 .. Len(ready[t]) /\ Tail(ready[t])[i] = ready[t][i + 1]
    BY <1>2, <1>3, TailWithin
  <2>4. QED
    BY <2>1, <2>2, <2>3
<1> HIDE DEF k
<1>5. Line' = Line
  BY <1>1 DEF Line
<1>6. CASE ResumeDone(t)
  <2>1. /\ tasks_map' = [tasks_map EXCEPT ![t] = tasks_map[t] \ {k}] /\ waiting' = waiting \ {k}
        /\ finished' = finished \cup {k} /\ ready' = [ready EXCEPT ![t] = Tail(ready[t])]
    BY <1>6 DEF ResumeDone, k
  <2>2. \A u \in Threads : tasks_map'[u] = (IF u = t THEN tasks_map[t] \ {k} ELSE tasks_map[u])
    BY <1>2, <2>1
  <2>3. \A u \in Threads : ready'[u] = (IF u = t THEN Tail(ready[t]) ELSE ready[u])
    BY <1>2, <2>1
  <2>4. Apart'
    BY <1>2, <1>5, <2>2 DEF Apart
  <2>5. Incoming'
    <3>1. \A j : NotAccepted(j) => NotAccepted(j)'
      BY <1>1, <1>4, <1>5, <2>1, <2>2 DEF NotAccepted
    <3>2. QED
      BY <1>1, <1>2, <3>1 DEF Incoming
  <2>6. WaitingOwned'
    BY <1>2, <2>1, <2>2 DEF WaitingOwned
  <2>7. ReadyOwned'
    <3>1. ASSUME NEW u \in Threads
          PROVE  /\ \A i \in 1 .. Len(ready'[u]) : ready'[u][i] \in tasks_map'[u]
                 /\ \A i, j \in 1 .. Len(ready'[u]) : ready'[u][i] = ready'[u][j] => i = j
                 /\ pc'[u] \in Extracting => \A i \in 1 .. Len(ready'[u]) : ready'[u][i] \notin waiting'
      <4>1. CASE u = t
        <5>1. /\ ready'[u] = Tail(ready[t]) /\ tasks_map'[u] = tasks_map[t] \ {k} /\ pc'[u] = "exec"
          BY <1>1, <1>2, <2>2, <2>3, <4>1, CallersFacts, ZenonT(40)
        <5>2. QED
          BY <1>40, <5>1 DEF Extracting
      <4>2. CASE u # t
        <5>1. /\ ready'[u] = ready[u] /\ tasks_map'[u] = tasks_map[u] /\ pc'[u] = pc[u]
          BY <1>1, <1>2, <2>2, <2>3, <4>2, CallersFacts
        <5>2. QED
          BY <1>2, <2>1, <5>1 DEF ReadyOwned
      <4>3. QED
        BY <4>1, <4>2
    <3>2. QED
      BY <3>1 DEF ReadyOwned
  <2>8. QED
    BY <2>4, <2>5, <2>6, <2>7 DEF Ownership
<1>7. CASE ResumeWaits(t) \/ ResumeYields(t)
  <2>1. /\ tasks_map' = tasks_map /\ finished' = finished
        /\ waiting' = waiting \cup {k} \/ waiting' = waiting \ {k}
        /\ ready' = ready \/ ready' = [ready EXCEPT ![t] = Tail(ready[t])]
    BY <1>7 DEF ResumeWaits, ResumeYields, k
  <2>2. Apart' /\ Incoming'
    BY <1>1, <1>2, <1>5, <2>1 DEF Apart, Incoming, NotAccepted
  <2>3. WaitingOwned'
    BY <1>2, <1>4, <2>1 DEF WaitingOwned
  <2>4. ReadyOwned'
    <3>1. ASSUME NEW u \in Threads
          PROVE  /\ \A i \in 1 .. Len(ready'[u]) : ready'[u][i] \in tasks_map[u]
                 /\ \A i, j \in 1 .. Len(ready'[u]) : ready'[u][i] = ready'[u][j] => i = j
                 /\ pc'[u] \in Extracting => \A i \in 1 .. Len(ready'[u]) : ready'[u][i] \notin waiting'
      <4>1. CASE u = t
        <5>1. (ready'[u] = Tail(ready[t]) \/ ready'[u] = ready[t]) /\ pc'[u] = "exec"
          BY <1>1, <1>2, <2>1, <4>1, CallersFacts
        <5>2. /\ \A i \in 1 .. Len(ready[t]) : ready[t][i] \in tasks_map[t]
              /\ \A i, j \in 1 .. Len(ready[t]) : ready[t][i] = ready[t][j] => i = j
          BY <1>2 DEF ReadyOwned
        <5>3. CASE ready'[u] = Tail(ready[t])
          BY <1>40, <4>1, <5>1, <5>3 DEF Extracting
        <5>4. CASE ready'[u] = ready[t]
          BY <4>1, <5>1, <5>2, <5>4 DEF Extracting
        <5>5. QED
          BY <5>1, <5>3, <5>4
      <4>2. CASE u # t
        <5>1. /\ ready'[u] = ready[u] /\ pc'[u] = pc[u]
          BY <1>1, <1>2, <2>1, <4>2, CallersFacts
        <5>2. k \notin tasks_map[u]
          BY <1>2, <1>4, <4>2 DEF Apart
        <5>3. QED
          BY <1>2, <2>1, <5>1, <5>2 DEF ReadyOwned
      <4>3. QED
        BY <4>1, <4>2
    <3>2. QED
      BY <2>1, <3>1 DEF ReadyOwned
  <2>5. QED
    BY <2>2, <2>3, <2>4 DEF Ownership
<1>8. QED
  BY <1>6, <1>7

\* The queue holds at least the tasks the thread that locked it has yet to take.
LEMMA TakesFromQueue ==
  ASSUME OInv, NEW t \in Threads, pc[t] = "take", to_take > 0 PROVE GetSize > 0
<1>1. lock = t /\ t # 0
  BY CallersFacts DEF OInv, TInv, LockDiscipline
<1>2. to_take <= GetSize
  BY <1>1 DEF OInv, TInv, LockDiscipline
<1>3. /\ in_stack \in Seq(Tasks) /\ out_stack \in Seq(Tasks) /\ to_take \in Nat
  BY DEF OInv, TInv, TypeOK
<1>4. GetSize \in Nat
  BY <1>3 DEF GetSize
<1>5. QED
  BY <1>2, <1>3, <1>4

\* A thread takes the first task of the queue.
LEMMA TakeOwnership == ASSUME OInv, NEW t \in Threads, TakeOne(t), ~shutdown PROVE Ownership'
<1> DEFINE k == PopResult
<1>1. /\ pc[t] = "take" /\ to_take > 0 /\ TryPop
      /\ tasks_map' = [tasks_map EXCEPT ![t] = tasks_map[t] \cup {k}]
      /\ ready' = [ready EXCEPT ![t] = Append(ready[t], k)]
      /\ UNCHANGED <<pc, waiting, finished, destroyed, fresh, arg>>
  BY DEF TakeOne
<1>2. /\ in_stack \in Seq(Tasks) /\ out_stack \in Seq(Tasks) /\ to_take \in Nat
      /\ ready \in [Threads -> Seq(Tasks)] /\ tasks_map \in [Threads -> SUBSET Tasks]
      /\ Apart /\ Incoming /\ ReadyOwned /\ WaitingOwned
  BY DEF OInv, Ownership, TInv, TypeOK
<1>3. GetSize > 0
  BY <1>1, TakesFromQueue
<1>4. k \in Tasks /\ Line \in Seq(Tasks) /\ Line # <<>> /\ k = Head(Line) /\ Line' = Tail(Line)
  BY <1>1, <1>2, <1>3, PopLine, TryPopTypes
<1> HIDE DEF k
<1>5. /\ 1 \in 1 .. Len(Line) /\ k = Line[1]
      /\ \A i \in 1 .. Len(Line') : i + 1 \in 1 .. Len(Line) /\ Line'[i] = Line[i + 1]
  BY <1>4, TailWithin
<1>6. \A u \in Threads : tasks_map'[u] = (IF u = t THEN tasks_map[t] \cup {k} ELSE tasks_map[u])
  BY <1>1, <1>2
<1>7. \A u \in Threads : k \notin tasks_map[u]
  BY <1>2, <1>5 DEF Apart
<1>8. /\ \A i \in 1 .. Len(Line') : Line'[i] # k
      /\ \A i, j \in 1 .. Len(Line') : Line'[i] = Line'[j] => i = j
  <2>1. \A i, j \in 1 .. Len(Line) : Line[i] = Line[j] => i = j
    BY <1>2 DEF Apart
  <2>2. QED
    BY <1>4, <2>1, TailDistinct
<1>9. Apart'
  <2>2. \A u, v \in Threads : u # v => tasks_map'[u] \cap tasks_map'[v] = {}
    <3>1. ASSUME NEW u \in Threads, NEW v \in Threads, u # v PROVE tasks_map'[u] \cap tasks_map'[v] = {}
      <4>1. tasks_map[u] \cap tasks_map[v] = {} /\ k \notin tasks_map[u] /\ k \notin tasks_map[v]
        BY <1>2, <1>7, <3>1 DEF Apart
      <4>2. CASE u = t
        <5>1. tasks_map'[u] = tasks_map[u] \cup {k} /\ tasks_map'[v] = tasks_map[v]
          BY <1>6, <3>1, <4>2
        <5>2. QED
          BY <4>1, <5>1
      <4>3. CASE u # t
        <5>1. tasks_map'[u] = tasks_map[u] /\ tasks_map'[v] \subseteq tasks_map[v] \cup {k}
          BY <1>6, <3>1, <4>3
        <5>2. QED
          BY <4>1, <5>1
      <4>4. QED
        BY <4>2, <4>3
    <3>2. QED
      BY <3>1
  <2>3. \A u \in Threads : \A i \in 1 .. Len(Line') : Line'[i] \notin tasks_map[u]
    BY <1>2, <1>5 DEF Apart
  <2>4. \A u \in Threads : \A i \in 1 .. Len(Line') : Line'[i] \notin tasks_map'[u]
    BY <1>6, <1>8, <2>3
  <2>5. QED
    BY <1>8, <2>2, <2>4 DEF Apart
<1>10. Incoming'
  <2>1. \A j : NotAccepted(j) => NotAccepted(j)'
    <3>1. ASSUME NEW j, NotAccepted(j) PROVE NotAccepted(j)'
      <4>1. j # k
        BY <1>5, <3>1 DEF NotAccepted
      <4>2. \A i \in 1 .. Len(Line') : Line'[i] # j
        BY <1>5, <3>1 DEF NotAccepted
      <4>3. QED
        BY <1>1, <1>6, <3>1, <4>1, <4>2 DEF NotAccepted
    <3>2. QED
      BY <3>1
  <2>2. QED
    BY <1>1, <1>2, <2>1 DEF Incoming
<1>11. WaitingOwned'
  BY <1>1, <1>2, <1>6 DEF WaitingOwned
<1>12. k \notin waiting
  BY <1>2, <1>7 DEF WaitingOwned
<1>13. ReadyOwned'
  <2>1. ASSUME NEW u \in Threads
        PROVE  /\ \A i \in 1 .. Len(ready'[u]) : ready'[u][i] \in tasks_map'[u]
               /\ \A i, j \in 1 .. Len(ready'[u]) : ready'[u][i] = ready'[u][j] => i = j
               /\ pc[u] \in Extracting => \A i \in 1 .. Len(ready'[u]) : ready'[u][i] \notin waiting
    <3>1. CASE u = t
      <4>1. ready[t] \in Seq(Tasks) /\ ready'[u] = Append(ready[t], k)
        BY <1>1, <1>2, <3>1
      <4>3. \A i \in 1 .. Len(ready[t]) : ready[t][i] \in tasks_map[t] /\ ready[t][i] # k
        BY <1>2, <1>7 DEF ReadyOwned
      <4>4. tasks_map'[u] = tasks_map[t] \cup {k}
        BY <1>6, <3>1
      <4>5. \A i \in 1 .. Len(ready[t]) : ready[t][i] \notin waiting
        BY <1>1, <1>2 DEF ReadyOwned, Extracting
      <4>6. \A i, j \in 1 .. Len(ready[t]) : ready[t][i] = ready[t][j] => i = j
        BY <1>2 DEF ReadyOwned
      <4>7. /\ \A i \in 1 .. Len(ready'[u]) : ready'[u][i] = k \/ \E j \in 1 .. Len(ready[t]) : ready'[u][i] = ready[t][j]
            /\ \A i, j \in 1 .. Len(ready'[u]) : ready'[u][i] = ready'[u][j] => i = j
        <5> DEFINE r == ready[t]
        <5>1. /\ r \in Seq(Tasks) /\ k \in Tasks
              /\ \A i, j \in 1 .. Len(r) : r[i] = r[j] => i = j
              /\ \A i \in 1 .. Len(r) : r[i] # k
          BY <1>4, <4>1, <4>3, <4>6
        <5>2. ready'[u] = Append(r, k)
          BY <4>1
        <5> HIDE DEF r
        <5>3. /\ \A i \in 1 .. Len(Append(r, k)) : Append(r, k)[i] = k \/ \E j \in 1 .. Len(r) : Append(r, k)[i] = r[j]
              /\ \A i, j \in 1 .. Len(Append(r, k)) : Append(r, k)[i] = Append(r, k)[j] => i = j
          BY <5>1, AppendDistinct
        <5>4. QED
          BY <5>2, <5>3 DEF r
      <4>8. QED
        BY <1>12, <4>3, <4>4, <4>5, <4>7
    <3>2. CASE u # t
      <4>1. ready'[u] = ready[u] /\ tasks_map'[u] = tasks_map[u]
        BY <1>1, <1>2, <1>6, <3>2
      <4>2. QED
        BY <1>2, <4>1 DEF ReadyOwned
    <3>3. QED
      BY <3>1, <3>2
  <2>2. QED
    BY <1>1, <2>1 DEF ReadyOwned
<1>14. QED
  BY <1>9, <1>10, <1>11, <1>13 DEF Ownership

\* The tasks poll finds ready are not in the ready list yet.
LEMMA PollOwnership == ASSUME OInv, NEW t \in Threads, Poll(t) PROVE Ownership'
<1>1. PICK S \in SUBSET (tasks_map[t] \cap waiting) :
        \E s \in Orders(S) : ready' = [ready EXCEPT ![t] = @ \o s]
  BY ZenonT(40) DEF Poll
<1>2. PICK s \in Orders(S) : ready' = [ready EXCEPT ![t] = ready[t] \o s]
  BY <1>1, ZenonT(40)
<1>3. /\ pc[t] = "poll" /\ UNCHANGED places /\ UNCHANGED waiting
      /\ pc' = [pc EXCEPT ![t] = IF pipe[t] > 0 THEN "reset" ELSE "exec"]
  BY DEF Poll, queue_vars, places
<1>4. /\ ready \in [Threads -> Seq(Tasks)] /\ tasks_map \in [Threads -> SUBSET Tasks] /\ pc \in [Callers -> Pcs]
      /\ Apart /\ Incoming /\ ReadyOwned /\ WaitingOwned
  BY DEF OInv, Ownership, TInv, TypeOK, Pcs
<1>5. Line' = Line
  BY <1>3 DEF Line, places
<1>6. Apart' /\ Incoming' /\ WaitingOwned'
  BY <1>3, <1>4, <1>5, ZenonT(40) DEF Apart, Incoming, NotAccepted, WaitingOwned, places
<1>7. PICK n \in Nat : n = Cardinality(S)
  <2>1. IsFiniteSet(tasks_map[t]) /\ S \in SUBSET tasks_map[t]
    BY <1>1 DEF OInv, FiniteMaps
  <2>2. IsFiniteSet(S)
    BY <2>1, FS_Subset
  <2>3. QED
    BY <2>2, FS_CardinalityType
<1>8. /\ s \in [1 .. n -> S] /\ \A i, j \in 1 .. n : s[i] = s[j] => i = j
  BY <1>2, <1>7 DEF Orders
<1>9. s \in Seq(Tasks) /\ Len(s) = n
  BY <1>1, <1>4, <1>8
<1>10. ready[t] \in Seq(Tasks)
  BY <1>4
<1>11. PICK m \in Nat : m = Len(ready[t])
  BY <1>10
<1>12. /\ Len(ready[t] \o s) = m + n
       /\ \A i \in 1 .. m + n : (ready[t] \o s)[i] = IF i <= m THEN ready[t][i] ELSE s[i - m]
  BY <1>9, <1>10, <1>11, ConcatProperties, ZenonT(40)
<1>13. \A i \in 1 .. n : s[i] \in tasks_map[t] /\ s[i] \in waiting
  BY <1>1, <1>8
<1>14. \A i \in 1 .. m : ready[t][i] \in tasks_map[t] /\ ready[t][i] \notin waiting
  BY <1>3, <1>4, <1>11 DEF ReadyOwned, Extracting
<1>15. \A i, j \in 1 .. m : ready[t][i] = ready[t][j] => i = j
  BY <1>4, <1>11 DEF ReadyOwned
<1>16. ReadyOwned'
  <2>1. ASSUME NEW u \in Threads
        PROVE  /\ \A i \in 1 .. Len(ready'[u]) : ready'[u][i] \in tasks_map[u]
               /\ \A i, j \in 1 .. Len(ready'[u]) : ready'[u][i] = ready'[u][j] => i = j
               /\ pc'[u] \in Extracting => \A i \in 1 .. Len(ready'[u]) : ready'[u][i] \notin waiting
    <3>1. CASE u = t
      <4>1. ready'[u] = ready[t] \o s /\ pc'[u] \notin Extracting
        BY <1>2, <1>3, <1>4, <3>1, CallersFacts DEF Extracting
      <4>2. \A i \in 1 .. m + n : (ready[t] \o s)[i] \in tasks_map[t]
        BY <1>12, <1>13, <1>14
      <4>3. \A i, j \in 1 .. m + n : (ready[t] \o s)[i] = (ready[t] \o s)[j] => i = j
        <5> SUFFICES ASSUME NEW i \in 1 .. m + n, NEW j \in 1 .. m + n,
                            (ready[t] \o s)[i] = (ready[t] \o s)[j]
                     PROVE  i = j
          BY ZenonT(40)
        <5>1. CASE i <= m /\ j <= m
          BY <1>12, <1>15, <5>1
        <5>2. CASE ~(i <= m) /\ ~(j <= m)
          <6>1. i - m \in 1 .. n /\ j - m \in 1 .. n /\ s[i - m] = s[j - m]
            BY <1>12, <5>2
          <6>2. i - m = j - m
            BY <1>8, <6>1
          <6>3. QED
            BY <6>2
        <5>3. CASE i <= m /\ ~(j <= m)
          <6>1. i \in 1 .. m /\ j - m \in 1 .. n /\ ready[t][i] = s[j - m]
            BY <1>12, <5>3
          <6>2. QED
            BY <1>13, <1>14, <6>1
        <5>4. CASE ~(i <= m) /\ j <= m
          <6>1. j \in 1 .. m /\ i - m \in 1 .. n /\ ready[t][j] = s[i - m]
            BY <1>12, <5>4
          <6>2. QED
            BY <1>13, <1>14, <6>1
        <5>5. QED
          BY <5>1, <5>2, <5>3, <5>4
      <4>4. QED
        BY <1>12, <3>1, <4>1, <4>2, <4>3
    <3>2. CASE u # t
      <4>1. ready'[u] = ready[u] /\ pc'[u] = pc[u]
        BY <1>2, <1>3, <1>4, <3>2, CallersFacts
      <4>2. QED
        BY <1>4, <4>1 DEF ReadyOwned
    <3>3. QED
      BY <3>1, <3>2
  <2>2. QED
    BY <1>3, <2>1 DEF ReadyOwned, places
<1>17. QED
  BY <1>6, <1>16 DEF Ownership

\* A thread destroys its tasks.
LEMMA CleanupOwnership == ASSUME OInv, NEW t \in Threads, Cleanup(t) PROVE Ownership'
<1>1. /\ pc[t] = "cleanup" /\ pc' = [pc EXCEPT ![t] = "exited"]
      /\ destroyed' = destroyed \cup tasks_map[t] /\ waiting' = waiting \ tasks_map[t]
      /\ tasks_map' = [tasks_map EXCEPT ![t] = {}] /\ ready' = [ready EXCEPT ![t] = <<>>]
      /\ UNCHANGED <<in_stack, out_stack, finished, fresh, arg>>
  BY DEF Cleanup, queue_vars
<1>2. /\ ready \in [Threads -> Seq(Tasks)] /\ tasks_map \in [Threads -> SUBSET Tasks] /\ pc \in [Callers -> Pcs]
      /\ Apart /\ Incoming /\ ReadyOwned /\ WaitingOwned
  BY DEF OInv, Ownership, TInv, TypeOK, Pcs
<1>3. /\ \A u \in Threads : tasks_map'[u] = (IF u = t THEN {} ELSE tasks_map[u])
      /\ \A u \in Threads : ready'[u] = (IF u = t THEN <<>> ELSE ready[u])
      /\ \A u \in Threads : u # t => pc'[u] = pc[u]
  BY <1>1, <1>2, CallersFacts
<1>4. Line' = Line
  BY <1>1 DEF Line
<1>5. Apart'
  BY <1>2, <1>3, <1>4, ZenonT(40) DEF Apart
<1>6. \A j : NotAccepted(j) => NotAccepted(j)'
  BY <1>1, <1>3, <1>4 DEF NotAccepted
<1>7. Incoming'
  BY <1>1, <1>2, <1>6 DEF Incoming
<1>8. WaitingOwned'
  BY <1>1, <1>2, <1>3 DEF WaitingOwned
<1>9. ReadyOwned'
  <2>1. Len(<<>>) = 0
    OBVIOUS
  <2>2. QED
    BY <1>1, <1>2, <1>3, <2>1 DEF ReadyOwned
<1>10. QED
  BY <1>5, <1>7, <1>8, <1>9 DEF Ownership

\* The queue goes away with the tasks in it.
LEMMA JoinOwnership == ASSUME OInv, Join PROVE Ownership'
<1>1. /\ pc' = [pc EXCEPT ![Owner] = "gone"] /\ in_stack' = <<>> /\ out_stack' = <<>>
      /\ destroyed' = destroyed \cup InQueue
      /\ UNCHANGED <<tasks_map, ready, waiting, finished, fresh, arg>>
  BY DEF Join, InQueue
<1>2. /\ in_stack \in Seq(Tasks) /\ out_stack \in Seq(Tasks) /\ pc \in [Callers -> Pcs]
      /\ Apart /\ Incoming /\ ReadyOwned /\ WaitingOwned
  BY DEF OInv, Ownership, TInv, TypeOK, Pcs
<1>3. Len(Line') = 0
  BY <1>1, EmptyLine DEF Line
<1>4. InQueue = {Line[i] : i \in 1 .. Len(Line)}
  BY <1>2, LineRange
<1>5. Apart'
  BY <1>1, <1>2, <1>3 DEF Apart
<1>6. \A j : NotAccepted(j) => NotAccepted(j)'
  BY <1>1, <1>3, <1>4 DEF NotAccepted
<1>7. Incoming'
  BY <1>1, <1>2, <1>6 DEF Incoming
<1>8. WaitingOwned' /\ ReadyOwned'
  BY <1>1, <1>2, CallersFacts DEF WaitingOwned, ReadyOwned
<1>9. QED
  BY <1>5, <1>7, <1>8 DEF Ownership

-------------------------------------------------------------------------------
(***************************************************************************)
(* The shutdown is seen.                                                   *)
(***************************************************************************)
\* A caller moves on, outside the destructor's first step.
LEMMA MoveShutdownSeen ==
  ASSUME OInv, NEW c \in Callers, NEW x \in Pcs, pc' = [pc EXCEPT ![c] = x], shutdown' = shutdown,
         pc[c] # "alive", x # "alive",
         x \in {"cleanup", "exited"} => c \in Threads /\ shutdown,
         \A t \in Threads : t # c => tasks_map'[t] = tasks_map[t],
         x = "exited" => tasks_map'[c] = {}
  PROVE  ShutdownSeen'
<1>1. pc \in [Callers -> Pcs] /\ ShutdownSeen
  BY DEF OInv, TInv, TypeOK, Pcs
<1>2. \A d \in Callers : pc'[d] = IF d = c THEN x ELSE pc[d]
  BY <1>1
<1>3. QED
  BY <1>1, <1>2, CallersFacts DEF ShutdownSeen

LEMMA StepShutdownSeen == ASSUME OInv, Next PROVE ShutdownSeen'
<1>1. pc \in [Callers -> Pcs] /\ ShutdownSeen
  BY DEF OInv, TInv, TypeOK, Pcs
<1>2. ASSUME NEW c \in Callers, Call(c) PROVE ShutdownSeen'
  <2>1. PICK x \in {"run", "join", "idle", "swap", "write"} : pc' = [pc EXCEPT ![c] = x]
    BY <1>2 DEF Call, PushTask, StartWakes, WakeSwap, WakeWrite, NextWaker, AfterWakes
  <2>2. pc[c] \in {"push", "swap", "write"} /\ shutdown' = shutdown /\ tasks_map' = tasks_map
    BY <1>2, ZenonT(40) DEF Call, PushTask, WakeSwap, WakeWrite, task_vars
  <2>3. QED
    BY <2>1, <2>2, MoveShutdownSeen, ZenonT(40) DEF Pcs
<1>3. ASSUME NEW t \in Threads, Execute(t) \/ Extract(t) \/ PollAndReset(t) PROVE ShutdownSeen'
  <2>1. CASE FreeAddDiscards(t)
    BY <1>1, <2>1, ZenonT(40) DEF FreeAddDiscards, ShutdownSeen, task_vars
  <2>2. CASE TakeOne(t) /\ ~shutdown
    BY <1>1, <2>2 DEF TakeOne, ShutdownSeen, OInv, TInv, TypeOK
  <2>3. CASE ~FreeAddDiscards(t) /\ ~(TakeOne(t) /\ ~shutdown)
    <3>1. \E x \in {"run", "exec", "check", "lock", "take", "poll", "reset", "read", "push"} \cup {"cleanup"} :
             pc' = [pc EXCEPT ![t] = x] /\ (x = "cleanup" => shutdown)
      BY <1>3, <2>3, ZenonT(40) DEF Execute, Extract, PollAndReset, Exec, ResumeDone, ResumeWaits, ResumeYields,
         FreeAdd, CheckShutdown, LockQueue, TakeOne, UnlockQueue, Poll, ResetSwap, ResetRead
    <3>2. PICK x \in {"run", "exec", "check", "lock", "take", "poll", "reset", "read", "push"} \cup {"cleanup"} :
             pc' = [pc EXCEPT ![t] = x] /\ (x = "cleanup" => shutdown)
      BY <3>1, ZenonT(40)
    <3>3. pc[t] # "alive" /\ shutdown' = shutdown
      BY <1>3, <2>3, ZenonT(40) DEF Execute, Extract, PollAndReset, Exec, ResumeDone, ResumeWaits, ResumeYields,
         FreeAdd, CheckShutdown, LockQueue, TakeOne, UnlockQueue, Poll, ResetSwap, ResetRead
    <3>4. tasks_map' = tasks_map \/ tasks_map' = [tasks_map EXCEPT ![t] = @ \ {Head(ready[t])}]
      BY <1>3, <2>3, ZenonT(40) DEF Execute, Extract, PollAndReset, Exec, ResumeDone, ResumeWaits, ResumeYields,
         FreeAdd, CheckShutdown, LockQueue, TakeOne, UnlockQueue, Poll, ResetSwap, ResetRead, task_vars
    <3>5. \A u \in Threads : u # t => tasks_map'[u] = tasks_map[u]
      BY <3>4 DEF OInv, TInv, TypeOK
    <3>6. QED
      BY CallersFacts, <3>2, <3>3, <3>5, MoveShutdownSeen, ZenonT(40) DEF Pcs
  <2>4. QED
    BY <2>1, <2>2, <2>3
<1>4. ASSUME NEW t \in Threads, Cleanup(t) PROVE ShutdownSeen'
  <2>1. /\ pc[t] = "cleanup" /\ pc' = [pc EXCEPT ![t] = "exited"] /\ shutdown' = shutdown
        /\ tasks_map' = [tasks_map EXCEPT ![t] = {}]
    BY <1>4 DEF Cleanup
  <2>2. \A u \in Threads : tasks_map'[u] = IF u = t THEN {} ELSE tasks_map[u]
    BY <2>1 DEF OInv, TInv, TypeOK
  <2>3. shutdown
    BY <1>1, <2>1 DEF ShutdownSeen
  <2>4. QED
    BY CallersFacts, <2>1, <2>2, <2>3, MoveShutdownSeen, ZenonT(40) DEF Pcs
<1>5. ASSUME NEW c \in Clients, Client(c) PROVE ShutdownSeen'
  <2>1. UNCHANGED shutdown /\ UNCHANGED tasks_map
    BY <1>5, ZenonT(40) DEF Client, ClientAddDone, ClientAdd, task_vars
  <2>2. pc'[Owner] = pc[Owner] /\ \A t \in Threads : pc'[t] = pc[t]
    BY CallersFacts, <1>1, <1>5, ConstantsAssumption DEF Client, ClientAddDone, ClientAdd
  <2>3. QED
    BY <1>1, <2>1, <2>2, ZenonT(40) DEF ShutdownSeen
<1>6. CASE BeginDestruction
  BY CallersFacts, <1>1, <1>6 DEF BeginDestruction, StartWakes, ShutdownSeen, task_vars
<1>7. CASE Join
  BY <1>1, <1>7 DEF Join, ShutdownSeen
<1>8. CASE Done
  BY <1>1, <1>8 DEF Done, ShutdownSeen, vars, task_vars
<1>9. QED
  BY <1>2, <1>3, <1>4, <1>5, <1>6, <1>7, <1>8 DEF Next, RunnerThread

-------------------------------------------------------------------------------
\* Every step of the runner keeps each task in one place.
LEMMA StepOwnership == ASSUME OInv, Next PROVE Ownership'
<1>0. pc \in [Callers -> Pcs]
  BY DEF OInv, TInv, TypeOK, Pcs
<1>1. ASSUME NEW c \in Callers, Call(c) PROVE Ownership'
  <2>1. CASE PushTask(c)
    BY <2>1, PushOwnership
  <2>2. CASE WakeSwap(c) \/ WakeWrite(c)
    <3>1. UNCHANGED places /\ UNCHANGED <<ready, waiting>>
      BY <2>2 DEF WakeSwap, WakeWrite, places, queue_vars, task_vars
    <3>2. PICK x \in {"run", "join", "idle", "swap", "write"} : pc' = [pc EXCEPT ![c] = x]
      BY <2>2 DEF WakeSwap, WakeWrite, NextWaker, AfterWakes
    <3>3. QED
      BY <1>0, <3>1, <3>2, KeepOwnership DEF Extracting
  <2>3. QED
    BY <1>1, <2>1, <2>2 DEF Call
<1>2. ASSUME NEW t \in Threads, Execute(t) PROVE Ownership'
  <2>1. CASE Exec(t)
    <3>1. UNCHANGED places /\ UNCHANGED <<ready, waiting>>
      BY <2>1, ZenonT(40) DEF Exec, places, queue_vars, task_vars
    <3>2. \A u \in Threads : pc'[u] \in Extracting => pc[u] \in Extracting \/ ready[u] = <<>>
      BY <1>0, <2>1 DEF Exec, Extracting
    <3>3. QED
      BY <3>1, <3>2, KeepOwnership, ZenonT(40)
  <2>2. CASE ResumeDone(t) \/ ResumeWaits(t) \/ ResumeYields(t)
    BY <2>2, ResumeOwnership
  <2>3. CASE FreeAddDiscards(t) \/ FreeAdd(t)
    <3>1. PICK k \in fresh : fresh' = fresh \ {k} /\ (arg' = arg \/ arg' = [arg EXCEPT ![t] = k])
      BY <2>3 DEF FreeAddDiscards, FreeAdd
    <3>2. /\ UNCHANGED <<in_stack, out_stack, tasks_map, finished, destroyed, ready, waiting>>
          /\ pc' = pc \/ pc' = [pc EXCEPT ![t] = "push"]
      BY <2>3 DEF FreeAddDiscards, FreeAdd, queue_vars, task_vars
    <3>3. \A u \in Threads : pc'[u] \in Extracting => pc[u] \in Extracting
      BY CallersFacts, <1>0, <3>2 DEF Extracting
    <3>4. QED
      BY CallersFacts, <3>1, <3>2, <3>3, AddOwnership
  <2>4. QED
    BY <1>2, <2>1, <2>2, <2>3 DEF Execute
<1>3. ASSUME NEW t \in Threads, Extract(t) PROVE Ownership'
  <2>1. CASE TakeOne(t) /\ ~shutdown
    BY <2>1, TakeOwnership
  <2>2. CASE ~(TakeOne(t) /\ ~shutdown)
    <3>1. UNCHANGED places /\ UNCHANGED <<ready, waiting>> /\ pc[t] \in Extracting
      BY <1>3, <2>2, ZenonT(40) DEF Extract, CheckShutdown, LockQueue, TakeOne, UnlockQueue, places, queue_vars, task_vars, Extracting
    <3>2. \E x : pc' = [pc EXCEPT ![t] = x]
      BY <1>3, <2>2 DEF Extract, CheckShutdown, LockQueue, TakeOne, UnlockQueue
    <3>3. \A u \in Threads : u # t => pc'[u] = pc[u]
      BY <1>0, <3>2
    <3>4. QED
      BY <3>1, <3>3, KeepOwnership
  <2>3. QED
    BY <2>1, <2>2
<1>4. ASSUME NEW t \in Threads, PollAndReset(t) PROVE Ownership'
  <2>1. CASE Poll(t)
    BY <2>1, PollOwnership
  <2>2. CASE ResetSwap(t) \/ ResetRead(t)
    BY CallersFacts, <1>0, <2>2, KeepOwnership, ZenonT(40) DEF ResetSwap, ResetRead, places, queue_vars, task_vars, Extracting
  <2>3. QED
    BY <1>4, <2>1, <2>2 DEF PollAndReset
<1>5. ASSUME NEW c \in Clients, Client(c) PROVE Ownership'
  <2>1. PICK k \in fresh : fresh' = fresh \ {k} /\ (arg' = arg \/ arg' = [arg EXCEPT ![c] = k])
    BY <1>5 DEF Client, ClientAddDone, ClientAdd
  <2>2. /\ UNCHANGED <<in_stack, out_stack, tasks_map, finished, destroyed, ready, waiting>>
        /\ pc' = pc \/ pc' = [pc EXCEPT ![c] = "push"]
    BY <1>5 DEF Client, ClientAddDone, ClientAdd, queue_vars, task_vars
  <2>3. \A u \in Threads : pc'[u] \in Extracting => pc[u] \in Extracting
    BY CallersFacts, <1>0, <2>2 DEF Extracting
  <2>4. QED
    BY CallersFacts, <2>1, <2>2, <2>3, AddOwnership
<1>6. CASE BeginDestruction
  BY <1>0, <1>6, KeepOwnership DEF BeginDestruction, StartWakes, places, queue_vars, task_vars, Extracting
<1>7. CASE Done
  BY <1>7, KeepOwnership DEF Done, vars, places, queue_vars, task_vars
<1>8. QED
  BY <1>1, <1>2, <1>3, <1>4, <1>5, <1>6, <1>7, CleanupOwnership, JoinOwnership DEF Next, RunnerThread

LEMMA InitOInv == Init => OInv
<1> SUFFICES ASSUME Init PROVE OInv
  OBVIOUS
<1>1. TInv /\ FiniteMaps
  BY InitTInv
<1>2. Len(Line) = 0
  BY EmptyLine DEF Init, Line
<1>3. Apart /\ Incoming /\ WaitingOwned
  BY <1>2 DEF Init, Apart, Incoming, NotAccepted, WaitingOwned
<1>4. ReadyOwned /\ ShutdownSeen
  BY CallersFacts DEF Init, ReadyOwned, ShutdownSeen, Extracting
<1>5. QED
  BY <1>1, <1>3, <1>4 DEF OInv, Ownership

LEMMA StepOInv == OInv /\ [Next]_vars => OInv'
<1> SUFFICES ASSUME OInv, [Next]_vars PROVE OInv'
  OBVIOUS
<1>1. TInv' /\ FiniteMaps'
  BY StepTInv DEF OInv
<1>2. CASE Next
  BY <1>1, <1>2, StepOwnership, StepShutdownSeen DEF OInv
<1>3. CASE UNCHANGED vars
  <2>1. Ownership'
    BY <1>3, KeepOwnership DEF vars, places, queue_vars, task_vars
  <2>2. ShutdownSeen'
    BY <1>3 DEF OInv, ShutdownSeen, vars, task_vars
  <2>3. QED
    BY <1>1, <2>1, <2>2 DEF OInv
<1>4. QED
  BY <1>2, <1>3

\* For any number of threads, clients and tasks: a thread executes and polls for
\* tasks of its own map only, none twice, and no other thread has them.
THEOREM ThreadsOwnTasks == SafeSpec => []ThreadsOwnTheirTasks
<1>1. OInv => ThreadsOwnTheirTasks
  <2> SUFFICES ASSUME OInv PROVE ThreadsOwnTheirTasks
    OBVIOUS
  <2>1. /\ ready \in [Threads -> Seq(Tasks)] /\ in_stack \in Seq(Tasks) /\ out_stack \in Seq(Tasks)
        /\ RunsReadyTask /\ Apart /\ ReadyOwned
    BY DEF OInv, TInv, TypeOK, Ownership
  <2>2. \A t \in Threads : DOMAIN ready[t] = 1 .. Len(ready[t])
    BY <2>1
  <2>3. InQueue = {Line[i] : i \in 1 .. Len(Line)}
    BY <2>1, LineRange
  <2>4. ASSUME NEW t \in Threads
        PROVE  /\ \A i \in DOMAIN ready[t] : ready[t][i] \in tasks_map[t]
               /\ \A i, j \in DOMAIN ready[t] : ready[t][i] = ready[t][j] => i = j
               /\ pc[t] = "run" => ready[t] # <<>>
    BY <2>1, <2>2, ZenonT(40) DEF RunsReadyTask, ReadyOwned
  <2>5. \A t, u \in Threads : t # u => tasks_map[t] \cap tasks_map[u] = {}
    BY <2>1 DEF Apart
  <2>6. \A t \in Threads : tasks_map[t] \cap InQueue = {}
    BY <2>1, <2>3 DEF Apart
  <2>7. QED
    BY <2>4, <2>5, <2>6 DEF ThreadsOwnTheirTasks
<1>2. QED
  BY <1>1, InitOInv, StepOInv, PTL DEF SafeSpec

-------------------------------------------------------------------------------
(***************************************************************************)
(* The runner implements TaskPool.                                         *)
(***************************************************************************)
\* A step that changes nothing the pool speaks of.
LEMMA PoolStutter ==
  ASSUME UNCHANGED <<in_stack, out_stack, tasks_map, finished, destroyed, shutdown>>
  PROVE  UNCHANGED Pool!poolVars
BY DEF Pool!poolVars, QueueReverse

\* A push is the acceptance of a task the pool has not known.
LEMMA PushRefines == ASSUME OInv, NEW c \in Callers, PushTask(c) PROVE Pool!Accept(arg[c]) /\ arg[c] \in Tasks
<1> DEFINE k == arg[c]
<1>1. /\ pc[c] = "push" /\ Push(k) /\ UNCHANGED <<tasks_map, finished, destroyed, shutdown>>
  BY DEF PushTask, task_vars
<1>2. /\ k \in Tasks /\ in_stack \in Seq(Tasks) /\ out_stack \in Seq(Tasks) /\ Incoming
  BY <1>1 DEF OInv, Ownership, TInv, TypeOK, PushesTask
<1>3. NotAccepted(k)
  BY <1>2, ConstantsAssumption DEF Incoming
<1>4. Line' = Append(Line, k) /\ Line \in Seq(Tasks)
  BY <1>1, <1>2, PushLine, LineElements, ZenonT(40) DEF Line
<1>5. DOMAIN Line = 1 .. Len(Line)
  BY <1>4
<1>6. k \notin Pool!Known
  <2> HIDE DEF k
  <2> SUFFICES ASSUME k \in Pool!Known PROVE FALSE
    OBVIOUS
  <2>1. \/ \E i \in DOMAIN Line : k = Line[i]
        \/ \E t \in Threads : k \in tasks_map[t]
        \/ k \in finished \/ k \in destroyed
    BY DEF Pool!Known, Line, LineOf
  <2>2. QED
    BY <1>3, <1>5, <2>1 DEF NotAccepted
<1>7. QED
  BY <1>1, <1>2, <1>4, <1>6 DEF Pool!Accept, Line, LineOf

\* A pop is the step of a worker that takes the first task of the line.
LEMMA TakeRefines == ASSUME OInv, NEW t \in Threads, TakeOne(t), ~shutdown PROVE Pool!Take(t)
<1>1. /\ pc[t] = "take" /\ to_take > 0 /\ TryPop
      /\ tasks_map' = [tasks_map EXCEPT ![t] = @ \cup {PopResult}]
      /\ UNCHANGED <<finished, destroyed, shutdown>>
  BY Zenon DEF TakeOne
<1>2. /\ in_stack \in Seq(Tasks) /\ out_stack \in Seq(Tasks)
  BY DEF OInv, TInv, TypeOK
<1>3. GetSize > 0
  BY <1>1, TakesFromQueue
<1>4. Line # <<>> /\ PopResult = Head(Line) /\ Line' = Tail(Line)
  BY <1>1, <1>2, <1>3, PopLine
<1>5. QED
  BY <1>1, <1>4 DEF Pool!Take, Line, LineOf

\* The end of a task, of a thread's tasks, and of the queue.
LEMMA FinishRefines ==
  ASSUME OInv, NEW t \in Threads, ResumeDone(t) PROVE \E k \in Tasks : Pool!Finish(t, k)
<1> DEFINE k == Head(ready[t])
<1>1. /\ pc[t] = "run" /\ tasks_map' = [tasks_map EXCEPT ![t] = @ \ {k}] /\ finished' = finished \cup {k}
      /\ UNCHANGED <<in_stack, out_stack, destroyed, shutdown>>
  BY DEF ResumeDone, queue_vars
<1>2. /\ ready[t] \in Seq(Tasks) /\ ready[t] # <<>> /\ ReadyOwned
  BY <1>1 DEF OInv, Ownership, TInv, TypeOK, RunsReadyTask
<1>3. k \in tasks_map[t] /\ k \in Tasks
  <2>1. 1 \in 1 .. Len(ready[t]) /\ k = ready[t][1] /\ k \in Tasks
    BY <1>2
  <2>2. ready[t][1] \in tasks_map[t]
    BY <1>2, <2>1 DEF ReadyOwned
  <2>3. QED
    BY <2>1, <2>2
<1>4. Pool!Finish(t, k)
  BY <1>1, <1>3 DEF Pool!Finish, QueueReverse
<1>5. QED
  BY <1>3, <1>4

LEMMA CleanupRefines == ASSUME OInv, NEW t \in Threads, Cleanup(t) PROVE Pool!GiveUp(t)
<1>1. shutdown
  BY DEF OInv, ShutdownSeen, Cleanup
<1>2. QED
  BY <1>1 DEF Cleanup, Pool!GiveUp, queue_vars, QueueReverse

LEMMA JoinRefines == ASSUME OInv, Join PROVE Pool!Dismantle
<1>1. /\ shutdown /\ \A t \in Threads : tasks_map[t] = {}
  BY DEF OInv, ShutdownSeen, Join
<1>2. /\ in_stack' = <<>> /\ out_stack' = <<>> /\ destroyed' = destroyed \cup InQueue
      /\ UNCHANGED <<tasks_map, finished, shutdown>>
  BY DEF Join, InQueue
<1>3. /\ in_stack \in Seq(Tasks) /\ out_stack \in Seq(Tasks)
  BY DEF OInv, TInv, TypeOK
<1>4. InQueue = {Line[i] : i \in DOMAIN Line}
  <2>1. Line \in Seq(Tasks)
    BY <1>3, LineElements DEF Line
  <2>2. DOMAIN Line = 1 .. Len(Line)
    BY <2>1
  <2>3. QED
    BY <1>3, <2>2, LineRange
<1>5. Line' = <<>>
  BY <1>2, EmptyLine DEF Line
<1>6. QED
  BY <1>1, <1>2, <1>4, <1>5 DEF Pool!Dismantle, Line, LineOf

\* Every step of the runner is a step of the pool, or the pool does not see it.
LEMMA StepRefines == OInv /\ [Next]_vars => [Pool!Next]_(Pool!poolVars)
<1> SUFFICES ASSUME OInv, [Next]_vars PROVE Pool!Next \/ UNCHANGED Pool!poolVars
  OBVIOUS
<1>1. ASSUME NEW c \in Callers, Call(c) PROVE Pool!Next \/ UNCHANGED Pool!poolVars
  <2>1. CASE PushTask(c)
    BY <2>1, PushRefines DEF Pool!Next
  <2>2. CASE WakeSwap(c) \/ WakeWrite(c)
    BY <2>2, PoolStutter DEF WakeSwap, WakeWrite, queue_vars, task_vars
  <2>3. QED
    BY <1>1, <2>1, <2>2 DEF Call
<1>2. ASSUME NEW t \in Threads, RunnerThread(t) PROVE Pool!Next \/ UNCHANGED Pool!poolVars
  <2>1. CASE ResumeDone(t)
    BY <2>1, FinishRefines DEF Pool!Next
  <2>2. CASE TakeOne(t) /\ ~shutdown
    BY <2>2, TakeRefines DEF Pool!Next
  <2>3. CASE Cleanup(t)
    BY <2>3, CleanupRefines DEF Pool!Next
  <2>4. CASE ~ResumeDone(t) /\ ~(TakeOne(t) /\ ~shutdown) /\ ~Cleanup(t)
    <3>1. UNCHANGED <<in_stack, out_stack, tasks_map, finished, destroyed, shutdown>>
      BY <1>2, <2>4, ZenonT(40) DEF RunnerThread, Execute, Extract, PollAndReset, Exec, ResumeWaits, ResumeYields,
         FreeAddDiscards, FreeAdd, CheckShutdown, LockQueue, TakeOne, UnlockQueue, Poll, ResetSwap,
         ResetRead, queue_vars, task_vars
    <3>2. QED
      BY <3>1, PoolStutter
  <2>5. QED
    BY <2>1, <2>2, <2>3, <2>4
<1>3. ASSUME NEW c \in Clients, Client(c) PROVE UNCHANGED Pool!poolVars
  BY <1>3, PoolStutter DEF Client, ClientAddDone, ClientAdd, queue_vars, task_vars
<1>4. CASE BeginDestruction
  <2>1. ~shutdown /\ shutdown' = TRUE /\ UNCHANGED <<in_stack, out_stack, tasks_map, finished, destroyed>>
    BY <1>4, ZenonT(40) DEF BeginDestruction, OInv, ShutdownSeen, queue_vars, task_vars
  <2>2. Pool!Close
    BY <2>1 DEF Pool!Close, QueueReverse
  <2>3. QED
    BY <2>2 DEF Pool!Next
<1>5. CASE Join
  BY <1>5, JoinRefines DEF Pool!Next
<1>6. CASE Done \/ UNCHANGED vars
  BY <1>6, PoolStutter DEF Done, vars, queue_vars, task_vars
<1>7. QED
  BY <1>1, <1>2, <1>3, <1>4, <1>5, <1>6 DEF Next

LEMMA InitRefines == Init => Pool!Init
<1> SUFFICES ASSUME Init PROVE Pool!Init
  OBVIOUS
<1>1. Line = <<>>
  BY EmptyLine DEF Init, Line
<1>2. QED
  BY <1>1 DEF Init, Pool!Init, Line, LineOf

\* For any number of threads, clients and tasks the runner implements the pool:
\* tasks are taken first in first out, each once, by one thread, and cancelled
\* only after the destructor has begun.
THEOREM RunnerImplementsPool == SafeSpec => PoolSpec
BY InitOInv, StepOInv, InitRefines, StepRefines, PTL DEF SafeSpec, PoolSpec, Pool!Spec

=============================================================================
