---------------------------- MODULE TaskLinksProofs ----------------------------
(***************************************************************************)
(* Facts about what TaskForest is built from: sequences without            *)
(* repetition, the links between the tasks of a map and what adding and    *)
(* removing a task does to them, and the ancestors of a task.              *)
(***************************************************************************)
EXTENDS TaskForest, SequenceTheorems, TLAPS

\* The provers to try, in this order, with their time limits in seconds.
USE SMTT(30), ZenonT(30), SMTT(40), SMTT(50), SMTT(60)

-------------------------------------------------------------------------------
(***************************************************************************)
(* The links of a map m of tasks.                                          *)
(***************************************************************************)
TaskMap(m) == DOMAIN m \subseteq Ids /\ m \in [DOMAIN m -> TaskRecords]

Parents(m) ==
  \A x \in DOMAIN m :
    /\ m[x].parent = 0 => m[x].prev_sibling = 0 /\ m[x].next_sibling = 0
    /\ m[x].parent # 0 =>
         /\ m[x].parent \in DOMAIN m /\ m[x].parent < x
         /\ m[m[x].parent].last_child # 0
         /\ m[x].next_sibling = 0 <=> m[m[x].parent].last_child = x

Prevs(m) ==
  \A x \in DOMAIN m :
    m[x].prev_sibling # 0 =>
      /\ m[x].prev_sibling \in DOMAIN m /\ m[x].prev_sibling < x
      /\ m[m[x].prev_sibling].next_sibling = x
      /\ m[m[x].prev_sibling].parent = m[x].parent

Nexts(m) ==
  \A x \in DOMAIN m :
    m[x].next_sibling # 0 =>
      /\ m[x].next_sibling \in DOMAIN m
      /\ m[m[x].next_sibling].prev_sibling = x

LastChildren(m) ==
  \A x \in DOMAIN m :
    m[x].last_child # 0 =>
      /\ m[x].last_child \in DOMAIN m
      /\ m[m[x].last_child].parent = x
      /\ m[m[x].last_child].next_sibling = 0

\* Nothing is missing between two neighbours.
Neighbours(m) ==
  \A x, y \in DOMAIN m :
    m[x].parent # 0 /\ m[x].parent = m[y].parent /\ x < y =>
      /\ m[x].next_sibling # 0 /\ m[x].next_sibling <= y
      /\ m[y].prev_sibling # 0 /\ x <= m[y].prev_sibling

Forest(m) == TaskMap(m) /\ Parents(m) /\ Prevs(m) /\ Nexts(m) /\ LastChildren(m) /\ Neighbours(m)

-------------------------------------------------------------------------------
(***************************************************************************)
(* The order of execution.                                                  *)
(***************************************************************************)
\* A set with the parents of its members.
Upward(m, S) == \A y \in S : m[y].parent # 0 => m[y].parent \in S

\* A task, its parent and so on.
Ancestors(m, x) == {a \in DOMAIN m : \A S \in SUBSET DOMAIN m : x \in S /\ Upward(m, S) => a \in S}

\* Task x may be executed before the waiting task b: b is no older sibling of x or
\* of an ancestor of x.
Before(m, x, b) ==
  \A a \in Ancestors(m, x) : m[a].parent # 0 /\ m[a].parent = m[b].parent /\ a # b => a < b

-------------------------------------------------------------------------------
(***************************************************************************)
(* Sequences without repetition.                                           *)
(***************************************************************************)
LEMMA AppendFacts ==
  ASSUME NEW S, NEW s \in Seq(S), NEW k \in S
  PROVE  /\ Append(s, k) \in Seq(S)
         /\ \A i \in DOMAIN Append(s, k) : i = Len(s) + 1 \/ i \in DOMAIN s
         /\ \A i \in DOMAIN s : Append(s, k)[i] = s[i] /\ i < Len(s) + 1
         /\ Append(s, k)[Len(s) + 1] = k
         /\ Range(Append(s, k)) = Range(s) \cup {k}
         /\ IsInjective(s) /\ k \notin Range(s) => IsInjective(Append(s, k))
<1>1. PICK n \in Nat : n = Len(s) /\ DOMAIN s = 1 .. n
  OBVIOUS
<1>2. PICK a : a = Append(s, k)
  BY Zenon
<1>3. a \in Seq(S) /\ Len(a) = n + 1 /\ DOMAIN a = 1 .. n + 1 /\ a[n + 1] = k
  BY <1>1, <1>2, AppendProperties
<1>4. \A i \in 1 .. n : a[i] = s[i]
  BY <1>1, <1>2, AppendProperties
<1>5. \A i \in 1 .. n + 1 : i = n + 1 \/ i \in 1 .. n
  BY <1>1
<1>6. \A i \in 1 .. n : i < n + 1 /\ i \in 1 .. n + 1 /\ i # n + 1
  BY <1>1
<1>7. n + 1 \in 1 .. n + 1
  BY <1>1
<1>8. Range(a) = Range(s) \cup {k}
  BY <1>1, <1>3, <1>4, <1>5, <1>6, <1>7, Zenon DEF Range
<1>9. ASSUME IsInjective(s), k \notin Range(s) PROVE IsInjective(a)
  <2>1. \A i, j \in 1 .. n : s[i] = s[j] => i = j
    BY <1>1, <1>9 DEF IsInjective
  <2>2. \A i \in 1 .. n : s[i] # k
    BY <1>1, <1>9 DEF Range
  <2>3. \A i, j \in 1 .. n + 1 : a[i] = a[j] => i = j
    BY <1>3, <1>4, <1>5, <2>1, <2>2, Zenon
  <2>4. QED
    BY <1>3, <2>3 DEF IsInjective
<1>10. QED
  BY <1>1, <1>2, <1>3, <1>4, <1>5, <1>6, <1>8, <1>9

LEMMA PopFacts ==
  ASSUME NEW S, NEW s \in Seq(S), s # <<>>, IsInjective(s)
  PROVE  /\ Pop(s) \in Seq(S) /\ IsInjective(Pop(s))
         /\ Len(s) \in DOMAIN s /\ Top(s) = s[Len(s)] /\ Top(s) \in Range(s) /\ Top(s) \in S
         /\ \A i \in DOMAIN Pop(s) : i \in DOMAIN s /\ i < Len(s) /\ Pop(s)[i] = s[i]
         /\ Range(Pop(s)) = Range(s) \ {Top(s)}
<1>1. PICK n \in Nat : n = Len(s) /\ DOMAIN s = 1 .. n /\ n >= 1
  BY EmptySeq
<1>2. PICK q : q = SubSeq(s, 1, n - 1)
  BY Zenon
<1>3. \A i \in 1 .. n : s[i] \in S
  BY <1>1
<1>4. \A i \in 1 .. n - 1 : i \in 1 .. n /\ i < n /\ i # n
  BY <1>1
<1>5. n - 1 \in Int /\ n \in 1 .. n /\ \A i \in 1 .. n - 1 : s[i] \in S
  BY <1>1, <1>3, <1>4
<1>6. q \in Seq(S) /\ Len(q) = IF 1 <= n - 1 THEN n - 1 - 1 + 1 ELSE 0
  BY <1>2, <1>5, SubSeqProperties
<1>7. \A i \in 1 .. n - 1 - 1 + 1 : q[i] = s[1 + i - 1]
  BY <1>2, <1>5, SubSeqProperties
<1>8. Len(q) = n - 1 /\ DOMAIN q = 1 .. n - 1
  BY <1>1, <1>6
<1>9. \A i \in 1 .. n - 1 : q[i] = s[i]
  <2>1. \A i \in 1 .. n - 1 : i \in 1 .. n - 1 - 1 + 1 /\ 1 + i - 1 = i
    BY <1>1
  <2>2. QED
    BY <1>7, <2>1
<1>10. \A i, j \in 1 .. n : s[i] = s[j] => i = j
  BY <1>1 DEF IsInjective
<1>11. IsInjective(q)
  BY <1>4, <1>8, <1>9, <1>10, Zenon DEF IsInjective
<1>12. \A i \in 1 .. n : i = n \/ i \in 1 .. n - 1
  BY <1>1
<1>13. Range(q) = Range(s) \ {s[n]}
  <2>1. ASSUME NEW x \in Range(q) PROVE x \in Range(s) \ {s[n]}
    <3>1. PICK i \in 1 .. n - 1 : x = q[i]
      BY <1>8 DEF Range
    <3>2. x = s[i] /\ i \in 1 .. n /\ s[i] # s[n]
      BY <1>4, <1>5, <1>9, <1>10, <3>1, Zenon
    <3>3. QED
      BY <1>1, <3>2 DEF Range
  <2>2. ASSUME NEW x \in Range(s) \ {s[n]} PROVE x \in Range(q)
    <3>1. PICK i \in 1 .. n : x = s[i]
      BY <1>1 DEF Range
    <3>2. i \in 1 .. n - 1 /\ x = q[i]
      BY <1>9, <1>12, <3>1, Zenon
    <3>3. QED
      BY <1>8, <3>2 DEF Range
  <2>3. QED
    BY <2>1, <2>2
<1>14. Pop(s) = q /\ Top(s) = s[n]
  BY <1>1, <1>2 DEF Pop, Top
<1>15. s[n] \in Range(s) /\ s[n] \in S
  BY <1>1, <1>3, <1>5 DEF Range
<1>16. QED
  BY <1>1, <1>4, <1>5, <1>6, <1>8, <1>9, <1>11, <1>13, <1>14, <1>15

LEMMA TailFacts ==
  ASSUME NEW S, NEW s \in Seq(S), s # <<>>, IsInjective(s)
  PROVE  /\ Tail(s) \in Seq(S) /\ IsInjective(Tail(s))
         /\ Head(s) \in S /\ Head(s) \in Range(s) /\ Range(Tail(s)) = Range(s) \ {Head(s)}
<1>1. PICK n \in Nat : n = Len(s) /\ DOMAIN s = 1 .. n /\ n >= 1
  BY EmptySeq
<1>2. PICK q : q = Tail(s)
  BY Zenon
<1>3. q \in Seq(S) /\ Len(q) = n - 1 /\ DOMAIN q = 1 .. n - 1 /\ Head(s) = s[1] /\ Head(s) \in S
  BY <1>1, <1>2, HeadTailProperties
<1>4. \A i \in 1 .. n - 1 : q[i] = s[i + 1]
  BY <1>1, <1>2, <1>3, HeadTailProperties
<1>5. \A i \in 1 .. n - 1 : i + 1 \in 1 .. n /\ i + 1 # 1
  BY <1>1
<1>6. \A i, j \in 1 .. n : s[i] = s[j] => i = j
  BY <1>1 DEF IsInjective
<1>7. \A i, j \in 1 .. n - 1 : i + 1 = j + 1 => i = j
  BY <1>1
<1>8. IsInjective(q)
  <2>1. \A i, j \in 1 .. n - 1 : q[i] = q[j] => i + 1 = j + 1
    BY <1>4, <1>5, <1>6, Zenon
  <2>2. QED
    BY <1>3, <1>7, <2>1, ZenonT(40) DEF IsInjective
<1>9. 1 \in 1 .. n /\ \A i \in 1 .. n : i = 1 \/ \E j \in 1 .. n - 1 : i = j + 1
  <2>1. \A i \in 1 .. n : i = 1 \/ (i - 1 \in 1 .. n - 1 /\ i = (i - 1) + 1)
    BY <1>1
  <2>2. QED
    BY <1>1, <2>1
<1>10. Range(q) = Range(s) \ {s[1]}
  <2>1. ASSUME NEW x \in Range(q) PROVE x \in Range(s) \ {s[1]}
    <3>1. PICK i \in 1 .. n - 1 : x = q[i]
      BY <1>3 DEF Range
    <3>2. x = s[i + 1] /\ i + 1 \in 1 .. n /\ s[i + 1] # s[1]
      BY <1>4, <1>5, <1>6, <1>9, <3>1, Zenon
    <3>3. QED
      BY <1>1, <3>2 DEF Range
  <2>2. ASSUME NEW x \in Range(s) \ {s[1]} PROVE x \in Range(q)
    <3>1. PICK i \in 1 .. n : x = s[i]
      BY <1>1 DEF Range
    <3>2. PICK j \in 1 .. n - 1 : i = j + 1
      BY <1>9, <3>1, Zenon
    <3>3. x = q[j]
      BY <1>4, <3>1, <3>2
    <3>4. QED
      BY <1>3, <3>3 DEF Range
  <2>3. QED
    BY <2>1, <2>2
<1>11. QED
  <2>1. s[1] \in Range(s)
    BY <1>1, <1>9 DEF Range
  <2>2. QED
    BY <1>2, <1>3, <1>8, <1>10, <2>1

LEMMA ConcatFacts ==
  ASSUME NEW S, NEW s \in Seq(S), NEW u \in Seq(S)
  PROVE  /\ s \o u \in Seq(S) /\ Range(s \o u) = Range(s) \cup Range(u)
         /\ IsInjective(s) /\ IsInjective(u) /\ Range(s) \cap Range(u) = {} => IsInjective(s \o u)
<1>1. PICK n \in Nat : n = Len(s) /\ DOMAIN s = 1 .. n
  OBVIOUS
<1>2. PICK k \in Nat : k = Len(u) /\ DOMAIN u = 1 .. k
  OBVIOUS
<1>3. PICK c : c = s \o u
  BY Zenon
<1>4. c \in Seq(S) /\ Len(c) = n + k /\ DOMAIN c = 1 .. n + k
  BY <1>1, <1>2, <1>3, ConcatProperties
<1>5. \A i \in 1 .. n + k : c[i] = IF i <= n THEN s[i] ELSE u[i - n]
  BY <1>1, <1>2, <1>3, ConcatProperties
<1>6. \A i \in 1 .. n : i \in 1 .. n + k /\ c[i] = s[i]
  <2>1. \A i \in 1 .. n : i \in 1 .. n + k /\ i <= n
    BY <1>1, <1>2
  <2>2. QED
    BY <1>5, <2>1
<1>7. \A i \in 1 .. k : n + i \in 1 .. n + k /\ c[n + i] = u[i]
  <2>1. \A i \in 1 .. k : n + i \in 1 .. n + k /\ ~(n + i <= n) /\ n + i - n = i
    BY <1>1, <1>2
  <2>2. QED
    BY <1>5, <2>1
<1>8. \A i \in 1 .. n + k : i \in 1 .. n \/ \E j \in 1 .. k : i = n + j
  <2>1. \A i \in 1 .. n + k : i \in 1 .. n \/ (i - n \in 1 .. k /\ i = n + (i - n))
    BY <1>1, <1>2
  <2>2. QED
    BY <2>1
<1>9. Range(c) = Range(s) \cup Range(u)
  <2>1. ASSUME NEW x \in Range(c) PROVE x \in Range(s) \cup Range(u)
    <3>1. PICK i \in 1 .. n + k : x = c[i]
      BY <1>4 DEF Range
    <3>2. (\E j \in 1 .. n : x = s[j]) \/ (\E j \in 1 .. k : x = u[j])
      BY <1>6, <1>7, <1>8, <3>1, Zenon
    <3>3. QED
      BY <1>1, <1>2, <3>2 DEF Range
  <2>2. ASSUME NEW x \in Range(s) \cup Range(u) PROVE x \in Range(c)
    <3>1. (\E j \in 1 .. n : x = s[j]) \/ (\E j \in 1 .. k : x = u[j])
      BY <1>1, <1>2 DEF Range
    <3>2. \E i \in 1 .. n + k : x = c[i]
      BY <1>6, <1>7, <3>1, Zenon
    <3>3. QED
      BY <1>4, <3>2 DEF Range
  <2>3. QED
    BY <2>1, <2>2
<1>10. ASSUME IsInjective(s), IsInjective(u), Range(s) \cap Range(u) = {} PROVE IsInjective(c)
  <2>1. \A i, j \in 1 .. n : s[i] = s[j] => i = j
    BY <1>1, <1>10 DEF IsInjective
  <2>2. \A i, j \in 1 .. k : u[i] = u[j] => i = j
    BY <1>2, <1>10 DEF IsInjective
  <2>3. \A i \in 1 .. n, j \in 1 .. k : s[i] # u[j]
    BY <1>1, <1>2, <1>10 DEF Range
  <2>4. \A i, j \in 1 .. n + k : c[i] = c[j] => i = j
    <3> SUFFICES ASSUME NEW i \in 1 .. n + k, NEW j \in 1 .. n + k, c[i] = c[j] PROVE i = j
      OBVIOUS
    <3>1. CASE i \in 1 .. n /\ j \in 1 .. n
      BY <1>6, <2>1, <3>1, Zenon
    <3>2. CASE i \in 1 .. n /\ \E l \in 1 .. k : j = n + l
      <4>1. PICK l \in 1 .. k : j = n + l
        BY <3>2
      <4>2. c[i] = s[i] /\ c[j] = u[l] /\ s[i] # u[l]
        BY <1>6, <1>7, <2>3, <3>2, <4>1, Zenon
      <4>3. QED
        BY <4>2, Zenon
    <3>3. CASE (\E l \in 1 .. k : i = n + l) /\ j \in 1 .. n
      <4>1. PICK l \in 1 .. k : i = n + l
        BY <3>3
      <4>2. c[j] = s[j] /\ c[i] = u[l] /\ s[j] # u[l]
        BY <1>6, <1>7, <2>3, <3>3, <4>1, Zenon
      <4>3. QED
        BY <4>2
    <3>4. CASE (\E l \in 1 .. k : i = n + l) /\ \E l \in 1 .. k : j = n + l
      BY <1>7, <2>2, <3>4, ZenonT(40)
    <3>5. QED
      BY <1>8, <3>1, <3>2, <3>3, <3>4
  <2>5. QED
    BY <1>4, <2>4 DEF IsInjective
<1>11. QED
  BY <1>3, <1>4, <1>9, <1>10

-------------------------------------------------------------------------------
(***************************************************************************)
(* Changes of the map of tasks.                                            *)
(***************************************************************************)
LEMMA IdsFacts == Ids \subseteq Nat /\ 0 \notin Ids /\ \A x \in Ids : x > 0
BY BoundsAssumption DEF Ids

LEMMA RecordFacts ==
  ASSUME NEW m, TaskMap(m), NEW x \in DOMAIN m
  PROVE  /\ x \in Ids /\ x \in Nat /\ x # 0 /\ m[x] \in TaskRecords /\ m[x].socket \in BOOLEAN
         /\ m[x].parent \in Nat /\ m[x].prev_sibling \in Nat /\ m[x].next_sibling \in Nat /\ m[x].last_child \in Nat
BY IdsFacts DEF TaskMap, TaskRecords

\* The effect of adding subtask s to task id.
AddedTo(m, n, id, s) ==
  /\ DOMAIN n = DOMAIN m \cup {s}
  /\ n[s].parent = id /\ n[s].prev_sibling = m[id].last_child /\ n[s].next_sibling = 0
  /\ n[s].last_child = 0 /\ n[s].socket = FALSE
  /\ \A x \in DOMAIN m :
       /\ n[x].parent = m[x].parent /\ n[x].prev_sibling = m[x].prev_sibling /\ n[x].socket = m[x].socket
       /\ n[x].last_child = (IF x = id THEN s ELSE m[x].last_child)
       /\ n[x].next_sibling = (IF x = m[id].last_child THEN s ELSE m[x].next_sibling)

LEMMA AddedTasks ==
  ASSUME NEW m, Forest(m), NEW id \in DOMAIN m, NEW s \in Ids, s \notin DOMAIN m
  PROVE  /\ TaskMap(AddCurrentTaskSubtaskImpl(m, id, s))
         /\ AddedTo(m, AddCurrentTaskSubtaskImpl(m, id, s), id, s)
<1>1. TaskMap(m) /\ LastChildren(m) /\ Parents(m)
  BY DEF Forest
<1>2. PICK prev : prev = m[id].last_child
  OBVIOUS
<1>3. id \in Ids /\ id # 0 /\ prev \in Ids \cup {0} /\ m[id] \in TaskRecords /\ 0 \notin DOMAIN m
  BY <1>1, <1>2, IdsFacts DEF TaskMap, TaskRecords
<1>4. prev # 0 => prev \in DOMAIN m /\ prev # id
  <2> SUFFICES ASSUME prev # 0 PROVE prev \in DOMAIN m /\ prev # id
    OBVIOUS
  <2>1. prev \in DOMAIN m /\ m[prev].parent = id
    BY <1>1, <1>2 DEF LastChildren
  <2>2. id < prev
    BY <1>1, <1>3, <2>1 DEF Parents
  <2>3. QED
    BY <1>3, <2>1, <2>2, IdsFacts
<1>5. PICK p : p = [m EXCEPT ![id].last_child = s]
  BY Zenon
<1>6. /\ DOMAIN p = DOMAIN m /\ p \in [DOMAIN m -> TaskRecords]
      /\ \A x \in DOMAIN m : p[x] = IF x = id THEN [m[id] EXCEPT !.last_child = s] ELSE m[x]
  BY <1>1, <1>3, <1>5 DEF TaskMap, TaskRecords
<1>7. PICK q : q = IF prev = 0 THEN p ELSE [p EXCEPT ![prev].next_sibling = s]
  BY Zenon
<1>8. /\ DOMAIN q = DOMAIN m /\ q \in [DOMAIN m -> TaskRecords]
      /\ \A x \in DOMAIN m : q[x] = IF x = prev THEN [p[x] EXCEPT !.next_sibling = s] ELSE p[x]
  <2>1. CASE prev = 0
    BY <1>3, <1>6, <1>7, <2>1
  <2>2. CASE prev # 0
    <3>1. q = [p EXCEPT ![prev].next_sibling = s] /\ prev \in DOMAIN m
      BY <1>4, <1>7, <2>2
    <3>2. p[prev] \in TaskRecords
      BY <1>6, <3>1
    <3>3. QED
      BY <1>6, <3>1, <3>2 DEF TaskRecords
  <2>3. QED
    BY <2>1, <2>2
<1>9. PICK n : n = AddCurrentTaskSubtaskImpl(m, id, s)
  OBVIOUS
<1>10. n = Insert(q, s, NewTask(id, prev))
  BY <1>2, <1>5, <1>7, <1>9 DEF AddCurrentTaskSubtaskImpl
<1>11. NewTask(id, prev) \in TaskRecords
  BY <1>3 DEF NewTask, TaskRecords
<1>12. /\ DOMAIN n = DOMAIN m \cup {s} /\ n[s] = NewTask(id, prev) /\ \A x \in DOMAIN m : n[x] = q[x]
       /\ n \in [DOMAIN n -> TaskRecords]
  BY <1>8, <1>10, <1>11 DEF Insert
<1>13. TaskMap(n)
  BY <1>1, <1>12 DEF TaskMap
<1>14. ASSUME NEW x \in DOMAIN m
       PROVE  /\ n[x].parent = m[x].parent /\ n[x].prev_sibling = m[x].prev_sibling /\ n[x].socket = m[x].socket
              /\ n[x].last_child = (IF x = id THEN s ELSE m[x].last_child)
              /\ n[x].next_sibling = (IF x = prev THEN s ELSE m[x].next_sibling)
  <2>1. m[x] \in TaskRecords /\ p[x] \in TaskRecords /\ n[x] = q[x]
    BY <1>1, <1>6, <1>12 DEF TaskMap
  <2>2. /\ p[x].parent = m[x].parent /\ p[x].prev_sibling = m[x].prev_sibling /\ p[x].socket = m[x].socket
        /\ p[x].last_child = (IF x = id THEN s ELSE m[x].last_child) /\ p[x].next_sibling = m[x].next_sibling
    BY <1>6, <2>1 DEF TaskRecords
  <2>3. /\ q[x].parent = p[x].parent /\ q[x].prev_sibling = p[x].prev_sibling /\ q[x].socket = p[x].socket
        /\ q[x].last_child = p[x].last_child
        /\ q[x].next_sibling = (IF x = prev THEN s ELSE p[x].next_sibling)
    BY <1>8, <2>1 DEF TaskRecords
  <2>4. QED
    BY <2>1, <2>2, <2>3
<1>15. AddedTo(m, n, id, s)
  BY <1>2, <1>12, <1>14 DEF AddedTo, NewTask
<1>16. QED
  BY <1>9, <1>13, <1>15

LEMMA AddForest ==
  ASSUME NEW m, Forest(m), NEW id \in DOMAIN m, NEW s \in Ids, \A x \in DOMAIN m : x < s,
         NEW n, TaskMap(n), AddedTo(m, n, id, s)
  PROVE  Forest(n)
<1>1. TaskMap(m) /\ Parents(m) /\ Prevs(m) /\ Nexts(m) /\ LastChildren(m) /\ Neighbours(m)
  BY DEF Forest
<1>2. PICK l \in Nat : l = m[id].last_child
  BY <1>1, RecordFacts
<1>3. s \in Nat /\ s # 0 /\ id \in Nat /\ id # 0 /\ id < s /\ s \notin DOMAIN m
  BY <1>1, IdsFacts DEF TaskMap
<1>4. /\ DOMAIN n = DOMAIN m \cup {s}
      /\ n[s].parent = id /\ n[s].prev_sibling = l /\ n[s].next_sibling = 0 /\ n[s].last_child = 0
  BY <1>2 DEF AddedTo
<1>5. \A x \in DOMAIN m :
        /\ x \in Nat /\ x # 0 /\ x < s /\ x # s
        /\ m[x].parent \in Nat /\ m[x].prev_sibling \in Nat /\ m[x].next_sibling \in Nat /\ m[x].last_child \in Nat
        /\ n[x].parent = m[x].parent /\ n[x].prev_sibling = m[x].prev_sibling
        /\ n[x].last_child = (IF x = id THEN s ELSE m[x].last_child)
        /\ n[x].next_sibling = (IF x = l THEN s ELSE m[x].next_sibling)
  BY <1>1, <1>2, <1>3, RecordFacts DEF AddedTo
<1>6. l # 0 => l \in DOMAIN m /\ m[l].parent = id /\ m[l].next_sibling = 0 /\ l < s
  BY <1>1, <1>2 DEF LastChildren
<1>7. Parents(n)
  <2> SUFFICES ASSUME NEW x \in DOMAIN n
               PROVE  /\ n[x].parent = 0 => n[x].prev_sibling = 0 /\ n[x].next_sibling = 0
                      /\ n[x].parent # 0 =>
                           /\ n[x].parent \in DOMAIN n /\ n[x].parent < x
                           /\ n[n[x].parent].last_child # 0
                           /\ n[x].next_sibling = 0 <=> n[n[x].parent].last_child = x
    BY DEF Parents
  <2>1. CASE x = s
    BY <1>3, <1>4, <1>5, <2>1
  <2>2. CASE x \in DOMAIN m /\ m[x].parent = 0
    BY <1>1, <1>3, <1>5, <1>6, <2>2 DEF Parents
  <2>3. CASE x \in DOMAIN m /\ m[x].parent # 0
    <3>1. PICK p \in DOMAIN m : p = m[x].parent
      BY <1>1, <2>3 DEF Parents
    <3>2. p < x /\ m[p].last_child # 0 /\ (m[x].next_sibling = 0 <=> m[p].last_child = x)
      BY <1>1, <2>3, <3>1 DEF Parents
    <3>3. CASE p = id
      <4>1. n[x].parent = id /\ n[id].last_child = s /\ x # s
        BY <1>5, <2>3, <3>1, <3>3, Zenon
      <4>2. x # l => m[x].next_sibling # 0
        BY <1>2, <3>2, <3>3
      <4>3. n[x].next_sibling # 0
        BY <1>3, <1>5, <2>3, <4>2
      <4>4. QED
        BY <1>3, <1>4, <3>2, <3>3, <4>1, <4>3
    <3>4. CASE p # id
      <4>1. x # l
        BY <1>5, <1>6, <2>3, <3>1, <3>4
      <4>2. QED
        BY <1>3, <1>4, <1>5, <2>3, <3>1, <3>2, <3>4, <4>1
    <3>5. QED
      BY <3>3, <3>4
  <2>4. QED
    BY <1>4, <2>1, <2>2, <2>3
<1>8. Prevs(n)
  <2> SUFFICES ASSUME NEW x \in DOMAIN n, n[x].prev_sibling # 0
               PROVE  /\ n[x].prev_sibling \in DOMAIN n /\ n[x].prev_sibling < x
                      /\ n[n[x].prev_sibling].next_sibling = x
                      /\ n[n[x].prev_sibling].parent = n[x].parent
    BY DEF Prevs
  <2>1. CASE x = s
    BY <1>3, <1>4, <1>5, <1>6, <2>1
  <2>2. CASE x \in DOMAIN m
    <3>1. PICK v \in DOMAIN m : v = m[x].prev_sibling
      BY <1>1, <1>5, <2>2 DEF Prevs
    <3>2. v < x /\ m[v].next_sibling = x /\ m[v].parent = m[x].parent
      BY <1>1, <1>5, <2>2, <3>1 DEF Prevs
    <3>3. v # l
      BY <1>5, <1>6, <2>2, <3>1, <3>2
    <3>4. QED
      BY <1>4, <1>5, <2>2, <3>1, <3>2, <3>3
  <2>3. QED
    BY <1>4, <2>1, <2>2
<1>9. Nexts(n)
  <2> SUFFICES ASSUME NEW x \in DOMAIN n, n[x].next_sibling # 0
               PROVE  n[x].next_sibling \in DOMAIN n /\ n[n[x].next_sibling].prev_sibling = x
    BY DEF Nexts
  <2>1. x \in DOMAIN m
    BY <1>4
  <2>2. CASE x = l
    BY <1>3, <1>4, <1>5, <2>1, <2>2
  <2>3. CASE x # l
    <3>1. m[x].next_sibling \in DOMAIN m /\ m[m[x].next_sibling].prev_sibling = x
      BY <1>1, <1>5, <2>1, <2>3 DEF Nexts
    <3>2. QED
      BY <1>4, <1>5, <2>1, <2>3, <3>1
  <2>4. QED
    BY <2>2, <2>3
<1>10. LastChildren(n)
  <2> SUFFICES ASSUME NEW x \in DOMAIN n, n[x].last_child # 0
               PROVE  /\ n[x].last_child \in DOMAIN n
                      /\ n[n[x].last_child].parent = x
                      /\ n[n[x].last_child].next_sibling = 0
    BY DEF LastChildren
  <2>1. x \in DOMAIN m
    BY <1>4
  <2>2. CASE x = id
    BY <1>4, <1>5, <2>1, <2>2
  <2>3. CASE x # id
    <3>1. PICK c \in DOMAIN m : c = m[x].last_child /\ m[c].parent = x /\ m[c].next_sibling = 0
      BY <1>1, <1>5, <2>1, <2>3 DEF LastChildren
    <3>2. c # l
      BY <1>5, <1>6, <2>3, <3>1
    <3>3. QED
      BY <1>4, <1>5, <2>1, <2>3, <3>1, <3>2
  <2>4. QED
    BY <2>2, <2>3
<1>11. Neighbours(n)
  <2> SUFFICES ASSUME NEW x \in DOMAIN n, NEW y \in DOMAIN n,
                      n[x].parent # 0, n[x].parent = n[y].parent, x < y
               PROVE  /\ n[x].next_sibling # 0 /\ n[x].next_sibling <= y
                      /\ n[y].prev_sibling # 0 /\ x <= n[y].prev_sibling
    BY DEF Neighbours
  <2>1. x \in DOMAIN m
    BY <1>3, <1>4, <1>5
  <2>2. CASE y = s
    <3>1. m[x].parent = id
      BY <1>4, <1>5, <2>1, <2>2
    <3>2. l # 0 /\ l \in DOMAIN m /\ m[l].parent = id /\ m[l].next_sibling = 0
      BY <1>1, <1>2, <1>3, <1>6, <2>1, <3>1 DEF Parents
    <3>3. ~(l < x)
      BY <1>1, <1>3, <2>1, <3>1, <3>2 DEF Neighbours
    <3>4. CASE x = l
      BY <1>3, <1>4, <1>5, <2>2, <3>2, <3>4
    <3>5. CASE x < l
      <4>1. m[x].next_sibling # 0 /\ m[x].next_sibling <= l
        BY <1>1, <1>3, <2>1, <3>1, <3>2, <3>5 DEF Neighbours
      <4>2. QED
        BY <1>3, <1>4, <1>5, <2>1, <2>2, <3>2, <3>5, <4>1
    <3>6. QED
      BY <1>2, <1>5, <2>1, <3>3, <3>4, <3>5
  <2>3. CASE y \in DOMAIN m
    <3>1. /\ m[x].next_sibling # 0 /\ m[x].next_sibling <= y
          /\ m[y].prev_sibling # 0 /\ x <= m[y].prev_sibling
      BY <1>1, <1>5, <2>1, <2>3 DEF Neighbours
    <3>2. x # l
      BY <1>5, <1>6, <2>1, <3>1
    <3>3. QED
      BY <1>5, <2>1, <2>3, <3>1, <3>2
  <2>4. QED
    BY <1>4, <2>2, <2>3
<1>12. QED
  BY <1>7, <1>8, <1>9, <1>10, <1>11 DEF Forest

\* The effect of removing the finished task id.
RemovedFrom(m, n, id) ==
  /\ DOMAIN n = DOMAIN m \ {id}
  /\ \A x \in DOMAIN n :
       /\ n[x].parent = m[x].parent /\ n[x].socket = m[x].socket
       /\ n[x].next_sibling = (IF x = m[id].prev_sibling THEN m[id].next_sibling ELSE m[x].next_sibling)
       /\ n[x].prev_sibling = (IF x = m[id].next_sibling THEN m[id].prev_sibling ELSE m[x].prev_sibling)
       /\ n[x].last_child = (IF m[x].last_child = id THEN m[id].prev_sibling ELSE m[x].last_child)

LEMMA RemovedTasks ==
  ASSUME NEW m, Forest(m), NEW id \in DOMAIN m
  PROVE  TaskMap(Unlinked(m, id)) /\ RemovedFrom(m, Unlinked(m, id), id)
<1>1. TaskMap(m) /\ Parents(m) /\ Prevs(m) /\ Nexts(m) /\ LastChildren(m)
  BY DEF Forest
<1>2. PICK par, prev, next \in Ids \cup {0} :
        par = m[id].parent /\ prev = m[id].prev_sibling /\ next = m[id].next_sibling
  BY <1>1 DEF TaskMap, TaskRecords
<1>3. id \in Ids /\ id # 0 /\ 0 \notin DOMAIN m /\ (par = 0 => prev = 0 /\ next = 0)
  BY <1>1, <1>2, IdsFacts DEF TaskMap, Parents
<1>4. par # 0 => par \in DOMAIN m \ {id}
  BY <1>1, <1>2, <1>3, IdsFacts DEF Parents
<1>5. prev # 0 => prev \in DOMAIN m \ {id}
  BY <1>1, <1>2, <1>3, IdsFacts DEF Prevs
<1>6. next # 0 => next \in DOMAIN m \ {id}
  <2> SUFFICES ASSUME next # 0 PROVE next \in DOMAIN m \ {id}
    OBVIOUS
  <2>1. next \in DOMAIN m /\ m[next].prev_sibling = id
    BY <1>1, <1>2 DEF Nexts
  <2>2. id < next
    BY <1>1, <1>3, <2>1 DEF Prevs
  <2>3. QED
    BY <1>2, <1>3, <2>1, <2>2, IdsFacts
<1> DEFINE D == DOMAIN m \ {id}
<1>7. PICK r : r = RemoveExisting(m, id)
  OBVIOUS
<1>8. DOMAIN r = D /\ r \in [D -> TaskRecords] /\ \A x \in D : r[x] = m[x]
  BY <1>1, <1>7 DEF RemoveExisting, TaskMap
<1>9. PICK p : p = IF par # 0 /\ prev # 0 THEN [r EXCEPT ![prev].next_sibling = next] ELSE r
  BY Zenon
<1>10. /\ DOMAIN p = D /\ p \in [D -> TaskRecords]
       /\ \A x \in D : p[x] = IF x = prev THEN [r[x] EXCEPT !.next_sibling = next] ELSE r[x]
  <2>1. CASE prev = 0
    BY <1>3, <1>8, <1>9, <2>1
  <2>2. CASE prev # 0
    <3>1. p = [r EXCEPT ![prev].next_sibling = next] /\ prev \in D
      BY <1>3, <1>5, <1>9, <2>2
    <3>2. r[prev] \in TaskRecords
      BY <1>8, <3>1
    <3>3. QED
      BY <1>2, <1>8, <3>1, <3>2 DEF TaskRecords
  <2>3. QED
    BY <2>1, <2>2
<1>11. PICK q : q = IF par # 0 /\ next # 0 THEN [p EXCEPT ![next].prev_sibling = prev] ELSE p
  BY Zenon
<1>12. /\ DOMAIN q = D /\ q \in [D -> TaskRecords]
       /\ \A x \in D : q[x] = IF x = next THEN [p[x] EXCEPT !.prev_sibling = prev] ELSE p[x]
  <2>1. CASE next = 0
    BY <1>3, <1>10, <1>11, <2>1
  <2>2. CASE next # 0
    <3>1. q = [p EXCEPT ![next].prev_sibling = prev] /\ next \in D
      BY <1>3, <1>6, <1>11, <2>2
    <3>2. p[next] \in TaskRecords
      BY <1>10, <3>1
    <3>3. QED
      BY <1>2, <1>10, <3>1, <3>2 DEF TaskRecords
  <2>3. QED
    BY <2>1, <2>2
<1>13. PICK n : n = IF par # 0 /\ q[par].last_child = id THEN [q EXCEPT ![par].last_child = prev] ELSE q
  BY Zenon
<1>14. n = Unlinked(m, id)
  BY <1>2, <1>7, <1>9, <1>11, <1>13, ZenonT(40) DEF Unlinked
<1>15. ASSUME NEW x \in D
       PROVE  /\ q[x].parent = m[x].parent /\ q[x].socket = m[x].socket /\ q[x].last_child = m[x].last_child
              /\ q[x].next_sibling = (IF x = prev THEN next ELSE m[x].next_sibling)
              /\ q[x].prev_sibling = (IF x = next THEN prev ELSE m[x].prev_sibling)
  <2>1. m[x] \in TaskRecords /\ p[x] \in TaskRecords /\ r[x] = m[x]
    BY <1>1, <1>8, <1>10 DEF TaskMap
  <2>2. /\ p[x].parent = m[x].parent /\ p[x].prev_sibling = m[x].prev_sibling /\ p[x].socket = m[x].socket
        /\ p[x].last_child = m[x].last_child
        /\ p[x].next_sibling = (IF x = prev THEN next ELSE m[x].next_sibling)
    BY <1>10, <2>1 DEF TaskRecords
  <2>3. /\ q[x].parent = p[x].parent /\ q[x].next_sibling = p[x].next_sibling /\ q[x].socket = p[x].socket
        /\ q[x].last_child = p[x].last_child
        /\ q[x].prev_sibling = (IF x = next THEN prev ELSE p[x].prev_sibling)
    BY <1>12, <2>1 DEF TaskRecords
  <2>4. QED
    BY <2>2, <2>3
<1>16. \A x \in D : m[x].last_child = id => x = par
  BY <1>1, <1>2, <1>3 DEF LastChildren
<1>17. /\ DOMAIN n = D /\ n \in [D -> TaskRecords]
       /\ \A x \in D : n[x] = IF m[x].last_child = id THEN [q[x] EXCEPT !.last_child = prev] ELSE q[x]
  <2>1. CASE par # 0 /\ q[par].last_child = id
    <3>1. n = [q EXCEPT ![par].last_child = prev] /\ par \in D
      BY <1>4, <1>13, <2>1
    <3>2. q[par] \in TaskRecords /\ m[par].last_child = id
      BY <1>12, <1>15, <2>1, <3>1
    <3>3. QED
      BY <1>2, <1>12, <1>16, <3>1, <3>2 DEF TaskRecords
  <2>2. CASE ~(par # 0 /\ q[par].last_child = id)
    <3>1. n = q
      BY <1>13, <2>2
    <3>2. \A x \in D : m[x].last_child # id
      <4>1. SUFFICES ASSUME NEW x \in D, m[x].last_child = id PROVE FALSE
        OBVIOUS
      <4>2. x = par /\ q[x].last_child = id /\ x # 0
        BY <1>3, <1>15, <1>16, <4>1
      <4>3. QED
        BY <2>2, <4>2
    <3>3. QED
      BY <1>12, <3>1, <3>2
  <2>3. QED
    BY <2>1, <2>2
<1>18. TaskMap(n)
  BY <1>1, <1>17 DEF TaskMap
<1>19. ASSUME NEW x \in D
       PROVE  /\ n[x].parent = m[x].parent /\ n[x].socket = m[x].socket
              /\ n[x].next_sibling = (IF x = prev THEN next ELSE m[x].next_sibling)
              /\ n[x].prev_sibling = (IF x = next THEN prev ELSE m[x].prev_sibling)
              /\ n[x].last_child = (IF m[x].last_child = id THEN prev ELSE m[x].last_child)
  <2>1. q[x] \in TaskRecords
    BY <1>12
  <2>2. /\ n[x].parent = q[x].parent /\ n[x].socket = q[x].socket
        /\ n[x].next_sibling = q[x].next_sibling /\ n[x].prev_sibling = q[x].prev_sibling
        /\ n[x].last_child = (IF m[x].last_child = id THEN prev ELSE q[x].last_child)
    BY <1>17, <2>1 DEF TaskRecords
  <2>3. QED
    BY <1>15, <2>2
<1>20. RemovedFrom(m, n, id)
  BY <1>2, <1>17, <1>19 DEF RemovedFrom
<1>21. QED
  BY <1>14, <1>18, <1>20

LEMMA RemoveForest ==
  ASSUME NEW m, Forest(m), NEW id \in DOMAIN m, m[id].last_child = 0,
         NEW n, TaskMap(n), RemovedFrom(m, n, id)
  PROVE  Forest(n)
<1>1. TaskMap(m) /\ Parents(m) /\ Prevs(m) /\ Nexts(m) /\ LastChildren(m) /\ Neighbours(m)
  BY DEF Forest
<1>2. PICK par, prev, next \in Nat :
        par = m[id].parent /\ prev = m[id].prev_sibling /\ next = m[id].next_sibling
  BY <1>1, RecordFacts
<1>3. id \in Nat /\ id # 0 /\ DOMAIN n = DOMAIN m \ {id}
  BY <1>1, RecordFacts DEF RemovedFrom
<1>4. \A x \in DOMAIN m :
        /\ x \in Nat /\ x # 0
        /\ m[x].parent \in Nat /\ m[x].prev_sibling \in Nat /\ m[x].next_sibling \in Nat /\ m[x].last_child \in Nat
  BY <1>1, RecordFacts
<1>5. \A x \in DOMAIN n :
        /\ x \in DOMAIN m /\ x # id /\ n[x].parent = m[x].parent
        /\ n[x].next_sibling = (IF x = prev THEN next ELSE m[x].next_sibling)
        /\ n[x].prev_sibling = (IF x = next THEN prev ELSE m[x].prev_sibling)
        /\ n[x].last_child = (IF m[x].last_child = id THEN prev ELSE m[x].last_child)
  BY <1>2, <1>3 DEF RemovedFrom
<1>6. par = 0 => prev = 0 /\ next = 0
  BY <1>1, <1>2, ZenonT(40) DEF Parents
<1>7. prev # 0 => /\ prev \in DOMAIN n /\ prev < id /\ m[prev].next_sibling = id /\ m[prev].parent = par
  BY <1>1, <1>2, <1>3 DEF Prevs
<1>8. next # 0 => /\ next \in DOMAIN n /\ id < next /\ m[next].prev_sibling = id /\ m[next].parent = par
  <2> SUFFICES ASSUME next # 0
               PROVE  next \in DOMAIN n /\ id < next /\ m[next].prev_sibling = id /\ m[next].parent = par
    OBVIOUS
  <2>1. next \in DOMAIN m /\ m[next].prev_sibling = id
    BY <1>1, <1>2 DEF Nexts
  <2>2. id < next /\ m[next].parent = par
    BY <1>1, <1>2, <1>3, <2>1 DEF Prevs
  <2>3. QED
    BY <1>3, <2>1, <2>2
<1>9. par # 0 => par \in DOMAIN m /\ (next = 0 <=> m[par].last_child = id)
  BY <1>1, <1>2 DEF Parents
<1>10. \A x \in DOMAIN m : m[x].last_child = id => x = par /\ next = 0
  BY <1>1, <1>2, <1>3 DEF LastChildren
\* The siblings of the task.
<1>11. ASSUME NEW x \in DOMAIN n, m[x].parent = par, par # 0
       PROVE  /\ x < id => prev # 0 /\ x <= prev
              /\ id < x => next # 0 /\ next <= x
              /\ x < id \/ id < x
  BY <1>1, <1>2, <1>3, <1>4, <1>5, <1>11 DEF Neighbours
<1>12. Parents(n)
  <2> SUFFICES ASSUME NEW x \in DOMAIN n
               PROVE  /\ n[x].parent = 0 => n[x].prev_sibling = 0 /\ n[x].next_sibling = 0
                      /\ n[x].parent # 0 =>
                           /\ n[x].parent \in DOMAIN n /\ n[x].parent < x
                           /\ n[n[x].parent].last_child # 0
                           /\ n[x].next_sibling = 0 <=> n[n[x].parent].last_child = x
    BY DEF Parents
  <2>1. CASE m[x].parent = 0
    <3>1. x # prev /\ x # next
      BY <1>4, <1>5, <1>6, <1>7, <1>8, <2>1
    <3>2. m[x].prev_sibling = 0 /\ m[x].next_sibling = 0
      BY <1>1, <1>5, <2>1 DEF Parents
    <3>3. QED
      BY <1>5, <2>1, <3>1, <3>2
  <2>2. CASE m[x].parent # 0
    <3>1. PICK p \in DOMAIN m : /\ p = m[x].parent /\ p < x /\ m[p].last_child # 0
                                /\ m[x].next_sibling = 0 <=> m[p].last_child = x
      BY <1>1, <1>5, <2>2 DEF Parents
    <3>2. p \in DOMAIN n /\ n[x].parent = p
      BY <1>3, <1>5, <3>1
    <3>3. CASE m[p].last_child = id
      <4>1. p = par /\ next = 0 /\ par # 0 /\ n[p].last_child = prev
        BY <1>4, <1>5, <1>10, <3>1, <3>2, <3>3
      <4>2. prev # 0
        BY <1>11, <3>1, <4>1, ZenonT(40)
      <4>3. m[x].next_sibling # 0
        BY <1>5, <3>1, <3>3
      <4>4. n[x].next_sibling = 0 <=> x = prev
        BY <1>5, <4>1, <4>3
      <4>5. QED
        BY <3>1, <3>2, <4>1, <4>2, <4>4
    <3>4. CASE m[p].last_child # id
      <4>1. n[p].last_child = m[p].last_child
        BY <1>5, <3>2, <3>4
      <4>2. CASE x = prev
        <5>1. m[x].next_sibling = id /\ p = par /\ par # 0 /\ next # 0
          BY <1>4, <1>5, <1>7, <1>9, <2>2, <3>1, <3>4, <4>2
        <5>2. n[x].next_sibling # 0 /\ m[p].last_child # x
          BY <1>3, <1>5, <3>1, <4>2, <5>1
        <5>3. QED
          BY <2>2, <3>1, <3>2, <4>1, <5>2
      <4>3. CASE x # prev
        BY <1>5, <2>2, <3>1, <3>2, <4>1, <4>3
      <4>4. QED
        BY <4>2, <4>3
    <3>5. QED
      BY <3>3, <3>4
  <2>3. QED
    BY <2>1, <2>2
<1>13. Prevs(n)
  <2> SUFFICES ASSUME NEW x \in DOMAIN n, n[x].prev_sibling # 0
               PROVE  /\ n[x].prev_sibling \in DOMAIN n /\ n[x].prev_sibling < x
                      /\ n[n[x].prev_sibling].next_sibling = x
                      /\ n[n[x].prev_sibling].parent = n[x].parent
    BY DEF Prevs
  <2>1. CASE x = next
    BY <1>2, <1>3, <1>4, <1>5, <1>7, <1>8, <2>1
  <2>2. CASE x # next
    <3>1. PICK v \in DOMAIN m : v = m[x].prev_sibling
      BY <1>1, <1>5, <2>2 DEF Prevs
    <3>2. v < x /\ m[v].next_sibling = x /\ m[v].parent = m[x].parent
      BY <1>1, <1>4, <1>5, <3>1 DEF Prevs
    <3>3. v # id /\ v # prev
      BY <1>2, <1>4, <1>5, <1>7, <2>2, <3>1, <3>2
    <3>4. QED
      BY <1>3, <1>5, <2>2, <3>1, <3>2, <3>3
  <2>3. QED
    BY <2>1, <2>2
<1>14. Nexts(n)
  <2> SUFFICES ASSUME NEW x \in DOMAIN n, n[x].next_sibling # 0
               PROVE  n[x].next_sibling \in DOMAIN n /\ n[n[x].next_sibling].prev_sibling = x
    BY DEF Nexts
  <2>1. CASE x = prev
    BY <1>5, <1>8, <2>1
  <2>2. CASE x # prev
    <3>1. PICK y \in DOMAIN m : y = m[x].next_sibling /\ m[y].prev_sibling = x
      BY <1>1, <1>5, <2>2 DEF Nexts
    <3>2. y # id /\ y # next
      BY <1>2, <1>4, <1>5, <1>8, <2>2, <3>1
    <3>3. QED
      BY <1>3, <1>5, <2>2, <3>1, <3>2
  <2>3. QED
    BY <2>1, <2>2
<1>15. LastChildren(n)
  <2> SUFFICES ASSUME NEW x \in DOMAIN n, n[x].last_child # 0
               PROVE  /\ n[x].last_child \in DOMAIN n
                      /\ n[n[x].last_child].parent = x
                      /\ n[n[x].last_child].next_sibling = 0
    BY DEF LastChildren
  <2>1. CASE m[x].last_child = id
    BY <1>5, <1>7, <1>10, <2>1
  <2>2. CASE m[x].last_child # id
    <3>1. PICK c \in DOMAIN m : c = m[x].last_child /\ m[c].parent = x /\ m[c].next_sibling = 0
      BY <1>1, <1>5, <2>2 DEF LastChildren
    <3>2. c # prev
      BY <1>3, <1>4, <1>7, <3>1
    <3>3. QED
      BY <1>3, <1>5, <2>2, <3>1, <3>2
  <2>3. QED
    BY <2>1, <2>2
<1>16. Neighbours(n)
  <2> SUFFICES ASSUME NEW x \in DOMAIN n, NEW y \in DOMAIN n,
                      n[x].parent # 0, n[x].parent = n[y].parent, x < y
               PROVE  /\ n[x].next_sibling # 0 /\ n[x].next_sibling <= y
                      /\ n[y].prev_sibling # 0 /\ x <= n[y].prev_sibling
    BY DEF Neighbours
  <2>1. /\ m[x].next_sibling # 0 /\ m[x].next_sibling <= y
        /\ m[y].prev_sibling # 0 /\ x <= m[y].prev_sibling
    BY <1>1, <1>5 DEF Neighbours
  <2>2. n[x].next_sibling # 0 /\ n[x].next_sibling <= y
    <3>1. CASE x = prev
      <4>1. m[y].parent = par /\ par # 0 /\ id <= y /\ y \in Nat
        BY <1>4, <1>5, <1>7, <2>1, <3>1
      <4>2. next # 0 /\ next <= y
        BY <1>3, <1>11, <4>1
      <4>3. QED
        BY <1>5, <3>1, <4>2
    <3>2. CASE x # prev
      BY <1>5, <2>1, <3>2
    <3>3. QED
      BY <3>1, <3>2
  <2>3. n[y].prev_sibling # 0 /\ x <= n[y].prev_sibling
    <3>1. CASE y = next
      <4>1. m[x].parent = par /\ par # 0 /\ x <= id /\ x \in Nat
        BY <1>4, <1>5, <1>8, <2>1, <3>1
      <4>2. prev # 0 /\ x <= prev
        BY <1>3, <1>11, <4>1
      <4>3. QED
        BY <1>5, <3>1, <4>2
    <3>2. CASE y # next
      BY <1>5, <2>1, <3>2
    <3>3. QED
      BY <3>1, <3>2
  <2>4. QED
    BY <2>2, <2>3
<1>17. QED
  BY <1>12, <1>13, <1>14, <1>15, <1>16 DEF Forest

\* Two maps with the same links.
SameLinks(m, n) ==
  /\ DOMAIN n = DOMAIN m
  /\ \A x \in DOMAIN m :
       /\ n[x].parent = m[x].parent /\ n[x].prev_sibling = m[x].prev_sibling
       /\ n[x].next_sibling = m[x].next_sibling /\ n[x].last_child = m[x].last_child

LEMMA SocketTasks ==
  ASSUME NEW m, Forest(m), NEW id \in DOMAIN m, NEW b \in BOOLEAN
  PROVE  LET n == [m EXCEPT ![id].socket = b] IN
           /\ Forest(n) /\ SameLinks(m, n)
           /\ \A x \in DOMAIN m : n[x].socket = IF x = id THEN b ELSE m[x].socket
<1>1. PICK n : n = [m EXCEPT ![id].socket = b]
  BY Zenon
<1>2. TaskMap(m) /\ m[id] \in TaskRecords
  BY RecordFacts DEF Forest
<1>3. /\ DOMAIN n = DOMAIN m /\ n \in [DOMAIN m -> TaskRecords]
      /\ \A x \in DOMAIN m : n[x] = IF x = id THEN [m[x] EXCEPT !.socket = b] ELSE m[x]
  BY <1>1, <1>2 DEF TaskMap, TaskRecords
<1>4. ASSUME NEW x \in DOMAIN m
      PROVE  /\ n[x].parent = m[x].parent /\ n[x].prev_sibling = m[x].prev_sibling
             /\ n[x].next_sibling = m[x].next_sibling /\ n[x].last_child = m[x].last_child
             /\ n[x].socket = IF x = id THEN b ELSE m[x].socket
  <2>1. m[x] \in TaskRecords
    BY <1>2, RecordFacts
  <2>2. QED
    BY <1>3, <2>1 DEF TaskRecords
<1>5. SameLinks(m, n)
  BY <1>3, <1>4 DEF SameLinks
<1>6. TaskMap(n)
  BY <1>2, <1>3 DEF TaskMap
<1>7. Parents(m) /\ Prevs(m) /\ Nexts(m) /\ LastChildren(m) /\ Neighbours(m)
  BY DEF Forest
<1>8. Parents(n)
  BY <1>5, <1>7 DEF SameLinks, Parents
<1>9. Prevs(n) /\ Nexts(n)
  BY <1>5, <1>7 DEF SameLinks, Prevs, Nexts
<1>10. LastChildren(n) /\ Neighbours(n)
  BY <1>5, <1>7 DEF SameLinks, LastChildren, Neighbours
<1>11. QED
  BY <1>1, <1>4, <1>5, <1>6, <1>8, <1>9, <1>10 DEF Forest

\* The effect of inserting root task s.
RootAdded(m, n, s) ==
  /\ DOMAIN n = DOMAIN m \cup {s}
  /\ n[s].parent = 0 /\ n[s].prev_sibling = 0 /\ n[s].next_sibling = 0 /\ n[s].last_child = 0
  /\ n[s].socket = FALSE
  /\ \A x \in DOMAIN m : n[x] = m[x]

LEMMA RootTasks ==
  ASSUME NEW m, Forest(m), NEW s \in Ids, s \notin DOMAIN m
  PROVE  Forest(Insert(m, s, NewTask(0, 0))) /\ RootAdded(m, Insert(m, s, NewTask(0, 0)), s)
<1>1. PICK n : n = Insert(m, s, NewTask(0, 0))
  OBVIOUS
<1>2. TaskMap(m) /\ Parents(m) /\ Prevs(m) /\ Nexts(m) /\ LastChildren(m) /\ Neighbours(m)
  BY DEF Forest
<1>3. NewTask(0, 0) \in TaskRecords
  BY DEF NewTask, TaskRecords
<1>4. DOMAIN n = DOMAIN m \cup {s} /\ n[s] = NewTask(0, 0) /\ \A x \in DOMAIN m : n[x] = m[x] /\ x # s
  BY <1>1 DEF Insert
<1>5. RootAdded(m, n, s)
  BY <1>4 DEF RootAdded, NewTask
<1>6. TaskMap(n)
  BY <1>1, <1>2, <1>3 DEF TaskMap, Insert
<1>7. n[s].parent = 0 /\ n[s].prev_sibling = 0 /\ n[s].next_sibling = 0 /\ n[s].last_child = 0
  BY <1>5 DEF RootAdded
<1>8. Parents(n)
  BY <1>2, <1>4, <1>7 DEF Parents
<1>9. Prevs(n) /\ Nexts(n) /\ LastChildren(n)
  BY <1>2, <1>4, <1>7 DEF Prevs, Nexts, LastChildren
<1>10. Neighbours(n)
  BY <1>2, <1>4, <1>7 DEF Neighbours
<1>11. QED
  BY <1>1, <1>5, <1>6, <1>8, <1>9, <1>10 DEF Forest

-------------------------------------------------------------------------------
(***************************************************************************)
(* Ancestors.                                                              *)
(***************************************************************************)
LEMMA AncestorFacts ==
  ASSUME NEW m, Forest(m), NEW x \in DOMAIN m
  PROVE  /\ x \in Ancestors(m, x)
         /\ \A a \in Ancestors(m, x) : a \in DOMAIN m /\ a <= x
<1>1. x \in Ancestors(m, x)
  BY DEF Ancestors
<1>2. \A y \in DOMAIN m : y \in Nat /\ m[y].parent \in Nat
  BY RecordFacts DEF Forest
<1>3. \A y \in DOMAIN m : m[y].parent # 0 => m[y].parent \in DOMAIN m /\ m[y].parent < y
  BY DEF Forest, Parents
<1>4. ASSUME NEW a \in Ancestors(m, x) PROVE a \in DOMAIN m /\ a <= x
  <2> DEFINE S == {y \in DOMAIN m : y <= x}
  <2>1. S \in SUBSET DOMAIN m /\ x \in S
    BY <1>2
  <2>2. Upward(m, S)
    <3> SUFFICES ASSUME NEW y \in S, m[y].parent # 0 PROVE m[y].parent \in S
      BY DEF Upward
    <3>1. y \in DOMAIN m /\ y <= x
      OBVIOUS
    <3>2. m[y].parent \in DOMAIN m /\ m[y].parent < y
      BY <1>3, <3>1
    <3>3. m[y].parent <= x
      BY <1>2, <3>1, <3>2
    <3>4. QED
      BY <3>2, <3>3
  <2>3. a \in S
    BY <2>1, <2>2 DEF Ancestors
  <2>4. QED
    BY <2>3
<1>5. QED
  BY <1>1, <1>4

LEMMA AncestorsOfChild ==
  ASSUME NEW m, Forest(m), NEW x \in DOMAIN m, m[x].parent # 0
  PROVE  /\ \A a \in Ancestors(m, x) : a = x \/ a \in Ancestors(m, m[x].parent)
         /\ \A a \in Ancestors(m, m[x].parent) : a \in Ancestors(m, x)
<1>1. ASSUME NEW a \in Ancestors(m, x), a # x PROVE a \in Ancestors(m, m[x].parent)
  <2>1. SUFFICES ASSUME NEW S \in SUBSET DOMAIN m, m[x].parent \in S, Upward(m, S) PROVE a \in S
    BY <1>1 DEF Ancestors
  <2>2. Upward(m, S \cup {x}) /\ S \cup {x} \in SUBSET DOMAIN m
    BY <2>1 DEF Upward
  <2>3. a \in S \cup {x}
    BY <1>1, <2>2 DEF Ancestors
  <2>4. QED
    BY <1>1, <2>3
<1>2. ASSUME NEW a \in Ancestors(m, m[x].parent) PROVE a \in Ancestors(m, x)
  <2>1. SUFFICES ASSUME NEW S \in SUBSET DOMAIN m, x \in S, Upward(m, S) PROVE a \in S
    BY <1>2 DEF Ancestors
  <2>2. m[x].parent \in S
    BY <2>1 DEF Upward
  <2>3. QED
    BY <1>2, <2>1, <2>2 DEF Ancestors
<1>3. QED
  BY <1>1, <1>2

\* What a task may be executed before does not change when tasks come and go.
LEMMA BeforeKept ==
  ASSUME NEW m, Forest(m), NEW n, Forest(n),
         \A x \in DOMAIN n : x \in DOMAIN m => n[x].parent = m[x].parent,
         NEW x \in DOMAIN m, x \in DOMAIN n, NEW b \in DOMAIN m, b \in DOMAIN n, Before(m, x, b)
  PROVE  Before(n, x, b)
<1>1. \A y \in DOMAIN m : m[y].parent # 0 => m[y].parent \in DOMAIN m
  BY DEF Forest, Parents
<1>2. \A y \in DOMAIN n : n[y].parent # 0 => n[y].parent \in DOMAIN n
  BY DEF Forest, Parents
<1>3. ASSUME NEW S \in SUBSET DOMAIN m, x \in S, Upward(m, S), NEW a \in Ancestors(n, x) PROVE a \in S
  <2>1. S \cap DOMAIN n \in SUBSET DOMAIN n /\ x \in S \cap DOMAIN n
    BY <1>3
  <2>2. Upward(n, S \cap DOMAIN n)
    BY <1>2, <1>3 DEF Upward
  <2>3. QED
    BY <1>3, <2>1, <2>2 DEF Ancestors
<1>4. ASSUME NEW a \in Ancestors(n, x) PROVE a \in Ancestors(m, x) /\ a \in DOMAIN n
  <2>1. Upward(m, DOMAIN m)
    BY <1>1 DEF Upward
  <2>2. a \in DOMAIN m
    BY <1>3, <2>1
  <2>3. QED
    BY <1>3, <2>2 DEF Ancestors
<1>5. QED
  <2> SUFFICES ASSUME NEW a \in Ancestors(n, x), n[a].parent # 0, n[a].parent = n[b].parent, a # b
               PROVE  a < b
    BY DEF Before
  <2>1. a \in Ancestors(m, x) /\ a \in DOMAIN n /\ a \in DOMAIN m
    BY <1>4 DEF Ancestors
  <2>2. QED
    BY <2>1 DEF Before

===============================================================================
