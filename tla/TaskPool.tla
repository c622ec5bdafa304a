------------------------------- MODULE TaskPool -------------------------------
(***************************************************************************)
(* What a runner promises to the users of add_task, with no queue lock, no *)
(* wakers and no main loop: tasks wait in one first-in first-out line, the *)
(* worker that takes the first one keeps it, and a task that was accepted  *)
(* either runs to completion or is destroyed after the runner closed.      *)
(***************************************************************************)
EXTENDS Sequences

CONSTANTS Tasks, Workers

VARIABLES
  line,       \* accepted tasks nobody has taken, first in first out
  owned,      \* tasks each worker has taken and not ended
  finished,   \* tasks that ran to completion
  destroyed,  \* tasks cancelled by the shutdown
  closed      \* the runner's destructor has begun

poolVars == <<line, owned, finished, destroyed, closed>>

Known == {line[i] : i \in DOMAIN line} \cup (UNION {owned[w] : w \in Workers})
         \cup finished \cup destroyed

Init ==
  /\ line = <<>> /\ owned = [w \in Workers |-> {}]
  /\ finished = {} /\ destroyed = {} /\ closed = FALSE

\* A task is accepted at most once.
Accept(k) ==
  /\ k \notin Known
  /\ line' = Append(line, k)
  /\ UNCHANGED <<owned, finished, destroyed, closed>>

Take(w) ==
  /\ line # <<>> /\ ~closed
  /\ owned' = [owned EXCEPT ![w] = @ \cup {Head(line)}]
  /\ line' = Tail(line)
  /\ UNCHANGED <<finished, destroyed, closed>>

Finish(w, k) ==
  /\ k \in owned[w]
  /\ owned' = [owned EXCEPT ![w] = @ \ {k}]
  /\ finished' = finished \cup {k}
  /\ UNCHANGED <<line, destroyed, closed>>

Close == ~closed /\ closed' = TRUE /\ UNCHANGED <<line, owned, finished, destroyed>>

\* A worker gives up the tasks it holds, at their yield points.
GiveUp(w) ==
  /\ closed
  /\ destroyed' = destroyed \cup owned[w]
  /\ owned' = [owned EXCEPT ![w] = {}]
  /\ UNCHANGED <<line, finished, closed>>

\* The line itself is destroyed only when no worker holds a task any more.
Dismantle ==
  /\ closed
  /\ \A w \in Workers : owned[w] = {}
  /\ destroyed' = destroyed \cup {line[i] : i \in DOMAIN line}
  /\ line' = <<>>
  /\ UNCHANGED <<owned, finished, closed>>

Next ==
  \/ \E k \in Tasks : Accept(k)
  \/ \E w \in Workers : Take(w) \/ GiveUp(w) \/ \E k \in Tasks : Finish(w, k)
  \/ Close \/ Dismantle

Spec == Init /\ [][Next]_poolVars

=============================================================================
