------------------------------- MODULE MCRunner -------------------------------
(***************************************************************************)
(* Runner with two threads, a client and two tasks.  Tasks are numbers and *)
(* are passed to add_task in their order: which of the tasks not yet added *)
(* comes next makes no difference to the runner.                           *)
(***************************************************************************)
EXTENDS Runner

AddedInOrder == \A k \in fresh \ fresh' : \A later \in fresh' : k < later

MCSpec == Init /\ [][Next /\ AddedInOrder]_vars /\ Fairness

=============================================================================
