----------------------------- MODULE MCReferences -----------------------------
(***************************************************************************)
(* Whole programs of Lifetimes and the graph alone of ReferenceTracking,   *)
(* checked side by side: a behaviour is one of the part it starts with,    *)
(* the variables of the other part keep a resting value.                   *)
(***************************************************************************)
EXTENDS MCLifetimes, ReferenceTracking

VARIABLE part   \* the part whose behaviour this is

Of(number, type, vt) == [number |-> number, type |-> type, vt |-> vt]

\* A structure with two fields and a mutable name
MCVariables == {Of(1, "S", "Mut")}

\* References to such a structure and to a field, and a holder of a reference
MCTemporaries == {Of(1, "S", "Mut"), Of(2, "H", "Value"), Of(3, "P", "Imut")}

MaxNodes == 5

ReferencesInit ==
  \/ part = "programs" /\ Init /\ TrackingInit
  \/ part = "graph" /\ TrackingInit /\ Init /\ words = Members

ReferencesNext ==
  /\ UNCHANGED part
  /\ \/ part = "programs" /\ Next /\ UNCHANGED graph
     \/ part = "graph" /\ TrackingNext /\ Cardinality(nodes') <= MaxNodes /\ UNCHANGED vars

ReferencesSpec == ReferencesInit /\ [][ReferencesNext]_<<part, vars, graph>>
================================================================================
