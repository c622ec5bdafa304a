------------------------------ MODULE MCClasses ------------------------------
(***************************************************************************)
(* Classes on small hierarchies.                                           *)
(***************************************************************************)
EXTENDS Classes

Hierarchies == INSTANCE MCClassHierarchies
MCMethods == Hierarchies!MethodsInOrder
MCDeclarations(n) == Hierarchies!SmallDeclarations(n)

=============================================================================
