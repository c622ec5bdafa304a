------------------------------ MODULE MCClassHierarchies --------------------------
(***************************************************************************)
(* Small hierarchies of classes: four classes with two overloads of a      *)
(* method, at most one of them declared by a class, and at most two        *)
(* parents.  The first class has no parents, the last is an ordinary one   *)
(* that derives from the third.                                            *)
(***************************************************************************)
EXTENDS Integers

MethodsInOrder == <<"destructor", "f", "g">>

Attributes == <<{"Polymorph", "Interface"}, {"Polymorph", "Interface", "Abstract", "Class"},
                {"Polymorph", "Interface", "Class", "Final"}, {"Class"}>>
VirtualKinds == {"DeclareVirtual", "VirtualOverride", "VirtualFinal", "VirtualPure"}
MethodKinds == <<{"DeclareVirtual", "VirtualPure"}, VirtualKinds, {"DeclareVirtual", "VirtualPure", "VirtualOverride"},
                 VirtualKinds \cup {"None"}>>
MethodsSets(n) ==
  {<<>>} \cup {[m \in {name} |-> k] : name \in (IF n = 1 THEN {"f"} ELSE {"f", "g"}), k \in MethodKinds[n]}
ParentsSets == <<{<<>>}, {<<>>, <<1>>, <<1, 1>>}, {<<1>>, <<2>>, <<1, 2>>, <<2, 1>>}, {<<3>>, <<1, 3>>, <<3, 1>>, <<2, 3>>, <<3, 2>>}>>

SmallDeclarations(n) ==
  IF n = 4 THEN {}
  ELSE {[attribute |-> a, parents |-> p, methods |-> m] : a \in Attributes[n + 1], p \in ParentsSets[n + 1], m \in MethodsSets(n + 1)}

=============================================================================
