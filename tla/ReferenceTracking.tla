--------------------------- MODULE ReferenceTracking ---------------------------
(***************************************************************************)
(* What the code builder relies on when it keeps the references of a       *)
(* function in one graph: a node taken away on the path between two others *)
(* leaves them derived from one another, and nothing is derived from a     *)
(* variable that is destroyed or moved.                                    *)
(*                                                                         *)
(* The graph is changed in any order by what straight code does: variables *)
(* are declared with their names, temporaries and references are created,  *)
(* fields are accessed, references are taken, variables are moved and      *)
(* destroyed.  RemoveNode and MoveNode deal with the inner reference nodes *)
(* and the children of a node before the node itself; here these go one at *)
(* a time, at any time, and so do the links between inner reference nodes, *)
(* which allows more.  The whole programs, where these steps make up       *)
(* expressions and declarations, are those of module Lifetimes.            *)
(***************************************************************************)
EXTENDS ReferencesGraph

CONSTANTS
  Variables,     \* the variables that may be declared: their numbers, types and value types of their names
  Temporaries    \* the temporaries that may be created: their numbers, types and value types

ASSUME TrackingAssumption ==
  /\ \A d \in Variables : d.type \in Types /\ d.vt \in {"Mut", "Imut"}
  /\ \A d \in Temporaries : d.type \in Types /\ d.vt \in {"Value", "Mut", "Imut"}

VARIABLE graph

nodes == DOMAIN graph.nodes

\* The root of a path: a variable or a reference itself
IsRoot(n) == n.path = <<>> /\ n.tag = 0

\* A variable and the reference that is its name have the same number.
Variable(d) == Create(<<"var", d.number>>, d.type, "Value")
NameOf(d) == Create(<<"ref", d.number>>, d.type, d.vt)
Temporary(d) == Create(<<"temporary", d.number>>, d.type, d.vt)

IsNew(n) == \A m \in nodes : m.id # n.id

IsAlone(n) == \A m \in nodes : m.id = n.id => m = n

\* A node is in use unless it is a moved variable or reference or a part of one.
InUse(g, n) == \E root \in DOMAIN g.nodes : root.id = n.id /\ IsRoot(root) /\ ~g.nodes[root]

TrackingInit == graph = EmptyGraph

\* Named, with the variable created right before
Declare(d) ==
  /\ IsNew(Variable(d)) /\ IsNew(NameOf(d))
  /\ graph' = AddLink(AddNode(AddNode(graph, NameOf(d)), Variable(d)), Variable(d), NameOf(d))

\* The result of an expression, a value or a reference that will be bound
CreateTemporary(n) ==
  /\ IsNew(n)
  /\ graph' = AddNode(graph, n)

\* AccessClassField, when the node of the field does not exist yet
AccessField(n, field) ==
  /\ ~NodeMoved(graph, n)
  /\ Child(n, field) \notin nodes
  /\ graph' = AddNode(graph, Child(n, field))

\* TryAddLink: a reference is taken, or stored in an object.
Bind(from, to) ==
  /\ to.path = <<>> /\ to.vt # "Value"
  /\ InUse(graph, from) /\ InUse(graph, to)
  /\ TryAddLink(graph, from, to).errors = {}
  /\ graph' = TryAddLink(graph, from, to)

\* MoveNode of a node without inner reference nodes that nothing is taken from:
\* its children have no links.
Moved(g, n) ==
  RemoveNodeLinks([g EXCEPT !.nodes = [m \in DOMAIN @ |-> m \in {n} \cup Descendants(g, n) \/ @[m]]], n)

\* MoveOperator, of a name, once the inner reference nodes are dealt with
MoveVariable(name, variable) ==
  /\ name.id[1] = "ref" /\ IsRoot(name)
  /\ \A m \in nodes : m.id \in {name.id, variable.id} => m.tag = 0
  /\ name.vt = "Mut" /\ ~HasOutgoingLinks(graph, name) /\ ~NodeMoved(graph, name)
  /\ GetNodeInputLinks(graph, name) = {variable} /\ variable.vt = "Value"
  /\ graph' = Moved(Moved(graph, name), variable)

\* A step of RemoveNode: an inner reference node, a child, or a reference that
\* is no name of a variable
RemovePart(n) ==
  /\ \/ n.tag > 0
     \/ n.path # <<>> /\ Descendants(graph, n) = {}
     \/ n.id[1] = "temporary" /\ n.vt # "Value" /\ IsAlone(n)
  /\ graph' = Erase(graph, n)

\* RemoveUnused, of a temporary that is a value
DestroyTemporary(n) ==
  /\ n.id[1] = "temporary" /\ n.vt = "Value" /\ IsRoot(n) /\ IsAlone(n)
  /\ NodeMoved(graph, n) \/ ~HasOutgoingLinks(graph, n)
  /\ graph' = Erase(graph, n)

\* DestroyStored, of the name of a variable and then of the variable
LeaveScope(name, variable) ==
  /\ name.id[1] = "ref" /\ IsRoot(name) /\ IsAlone(name)
  /\ variable.id = <<"var", name.id[2]>> /\ IsRoot(variable) /\ IsAlone(variable)
  /\ NodeMoved(graph, variable) \/ ~HasOutgoingLinks(Erase(graph, name), variable)
  /\ graph' = Erase(Erase(graph, name), variable)

TrackingNext ==
  \/ \E d \in Variables : Declare(d)
  \/ \E d \in Temporaries : CreateTemporary(Temporary(d))
  \/ \E n \in {m \in nodes : m.tag = 0} : \E field \in DOMAIN FieldTypes[n.type] : AccessField(n, field)
  \/ \E from, to \in nodes : Bind(from, to)
  \/ \E name, variable \in nodes : MoveVariable(name, variable)
  \/ \E n \in nodes : RemovePart(n)
  \/ \E n \in nodes : DestroyTemporary(n)
  \/ \E name, variable \in nodes : LeaveScope(name, variable)

TrackingSpec == TrackingInit /\ [][TrackingNext]_graph

-------------------------------------------------------------------------------
(***************************************************************************)
(* What is derived from what, without a search: b is derived from a if it  *)
(* is in every closed set with a, one that the links do not leave and that *)
(* has the children of its nodes.                                          *)
(***************************************************************************)
IsClosed(g, S) ==
  /\ \A l \in g.links : l[1] \in S => l[2] \in S
  /\ \A n \in S : Descendants(g, n) \subseteq S

ClosedSets(g) == {S \in SUBSET DOMAIN g.nodes : IsClosed(g, S)}

IsDerived(closed, a, b) == \A S \in closed : a \in S => b \in S

\* The search of IsNodeReachable finds what is derived, for every two nodes.
SearchFindsDerived ==
  \A closed \in {ClosedSets(graph)} : \A b \in nodes :
    Origins(graph, b) = {a \in nodes : IsDerived(closed, a, b)}

\* A variable with a mutable name that is not moved is referred to by its name
\* only, itself and its parts: MoveOperator looks at the references to the
\* name and moves the variable.
NamesExclusive ==
  \A name, variable \in nodes :
    /\ IsRoot(name) /\ name.id[1] = "ref" /\ name.vt = "Mut" /\ ~graph.nodes[name]
    /\ variable.tag = 0 /\ variable.id = <<"var", name.id[2]>>
    => DirectLinks(graph, variable) \subseteq {<<variable, name>>}

\* Every set of nodes in use after the step that is closed then was closed
\* before: no two of them ceased to be derived from one another.
KeepsDerivations(g, h) ==
  \A kept \in {{n \in DOMAIN g.nodes \cap DOMAIN h.nodes : InUse(h, n)}} :
    {S \cap kept : S \in ClosedSets(h)} \subseteq {S \cap kept : S \in ClosedSets(g)}

\* Of two nodes that stay in use, one derived from the other stays derived
\* from it, whatever is removed or moved between them.
DerivationsKept == [][KeepsDerivations(graph, graph')]_graph

\* A variable that is destroyed or moved by the step has nothing derived from
\* it that stays in use.
DanglesNothing ==
  \A variable \in nodes :
    IsRoot(variable) /\ variable.vt = "Value" /\ InUse(graph, variable) /\ ~InUse(graph', variable)
    => \A closed \in {ClosedSets(graph)} : \A n \in nodes \cap nodes' :
         InUse(graph', n) /\ n.id # variable.id => ~IsDerived(closed, variable, n)

\* When a variable is destroyed or moved, nothing that stays in use is derived
\* from it.
NoneLeftDangling == [][DanglesNothing]_graph

=============================================================================
