-------------------------- MODULE ReferencesGraphWalks --------------------------
(***************************************************************************)
(* The methods of ReferencesGraph that walk through several nodes: through *)
(* a node with its inner reference nodes and its children, or backwards    *)
(* along the links.                                                        *)
(***************************************************************************)
EXTENDS ReferencesGraph, SequencesExt

\* The children of a node before the node itself, as the recursions of the code visit them
ChildrenFirst(g, n) ==
  Append(SetToSortSeq(Descendants(g, n), LAMBDA a, b : Len(a.path) > Len(b.path)), n)

TryAddInnerLinks(g, from, to) ==
  FoldLeft(LAMBDA h, i : TryAddLink(h, Inner(from)[i], Inner(to)[i]), g, [i \in DOMAIN to.tags |-> i])

\* The inner reference nodes of variables that a write to the inner reference "to" changes
VariableInnerNodes(g, to) ==
  LET Back[k \in Nat] ==
        IF k = 0 THEN {to}
        ELSE LET prev == Back[k - 1] IN
             prev \cup {l[1] : l \in {l \in g.links : l[2] \in {m \in prev : ~IsVariableInnerReferenceNode(m)}}}
  IN  {m \in Back[Cardinality(DOMAIN g.nodes)] : IsVariableInnerReferenceNode(m)}

TryAddLinkToAllAccessibleVariableNodesInnerReferences(g, from, to) ==
  FoldLeft(LAMBDA h, n : TryAddLink(h, from, n), g, SetToSeq(VariableInnerNodes(g, to)))

RemoveNode(g, n) ==
  IF n \notin DOMAIN g.nodes THEN g
  ELSE FoldLeft(Erase, g, (IF n.path = <<>> THEN Inner(n) ELSE <<>>) \o ChildrenFirst(g, n))

MoveNode(g, n) ==
  LET moved == {n} \cup Descendants(g, n)
      h == UAssert(g, n \in DOMAIN g.nodes /\ \A m \in moved : ~NodeMoved(g, m))
  IN  FoldLeft(RemoveNodeLinks,
               [h EXCEPT !.nodes = [m \in DOMAIN @ |-> m \in moved \/ @[m]]],
               Inner(n) \o ChildrenFirst(g, n))
================================================================================
