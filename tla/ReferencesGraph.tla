---------------------------- MODULE ReferencesGraph ----------------------------
(***************************************************************************)
(* The references graph of the compiler's code builder: which variables    *)
(* and references exist at a point of a function, which of them are moved, *)
(* and which are derived from which.  Every operator is a method of        *)
(* ReferencesGraph; one that changes the graph returns the new one.        *)
(*                                                                         *)
(* A node is a Variable of the compiler.  The members of a variable are    *)
(* its children: nodes with the same "id" and a longer "path".  Every      *)
(* reference tag of a type gives a node an inner reference node ("tag"     *)
(* above zero), which the children of the node share.  The methods that    *)
(* walk through several nodes are in ReferencesGraphWalks.                 *)
(***************************************************************************)
EXTENDS Naturals, Sequences, FiniteSets, Functions

CONSTANTS
  TagKinds,    \* for each type, the kinds of its reference tags, "Mut" or "Imut"
  FieldTypes,  \* for each type, the types of its value fields
  FieldTags    \* for each type and field, the tags of the type that the field's tags are

Types == DOMAIN TagKinds

ASSUME TypesAssumption ==
  /\ TagKinds \in [Types -> Seq({"Mut", "Imut"})]
  /\ DOMAIN FieldTypes = Types /\ DOMAIN FieldTags = Types
  /\ \A t \in Types :
       /\ DOMAIN FieldTags[t] = DOMAIN FieldTypes[t]
       /\ \A f \in DOMAIN FieldTypes[t] :
            LET ft == FieldTypes[t][f] IN
            /\ ft \in Types
            /\ Len(FieldTags[t][f]) = Len(TagKinds[ft])
            /\ \A i \in DOMAIN TagKinds[ft] :
                 FieldTags[t][f][i] \in DOMAIN TagKinds[t] /\ TagKinds[t][FieldTags[t][f][i]] = TagKinds[ft][i]

\* Variable::Create: "vt" is the value type, "Value", "Mut" or "Imut"; "tags"
\* are the reference tags of the root of the path; "root" is the root's value type.
Create(id, type, vt) ==
  [id |-> id, path |-> <<>>, tag |-> 0, type |-> type, vt |-> vt,
   tags |-> [i \in DOMAIN TagKinds[type] |-> i], root |-> vt]

\* inner_reference_nodes
Inner(n) ==
  [i \in DOMAIN n.tags |->
     [id |-> n.id, path |-> <<>>, tag |-> n.tags[i], type |-> "", vt |-> TagKinds[n.type][i],
      tags |-> <<>>, root |-> n.root]]

\* Variable::CreateChildNode as AccessClassField uses it, for a mutable field
Child(n, f) ==
  [id |-> n.id, path |-> Append(n.path, f), tag |-> n.tag, type |-> FieldTypes[n.type][f],
   vt |-> IF n.vt = "Mut" THEN "Mut" ELSE "Imut",
   tags |-> [i \in DOMAIN FieldTags[n.type][f] |-> n.tags[FieldTags[n.type][f][i]]], root |-> n.root]

IsVariableInnerReferenceNode(n) == n.tag > 0 /\ n.root = "Value"

EmptyGraph == [nodes |-> <<>>, links |-> {}, errors |-> {}, failed |-> FALSE]

Report(g, error, condition) == IF condition THEN [g EXCEPT !.errors = @ \cup {error}] ELSE g
UAssert(g, condition) == [g EXCEPT !.failed = @ \/ ~condition]

\* --------------------------------------------------------------------------
\* Nodes and their relatives

AddNodes(g, added) ==
  [g EXCEPT !.nodes = [m \in DOMAIN @ \cup added |-> IF m \in DOMAIN @ THEN @[m] ELSE FALSE]]

AddNode(g, n) ==
  LET added == {n} \cup (IF n.path = <<>> THEN Range(Inner(n)) ELSE {})
  IN  UAssert(AddNodes(g, added), added \cap DOMAIN g.nodes = {})

AddNodeIfNotExists(g, n) == AddNodes(g, {n} \cup Range(Inner(n)))

NodeMoved(g, n) == n \in DOMAIN g.nodes /\ g.nodes[n]

\* A path through more fields
IsInside(path, outer) == Len(outer) < Len(path) /\ \A i \in DOMAIN outer : path[i] = outer[i]

Descendants(g, n) ==
  {m \in DOMAIN g.nodes : n.tag = 0 /\ m.tag = 0 /\ m.id = n.id /\ IsInside(m.path, n.path)}

Ancestors(g, n) ==
  {m \in DOMAIN g.nodes : n.tag = 0 /\ m.tag = 0 /\ m.id = n.id /\ IsInside(n.path, m.path)}

\* --------------------------------------------------------------------------
\* Links

DirectLinks(g, from) == {l \in g.links : l[1] = from}

Relatives(g, n) == {n} \cup Descendants(g, n) \cup Ancestors(g, n)

\* Mutant: the children and the parents are not looked at.
HasOutgoingLinksItself(g, from) == DirectLinks(g, from) # {}

HasOutgoingLinks(g, from) == \E m \in Relatives(g, from) : DirectLinks(g, m) # {}

HasOutgoingMutableNodes(g, from) ==
  \E m \in Relatives(g, from) : \E l \in DirectLinks(g, m) : l[2].vt = "Mut"

\* Mutant: a part is not derived from the whole.
OriginsByLinks(g, n) ==
  LET Back[k \in Nat] ==
        IF k = 0 THEN {n}
        ELSE LET prev == Back[k - 1] IN prev \cup {l[1] : l \in {l \in g.links : l[2] \in prev}}
  IN  Back[Cardinality(DOMAIN g.nodes)]

\* Everything a node is derived from: backwards along links and to the parents
Origins(g, n) ==
  LET Back[k \in Nat] ==
        IF k = 0 THEN {n}
        ELSE LET prev == Back[k - 1] IN
             prev \cup {l[1] : l \in {l \in g.links : l[2] \in prev}}
                  \cup UNION {Ancestors(g, m) : m \in prev}
  IN  Back[Cardinality(DOMAIN g.nodes)]

IsNodeReachable(g, from, to) == from \in Origins(g, to)

GetAllAccessibleVariableNodes(g, n) == {m \in Origins(g, n) : m.vt = "Value"}

GetNodeInputLinks(g, n) == {l[1] : l \in {l \in g.links : l[2] \in {n} \cup Ancestors(g, n)}}

AddLink(g, from, to) ==
  [UAssert(g, {from, to} \subseteq DOMAIN g.nodes) EXCEPT !.links = @ \cup ({<<from, to>>} \ {<<from, from>>})]

\* Mutant: only mutable references are checked.
TryAddLinkUnprotected(g, from, to) ==
  LET h == Report(g, "ReferenceProtectionError", to.vt = "Mut" /\ HasOutgoingMutableNodes(g, from))
  IN  AddLink(h, from, to)

CheckProtection(g, from, to) ==
  Report(g, "ReferenceProtectionError",
         (to.vt = "Mut" /\ HasOutgoingLinks(g, from)) \/ HasOutgoingMutableNodes(g, from))

TryAddLink(g, from, to) ==
  IF to.vt = "Mut" /\ IsVariableInnerReferenceNode(to) /\ IsNodeReachable(g, to, from)
  THEN Report(CheckProtection(g, from, to), "CreatingMutableReferencesLoop", TRUE)
  ELSE AddLink(CheckProtection(g, from, to), from, to)

\* --------------------------------------------------------------------------
\* Removing

\* Mutant: what leads through the node is lost.
DropNodeLinks(g, n) == [g EXCEPT !.links = {l \in @ : n \notin {l[1], l[2]}}]

\* What leads into the node leads on to what led out of it; what led out of a
\* child leads out of its parent.
RemoveNodeLinks(g, n) ==
  LET ins == {l[1] : l \in {l \in g.links : l[2] = n}}
      outs == {l[2] : l \in {l \in g.links : l[1] = n}}
      parents == {m \in Ancestors(g, n) : Len(m.path) + 1 = Len(n.path)}
      kept == {l \in g.links : n \notin {l[1], l[2]}}
  IN  [UAssert(g, parents = {} \/ ins = {}) EXCEPT
         !.links = kept \cup {l \in (ins \cup parents) \X outs : l[1] # l[2]}]

Erase(g, n) ==
  [RemoveNodeLinks(g, n) EXCEPT !.nodes = [m \in DOMAIN @ \ {n} |-> @[m]]]

\* --------------------------------------------------------------------------
\* Joining control flow

\* Mutant: a variable is moved if it is moved in some branch.
MergeUnconditionally(branches) ==
  LET gs == Range(branches) IN
  [nodes |-> [n \in UNION {DOMAIN g.nodes : g \in gs} |-> \E g \in gs : NodeMoved(g, n)],
   links |-> UNION {g.links : g \in gs},
   errors |-> UNION {g.errors : g \in gs},
   failed |-> \E g \in gs : g.failed]

MergeVariablesStateAfterIf(branches) ==
  LET gs == Range(branches)
      nodes == UNION {DOMAIN g.nodes : g \in gs}
      first(n) == branches[CHOOSE i \in DOMAIN branches :
                             /\ n \in DOMAIN branches[i].nodes
                             /\ \A j \in 1..(i - 1) : n \notin DOMAIN branches[j].nodes]
      merged == [nodes |-> [n \in nodes |-> first(n).nodes[n]],
                 links |-> UNION {g.links : g \in gs},
                 errors |-> UNION {g.errors : g \in gs},
                 failed |-> \E g \in gs : g.failed]
  IN  Report(merged, "ConditionalMove",
             \E g \in gs : \E n \in DOMAIN g.nodes : g.nodes[n] # merged.nodes[n])

\* The errors are added to the state after the loop.
CheckVariablesStateAfterLoop(before, after) ==
  LET moved == \E n \in DOMAIN before.nodes : ~before.nodes[n] /\ NodeMoved(after, n)
      polluted == \E n \in DOMAIN before.nodes : \E i \in DOMAIN n.tags :
                    /\ n.vt = "Value"
                    /\ ~(GetNodeInputLinks(after, Inner(n)[i]) \subseteq GetNodeInputLinks(before, Inner(n)[i]))
  IN  Report(Report(UAssert(after, DOMAIN before.nodes \subseteq DOMAIN after.nodes),
                    "OuterVariableMoveInsideLoop", moved),
             "ReferencePollutionOfOuterLoopVariable", polluted)
================================================================================
