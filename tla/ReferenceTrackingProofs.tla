------------------------ MODULE ReferenceTrackingProofs ------------------------
(***************************************************************************)
(* Proofs about ReferencesGraph and ReferenceTracking, for every set of    *)
(* types and any number of variables and temporaries.                      *)
(***************************************************************************)
EXTENDS ReferenceTracking, TLAPS

\* The provers to try, in this order, with their time limits in seconds.
USE SMTT(30), ZenonT(30), SMTT(40), SMTT(50), SMTT(60)

Fields == UNION {DOMAIN FieldTypes[t] : t \in Types}

Kinds == {"var", "ref", "temporary"}

NodeNumbers == {d.number : d \in Variables \cup Temporaries}

\* A graph is a record of its components.
IsGraph(g) == g = [nodes |-> g.nodes, links |-> g.links, errors |-> g.errors, failed |-> g.failed]

NodeOK(n) ==
  /\ n.id \in Kinds \X NodeNumbers
  /\ n.path \in Seq(Fields)
  /\ n.tag \in Nat
  /\ n.tag > 0 => n.path = <<>>
  /\ n.tag = 0 => n.type \in Types

\* A path leads to one node.
PathsUnique(D) == \A m, n \in D : m.tag = 0 /\ n.tag = 0 /\ m.id = n.id /\ m.path = n.path => m = n

\* The node of a field is there together with the node of the whole.
ParentsPresent(D) ==
  \A n \in D : n.path # <<>> => \E p \in D : \E f \in Fields : p.tag = 0 /\ n = Child(p, f)

LinksOK(D, links) == links \subseteq D \X D /\ \A l \in links : l[1] # l[2] /\ l[2].path = <<>>

WellFormed(g) ==
  /\ IsGraph(g)
  /\ g.nodes \in [DOMAIN g.nodes -> BOOLEAN]
  /\ \A n \in DOMAIN g.nodes : NodeOK(n)
  /\ PathsUnique(DOMAIN g.nodes)
  /\ ParentsPresent(DOMAIN g.nodes)
  /\ LinksOK(DOMAIN g.nodes, g.links)

-------------------------------------------------------------------------------
(***************************************************************************)
(* Paths.                                                                  *)
(***************************************************************************)
LEMMA InsideAppended ==
  ASSUME NEW p \in Seq(Fields), NEW f \in Fields
  PROVE  /\ Append(p, f) \in Seq(Fields)
         /\ Append(p, f) # <<>>
         /\ IsInside(Append(p, f), p)
         /\ Len(Append(p, f)) = Len(p) + 1
  BY DEF IsInside

\* What is inside of a field's path's beginning is inside of the beginning.
LEMMA InsideTransitive ==
  ASSUME NEW a \in Seq(Fields), NEW b \in Seq(Fields), NEW c \in Seq(Fields), IsInside(a, b), IsInside(b, c)
  PROVE  IsInside(a, c)
  BY DEF IsInside

\* Of the paths around a field's path the longest is the path of the whole.
LEMMA InsideParent ==
  ASSUME NEW p \in Seq(Fields), NEW f \in Fields, NEW a \in Seq(Fields), IsInside(Append(p, f), a)
  PROVE  a = p \/ IsInside(p, a)
  BY DEF IsInside

LEMMA AppendedEqual ==
  ASSUME NEW p \in Seq(Fields), NEW f \in Fields, NEW q \in Seq(Fields), NEW e \in Fields,
         Append(p, f) = Append(q, e)
  PROVE  p = q /\ f = e
  <1>1. Len(p) = Len(q)
    OBVIOUS
  <1>2. \A i \in 1 .. Len(p) : p[i] = q[i]
    <2>1. \A i \in 1 .. Len(p) : Append(p, f)[i] = p[i] /\ Append(q, e)[i] = q[i]
      BY <1>1
    <2> QED BY <2>1
  <1>3. f = e
    <2>1. Append(p, f)[Len(p) + 1] = f /\ Append(q, e)[Len(q) + 1] = e
      OBVIOUS
    <2> QED BY <1>1, <2>1
  <1> QED BY <1>1, <1>2, <1>3

-------------------------------------------------------------------------------
(***************************************************************************)
(* What the operations do to the nodes and the links.                      *)
(***************************************************************************)
Parents(g, n) == {m \in Ancestors(g, n) : Len(m.path) + 1 = Len(n.path)}

LEMMA NodesUpdated ==
  ASSUME NEW g, IsGraph(g), NEW x, NEW h, h = [g EXCEPT !.nodes = x]
  PROVE  IsGraph(h) /\ h.nodes = x /\ h.links = g.links /\ h.errors = g.errors
  BY DEF IsGraph

LEMMA LinksUpdated ==
  ASSUME NEW g, IsGraph(g), NEW x, NEW h, h = [g EXCEPT !.links = x]
  PROVE  IsGraph(h) /\ h.nodes = g.nodes /\ h.links = x /\ h.errors = g.errors
  BY DEF IsGraph

LEMMA FailedUpdated ==
  ASSUME NEW g, IsGraph(g), NEW x, NEW h, h = [g EXCEPT !.failed = x]
  PROVE  IsGraph(h) /\ h.nodes = g.nodes /\ h.links = g.links /\ h.errors = g.errors
  BY DEF IsGraph

LEMMA Asserted ==
  ASSUME NEW g, IsGraph(g), NEW condition
  PROVE  LET h == UAssert(g, condition) IN
         IsGraph(h) /\ h.nodes = g.nodes /\ h.links = g.links /\ h.errors = g.errors
  <1> DEFINE x == g.failed \/ ~condition
  <1>1. UAssert(g, condition) = [g EXCEPT !.failed = x]
    BY DEF UAssert
  <1> HIDE DEF x
  <1> QED BY <1>1, FailedUpdated

LEMMA RemovedLinks ==
  ASSUME NEW g, IsGraph(g), NEW n
  PROVE  LET h == RemoveNodeLinks(g, n)
             ins == {l[1] : l \in {l \in g.links : l[2] = n}}
             outs == {l[2] : l \in {l \in g.links : l[1] = n}}
         IN  /\ IsGraph(h) /\ h.nodes = g.nodes
             /\ h.links = {l \in g.links : n \notin {l[1], l[2]}}
                          \cup {l \in (ins \cup Parents(g, n)) \X outs : l[1] # l[2]}
  <1> DEFINE ins == {l[1] : l \in {l \in g.links : l[2] = n}}
             outs == {l[2] : l \in {l \in g.links : l[1] = n}}
             a == UAssert(g, Parents(g, n) = {} \/ ins = {})
             links == {l \in g.links : n \notin {l[1], l[2]}}
                      \cup {l \in (ins \cup Parents(g, n)) \X outs : l[1] # l[2]}
  <1>1. RemoveNodeLinks(g, n) = [a EXCEPT !.links = links]
    BY DEF RemoveNodeLinks, Parents
  <1>2. IsGraph(a) /\ a.nodes = g.nodes
    BY Asserted
  <1> HIDE DEF a, links
  <1>3. IsGraph(RemoveNodeLinks(g, n)) /\ RemoveNodeLinks(g, n).nodes = g.nodes /\ RemoveNodeLinks(g, n).links = links
    BY <1>1, <1>2, LinksUpdated
  <1> QED BY <1>3 DEF links

LEMMA RemovedLink ==
  ASSUME NEW g, IsGraph(g), LinksOK(DOMAIN g.nodes, g.links), NEW n
  PROVE  LET h == RemoveNodeLinks(g, n) IN
         /\ \A x, y : <<x, y>> \in h.links <=>
              \/ <<x, y>> \in g.links /\ x # n /\ y # n
              \/ x # y /\ <<n, y>> \in g.links /\ (<<x, n>> \in g.links \/ x \in Parents(g, n))
         /\ \A l \in h.links : l = <<l[1], l[2]>>
  <1> DEFINE ins == {l[1] : l \in {l \in g.links : l[2] = n}}
             outs == {l[2] : l \in {l \in g.links : l[1] = n}}
             kept == {l \in g.links : n \notin {l[1], l[2]}}
             passed == {l \in (ins \cup Parents(g, n)) \X outs : l[1] # l[2]}
  <1>1. RemoveNodeLinks(g, n).links = kept \cup passed
    BY RemovedLinks
  <1>2. \A l \in g.links : l = <<l[1], l[2]>>
    BY DEF LinksOK
  <1>3. \A x : x \in ins <=> <<x, n>> \in g.links
    BY <1>2
  <1>4. \A y : y \in outs <=> <<n, y>> \in g.links
    BY <1>2
  <1>5. \A x, y : <<x, y>> \in kept <=> <<x, y>> \in g.links /\ x # n /\ y # n
    OBVIOUS
  <1> HIDE DEF ins, outs
  <1>6. \A x, y : <<x, y>> \in passed <=> x # y /\ y \in outs /\ (x \in ins \/ x \in Parents(g, n))
    OBVIOUS
  <1>7. \A l \in passed : l = <<l[1], l[2]>>
    OBVIOUS
  <1> HIDE DEF passed
  <1>8. \A l \in kept \cup passed : l = <<l[1], l[2]>>
    BY <1>2, <1>7
  <1> QED BY <1>1, <1>3, <1>4, <1>5, <1>6, <1>8

LEMMA Erased ==
  ASSUME NEW g, IsGraph(g), NEW n
  PROVE  LET h == Erase(g, n) IN
         /\ IsGraph(h)
         /\ h.nodes = [m \in DOMAIN g.nodes \ {n} |-> g.nodes[m]]
         /\ DOMAIN h.nodes = DOMAIN g.nodes \ {n}
         /\ h.links = RemoveNodeLinks(g, n).links
  <1> DEFINE r == RemoveNodeLinks(g, n)
  <1>1. IsGraph(r) /\ r.nodes = g.nodes
    BY RemovedLinks
  <1> DEFINE rest == [m \in DOMAIN g.nodes \ {n} |-> g.nodes[m]]
  <1>2. Erase(g, n) = [r EXCEPT !.nodes = rest]
    BY <1>1 DEF Erase
  <1>3. DOMAIN rest = DOMAIN g.nodes \ {n}
    OBVIOUS
  <1> HIDE DEF r, rest
  <1>4. IsGraph(Erase(g, n)) /\ Erase(g, n).nodes = rest /\ Erase(g, n).links = r.links
    BY <1>1, <1>2, NodesUpdated
  <1> QED BY <1>3, <1>4 DEF r, rest

LEMMA LinkAdded ==
  ASSUME NEW g, IsGraph(g), NEW from, NEW to
  PROVE  LET h == AddLink(g, from, to) IN
         /\ IsGraph(h) /\ h.nodes = g.nodes /\ h.errors = g.errors
         /\ h.links = g.links \cup ({<<from, to>>} \ {<<from, from>>})
  <1> DEFINE a == UAssert(g, {from, to} \subseteq DOMAIN g.nodes)
             links == g.links \cup ({<<from, to>>} \ {<<from, from>>})
  <1>1. IsGraph(a) /\ a.nodes = g.nodes /\ a.links = g.links /\ a.errors = g.errors
    BY Asserted
  <1>2. AddLink(g, from, to) = [a EXCEPT !.links = links]
    BY <1>1 DEF AddLink
  <1> HIDE DEF a, links
  <1>3. IsGraph(a)
    BY <1>1
  <1>4. LET h == AddLink(g, from, to) IN
        IsGraph(h) /\ h.nodes = a.nodes /\ h.links = links /\ h.errors = a.errors
    BY <1>2, <1>3, LinksUpdated
  <1> QED BY <1>1, <1>4 DEF links

\* A link is added without an error only where the protection allows it.
LEMMA LinkTried ==
  ASSUME NEW g, IsGraph(g), NEW from, NEW to, TryAddLink(g, from, to).errors = {}
  PROVE  LET h == TryAddLink(g, from, to) IN
         /\ IsGraph(h) /\ h.nodes = g.nodes
         /\ h.links = g.links \cup ({<<from, to>>} \ {<<from, from>>})
         /\ ~HasOutgoingMutableNodes(g, from)
         /\ to.vt = "Mut" => ~HasOutgoingLinks(g, from)
  <1> DEFINE c == CheckProtection(g, from, to)
  <1>1. IsGraph(c) /\ c.nodes = g.nodes /\ c.links = g.links
    BY DEF CheckProtection, Report, IsGraph
  <1>2. c.errors = {} => /\ ~HasOutgoingMutableNodes(g, from)
                         /\ to.vt = "Mut" => ~HasOutgoingLinks(g, from)
    BY DEF CheckProtection, Report, IsGraph
  <1>3. Report(c, "CreatingMutableReferencesLoop", TRUE).errors # {}
    BY <1>1 DEF Report, IsGraph
  <1> HIDE DEF c
  <1>4. TryAddLink(g, from, to) = AddLink(c, from, to)
    BY <1>3, Zenon DEF TryAddLink, c
  <1>5. AddLink(c, from, to).errors = c.errors
    BY <1>1, LinkAdded
  <1> QED BY <1>1, <1>2, <1>4, <1>5, LinkAdded

-------------------------------------------------------------------------------
(***************************************************************************)
(* Removing a node leaves the others derived from one another as they were *)
(***************************************************************************)
LEMMA Family ==
  ASSUME NEW g, NEW m \in DOMAIN g.nodes, NEW n \in DOMAIN g.nodes
  PROVE  m \in Descendants(g, n) <=> n \in Ancestors(g, m)
  BY DEF Descendants, Ancestors

\* The parent of a field's node: every other node around it is around the parent.
LEMMA ParentOf ==
  ASSUME NEW g, WellFormed(g), NEW n \in DOMAIN g.nodes, NEW x \in Ancestors(g, n)
  PROVE  \E p \in Parents(g, n) : p \in DOMAIN g.nodes /\ p # n /\ (x = p \/ p \in Descendants(g, x))
  <1>1. /\ x \in DOMAIN g.nodes /\ n.tag = 0 /\ x.tag = 0 /\ x.id = n.id /\ IsInside(n.path, x.path)
        /\ NodeOK(x) /\ NodeOK(n)
    BY DEF Ancestors, WellFormed
  <1>2. n.path # <<>>
    BY <1>1 DEF IsInside, NodeOK
  <1>3. PICK p \in DOMAIN g.nodes : \E f \in Fields : p.tag = 0 /\ n = Child(p, f)
    BY <1>2 DEF WellFormed, ParentsPresent
  <1>4. PICK f \in Fields : p.tag = 0 /\ n = Child(p, f)
    BY <1>3
  <1>5. n.path = Append(p.path, f) /\ n.id = p.id /\ p.path \in Seq(Fields) /\ x.path \in Seq(Fields)
    BY <1>1, <1>4, Zenon DEF Child, WellFormed, NodeOK
  <1>6. IsInside(n.path, p.path) /\ Len(n.path) = Len(p.path) + 1
    BY <1>5, InsideAppended
  <1>7. p \in Parents(g, n)
    BY <1>1, <1>4, <1>5, <1>6 DEF Parents, Ancestors
  <1>8. p # n
    BY <1>5, <1>6 DEF IsInside
  <1>9. x.path = p.path \/ IsInside(p.path, x.path)
    BY <1>1, <1>5, InsideParent
  <1>10. x.path = p.path => x = p
    BY <1>1, <1>4, <1>5 DEF WellFormed, PathsUnique
  <1>11. IsInside(p.path, x.path) => p \in Descendants(g, x)
    BY <1>1, <1>4, <1>5 DEF Descendants
  <1> QED BY <1>7, <1>8, <1>9, <1>10, <1>11

LEMMA ErasedLinks ==
  ASSUME NEW g, WellFormed(g), NEW n
  PROVE  LET h == Erase(g, n) IN
         /\ DOMAIN h.nodes = DOMAIN g.nodes \ {n}
         /\ \A x, y : <<x, y>> \in h.links <=>
              \/ <<x, y>> \in g.links /\ x # n /\ y # n
              \/ x # y /\ <<n, y>> \in g.links /\ (<<x, n>> \in g.links \/ x \in Parents(g, n))
         /\ \A l \in h.links : l = <<l[1], l[2]>>
         /\ \A m : Descendants(h, m) = Descendants(g, m) \ {n}
  <1>1. IsGraph(g) /\ LinksOK(DOMAIN g.nodes, g.links)
    BY DEF WellFormed
  <1>2. DOMAIN Erase(g, n).nodes = DOMAIN g.nodes \ {n} /\ Erase(g, n).links = RemoveNodeLinks(g, n).links
    BY <1>1, Erased, Zenon
  <1>3. \A m : Descendants(Erase(g, n), m) = Descendants(g, m) \ {n}
    BY <1>2 DEF Descendants
  <1> QED BY <1>1, <1>2, <1>3, RemovedLink

LEMMA ClosedBeforeErasure ==
  ASSUME NEW g, WellFormed(g), NEW n \in DOMAIN g.nodes, Descendants(g, n) = {},
         NEW S \in ClosedSets(Erase(g, n))
  PROVE  \E T \in ClosedSets(g) : T \ {n} = S
  <1> DEFINE h == Erase(g, n)
             Leads(x) == <<x, n>> \in g.links \/ x \in Ancestors(g, n)
             T == S \cup {m \in {n} : \E x \in S : Leads(x)}
  <1>1. DOMAIN h.nodes = DOMAIN g.nodes \ {n}
    BY ErasedLinks
  <1>2. /\ S \subseteq DOMAIN g.nodes \ {n}
        /\ \A l \in h.links : l[1] \in S => l[2] \in S
        /\ \A m \in S : Descendants(h, m) \subseteq S
    BY <1>1 DEF ClosedSets, IsClosed
  <1>3. \A l \in g.links : l = <<l[1], l[2]>> /\ l[1] \in DOMAIN g.nodes /\ l[2] \in DOMAIN g.nodes /\ l[1] # l[2]
    BY DEF WellFormed, LinksOK
  <1>4. \A m \in S : Descendants(g, m) \ {n} \subseteq S
    BY <1>2, ErasedLinks
  <1>5. \A x \in S : \A y : <<x, y>> \in h.links => y \in S
    BY <1>2
  <1>6. \A x, y : <<x, y>> \in g.links /\ x # n /\ y # n => <<x, y>> \in h.links
    BY ErasedLinks, Zenon
  <1>7. \A x \in S : x \in Ancestors(g, n) => \E p \in S : p \in Parents(g, n)
    BY <1>4, ParentOf
  <1>8. ASSUME NEW l \in g.links, l[1] \in T  PROVE l[2] \in T
    <2>1. CASE l[2] = n
      BY <1>3, <1>8, <2>1
    <2>2. CASE l[1] = n
      <3>1. PICK x \in S : Leads(x)
        BY <1>2, <1>8, <2>2
      <3>2. PICK p \in S : <<p, n>> \in g.links \/ p \in Parents(g, n)
        BY <1>7, <3>1
      <3>3. <<n, l[2]>> \in g.links
        BY <1>3, <2>2
      <3>4. p = l[2] \/ <<p, l[2]>> \in h.links
        BY <3>2, <3>3, ErasedLinks
      <3> QED BY <1>5, <3>4
    <2>3. CASE l[1] # n /\ l[2] # n
      <3>1. l[1] \in S
        BY <1>8, <2>3
      <3>2. <<l[1], l[2]>> \in g.links
        BY <1>3
      <3>3. <<l[1], l[2]>> \in h.links
        BY <1>6, <2>3, <3>2
      <3> QED BY <1>5, <3>1, <3>3
    <2> QED BY <2>1, <2>2, <2>3, Zenon
  <1>9. ASSUME NEW m \in T  PROVE Descendants(g, m) \subseteq T
    <2>1. CASE m = n
      BY <2>1
    <2>2. CASE m \in S
      <3>1. n \in Descendants(g, m) => m \in Ancestors(g, n)
        BY <1>2, <2>2, Family
      <3> QED BY <1>4, <2>2, <3>1
    <2> QED BY <1>9, <2>1, <2>2
  <1>10. T \in ClosedSets(g) /\ T \ {n} = S
    BY <1>2, <1>8, <1>9 DEF ClosedSets, IsClosed
  <1> QED BY <1>10

LEMMA ClosedAfterErasure ==
  ASSUME NEW g, WellFormed(g), NEW n \in DOMAIN g.nodes, NEW S \in ClosedSets(g)
  PROVE  S \ {n} \in ClosedSets(Erase(g, n))
  <1> DEFINE h == Erase(g, n)
  <1>1. DOMAIN h.nodes = DOMAIN g.nodes \ {n}
    BY ErasedLinks
  <1>2. /\ S \subseteq DOMAIN g.nodes
        /\ \A x, y : x \in S /\ <<x, y>> \in g.links => y \in S
        /\ \A m \in S : Descendants(g, m) \subseteq S
    BY DEF ClosedSets, IsClosed
  <1>3. \A m \in S : n \in DOMAIN g.nodes /\ m \in Parents(g, n) => n \in S
    BY <1>2, Family DEF Parents
  <1>4. ASSUME NEW l \in h.links, l[1] \in S \ {n}  PROVE l[2] \in S \ {n}
    <2>1. l = <<l[1], l[2]>>
      BY ErasedLinks
    <2>2. \/ <<l[1], l[2]>> \in g.links /\ l[2] # n
          \/ <<n, l[2]>> \in g.links /\ (<<l[1], n>> \in g.links \/ l[1] \in Parents(g, n))
      BY <2>1, ErasedLinks
    <2>3. <<n, l[2]>> \in g.links => l[2] # n
      BY DEF WellFormed, LinksOK
    <2> QED BY <1>2, <1>3, <1>4, <2>2, <2>3
  <1>5. \A m \in S \ {n} : Descendants(h, m) \subseteq S \ {n}
    BY <1>2, ErasedLinks
  <1> QED BY <1>1, <1>2, <1>4, <1>5 DEF ClosedSets, IsClosed

LEMMA ErasureWellFormed ==
  ASSUME NEW g, WellFormed(g), NEW n \in DOMAIN g.nodes, Descendants(g, n) = {}
  PROVE  WellFormed(Erase(g, n))
  <1> DEFINE h == Erase(g, n)
             D == DOMAIN g.nodes
  <1>1. IsGraph(g) /\ LinksOK(D, g.links)
    BY DEF WellFormed
  <1>2. /\ IsGraph(h) /\ DOMAIN h.nodes = D \ {n}
        /\ h.nodes = [m \in D \ {n} |-> g.nodes[m]]
    BY <1>1, Erased
  <1>3. h.nodes \in [D \ {n} -> BOOLEAN]
    BY <1>2 DEF WellFormed
  <1>4. (\A m \in D \ {n} : NodeOK(m)) /\ PathsUnique(D \ {n})
    BY DEF WellFormed, PathsUnique
  <1>5. ASSUME NEW m \in D \ {n}, m.path # <<>>
        PROVE  \E p \in D \ {n} : \E f \in Fields : p.tag = 0 /\ m = Child(p, f)
    <2>1. PICK p \in D : \E f \in Fields : p.tag = 0 /\ m = Child(p, f)
      BY <1>5 DEF WellFormed, ParentsPresent
    <2>2. PICK f \in Fields : p.tag = 0 /\ m = Child(p, f)
      BY <2>1
    <2>3. p.path \in Seq(Fields) /\ m.path = Append(p.path, f) /\ m.id = p.id /\ m.tag = 0
      BY <2>2, Zenon DEF WellFormed, NodeOK, Child
    <2>4. m \in Descendants(g, p)
      BY <2>2, <2>3, InsideAppended, Zenon DEF Descendants
    <2> QED BY <2>2, <2>4
  <1>6. ASSUME NEW l \in h.links
        PROVE  l \in (D \ {n}) \X (D \ {n}) /\ l[1] # l[2] /\ l[2].path = <<>>
    <2>1. l = <<l[1], l[2]>>
      BY ErasedLinks
    <2>2. \/ <<l[1], l[2]>> \in g.links /\ l[1] # n /\ l[2] # n
          \/ l[1] # l[2] /\ <<n, l[2]>> \in g.links /\ (<<l[1], n>> \in g.links \/ l[1] \in Parents(g, n))
      BY <2>1, ErasedLinks
    <2>3. \A x, y : <<x, y>> \in g.links => x \in D /\ y \in D /\ x # y /\ y.path = <<>>
      BY <1>1 DEF LinksOK
    <2>4. \A x \in Parents(g, n) : x \in D /\ x # n
      BY DEF Parents, Ancestors, IsInside, WellFormed, NodeOK
    <2>5. l[1] \in D \ {n} /\ l[2] \in D \ {n} /\ l[1] # l[2] /\ l[2].path = <<>>
      BY <2>2, <2>3, <2>4
    <2> QED BY <2>1, <2>5
  <1> HIDE DEF h
  <1>7. LinksOK(D \ {n}, h.links)
    BY <1>6 DEF LinksOK
  <1>8. ParentsPresent(D \ {n})
    BY <1>5 DEF ParentsPresent
  <1> HIDE DEF D
  <1>9. WellFormed(h)
    BY <1>2, <1>3, <1>4, <1>7, <1>8 DEF WellFormed
  <1> QED BY <1>9 DEF h

-------------------------------------------------------------------------------
(***************************************************************************)
(* Adding nodes and links.                                                 *)
(***************************************************************************)
AddedWith(n) == {n} \cup (IF n.path = <<>> THEN Range(Inner(n)) ELSE {})

IsExtended(g, added, h) ==
  /\ IsGraph(h) /\ h.links = g.links /\ h.errors = g.errors
  /\ DOMAIN h.nodes = DOMAIN g.nodes \cup added
  /\ h.nodes \in [DOMAIN g.nodes \cup added -> BOOLEAN]
  /\ \A m \in DOMAIN g.nodes : h.nodes[m] = g.nodes[m]
  /\ \A m \in added \ DOMAIN g.nodes : h.nodes[m] = FALSE

LEMMA NodeAdded ==
  ASSUME NEW g, WellFormed(g), NEW n
  PROVE  IsExtended(g, AddedWith(n), AddNode(g, n))
  <1> DEFINE added == AddedWith(n)
             all == [m \in DOMAIN g.nodes \cup added |-> IF m \in DOMAIN g.nodes THEN g.nodes[m] ELSE FALSE]
             a == AddNodes(g, added)
             h == AddNode(g, n)
  <1>1. IsGraph(g) /\ g.nodes \in [DOMAIN g.nodes -> BOOLEAN]
    BY DEF WellFormed
  <1>2. a = [g EXCEPT !.nodes = all]
    BY DEF AddNodes
  <1>3. AddNode(g, n) = UAssert(a, added \cap DOMAIN g.nodes = {})
    BY DEF AddNode, AddedWith
  <1>4. /\ DOMAIN all = DOMAIN g.nodes \cup added
        /\ all \in [DOMAIN g.nodes \cup added -> BOOLEAN]
        /\ \A m \in DOMAIN g.nodes : all[m] = g.nodes[m]
        /\ \A m \in added \ DOMAIN g.nodes : all[m] = FALSE
    BY <1>1, Zenon
  <1> HIDE DEF a, all, added
  <1>5. IsGraph(a) /\ a.nodes = all /\ a.links = g.links /\ a.errors = g.errors
    BY <1>1, <1>2, NodesUpdated
  <1>6. IsGraph(h) /\ h.nodes = all /\ h.links = g.links /\ h.errors = g.errors
    BY <1>3, <1>5, Asserted
  <1> HIDE DEF h
  <1> QED BY <1>4, <1>6 DEF added, h, IsExtended

\* A variable or a reference comes with its inner reference nodes.
LEMMA Created ==
  ASSUME NEW id \in Kinds \X NodeNumbers, NEW type \in Types, NEW vt
  PROVE  LET n == Create(id, type, vt) IN
         /\ IsRoot(n) /\ n.id = id /\ n.vt = vt
         /\ NodeOK(n)
         /\ \A m \in Range(Inner(n)) : m.id = id /\ m.path = <<>> /\ m.tag > 0 /\ NodeOK(m)
  <1> DEFINE n == Create(id, type, vt)
  <1>1. /\ n.path = <<>> /\ n.tag = 0 /\ n.id = id /\ n.vt = vt /\ n.type = type
        /\ n.tags = [i \in DOMAIN TagKinds[type] |-> i]
    BY DEF Create
  <1>2. NodeOK(n)
    BY <1>1 DEF NodeOK
  <1>3. \A i \in DOMAIN TagKinds[type] : i \in Nat /\ i > 0
    <2>1. TagKinds[type] \in Seq({"Mut", "Imut"})
      BY TypesAssumption DEF Types
    <2> QED BY <2>1
  <1>4. ASSUME NEW m \in Range(Inner(n))
        PROVE  m.id = id /\ m.path = <<>> /\ m.tag > 0 /\ NodeOK(m)
    <2>1. PICK i \in DOMAIN Inner(n) : m = Inner(n)[i]
      BY DEF Range
    <2>2. i \in DOMAIN TagKinds[type]
      BY <1>1, <2>1, Zenon DEF Inner
    <2>3. m.id = id /\ m.path = <<>> /\ m.tag = i
      BY <1>1, <2>1, <2>2, Zenon DEF Inner
    <2> QED BY <1>3, <2>2, <2>3 DEF NodeOK
  <1> QED BY <1>1, <1>2, <1>4 DEF IsRoot

IsLarger(g, h) ==
  /\ WellFormed(g) /\ WellFormed(h)
  /\ DOMAIN g.nodes \subseteq DOMAIN h.nodes
  /\ g.links \subseteq h.links
  /\ \A m \in DOMAIN g.nodes : h.nodes[m] = g.nodes[m]

\* A root that is added has an identifier of its own.
IsLargerByRoot(g, n, h) ==
  /\ IsLarger(g, h) /\ h.links = g.links
  /\ n \in DOMAIN h.nodes /\ n \notin DOMAIN g.nodes /\ h.nodes[n] = FALSE
  /\ \A m \in DOMAIN h.nodes \ DOMAIN g.nodes : m.id = n.id /\ (m = n \/ m.tag > 0)

LEMMA RootAdded ==
  ASSUME NEW g, WellFormed(g), NEW id \in Kinds \X NodeNumbers, NEW type \in Types, NEW vt,
         \A m \in DOMAIN g.nodes : m.id # id
  PROVE  IsLargerByRoot(g, Create(id, type, vt), AddNode(g, Create(id, type, vt)))
  <1> DEFINE n == Create(id, type, vt)
             h == AddNode(g, n)
             D == DOMAIN g.nodes
             added == {n} \cup Range(Inner(n))
  <1>1. /\ IsRoot(n) /\ n.id = id /\ NodeOK(n)
        /\ \A m \in Range(Inner(n)) : m.id = id /\ m.path = <<>> /\ m.tag > 0 /\ NodeOK(m)
    BY Created
  <1>2. added = AddedWith(n)
    BY <1>1 DEF IsRoot, AddedWith
  <1>3. IsExtended(g, added, h)
    BY <1>2, NodeAdded
  <1> HIDE DEF n, added, h
  <1>4. /\ IsGraph(h) /\ h.links = g.links /\ DOMAIN h.nodes = D \cup added
        /\ h.nodes \in [D \cup added -> BOOLEAN]
        /\ \A m \in D : h.nodes[m] = g.nodes[m]
        /\ \A m \in added \ D : h.nodes[m] = FALSE
    BY <1>3 DEF IsExtended
  <1>5. \A m \in added : m.id = id /\ m.path = <<>> /\ NodeOK(m) /\ (m = n \/ m.tag > 0) /\ m \notin D
    BY <1>1 DEF IsRoot, added
  <1>6. \A m \in D \cup added : NodeOK(m)
    BY <1>5 DEF WellFormed
  <1>7. PathsUnique(D \cup added)
    BY <1>5 DEF WellFormed, PathsUnique
  <1>8. ParentsPresent(D \cup added)
    BY <1>5 DEF WellFormed, ParentsPresent
  <1>9. LinksOK(D \cup added, h.links)
    BY <1>4 DEF WellFormed, LinksOK
  <1>10. WellFormed(h)
    BY <1>4, <1>6, <1>7, <1>8, <1>9 DEF WellFormed
  <1>11. n \in added
    BY DEF added
  <1>12. \A m \in DOMAIN h.nodes \ DOMAIN g.nodes : m \in added
    BY <1>4
  <1>13. IsLarger(g, h)
    BY <1>4, <1>10 DEF IsLarger
  <1>14. IsLargerByRoot(g, n, h)
    BY <1>1, <1>4, <1>5, <1>11, <1>12, <1>13 DEF IsLargerByRoot
  <1> QED BY <1>14 DEF n, h

IsLargerByChild(g, n, h) ==
  /\ IsLarger(g, h) /\ h.links = g.links
  /\ DOMAIN h.nodes = DOMAIN g.nodes \cup {n}
  /\ n.path # <<>>

LEMMA ChildAdded ==
  ASSUME NEW g, WellFormed(g), NEW p \in DOMAIN g.nodes, p.tag = 0,
         NEW f \in DOMAIN FieldTypes[p.type], Child(p, f) \notin DOMAIN g.nodes
  PROVE  IsLargerByChild(g, Child(p, f), AddNode(g, Child(p, f)))
  <1> DEFINE n == Child(p, f)
             h == AddNode(g, n)
             D == DOMAIN g.nodes
  <1>1. NodeOK(p) /\ p.type \in Types /\ f \in Fields
    BY ZenonT(40) DEF WellFormed, NodeOK, Fields
  <1>2. /\ n.path = Append(p.path, f) /\ n.id = p.id /\ n.tag = 0
        /\ n.type = FieldTypes[p.type][f]
    BY DEF Child
  <1>3. n.path \in Seq(Fields) /\ n.path # <<>>
    BY <1>1, <1>2, InsideAppended DEF NodeOK
  <1>4. FieldTypes[p.type][f] \in Types
    BY <1>1, TypesAssumption
  <1>5. NodeOK(n)
    BY <1>1, <1>2, <1>3, <1>4 DEF NodeOK
  <1>6. ASSUME NEW m \in D, m.tag = 0, m.id = n.id, m.path = n.path  PROVE FALSE
    <2>1. PICK q \in D : \E e \in Fields : q.tag = 0 /\ m = Child(q, e)
      BY <1>3, <1>6 DEF WellFormed, ParentsPresent
    <2>2. PICK e \in Fields : q.tag = 0 /\ m = Child(q, e)
      BY <2>1
    <2>3. m.path = Append(q.path, e) /\ m.id = q.id /\ q.path \in Seq(Fields) /\ p.path \in Seq(Fields)
      BY <1>1, <2>2, Zenon DEF Child, WellFormed, NodeOK
    <2>4. Append(q.path, e) = Append(p.path, f)
      BY <1>2, <1>6, <2>3
    <2>5. q.path = p.path /\ e = f
      <3> DEFINE s == q.path
                 t == p.path
      <3>1. s \in Seq(Fields) /\ t \in Seq(Fields) /\ f \in Fields /\ e \in Fields /\ Append(s, e) = Append(t, f)
        BY <1>1, <2>3, <2>4
      <3> HIDE DEF s, t
      <3>2. s = t /\ e = f
        BY ONLY <3>1, AppendedEqual
      <3> QED BY <3>2 DEF s, t
    <2>6. q = p
      BY <1>2, <1>6, <2>2, <2>3, <2>5 DEF WellFormed, PathsUnique
    <2> QED BY <2>2, <2>5, <2>6
  <1>7. {n} = AddedWith(n)
    BY <1>3 DEF AddedWith
  <1>8. n \notin D /\ \E q \in D : \E e \in Fields : q.tag = 0 /\ n = Child(q, e)
    BY <1>1
  <1>9. IsExtended(g, {n}, h)
    BY <1>7, NodeAdded
  <1> HIDE DEF n, h
  <1>10. /\ IsGraph(h) /\ h.links = g.links /\ DOMAIN h.nodes = D \cup {n}
        /\ h.nodes \in [D \cup {n} -> BOOLEAN]
        /\ \A m \in D : h.nodes[m] = g.nodes[m]
    BY <1>9 DEF IsExtended
  <1>11. \A m \in D \cup {n} : NodeOK(m)
    BY <1>5 DEF WellFormed
  <1>12. PathsUnique(D \cup {n})
    BY <1>6 DEF WellFormed, PathsUnique
  <1>13. ParentsPresent(D \cup {n})
    BY <1>8 DEF WellFormed, ParentsPresent
  <1>14. LinksOK(D \cup {n}, h.links)
    BY <1>10 DEF WellFormed, LinksOK
  <1>15. WellFormed(h)
    BY <1>10, <1>11, <1>12, <1>13, <1>14 DEF WellFormed
  <1>16. IsLargerByChild(g, n, h)
    BY <1>3, <1>10, <1>15 DEF IsLarger, IsLargerByChild
  <1> QED BY <1>16 DEF n, h

LEMMA LinkedWellFormed ==
  ASSUME NEW g, WellFormed(g), NEW from \in DOMAIN g.nodes, NEW to \in DOMAIN g.nodes, to.path = <<>>,
         NEW h, IsGraph(h), h.nodes = g.nodes, h.links = g.links \cup ({<<from, to>>} \ {<<from, from>>})
  PROVE  WellFormed(h)
  <1>1. LinksOK(DOMAIN h.nodes, h.links)
    BY DEF WellFormed, LinksOK
  <1> QED BY <1>1 DEF WellFormed

-------------------------------------------------------------------------------
(***************************************************************************)
(* Moving a node that nothing is taken from.                               *)
(***************************************************************************)
IsMovedIn(g, n, h) ==
  /\ WellFormed(h)
  /\ DOMAIN h.nodes = DOMAIN g.nodes
  /\ \A l : l \in h.links <=> l \in g.links /\ l[1] # n /\ l[2] # n
  /\ h.nodes[n]
  /\ \A m \in DOMAIN g.nodes : g.nodes[m] => h.nodes[m]
  /\ \A m \in DOMAIN g.nodes : IsRoot(m) /\ m # n => (h.nodes[m] <=> g.nodes[m])

LEMMA NodeMovedAway ==
  ASSUME NEW g, WellFormed(g), NEW n \in DOMAIN g.nodes, DirectLinks(g, n) = {}
  PROVE  IsMovedIn(g, n, Moved(g, n))
  <1> DEFINE D == DOMAIN g.nodes
             flags == [m \in D |-> m \in {n} \cup Descendants(g, n) \/ g.nodes[m]]
             a == [g EXCEPT !.nodes = flags]
             h == Moved(g, n)
  <1>1. IsGraph(g)
    BY DEF WellFormed
  <1>2. h = RemoveNodeLinks(a, n)
    BY DEF Moved
  <1>3. flags \in [D -> BOOLEAN] /\ DOMAIN flags = D
    OBVIOUS
  <1>4. flags[n] /\ \A m \in D : g.nodes[m] => flags[m]
    BY Zenon
  <1>5. \A m \in Descendants(g, n) : ~IsRoot(m)
    BY DEF Descendants, IsInside, IsRoot, WellFormed, NodeOK
  <1>6. \A m \in D : IsRoot(m) /\ m # n => (flags[m] <=> g.nodes[m])
    BY <1>5, Zenon
  <1> HIDE DEF flags
  <1>7. IsGraph(a) /\ a.nodes = flags /\ a.links = g.links
    BY <1>1, NodesUpdated
  <1> HIDE DEF a
  <1>8. LinksOK(DOMAIN a.nodes, a.links)
    BY <1>3, <1>7 DEF WellFormed
  <1>9. IsGraph(h) /\ h.nodes = flags
    BY <1>2, <1>7, RemovedLinks
  <1>10. /\ \A x, y : <<x, y>> \in h.links <=>
              \/ <<x, y>> \in g.links /\ x # n /\ y # n
              \/ x # y /\ <<n, y>> \in g.links /\ (<<x, n>> \in g.links \/ x \in Parents(a, n))
         /\ \A l \in h.links : l = <<l[1], l[2]>>
    BY <1>2, <1>7, <1>8, RemovedLink
  <1>11. \A y : <<n, y>> \notin g.links
    BY DEF DirectLinks
  <1>12. \A l \in g.links : l = <<l[1], l[2]>>
    BY DEF WellFormed, LinksOK
  <1> HIDE DEF h
  <1>13. \A l : l \in h.links <=> l \in g.links /\ l[1] # n /\ l[2] # n
    <2>1. \A x, y : <<x, y>> \in h.links <=> <<x, y>> \in g.links /\ x # n /\ y # n
      BY <1>10, <1>11, Zenon
    <2>2. ASSUME NEW l \in h.links  PROVE l \in g.links /\ l[1] # n /\ l[2] # n
      <3>1. l = <<l[1], l[2]>>
        BY <1>10
      <3> QED BY <2>1, <3>1
    <2>3. ASSUME NEW l \in g.links, l[1] # n, l[2] # n  PROVE l \in h.links
      <3>1. l = <<l[1], l[2]>>
        BY <1>12
      <3> QED BY <2>1, <2>3, <3>1
    <2> QED BY <2>2, <2>3
  <1>14. LinksOK(D, h.links)
    BY <1>13 DEF WellFormed, LinksOK
  <1>15. WellFormed(h)
    BY <1>3, <1>9, <1>14 DEF WellFormed
  <1>16. IsMovedIn(g, n, h)
    BY <1>3, <1>4, <1>6, <1>9, <1>13, <1>15 DEF IsMovedIn
  <1> QED BY <1>16 DEF h

-------------------------------------------------------------------------------
(***************************************************************************)
(* The names of variables, as an invariant of the graph: besides what      *)
(* NamesExclusive says, a name that is not moved is linked with its        *)
(* variable, which makes the protection of references find it.             *)
(***************************************************************************)
IsName(name) == IsRoot(name) /\ name.id[1] = "ref"

Exclusive(g) ==
  \A name, variable \in DOMAIN g.nodes :
    IsName(name) /\ name.vt = "Mut" /\ ~g.nodes[name] /\ variable.tag = 0 /\ variable.id = <<"var", name.id[2]>>
    => DirectLinks(g, variable) \subseteq {<<variable, name>>}

IsNamed(g, name, variable) ==
  /\ IsRoot(variable) /\ variable.vt = "Value" /\ variable.id = <<"var", name.id[2]>>
  /\ ~g.nodes[name] => <<variable, name>> \in g.links

NamesBound(g) ==
  \A name \in DOMAIN g.nodes : IsName(name) =>
    name.vt # "Value" /\ \E variable \in DOMAIN g.nodes : IsNamed(g, name, variable)

TrackingInv(g) == WellFormed(g) /\ Exclusive(g) /\ NamesBound(g)

\* Names and variables have identifiers of their own.
LEMMA Identifiers ==
  ASSUME NEW g, WellFormed(g)
  PROVE  /\ \A a, b \in DOMAIN g.nodes : IsName(a) /\ IsName(b) /\ a.id[2] = b.id[2] => a = b
         /\ \A a, b \in DOMAIN g.nodes : IsRoot(a) /\ IsRoot(b) /\ a.id = b.id => a = b
         /\ \A a \in DOMAIN g.nodes : IsName(a) => a.id = <<"ref", a.id[2]>>
  <1>1. \A a \in DOMAIN g.nodes : a.id = <<a.id[1], a.id[2]>>
    BY DEF WellFormed, NodeOK
  <1>2. \A a, b \in DOMAIN g.nodes : IsRoot(a) /\ IsRoot(b) /\ a.id = b.id => a = b
    BY DEF WellFormed, PathsUnique, IsRoot
  <1>3. \A a \in DOMAIN g.nodes : IsName(a) => a.id = <<"ref", a.id[2]>>
    BY <1>1 DEF IsName
  <1>4. ASSUME NEW a \in DOMAIN g.nodes, NEW b \in DOMAIN g.nodes, IsName(a), IsName(b), a.id[2] = b.id[2]
        PROVE  a = b
    <2>1. a.id = b.id
      BY <1>3, <1>4
    <2> QED BY <1>2, <1>4, <2>1 DEF IsName
  <1> QED BY <1>2, <1>3, <1>4

LEMMA ErasureKeepsNames ==
  ASSUME NEW g, TrackingInv(g), NEW n \in DOMAIN g.nodes, Descendants(g, n) = {},
         \A name \in DOMAIN g.nodes : IsName(name) => n.id # <<"var", name.id[2]>> \/ ~IsRoot(n)
  PROVE  TrackingInv(Erase(g, n))
  <1> DEFINE h == Erase(g, n)
             D == DOMAIN g.nodes
  <1>1. WellFormed(g) /\ Exclusive(g) /\ NamesBound(g) /\ IsGraph(g)
    BY DEF TrackingInv, WellFormed
  <1>2. WellFormed(h)
    BY <1>1, ErasureWellFormed
  <1>3. DOMAIN h.nodes = D \ {n} /\ h.nodes = [m \in D \ {n} |-> g.nodes[m]]
    BY <1>1, Erased
  <1>4. /\ \A x, y : <<x, y>> \in h.links <=>
              \/ <<x, y>> \in g.links /\ x # n /\ y # n
              \/ x # y /\ <<n, y>> \in g.links /\ (<<x, n>> \in g.links \/ x \in Parents(g, n))
        /\ \A l \in h.links : l = <<l[1], l[2]>>
    BY <1>1, ErasedLinks
  <1>5. \A m \in D \ {n} : h.nodes[m] = g.nodes[m]
    BY <1>3
  <1> HIDE DEF h
  <1>6. ASSUME NEW name \in D \ {n}, NEW variable \in D \ {n}, NEW l \in DirectLinks(h, variable),
               IsName(name), name.vt = "Mut", ~h.nodes[name], variable.tag = 0, variable.id = <<"var", name.id[2]>>
        PROVE  l = <<variable, name>>
    <2>1. ~g.nodes[name]
      BY <1>5, <1>6
    <2>2. \A v \in D : \A y : v.tag = 0 /\ v.id = <<"var", name.id[2]>> /\ <<v, y>> \in g.links => y = name
      BY <1>1, <1>6, <2>1 DEF Exclusive, DirectLinks
    <2>3. l \in h.links /\ l = <<variable, l[2]>>
      BY <1>4 DEF DirectLinks
    <2>4. \/ <<variable, l[2]>> \in g.links
          \/ <<n, l[2]>> \in g.links /\ (<<variable, n>> \in g.links \/ variable \in Parents(g, n))
      BY <1>4, <2>3
    <2>5. <<variable, n>> \notin g.links
      BY <1>6, <2>2
    <2>6. variable \in Parents(g, n) => n.tag = 0 /\ n.id = variable.id
      BY DEF Parents, Ancestors
    <2>7. l[2] = name
      BY <1>6, <2>2, <2>4, <2>5, <2>6
    <2> QED BY <2>3, <2>7
  <1>7. Exclusive(h)
    BY <1>3, <1>6, Zenon DEF Exclusive
  <1>8. ASSUME NEW name \in D \ {n}, IsName(name)
        PROVE  name.vt # "Value" /\ \E variable \in D \ {n} : IsNamed(h, name, variable)
    <2>1. name.vt # "Value" /\ \E variable \in D : IsNamed(g, name, variable)
      BY <1>1, <1>8 DEF NamesBound
    <2>2. PICK variable \in D : IsNamed(g, name, variable)
      BY <2>1
    <2>3. variable # n
      BY <1>8, <2>2 DEF IsNamed
    <2>4. ~h.nodes[name] => <<variable, name>> \in h.links
      BY <1>4, <1>5, <1>8, <2>2, <2>3, Zenon DEF IsNamed
    <2>5. IsNamed(h, name, variable)
      BY <2>2, <2>4 DEF IsNamed
    <2> QED BY <2>1, <2>3, <2>5
  <1>9. NamesBound(h)
    BY <1>3, <1>8 DEF NamesBound
  <1> QED BY <1>2, <1>7, <1>9 DEF TrackingInv, h

-------------------------------------------------------------------------------
(***************************************************************************)
(* What a move does to the graph: the name and the variable are moved and  *)
(* lose their links, and nothing else led out of them.                     *)
(***************************************************************************)
MovedNodes(name, variable) == {m \in nodes : m.tag = 0 /\ m.id \in {name.id, variable.id}}

IsMoveOf(name, variable) ==
  /\ WellFormed(graph')
  /\ nodes' = nodes
  /\ IsRoot(variable) /\ variable.id = <<"var", name.id[2]>>
  /\ \A l : l \in graph'.links <=> l \in graph.links /\ {l[1], l[2]} \cap {name, variable} = {}
  /\ graph'.nodes[name] /\ graph'.nodes[variable]
  /\ \A m \in nodes : IsRoot(m) /\ m \notin {name, variable} => (graph'.nodes[m] <=> graph.nodes[m])
  /\ MovedNodes(name, variable) \in ClosedSets(graph)

LEMMA VariableMoved ==
  ASSUME TrackingInv(graph), NEW name \in nodes, NEW variable \in nodes, MoveVariable(name, variable)
  PROVE  IsMoveOf(name, variable)
  <1> DEFINE a == Moved(graph, name)
             M == MovedNodes(name, variable)
  <1>1. WellFormed(graph) /\ Exclusive(graph) /\ NamesBound(graph)
    BY DEF TrackingInv
  <1>2. /\ IsName(name) /\ name.vt = "Mut" /\ ~graph.nodes[name] /\ variable.vt = "Value"
        /\ graph' = Moved(a, variable)
    BY DEF MoveVariable, IsName, NodeMoved, nodes
  <1>3. \A m \in Relatives(graph, name) : DirectLinks(graph, m) = {}
    BY DEF MoveVariable, HasOutgoingLinks
  <1>4. \A x : <<x, name>> \in graph.links => x = variable
    BY DEF MoveVariable, GetNodeInputLinks
  <1>5. PICK v \in nodes : IsNamed(graph, name, v)
    BY <1>1, <1>2 DEF NamesBound, nodes
  <1>6. variable = v
    BY <1>2, <1>4, <1>5 DEF IsNamed
  <1>7. IsRoot(variable) /\ variable.id = <<"var", name.id[2]>> /\ variable.tag = 0
    BY <1>5, <1>6 DEF IsNamed, IsRoot
  <1>8. \A m \in nodes : \A y : m.tag = 0 /\ m.id = variable.id /\ <<m, y>> \in graph.links => y = name
    BY <1>1, <1>2, <1>7 DEF Exclusive, DirectLinks, nodes
  <1>9. DirectLinks(graph, name) = {}
    BY <1>3 DEF Relatives
  <1>10. IsMovedIn(graph, name, a)
    BY <1>1, <1>9, NodeMovedAway DEF nodes
  <1> HIDE DEF a
  <1>11. /\ WellFormed(a) /\ DOMAIN a.nodes = nodes
         /\ \A l : l \in a.links <=> l \in graph.links /\ l[1] # name /\ l[2] # name
    BY <1>10 DEF IsMovedIn, nodes
  <1>12. \A l \in graph.links : l = <<l[1], l[2]>> /\ l[1] \in nodes /\ l[2] \in nodes
    BY <1>1 DEF WellFormed, LinksOK, nodes
  <1>13. DirectLinks(a, variable) = {}
    BY <1>7, <1>8, <1>11, <1>12 DEF DirectLinks
  <1>14. IsMovedIn(a, variable, graph')
    BY <1>2, <1>11, <1>13, NodeMovedAway
  <1>15. WellFormed(graph') /\ nodes' = nodes
    BY <1>11, <1>14 DEF IsMovedIn, nodes
  <1>16. \A l : l \in graph'.links <=> l \in graph.links /\ {l[1], l[2]} \cap {name, variable} = {}
    BY <1>11, <1>14, ZenonT(40) DEF IsMovedIn
  <1>17. graph'.nodes[name] /\ graph'.nodes[variable]
    BY <1>10, <1>11, <1>14 DEF IsMovedIn
  <1>18. \A m \in nodes : IsRoot(m) /\ m \notin {name, variable} => (graph'.nodes[m] <=> graph.nodes[m])
    BY <1>10, <1>11, <1>14 DEF IsMovedIn, nodes
  <1>19. \A m \in nodes : m.tag = 0 /\ m.id = name.id => m \in Relatives(graph, name)
    <2>1. name.path = <<>> /\ name.tag = 0 /\ \A m \in nodes : NodeOK(m)
      BY <1>1, <1>2 DEF IsName, IsRoot, WellFormed, nodes
    <2>2. ASSUME NEW m \in nodes, m.tag = 0, m.id = name.id, m.path # <<>>  PROVE m \in Descendants(graph, name)
      <3>1. m.path \in Seq(Fields) /\ Len(m.path) > 0
        BY <2>1, <2>2 DEF NodeOK
      <3> QED BY <2>1, <2>2, <3>1 DEF Descendants, IsInside, nodes
    <2>3. ASSUME NEW m \in nodes, m.tag = 0, m.id = name.id, m.path = <<>>  PROVE m = name
      BY <1>1, <2>1, <2>3 DEF WellFormed, PathsUnique, nodes
    <2> QED BY <2>2, <2>3 DEF Relatives
  <1>20. ASSUME NEW l \in graph.links, l[1] \in M  PROVE l[2] \in M
    <2>1. l[1].tag = 0 /\ l[1].id \in {name.id, variable.id} /\ l[1] \in nodes
      BY <1>20 DEF MovedNodes
    <2>2. l[1].id # name.id
      BY <1>3, <1>19, <2>1 DEF DirectLinks
    <2>3. l[2] = name
      BY <1>8, <1>12, <2>1, <2>2
    <2> QED BY <1>2, <2>3 DEF MovedNodes, IsName, IsRoot
  <1>21. \A m \in M : Descendants(graph, m) \subseteq M
    BY DEF MovedNodes, Descendants, nodes
  <1>22. M \in ClosedSets(graph)
    BY <1>20, <1>21 DEF ClosedSets, IsClosed, MovedNodes, nodes
  <1> QED BY <1>7, <1>15, <1>16, <1>17, <1>18, <1>22 DEF IsMoveOf

-------------------------------------------------------------------------------
(***************************************************************************)
(* The steps that add to the graph.                                        *)
(***************************************************************************)
\* The names stay as they were if no name is added and no variable gets a link.
LEMMA LargerKeepsNames ==
  ASSUME NEW g, NEW h, TrackingInv(g), IsLarger(g, h),
         \A m \in DOMAIN h.nodes \ DOMAIN g.nodes : ~IsName(m),
         \A l \in h.links \ g.links :
           \A name \in DOMAIN g.nodes :
             ~(/\ IsName(name) /\ name.vt = "Mut" /\ ~g.nodes[name]
               /\ l[1].tag = 0 /\ l[1].id = <<"var", name.id[2]>>)
  PROVE  TrackingInv(h)
  <1> DEFINE D == DOMAIN g.nodes
             E == DOMAIN h.nodes
  <1>1. /\ WellFormed(g) /\ Exclusive(g) /\ NamesBound(g) /\ WellFormed(h)
        /\ D \subseteq E /\ g.links \subseteq h.links /\ \A m \in D : h.nodes[m] = g.nodes[m]
    BY DEF TrackingInv, IsLarger
  <1>2. ASSUME NEW name \in E, NEW variable \in E, NEW l \in DirectLinks(h, variable),
               IsName(name), name.vt = "Mut", ~h.nodes[name], variable.tag = 0, variable.id = <<"var", name.id[2]>>
        PROVE  l = <<variable, name>>
    <2>1. name \in D /\ ~g.nodes[name]
      BY <1>1, <1>2
    <2>2. l \in h.links /\ l[1] = variable
      BY DEF DirectLinks
    <2>3. l \in g.links
      BY <1>2, <2>1, <2>2
    <2>4. variable \in D
      BY <1>1, <2>2, <2>3 DEF WellFormed, LinksOK
    <2>5. l \in DirectLinks(g, variable)
      BY <2>2, <2>3 DEF DirectLinks
    <2> QED BY <1>1, <1>2, <2>1, <2>4, <2>5 DEF Exclusive
  <1>3. Exclusive(h)
    BY <1>2 DEF Exclusive
  <1>4. ASSUME NEW name \in E, IsName(name)
        PROVE  name.vt # "Value" /\ \E variable \in E : IsNamed(h, name, variable)
    <2>1. name \in D
      BY <1>4
    <2>2. name.vt # "Value" /\ \E variable \in D : IsNamed(g, name, variable)
      BY <1>1, <1>4, <2>1 DEF NamesBound
    <2>3. PICK variable \in D : IsNamed(g, name, variable)
      BY <2>2
    <2>4. IsNamed(h, name, variable)
      BY <1>1, <2>1, <2>3 DEF IsNamed
    <2> QED BY <1>1, <2>2, <2>4
  <1>5. NamesBound(h)
    BY <1>4 DEF NamesBound
  <1> QED BY <1>1, <1>3, <1>5 DEF TrackingInv

\* A variable is declared with its name, and the one link between them.
LEMMA Declared ==
  ASSUME TrackingInv(graph), NEW d \in Variables, Declare(d)
  PROVE  IsLarger(graph, graph') /\ TrackingInv(graph')
  <1> DEFINE n == NameOf(d)
             v == Variable(d)
             a == AddNode(graph, n)
             b == AddNode(a, v)
             idn == <<"ref", d.number>>
             idv == <<"var", d.number>>
             D == DOMAIN graph.nodes
             E == DOMAIN graph'.nodes
  <1>1. WellFormed(graph) /\ Exclusive(graph) /\ NamesBound(graph)
    BY DEF TrackingInv
  <1>2. /\ idn \in Kinds \X NodeNumbers /\ idv \in Kinds \X NodeNumbers /\ idn # idv
        /\ d.type \in Types /\ d.vt \in {"Mut", "Imut"}
    BY TrackingAssumption DEF Kinds, NodeNumbers
  <1>3. /\ n.id = idn /\ n.vt = d.vt /\ IsRoot(n) /\ v.id = idv /\ v.vt = "Value" /\ IsRoot(v)
    BY DEF NameOf, Variable, Create, IsRoot
  <1>4. /\ \A m \in D : m.id # idn /\ m.id # idv
        /\ graph' = AddLink(b, v, n)
    BY <1>3 DEF Declare, IsNew, nodes
  <1>5. n = Create(idn, d.type, d.vt) /\ v = Create(idv, d.type, "Value")
    BY DEF NameOf, Variable
  <1> HIDE DEF idn, idv
  <1>6. IsLargerByRoot(graph, n, a)
    BY <1>1, <1>2, <1>4, <1>5, RootAdded
  <1> HIDE DEF n, v, a
  <1>7. WellFormed(a) /\ \A m \in DOMAIN a.nodes : m.id # idv
    BY <1>2, <1>3, <1>4, <1>6 DEF IsLargerByRoot, IsLarger
  <1>8. IsLargerByRoot(a, v, b)
    BY <1>2, <1>5, <1>7, RootAdded
  <1> HIDE DEF b
  <1>9. /\ WellFormed(b) /\ IsGraph(b) /\ b.links = graph.links /\ n \in DOMAIN b.nodes /\ v \in DOMAIN b.nodes
        /\ D \subseteq DOMAIN b.nodes /\ n \notin D /\ v \notin D
        /\ b.nodes[n] = FALSE /\ \A m \in D : b.nodes[m] = graph.nodes[m]
    BY <1>6, <1>8 DEF IsLargerByRoot, IsLarger, WellFormed
  <1>10. \A m \in DOMAIN b.nodes \ D : m \in {n, v} \/ m.tag > 0
    BY <1>6, <1>8 DEF IsLargerByRoot, IsLarger
  <1>11. n # v /\ n.path = <<>>
    BY <1>2, <1>3 DEF IsRoot
  <1>12. IsGraph(graph') /\ graph'.nodes = b.nodes /\ graph'.links = graph.links \cup ({<<v, n>>} \ {<<v, v>>})
    BY <1>4, <1>9, LinkAdded
  <1>13. graph'.links = graph.links \cup {<<v, n>>}
    BY <1>11, <1>12
  <1>14. WellFormed(graph')
    BY <1>9, <1>11, <1>12, LinkedWellFormed
  <1>15. IsLarger(graph, graph')
    BY <1>1, <1>9, <1>12, <1>14 DEF IsLarger
  <1>16. \A l \in graph.links : l[1] \in D
    BY <1>1 DEF WellFormed, LinksOK
  <1>17. ASSUME NEW name \in E, NEW variable \in E, NEW l \in DirectLinks(graph', variable),
                IsName(name), name.vt = "Mut", ~graph'.nodes[name], variable.tag = 0,
                variable.id = <<"var", name.id[2]>>
         PROVE  l = <<variable, name>>
    <2>1. l \in graph'.links /\ l[1] = variable
      BY DEF DirectLinks
    <2>2. CASE name \in D
      <3>1. name.id = <<"ref", name.id[2]>>
        BY <1>1, <1>17, <2>2, Identifiers
      <3>2. name.id[2] # d.number
        BY <1>4, <2>2, <3>1 DEF idn
      <3>3. variable # v
        BY <1>3, <1>17, <3>2 DEF idv
      <3>4. l \in graph.links /\ variable \in D
        BY <1>13, <1>16, <2>1, <3>3
      <3>5. l \in DirectLinks(graph, variable) /\ ~graph.nodes[name]
        BY <1>9, <1>12, <1>17, <2>1, <2>2, <3>4 DEF DirectLinks
      <3> QED BY <1>1, <1>17, <2>2, <3>4, <3>5 DEF Exclusive
    <2>3. CASE name \notin D
      <3>1. name = n
        BY <1>3, <1>10, <1>12, <1>17, <2>3 DEF IsName, IsRoot, idv
      <3>2. variable.id = idv /\ variable \notin D
        BY <1>3, <1>4, <1>17, <3>1 DEF idn, idv
      <3>3. l = <<v, n>>
        BY <1>13, <1>16, <2>1, <3>2
      <3> QED BY <2>1, <3>1, <3>3
    <2> QED BY <2>2, <2>3
  <1>18. Exclusive(graph')
    BY <1>17 DEF Exclusive
  <1>19. ASSUME NEW name \in E, IsName(name)
         PROVE  name.vt # "Value" /\ \E variable \in E : IsNamed(graph', name, variable)
    <2>1. CASE name \in D
      <3>1. name.vt # "Value" /\ \E variable \in D : IsNamed(graph, name, variable)
        BY <1>1, <1>19, <2>1 DEF NamesBound
      <3>2. PICK variable \in D : IsNamed(graph, name, variable)
        BY <3>1
      <3>3. IsNamed(graph', name, variable)
        BY <1>9, <1>12, <2>1, <3>2 DEF IsNamed
      <3> QED BY <1>9, <1>12, <3>1, <3>3
    <2>2. CASE name \notin D
      <3>1. name = n
        BY <1>3, <1>10, <1>12, <1>19, <2>2 DEF IsName, IsRoot, idv
      <3>2. IsNamed(graph', name, v)
        BY <1>3, <1>13, <3>1 DEF IsNamed, idn, idv
      <3> QED BY <1>2, <1>3, <1>9, <1>12, <3>1, <3>2
    <2> QED BY <2>1, <2>2
  <1>20. NamesBound(graph')
    BY <1>19 DEF NamesBound
  <1> QED BY <1>14, <1>15, <1>18, <1>20 DEF TrackingInv

LEMMA TemporaryCreated ==
  ASSUME TrackingInv(graph), NEW d \in Temporaries, CreateTemporary(Temporary(d))
  PROVE  IsLarger(graph, graph') /\ TrackingInv(graph')
  <1> DEFINE n == Temporary(d)
             id == <<"temporary", d.number>>
  <1>1. WellFormed(graph)
    BY DEF TrackingInv
  <1>2. id \in Kinds \X NodeNumbers /\ d.type \in Types
    BY TrackingAssumption DEF Kinds, NodeNumbers
  <1>3. n = Create(id, d.type, d.vt) /\ n.id = id /\ id[1] # "ref"
    BY DEF Temporary, Create
  <1>4. (\A m \in DOMAIN graph.nodes : m.id # id) /\ graph' = AddNode(graph, n)
    BY <1>3 DEF CreateTemporary, IsNew, nodes
  <1> HIDE DEF id
  <1>5. IsLargerByRoot(graph, n, graph')
    BY <1>1, <1>2, <1>3, <1>4, RootAdded
  <1> HIDE DEF n
  <1>6. /\ IsLarger(graph, graph') /\ graph'.links \ graph.links = {}
        /\ \A m \in DOMAIN graph'.nodes \ DOMAIN graph.nodes : ~IsName(m)
    BY <1>3, <1>5 DEF IsLargerByRoot, IsName
  <1> QED BY <1>6, LargerKeepsNames

LEMMA FieldAccessed ==
  ASSUME TrackingInv(graph), NEW n \in nodes, n.tag = 0, NEW field \in DOMAIN FieldTypes[n.type],
         AccessField(n, field)
  PROVE  IsLarger(graph, graph') /\ TrackingInv(graph')
  <1> DEFINE c == Child(n, field)
  <1>1. WellFormed(graph)
    BY DEF TrackingInv
  <1>2. c \notin DOMAIN graph.nodes /\ graph' = AddNode(graph, c)
    BY DEF AccessField, nodes
  <1>3. IsLargerByChild(graph, c, graph')
    BY <1>1, <1>2, ChildAdded DEF nodes
  <1> HIDE DEF c
  <1>4. /\ IsLarger(graph, graph') /\ graph'.links \ graph.links = {}
        /\ \A m \in DOMAIN graph'.nodes \ DOMAIN graph.nodes : ~IsName(m)
    BY <1>3 DEF IsLargerByChild, IsName, IsRoot
  <1> QED BY <1>4, LargerKeepsNames

\* TryAddLink finds the link between a variable and its mutable name, from the
\* variable and from each of its fields.
LEMMA Bound ==
  ASSUME TrackingInv(graph), NEW from \in nodes, NEW to \in nodes, Bind(from, to)
  PROVE  IsLarger(graph, graph') /\ TrackingInv(graph') /\ nodes' = nodes
  <1>1. WellFormed(graph) /\ Exclusive(graph) /\ NamesBound(graph) /\ IsGraph(graph)
    BY DEF TrackingInv, WellFormed
  <1>2. to.path = <<>> /\ graph' = TryAddLink(graph, from, to) /\ TryAddLink(graph, from, to).errors = {}
    BY DEF Bind
  <1>3. /\ IsGraph(graph') /\ graph'.nodes = graph.nodes
        /\ graph'.links = graph.links \cup ({<<from, to>>} \ {<<from, from>>})
        /\ ~HasOutgoingMutableNodes(graph, from)
    BY <1>1, <1>2, LinkTried
  <1>4. WellFormed(graph')
    BY <1>1, <1>2, <1>3, LinkedWellFormed DEF nodes
  <1>5. IsLarger(graph, graph') /\ nodes' = nodes
    BY <1>1, <1>3, <1>4 DEF IsLarger, nodes
  <1>6. ASSUME NEW name \in nodes, IsName(name), name.vt = "Mut", ~graph.nodes[name],
               from.tag = 0, from.id = <<"var", name.id[2]>>
        PROVE  FALSE
    <2>1. PICK variable \in nodes : IsNamed(graph, name, variable)
      BY <1>1, <1>6 DEF NamesBound, nodes
    <2>2. <<variable, name>> \in DirectLinks(graph, variable)
      BY <1>6, <2>1 DEF IsNamed, DirectLinks
    <2>3. variable.path = <<>> /\ variable.tag = 0 /\ variable.id = from.id /\ NodeOK(from)
      BY <1>1, <1>6, <2>1 DEF IsNamed, IsRoot, WellFormed, nodes
    <2>4. variable \in Relatives(graph, from) => FALSE
      BY <1>3, <1>6, <2>2 DEF HasOutgoingMutableNodes
    <2>5. from.path = <<>> => variable = from
      BY <1>1, <1>6, <2>3 DEF WellFormed, PathsUnique, nodes
    <2>6. ASSUME from.path # <<>>  PROVE variable \in Ancestors(graph, from)
      <3>1. from.path \in Seq(Fields) /\ Len(from.path) > 0
        BY <2>3, <2>6 DEF NodeOK
      <3> QED BY <1>6, <2>3, <3>1 DEF Ancestors, IsInside, nodes
    <2> QED BY <2>4, <2>5, <2>6 DEF Relatives
  <1>7. \A l \in graph'.links \ graph.links : l[1] = from
    BY <1>3
  <1>8. \A m \in DOMAIN graph'.nodes \ DOMAIN graph.nodes : ~IsName(m)
    BY <1>3
  <1>9. TrackingInv(graph')
    BY <1>5, <1>6, <1>7, <1>8, LargerKeepsNames DEF nodes
  <1> QED BY <1>5, <1>9

-------------------------------------------------------------------------------
(***************************************************************************)
(* The steps that remove or move nodes.                                    *)
(***************************************************************************)
LEMMA MoveKeepsNames ==
  ASSUME TrackingInv(graph), NEW name \in nodes, NEW variable \in nodes, IsName(name), IsMoveOf(name, variable)
  PROVE  TrackingInv(graph')
  <1>1. WellFormed(graph) /\ Exclusive(graph) /\ NamesBound(graph)
    BY DEF TrackingInv
  <1>2. /\ WellFormed(graph') /\ DOMAIN graph'.nodes = nodes
        /\ IsRoot(variable) /\ variable.id = <<"var", name.id[2]>>
        /\ \A l : l \in graph'.links <=> l \in graph.links /\ {l[1], l[2]} \cap {name, variable} = {}
        /\ graph'.nodes[name]
        /\ \A m \in nodes : IsRoot(m) /\ m \notin {name, variable} => (graph'.nodes[m] <=> graph.nodes[m])
    BY DEF IsMoveOf, nodes
  <1>3. \A other \in nodes : IsName(other) => other # variable
    BY <1>2 DEF IsName
  <1>4. \A other \in nodes : IsName(other) /\ ~graph'.nodes[other] => other # name /\ ~graph.nodes[other]
    BY <1>2, <1>3 DEF IsName
  <1>5. Exclusive(graph')
    BY <1>1, <1>2, <1>4 DEF Exclusive, DirectLinks, nodes
  <1>6. ASSUME NEW other \in nodes, IsName(other)
        PROVE  other.vt # "Value" /\ \E v \in nodes : IsNamed(graph', other, v)
    <2>1. other.vt # "Value" /\ \E v \in nodes : IsNamed(graph, other, v)
      BY <1>1, <1>6 DEF NamesBound, nodes
    <2>2. PICK v \in nodes : IsNamed(graph, other, v)
      BY <2>1
    <2>3. ASSUME ~graph'.nodes[other]  PROVE <<v, other>> \in graph'.links
      <3>1. other # name /\ other # variable /\ <<v, other>> \in graph.links
        BY <1>3, <1>4, <1>6, <2>2, <2>3 DEF IsNamed
      <3>2. v # name
        BY <2>2, <1>6 DEF IsNamed, IsName
      <3>3. v # variable
        BY <1>1, <1>2, <1>6, <2>2, <3>1, Identifiers DEF IsNamed, nodes
      <3> QED BY <1>2, <3>1, <3>2, <3>3
    <2>4. IsNamed(graph', other, v)
      BY <2>2, <2>3 DEF IsNamed
    <2> QED BY <2>1, <2>4
  <1>7. NamesBound(graph')
    BY <1>2, <1>6 DEF NamesBound
  <1> QED BY <1>2, <1>5, <1>7 DEF TrackingInv

\* A node that is alone has no parts.
LEMMA AloneWithoutParts ==
  ASSUME WellFormed(graph), NEW n \in nodes, IsAlone(n)
  PROVE  Descendants(graph, n) = {}
  <1>1. Len(n.path) \in Nat
    BY DEF WellFormed, NodeOK, nodes
  <1>2. ASSUME NEW m \in Descendants(graph, n)  PROVE FALSE
    <2>1. m \in nodes /\ m.id = n.id /\ Len(n.path) < Len(m.path)
      BY <1>2 DEF Descendants, IsInside, nodes
    <2>2. m = n
      BY <2>1 DEF IsAlone
    <2> QED BY <1>1, <2>1, <2>2
  <1> QED BY <1>2

\* Nothing is inside of a node that goes.
LEMMA PartErased ==
  ASSUME TrackingInv(graph), NEW n \in nodes, RemovePart(n) \/ DestroyTemporary(n)
  PROVE  graph' = Erase(graph, n) /\ Descendants(graph, n) = {} /\ TrackingInv(graph')
  <1>1. WellFormed(graph)
    BY DEF TrackingInv
  <1>2. NodeOK(n) /\ n.path \in Seq(Fields)
    BY <1>1 DEF WellFormed, NodeOK, nodes
  <1>3. graph' = Erase(graph, n)
    BY DEF RemovePart, DestroyTemporary
  <1>4. IsAlone(n) => Descendants(graph, n) = {}
    BY <1>1, AloneWithoutParts
  <1>5. n.tag > 0 => Descendants(graph, n) = {}
    BY DEF Descendants
  <1>6. Descendants(graph, n) = {}
    BY <1>4, <1>5 DEF RemovePart, DestroyTemporary
  <1>7. n.id[1] # "var" \/ ~IsRoot(n)
    BY DEF RemovePart, DestroyTemporary, IsRoot
  <1>8. \A name : n.id # <<"var", name.id[2]>> \/ ~IsRoot(n)
    BY <1>7
  <1> QED BY <1>3, <1>6, <1>8, ErasureKeepsNames DEF nodes

\* What both erasures of LeaveScope find
IsLeaving(name, variable) ==
  LET g == Erase(graph, name) IN
  /\ graph' = Erase(g, variable)
  /\ Descendants(graph, name) = {} /\ Descendants(g, variable) = {}
  /\ WellFormed(g) /\ DOMAIN g.nodes = nodes \ {name} /\ variable \in nodes \ {name}
  /\ DOMAIN graph'.nodes = nodes \ {name, variable}
  /\ \A m \in nodes \ {name, variable} : graph'.nodes[m] = graph.nodes[m]

LEMMA ScopeLeft ==
  ASSUME TrackingInv(graph), NEW name \in nodes, NEW variable \in nodes, LeaveScope(name, variable)
  PROVE  IsLeaving(name, variable) /\ TrackingInv(graph')
  <1> DEFINE g == Erase(graph, name)
  <1>1. WellFormed(graph) /\ IsGraph(graph)
    BY DEF TrackingInv, WellFormed
  <1>2. /\ IsName(name) /\ IsAlone(name) /\ IsRoot(variable) /\ IsAlone(variable)
        /\ variable.id = <<"var", name.id[2]>> /\ graph' = Erase(g, variable)
    BY DEF LeaveScope, IsName
  <1>3. \A m \in nodes : NodeOK(m)
    BY <1>1 DEF WellFormed, nodes
  <1>4. Descendants(graph, name) = {}
    BY <1>1, <1>2, AloneWithoutParts
  <1>5. Descendants(graph, variable) = {}
    BY <1>1, <1>2, AloneWithoutParts
  <1>6. name # variable /\ name.id # variable.id
    BY <1>2 DEF IsName
  <1>7. \A other : name.id # <<"var", other.id[2]>>
    BY <1>2 DEF IsName
  <1>8. TrackingInv(g)
    BY <1>4, <1>7, ErasureKeepsNames DEF nodes
  <1>9. /\ DOMAIN g.nodes = nodes \ {name}
        /\ g.nodes = [m \in nodes \ {name} |-> graph.nodes[m]]
    BY <1>1, Erased DEF nodes
  <1>10. Descendants(g, variable) = {}
    BY <1>5, <1>9 DEF Descendants, nodes
  <1>11. \A m \in nodes \ {name} : g.nodes[m] = graph.nodes[m]
    BY <1>9
  <1> HIDE DEF g
  <1>12. WellFormed(g) /\ IsGraph(g)
    BY <1>8 DEF TrackingInv, WellFormed
  <1>13. \A other \in DOMAIN g.nodes : IsName(other) => variable.id # <<"var", other.id[2]>>
    BY <1>1, <1>2, <1>9, Identifiers DEF nodes
  <1>14. TrackingInv(graph')
    BY <1>2, <1>6, <1>8, <1>9, <1>10, <1>13, ErasureKeepsNames
  <1>15. /\ DOMAIN graph'.nodes = nodes \ {name, variable}
         /\ graph'.nodes = [m \in DOMAIN g.nodes \ {variable} |-> g.nodes[m]]
    <2>1. DOMAIN Erase(g, variable).nodes = DOMAIN g.nodes \ {variable}
      BY <1>12, Erased, ZenonT(40)
    <2>2. Erase(g, variable).nodes = [m \in DOMAIN g.nodes \ {variable} |-> g.nodes[m]]
      BY <1>12, Erased
    <2> QED BY <1>2, <1>9, <2>1, <2>2
  <1>16. \A m \in nodes \ {name, variable} : graph'.nodes[m] = graph.nodes[m]
    BY <1>9, <1>11, <1>15
  <1>17. IsLeaving(name, variable)
    BY <1>2, <1>4, <1>6, <1>9, <1>10, <1>12, <1>15, <1>16 DEF IsLeaving, g
  <1> QED BY <1>14, <1>17

LEMMA TrackingInvInitial == TrackingInit => TrackingInv(graph)
  <1> SUFFICES ASSUME TrackingInit  PROVE TrackingInv(graph)
    OBVIOUS
  <1>1. IsGraph(graph) /\ graph.nodes = <<>> /\ graph.links = {}
    BY DEF TrackingInit, EmptyGraph, IsGraph
  <1>2. DOMAIN graph.nodes = {} /\ graph.nodes \in [DOMAIN graph.nodes -> BOOLEAN]
    BY <1>1
  <1>3. WellFormed(graph)
    BY <1>1, <1>2 DEF WellFormed, PathsUnique, ParentsPresent, LinksOK
  <1> QED BY <1>2, <1>3 DEF TrackingInv, Exclusive, NamesBound

LEMMA TrackingInvPreserved == TrackingInv(graph) /\ [TrackingNext]_graph => TrackingInv(graph')
  <1> SUFFICES ASSUME TrackingInv(graph), [TrackingNext]_graph  PROVE TrackingInv(graph')
    OBVIOUS
  <1>1. ASSUME NEW d \in Variables, Declare(d)  PROVE TrackingInv(graph')
    BY <1>1, Declared
  <1>2. ASSUME NEW d \in Temporaries, CreateTemporary(Temporary(d))  PROVE TrackingInv(graph')
    BY <1>2, TemporaryCreated
  <1>3. ASSUME NEW n \in {m \in nodes : m.tag = 0}, NEW field \in DOMAIN FieldTypes[n.type], AccessField(n, field)
        PROVE  TrackingInv(graph')
    BY <1>3, FieldAccessed
  <1>4. ASSUME NEW from \in nodes, NEW to \in nodes, Bind(from, to)  PROVE TrackingInv(graph')
    BY <1>4, Bound
  <1>5. ASSUME NEW name \in nodes, NEW variable \in nodes, MoveVariable(name, variable)  PROVE TrackingInv(graph')
    <2>1. IsName(name)
      BY <1>5 DEF MoveVariable, IsName
    <2>2. IsMoveOf(name, variable)
      BY <1>5, VariableMoved
    <2> QED BY <2>1, <2>2, MoveKeepsNames
  <1>6. ASSUME NEW n \in nodes, RemovePart(n) \/ DestroyTemporary(n)  PROVE TrackingInv(graph')
    BY <1>6, PartErased
  <1>7. ASSUME NEW name \in nodes, NEW variable \in nodes, LeaveScope(name, variable)  PROVE TrackingInv(graph')
    BY <1>7, ScopeLeft
  <1>8. CASE UNCHANGED graph
    BY <1>8
  <1> QED BY <1>1, <1>2, <1>3, <1>4, <1>5, <1>6, <1>7, <1>8 DEF TrackingNext

GraphInv == TrackingInv(graph)

LEMMA GraphInvHolds == TrackingSpec => []GraphInv
  <1>1. TrackingInit => GraphInv
    BY TrackingInvInitial DEF GraphInv
  <1>2. GraphInv /\ [TrackingNext]_graph => GraphInv'
    BY TrackingInvPreserved DEF GraphInv
  <1> QED BY <1>1, <1>2, PTL DEF TrackingSpec

\* Every variable that is not moved and has a mutable name is referred to by
\* that name only (MoveOperator of code_builder_exp_values.cpp relies on it).
THEOREM NamesStayExclusive == TrackingSpec => []NamesExclusive
  <1>1. GraphInv => NamesExclusive
    BY DEF GraphInv, TrackingInv, Exclusive, NamesExclusive, IsName, nodes
  <1> QED BY <1>1, GraphInvHolds, PTL

-------------------------------------------------------------------------------
(***************************************************************************)
(* Derivations are kept.                                                   *)
(***************************************************************************)
LEMMA KeptOutside ==
  ASSUME NEW g, NEW h, NEW out,
         \A n \in out : n \in DOMAIN g.nodes \cap DOMAIN h.nodes => ~InUse(h, n),
         \A S \in ClosedSets(h) : \E T \in ClosedSets(g) : T \ out = S \ out
  PROVE  KeepsDerivations(g, h)
  <1> DEFINE kept == {n \in DOMAIN g.nodes \cap DOMAIN h.nodes : InUse(h, n)}
  <1>1. kept \cap out = {}
    OBVIOUS
  <1> HIDE DEF kept
  <1>2. ASSUME NEW S \in ClosedSets(h)  PROVE \E T \in ClosedSets(g) : S \cap kept = T \cap kept
    <2>1. PICK T \in ClosedSets(g) : T \ out = S \ out
      OBVIOUS
    <2>2. S \cap kept = T \cap kept
      BY <1>1, <2>1
    <2> QED BY <2>2
  <1>3. {S \cap kept : S \in ClosedSets(h)} \subseteq {S \cap kept : S \in ClosedSets(g)}
    BY <1>2
  <1> QED BY <1>3 DEF KeepsDerivations, kept

LEMMA KeptByAdding ==
  ASSUME NEW g, NEW h, IsLarger(g, h)
  PROVE  KeepsDerivations(g, h)
  <1> DEFINE D == DOMAIN g.nodes
             out == DOMAIN h.nodes \ D
  <1>1. D \subseteq DOMAIN h.nodes /\ g.links \subseteq h.links /\ \A l \in g.links : l[2] \in D
    BY DEF IsLarger, WellFormed, LinksOK
  <1>2. \A n : Descendants(g, n) \subseteq Descendants(h, n) /\ Descendants(g, n) \subseteq D
    BY <1>1 DEF Descendants
  <1>3. ASSUME NEW S \in ClosedSets(h)  PROVE \E T \in ClosedSets(g) : T \ out = S \ out
    <2> DEFINE T == S \cap D
    <2>1. /\ S \subseteq DOMAIN h.nodes
          /\ \A l \in h.links : l[1] \in S => l[2] \in S
          /\ \A n \in S : Descendants(h, n) \subseteq S
      BY DEF ClosedSets, IsClosed
    <2>2. \A l \in g.links : l[1] \in T => l[2] \in T
      BY <1>1, <2>1
    <2>3. \A n \in T : Descendants(g, n) \subseteq T
      BY <1>2, <2>1
    <2>4. T \in ClosedSets(g)
      BY <2>2, <2>3 DEF ClosedSets, IsClosed
    <2>5. T \ out = S \ out
      BY <2>1
    <2> QED BY <2>4, <2>5
  <1> HIDE DEF D
  <1>4. \A n \in out : n \notin D
    OBVIOUS
  <1> QED BY <1>3, <1>4, KeptOutside, ZenonT(40) DEF D

LEMMA KeptByErasure ==
  ASSUME NEW g, WellFormed(g), NEW n \in DOMAIN g.nodes, Descendants(g, n) = {}
  PROVE  KeepsDerivations(g, Erase(g, n))
  <1> DEFINE h == Erase(g, n)
             out == {n}
  <1>1. DOMAIN h.nodes = DOMAIN g.nodes \ {n}
    BY ErasedLinks
  <1>2. ASSUME NEW S \in ClosedSets(h)  PROVE \E T \in ClosedSets(g) : T \ out = S \ out
    <2>1. PICK T \in ClosedSets(g) : T \ {n} = S
      BY ClosedBeforeErasure
    <2> QED BY <2>1
  <1>3. \A m \in out : m \notin DOMAIN h.nodes
    BY <1>1
  <1> HIDE DEF h, out
  <1>4. KeepsDerivations(g, h)
    BY <1>2, <1>3, KeptOutside, Zenon
  <1> QED BY <1>4 DEF h

LEMMA KeptByLeaving ==
  ASSUME WellFormed(graph), NEW name \in nodes, NEW variable \in nodes, IsLeaving(name, variable)
  PROVE  KeepsDerivations(graph, graph')
  <1> DEFINE g == Erase(graph, name)
             out == {name, variable}
  <1>1. /\ graph' = Erase(g, variable) /\ Descendants(graph, name) = {} /\ Descendants(g, variable) = {}
        /\ WellFormed(g) /\ variable \in DOMAIN g.nodes /\ DOMAIN graph'.nodes \cap out = {}
    BY DEF IsLeaving
  <1>2. ASSUME NEW S \in ClosedSets(graph')  PROVE \E T \in ClosedSets(graph) : T \ out = S \ out
    <2> HIDE DEF g
    <2>1. PICK R \in ClosedSets(g) : R \ {variable} = S
      BY <1>1, ClosedBeforeErasure
    <2>2. PICK T \in ClosedSets(graph) : T \ {name} = R
      BY <1>1, <2>1, ClosedBeforeErasure DEF g, nodes
    <2> QED BY <2>1, <2>2
  <1> HIDE DEF out
  <1>3. \A n \in out : n \notin DOMAIN graph'.nodes
    BY <1>1
  <1> QED BY <1>2, <1>3, KeptOutside, ZenonT(40)

LEMMA NotInUse ==
  ASSUME NEW g, WellFormed(g), NEW n, NEW root \in DOMAIN g.nodes, IsRoot(root), root.id = n.id
  PROVE  InUse(g, n) <=> ~g.nodes[root]
  BY Identifiers DEF InUse

LEMMA MovedNotInUse ==
  ASSUME NEW name \in nodes, NEW variable \in nodes, IsName(name), IsMoveOf(name, variable),
         NEW n \in MovedNodes(name, variable)
  PROVE  ~InUse(graph', n)
  <1>1. /\ WellFormed(graph') /\ name \in DOMAIN graph'.nodes /\ variable \in DOMAIN graph'.nodes
        /\ IsRoot(name) /\ IsRoot(variable) /\ graph'.nodes[name] /\ graph'.nodes[variable]
    BY DEF IsMoveOf, IsName, nodes
  <1>2. n.id = name.id \/ n.id = variable.id
    BY DEF MovedNodes
  <1> QED BY <1>1, <1>2, NotInUse

LEMMA KeptByMoving ==
  ASSUME WellFormed(graph), NEW name \in nodes, NEW variable \in nodes, IsName(name), IsMoveOf(name, variable)
  PROVE  KeepsDerivations(graph, graph')
  <1> DEFINE M == MovedNodes(name, variable)
  <1>1. /\ DOMAIN graph'.nodes = nodes
        /\ M \in ClosedSets(graph)
        /\ \A l \in graph.links : {l[1], l[2]} \cap {name, variable} = {} => l \in graph'.links
    BY DEF IsMoveOf, nodes
  <1>2. name \in M /\ variable \in M
    BY ZenonT(40) DEF MovedNodes, IsName, IsMoveOf, IsRoot
  <1>3. \A n : Descendants(graph', n) = Descendants(graph, n)
    BY <1>1 DEF Descendants, nodes
  <1>4. /\ \A l \in graph.links : l[1] \in M => l[2] \in M
        /\ \A n \in M : Descendants(graph, n) \subseteq M
        /\ M \subseteq nodes
    BY <1>1 DEF ClosedSets, IsClosed, nodes
  <1>5. \A n \in M : ~InUse(graph', n)
    BY MovedNotInUse
  <1> HIDE DEF M
  <1>6. ASSUME NEW S \in ClosedSets(graph')  PROVE \E T \in ClosedSets(graph) : T \ M = S \ M
    <2> DEFINE T == S \cup M
    <2>1. /\ S \subseteq nodes
          /\ \A l \in graph'.links : l[1] \in S => l[2] \in S
          /\ \A n \in S : Descendants(graph, n) \subseteq S
      BY <1>1, <1>3 DEF ClosedSets, IsClosed
    <2>2. ASSUME NEW l \in graph.links, l[1] \in T  PROVE l[2] \in T
      BY <1>1, <1>2, <1>4, <2>1, <2>2
    <2>3. \A n \in T : Descendants(graph, n) \subseteq T
      BY <1>4, <2>1
    <2>4. T \in ClosedSets(graph)
      BY <1>4, <2>1, <2>2, <2>3 DEF ClosedSets, IsClosed, nodes
    <2> QED BY <2>4
  <1> QED BY <1>5, <1>6, KeptOutside, ZenonT(40)

\* Whatever straight code does next, of two nodes that stay in use none ceases
\* to be derived from the other: RemoveNodeLinks leads around what it removes,
\* and a variable is moved only when nothing is derived from it.
THEOREM DerivationsStayKept == TrackingSpec => DerivationsKept
  <1>1. ASSUME GraphInv, [TrackingNext]_graph  PROVE [KeepsDerivations(graph, graph')]_graph
    <2>1. TrackingInv(graph) /\ WellFormed(graph)
      BY <1>1 DEF GraphInv, TrackingInv
    <2>2. ASSUME NEW d \in Variables, Declare(d)  PROVE KeepsDerivations(graph, graph')
      BY <2>1, <2>2, Declared, KeptByAdding
    <2>3. ASSUME NEW d \in Temporaries, CreateTemporary(Temporary(d))  PROVE KeepsDerivations(graph, graph')
      BY <2>1, <2>3, TemporaryCreated, KeptByAdding
    <2>4. ASSUME NEW n \in {m \in nodes : m.tag = 0}, NEW field \in DOMAIN FieldTypes[n.type], AccessField(n, field)
          PROVE  KeepsDerivations(graph, graph')
      BY <2>1, <2>4, FieldAccessed, KeptByAdding
    <2>5. ASSUME NEW from \in nodes, NEW to \in nodes, Bind(from, to)  PROVE KeepsDerivations(graph, graph')
      BY <2>1, <2>5, Bound, KeptByAdding
    <2>6. ASSUME NEW name \in nodes, NEW variable \in nodes, MoveVariable(name, variable)
          PROVE  KeepsDerivations(graph, graph')
      <3>1. IsName(name)
        BY <2>6 DEF MoveVariable, IsName
      <3>2. IsMoveOf(name, variable)
        BY <2>1, <2>6, VariableMoved
      <3> QED BY <2>1, <3>1, <3>2, KeptByMoving
    <2>7. ASSUME NEW n \in nodes, RemovePart(n) \/ DestroyTemporary(n)  PROVE KeepsDerivations(graph, graph')
      <3>1. graph' = Erase(graph, n) /\ Descendants(graph, n) = {}
        BY <2>1, <2>7, PartErased
      <3> QED BY <2>1, <3>1, KeptByErasure DEF nodes
    <2>8. ASSUME NEW name \in nodes, NEW variable \in nodes, LeaveScope(name, variable)
          PROVE  KeepsDerivations(graph, graph')
      <3>1. IsLeaving(name, variable)
        BY <2>1, <2>8, ScopeLeft
      <3> QED BY <2>1, <3>1, KeptByLeaving
    <2> QED BY <1>1, <2>2, <2>3, <2>4, <2>5, <2>6, <2>7, <2>8 DEF TrackingNext
  <1> QED BY <1>1, GraphInvHolds, PTL DEF TrackingSpec, DerivationsKept

-------------------------------------------------------------------------------
(***************************************************************************)
(* Nothing is left dangling.                                               *)
(***************************************************************************)
\* A variable that goes and is in use before the step
Goes(variable) ==
  IsRoot(variable) /\ variable.vt = "Value" /\ InUse(graph, variable) /\ ~InUse(graph', variable)

\* A closed set around what goes shows that nothing else is derived from it.
LEMMA Separated ==
  ASSUME NEW variable \in nodes, NEW S \in ClosedSets(graph), variable \in S,
         NEW n \in nodes, n \notin S
  PROVE  ~IsDerived(ClosedSets(graph), variable, n)
  BY DEF IsDerived

LEMMA StaysInUse ==
  ASSUME TrackingInv(graph), TrackingInv(graph'), NEW variable \in nodes, Goes(variable)
  PROVE  ~graph.nodes[variable] /\ ~(variable \in nodes' /\ (graph'.nodes[variable] <=> graph.nodes[variable]))
  <1>1. WellFormed(graph) /\ WellFormed(graph')
    BY DEF TrackingInv
  <1>2. ~graph.nodes[variable]
    BY <1>1, NotInUse DEF Goes, nodes
  <1>3. variable \in nodes' => graph'.nodes[variable]
    BY <1>1, NotInUse DEF Goes, nodes
  <1> QED BY <1>2, <1>3

LEMMA AddingDanglesNothing ==
  ASSUME TrackingInv(graph), TrackingInv(graph'), IsLarger(graph, graph')
  PROVE  DanglesNothing
  <1>1. ASSUME NEW variable \in nodes, Goes(variable)  PROVE FALSE
    BY <1>1, StaysInUse DEF IsLarger, nodes
  <1> QED BY <1>1 DEF DanglesNothing, Goes

\* Nothing leads out of a temporary that is destroyed, unless it is moved.
LEMMA ErasureDanglesNothing ==
  ASSUME TrackingInv(graph), NEW n \in nodes, RemovePart(n) \/ DestroyTemporary(n)
  PROVE  DanglesNothing
  <1>1. /\ graph' = Erase(graph, n) /\ Descendants(graph, n) = {} /\ TrackingInv(graph')
        /\ WellFormed(graph) /\ IsGraph(graph)
    BY PartErased, ZenonT(40) DEF TrackingInv, WellFormed
  <1>2. /\ DOMAIN Erase(graph, n).nodes = nodes \ {n}
        /\ Erase(graph, n).nodes = [m \in nodes \ {n} |-> graph.nodes[m]]
    BY <1>1, Erased DEF nodes
  <1>3. nodes' = nodes \ {n} /\ \A m \in nodes \ {n} : graph'.nodes[m] = graph.nodes[m]
    BY <1>1, <1>2 DEF nodes
  <1>4. ASSUME NEW variable \in nodes, Goes(variable)  PROVE variable = n /\ {n} \in ClosedSets(graph)
    <2>1. variable = n /\ ~graph.nodes[n]
      BY <1>1, <1>3, <1>4, StaysInUse
    <2>2. DestroyTemporary(n)
      BY <1>4, <2>1 DEF RemovePart, Goes, IsRoot
    <2>3. ~HasOutgoingLinks(graph, n)
      BY <2>1, <2>2 DEF DestroyTemporary, NodeMoved
    <2>4. \A l \in graph.links : l[1] # n
      BY <2>3 DEF HasOutgoingLinks, Relatives, DirectLinks
    <2> QED BY <1>1, <2>1, <2>4 DEF ClosedSets, IsClosed, nodes
  <1>5. ASSUME NEW variable \in nodes, Goes(variable), NEW m \in nodes \cap nodes'
        PROVE  ~IsDerived(ClosedSets(graph), variable, m)
    BY <1>3, <1>4, <1>5, Separated
  <1> QED BY <1>5 DEF DanglesNothing, Goes

LEMMA LeavingDanglesNothing ==
  ASSUME TrackingInv(graph), NEW name \in nodes, NEW variable \in nodes, LeaveScope(name, variable)
  PROVE  DanglesNothing
  <1> DEFINE g == Erase(graph, name)
  <1>1. IsLeaving(name, variable) /\ TrackingInv(graph') /\ WellFormed(graph) /\ NamesBound(graph)
    BY ScopeLeft DEF TrackingInv
  <1>2. /\ Descendants(graph, name) = {} /\ Descendants(g, variable) = {}
        /\ variable \in DOMAIN g.nodes /\ nodes' = nodes \ {name, variable}
        /\ \A m \in nodes \ {name, variable} : graph'.nodes[m] = graph.nodes[m]
    BY <1>1 DEF IsLeaving, nodes
  <1>3. name.vt # "Value"
    BY <1>1 DEF LeaveScope, NamesBound, IsName, nodes
  <1>4. ASSUME NEW x \in nodes, Goes(x)
        PROVE  \E S \in ClosedSets(graph) : x \in S /\ S \subseteq {name, variable}
    <2>1. x = variable /\ ~graph.nodes[variable]
      BY <1>1, <1>2, <1>3, <1>4, StaysInUse DEF Goes
    <2>2. ~HasOutgoingLinks(g, variable)
      BY <2>1 DEF LeaveScope, NodeMoved
    <2>3. \A l \in g.links : l[1] # variable
      BY <2>2 DEF HasOutgoingLinks, Relatives, DirectLinks
    <2>4. {variable} \in ClosedSets(g)
      BY <1>2, <2>3 DEF ClosedSets, IsClosed
    <2>5. PICK S \in ClosedSets(graph) : S \ {name} = {variable}
      BY <1>1, <1>2, <2>4, ClosedBeforeErasure DEF nodes
    <2> QED BY <2>1, <2>5
  <1>5. ASSUME NEW x \in nodes, Goes(x), NEW m \in nodes \cap nodes'
        PROVE  ~IsDerived(ClosedSets(graph), x, m)
    BY <1>2, <1>4, <1>5, Separated
  <1> QED BY <1>5 DEF DanglesNothing, Goes

LEMMA MovingDanglesNothing ==
  ASSUME TrackingInv(graph), NEW name \in nodes, NEW variable \in nodes, MoveVariable(name, variable)
  PROVE  DanglesNothing
  <1> DEFINE M == MovedNodes(name, variable)
  <1>1. IsName(name) /\ name.vt = "Mut"
    BY DEF MoveVariable, IsName
  <1>2. IsMoveOf(name, variable)
    BY VariableMoved
  <1>3. TrackingInv(graph')
    BY <1>1, <1>2, MoveKeepsNames
  <1>4. M \in ClosedSets(graph) /\ variable \in M /\ nodes' = nodes
    BY <1>2, ZenonT(40) DEF IsMoveOf, MovedNodes, IsRoot
  <1>5. ASSUME NEW x \in nodes, Goes(x)  PROVE x = variable
    <2>1. IsRoot(x) /\ x # name
      BY <1>1, <1>5 DEF Goes
    <2>2. x \notin {name, variable} => (graph'.nodes[x] <=> graph.nodes[x])
      BY <1>2, <2>1 DEF IsMoveOf
    <2> QED BY <1>3, <1>4, <1>5, <2>1, <2>2, StaysInUse
  <1>6. \A m \in M : ~InUse(graph', m)
    BY <1>1, <1>2, MovedNotInUse
  <1> HIDE DEF M
  <1>7. ASSUME NEW x \in nodes, Goes(x), NEW m \in nodes \cap nodes', InUse(graph', m)
        PROVE  ~IsDerived(ClosedSets(graph), x, m)
    BY <1>4, <1>5, <1>6, <1>7, Separated
  <1> QED BY <1>7 DEF DanglesNothing, Goes

\* When a variable is destroyed at the end of its scope or its value is moved
\* away, nothing that stays in use is derived from it.
THEOREM NothingLeftDangling == TrackingSpec => NoneLeftDangling
  <1>1. ASSUME GraphInv, [TrackingNext]_graph  PROVE [DanglesNothing]_graph
    <2>1. TrackingInv(graph)
      BY <1>1 DEF GraphInv
    <2>2. ASSUME NEW d \in Variables, Declare(d)  PROVE DanglesNothing
      BY <2>1, <2>2, Declared, AddingDanglesNothing
    <2>3. ASSUME NEW d \in Temporaries, CreateTemporary(Temporary(d))  PROVE DanglesNothing
      BY <2>1, <2>3, TemporaryCreated, AddingDanglesNothing
    <2>4. ASSUME NEW n \in {m \in nodes : m.tag = 0}, NEW field \in DOMAIN FieldTypes[n.type], AccessField(n, field)
          PROVE  DanglesNothing
      BY <2>1, <2>4, FieldAccessed, AddingDanglesNothing
    <2>5. ASSUME NEW from \in nodes, NEW to \in nodes, Bind(from, to)  PROVE DanglesNothing
      BY <2>1, <2>5, Bound, AddingDanglesNothing
    <2>6. ASSUME NEW name \in nodes, NEW variable \in nodes, MoveVariable(name, variable)  PROVE DanglesNothing
      BY <2>1, <2>6, MovingDanglesNothing
    <2>7. ASSUME NEW n \in nodes, RemovePart(n) \/ DestroyTemporary(n)  PROVE DanglesNothing
      BY <2>1, <2>7, ErasureDanglesNothing
    <2>8. ASSUME NEW name \in nodes, NEW variable \in nodes, LeaveScope(name, variable)  PROVE DanglesNothing
      BY <2>1, <2>8, LeavingDanglesNothing
    <2> QED BY <1>1, <2>2, <2>3, <2>4, <2>5, <2>6, <2>7, <2>8 DEF TrackingNext
  <1> QED BY <1>1, GraphInvHolds, PTL DEF TrackingSpec, NoneLeftDangling

-------------------------------------------------------------------------------
(***************************************************************************)
(* What the operators keep, of any graph.                                  *)
(***************************************************************************)
\* RemoveNode neither loses nor invents a derivation between other nodes: the
\* links it adds around the removed node say what the links to it said.
THEOREM ErasureExact ==
  ASSUME NEW g, WellFormed(g), NEW n \in DOMAIN g.nodes, Descendants(g, n) = {},
         NEW a \in DOMAIN g.nodes \ {n}, NEW b \in DOMAIN g.nodes \ {n}
  PROVE  IsDerived(ClosedSets(Erase(g, n)), a, b) <=> IsDerived(ClosedSets(g), a, b)
  <1>1. ASSUME IsDerived(ClosedSets(g), a, b), NEW S \in ClosedSets(Erase(g, n)), a \in S  PROVE b \in S
    <2>1. PICK T \in ClosedSets(g) : T \ {n} = S
      BY ClosedBeforeErasure
    <2> QED BY <1>1, <2>1 DEF IsDerived
  <1>2. ASSUME IsDerived(ClosedSets(Erase(g, n)), a, b), NEW S \in ClosedSets(g), a \in S  PROVE b \in S
    <2>1. S \ {n} \in ClosedSets(Erase(g, n))
      BY ClosedAfterErasure
    <2> QED BY <1>2, <2>1 DEF IsDerived
  <1> QED BY <1>1, <1>2 DEF IsDerived

\* What is derived in some branch of an if is derived after it: the merge of
\* MergeVariablesStateAfterIf loses no derivation.
THEOREM MergeKeepsDerivations ==
  ASSUME NEW branches, NEW i \in DOMAIN branches, WellFormed(branches[i]),
         NEW a \in DOMAIN branches[i].nodes, NEW b \in DOMAIN branches[i].nodes,
         IsDerived(ClosedSets(branches[i]), a, b)
  PROVE  IsDerived(ClosedSets(MergeVariablesStateAfterIf(branches)), a, b)
  <1> DEFINE g == branches[i]
             h == MergeVariablesStateAfterIf(branches)
             D == DOMAIN g.nodes
  <1>1. D \subseteq DOMAIN h.nodes /\ g.links \subseteq h.links
    BY DEF MergeVariablesStateAfterIf, Report, Range
  <1>2. \A l \in g.links : l[2] \in D
    BY DEF WellFormed, LinksOK
  <1>3. \A n : Descendants(g, n) \subseteq Descendants(h, n) /\ Descendants(g, n) \subseteq D
    BY <1>1 DEF Descendants
  <1> HIDE DEF h
  <1>4. ASSUME NEW S \in ClosedSets(h), a \in S  PROVE b \in S
    <2> DEFINE T == S \cap D
    <2>1. /\ \A l \in h.links : l[1] \in S => l[2] \in S
          /\ \A n \in S : Descendants(h, n) \subseteq S
      BY DEF ClosedSets, IsClosed
    <2>2. \A l \in g.links : l[1] \in T => l[2] \in T
      BY <1>1, <1>2, <2>1
    <2>3. \A n \in T : Descendants(g, n) \subseteq T
      BY <1>3, <2>1
    <2>4. T \in ClosedSets(g)
      BY <2>2, <2>3 DEF ClosedSets, IsClosed
    <2> QED BY <1>4, <2>4 DEF IsDerived
  <1>5. IsDerived(ClosedSets(h), a, b)
    BY <1>4 DEF IsDerived
  <1> QED BY <1>5 DEF h

=============================================================================
