------------------------------- MODULE Execution -------------------------------
(***************************************************************************)
(* What the code emitted for a function does when it runs: which objects   *)
(* live, where references point, and which references are still good.      *)
(* This is the meaning of LLVM's instructions and of the functions called, *)
(* as far as lifetimes go; it is external to the compiler and knows        *)
(* nothing of the references graph.                                        *)
(*                                                                         *)
(* An object has leaves, its fields or itself.  Every leaf has a stack of  *)
(* the references that may access it, each derived from the one below.  A  *)
(* write through a reference drops all above it, a read the mutable ones;  *)
(* using a reference that was dropped is a fault, and so is using memory   *)
(* without a live object in it.  Faults gather in m.bad.                   *)
(***************************************************************************)
EXTENDS BlockElements

Leaves(type) == IF DOMAIN FieldTypes[type] = {} THEN {""} ELSE DOMAIN FieldTypes[type]
Address(loc, type) == [loc |-> loc, leaves |-> Leaves(type), tag |-> <<loc, "Mut">>]
Cells(a) == {<<a.loc, leaf>> : leaf \in a.leaves}
Fault(m, fault, condition) == IF condition THEN [m EXCEPT !.bad = @ \cup {fault}] ELSE m

\* Where the value or the referenced value of a node is: a register, or memory of its own
Addr(m, n) ==
  LET whole == IF n.id \in DOMAIN m.reg THEN m.reg[n.id] ELSE Address(n.id, n.type)
  IN  IF n.path = <<>> THEN whole ELSE [whole EXCEPT !.leaves = {n.path[1]}]

SetRegister(m, n, a) == [m EXCEPT !.reg = [k \in DOMAIN @ \cup {n.id} |-> IF k = n.id THEN a ELSE @[k]]]

\* The reference stored in a holder
IsHolder(m, a) == Cells(a) \subseteq DOMAIN m.ptr
Stored(m, a) == m.ptr[CHOOSE c \in Cells(a) : TRUE]
StoreReference(m, a, to) ==
  [m EXCEPT !.ptr = [c \in DOMAIN @ \cup Cells(a) |-> IF c \in Cells(a) THEN to ELSE @[c]]]

\* --------------------------------------------------------------------------
\* Accesses

Position(stack, tag) == IF tag \in Range(stack) THEN CHOOSE i \in DOMAIN stack : stack[i] = tag ELSE 0

\* What an access leaves above position i of a stack
After(stack, i, mode) ==
  SubSeq(stack, 1, i) \o SelectSeq(SubSeq(stack, i + 1, Len(stack)), LAMBDA t : mode = "Imut" /\ t[2] = "Imut")

Usable(m, a) == Cells(a) \subseteq m.live /\ \A c \in Cells(a) : a.tag \in Range(m.stack[c])

Access(m, a, mode) ==
  LET dangling == ~(Cells(a) \subseteq m.live)
      alias == ~dangling /\ (~Usable(m, a) \/ (mode = "Mut" /\ a.tag[2] = "Imut"))
      used == [m EXCEPT !.stack = [c \in DOMAIN @ |->
                 IF c \in Cells(a) THEN After(@[c], Position(@[c], a.tag), mode) ELSE @[c]]]
  IN  IF dangling \/ alias THEN Fault(Fault(m, "dangling", dangling), "alias", alias) ELSE used

\* A new reference derived from an address
Derived(id, a, mode) == [a EXCEPT !.tag = <<id, mode>>]

Derive(m, id, a, mode) ==
  LET used == Access(m, a, mode)
      tag == <<id, mode>>
      other(t) == t # tag
  IN  IF ~Usable(used, a) THEN used
      ELSE [used EXCEPT !.stack = [c \in DOMAIN @ |->
              IF c \in Cells(a) THEN Append(SelectSeq(@[c], other), tag) ELSE @[c]]]

\* --------------------------------------------------------------------------
\* Objects

\* An object begins to live; nothing may live there already.  The memory's own
\* address is the first reference to it.
Begin(m, a) ==
  LET begun == Fault(m, "leak", Cells(a) \cap m.live # {})
      own == a.tag = <<a.loc, "Mut">>
  IN  [begun EXCEPT !.live = @ \cup Cells(a),
                    !.stack = [c \in DOMAIN @ \cup Cells(a) |->
                       IF own /\ c \in Cells(a) THEN <<a.tag>> ELSE @[c]]]

\* An object ends; what it refers to must still be there.
End(m, a, fault) ==
  LET ended == IF Cells(a) \subseteq m.live THEN Access(m, a, "Mut") ELSE Fault(m, fault, TRUE)
      checked == Fault(ended, "dangling", IsHolder(m, a) /\ ~(Cells(Stored(m, a)) \subseteq m.live))
  IN  [checked EXCEPT !.live = @ \ Cells(a),
                      !.ptr = [c \in DOMAIN @ \ Cells(a) |-> @[c]]]

\* Memory without anything left in it, or with a holder, is given up.
Forget(m, a) ==
  LET lost == (Cells(a) \cap m.live) \ DOMAIN m.ptr
  IN  [Fault(m, "leak", lost # {}) EXCEPT !.live = @ \ Cells(a), !.ptr = [c \in DOMAIN @ \ Cells(a) |-> @[c]]]

\* The reference in a holder goes with its value.
WithStored(m, to, before, from) ==
  IF IsHolder(before, from) THEN StoreReference(m, to, Stored(before, from)) ELSE m

Move(m, to, from) == WithStored(Begin(End(m, from, "dangling"), to), to, m, from)
Copy(m, to, from) == WithStored(Begin(Access(m, from, "Imut"), to), to, m, from)

\* --------------------------------------------------------------------------
\* Calls.  A called function may do whatever its type allows.

\* It uses its arguments, what they refer to included, ...
UseArgument(m, n) ==
  LET a == Addr(m, n)
      used == IF n.vt = "Value" THEN m ELSE Access(m, a, n.vt)
  IN  IF IsHolder(m, a) THEN Access(used, Stored(m, a), Stored(m, a).tag[2]) ELSE used

\* ... destroys its value arguments, ...
EndArgument(m, n) == IF n.vt = "Value" THEN End(m, Addr(m, n), "dangling") ELSE m

ReferenceSource(m, nodes, p) ==
  LET a == Addr(m, nodes[p[1]]) IN IF p[2] = Itself THEN a ELSE Stored(m, a)

\* ... stores or does not store references where reference pollution says, ...
Pollute(m, nodes, p) ==
  LET n == nodes[p.dst[1]]
      kind == TagKinds[n.type][p.dst[2]]
      source == ReferenceSource(m, nodes, p.src)
  IN  StoreReference(Derive(m, n.id, source, kind), Addr(m, n), Derived(n.id, source, kind))

\* ... and returns one of the references it may return, or a new object.
ReturnReference(m, source, result) ==
  SetRegister(Derive(m, result.id, source, result.vt), result, Derived(result.id, source, result.vt))

ReturnHolder(m, source, result) ==
  LET own == Address(result.id, result.type)
      kind == TagKinds[result.type][1]
  IN  StoreReference(Begin(Derive(m, result.id, source, kind), own), own, Derived(result.id, source, kind))

Call(m, name, nodes, result) ==
  LET f == Functions[name]
      used == FoldLeft(UseArgument, m, nodes)
      polluted == {used} \cup {Pollute(used, nodes, p) : p \in f.references_pollution}
      sources == IF f.vt # "Value" THEN f.return_references
                 ELSE IF result.tags # <<>> THEN f.return_inner_references[1] ELSE {}
      returned == [p \in sources |-> ReferenceSource(used, nodes, p)]
      end(k) == FoldLeft(EndArgument, k, nodes)
  IN  CASE f.vt # "Value" -> {ReturnReference(end(k), returned[p], result) : k \in polluted, p \in sources}
        [] f.vt = "Value" /\ result.tags # <<>> ->
             {ReturnHolder(end(k), returned[p], result) : k \in polluted, p \in sources}
        [] f.vt = "Value" /\ result.tags = <<>> /\ HasDestructor(f.type) ->
             {Begin(end(k), Address(result.id, result.type)) : k \in polluted}
        [] OTHER -> {end(k) : k \in polluted}

\* --------------------------------------------------------------------------
\* Instructions

Execute(m, i) ==
  LET a(k) == Addr(m, i[k]) IN
  CASE i[1] = "init" -> {Begin(m, a(2))}
    [] i[1] = "destroy" -> {End(m, a(2), "double")}
    [] i[1] = "end" -> {Forget(m, a(2))}
    [] i[1] = "alias" -> {SetRegister(m, i[2], a(3))}
    [] i[1] = "move" -> {Move(m, a(2), a(3))}
    [] i[1] = "copy" -> {Copy(m, a(2), a(3))}
    [] i[1] = "ref" -> {SetRegister(Derive(m, i[2].id, a(3), i[2].vt), i[2], Derived(i[2].id, a(3), i[2].vt))}
    [] i[1] = "load" ->
         LET from == Stored(m, a(3)) IN
         {SetRegister(Derive(Access(m, a(3), "Imut"), i[2].id, from, i[2].vt), i[2], Derived(i[2].id, from, i[2].vt))}
    [] i[1] = "store" ->
         LET kind == TagKinds[i[2].type][1] IN
         {StoreReference(Begin(Derive(m, i[2].id, a(3), kind), a(2)), a(2), Derived(i[2].id, a(3), kind))}
    [] i[1] = "call" -> Call(m, i[2], i[3], i[4])

\* All but the last instruction of a block; a machine with a fault stops there
ExecuteBlock(m, code) ==
  FoldLeft(LAMBDA ms, i : UNION {IF k.bad = {} THEN Execute(k, i) ELSE {k} : k \in ms}, {m}, Front(code))

\* --------------------------------------------------------------------------
\* The function's frame

ParamAddress(f, p) == Address(ParamNode(f, p).id, IF p[2] = Itself THEN f.params[p[1]].type ELSE Referenced)

\* Objects of the caller that references lead to
CallerReferences(f) ==
  UNION {(IF f.params[i].vt = "Value" THEN {} ELSE {<<i, Itself>>}) \cup
         {<<i, t>> : t \in DOMAIN TagKinds[f.params[i].type]} : i \in DOMAIN f.params}

StartMachine(f) ==
  LET params == {<<i, Itself>> : i \in DOMAIN f.params} \cup CallerReferences(f)
      holders == {p \in params : p[2] # Itself}
      begun == FoldLeft(LAMBDA m, p : Begin(m, ParamAddress(f, p)),
                        [reg |-> <<>>, live |-> {}, ptr |-> <<>>, stack |-> <<>>, bad |-> {}], SetToSeq(params))
      store(m, p) ==
        LET to == ParamAddress(f, <<p[1], Itself>>)
            kind == TagKinds[f.params[p[1]].type][p[2]]
        IN  StoreReference(Derive(m, to.loc, ParamAddress(f, p), kind), to, Derived(to.loc, ParamAddress(f, p), kind))
  IN  FoldLeft(store, begun, SetToSeq(holders))

\* Whether a reference leads to one of the caller's objects, and is good
LeadsTo(f, m, a, references) == Usable(m, a) /\ a.loc \in {ParamAddress(f, p).loc : p \in references}

\* What must hold when the function returns: of its objects only the result
\* lives, and every reference that leaves is one that its type names.
Return(f, m, i) ==
  LET result == IF Len(i) = 2 THEN Addr(m, i[2]) ELSE Address(<<"void", 0>>, "void")
      isValue == Len(i) = 2 /\ f.vt = "Value"
      expected == UNION {Cells(ParamAddress(f, p)) : p \in CallerReferences(f)} \cup IF isValue THEN Cells(result) ELSE {}
      escapes ==
        \/ Len(i) = 2 /\ f.vt # "Value" /\ ~LeadsTo(f, m, result, f.return_references)
        \/ isValue /\ IsHolder(m, result) /\ ~LeadsTo(f, m, Stored(m, result), f.return_inner_references[1])
        \/ \E p \in CallerReferences(f) : LET a == ParamAddress(f, p) IN
             /\ p[2] = Itself /\ IsHolder(m, a)
             /\ ~LeadsTo(f, m, Stored(m, a), {<<p[1], 1>>} \cup
                    {q.src : q \in {q \in f.references_pollution : q.dst = <<p[1], 1>>}})
  IN  Fault(Fault(Fault(m, "leak", ~(m.live \subseteq expected)), "double", ~(expected \subseteq m.live)),
            "escape", escapes)
================================================================================
