---------------------------- MODULE FunctionContext ----------------------------
(***************************************************************************)
(* The state in which the code builder builds a function, FunctionContext, *)
(* and the building of expressions in it: what an expression does to the   *)
(* references graph, which temporaries it creates and destroys, and which  *)
(* code it emits.                                                          *)
(*                                                                         *)
(* A context "fc" is a record; an operator that builds something returns   *)
(* the new context, or for an expression the context and the resulting     *)
(* variable [fc, v].  Errors gather in fc.g.errors.  Emitted code is kept  *)
(* per basic block, as a sequence of instructions that say only what they  *)
(* do to objects and references; module Execution gives them a meaning.    *)
(***************************************************************************)
EXTENDS ReferencesGraphWalks

CONSTANTS
  Functions,   \* function types by name, see CodeBuilder::DoCallFunction
  Copyable,    \* types with a copy constructor
  Referenced   \* the type of what reference fields refer to, without references inside

RECURSIVE DestroyUnusedTemporaryVariables(_), Build(_, _)

NoBlock == 0

\* Index of the parameter itself in a ParamReference, c_param_reference_number;
\* other indices are reference tags.
Itself == 0

\* --------------------------------------------------------------------------
\* The context

WithGraph(fc, g) == [fc EXCEPT !.g = g]
Emit(fc, instruction) == [fc EXCEPT !.code[fc.cur] = Append(@, instruction)]
Error(fc, error, condition) == WithGraph(fc, Report(fc.g, error, condition))
Failed(fc) == fc.g.errors # {}

\* Operations of the graph on the graph of a context
Moving(fc, n) == WithGraph(fc, MoveNode(fc.g, n))
Removing(fc, n) == WithGraph(fc, RemoveNode(fc.g, n))
Linking(fc, from, to) == WithGraph(fc, AddLink(fc.g, from, to))
TryLinking(fc, from, to) == WithGraph(fc, TryAddLink(fc.g, from, to))
InnerLinking(fc, from, to) == WithGraph(fc, TryAddInnerLinks(fc.g, from, to))

\* llvm::BasicBlock::Create; the block is fc.code's last
NewBlock(fc) == [fc EXCEPT !.code = Append(@, <<>>)]
SetInsertPoint(fc, block) == [fc EXCEPT !.cur = block]
Br(fc, block) == Emit(fc, <<"br", {block}>>)
CondBr(fc, yes, no) == Emit(fc, <<"br", {yes, no}>>)

\* The k-th variable created; its kind tells what creates it
Fresh(fc, kind, type, vt) == Create(<<kind, fc.fresh>>, type, vt)
Added(fc, n) == [WithGraph(fc, AddNode(fc.g, n)) EXCEPT !.fresh = @ + 1]

\* The preserve_temporary flag
PreserveTemporary(n) == n.id[1] \in {"arg", "lock"}

PushStorage(fc) == [fc EXCEPT !.storages = Append(@, <<>>)]

\* ~StackVariablesStorage
PopStorage(fc) ==
  [WithGraph(fc, FoldLeft(RemoveNode, fc.g, Last(fc.storages))) EXCEPT !.storages = Front(@)]

\* RegisterVariable in the k-th storage
RegisterVariable(fc, k, n) == [fc EXCEPT !.storages[k] = Append(@, n)]
RegisterTemporaryVariable(fc, n) == RegisterVariable(fc, Len(fc.storages), n)

HasDestructor(type) == type # "bool"

\* --------------------------------------------------------------------------
\* Destruction

\* Mutant: references to the destroyed variable are not looked for.
DestroyReferenced(fc, n) ==
  Removing(IF n.vt = "Value" /\ ~NodeMoved(fc.g, n) /\ HasDestructor(n.type) THEN Emit(fc, <<"destroy", n>>) ELSE fc, n)

DestroyStored(fc, n) ==
  Removing(IF n.vt = "Value" /\ ~NodeMoved(fc.g, n)
           THEN Error(IF HasDestructor(n.type) THEN Emit(fc, <<"destroy", n>>) ELSE fc,
                      "DestroyedVariableStillHasReferences", HasOutgoingLinks(fc.g, n))
           ELSE fc, n)

CallDestructorsImpl(fc, variables) == FoldLeft(DestroyStored, fc, Reverse(variables))

CallDestructors(fc) == CallDestructorsImpl(fc, Last(fc.storages))

\* The storages above the given size, innermost first
CallDestructorsForLoopInnerVariables(fc, size) ==
  FoldLeft(CallDestructorsImpl, fc, Reverse(SubSeq(fc.storages, size + 1, Len(fc.storages))))

CallDestructorsBeforeReturn(fc) == CallDestructorsForLoopInnerVariables(fc, 0)

\* CallDestructors followed by the end of the storage's scope
LeaveStorage(fc) == PopStorage(CallDestructors(fc))

\* One pass over the storage: a variable is removed or kept, in order
IsUnused(g, n) ==
  IF PreserveTemporary(n) THEN NodeMoved(g, n) ELSE n.vt # "Value" \/ ~HasOutgoingLinks(g, n)

RemoveUnused(fc, n) ==
  IF ~IsUnused(fc.g, n) THEN RegisterTemporaryVariable(fc, n)
  ELSE Removing(IF n.vt = "Value" /\ ~NodeMoved(fc.g, n) /\ HasDestructor(n.type) THEN Emit(fc, <<"destroy", n>>) ELSE fc, n)

\* Passes are repeated until nothing is removed.
RemoveUntilStable(fc, size) ==
  IF Len(Last(fc.storages)) = size THEN fc ELSE DestroyUnusedTemporaryVariables(fc)

DestroyUnusedTemporaryVariables(fc) ==
  RemoveUntilStable(FoldLeft(RemoveUnused, [fc EXCEPT !.storages[Len(fc.storages)] = <<>>], Last(fc.storages)),
                    Len(Last(fc.storages)))

\* --------------------------------------------------------------------------
\* Expressions

Result(fc, v) == [fc |-> fc, v |-> v]
Registered(fc, v) == Result(RegisterTemporaryVariable(fc, v), v)
IsStored(fc, n) == \E i \in DOMAIN fc.storages : n \in Range(fc.storages[i])

\* ContextualizeVariableInResolve, for a local variable
NameLookup(fc, n) == Result(Error(fc, "AccessingMovedVariable", NodeMoved(fc.g, n)), n)

\* The variable that a reference names, when there is exactly one
IsOnlyNameOf(fc, n, variable) ==
  /\ GetNodeInputLinks(fc.g, n) = {variable}
  /\ variable.vt = "Value"
  /\ IsStored(fc, variable)

\* The result takes the place of the variable: same address, same inner references.
MoveOut(fc, n, variable) ==
  LET result == Fresh(fc, "moved", variable.type, "Value")
  IN  Registered(Moving(Moving(InnerLinking(Emit(Added(fc, result), <<"alias", result, variable>>), n, result), n), variable),
                 result)

MoveOperator(fc, n) ==
  LET inputs == GetNodeInputLinks(fc.g, n)
      movable == \E variable \in inputs : IsOnlyNameOf(fc, n, variable)
      checked == Error(Error(Error(Error(fc, "ExpectedMutableReference", n.vt # "Mut"),
                                   "MovedVariableHasReferences", HasOutgoingLinks(fc.g, n)),
                             "AccessingMovedVariable", NodeMoved(fc.g, n)),
                       "ExpectedVariable", ~movable)
  IN  IF Failed(checked) THEN Result(checked, n)
      ELSE MoveOut(fc, n, CHOOSE variable \in inputs : TRUE)

\* BuildExpressionCodeForValueReturn: a local variable is moved into the result
IsAutoMoved(fc, n) ==
  /\ ~HasOutgoingLinks(fc.g, n)
  /\ ~NodeMoved(fc.g, n)
  /\ \E variable \in GetNodeInputLinks(fc.g, n) : IsOnlyNameOf(fc, n, variable)

BuildForValueReturn(fc, n) ==
  IF IsAutoMoved(fc, n) THEN MoveOut(fc, n, CHOOSE variable \in GetNodeInputLinks(fc.g, n) : TRUE)
  ELSE NameLookup(fc, n)

\* The old place gets an empty value.
TakeOperator(r) ==
  LET result == Fresh(r.fc, "taken", r.v.type, "Value")
      checked == Error(Error(r.fc, "ExpectedMutableReference", r.v.vt # "Mut"),
                       "MovedVariableHasReferences", HasOutgoingLinks(r.fc.g, r.v))
  IN  IF r.v.vt = "Value" THEN r
      ELSE IF Failed(checked) THEN Result(checked, r.v)
      ELSE Registered(Emit(Emit(InnerLinking(Added(r.fc, result), r.v, result), <<"move", result, r.v>>), <<"init", r.v>>),
                      result)

\* Mutant: the child node is added every time.
AccessClassFieldAgain(r, field) ==
  Result(WithGraph(r.fc, AddNode(r.fc.g, Child(r.v, field))), Child(r.v, field))

\* AccessClassField of a value field
AccessClassField(r, field) ==
  LET child == Child(r.v, field)
      g == IF child \in DOMAIN r.fc.g.nodes THEN AddNodeIfNotExists(r.fc.g, child) ELSE AddNode(r.fc.g, child)
  IN  Result(WithGraph(r.fc, g), child)

\* AccessClassField of the reference field with the first tag of the variable's type
AccessReferenceField(r) ==
  LET inner == Inner(r.v)[1]
      result == Fresh(r.fc, "field", Referenced, inner.vt)
      checked == Error(r.fc, "ReferenceProtectionError", HasOutgoingMutableNodes(r.fc.g, r.v))
  IN  Registered(Emit(TryLinking(Added(checked, result), inner, result), <<"load", result, r.v>>), result)

\* An argument of DoCallFunction passed by reference: "arg" locks "v"
PassReference(fc, arg, v) ==
  Emit(InnerLinking(TryLinking(Error(fc, "ExpectedMutableReference", arg.vt = "Mut" /\ v.vt # "Mut"), v, arg), v, arg),
       <<"ref", arg, v>>)

\* An argument passed by value, moved or copied
PassLinked(fc, arg, v) ==
  IF v.vt = "Value" THEN Emit(Moving(fc, v), <<"alias", arg, v>>)
  ELSE Emit(Error(fc, "CopyConstructValueOfNoncopyableType", arg.type \notin Copyable), <<"copy", arg, v>>)

PassValue(fc, arg, v) ==
  PassLinked(InnerLinking(Error(fc, "ReferenceProtectionError", HasOutgoingMutableNodes(fc.g, v)), v, arg), arg, v)

\* One argument of DoCallFunction
PassTyped(typed, arg, v) ==
  IF Failed(typed) THEN typed
  ELSE DestroyUnusedTemporaryVariables(
         RegisterTemporaryVariable(IF arg.vt = "Value" THEN PassValue(typed, arg, v) ELSE PassReference(typed, arg, v), arg))

\* "nodes" are the args_nodes so far
PassArgument(fc, nodes, param, r) ==
  LET arg == Fresh(r.fc, "arg", param.type, param.vt)
  IN  [fc |-> IF Failed(r.fc) THEN r.fc
              ELSE PassTyped(Error(Added(r.fc, arg), "TypesMismatch", r.v.type # param.type), arg, r.v),
       nodes |-> Append(nodes, arg)]

\* The node a ParamReference means: the argument or one of its inner references
ParamReferenceNode(nodes, reference) ==
  IF reference[2] = Itself THEN nodes[reference[1]] ELSE Inner(nodes[reference[1]])[reference[2]]

LinkAll(g, nodes, references, to) ==
  FoldLeft(LAMBDA h, p : TryAddLink(h, ParamReferenceNode(nodes, p), to), g, SetToSeq(references))

\* What the result of a call refers to
ReturnReferences(g, f, nodes, result) ==
  FoldLeft(LAMBDA h, i : LinkAll(h, nodes, f.return_inner_references[i], Inner(result)[i]),
           IF f.vt = "Value" THEN g ELSE LinkAll(g, nodes, f.return_references, result),
           [i \in DOMAIN result.tags |-> i])

Pollution(g, f, nodes) ==
  FoldLeft(LAMBDA h, p : TryAddLinkToAllAccessibleVariableNodesInnerReferences(
                           h, ParamReferenceNode(nodes, p.src), ParamReferenceNode(nodes, p.dst)),
           g, SetToSeq(f.references_pollution))

\* DoCallFunction once the arguments are passed
LinkResult(called, f, nodes, result) ==
  WithGraph(called, Pollution(ReturnReferences(called.g, f, nodes, result), f, nodes))

EmitCall(fc, name, nodes, result) ==
  FoldLeft(Moving,
           LinkResult(Emit(Added(fc, result), <<"call", name, nodes, result>>), Functions[name], nodes, result),
           nodes)

FinishCall(name, passed) ==
  LET result == Fresh(passed.fc, "result", Functions[name].type, Functions[name].vt)
  IN  IF Failed(passed.fc) THEN Result(passed.fc, result)
      ELSE Registered(DestroyUnusedTemporaryVariables(EmitCall(passed.fc, name, passed.nodes, result)), result)

\* CastImut
CastImut(r) ==
  LET result == Fresh(r.fc, "cast", r.v.type, "Imut")
  IN  Registered(Emit(InnerLinking(TryLinking(Added(r.fc, result), r.v, result), r.v, result), <<"ref", result, r.v>>), result)

\* Moves a value out of "from" or copies it
MoveOrCopy(fc, to, from) ==
  IF from.vt = "Value"
  THEN Emit(Moving(fc, from), <<"move", to, from>>)
  ELSE Emit(Error(fc, "CopyConstructValueOfNoncopyableType", to.type \notin Copyable), <<"copy", to, from>>)

\* TernaryOperator: the result is created as a value and becomes a reference
\* afterwards; its inner reference nodes stay those of a value.
TernaryResult(fc, branches) ==
  LET kinds == {v.vt : v \in branches}
      vt == IF "Value" \in kinds THEN "Value" ELSE IF "Imut" \in kinds THEN "Imut" ELSE "Mut"
  IN  [Fresh(fc, "ternary", (CHOOSE v \in branches : TRUE).type, "Value") EXCEPT !.vt = vt]

\* A branch of TernaryOperator, built in a storage of its own
TernaryBind(linked, v, result) ==
  IF result.vt # "Value" THEN Emit(TryLinking(linked, v, result), <<"ref", result, v>>)
  ELSE MoveOrCopy(Error(linked, "ReferenceProtectionError", HasOutgoingMutableNodes(linked.g, v)), result, v)

TernaryBranch(r, result, after) ==
  IF Failed(r.fc) THEN r.fc
  ELSE Br(LeaveStorage(TernaryBind(InnerLinking(r.fc, r.v, result), r.v, result)), after)

\* An expression whose value is read at once
Read(r) == Result(Error(r.fc, "ReferenceProtectionError", HasOutgoingMutableNodes(r.fc.g, r.v)), r.v)

\* TernaryOperator once the branches are built; "base" is the last block before
TernaryEnd(first, second, result, base) ==
  IF Failed(first) THEN Result(first, result)
  ELSE Registered(WithGraph(SetInsertPoint(second, base + 3), MergeVariablesStateAfterIf(<<first.g, second.g>>)), result)

\* The second branch starts from the state before the first.
TernarySecond(before, first, e, result, base) ==
  TernaryEnd(first,
             TernaryBranch(Build(PushStorage(WithGraph(SetInsertPoint(first, base + 2), before.g)), e.branches[2]),
                           result, base + 3),
             result, base)

TernaryFirst(before, e, result, base) ==
  IF Failed(before) THEN Result(before, result)
  ELSE TernarySecond(before,
                     TernaryBranch(Build(PushStorage(SetInsertPoint(before, base + 1)), e.branches[1]), result, base + 3),
                     e, result, base)

\* The branches are built once without code, for the type of the result.
TernaryTested(tested, e, base) ==
  LET result == TernaryResult(tested, {Build(PushStorage(tested), b).v : b \in Range(e.branches)})
  IN  TernaryFirst(Added(tested, result), e, result, base)

TernaryOperator(fc, e) ==
  TernaryTested(CondBr(Read(Build(NewBlock(NewBlock(NewBlock(fc))), e.of)).fc, Len(fc.code) + 1, Len(fc.code) + 2),
                e, Len(fc.code))

\* BuildLazyBinaryOperator: the right part, built in a storage of its own, is
\* evaluated or not
LazyEnd(l, left, after) ==
  LET result == Fresh(left, "result", "bool", "Value")
  IN  Registered(Added(WithGraph(SetInsertPoint(left, after), MergeVariablesStateAfterIf(<<l.fc.g, left.g>>)), result),
                 result)

LazyRight(l, r, after) ==
  IF Failed(r.fc) THEN r
  ELSE LazyEnd(l, Br(LeaveStorage(Error(r.fc, "ReferenceProtectionError", HasOutgoingMutableNodes(r.fc.g, r.v))), after),
               after)

LazyLeft(l, e, base) ==
  IF Failed(l.fc) THEN l
  ELSE LazyRight(l, Build(PushStorage(SetInsertPoint(CondBr(l.fc, base + 1, base + 2), base + 1)), e.right), base + 2)

LazyOperator(fc, e) == LazyLeft(Read(Build(NewBlock(NewBlock(fc)), e.left)), e, Len(fc.code))

\* DoCallFunction
CallFunction(fc, e) ==
  FinishCall(e.f, FoldLeft(LAMBDA s, i : PassArgument(s.fc, s.nodes, Functions[e.f].params[i], Build(s.fc, e.args[i])),
                           [fc |-> fc, nodes |-> <<>>], [i \in DOMAIN e.args |-> i]))

\* BuildExpressionCode
Build(fc, e) ==
  CASE e.op = "name" -> NameLookup(fc, e.n)
    [] e.op = "move" -> MoveOperator(fc, e.n)
    [] e.op = "take" -> TakeOperator(Build(fc, e.of))
    [] e.op = "field" -> AccessClassField(Build(fc, e.of), e.field)
    [] e.op = "deref" -> AccessReferenceField(Build(fc, e.of))
    [] e.op = "imut" -> CastImut(Build(fc, e.of))
    [] e.op = "call" -> CallFunction(fc, e)
    [] e.op = "ternary" -> TernaryOperator(fc, e)
    [] e.op = "lazy" -> LazyOperator(fc, e)
================================================================================
