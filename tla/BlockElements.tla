----------------------------- MODULE BlockElements -----------------------------
(***************************************************************************)
(* The building of block elements, CodeBuilder::BuildBlockElementImpl, in  *)
(* a function context.  An element without a block inside is one operator  *)
(* from context to context.  An element with a block is two: one builds    *)
(* what comes before the block and starts it, the other ends the block and *)
(* builds what comes after it; "before" and the like are what the handler  *)
(* keeps in local variables meanwhile.                                     *)
(***************************************************************************)
EXTENDS FunctionContext

\* --------------------------------------------------------------------------
\* Declarations

\* Initializers: the initialized variable is the reference "to".

ApplyEmptyInitializer(fc, to) == Emit(fc, <<"init", to>>)

\* StructNamedInitializer of a structure with one reference field
InitializeReferenceField(r, to) ==
  LET inner == Inner(to)[1]
      checked == Error(Error(r.fc, "ExpectedReferenceValue", r.v.vt = "Value"),
                       "ExpectedMutableReference", inner.vt = "Mut" /\ r.v.vt # "Mut")
  IN  Emit(WithGraph(checked, TryAddLinkToAllAccessibleVariableNodesInnerReferences(checked.g, r.v, inner)),
           <<"store", to, r.v>>)

SetupReferencesInCopyOrMove(fc, to, from) ==
  FoldLeft(LAMBDA c, i : WithGraph(c, TryAddLinkToAllAccessibleVariableNodesInnerReferences(c.g, Inner(from)[i], Inner(to)[i])),
           fc, [i \in DOMAIN to.tags |-> i])

\* ApplyInitializerImpl of an expression of a class type
DestroyTemporaryOf(v, fc) == IF v.vt = "Value" THEN DestroyUnusedTemporaryVariables(fc) ELSE fc

InitializeByExpression(r, to) ==
  DestroyTemporaryOf(r.v, MoveOrCopy(SetupReferencesInCopyOrMove(Read(r).fc, to, r.v), to, r.v))

\* ApplyInitializer; "init" is the initializer
InitializeByBuilt(r, to, isField) == IF isField THEN InitializeReferenceField(r, to) ELSE InitializeByExpression(r, to)

ApplyInitializer(fc, to, init) ==
  IF init.op = "empty" THEN ApplyEmptyInitializer(fc, to)
  ELSE InitializeByBuilt(Build(fc, IF init.op = "holder" THEN init.of ELSE init), to, init.op = "holder")

\* A variable gets a name
Named(fc, storage, variable, reference) ==
  Emit(RegisterVariable(RegisterVariable(InnerLinking(Linking(fc, variable, reference), variable, reference),
                                         storage, variable),
                        storage, reference),
       <<"ref", reference, variable>>)

\* VariablesDeclaration of one variable
VariableDeclaration(fc, type, init) ==
  LET reference == Fresh(fc, "ref", type, "Mut")
      variable == Fresh(fc, "var", type, "Value")
      target == Fresh(fc, "init", type, "Mut")
      created == Added(Added(Added(PushStorage(fc), reference), variable), target)
      aliased == Emit(InnerLinking(Linking(created, variable, target), variable, target), <<"alias", target, variable>>)
  IN  LeaveStorage(Named(Removing(ApplyInitializer(aliased, target, init), target), Len(fc.storages), variable, reference))

\* The value part of AutoVariableDeclaration and of WithOperator: a variable
\* named by "reference" that takes the value of "from".  A moved value stays
\* where it is: its memory is reused.
FillVariable(linked, variable, from) ==
  IF from.vt = "Value" THEN Emit(Moving(linked, from), <<"alias", variable, from>>)
  ELSE MoveOrCopy(linked, variable, from)

NewVariable(fc, storage, reference, from) ==
  LET checked == Error(fc, "ReferenceProtectionError", HasOutgoingMutableNodes(fc.g, from))
      variable == Fresh(fc, "var", from.type, "Value")
      added == Added(checked, variable)
  IN  Emit(Linking(RegisterVariable(FillVariable(InnerLinking(InnerLinking(added, variable, reference), from, variable),
                                                 variable, from),
                                    storage, variable),
                   variable, reference),
           <<"ref", reference, variable>>)

BindReference(fc, reference, from) ==
  Emit(InnerLinking(TryLinking(fc, from, reference), from, reference), <<"ref", reference, from>>)

\* What AutoVariableDeclaration does with the expression built
DeclareReferenceOrVariable(fc, storage, reference, isReference, from) ==
  LET checked == Error(Error(fc, "ExpectedReferenceValue", isReference /\ from.vt = "Value"),
                       "ExpectedMutableReference", isReference /\ from.vt # "Mut" /\ reference.vt = "Mut")
  IN  IF Failed(checked) THEN checked
      ELSE LeaveStorage(RegisterVariable(IF isReference THEN BindReference(fc, reference, from)
                                         ELSE NewVariable(fc, storage, reference, from),
                                         storage, reference))

DeclareBuilt(r, storage, vt, isReference) ==
  LET reference == Fresh(r.fc, "ref", r.v.type, vt)
  IN  DeclareReferenceOrVariable(Added(r.fc, reference), storage, reference, isReference, r.v)

AutoVariableDeclaration(fc, vt, isReference, e) ==
  DeclareBuilt(Build(PushStorage(fc), e), Len(fc.storages), vt, isReference)

\* BuildDecomposeDeclarationComponent of a name: a variable takes the value of "from".
DecomposeNamed(fc, storage, from, vt) ==
  LET variable == Fresh(fc, "var", from.type, "Value")
      reference == Fresh(fc, "ref", from.type, vt)
  IN  Named(Added(MoveOrCopy(InnerLinking(Added(fc, variable), from, variable), variable, from), reference),
            storage, variable, reference)

\* An entry of a DecomposeDeclarationStructComponent, for a value field ...
DecomposeField(fc, storage, v, field, vt) ==
  LET member == Fresh(fc, "member", FieldTypes[v.type][field], "Value")
      added == Emit(Added(fc, member), <<"alias", member, Child(v, field)>>)
  IN  Removing(DecomposeNamed(InnerLinking(added, Child(v, field), member), storage, member, vt), member)

\* ... and for a reference field
DecomposeReferenceField(fc, storage, v, vt) ==
  LET inner == Inner(v)[1]
      checked == Error(fc, "ExpectedMutableReference", inner.vt # "Mut" /\ vt = "Mut")
      reference == Fresh(fc, "ref", Referenced, vt)
      added == RegisterVariable(Added(checked, reference), storage, reference)
  IN  Emit(TryLinking(added, inner, reference), <<"load", reference, v>>)

\* DecomposeDeclaration of a structure: the named fields become variables, the
\* others are destroyed.
NameFields(fc, storage, v, vt, fields) ==
  IF v.tags # <<>> THEN DecomposeReferenceField(fc, storage, v, vt)
  ELSE FoldLeft(LAMBDA c, f : DecomposeField(c, storage, v, f, vt), fc, fields)

DestroyFields(fc, v, fields) == FoldLeft(LAMBDA c, f : Emit(c, <<"destroy", Child(v, f)>>), fc, fields)

DecomposeFields(fc, storage, v, vt, fields) ==
  IF Failed(fc) THEN fc
  ELSE LeaveStorage(Emit(Moving(DestroyFields(NameFields(fc, storage, v, vt, fields), v,
                                              SetToSeq(DOMAIN FieldTypes[v.type] \ Range(fields))),
                                v),
                         <<"end", v>>))

DecomposeBuilt(r, storage, vt, fields) ==
  DecomposeFields(Error(r.fc, "ImmediateValueExpectedInDecomposeDeclaration", r.v.vt # "Value"), storage, r.v, vt, fields)

DecomposeDeclaration(fc, vt, fields, e) ==
  DecomposeBuilt(Build(PushStorage(fc), e), Len(fc.storages), vt, fields)

\* --------------------------------------------------------------------------
\* Expressions

SingleExpression(fc, e) == LeaveStorage(Build(PushStorage(fc), e).fc)

\* The move-assignment of TryCallOverloadedBinaryOperator, of a value to a
\* mutable reference: the right side first, locked while the left one is built;
\* the old value is destroyed.  No operator takes an immutable left side.
Lock(r, lock) ==
  RegisterTemporaryVariable(
    Emit(InnerLinking(TryLinking(Added(r.fc, lock), r.v, lock), r.v, lock), <<"ref", lock, r.v>>), lock)

MoveInto(l, lock, from) ==
  LET checked == Error(Error(l.fc, "CouldNotSelectOverloadedFunction", l.v.vt # "Mut"),
                       "ReferenceProtectionError", HasOutgoingLinks(l.fc.g, l.v))
  IN  IF Failed(checked) THEN checked
      ELSE LeaveStorage(Emit(Emit(Moving(Moving(SetupReferencesInCopyOrMove(checked, l.v, lock), lock), from),
                                  <<"destroy", l.v>>),
                             <<"move", l.v, from>>))

AssignBuilt(r, left) ==
  LET lock == Fresh(r.fc, "lock", r.v.type, "Mut") IN MoveInto(Build(Lock(r, lock), left), lock, r.v)

MoveAssignment(fc, left, right) == AssignBuilt(Build(PushStorage(fc), right), left)

\* The condition of an element, evaluated in a storage of its own
Condition(fc, e) == LeaveStorage(Read(Build(PushStorage(fc), e)).fc)

\* --------------------------------------------------------------------------
\* Jumps and blocks

Terminal(fc) == fc.cur = NoBlock

AddLoopFrame(fc, breakBlock, continueBlock) ==
  [fc EXCEPT !.loops = Append(@, [break |-> breakBlock, continue |-> continueBlock,
                                  size |-> Len(fc.storages), breaks |-> <<>>, continues |-> <<>>])]
PopLoopFrame(fc) == [fc EXCEPT !.loops = Front(@)]

\* BuildBlock up to its elements, and after them
StartBlock(fc) == PushStorage(fc)
EndBlock(fc) == IF Terminal(fc) THEN PopStorage(fc) ELSE LeaveStorage(fc)

\* FetchLoopFrame without a label: the innermost loop
InnermostLoop(fc) ==
  LET loops == {i \in DOMAIN fc.loops : fc.loops[i].continue # NoBlock}
  IN  IF loops = {} THEN 0 ELSE CHOOSE i \in loops : \A j \in loops : j <= i

BreakOperator(fc, frame) ==
  LET left == CallDestructorsForLoopInnerVariables(fc, fc.loops[frame].size)
  IN  SetInsertPoint(Br([left EXCEPT !.loops[frame].breaks = Append(@, left.g)], fc.loops[frame].break), NoBlock)

ContinueOperator(fc, frame) ==
  LET left == CallDestructorsForLoopInnerVariables(fc, fc.loops[frame].size)
  IN  SetInsertPoint(Br([left EXCEPT !.loops[frame].continues = Append(@, left.g)], fc.loops[frame].continue), NoBlock)

\* The end of a loop's body jumps on, as "continue" does
FallThrough(fc) ==
  LET frame == Len(fc.loops) IN
  IF Terminal(fc) THEN fc
  ELSE Br([fc EXCEPT !.loops[frame].continues = Append(@, fc.g)], fc.loops[frame].continue)

Errors(fc, graphs) == WithGraph(fc, [fc.g EXCEPT !.errors = @ \cup UNION {g.errors : g \in graphs},
                                                 !.failed = @ \/ \E g \in graphs : g.failed])

\* The state becomes the merge of several; without any, nothing follows
Join(fc, states, block) ==
  SetInsertPoint(WithGraph(fc, MergeVariablesStateAfterIf(states)), IF states = <<>> THEN NoBlock ELSE block)

\* A branch that ends reaches the block after the element, with its state
BrUnlessTerminal(fc, block) == IF Terminal(fc) THEN fc ELSE Br(fc, block)
StateUnlessTerminal(fc) == IF Terminal(fc) THEN <<>> ELSE <<fc.g>>

\* Its state is merged with those of the branches before it and after it.
JoinBranch(ended, before, after, block) ==
  Join(BrUnlessTerminal(ended, block), before \o StateUnlessTerminal(ended) \o after, block)

\* --------------------------------------------------------------------------
\* Elements with blocks.  The blocks that an element creates are numbered from
\* the last one before it, "base".

StartTested(tested, base) ==
  [fc |-> StartBlock(SetInsertPoint(CondBr(tested, base + 1, base + 2), base + 1)),
   local |-> [kind |-> "if", base |-> base, before |-> tested.g]]

StartIf(fc, e) == StartTested(Condition(NewBlock(NewBlock(NewBlock(fc))), e), Len(fc.code))

\* Without an alternative
EndIf(fc, local) == JoinBranch(EndBlock(fc), <<>>, <<local.before>>, local.base + 2)

ElseAfter(ended, local) ==
  [fc |-> StartBlock(WithGraph(SetInsertPoint(BrUnlessTerminal(ended, local.base + 3), local.base + 2), local.before)),
   local |-> [kind |-> "else", base |-> local.base, states |-> StateUnlessTerminal(ended)]]

StartElse(fc, local) == ElseAfter(EndBlock(fc), local)

EndElse(fc, local) == JoinBranch(EndBlock(fc), local.states, <<>>, local.base + 3)

\* After the last loop every jump back is checked against the state before it.
LeaveLoop(fc, states, before, block) ==
  Errors(Join(PopLoopFrame(fc), Last(fc.loops).breaks \o states, block),
         {CheckVariablesStateAfterLoop(before, g) : g \in Range(Last(fc.loops).continues)})

StartWhile(fc, e) ==
  LET base == Len(fc.code)
      test == SetInsertPoint(Br(NewBlock(NewBlock(NewBlock(fc))), base + 1), base + 1)
  IN  [fc |-> StartBlock(SetInsertPoint(AddLoopFrame(CondBr(Condition(test, e), base + 2, base + 3), base + 3, base + 1),
                                        base + 2)),
       local |-> [kind |-> "while", base |-> base, before |-> fc.g]]

\* The state after the loop is the one before it, with those of every "break".
EndWhile(fc, local) == LeaveLoop(FallThrough(EndBlock(fc)), <<local.before>>, local.before, local.base + 3)

ForTested(tested, local) ==
  [fc |-> StartBlock(SetInsertPoint(AddLoopFrame(tested, local.base + 4, local.base + 3), local.base + 2)),
   local |-> [local EXCEPT !.tested = tested.g]]

\* "for( ; e; next )"; the variables part is empty or a declaration made before
StartFor(fc, e, next) ==
  LET base == Len(fc.code)
      inside == PushStorage(NewBlock(NewBlock(NewBlock(NewBlock(fc)))))
  IN  ForTested(CondBr(Condition(SetInsertPoint(Br(inside, base + 1), base + 1), e), base + 2, base + 4),
                [kind |-> "for", base |-> base, before |-> fc.g, tested |-> EmptyGraph, next |-> next])

\* The state after the loop is the one after the test, with those of every "break".
ForAdvanced(advanced, frame, local) ==
  LeaveStorage(Errors(Join(advanced, Append(frame.breaks, local.tested), local.base + 4),
                      {advanced.g} \cup {CheckVariablesStateAfterLoop(local.before, g) :
                                           g \in {g \in {advanced.g} : frame.continues # <<>>}}))

ForIterated(fc, frame, local) ==
  LET state == IF frame.continues # <<>> THEN MergeVariablesStateAfterIf(frame.continues) ELSE local.tested
      next == WithGraph(SetInsertPoint(PopLoopFrame(fc), local.base + 3), state)
  IN  ForAdvanced(Br(SingleExpression(next, local.next), local.base + 1), frame, local)

ForBodyEnded(fc, local) == ForIterated(fc, Last(fc.loops), local)

EndFor(fc, local) == ForBodyEnded(FallThrough(EndBlock(fc)), local)

StartLoop(fc) ==
  LET base == Len(fc.code)
      fc1 == SetInsertPoint(Br(NewBlock(NewBlock(fc)), base + 1), base + 1)
  IN  [fc |-> StartBlock(AddLoopFrame(fc1, base + 2, base + 1)),
       local |-> [kind |-> "loop", base |-> base, before |-> fc.g]]

EndLoop(fc, local) == LeaveLoop(FallThrough(EndBlock(fc)), <<>>, local.before, local.base + 2)

\* SwitchOperator: the cases are tested in order.  The last one, the default or
\* what the ranges of the others leave, is not tested.
FirstCase(tested, base) ==
  [fc |-> StartBlock(SetInsertPoint(CondBr(tested, base + 2, base + 3), base + 2)),
   local |-> [kind |-> "switch", after |-> base + 1, next |-> base + 3, before |-> tested.g, states |-> <<>>]]

StartSwitch(fc, e) == FirstCase(Condition(NewBlock(NewBlock(NewBlock(fc))), e), Len(fc.code))

\* The block of a case has ended
CaseAfter(ended, local, isLast) ==
  LET base == Len(ended.code)
      test == WithGraph(SetInsertPoint(NewBlock(NewBlock(BrUnlessTerminal(ended, local.after))), local.next), local.before)
  IN  [fc |-> StartBlock(SetInsertPoint(IF isLast THEN Br(test, base + 1) ELSE CondBr(test, base + 1, base + 2), base + 1)),
       local |-> [local EXCEPT !.kind = IF isLast THEN "last case" ELSE "switch",
                               !.next = base + 2, !.states = @ \o StateUnlessTerminal(ended)]]

NextCase(fc, local, isLast) == CaseAfter(EndBlock(fc), local, isLast)

EndSwitch(fc, local) == JoinBranch(EndBlock(fc), local.states, <<>>, local.after)

\* ScopeBlock with a label
StartScopeBlock(fc) ==
  LET base == Len(fc.code)
  IN  [fc |-> StartBlock(AddLoopFrame(NewBlock(fc), base + 1, NoBlock)),
       local |-> [kind |-> "block", base |-> base]]

EndScopeBlock(fc, local) ==
  JoinBranch(PopLoopFrame(EndBlock(fc)), Last(fc.loops).breaks, <<>>, local.base + 1)

\* The elements of the block use the storage of the variable.
BindWith(r, vt, isReference) ==
  LET reference == Fresh(r.fc, "ref", r.v.type, vt)
      checked == Error(Added(r.fc, reference),
                       "ExpectedMutableReferenceOrImmediateValue", isReference /\ r.v.vt = "Imut" /\ vt = "Mut")
  IN  IF Failed(r.fc) THEN checked
      ELSE RegisterTemporaryVariable(
             DestroyUnusedTemporaryVariables(
               IF isReference THEN BindReference(checked, reference, r.v)
               ELSE NewVariable(checked, Len(r.fc.storages), reference, r.v)),
             reference)

StartWith(fc, vt, isReference, e) ==
  [fc |-> BindWith(Build(PushStorage(fc), e), vt, isReference), local |-> [kind |-> "with"]]

EndWith(fc) == EndBlock(fc)

HaltIf(fc, e) ==
  LET base == Len(fc.code)
  IN  SetInsertPoint(Emit(SetInsertPoint(CondBr(Condition(NewBlock(NewBlock(fc)), e), base + 1, base + 2), base + 1),
                          <<"halt">>),
                     base + 2)

\* --------------------------------------------------------------------------
\* The function: its parameters and its end

\* args_nodes: the variable of a parameter of function f, and what its references refer to
ParamNode(f, reference) ==
  IF reference[2] = Itself THEN Create(<<"param", reference[1]>>, f.params[reference[1]].type, "Value")
  ELSE Create(<<"accessible", reference[1], reference[2]>>, "void", "Value")

\* A parameter of BuildFuncCode; its name is mutable unless it is an immutable reference
AddParam(fc, i) ==
  LET param == fc.f.params[i]
      variable == ParamNode(fc.f, <<i, Itself>>)
      reference == Fresh(fc, "ref", param.type, IF param.vt = "Imut" THEN "Imut" ELSE "Mut")
      AddTag(g, t) == AddLink(AddNode(g, ParamNode(fc.f, <<i, t>>)), ParamNode(fc.f, <<i, t>>), Inner(variable)[t])
      tagged == FoldLeft(AddTag, AddNode(fc.g, variable), variable.tags)
      fc1 == Added(WithGraph(fc, tagged), reference)
      linked == FoldLeft(LAMBDA g, t : AddLink(g, Inner(variable)[t], Inner(reference)[t]),
                         AddLink(fc1.g, variable, reference), variable.tags)
      owned == IF param.vt = "Value" THEN RegisterTemporaryVariable(fc1, variable) ELSE fc1
  IN  Emit(RegisterTemporaryVariable(WithGraph(owned, linked), reference), <<"ref", reference, variable>>)

StartFunction(f) ==
  FoldLeft(AddParam,
           [f |-> f, g |-> EmptyGraph, storages |-> <<<<>>>>, loops |-> <<>>, code |-> <<<<>>>>, cur |-> 1, fresh |-> 1],
           [i \in DOMAIN f.params |-> i])

\* Mutant: a reference with several origins is allowed if one of them is.
CheckSomeReturnedReferenceIsAllowed(f, g, n, allowed) ==
  Report(g, "ReturningUnallowedReference",
         GetAllAccessibleVariableNodes(g, n) \cap {ParamNode(f, p) : p \in allowed} = {})

CheckReturnedReferenceIsAllowed(f, g, n, allowed) ==
  Report(g, "ReturningUnallowedReference",
         ~(GetAllAccessibleVariableNodes(g, n) \subseteq {ParamNode(f, p) : p \in allowed}))

CheckReturnedInnerReferenceIsAllowed(f, g, n) ==
  FoldLeft(LAMBDA h, i : CheckReturnedReferenceIsAllowed(f, h, Inner(n)[i], f.return_inner_references[i]),
           g, [i \in DOMAIN n.tags |-> i])

\* What an inner reference of a reference parameter may come from
CheckReferencesPollutionBeforeReturn(fc) ==
  LET params == {i \in DOMAIN fc.f.params : fc.f.params[i].vt # "Value"}
      allowed(i, t) == {ParamNode(fc.f, <<i, t>>)} \cup
                       {ParamNode(fc.f, p.src) : p \in {p \in fc.f.references_pollution : p.dst = <<i, t>>}}
  IN  Error(fc, "UnallowedReferencePollution",
            \E i \in params : LET n == ParamNode(fc.f, <<i, Itself>>) IN
              \E t \in DOMAIN n.tags :
                ~(GetAllAccessibleVariableNodes(fc.g, Inner(n)[t]) \subseteq allowed(i, t)))

BuildEmptyReturn(fc) ==
  LET fc1 == Error(fc, "TypesMismatch", fc.f.type # "void")
  IN  SetInsertPoint(Emit(CheckReferencesPollutionBeforeReturn(CallDestructorsBeforeReturn(fc1)), <<"return">>), NoBlock)

\* The value or the reference "v" becomes the result "node"
ReturnByValue(fc, node, v) ==
  LET checked == Error(fc, "ReferenceProtectionError", HasOutgoingMutableNodes(fc.g, v))
      allowed == WithGraph(checked, CheckReturnedInnerReferenceIsAllowed(fc.f, checked.g, v))
  IN  MoveOrCopy(InnerLinking(allowed, v, node), node, v)

ReturnByReference(fc, node, v) ==
  LET checked == Error(Error(fc, "ExpectedReferenceValue", v.vt = "Value"),
                       "ExpectedMutableReference", v.vt # "Mut" /\ fc.f.vt = "Mut")
      allowed == CheckReturnedInnerReferenceIsAllowed(
                   fc.f, CheckReturnedReferenceIsAllowed(fc.f, checked.g, v, fc.f.return_references), v)
  IN  Emit(InnerLinking(TryLinking(WithGraph(checked, allowed), v, node), v, node), <<"ref", node, v>>)

\* ReturnOperator of an expression
LeaveFunction(fc) == CheckReferencesPollutionBeforeReturn(CallDestructorsBeforeReturn(fc))

ReturnTyped(fc, node, v) ==
  IF Failed(fc) THEN fc
  ELSE SetInsertPoint(
         Emit(PopStorage(Removing(LeaveFunction(IF fc.f.vt = "Value" THEN ReturnByValue(fc, node, v)
                                                ELSE ReturnByReference(fc, node, v)),
                                  node)),
              <<"return", node>>),
         NoBlock)

ReturnBuilt(r) ==
  LET node == Fresh(r.fc, "return", r.fc.f.type, r.fc.f.vt)
  IN  ReturnTyped(Error(Added(r.fc, node), "TypesMismatch", r.v.type # r.fc.f.type), node, r.v)

ReturnOperator(fc, e) ==
  ReturnBuilt(IF fc.f.vt = "Value" /\ e.op = "name" THEN BuildForValueReturn(PushStorage(fc), e.n)
              ELSE Build(PushStorage(fc), e))
================================================================================
