------------------------------- MODULE Lifetimes -------------------------------
(***************************************************************************)
(* A function is written, compiled and run.  The programmer adds one block *)
(* element after another, whichever the code builder accepts; once the     *)
(* function is complete its code runs, whichever way its conditions go.    *)
(* What the language promises of an accepted program must hold of the run. *)
(***************************************************************************)
EXTENDS Execution

CONSTANT Vocabularies   \* what programs are made of, records with
                        \*   f: the type of the function, as in Functions
                        \*   elements, types, calls, conditions: the block elements, types and
                        \*     functions it uses, and the functions its conditions call
                        \*   nested: functions called in arguments of calls
                        \*   max: bound on the number of block elements

VARIABLES
  words,   \* the vocabulary of this program
  fc,      \* the function context
  open,    \* the elements whose blocks are being built, with their local variables
  left,    \* how many elements the program may still get
  phase,   \* "build", "run" or "done"
  block,   \* the basic block to run
  m        \* the state of the run

vars == <<words, fc, open, left, phase, block, m>>

Init ==
  /\ words \in Vocabularies
  /\ fc = StartFunction(words.f)
  /\ open = <<>>
  /\ left = words.max
  /\ phase = "build"
  /\ block = NoBlock
  /\ m = StartMachine(words.f)

\* --------------------------------------------------------------------------
\* Expressions of the program

Names(type) == {n \in UNION {Range(s) : s \in Range(fc.storages)} : n.id[1] = "ref" /\ n.type = type}

Name(n) == [op |-> "name", n |-> n]

\* Names of a type, members of named structures, what named holders refer to
Places(type) ==
  {Name(n) : n \in Names(type)} \cup
  UNION {{[op |-> "field", of |-> Name(n), field |-> f] : n \in Names(t)} :
           <<t, f>> \in {<<t, f>> \in words.types \X {"a", "b"} :
                           f \in DOMAIN FieldTypes[t] /\ FieldTypes[t][f] = type}} \cup
  UNION {{[op |-> "deref", of |-> Name(n)] : n \in Names(t)} :
           t \in {t \in words.types : type = Referenced /\ TagKinds[t] # <<>>}}

Moves(type) ==
  {[op |-> "move", n |-> n] : n \in Names(type)} \cup
  (IF "take" \in words.elements THEN {[op |-> "take", of |-> p] : p \in Places(type)} ELSE {})

\* One of two expressions, chosen by a condition without arguments
Ternaries(element, branches) ==
  IF element \notin words.elements THEN {}
  ELSE {[op |-> "ternary", of |-> [op |-> "call", f |-> c, args |-> <<>>], branches |-> b] :
          c \in {c \in words.conditions : Functions[c].params = <<>>},
          b \in {b \in branches \X branches : b[1] # b[2]}}

WithTernaries(element, expressions) == expressions \cup Ternaries(element, expressions)

\* Calls of the named functions; "results" are calls that may be arguments
CallsWith(names, results) ==
  LET Args(param) ==
        {e \in results : Functions[e.f].type = param.type} \cup
        (IF param.vt # "Value" \/ param.type \in Copyable THEN WithTernaries("ternary reference", Places(param.type)) ELSE {}) \cup
        (IF param.vt = "Value" THEN WithTernaries("ternary value", Moves(param.type)) ELSE {})
      ArgLists(params) ==
        FoldLeft(LAMBDA lists, param : {Append(args, e) : args \in lists, e \in Args(param)}, {<<>>}, params)
  IN  UNION {{[op |-> "call", f |-> name, args |-> args] : args \in ArgLists(Functions[name].params)} : name \in names}

Calls(names) == CallsWith(names, CallsWith(words.nested, {}))

ValuesOf(type) ==
  WithTernaries("ternary value",
    Moves(type) \cup Calls({f \in words.calls : Functions[f].type = type /\ Functions[f].vt = "Value"}))
ReferencesTo(type) ==
  WithTernaries("ternary reference", Places(type)) \cup
  Calls({f \in words.calls : Functions[f].type = type /\ Functions[f].vt # "Value"})

WithLazy(expressions) ==
  expressions \cup
  {[op |-> "lazy", left |-> p[1], right |-> p[2]] : p \in {p \in expressions \X expressions : "lazy" \in words.elements}}

Conditions == WithLazy(Calls(words.conditions))

\* --------------------------------------------------------------------------
\* Building

\* A program with an error is not compiled any further.
Accept(next) == next.g.errors = {} /\ fc' = next

CanAdd(element) == phase = "build" /\ ~Terminal(fc) /\ left > 0 /\ element \in words.elements

Add(next) == Accept(next) /\ left' = left - 1 /\ UNCHANGED <<words, open, phase, block, m>>

Open(started) ==
  /\ Accept(started.fc)
  /\ open' = Append(open, started.local)
  /\ left' = left - 1
  /\ UNCHANGED <<words, phase, block, m>>

CanClose(kind) == phase = "build" /\ open # <<>> /\ Last(open).kind = kind

Close(next) == Accept(next) /\ open' = Front(open) /\ UNCHANGED <<words, left, phase, block, m>>

DeclareVariable ==
  /\ CanAdd("variable")
  /\ \E type \in words.types :
       \E init \in {i \in {[op |-> "empty"]} : TagKinds[type] = <<>>} \cup
                   (IF TagKinds[type] = <<>> THEN {} ELSE {[op |-> "holder", of |-> e] : e \in ReferencesTo(Referenced)}) \cup
                   (IF "initialize" \in words.elements THEN ValuesOf(type) \cup Places(type) ELSE {}) :
         Add(VariableDeclaration(fc, type, init))

DeclareAuto ==
  /\ CanAdd("auto")
  /\ \E type \in words.types : \E e \in ValuesOf(type) \cup {p \in Places(type) : type \in Copyable} :
       Add(AutoVariableDeclaration(fc, "Mut", FALSE, e))

DeclareReference ==
  /\ CanAdd("reference")
  /\ \E type \in words.types : \E e \in ReferencesTo(type), vt \in {"Mut", "Imut"} :
       Add(AutoVariableDeclaration(fc, vt, TRUE, e))

Decompose ==
  /\ CanAdd("decompose")
  /\ \E type \in words.types : \E e \in ValuesOf(type), vt \in {"Mut", "Imut"} :
       \E fields \in SUBSET DOMAIN FieldTypes[type] :
         /\ fields # {} \/ TagKinds[type] # <<>>
         /\ Add(DecomposeDeclaration(fc, vt, SetToSeq(fields), e))

CallStatement == CanAdd("call") /\ \E e \in Calls(words.calls) : Add(SingleExpression(fc, e))

Assign ==
  /\ CanAdd("assign")
  /\ \E type \in words.types : \E place \in WithTernaries("ternary reference", Places(type)), e \in ValuesOf(type) :
       Add(MoveAssignment(fc, place, e))

Halt == CanAdd("halt") /\ \E e \in Conditions : Add(HaltIf(fc, e))

Break ==
  /\ CanAdd("jump")
  /\ \E frame \in DOMAIN fc.loops :
       /\ frame = InnermostLoop(fc) \/ "label" \in words.elements
       /\ Add(BreakOperator(fc, frame))

Continue ==
  /\ CanAdd("jump")
  /\ \E frame \in DOMAIN fc.loops :
       /\ fc.loops[frame].continue # NoBlock
       /\ frame = InnermostLoop(fc) \/ "label" \in words.elements
       /\ Add(ContinueOperator(fc, frame))

ReturnNothing == CanAdd("return") /\ fc.f.type = "void" /\ Add(BuildEmptyReturn(fc))

ReturnSomething ==
  /\ CanAdd("return")
  /\ fc.f.type # "void"
  /\ \E e \in IF fc.f.vt = "Value" THEN ValuesOf(fc.f.type) \cup Places(fc.f.type) ELSE ReferencesTo(fc.f.type) :
       Add(ReturnOperator(fc, e))

OpenIf == CanAdd("if") /\ \E e \in Conditions : Open(StartIf(fc, e))
OpenWhile == CanAdd("while") /\ \E e \in Conditions : Open(StartWhile(fc, e))
OpenFor == CanAdd("for") /\ \E e \in Conditions, next \in Calls(words.calls) : Open(StartFor(fc, e, next))
OpenLoop == CanAdd("loop") /\ Open(StartLoop(fc))
OpenSwitch == CanAdd("switch") /\ \E e \in Conditions : Open(StartSwitch(fc, e))
OpenBlock == CanAdd("block") /\ Open(StartScopeBlock(fc))
OpenWith ==
  /\ CanAdd("with")
  /\ \E type \in words.types :
       \E e \in ValuesOf(type) \cup ReferencesTo(type), vt \in {"Mut", "Imut"}, isReference \in BOOLEAN :
         Open(StartWith(fc, vt, isReference, e))

CloseIf == CanClose("if") /\ Close(EndIf(fc, Last(open)))
CloseElse == CanClose("else") /\ Close(EndElse(fc, Last(open)))
CloseWhile == CanClose("while") /\ Close(EndWhile(fc, Last(open)))
CloseFor == CanClose("for") /\ Close(EndFor(fc, Last(open)))
CloseLoop == CanClose("loop") /\ Close(EndLoop(fc, Last(open)))
CloseSwitch == CanClose("last case") /\ Close(EndSwitch(fc, Last(open)))
CloseBlock == CanClose("block") /\ Close(EndScopeBlock(fc, Last(open)))
CloseWith == CanClose("with") /\ Close(EndWith(fc))

\* The next block of the same element
Proceed(started) ==
  /\ Accept(started.fc)
  /\ open' = Append(Front(open), started.local)
  /\ UNCHANGED <<words, phase, block, m>>

Else == CanClose("if") /\ "else" \in words.elements /\ Proceed(StartElse(fc, Last(open))) /\ UNCHANGED left
AddCase == CanClose("switch") /\ left > 0 /\ Proceed(NextCase(fc, Last(open), FALSE)) /\ left' = left - 1
LastCase == CanClose("switch") /\ Proceed(NextCase(fc, Last(open), TRUE)) /\ UNCHANGED left

\* The end of the body; without a "return" there, nothing is returned.
EndFunction ==
  /\ phase = "build" /\ open = <<>>
  /\ Accept(LET ended == IF Terminal(fc) THEN fc ELSE BuildEmptyReturn(fc) IN
            [ended EXCEPT !.storages = <<>>, !.fresh = 0, !.g.nodes = <<>>, !.g.links = {}])
  /\ phase' = "run"
  /\ block' = 1
  /\ left' = 0
  /\ UNCHANGED <<words, open, m>>

Build_ ==
  \/ DeclareVariable \/ DeclareAuto \/ DeclareReference \/ Decompose \/ CallStatement \/ Assign \/ Halt
  \/ Break \/ Continue \/ ReturnNothing \/ ReturnSomething
  \/ OpenIf \/ OpenWhile \/ OpenFor \/ OpenLoop \/ OpenSwitch \/ OpenBlock \/ OpenWith
  \/ Else \/ AddCase \/ LastCase
  \/ CloseIf \/ CloseElse \/ CloseWhile \/ CloseFor \/ CloseLoop \/ CloseSwitch \/ CloseBlock \/ CloseWith
  \/ EndFunction

\* --------------------------------------------------------------------------
\* Running

RunBlock ==
  /\ phase = "run"
  /\ \E k \in ExecuteBlock(m, fc.code[block]) :
       LET last == Last(fc.code[block])
           stops == k.bad # {} \/ last[1] # "br"
       IN  /\ m' = IF last[1] = "return" /\ k.bad = {} THEN Return(words.f, k, last) ELSE k
           /\ phase' = IF stops THEN "done" ELSE "run"
           /\ block' \in IF stops THEN {NoBlock} ELSE last[2]
  /\ UNCHANGED <<words, fc, open, left>>

Next == Build_ \/ RunBlock

Spec == Init /\ [][Next]_vars

\* --------------------------------------------------------------------------
\* Properties

\* No reference to an object that is not there is used by the code of an
\* accepted function: not after a move, not after the end of a scope, not on
\* any way through its loops and jumps.
NoDanglingUse == "dangling" \notin m.bad

\* Every object of an accepted function is destroyed exactly once, or moved
\* away: on every way out of every block nothing is destroyed that is moved or
\* destroyed already, and nothing remains.
DestroyedOnce == m.bad \cap {"double", "leak"} = {}

\* While a mutable reference is in use, nothing else reads or writes what it
\* refers to, whether by name, through another reference, through a reference
\* stored in an object or in a function that is called.
ReferencesExclusive == "alias" \notin m.bad

\* A reference that leaves an accepted function, as its result, in its result
\* or in an object of the caller, is one that the type of the function names.
ReferenceNotationKept == "escape" \notin m.bad

\* The assertions in the references graph hold while accepted code is built.
AssertionsHold == ~fc.g.failed
================================================================================
