---------------------------- MODULE Overloading ----------------------------
(***************************************************************************)
(* Overloaded functions: which declarations may share a name, which of them *)
(* a call's arguments match (with conversions and template arguments        *)
(* deduced) and which one is selected.                                      *)
(*                                                                         *)
(* A function is [params: <<[type, ref]>>, template, tparams, known,        *)
(* condition, this_call, constructor, conversion].  The types of a          *)
(* template's parameters are syntax (see Templates); ref is "value", "imut" *)
(* or "mut" for a value, an immutable or a mutable reference.  An argument  *)
(* is [type, ref] too.                                                      *)
(***************************************************************************)
EXTENDS Templates, FiniteSets

CONSTANTS
    Families,      \* the name of a family |-> [declarations: the functions that may
                   \*  share a name, in order, calls: the calls [args, this, targs]
                   \*  of it; this: whether the first argument is this, targs: the
                   \*  template arguments given]
    Parents,       \* the name of a class |-> the names of its parents
    Constructors,  \* the name of a class |-> its constructors
    MaxFunctions   \* how many functions are declared at most

VARIABLES
    family,         \* the family of declarations
    functions_set,  \* the positions of the functions accepted so far
    declared,       \* the position of the last declaration
    request         \* the call made of the set: {} or {call}

overloadingVars == <<family, functions_set, declared, request>>

GetArgOverloadingClass(param) == IF param.ref = "mut" THEN "mutable" ELSE "immutable"

RECURSIVE ReferenceIsConvertibleTo(_, _)
ReferenceIsConvertibleTo(from, to) ==
    \/ from = to
    \/ /\ from.kind = "named" /\ to.kind = "named"
       /\ from.name \in DOMAIN Parents
       /\ \E parent \in Parents[from.name] :
             ReferenceIsConvertibleTo(Term("named", parent, <<>>, <<>>), to)

\* The second branch of each pair of references: of two bases the derived one.
CompareConversionsTypes(src, left, right) ==
    LET toLeft == ReferenceIsConvertibleTo(src, left)
        toRight == ReferenceIsConvertibleTo(src, right)
    IN  IF left = right THEN "same"
        ELSE IF src = left THEN "left"
        ELSE IF src = right THEN "right"
        ELSE IF toLeft /\ toRight
             THEN IF ReferenceIsConvertibleTo(right, left) THEN "right"
                  ELSE IF ReferenceIsConvertibleTo(left, right) THEN "left"
                  ELSE "incomparable"
        ELSE IF toLeft THEN "left"
        ELSE IF toRight THEN "right"
        ELSE "incomparable"

CompareConversionsMutability(left, right) ==
    IF GetArgOverloadingClass(left) = GetArgOverloadingClass(right) THEN "same"
    ELSE IF GetArgOverloadingClass(left) = "mutable" THEN "left"
    ELSE "right"

\* The type, the mutability, and for two equal parameters the template.
CompareConversions(src, left, right, leftParam, rightParam) ==
    LET compare == CombineResults({CompareConversionsTypes(src.type, left.type, right.type),
                                   CompareConversionsMutability(left, right)})
    IN  IF compare # "same" THEN compare
        ELSE TemplateSpecializationCompare(leftParam, rightParam)

\* ApplyOverloadedFunction: a function of as many parameters, all of the same
\* type and overloading class, is an error.
CouldNotOverload(functions, function) ==
    \E other \in functions :
        /\ ~other.template
        /\ Len(other.params) = Len(function.params)
        /\ \A n \in DOMAIN function.params :
              /\ function.params[n].type = other.params[n].type
              /\ GetArgOverloadingClass(function.params[n])
                     = GetArgOverloadingClass(other.params[n])

-----------------------------------------------------------------------------
(* Matching.  An item is [function, scope], scope the template arguments.   *)

\* The arguments without this, for a static function called through this.
ArgsFor(function, args, this) ==
    IF this /\ ~function.this_call THEN Tail(args) ELSE args

IsCopyConstructor(function) ==
    /\ function.constructor
    /\ Len(function.params) = 2
    /\ function.params[2] = [type |-> function.params[1].type, ref |-> "imut"]

RECURSIVE HasConversionConstructor(_, _)

\* The part of FetchMatchedOverloadedFunctions for one function that is no
\* template; convert is enable_type_conversions.
FunctionMatches(function, actual_args, this, convert) ==
    LET args == ArgsFor(function, actual_args, this)
    IN  /\ Len(function.params) = Len(args)
        /\ \A n \in DOMAIN args :
              LET param == function.params[n]
              IN  /\ \/ ReferenceIsConvertibleTo(args[n].type, param.type)
                     \/ /\ GetArgOverloadingClass(param) = "immutable"
                        /\ ~function.conversion
                        /\ ~IsCopyConstructor(function)
                        /\ convert /\ HasConversionConstructor(args[n], param.type)
                  /\ GetArgOverloadingClass(param) = "mutable"
                         => GetArgOverloadingClass(args[n]) = "mutable"

\* FillKnownFunctionTemplateArgsIntoNamespace.
KnownScope(function) ==
    [p \in ParamNames(function.tparams) |->
        UNION {{function.known[n]} :
            n \in {k \in DOMAIN function.known : function.tparams[k].name = p}}]

FunctionSignatureParam(function, n) ==
    Build("CreateTemplateSignatureParameter", <<function.tparams, function.params[n].type>>)

\* PrepareTemplateFunction: the scope of deduced arguments, {} for no match.  A
\* known type, and a parameter whose type is deduced already, convert instead.
\* The argument this is dropped only if the template has parameters.
PrepareTemplateFunction(function, actual_args, this, convert) ==
    LET args == IF this /\ function.params # <<>> /\ ~function.this_call
                THEN Tail(actual_args) ELSE actual_args
        Converts(n, type) == \/ ReferenceIsConvertibleTo(args[n].type, type)
                             \/ /\ function.params[n].ref # "mut"
                                /\ convert /\ HasConversionConstructor(args[n], type)
        after[n \in 0..Len(function.params)] ==
            IF n = 0 THEN {KnownScope(function)}
            ELSE LET specially(param, scope) ==
                         \/ param.kind = "type" /\ Converts(n, param.parts[1])
                         \/ /\ param.kind = "param"
                            /\ \E t \in scope[param.name] :
                                  IsTypeArg(t) /\ Converts(n, t)
                 IN  IF function.params[n].ref = "mut" /\ args[n].ref # "mut" THEN {}
                     ELSE UNION {IF specially(param, s) THEN {s}
                                 ELSE Build("MatchTemplateArg", <<function.tparams, s,
                                                                  args[n].type, param>>) :
                                 s \in after[n - 1],
                                 param \in {FunctionSignatureParam(function, n)}}
    IN  IF Len(args) # Len(function.params) THEN {}
        ELSE {s \in after[Len(function.params)] :
                 \A c \in function.condition : s[c.name] = {c.type}}

FetchMatchedOverloadedFunctions(functions, args, this, convert) ==
    {[function |-> f, scope |-> [p \in {} |-> {}]] :
        f \in {g \in functions : ~g.template /\ FunctionMatches(g, args, this, convert)}}
    \cup UNION {{[function |-> f, scope |-> s] :
                    s \in PrepareTemplateFunction(f, args, this, convert)} :
                f \in {g \in functions : g.template}}

\* The constructors of a class as the set of functions of one argument besides
\* the object; type conversions are not nested.
MatchedConstructors(arg, type) ==
    IF type.kind # "named" \/ type.name \notin DOMAIN Constructors THEN {}
    ELSE FetchMatchedOverloadedFunctions(
             Constructors[type.name], <<[type |-> type, ref |-> "mut"], arg>>,
             FALSE, FALSE)

HasConversionConstructor(arg, type) ==
    \E item \in MatchedConstructors(arg, type) : item.function.conversion

-----------------------------------------------------------------------------
(* Selection.                                                               *)

\* The parameter of an item for an argument: this counts as the first one.
ParamNumber(item, arg, this) ==
    IF this /\ ~item.function.this_call THEN arg - 1 ELSE arg

\* The parameter's type with the deduced arguments put in.
GetParamExtendedType(item, n) ==
    LET param == item.function.params[n]
        type == Build("PrepareType", <<item.scope, param.type>>)
    IN  IF ~item.function.template THEN param
        ELSE [param EXCEPT !.type = IF type = {} THEN Term("named", "invalid", <<>>, <<>>)
                                    ELSE CHOOSE t \in type : TRUE]

GetTemplateSignatureParam(item, n) ==
    IF item.function.template THEN FunctionSignatureParam(item.function, n)
    ELSE TypeParam(Term("named", "invalid", <<>>, <<>>))

CompareItems(args, this, arg, left, right) ==
    LET l == ParamNumber(left, arg, this)
        r == ParamNumber(right, arg, this)
    IN  CompareConversions(args[arg],
            GetParamExtendedType(left, l), GetParamExtendedType(right, r),
            GetTemplateSignatureParam(left, l), GetTemplateSignatureParam(right, r))

SelectOverloadedFunction(args, this, matched) ==
    LET takers(arg) == {item \in matched : ParamNumber(item, arg, this) > 0}
    IN  SelectBest(matched,
            [arg \in DOMAIN args |-> [left, right \in takers(arg) |->
                CompareItems(args, this, arg, left, right)]])

\* FinishTemplateFunctionGeneration fails for an argument not deduced.
FinalizeSelectedFunction(item) == \A p \in DOMAIN item.scope : item.scope[p] # {}

GetOverloadedFunction(args, this, matched) ==
    {item \in SelectOverloadedFunction(args, this, matched) : FinalizeSelectedFunction(item)}

\* ParameterizeFunctionTemplate: the templates that take the arguments, with
\* the ones known from them; those after the first unknown one are not kept.
ParameterizeFunctionTemplate(functions, args) ==
    LET Taking(f) ==
            IF ~f.template \/ Len(f.tparams) < Len(args) THEN {}
            ELSE MatchTemplateArgs(f.tparams, NotDeduced(f.tparams), args,
                     [n \in DOMAIN args |->
                         Term("param", f.tparams[n].name, <<f.tparams[n].kind>>, <<>>)])
        KnownCount(f, s) ==
            CHOOSE n \in 0..Len(f.tparams) :
                /\ \A k \in 1..n : s[f.tparams[k].name] # {}
                /\ n < Len(f.tparams) => s[f.tparams[n + 1].name] = {}
    IN  UNION {{[f EXCEPT !.known = [n \in 1..KnownCount(f, s) |->
                                        CHOOSE a \in s[f.tparams[n].name] : TRUE]] :
                   s \in Taking(f)} : f \in functions}

-----------------------------------------------------------------------------

Functions == {Families[family].declarations[n] : n \in functions_set}

Init ==
    /\ family \in DOMAIN Families
    /\ functions_set = {}
    /\ declared = 0
    /\ request = {}

\* A declaration is added to the set or reported; templates are always added.
Declare ==
    /\ request = {}
    /\ Cardinality(functions_set) < MaxFunctions
    /\ \E n \in declared + 1..Len(Families[family].declarations) :
          LET function == Families[family].declarations[n]
          IN  /\ declared' = n
              /\ functions_set' = IF /\ ~function.template
                                     /\ CouldNotOverload(Functions, function)
                                  THEN functions_set
                                  ELSE functions_set \cup {n}
    /\ UNCHANGED <<family, request>>

Call ==
    /\ request = {}
    /\ functions_set # {}
    /\ \E call \in Families[family].calls : request' = {call}
    /\ UNCHANGED <<family, functions_set, declared>>

Next == Declare \/ Call

Spec == Init /\ [][Next]_overloadingVars

-----------------------------------------------------------------------------
(* Properties.                                                              *)

\* The functions of the call: those of the name, or the templates of the name
\* given template arguments.
Called(call) == IF call.targs = <<>> THEN Functions
                ELSE ParameterizeFunctionTemplate(Functions, call.targs)

Matched(call) ==
    FetchMatchedOverloadedFunctions(Called(call), call.args, call.this, TRUE)

\* An argument of a call can be passed to the parameter of a matched function:
\* with the template arguments deduced from all of them put in, the
\* parameter's type is the argument's, a base of it, or is converted to; and a
\* mutable reference is given something mutable.  Template arguments that were
\* given are not deduced to something else.
MatchedAreCallable ==
    \A call \in request : \A item \in Matched(call) :
        LET args == ArgsFor(item.function, call.args, call.this)
        IN  FinalizeSelectedFunction(item) =>
            /\ \A n \in DOMAIN call.targs :
                  item.scope[item.function.tparams[n].name] = {call.targs[n]}
            /\ \A n \in DOMAIN args :
                    LET param == GetParamExtendedType(item, n)
                    IN  /\ \/ ReferenceIsConvertibleTo(args[n].type, param.type)
                           \/ /\ param.ref # "mut"
                              /\ HasConversionConstructor(args[n], param.type)
                        /\ param.ref = "mut" => args[n].ref = "mut"

\* Of the functions that match, none is at least as good as the selected one
\* for every argument and better for some: an argument for which no function is
\* best may not let a dominated one win.  And the selected one is better than
\* each other one for some argument (of two methods or two static functions: a
\* static function has nothing to compare with this).
SelectedIsBest ==
    \A call \in request : \A matched \in {Matched(call)} :
        \A selected \in GetOverloadedFunction(call.args, call.this, matched) :
            \A other \in matched \ {selected} :
                LET Results(left, right) ==
                        {CompareItems(call.args, call.this, arg, left, right) :
                            arg \in {a \in DOMAIN call.args :
                                        /\ ParamNumber(left, a, call.this) > 0
                                        /\ ParamNumber(right, a, call.this) > 0}}
                IN  /\ \A results \in {Results(other, selected)} :
                          ~("left" \in results /\ results \subseteq {"same", "left"})
                    /\ (~call.this \/ selected.function.this_call = other.function.this_call)
                           => "left" \in Results(selected, other)

\* The types that occur as arguments of the family's calls.
ArgumentTypes == UNION {{call.args[n].type : n \in DOMAIN call.args} :
                        call \in Families[family].calls}

\* No template parameter occurs twice: then matching is about each part alone.
RECURSIVE Occurrences(_, _)
Occurrences(name, syntax) ==
    (IF syntax.name = name THEN 1 ELSE 0)
    + Cardinality({n \in DOMAIN syntax.parts : Occurrences(name, syntax.parts[n]) > 0})
    + Cardinality({n \in DOMAIN syntax.parts : Occurrences(name, syntax.parts[n]) > 1})

Linear(params, syntax) == \A p \in ParamNames(params) : Occurrences(p, syntax) <= 1

MatchedBy(params, param) ==
    {type \in ArgumentTypes : Build("MatchTemplateArg", <<params, NotDeduced(params), type, param>>) # {}}

\* What is compared as more specialized matches no type that the less
\* specialized does not match, and what is compared as the same matches the
\* same types, for templates that match some type in common.
MoreSpecializedIsNarrower ==
    \A f, g \in {h \in Functions : h.template /\ Len(h.params) = 1} :
        \A left \in {FunctionSignatureParam(f, 1)}, right \in {FunctionSignatureParam(g, 1)} :
            \A byLeft \in {MatchedBy(f.tparams, left)}, byRight \in {MatchedBy(g.tparams, right)},
               result \in {TemplateSpecializationCompare(left, right)} :
                byLeft \cap byRight # {} =>
                    /\ result = "left" /\ Linear(g.tparams, g.params[1].type)
                           => byLeft \subseteq byRight
                    /\ result = "same" /\ Linear(f.tparams, f.params[1].type)
                                       /\ Linear(g.tparams, g.params[1].type)
                           => byLeft = byRight

\* A type template declared without errors and chosen for an argument is the
\* narrowest one: no other template of the set that matches the argument
\* matches less.
NarrowestTypeTemplate ==
    \A name \in DOMAIN TypeTemplates : \A type \in ArgumentTypes :
        LET templates == TypeTemplates[name]
            Matches(n) == {t \in ArgumentTypes :
                              Build("PrepareTemplateType", <<templates[n], <<t>>>>) # {}}
        IN  (\A n \in DOMAIN templates :
                DeclarationErrors(SubSeq(templates, 1, n - 1), templates[n]) = {}) =>
            \A chosen \in Build("SelectTemplateType", <<templates, <<type>>>>) :
                \A other \in {n \in DOMAIN templates : type \in Matches(n)} :
                    ~(Matches(other) \subseteq Matches(chosen)
                          /\ Matches(other) # Matches(chosen))

\* A call of an overloaded name is resolved to a function that takes its
\* arguments, and to the best and most specialized of those that do.
OverloadingSound ==
    /\ MatchedAreCallable
    /\ SelectedIsBest
    /\ request = {} => MoreSpecializedIsNarrower
    /\ functions_set = {} => NarrowestTypeTemplate
=============================================================================
