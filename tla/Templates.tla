----------------------------- MODULE Templates -----------------------------
(***************************************************************************)
(* Type templates: the signature parameters built from a declaration, the   *)
(* deduction of template arguments by matching, the order "more             *)
(* specialized" and the selection of one template of a set.                 *)
(*                                                                         *)
(* Everything is a term [kind, name, mods, parts]:                          *)
(*  - a type: "named" (fundamental, enum or class), "array" <<element,      *)
(*    count>>, "tuple", "pointer", "function" <<return, params...>>,        *)
(*    "coroutine" <<return>>, "instance" of the type template `name` with   *)
(*    its signature arguments.  The modifiers of functions and coroutines   *)
(*    (unsafe, calling convention, value types, tags) are mods;             *)
(*  - the other template arguments: "value" <<type>> and "template";        *)
(*  - the syntax of a type: the same, with "name" for a name to look up     *)
(*    and "parameterization" of the template set or parameter `name`;       *)
(*  - a signature parameter: "type" or "variable" <<the argument>>,         *)
(*    "type_template", "param", a structure as above, or "specialized"      *)
(*    <<base, params...>> whose base is a "param", a "type_template", or    *)
(*    the overloaded "template_set" `name`.                                 *)
(***************************************************************************)
EXTENDS Integers, Sequences

CONSTANTS
    TypeTemplates  \* the name of a set |-> the sequence of its templates

Term(kind, name, mods, parts) ==
    [kind |-> kind, name |-> name, mods |-> mods, parts |-> parts]

WithParts(term, parts) == [term EXCEPT !.parts = parts]

Structures == {"array", "tuple", "pointer", "function", "coroutine"}

\* A template: [id, params: <<[name, kind, type: {} or {syntax}]>>,
\*              signature: <<syntax>>, defaults: <<{} or {syntax}>>,
\*              alias: {} or {syntax}, short: BOOLEAN]
AllTemplates == UNION {{TypeTemplates[s][n] : n \in DOMAIN TypeTemplates[s]} :
                       s \in DOMAIN TypeTemplates}

TemplateOf(id) == CHOOSE t \in AllTemplates : t.id = id

ParamNames(params) == {params[n].name : n \in DOMAIN params}

ParamOf(params, name) ==
    params[CHOOSE n \in DOMAIN params : params[n].name = name]

-----------------------------------------------------------------------------
(* Signature parameters.                                                    *)

IsKnown(param) == param.kind \in {"type", "variable"}

TypeParam(t) == Term("type", "", <<>>, <<t>>)

VariableParam(v) == Term("variable", "", <<>>, <<v>>)

\* A parameter of the alias is replaced by what was given for it; nothing else
\* of the body changes, and a structure whose parts become known stays one.
RECURSIVE MapTemplateParamsToSignatureParams(_, _)
MapTemplateParamsToSignatureParams(mapping, param) ==
    IF param.kind = "param" THEN mapping[param.name]
    ELSE IF param.kind \in {"type", "variable", "type_template", "template_set"}
         THEN param
    ELSE WithParts(param, [n \in DOMAIN param.parts |->
             MapTemplateParamsToSignatureParams(mapping, param.parts[n])])

\* The matching of a single alias template with the given signature
\* parameters: [ok, mapping].  A comparison with a known parameter assigns the
\* flag, so that it forgets an earlier mismatch.
MatchAliasParams(alias, signature, given) ==
    LET after[n \in 0..Len(given)] ==
            IF n = 0
            THEN [ok |-> TRUE,
                  mapping |-> [p \in ParamNames(alias.params) |-> {}]]
            ELSE LET before == after[n - 1]
                     dst == signature[n]
                 IN  IF dst.kind = "param"
                     THEN IF before.mapping[dst.name] = {}
                          THEN [before EXCEPT !.mapping[dst.name] = {given[n]}]
                          ELSE [before EXCEPT
                                   !.ok = @ /\ before.mapping[dst.name] = {given[n]}]
                     ELSE [before EXCEPT
                              !.ok = /\ dst.kind \in {"type", "variable", "type_template"}
                                     /\ given[n] = dst]
        last == after[Len(given)]
    IN  [last EXCEPT !.ok = @ /\ \A p \in DOMAIN last.mapping : last.mapping[p] # {}]

\* ResolveValue of a name and ValueToTemplateParam: a template set with more
\* than one template is an error, here the type "invalid".
ValueToTemplateParam(syntax) ==
    IF syntax.kind = "value" THEN VariableParam(syntax)
    ELSE IF syntax.name \in DOMAIN TypeTemplates
         THEN IF Len(TypeTemplates[syntax.name]) = 1
              THEN Term("type_template", TypeTemplates[syntax.name][1].id, <<>>, <<>>)
              ELSE TypeParam(Term("named", "invalid", <<>>, <<>>))
    ELSE TypeParam(Term("named", syntax.name, <<>>, <<>>))


\* The operations below call each other, through this operator: an operation and
\* its arguments.
RECURSIVE Build(_, _)

NotDeduced(params) == [p \in ParamNames(params) |-> {}]

SignatureParams(template) ==
    [n \in DOMAIN template.signature |->
        Build("CreateTemplateSignatureParameter", <<template.params, template.signature[n]>>)]

\* A type all of whose parts are known is that type; an alias with trivial
\* parameters is expanded; another parameterization stays specialized.
CreateTemplateSignatureParameter(params, syntax) ==
    LET parts == [n \in DOMAIN syntax.parts |->
                     Build("CreateTemplateSignatureParameter", <<params, syntax.parts[n]>>)]
        allKnown == \A n \in DOMAIN parts : IsKnown(parts[n])
        known == Build("PrepareType", <<[p \in {} |-> {}], syntax>>)
        Known == TypeParam(IF known = {} THEN Term("named", "invalid", <<>>, <<>>)
                           ELSE CHOOSE t \in known : TRUE)
        specialized(base) == Term("specialized", "", <<>>, <<base>> \o parts)
    IN  CASE syntax.kind = "value" -> VariableParam(syntax)
          [] syntax.kind = "name" ->
                 IF syntax.name \in ParamNames(params)
                 THEN Term("param", syntax.name,
                           <<ParamOf(params, syntax.name).kind>>, <<>>)
                 ELSE ValueToTemplateParam(syntax)
          [] syntax.kind \in Structures ->
                 IF allKnown THEN Known ELSE WithParts(syntax, parts)
          [] syntax.kind = "parameterization" ->
                 IF syntax.name \in ParamNames(params)
                 THEN specialized(Term("param", syntax.name, <<"template">>, <<>>))
                 ELSE IF allKnown THEN Known
                 ELSE LET set == TypeTemplates[syntax.name]
                          single == set[1]
                          alias == IF /\ Len(set) = 1
                                      /\ single.alias # {}
                                      /\ Len(single.signature) = Len(parts)
                                   THEN MatchAliasParams(single, SignatureParams(single), parts)
                                   ELSE [ok |-> FALSE]
                      IN  IF alias.ok
                          THEN MapTemplateParamsToSignatureParams(
                                   [p \in DOMAIN alias.mapping |->
                                       CHOOSE param \in alias.mapping[p] : TRUE],
                                   Build("CreateTemplateSignatureParameter", <<
                                       single.params,
                                       CHOOSE body \in single.alias : TRUE>>))
                          ELSE IF Len(set) = 1
                               THEN specialized(Term("type_template", single.id, <<>>, <<>>))
                          ELSE specialized(Term("template_set", syntax.name, <<>>, <<>>))

\* PrepareType where the names of scope are the template arguments deduced so
\* far: the set of the type (or template argument), empty on an error.
PrepareType(scope, syntax) ==
    LET parts == [n \in DOMAIN syntax.parts |-> Build("PrepareType", <<scope, syntax.parts[n]>>)]
        ok == \A n \in DOMAIN parts : parts[n] # {}
        args == [n \in DOMAIN parts |-> CHOOSE t \in parts[n] : TRUE]
    IN  CASE syntax.kind = "value" -> {syntax}
          [] syntax.kind = "name" ->
                 IF syntax.name \in DOMAIN scope THEN scope[syntax.name]
                 ELSE IF syntax.name \in DOMAIN TypeTemplates
                 THEN {Term("template", t.id, <<>>, <<>>) :
                          t \in {s \in AllTemplates : TypeTemplates[syntax.name] = <<s>>}}
                 ELSE {Term("named", syntax.name, <<>>, <<>>)}
          [] syntax.kind \in Structures ->
                 IF ok THEN {WithParts(syntax, args)} ELSE {}
          [] syntax.kind = "parameterization" ->
                 IF ~ok THEN {}
                 ELSE IF syntax.name \in DOMAIN scope
                 THEN UNION {Build("GenTemplateType", <<<<TemplateOf(t.name)>>, args>>) :
                                t \in scope[syntax.name]}
                 ELSE Build("GenTemplateType", <<TypeTemplates[syntax.name], args>>)
-----------------------------------------------------------------------------
(* Deduction.                                                               *)

\* Matching a sequence of arguments; the arguments deduced by one are what the
\* next has to agree with.  A result is the set of the scope, empty when the
\* matching fails.
MatchTemplateArgs(params, scope, args, patterns) ==
    LET after[n \in 0..Len(patterns)] ==
            IF n = 0 THEN {scope}
            ELSE UNION {Build("MatchTemplateArg", <<params, s, args[n], patterns[n]>>) :
                           s \in after[n - 1]}
    IN  after[Len(patterns)]

IsTypeArg(arg) == arg.kind \notin {"value", "template"}

\* A template argument not deduced yet takes the given one if it is of its
\* kind; the type of a value has to match the declared one.
MatchNotDeduced(params, scope, arg, param) ==
    LET formal == ParamOf(params, param.name)
        bound(s) == [s EXCEPT ![param.name] = {arg}]
    IN  IF formal.kind = "type" /\ IsTypeArg(arg) THEN {bound(scope)}
        ELSE IF formal.kind = "template" /\ arg.kind = "template" THEN {bound(scope)}
        ELSE IF formal.kind = "variable" /\ arg.kind = "value"
             THEN {bound(s) : s \in Build("MatchTemplateArg", <<params, scope, arg.parts[1],
                       Build("CreateTemplateSignatureParameter", <<
                           params, CHOOSE t \in formal.type : TRUE>>)>>)}
        ELSE {}

\* The arguments a specialized parameter does not name have their defaults.
RestIsDefault(given, count) ==
    LET template == TemplateOf(given.name)
        scopes == MatchTemplateArgs(template.params, NotDeduced(template.params),
                                    given.parts, SignatureParams(template))
    IN  \A n \in count + 1..Len(given.parts) :
            \E default \in template.defaults[n], scope \in scopes :
                Build("PrepareType", <<scope, default>>) = {given.parts[n]}

MatchSpecialized(params, scope, arg, param) ==
    LET base == param.parts[1]
        rest == Tail(param.parts)
        template == Term("template", arg.name, <<>>, <<>>)
    IN  IF arg.kind # "instance" \/ Len(rest) > Len(arg.parts) THEN {}
        ELSE {s \in UNION {MatchTemplateArgs(params, first, arg.parts, rest) :
                              first \in Build("MatchTemplateArg", <<params, scope, template, base>>)} :
                 RestIsDefault(arg, Len(rest))}

MatchTemplateArg(params, scope, arg, param) ==
    LET If(matched) == IF matched THEN {scope} ELSE {}
    IN  CASE param.kind \in {"type", "variable"} -> If(arg = param.parts[1])
          [] param.kind = "type_template" ->
                 If(arg.kind = "template" /\ arg.name = param.name)
          [] param.kind = "template_set" ->
                 If(\E n \in DOMAIN TypeTemplates[param.name] :
                       TypeTemplates[param.name][n].id = arg.name)
          [] param.kind = "param" ->
                 IF scope[param.name] = {}
                 THEN MatchNotDeduced(params, scope, arg, param)
                 ELSE If(scope[param.name] = {arg})
          [] param.kind \in Structures ->
                 IF /\ arg.kind = param.kind
                    /\ arg.mods = param.mods
                    /\ Len(arg.parts) = Len(param.parts)
                 THEN MatchTemplateArgs(params, scope, arg.parts, param.parts)
                 ELSE {}
          [] param.kind = "specialized" -> MatchSpecialized(params, scope, arg, param)

-----------------------------------------------------------------------------
(* The more specialized parameter.                                          *)

\* The results for the parts of two structures agree, or are incomparable.
CombineResults(results) ==
    LET differing == results \ {"same"}
    IN  IF "incomparable" \in differing THEN "incomparable"
        ELSE IF differing = {} THEN "same"
        ELSE IF differing = {"left"} THEN "left"
        ELSE IF differing = {"right"} THEN "right"
        ELSE "incomparable"

RECURSIVE TemplateSpecializationCompare(_, _)

\* The same for the parts, pair by pair, of two structures of one length.
CompareParts(left, right) ==
    CombineResults({TemplateSpecializationCompare(left.parts[n], right.parts[n]) :
                       n \in DOMAIN left.parts})

\* Mutant of CompareStructures: only the first parts are compared.
CompareFirstParts(left, right) ==
    TemplateSpecializationCompare(left.parts[1], right.parts[1])

\* Two structures of one kind.  Functions are told apart by their arity only,
\* coroutines by everything except the non_sync tag, the last of the modifiers.
CompareStructures(left, right) ==
    CASE left.kind = "coroutine" ->
             IF SubSeq(left.mods, 1, Len(left.mods) - 1)
                    # SubSeq(right.mods, 1, Len(right.mods) - 1)
             THEN "incomparable"
             ELSE CompareParts(left, right)
      [] left.kind = "specialized"
         /\ "template_set" \in {left.parts[1].kind, right.parts[1].kind} ->
             IF left.parts[1] # right.parts[1] \/ Len(left.parts) # Len(right.parts)
             THEN "incomparable"
             ELSE CombineResults(
                      {TemplateSpecializationCompare(left.parts[n], right.parts[n]) :
                          n \in 2..Len(left.parts)})
      [] OTHER ->
             IF Len(left.parts) # Len(right.parts) THEN "incomparable"
             ELSE CompareParts(left, right)

\* A known argument is better than a structure, a structure better than a
\* parameter.  For a parameter on the left there is no case of a coroutine on
\* the right; this and every other pair that can match nothing in common is
\* incomparable.
TemplateSpecializationCompare(left, right) ==
    LET compound == Structures \cup {"specialized"}
    IN  CASE left.kind = "type" /\ right.kind \in {"variable", "type_template", "template_set"}
                -> "incomparable"
          [] left.kind = right.kind /\ left.kind \notin compound -> "same"
          [] left.kind = right.kind /\ left.kind \in compound ->
                 CompareStructures(left, right)
          [] left.kind = "type" /\ right.kind \in compound \cup {"param"} -> "left"
          [] left.kind \in {"variable", "type_template"} /\ right.kind = "param" -> "left"
          [] left.kind \in compound /\ right.kind = "type" -> "right"
          [] left.kind \in compound /\ right.kind = "param" -> "left"
          [] left.kind = "param"
             /\ right.kind \in {"type", "variable", "type_template"}
                                   \cup (compound \ {"coroutine"}) -> "right"
          [] OTHER -> "incomparable"

\* The candidate that no best candidate of an argument is better than, if it
\* is the only one.  compare[arg][left, right] is defined for the candidates
\* that take the argument; an argument without a best candidate decides nothing.
SelectBest(candidates, compare) ==
    LET take(arg) == {c \in candidates : <<c, c>> \in DOMAIN compare[arg]}
        best(arg) == {left \in take(arg) :
                         \A right \in take(arg) : compare[arg][left, right] \in {"same", "left"}}
        beaten == UNION {{right \in take(arg) :
                             \E left \in best(arg) : compare[arg][left, right] # "same"} :
                         arg \in DOMAIN compare}
        rest == candidates \ beaten
    IN  IF \E c \in candidates : candidates = {c} THEN candidates
        ELSE IF \E c \in rest : rest = {c} THEN rest
        ELSE {}

-----------------------------------------------------------------------------
(* Type templates.                                                          *)

\* ProcessTemplateParams and PrepareTypeTemplate: the errors a declaration is
\* reported for after the templates accepted before it.
RECURSIVE NamesIn(_)
NamesIn(syntax) ==
    {syntax.name} \cup UNION {NamesIn(syntax.parts[n]) : n \in DOMAIN syntax.parts}

DeclarationErrors(accepted, template) ==
    LET mandatory == {n \in DOMAIN template.signature : template.defaults[n] = {}}
        used == UNION {NamesIn(template.signature[n]) : n \in DOMAIN template.signature}
                \cup UNION {UNION {NamesIn(d) : d \in template.defaults[n]} :
                               n \in DOMAIN template.signature}
                \cup UNION {UNION {NamesIn(t) : t \in template.params[n].type} :
                               n \in DOMAIN template.params}
    IN  {e \in {"Redefinition"} :
            \E n, k \in DOMAIN template.params :
                n # k /\ template.params[n].name = template.params[k].name}
        \cup {e \in {"MandatoryTemplateSignatureArgumentAfterOptionalArgument"} :
                 \E n \in mandatory, k \in DOMAIN template.signature \ mandatory : k < n}
        \cup {e \in {"TemplateArgumentNotUsedInSignature"} :
                 ~(ParamNames(template.params) \subseteq used)}
        \cup {e \in {"TypeTemplateRedefinition"} :
                 \E n \in DOMAIN accepted :
                     SignatureParams(accepted[n]) = SignatureParams(template)}

\* PrepareTemplateType: the given arguments and the defaults of the others,
\* each matched with its signature parameter: {} or {[scope, args]}.
PrepareTemplateType(template, given) ==
    LET signature == SignatureParams(template)
        mandatory == {n \in DOMAIN signature : template.defaults[n] = {}}
        after[n \in 0..Len(signature)] ==
            IF n = 0 THEN {[scope |-> NotDeduced(template.params), args |-> <<>>]}
            ELSE UNION {LET arg == IF n <= Len(given) THEN {given[n]}
                                   ELSE Build("PrepareType", <<r.scope,
                                            CHOOSE d \in template.defaults[n] : TRUE>>)
                        IN  UNION {{[scope |-> s, args |-> Append(r.args, a)] :
                                       s \in Build("MatchTemplateArg", <<template.params, r.scope,
                                                              a, signature[n]>>)} :
                                   a \in arg} :
                        r \in after[n - 1]}
    IN  IF mandatory \subseteq DOMAIN given /\ Len(given) <= Len(signature)
        THEN after[Len(signature)] ELSE {}

\* SelectTemplateType among the templates of the set that the arguments match.
SelectTemplateType(templates, args) ==
    LET candidates == {n \in DOMAIN templates :
                          Build("PrepareTemplateType", <<templates[n], args>>) # {}}
    IN  SelectBest(candidates,
            [arg \in DOMAIN args |-> [left, right \in candidates |->
                TemplateSpecializationCompare(SignatureParams(templates[left])[arg],
                                              SignatureParams(templates[right])[arg])]])

\* A class template gives the class of its signature arguments, one for each
\* (the cache of generated things); an alias gives the type it stands for.
FinishTemplateTypeGeneration(template, prepared) ==
    IF template.alias = {} THEN {Term("instance", template.id, <<>>, prepared.args)}
    ELSE UNION {Build("PrepareType", <<prepared.scope, body>>) : body \in template.alias}

GenTemplateType(templates, args) ==
    UNION {UNION {FinishTemplateTypeGeneration(templates[n], prepared) :
                     prepared \in Build("PrepareTemplateType", <<templates[n], args>>)} :
           n \in Build("SelectTemplateType", <<templates, args>>)}

Build(operation, a) ==
    CASE operation = "CreateTemplateSignatureParameter" ->
             CreateTemplateSignatureParameter(a[1], a[2])
      [] operation = "PrepareType" -> PrepareType(a[1], a[2])
      [] operation = "MatchTemplateArg" -> MatchTemplateArg(a[1], a[2], a[3], a[4])
      [] operation = "PrepareTemplateType" -> PrepareTemplateType(a[1], a[2])
      [] operation = "SelectTemplateType" -> SelectTemplateType(a[1], a[2])
      [] operation = "GenTemplateType" -> GenTemplateType(a[1], a[2])
=============================================================================
