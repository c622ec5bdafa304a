--------------------------- MODULE ManglingItanium ---------------------------
(***************************************************************************)
(* The linker names of the Itanium ABI, as mangling_itanium_abi.cpp builds *)
(* them.  An encoding is the sequence of what the encoding functions do to *)
(* the ManglerState: push a piece of text, or open and close a NodeHolder. *)
(* A length-prefixed name is one piece.  The entities that are named are   *)
(* those of module Mangling.                                               *)
(***************************************************************************)
EXTENDS Integers, Sequences, SequencesExt, TLC

NodeStart == "("
NodeEnd == ")"
Node(encoding) == <<NodeStart>> \o encoding \o <<NodeEnd>>

----------------------------------------------------------------------------
\* The state of a mangler

EmptyState == [full |-> <<>>, compressed |-> <<>>, substitutions |-> <<>>, nodes |-> <<>>]

Push(mangler, text) == [mangler EXCEPT !.full = Append(@, text), !.compressed = Append(@, text)]

NodeHolder(mangler) ==
  [mangler EXCEPT !.nodes = Append(@, [start |-> Len(mangler.full), compressed_start |-> Len(mangler.compressed)])]

\* A part spelled like an earlier one is replaced by the number of the earlier one.
FinalizePart(mangler) ==
  LET node == Last(mangler.nodes)
      spelling == SubSeq(mangler.full, node.start + 1, Len(mangler.full))
      same == SelectInSeq(mangler.substitutions, LAMBDA s : s = spelling)
      rest == Front(mangler.nodes)
  IN IF same # 0
     THEN [mangler EXCEPT !.compressed = Append(SubSeq(@, 1, node.compressed_start), "S" \o ToString(same)),
                        !.nodes = rest]
     ELSE [mangler EXCEPT !.substitutions = Append(@, spelling), !.nodes = rest]

EncodePiece(mangler, piece) ==
  CASE piece = NodeEnd -> FinalizePart(mangler)
    [] piece = NodeStart -> NodeHolder(mangler)
    [] OTHER -> Push(mangler, piece)

\* The set of the state of the mangler after the pieces of an encoding, half by half
RECURSIVE EncodePieces(_, _)
EncodePieces(mangler, encoding) ==
  LET half == Len(encoding) \div 2
  IN IF encoding = <<>> THEN {mangler}
     ELSE IF half = 0 THEN {EncodePiece(mangler, encoding[1])}
     ELSE UNION {EncodePieces(s, SubSeq(encoding, half + 1, Len(encoding))) :
                   s \in EncodePieces(mangler, SubSeq(encoding, 1, half))}

TakeResult(encoding) == (CHOOSE mangler \in EncodePieces(EmptyState, encoding) : TRUE).compressed

----------------------------------------------------------------------------
\* Types

\* The encodings of the elements of a sequence, one after another
EncodeEach(sequence, Encoding(_)) == FlattenSeq([i \in DOMAIN sequence |-> Encoding(sequence[i])])

EncodeFundamentalType(name) ==
  CASE name = "void" -> "v"      [] name = "bool" -> "b"
    [] name = "i8" -> "a"        [] name = "u8" -> "h"
    [] name = "i16" -> "s"       [] name = "u16" -> "t"
    [] name = "i32" -> "i"       [] name = "u32" -> "j"
    [] name = "i64" -> "x"       [] name = "u64" -> "y"
    [] name = "i128" -> "n"      [] name = "u128" -> "o"
    [] name = "ssize_type" -> "l" [] name = "size_type" -> "m"
    [] name = "f32" -> "f"       [] name = "f64" -> "d"
    [] name = "char8" -> "c"     [] name = "char16" -> "Ds"  [] name = "char32" -> "Di"
    [] name = "byte8" -> "u5byte8"   [] name = "byte16" -> "u6byte16" [] name = "byte32" -> "u6byte32"
    [] name = "byte64" -> "u6byte64" [] name = "byte128" -> "u7byte128"

\* A number of a type: the sign is a letter of its own
EncodeNumber(number) == IF number >= 0 THEN <<ToString(number)>> ELSE <<"n", ToString(-number)>>

\* The first component of a reference is a parameter, the second a tag of its type, or the parameter itself.  Nothing
\* inside of it is a node: it is one piece.
EncodeParamReference(reference) ==
  <<"ilLc" \o ToString(reference.param + 48)
    \o "ELc" \o ToString(IF reference.itself THEN 95 ELSE reference.tag + 97) \o "EE">>

\* References of a function type are a pseudo template with one argument.
AsTemplate(name, list) == Node(Node(<<name>>) \o <<"I", "X", "il">> \o list \o <<"E", "E", "E">>)

EncodeReferencePollutionAsType(pollution) ==
  AsTemplate("_RP", EncodeEach(pollution,
    LAMBDA p : <<"il">> \o EncodeParamReference(p.dst) \o EncodeParamReference(p.src) \o <<"E">>))

EncodeReturnReferencesAsType(references) == AsTemplate("_RR", EncodeEach(references, EncodeParamReference))

EncodeReturnInnerReferencesAsType(inner) ==
  AsTemplate("_RIR", EncodeEach(inner, LAMBDA r : <<"il">> \o EncodeEach(r, EncodeParamReference) \o <<"E">>))

\* What is left out when it is empty
IfAny(sequence, encoding) == IF sequence = <<>> THEN <<>> ELSE encoding

\* "R" for a mutable reference, "RK" for an immutable one
EncodeReferenceTo(value_type, encoded) ==
  CASE value_type = "mut" -> Node(<<"R">> \o encoded)
    [] value_type = "imut" -> Node(<<"R">> \o Node(<<"K">> \o encoded))
    [] OTHER -> encoded

\* Types, scopes, arguments of templates and values hold each other: they are encoded through one operator, a kind of
\* thing and the thing.
RECURSIVE Encode(_, _)

\* An array and a tuple are lists of the values of their elements, which are scalars here.
EncodeConstexprValue(type, value) ==
  IF type.t \in {"array", "tuple"}
  THEN <<"tl">> \o Encode("type", type)
       \o FlattenSeq([i \in DOMAIN value |->
            Encode("value", <<IF type.t = "array" THEN type.of ELSE type.elements[i], <<value[i]>>>>)])
       \o <<"E">>
  ELSE <<"L">> \o Encode("type", type) \o EncodeNumber(value[1]) \o <<"E">>

EncodeNestedName(name, scope) ==
  Node(IF scope = <<>> THEN <<name>>
       ELSE <<"N">> \o Encode("scope", scope) \o <<name, "E">>)

EncodeTemplateArgImpl(arg) ==
  CASE arg.arg = "type" -> Encode("type", arg.type)
    [] arg.arg = "template" -> EncodeNestedName(arg.name, arg.scope)
    [] OTHER -> IF arg.type.t \in {"fundamental", "enum"} THEN Encode("value", <<arg.type, arg.value>>)
                ELSE <<"X">> \o Encode("value", <<arg.type, arg.value>>) \o <<"E">>

EncodeTemplateArgs(args) == <<"I">> \o EncodeEach(args, EncodeTemplateArgImpl) \o <<"E">>

\* The scope is that of the template, the scope of its parameters is skipped.
EncodeTemplateClassName(path) ==
  Node(Encode("scope", Front(path)) \o <<Last(path).name>>) \o Encode("args", Last(path).args)

EncodeLambdaClassName(path) ==
  LET name == Node(Encode("scope", Front(path)) \o <<Last(path).name>>)
  IN IF Last(path).args = <<>> THEN name ELSE Node(name \o Encode("args", Last(path).args))

EncodeCoroutineType(type) ==
  Node(Node(<<type.name>>) \o <<"I">>
    \o EncodeReferenceTo(type.ret.value_type, Encode("type", type.ret.type))
    \o (IF type.non_sync THEN <<"L", "b", "1", "E">> ELSE <<>>)
    \o EncodeEach(type.inner_references, LAMBDA r : <<"L", "j", ToString(r), "E">>)
    \o IfAny(type.return_references, EncodeReturnReferencesAsType(type.return_references))
    \o IfAny(type.return_inner_references, EncodeReturnInnerReferencesAsType(type.return_inner_references))
    \o <<"E">>)

EncodeNamespacePrefix_r(scope) ==
  IF scope = <<>> THEN <<>>
  ELSE CASE Last(scope).s = "template" -> Node(EncodeTemplateClassName(scope))
         [] Last(scope).s = "coroutine" -> EncodeCoroutineType(Last(scope).type)
         [] Last(scope).s = "lambda" -> EncodeLambdaClassName(scope)
         [] OTHER -> Node(Encode("scope", Front(scope)) \o <<Last(scope).name>>)

EncodeFunctionParam(param) == EncodeReferenceTo(param.value_type, Encode("type", param.type))

IsVoidValue(param) == param.value_type = "value" /\ param.type = [t |-> "fundamental", name |-> "void"]

\* Mutant of EncodeFunctionParams: a parameter "void" is not marked.
EncodeFunctionParamsUnmarked(params) ==
  IF params = <<>> THEN <<"v">> ELSE EncodeEach(params, EncodeFunctionParam)

\* A parameter "void" is marked, to tell it from no parameters.
EncodeFunctionParams(params) ==
  IF params = <<>> THEN <<"v">>
  ELSE EncodeEach(params, LAMBDA p : IF IsVoidValue(p) THEN Node(<<"K">> \o Encode("type", p.type))
                                     ELSE EncodeFunctionParam(p))

EncodeFunctionTypeName(function) ==
  Node((IF function.convention = "default" THEN <<>> ELSE <<"U", function.convention>>)
    \o <<"F">> \o EncodeFunctionParam(function.ret) \o EncodeFunctionParams(function.params)
    \o IfAny(function.references_pollution, EncodeReferencePollutionAsType(function.references_pollution))
    \o IfAny(function.return_references, EncodeReturnReferencesAsType(function.return_references))
    \o IfAny(function.return_inner_references,
             EncodeReturnInnerReferencesAsType(function.return_inner_references))
    \o (IF function.unsafe THEN Node(<<"unsafe">>) ELSE <<>>)
    \o <<"E">>)

EncodeTypeName(type) ==
  CASE type.t = "fundamental" -> <<EncodeFundamentalType(type.name)>>
    [] type.t = "array" -> Node(<<"A", ToString(type.count), "_">> \o Encode("type", type.of))
    [] type.t = "tuple" -> Node(Node(<<"tup">>) \o <<"I">> \o EncodeEach(type.elements, LAMBDA t : Encode("type", t)) \o <<"E">>)
    [] type.t = "typeinfo" ->
         Node(Node(<<type.name>>) \o Node(Encode("args", <<[arg |-> "type", type |-> type.of]>>)))
    [] type.t = "coroutine" -> EncodeCoroutineType(type)
    [] type.t = "class" /\ Last(type.path).s = "template" ->
         Node(IF Len(type.path) = 1 THEN EncodeTemplateClassName(type.path)
              ELSE <<"N">> \o EncodeTemplateClassName(type.path) \o <<"E">>)
    [] type.t = "class" /\ Last(type.path).s = "lambda" -> EncodeLambdaClassName(type.path)
    [] type.t \in {"class", "enum"} -> EncodeNestedName(Last(type.path).name, Front(type.path))
    [] type.t = "pointer" -> Node(<<"P">> \o Encode("type", type.of))
    [] type.t = "function" -> Node(<<"P">> \o EncodeFunctionTypeName(type.function))

Encode(kind, x) ==
  CASE kind = "type" -> EncodeTypeName(x)
    [] kind = "scope" -> EncodeNamespacePrefix_r(x)
    [] kind = "args" -> EncodeTemplateArgs(x)
    [] kind = "value" -> EncodeConstexprValue(x[1], x[2])

----------------------------------------------------------------------------
\* Names of entities

OperatorNames == <<
  <<"+", "pl">>, <<"-", "mi">>, <<"*", "ml">>, <<"/", "dv">>, <<"%", "rm">>, <<"==", "eq">>, <<"<=>", "ss">>,
  <<"&", "an">>, <<"|", "or">>, <<"^", "eo">>, <<"<<", "ls">>, <<">>", "rs">>, <<"+=", "pL">>, <<"-=", "mI">>,
  <<"*=", "mL">>, <<"/=", "dV">>, <<"%=", "rM">>, <<"&=", "aN">>, <<"|=", "oR">>, <<"^=", "eO">>, <<"<<=", "lS">>,
  <<">>=", "rS">>, <<"!", "nt">>, <<"~", "co">>, <<"=", "aS">>, <<"++", "pp">>, <<"--", "mm">>, <<"()", "cl">>,
  <<"[]", "ix">> >>

DecodeOperator(name) ==
  LET i == SelectInSeq(OperatorNames, LAMBDA pair : pair[1] = name)
  IN IF i = 0 THEN name ELSE OperatorNames[i][2]

\* The arguments of a template function are part of its name, those of a usual function are absent.
MangleFunction(function) ==
  LET name == <<DecodeOperator(function.name)>>
      prefix == Encode("scope", function.scope)
      nested == function.scope # <<>>
      named == IF function.template_args = {}
               THEN IF nested THEN <<"N">> \o prefix \o name \o <<"E">> ELSE name
               ELSE LET args == Encode("args", CHOOSE a \in function.template_args : TRUE)
                    IN Node(IF nested THEN <<"N">> \o Node(prefix \o name) \o args \o <<"E", "v">>
                            ELSE Node(name) \o args \o <<"v">>)
  IN TakeResult(<<"_Z">> \o named \o EncodeFunctionParams(function.type.params))

\* A variable outside of all namespaces has its own name.
MangleGlobalVariable(variable) ==
  IF variable.scope = <<>> THEN <<variable.name>>
  ELSE TakeResult(<<"_Z">> \o EncodeNestedName(variable.name, variable.scope))

MangleType(type) == TakeResult(Encode("type", type))

MangleVirtualTable(type) == TakeResult(<<"_ZTV">> \o Encode("type", type))
=============================================================================
