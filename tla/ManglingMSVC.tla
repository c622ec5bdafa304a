----------------------------- MODULE ManglingMSVC -----------------------------
(***************************************************************************)
(* The linker names of Microsoft compilers, as mangling_msvc.cpp builds    *)
(* them.  An encoding is the sequence of what the encoding functions do to *)
(* the ManglerState: push an element, or encode a name, which may become a *)
(* back reference.  The name of a template is the text that a mangler with *)
(* a table of back references of its own makes.                            *)
(***************************************************************************)
EXTENDS Integers, Sequences, SequencesExt, TLC

CONSTANTS
  NumBackReferences,   \* the size of a table of back references
  Is32Bit              \* the target has pointers of 32 bits

----------------------------------------------------------------------------
\* The state of a mangler

Element(text) == <<[do |-> "push", text |-> text]>>
EncodeName(name) == <<[do |-> "name", text |-> <<name>>]>>
EncodeNameNoTerminator(text) == <<[do |-> "text", text |-> text]>>
Terminator == Element(<<"@">>)

\* The first names and texts of templates get a number each, which stands for them from then on.
EncodeNameImpl(mangler, text, ending) ==
  LET known == SelectInSeq(mangler.back_references, LAMBDA r : r = text)
  IN IF known # 0 THEN [mangler EXCEPT !.res = Append(@, ToString(known - 1))]
     ELSE [res |-> mangler.res \o text \o ending,
           back_references |-> IF Len(mangler.back_references) < NumBackReferences
                               THEN Append(mangler.back_references, text) ELSE mangler.back_references]

EncodeStep(mangler, step) ==
  CASE step.do = "push" -> [mangler EXCEPT !.res = @ \o step.text]
    [] step.do = "name" -> EncodeNameImpl(mangler, step.text, <<"@">>)
    [] OTHER -> EncodeNameImpl(mangler, step.text, <<>>)

\* The set of the state of the mangler after the steps of an encoding, half by half
RECURSIVE EncodeSteps(_, _)
EncodeSteps(mangler, encoding) ==
  LET half == Len(encoding) \div 2
  IN IF encoding = <<>> THEN {mangler}
     ELSE IF half = 0 THEN {EncodeStep(mangler, encoding[1])}
     ELSE UNION {EncodeSteps(s, SubSeq(encoding, half + 1, Len(encoding))) :
                   s \in EncodeSteps(mangler, SubSeq(encoding, 1, half))}

Run(encoding) ==
  (CHOOSE mangler \in EncodeSteps([res |-> <<>>, back_references |-> <<>>], encoding) : TRUE).res

EncodeEach(sequence, Encoding(_)) == FlattenSeq([i \in DOMAIN sequence |-> Encoding(sequence[i])])

\* A template has a table of back references of its own and is then encoded as a name.
EncodeTemplate(name, args) ==
  EncodeNameNoTerminator(Run(Element(<<"?$">>) \o EncodeName(name) \o args \o Terminator))

----------------------------------------------------------------------------
\* Numbers and references

PointerModifier == IF Is32Bit THEN <<>> ELSE <<"E">>

HexDigits == <<"A", "B", "C", "D", "E", "F", "G", "H", "I", "J", "K", "L", "M", "N", "O", "P">>

HexNumber[n \in Nat] == (IF n < 16 THEN <<>> ELSE HexNumber[n \div 16]) \o <<HexDigits[(n % 16) + 1]>>

EncodeNumber(number) ==
  LET magnitude == IF number < 0 THEN -number ELSE number
  IN (IF number < 0 THEN <<"?">> ELSE <<>>)
     \o (CASE magnitude = 0 -> <<"A", "@">>
           [] magnitude \in 1..10 -> <<ToString(magnitude - 1)>>
           [] OTHER -> HexNumber[magnitude] \o <<"@">>)

\* The beginning of the text of an array of characters with the given dimensions
CharArray(dimensions) ==
  <<"2", "$$B", "Y", ToString(Len(dimensions) - 1)>> \o EncodeEach(dimensions, EncodeNumber) \o <<"D">>

EncodeParamReference(reference) ==
  CharArray(<<2>>)
  \o <<"D", "0">> \o EncodeNumber(48 + reference.param)
  \o <<"D", "0">> \o EncodeNumber(IF reference.itself THEN 95 ELSE 97 + reference.tag)
  \o <<"@">>

\* A class made of a template, as a type
EncodeTemplateType(name, args) == Element(<<"U">>) \o EncodeTemplate(name, args) \o Terminator

EncodeReferencePollution(pollution) ==
  EncodeTemplateType("_RP", Element(
    <<"$">> \o CharArray(<<Len(pollution), 2, 2>>)
    \o EncodeEach(pollution, LAMBDA p : CharArray(<<2, 2>>) \o EncodeParamReference(p.dst)
                                         \o EncodeParamReference(p.src) \o <<"@">>)
    \o <<"@">>))

EncodeReferencesList(references) ==
  CharArray(<<Len(references), 2>>) \o EncodeEach(references, EncodeParamReference) \o <<"@">>

EncodeReturnReferences(references) ==
  EncodeTemplateType("_RR", Element(<<"$">> \o EncodeReferencesList(references)))

EncodeReturnInnerReferences(inner) ==
  EncodeTemplateType("_RIR", Element(
    <<"$", "2", "U", "tup", "@", "@">> \o EncodeEach(inner, EncodeReferencesList) \o <<"@">>))

IfAny(sequence, encoding) == IF sequence = <<>> THEN <<>> ELSE encoding

EncodeReferenceTo(value_type) ==
  IF value_type = "value" THEN <<>>
  ELSE Element(<<"A">> \o PointerModifier \o <<IF value_type = "mut" THEN "A" ELSE "B">>)

----------------------------------------------------------------------------
\* Types

GetFundamentalTypeMangledName(name) ==
  CASE name = "void" -> <<"X">>      [] name = "bool" -> <<"_N">>
    [] name = "i8" -> <<"C">>        [] name = "u8" -> <<"E">>
    [] name = "i16" -> <<"F">>       [] name = "u16" -> <<"G">>
    [] name = "i32" -> <<"H">>       [] name = "u32" -> <<"I">>
    [] name = "i64" -> <<"_J">>      [] name = "u64" -> <<"_K">>
    [] name = "i128" -> <<"_L">>     [] name = "u128" -> <<"_M">>
    [] name = "ssize_type" -> <<"J">> [] name = "size_type" -> <<"K">>
    [] name = "f32" -> <<"M">>       [] name = "f64" -> <<"N">>
    [] name = "char8" -> <<"D">>     [] name = "char16" -> <<"_S">>  [] name = "char32" -> <<"_U">>
    [] OTHER -> <<"U", name, "@", "@">>   \* bytes, as structs without a namespace

GetCallingConventionName(convention) ==
  CASE convention = "default" -> "A" [] convention = "C" -> "B" [] convention = "fast" -> "I"
    [] convention = "cold" -> "U" [] convention = "system" -> "G"

RECURSIVE Dimensions(_), ElementOf(_)

\* The sizes and the element of arrays of arrays
Dimensions(type) == IF type.t = "array" THEN <<type.count>> \o Dimensions(type.of) ELSE <<>>
ElementOf(type) == IF type.t = "array" THEN ElementOf(type.of) ELSE type

\* Types, scopes, arguments of templates and values hold each other: they are encoded through one operator, a kind of
\* thing and the thing.
RECURSIVE Encode(_, _)

EncodeFullName(name, scope) == EncodeName(name) \o Encode("scope", scope) \o Terminator

EncodeConstexprValue(type, value) ==
  IF type.t \in {"array", "tuple"}
  THEN Element(<<"2">>) \o (IF type.t = "array" THEN Element(<<"$$B">>) ELSE <<>>) \o Encode("type", type)
       \o FlattenSeq([i \in DOMAIN value |->
            Encode("value", <<IF type.t = "array" THEN type.of ELSE type.elements[i], <<value[i]>>>>)])
       \o Terminator
  ELSE Encode("type", type) \o Element(<<"0">> \o EncodeNumber(value[1]))

EncodeTypeArg(type) == (IF type.t = "array" THEN Element(<<"$$B">>) ELSE <<>>) \o Encode("type", type)

\* The type of a number goes before it.
EncodeTemplateArgImpl(arg) ==
  CASE arg.arg = "type" -> EncodeTypeArg(arg.type)
    [] arg.arg = "template" -> Element(<<"U">>) \o EncodeFullName(arg.name, arg.scope)
    [] OTHER -> IF arg.type.t \in {"array", "tuple"}
                THEN Element(<<"$">>) \o Encode("value", <<arg.type, arg.value>>)
                ELSE Encode("type", arg.type) \o Element(<<"$0">> \o EncodeNumber(arg.value[1]))

EncodeTemplateArgs(args) == EncodeEach(args, EncodeTemplateArgImpl)

EncodeTemplateClassName(path) ==
  EncodeTemplate(Last(path).name, Encode("args", Last(path).args)) \o Encode("scope", Front(path))

EncodeLambdaClassName(path) ==
  (IF Last(path).args = <<>> THEN EncodeName(Last(path).name)
   ELSE EncodeTemplate(Last(path).name, Encode("args", Last(path).args)))
  \o Encode("scope", Front(path))

EncodeCoroutineClassName(type) ==
  EncodeTemplate(type.name,
    EncodeReferenceTo(type.ret.value_type) \o Encode("type", type.ret.type)
    \o (IF type.non_sync THEN Element(<<"_N", "$0">> \o EncodeNumber(1)) ELSE <<>>)
    \o EncodeEach(type.inner_references, LAMBDA r : Element(<<"I", "$0">> \o EncodeNumber(r)))
    \o IfAny(type.return_references, EncodeReturnReferences(type.return_references))
    \o IfAny(type.return_inner_references, EncodeReturnInnerReferences(type.return_inner_references)))

EncodeNamespacePostfix_r(scope) ==
  IF scope = <<>> THEN <<>>
  ELSE CASE Last(scope).s = "template" -> EncodeTemplateClassName(scope)
         [] Last(scope).s = "coroutine" -> EncodeCoroutineClassName(Last(scope).type)
         [] Last(scope).s = "lambda" -> EncodeLambdaClassName(scope)
         [] OTHER -> EncodeName(Last(scope).name) \o Encode("scope", Front(scope))

\* A parameter that is no plain fundamental type may be a back reference to an equal one; these have a table of
\* their own.
EncodeFunctionParams(params) ==
  LET Simple(p) == p.value_type = "value" /\ p.type.t = "fundamental"
      Add(done, p) ==
        LET known == IF Simple(p) THEN 0 ELSE SelectInSeq(done.back_references, LAMBDA r : r = p)
            new == ~Simple(p) /\ known = 0 /\ Len(done.back_references) < NumBackReferences
        IN [res |-> done.res \o (IF known # 0 THEN Element(<<ToString(known - 1)>>)
                                 ELSE EncodeReferenceTo(p.value_type) \o Encode("type", p.type)),
            back_references |-> IF new THEN Append(done.back_references, p) ELSE done.back_references]
  IN FoldLeft(Add, [res |-> <<>>, back_references |-> <<>>], params).res

EncodeFunctionType(function, encode_full_type) ==
  LET properties == IF ~encode_full_type THEN <<>>
        ELSE (IF function.unsafe THEN Element(<<"U", "unsafe", "@", "@">>) ELSE <<>>)
             \o IfAny(function.references_pollution, EncodeReferencePollution(function.references_pollution))
             \o IfAny(function.return_references, EncodeReturnReferences(function.return_references))
             \o IfAny(function.return_inner_references,
                      EncodeReturnInnerReferences(function.return_inner_references))
      classlike == function.ret.value_type = "value"
                   /\ function.ret.type.t \in {"class", "typeinfo", "coroutine", "enum", "tuple"}
  IN Element(<<GetCallingConventionName(function.convention)>>)
     \o EncodeReferenceTo(function.ret.value_type) \o (IF classlike THEN Element(<<"?", "A">>) ELSE <<>>)
     \o Encode("type", function.ret.type)
     \o (IF function.params = <<>> /\ properties = <<>> THEN Element(<<"X">>)
         ELSE EncodeFunctionParams(function.params) \o properties \o Terminator)
     \o Element(<<"Z">>)

EncodeType(type) ==
  CASE type.t = "fundamental" -> Element(GetFundamentalTypeMangledName(type.name))
    [] type.t = "array" ->
         Element(<<"Y">> \o EncodeNumber(Len(Dimensions(type))) \o EncodeEach(Dimensions(type), EncodeNumber))
         \o Encode("type", ElementOf(type))
    [] type.t = "tuple" -> EncodeTemplateType("tup", EncodeEach(type.elements, EncodeTypeArg))
    [] type.t = "typeinfo" -> EncodeTemplateType(type.name, Encode("type", type.of))
    [] type.t = "coroutine" -> Element(<<"U">>) \o EncodeCoroutineClassName(type) \o Terminator
    [] type.t = "class" -> Element(<<"U">>) \o Encode("scope", type.path) \o Terminator
    [] type.t = "enum" -> Element(<<"W", "4">>) \o EncodeFullName(Last(type.path).name, Front(type.path))
    [] type.t = "pointer" -> Element(<<"P">> \o PointerModifier \o <<"A">>) \o Encode("type", type.of)
    [] type.t = "function" -> Element(<<"P", "6">>) \o EncodeFunctionType(type.function, TRUE)

Encode(kind, x) ==
  CASE kind = "type" -> EncodeType(x)
    [] kind = "scope" -> EncodeNamespacePostfix_r(x)
    [] kind = "args" -> EncodeTemplateArgs(x)
    [] kind = "value" -> EncodeConstexprValue(x[1], x[2])

----------------------------------------------------------------------------
\* Names of entities

OperatorNames == <<
  <<"+", "?H">>, <<"-", "?G">>, <<"*", "?D">>, <<"/", "?K">>, <<"%", "?L">>, <<"==", "?8">>, <<"<=>", "?__M">>,
  <<"&", "?I">>, <<"|", "?U">>, <<"^", "?T">>, <<"<<", "?6">>, <<">>", "?5">>, <<"+=", "?Y">>, <<"-=", "?Z">>,
  <<"*=", "?X">>, <<"/=", "?_0">>, <<"%=", "?_1">>, <<"&=", "?_4">>, <<"|=", "?_5">>, <<"^=", "?_6">>,
  <<"<<=", "?_3">>, <<">>=", "?_2">>, <<"!", "?7">>, <<"~", "?S">>, <<"=", "?4">>, <<"++", "?E">>, <<"--", "?F">>,
  <<"()", "?R">>, <<"[]", "?A">> >>

EncodeFunctionName(name) ==
  LET i == SelectInSeq(OperatorNames, LAMBDA pair : pair[1] = name)
  IN IF i = 0 THEN EncodeName(name) ELSE Element(<<OperatorNames[i][2]>>)

\* The name of a template function is no back reference to come.
MangleFunction(function) ==
  LET Template(args) == Element(Run(Element(<<"?$">>) \o EncodeFunctionName(function.name)
                                    \o Encode("args", args) \o Terminator))
      name == IF function.template_args = {} THEN EncodeFunctionName(function.name)
              ELSE Template(CHOOSE a \in function.template_args : TRUE)
  IN Run(Element(<<"?">>) \o name \o Encode("scope", function.scope) \o Terminator
         \o Element(<<"Y">>) \o EncodeFunctionType(function.type, FALSE))

MangleGlobalVariable(variable) ==
  Run(Element(<<"?">>) \o EncodeFullName(variable.name, variable.scope) \o Element(<<"3">>)
      \o Encode("type", variable.type) \o Element(<<IF variable.constant THEN "B" ELSE "A">>))

MangleType(type) == Run(Encode("type", type))

MangleVirtualTable(type) ==
  Run(Element(<<"?", "?_7">>) \o Encode("scope", type.path) \o Terminator
      \o Element(<<"6", "B">>) \o Terminator)
=============================================================================
