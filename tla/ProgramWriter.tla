---------------------------- MODULE ProgramWriter ----------------------------
(***************************************************************************)
(* ElementWrite of ProgramWriter (lex_synt_lib/program_writer.cpp): the    *)
(* lexems written for a syntax element.  An element is a tuple of its kind *)
(* and its parts, a leaf is a tuple of one lexem.  cpp_header_converter    *)
(* writes whole programs this way; the compiler parses them again.         *)
(***************************************************************************)
EXTENDS SequencesExt

RECURSIVE Write(_)

IsLeaf(t) == Len(t) = 1
Parts(t) == [i \in 1 .. Len(t) - 1 |-> t[i + 1]]
Present(t) == t # <<"none">>

WriteAll(ts) == FoldLeft(LAMBDA out, t : out \o Write(t), <<>>, ts)

\* Parts with a separator between two of them
WriteList(ts, separator) ==
    FoldLeftDomain(LAMBDA out, i : (IF i = 1 THEN out ELSE Append(out, separator)) \o Write(ts[i]), <<>>, ts)

InBrackets(lexems) == <<"(">> \o lexems \o <<")">>

WriteTag(lexem, t) == IF Present(t) THEN <<lexem>> \o InBrackets(Write(t)) ELSE <<>>

WriteFunctionParamsList(t) == InBrackets(WriteList(Parts(t), ","))

WriteFunctionTypeEnding(t) ==
    WriteTag("@", t[2]) \o Write(t[3]) \o WriteTag("call_conv", t[4]) \o <<":">> \o Write(t[5])
    \o WriteTag("@", t[6])
    \o (IF Len(t) > 6 THEN Write(t[7]) \o Write(t[8]) \o WriteTag("@", t[9]) ELSE <<>>)

WriteThis(t) == WriteAll(Parts(t)) \o <<"this">>

\* A parameter with the name "this" loses its type.
WriteParam(t) ==
    IF t[5] = <<"this">> THEN (IF Present(t[3]) THEN <<>> ELSE <<"byval">>) \o Write(t[4]) \o <<"this">>
    ELSE WriteAll(Parts(t))

\* Mutant: no brackets.
WriteBareOperator(t) == WriteAll(Parts(t))

\* Brackets around every operator keep the order of evaluation.
WriteBinaryOperator(t) == InBrackets(WriteAll(Parts(t)))

WriteOperator(t) ==
    CASE t[1] = "binary" -> WriteBinaryOperator(t)
      [] t[1] \in {"unary", "initialization"} -> InBrackets(WriteAll(Parts(t)))
      [] t[1] = "ternary" -> InBrackets(Write(t[2]) \o <<"?">> \o Write(t[3]) \o <<":">> \o Write(t[4]))
      [] t[1] = "subscript" -> InBrackets(Write(t[2]) \o <<"[">> \o Write(t[3]) \o <<"]">>)
      [] t[1] = "call" -> InBrackets(Write(t[2]) \o InBrackets(Write(t[3])))
      [] t[1] = "await" -> InBrackets(Write(t[2]) \o <<".", "await">>)
      [] t[1] = "member" -> InBrackets(Write(t[2]) \o <<".">> \o Write(t[3])
                              \o (IF Len(t) > 3 THEN <<"</">> \o Write(t[4]) \o <<"/>">> ELSE <<>>))

WriteKeywordExpression(t) ==
    CASE t[1] \in {"pointer", "operator"} -> Write(t[2]) \o InBrackets(Write(t[3]))
      [] t[1] = "move" -> <<"move">> \o InBrackets(Write(t[2]))
      [] t[1] = "cast" -> Write(t[2]) \o <<"</">> \o Write(t[3]) \o <<"/>">> \o InBrackets(Write(t[4]))
      [] t[1] = "embed" -> Write(t[2]) \o (IF Present(t[3]) THEN <<"</">> \o Write(t[3]) \o <<"/>">> ELSE <<>>)
                           \o InBrackets(Write(t[4]))
      [] t[1] = "external" -> <<"import">> \o Write(t[2]) \o <<"</">> \o Write(t[3]) \o <<"/>">>
                              \o InBrackets(Write(t[4]))
      [] t[1] = "typeinfo" -> (IF t[2] = <<"typeinfo">> THEN Write(t[2]) ELSE <<>>)   \* none for non_sync
                              \o <<"</">> \o Write(t[3]) \o <<"/>">>
      [] t[1] = "same_type" -> Write(t[2]) \o <<"</">> \o Write(t[3]) \o <<",">> \o Write(t[4]) \o <<"/>">>
      [] t[1] = "lambda" -> <<"lambda", "(", ")", "{", "}">>
      [] t[1] = "mixin expression" -> <<"mixin">> \o InBrackets(Write(t[2]))

\* The inner references of a coroutine type are written between quotes, its reference tags not at all.
WriteCoroutineType(t) ==
    LET tag == Min({i \in 3 .. Len(t) : t[i][1] = "non_sync"})
        inner_references == SubSeq(t, 3, tag - 1)
    IN Write(t[2]) \o (IF inner_references = <<>> THEN <<>> ELSE <<"'">> \o WriteList(inner_references, ",") \o <<"'">>)
       \o Write(t[tag]) \o <<":">> \o Write(t[tag + 1]) \o (IF Len(t) > tag + 2 THEN Write(t[tag + 3]) \o Write(t[tag + 4]) ELSE <<>>)

WriteTypeName(t) ==
    CASE t[1] = "::" -> <<"::">> \o Write(t[2])
      [] t[1] = "scope" -> Write(t[2]) \o <<"::">> \o Write(t[3])
      [] t[1] = "parameterization" -> Write(t[2]) \o <<"</">> \o Write(t[3]) \o <<"/>">>
      [] t[1] = "array" -> <<"[">> \o Write(t[2]) \o <<",">> \o Write(t[3]) \o <<"]">>
      [] t[1] = "tup" -> <<"tup", "[">> \o WriteList(Parts(t), ",") \o <<"]">>
      [] t[1] = "raw_pointer" -> <<"$">> \o InBrackets(Write(t[2]))
      [] t[1] = "typeof" -> <<"typeof">> \o InBrackets(Write(t[2]))
      [] t[1] = "fn" -> InBrackets(<<"fn">> \o WriteFunctionParamsList(t[2]) \o WriteFunctionTypeEnding(t[3]))
      [] t[1] = "coroutine" -> WriteCoroutineType(t)
      [] t[1] = "non_sync" -> IF Len(t) = 2 THEN Write(t[2]) ELSE Write(t[2]) \o InBrackets(Write(t[3]))

\* Initializers; an expression after "=" is not implemented.
WriteInitializer(t) ==
    CASE t[1] = "constructor" -> InBrackets(Write(t[2]))
      [] t[1] = "sequence" -> <<"[">>
            \o (IF Len(t) > 1 /\ Last(t) = <<"...">>
                THEN WriteList(Front(Parts(t)), ",") \o <<"...">> ELSE WriteList(Parts(t), ",")) \o <<"]">>
      [] t[1] = "struct_named" -> <<"{">> \o WriteList(
            [i \in 1 .. (Len(t) - 1) \div 2 |-> <<"member initializer", t[2 * i], t[2 * i + 1]>>], ",") \o <<"}">>
      [] t[1] = "member initializer" -> <<".">> \o Write(t[2]) \o Write(t[3])

WriteVariables(t) ==
    <<"var">> \o Write(t[2])
    \o WriteList([i \in 1 .. (Len(t) - 2) \div 4 |->
                    <<"variable", t[4 * i - 1], t[4 * i], t[4 * i + 1], t[4 * i + 2]>>], ",") \o <<";">>

WriteFunctionDeclaration(t) == Write(t[2]) \o Write(t[3]) \o Write(t[4]) \o WriteFunctionParamsList(t[5])
    \o WriteFunctionTypeEnding(t[6]) \o (IF Present(t[7]) THEN <<"=">> \o Write(t[7]) ELSE <<>>) \o <<";">>

WriteClass(t) ==
    (IF t[3] = <<"struct">> THEN <<"struct">> \o Write(t[2]) ELSE <<"class">> \o Write(t[2]) \o Write(t[3]))
    \o (IF Len(t[4]) > 1 /\ t[4][1] = "parents" THEN <<":">> \o WriteList(Parts(t[4]), ",") ELSE <<>>)
    \o WriteAll(SubSeq(t, 5, 7)) \o <<"{">> \o WriteAll(SubSeq(t, 8, Len(t))) \o <<"}">>

WriteField(t) == Write(t[2]) \o WriteTag("@", t[3]) \o Write(t[4]) \o Write(t[5]) \o WriteTag("@", t[6])
    \o Write(t[7]) \o <<";">>

WriteElement(t) ==
    CASE t[1] = "namespace" -> <<"namespace">> \o Write(t[2]) \o <<"{">> \o WriteAll(SubSeq(t, 3, Len(t))) \o <<"}">>
      [] t[1] = "auto" -> <<"auto">> \o WriteAll(SubSeq(t, 2, 4)) \o <<"=">> \o Write(t[5]) \o <<";">>
      [] t[1] = "type" -> <<"type">> \o Write(t[2]) \o <<"=">> \o Write(t[3]) \o <<";">>
      [] t[1] = "visibility" -> Write(t[2]) \o <<":">>
      [] t[1] = "mixin" -> <<"mixin">> \o InBrackets(Write(t[2])) \o <<";">>
      [] t[1] = "enum" -> <<"enum">> \o Write(t[2]) \o (IF Present(t[3]) THEN <<":">> \o Write(t[3]) ELSE <<>>)
            \o Write(t[4]) \o <<"{">> \o WriteList(SubSeq(t, 5, Len(t)), ",") \o <<",", "}">>

Operations == {"binary", "unary", "ternary", "subscript", "call", "await", "member", "initialization"}
KeywordExpressions == {"pointer", "operator", "move", "cast", "embed", "external", "typeinfo", "same_type", "lambda",
    "mixin expression"}
TypeNames == {"::", "scope", "parameterization", "array", "tup", "raw_pointer", "typeof", "fn", "coroutine", "non_sync"}
Initializers == {"constructor", "sequence", "struct_named", "member initializer"}

Write(t) ==
    IF IsLeaf(t) THEN CASE t[1] \in {"none", "", "args", "params", "modifiers"} -> <<>>
                        [] t[1] = "[]" -> <<"[", "]">> [] t[1] = "()" -> <<"(", ")">>
                        [] t[1] = "sequence" -> <<"[", "]">> [] t[1] = "struct_named" -> <<"{", "}">>
                        [] t[1] = "tup" -> <<"tup", "[", "]">>
                        [] OTHER -> t
    ELSE CASE t[1] \in Operations -> WriteOperator(t)
           [] t[1] \in KeywordExpressions -> WriteKeywordExpression(t)
           [] t[1] \in TypeNames -> WriteTypeName(t)
           [] t[1] \in Initializers -> WriteInitializer(t)
           [] t[1] = "args" -> WriteList(Parts(t), ",")
           [] t[1] \in {"name", "conversion name"} -> WriteList(Parts(t), "::")   \* the mark is not written
           [] t[1] = "this" -> WriteThis(t)
           [] t[1] = "param" -> WriteParam(t)
           [] t[1] = "modifiers" -> WriteAll(SubSeq(t, 2, Len(t) - 1)) \o WriteTag("enable_if", Last(t))
           [] t[1] = "function" -> WriteFunctionDeclaration(t)
           [] t[1] = "class" -> WriteClass(t)
           [] t[1] = "field" -> WriteField(t)
           [] t[1] = "var" -> WriteVariables(t)
           [] t[1] \in {"literal", "variable"} -> WriteAll(Parts(t))
           [] OTHER -> WriteElement(t)

\* What cpp_header_converter builds (u_ast_builder.cpp), and all other elements the writer has a complete text for.
ConvertedKinds == Operations \cup (KeywordExpressions \ {"lambda"}) \cup TypeNames \cup {"constructor", "sequence"}
    \cup {"args", "name", "this", "modifiers", "function", "class", "parents", "field", "var", "param", "params",
          "ending", "literal", "namespace", "auto", "type", "enum", "visibility"}

WrittenInitializer(t) == t[1] \in {"none", "constructor", "sequence"}

\* Parts of such elements that only source texts have: initializers with "=", virtual functions and coroutines,
\* inner references and tags of coroutine types, conditions of non_sync, parameters named "this", bodies.
PartsWritten(t) ==
    CASE t[1] = "var" -> \A i \in 1 .. (Len(t) - 2) \div 4 : WrittenInitializer(t[4 * i + 2])
      [] t[1] = "sequence" -> \A i \in 2 .. Len(t) : t[i] = <<"...">> \/ WrittenInitializer(t[i])
      [] t[1] = "field" -> t[8] = <<"none">>
      [] t[1] = "modifiers" -> t[2] = <<"none">> /\ t[3] = <<"none">>
      [] t[1] = "function" -> t[7][1] \in {"none", "default", "delete"}
      [] t[1] = "non_sync" -> Len(t) = 2
      [] t[1] = "coroutine" -> t[3][1] = "non_sync" /\ \A i \in 5 .. Len(t) : i \in {5, 8} => t[i] = <<"none">>
      [] t[1] = "param" -> t[5] # <<"this">>
      [] t[1] = "enum" -> Len(t) > 4
      [] t[1] = "name" -> t # <<"name", <<"">>>>
      [] t[1] = "typeinfo" -> t[2] = <<"typeinfo">>
      [] OTHER -> TRUE

RECURSIVE Convertible(_)
Convertible(t) ==
    IF IsLeaf(t) THEN t[1] \notin {"x^", "::^", ",^"}
    ELSE t[1] \in ConvertedKinds /\ PartsWritten(t) /\ \A i \in 2 .. Len(t) : Convertible(t[i])

\* The deleted default constructor of an opaque struct, which the converter builds without parameters.
None(n) == [i \in 1 .. n |-> <<"none">>]
DeletedDefaultConstructor(params) ==
    << "function", <<"fn">>, <<"modifiers">> \o None(6), <<"name", <<"constructor">> >>, params,
       <<"ending">> \o None(3) \o << <<"void">>, <<"none">> >>, <<"delete">> >>
GetDeletedDefaultConstructor == DeletedDefaultConstructor(<<"params">>)

RECURSIVE AsBuilt(_)
AsBuilt(t) ==
    IF IsLeaf(t) THEN t
    ELSE IF t = DeletedDefaultConstructor(<< "params", <<"this", <<"none">>, <<"mut">> >> >>) THEN GetDeletedDefaultConstructor
    ELSE [i \in 1 .. Len(t) |-> IF i = 1 THEN t[1] ELSE AsBuilt(t[i])]
=============================================================================
