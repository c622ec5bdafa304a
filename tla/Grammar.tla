------------------------------- MODULE Grammar -------------------------------
(***************************************************************************)
(* The parsing functions of SyntaxAnalyzer (lex_synt_lib/                  *)
(* syntax_analyzer.cpp), one definition per function.  A function is the   *)
(* sequence of the steps it performs; SyntaxAnalyzer.tla executes them one *)
(* at a time.  A lexem is a string: the text of a fixed lexem or of a      *)
(* keyword, one of Names for any other identifier, and one string per kind *)
(* of literal.  A trailing ^ marks the lexems a completion request of the  *)
(* language server puts in place of the ordinary ones.  The values a       *)
(* function leaves behind are the syntax element it returns.               *)
(***************************************************************************)
EXTENDS Sequences, Naturals

CONSTANT Names        \* identifiers that are not keywords

Keywords == {"import", "fn", "op", "struct", "class", "template", "var", "thread_local", "auto",
    "static_assert", "enum", "type", "mixin", "namespace", "true", "false", "move", "take", "lambda",
    "cast_ref", "cast_ref_unsafe", "cast_imut", "cast_mut", "embed", "typeinfo", "same_type",
    "non_sync", "safe", "unsafe", "typeof", "tup", "generator", "async", "await", "mut", "imut",
    "constexpr", "call_conv", "nodiscard", "byval", "this", "zero_init", "uninitialized", "alloca",
    "return", "yield", "label", "while", "loop", "for", "break", "continue", "with", "if", "else",
    "static_if", "if_coro_advance", "switch", "default", "halt", "final", "polymorph", "interface",
    "abstract", "ordered", "virtual", "override", "pure", "nomangle", "enable_if", "delete",
    "conversion_constructor", "constructor", "destructor", "public", "private", "protected"}

\* Identifiers with a meaning in macro definitions only: contexts and kinds of macro variables.
MacroWords == {"expr", "block", "ident", "ty", "if_alternative", "opt", "rep"}

\* A keyword is an identifier for the functions that only ask for the lexem type.
Identifier == Names \cup MacroWords \cup Keywords

\* The steps.  S is a set of lexems, code a sequence of steps.
Expect(l) == <<"expect", l>>               \* ExpectLexem
Skip == <<"skip">>                         \* NextLexem
Take == <<"take">>                         \* keep the lexem, NextLexem
Mark(leaf) == <<"mark", leaf>>             \* a part that is absent or implied
Error == <<"error">>                       \* PushErrorMessage
Recover(S) == <<"recover", S>>             \* TryRecoverAfterError
Call(rule) == <<"call", rule>>
Goto(rule) == <<"goto", rule>>             \* "return Rule( what was parsed )"
Binary(p) == <<"binary", p>>               \* TryParseBinaryOperator<p>
RightPart(q, p) == <<"right", q, p>>
Return == <<"return">>
ReturnTwice == <<"return2">>
Break == <<"break">>
Continue == <<"continue">>
Node(kind) == <<"node", kind>>             \* make one element of the function's values
Change(how) == <<"change", how>>           \* make another element of the last one
If(S, then, else) == <<"if", S, then, else>>
IfNext(n, S, then, else) == <<"peek", S, then, else, n>>
Cases(cases, default) == <<"cases", cases, default>>
While(S, code) == <<"while", S, code>>     \* while( NotEndOfFile() && !S )
DoWhile(code) == <<"dowhile", {}, code>>

Opt(S, code) == If(S, code, <<>>)
Need(S) == If(S, <<>>, <<Error>>)
Must(S) == If(S, <<>>, <<Error, Return>>)
Keep(S) == If(S, <<Take>>, <<Mark("none")>>)
Tagged(S) == If(S, <<Skip, Call("ExpressionInBrackets")>>, <<Mark("none")>>)

Opening == {"(", "[", "{", "</"}
Closing(l) == CASE l = "(" -> ")" [] l = "[" -> "]" [] l = "{" -> "}" [] l = "</" -> "/>"

NamespaceControl == {"namespace", "class", "struct", "fn", "op", "var", "auto", "static_assert"}
ClassControl == {"class", "struct", "fn", "op", "var", "auto", "static_assert", "}"}
BlockControl == {"if", "static_if", "while", "return", "break", "continue", "var", "auto", "halt",
    "static_assert"}
ParamsControl == {",", ")"}
TemplateControl == {",", "/>"}

\* g_operators_by_priority_table
Operators == << {"||"}, {"&&"}, {"|"}, {"^"}, {"&"}, {"==", "!="}, {"<", "<=", ">", ">="}, {"<=>"},
    {"<<", ">>"}, {"+", "-"}, {"*", "/", "%"} >>
Compound == {"+=", "-=", "*=", "/=", "&=", "%=", "|=", "^=", "<<=", ">>="}

-----------------------------------------------------------------------------
\* Files, macro definitions, namespaces.

DoAnalyzis == << Call("Imports"), While({}, <<If({"?macro"}, <<Call("Macro")>>, <<Break>>)>>),
    Call("NamespaceBodyToFileEnd") >>

ParseImports == << While({}, << If({"import"}, <<Skip>>, <<Break>>),
    If({"\"s\""}, <<Skip>>, <<Error, Recover({"import", "\"s\""} \cup NamespaceControl)>>) >>) >>

ParseMacro == << Skip, Expect("<?"), Must(Identifier), Skip, Expect(":"), Must(Identifier), Skip,
    Call("MacroMatchBlock"), Expect("?>"), Expect("->"), Expect("<?"), Call("MacroResultBlock"),
    Expect("?>") >>

MacroLexems == {"?x", "??x", "<?", "?>"}
Separator == << Opt(MacroLexems, <<Error, Return>>), Skip, Expect("?>") >>

ParseMacroMatchBlock == << While({"?>"}, << Cases(<<
    << {"<?", "??x"}, <<Error, Return>> >>,
    << {"?x"}, << Skip, Expect(":"), Must(Identifier), Cases(<<
        << {"opt"}, <<Skip, Expect("<?"), Call("MacroMatchBlock"), Expect("?>")>> >>,
        << {"rep"}, <<Skip, Expect("<?"), Call("MacroMatchBlock"), Expect("?>"),
                      Opt({"<?"}, <<Skip>> \o Separator)>> >> >>, <<Skip>>) >> >> >>,
    <<Skip>>) >>) >>

ParseMacroResultBlock == << While({"?>"}, << Cases(<<
    << {"<?"}, <<Error, Return>> >>,
    << {"?x"}, << Skip, Opt({"<?"}, << Skip, Call("MacroResultBlock"), Expect("?>"),
                                       Opt({"<?"}, <<Skip>> \o Separator) >>) >> >> >>,
    <<Skip>>) >>) >>

\* The elements a namespace body and a class body have in common.
Declarations == <<
    << {"fn"}, <<Call("Function")>> >>, << {"op"}, <<Call("OperatorFunction")>> >>,
    << {"struct", "class"}, <<Call("Class")>> >>,
    << {"template"}, <<Call("Template")>> >>, << {"var"}, <<Call("VariablesDeclaration")>> >>,
    << {"thread_local"}, <<Call("ThreadLocalVariablesDeclaration")>> >>,
    << {"auto"}, <<Call("AutoVariableDeclaration")>> >>,
    << {"static_assert"}, <<Call("StaticAssert")>> >>, << {"enum"}, <<Call("Enum")>> >>,
    << {"type"}, <<Call("TypeAlias")>> >>, << {"mixin"}, <<Call("Mixin")>> >> >>

ParseNamespaceBodyImpl(end) == << While({}, << Cases(Declarations \o <<
    << {"namespace"}, <<Call("Namespace")>> >>, << {end}, <<Break>> >> >>,
    <<Error, Recover(NamespaceControl)>>) >>) >>

ParseNamespace == << Skip, If(Identifier, <<Take>>, <<Error>>),
    If({"{"}, <<Skip>>, <<Error, Recover(NamespaceControl)>>),
    Call("NamespaceBodyToNamespaceEnd"), Expect("}"), Node("namespace") >>

-----------------------------------------------------------------------------
\* Expressions.

ParseNumericConstant == << Take, Opt({"suffix"}, <<Take>>), Node("literal") >>

ParseExpression == << Binary(1) >>

\* TryParseBinaryOperator<p> unrolled: the component, then the right parts of the priorities from
\* the highest down to p.
TryParseBinaryOperator(p) == << Call("BinaryOperatorComponent"), RightPart(Len(Operators), p) >>

\* Mutant: the right operand may hold operators of the same priority.
RightPartFromRight(q, p, l) ==
    LET at == {k \in p .. q : l \in Operators[k]} IN
    IF at = {} THEN <<>>
    ELSE LET k == CHOOSE k \in at : TRUE IN
         << Take, <<"operand", k>>, <<"wrap">>, RightPart(k, p) >>

\* The right parts of the priorities q down to p, before lexem l.
TryParseBinaryOperatorRightPart(q, p, l) ==
    LET at == {k \in p .. q : l \in Operators[k]} IN
    IF at = {} THEN <<>>
    ELSE LET k == CHOOSE k \in at : TRUE IN
         << Take, <<"operand", k + 1>>, <<"wrap">>, RightPart(k, p) >>

ParseExpressionInBrackets == << Expect("("), Call("Expression"), Expect(")") >>

ParseBinaryOperatorComponent == << Call("BinaryOperatorComponentCore"), Goto("PostfixOperator") >>

TryParseBinaryOperatorComponentPostfixOperator == << Cases(<<
    << {"["}, <<Skip, Call("Expression"), Expect("]"), Node("subscript"), Goto("PostfixOperator")>> >>,
    << {"("}, <<Call("Call"), Node("call"), Goto("PostfixOperator")>> >>,
    << {"(^"}, <<Skip, Node("call_signature_help"), Goto("PostfixOperator")>> >>,
    << {"."}, << Skip, Cases(<<
        << {"await"}, <<Skip, Node("await"), Goto("PostfixOperator")>> >>,
        << Identifier, <<Take, Opt({"</"}, <<Call("TemplateArgs")>>), Node("member"),
                         Goto("PostfixOperator")>> >>,
        << {"x^"}, <<Skip>> >> >>, <<Error>>) >> >>,
    << {".^"}, <<Skip>> >>,
    << {"{"}, <<Call("StructNamedInitializer"), Node("initialization"), Goto("PostfixOperator")>> >>
    >>, <<>>) >>

ParseBinaryOperatorComponentCore == << Cases(<<
    << {"-", "!", "~"}, <<Take, Call("BinaryOperatorComponent"), Node("unary")>> >>,
    << {"::", "::^", "x^"}, <<Call("ComplexName")>> >>,
    << {"1", "1.0", "\"s\"", "'c'"}, <<Call("NumericConstant")>> >>,
    << {"("}, << Skip, Call("Expression"), Cases(<<
        << {")"}, <<Skip>> >>,
        << {"?"}, <<Skip, Call("Expression"), Expect(":"), Call("Expression"), Expect(")"),
                    Node("ternary")>> >> >>, <<Error>>) >> >>,
    << {"[", "$"}, <<Call("TypeName")>> >>,
    << {"$<", "$>"}, <<Take, Call("ExpressionInBrackets"), Node("pointer")>> >>,
    << Identifier, <<Goto("KeywordExpression")>> >> >>, <<Error>>) >>

\* The part of ParseBinaryOperatorComponentCore for identifiers.
KeywordExpression == << Cases(<<
    << {"true", "false"}, <<Take, Node("literal")>> >>,
    << {"move"}, <<Skip, Expect("("), Opt({"x^"}, <<Take, Return>>), Must(Identifier), Take,
                   Expect(")"), Node("move")>> >>,
    << {"take", "cast_imut", "cast_mut", "safe", "unsafe"},
       <<Take, Call("ExpressionInBrackets"), Node("operator")>> >>,
    << {"lambda"}, <<Call("Lambda")>> >>,
    << {"cast_ref", "cast_ref_unsafe"},
       <<Take, Call("TypeNameInTemplateBrackets"), Call("ExpressionInBrackets"), Node("cast")>> >>,
    << {"embed"}, <<Take, If({"</"}, <<Skip, Call("ComplexName"), Expect("/>")>>, <<Mark("none")>>),
                    Call("ExpressionInBrackets"), Node("embed")>> >>,
    << {"import"}, << Skip,
        If({"fn", "var"}, <<Take, Call("TypeNameInTemplateBrackets"), Expect("("),
            If({"\"s\""}, <<Take>>, <<Error>>), Expect(")"), Node("external"), Return>>, <<Error>>),
        Goto("TypeExpression") >> >> >>, <<Goto("TypeExpression")>>) >>

\* Its last tests, which an "import" that is not followed by fn or var falls through to.
TypeExpression == << Cases(<<
    << {"typeinfo", "non_sync"}, <<Take, Call("TypeNameInTemplateBrackets"), Node("typeinfo")>> >>,
    << {"same_type"}, <<Take, Expect("</"), Call("TypeName"), Expect(","), Call("TypeName"),
                        Expect("/>"), Node("same_type")>> >>,
    << {"safe", "unsafe"}, <<Take, Call("ExpressionInBrackets"), Node("operator")>> >>,
    << {"mixin"}, <<Call("ExpressionMixin")>> >>,
    << {"fn", "typeof", "tup", "generator", "async"}, <<Call("TypeName")>> >> >>,
    <<Call("ComplexName")>>) >>

-----------------------------------------------------------------------------
\* Types and names.

ParseTypeNameInTemplateBrackets == << Expect("</"), Call("TypeName"), Expect("/>") >>

ParseFunctionParam == << Call("TypeName"), Keep({"&"}),
    If(Identifier, <<>>, <<Error, Recover(ParamsControl), Return>>), Keep({"mut", "imut"}),
    If(Identifier, <<>>, <<Error, Recover(ParamsControl), Return>>), Take, Node("param") >>

\* The list of parameters of a function type, of a lambda and of a function.
ParamsList == << While({}, << Opt({")"}, <<Skip, Break>>), Call("FunctionParam"), Cases(<<
    << {","}, <<Skip, Opt({")"}, <<Error>>)>> >>, << {")"}, <<>> >> >>,
    <<Error, Recover(ParamsControl)>>) >>) >>

\* A missing return type is the type void.
ParseFunctionTypeEnding == << Tagged({"@"}), Keep({"unsafe"}), Tagged({"call_conv"}),
    If({":"}, << Skip, Call("TypeName"), Tagged({"@"}),
        If({"&"}, << Take,
            If({"mut", "imut"}, <<Take>>, <<Mark("none"), Opt(Identifier, <<Error, Skip>>)>>),
            Tagged({"@"}) >>, <<>>) >>,
        <<Mark("void"), Mark("none")>>), Node("ending") >>

ParseFunctionType == << Skip, Expect("(") >> \o ParamsList \o << Node("params"),
    Call("FunctionTypeEnding"), Node("fn") >>

CaptureList == << Opt({"&"}, <<Take>>), Cases(<< << Identifier \cup {"x^"}, <<Take>> >> >>, <<Error>>),
    Opt({"="}, <<Skip, Call("Expression")>>), If({","}, <<Skip, Continue>>, <<Break>>) >>

ParseLambda == << Skip, Keep({"nodiscard"}), Opt({"["}, << Skip, Cases(<<
        << {"="}, <<Take, Expect("]")>> >>,
        << {"&"}, <<IfNext(1, {"]"}, <<Take, Expect("]")>>, <<While({}, CaptureList), Expect("]")>>)>> >>,
        << {"]"}, <<Skip>> >> >>, <<While({}, CaptureList), Expect("]")>>) >>),
    Keep({"byval"}), Keep({"imut", "mut"}), Expect("(") >> \o ParamsList \o
    << Call("FunctionTypeEnding"), Call("Block"), Node("lambda") >>

ParseTypeName == << Cases(<<
    << {"["}, <<Skip, Call("TypeName"), Expect(","), Call("Expression"), Expect("]"), Node("array")>> >>,
    << {"("}, <<Skip, Call("TypeName"), Expect(")")>> >>,
    << {"tup"}, <<Goto("TupleType")>> >>,
    << {"$"}, <<Skip, Expect("("), Call("TypeName"), Expect(")"), Node("raw_pointer")>> >>,
    << {"generator", "async"}, <<Goto("CoroutineType")>> >>,
    << {"fn"}, <<Call("FunctionType")>> >>,
    << {"mixin"}, <<Call("ExpressionMixin")>> >> >>, <<Call("ComplexName")>>) >>

TupleType == << Skip, Expect("["), While({}, << Opt({"]"}, <<Skip, Break>>), Call("TypeName"),
    Opt({"]"}, <<Skip, Break>>), Must({","}), Skip, Opt({"]"}, <<Error, Return>>) >>), Node("tup") >>

InnerReferences == << Skip, If({")"}, <<Skip>>, <<While({}, <<
    If({"mut", "imut"}, <<Take>>, <<Error>>), If({","}, <<Skip>>, <<Break>>) >>), Expect(")")>>) >>

CoroutineType == << Take, Opt({"("}, InnerReferences), Call("NonSyncTag"), Expect(":"),
    Call("TypeName"), Tagged({"@"}),
    Opt({"&"}, << Take, Keep({"mut", "imut"}), Tagged({"@"}) >>), Node("coroutine") >>

ParseTemplateArgs == << Skip, While({}, << Opt({"/>"}, <<Skip, Break>>), Call("Expression"), Cases(<<
    << {","}, <<Skip, Opt({"/>"}, <<Error>>)>> >>, << {"/>"}, <<>> >> >>,
    <<Error, Recover(TemplateControl)>>) >>), Node("args") >>

ParseComplexName == << Cases(<<
    << {"::^", "x^"}, <<Take>> >>,
    << {"::"}, << Skip, Cases(<< << Identifier, <<Take, Node("::"), Goto("ComplexNameTailWithTemplateArgs")>> >>,
                                 << {"x^"}, <<Take>> >> >>, <<Error>>) >> >>,
    << {"typeof"}, <<Skip, Call("ExpressionInBrackets"), Node("typeof"), Goto("ComplexNameTail")>> >>,
    << Identifier, <<Take, Goto("ComplexNameTailWithTemplateArgs")>> >> >>, <<Error>>) >>

ParseComplexNameTail == << Cases(<<
    << {"::"}, << Skip, Cases(<<
        << Identifier, <<Take, Node("scope"), Goto("ComplexNameTailWithTemplateArgs")>> >>,
        << {"x^"}, <<Skip>> >> >>, <<Error>>) >> >>,
    << {"::^"}, <<Skip>> >> >>, <<>>) >>

TryParseComplexNameTailWithTemplateArgs ==
    << Opt({"</"}, <<Call("TemplateArgs"), Node("parameterization")>>), Goto("ComplexNameTail") >>

-----------------------------------------------------------------------------
\* Calls, initializers, variables.

ParseCall == << Expect("("), While({")"}, << Call("Expression"), Cases(<<
    << {","}, <<Skip, Opt({")"}, <<Error, Break>>)>> >>,
    << {",^"}, <<Take, ReturnTwice>> >> >>, <<Break>>) >>), Expect(")"), Node("args") >>

ParseInitializer(expressionAllowed) == << Cases(<<
    << {"["}, <<Call("SequenceInitializer")>> >>, << {"("}, <<Call("ConstructorInitializer")>> >>,
    << {"(^"}, <<Skip>> >>, << {"{"}, <<Call("StructNamedInitializer")>> >>,
    << {"zero_init", "uninitialized"}, <<Take>> >> >>,
    IF expressionAllowed THEN <<Call("Expression")>> ELSE <<Error>>) >>

ParseVariableInitializer == << Cases(<<
    << {"="}, <<Skip, If({"zero_init", "uninitialized"}, <<Take>>, <<Call("Expression")>>)>> >>,
    << {"(", "(^", "[", "{"}, <<Call("InitializerInBrackets")>> >> >>, <<Mark("none")>>) >>

\* A member must have an initializer.
MemberInitializer == << Need({"=", "(", "(^", "[", "{"}), Call("VariableInitializer") >>

ParseSequenceInitializer == << Skip, While({"]"}, << Call("Initializer"), Cases(<<
    << {","}, <<Skip>> >>, << {"..."}, <<Take, Break>> >> >>, <<Break>>) >>), Expect("]"),
    Node("sequence") >>

ParseStructNamedInitializer == << Skip, While({"}"}, << Cases(<<
    << {"."}, << Skip, Cases(<< << Identifier, <<Take>> \o MemberInitializer >>, << {"x^"}, <<Skip>> >> >>,
                             <<Error, Return>>) >> >>,
    << {".^"}, <<Skip>> >> >>, <<Error, Return>>),
    If({","}, <<Skip, Opt({"}"}, <<Break>>)>>, <<Break>>) >>), Expect("}"), Node("struct_named") >>

ParseConstructorInitializer == << Call("Call"), Node("constructor") >>

VariableModifiers == << Keep({"&"}), Must(Identifier), Keep({"mut", "imut", "constexpr"}), Must(Identifier), Take >>

ParseVariablesDeclaration == << Skip, Call("TypeName"), DoWhile(VariableModifiers \o
    << Call("VariableInitializer"), Cases(<< << {","}, <<Skip>> >>, << {";"}, <<Skip, Break>> >> >>,
    <<Error, Return>>) >>), Node("var") >>

ParseThreadLocalVariablesDeclaration == << Skip, Call("TypeName"), DoWhile(<< If(Identifier, <<Take>>,
    <<Error, Break>>), Call("VariableInitializer"), Cases(<< << {","}, <<Skip>> >>,
    << {";"}, <<Skip, Break>> >> >>, <<Error, Break>>) >>), Node("thread_local") >>

ParseAutoVariableDeclaration == << Skip >> \o VariableModifiers \o
    << Expect("="), Call("Expression"), Expect(";"), Node("auto") >>

ParseDecomposeDeclaration == << Skip, Call("DecomposeDeclarationComponent"), Expect("="),
    Call("Expression"), Expect(";"), Node("decompose") >>

FieldName(short) == If({":"}, <<Skip, If(Identifier \cup {"x^"}, <<Take>>, <<Error, Break>>)>>, short)

\* In the short form of a struct entry the component itself must be a name.
DecomposeEntry == << If({"[", "{"},
    << Call("DecomposeDeclarationComponent"), FieldName(<<Error, Break>>) >>,
    << Call("DecomposeDeclarationComponent"), FieldName(<<Mark("none")>>) >>) >>

ParseDecomposeDeclarationComponent == << Cases(<<
    << {"["}, << Skip, If({"]"}, <<Skip>>, <<While({}, << Call("DecomposeDeclarationComponent"),
        If({","}, <<Skip>>, <<Break>>) >>), Expect("]")>>), Node("sequence") >> >>,
    << {"{"}, << Skip, If({"}"}, <<Skip>>, <<While({}, DecomposeEntry \o
        << If({","}, <<Skip>>, <<Break>>) >>), Expect("}")>>), Node("struct") >> >>,
    << Identifier, <<Keep({"mut", "imut", "constexpr"}), Need(Identifier), Take, Node("name")>> >> >>,
    <<Error>>) >>

ParseAllocaDeclaration == << Skip, Call("TypeName"), If(Identifier, <<Take>>, <<Error>>), Expect("["),
    Call("Expression"), Expect("]"), Expect(";"), Node("alloca") >>

-----------------------------------------------------------------------------
\* Statements.

ParseReturnOperator == << Take, Opt({";"}, <<Skip, Node("return"), Return>>), Call("Expression"), Expect(";"),
    Node("return") >>

ParseYieldOperator == << Take, If({";"}, <<>>, <<Call("Expression")>>), Expect(";"), Node("yield") >>

TryParseLabel == << If({"label"}, <<Skip, Must(Identifier), Take>>, <<Mark("none")>>) >>

ParseWhileOperator ==
    << Skip, Call("ExpressionInBrackets"), Call("Label"), Call("Block"), Node("while") >>

ParseLoopOperator == << Skip, Call("Label"), Call("Block"), Node("loop") >>

\* The lexem after the bracket tells the two kinds of "for" apart.
ParseForOperator ==
    << IfNext(2, {"var", "auto", ";"}, <<Goto("CStyleForOperator")>>, <<Goto("RangeForOperator")>>) >>

\* ( & mut name : expression ) of "for", "with" and "if_coro_advance".
NamedExpression == << Expect("("), Keep({"&"}), Keep({"mut", "imut"}), Must(Identifier), Take,
    Expect(":"), Call("Expression"), Expect(")") >>

ParseRangeForOperator ==
    << Skip >> \o NamedExpression \o << Call("Label"), Call("Block"), Node("range_for") >>

IterationPart == << Cases(<< << {"++", "--"}, <<Take, Call("Expression")>> >> >>,
    << Call("Expression"), Opt({"="} \cup Compound, <<Take, Call("Expression")>>) >>),
    If({","}, <<Skip, Opt({")"}, <<Error, Return>>)>>, <<Break>>) >>

ParseCStyleForOperator == << Skip, Expect("("), Cases(<<
    << {"var"}, <<Call("VariablesDeclaration")>> >>,
    << {"auto"}, <<IfNext(1, {"[", "{"}, <<Call("DecomposeDeclaration")>>, <<Call("AutoVariableDeclaration")>>)>> >>,
    << {";"}, <<Skip>> >> >>, <<Error, Return>>),
    If({";"}, <<>>, <<Call("Expression")>>), Expect(";"), While({")"}, IterationPart), Expect(")"),
    Call("Label"), Call("Block"), Node("for") >>

ParseJump == << Take, Call("Label"), Expect(";"), Node("jump") >>

ParseWithOperator == << Skip >> \o NamedExpression \o << Call("Block"), Node("with") >>

\* "if" and "static_if".
ParseIfOperator == << Take, Call("ExpressionInBrackets"), Call("Block"), Call("IfAlternative"), Node("if") >>

ParseIfCoroAdvanceOperator ==
    << Skip >> \o NamedExpression \o << Call("Block"), Call("IfAlternative"), Node("if_coro_advance") >>

ParseSwitchOperator == << Skip, Call("ExpressionInBrackets"), Expect("{"), While({"}"}, <<
    If({"default"}, <<Take>>, << While({}, <<
        If({"..."}, <<>>, <<Call("Expression")>>),
        Opt({"..."}, <<Take, If({",", "->"}, <<>>, <<Call("Expression")>>)>>),
        If({","}, <<Skip>>, <<Break>>) >>) >>),
    Expect("->"), Call("Block"), If({","}, <<Skip>>, <<Break>>) >>), Expect("}"), Node("switch") >>

ParseStaticAssert == << Skip, Expect("("), Call("Expression"), Opt({","}, <<Skip, Need({"\"s\""}), Take>>),
    Expect(")"), If({";"}, <<Skip>>, <<Error>>), Node("static_assert") >>

ParseEnum == << Skip, Must(Identifier), Take, If({":"}, <<Skip, Call("ComplexName")>>, <<Mark("none")>>),
    Keep({"nodiscard"}), Expect("{"), While({}, << Must(Identifier), Take, Cases(<<
    << {","}, <<Skip, Opt({"}"}, <<Skip, Break>>)>> >>, << {"}"}, <<Skip, Break>> >> >>,
    <<Error, Return>>) >>), Node("enum") >>

ParseHalt == << Take, Cases(<< << {"if"}, <<Skip, Call("ExpressionInBrackets"), Expect(";")>> >>,
    << {";"}, <<Skip>> >> >>, <<Error>>), Node("halt") >>

\* A statement that starts with an expression; its last test leads to the next element.
ExpressionStatement == << Call("Expression"), Opt({"="} \cup Compound, <<Take, Call("Expression")>>),
    If({";"}, <<Skip>>, <<Error, Recover(BlockControl)>>) >>

ScopeBlock == << Keep({"safe", "unsafe"}), Call("Block"), Call("Label"), Node("scope_block") >>

ParseBlockElementsImpl(end) == << While({end}, << Cases(<<
    << {"var"}, <<Call("VariablesDeclaration")>> >>,
    << {"auto"}, <<IfNext(1, {"[", "{"}, <<Call("DecomposeDeclaration")>>, <<Call("AutoVariableDeclaration")>>)>> >>,
    << {"alloca"}, <<Call("AllocaDeclaration")>> >>, << {"return"}, <<Call("ReturnOperator")>> >>,
    << {"yield"}, <<Call("YieldOperator")>> >>, << {"while"}, <<Call("WhileOperator")>> >>,
    << {"loop"}, <<Call("LoopOperator")>> >>, << {"for"}, <<Call("ForOperator")>> >>,
    << {"break", "continue"}, <<Call("Jump")>> >>, << {"with"}, <<Call("WithOperator")>> >>,
    << {"if", "static_if"}, <<Call("IfOperator")>> >>,
    << {"if_coro_advance"}, <<Call("IfCoroAdvanceOperator")>> >>,
    << {"switch"}, <<Call("SwitchOperator")>> >>, << {"static_assert"}, <<Call("StaticAssert")>> >>,
    << {"type"}, <<Call("TypeAlias")>> >>, << {"halt"}, <<Call("Halt")>> >>,
    << {"mixin"}, <<Call("Mixin")>> >>,
    << {"safe", "unsafe"}, <<IfNext(1, {"{"}, <<Call("ScopeBlock")>>, ExpressionStatement)>> >>,
    << {"{"}, <<Call("ScopeBlock")>> >>,
    << {"++", "--"}, <<Take, Call("Expression"), Expect(";")>> >> >>, ExpressionStatement) >>) >>

\* Mutant: the end of the block is not required.
ParseOpenBlock == << Expect("{"), Call("BlockElementsToBlockEnd"), Opt({"}"}, <<Skip>>), Node("block") >>

ParseBlock == << Expect("{"), Call("BlockElementsToBlockEnd"), Expect("}"), Node("block") >>

TryParseIfAlternative == << Opt({"else"}, << Skip, Cases(<<
    << {"{"}, <<Call("Block")>> >>, << {"if", "static_if"}, <<Call("IfOperator")>> >>,
    << {"if_coro_advance"}, <<Call("IfCoroAdvanceOperator")>> >> >>, <<Error>>) >>) >>

-----------------------------------------------------------------------------
\* Classes, functions, templates.

TryParseClassKindAttribute == Keep({"final", "polymorph", "interface", "abstract"})

TryParseClassParentsList == If({":"}, << Skip, While({}, << Call("ComplexName"),
    If({","}, <<Skip, Continue>>, <<Break>>) >>) >>, <<>>)

ParseParents == << TryParseClassParentsList, Node("parents") >>

TryParseNonSyncTag == << If({"non_sync"}, << Take, Opt({"("}, <<Call("ExpressionInBrackets")>>) >>,
    <<Mark("none")>>), Node("non_sync") >>

ParseTypeAlias == << Skip, Must(Identifier), Take, Call("TypeAliasBody"), Node("type") >>

ParseTypeAliasBody == << Expect("="), Call("TypeName"), Expect(";") >>

VirtualKind == If({"virtual"}, << Skip, If({"override", "final", "pure"}, <<Take>>, <<Mark("virtual")>>) >>,
    <<Mark("none")>>)

FunctionModifiers == << VirtualKind, If({"generator", "async"}, <<Take, Call("NonSyncTag")>>, <<Mark("none")>>),
    Keep({"constexpr"}), Keep({"nomangle"}), Keep({"nodiscard"}), Tagged({"enable_if"}),
    Node("modifiers") >>

\* In "op A::+" the last component of the name is the operator.
FunctionName(isOp) == << IF isOp THEN Opt({"::"}, <<Mark(""), Skip>>)
        ELSE If({"::"}, <<Mark(""), Skip>>, <<Need(Identifier \cup {"::^", "x^"})>>),
    Opt({"::^", "x^"}, <<Skip, ReturnTwice>>),
    Opt(Identifier, << While({}, << Opt({"x^"}, <<Skip, ReturnTwice>>),
        If(Identifier, <<>>, <<Error, ReturnTwice>>), Take, Cases(<<
        << {"::"}, <<Skip, If(Identifier \cup {"x^"}, <<Continue>>,
                              IF isOp THEN <<Break>> ELSE <<Error, ReturnTwice>>)>> >>,
        << {"::^"}, <<Skip, ReturnTwice>> >> >>, <<Break>>) >>) >>) >>

OverloadableOperators == {"+", "-", "*", "/", "%", "==", "<=>", "&", "|", "^", "<<", ">>", "!", "~", "=", "++", "--"}
    \cup Compound

OperatorName == << Cases(<< << OverloadableOperators, <<Take>> >>,
    << {"["}, <<Skip, If({"]"}, <<Skip, Mark("[]")>>, <<Error, ReturnTwice>>)>> >>,
    << {"("}, <<Skip, If({")"}, <<Skip, Mark("()")>>, <<Error, ReturnTwice>>)>> >> >>,
    <<Error, ReturnTwice>>), Node("name") >>

\* A conversion constructor is a constructor with a mark.
ConversionConstructor(name) ==
    IF name[Len(name)] = <<"conversion_constructor">>
    THEN <<"conversion name">> \o SubSeq(name, 2, Len(name) - 1) \o << <<"constructor">> >>
    ELSE name

ParseFunctionName == FunctionName(FALSE) \o << Node("name"), Change("name") >>
ParseOperatorName == FunctionName(TRUE) \o OperatorName

ThisParam == << Keep({"byval"}), Keep({"mut", "imut"}), If({"this"}, <<Skip>>, <<Error>>), Node("this"),
    Opt({","}, <<Skip, Opt({")"}, <<Error>>)>>) >>

\* The parameters of a constructor or a destructor begin with a mutable "this", written or not.
ConstructorParams(name, params) ==
    IF name[Len(name)] \notin {<<"constructor">>, <<"destructor">>} THEN params
    ELSE IF Len(params) > 1 /\ params[2][1] = "this" THEN [params EXCEPT ![2] = <<"this", params[2][2], <<"mut">> >>]
    ELSE IF Len(params) > 1 /\ params[2][Len(params[2])] = <<"this">> THEN params
    ELSE << "params", <<"this", <<"none">>, <<"mut">> >> >> \o Tail(params)

FunctionParams == << Opt({"byval", "mut", "imut", "this"}, <<Call("ThisParam")>>) >> \o ParamsList
    \o << Node("params"), Change("params") >>

ConstructorInitializationList == << Skip, While({")"}, <<
    Cases(<< << Identifier \cup {"x^"}, <<Take>> >> >>, <<Error, Skip>>) >> \o MemberInitializer \o
    << If({","}, <<Skip, Opt({")"}, <<Break>>)>>, <<Break>>) >>), Expect(")"), Node("list") >>

FunctionBody == << Cases(<< << {";"}, <<Skip, Mark("none")>> >>,
    << {"="}, <<Skip, If({"default", "delete"}, <<Take>>, <<Error, Return>>), Expect(";")>> >> >>,
    << Opt({"("}, <<Call("ConstructorInitializationList")>>),
       If({"{"}, <<Call("Block")>>, <<Error>>) >>) >>

ParseFunction(isOp) == << Take, Call("FunctionModifiers"),
    Call(IF isOp THEN "OperatorName" ELSE "FunctionName"), Expect("("), Call("FunctionParams"),
    Call("FunctionTypeEnding"), Call("FunctionBody"), Node("function") >>

ClassAttributes(isClass) == (IF isClass THEN << TryParseClassKindAttribute, Call("Parents") >>
    ELSE << Mark("struct"), Mark("none") >>) \o << Call("NonSyncTag"), Keep({"ordered"}), Keep({"nodiscard"}) >>

ParseClass == << If({"class"},
    << Skip, Must(Identifier), Take >> \o ClassAttributes(TRUE),
    << Skip, Must(Identifier), Take >> \o ClassAttributes(FALSE)), Goto("ClassBody") >>

Visibility == {"public", "private", "protected"}

ClassField == << Call("TypeName"), Tagged({"@"}),
    If({"&"}, << Take, Keep({"mut", "imut", "constexpr"}), Tagged({"@"}) >>,
        << Mark("none"), Keep({"mut", "imut"}), Mark("none") >>),
    If(Identifier, <<Take>>, <<Error, Recover(ClassControl), Return>>),
    Call("VariableInitializer"), Node("field"),
    If({";"}, <<Skip>>, <<Error, Recover(ClassControl)>>) >>

ParseClassBodyElementsImpl(end) == << While({end}, << Cases(Declarations \o <<
    << Visibility, <<Call("VisibilityLabel")>> >> >>, <<Call("ClassField")>>) >>) >>

ParseVisibilityLabel == << Take, Expect(":"), Node("visibility") >>

ParseClassBody == << If({"{"}, <<Skip>>, <<Error, Return>>), Call("ClassBodyElementsToClassEnd"), Expect("}"),
    Node("class") >>

TemplateParams == << Expect("</"), While({}, << Opt({"/>"}, <<Skip, Break>>),
    If({"type"}, <<Take, Keep({"template"})>>, <<Call("TypeName"), Mark("none")>>),
    If(Identifier, <<>>, <<Error, ReturnTwice>>), Take, Cases(<<
    << {","}, <<Skip, Opt({"/>"}, <<Error>>)>> >>, << {"/>"}, <<>> >> >>,
    <<Error, Recover(TemplateControl)>>) >>), Node("params") >>

SignatureParams == << If({"</"}, << Skip, While({}, << Opt({"/>"}, <<Skip, Break>>), Call("Expression"),
    Opt({"="}, <<Skip, Call("Expression")>>), Cases(<<
    << {","}, <<Skip, Opt({"/>"}, <<Error>>)>> >>, << {"/>"}, <<>> >> >>,
    <<Error, Recover(TemplateControl)>>) >>) >>, <<Mark("none")>>), Node("signature") >>

ParseTemplate == << Skip, Call("TemplateParams"), Must(Identifier), Cases(<<
    << {"class"}, <<Skip, Must(Identifier), Take, Call("SignatureParams")>> \o ClassAttributes(TRUE)
        \o <<Call("ClassBody")>> >>,
    << {"struct"}, <<Skip, Must(Identifier), Take, Call("SignatureParams")>> \o ClassAttributes(FALSE)
        \o <<Call("ClassBody")>> >>,
    << {"type"}, <<Skip, Must(Identifier), Take, Call("SignatureParams"), Call("TypeAliasBody")>> >>,
    << {"fn"}, <<Call("Function")>> >>, << {"op"}, <<Call("OperatorFunction")>> >> >>, <<Error, Return>>),
    Node("template") >>

ParseMixin == << Skip, Call("ExpressionInBrackets"), Expect(";"), Node("mixin") >>
ParseExpressionMixin == << Skip, Call("ExpressionInBrackets"), Node("mixin expression") >>

\* What remains must be empty after a standalone type name or expression.
Standalone(rule) == << Call(rule), If({"eof"}, <<>>, <<Error>>) >>

Rules == [
    Program |-> DoAnalyzis, Imports |-> ParseImports, Macro |-> ParseMacro,
    MacroMatchBlock |-> ParseMacroMatchBlock, MacroResultBlock |-> ParseMacroResultBlock,
    NamespaceBodyToFileEnd |-> ParseNamespaceBodyImpl("eof"),
    NamespaceBodyToNamespaceEnd |-> ParseNamespaceBodyImpl("}"), Namespace |-> ParseNamespace,
    NumericConstant |-> ParseNumericConstant, Expression |-> ParseExpression,
    ExpressionInBrackets |-> ParseExpressionInBrackets,
    BinaryOperatorComponent |-> ParseBinaryOperatorComponent,
    PostfixOperator |-> TryParseBinaryOperatorComponentPostfixOperator,
    BinaryOperatorComponentCore |-> ParseBinaryOperatorComponentCore,
    KeywordExpression |-> KeywordExpression, TypeExpression |-> TypeExpression,
    TypeNameInTemplateBrackets |-> ParseTypeNameInTemplateBrackets,
    FunctionParam |-> ParseFunctionParam, FunctionTypeEnding |-> ParseFunctionTypeEnding,
    FunctionType |-> ParseFunctionType, Lambda |-> ParseLambda, TypeName |-> ParseTypeName,
    TupleType |-> TupleType, CoroutineType |-> CoroutineType, TemplateArgs |-> ParseTemplateArgs,
    ComplexName |-> ParseComplexName, ComplexNameTail |-> ParseComplexNameTail,
    ComplexNameTailWithTemplateArgs |-> TryParseComplexNameTailWithTemplateArgs, Call |-> ParseCall,
    Initializer |-> ParseInitializer(TRUE), InitializerInBrackets |-> ParseInitializer(FALSE),
    VariableInitializer |-> ParseVariableInitializer, SequenceInitializer |-> ParseSequenceInitializer,
    StructNamedInitializer |-> ParseStructNamedInitializer,
    ConstructorInitializer |-> ParseConstructorInitializer,
    VariablesDeclaration |-> ParseVariablesDeclaration,
    ThreadLocalVariablesDeclaration |-> ParseThreadLocalVariablesDeclaration,
    AutoVariableDeclaration |-> ParseAutoVariableDeclaration,
    DecomposeDeclaration |-> ParseDecomposeDeclaration,
    DecomposeDeclarationComponent |-> ParseDecomposeDeclarationComponent,
    AllocaDeclaration |-> ParseAllocaDeclaration, ReturnOperator |-> ParseReturnOperator,
    YieldOperator |-> ParseYieldOperator, Label |-> TryParseLabel, WhileOperator |-> ParseWhileOperator,
    LoopOperator |-> ParseLoopOperator, ForOperator |-> ParseForOperator,
    RangeForOperator |-> ParseRangeForOperator, CStyleForOperator |-> ParseCStyleForOperator,
    Jump |-> ParseJump, WithOperator |-> ParseWithOperator, IfOperator |-> ParseIfOperator,
    IfCoroAdvanceOperator |-> ParseIfCoroAdvanceOperator, SwitchOperator |-> ParseSwitchOperator,
    StaticAssert |-> ParseStaticAssert, Enum |-> ParseEnum, Halt |-> ParseHalt,
    ScopeBlock |-> ScopeBlock, BlockElementsToFileEnd |-> ParseBlockElementsImpl("eof"),
    BlockElementsToBlockEnd |-> ParseBlockElementsImpl("}"), Block |-> ParseBlock,
    IfAlternative |-> TryParseIfAlternative, Parents |-> ParseParents, NonSyncTag |-> TryParseNonSyncTag,
    TypeAlias |-> ParseTypeAlias, TypeAliasBody |-> ParseTypeAliasBody,
    FunctionModifiers |-> FunctionModifiers, FunctionName |-> ParseFunctionName,
    OperatorName |-> ParseOperatorName, FunctionParams |-> FunctionParams,
    ConstructorInitializationList |-> ConstructorInitializationList, FunctionBody |-> FunctionBody,
    Function |-> ParseFunction(FALSE),
    OperatorFunction |-> ParseFunction(TRUE), ThisParam |-> ThisParam, Class |-> ParseClass, ClassField |-> ClassField,
    ClassBodyElementsToFileEnd |-> ParseClassBodyElementsImpl("eof"),
    ClassBodyElementsToClassEnd |-> ParseClassBodyElementsImpl("}"),
    VisibilityLabel |-> ParseVisibilityLabel, ClassBody |-> ParseClassBody,
    TemplateParams |-> TemplateParams, SignatureParams |-> SignatureParams, Template |-> ParseTemplate,
    Mixin |-> ParseMixin, ExpressionMixin |-> ParseExpressionMixin,
    StandaloneTypeName |-> Standalone("TypeName"), StandaloneExpression |-> Standalone("Expression")]
=============================================================================
