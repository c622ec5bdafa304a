----------------------------- MODULE MCMangling -----------------------------
(***************************************************************************)
(* A program for the manglers: in the root a class, templates, an enum and *)
(* a namespace "foo" with others of the same names.                        *)
(***************************************************************************)
EXTENDS Integers, Sequences, SequencesExt, FiniteSets

NamedScope(name) == [s |-> "named", name |-> name, args |-> <<>>]
TemplateScope(name, args) == [s |-> "template", name |-> name, args |-> args]
LambdaScope(name, args) == [s |-> "lambda", name |-> name, args |-> args]

Foo == <<NamedScope("foo")>>
FundamentalType(name) == [t |-> "fundamental", name |-> name]
ClassType(path) == [t |-> "class", path |-> path]
EnumType(path) == [t |-> "enum", path |-> path]
ArrayType(of, count) == [t |-> "array", of |-> of, count |-> count]
TupleType(elements) == [t |-> "tuple", elements |-> elements]
PointerType(of) == [t |-> "pointer", of |-> of]
TypeinfoType(name, of) == [t |-> "typeinfo", name |-> name, of |-> of]
TypeArg(type) == [arg |-> "type", type |-> type]
ValueArg(type, value) == [arg |-> "value", type |-> type, value |-> value]
TemplateArg(name, scope) == [arg |-> "template", name |-> name, scope |-> scope]
Param(value_type, type) == [value_type |-> value_type, type |-> type]

Void == FundamentalType("void")
I32 == FundamentalType("i32")
U32 == FundamentalType("u32")
Alpha == ClassType(<<NamedScope("Alpha")>>)
FooAlpha == ClassType(Foo \o <<NamedScope("Alpha")>>)
FooBeta == EnumType(Foo \o <<NamedScope("Beta")>>)
BoxOf(scope, args) == ClassType(scope \o <<TemplateScope("Box", args)>>)
FooBox == BoxOf(Foo, <<TypeArg(FooAlpha)>>)

Fundamentals == {FundamentalType(n) : n \in {
  "void", "bool", "i8", "u8", "i16", "u16", "i32", "u32", "i64", "u64", "i128", "u128", "ssize_type", "size_type",
  "f32", "f64", "char8", "char16", "char32", "byte8", "byte16", "byte32", "byte64", "byte128"}}
BasicTypes == {Void, I32, Alpha, FooAlpha, FooBeta}

PairI32 == TupleType(<<I32, I32>>)
TemplateArguments ==
  {TypeArg(t) : t \in BasicTypes \cup {ArrayType(I32, 1), FooBox}}
  \cup {ValueArg(t, <<v>>) : t \in {I32, U32, FooBeta}, v \in {0, 1, 11, 26}} \cup {ValueArg(I32, <<-1>>)}
  \cup {ValueArg(ArrayType(I32, 2), <<0, v>>) : v \in {0, 1}} \cup {ValueArg(PairI32, <<0, v>>) : v \in {0, 1}}
  \cup {TemplateArg("Box", <<>>), TemplateArg("Box", Foo)}

\* Arguments of which two might be read in more than one way
ConfusableArguments ==
  {TypeArg(I32), TypeArg(Alpha), TypeArg(FooAlpha), ValueArg(I32, <<1>>), ValueArg(U32, <<0>>), TemplateArg("Box", Foo),
   ValueArg(ArrayType(I32, 2), <<0, 1>>)}

Boxes == {BoxOf(scope, <<a>>) : scope \in {<<>>, Foo}, a \in TemplateArguments}
         \cup {BoxOf(<<>>, <<a, b>>) : a, b \in ConfusableArguments}
\* Classes in classes of templates
Nested == {ClassType(<<TemplateScope("Box", <<a>>), NamedScope("Alpha")>>) : a \in TemplateArguments}
          \cup {BoxOf(<<TemplateScope("Box", <<TypeArg(a)>>)>>, <<TypeArg(b)>>) : a, b \in BasicTypes}
Lambdas == {ClassType(<<LambdaScope("_lambda_1", <<>>)>>), ClassType(Foo \o <<LambdaScope("_lambda_2", <<>>)>>)}
           \cup {ClassType(Foo \o <<LambdaScope("_lambda_3", <<a>>)>>) : a \in TemplateArguments}

Reference(param, itself) == [param |-> param, itself |-> itself, tag |-> 0]
References == {<<>>, <<Reference(0, TRUE)>>, <<Reference(0, FALSE)>>, <<Reference(0, FALSE), Reference(1, FALSE)>>}
Pollution == {<<>>, <<[dst |-> Reference(0, FALSE), src |-> Reference(1, TRUE)]>>}

FunctionType(ret, params) ==
  [convention |-> "default", ret |-> ret, params |-> params, unsafe |-> FALSE, references_pollution |-> <<>>,
   return_references |-> <<>>, return_inner_references |-> <<>>]
FunctionPointer(function) == [t |-> "function", function |-> function]

SmallParams == {Param(v, t) : v \in {"value", "mut", "imut"}, t \in {Void, I32, FooAlpha}}
FunctionTypes ==
  {FunctionType(ret, params) : ret \in SmallParams, params \in BoundedSeq(SmallParams, 1)}
  \cup {FunctionType(Param("value", Void), params) : params \in BoundedSeq(SmallParams, 2)}
  \cup {[FunctionType(Param("value", Void), <<Param("imut", Alpha)>>) EXCEPT !.convention = c, !.unsafe = u] :
        c \in {"default", "C", "fast", "cold", "system"}, u \in BOOLEAN}
  \cup {[FunctionType(Param("value", Void), params) EXCEPT !.unsafe = u, !.references_pollution = p,
                                                         !.return_references = r, !.return_inner_references = i] :
        params \in {<<>>, <<Param("value", Void)>>}, u \in BOOLEAN, p \in Pollution, r \in References,
        i \in {<<>>, <<<<>>>>, <<<<Reference(0, FALSE)>>>>}}
Coroutines ==
  {[t |-> "coroutine", name |-> name, ret |-> Param(v, FooAlpha), non_sync |-> n, inner_references |-> i,
    return_references |-> r, return_inner_references |-> <<>>] :
   name \in {"generator", "async_function"}, v \in {"value", "mut", "imut"}, n \in BOOLEAN,
   i \in {<<>>, <<0>>, <<1>>}, r \in {<<>>, <<Reference(0, FALSE)>>}}

SmallTypes ==
  Fundamentals \cup BasicTypes \cup Boxes \cup Nested \cup Lambdas \cup Coroutines
  \cup {FunctionPointer(f) : f \in FunctionTypes}
  \cup {ArrayType(t, n) : t \in BasicTypes \cup {ArrayType(I32, 2), FooBox}, n \in {0, 2, 11}}
  \cup {PointerType(t) : t \in BasicTypes \cup {PointerType(Alpha), FooBox}}
  \cup {TupleType(e) : e \in BoundedSeq(BasicTypes \cup {PairI32, ArrayType(I32, 2)}, 2)}
  \cup {TypeinfoType("_typeinfo_class", t) : t \in BasicTypes \cup {FooBox}}

----------------------------------------------------------------------------
Function(scope, name, template_args, params) ==
  [is |-> "function", scope |-> scope, name |-> name, template_args |-> template_args,
   type |-> FunctionType(Param("value", Void), params)]

Scopes == {<<>>, Foo, Alpha.path, FooAlpha.path, FooBox.path, FooBox.path \o <<NamedScope("Alpha")>>}
          \cup {<<[s |-> "coroutine", type |-> c]>> : c \in {c \in Coroutines : c.return_references = <<>>}}
          \cup {l.path : l \in Lambdas}

OverloadedParams == {Param(v, t) : v \in {"value", "mut", "imut"},
                     t \in {Void, I32, FooAlpha, FooBox, BoxOf(<<>>, <<TypeArg(FooBox)>>), PointerType(FooAlpha)}}
Operators == {"+", "-", "*", "/", "%", "==", "<=>", "&", "|", "^", "<<", ">>", "+=", "-=", "*=", "/=", "%=", "&=", "|=",
              "^=", "<<=", ">>=", "!", "~", "=", "++", "--", "()", "[]"}

SmallSymbols ==
  {Function(<<>>, "f", {}, params) : params \in BoundedSeq(OverloadedParams, 2)}
  \cup {Function(Foo, "f", {}, params) : params \in BoundedSeq({Param("imut", FooAlpha), Param("imut", Alpha),
                                                                Param("value", FooBox)}, 4)}
  \cup {Function(scope, "constructor", {}, <<Param("mut", t)>>) : scope \in Scopes, t \in {Void, Alpha}}
  \cup {Function(Alpha.path, op, {}, <<Param("imut", Alpha)>>) : op \in Operators}
  \cup {Function(scope, name, {<<a>>}, <<p>>) : scope \in {<<>>, Foo}, name \in {"f"},
        a \in TemplateArguments, p \in {Param("value", Void), Param("value", FooAlpha), Param("imut", FooBox)}}
  \cup {Function(<<>>, "f", {<<a, b>>}, <<>>) : a, b \in ConfusableArguments}
  \cup {[is |-> "variable", scope |-> scope, name |-> name, type |-> I32, constant |-> name = "c"] :
        scope \in Scopes, name \in {"v", "c"}}
  \cup {[is |-> "table", type |-> t] : t \in {Alpha, FooAlpha} \cup Boxes \cup Nested}
=============================================================================
