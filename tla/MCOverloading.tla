--------------------------- MODULE MCOverloading ---------------------------
(* Classes, templates and families of functions for Overloading.            *)
EXTENDS Integers, Sequences

Syntax(kind, name, mods, parts) ==
    [kind |-> kind, name |-> name, mods |-> mods, parts |-> parts]

Name(n) == Syntax("name", n, <<>>, <<>>)
Named(n) == Syntax("named", n, <<>>, <<>>)
Value(n) == Syntax("value", n, <<>>, <<Named("size_type")>>)
ArrayOf(element, count) == Syntax("array", "", <<>>, <<element, count>>)
TupleOf(elements) == Syntax("tuple", "", <<>>, elements)
PointerTo(element) == Syntax("pointer", "", <<>>, <<element>>)
FunctionTo(return, param) == Syntax("function", "", <<"safe", "value">>, <<return, param>>)
Generator(return, sync) == Syntax("coroutine", "", <<"generator", sync>>, <<return>>)
Of(template, args) == Syntax("parameterization", template, <<>>, args)
Instance(id, args) == Syntax("instance", id, <<>>, args)

TypeParameter(n) == [name |-> n, kind |-> "type", type |-> {}]
TemplateParameter(n) == [name |-> n, kind |-> "template", type |-> {}]
SizeParameter(n) == [name |-> n, kind |-> "variable", type |-> {Name("size_type")}]
ValueParameter(n, t) == [name |-> n, kind |-> "variable", type |-> {Name(t)}]

Template(id, params, signature, defaults, alias) ==
    [id |-> id, params |-> params, signature |-> signature, defaults |-> defaults,
     alias |-> alias]

\* Box</T/>, Pair</T, U = i32/>, the overloaded Set</T/>, Set</[T, 2]/> and
\* Set</Box</T/>/>, the alias Two</T/> of [T, 2] and the alias Swapped</T, U/>.
SmallTemplates ==
    [Box |-> <<Template("Box", <<TypeParameter("T")>>, <<Name("T")>>, <<{}>>, {})>>,
     Pair |-> <<Template("Pair", <<TypeParameter("T"), TypeParameter("U")>>,
                         <<Name("T"), Name("U")>>, <<{}, {Name("i32")}>>, {})>>,
     Set |-> <<Template("Set1", <<TypeParameter("T")>>, <<Name("T")>>, <<{}>>, {}),
               Template("Set2", <<TypeParameter("T")>>,
                        <<ArrayOf(Name("T"), Value("2"))>>, <<{}>>, {}),
               Template("Set3", <<TypeParameter("T")>>,
                        <<Of("Box", <<Name("T")>>)>>, <<{}>>, {})>>,
     Two |-> <<Template("Two", <<TypeParameter("T")>>, <<Name("T")>>, <<{}>>,
                        {ArrayOf(Name("T"), Value("2"))})>>,
     Swapped |-> <<Template("Swapped", <<TypeParameter("T"), TypeParameter("U")>>,
                            <<Name("T"), Name("U")>>, <<{}, {}>>,
                            {Of("Pair", <<Name("U"), Name("T")>>)})>>]

\* Derived has the bases Middle (itself a Base) and Other.
SmallParents ==
    [Derived |-> {"Middle", "Other"}, Middle |-> {"Base"}, Other |-> {},
     Base |-> {}, Number |-> {}]

Param(type, ref) == [type |-> type, ref |-> ref]

Function(params) ==
    [params |-> params, template |-> FALSE, tparams |-> <<>>, known |-> <<>>,
     condition |-> {}, this_call |-> FALSE, constructor |-> FALSE, conversion |-> FALSE]

TemplateFunction(tparams, params) ==
    [Function(params) EXCEPT !.template = TRUE, !.tparams = tparams]

Constructor(class, param, conversion) ==
    [Function(<<Param(Named(class), "mut"), param>>) EXCEPT
        !.this_call = TRUE, !.constructor = TRUE, !.conversion = conversion]

\* A Number is converted from i32, and copied.
SmallConstructors ==
    [Number |-> {Constructor("Number", Param(Named("i32"), "value"), TRUE),
                 Constructor("Number", Param(Named("Number"), "imut"), FALSE)},
     Base |-> {Constructor("Base", Param(Named("Base"), "imut"), FALSE)}]

Method(class, ref, function) ==
    [function EXCEPT !.params = <<Param(Named(class), ref)>> \o @, !.this_call = TRUE]

MethodTemplate(class, ref, function) ==
    [function EXCEPT !.params = <<Param(Name(class), ref)>> \o @, !.this_call = TRUE]

SequenceOf(set, n) == [1..n -> set]

\* Functions of two references to classes of the hierarchy.
ClassFamily ==
    [declarations |->
        LET hierarchy == <<"Base", "Middle", "Other", "Derived">>
        IN  [n \in 1..16 |->
                Function(<<Param(Named(hierarchy[(n - 1) \div 4 + 1]), "imut"),
                           Param(Named(hierarchy[((n - 1) % 4) + 1]),
                                 IF n \in {2, 5, 11} THEN "mut" ELSE "imut")>>)],
     calls |-> {[args |-> <<Param(Named(c[1]), "mut"), Param(Named(c[2]), ref)>>,
                 this |-> FALSE, targs |-> <<>>] :
                    c \in SequenceOf({"Middle", "Derived"}, 2), ref \in {"imut", "mut"}}]

T == Name("T")
U == Name("U")
ForT == <<TypeParameter("T")>>
ForTU == <<TypeParameter("T"), TypeParameter("U")>>
ForTN == <<TypeParameter("T"), SizeParameter("N")>>

\* Functions and templates of one parameter.
TemplateFamily ==
    [declarations |->
        <<Function(<<Param(Named("i32"), "imut")>>),
          Function(<<Param(Named("Number"), "imut")>>),
          Function(<<Param(ArrayOf(Named("i32"), Value("2")), "imut")>>),
          TemplateFunction(ForT, <<Param(T, "imut")>>),
          TemplateFunction(ForT, <<Param(T, "mut")>>),
          TemplateFunction(ForTN, <<Param(ArrayOf(T, Name("N")), "imut")>>),
          TemplateFunction(ForT, <<Param(Of("Two", <<T>>), "imut")>>),
          TemplateFunction(<<SizeParameter("N")>>,
                           <<Param(ArrayOf(Name("i32"), Name("N")), "imut")>>),
          TemplateFunction(ForT, <<Param(Of("Box", <<T>>), "imut")>>),
          TemplateFunction(<<TemplateParameter("C"), TypeParameter("T")>>,
                           <<Param(Of("C", <<T>>), "imut")>>),
          TemplateFunction(ForTU, <<Param(Of("Swapped", <<T, U>>), "imut")>>),
          TemplateFunction(ForT, <<Param(Of("Pair", <<T>>), "imut")>>),
          TemplateFunction(ForT, <<Param(Of("Set", <<T>>), "imut")>>),
          TemplateFunction(ForT, <<Param(Generator(T, "sync"), "imut")>>),
          TemplateFunction(ForT, <<Param(PointerTo(T), "imut")>>),
          TemplateFunction(ForTU, <<Param(TupleOf(<<T, U>>), "imut")>>),
          TemplateFunction(ForT, <<Param(TupleOf(<<T, T>>), "imut")>>),
          TemplateFunction(ForTU, <<Param(FunctionTo(T, U), "imut")>>),
          TemplateFunction(ForT, <<Param(FunctionTo(T, Name("i32")), "imut")>>)>>,
     calls |->
        LET i32 == Named("i32")
            two == ArrayOf(i32, Value("2"))
        IN  {[args |-> <<Param(type, ref)>>, this |-> FALSE, targs |-> <<>>] :
                ref \in {"imut", "mut"},
                type \in {i32, two, Instance("Box", <<i32>>),
                          ArrayOf(i32, Value("3")), ArrayOf(two, Value("2")),
                          Instance("Pair", <<Named("Base"), i32>>),
                          Instance("Set2", <<two>>),
                          Instance("Set3", <<Instance("Box", <<i32>>)>>),
                          Generator(i32, "sync"), Generator(i32, "non_sync"),
                          PointerTo(i32), TupleOf(<<i32, i32>>), TupleOf(<<i32, two>>),
                          FunctionTo(i32, i32)}}]

\* Methods and static functions called through this, with conversions of
\* parameters that are deduced already and of known template arguments.
MethodFamily ==
    [declarations |->
        <<Function(<<>>),
          Function(<<Param(Named("Number"), "value")>>),
          Method("Base", "imut", Function(<<>>)),
          Method("Base", "mut", Function(<<>>)),
          Method("Middle", "imut", Function(<<Param(Named("i32"), "imut")>>)),
          Method("Base", "mut", Function(<<Param(Named("Number"), "imut")>>)),
          MethodTemplate("Base", "imut", TemplateFunction(ForT, <<Param(T, "imut")>>)),
          TemplateFunction(ForT, <<Param(T, "imut")>>),
          TemplateFunction(ForT, <<Param(T, "imut"), Param(T, "imut")>>),
          TemplateFunction(ForTU, <<Param(T, "imut"), Param(U, "mut")>>),
          TemplateFunction(<<ValueParameter("N", "T"), TypeParameter("T")>>,
                           <<Param(T, "imut")>>),
          [TemplateFunction(ForT, <<Param(T, "imut")>>) EXCEPT
              !.condition = {[name |-> "T", type |-> Named("i32")]}]>>,
     calls |->
        {[args |-> args, this |-> TRUE, targs |-> targs] :
            targs \in {<<>>, <<Named("Number")>>, <<Value("2")>>},
            args \in {<<Param(Named(class), ref)>> \o rest :
                         class \in {"Base", "Derived"}, ref \in {"imut", "mut"},
                         rest \in {<<>>, <<Param(Named("i32"), "value")>>,
                                   <<Param(Named("Number"), "mut")>>,
                                   <<Param(Named("Number"), "value"),
                                     Param(Named("i32"), "mut")>>}}}]

SmallFamilies ==
    [classes |-> ClassFamily, templates |-> TemplateFamily, methods |-> MethodFamily]
=============================================================================
