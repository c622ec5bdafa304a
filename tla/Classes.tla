------------------------------- MODULE Classes -------------------------------
(***************************************************************************)
(* Polymorphic classes of compiler0: how GlobalThingBuildClass builds a    *)
(* class from its parents (cb_global_things_build.cpp), how cb_virtual.cpp *)
(* lays out virtual tables and sets the table pointers of an object, and   *)
(* what a virtual call finds through them.                                 *)
(*                                                                         *)
(* A behaviour declares one class after another and stops at the first     *)
(* error.  A method is a name together with the types of its parameters    *)
(* (the pair that VirtuallyEquals compares); all methods but the           *)
(* destructor are overloads of one name, and all members are public.       *)
(* Indices that the code initialises with ~0u start at 1 here and 0 stands *)
(* for ~0u; a field number starts at 0, as in the code.                    *)
(***************************************************************************)
EXTENDS Integers, Sequences, FiniteSets, SequencesExt

CONSTANTS
  MethodOrder,      \* the methods, in the order of their mangled names
  DeclarationsOf(_) \* the class declarations to consider after n classes

VARIABLES
  classes,   \* the complete classes, in the order of their declaration
  errors     \* the errors of the last declared class

vars == <<classes, errors>>

Destructor == "destructor"
OwnMethods == ToSet(MethodOrder) \ {Destructor}
DefiningKinds == {"DeclareVirtual", "VirtualOverride", "VirtualFinal"}
VirtualKinds == DefiningKinds \cup {"VirtualPure"}
PolymorphKinds == {"Interface", "Abstract", "PolymorphNonFinal", "PolymorphFinal"}

\* A declaration: the kind attribute, the parents, and for every declared method its virtual kind
Declaration(attribute, parents, methods) == [attribute |-> attribute, parents |-> parents, methods |-> methods]

-----------------------------------------------------------------------------
(* The parents of a class *)

\* GlobalThingPrepareClassParentsList: a repeated parent is an error and is left out
ParentsList(decl) == FoldLeft(LAMBDA list, p : IF Contains(list, p) THEN list ELSE Append(list, p), <<>>, decl.parents)
ParentsListErrors(decl) == IF Len(ParentsList(decl)) < Len(decl.parents) THEN {"DuplicatedParentClass"} ELSE {}

\* The check of the parents at the beginning of GlobalThingBuildClass, which returns at the first error
Bases(parents) == {p \in ToSet(parents) : classes[p].kind # "Interface"}
ParentsErrors(parents) ==
  IF \E p \in ToSet(parents) : classes[p].kind \notin {"Abstract", "Interface", "PolymorphNonFinal"}
  THEN {"CanNotDeriveFromThisType"}
  ELSE IF Cardinality(Bases(parents)) > 1 THEN {"DuplicatedBaseClass"} ELSE {}
BaseClass(parents) == IF Bases(parents) = {} THEN 0 ELSE CHOOSE p \in Bases(parents) : TRUE

\* The class is polymorphic before its exact kind is known
PreKind(decl) ==
  IF decl.attribute \in {"Polymorph", "Interface", "Abstract"} \/ decl.parents # <<>>
  THEN "PolymorphNonFinal" ELSE "NonPolymorph"

\* Mutant: the fields follow the order of the parents.
FieldNumbersInOrder(parents, base) == [i \in DOMAIN parents |-> [class_ |-> parents[i], field_number |-> i - 1]]

\* The base is the first field, the interfaces follow
FieldNumbers(parents, base) ==
  [i \in DOMAIN parents |->
     [class_ |-> parents[i],
      field_number |-> IF parents[i] = base THEN 0
                       ELSE Cardinality({j \in 1..(i - 1) : parents[j] # base}) + (IF base # 0 THEN 1 ELSE 0)]]

-----------------------------------------------------------------------------
(* PrepareClassVirtualTable *)

Borrow(entry, index, parent) ==
  [entry EXCEPT !.index_in_table = index, !.parent_virtual_table_index = parent]

\* The table of the parent with offset 0, whose table pointer the class reuses
FirstParentTable(parents) ==
  IF parents = <<>> THEN <<>>
  ELSE LET i == CHOOSE i \in DOMAIN parents : parents[i].field_number = 0
           table == classes[parents[i].class_].virtual_table
       IN [k \in DOMAIN table |-> Borrow(table[k], k, i)]

InTable(table, method) == \E k \in DOMAIN table : table[k].method = method
IndexIn(table, method) ==
  IF InTable(table, method) THEN CHOOSE k \in DOMAIN table : table[k].method = method ELSE 0

\* What a parent with another offset adds
WithParentTable(table, parents, i) ==
  LET other == classes[parents[i].class_].virtual_table
  IN FoldLeftDomain(LAMBDA t, k : IF InTable(t, other[k].method) THEN t ELSE Append(t, Borrow(other[k], k, i)),
                    table, other)

ParentsTable(parents) ==
  FoldLeftDomain(LAMBDA t, i : IF parents[i].field_number = 0 THEN t ELSE WithParentTable(t, parents, i),
                 FirstParentTable(parents), parents)

\* The table of a class being prepared, the functions seen so far, the number of entries of its
\* own, and the errors
Prepared(table, functions, own, errs) == [table |-> table, functions |-> functions, own |-> own, errs |-> errs]

Error(p, e) == [p EXCEPT !.errs = @ \cup {e}]

\* A function that introduces an entry
NewEntry(p, this, method, pure) ==
  Prepared(Append(p.table, [method |-> method, function |-> this, is_pure |-> pure, is_final |-> FALSE,
                            index_in_table |-> p.own + 1, parent_virtual_table_index |-> 0]),
           p.functions \cup {[method |-> method, this |-> this, virtual_table_index |-> Len(p.table) + 1]},
           p.own + 1, p.errs)

\* A function that takes the place of another in an entry
Override(p, this, method, k, final) ==
  Prepared([p.table EXCEPT ![k].function = this, ![k].is_pure = FALSE, ![k].is_final = @ \/ final],
           p.functions \cup {[method |-> method, this |-> this, virtual_table_index |-> k]},
           p.own, p.errs)

NotVirtual(p, this, method) ==
  [p EXCEPT !.functions = @ \cup {[method |-> method, this |-> this, virtual_table_index |-> 0]}]

\* One function of the class, k the index of the entry it corresponds to
ProcessFunction(p, this, method, kind, k) ==
  CASE kind = "None" /\ method = Destructor ->
         IF k # 0 THEN Override(p, this, method, k, FALSE) ELSE NewEntry(p, this, method, FALSE)
    [] kind = "None" /\ method # Destructor ->
         IF k # 0 THEN Error(NotVirtual(p, this, method), "VirtualRequired") ELSE NotVirtual(p, this, method)
    [] kind = "DeclareVirtual" ->
         IF k # 0 THEN Error(p, "OverrideRequired") ELSE NewEntry(p, this, method, FALSE)
    [] kind = "VirtualPure" ->
         IF k # 0 THEN Error(p, "OverrideRequired") ELSE NewEntry(p, this, method, TRUE)
    [] kind \in {"VirtualOverride", "VirtualFinal"} /\ k = 0 ->
         Error(p, IF kind = "VirtualFinal" THEN "FinalForFirstVirtualFunction" ELSE "FunctionDoesNotOverride")
    [] kind \in {"VirtualOverride", "VirtualFinal"} /\ k # 0 ->
         IF p.table[k].is_final THEN Error(p, "OverrideFinalFunction")
         ELSE Override(p, this, method, k, kind = "VirtualFinal")

\* The functions of a class: those declared, and the destructor, generated when none is declared
DeclaredMethods(decl) ==
  SelectSeq(MethodOrder, LAMBDA m : m = Destructor \/ m \in DOMAIN decl.methods)
KindOf(decl, method) == IF method = Destructor THEN "None" ELSE decl.methods[method]

PrepareClassVirtualTable(decl, this, parents) ==
  FoldLeft(LAMBDA p, m : ProcessFunction(p, this, m, KindOf(decl, m), IndexIn(p.table, m)),
           Prepared(ParentsTable(parents), {}, 0, {}), DeclaredMethods(decl))

\* A class that is not polymorphic has no table and may declare no virtual function
WithoutVirtualTable(decl, this) ==
  Prepared(<<>>,
           {[method |-> m, this |-> this, virtual_table_index |-> 0] : m \in ToSet(DeclaredMethods(decl))}, 0,
           IF \E m \in DOMAIN decl.methods : decl.methods[m] \in VirtualKinds THEN {"VirtualForNonpolymorphClass"} ELSE {})

-----------------------------------------------------------------------------
(* The end of GlobalThingBuildClass *)

HasPure(p) == \E k \in DOMAIN p.table : p.table[k].is_pure

\* The kind attribute against the actual properties of the class
Kind(decl, parents, pure) ==
  CASE decl.attribute = "Interface" -> "Interface"
    [] decl.attribute = "Abstract" -> "Abstract"
    [] decl.attribute \in {"Class", "Final", "Polymorph"} ->
         IF pure THEN "Abstract"
         ELSE IF decl.attribute = "Polymorph" THEN "PolymorphNonFinal"
         ELSE IF parents = <<>> THEN "NonPolymorph"
         ELSE IF decl.attribute = "Final" THEN "PolymorphFinal" ELSE "PolymorphNonFinal"

KindErrors(decl, p, base) ==
  (IF decl.attribute \in {"Class", "Final", "Polymorph"} /\ HasPure(p)
   THEN {"ClassContainsPureVirtualFunctions"} ELSE {})
  \cup (IF decl.attribute = "Interface" /\ base # 0 THEN {"BaseClassForInterface"} ELSE {})
  \cup (IF decl.attribute = "Interface" /\ \E k \in DOMAIN p.table : ~p.table[k].is_pure /\ p.table[k].method # Destructor
        THEN {"NonPureVirtualFunctionInInterface"} ELSE {})

\* All virtual functions of a final class are final
FinalTable(decl, table) ==
  IF decl.attribute = "Final" THEN [k \in DOMAIN table |-> [table[k] EXCEPT !.is_final = TRUE]] ELSE table

\* The functions sets of the parents are merged into that of the class; destructors are not inherited
InheritedFunctions(parents) ==
  {f \in UNION {classes[parents[i].class_].functions : i \in DOMAIN parents} : f.method # Destructor}

ClassOf(decl, parents, base, p) ==
  [kind |-> Kind(decl, parents, HasPure(p)), base_class |-> base, parents |-> parents,
   virtual_table |-> FinalTable(decl, p.table),
   functions |-> p.functions \cup InheritedFunctions(parents),
   methods |-> decl.methods]

Complete(decl, parents, base, p) ==
  /\ classes' = Append(classes, ClassOf(decl, parents, base, p))
  /\ errors' = ParentsListErrors(decl) \cup p.errs \cup KindErrors(decl, p, base)

BuildClassFrom(decl, parents, base) ==
  Complete(decl, parents, base,
           IF PreKind(decl) = "NonPolymorph" THEN WithoutVirtualTable(decl, Len(classes) + 1)
           ELSE PrepareClassVirtualTable(decl, Len(classes) + 1, parents))

BuildClass(decl) ==
  IF ParentsErrors(ParentsList(decl)) # {}
  THEN errors' = ParentsErrors(ParentsList(decl)) \cup ParentsListErrors(decl) /\ UNCHANGED classes
  ELSE BuildClassFrom(decl, FieldNumbers(ParentsList(decl), BaseClass(ParentsList(decl))), BaseClass(ParentsList(decl)))

Init == classes = <<>> /\ errors = {}
Next == errors = {} /\ \E decl \in DeclarationsOf(Len(classes)) : BuildClass(decl)
Spec == Init /\ [][Next]_vars

-----------------------------------------------------------------------------
(***************************************************************************)
(* Objects.  An address is the sequence of the non-zero steps, <<class,    *)
(* field>>, from the beginning of the object; a place in a virtual table   *)
(* is the sequence of the fields that lead to it.                          *)
(***************************************************************************)
NoFunction == 0
NoAddress == << <<0, 0>> >>

RECURSIVE ReferenceIsConvertibleTo(_, _)
ReferenceIsConvertibleTo(src, dst) ==
  src = dst \/ \E i \in DOMAIN classes[src].parents : ReferenceIsConvertibleTo(classes[src].parents[i].class_, dst)

\* CreateClassFieldGEP
FieldAddress(address, class, field_number) ==
  IF field_number = 0 THEN address ELSE Append(address, <<class, field_number>>)

\* CreateReferenceCast: through the first parent that leads to the destination
RECURSIVE CreateReferenceCast(_, _, _)
CreateReferenceCast(ref, src, dst) ==
  IF src = dst THEN ref
  ELSE LET parents == classes[src].parents
           i == CHOOSE i \in DOMAIN parents :
                  /\ ReferenceIsConvertibleTo(parents[i].class_, dst)
                  /\ \A j \in 1..(i - 1) : ~ReferenceIsConvertibleTo(parents[j].class_, dst)
       IN CreateReferenceCast(FieldAddress(ref, src, parents[i].field_number), parents[i].class_, dst)

\* PrepareClassVirtualTableType: the table of the parent with offset 0 comes first, those of the
\* other parents follow, then the functions; without parents, an offset and a type id come first
TableField(parents, i) ==
  IF parents[i].field_number = 0 THEN 0
  ELSE 1 + Cardinality({j \in 1..(i - 1) : parents[j].field_number # 0})
FunctionsField(class) == IF classes[class].parents = <<>> THEN 2 ELSE Len(classes[class].parents)

\* BuildClassVirtualTable_r: the tables inside the table of an object of class dst, with the offset
\* that a table without parents stores and with its own functions
OwnFunctions(ancestor, dst) ==
  LET own == SelectSeq(classes[ancestor].virtual_table, LAMBDA e : e.parent_virtual_table_index = 0)
      table == classes[dst].virtual_table
  IN [k \in DOMAIN own |->
        IF InTable(table, own[k].method) THEN table[IndexIn(table, own[k].method)].function ELSE own[k].function]

RECURSIVE BuildClassVirtualTable(_, _, _, _)
BuildClassVirtualTable(ancestor, dst, offset, place) ==
  LET parents == classes[ancestor].parents
  IN {[class |-> ancestor, place |-> place, offset |-> offset, functions |-> OwnFunctions(ancestor, dst)]}
     \cup UNION {BuildClassVirtualTable(parents[i].class_, dst, FieldAddress(offset, ancestor, parents[i].field_number),
                                        Append(place, TableField(parents, i))) : i \in DOMAIN parents}

VirtualTable(dst) == BuildClassVirtualTable(dst, dst, <<>>, <<>>)

\* SetupVirtualTablePointers_r: the pointers to tables in an object, stored by classes without parents
RECURSIVE SetupVirtualTablePointers(_, _, _)
SetupVirtualTablePointers(this, place, class) ==
  LET parents == classes[class].parents
  IN IF parents = <<>> THEN {[at |-> this, place |-> place]}
     ELSE UNION {SetupVirtualTablePointers(FieldAddress(this, class, parents[i].field_number),
                                           Append(place, TableField(parents, i)), parents[i].class_) : i \in DOMAIN parents}

\* The table that a pointer leads to when it is read as one of a class: a table begins where the
\* first table inside it begins
IsBeginningOf(place, inner) == IsPrefix(place, inner) /\ \A k \in (Len(place) + 1)..Len(inner) : inner[k] = 0
LoadTable(object, address, class) ==
  LET pointers == {p \in SetupVirtualTablePointers(<<>>, <<>>, object) : p.at = address}
  IN {t \in VirtualTable(object) : t.class = class /\ \E p \in pointers : IsBeginningOf(t.place, p.place)}
RootOf(object, table) ==
  CHOOSE t \in VirtualTable(object) : classes[t.class].parents = <<>> /\ IsBeginningOf(table.place, t.place)

-----------------------------------------------------------------------------
(* TryFetchVirtualFunction *)

\* The loop that finds the table of the class that declared the function first, and its entry there
RECURSIVE FunctionTable(_, _, _)
FunctionTable(class, entry, place) ==
  IF entry.parent_virtual_table_index = 0 THEN [class |-> class, index |-> entry.index_in_table, place |-> place]
  ELSE LET i == entry.parent_virtual_table_index
           next == classes[class].parents[i].class_
       IN FunctionTable(next, classes[next].virtual_table[entry.index_in_table],
                        Append(place, TableField(classes[class].parents, i)))

\* The number of the field with the functions is taken from the class of the call when the class
\* that declared the function has parents
FunctionsFieldNumber(function_class, class) ==
  IF classes[function_class].parents = <<>> THEN 2 ELSE Len(classes[class].parents)

LoadFunction(object, found, class) ==
  LET tables == {t \in VirtualTable(object) : t.class = found.class /\ t.place = found.place}
  IN IF tables = {} \/ FunctionsFieldNumber(found.class, class) # FunctionsField(found.class) THEN NoFunction
     ELSE (CHOOSE t \in tables : TRUE).functions[found.index]

\* Through an interface "this" becomes the beginning of the object
CorrectedThis(object, table, this) ==
  IF classes[table.class].kind # "Interface" THEN this
  ELSE IF RootOf(object, table).offset = this THEN <<>> ELSE NoAddress

Call(function, this) == [function |-> function, this |-> this]

TryFetchFrom(object, table, this, f) ==
  Call(LoadFunction(object, FunctionTable(f.this, classes[f.this].virtual_table[f.virtual_table_index], table.place), f.this),
       CorrectedThis(object, table, this))

\* A call of function f on a reference of class "static" to address "this" in an object
TryFetchVirtualFunction(object, static, this, f) ==
  LET casted == CreateReferenceCast(this, static, f.this)
  IN IF f.virtual_table_index = 0 THEN {Call(f.this, casted)}
     ELSE {TryFetchFrom(object, table, casted, f) : table \in LoadTable(object, casted, f.this)}

\* The function that overloading resolution selects among those for the same parameters: the one
\* whose "this" converts to the "this" of all others.  The destructor is the one of the class.
Selected(static, method) ==
  LET all == {f \in classes[static].functions : f.method = method}
  IN {f \in all : \A g \in all : ReferenceIsConvertibleTo(f.this, g.this)}

-----------------------------------------------------------------------------
(* Casts at run time: BuildPolymorphClassTypeId, and the search of ust's polymorph_cast *)

TypeIdTable(class) ==
  LET parents == classes[class].parents
  IN SelectSeq(parents, LAMBDA p : p.field_number = 0) \o SelectSeq(parents, LAMBDA p : p.field_number # 0)

RECURSIVE PolymorphCast(_, _, _)
PolymorphCast(to, address, type_id) ==
  IF type_id = to THEN address
  ELSE LET table == TypeIdTable(type_id)
           result(i) == PolymorphCast(to, FieldAddress(address, type_id, table[i].field_number), table[i].class_)
           found == {i \in DOMAIN table : result(i) # NoAddress}
       IN IF found = {} THEN NoAddress ELSE result(CHOOSE i \in found : \A j \in found : i <= j)

PolymorphCastImpl(object, from, this, to) ==
  IF ReferenceIsConvertibleTo(from, to) THEN {CreateReferenceCast(this, from, to)}
  ELSE {IF RootOf(object, table).offset = this THEN PolymorphCast(to, <<>>, object) ELSE << <<0, 1>> >> :
          table \in LoadTable(object, this, from)}

-----------------------------------------------------------------------------
(* Properties *)

\* The parts of an object of a class, with the class and the address of each
RECURSIVE Subobjects(_, _)
Subobjects(class, address) ==
  LET parents == classes[class].parents
  IN {[class |-> class, at |-> address]}
     \cup UNION {Subobjects(parents[i].class_, FieldAddress(address, class, parents[i].field_number)) : i \in DOMAIN parents}

Objects == {c \in DOMAIN classes : classes[c].kind \in {"PolymorphNonFinal", "PolymorphFinal"}}

\* The implementation a virtual call has to reach: that of the most derived class that has one
Implements(class, method) ==
  method = Destructor \/ (method \in DOMAIN classes[class].methods /\ classes[class].methods[method] \in DefiningKinds)
Implementation(object, method) ==
  LET all == {s \in Subobjects(object, <<>>) : Implements(s.class, method)}
  IN CHOOSE s \in all : \A t \in all : ReferenceIsConvertibleTo(s.class, t.class)

\* The functions array of the table of the class that declared a function is where its calls look for it
RegularCall(f) ==
  LET found == FunctionTable(f.this, classes[f.this].virtual_table[f.virtual_table_index], <<>>)
  IN classes[found.class].parents = <<>> \/ Len(classes[found.class].parents) = Len(classes[f.this].parents)

CallReaches(object, s, f) ==
  LET implementation == Implementation(object, f.method)
  IN TryFetchVirtualFunction(object, s.class, s.at, f) = {Call(implementation.class, implementation.at)}

\* A virtual call on any part of an object runs the implementation of the most derived class of the
\* object that has one (TryFetchVirtualFunction), and gives it the part of the object it belongs to.
\* Calls of functions declared first in a class with parents, on a class with another number of
\* parents, are left to VirtualCallsDispatch.
RegularCallsDispatch ==
  errors = {} =>
    \A object \in Objects : \A s \in Subobjects(object, <<>>) :
      \A method \in ToSet(MethodOrder) : \A f \in Selected(s.class, method) :
        f.virtual_table_index # 0 /\ RegularCall(f) => CallReaches(object, s, f)

\* The same for all calls
VirtualCallsDispatch ==
  errors = {} =>
    \A object \in Objects : \A s \in Subobjects(object, <<>>) :
      \A method \in ToSet(MethodOrder) : \A f \in Selected(s.class, method) :
        f.virtual_table_index # 0 => CallReaches(object, s, f)

\* polymorph_cast from any part of an object finds a part of the class asked for if there is one,
\* and only then
PolymorphCastsFind ==
  errors = {} =>
    \A object \in Objects : \A s \in Subobjects(object, <<>>) : \A to \in DOMAIN classes :
      classes[to].kind \in PolymorphKinds =>
        LET found == PolymorphCastImpl(object, s.class, s.at, to)
            parts == {t.at : t \in {t \in Subobjects(object, <<>>) : t.class = to}}
        IN Cardinality(found) = 1 /\ found \subseteq (IF parts = {} THEN {NoAddress} ELSE parts)

\* Virtual calls and casts at run time find their way through the tables that the compiler lays out:
\* RegularCallsDispatch and PolymorphCastsFind
ClassesSound == RegularCallsDispatch /\ PolymorphCastsFind

=============================================================================
