------------------------------- MODULE MCParts -------------------------------
(***************************************************************************)
(* Parts of the system whose instances are small, checked side by side: a  *)
(* behaviour is one of the part it starts with, the variables of the other *)
(* parts keep a resting value.                                             *)
(***************************************************************************)
EXTENDS MCBuild, Mangling

VARIABLES
  part,   \* the part whose behaviour this is
  classes, errors,                           \* of module Classes
  family, functions_set, declared, request,  \* of module Overloading
  item                                       \* what is looked at, in the parts without a state

classesVars == <<classes, errors>>
overloadingVars == <<family, functions_set, declared, request>>
partsVars == <<part, vars, classesVars, overloadingVars, item>>

\* Small hierarchies of classes
Hierarchies == INSTANCE MCClassHierarchies
Classifying == INSTANCE Classes WITH
  MethodOrder <- Hierarchies!MethodsInOrder, DeclarationsOf <- Hierarchies!SmallDeclarations

\* Small families of overloaded functions
Overloads == INSTANCE MCOverloading
OverloadedTemplates == Overloads!SmallTemplates
OverloadedParents == Overloads!SmallParents
OverloadedConstructors == Overloads!SmallConstructors
OverloadedFamilies == Overloads!SmallFamilies
Resolving == INSTANCE Overloading WITH
  TypeTemplates <- OverloadedTemplates, Parents <- OverloadedParents,
  Constructors <- OverloadedConstructors, Families <- OverloadedFamilies, MaxFunctions <- 3

\* Functions, variables, virtual tables and types a program may have together
Entities == INSTANCE MCMangling
EntitySymbols == Entities!SmallSymbols
EntityTypes == Entities!SmallTypes

BuildRests == Init /\ project = LoopProject

ClassesRest == classes = <<>> /\ errors = {}

OverloadingRests == family = "classes" /\ functions_set = {} /\ declared = 0 /\ request = {}

PartsInit ==
  \/ part = "build" /\ Init /\ ClassesRest /\ OverloadingRests /\ item = {}
  \/ part = "classes" /\ Classifying!Init /\ BuildRests /\ OverloadingRests /\ item = {}
  \/ part = "overloads" /\ Resolving!Init /\ BuildRests /\ ClassesRest /\ item = {}
  \/ part = "names" /\ BuildRests /\ ClassesRest /\ OverloadingRests /\ item = {}

\* A named entity is taken from those of the program
TakeNamed ==
  /\ item = {}
  /\ item' \in {{[of |-> "symbols", entity |-> s]} : s \in Symbols}
               \cup {{[of |-> "types", entity |-> t]} : t \in Types}

PartsNext ==
  /\ UNCHANGED part
  /\ \/ part = "build" /\ Next /\ UNCHANGED <<classesVars, overloadingVars, item>>
     \/ part = "classes" /\ Classifying!Next /\ UNCHANGED <<vars, overloadingVars, item>>
     \/ part = "overloads" /\ Resolving!Next /\ UNCHANGED <<vars, classesVars, item>>
     \/ part = "names" /\ TakeNamed /\ UNCHANGED <<vars, classesVars, overloadingVars>>

PartsSpec == PartsInit /\ [][PartsNext]_partsVars

\* Virtual calls and casts at run time find their way through the virtual tables.
ClassesSound == part = "classes" => Classifying!ClassesSound

\* A call of an overloaded name is resolved to the best and most specialized function that takes its arguments.
OverloadingSound == part = "overloads" => Resolving!OverloadingSound

\* No two functions, variables or virtual tables, and no two types, of a program have one mangled name: they would be
\* taken for one by the linker and by the module they are put into.
NamesUnique ==
  \A i \in item : \A all \in {IF i.of = "symbols" THEN NamedSymbols ELSE NamedTypes} : NameIsUnique(i.entity, all)
=============================================================================
