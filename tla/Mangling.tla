------------------------------- MODULE Mangling -------------------------------
(***************************************************************************)
(* The names of functions, global variables, virtual tables and types.     *)
(*                                                                         *)
(* A scope is a sequence of names from the outermost one: of namespaces    *)
(* and classes, of classes of templates (with their arguments), of lambdas *)
(* (with the arguments of the templates around them) and of coroutines.    *)
(* Names that the mangler writes with their length are written so that no  *)
(* letter of an encoding is one of them.                                   *)
(***************************************************************************)
EXTENDS Integers, Sequences

CONSTANTS
  Symbols,            \* functions, variables and virtual tables a program may have together
  Types,              \* types a program may have together
  NumBackReferences   \* g_num_back_references, 10 in the code

Itanium == INSTANCE ManglingItanium
MSVC64 == INSTANCE ManglingMSVC WITH Is32Bit <- FALSE
MSVC32 == INSTANCE ManglingMSVC WITH Is32Bit <- TRUE

\* The manglers, one of which a compilation uses
Manglers == {"Itanium", "MSVC64", "MSVC32"}

NameOfType(mangler, type) ==
  CASE mangler = "Itanium" -> Itanium!MangleType(type)
    [] mangler = "MSVC64" -> MSVC64!MangleType(type)
    [] mangler = "MSVC32" -> MSVC32!MangleType(type)

NameOfFunction(mangler, function) ==
  CASE mangler = "Itanium" -> Itanium!MangleFunction(function)
    [] mangler = "MSVC64" -> MSVC64!MangleFunction(function)
    [] mangler = "MSVC32" -> MSVC32!MangleFunction(function)

NameOfVariable(mangler, variable) ==
  CASE mangler = "Itanium" -> Itanium!MangleGlobalVariable(variable)
    [] mangler = "MSVC64" -> MSVC64!MangleGlobalVariable(variable)
    [] mangler = "MSVC32" -> MSVC32!MangleGlobalVariable(variable)

NameOfVirtualTable(mangler, type) ==
  CASE mangler = "Itanium" -> Itanium!MangleVirtualTable(type)
    [] mangler = "MSVC64" -> MSVC64!MangleVirtualTable(type)
    [] mangler = "MSVC32" -> MSVC32!MangleVirtualTable(type)

NameOf(mangler, symbol) ==
  CASE symbol.is = "function" -> NameOfFunction(mangler, symbol)
    [] symbol.is = "variable" -> NameOfVariable(mangler, symbol)
    [] symbol.is = "table" -> NameOfVirtualTable(mangler, symbol.type)

\* Every entity with its names
NamedSymbols == {[entity |-> s, names |-> [m \in Manglers |-> NameOf(m, s)]] : s \in Symbols}
NamedTypes == {[entity |-> t, names |-> [m \in Manglers |-> NameOfType(m, t)]] : t \in Types}

\* No other entity of the program has a name of this one: the linker, and the module the functions are put into,
\* would take two entities with one name for one.
NameIsUnique(entity, all) ==
  \A named \in {n \in all : n.entity = entity}, other \in all :
    other # named => \A m \in Manglers : other.names[m] # named.names[m]
=============================================================================
