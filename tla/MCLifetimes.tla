------------------------------ MODULE MCLifetimes ------------------------------
(***************************************************************************)
(* Types and functions for Lifetimes.  P is a plain noncopyable structure, *)
(* H holds an immutable reference to a P, M a mutable one, S has two P.    *)
(***************************************************************************)
EXTENDS Lifetimes

NoFields == [x \in {} |-> x]

MCTagKinds == [P |-> <<>>, H |-> <<"Imut">>, M |-> <<"Mut">>, S |-> <<>>, bool |-> <<>>, void |-> <<>>]
MCFieldTypes == [t \in DOMAIN MCTagKinds |-> IF t = "S" THEN [a |-> "P", b |-> "P"] ELSE NoFields]
MCFieldTags == [t \in DOMAIN MCTagKinds |-> IF t = "S" THEN [a |-> <<>>, b |-> <<>>] ELSE NoFields]

\* A function type from its parameters and what it returns
Plain(params, type, vt) ==
  [params |-> params, type |-> type, vt |-> vt, return_references |-> {},
   return_inner_references |-> [i \in DOMAIN MCTagKinds[type] |-> {}], references_pollution |-> {}]

By(type, vt) == [type |-> type, vt |-> vt]

MCFunctions ==
  [Check |-> Plain(<<>>, "bool", "Value"),
   Make |-> Plain(<<>>, "P", "Value"),
   Consume |-> Plain(<<By("P", "Value")>>, "bool", "Value"),
   Look |-> Plain(<<By("P", "Imut")>>, "void", "Value"),
   Edit |-> Plain(<<By("P", "Mut")>>, "void", "Value"),
   Pair |-> Plain(<<By("P", "Mut"), By("P", "Imut")>>, "void", "Value"),
   Same |-> [Plain(<<By("P", "Imut")>>, "P", "Imut") EXCEPT !.return_references = {<<1, Itself>>}],
   SameMut |-> [Plain(<<By("P", "Mut")>>, "P", "Mut") EXCEPT !.return_references = {<<1, Itself>>}],
   Either |-> [Plain(<<By("P", "Imut"), By("P", "Imut")>>, "P", "Imut")
                 EXCEPT !.return_references = {<<1, Itself>>, <<2, Itself>>}],
   Wrap |-> [Plain(<<By("P", "Imut")>>, "H", "Value") EXCEPT !.return_inner_references = <<{<<1, Itself>>}>>],
   Rewrap |-> [Plain(<<By("H", "Value")>>, "H", "Value") EXCEPT !.return_inner_references = <<{<<1, 1>>}>>],
   Inside |-> [Plain(<<By("H", "Imut")>>, "P", "Imut") EXCEPT !.return_references = {<<1, 1>>}],
   Store |-> [Plain(<<By("H", "Mut"), By("P", "Imut")>>, "void", "Value")
                EXCEPT !.references_pollution = {[dst |-> <<1, 1>>, src |-> <<2, Itself>>]}],
   LookIn |-> Plain(<<By("H", "Imut")>>, "void", "Value"),
   Both |-> Plain(<<By("S", "Imut"), By("P", "Mut")>>, "void", "Value")]

Vocabulary(f, elements, types, calls, conditions, nested, max) ==
  [f |-> f, elements |-> elements, types |-> types, calls |-> calls, conditions |-> conditions,
   nested |-> nested, max |-> max]

\* Moves through control flow
MovingAway ==
  Vocabulary(Plain(<<By("P", "Value")>>, "void", "Value"),
             {"variable", "call", "if", "else", "while", "block", "jump", "label", "return"},
             {"P"}, {"Consume"}, {"Check"}, {}, 4)

\* References and who may use them
Referring ==
  Vocabulary([Plain(<<By("P", "Mut")>>, "P", "Mut") EXCEPT !.return_references = {<<1, Itself>>}],
             {"variable", "call", "reference", "return"},
             {"P"}, {"Pair", "SameMut"}, {"Check"}, {}, 4)

\* Members
Members ==
  Vocabulary(Plain(<<By("S", "Mut")>>, "void", "Value"), {"call", "reference", "assign", "take"},
             {"S", "P"}, {"Pair", "Both"}, {"Check"}, {}, 3)

\* References in objects
Holding ==
  Vocabulary(Plain(<<By("P", "Mut")>>, "void", "Value"), {"variable", "call", "auto", "assign"},
             {"H", "P"}, {"Store", "LookIn", "Edit"}, {"Check"}, {}, 4)

\* Objects with references as parameters and results
Passing ==
  Vocabulary([Plain(<<By("H", "Mut"), By("P", "Imut"), By("H", "Value")>>, "H", "Value") EXCEPT
                !.return_inner_references = <<{<<2, Itself>>, <<3, 1>>}>>,
                !.references_pollution = {[dst |-> <<1, 1>>, src |-> <<2, Itself>>]}],
             {"variable", "call", "auto", "assign", "return"},
             {"H", "P"}, {"Store", "Wrap", "Rewrap"}, {"Check"}, {}, 2)

\* Temporaries
Extending ==
  Vocabulary([Plain(<<By("P", "Imut")>>, "P", "Imut") EXCEPT !.return_references = {<<1, Itself>>}],
             {"variable", "call", "reference", "with", "return", "auto"},
             {"P", "H"}, {"Inside", "Either", "Same"}, {"Check"}, {"Wrap", "Make"}, 2)

\* Mutable references in objects
Mutable ==
  Vocabulary([Plain(<<By("P", "Mut"), By("M", "Value")>>, "M", "Value") EXCEPT
                !.return_inner_references = <<{<<1, Itself>>}>>],
             {"variable", "call", "reference", "auto", "assign", "return"},
             {"P", "M"}, {"Edit", "Look"}, {"Check"}, {"SameMut"}, 3)

\* References across control flow
Flowing ==
  Vocabulary(Plain(<<By("P", "Mut"), By("P", "Mut")>>, "void", "Value"),
             {"variable", "reference", "call", "if", "loop", "jump", "for"},
             {"H"}, {"Store", "LookIn", "Edit"}, {"Check"}, {}, 3)

\* One of two values or references
Choosing ==
  Vocabulary(Plain(<<By("P", "Value"), By("P", "Imut")>>, "P", "Value"),
             {"call", "reference", "auto", "ternary value", "ternary reference", "lazy", "if", "halt", "return"},
             {"P"}, {"Consume", "Look"}, {"Check", "Consume"}, {}, 2)

\* Structures taken apart, switches
Parts ==
  Vocabulary(Plain(<<By("S", "Value"), By("H", "Value"), By("P", "Mut")>>, "void", "Value"),
             {"decompose", "call", "switch", "jump", "loop"},
             {"S", "H"}, {"Consume", "Look", "Edit"}, {"Check"}, {}, 3)

\* Moves in the condition of a loop
ConditionMoves ==
  Vocabulary(Plain(<<By("P", "Value")>>, "void", "Value"), {"call", "while", "jump", "return"},
             {"P"}, {"Consume"}, {"Check", "Consume"}, {}, 3)

\* Assignments to one of two holders
ChosenHolders ==
  Vocabulary(Plain(<<By("H", "Mut"), By("H", "Mut"), By("P", "Imut")>>, "void", "Value"),
             {"call", "assign", "ternary reference"}, {"H"}, {"LookIn", "Wrap"}, {"Check"}, {}, 2)

MCVocabularies ==
  {MovingAway, Referring, Members, Holding, Passing, Extending, Mutable, Flowing, Choosing, Parts}
WhileVocabularies == {ConditionMoves}
TernaryVocabularies == {ChosenHolders}
================================================================================
