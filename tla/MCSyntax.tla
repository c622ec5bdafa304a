------------------------------- MODULE MCSyntax -------------------------------
(***************************************************************************)
(* SyntaxAnalyzer with short texts: each vocabulary starts at one rule and *)
(* holds the lexems of a few constructs.                                   *)
(***************************************************************************)
EXTENDS SyntaxAnalyzer

Vocabulary(start, prefix, lexs, length, afterError) ==
    [start |-> start, prefix |-> prefix, lexems |-> lexs, length |-> length, afterError |-> afterError]

MCNames == {"x", "void"}

Expressions == {
    Vocabulary("StandaloneExpression", <<>>, {"x", "*", "+", "||"}, 5, 1),
    Vocabulary("StandaloneExpression", <<"x">>, {"-", "x", "(", ")", "^"}, 4, 1),
    Vocabulary("StandaloneExpression", <<"x", "*", "(", "x">>, {"+", "x", ")", "*"}, 5, 1),
    Vocabulary("StandaloneExpression", <<"(", "x">>, {"-", "x", ")", "?", ":"}, 4, 1),
    Vocabulary("StandaloneExpression", <<"x">>, {"x", "(", ")", ".", ",", "[", "]", "await"}, 3, 1),
    Vocabulary("StandaloneExpression", <<"x">>, {"(^", "x^", ".^", ",^", "::^", ".", "("}, 3, 1),
    Vocabulary("StandaloneExpression", <<"x", "{">>, {"x", "}", ".", ",", "="}, 4, 1),
    Vocabulary("StandaloneExpression", <<>>, {"take", "move", "(", "x", ")", "1", "suffix", "true"}, 3, 1),
    Vocabulary("StandaloneExpression", <<>>, {"embed", "typeinfo", "</", "x", "/>"}, 4, 1),
    Vocabulary("StandaloneExpression", <<"same_type", "</", "x">>, {",", "x", "/>"}, 3, 1),
    Vocabulary("StandaloneExpression", <<"cast_ref", "</", "x">>, {"/>", "(", "x", ")"}, 4, 1),
    Vocabulary("StandaloneExpression", <<"import", "fn", "</">>, {"x", "/>", "(", "\"s\"", ")"}, 5, 1),
    Vocabulary("StandaloneExpression", <<"lambda">>, {"[", "]", "=", "&", "x", ",", "("}, 3, 1),
    Vocabulary("StandaloneExpression", <<"lambda", "(">>, {"x", ")", "{", "}"}, 5, 1) }

TypesAndNames == {
    Vocabulary("StandaloneTypeName", <<>>, {"x", "[", "]", "(", ")", ",", "::"}, 4, 1),
    Vocabulary("StandaloneTypeName", <<"tup", "[">>, {"x", "]", ",", "$"}, 4, 1),
    Vocabulary("StandaloneTypeName", <<"fn", "(">>, {"x", ")", ",", "&", "mut"}, 4, 1),
    Vocabulary("StandaloneTypeName", <<"fn", "(", ")">>, {"@", "(", "x", ")", "unsafe", ":"}, 4, 1),
    Vocabulary("StandaloneTypeName", <<"fn", "(", ")", ":", "x">>, {"@", "(", "x", ")", "&", "mut"}, 4, 1),
    Vocabulary("StandaloneTypeName", <<"generator">>, {"(", "mut", ",", ")", ":", "x", "non_sync"}, 4, 1),
    Vocabulary("StandaloneTypeName", <<"async", ":", "x">>, {"&", "imut", "@", "(", "x", ")"}, 5, 1),
    Vocabulary("StandaloneTypeName", <<"x">>, {"x", "</", "/>", "::", ",", "typeof"}, 4, 1) }

Files == {
    Vocabulary("Program", <<>>, {"import", "\"s\"", "namespace", "x", "{", "}"}, 4, 2),
    Vocabulary("Program", <<"?macro", "<?", "x", ":", "expr">>, {"x", "(", ":", "?x", "ty", "?>", "->"}, 3, 1),
    Vocabulary("Program", <<"?macro", "<?", "x", ":", "block", "?x", ":">>, {"opt", "rep", "<?", "x", "?>"}, 3, 1),
    Vocabulary("Program", <<"?macro", "<?", "x", ":", "block", "?x", ":", "opt", "<?", "x">>, {"x", "?>", "->", "<?"}, 5, 1),
    Vocabulary("Program", <<"?macro", "<?", "x", ":", "block", "?x", ":", "rep", "<?", "x", "?>", "<?">>, {"x", "<?", "?>", "->"}, 6, 1),
    Vocabulary("Program", <<"?macro", "<?", "x", ":", "block", "x", "?>", "->", "<?">>, {"?x", "<?", "x", "?>"}, 5, 1),
    Vocabulary("Program", <<"type", "x">>, {"x", "=", ";", "[", "enum"}, 4, 1),
    Vocabulary("Program", <<"enum", "x", "{">>, {"x", "}", ",", "enum"}, 4, 1),
    Vocabulary("Program", <<"fn">>, {"x", "::", "conversion_constructor", "(", ")", ";"}, 4, 1),
    Vocabulary("Program", <<"fn", "constructor", "(">>, {"byval", "imut", "this", "x", ")", ";", "=", "delete"}, 4, 1),
    Vocabulary("Program", <<"fn", "x", "(">>, {"mut", "this", "x", ",", ")", ";"}, 3, 1),
    Vocabulary("Program", <<"fn", "x", "(", ")">>, {"(", "x", ")", "{", "}", ";", "="}, 4, 1),
    Vocabulary("Program", <<"op">>, {"x", "::", "+", "(", ")", "[", "]", ";"}, 3, 1),
    Vocabulary("Program", <<"op", "+", "(", ")">>, {"=", "default", ":", "void", ";", "op"}, 4, 1),
    Vocabulary("Program", <<"template", "</">>, {"type", "x", ",", "/>", "=", ";"}, 5, 1),
    Vocabulary("Program", <<"var", "x">>, {"x", "&", "mut", "(", ")", ",", ";"}, 4, 1),
    Vocabulary("Program", <<"var", "x", "x", "[">>, {"x", "(", ")", ",", "]", ";"}, 4, 1),
    Vocabulary("Program", <<"auto">>, {"x", "&", "mut", "=", ";"}, 4, 1),
    Vocabulary("Program", <<"thread_local", "x">>, {"x", "=", ";", ",", "mixin"}, 4, 1) }

Classes == {
    Vocabulary("Program", <<"class", "x">>, {"x", "{", "}", ":", "final"}, 4, 1),
    Vocabulary("Program", <<"struct", "x", "{">>, {"x", "}", ";", "struct"}, 4, 1),
    Vocabulary("Program", <<"struct", "x", "{", "fn", "destructor", "(">>, {"imut", "this", ")", ";", "}"}, 5, 1),
    Vocabulary("Program", <<"struct", "x", "{", "fn", "constructor", "(", ")">>, {"=", "default", "delete", ";", "}"}, 4, 1),
    Vocabulary("ClassBodyElementsToFileEnd", <<>>, {"x", "&", "mut", "@", ";", "}"}, 4, 1),
    Vocabulary("ClassBodyElementsToFileEnd", <<>>, {"public", ":", "x", ";", "="}, 4, 2) }

Blocks == {
    Vocabulary("BlockElementsToFileEnd", <<>>, {"{", "}", "x", ";", "="}, 4, 2),
    Vocabulary("BlockElementsToFileEnd", <<"if", "(", "x", ")", "{">>, {"}", "else", "{", "if"}, 4, 1),
    Vocabulary("BlockElementsToFileEnd", <<"while", "(", "x">>, {")", "{", "}", "label", "x"}, 4, 1),
    Vocabulary("BlockElementsToFileEnd", <<"for", "(">>, {"x", ";", ")", "{", "}", ":", "++"}, 4, 1),
    Vocabulary("BlockElementsToFileEnd", <<"switch", "(", "x", ")", "{">>, {"x", "...", "->", "{", "}", ","}, 4, 1),
    Vocabulary("BlockElementsToFileEnd", <<>>, {"return", "break", "halt", "alloca", "x", ";"}, 3, 1),
    Vocabulary("BlockElementsToFileEnd", <<"auto">>, {"[", "]", "{", "}", "x", "="}, 4, 1),
    Vocabulary("BlockElementsToFileEnd", <<"auto", "{">>, {"[", "]", "x", ":", "}"}, 4, 1),
    Vocabulary("BlockElementsToFileEnd", <<"auto", "{", "[", "x", "]">>, {"x", ":", "}", "=", ";"}, 6, 1) }

MCVocabularies == Expressions \cup TypesAndNames \cup Files \cup Classes \cup Blocks
=============================================================================
