--------------------------- MODULE SyntaxAnalyzer ---------------------------
(***************************************************************************)
(* The SyntaxAnalyzer of lex_synt_lib at work: it executes the parsing     *)
(* functions of Grammar one step at a time on lexems that are chosen when  *)
(* they are first looked at.  After the first error no element is kept, as *)
(* the compiler drops a program with errors, but parsing goes on, with its *)
(* recovery and its guard against endless loops.  A program parsed without *)
(* errors is written by ProgramWriter, as cpp_header_converter does, and   *)
(* the text is parsed once more.                                           *)
(***************************************************************************)
EXTENDS Grammar, ProgramWriter

CONSTANT Vocabularies   \* records: start (a rule), prefix (how the text begins), lexems (a set), length and afterError (bounds)

VARIABLES
    vocabulary, \* the one the program is written in
    lexems,     \* the lexems looked at so far
    it,         \* it_
    calls,      \* active functions and their loops: [code, base, loop]
    values,     \* the elements under construction
    error,      \* where the first error was, last_error_it_ and last_error_repeats_
    source      \* the program, when its written form is parsed

vars == <<vocabulary, lexems, it, calls, values, error, source>>

Frame(code, base) == [code |-> code, base |-> base, loop |-> <<>>]
Loop(code, base, stop, body) == [code |-> code, base |-> base, loop |-> <<stop, body>>]
NoError == [first |-> 0, at |-> 0, repeats |-> 0]

Start(rule) == <<Frame(Rules[rule], 0)>>

Init ==
    /\ vocabulary \in Vocabularies
    /\ lexems = vocabulary.prefix /\ it = 1 /\ values = <<>>
    /\ calls = Start(vocabulary.start)
    /\ error = NoError
    /\ source = <<>>

Top == Last(calls)
Step == Top.code[1]
Rest == Tail(Top.code)
Failed == error.first # 0
Parsing == calls # <<>>
Lexem == lexems[it]
NotEndOfFile == Lexem # "eof"
NextIt == IF NotEndOfFile THEN it + 1 ELSE it

LookAhead == IF Top.code # <<>> /\ Step[1] = "peek" THEN Step[5] ELSE 0
Ended == lexems # <<>> /\ Last(lexems) = "eof"
Read == Len(lexems) >= it + LookAhead \/ Ended

MayExtend == Len(lexems) < Len(vocabulary.prefix) + vocabulary.length /\ (Failed => Len(lexems) < error.first + vocabulary.afterError)

\* A lexem is looked at for the first time.
ReadLexem ==
    /\ Parsing /\ ~Read
    /\ \E l \in (IF MayExtend THEN vocabulary.lexems ELSE {}) \cup {"eof"} : lexems' = Append(lexems, l)
    /\ UNCHANGED <<vocabulary, it, calls, values, error, source>>

Enabled(kinds) == Parsing /\ Read /\ Top.code # <<>> /\ Step[1] \in kinds

WithTop(frame) == [calls EXCEPT ![Len(calls)] = frame]
Proceed(code) == calls' = WithTop([Top EXCEPT !.code = code])
Push(value) == values' = IF Failed THEN values ELSE Append(values, value)
Frozen == UNCHANGED <<vocabulary, lexems, source>>

\* The values from position n on become one element.
Collapsed(vs, n, kind) == Append(SubSeq(vs, 1, n), <<kind>> \o SubSeq(vs, n + 1, Len(vs)))

\* Mutant: a repeated error never advances.
PushErrorWithoutProgress ==
    /\ error' = [first |-> IF Failed THEN error.first ELSE it, at |-> it,
                 repeats |-> IF error.at = it /\ error.repeats < 10 THEN error.repeats + 1 ELSE 0]
    /\ UNCHANGED it
    /\ values' = <<>>

\* The position advances when too many errors are reported at it.
PushErrorMessage ==
    LET repeats == IF error.at = it THEN error.repeats + 1 ELSE 0
        first == IF Failed THEN error.first ELSE it
    IN /\ IF repeats > 10 THEN it' = NextIt /\ error' = [first |-> first, at |-> NextIt, repeats |-> 0]
                          ELSE it' = it /\ error' = [first |-> first, at |-> it, repeats |-> repeats]
       /\ values' = <<>>

ExpectLexem ==
    /\ Enabled({"expect"})
    /\ Proceed(Rest)
    /\ IF Lexem = Step[2] THEN it' = NextIt /\ UNCHANGED <<values, error>> ELSE PushErrorMessage
    /\ Frozen

ReportError == Enabled({"error"}) /\ Proceed(Rest) /\ PushErrorMessage /\ Frozen

NextLexem ==
    /\ Enabled({"skip", "take", "mark"})
    /\ Proceed(Rest)
    /\ it' = IF Step[1] = "mark" THEN it ELSE NextIt
    /\ CASE Step[1] = "skip" -> UNCHANGED values
         [] Step[1] = "take" -> Push(<<Lexem>>)
         [] Step[1] = "mark" -> Push(<<Step[2]>>)
    /\ UNCHANGED error /\ Frozen

Peeked == IF it + LookAhead <= Len(lexems) THEN lexems[it + LookAhead] ELSE "eof"

Choice ==
    IF Step[1] = "cases"
    THEN LET fits == {i \in 1 .. Len(Step[2]) : Lexem \in Step[2][i][1]}
         IN IF fits = {} THEN Step[3] ELSE Step[2][Min(fits)][2]
    ELSE IF Peeked \in Step[2] THEN Step[3] ELSE Step[4]

Branch ==
    /\ Enabled({"if", "peek", "cases"})
    /\ Proceed(Choice \o Rest)
    /\ UNCHANGED <<it, values, error>> /\ Frozen

\* TryParseBinaryOperator<p> is called with its own values, its right parts work on those of its caller.
CallFunction ==
    /\ Enabled({"call", "binary", "operand", "goto", "right"})
    /\ calls' = CASE Step[1] = "call" -> Append(WithTop([Top EXCEPT !.code = Rest]), Frame(Rules[Step[2]], Len(values)))
                  [] Step[1] \in {"binary", "operand"} ->
                        Append(WithTop([Top EXCEPT !.code = Rest]), Frame(TryParseBinaryOperator(Step[2]), Len(values)))
                  [] Step[1] = "goto" -> WithTop([Top EXCEPT !.code = Rules[Step[2]]])
                  [] Step[1] = "right" ->
                        WithTop([Top EXCEPT !.code = TryParseBinaryOperatorRightPart(Step[2], Step[3], Lexem) \o Rest])
    /\ UNCHANGED <<it, values, error>> /\ Frozen

\* The name of a function, or its parameters, which follow its name, as they are kept.
Changed(vs) == IF Step[2] = "name" THEN ConversionConstructor(Last(vs)) ELSE ConstructorParams(Last(Front(vs)), Last(vs))

MakeElement ==
    /\ Enabled({"node", "wrap", "change"})
    /\ Proceed(Rest)
    /\ values' = CASE Failed -> <<>>
                   [] ~Failed /\ Step[1] = "node" -> Collapsed(values, Top.base, Step[2])
                   [] ~Failed /\ Step[1] = "wrap" -> Collapsed(values, Len(values) - 3, "binary")
                   [] ~Failed /\ Step[1] = "change" -> Append(Front(values), Changed(values))
    /\ UNCHANGED <<it, error>> /\ Frozen

EnterLoop ==
    /\ Enabled({"while", "dowhile"})
    /\ calls' = Append(WithTop([Top EXCEPT !.code = Rest]),
                       Loop(IF Step[1] = "dowhile" THEN Step[3] ELSE <<>>, Top.base, Step[2], Step[3]))
    /\ UNCHANGED <<it, values, error>> /\ Frozen

\* The frames below the innermost active function
Caller(cs) == SubSeq(cs, 1, Max({i \in 1 .. Len(cs) : cs[i].loop = <<>>}) - 1)

Leave ==
    /\ Enabled({"break", "continue", "return", "return2"})
    /\ calls' = CASE Step[1] = "break" -> Front(calls)
                  [] Step[1] = "continue" -> WithTop([Top EXCEPT !.code = <<>>])
                  [] Step[1] = "return" -> Caller(calls)
                  [] Step[1] = "return2" -> Caller(Caller(calls))
    /\ UNCHANGED <<it, values, error>> /\ Frozen

\* The end of a function, or of the body of a loop
EndOfCode ==
    /\ Parsing /\ Read /\ Top.code = <<>>
    /\ calls' = IF Top.loop # <<>> /\ NotEndOfFile /\ Lexem \notin Top.loop[1]
                THEN WithTop([Top EXCEPT !.code = Top.loop[2]])
                ELSE Front(calls)
    /\ UNCHANGED <<it, values, error>> /\ Frozen

\* Lexems are skipped up to one of the set, a group in brackets as a whole: the lexem after it may be an opening
\* bracket again and is tested like any other.
TryRecoverAfterError ==
    /\ Enabled({"recover", "recovering"})
    /\ CASE ~NotEndOfFile -> Proceed(Rest) /\ UNCHANGED it
         [] NotEndOfFile /\ Step[1] = "recover" /\ Lexem \in Opening ->
                Proceed(<< <<"brackets", Closing(Lexem)>>, <<"recovering", Step[2]>> >> \o Rest) /\ it' = NextIt
         [] OTHER -> IF Lexem \in Step[2] THEN Proceed(Rest) /\ UNCHANGED it
                     ELSE Proceed(<<Recover(Step[2])>> \o Rest) /\ it' = NextIt
    /\ UNCHANGED <<values, error>> /\ Frozen

TrySkipBrackets ==
    /\ Enabled({"brackets", "closing"})
    /\ CASE ~NotEndOfFile -> Proceed(Rest) /\ UNCHANGED it
         [] NotEndOfFile /\ Step[1] = "brackets" /\ Lexem \in Opening ->
                Proceed(<< <<"brackets", Closing(Lexem)>>, <<"closing", Step[2]>> >> \o Rest) /\ it' = NextIt
         [] OTHER -> it' = NextIt /\ Proceed(IF Lexem = Step[2] THEN Rest ELSE << <<"brackets", Step[2]>> >> \o Rest)
    /\ UNCHANGED <<values, error>> /\ Frozen

Parsed == ~Parsing /\ ~Failed
Written == source # <<>>

Standalones == {"StandaloneExpression", "StandaloneTypeName"}

\* WriteProgram, WriteExpression or WriteTypeName, and the text is parsed from its start.  The elements are those
\* the parser makes or those the converter builds in their place.
WriteProgram ==
    /\ Parsed /\ ~Written /\ values # <<>> /\ vocabulary.start \in Standalones \cup {"Program"}
    /\ \A i \in DOMAIN values : Convertible(values[i])
    /\ source' = values
    /\ \E program \in {values, [i \in DOMAIN values |-> AsBuilt(values[i])]} : lexems' = Append(WriteAll(program), "eof")
    /\ it' = 1 /\ values' = <<>>
    /\ calls' = Start(vocabulary.start)
    /\ UNCHANGED <<vocabulary, error>>

Execute == ExpectLexem \/ ReportError \/ NextLexem \/ Branch \/ CallFunction \/ MakeElement \/ EnterLoop \/ Leave
           \/ EndOfCode \/ TryRecoverAfterError \/ TrySkipBrackets

Next == ReadLexem \/ Execute \/ WriteProgram

\* The lexems exist and the analyzer does not pause.
Spec == Init /\ [][Next]_vars /\ WF_vars(ReadLexem) /\ WF_vars(Execute)

-----------------------------------------------------------------------------
\* Properties

\* Parsing ends whatever the lexems are: loops whose body reports an error without taking a lexem rely on the
\* repeated-error test of PushErrorMessage.
ParsingTerminates == <>[](calls = <<>>)

\* What cpp_header_converter writes is parsed without an error, into the elements that were written; a deleted
\* constructor, which it writes without parameters, gets its "this".
RoundTrip == Written /\ ~Parsing => ~Failed /\ values = source

Opened(depth, l) == IF Len(depth) > 0 /\ depth[1] = "unbalanced" THEN depth
    ELSE IF l \in Opening THEN <<Closing(l)>> \o depth
    ELSE IF l \in {")", "]", "}", "/>"}
    THEN IF depth # <<>> /\ Head(depth) = l THEN Tail(depth) ELSE <<"unbalanced">>
    ELSE depth

\* A file, a namespace, class or function body parsed without an error was read to its end and its brackets are
\* balanced: the lists that end silently at the end of the file are followed by a lexem that is missed there.
\* The members of an enum are such a list with nothing after it, so a file may end inside one; the pattern and the
\* result of a macro are any lexems, an opening bracket alone too.
AcceptedIsBalanced ==
    (Parsed /\ vocabulary.start \notin Standalones /\ {"enum", "?macro"} \cap Range(lexems) = {}) =>
        /\ Lexem = "eof"
        /\ FoldLeft(Opened, <<>>, lexems) = <<>>

\* The tree of a chain of names and binary operators: at the root the last operator of the lowest priority.
Priority(l) == CHOOSE k \in DOMAIN Operators : l \in Operators[k]
RECURSIVE Grouped(_)
Grouped(chain) ==
    IF Len(chain) = 1 THEN chain
    ELSE LET at == {2 * i : i \in 1 .. Len(chain) \div 2}
             lowest == Min({Priority(chain[i]) : i \in at})
             root == Max({i \in at : Priority(chain[i]) = lowest})
         IN <<"binary", Grouped(SubSeq(chain, 1, root - 1)), <<chain[root]>>, Grouped(SubSeq(chain, root + 1, Len(chain)))>>

IsChain(ls) == \A i \in 1 .. Len(ls) : IF i % 2 = 1 THEN ls[i] \in Names ELSE ls[i] \in UNION Range(Operators)

\* Operators bind by their priority, and from left to right within one.
PrioritiesRespected ==
    (Parsed /\ vocabulary.start = "StandaloneExpression" /\ IsChain(Front(lexems))) => values = <<Grouped(Front(lexems))>>
=============================================================================
