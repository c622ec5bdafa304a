------------------------------- MODULE Documents -------------------------------
(***************************************************************************)
(* The documents of the language server and the loop of its processor      *)
(* thread: messages of the editor change the documents, delayed rebuilds   *)
(* are started, compilations run in a thread pool and their results are    *)
(* taken by whichever method of the document comes next, finished rebuilds *)
(* notify the documents that import the file, diagnostics are published.   *)
(*                                                                         *)
(* A text is its version, the version of the last full text it comes from, *)
(* and whether it parses.  The imports of a file do not change, and files  *)
(* on disk do not change.  Diagnostics are represented by the texts of the *)
(* source graph they were made from.                                       *)
(***************************************************************************)
EXTENDS Integers, Sequences, FiniteSetsExt

CONSTANTS
  NumFiles,    \* files are numbered in the order of their URIs
  Imports,     \* the files each file imports
  Qualities,   \* what texts may be: "ok", "syntax" (error) or "lexical" (error)
  MaxEdits,    \* bound: texts sent by the editor
  Errors(_, _),  \* the files in which compiling a file with given texts finds errors
  None

Files == 1 .. NumFiles

ASSUME DocumentsAssumption ==
  /\ NumFiles \in Nat \ {0} /\ MaxEdits \in Nat
  /\ Imports \in [Files -> SUBSET Files]
  /\ Qualities \subseteq {"ok", "syntax", "lexical"} /\ "ok" \in Qualities
  /\ \A S \in (SUBSET Files) \ {{}} : \E f \in S : Imports[f] \cap S = {}  \* no import loops

VARIABLES
  docs,        \* DocumentsContainer.documents: open file -> Document
  edits,       \* number of texts received: the version of the last one
  pc,          \* where the processor thread is in its loop
  todo,        \* documents the current loop has still to visit
  notify,      \* documents still to be told about the first document of todo
  all_diagnostics,  \* all_diagnostics_: open file -> diagnostics
  updated,     \* diagnostics_updated_
  published    \* the diagnostics last sent for each file, and whose build they are of

vars == <<docs, edits, pc, todo, notify, all_diagnostics, updated, published>>

Text(v, base, quality) == [v |-> v, base |-> base, quality |-> quality]

\* What the file system has for a file that is not open.
OnDisk == Text(0, 0, "ok")

\* Recorded changes, the texts of a source graph, the compiled state of a
\* document and a compilation in the thread pool, as types.
Texts == [v : 0 .. MaxEdits, base : 0 .. MaxEdits, quality : Qualities]
Changes == [from : 0 .. MaxEdits, to : 0 .. MaxEdits]
SourceTexts == UNION {[S -> Texts] : S \in SUBSET Files}
CompiledStates == [num : Nat, texts : SourceTexts, first : BOOLEAN, tracked : BOOLEAN]
Compilations == [ready : BOOLEAN, state : CompiledStates]

ASSUME NoneAssumption ==
  None \notin Seq(Changes) /\ None \notin SourceTexts
  /\ None \notin CompiledStates /\ None \notin Compilations

-------------------------------------------------------------------------------
(***************************************************************************)
(* Methods of Document, as functions of the document.                      *)
(***************************************************************************)
\* Mutant: all the recorded changes are erased.
TakeAndForgetChanges(d) ==
  IF d.task = None THEN d
  ELSE IF ~d.task.ready THEN d
  ELSE LET c == d.task.state IN
       [d EXCEPT !.compiled = c, !.task = None, !.finished = TRUE, !.diagnostics = c.texts,
                 !.changes = <<>>]

\* TryTakeBackgroundStateUpdate: the result of a finished compilation replaces
\* the compiled state, and the text changes made before it started are erased.
Take(d) ==
  IF d.task = None THEN d
  ELSE IF ~d.task.ready THEN d
  ELSE LET c == d.task.state IN
       [d EXCEPT !.compiled = c, !.task = None, !.finished = TRUE, !.diagnostics = c.texts,
                 !.changes = IF @ = None THEN <<>> ELSE SubSeq(@, c.num + 1, Len(@))]

\* A new Document, which has not been compiled.
NewDocument ==
  [text |-> Text(0, 0, "ok"), changes |-> None, recent |-> TRUE, required |-> TRUE,
   compiled |-> None, task |-> None, finished |-> FALSE, diagnostics |-> None]

\* Mutant: a full change begins a new sequence of changes.
SetTextAndTrack(d, quality) ==
  [d EXCEPT !.text = Text(edits + 1, edits + 1, quality), !.changes = <<>>,
            !.recent = TRUE, !.required = TRUE]

SetText(d, quality) ==
  [d EXCEPT !.text = Text(edits + 1, edits + 1, quality), !.changes = None,
            !.recent = TRUE, !.required = TRUE]

\* A change of a range of the text is recorded when there is a compiled state
\* to which it can be related.
UpdateText(d, quality) ==
  LET e == Take(d) IN
    [e EXCEPT !.text = Text(edits + 1, @.base, quality),
              !.changes = IF e.compiled # None /\ @ # None
                          THEN Append(@, [from |-> e.text.v, to |-> edits + 1]) ELSE @,
              !.recent = TRUE, !.required = TRUE]

\* Mutant: a document that is being compiled is not told.
TellUnlessCompiling(f, changed) ==
  LET d == Take(docs[f])
      affected == f # changed /\ d.task = None /\ d.compiled # None /\ changed \in DOMAIN d.compiled.texts
  IN  IF affected THEN [d EXCEPT !.recent = TRUE, !.required = TRUE] ELSE d

\* Mutant: a document is told about itself.
TellItselfToo(f, changed) ==
  LET d == Take(docs[f])
      affected == d.compiled # None /\ changed \in DOMAIN d.compiled.texts
  IN  IF affected THEN [d EXCEPT !.recent = TRUE, !.required = TRUE] ELSE d

\* File "changed" was rebuilt: a document f that was compiled with it is rebuilt.
OnPossibleDependentFileChanged(f, changed) ==
  LET d == Take(docs[f])
      affected == f # changed /\ d.compiled # None /\ changed \in DOMAIN d.compiled.texts
  IN  IF affected THEN [d EXCEPT !.recent = TRUE, !.required = TRUE] ELSE d

-------------------------------------------------------------------------------
(***************************************************************************)
(* Loading of the source graph of file f: f's own text, the last compiled  *)
(* text of other open documents, the files on disk.                        *)
(***************************************************************************)
GetTextForCompilation(f, e) ==
  IF e \notin DOMAIN docs THEN OnDisk
  ELSE LET d == Take(docs[e]) IN
       IF e = f THEN docs[f].text ELSE IF d.compiled = None THEN d.text ELSE d.compiled.texts[e]

\* The imports of a text with lexical errors are not loaded.
Loaded(f) ==
  LET follows(S) == \A e \in S : GetTextForCompilation(f, e).quality = "lexical" \/ Imports[e] \subseteq S
      closed == {S \in SUBSET Files : f \in S /\ follows(S)}
  IN  {e \in Files : \A S \in closed : e \in S}

LoadSourceGraph(f) == [e \in Loaded(f) |-> GetTextForCompilation(f, e)]

\* The documents after f loaded its source graph: results of the imported ones
\* were taken on the way.
DocsAfterLoad(f, d) ==
  [g \in DOMAIN docs |-> IF g = f THEN d ELSE IF g \in Loaded(f) THEN Take(docs[g]) ELSE docs[g]]

\* The compilation task started for document d: "first" and "tracked" record
\* for the properties whether d had no compiled state, and whether changes of
\* its text were being recorded.
NewTask(d, texts) ==
  [ready |-> FALSE,
   state |-> [num |-> IF d.changes = None THEN 0 ELSE Len(d.changes), texts |-> texts,
              first |-> d.compiled = None, tracked |-> d.compiled # None /\ d.changes # None]]

\* Document d after the synchronous part of its rebuild.
Rebuilt(d, texts) ==
  LET changes == IF d.compiled = None /\ d.changes = None THEN <<>> ELSE d.changes IN
    IF \E e \in DOMAIN texts : texts[e].quality # "ok"
    THEN [d EXCEPT !.required = FALSE, !.diagnostics = texts, !.finished = TRUE]
    ELSE [d EXCEPT !.required = FALSE, !.diagnostics = None, !.changes = changes,
                   !.task = NewTask(d, texts)]

-------------------------------------------------------------------------------
(***************************************************************************)
(* The diagnostics of a document are a map from files to errors.           *)
(***************************************************************************)
\* The files for which document f has an entry in its diagnostics: itself when a
\* text of its source graph does not parse, otherwise those with errors.
Reported(f, texts) ==
  IF texts = None THEN {}
  ELSE IF \E e \in DOMAIN texts : texts[e].quality # "ok" THEN {f}
  ELSE Errors(f, texts) \cap DOMAIN texts

\* The entries for file e of the diagnostics of several documents.
Reporters(diagnostics, e) == {f \in DOMAIN diagnostics : e \in Reported(f, diagnostics[f])}

\* Flattened diagnostics for file e: entries of later documents replace those of
\* earlier ones, and a document without an entry gets an empty one of its own.
Flattened(diagnostics, e) ==
  LET by == IF Reporters(diagnostics, e) = {} THEN e ELSE Max(Reporters(diagnostics, e))
  IN  [by |-> by, texts |-> diagnostics[by]]

\* Nothing has been sent for a file.
Unsent == [by |-> 0, texts |-> None]

-------------------------------------------------------------------------------
(***************************************************************************)
(* DocumentManager::PerfromDelayedRebuild, then UpdateDiagnostics.         *)
(***************************************************************************)
First(S) == Min(S)

\* One iteration of the loop over finished rebuilds.
CheckFinished ==
  /\ pc = "finished" /\ todo # {}
  /\ LET f == First(todo)
         d == Take(docs[f])
     IN  /\ docs' = [docs EXCEPT ![f] = [d EXCEPT !.finished = FALSE]]
         /\ IF d.finished
            THEN pc' = "notify" /\ notify' = DOMAIN docs /\ UNCHANGED todo
            ELSE todo' = todo \ {f} /\ UNCHANGED <<pc, notify>>
  /\ UNCHANGED <<edits, all_diagnostics, updated, published>>

\* One document is told; after the last one the diagnostics are copied.
Notify ==
  /\ pc = "notify"
  /\ LET f == First(todo)
         g == First(notify)
     IN  /\ docs' = [docs EXCEPT ![g] = OnPossibleDependentFileChanged(g, f)]
         /\ notify' = notify \ {g}
         /\ IF notify = {g}
            THEN /\ all_diagnostics' = [h \in DOMAIN all_diagnostics \cup {f} |->
                                          IF h = f THEN docs'[f].diagnostics ELSE all_diagnostics[h]]
                 /\ updated' = TRUE
                 /\ todo' = todo \ {f}
                 /\ pc' = "finished"
            ELSE UNCHANGED <<all_diagnostics, updated, todo, pc>>
  /\ UNCHANGED <<edits, published>>

EndFinished ==
  /\ pc = "finished" /\ todo = {}
  /\ pc' = "start" /\ todo' = DOMAIN docs
  /\ UNCHANGED <<docs, edits, notify, all_diagnostics, updated, published>>

\* Mutant: the request for a rebuild is forgotten while a compilation is running.
StartRebuildResetsFlag ==
  /\ pc = "start" /\ todo # {}
  /\ LET f == First(todo)
         d == Take(docs[f])
     IN  /\ docs' = IF ~docs[f].required \/ docs[f].recent THEN docs
                    ELSE IF d.task # None THEN [docs EXCEPT ![f] = [d EXCEPT !.required = FALSE]]
                    ELSE DocsAfterLoad(f, Rebuilt(d, LoadSourceGraph(f)))
         /\ todo' = todo \ {f}
  /\ UNCHANGED <<edits, pc, notify, all_diagnostics, updated, published>>

\* One iteration of the loop that starts rebuilds: documents whose last
\* modification is recent have to wait.  A running compilation is not disturbed.
StartRebuild ==
  /\ pc = "start" /\ todo # {}
  /\ LET f == First(todo)
         d == Take(docs[f])
     IN  /\ docs' = IF ~docs[f].required \/ docs[f].recent THEN docs
                    ELSE IF d.task # None THEN [docs EXCEPT ![f] = d]
                    ELSE DocsAfterLoad(f, Rebuilt(d, LoadSourceGraph(f)))
         /\ todo' = todo \ {f}
  /\ UNCHANGED <<edits, pc, notify, all_diagnostics, updated, published>>

UpdateDiagnostics ==
  /\ pc = "start" /\ todo = {}
  /\ published' = [e \in Files |->
                     IF updated /\ (e \in DOMAIN all_diagnostics \/ Reporters(all_diagnostics, e) # {})
                     THEN Flattened(all_diagnostics, e) ELSE published[e]]
  /\ updated' = FALSE
  /\ pc' = "wait"
  /\ UNCHANGED <<docs, edits, todo, notify, all_diagnostics>>

-------------------------------------------------------------------------------
(***************************************************************************)
(* ServerProcessor::Process waits for a message or a timeout.              *)
(***************************************************************************)
\* The loop starts again.
Again == pc' = "finished" /\ todo' = DOMAIN docs' /\ UNCHANGED <<notify, updated>>

Timeout == pc = "wait" /\ UNCHANGED <<docs, edits, all_diagnostics, published>> /\ Again

\* Opening an open document again only sets its text.  The diagnostics it has are
\* sent as they are.
Open(f) ==
  /\ pc = "wait"
  /\ edits < MaxEdits
  /\ edits' = edits + 1
  /\ \E q \in Qualities :
       LET d == IF f \in DOMAIN docs THEN docs[f] ELSE NewDocument IN
         /\ docs' = [g \in DOMAIN docs \cup {f} |-> IF g = f THEN SetText(d, q) ELSE docs[g]]
         /\ published' = [e \in Files |-> IF e \in Reported(f, d.diagnostics)
                                          THEN [by |-> f, texts |-> d.diagnostics] ELSE published[e]]
  /\ UNCHANGED all_diagnostics
  /\ Again

\* Mutant: the diagnostics of a closed document stay.
CloseKeepsDiagnostics(f) ==
  /\ pc = "wait"
  /\ f \in DOMAIN docs
  /\ docs' = [g \in DOMAIN docs \ {f} |-> docs[g]]
  /\ UNCHANGED <<edits, all_diagnostics, published>>
  /\ Again

Close(f) ==
  /\ pc = "wait"
  /\ f \in DOMAIN docs
  /\ docs' = [g \in DOMAIN docs \ {f} |-> docs[g]]
  /\ all_diagnostics' = [g \in DOMAIN all_diagnostics \ {f} |-> all_diagnostics[g]]
  /\ UNCHANGED <<edits, published>>
  /\ Again

\* A full or an incremental change.
DidChange(f) ==
  /\ pc = "wait"
  /\ f \in DOMAIN docs
  /\ edits < MaxEdits
  /\ edits' = edits + 1
  /\ \E q \in Qualities : \/ docs' = [docs EXCEPT ![f] = SetText(@, q)]
                          \/ docs' = [docs EXCEPT ![f] = UpdateText(@, q)]
  /\ UNCHANGED <<all_diagnostics, published>>
  /\ Again

\* A request for a document (completion, definition and so on), or a change that
\* is refused because its range is wrong.  The symbols of a document that is not
\* compiled come from a source graph loaded for them.
Request(f) ==
  /\ pc = "wait"
  /\ f \in DOMAIN docs
  /\ \/ docs' = [docs EXCEPT ![f] = Take(@)]
     \/ Take(docs[f]).compiled = None /\ docs' = DocsAfterLoad(f, docs[f])
  /\ UNCHANGED <<edits, all_diagnostics, published>>
  /\ Again

\* The thread pool has compiled document f.
CompileDone(f) ==
  /\ f \in DOMAIN docs /\ docs[f].task # None
  /\ ~docs[f].task.ready
  /\ docs' = [docs EXCEPT ![f].task.ready = TRUE]
  /\ UNCHANGED <<edits, pc, todo, notify, all_diagnostics, updated, published>>

\* The rebuild delay of document f ends.
DelayEnds(f) ==
  /\ f \in DOMAIN docs /\ docs[f].recent
  /\ docs' = [docs EXCEPT ![f].recent = FALSE]
  /\ UNCHANGED <<edits, pc, todo, notify, all_diagnostics, updated, published>>

-------------------------------------------------------------------------------
Init ==
  /\ docs = <<>> /\ edits = 0
  /\ pc = "finished" /\ todo = {} /\ notify = {}
  /\ all_diagnostics = <<>> /\ updated = FALSE
  /\ published = [f \in Files |-> Unsent]

Loop == CheckFinished \/ Notify \/ EndFinished \/ StartRebuild \/ UpdateDiagnostics \/ Timeout

Message(f) == Open(f) \/ Close(f) \/ DidChange(f) \/ Request(f)

Next == Loop \/ \E f \in Files : Message(f) \/ CompileDone(f) \/ DelayEnds(f)

\* The processor thread runs (its waits are limited), compilations end, time passes.
Fairness == WF_vars(Loop) /\ \A f \in Files : WF_vars(CompileDone(f)) /\ WF_vars(DelayEnds(f))

Spec == Init /\ [][Next]_vars /\ Fairness

-------------------------------------------------------------------------------
(***************************************************************************)
(* Properties.                                                             *)
(***************************************************************************)
\* Every variable keeps its type; diagnostics are kept only for open documents.
TypeOK ==
  /\ DOMAIN docs \subseteq Files /\ DOMAIN all_diagnostics \subseteq DOMAIN docs
  /\ \A f \in DOMAIN docs :
       /\ docs[f].text \in Texts
       /\ docs[f].changes = None \/ docs[f].changes \in Seq(Changes)
       /\ docs[f].compiled = None \/ f \in DOMAIN docs[f].compiled.texts
       /\ docs[f].recent \in BOOLEAN /\ docs[f].required \in BOOLEAN /\ docs[f].finished \in BOOLEAN
  /\ edits \in 0 .. MaxEdits /\ updated \in BOOLEAN
  /\ pc \in {"finished", "notify", "start", "wait"}
  /\ todo \subseteq DOMAIN docs /\ notify \subseteq DOMAIN docs

\* Nothing is left to be done for the texts the editor has sent so far.
Quiet == \A f \in DOMAIN docs : ~docs[f].required /\ docs[f].task = None /\ ~docs[f].finished

Settled == pc = "wait" /\ Quiet

\* When all is quiet, the last build of an open document has seen its current
\* text, whatever was edited while a compilation was running, and when it
\* succeeded it is the document's compiled state.  The diagnostics the editor has
\* for the document are of that build, unless another document, open or closed
\* since (Close does not update the diagnostics), reports errors in the file:
\* then they are of the last build of the last such document, which may have
\* seen an older text.
DiagnosticsCurrent ==
  Settled => \A f \in DOMAIN docs :
    LET d == docs[f] IN
      /\ d.diagnostics # None /\ d.diagnostics[f] = d.text
      /\ (\A e \in DOMAIN d.diagnostics : d.diagnostics[e].quality = "ok") =>
           d.compiled # None /\ d.compiled.texts = d.diagnostics
      /\ published[f].by \in Files
      /\ published[f].by \in DOMAIN docs =>
           published[f] = Flattened([g \in DOMAIN docs |-> docs[g].diagnostics], f)

\* The text changes to erase when a result is taken are there: the assertion in
\* TryTakeBackgroundStateUpdate.
ChangesToErase ==
  \A f \in DOMAIN docs :
    docs[f].task # None /\ docs[f].changes # None => Len(docs[f].changes) >= docs[f].task.state.num

\* The recorded changes lead from the text compiled for document f to its
\* current text, one after the other.
ChangesConnect(f) ==
  LET c == docs[f].changes
      start == docs[f].compiled.texts[f].v
  IN  IF c = <<>> THEN docs[f].text.v = start
      ELSE /\ c[1].from = start /\ c[Len(c)].to = docs[f].text.v
           /\ \A i \in 1 .. Len(c) - 1 : c[i].to = c[i + 1].from

\* Positions in the current text are mapped to the compiled text by the recorded
\* changes: as long as the text has not been replaced as a whole, these are all
\* the changes, those made during the first compilation included.
ChangesTracked ==
  \A f \in DOMAIN docs :
    LET d == docs[f] IN
      d.compiled # None =>
        (d.changes # None /\ d.compiled.texts[f].base = d.text.base => ChangesConnect(f))

\* The same, and that there are recorded changes, for a compiled state whose
\* compilation was started while changes were being recorded.
IncrementalChangesTracked ==
  \A f \in DOMAIN docs :
    LET d == docs[f] IN
      d.compiled # None =>
        (d.compiled.tracked /\ d.compiled.texts[f].base = d.text.base
           => d.changes # None /\ ChangesConnect(f))

\* When all is quiet, the last build of document f has seen the texts of the
\* other open documents as they are now.
SawCurrentImports(f) ==
  \A e \in DOMAIN docs[f].diagnostics \cap DOMAIN docs :
    docs[f].diagnostics[e] = GetTextForCompilation(f, e)

\* A document that can be compiled, because all the texts of its source graph
\* parse, is rebuilt when its dependencies have changed, also when its last
\* rebuild failed or was its first one.
ImportsFollowed ==
  Settled => \A f \in DOMAIN docs :
    (\A e \in Loaded(f) : GetTextForCompilation(f, e).quality = "ok") => SawCurrentImports(f)

\* The same for documents that were compiled before: the last compilation
\* succeeded and was not the first one.
CompiledImportsFollowed ==
  Settled => \A f \in DOMAIN docs :
    docs[f].compiled # None =>
      (docs[f].compiled.texts = docs[f].diagnostics /\ ~docs[f].compiled.first => SawCurrentImports(f))

\* Rebuilds come to an end: documents do not go on triggering rebuilds of each
\* other (the editor sends finitely many texts).
RebuildsSettle == <>[]Quiet

=============================================================================
