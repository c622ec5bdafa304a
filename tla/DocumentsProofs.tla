---------------------------- MODULE DocumentsProofs ----------------------------
(***************************************************************************)
(* The properties of Documents, for any number of files and edits and for  *)
(* every import graph without loops.  What is true of a single document is *)
(* preserved by each of its methods; what relates documents to each other  *)
(* and to the published diagnostics is preserved by each step of the       *)
(* processor thread.                                                       *)
(***************************************************************************)
EXTENDS Documents, SequenceTheorems, WellFoundedInduction, TLAPS

\* The provers to try, in this order, with their time limits in seconds.
USE SMTT(30), ZenonT(30), SMTT(40), SMTT(50), SMTT(60)

-------------------------------------------------------------------------------
(***************************************************************************)
(* A single document d of file f, after n texts of the editor.             *)
(***************************************************************************)
DocumentStates ==
  [text : Texts, changes : Seq(Changes) \cup {None}, recent : BOOLEAN, required : BOOLEAN,
   compiled : CompiledStates \cup {None}, task : Compilations \cup {None}, finished : BOOLEAN,
   diagnostics : SourceTexts \cup {None}]

\* The file and what it imports, directly or not.
ImportClosure(f) ==
  {e \in Files : \A S \in SUBSET Files : f \in S /\ (\A g \in S : Imports[g] \subseteq S) => e \in S}

AllOk(texts) == \A e \in DOMAIN texts : texts[e].quality = "ok"

\* A compilation has read the whole source graph, and it parses.
Compiles(f, c) == DOMAIN c.texts = ImportClosure(f) /\ AllOk(c.texts)

\* A compilation that is not the first one leaves the compiled state in place
\* while it is running; there are no diagnostics until it ends.
BuildsSound(f, d) ==
  /\ d.compiled # None => Compiles(f, d.compiled)
  /\ d.task # None => /\ Compiles(f, d.task.state)
                      /\ d.task.state.first \/ d.compiled # None
                      /\ d.task.state.tracked => d.compiled # None
                      /\ d.diagnostics = None

\* A document that needs no rebuild has been built, or is being built, with its
\* current text.
BuiltCurrent(f, d) ==
  ~d.required =>
    /\ d.task # None => d.task.state.texts[f] = d.text
    /\ d.task = None =>
         /\ d.diagnostics # None /\ d.diagnostics[f] = d.text
         /\ AllOk(d.diagnostics) => d.compiled # None /\ d.compiled.texts = d.diagnostics

Erasable(d) == d.task # None /\ d.changes # None => Len(d.changes) >= d.task.state.num

\* The changes c after the first k ones lead from version "start" to version "end".
Connects(c, k, start, end) ==
  /\ Len(c) = k => start = end
  /\ Len(c) > k => c[k + 1].from = start /\ c[Len(c)].to = end
  /\ \A i \in 1 .. Len(c) : i > k /\ i < Len(c) => c[i].to = c[i + 1].from

\* The changes that remain for a compiled state, and those that will remain when
\* the running compilation ends, lead from the text compiled to the current one.
Tracks(f, d, c, k) ==
  c.tracked /\ c.texts[f].base = d.text.base
    => d.changes # None /\ Connects(d.changes, k, c.texts[f].v, d.text.v)

Tracked(f, d) ==
  /\ d.compiled # None => Tracks(f, d, d.compiled, 0)
  /\ d.task # None => Tracks(f, d, d.task.state, d.task.state.num)

\* No text comes from a full text that is yet to be sent.
PastBases(f, d, n) ==
  /\ d.text.base <= n
  /\ d.compiled # None => d.compiled.texts[f].base <= n
  /\ d.task # None => d.task.state.texts[f].base <= n

DocumentInv(f, d, n) ==
  /\ d \in DocumentStates
  /\ BuildsSound(f, d) /\ BuiltCurrent(f, d) /\ Erasable(d) /\ Tracked(f, d) /\ PastBases(f, d, n)

-------------------------------------------------------------------------------
(***************************************************************************)
(* The documents and the processor thread.                                 *)
(***************************************************************************)
\* The thread is telling the other documents about file f.
Telling(f) == pc = "notify" /\ f = First(todo)

LoopTypes ==
  /\ DOMAIN docs \subseteq Files /\ docs = [f \in DOMAIN docs |-> docs[f]]
  /\ DOMAIN all_diagnostics \subseteq DOMAIN docs
  /\ all_diagnostics = [f \in DOMAIN all_diagnostics |-> all_diagnostics[f]]
  /\ published = [f \in Files |-> published[f]]
  /\ edits \in 0 .. MaxEdits /\ updated \in BOOLEAN
  /\ pc \in {"finished", "notify", "start", "wait"}
  /\ todo \subseteq DOMAIN docs /\ notify \subseteq DOMAIN docs
  /\ pc = "notify" => todo # {} /\ notify # {}
  /\ pc # "notify" => notify = {}

DocumentsSound == \A f \in DOMAIN docs : DocumentInv(f, docs[f], edits)

\* Diagnostics that the thread has not yet to look at are those of the document.
Published(f, d) ==
  ~d.finished /\ ~Telling(f) /\ d.diagnostics # None =>
    f \in DOMAIN all_diagnostics /\ all_diagnostics[f] = d.diagnostics

Publishing ==
  /\ pc = "wait" => ~updated
  /\ \A f \in DOMAIN docs : Published(f, docs[f])

\* The text of document d of file e that other documents are compiled with.
SeenText(e, d) == LET t == Take(d) IN IF t.compiled = None THEN t.text ELSE t.compiled.texts[e]

\* The document will be rebuilt, is being built or was built just now.
Pending(d) == d.required \/ d.task # None \/ d.finished

\* The thread will copy the diagnostics of document g once more.
Awaited(g) == g \in DOMAIN docs /\ (Telling(g) \/ Pending(docs[g]))

\* The editor has the flattened diagnostics for file e, or the entry it has is of
\* a document closed since, or of one that was opened again.
Shown(e) ==
  /\ published[e].by \in Files
  /\ \/ published[e] = Flattened(all_diagnostics, e)
     \/ published[e].by \notin DOMAIN all_diagnostics
     \/ Awaited(published[e].by)

Showing == \A e \in DOMAIN all_diagnostics : updated \/ Shown(e)

\* The last build of document d has read a text of file e that is not the one to
\* read now (de is its document): then a build of e is to be waited for, or d is
\* to be told about it.  This is so for a build started when there was a compiled
\* state.
LastBuild(d) == IF d.task = None THEN d.compiled ELSE d.task.state

Follows(d, e, de) ==
  /\ ~d.required
  /\ d.task = None => d.compiled # None /\ d.compiled.texts = d.diagnostics
  /\ ~LastBuild(d).first /\ e \in DOMAIN LastBuild(d).texts
  => LastBuild(d).texts[e] = SeenText(e, de) \/ Pending(de)

Following ==
  \A f, e \in DOMAIN docs : f # e => (Telling(e) /\ f \in notify) \/ Follows(docs[f], e, docs[e])

DocumentsInv == LoopTypes /\ DocumentsSound /\ Publishing /\ Showing /\ Following

-------------------------------------------------------------------------------
(***************************************************************************)
(* Source texts, changes and the first file of a set.                      *)
(***************************************************************************)
LEMMA SourceTextsType ==
  ASSUME NEW m PROVE m \in SourceTexts <=> DOMAIN m \subseteq Files /\ m \in [DOMAIN m -> Texts]
BY DEF SourceTexts

LEMMA ImportsItself == \A f \in Files : f \in ImportClosure(f)
BY DEF ImportClosure

LEMMA FirstExists ==
  ASSUME NEW S, S \subseteq Files, S # {} PROVE First(S) \in S /\ \A m \in S : First(S) <= m
<1>1. S \subseteq Nat
  BY DocumentsAssumption DEF Files
<1>2. PICK n \in S : \A m \in S : ~(<<m, n>> \in OpToRel(<, Nat))
  BY <1>1, NatLessThanWellFounded, WFMin, Zenon
<1>3. ASSUME NEW m \in Nat, NEW k \in Nat, ~(<<m, k>> \in OpToRel(<, Nat)) PROVE k <= m
  <2>1. ~(<<m, k>> \in {ss \in Nat \X Nat : ss[1] < ss[2]})
    BY <1>3, Zenon DEF OpToRel
  <2>2. QED
    BY <2>1
<1>4. \A m \in S : n <= m
  BY <1>1, <1>2, <1>3, Zenon
<1>5. QED
  BY <1>4 DEF First, Min

LEMMA LastExists ==
  ASSUME NEW S, S \subseteq Files, S # {} PROVE Max(S) \in S /\ \A m \in S : m <= Max(S)
<1>1. NumFiles \in Nat /\ S \subseteq 1 .. NumFiles
  BY DocumentsAssumption DEF Files
<1>2. PICK T : T = {k \in Files : NumFiles + 1 - k \in S}
  BY Zenon
<1>3. ASSUME NEW m \in S PROVE NumFiles + 1 - m \in T
  <2>1. m \in 1 .. NumFiles
    BY <1>1
  <2>2. NumFiles + 1 - m \in 1 .. NumFiles /\ NumFiles + 1 - (NumFiles + 1 - m) = m
    BY <1>1, <2>1
  <2>3. QED
    BY <1>2, <2>2 DEF Files
<1>4. PICK k \in T : \A m \in T : k <= m
  <2>1. T \subseteq Files /\ T # {}
    BY <1>2, <1>3, Zenon
  <2>2. QED
    BY <2>1, FirstExists, Zenon
<1>5. PICK n \in S : n = NumFiles + 1 - k
  BY <1>2, <1>4
<1>6. ASSUME NEW m \in S PROVE n >= m
  <2>1. k <= NumFiles + 1 - m
    BY <1>3, <1>4, Zenon
  <2>2. n \in 1 .. NumFiles /\ m \in 1 .. NumFiles /\ k \in 1 .. NumFiles
    BY <1>1, <1>2 DEF Files
  <2>3. QED
    BY <1>1, <1>5, <2>1, <2>2
<1>7. Max(S) \in S /\ \A m \in S : Max(S) >= m
  BY <1>6, Zenon DEF Max
<1>8. \A m \in S : m \in Int
  BY <1>1
<1>9. QED
  BY <1>7, <1>8

-------------------------------------------------------------------------------
(***************************************************************************)
(* Flattened diagnostics.                                                  *)
(***************************************************************************)
LEMMA FlattenedBy ==
  ASSUME NEW D, DOMAIN D \subseteq Files, NEW e \in DOMAIN D PROVE Flattened(D, e).by \in DOMAIN D
<1>1. Reporters(D, e) \subseteq DOMAIN D
  BY DEF Reporters
<1>2. Reporters(D, e) # {} => Max(Reporters(D, e)) \in Reporters(D, e)
  BY <1>1, LastExists
<1>3. QED
  BY <1>1, <1>2 DEF Flattened

\* An entry stays when the diagnostics of another document than the one it is of
\* are dropped.
LEMMA FlattenedWithout ==
  ASSUME NEW D, DOMAIN D \subseteq Files, NEW g, NEW e \in DOMAIN D \ {g},
         NEW E, E = [h \in DOMAIN D \ {g} |-> D[h]], Flattened(D, e).by # g
  PROVE  Flattened(E, e) = Flattened(D, e)
<1>1. PICK R : R = Reporters(D, e)
  OBVIOUS
<1>2. R \subseteq Files /\ R \subseteq DOMAIN D
  BY <1>1 DEF Reporters
<1>3. Reporters(E, e) = R \ {g}
  BY <1>1 DEF Reporters
<1>4. CASE R = {}
  <2>1. Reporters(E, e) = {} /\ E[e] = D[e]
    BY <1>3, <1>4
  <2>2. QED
    BY <1>1, <1>4, <2>1 DEF Flattened
<1>5. CASE R # {}
  <2>1. Max(R) \in R /\ (\A m \in R : m <= Max(R)) /\ Max(R) # g
    BY <1>1, <1>2, <1>5, LastExists DEF Flattened
  <2>2. R \ {g} # {} /\ R \ {g} \subseteq Files
    BY <1>2, <2>1
  <2>3. Max(R \ {g}) \in R \ {g} /\ \A m \in R \ {g} : m <= Max(R \ {g})
    BY <2>2, LastExists
  <2>4. Max(R \ {g}) = Max(R)
    <3>1. Max(R) \in Files /\ Max(R \ {g}) \in Files
      BY <1>2, <2>1, <2>3, Zenon
    <3>2. Max(R \ {g}) <= Max(R) /\ Max(R) <= Max(R \ {g})
      BY <2>1, <2>3, Zenon
    <3>3. QED
      BY <3>1, <3>2, DocumentsAssumption DEF Files
  <2>5. E[Max(R)] = D[Max(R)]
    BY <1>2, <2>1
  <2>6. QED
    BY <1>1, <1>3, <1>5, <2>2, <2>4, <2>5 DEF Flattened
<1>6. QED
  BY <1>4, <1>5

\* A step that leaves the diagnostics as they are, and forgets no rebuild.
LEMMA ShowingKept ==
  ASSUME Showing, UNCHANGED <<all_diagnostics, updated, published>>,
         \A g \in DOMAIN docs : Awaited(g) => Awaited(g)'
  PROVE  Showing'
<1>1. ASSUME NEW e \in DOMAIN all_diagnostics, Shown(e) PROVE Shown(e)'
  <2>1. Awaited(published[e].by) => Awaited(published[e].by)'
    BY DEF Awaited
  <2>2. QED
    BY <1>1, <2>1 DEF Shown
<1>2. QED
  BY <1>1 DEF Showing

LEMMA ConnectsSuffix ==
  ASSUME NEW c \in Seq(Changes), NEW k \in Nat, k <= Len(c), NEW a, NEW b, Connects(c, k, a, b)
  PROVE  SubSeq(c, k + 1, Len(c)) \in Seq(Changes) /\ Connects(SubSeq(c, k + 1, Len(c)), 0, a, b)
<1>1. PICK n \in Nat : n = Len(c)
  OBVIOUS
<1>2. PICK s : s = SubSeq(c, k + 1, n)
  BY Zenon
<1>3. k + 1 \in 1 .. n + 1 /\ n \in (k + 1) - 1 .. n /\ n - (k + 1) + 1 = n - k /\ n - k \in Nat
  BY <1>1
<1>4. s \in Seq(Changes) /\ Len(s) = n - k
  BY <1>1, <1>2, <1>3, SubSeqProperties
<1>5. \A i \in 1 .. n - k : s[i] = c[k + i]
  <2>1. \A i \in 1 .. n - (k + 1) + 1 : s[i] = c[(k + 1) + i - 1]
    BY <1>1, <1>2, <1>3, SubSeqProperties
  <2>2. ASSUME NEW i \in 1 .. n - k PROVE s[i] = c[k + i]
    <3>1. i \in 1 .. n - (k + 1) + 1 /\ (k + 1) + i - 1 = k + i
      BY <1>3
    <3>2. QED
      BY <2>1, <3>1
  <2>3. QED
    BY <2>2
<1>6. /\ n = k => a = b
      /\ n > k => c[k + 1].from = a /\ c[n].to = b
      /\ \A i \in 1 .. n : i > k /\ i < n => c[i].to = c[i + 1].from
  BY <1>1 DEF Connects
<1>7. Len(s) > 0 => s[1].from = a /\ s[n - k].to = b
  <2> SUFFICES ASSUME n - k > 0 PROVE s[1].from = a /\ s[n - k].to = b
    BY <1>4
  <2>1. 1 \in 1 .. n - k /\ n - k \in 1 .. n - k /\ k + (n - k) = n /\ n > k
    BY <1>3
  <2>2. s[1] = c[k + 1] /\ s[n - k] = c[n]
    BY <1>5, <2>1
  <2>3. QED
    BY <1>6, <2>1, <2>2
<1>8. ASSUME NEW i \in 1 .. n - k, i < n - k PROVE s[i].to = s[i + 1].from
  <2>1. i + 1 \in 1 .. n - k /\ k + (i + 1) = (k + i) + 1 /\ k + i \in 1 .. n /\ k + i > k /\ k + i < n
    BY <1>3, <1>8
  <2>2. s[i] = c[k + i] /\ s[i + 1] = c[(k + i) + 1]
    BY <1>5, <2>1
  <2>3. c[k + i].to = c[(k + i) + 1].from
    BY <1>6, <2>1
  <2>4. QED
    BY <2>2, <2>3
<1>9. Len(s) = 0 => a = b
  BY <1>4, <1>6
<1>10. Connects(s, 0, a, b)
  BY <1>3, <1>4, <1>7, <1>8, <1>9 DEF Connects
<1>11. QED
  BY <1>1, <1>2, <1>4, <1>10

LEMMA ConnectsAppend ==
  ASSUME NEW c \in Seq(Changes), NEW k \in Nat, k <= Len(c), NEW a, NEW b, Connects(c, k, a, b),
         NEW x \in Changes, x.from = b
  PROVE  Connects(Append(c, x), k, a, x.to)
<1>1. PICK n \in Nat : n = Len(c)
  OBVIOUS
<1>2. PICK s : s = Append(c, x)
  BY Zenon
<1>3. Len(s) = n + 1 /\ s[n + 1] = x
  BY <1>1, <1>2, AppendProperties
<1>4. \A i \in 1 .. n : s[i] = c[i]
  BY <1>1, <1>2, AppendProperties
<1>5. /\ n = k => a = b
      /\ n > k => c[k + 1].from = a /\ c[n].to = b
      /\ \A i \in 1 .. n : i > k /\ i < n => c[i].to = c[i + 1].from
  BY <1>1 DEF Connects
<1>6. s[k + 1].from = a
  <2>1. CASE n = k
    BY <1>3, <1>5, <2>1
  <2>2. CASE n > k
    <3>1. k + 1 \in 1 .. n
      BY <1>1, <2>2
    <3>2. QED
      BY <1>4, <1>5, <2>2, <3>1
  <2>3. QED
    BY <1>1, <2>1, <2>2
<1>7. ASSUME NEW i \in 1 .. n + 1, i > k, i < n + 1 PROVE s[i].to = s[i + 1].from
  <2>1. CASE i = n
    <3>1. n > k /\ n \in 1 .. n
      BY <1>7, <2>1
    <3>2. QED
      BY <1>3, <1>4, <1>5, <2>1, <3>1
  <2>2. CASE i < n
    <3>1. i \in 1 .. n /\ i + 1 \in 1 .. n
      BY <1>7, <2>2
    <3>2. QED
      BY <1>4, <1>5, <1>7, <2>2, <3>1
  <2>3. QED
    BY <1>7, <2>1, <2>2
<1>8. QED
  BY <1>1, <1>2, <1>3, <1>6, <1>7 DEF Connects

-------------------------------------------------------------------------------
(***************************************************************************)
(* The methods of Document.                                                *)
(***************************************************************************)
\* What the invariant of a document does not speak of.
LEMMA SameBuilds ==
  ASSUME NEW f, NEW d, NEW n, DocumentInv(f, d, n), NEW e \in DocumentStates,
         e.text = d.text, e.changes = d.changes, e.compiled = d.compiled, e.diagnostics = d.diagnostics,
         d.required => e.required,
         d.task = None => e.task = None,
         d.task # None => e.task # None /\ e.task.state = d.task.state
  PROVE  DocumentInv(f, e, n)
<1>1. BuildsSound(f, e)
  BY DEF DocumentInv, BuildsSound
<1>2. BuiltCurrent(f, e)
  BY DEF DocumentInv, BuiltCurrent
<1>3. Erasable(e)
  BY DEF DocumentInv, Erasable
<1>4. Tracked(f, e)
  BY DEF DocumentInv, Tracked, Tracks
<1>5. PastBases(f, e, n)
  BY DEF DocumentInv, PastBases
<1>6. QED
  BY <1>1, <1>2, <1>3, <1>4, <1>5 DEF DocumentInv

\* Changes of the flags of a document.
LEMMA FlagsDocument ==
  ASSUME NEW f, NEW d, NEW n, DocumentInv(f, d, n)
  PROVE  /\ DocumentInv(f, [d EXCEPT !.finished = FALSE], n)
         /\ DocumentInv(f, [d EXCEPT !.recent = FALSE], n)
         /\ DocumentInv(f, [d EXCEPT !.recent = TRUE, !.required = TRUE], n)
<1>1. d \in DocumentStates
  BY DEF DocumentInv
<1>2. DocumentInv(f, [d EXCEPT !.finished = FALSE], n)
  <2>1. PICK e : e = [d EXCEPT !.finished = FALSE]
    BY Zenon
  <2>2. /\ e \in DocumentStates /\ e.text = d.text /\ e.changes = d.changes /\ e.compiled = d.compiled
        /\ e.diagnostics = d.diagnostics /\ e.required = d.required /\ e.task = d.task
    BY <1>1, <2>1, Zenon DEF DocumentStates
  <2>3. QED
    BY <2>1, <2>2, SameBuilds, Zenon
<1>3. DocumentInv(f, [d EXCEPT !.recent = FALSE], n)
  <2>1. PICK e : e = [d EXCEPT !.recent = FALSE]
    BY Zenon
  <2>2. /\ e \in DocumentStates /\ e.text = d.text /\ e.changes = d.changes /\ e.compiled = d.compiled
        /\ e.diagnostics = d.diagnostics /\ e.required = d.required /\ e.task = d.task
    BY <1>1, <2>1, Zenon DEF DocumentStates
  <2>3. QED
    BY <2>1, <2>2, SameBuilds, Zenon
<1>4. DocumentInv(f, [d EXCEPT !.recent = TRUE, !.required = TRUE], n)
  <2>1. PICK e : e = [d EXCEPT !.recent = TRUE, !.required = TRUE]
    OBVIOUS
  <2>2. /\ e \in DocumentStates /\ e.text = d.text /\ e.changes = d.changes /\ e.compiled = d.compiled
        /\ e.diagnostics = d.diagnostics /\ e.required = TRUE /\ e.task = d.task
    BY <1>1, <2>1, Zenon DEF DocumentStates
  <2>3. QED
    BY <2>1, <2>2, SameBuilds, Zenon
<1>5. QED
  BY <1>2, <1>3, <1>4

LEMMA ReadyDocument ==
  ASSUME NEW f, NEW d, NEW n, DocumentInv(f, d, n), d.task # None
  PROVE  /\ DocumentInv(f, [d EXCEPT !.task.ready = TRUE], n)
         /\ [d EXCEPT !.task.ready = TRUE].task # None
         /\ [d EXCEPT !.task.ready = TRUE].task.state = d.task.state
         /\ [d EXCEPT !.task.ready = TRUE].required = d.required
         /\ [d EXCEPT !.task.ready = TRUE].finished = d.finished
         /\ [d EXCEPT !.task.ready = TRUE].diagnostics = d.diagnostics
<1>1. d \in DocumentStates /\ d.task \in Compilations
  BY DEF DocumentInv, DocumentStates
<1>2. PICK k : k = [d.task EXCEPT !.ready = TRUE]
  BY Zenon
<1>3. k \in Compilations /\ k # None /\ k.state = d.task.state
  BY <1>1, <1>2, NoneAssumption, Zenon DEF Compilations
<1>4. PICK e : e = [d EXCEPT !.task.ready = TRUE]
  BY Zenon
<1>5. e = [d EXCEPT !.task = k]
  BY <1>2, <1>4
<1>6. /\ e \in DocumentStates /\ e.text = d.text /\ e.changes = d.changes /\ e.compiled = d.compiled
      /\ e.diagnostics = d.diagnostics /\ e.required = d.required /\ e.task = k /\ e.finished = d.finished
  BY <1>1, <1>3, <1>5 DEF DocumentStates
<1>7. DocumentInv(f, e, n)
  BY <1>3, <1>6, SameBuilds
<1>8. QED
  BY <1>3, <1>4, <1>6, <1>7, ZenonT(40)

\* The result of a finished compilation is taken.
LEMMA TakeDocument ==
  ASSUME NEW f \in Files, NEW d, NEW n, DocumentInv(f, d, n)
  PROVE  /\ DocumentInv(f, Take(d), n)
         /\ Take(d).text = d.text /\ Take(d).required = d.required /\ Take(d).recent = d.recent
         /\ \/ Take(d) = d
            \/ /\ d.task # None /\ Take(d).task = None /\ Take(d).finished = TRUE
               /\ Take(d).compiled = d.task.state /\ Take(d).diagnostics = d.task.state.texts
               /\ Take(d).compiled # None
<1>0. d \in DocumentStates /\ f \in ImportClosure(f)
  BY ImportsItself DEF DocumentInv
<1>1. CASE d.task = None \/ d.task.ready = FALSE
  BY <1>1 DEF Take
<1>2. CASE d.task # None /\ d.task.ready = TRUE
  <2>1. PICK c : c = d.task.state
    OBVIOUS
  <2>2. d.task \in Compilations /\ c \in CompiledStates
    BY <1>0, <1>2, <2>1 DEF DocumentStates, Compilations
  <2>3. c # None /\ c.num \in Nat /\ c.texts \in SourceTexts /\ c.texts # None
    BY <2>2, NoneAssumption DEF CompiledStates
  <2>4. PICK cs : cs = IF d.changes = None THEN <<>> ELSE SubSeq(d.changes, c.num + 1, Len(d.changes))
    BY Zenon
  <2>5. PICK e : e = Take(d)
    OBVIOUS
  <2>6. e = [d EXCEPT !.compiled = c, !.task = None, !.finished = TRUE, !.diagnostics = c.texts, !.changes = cs]
    BY <1>2, <2>1, <2>4, <2>5 DEF Take
  <2>7. d.changes = None \/ (d.changes \in Seq(Changes) /\ d.changes # None)
    BY <1>0 DEF DocumentStates
  <2>8. d.changes # None => Len(d.changes) >= c.num
    BY <1>2, <2>1 DEF DocumentInv, Erasable
  <2>9. cs \in Seq(Changes)
    <3>1. CASE d.changes = None
      BY <2>4, <3>1
    <3>2. CASE d.changes # None
      <4>1. d.changes \in Seq(Changes) /\ c.num <= Len(d.changes) /\ c.num \in Nat
        BY <2>3, <2>7, <2>8, <3>2
      <4>2. PICK k \in Nat : k = Len(d.changes)
        BY <4>1
      <4>3. c.num + 1 \in 1 .. k + 1 /\ k \in (c.num + 1) - 1 .. k
        BY <4>1, <4>2
      <4>4. SubSeq(d.changes, c.num + 1, Len(d.changes)) \in Seq(Changes)
        BY <4>1, <4>2, <4>3, SubSeqProperties
      <4>5. QED
        BY <2>4, <3>2, <4>4
    <3>3. QED
      BY <3>1, <3>2
  <2>10. cs # None
    BY <2>9, NoneAssumption
  <2>11. /\ e \in DocumentStates /\ e.text = d.text /\ e.changes = cs /\ e.compiled = c /\ e.task = None
         /\ e.finished = TRUE /\ e.diagnostics = c.texts /\ e.required = d.required /\ e.recent = d.recent
    BY <1>0, <2>2, <2>3, <2>6, <2>9, ZenonT(40) DEF DocumentStates
  <2>12. Compiles(f, c)
    BY <1>2, <2>1 DEF DocumentInv, BuildsSound
  <2>13. BuildsSound(f, e)
    BY <2>11, <2>12 DEF BuildsSound
  <2>14. BuiltCurrent(f, e)
    <3>1. ~d.required => c.texts[f] = d.text
      BY <1>2, <2>1 DEF DocumentInv, BuiltCurrent
    <3>2. QED
      BY <2>3, <2>11, <3>1 DEF BuiltCurrent
  <2>15. Erasable(e)
    BY <2>11 DEF Erasable
  <2>16. Tracked(f, e)
    <3>1. Tracks(f, d, c, c.num)
      BY <1>2, <2>1 DEF DocumentInv, Tracked
    <3>2. ASSUME c.tracked, c.texts[f].base = d.text.base PROVE Connects(cs, 0, c.texts[f].v, d.text.v)
      <4>1. d.changes # None /\ Connects(d.changes, c.num, c.texts[f].v, d.text.v)
        BY <3>1, <3>2 DEF Tracks
      <4>2. d.changes \in Seq(Changes) /\ c.num <= Len(d.changes)
        BY <2>3, <2>7, <2>8, <4>1
      <4>3. QED
        BY <2>3, <2>4, <4>1, <4>2, ConnectsSuffix
    <3>3. Tracks(f, e, c, 0)
      BY <2>10, <2>11, <3>2 DEF Tracks
    <3>4. QED
      BY <2>11, <3>3 DEF Tracked
  <2>17. PastBases(f, e, n)
    BY <1>2, <2>1, <2>11 DEF DocumentInv, PastBases
  <2>18. DocumentInv(f, e, n)
    BY <2>11, <2>13, <2>14, <2>15, <2>16, <2>17 DEF DocumentInv
  <2>19. QED
    BY <1>2, <2>1, <2>3, <2>5, <2>11, <2>18
<1>3. QED
  BY <1>0, <1>1, <1>2, Zenon DEF DocumentStates, Compilations

\* A new document.
LEMMA NewDocumentInv ==
  ASSUME NEW f, NEW n \in Nat
  PROVE  DocumentInv(f, NewDocument, n) /\ NewDocument.diagnostics = None
<1>1. PICK t : t = Text(0, 0, "ok")
  OBVIOUS
<1>2. t \in Texts /\ t.base = 0
  BY <1>1, DocumentsAssumption DEF Text, Texts
<1>3. PICK d : d = NewDocument
  OBVIOUS
<1>4. /\ d \in DocumentStates /\ d.text = t /\ d.changes = None /\ d.required = TRUE /\ d.compiled = None
      /\ d.task = None /\ d.diagnostics = None
  BY <1>1, <1>2, <1>3 DEF NewDocument, DocumentStates
<1>5. BuildsSound(f, d) /\ BuiltCurrent(f, d) /\ Erasable(d) /\ Tracked(f, d) /\ PastBases(f, d, n)
  BY <1>2, <1>4 DEF BuildsSound, BuiltCurrent, Erasable, Tracked, PastBases
<1>6. QED
  BY <1>3, <1>4, <1>5 DEF DocumentInv

\* More texts have been sent.
LEMMA LaterDocument ==
  ASSUME NEW f \in Files, NEW d, NEW n \in Nat, DocumentInv(f, d, n) PROVE DocumentInv(f, d, n + 1)
<1>1. d \in DocumentStates /\ f \in ImportClosure(f) /\ BuildsSound(f, d) /\ PastBases(f, d, n)
  BY ImportsItself DEF DocumentInv
<1>2. ASSUME NEW c \in CompiledStates, Compiles(f, c) PROVE c.texts[f].base \in Nat
  <2>1. c.texts \in [DOMAIN c.texts -> Texts] /\ f \in DOMAIN c.texts
    BY <1>1, <1>2, SourceTextsType DEF CompiledStates, Compiles
  <2>2. QED
    BY <2>1, DocumentsAssumption DEF Texts
<1>3. d.text.base \in Nat
  BY <1>1, DocumentsAssumption DEF DocumentStates, Texts
<1>4. d.compiled # None => d.compiled.texts[f].base \in Nat
  BY <1>1, <1>2 DEF DocumentStates, BuildsSound
<1>5. d.task # None => d.task.state.texts[f].base \in Nat
  BY <1>1, <1>2 DEF DocumentStates, Compilations, BuildsSound
<1>6. PastBases(f, d, n + 1)
  BY <1>1, <1>3, <1>4, <1>5 DEF PastBases
<1>7. QED
  BY <1>6 DEF DocumentInv

\* The editor replaces the text: no recorded change relates to it.
LEMMA SetTextDocument ==
  ASSUME NEW f \in Files, NEW d, NEW q \in Qualities, edits \in 0 .. MaxEdits, edits < MaxEdits,
         DocumentInv(f, d, edits)
  PROVE  /\ DocumentInv(f, SetText(d, q), edits + 1)
         /\ SetText(d, q).required = TRUE /\ SetText(d, q).task = d.task
         /\ SetText(d, q).finished = d.finished /\ SetText(d, q).diagnostics = d.diagnostics
<1>1. PICK n \in Nat : n = edits
  BY DocumentsAssumption
<1>2. PICK t : t = Text(n + 1, n + 1, q)
  OBVIOUS
<1>3. t \in Texts /\ t.base = n + 1
  BY <1>1, <1>2, DocumentsAssumption DEF Text, Texts
<1>4. PICK e : e = SetText(d, q)
  OBVIOUS
<1>5. e = [d EXCEPT !.text = t, !.changes = None, !.recent = TRUE, !.required = TRUE]
  BY <1>1, <1>2, <1>4 DEF SetText
<1>6. DocumentInv(f, d, n)
  BY <1>1
<1>7. /\ e \in DocumentStates /\ e.text = t /\ e.changes = None /\ e.required = TRUE /\ e.task = d.task
      /\ e.compiled = d.compiled /\ e.finished = d.finished /\ e.diagnostics = d.diagnostics
  BY <1>3, <1>5, <1>6, ZenonT(40) DEF DocumentInv, DocumentStates
<1>8. BuildsSound(f, e)
  BY <1>6, <1>7 DEF DocumentInv, BuildsSound
<1>9. BuiltCurrent(f, e) /\ Erasable(e)
  BY <1>7 DEF BuiltCurrent, Erasable
<1>10. DocumentInv(f, d, n + 1) /\ PastBases(f, d, n)
  BY <1>6, LaterDocument DEF DocumentInv
<1>11. PastBases(f, e, n + 1)
  BY <1>3, <1>7, <1>10 DEF DocumentInv, PastBases
<1>12. Tracked(f, e)
  <2>1. e.compiled # None => e.compiled.texts[f].base # n + 1
    BY <1>7, <1>10 DEF PastBases
  <2>2. e.task # None => e.task.state.texts[f].base # n + 1
    BY <1>7, <1>10 DEF PastBases
  <2>3. QED
    BY <1>3, <1>7, <2>1, <2>2 DEF Tracked, Tracks
<1>13. QED
  BY <1>1, <1>4, <1>7, <1>8, <1>9, <1>11, <1>12 DEF DocumentInv

\* The editor changes a range of the text.
LEMMA UpdateTextDocument ==
  ASSUME NEW f \in Files, NEW d, NEW q \in Qualities, edits \in 0 .. MaxEdits, edits < MaxEdits,
         DocumentInv(f, d, edits)
  PROVE  /\ DocumentInv(f, UpdateText(d, q), edits + 1)
         /\ UpdateText(d, q).required = TRUE /\ UpdateText(d, q).task = Take(d).task
         /\ UpdateText(d, q).finished = Take(d).finished
         /\ UpdateText(d, q).diagnostics = Take(d).diagnostics
<1>1. PICK n \in Nat : n = edits
  BY DocumentsAssumption
<1>2. PICK e : e = Take(d)
  OBVIOUS
<1>3. DocumentInv(f, e, n)
  BY <1>1, <1>2, TakeDocument, ZenonT(40)
<1>4. e \in DocumentStates /\ e.text \in Texts /\ e.text.v \in 0 .. MaxEdits /\ e.text.base \in 0 .. MaxEdits
  BY <1>3 DEF DocumentInv, DocumentStates, Texts
<1>5. PICK t : t = Text(n + 1, e.text.base, q)
  OBVIOUS
<1>6. t \in Texts /\ t.base = e.text.base /\ t.v = n + 1
  BY <1>1, <1>4, <1>5, DocumentsAssumption DEF Text, Texts
<1>7. PICK x : x = [from |-> e.text.v, to |-> n + 1]
  BY Zenon
<1>8. x \in Changes /\ x.from = e.text.v /\ x.to = n + 1
  BY <1>1, <1>4, <1>7, DocumentsAssumption DEF Changes
<1>9. PICK cs : cs = IF e.compiled # None /\ e.changes # None THEN Append(e.changes, x) ELSE e.changes
  BY Zenon
<1>10. PICK u : u = UpdateText(d, q)
  OBVIOUS
<1>11. u = [e EXCEPT !.text = t, !.changes = cs, !.recent = TRUE, !.required = TRUE]
  BY <1>1, <1>2, <1>5, <1>7, <1>9, <1>10 DEF UpdateText
<1>12. e.changes # None => e.changes \in Seq(Changes)
  BY <1>4 DEF DocumentStates
<1>13. e.changes # None /\ e.compiled # None => cs \in Seq(Changes) /\ cs # None /\ Len(cs) = Len(e.changes) + 1
  <2> SUFFICES ASSUME e.changes # None, e.compiled # None
               PROVE  cs \in Seq(Changes) /\ cs # None /\ Len(cs) = Len(e.changes) + 1
    OBVIOUS
  <2>1. PICK ec \in Seq(Changes) : ec = e.changes
    BY <1>12
  <2>2. cs = Append(ec, x)
    BY <1>9, <2>1
  <2>3. Append(ec, x) \in Seq(Changes) /\ Len(Append(ec, x)) = Len(ec) + 1
    BY <1>8, AppendProperties
  <2>4. QED
    BY <2>1, <2>2, <2>3, NoneAssumption
<1>14. cs \in Seq(Changes) \cup {None}
  BY <1>4, <1>9, <1>12, <1>13
<1>15. /\ u \in DocumentStates /\ u.text = t /\ u.changes = cs /\ u.required = TRUE /\ u.task = e.task
       /\ u.compiled = e.compiled /\ u.finished = e.finished /\ u.diagnostics = e.diagnostics
  BY <1>4, <1>6, <1>11, <1>14, ZenonT(40) DEF DocumentStates
<1>16. BuildsSound(f, u)
  BY <1>3, <1>15 DEF DocumentInv, BuildsSound
<1>17. BuiltCurrent(f, u)
  BY <1>15 DEF BuiltCurrent
<1>18. Erasable(e) /\ BuildsSound(f, e) /\ Tracked(f, e)
  BY <1>3 DEF DocumentInv
<1>19. e.task # None => e.task.state.num \in Nat
  BY <1>4 DEF DocumentStates, Compilations, CompiledStates
<1>20. Erasable(u)
  <2> SUFFICES ASSUME u.task # None, cs # None PROVE Len(cs) >= u.task.state.num
    BY <1>15 DEF Erasable
  <2>1. e.changes # None /\ e.task # None /\ Len(e.changes) >= e.task.state.num /\ Len(e.changes) \in Nat
    BY <1>9, <1>12, <1>15, <1>18 DEF Erasable
  <2>2. CASE e.compiled # None
    BY <1>13, <1>15, <1>19, <2>1, <2>2
  <2>3. CASE e.compiled = None
    BY <1>9, <1>15, <2>1, <2>3
  <2>4. QED
    BY <2>2, <2>3
<1>21. ASSUME NEW c, NEW k \in Nat, Tracks(f, e, c, k), e.compiled # None,
              e.changes # None => k <= Len(e.changes)
       PROVE  Tracks(f, u, c, k)
  <2> SUFFICES ASSUME c.tracked, c.texts[f].base = t.base
               PROVE  cs # None /\ Connects(cs, k, c.texts[f].v, t.v)
    BY <1>15 DEF Tracks
  <2>1. e.changes # None /\ Connects(e.changes, k, c.texts[f].v, e.text.v)
    BY <1>6, <1>21 DEF Tracks
  <2>2. Connects(Append(e.changes, x), k, c.texts[f].v, x.to)
    BY <1>8, <1>12, <1>21, <2>1, ConnectsAppend
  <2>3. QED
    BY <1>6, <1>8, <1>9, <1>13, <1>21, <2>1, <2>2
<1>22. Tracked(f, u)
  <2>1. ASSUME u.compiled # None PROVE Tracks(f, u, u.compiled, 0)
    <3>1. Tracks(f, e, e.compiled, 0) /\ e.compiled # None
      BY <1>15, <1>18, <2>1 DEF Tracked
    <3>2. e.changes # None => 0 <= Len(e.changes)
      BY <1>12
    <3>3. QED
      BY <1>15, <1>21, <3>1, <3>2
  <2>2. ASSUME u.task # None PROVE Tracks(f, u, u.task.state, u.task.state.num)
    <3>1. CASE e.compiled # None
      <4>1. Tracks(f, e, e.task.state, e.task.state.num) /\ e.task.state.num \in Nat
        BY <1>15, <1>18, <1>19, <2>2 DEF Tracked
      <4>2. e.changes # None => e.task.state.num <= Len(e.changes)
        BY <1>12, <1>15, <1>18, <1>19, <2>2 DEF Erasable
      <4>3. QED
        BY <1>15, <1>21, <3>1, <4>1, <4>2
    <3>2. CASE e.compiled = None
      BY <1>15, <1>18, <2>2, <3>2 DEF BuildsSound, Tracks
    <3>3. QED
      BY <3>1, <3>2
  <2>3. QED
    BY <2>1, <2>2 DEF Tracked
<1>23. PastBases(f, u, n + 1)
  <2>1. DocumentInv(f, e, n + 1)
    BY <1>3, LaterDocument
  <2>2. QED
    BY <1>6, <1>15, <2>1 DEF DocumentInv, PastBases
<1>24. QED
  BY <1>1, <1>2, <1>10, <1>15, <1>16, <1>17, <1>20, <1>22, <1>23 DEF DocumentInv

\* The synchronous part of a rebuild, of document d with these texts, which is r
\* then: a compilation is running, or there is an error.
RebuildResult(d, texts, r) ==
  /\ r.required = FALSE /\ r.text = d.text /\ r.compiled = d.compiled
  /\ \/ /\ r.task # None /\ r.task.state.texts = texts /\ r.diagnostics = None /\ r.finished = d.finished
     \/ /\ r.task = None /\ r.finished = TRUE /\ r.diagnostics = texts /\ ~AllOk(texts)

LEMMA RebuiltDocument ==
  ASSUME NEW f \in Files, NEW d, NEW n, DocumentInv(f, d, n), d.task = None,
         NEW texts \in SourceTexts, texts[f] = d.text, AllOk(texts) => DOMAIN texts = ImportClosure(f)
  PROVE  DocumentInv(f, Rebuilt(d, texts), n) /\ RebuildResult(d, texts, Rebuilt(d, texts))
<1>1. d \in DocumentStates /\ d.text \in Texts /\ texts # None
  BY NoneAssumption DEF DocumentInv, DocumentStates
<1>2. PICK e : e = Rebuilt(d, texts)
  OBVIOUS
<1>3. CASE ~AllOk(texts)
  <2>1. e = [d EXCEPT !.required = FALSE, !.diagnostics = texts, !.finished = TRUE]
    BY <1>2, <1>3 DEF Rebuilt, AllOk
  <2>2. /\ e \in DocumentStates /\ e.text = d.text /\ e.changes = d.changes /\ e.required = FALSE
        /\ e.task = None /\ e.compiled = d.compiled /\ e.finished = TRUE /\ e.diagnostics = texts
    BY <1>1, <2>1, ZenonT(40) DEF DocumentStates
  <2>3. BuildsSound(f, e)
    BY <2>2 DEF DocumentInv, BuildsSound
  <2>4. BuiltCurrent(f, e)
    BY <1>1, <1>3, <2>2 DEF BuiltCurrent
  <2>5. Erasable(e) /\ Tracked(f, e)
    BY <2>2 DEF DocumentInv, Erasable, Tracked, Tracks
  <2>6. PastBases(f, e, n)
    BY <2>2 DEF DocumentInv, PastBases
  <2>7. DocumentInv(f, e, n)
    BY <2>2, <2>3, <2>4, <2>5, <2>6 DEF DocumentInv
  <2>8. QED
    BY <1>2, <1>3, <2>2, <2>7 DEF RebuildResult
<1>4. CASE AllOk(texts)
  <2>1. PICK c : c = NewTask(d, texts).state
    OBVIOUS
  <2>2. PICK k : k = NewTask(d, texts)
    OBVIOUS
  <2>3. PICK cs : cs = IF d.compiled = None /\ d.changes = None THEN <<>> ELSE d.changes
    OBVIOUS
  <2>4. e = [d EXCEPT !.required = FALSE, !.diagnostics = None, !.changes = cs, !.task = k]
    BY <1>2, <1>4, <2>2, <2>3 DEF Rebuilt, AllOk
  <2>5. /\ c.num = (IF d.changes = None THEN 0 ELSE Len(d.changes)) /\ c.texts = texts
        /\ c.first = (d.compiled = None) /\ c.tracked = (d.compiled # None /\ d.changes # None)
        /\ k.state = c
    BY <2>1, <2>2 DEF NewTask
  <2>6. d.changes # None => d.changes \in Seq(Changes) /\ Len(d.changes) \in Nat
    BY <1>1 DEF DocumentStates
  <2>7. c.num \in Nat
    BY <2>5, <2>6
  <2>8. c \in CompiledStates /\ k \in Compilations /\ k # None
    <3>1. c = [num |-> c.num, texts |-> texts, first |-> c.first, tracked |-> c.tracked]
      BY <2>1 DEF NewTask
    <3>2. c.first \in BOOLEAN /\ c.tracked \in BOOLEAN
      BY <2>5
    <3>3. c \in CompiledStates
      BY <2>7, <3>1, <3>2 DEF CompiledStates
    <3>4. k = [ready |-> FALSE, state |-> c]
      BY <2>1, <2>2 DEF NewTask
    <3>5. k \in Compilations
      BY <3>3, <3>4 DEF Compilations
    <3>6. QED
      BY <3>3, <3>5, NoneAssumption
  <2>9. cs \in Seq(Changes) \cup {None}
    BY <2>3, <2>6
  <2>10. /\ e \in DocumentStates /\ e.text = d.text /\ e.changes = cs /\ e.required = FALSE
         /\ e.task = k /\ e.compiled = d.compiled /\ e.diagnostics = None /\ e.finished = d.finished
    BY <1>1, <2>4, <2>8, <2>9, ZenonT(40) DEF DocumentStates
  <2>11. BuildsSound(f, e)
    <3>1. Compiles(f, c)
      BY <1>4, <2>5 DEF Compiles
    <3>2. d.compiled # None => Compiles(f, d.compiled)
      BY DEF DocumentInv, BuildsSound
    <3>3. QED
      BY <2>5, <2>10, <3>1, <3>2, Zenon DEF BuildsSound
  <2>12. BuiltCurrent(f, e)
    BY <2>5, <2>8, <2>10 DEF BuiltCurrent
  <2>13. Erasable(e)
    <3>1. cs # None => Len(cs) >= c.num
      <4>1. CASE d.changes = None
        BY <2>3, <2>5, <4>1
      <4>2. CASE d.changes # None
        BY <2>3, <2>5, <2>6, <4>2
      <4>3. QED
        BY <4>1, <4>2
    <3>2. QED
      BY <2>5, <2>10, <3>1 DEF Erasable
  <2>14. Tracked(f, e)
    <3>1. d.compiled # None => Tracks(f, d, d.compiled, 0)
      BY DEF DocumentInv, Tracked
    <3>2. d.compiled # None => cs = d.changes
      BY <2>3
    <3>3. d.compiled # None => Tracks(f, e, d.compiled, 0)
      BY <2>10, <3>1, <3>2 DEF Tracks
    <3>4. Tracks(f, e, c, c.num)
      <4> SUFFICES ASSUME c.tracked PROVE cs # None /\ Connects(cs, c.num, c.texts[f].v, e.text.v)
        BY <2>10 DEF Tracks
      <4>1. d.compiled # None /\ d.changes # None /\ cs = d.changes /\ c.num = Len(cs) /\ cs \in Seq(Changes)
        BY <2>3, <2>5, <2>6, ZenonT(40)
      <4>2. c.texts[f].v = e.text.v
        BY <2>5, <2>10
      <4>3. QED
        BY <2>7, <4>1, <4>2 DEF Connects
    <3>5. QED
      BY <2>5, <2>10, <3>3, <3>4 DEF Tracked
  <2>15. PastBases(f, e, n)
    BY <2>5, <2>10 DEF DocumentInv, PastBases
  <2>16. DocumentInv(f, e, n)
    BY <2>10, <2>11, <2>12, <2>13, <2>14, <2>15 DEF DocumentInv
  <2>17. QED
    BY <1>2, <2>5, <2>8, <2>10, <2>16 DEF RebuildResult
<1>5. QED
  BY <1>3, <1>4

-------------------------------------------------------------------------------
(***************************************************************************)
(* The source graph that a document loads.                                 *)
(***************************************************************************)
LEMMA TextsToRead ==
  ASSUME LoopTypes, DocumentsSound, NEW f \in DOMAIN docs, NEW e \in Files
  PROVE  /\ GetTextForCompilation(f, e) \in Texts
         /\ e = f => GetTextForCompilation(f, e) = docs[f].text
         /\ e # f /\ e \in DOMAIN docs => GetTextForCompilation(f, e) = SeenText(e, docs[e])
<1>1. CASE e \notin DOMAIN docs
  <2>1. OnDisk \in Texts
    BY DocumentsAssumption DEF OnDisk, Text, Texts
  <2>2. QED
    BY <1>1, <2>1 DEF GetTextForCompilation
<1>2. CASE e \in DOMAIN docs
  <2>1. PICK t : t = Take(docs[e])
    OBVIOUS
  <2>2. DocumentInv(e, docs[e], edits)
    BY <1>2 DEF DocumentsSound
  <2>3. DocumentInv(e, t, edits)
    BY <2>1, <2>2, TakeDocument, ZenonT(40)
  <2>4. docs[e].text \in Texts /\ t.text \in Texts /\ t \in DocumentStates
    BY <2>2, <2>3 DEF DocumentInv, DocumentStates
  <2>5. ASSUME t.compiled # None PROVE t.compiled.texts[e] \in Texts
    <3>1. t.compiled \in CompiledStates /\ Compiles(e, t.compiled)
      BY <2>3, <2>4, <2>5 DEF DocumentInv, DocumentStates, BuildsSound
    <3>2. e \in DOMAIN t.compiled.texts
      BY <3>1, ImportsItself DEF Compiles
    <3>3. t.compiled.texts \in SourceTexts
      BY <3>1 DEF CompiledStates
    <3>4. QED
      BY <3>2, <3>3, SourceTextsType
  <2>6. GetTextForCompilation(f, e) =
          IF e = f THEN docs[f].text ELSE IF t.compiled = None THEN t.text ELSE t.compiled.texts[e]
    BY <1>2, <2>1 DEF GetTextForCompilation
  <2>7. SeenText(e, docs[e]) = IF t.compiled = None THEN t.text ELSE t.compiled.texts[e]
    BY <2>1 DEF SeenText
  <2>8. QED
    BY <2>4, <2>5, <2>6, <2>7
<1>3. QED
  BY <1>1, <1>2

\* A source graph that parses is complete.
LEMMA LoadedFiles ==
  ASSUME NEW f \in Files
  PROVE  /\ Loaded(f) \subseteq Files /\ f \in Loaded(f)
         /\ (\A e \in Loaded(f) : GetTextForCompilation(f, e).quality = "ok") => Loaded(f) = ImportClosure(f)
<1> DEFINE lexical(e) == GetTextForCompilation(f, e).quality = "lexical"
           follows(S) == \A e \in S : lexical(e) \/ Imports[e] \subseteq S
<1>1. Loaded(f) = {e \in Files : \A S \in {T \in SUBSET Files : f \in T /\ follows(T)} : e \in S}
  BY DEF Loaded
<1>2. \A e : lexical(e) <=> GetTextForCompilation(f, e).quality = "lexical"
  OBVIOUS
<1> HIDE DEF lexical
<1>3. Loaded(f) \subseteq Files /\ f \in Loaded(f)
  BY <1>1
<1>4. ASSUME \A e \in Loaded(f) : ~lexical(e) PROVE Loaded(f) = ImportClosure(f)
  <2>1. \A e \in Loaded(f) : Imports[e] \subseteq Loaded(f)
    <3> SUFFICES ASSUME NEW e \in Loaded(f), NEW g \in Imports[e] PROVE g \in Loaded(f)
      OBVIOUS
    <3>1. g \in Files /\ ~lexical(e)
      BY <1>3, <1>4, DocumentsAssumption
    <3>2. ASSUME NEW S \in SUBSET Files, f \in S, follows(S) PROVE g \in S
      <4>1. e \in S
        BY <1>1, <3>2
      <4>2. QED
        BY <3>1, <3>2, <4>1
    <3>3. QED
      BY <1>1, <3>1, <3>2
  <2>2. ASSUME NEW e \in ImportClosure(f) PROVE e \in Loaded(f)
    BY <1>3, <2>1, <2>2 DEF ImportClosure
  <2>3. ASSUME NEW e \in Loaded(f) PROVE e \in ImportClosure(f)
    <3>1. e \in Files
      BY <1>3
    <3>2. ASSUME NEW S \in SUBSET Files, f \in S, \A g \in S : Imports[g] \subseteq S PROVE e \in S
      <4>1. follows(S)
        BY <3>2
      <4>2. QED
        BY <1>1, <3>2, <4>1
    <3>3. QED
      BY <3>1, <3>2 DEF ImportClosure
  <2>4. QED
    BY <2>2, <2>3
<1>5. QED
  BY <1>2, <1>3, <1>4

LEMMA LoadedTexts ==
  ASSUME LoopTypes, DocumentsSound, NEW f \in DOMAIN docs
  PROVE  /\ LoadSourceGraph(f) \in SourceTexts /\ DOMAIN LoadSourceGraph(f) = Loaded(f)
         /\ LoadSourceGraph(f)[f] = docs[f].text
         /\ AllOk(LoadSourceGraph(f)) => DOMAIN LoadSourceGraph(f) = ImportClosure(f)
         /\ \A e \in DOMAIN docs : e # f /\ e \in Loaded(f) => LoadSourceGraph(f)[e] = SeenText(e, docs[e])
<1>1. f \in Files /\ Loaded(f) \subseteq Files /\ f \in Loaded(f)
  BY LoadedFiles DEF LoopTypes
<1>2. PICK m : m = LoadSourceGraph(f)
  OBVIOUS
<1>3. DOMAIN m = Loaded(f) /\ \A e \in Loaded(f) : m[e] = GetTextForCompilation(f, e)
  BY <1>2 DEF LoadSourceGraph
<1>4. \A e \in Loaded(f) : GetTextForCompilation(f, e) \in Texts
  BY <1>1, TextsToRead
<1>5. m \in [Loaded(f) -> Texts]
  BY <1>2, <1>4 DEF LoadSourceGraph
<1>6. m \in SourceTexts
  BY <1>1, <1>3, <1>5, SourceTextsType
<1>7. m[f] = docs[f].text
  BY <1>1, <1>3, TextsToRead
<1>8. AllOk(m) => Loaded(f) = ImportClosure(f)
  BY <1>1, <1>3, LoadedFiles DEF AllOk
<1>9. \A e \in DOMAIN docs : e # f /\ e \in Loaded(f) => m[e] = SeenText(e, docs[e])
  BY <1>1, <1>3, TextsToRead
<1>10. QED
  BY <1>2, <1>3, <1>6, <1>7, <1>8, <1>9

-------------------------------------------------------------------------------
(***************************************************************************)
(* What a step does to two documents, one of which imports the other.      *)
(***************************************************************************)
\* Results are taken.
LEMMA TakenResult ==
  ASSUME NEW f \in Files, NEW d, NEW n, DocumentInv(f, d, n), NEW t \in {d, Take(d)}, t # d
  PROVE  /\ t.required = d.required /\ d.task # None /\ t.task = None /\ t.compiled = d.task.state
         /\ t.finished = TRUE
<1>1. /\ Take(d).required = d.required
      /\ Take(d) = d \/ /\ d.task # None /\ Take(d).task = None /\ Take(d).compiled = d.task.state
                        /\ Take(d).finished = TRUE
  BY TakeDocument, ZenonT(40)
<1>2. QED
  BY <1>1

LEMMA TakenFollows ==
  ASSUME NEW f \in Files, NEW d, NEW n, DocumentInv(f, d, n), NEW t \in {d, Take(d)},
         NEW e \in Files, NEW de, DocumentInv(e, de, n), NEW te \in {de, Take(de)},
         Follows(d, e, de)
  PROVE  Follows(t, e, te)
<1>1. Follows(t, e, de)
  <2>1. CASE t = d
    BY <2>1
  <2>2. CASE t # d
    <3>1. t.required = d.required /\ d.task # None /\ t.task = None /\ t.compiled = d.task.state
      BY <2>2, TakenResult, ZenonT(40)
    <3>2. LastBuild(t) = LastBuild(d)
      BY <3>1 DEF LastBuild
    <3>3. QED
      BY <3>1, <3>2 DEF Follows
  <2>3. QED
    BY <2>1, <2>2
<1>2. CASE te = de
  BY <1>1, <1>2
<1>3. CASE te # de
  <2>1. te.finished = TRUE
    BY <1>3, TakenResult, ZenonT(40)
  <2>2. QED
    BY <2>1 DEF Follows, Pending
<1>4. QED
  BY <1>2, <1>3

\* A text to read is the same before and after a result is taken.
LEMMA TakenSeen ==
  ASSUME NEW e \in Files, NEW d, NEW n, DocumentInv(e, d, n), NEW t \in {d, Take(d)}
  PROVE  SeenText(e, t) = SeenText(e, d)
<1>1. CASE t = d
  BY <1>1
<1>2. CASE t # d
  <2>1. t = Take(d) /\ t.task = None
    BY <1>2, TakenResult, ZenonT(40)
  <2>2. Take(t) = t
    BY <2>1 DEF Take
  <2>3. QED
    BY <2>1, <2>2 DEF SeenText
<1>3. QED
  BY <1>1, <1>2

\* A step in which results may be taken and which changes nothing else of the
\* documents.
LEMMA TakenDocuments ==
  ASSUME DocumentsInv, NEW ds, DOMAIN ds = DOMAIN docs,
         \A g \in DOMAIN docs : ds[g] = docs[g] \/ ds[g] = Take(docs[g])
  PROVE  /\ \A g \in DOMAIN docs : DocumentInv(g, ds[g], edits)
         /\ \A g \in DOMAIN docs : ~ds[g].finished => ds[g] = docs[g]
         /\ \A g, e \in DOMAIN docs :
              Follows(docs[g], e, docs[e]) => Follows(ds[g], e, ds[e])
<1>1. \A g \in DOMAIN docs : g \in Files /\ DocumentInv(g, docs[g], edits)
  BY DEF DocumentsInv, LoopTypes, DocumentsSound
<1>2. ASSUME NEW g \in DOMAIN docs
      PROVE  DocumentInv(g, ds[g], edits) /\ (~ds[g].finished => ds[g] = docs[g])
  <2>1. CASE ds[g] = docs[g]
    BY <1>1, <2>1
  <2>2. CASE ds[g] # docs[g]
    <3>1. ds[g] = Take(docs[g])
      BY <2>2
    <3>2. QED
      <4>1. /\ DocumentInv(g, Take(docs[g]), edits)
            /\ Take(docs[g]) = docs[g] \/ Take(docs[g]).finished = TRUE
        BY <1>1, TakeDocument, ZenonT(40)
      <4>2. QED
        BY <2>2, <3>1, <4>1
  <2>3. QED
    BY <2>1, <2>2
<1>3. ASSUME NEW g \in DOMAIN docs, NEW e \in DOMAIN docs, Follows(docs[g], e, docs[e])
      PROVE  Follows(ds[g], e, ds[e])
  <2>1. g \in Files /\ e \in Files /\ DocumentInv(g, docs[g], edits) /\ DocumentInv(e, docs[e], edits)
    BY <1>1
  <2>2. ds[g] \in {docs[g], Take(docs[g])} /\ ds[e] \in {docs[e], Take(docs[e])}
    OBVIOUS
  <2>3. QED
    BY <1>3, <2>1, <2>2, TakenFollows
<1>4. QED
  BY <1>2, <1>3

-------------------------------------------------------------------------------
(***************************************************************************)
(* The steps of the processor thread.                                      *)
(***************************************************************************)
\* Steps that may take results only, outside the loop that tells documents.
LEMMA TakingStep ==
  ASSUME DocumentsInv, LoopTypes', DOMAIN docs' = DOMAIN docs, edits' = edits, pc # "notify", pc' # "notify",
         \A g \in DOMAIN docs : docs'[g] = docs[g] \/ docs'[g] = Take(docs[g]),
         UNCHANGED <<all_diagnostics, updated, published>>, pc' # "wait"
  PROVE  DocumentsInv'
<1>1. PICK ds : ds = docs'
  OBVIOUS
<1>2. /\ \A g \in DOMAIN docs : DocumentInv(g, ds[g], edits)
      /\ \A g \in DOMAIN docs : ~ds[g].finished => ds[g] = docs[g]
      /\ \A g, e \in DOMAIN docs :
           Follows(docs[g], e, docs[e]) => Follows(ds[g], e, ds[e])
  BY <1>1, TakenDocuments
<1>3. DocumentsSound'
  BY <1>1, <1>2 DEF DocumentsSound
<1>4. Publishing'
  <2>1. ASSUME NEW f \in DOMAIN docs PROVE Published(f, docs[f])'
    BY <1>1, <1>2 DEF DocumentsInv, Publishing, Published, Telling
  <2>2. QED
    BY <2>1 DEF Publishing
<1>5. Following'
  <2>1. ASSUME NEW f \in DOMAIN docs, NEW e \in DOMAIN docs, f # e
        PROVE  Follows(ds[f], e, ds[e])
    <3>1. Follows(docs[f], e, docs[e])
      BY <2>1 DEF DocumentsInv, Following, Telling, Follows
    <3>2. QED
      BY <1>2, <3>1
  <2>2. QED
    BY <1>1, <2>1 DEF Following, Telling, Follows
<1>6. Showing'
  <2>1. ASSUME NEW g \in DOMAIN docs, Awaited(g) PROVE Awaited(g)'
    <3>1. Pending(docs[g]) => Pending(docs'[g])
      BY <1>1, <1>2 DEF Pending
    <3>2. QED
      BY <2>1, <3>1 DEF Awaited, Telling
  <2>2. QED
    BY <2>1, ShowingKept DEF DocumentsInv
<1>7. QED
  BY <1>3, <1>4, <1>5, <1>6 DEF DocumentsInv

LEMMA CheckFinishedStep == ASSUME DocumentsInv, CheckFinished PROVE DocumentsInv'
<1>1. PICK f : f = First(todo)
  OBVIOUS
<1>2. f \in todo /\ f \in DOMAIN docs /\ f \in Files
  BY <1>1, FirstExists DEF CheckFinished, DocumentsInv, LoopTypes
<1>3. DocumentInv(f, docs[f], edits)
  BY <1>2 DEF DocumentsInv, DocumentsSound
<1>4. PICK d : d = Take(docs[f])
  OBVIOUS
<1>5. DocumentInv(f, d, edits) /\ d \in DocumentStates
  BY <1>2, <1>3, <1>4, TakeDocument, ZenonT(40) DEF DocumentInv
<1>6. PICK r : r = [d EXCEPT !.finished = FALSE]
  BY Zenon
<1>7. /\ pc = "finished" /\ docs' = [docs EXCEPT ![f] = r]
      /\ IF d.finished THEN pc' = "notify" /\ notify' = DOMAIN docs /\ todo' = todo
                       ELSE todo' = todo \ {f} /\ UNCHANGED <<pc, notify>>
      /\ UNCHANGED <<edits, all_diagnostics, updated, published>>
  BY <1>1, <1>4, <1>6 DEF CheckFinished
<1>8. DOMAIN docs' = DOMAIN docs /\ \A g \in DOMAIN docs : docs'[g] = IF g = f THEN r ELSE docs[g]
  BY <1>7
<1>9. LoopTypes'
  BY <1>2, <1>7, <1>8, ZenonT(40) DEF DocumentsInv, LoopTypes
<1>10. CASE d.finished = TRUE
  <2>1. pc' = "notify" /\ notify' = DOMAIN docs /\ todo' = todo
    BY <1>7, <1>10
  <2>2. DocumentsSound'
    <3>1. DocumentInv(f, r, edits)
      BY <1>5, <1>6, FlagsDocument, ZenonT(40)
    <3>2. QED
      BY <1>7, <1>8, <3>1 DEF DocumentsInv, DocumentsSound
  <2>3. Publishing'
    BY <1>1, <1>7, <1>8, <2>1 DEF DocumentsInv, Publishing, Published, Telling
  <2>4. Following'
    <3> SUFFICES ASSUME NEW g \in DOMAIN docs, NEW e \in DOMAIN docs, g # e, e # f
                 PROVE  Follows(docs'[g], e, docs'[e])
      BY <1>1, <1>8, <2>1 DEF Following, Telling
    <3>1. Follows(docs[g], e, docs[e]) /\ docs'[e] = docs[e]
      BY <1>7, <1>8 DEF DocumentsInv, Following, Telling
    <3>2. CASE g # f
      BY <1>8, <3>1, <3>2
    <3>3. CASE g = f
      <4>1. e \in Files /\ DocumentInv(e, docs[e], edits)
        BY DEF DocumentsInv, LoopTypes, DocumentsSound
      <4>2. Follows(d, e, docs[e])
        BY <1>2, <1>3, <1>4, <3>1, <3>3, <4>1, TakenFollows
      <4>3. r.required = d.required /\ r.task = d.task /\ r.compiled = d.compiled /\ r.diagnostics = d.diagnostics
        BY <1>5, <1>6 DEF DocumentStates
      <4>4. Follows(r, e, docs[e])
        BY <4>2, <4>3 DEF Follows, LastBuild
      <4>5. QED
        BY <1>8, <3>1, <3>3, <4>4
    <3>4. QED
      BY <3>2, <3>3
  <2>5. Showing'
    <3>1. ASSUME NEW g \in DOMAIN docs, Awaited(g) PROVE Awaited(g)'
      BY <1>1, <1>7, <1>8, <2>1, <3>1 DEF Awaited, Telling
    <3>2. QED
      BY <1>7, <3>1, ShowingKept DEF DocumentsInv
  <2>6. QED
    BY <1>9, <2>2, <2>3, <2>4, <2>5 DEF DocumentsInv
<1>11. CASE d.finished = FALSE
  <2>1. d = docs[f]
    BY <1>2, <1>3, <1>4, <1>11, TakeDocument, ZenonT(40)
  <2>2. r = d
    BY <1>5, <1>6, <1>11 DEF DocumentStates
  <2>3. \A g \in DOMAIN docs : docs'[g] = docs[g]
    BY <1>8, <2>1, <2>2
  <2>4. pc' = "finished"
    BY <1>7, <1>11
  <2>5. QED
    BY <1>7, <1>8, <1>9, <2>3, <2>4, TakingStep
<1>12. QED
  BY <1>5, <1>10, <1>11, ZenonT(40) DEF DocumentStates

\* What a document becomes when it is told about a file.
LEMMA ToldDocument ==
  ASSUME NEW g \in Files, NEW f, NEW n, DocumentInv(g, docs[g], n)
  PROVE  /\ DocumentInv(g, OnPossibleDependentFileChanged(g, f), n)
         /\ ~OnPossibleDependentFileChanged(g, f).finished =>
              OnPossibleDependentFileChanged(g, f).diagnostics = docs[g].diagnostics /\ ~docs[g].finished
         /\ \/ OnPossibleDependentFileChanged(g, f).required = TRUE
            \/ /\ OnPossibleDependentFileChanged(g, f) = Take(docs[g])
               /\ \/ g = f \/ Take(docs[g]).compiled = None
                  \/ f \notin DOMAIN Take(docs[g]).compiled.texts
<1>1. PICK d : d = Take(docs[g])
  OBVIOUS
<1>2. DocumentInv(g, d, n) /\ d \in DocumentStates
  BY <1>1, TakeDocument, Zenon DEF DocumentInv
<1>3. ~d.finished => d = docs[g]
  BY <1>1, TakeDocument, ZenonT(40)
<1>4. PICK r : r = OnPossibleDependentFileChanged(g, f)
  OBVIOUS
<1>5. CASE g # f /\ d.compiled # None /\ f \in DOMAIN d.compiled.texts
  <2>1. r = [d EXCEPT !.recent = TRUE, !.required = TRUE]
    BY <1>1, <1>4, <1>5 DEF OnPossibleDependentFileChanged
  <2>2. r.required = TRUE /\ r.diagnostics = d.diagnostics /\ r.finished = d.finished
    BY <1>2, <2>1 DEF DocumentStates
  <2>3. DocumentInv(g, r, n)
    BY <1>2, <2>1, FlagsDocument, ZenonT(40)
  <2>4. QED
    BY <1>3, <1>4, <2>2, <2>3
<1>6. CASE ~(g # f /\ d.compiled # None /\ f \in DOMAIN d.compiled.texts)
  <2>1. r = d
    BY <1>1, <1>4, <1>6 DEF OnPossibleDependentFileChanged
  <2>2. QED
    BY <1>1, <1>2, <1>3, <1>4, <1>6, <2>1
<1>7. QED
  BY <1>5, <1>6, Zenon

LEMMA NotifyStep == ASSUME DocumentsInv, Notify PROVE DocumentsInv'
<1>1. PICK f : f = First(todo)
  OBVIOUS
<1>2. PICK g : g = First(notify)
  OBVIOUS
<1>3. pc = "notify" /\ f \in todo /\ f \in DOMAIN docs /\ f \in Files /\ g \in notify /\ g \in DOMAIN docs /\ g \in Files
  <2>1. pc = "notify" /\ todo # {} /\ notify # {} /\ todo \subseteq DOMAIN docs /\ notify \subseteq DOMAIN docs
        /\ DOMAIN docs \subseteq Files
    BY DEF Notify, DocumentsInv, LoopTypes
  <2>2. QED
    BY <1>1, <1>2, <2>1, FirstExists
<1>4. PICK r : r = OnPossibleDependentFileChanged(g, f)
  OBVIOUS
<1>5. /\ docs' = [docs EXCEPT ![g] = r] /\ notify' = notify \ {g}
      /\ IF notify = {g}
         THEN /\ all_diagnostics' = [h \in DOMAIN all_diagnostics \cup {f} |->
                                       IF h = f THEN docs'[f].diagnostics ELSE all_diagnostics[h]]
              /\ updated' = TRUE /\ todo' = todo \ {f} /\ pc' = "finished"
         ELSE UNCHANGED <<all_diagnostics, updated, todo, pc>>
      /\ UNCHANGED <<edits, published>>
  BY <1>1, <1>2, <1>4 DEF Notify
<1>6. DOMAIN docs' = DOMAIN docs /\ \A h \in DOMAIN docs : docs'[h] = IF h = g THEN r ELSE docs[h]
  BY <1>5
<1>7. \A h \in DOMAIN docs : h \in Files /\ DocumentInv(h, docs[h], edits)
  BY DEF DocumentsInv, LoopTypes, DocumentsSound
<1>8. /\ DocumentInv(g, r, edits)
      /\ ~r.finished => r.diagnostics = docs[g].diagnostics /\ ~docs[g].finished
      /\ \/ r.required = TRUE
         \/ /\ r = Take(docs[g])
            /\ g = f \/ r.compiled = None \/ f \notin DOMAIN r.compiled.texts
  BY <1>3, <1>4, <1>7, ToldDocument, ZenonT(40)
<1>9. LoopTypes'
  <2>1. CASE notify = {g}
    <3>1. /\ DOMAIN all_diagnostics' = DOMAIN all_diagnostics \cup {f} /\ updated' = TRUE
          /\ todo' = todo \ {f} /\ pc' = "finished" /\ notify' = {}
          /\ all_diagnostics' = [h \in DOMAIN all_diagnostics' |-> all_diagnostics'[h]]
      BY <1>5, <2>1
    <3>2. QED
      BY <1>3, <1>5, <1>6, <3>1, ZenonT(40) DEF DocumentsInv, LoopTypes
  <2>2. CASE notify # {g}
    BY <1>3, <1>5, <1>6, <2>2, ZenonT(40) DEF DocumentsInv, LoopTypes
  <2>3. QED
    BY <2>1, <2>2
<1>10. DocumentsSound'
  BY <1>5, <1>6, <1>7, <1>8 DEF DocumentsSound
<1>11. Publishing'
  <2>1. ASSUME NEW h \in DOMAIN docs PROVE Published(h, docs[h])'
    <3>1. ~docs'[h].finished => docs'[h].diagnostics = docs[h].diagnostics /\ ~docs[h].finished
      BY <1>6, <1>8
    <3>2. Published(h, docs[h]) /\ (Telling(h) <=> h = f)
      BY <1>1, <1>3 DEF DocumentsInv, Publishing, Telling
    <3>3. CASE notify = {g} /\ h = f
      BY <1>5, <3>3 DEF Published
    <3>4. CASE notify = {g} /\ h # f
      <4>1. /\ updated' = TRUE
            /\ h \in DOMAIN all_diagnostics => h \in DOMAIN all_diagnostics' /\ all_diagnostics'[h] = all_diagnostics[h]
        BY <1>5, <3>4
      <4>2. QED
        BY <3>1, <3>2, <3>4, <4>1 DEF Published
    <3>5. CASE notify # {g}
      <4>1. UNCHANGED <<all_diagnostics, updated, published>> /\ (Telling(h)' <=> h = f)
        BY <1>1, <1>3, <1>5, <3>5 DEF Telling
      <4>2. QED
        BY <3>1, <3>2, <4>1 DEF Published
    <3>6. QED
      BY <3>3, <3>4, <3>5
  <2>2. pc' # "wait"
    BY <1>3, <1>5
  <2>3. QED
    BY <1>6, <2>1, <2>2 DEF Publishing
<1>12. Following'
  <2> SUFFICES ASSUME NEW h \in DOMAIN docs, NEW e \in DOMAIN docs, h # e
               PROVE  (Telling(e) /\ h \in notify)' \/ Follows(docs'[h], e, docs'[e])
    BY <1>6 DEF Following
  <2>1. (e = f /\ h \in notify) \/ Follows(docs[h], e, docs[e])
    BY <1>1 DEF DocumentsInv, Following, Telling
  <2>2. CASE h # g
    <3>1. CASE e = f /\ h \in notify
      <4>1. notify # {g} /\ pc' = pc /\ todo' = todo /\ h \in notify'
        BY <1>5, <2>2, <3>1
      <4>2. QED
        BY <1>1, <1>3, <3>1, <4>1 DEF Telling
    <3>2. CASE Follows(docs[h], e, docs[e])
      <4>1. CASE e # g
        BY <1>6, <2>2, <3>2, <4>1
      <4>2. CASE e = g /\ r.required = TRUE
        BY <1>6, <4>2 DEF Follows, Pending
      <4>3. CASE e = g /\ r = Take(docs[g])
        <5>1. Follows(docs[h], e, r)
          BY <1>7, <3>2, <4>3, TakenFollows
        <5>2. QED
          BY <1>6, <2>2, <4>3, <5>1
      <4>4. QED
        BY <1>8, <4>1, <4>2, <4>3, ZenonT(40)
    <3>3. QED
      BY <2>1, <3>1, <3>2
  <2>3. CASE h = g /\ r.required = TRUE
    BY <1>6, <2>3 DEF Follows
  <2>4. CASE h = g /\ r = Take(docs[g]) /\ (g = f \/ r.compiled = None \/ f \notin DOMAIN r.compiled.texts)
    <3>1. docs'[h] = r /\ docs'[e] = docs[e]
      BY <1>6, <2>4
    <3>2. CASE e = f
      <4>1. BuildsSound(g, r)
        BY <1>8 DEF DocumentInv
      <4>2. r.compiled = None \/ f \notin DOMAIN r.compiled.texts
        BY <2>4, <3>2
      <4>3. QED
        BY <3>1, <3>2, <4>1, <4>2 DEF Follows, LastBuild, BuildsSound, Compiles
    <3>3. CASE e # f
      <4>1. Follows(r, e, docs[e])
        BY <1>7, <2>1, <2>4, <3>3, TakenFollows
      <4>2. QED
        BY <3>1, <4>1
    <3>4. QED
      BY <3>2, <3>3
  <2>5. QED
    BY <1>8, <2>2, <2>3, <2>4, ZenonT(40)
<1>13. Showing'
  <2>1. CASE notify = {g}
    BY <1>5, <2>1 DEF Showing
  <2>2. CASE notify # {g}
    <3>1. UNCHANGED <<all_diagnostics, updated, published, pc, todo>>
      BY <1>5, <2>2
    <3>2. Pending(docs[g]) => Pending(r)
      <4>1. CASE r.required = TRUE
        BY <4>1 DEF Pending
      <4>2. CASE r = Take(docs[g])
        <5>1. ~r.finished => r = docs[g]
          BY <1>3, <1>7, <4>2, TakeDocument, ZenonT(40)
        <5>2. QED
          BY <5>1 DEF Pending
      <4>3. QED
        BY <1>8, <4>1, <4>2, ZenonT(40)
    <3>3. ASSUME NEW h \in DOMAIN docs, Awaited(h) PROVE Awaited(h)'
      BY <1>6, <3>1, <3>2, <3>3 DEF Awaited, Telling
    <3>4. QED
      BY <3>1, <3>3, ShowingKept DEF DocumentsInv
  <2>3. QED
    BY <2>1, <2>2
<1>14. QED
  BY <1>9, <1>10, <1>11, <1>12, <1>13 DEF DocumentsInv

\* A rebuild is started, or fails at once.
LEMMA RebuildStep ==
  ASSUME DocumentsInv, LoopTypes', NEW f \in DOMAIN docs, Take(docs[f]).task = None,
         docs' = DocsAfterLoad(f, Rebuilt(Take(docs[f]), LoadSourceGraph(f))),
         pc = "start", pc' = "start", UNCHANGED <<edits, all_diagnostics, updated, published>>
  PROVE  DocumentsInv'
<1>1. f \in Files /\ DocumentInv(f, docs[f], edits) /\ LoopTypes /\ DocumentsSound
  BY DEF DocumentsInv, LoopTypes, DocumentsSound
<1>2. PICK d : d = Take(docs[f])
  OBVIOUS
<1>3. DocumentInv(f, d, edits) /\ d.text = docs[f].text /\ (~d.finished => d = docs[f])
  BY <1>1, <1>2, TakeDocument, ZenonT(40)
<1>4. PICK texts : texts = LoadSourceGraph(f)
  OBVIOUS
<1>5. /\ texts \in SourceTexts /\ DOMAIN texts = Loaded(f) /\ texts[f] = d.text
      /\ AllOk(texts) => DOMAIN texts = ImportClosure(f)
      /\ \A e \in DOMAIN docs : e # f /\ e \in Loaded(f) => texts[e] = SeenText(e, docs[e])
  BY <1>1, <1>3, <1>4, LoadedTexts
<1>6. PICK r : r = Rebuilt(d, texts)
  OBVIOUS
<1>7. /\ DocumentInv(f, r, edits) /\ r.required = FALSE /\ r.compiled = d.compiled
      /\ \/ /\ r.task # None /\ r.task.state.texts = texts /\ r.diagnostics = None /\ r.finished = d.finished
         \/ /\ r.task = None /\ r.finished = TRUE /\ r.diagnostics = texts /\ ~AllOk(texts)
  <2>1. d.task = None /\ (AllOk(texts) => DOMAIN texts = ImportClosure(f))
    BY <1>2, <1>5
  <2>2. DocumentInv(f, Rebuilt(d, texts), edits) /\ RebuildResult(d, texts, Rebuilt(d, texts))
    BY <1>1, <1>3, <1>5, <2>1, RebuiltDocument
  <2>3. QED
    BY <1>6, <2>2 DEF RebuildResult
<1>8. PICK ds : ds = [g \in DOMAIN docs |-> IF g # f /\ g \in Loaded(f) THEN Take(docs[g]) ELSE docs[g]]
  BY ZenonT(40)
<1>9. DOMAIN ds = DOMAIN docs /\ \A g \in DOMAIN docs : ds[g] = docs[g] \/ ds[g] = Take(docs[g])
  BY <1>8
<1>10. DOMAIN docs' = DOMAIN docs /\ \A g \in DOMAIN docs : docs'[g] = IF g = f THEN r ELSE ds[g]
  BY <1>2, <1>4, <1>6, <1>8 DEF DocsAfterLoad
<1>11. /\ \A g \in DOMAIN docs : DocumentInv(g, ds[g], edits)
       /\ \A g \in DOMAIN docs : ~ds[g].finished => ds[g] = docs[g]
       /\ \A g, e \in DOMAIN docs : Follows(docs[g], e, docs[e]) => Follows(ds[g], e, ds[e])
  BY <1>9, TakenDocuments
<1>12. DocumentsSound'
  BY <1>7, <1>10, <1>11 DEF DocumentsSound
<1>13. Publishing'
  <2>1. ASSUME NEW g \in DOMAIN docs PROVE Published(g, docs[g])'
    <3>1. Published(g, docs[g])
      BY DEF DocumentsInv, Publishing
    <3>2. ~docs'[g].finished => ~docs[g].finished /\ (docs'[g].diagnostics = None \/ docs'[g].diagnostics = docs[g].diagnostics)
      BY <1>3, <1>7, <1>10, <1>11
    <3>3. QED
      BY <3>1, <3>2 DEF Published, Telling
  <2>2. QED
    BY <1>10, <2>1 DEF Publishing
<1>14. Following'
  <2> SUFFICES ASSUME NEW g \in DOMAIN docs, NEW e \in DOMAIN docs, g # e
               PROVE  Follows(docs'[g], e, docs'[e])
    BY <1>10 DEF Following
  <2>1. Follows(docs[g], e, docs[e])
    BY DEF DocumentsInv, Following, Telling
  <2>2. CASE e = f
    BY <1>7, <1>10, <2>2 DEF Follows, Pending
  <2>3. CASE g # f /\ e # f
    BY <1>10, <1>11, <2>1, <2>3
  <2>4. CASE g = f
    <3>1. docs'[g] = r /\ docs'[e] = ds[e] /\ ds[e] \in {docs[e], Take(docs[e])} /\ e # f
      BY <1>9, <1>10, <2>4
    <3>2. CASE r.task # None
      <4>1. LastBuild(r).texts = texts
        BY <1>7, <3>2 DEF LastBuild
      <4>2. e \in Files /\ DocumentInv(e, docs[e], edits)
        BY <1>1 DEF LoopTypes, DocumentsSound
      <4>3. SeenText(e, ds[e]) = SeenText(e, docs[e])
        BY <3>1, <4>2, TakenSeen
      <4>4. QED
        BY <1>5, <3>1, <4>1, <4>3 DEF Follows
    <3>3. CASE r.task = None
      <4>1. r.diagnostics = texts /\ ~AllOk(texts)
        BY <1>7, <3>3
      <4>2. r.compiled # None => AllOk(r.compiled.texts)
        BY <1>7, ZenonT(40) DEF DocumentInv, BuildsSound, Compiles
      <4>3. ~(r.compiled # None /\ r.compiled.texts = r.diagnostics)
        BY <4>1, <4>2
      <4>4. QED
        BY <3>1, <3>3, <4>3 DEF Follows
    <3>4. QED
      BY <3>2, <3>3
  <2>5. QED
    BY <2>2, <2>3, <2>4
<1>15. Showing'
  <2>1. ASSUME NEW g \in DOMAIN docs, Awaited(g) PROVE Awaited(g)'
    <3>1. Pending(docs[g])
      BY <2>1 DEF Awaited, Telling
    <3>2. CASE g = f
      BY <1>7, <1>10, <3>2 DEF Awaited, Pending
    <3>3. CASE g # f
      BY <1>10, <1>11, <3>1, <3>3 DEF Awaited, Pending
    <3>4. QED
      BY <3>2, <3>3
  <2>2. QED
    BY <2>1, ShowingKept DEF DocumentsInv
<1>16. QED
  BY <1>12, <1>13, <1>14, <1>15 DEF DocumentsInv

LEMMA StartRebuildStep == ASSUME DocumentsInv, StartRebuild PROVE DocumentsInv'
<1>1. PICK f : f = First(todo)
  OBVIOUS
<1>2. f \in DOMAIN docs
  BY <1>1, FirstExists DEF StartRebuild, DocumentsInv, LoopTypes
<1>3. /\ pc = "start" /\ pc' = "start" /\ todo' = todo \ {f}
      /\ UNCHANGED <<edits, notify, all_diagnostics, updated, published>>
      /\ \/ docs' = docs
         \/ docs' = [docs EXCEPT ![f] = Take(docs[f])]
         \/ /\ Take(docs[f]).task = None
            /\ docs' = DocsAfterLoad(f, Rebuilt(Take(docs[f]), LoadSourceGraph(f)))
  BY <1>1 DEF StartRebuild
<1>4. CASE docs' = docs \/ docs' = [docs EXCEPT ![f] = Take(docs[f])]
  <2>1. DOMAIN docs' = DOMAIN docs /\ \A g \in DOMAIN docs : docs'[g] = docs[g] \/ docs'[g] = Take(docs[g])
    BY <1>4
  <2>2. LoopTypes'
    BY <1>3, <1>4, <2>1 DEF DocumentsInv, LoopTypes
  <2>3. QED
    BY <1>3, <2>1, <2>2, TakingStep
<1>5. CASE /\ Take(docs[f]).task = None
           /\ docs' = DocsAfterLoad(f, Rebuilt(Take(docs[f]), LoadSourceGraph(f)))
  <2>1. DOMAIN docs' = DOMAIN docs /\ docs' = [g \in DOMAIN docs' |-> docs'[g]]
    BY <1>5 DEF DocsAfterLoad
  <2>2. LoopTypes'
    BY <1>3, <2>1 DEF DocumentsInv, LoopTypes
  <2>3. QED
    BY <1>2, <1>3, <1>5, <2>2, RebuildStep
<1>6. QED
  BY <1>3, <1>4, <1>5

LEMMA UpdateDiagnosticsStep == ASSUME DocumentsInv, UpdateDiagnostics PROVE DocumentsInv'
<1>1. /\ pc = "start" /\ pc' = "wait" /\ updated' = FALSE
      /\ UNCHANGED <<docs, edits, todo, notify, all_diagnostics>>
      /\ published' = [e \in Files |->
                         IF updated /\ (e \in DOMAIN all_diagnostics \/ Reporters(all_diagnostics, e) # {})
                         THEN Flattened(all_diagnostics, e) ELSE published[e]]
  BY DEF UpdateDiagnostics
<1>2. LoopTypes'
  <2>1. published' = [e \in Files |-> published'[e]]
    BY <1>1
  <2>2. QED
    BY <1>1, <2>1, ZenonT(40) DEF DocumentsInv, LoopTypes
<1>3. DocumentsSound'
  BY <1>1 DEF DocumentsInv, DocumentsSound
<1>4. Publishing'
  BY <1>1 DEF DocumentsInv, Publishing, Published, Telling
<1>5. Following'
  BY <1>1 DEF DocumentsInv, Following, Telling
<1>6. Showing'
  <2>1. ASSUME NEW e \in DOMAIN all_diagnostics PROVE Shown(e)'
    <3>1. e \in Files /\ DOMAIN all_diagnostics \subseteq Files
      BY DEF DocumentsInv, LoopTypes
    <3>2. CASE updated
      <4>1. published'[e] = Flattened(all_diagnostics, e)
        BY <1>1, <3>1, <3>2
      <4>2. published'[e].by \in Files
        BY <3>1, <4>1, FlattenedBy
      <4>3. QED
        BY <1>1, <4>1, <4>2 DEF Shown
    <3>3. CASE ~updated
      <4>1. published'[e] = published[e] /\ Shown(e)
        BY <1>1, <3>1, <3>3 DEF DocumentsInv, Showing
      <4>2. Awaited(published[e].by) => Awaited(published[e].by)'
        BY <1>1, <4>1 DEF Awaited, Telling
      <4>3. QED
        BY <1>1, <4>1, <4>2 DEF Shown
    <3>4. QED
      BY <3>2, <3>3
  <2>2. QED
    BY <1>1, <2>1 DEF Showing
<1>7. QED
  BY <1>2, <1>3, <1>4, <1>5, <1>6 DEF DocumentsInv

-------------------------------------------------------------------------------
(***************************************************************************)
(* Messages of the editor, the thread pool and the clock.                  *)
(***************************************************************************)
\* A message changes the text of document f, which is open or opened by it.
LEMMA TextStep ==
  ASSUME DocumentsInv, NEW f \in Files, NEW d, NEW r, DocumentInv(f, r, edits + 1), edits < MaxEdits,
         r.required = TRUE, ~r.finished => r.diagnostics = d.diagnostics /\ ~d.finished,
         f \in DOMAIN docs => d = docs[f], f \notin DOMAIN docs => d.diagnostics = None,
         docs' = [g \in DOMAIN docs \cup {f} |-> IF g = f THEN r ELSE docs[g]],
         edits' = edits + 1, pc = "wait", Again, UNCHANGED all_diagnostics,
         \/ published' = published
         \/ published' = [e \in Files |-> IF e \in Reported(f, d.diagnostics)
                                         THEN [by |-> f, texts |-> d.diagnostics] ELSE published[e]]
  PROVE  DocumentsInv'
<1>1. LoopTypes /\ DocumentsSound /\ Publishing /\ Showing /\ Following
  BY DEF DocumentsInv
<1>2. /\ pc' = "finished" /\ todo' = DOMAIN docs' /\ UNCHANGED <<notify, updated>> /\ notify = {}
  BY <1>1 DEF Again, LoopTypes
<1>3. DOMAIN docs' = DOMAIN docs \cup {f} /\ docs'[f] = r /\ \A g \in DOMAIN docs : g # f => docs'[g] = docs[g]
  OBVIOUS
<1>4. LoopTypes'
  <2>1. edits' \in 0 .. MaxEdits
    BY <1>1, DocumentsAssumption DEF LoopTypes
  <2>2. DOMAIN docs' \subseteq Files /\ DOMAIN all_diagnostics' \subseteq DOMAIN docs'
    BY <1>1, <1>3 DEF LoopTypes
  <2>3. docs' = [g \in DOMAIN docs' |-> docs'[g]]
    OBVIOUS
  <2>4. published' = [g \in Files |-> published'[g]]
    BY <1>1 DEF LoopTypes
  <2>5. QED
    BY <1>1, <1>2, <2>1, <2>2, <2>3, <2>4 DEF LoopTypes
<1>5. DocumentsSound'
  <2>1. edits \in Nat
    BY <1>1, DocumentsAssumption DEF LoopTypes
  <2>2. ASSUME NEW g \in DOMAIN docs, g # f PROVE DocumentInv(g, docs'[g], edits + 1)
    BY <1>1, <1>3, <2>1, <2>2, LaterDocument DEF LoopTypes, DocumentsSound
  <2>3. QED
    BY <1>3, <2>2 DEF DocumentsSound
<1>6. Publishing'
  <2>1. ASSUME NEW g \in DOMAIN docs, g # f PROVE Published(g, docs[g])'
    <3>1. docs'[g] = docs[g] /\ ~Telling(g) /\ Published(g, docs[g])
      BY <1>1, <1>3, <2>1 DEF Publishing, Telling
    <3>2. QED
      BY <1>2, <3>1 DEF Published
  <2>2. Published(f, docs[f])'
    <3>1. CASE f \in DOMAIN docs
      <4>1. ~Telling(f) /\ Published(f, d)
        BY <1>1, <3>1 DEF Publishing, Telling
      <4>2. QED
        BY <1>2, <1>3, <4>1 DEF Published
    <3>2. CASE f \notin DOMAIN docs
      <4>1. f \notin DOMAIN all_diagnostics
        BY <1>1, <3>2 DEF LoopTypes
      <4>2. QED
        BY <1>3, <3>2, <4>1 DEF Published
    <3>3. QED
      BY <3>1, <3>2
  <2>3. QED
    BY <1>2, <1>3, <2>1, <2>2 DEF Publishing
<1>7. Following'
  <2> SUFFICES ASSUME NEW g \in DOMAIN docs', NEW e \in DOMAIN docs', g # e PROVE Follows(docs'[g], e, docs'[e])
    BY DEF Following
  <2>1. CASE g = f
    BY <1>3, <2>1 DEF Follows
  <2>2. CASE e = f
    BY <1>3, <2>2 DEF Follows, Pending
  <2>3. CASE g # f /\ e # f
    BY <1>1, <1>3, <2>3 DEF Following, Telling
  <2>4. QED
    BY <2>1, <2>2, <2>3
<1>8. Showing'
  <2>1. ASSUME NEW e \in DOMAIN all_diagnostics, Shown(e) PROVE Shown(e)'
    <3>1. e \in Files
      BY <1>1 DEF LoopTypes
    <3>2. \A g \in DOMAIN docs : Awaited(g) => Awaited(g)'
      BY <1>3 DEF Awaited, Telling, Pending
    <3>3. CASE published'[e] = published[e]
      <4>1. Awaited(published[e].by) => Awaited(published[e].by)'
        BY <3>2, <3>3, ZenonT(40) DEF Awaited
      <4>2. QED
        BY <2>1, <3>3, <4>1 DEF Shown
    <3>4. CASE published'[e] = [by |-> f, texts |-> d.diagnostics]
      BY <1>3, <3>4 DEF Shown, Awaited, Pending
    <3>5. QED
      BY <3>1, <3>3, <3>4
  <2>2. QED
    BY <1>1, <1>2, <2>1 DEF Showing
<1>9. QED
  BY <1>4, <1>5, <1>6, <1>7, <1>8 DEF DocumentsInv

LEMMA OpenStep == ASSUME DocumentsInv, NEW f \in Files, Open(f) PROVE DocumentsInv'
<1>1. PICK d : d = IF f \in DOMAIN docs THEN docs[f] ELSE NewDocument
  OBVIOUS
<1>2. PICK q \in Qualities :
        /\ docs' = [g \in DOMAIN docs \cup {f} |-> IF g = f THEN SetText(d, q) ELSE docs[g]]
        /\ published' = [e \in Files |-> IF e \in Reported(f, d.diagnostics)
                                         THEN [by |-> f, texts |-> d.diagnostics] ELSE published[e]]
  BY <1>1 DEF Open
<1>3. pc = "wait" /\ edits < MaxEdits /\ edits' = edits + 1 /\ UNCHANGED all_diagnostics /\ Again
  BY ZenonT(40) DEF Open
<1>4. edits \in 0 .. MaxEdits /\ edits \in Nat
  BY DocumentsAssumption DEF DocumentsInv, LoopTypes
<1>5. DocumentInv(f, d, edits) /\ (f \notin DOMAIN docs => d.diagnostics = None)
  BY <1>1, <1>4, NewDocumentInv DEF DocumentsInv, DocumentsSound
<1>6. PICK r : r = SetText(d, q)
  OBVIOUS
<1>7. DocumentInv(f, r, edits + 1) /\ r.required = TRUE /\ r.finished = d.finished /\ r.diagnostics = d.diagnostics
  BY <1>3, <1>4, <1>5, <1>6, SetTextDocument, ZenonT(40)
<1>8. QED
  BY <1>1, <1>2, <1>3, <1>5, <1>6, <1>7, TextStep, ZenonT(40)

LEMMA DidChangeStep == ASSUME DocumentsInv, NEW f \in Files, DidChange(f) PROVE DocumentsInv'
<1>1. /\ pc = "wait" /\ f \in DOMAIN docs /\ edits < MaxEdits /\ edits' = edits + 1
      /\ UNCHANGED <<all_diagnostics, published>> /\ Again
  BY DEF DidChange
<1>2. PICK q \in Qualities : docs' = [docs EXCEPT ![f] = SetText(docs[f], q)]
                             \/ docs' = [docs EXCEPT ![f] = UpdateText(docs[f], q)]
  BY DEF DidChange
<1>3. PICK r \in {SetText(docs[f], q), UpdateText(docs[f], q)} : docs' = [docs EXCEPT ![f] = r]
  BY <1>2
<1>4. edits \in 0 .. MaxEdits /\ DocumentInv(f, docs[f], edits)
  BY <1>1 DEF DocumentsInv, LoopTypes, DocumentsSound
<1>5. /\ DocumentInv(f, r, edits + 1) /\ r.required = TRUE
      /\ ~r.finished => r.diagnostics = docs[f].diagnostics /\ ~docs[f].finished
  <2>1. CASE r = SetText(docs[f], q)
    <3>1. /\ DocumentInv(f, SetText(docs[f], q), edits + 1) /\ SetText(docs[f], q).required = TRUE
          /\ SetText(docs[f], q).finished = docs[f].finished
          /\ SetText(docs[f], q).diagnostics = docs[f].diagnostics
      BY <1>1, <1>4, SetTextDocument, ZenonT(40)
    <3>2. QED
      BY <2>1, <3>1
  <2>2. CASE r = UpdateText(docs[f], q)
    <3>1. /\ DocumentInv(f, r, edits + 1) /\ r.required = TRUE
          /\ r.finished = Take(docs[f]).finished /\ r.diagnostics = Take(docs[f]).diagnostics
      BY <1>1, <1>4, <2>2, UpdateTextDocument, ZenonT(40)
    <3>2. ~Take(docs[f]).finished => Take(docs[f]) = docs[f]
      BY <1>4, TakeDocument, Zenon
    <3>3. QED
      BY <3>1, <3>2
  <2>3. QED
    BY <2>1, <2>2, ZenonT(40)
<1>6. docs' = [g \in DOMAIN docs \cup {f} |-> IF g = f THEN r ELSE docs[g]]
  <2>1. docs = [g \in DOMAIN docs |-> docs[g]] /\ DOMAIN docs \cup {f} = DOMAIN docs
    BY <1>1, ZenonT(40) DEF DocumentsInv, LoopTypes
  <2>2. QED
    BY <1>3, <2>1, ZenonT(40)
<1>7. QED
  BY <1>1, <1>5, <1>6, TextStep, ZenonT(40)

LEMMA CloseStep == ASSUME DocumentsInv, NEW f \in Files, Close(f) PROVE DocumentsInv'
<1>1. LoopTypes /\ DocumentsSound /\ Publishing /\ Showing /\ Following
  BY DEF DocumentsInv
<1>2. /\ pc = "wait" /\ docs' = [g \in DOMAIN docs \ {f} |-> docs[g]]
      /\ all_diagnostics' = [g \in DOMAIN all_diagnostics \ {f} |-> all_diagnostics[g]]
      /\ UNCHANGED <<edits, published, notify, updated>> /\ pc' = "finished" /\ todo' = DOMAIN docs'
  BY DEF Close, Again
<1>3. notify = {}
  BY <1>1, <1>2 DEF LoopTypes
<1>4. /\ DOMAIN docs' = DOMAIN docs \ {f} /\ DOMAIN all_diagnostics' = DOMAIN all_diagnostics \ {f}
      /\ \A g \in DOMAIN docs' : docs'[g] = docs[g] /\ g \in DOMAIN docs /\ g # f
      /\ \A g \in DOMAIN all_diagnostics' : all_diagnostics'[g] = all_diagnostics[g]
  BY <1>2
<1>5. LoopTypes'
  BY <1>1, <1>2, <1>3, <1>4 DEF LoopTypes
<1>6. DocumentsSound'
  BY <1>1, <1>2, <1>4 DEF DocumentsSound
<1>7. Publishing'
  <2>1. ASSUME NEW g \in DOMAIN docs' PROVE Published(g, docs[g])'
    <3>1. Published(g, docs[g]) /\ ~Telling(g) /\ docs'[g] = docs[g]
          /\ (g \in DOMAIN all_diagnostics' <=> g \in DOMAIN all_diagnostics)
      BY <1>1, <1>2, <1>4 DEF Publishing, Telling
    <3>2. QED
      BY <1>2, <1>4, <3>1 DEF Published
  <2>2. QED
    BY <1>2, <2>1 DEF Publishing
<1>8. Following'
  BY <1>1, <1>2, <1>4 DEF Following, Telling
<1>9. Showing'
  <2>1. ASSUME NEW e \in DOMAIN all_diagnostics', Shown(e) PROVE Shown(e)'
    <3>1. e \in DOMAIN all_diagnostics \ {f} /\ DOMAIN all_diagnostics \subseteq Files
      BY <1>1, <1>4 DEF LoopTypes
    <3>2. CASE published[e].by = f
      BY <1>2, <1>4, <2>1, <3>2 DEF Shown
    <3>3. CASE published[e] = Flattened(all_diagnostics, e) /\ published[e].by # f
      <4>1. Flattened(all_diagnostics', e) = Flattened(all_diagnostics, e)
        BY <1>2, <3>1, <3>3, FlattenedWithout
      <4>2. QED
        BY <1>2, <2>1, <3>3, <4>1 DEF Shown
    <3>4. CASE published[e].by \notin DOMAIN all_diagnostics
      BY <1>2, <1>4, <2>1, <3>4 DEF Shown
    <3>5. CASE Awaited(published[e].by) /\ published[e].by # f
      <4>1. Awaited(published[e].by)'
        BY <1>2, <1>4, <3>5 DEF Awaited, Telling
      <4>2. QED
        BY <1>2, <2>1, <4>1 DEF Shown
    <3>6. QED
      BY <2>1, <3>2, <3>3, <3>4, <3>5 DEF Shown
  <2>2. QED
    BY <1>1, <1>2, <1>4, <2>1 DEF Showing
<1>10. QED
  BY <1>5, <1>6, <1>7, <1>8, <1>9 DEF DocumentsInv

LEMMA RequestStep == ASSUME DocumentsInv, NEW f \in Files, Request(f) PROVE DocumentsInv'
<1>1. /\ pc = "wait" /\ f \in DOMAIN docs /\ pc' = "finished" /\ todo' = DOMAIN docs'
      /\ UNCHANGED <<edits, all_diagnostics, published, notify, updated>>
      /\ docs' = [docs EXCEPT ![f] = Take(docs[f])] \/ docs' = DocsAfterLoad(f, docs[f])
  BY DEF Request, Again
<1>2. /\ DOMAIN docs' = DOMAIN docs /\ docs' = [g \in DOMAIN docs' |-> docs'[g]]
      /\ \A g \in DOMAIN docs : docs'[g] = docs[g] \/ docs'[g] = Take(docs[g])
  <2>1. CASE docs' = [docs EXCEPT ![f] = Take(docs[f])]
    BY <1>1, <2>1, ZenonT(40)
  <2>2. CASE docs' = DocsAfterLoad(f, docs[f])
    BY <1>1, <2>2 DEF DocsAfterLoad
  <2>3. QED
    BY <1>1, <2>1, <2>2
<1>3. LoopTypes'
  BY <1>1, <1>2 DEF DocumentsInv, LoopTypes
<1>4. QED
  BY <1>1, <1>2, <1>3, TakingStep

LEMMA CompileDoneStep == ASSUME DocumentsInv, NEW f \in Files, CompileDone(f) PROVE DocumentsInv'
<1>1. LoopTypes /\ DocumentsSound /\ Publishing /\ Showing /\ Following
  BY DEF DocumentsInv
<1>2. PICK r : r = [docs[f] EXCEPT !.task.ready = TRUE]
  BY Zenon
<1>3. /\ f \in DOMAIN docs /\ docs[f].task # None /\ docs' = [docs EXCEPT ![f] = r]
      /\ UNCHANGED <<edits, pc, todo, notify, all_diagnostics, updated, published>>
  BY <1>2 DEF CompileDone
<1>4. /\ DocumentInv(f, r, edits) /\ r.task # None /\ r.task.state = docs[f].task.state
      /\ r.required = docs[f].required /\ r.finished = docs[f].finished /\ r.diagnostics = docs[f].diagnostics
  BY <1>1, <1>2, <1>3, ReadyDocument DEF DocumentsSound
<1>5. DOMAIN docs' = DOMAIN docs /\ \A g \in DOMAIN docs : docs'[g] = IF g = f THEN r ELSE docs[g]
  BY <1>3
<1>6. LoopTypes'
  BY <1>1, <1>3, <1>5, ZenonT(40) DEF LoopTypes
<1>7. DocumentsSound'
  BY <1>1, <1>3, <1>4, <1>5 DEF DocumentsSound
<1>8. Publishing'
  BY <1>1, <1>3, <1>4, <1>5 DEF Publishing, Published, Telling
<1>9. Following'
  <2> SUFFICES ASSUME NEW g \in DOMAIN docs, NEW e \in DOMAIN docs, g # e
               PROVE  (Telling(e) /\ g \in notify)' \/ Follows(docs'[g], e, docs'[e])
    BY <1>5 DEF Following
  <2>1. (Telling(e) /\ g \in notify)' <=> (Telling(e) /\ g \in notify)
    BY <1>3 DEF Telling
  <2>2. CASE Telling(e) /\ g \in notify
    BY <2>1, <2>2
  <2>3. CASE Follows(docs[g], e, docs[e])
    <3>1. CASE e = f
      BY <1>4, <1>5, <3>1 DEF Follows, Pending
    <3>2. CASE g = f
      <4>1. LastBuild(r) = LastBuild(docs[f])
        BY <1>3, <1>4 DEF LastBuild
      <4>2. docs'[g] = r /\ docs'[e] = docs[e]
        BY <1>5, <3>2
      <4>3. QED
        BY <1>3, <1>4, <2>3, <3>2, <4>1, <4>2 DEF Follows
    <3>3. CASE e # f /\ g # f
      BY <1>5, <2>3, <3>3
    <3>4. QED
      BY <3>1, <3>2, <3>3
  <2>4. QED
    BY <1>1, <2>2, <2>3 DEF Following
<1>10. Showing'
  <2>1. ASSUME NEW g \in DOMAIN docs, Awaited(g) PROVE Awaited(g)'
    BY <1>3, <1>4, <1>5, <2>1 DEF Awaited, Telling, Pending
  <2>2. QED
    BY <1>1, <1>3, <2>1, ShowingKept
<1>11. QED
  BY <1>6, <1>7, <1>8, <1>9, <1>10 DEF DocumentsInv

LEMMA DelayEndsStep == ASSUME DocumentsInv, NEW f \in Files, DelayEnds(f) PROVE DocumentsInv'
<1>1. LoopTypes /\ DocumentsSound /\ Publishing /\ Showing /\ Following
  BY DEF DocumentsInv
<1>2. PICK r : r = [docs[f] EXCEPT !.recent = FALSE]
  BY Zenon
<1>3. /\ f \in DOMAIN docs /\ docs' = [docs EXCEPT ![f] = r]
      /\ UNCHANGED <<edits, pc, todo, notify, all_diagnostics, updated, published>>
  BY <1>2 DEF DelayEnds
<1>4. DocumentInv(f, r, edits) /\ DocumentInv(f, docs[f], edits) /\ docs[f] \in DocumentStates
  BY <1>1, <1>2, <1>3, FlagsDocument, ZenonT(40) DEF DocumentsSound, DocumentInv
<1>5. /\ r.required = docs[f].required /\ r.finished = docs[f].finished /\ r.diagnostics = docs[f].diagnostics
      /\ r.task = docs[f].task /\ r.compiled = docs[f].compiled /\ r.text = docs[f].text
  BY <1>2, <1>4 DEF DocumentStates
<1>6. DOMAIN docs' = DOMAIN docs /\ \A g \in DOMAIN docs : docs'[g] = IF g = f THEN r ELSE docs[g]
  BY <1>3
<1>7. LoopTypes'
  BY <1>1, <1>3, <1>6, ZenonT(40) DEF LoopTypes
<1>8. DocumentsSound'
  BY <1>1, <1>3, <1>4, <1>6 DEF DocumentsSound
<1>9. Publishing'
  BY <1>1, <1>3, <1>5, <1>6 DEF Publishing, Published, Telling
<1>10. SeenText(f, r) = SeenText(f, docs[f])
  <2>1. CASE docs[f].task = None \/ docs[f].task.ready = FALSE
    <3>1. Take(r) = r /\ Take(docs[f]) = docs[f]
      BY <1>5, <2>1 DEF Take
    <3>2. QED
      BY <1>5, <3>1 DEF SeenText
  <2>2. CASE docs[f].task # None /\ docs[f].task.ready = TRUE
    <3>1. Take(r).compiled = docs[f].task.state /\ Take(docs[f]).compiled = docs[f].task.state
      BY <1>4, <1>5, <2>2 DEF Take, DocumentInv, DocumentStates
    <3>2. docs[f].task.state # None
      BY <1>4, <2>2, NoneAssumption DEF DocumentStates, Compilations
    <3>3. QED
      BY <3>1, <3>2 DEF SeenText
  <2>3. QED
    BY <1>4, <2>1, <2>2, ZenonT(40) DEF DocumentStates, Compilations
<1>11. Following'
  <2> SUFFICES ASSUME NEW g \in DOMAIN docs, NEW e \in DOMAIN docs, g # e
               PROVE  (Telling(e) /\ g \in notify)' \/ Follows(docs'[g], e, docs'[e])
    BY <1>6 DEF Following
  <2>1. (Telling(e) /\ g \in notify)' <=> (Telling(e) /\ g \in notify)
    BY <1>3 DEF Telling
  <2>2. SeenText(e, docs'[e]) = SeenText(e, docs[e]) /\ (Pending(docs[e]) => Pending(docs'[e]))
    BY <1>5, <1>6, <1>10 DEF Pending
  <2>3. LastBuild(docs'[g]) = LastBuild(docs[g])
    BY <1>5, <1>6 DEF LastBuild
  <2>4. Follows(docs[g], e, docs[e]) => Follows(docs'[g], e, docs'[e])
    BY <1>5, <1>6, <2>2, <2>3, ZenonT(40) DEF Follows
  <2>5. QED
    BY <1>1, <2>1, <2>4 DEF Following
<1>12. Showing'
  <2>1. ASSUME NEW g \in DOMAIN docs, Awaited(g) PROVE Awaited(g)'
    BY <1>3, <1>5, <1>6, <2>1 DEF Awaited, Telling, Pending
  <2>2. QED
    BY <1>1, <1>3, <2>1, ShowingKept
<1>13. QED
  BY <1>7, <1>8, <1>9, <1>11, <1>12 DEF DocumentsInv

-------------------------------------------------------------------------------
LEMMA DocumentsInit == Init => DocumentsInv
<1> SUFFICES ASSUME Init PROVE DocumentsInv
  OBVIOUS
<1>1. DOMAIN docs = {} /\ DOMAIN all_diagnostics = {} /\ docs = [f \in DOMAIN docs |-> docs[f]]
  BY DEF Init
<1>2. LoopTypes
  <2>1. published = [f \in Files |-> published[f]]
    BY DEF Init
  <2>2. edits \in 0 .. MaxEdits
    BY DocumentsAssumption DEF Init
  <2>3. QED
    BY <1>1, <2>1, <2>2, ZenonT(40) DEF Init, LoopTypes
<1>3. DocumentsSound /\ Publishing /\ Showing /\ Following
  BY <1>1 DEF Init, DocumentsSound, Publishing, Showing, Following
<1>4. QED
  BY <1>2, <1>3 DEF DocumentsInv

LEMMA DocumentsStep == DocumentsInv /\ [Next]_vars => DocumentsInv'
<1> SUFFICES ASSUME DocumentsInv, [Next]_vars PROVE DocumentsInv'
  OBVIOUS
<1>1. CASE EndFinished \/ Timeout
  <2>1. /\ UNCHANGED <<docs, edits, all_diagnostics, published, notify, updated>> /\ todo' = DOMAIN docs
        /\ pc \in {"finished", "wait"} /\ pc' \in {"start", "finished"}
    BY <1>1 DEF EndFinished, Timeout, Again
  <2>2. LoopTypes'
    BY <2>1 DEF DocumentsInv, LoopTypes
  <2>3. QED
    BY <2>1, <2>2, TakingStep
<1>2. CASE UNCHANGED vars
  <2>1. LoopTypes' /\ DocumentsSound' /\ Publishing' /\ Following'
    BY <1>2 DEF DocumentsInv, LoopTypes, DocumentsSound, Publishing, Published, Following, Telling, vars
  <2>2. Showing'
    BY <1>2, ShowingKept DEF DocumentsInv, Awaited, Telling, vars
  <2>3. QED
    BY <2>1, <2>2 DEF DocumentsInv
<1>3. QED
  BY <1>1, <1>2, CheckFinishedStep, NotifyStep, StartRebuildStep, UpdateDiagnosticsStep, OpenStep, CloseStep,
     DidChangeStep, RequestStep, CompileDoneStep, DelayEndsStep DEF Next, Loop, Message

\* The invariant of the documents and of the processor thread holds for any
\* number of files, edits and imports.
THEOREM DocumentsInvariant == Spec => []DocumentsInv
BY DocumentsInit, DocumentsStep, PTL DEF Spec

\* Every variable keeps its type.
THEOREM DocumentsTypeCorrect == Spec => []TypeOK
<1>1. DocumentsInv => TypeOK
  <2> SUFFICES ASSUME DocumentsInv PROVE TypeOK
    OBVIOUS
  <2>1. ASSUME NEW f \in DOMAIN docs
        PROVE  /\ docs[f].text \in Texts
               /\ docs[f].changes = None \/ docs[f].changes \in Seq(Changes)
               /\ docs[f].compiled = None \/ f \in DOMAIN docs[f].compiled.texts
               /\ docs[f].recent \in BOOLEAN /\ docs[f].required \in BOOLEAN /\ docs[f].finished \in BOOLEAN
    <3>1. f \in ImportClosure(f) /\ docs[f] \in DocumentStates /\ BuildsSound(f, docs[f])
      BY ImportsItself DEF DocumentsInv, LoopTypes, DocumentsSound, DocumentInv
    <3>2. docs[f].compiled # None => f \in DOMAIN docs[f].compiled.texts
      BY <3>1 DEF BuildsSound, Compiles
    <3>3. QED
      BY <3>1, <3>2 DEF DocumentStates
  <2>2. QED
    BY <2>1 DEF DocumentsInv, LoopTypes, TypeOK
<1>2. QED
  BY <1>1, DocumentsInvariant, PTL

\* The assertion in TryTakeBackgroundStateUpdate never fails: there are at least
\* as many recorded changes as are to be erased.
THEOREM ChangesCanBeErased == Spec => []ChangesToErase
<1>1. DocumentsInv => ChangesToErase
  BY DEF DocumentsInv, DocumentsSound, DocumentInv, Erasable, ChangesToErase
<1>2. QED
  BY <1>1, DocumentsInvariant, PTL

\* A compiled state whose compilation was started while changes were recorded is
\* related to the current text by the recorded changes, whatever was edited
\* during the compilation, until the text is replaced as a whole.
THEOREM ChangesLeadToText == Spec => []IncrementalChangesTracked
<1>1. DocumentsInv => IncrementalChangesTracked
  <2> SUFFICES ASSUME DocumentsInv, NEW f \in DOMAIN docs, docs[f].compiled # None,
                      docs[f].compiled.tracked, docs[f].compiled.texts[f].base = docs[f].text.base
               PROVE  docs[f].changes # None /\ ChangesConnect(f)
    BY DEF IncrementalChangesTracked
  <2>1. docs[f] \in DocumentStates /\ Tracks(f, docs[f], docs[f].compiled, 0)
    BY DEF DocumentsInv, DocumentsSound, DocumentInv, Tracked
  <2>2. PICK c : c = docs[f].changes
    OBVIOUS
  <2>3. PICK start : start = docs[f].compiled.texts[f].v
    OBVIOUS
  <2>4. c # None /\ Connects(c, 0, start, docs[f].text.v)
    BY <2>1, <2>2, <2>3 DEF Tracks
  <2>5. c \in Seq(Changes)
    BY <2>1, <2>2, <2>4 DEF DocumentStates
  <2>6. CASE c = <<>>
    <3>1. start = docs[f].text.v
      BY <2>4, <2>6 DEF Connects
    <3>2. QED
      BY <2>2, <2>3, <2>4, <2>6, <3>1 DEF ChangesConnect
  <2>7. CASE c # <<>>
    <3>1. PICK n \in Nat : n = Len(c)
      BY <2>5
    <3>2. n > 0
      BY <2>5, <2>7, <3>1, EmptySeq
    <3>3. c[1].from = start /\ c[n].to = docs[f].text.v
      BY <2>4, <3>1, <3>2 DEF Connects
    <3>4. \A i \in 1 .. n : i > 0 /\ i < n => c[i].to = c[i + 1].from
      BY <2>4, <3>1 DEF Connects
    <3>5. \A i \in 1 .. n - 1 : i \in 1 .. n /\ i > 0 /\ i < n
      BY <3>1
    <3>6. \A i \in 1 .. n - 1 : c[i].to = c[i + 1].from
      BY <3>4, <3>5
    <3>7. QED
      BY <2>2, <2>3, <2>4, <2>7, <3>1, <3>3, <3>6 DEF ChangesConnect
  <2>8. QED
    BY <2>6, <2>7
<1>2. QED
  BY <1>1, DocumentsInvariant, PTL

\* What is known of a document when all is quiet.
LEMMA SettledDocument ==
  ASSUME DocumentsInv, Settled, NEW f \in DOMAIN docs
  PROVE  /\ ~docs[f].required /\ docs[f].task = None /\ ~docs[f].finished
         /\ docs[f].diagnostics # None /\ docs[f].diagnostics[f] = docs[f].text
         /\ AllOk(docs[f].diagnostics) =>
              docs[f].compiled # None /\ docs[f].compiled.texts = docs[f].diagnostics
         /\ f \in DOMAIN all_diagnostics /\ all_diagnostics[f] = docs[f].diagnostics
         /\ ~Awaited(f)
<1>1. pc = "wait" /\ ~docs[f].required /\ docs[f].task = None /\ ~docs[f].finished
  BY DEF Settled, Quiet
<1>2. BuiltCurrent(f, docs[f]) /\ Published(f, docs[f]) /\ ~Telling(f)
  BY <1>1 DEF DocumentsInv, DocumentsSound, DocumentInv, Publishing, Telling
<1>3. /\ docs[f].diagnostics # None /\ docs[f].diagnostics[f] = docs[f].text
      /\ AllOk(docs[f].diagnostics) =>
           docs[f].compiled # None /\ docs[f].compiled.texts = docs[f].diagnostics
  BY <1>1, <1>2 DEF BuiltCurrent
<1>4. f \in DOMAIN all_diagnostics /\ all_diagnostics[f] = docs[f].diagnostics
  BY <1>1, <1>2, <1>3 DEF Published
<1>5. ~Awaited(f)
  BY <1>1, <1>2 DEF Awaited, Pending
<1>6. QED
  BY <1>1, <1>3, <1>4, <1>5

\* When all is quiet the last build of every open document is of its current
\* text, and the editor has the flattened diagnostics of these builds, whatever
\* was edited, opened or closed during compilations: an entry is out of date only
\* when a document closed since made it.
THEOREM DiagnosticsAreCurrent == Spec => []DiagnosticsCurrent
<1>1. DocumentsInv => DiagnosticsCurrent
  <2> SUFFICES ASSUME DocumentsInv, Settled, NEW f \in DOMAIN docs
               PROVE  /\ published[f].by \in Files
                      /\ published[f].by \in DOMAIN docs =>
                           published[f] = Flattened([g \in DOMAIN docs |-> docs[g].diagnostics], f)
    BY SettledDocument DEF DiagnosticsCurrent, AllOk
  <2>1. \A g \in DOMAIN docs : /\ g \in DOMAIN all_diagnostics /\ ~Awaited(g)
                               /\ all_diagnostics[g] = docs[g].diagnostics
    BY SettledDocument
  <2>2. DOMAIN all_diagnostics = DOMAIN docs
    BY <2>1 DEF DocumentsInv, LoopTypes
  <2>3. [g \in DOMAIN docs |-> docs[g].diagnostics] = all_diagnostics
    BY <2>1, <2>2 DEF DocumentsInv, LoopTypes
  <2>4. Shown(f)
    BY <2>2 DEF DocumentsInv, Publishing, Showing, Settled
  <2>5. QED
    BY <2>1, <2>2, <2>3, <2>4 DEF Shown
<1>2. QED
  BY <1>1, DocumentsInvariant, PTL

\* When all is quiet a document whose last compilation succeeded and was not its
\* first one was compiled with the texts its imports are compiled with now.
THEOREM ImportsAreFollowed == Spec => []CompiledImportsFollowed
<1>1. DocumentsInv => CompiledImportsFollowed
  <2> SUFFICES ASSUME DocumentsInv, Settled, NEW f \in DOMAIN docs, docs[f].compiled # None,
                      docs[f].compiled.texts = docs[f].diagnostics, ~docs[f].compiled.first,
                      NEW e \in DOMAIN docs[f].diagnostics \cap DOMAIN docs
               PROVE  docs[f].diagnostics[e] = GetTextForCompilation(f, e)
    BY DEF CompiledImportsFollowed, SawCurrentImports
  <2>1. e \in Files /\ LoopTypes /\ DocumentsSound
    BY DEF DocumentsInv, LoopTypes
  <2>2. CASE e = f
    BY <2>1, <2>2, SettledDocument, TextsToRead
  <2>3. CASE e # f
    <3>1. Follows(docs[f], e, docs[e])
      BY <2>3 DEF DocumentsInv, Following, Telling, Settled
    <3>2. ~Pending(docs[e])
      BY SettledDocument DEF Pending
    <3>3. docs[f].compiled.texts[e] = SeenText(e, docs[e])
      BY <3>1, <3>2, SettledDocument DEF Follows, LastBuild
    <3>4. QED
      BY <2>1, <2>3, <3>3, TextsToRead
  <2>4. QED
    BY <2>2, <2>3
<1>2. QED
  BY <1>1, DocumentsInvariant, PTL

=============================================================================
