------------------------------ MODULE MCDocuments ------------------------------
(***************************************************************************)
(* Documents for TLC: a file imports another one, which comes after it or  *)
(* before it in the order of the documents.                                *)
(***************************************************************************)
EXTENDS Documents

ImporterFirst == << {2}, {} >>

ImporterLast == << {}, {1} >>

\* Texts with an odd version have errors; text 2 leads to errors in all the texts
\* it is compiled with (in an instance of an imported template, for example).
SomeErrors(f, texts) == {e \in DOMAIN texts : texts[e].v % 2 = 1 \/ texts[f].v = 2}

=============================================================================
