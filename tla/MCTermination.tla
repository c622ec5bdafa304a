---------------------------- MODULE MCTermination ----------------------------
(***************************************************************************)
(* Two loops that must come to an end, checked side by side: the parsing   *)
(* of a text and the build of a graph.  A behaviour is one of the part it  *)
(* starts with, the variables of the other part keep a resting value.      *)
(***************************************************************************)
EXTENDS MCSyntax

CONSTANTS NoFile

VARIABLES
  part,   \* the part whose behaviour this is
  project, command, mtime, content, deps, saved, now, changes, phase, to_rebuild, state,
  running, exited, closed, work, finished   \* of module Build

syntaxVars == vars
buildVars == <<project, command, mtime, content, deps, saved, now, changes, phase, to_rebuild, state,
               running, exited, closed, work, finished>>
partsVars == <<part, syntaxVars, buildVars>>

\* A build of a graph with a loop
Small == INSTANCE MCBuildProjects
LoopProjects == {Small!LoopProject}
Looping == INSTANCE Build WITH Projects <- LoopProjects

SyntaxRests ==
  /\ vocabulary = CHOOSE v \in Vocabularies : v.start = "StandaloneTypeName"
  /\ lexems = <<"eof">> /\ it = 1 /\ calls = <<>> /\ values = <<>> /\ error = NoError /\ source = <<>>

BuildRests ==
  /\ phase = "idle" /\ running = <<>> /\ finished = <<>> /\ to_rebuild = {} /\ now = 0 /\ changes = 0 /\ work = 0
  /\ project = 0 /\ command = 0 /\ mtime = 0 /\ content = 0 /\ deps = 0 /\ saved = 0 /\ state = 0 /\ exited = 0 /\ closed = 0

PartsInit ==
  \/ part = "syntax" /\ Init /\ BuildRests
  \/ part = "loop" /\ Looping!Init /\ SyntaxRests

PartsNext ==
  /\ UNCHANGED part
  /\ \/ part = "syntax" /\ Next /\ UNCHANGED buildVars
     \/ part = "loop" /\ Looping!Next /\ UNCHANGED syntaxVars

\* The fairness of each part
PartsSpec ==
  /\ PartsInit /\ [][PartsNext]_partsVars
  /\ WF_syntaxVars(ReadLexem) /\ WF_syntaxVars(Execute)
  /\ WF_buildVars(part = "loop" /\ Looping!BuildLoop)
  /\ \A n \in {1, 2, 3} : WF_buildVars(part = "loop" /\ Looping!ProcessExits(n))

\* Every invocation comes to an end, for a graph with a loop too.
LoopTerminates == part = "loop" => Looping!BuildTerminates
=============================================================================
