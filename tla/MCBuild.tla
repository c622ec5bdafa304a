-------------------------------- MODULE MCBuild --------------------------------
(***************************************************************************)
(* Build on small projects.                                                *)
(***************************************************************************)
EXTENDS Build

INSTANCE MCBuildProjects

AllProjects == {LinkedProject, GeneratedProject, LoopProject}

\* A command that changes and fails
FailingProject == {[GeneratedProject EXCEPT !.failures = TRUE]}

=============================================================================
