---------------------------- MODULE MCBuildProjects ----------------------------
(***************************************************************************)
(* Small projects, with the nodes listed in no useful order, as in the     *)
(* graphs the build system makes.                                          *)
(***************************************************************************)
CONSTANT NoFile

Node(inputs, outputs, source) ==
  [inputs |-> inputs, outputs |-> outputs, program |-> "tool", special |-> FALSE,
   dep_file |-> source # NoFile, source |-> source,
   header |-> IF source = NoFile THEN NoFile ELSE "h"]

SpecialNode(inputs, output) ==
  [inputs |-> inputs, outputs |-> {output}, program |-> NoFile, special |-> TRUE,
   dep_file |-> FALSE, source |-> NoFile, header |-> NoFile]

\* A source that may import a header is compiled, while a custom build step makes
\* another file of it; both results are linked.  Commands fail, invocations are killed.
LinkedProject ==
  [nodes |-> << Node({"ao", "bo"}, {"exe"}, NoFile), Node({"a"}, {"ao"}, "a"), Node({"a"}, {"bo"}, NoFile) >>,
   files |-> {"tool", "a", "h", "ao", "bo", "exe"},
   commands |-> {"c1"}, jobs |-> 2, failures |-> TRUE, aborts |-> TRUE, changes |-> 2, time |-> 4]

\* A file made by a special command, from which two custom build steps go on.
\* Command lines change.
GeneratedProject ==
  [nodes |-> << Node({"g"}, {"x"}, NoFile), SpecialNode({}, "g"), Node({"g"}, {"y"}, NoFile) >>,
   files |-> {"tool", "g", "x", "y"},
   commands |-> {"c1", "c2"}, jobs |-> 1, failures |-> FALSE, aborts |-> FALSE, changes |-> 3, time |-> 4]

\* Two custom build steps, each of which needs the output of the other, beside
\* one that can be built.
LoopProject ==
  [nodes |-> << Node({"y"}, {"x"}, NoFile), Node({"x"}, {"y"}, NoFile), Node({"a"}, {"ao"}, "a") >>,
   files |-> {"tool", "a", "h", "x", "y", "ao"},
   commands |-> {"c1"}, jobs |-> 2, failures |-> TRUE, aborts |-> TRUE, changes |-> 2, time |-> 3]

=============================================================================
