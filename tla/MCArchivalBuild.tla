--------------------------- MODULE MCArchivalBuild ---------------------------
(* Instances of ArchivalBuild for TLC. *)
EXTENDS ArchivalBuild, TLC

CONSTANTS o1, o2, s1, t1, t2

\* Two objects of two types, so that a build can be caught between them, and a
\* script whose output is one of their pages.
MCTypeOf == (o1 :> "post" @@ o2 :> "tag")
MCOneTypeOf == (o1 :> "post" @@ o2 :> "post")
MCDest == (s1 :> o1)
MCDefault == {[skipStatic |-> FALSE, skipFailures |-> FALSE]}
\* What does not render is left out, with or without the static files.
MCSkipping == {[skipStatic |-> FALSE, skipFailures |-> TRUE],
               [skipStatic |-> TRUE, skipFailures |-> TRUE]}
==============================================================================
