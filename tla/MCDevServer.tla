----------------------------- MODULE MCDevServer -----------------------------
\* DevServer on a site with one post, a root object, two pages, a static file
\* that builds to the first page's output, and one script.
EXTENDS DevServer

MCDest == [ a |-> "post/a.html", index |-> "index.html", about |-> "about.html",
            shadow |-> "index.html", main |-> "js/main.js", template |-> "post.html" ]
MCBody == {"index", "switch", "dump", "optional", "own", "shell", "strict", "bad"}
MCTexts ==
  [ a |-> {"v1", "v2"}, flag |-> {"on", "bad"},
    index |-> {"switch", "dump"}, about |-> {"own", "bad"},
    shadow |-> {"v1"}, main |-> {"v1", "v2", "bad"},
    partial |-> {"p1", "p2"}, template |-> {"shell", "optional"},
    definitions |-> {"templated", "plain", "bad"}, manifest |-> {"good", "bad"} ]
MCStart ==
  [ a |-> "v1", flag |-> "on", index |-> "switch", about |-> "own",
    shadow |-> None, main |-> "v1", partial |-> "p1", template |-> "shell",
    definitions |-> "templated", manifest |-> "good" ]
==============================================================================
