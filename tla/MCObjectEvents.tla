-------------------------- MODULE MCObjectEvents ---------------------------
EXTENDS ObjectEvents

Def(fields, children) == [fields |-> fields, children |-> children]
None == [k \in {} |-> k]
MCDefinitions ==
    [type \in {"post", "site"} |->
        Def({"f"}, IF type = "site" THEN None
                   ELSE [c \in {"c"} |-> Def({"f"}, [d \in {"d"} |-> Def({"f"}, None)])])]
MCToml == [n \in {"post", "site", "a", "A", "b"} |->
              CASE n = "post" -> "post.toml" [] n = "site" -> "site.toml"
                [] n = "a" -> "a.toml" [] n = "A" -> "A.toml" [] OTHER -> "b.toml"]
AllNames == {"objects", "schemas", "schemas-old", "post", "posts", "site", "sub",
             "a.toml", "A.toml", "b.toml", "post.toml", "site.toml"}
MCLower == [n \in AllNames |-> IF n = "A.toml" THEN "a.toml" ELSE n]
MCStartsWith == {<<n, n>> : n \in AllNames}
    \cup {<<"post.toml", "post">>, <<"posts", "post">>, <<"site.toml", "site">>, <<"schemas-old", "schemas">>}

Text(t) == [kind |-> "text", text |-> t]
List(children) == [kind |-> "objects", children |-> children]
Inner == [k \in {"d", "f"} |-> IF k = "f" THEN Text("x") ELSE List(<<[g \in {"f"} |-> Text("y")]>>)]
Outer == [k \in {"d"} |-> List(<<>>)]
Post  == [k \in {"c", "f"} |-> IF k = "f" THEN Text("x") ELSE List(<<Inner, Outer>>)]

MCOrders == {<<>>, <<1>>}
MCValuePaths ==
    {<<Key("f")>>, <<Key("c"), Index(0), Key("f")>>, <<Key("c"), Index(1), Key("f")>>,
     <<Key("c"), Index(0), Key("d"), Index(0), Key("f")>>, <<Key("e"), Key("f")>>,
     <<Key("c"), Index(0)>>}
Gives(path, text) == <<[path |-> path, text |-> text]>>
MCGiven == {<<>>, Gives(<<Key("f")>>, "y"), Gives(<<Key("f")>>, "bad"),
            Gives(<<Key("c"), Index(0)>>, "y"), Gives(<<Key("c"), Index(1), Key("f")>>, "y")}
MCChildPaths == {<<Key("c")>>, <<Key("c"), Index(0), Key("d")>>, <<Key("c"), Index(1), Key("d")>>}
MCFiles == {<<"objects", "post", "a.toml">>, <<"objects", "post", "A.toml">>,
            <<"objects", "post", "sub", "a.toml">>, <<"objects", "posts", "a.toml">>,
            <<"objects", "post.toml">>, <<"schemas-old", "a.toml">>}
\* A list of posts and a site; a post that is a root object, and no site.
MCFirst ==
    {[p \in {<<"objects", "post", "a.toml">>, <<"objects", "site.toml">>} |->
        Doc(<<>>, IF Len(p) = 3 THEN Post ELSE [k \in {"f"} |-> Text("x")])],
     [p \in {<<"objects", "post.toml">>} |-> Doc(<<>>, Post)]}
=============================================================================
