--------------------------- MODULE MCObjectRoutes ---------------------------
(* One type at a time, and for each what its parsers tell apart. *)
EXTENDS ObjectRoutes

S(text)   == [doc |-> "string", text |-> text]
Tbl(f)    == [doc |-> "table", entries |-> f]
Arr(items) == [doc |-> "array", items |-> items]
OptionDoc(name, of) == Tbl([k \in {"name", "type"} |-> S(IF k = "name" THEN name ELSE of)])

MCFieldDocs ==
    {S(name) : name \in {"string", "secret", "number", "date", "boolean", "image", "meta",
                         "slug", "hidden", "hero", "body", "unknown"}}
    \cup {Arr(<<S("word"), S("day")>>), Arr(<<S("word"), Tbl(NoEntries)>>),
          Arr(<<OptionDoc("count", "number"), OptionDoc("key", "hidden"), OptionDoc("photo", "image")>>)}

Check(path, accepts) == [path |-> path, accepts |-> accepts]
MCEditors ==
    [name \in {"slug", "hidden", "hero", "photo", "body", "prose"} |->
        CASE name = "slug"  -> [aliasOf |-> "string", validate |-> {Check("", {"word", "12"})}]
          [] name = "hero"  -> [aliasOf |-> "photo", validate |-> {Check("filename", {"", "word"})}]
          [] name = "photo" -> [aliasOf |-> "image", validate |-> {}]
          [] name = "body"  -> [aliasOf |-> "prose", validate |-> {}]
          [] name = "prose" -> [aliasOf |-> "markdown", validate |-> {}]
          [] OTHER          -> [aliasOf |-> "secret", validate |-> {}]]

MCNumerals == [s \in {"12"} |-> 12]
MCTruths   == [s \in {"true", "false"} |-> s = "true"]
Day(offset, sub) == [at |-> 1000, sub |-> sub, offset |-> offset, dated |-> TRUE]
MCDates    == [s \in {"day"} |-> Day(NoOffset, 0)]

Photo     == [k \in {"display_type", "sha", "filename", "mime", "name"} |->
                 S(CASE k = "display_type" -> "image" [] k = "sha" -> "sha"
                     [] k = "name" -> "" [] OTHER -> "word")]
Choice(name, value) == Tbl([k \in {"type", "value"} |-> IF k = "type" THEN S(name) ELSE value])
Bare(name) == Tbl([k \in {"type"} |-> S(name)])
Both == {S("word"), S("12"), S("day"), S(""), [doc |-> "boolean", b |-> TRUE],
         [doc |-> "float", n |-> 12], Tbl(NoEntries), Tbl(Photo),
         Tbl([Photo EXCEPT !["display_type"] = S("picture")]),
         Choice("count", [doc |-> "float", n |-> 12]), Choice("key", S("word")),
         Choice("photo", Tbl(Photo)), Bare("count"), Choice("none", S("word"))}
MCTomls == Both \cup {[doc |-> "integer", n |-> 12], [doc |-> "datetime", spelling |-> Day(2, 1)],
                      Tbl([k \in {"when"} |-> [doc |-> "datetime", spelling |-> Day(2, 1)]])}
MCJsons == Both \cup {[doc |-> "null"], Arr(<<>>), [doc |-> "array", items |-> <<Tbl([k \in {"g"} |-> S("word")])>>],
                      Tbl([k \in {"list"} |-> [doc |-> "array", items |-> <<S("word"), [doc |-> "boolean", b |-> TRUE]>>]]),
                      Tbl([k \in {"gone"} |-> [doc |-> "null"]])}

File(display) == [EmptyFile(display) EXCEPT !.sha = "sha", !.name = <<"">>]
MCValues ==
    {Text("string", "word"), Text("secret", "word"), Text("enum", "word"), Text("enum", "other"), Text("markdown", "word"),
     [kind |-> "number", n |-> 12], [kind |-> "boolean", b |-> TRUE], DateFrom(Day(2, 0)),
     [kind |-> "file", file |-> File("image")], [kind |-> "file", file |-> File("upload")],
     [kind |-> "oneof", name |-> "count", value |-> <<Null>>],
     [kind |-> "oneof", name |-> "key", value |-> <<Text("secret", "word")>>],
     [kind |-> "oneof", name |-> "key", value |-> <<Text("string", "word")>>],
     [kind |-> "oneof", name |-> "photo", value |-> <<>>],
     Null, [kind |-> "objects", children |-> <<[k \in {"g"} |-> Text("string", "word")]>>],
     [kind |-> "objects", children |-> <<>>]}
MCOrders == {<<>>, <<0>>, <<1>>}
=============================================================================
