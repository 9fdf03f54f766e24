----------------------------- MODULE MCSiteFiles -----------------------------
\* A site of posts under every pair of names, one object file, and what hosts
\* may set.
EXTENDS SiteReports

Doc(f) == [doc |-> "table", entries |-> f]
Arr(items) == [doc |-> "array", items |-> items]

Hero(validators) ==
    Doc([k \in {"type", "validate"} |-> IF k = "type" THEN String("image") ELSE Arr(validators)])
FileName == Doc([k \in {"path", "validate"} |-> String(IF k = "path" THEN "filename" ELSE "any")])
Types(validators) == Doc([t \in {"hero"} |-> Hero(validators)])

Plain == Doc([k \in {"site_url", "upload_prefix", "not_a_field"} |-> String("x")])
MCManifests ==
    {NoFile, Broken, Plain,
     Doc([k \in {"editor_types"} |-> Types(<<FileName>>)]),
     Doc([k \in {"editor_types"} |-> Types(<<String("(")>>)]),
     Doc([k \in {"object_file", "sitemap"} |->
             IF k = "sitemap" THEN Boolean(FALSE) ELSE String(LegacyDefinitions)]),
     Doc([k \in {"static_dir", "metadata"} |->
             IF k = "metadata" THEN Doc([e \in {"by"} |-> String("x")]) ELSE String("dist/public")]),
     Doc([k \in {"archival_version"} |-> String("old")]),
     Doc([k \in {"site_name", "prebuild", "metadata", "scripts_dir"} |->
             CASE k = "site_name" -> String("")
               [] k = "prebuild"  -> Arr(<<String("x"), Boolean(TRUE)>>)
               [] k = "metadata"  -> Doc(NoEntries)
               [] OTHER           -> Boolean(FALSE)])}

Post(f) == Doc([t \in {"post"} |-> Doc(f)])
Good    == Post([k \in {"title", "photo"} |-> String(IF k = "title" THEN "string" ELSE "hero")])
Simple  == Post([k \in {"title", "tags"} |->
             IF k = "title" THEN String("string") ELSE Doc([l \in {"label"} |-> String("string")])])
MCDefinitions ==
    {NoFile, Broken, Good,
     Post([k \in {"title", "order", "tags"} |->
             CASE k = "title" -> String("strng") [] k = "order" -> String("number")
               [] OTHER -> Doc([l \in {"label"} |-> String("string")])]),
     Doc([t \in {"post", "page"} |-> Doc([k \in {"title"} |-> String("string")])]), Simple}

MCWritten ==
    [f \in {Canonical, Legacy, Definitions, LegacyDefinitions} |->
        CASE f = Canonical         -> MCManifests
          [] f = Legacy            -> {NoFile, Plain}
          [] f = Definitions       -> MCDefinitions
          [] f = LegacyDefinitions -> {NoFile, Good, Simple}]

One == ObjectFile("objects", "post", "listed")
MCObjectDocs ==
    [o \in {One} |->
        {NoFile, Broken,
         Doc([k \in {"title", "order"} |-> String("a")]),
         Doc([k \in {"title"} |-> Boolean(TRUE)]),
         Doc([k \in {"title", "tags"} |->
                 IF k = "title" THEN String("a")
                 ELSE Arr(<<Doc([l \in {"label", "nope"} |-> String("x")])>>)])}]

MCSettings ==
    [k \in {"site_url", "scripts_dir", "build_dir", "object_file"} |->
        CASE k = "site_url"    -> {"y", ""}
          [] k = "scripts_dir" -> {"false", "src"}
          [] k = "build_dir"   -> {"out", "public"}
          [] OTHER             -> {Definitions, LegacyDefinitions}]
MCOverrides == {<<>>, <<"p">>}

MCParts ==
    [p \in {"objects", "pages", "layout", "public", "scripts", "schemas", "dist", "dist/public",
            "js", "src", "out"} |-> IF p = "dist/public" THEN <<"dist", "public">> ELSE <<p>>]
MCPatterns == [p \in {"any"} |-> {"", "a", "x"}]
NoTexts == [t \in {} |-> 0]
=============================================================================
