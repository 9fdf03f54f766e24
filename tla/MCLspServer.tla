----------------------------- MODULE MCLspServer -----------------------------
\* One site of posts.  A text is read by its last character: the lines before
\* it are comments, with wide characters in them.
EXTENDS LspServer

CONSTANTS Numerals, Truths, Dates, Blank, LocalOffset, NoOffset, Today
Checks == INSTANCE SiteChecks
MCReadDefinitions(d, editors) == Checks!DefinitionsFrom(d, editors)
MCFaultsOfObject(d, type, def, editors) == Checks!ObjectFaults(d, type, def, editors)
ObjectFile(dir, type, place) == Checks!ObjectFile(dir, type, place)

Doc(f) == [doc |-> "table", entries |-> f]
Post(kind) == Doc([t \in {"post"} |-> Doc([k \in {"title"} |-> String(kind)])])

MCParsed(text) ==
    CASE text = <<>>       -> Doc(NoEntries)
      [] Last(text) = "m"  -> Doc([k \in {"site_url"} |-> String("x")])
      [] Last(text) = "n"  -> Doc([k \in {"object_file"} |-> String("types.toml")])
      [] Last(text) = "v"  -> Doc([k \in {"archival_version"} |-> String("old")])
      [] Last(text) = "s"  -> Post("string")
      [] Last(text) = "d"  -> Post("date")
      [] Last(text) = "x"  -> Post("strng")
      [] Last(text) = "t"  -> Doc([k \in {"title"} |-> String("a")])
      [] Last(text) = "u"  -> Doc([k \in {"nope"} |-> String("a")])
      [] OTHER             -> Broken

MCKeySpan(text, fault) ==
    IF fault.field = "" \/ text = <<>> THEN [from |-> 0, to |-> Len(text)] ELSE [from |-> Len(text) - 1, to |-> Len(text)]
MCTemplateFaults(text) == IF text # <<>> /\ Head(text) = "s" THEN Fault("liquid", "", "") ELSE {}

NoObject == ObjectFile("", "", "")
Manifest  == [dir |-> "", name |-> Canonical, toml |-> TRUE, object |-> NoObject]
Objects   == [dir |-> "", name |-> Definitions, toml |-> TRUE, object |-> NoObject]
Types     == [dir |-> "", name |-> "types.toml", toml |-> TRUE, object |-> NoObject]
One       == [dir |-> "objects/post", name |-> "one.toml", toml |-> TRUE,
              object |-> ObjectFile("objects", "post", "listed")]
Page      == [dir |-> "", name |-> "page.liquid", toml |-> FALSE, object |-> NoObject]
MCFiles == {Manifest, Objects, Types, One, Page}
MCAbove == [d \in {"", "objects/post"} |-> IF d = "" THEN <<"">> ELSE <<"objects/post", "objects", "">>]

Site == [f \in {Manifest, Objects, One} |->
            CASE f = Manifest -> <<"m">> [] f = Objects -> <<"s">> [] OTHER -> <<"W", "/", "t">>]
MCInitially == {Site, [f \in {One, Page} |-> IF f = One THEN <<"W", "/", "t">> ELSE <<"W">>]}
MCOnDisk == [f \in MCFiles |->
                CASE f = Manifest -> {<<"m">>, <<"n">>}
                  [] f = Objects  -> {<<"d">>, <<"x">>}
                  [] f = Types    -> {<<"s">>}
                  [] OTHER        -> {}]
MCTyped == [f \in MCFiles |->
                CASE f = Manifest -> {<<"b">>, <<"m">>, <<"v">>}
                  [] f = Objects  -> {<<"s">>, <<"x">>}
                  [] f = Types    -> {<<"x">>}
                  [] f = Page     -> {<<"s">>}
                  [] OTHER        -> {<<>>, <<"u">>}]
MCParts == [p \in {"objects", "pages", "layout", "public", "scripts", "schemas", "dist", "js"} |-> <<p>>]
NoTexts == [t \in {} |-> 0]

\* The parsers of this instance are as the theorems suppose them to be.
Short == SeqOf(Characters, 2)
Entries(text) == IF Parsed(text) = Broken THEN NoEntries ELSE Parsed(text).entries
ASSUME ParsersAssumption ==
    \A text \in Short :
        /\ IsTableOrBroken(text)
        /\ \A field \in {"", "title"} : \A e \in Fault("value", "", field) : SpanLies(text, e)
        /\ \A other \in Short : EditorsOnlyAdd(Parsed(text), Entries(other))
=============================================================================
