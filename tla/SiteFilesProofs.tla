--------------------------- MODULE SiteFilesProofs ---------------------------
(* Theorems about SiteFiles, Manifests and SiteLoading, for any documents,   *)
(* object files, settings and upload prefixes: what Manifest::to_toml writes *)
(* is what Manifest::from_string reads.                                      *)
EXTENDS SiteFiles, TLAPS

Fields == DOMAIN DefaultManifest("")

-----------------------------------------------------------------------------
(* Editor types.                                                             *)

LEMMA StringIsText == ASSUME NEW t PROVE String(t).doc = "string" /\ String(t).text = t
BY DEF String

LEMMA PartsOfDocs ==
  /\ \A x : [doc |-> "array", items |-> x].doc = "array" /\ [doc |-> "array", items |-> x].items = x
  /\ \A x : [doc |-> "table", entries |-> x].doc = "table" /\ [doc |-> "table", entries |-> x].entries = x
  /\ \A x : Boolean(x).doc = "boolean" /\ Boolean(x).b = x
BY DEF Boolean

LEMMA ErrIsNoRecord ==
  /\ \A p, q : [path |-> p, pattern |-> q] # Err
  /\ \A a, v, u : [aliasOf |-> a, validate |-> v, editor_url |-> u] # Err
  /\ \A t : [kind |-> "types", types |-> t] # Err
  /\ \A m : [kind |-> "manifest", manifest |-> m] # Err
  /\ \A m, d : [kind |-> "site", manifest |-> m, defs |-> d] # Err
<1> DEFINE none == [kind |-> "error"]
<1>1. DOMAIN none = {"kind"} /\ none["kind"] = "error"
  OBVIOUS
<1> HIDE DEF none
<1>2. \A p, q : "path" \in DOMAIN [path |-> p, pattern |-> q]
  OBVIOUS
<1>3. \A a, v, u : "validate" \in DOMAIN [aliasOf |-> a, validate |-> v, editor_url |-> u]
  OBVIOUS
<1>4. \A t : "types" \in DOMAIN [kind |-> "types", types |-> t]
  OBVIOUS
<1>5. \A m : "manifest" \in DOMAIN [kind |-> "manifest", manifest |-> m]
  OBVIOUS
<1>6. \A m, d : "manifest" \in DOMAIN [kind |-> "site", manifest |-> m, defs |-> d]
  OBVIOUS
<1>7. Err = none
  BY DEF Err, none
<1>8. "path" \notin DOMAIN Err /\ "validate" \notin DOMAIN Err /\ "types" \notin DOMAIN Err /\ "manifest" \notin DOMAIN Err
  BY <1>1, <1>7
<1> QED BY <1>2, <1>3, <1>4, <1>5, <1>6, <1>8

LEMMA PatternIsReadBack ==
  ASSUME NEW q \in DOMAIN Patterns, NEW alias
  PROVE  ValidatorFrom(ValidatorDoc([path |-> "", pattern |-> q]), alias) = [path |-> "", pattern |-> q]
<1>1. ValidatorDoc([path |-> "", pattern |-> q]) = String(q)
  BY DEF ValidatorDoc
<1>2. ValidatorFrom(String(q), alias) = [path |-> "", pattern |-> q]
  BY StringIsText DEF ValidatorFrom
<1> QED BY <1>1, <1>2

LEMMA PartIsReadBack ==
  ASSUME NEW p, p # "", NEW q \in DOMAIN Patterns, NEW alias \in Nested
  PROVE  ValidatorFrom(ValidatorDoc([path |-> p, pattern |-> q]), alias) = [path |-> p, pattern |-> q]
<1> DEFINE e == [k \in {"path", "validate"} |-> String(IF k = "path" THEN p ELSE q)]
           d == [doc |-> "table", entries |-> e]
<1>1. ValidatorDoc([path |-> p, pattern |-> q]) = d
  BY Zenon DEF ValidatorDoc
<1>2. e["path"] = String(p) /\ e["validate"] = String(q) /\ DOMAIN e = {"path", "validate"}
  OBVIOUS
<1> HIDE DEF e
<1>3. d.doc = "table" /\ d.entries = e
  OBVIOUS
<1> HIDE DEF d
<1>4. HasText(e, "path") /\ HasText(e, "validate") /\ e["path"].text = p /\ e["validate"].text = q
  BY <1>2, StringIsText, Zenon DEF HasText
<1>5. ValidatorFrom(d, alias) = [path |-> p, pattern |-> q]
  BY <1>3, <1>4 DEF ValidatorFrom
<1> QED BY <1>1, <1>5

LEMMA ValidatorIsReadBack ==
  ASSUME NEW d, NEW alias, ValidatorFrom(d, alias) # Err
  PROVE  ValidatorFrom(ValidatorDoc(ValidatorFrom(d, alias)), alias) = ValidatorFrom(d, alias)
<1> DEFINE v == ValidatorFrom(d, alias)
<1>1. CASE d.doc = "string" /\ d.text \in DOMAIN Patterns
  <2>1. v = [path |-> "", pattern |-> d.text]
    BY <1>1 DEF ValidatorFrom
  <2> QED BY <1>1, <2>1, PatternIsReadBack
<1>2. CASE ~(d.doc = "string" /\ d.text \in DOMAIN Patterns)
  <2> DEFINE p == d.entries["path"].text
             q == d.entries["validate"].text
  <2>1. alias \in Nested /\ q \in DOMAIN Patterns /\ v = [path |-> p, pattern |-> q]
    BY <1>2 DEF ValidatorFrom
  <2> HIDE DEF p, q, v
  <2> QED BY <2>1, PatternIsReadBack, PartIsReadBack DEF v
<1> QED BY <1>1, <1>2

LEMMA WrittenTypeIsReadBack ==
  ASSUME NEW alias, NEW validate, NEW url,
         validate = [i \in DOMAIN validate |-> validate[i]],
         \A i \in DOMAIN validate :
            validate[i] # Err /\ ValidatorFrom(ValidatorDoc(validate[i]), alias) = validate[i]
  PROVE  LET t == [aliasOf |-> alias, validate |-> validate, editor_url |-> url]
         IN  EditorTypeFrom(EditorTypeDoc(t)) = t
<1> DEFINE t     == [aliasOf |-> alias, validate |-> validate, editor_url |-> url]
           doc   == EditorTypeDoc(t)
           e     == doc.entries
           items == e["validate"].items
           again == [i \in DOMAIN items |-> ValidatorFrom(items[i], e["type"].text)]
<1>1. doc.doc = "table"
  BY DEF EditorTypeDoc
<1>2. e["type"] = String(alias)
  BY DEF EditorTypeDoc
<1>3. e["validate"] = [doc |-> "array", items |-> Each(ValidatorDoc, validate)]
  BY DEF EditorTypeDoc
<1>4. url # "" => e["editor_url"] = String(url)
  BY DEF EditorTypeDoc
<1>5. DOMAIN e = {"type", "validate"} \cup (IF url = "" THEN {} ELSE {"editor_url"})
  BY DEF EditorTypeDoc
<1>6. doc.entries = e
  OBVIOUS
<1> HIDE DEF doc, e
<1>7. HasText(e, "type") /\ e["type"].text = alias
  <2>1. "type" \in DOMAIN e
    BY <1>5
  <2> QED BY <2>1, <1>2, StringIsText, Zenon DEF HasText
<1>8. "editor_url" \in DOMAIN e <=> url # ""
  BY <1>5
<1>9. url # "" => HasText(e, "editor_url") /\ e["editor_url"].text = url
  BY <1>4, <1>8, StringIsText, Zenon DEF HasText
<1>10. "validate" \in DOMAIN e /\ e["validate"].doc = "array" /\ items = Each(ValidatorDoc, validate)
  <2>1. "validate" \in DOMAIN e
    BY <1>5
  <2> QED BY <2>1, <1>3, PartsOfDocs, Zenon
<1> HIDE DEF items
<1>11. again = validate
  <2>1. DOMAIN items = DOMAIN validate /\ \A i \in DOMAIN validate : items[i] = ValidatorDoc(validate[i])
    BY <1>10 DEF Each
  <2>2. again = [i \in DOMAIN validate |-> validate[i]]
    BY <1>7, <2>1
  <2> QED BY <2>2
<1>12. \A i \in DOMAIN again : again[i] # Err
  BY <1>11
<1> HIDE DEF again
<1>13. EditorTypeFrom(doc) =
         [aliasOf |-> e["type"].text, validate |-> again,
          editor_url |-> IF "editor_url" \in DOMAIN e THEN e["editor_url"].text ELSE ""]
  BY <1>1, <1>6, <1>7, <1>8, <1>9, <1>10, <1>12 DEF EditorTypeFrom, again, items
<1>14. EditorTypeFrom(doc) = t
  BY <1>7, <1>8, <1>9, <1>11, <1>13
<1> QED BY <1>14 DEF doc

LEMMA EditorTypeIsReadBack ==
  ASSUME NEW d, EditorTypeFrom(d) # Err
  PROVE  EditorTypeFrom(EditorTypeDoc(EditorTypeFrom(d))) = EditorTypeFrom(d)
<1> DEFINE alias == d.entries["type"].text
           has   == "validate" \in DOMAIN d.entries
           read  == [i \in DOMAIN d.entries["validate"].items |->
                        ValidatorFrom(d.entries["validate"].items[i], alias)]
           url   == IF "editor_url" \in DOMAIN d.entries THEN d.entries["editor_url"].text ELSE ""
           validate == IF has THEN read ELSE <<>>
<1>1. /\ EditorTypeFrom(d) = [aliasOf |-> alias, validate |-> validate, editor_url |-> url]
      /\ has => \A i \in DOMAIN read : read[i] # Err
  BY DEF EditorTypeFrom
<1>2. /\ validate = [i \in DOMAIN validate |-> validate[i]]
      /\ \A i \in DOMAIN validate :
            validate[i] # Err /\ ValidatorFrom(ValidatorDoc(validate[i]), alias) = validate[i]
  <2>1. CASE has
    BY <1>1, <2>1, ValidatorIsReadBack
  <2>2. CASE ~has
    BY <2>2
  <2> QED BY <2>1, <2>2
<1> HIDE DEF alias, validate, url
<1> QED BY <1>1, <1>2, WrittenTypeIsReadBack

\* What Manifest::to_toml writes of editor types is what from_string read.
LEMMA EditorTypesAreReadBack ==
  ASSUME NEW d, EditorTypesFrom(d) # Err
  PROVE  LET types == EditorTypesFrom(d).types
         IN  EditorTypesFrom([doc |-> "table", entries |-> Each(EditorTypeDoc, types)])
               = [kind |-> "types", types |-> types]
<1> DEFINE types == Each(EditorTypeFrom, d.entries)
           again == Each(EditorTypeDoc, types)
<1>1. EditorTypesFrom(d).types = types /\ \A k \in DOMAIN types : types[k] # Err
  BY DEF EditorTypesFrom
<1>2. /\ types = [k \in DOMAIN types |-> types[k]]
      /\ \A k \in DOMAIN types : types[k] = EditorTypeFrom(d.entries[k])
  BY DEF Each
<1>3. \A k \in DOMAIN types : EditorTypeFrom(EditorTypeDoc(types[k])) = types[k]
  BY <1>1, <1>2, EditorTypeIsReadBack
<1> HIDE DEF types
<1>4. Each(EditorTypeFrom, again) = types
  <2>1. DOMAIN again = DOMAIN types /\ \A k \in DOMAIN types : again[k] = EditorTypeDoc(types[k])
    BY DEF Each
  <2> HIDE DEF again
  <2>2. Each(EditorTypeFrom, again) = [k \in DOMAIN types |-> types[k]]
    BY <1>3, <2>1 DEF Each
  <2> QED BY <1>2, <2>2
<1>5. EditorTypesFrom([doc |-> "table", entries |-> again]) = [kind |-> "types", types |-> types]
  <2> HIDE DEF again
  <2> QED BY <1>1, <1>4 DEF EditorTypesFrom
<1> QED BY <1>1, <1>5

-----------------------------------------------------------------------------
(* The fields of a manifest.                                                 *)

\* A field that is not the default is written so that it is read back.
ReadsBack(m, k) ==
    ~IsDefault(m, k) => ReadField(k, FieldDoc(m, k)) = m[k] /\ ~Refused(k, FieldDoc(m, k), <<>>)

WellRead(m) == m = [k \in Fields |-> m[k]] /\ \A k \in Fields : ReadsBack(m, k)

LEMMA KindsOfField ==
  /\ Fields = TextFields \cup PathFields
                \cup {"upload_prefix", "scripts_build_dir", "scripts_dir", "prebuild",
                      "editor_types", "metadata", "sitemap"}
  /\ \A prefix : DOMAIN DefaultManifest(prefix) = Fields
BY DEF Fields, DefaultManifest, TextFields, PathFields, DirFields

LEMMA OnePart == ASSUME NEW x PROVE Head(<<x>>) = x /\ <<x>> # <<>> /\ Len(<<x>>) = 1
OBVIOUS

\* The fields with a text of their own.
Texts == PathFields \cup {"upload_prefix", "scripts_build_dir"}

LEMMA TextReadsBack ==
  ASSUME NEW m, NEW k \in Texts
  PROVE  ReadsBack(m, k)
<1>1. k \notin TextFields \cup {"scripts_dir", "sitemap", "prebuild", "metadata", "editor_types"}
  BY DEF Texts, TextFields, PathFields, DirFields
<1>2. FieldDoc(m, k) = String(m[k])
  BY <1>1 DEF FieldDoc
<1>3. ReadField(k, String(m[k])) = m[k]
  BY <1>1, StringIsText DEF ReadField
<1>4. ~Refused(k, String(m[k]), <<>>)
  BY StringIsText DEF Refused, Texts, PathFields, DirFields
<1> QED BY <1>2, <1>3, <1>4 DEF ReadsBack

LEMMA OneTextReadsBack ==
  ASSUME NEW m, NEW k \in TextFields, m[k] = <<>> \/ \E x : m[k] = <<x>>
  PROVE  ReadsBack(m, k)
<1>1. CASE m[k] = <<>>
  <2> DEFINE default == DefaultManifest("")
  <2>1. /\ default["archival_version"] = <<>> /\ default["uploads_url"] = <<>>
        /\ default["site_url"] = <<>> /\ default["site_name"] = <<>>
    BY DEF DefaultManifest
  <2>2. default[k] = <<>>
    BY <2>1, Zenon DEF TextFields
  <2> QED BY <1>1, <2>2 DEF ReadsBack, IsDefault
<1>2. CASE \E x : m[k] = <<x>>
  <2>1. PICK x : m[k] = <<x>>
    BY <1>2
  <2>2. FieldDoc(m, k) = String(x)
    BY <2>1, OnePart DEF FieldDoc, TextFields
  <2>3. ReadField(k, String(x)) = <<x>>
    BY StringIsText DEF ReadField, TextFields
  <2>4. ~Refused(k, String(x), <<>>)
    BY StringIsText DEF Refused, TextFields, PathFields, DirFields
  <2> QED BY <2>1, <2>2, <2>3, <2>4 DEF ReadsBack
<1> QED BY <1>1, <1>2

LEMMA ScriptsDirReadsBack ==
  ASSUME NEW m, m["scripts_dir"] = <<>> \/ \E x : m["scripts_dir"] = <<x>>
  PROVE  ReadsBack(m, "scripts_dir")
<1> DEFINE k == "scripts_dir"
<1>1. CASE m[k] = <<>>
  <2>1. FieldDoc(m, k) = Boolean(FALSE)
    BY <1>1 DEF FieldDoc, TextFields
  <2>2. ReadField(k, Boolean(FALSE)) = <<>>
    BY PartsOfDocs DEF ReadField, TextFields
  <2>3. ~Refused(k, Boolean(FALSE), <<>>)
    BY DEF Refused, PathFields, DirFields
  <2> QED BY <1>1, <2>1, <2>2, <2>3 DEF ReadsBack
<1>2. CASE \E x : m[k] = <<x>>
  <2>1. PICK x : m[k] = <<x>>
    BY <1>2
  <2>2. FieldDoc(m, k) = String(x)
    BY <2>1, OnePart DEF FieldDoc, TextFields
  <2>3. ReadField(k, String(x)) = <<x>>
    BY StringIsText DEF ReadField, TextFields
  <2>4. ~Refused(k, String(x), <<>>)
    BY StringIsText DEF Refused, PathFields, DirFields
  <2> QED BY <2>1, <2>2, <2>3, <2>4 DEF ReadsBack
<1> QED BY <1>1, <1>2

LEMMA SitemapReadsBack ==
  ASSUME NEW m
  PROVE  ReadsBack(m, "sitemap")
<1>1. FieldDoc(m, "sitemap") = Boolean(m["sitemap"])
  BY DEF FieldDoc, TextFields
<1>2. ReadField("sitemap", Boolean(m["sitemap"])) = m["sitemap"]
  BY PartsOfDocs DEF ReadField, TextFields
<1>3. ~Refused("sitemap", Boolean(m["sitemap"]), <<>>)
  BY PartsOfDocs DEF Refused, PathFields, DirFields
<1> QED BY <1>1, <1>2, <1>3 DEF ReadsBack

LEMMA PrebuildReadsBack ==
  ASSUME NEW m, m["prebuild"] = [i \in DOMAIN m["prebuild"] |-> m["prebuild"][i]]
  PROVE  ReadsBack(m, "prebuild")
<1> DEFINE k == "prebuild"
           p == m[k]
           d == [doc |-> "array", items |-> Each(String, p)]
<1>1. FieldDoc(m, k) = d
  BY DEF FieldDoc, TextFields
<1>2. Each(TextOrNone, Each(String, p)) = [i \in DOMAIN p |-> p[i]]
  BY StringIsText DEF Each, TextOrNone
<1>3. ReadField(k, d) = Each(TextOrNone, Each(String, p))
  BY PartsOfDocs DEF ReadField, TextFields
<1>4. ~Refused(k, d, <<>>)
  BY DEF Refused, PathFields, DirFields
<1> HIDE DEF d
<1> QED BY <1>1, <1>2, <1>3, <1>4 DEF ReadsBack

LEMMA MetadataReadsBack ==
  ASSUME NEW m,
         \/ m["metadata"] = <<>>
         \/ \E f : m["metadata"] = <<f>> /\ f = [e \in DOMAIN f |-> f[e]]
  PROVE  ReadsBack(m, "metadata")
<1> DEFINE k == "metadata"
<1>1. CASE m[k] = <<>>
  BY <1>1 DEF ReadsBack, IsDefault, DefaultManifest
<1>2. CASE m[k] # <<>>
  <2>1. PICK f : m[k] = <<f>> /\ f = [e \in DOMAIN f |-> f[e]]
    BY <1>2
  <2> DEFINE written == Each(String, f)
             d == [doc |-> "table", entries |-> written]
  <2>2. FieldDoc(m, k) = d
    BY <2>1, OnePart DEF FieldDoc, TextFields
  <2>3. d.doc = "table" /\ d.entries = written
    BY PartsOfDocs
  <2>4. DOMAIN written = DOMAIN f /\ \A e \in DOMAIN f : written[e].doc = "string" /\ written[e].text = f[e]
    BY StringIsText DEF Each
  <2> HIDE DEF written, d
  <2>5. ReadField(k, d) = <<[e \in DOMAIN written |-> written[e].text]>>
    BY <2>3 DEF ReadField, TextFields
  <2>6. [e \in DOMAIN written |-> written[e].text] = f
    BY <2>1, <2>4
  <2>7. \A e \in Range(written) : e.doc = "string"
    BY <2>4, Zenon DEF Range
  <2>8. ~Refused(k, d, <<>>)
    BY <2>3, <2>7 DEF Refused, PathFields, DirFields
  <2> QED BY <2>1, <2>2, <2>5, <2>6, <2>8 DEF ReadsBack
<1> QED BY <1>1, <1>2

LEMMA TypesReadBack ==
  ASSUME NEW m, NEW d, EditorTypesFrom(d) # Err, m["editor_types"] = EditorTypesFrom(d).types
  PROVE  ReadsBack(m, "editor_types")
<1> DEFINE k == "editor_types"
           types == EditorTypesFrom(d).types
           written == [doc |-> "table", entries |-> Each(EditorTypeDoc, types)]
<1>1. FieldDoc(m, k) = written
  BY DEF FieldDoc, TextFields
<1>2. EditorTypesFrom(written) = [kind |-> "types", types |-> types]
  BY EditorTypesAreReadBack
<1> HIDE DEF written, types
<1>3. EditorTypesFrom(written) # Err /\ EditorTypesFrom(written).types = types
  BY <1>2, ErrIsNoRecord
<1>4. ReadField(k, written) = types
  BY <1>3 DEF ReadField, TextFields
<1>5. ~Refused(k, written, <<>>)
  BY <1>3 DEF Refused, PathFields, DirFields
<1> QED BY <1>1, <1>4, <1>5 DEF ReadsBack, types

LEMMA ReadFieldReadsBack ==
  ASSUME NEW m, NEW k \in Fields, NEW d, NEW prefix, m[k] = ReadField(k, d), ~Refused(k, d, prefix)
  PROVE  ReadsBack(m, k)
<1>1. CASE k \in Texts
  BY <1>1, TextReadsBack
<1>2. CASE k \in TextFields
  <2>1. m[k] = IF d.doc = "string" THEN <<d.text>> ELSE <<>>
    BY <1>2 DEF ReadField, TextFields
  <2> QED BY <1>2, <2>1, OneTextReadsBack
<1>3. CASE k = "scripts_dir"
  <2>1. m["scripts_dir"] = IF d.doc = "string" THEN <<d.text>> ELSE <<>>
    BY <1>3 DEF ReadField, TextFields
  <2> QED BY <1>3, <2>1, ScriptsDirReadsBack
<1>4. CASE k = "sitemap"
  BY <1>4, SitemapReadsBack
<1>5. CASE k = "prebuild"
  <2>1. m["prebuild"] = IF d.doc = "array" THEN Each(TextOrNone, d.items) ELSE <<>>
    BY <1>5 DEF ReadField, TextFields
  <2>2. m["prebuild"] = [i \in DOMAIN m["prebuild"] |-> m["prebuild"][i]]
    <3>1. CASE d.doc = "array"
      <4> DEFINE read == Each(TextOrNone, d.items)
      <4>1. read = [i \in DOMAIN read |-> read[i]]
        BY DEF Each
      <4> HIDE DEF read
      <4>2. m["prebuild"] = read
        BY <2>1, <3>1 DEF read
      <4> QED BY <4>1, <4>2, Zenon
    <3>2. CASE d.doc # "array"
      BY <2>1, <3>2
    <3> QED BY <3>1, <3>2
  <2> QED BY <1>5, <2>2, PrebuildReadsBack
<1>6. CASE k = "metadata"
  <2> DEFINE f == [e \in DOMAIN d.entries |-> d.entries[e].text]
  <2>1. m["metadata"] = <<f>>
    BY <1>6 DEF ReadField, TextFields
  <2>2. f = [e \in DOMAIN f |-> f[e]]
    OBVIOUS
  <2> HIDE DEF f
  <2> QED BY <1>6, <2>1, <2>2, MetadataReadsBack
<1>7. CASE k = "editor_types"
  <2>1. EditorTypesFrom(d) # Err
    BY <1>7 DEF Refused, PathFields, DirFields
  <2>2. m["editor_types"] = EditorTypesFrom(d).types
    BY <1>7 DEF ReadField, TextFields
  <2> QED BY <1>7, <2>1, <2>2, TypesReadBack
<1> QED BY <1>1, <1>2, <1>3, <1>4, <1>5, <1>6, <1>7, KindsOfField DEF Texts

LEMMA DefaultsOfFields ==
  ASSUME NEW prefix, NEW k \in Fields, k # "upload_prefix"
  PROVE  DefaultManifest(prefix)[k] = DefaultManifest("")[k]
<1> DEFINE a == DefaultManifest(prefix)
           b == DefaultManifest("")
<1>1. /\ a["archival_version"] = b["archival_version"] /\ a["uploads_url"] = b["uploads_url"]
      /\ a["site_url"] = b["site_url"] /\ a["site_name"] = b["site_name"]
      /\ a["prebuild"] = b["prebuild"] /\ a["metadata"] = b["metadata"]
  BY DEF DefaultManifest
<1>2. /\ a["pages"] = b["pages"] /\ a["objects"] = b["objects"] /\ a["build_dir"] = b["build_dir"]
      /\ a["static_dir"] = b["static_dir"] /\ a["schemas_dir"] = b["schemas_dir"]
      /\ a["layout_dir"] = b["layout_dir"]
  BY DEF DefaultManifest
<1>3. /\ a["object_file"] = b["object_file"] /\ a["scripts_dir"] = b["scripts_dir"]
      /\ a["scripts_build_dir"] = b["scripts_build_dir"]
      /\ a["editor_types"] = b["editor_types"] /\ a["sitemap"] = b["sitemap"]
  BY DEF DefaultManifest
<1> HIDE DEF a, b
<1>4. a[k] = b[k]
  BY <1>1, <1>2, <1>3, KindsOfField, Zenon DEF PathFields, DirFields, TextFields
<1> QED BY <1>4 DEF a, b

LEMMA DefaultReadsBack ==
  ASSUME NEW m, NEW k \in Fields, NEW prefix, m[k] = DefaultManifest(prefix)[k]
  PROVE  ReadsBack(m, k)
<1>1. CASE k = "upload_prefix"
  BY <1>1, TextReadsBack DEF Texts
<1>2. CASE k # "upload_prefix"
  BY <1>2, DefaultsOfFields DEF ReadsBack, IsDefault
<1> QED BY <1>1, <1>2

LEMMA SameField ==
  ASSUME NEW m, NEW n, NEW k, m[k] = n[k]
  PROVE  /\ FieldDoc(m, k) = FieldDoc(n, k)
         /\ SaysNothing(m, k) <=> SaysNothing(n, k)
         /\ IsDefault(m, k) <=> IsDefault(n, k)
         /\ ReadsBack(m, k) <=> ReadsBack(n, k)
<1>1. FieldDoc(m, k) = FieldDoc(n, k)
  BY DEF FieldDoc
<1>2. SaysNothing(m, k) <=> SaysNothing(n, k)
  BY DEF SaysNothing
<1>3. IsDefault(m, k) <=> IsDefault(n, k)
  BY <1>2 DEF IsDefault
<1>4. ReadsBack(m, k) <=> ReadsBack(n, k)
  BY <1>1, <1>3 DEF ReadsBack
<1> QED BY <1>1, <1>2, <1>3, <1>4

\* A manifest that from_string accepts is one that to_toml writes faithfully.
LEMMA ReadManifestIsWellRead ==
  ASSUME NEW entries, NEW prefix, ManifestFrom(entries, prefix) # Err
  PROVE  LET m == ManifestFrom(entries, prefix).manifest
         IN  /\ WellRead(m) /\ BuildDirIsApart(m) /\ ScriptsStayInside(m)
             /\ prefix # <<>> => m["upload_prefix"] = Head(prefix)
<1> DEFINE default == DefaultManifest(IF prefix = <<>> THEN "" ELSE Head(prefix))
           set == (DOMAIN entries \cap DOMAIN default) \ (IF prefix = <<>> THEN {} ELSE {"upload_prefix"})
           m == [k \in DOMAIN default |-> IF k \in set THEN ReadField(k, entries[k]) ELSE default[k]]
<1>1. /\ ManifestFrom(entries, prefix).manifest = m
      /\ \A k \in set : ~Refused(k, entries[k], prefix)
      /\ BuildDirIsApart(m) /\ ScriptsStayInside(m)
  <2> HIDE DEF default
  <2> DEFINE mm == m
  <2> HIDE DEF mm
  <2> QED BY Zenon DEF ManifestFrom, default
<1>2. DOMAIN default = Fields
  BY KindsOfField
<1>3. prefix # <<>> => default["upload_prefix"] = Head(prefix)
  BY DEF DefaultManifest
<1> DEFINE p == IF prefix = <<>> THEN "" ELSE Head(prefix)
<1>4. default = DefaultManifest(p)
  OBVIOUS
<1> HIDE DEF default, p
<1>5. ASSUME NEW k \in Fields
      PROVE  ReadsBack(m, k)
  <2>1. CASE k \in set
    <3>1. m[k] = ReadField(k, entries[k])
      BY <1>2, <2>1
    <3> QED BY <1>1, <2>1, <3>1, ReadFieldReadsBack
  <2>2. CASE k \notin set
    <3>1. m[k] = DefaultManifest(p)[k]
      BY <1>2, <1>4, <2>2
    <3> HIDE DEF m
    <3> QED BY <3>1, DefaultReadsBack
  <2> QED BY <2>1, <2>2
<1>6. m = [k \in Fields |-> m[k]]
  BY <1>2
<1>7. prefix # <<>> => m["upload_prefix"] = Head(prefix)
  BY <1>2, <1>3, KindsOfField
<1> HIDE DEF m
<1> QED BY <1>1, <1>5, <1>6, <1>7 DEF WellRead

\* Manifest::set leaves a manifest that to_toml writes faithfully.
LEMMA SetFieldIsWellRead ==
  ASSUME NEW m, WellRead(m), NEW k \in Settable, NEW text
  PROVE  LET n == SetField(m, k, text)
         IN  /\ WellRead(n)
             /\ \A other \in Fields \ {k} : n[other] = m[other]
             /\ n["upload_prefix"] = m["upload_prefix"]
<1> DEFINE n == SetField(m, k, text)
           v == CASE k \in TextFields  -> <<text>>
                  [] k = "scripts_dir" -> IF text = "false" THEN <<>> ELSE <<text>>
                  [] k = "sitemap"     -> text # "false"
                  [] OTHER             -> text
<1>1. k \in Fields /\ k # "upload_prefix" /\ "upload_prefix" \in Fields
  BY KindsOfField DEF Settable, PathFields, DirFields, TextFields
<1>2. DOMAIN m = Fields
  BY DEF WellRead
<1>3. n = [m EXCEPT ![k] = v]
  BY DEF SetField
<1>4. k \in TextFields => v = <<text>>
  BY DEF TextFields
<1>5. k = "scripts_dir" => v = <<>> \/ v = <<text>>
  BY DEF TextFields
<1> HIDE DEF v, n
<1>6. n[k] = v
  BY <1>1, <1>2, <1>3
<1>7. \A other \in Fields \ {k} : n[other] = m[other]
  BY <1>2, <1>3
<1>8. n = [j \in Fields |-> n[j]]
  BY <1>2, <1>3
<1>9. ReadsBack(n, k)
  <2>1. CASE k \in TextFields
    BY <1>4, <1>6, <2>1, OneTextReadsBack
  <2>2. CASE k = "scripts_dir"
    <3>1. n["scripts_dir"] = <<>> \/ \E x : n["scripts_dir"] = <<x>>
      BY <1>5, <1>6, <2>2
    <3> QED BY <2>2, <3>1, ScriptsDirReadsBack
  <2>3. CASE k = "sitemap"
    BY <2>3, SitemapReadsBack
  <2>4. CASE k \in Texts
    BY <2>4, TextReadsBack
  <2> QED BY <2>1, <2>2, <2>3, <2>4 DEF Settable, Texts
<1>10. ASSUME NEW j \in Fields PROVE ReadsBack(n, j)
  <2>1. CASE j = k
    BY <1>9, <2>1
  <2>2. CASE j # k
    <3>1. n[j] = m[j]
      BY <1>7, <2>2
    <3> QED BY <3>1, SameField DEF WellRead
  <2> QED BY <2>1, <2>2
<1>11. n["upload_prefix"] = m["upload_prefix"]
  BY <1>1, <1>7
<1> QED BY <1>7, <1>8, <1>10, <1>11 DEF WellRead, n

-----------------------------------------------------------------------------
(* What is written is what is read.                                          *)

\* What is there and empty, and the legacy name of the definitions, are left out.
AsWritten(m) ==
    [k \in Fields |-> IF SaysNothing(m, k) THEN <<>>
                      ELSE IF k = "object_file" /\ m[k] = LegacyDefinitions THEN Definitions
                      ELSE m[k]]

LEMMA SaysNothingWhere ==
  ASSUME NEW m, NEW k, SaysNothing(m, k)
  PROVE  k \in TextFields \cup {"metadata"} /\ m[k] # <<>>
<1>1. CASE k \in TextFields /\ m[k] = <<"">>
  BY <1>1, OnePart
<1>2. CASE k = "metadata" /\ m[k] # <<>>
  BY <1>2
<1> QED BY <1>1, <1>2 DEF SaysNothing

LEMMA DefaultIsAsWritten ==
  ASSUME NEW m, NEW k \in Fields, IsDefault(m, k)
  PROVE  AsWritten(m)[k] = DefaultManifest("")[k]
<1> DEFINE default == DefaultManifest("")
<1>1. default["object_file"] = Definitions /\ default["metadata"] = <<>>
  BY DEF DefaultManifest
<1>2. \A f \in TextFields : default[f] = <<>>
  <2>1. /\ default["archival_version"] = <<>> /\ default["uploads_url"] = <<>>
        /\ default["site_url"] = <<>> /\ default["site_name"] = <<>>
    BY DEF DefaultManifest
  <2> QED BY <2>1, Zenon DEF TextFields
<1> HIDE DEF default
<1>3. CASE SaysNothing(m, k)
  BY <1>1, <1>2, <1>3, SaysNothingWhere DEF AsWritten, default
<1>4. CASE ~SaysNothing(m, k) /\ k = "object_file" /\ m[k] = LegacyDefinitions
  BY <1>1, <1>4 DEF AsWritten, default
<1>5. CASE ~SaysNothing(m, k) /\ ~(k = "object_file" /\ m[k] = LegacyDefinitions)
  BY <1>5 DEF AsWritten, default, IsDefault
<1> QED BY <1>3, <1>4, <1>5

LEMMA NotDefaultIsAsWritten ==
  ASSUME NEW m, NEW k \in Fields, ~IsDefault(m, k)
  PROVE  AsWritten(m)[k] = m[k]
BY DEF AsWritten, IsDefault

LEMMA AsWrittenKeepsTheRest ==
  ASSUME NEW m
  PROVE  /\ \A k \in Fields \ (TextFields \cup {"metadata", "object_file"}) : AsWritten(m)[k] = m[k]
         /\ BuildDirIsApart(AsWritten(m)) <=> BuildDirIsApart(m)
         /\ ScriptsStayInside(AsWritten(m)) <=> ScriptsStayInside(m)
<1>1. \A k \in Fields \ (TextFields \cup {"metadata", "object_file"}) : AsWritten(m)[k] = m[k]
  BY SaysNothingWhere DEF AsWritten
<1> DEFINE n == AsWritten(m)
<1> HIDE DEF n
<1>2. /\ n["objects"] = m["objects"] /\ n["pages"] = m["pages"] /\ n["layout_dir"] = m["layout_dir"]
      /\ n["static_dir"] = m["static_dir"] /\ n["scripts_dir"] = m["scripts_dir"]
      /\ n["build_dir"] = m["build_dir"] /\ n["scripts_build_dir"] = m["scripts_build_dir"]
  BY <1>1, KindsOfField DEF n, PathFields, DirFields, TextFields
<1>3. BuildDirIsApart(n) <=> BuildDirIsApart(m)
  BY <1>2 DEF BuildDirIsApart, Sources
<1>4. ScriptsStayInside(n) <=> ScriptsStayInside(m)
  BY <1>2 DEF ScriptsStayInside
<1> QED BY <1>1, <1>3, <1>4 DEF n

LEMMA RefusedWithoutAPrefix ==
  ASSUME NEW k, NEW d, NEW prefix, Refused(k, d, prefix)
  PROVE  Refused(k, d, <<>>)
BY DEF Refused, PathFields, DirFields

\* Manifest::from_string undoes Manifest::to_toml, under the prefix it was read
\* with and without one.
LEMMA WrittenIsRead ==
  ASSUME NEW m, WellRead(m), NEW prefix, prefix # <<>> => m["upload_prefix"] = Head(prefix)
  PROVE  ManifestFrom(ManifestTable(m), prefix) =
           IF BuildDirIsApart(m) /\ ScriptsStayInside(m)
           THEN [kind |-> "manifest", manifest |-> AsWritten(m)] ELSE Err
<1> DEFINE p == IF prefix = <<>> THEN "" ELSE Head(prefix)
           default == DefaultManifest(p)
           entries == ManifestTable(m)
           set == (DOMAIN entries \cap DOMAIN default) \ (IF prefix = <<>> THEN {} ELSE {"upload_prefix"})
           n == [k \in DOMAIN default |-> IF k \in set THEN ReadField(k, entries[k]) ELSE default[k]]
<1>1. /\ DOMAIN entries = {k \in Fields : ~IsDefault(m, k)}
      /\ \A k \in Fields : ~IsDefault(m, k) => entries[k] = FieldDoc(m, k)
  BY DEF ManifestTable, WellRead
<1>2. DOMAIN default = Fields
  BY KindsOfField
<1>3. \A k \in Fields : k # "upload_prefix" => default[k] = DefaultManifest("")[k]
  BY DefaultsOfFields
<1>4. default["upload_prefix"] = p /\ DefaultManifest("")["upload_prefix"] = ""
  BY DEF DefaultManifest
<1>5. ManifestFrom(entries, prefix) =
        IF \/ \E k \in set : Refused(k, entries[k], prefix)
           \/ ~BuildDirIsApart(n) \/ ~ScriptsStayInside(n)
        THEN Err ELSE [kind |-> "manifest", manifest |-> n]
  <2> HIDE DEF entries
  <2> QED BY Zenon DEF ManifestFrom
<1> HIDE DEF entries, default
<1>6. ASSUME NEW k \in set
      PROVE  /\ k \in Fields /\ ~IsDefault(m, k) /\ entries[k] = FieldDoc(m, k)
             /\ ReadField(k, entries[k]) = m[k] /\ ~Refused(k, entries[k], prefix)
  <2>1. k \in Fields /\ ~IsDefault(m, k) /\ entries[k] = FieldDoc(m, k)
    BY <1>1, <1>2
  <2>2. ReadsBack(m, k)
    BY <2>1 DEF WellRead
  <2>3. ReadField(k, entries[k]) = m[k] /\ ~Refused(k, entries[k], <<>>)
    BY <2>1, <2>2 DEF ReadsBack
  <2> QED BY <2>1, <2>3, RefusedWithoutAPrefix
<1>7. ASSUME NEW k \in Fields PROVE n[k] = AsWritten(m)[k]
  <2>1. CASE k \in set
    <3>1. n[k] = m[k]
      BY <1>2, <1>6, <2>1
    <3> HIDE DEF n
    <3> QED BY <1>6, <2>1, <3>1, NotDefaultIsAsWritten
  <2>2. CASE k \notin set /\ k = "upload_prefix" /\ prefix # <<>>
    <3>1. n[k] = m[k]
      BY <1>2, <1>4, <2>2
    <3>2. AsWritten(m)[k] = m[k]
      BY <2>2, AsWrittenKeepsTheRest DEF TextFields
    <3> HIDE DEF n
    <3> QED BY <3>1, <3>2
  <2>3. CASE k \notin set /\ ~(k = "upload_prefix" /\ prefix # <<>>)
    <3>1. IsDefault(m, k)
      BY <1>1, <1>2, <2>3
    <3>2. n[k] = DefaultManifest("")[k]
      BY <1>2, <1>3, <1>4, <2>3
    <3> HIDE DEF n
    <3> QED BY <3>1, <3>2, DefaultIsAsWritten
  <2> QED BY <2>1, <2>2, <2>3
<1>8. n = AsWritten(m)
  <2>1. n = [k \in Fields |-> n[k]]
    BY <1>2
  <2>2. AsWritten(m) = [k \in Fields |-> AsWritten(m)[k]]
    BY DEF AsWritten
  <2> HIDE DEF n
  <2> QED BY <1>7, <2>1, <2>2
<1> HIDE DEF n, set
<1>9. ~\E k \in set : Refused(k, entries[k], prefix)
  BY <1>6
<1> QED BY <1>5, <1>8, <1>9, AsWrittenKeepsTheRest DEF entries

-----------------------------------------------------------------------------
(* The files of a site.                                                      *)

LEMMA FourNames ==
  /\ Canonical # Legacy /\ Definitions # LegacyDefinitions
  /\ Definitions \notin {Canonical, Legacy} /\ LegacyDefinitions \notin {Canonical, Legacy}
BY DEF Canonical, Legacy, Definitions, LegacyDefinitions

\* modify_manifest and format write the file that a load finds again, and no other.
LEMMA WritingKeepsTheNames ==
  ASSUME NEW disk, DOMAIN disk = DOMAIN Written, NEW m
  PROVE  LET after == WriteManifest(m, disk)
         IN  /\ DOMAIN after = DOMAIN disk
             /\ ManifestName(after) = ManifestName(disk)
             /\ At(after, ManifestName(disk)) = [doc |-> "table", entries |-> ManifestTable(m)]
             /\ \A f \in DOMAIN disk : after[f] = disk[f] \/ after[f].doc = "table"
             /\ \A f : f \notin {Canonical, Legacy} => At(after, f) = At(disk, f)
<1> DEFINE name == ManifestName(disk)
           doc  == [doc |-> "table", entries |-> ManifestTable(m)]
           after == WriteManifest(m, disk)
<1>1. name \in DOMAIN disk /\ name \in {Canonical, Legacy}
  BY SiteFilesAssumption DEF ManifestName, Exists, At
<1>2. doc.doc = "table" /\ doc # NoFile
  <2>1. doc.doc = "table" /\ NoFile.doc = "missing"
    BY PartsOfDocs DEF NoFile
  <2> QED BY <2>1
<1>3. after = [disk EXCEPT ![name] = doc]
  BY DEF WriteManifest
<1> HIDE DEF doc, after
<1>4. At(after, name) = doc /\ \A f : f # name => At(after, f) = At(disk, f)
  <2> HIDE DEF name
  <2> QED BY <1>1, <1>3 DEF At
<1>5. DOMAIN after = DOMAIN disk /\ \A f \in DOMAIN disk : after[f] = disk[f] \/ after[f].doc = "table"
  <2> HIDE DEF name
  <2> QED BY <1>1, <1>2, <1>3
<1>6. ManifestName(after) = name
  BY <1>2, <1>4, FourNames DEF ManifestName, Exists
<1> QED BY <1>1, <1>4, <1>5, <1>6 DEF doc, after

LEMMA WritingKeepsTheDefinitions ==
  ASSUME NEW disk, DOMAIN disk = DOMAIN Written, NEW m, NEW n
  PROVE  LET after == WriteManifest(m, disk)
         IN  /\ Exists(after, Definitions) <=> Exists(disk, Definitions)
             /\ Exists(after, LegacyDefinitions) <=> Exists(disk, LegacyDefinitions)
             /\ DefinitionsName(n, after) = DefinitionsName(n, disk)
<1>1. /\ Exists(WriteManifest(m, disk), Definitions) <=> Exists(disk, Definitions)
      /\ Exists(WriteManifest(m, disk), LegacyDefinitions) <=> Exists(disk, LegacyDefinitions)
  BY FourNames, WritingKeepsTheNames DEF Exists
<1> QED BY <1>1 DEF DefinitionsName

LEMMA ManifestAfterWriting ==
  ASSUME NEW disk, DOMAIN disk = DOMAIN Written, NEW m, WellRead(m),
         NEW prefix, prefix # <<>> => m["upload_prefix"] = Head(prefix)
  PROVE  ManifestOf(WriteManifest(m, disk), prefix) =
           IF BuildDirIsApart(m) /\ ScriptsStayInside(m)
           THEN [kind |-> "manifest", manifest |-> AsWritten(m)] ELSE Err
<1> DEFINE after == WriteManifest(m, disk)
           d == At(after, ManifestName(after))
<1>1. d = [doc |-> "table", entries |-> ManifestTable(m)]
  BY WritingKeepsTheNames
<1>2. d.doc = "table" /\ d.entries = ManifestTable(m)
  BY <1>1, PartsOfDocs
<1> HIDE DEF d
<1>3. ManifestOf(after, prefix) = ManifestFrom(ManifestTable(m), prefix)
  BY <1>2 DEF ManifestOf, d
<1> QED BY <1>3, WrittenIsRead

\* A manifest that a load takes is well read, whether a file holds it or not.
LEMMA LoadedManifestIsWellRead ==
  ASSUME NEW disk, NEW prefix, ManifestOf(disk, prefix) # Err
  PROVE  LET m == ManifestOf(disk, prefix).manifest
         IN  /\ WellRead(m)
             /\ prefix # <<>> => m["upload_prefix"] = Head(prefix)
             /\ prefix = <<>> => BuildDirIsApart(m) /\ ScriptsStayInside(m)
<1> DEFINE d == At(disk, ManifestName(disk))
<1>1. CASE d.doc = "table"
  <2>1. ManifestOf(disk, prefix) = ManifestFrom(d.entries, prefix)
    BY <1>1 DEF ManifestOf
  <2> QED BY <2>1, ReadManifestIsWellRead
<1>2. CASE d.doc # "table"
  <2> DEFINE m == DefaultManifest(Head(prefix))
  <2>1. prefix # <<>> /\ ManifestOf(disk, prefix) = [kind |-> "manifest", manifest |-> m]
    BY <1>2 DEF ManifestOf
  <2>2. ManifestOf(disk, prefix).manifest = m
    BY <2>1
  <2>3. m = [k \in Fields |-> m[k]] /\ m["upload_prefix"] = Head(prefix)
    BY DEF DefaultManifest, Fields
  <2>4. \A k \in Fields : ReadsBack(m, k)
    BY DefaultReadsBack
  <2> HIDE DEF m
  <2> QED BY <2>1, <2>2, <2>3, <2>4 DEF WellRead
<1> QED BY <1>1, <1>2

\* What Site::load makes of a site it can load.
LEMMA LoadedSite ==
  ASSUME NEW disk, NEW prefix, LoadSite(disk, prefix) # Err
  PROVE  LET read  == ManifestOf(disk, prefix)
             m     == read.manifest
             named == DefinitionsName(m, disk)
             defs  == ReadDefinitions(At(disk, named), Editing(m.editor_types))
         IN  /\ read # Err /\ Exists(disk, named) /\ defs # Err
             /\ Range(m.archival_version) \subseteq Compatible
             /\ LoadSite(disk, prefix).manifest = [m EXCEPT !.object_file = named]
             /\ LoadSite(disk, prefix).defs = defs.defs
BY DEF LoadSite, SiteOf

LEMMA SiteLoads ==
  ASSUME NEW disk, NEW prefix, NEW m, ManifestOf(disk, prefix) = [kind |-> "manifest", manifest |-> m],
         Range(m.archival_version) \subseteq Compatible,
         Exists(disk, DefinitionsName(m, disk)),
         ReadDefinitions(At(disk, DefinitionsName(m, disk)), Editing(m.editor_types)) # Err
  PROVE  LoadSite(disk, prefix) # Err
<1> DEFINE named == DefinitionsName(m, disk)
           defs  == ReadDefinitions(At(disk, named), Editing(m.editor_types))
<1>1. ManifestOf(disk, prefix) # Err /\ ManifestOf(disk, prefix).manifest = m
  BY ErrIsNoRecord
<1> HIDE DEF defs
<1>2. LoadSite(disk, prefix) = [kind |-> "site", manifest |-> [m EXCEPT !.object_file = named], defs |-> defs.defs]
  BY <1>1, Zenon DEF LoadSite, SiteOf, defs
<1> QED BY <1>2, ErrIsNoRecord

-----------------------------------------------------------------------------
(* Names of definitions, and what a manifest means.                          *)

Kept(m, disk) == Meant([m EXCEPT !.object_file = DefinitionsName(m, disk)])

LEMMA ResolvedNameStays ==
  ASSUME NEW disk, NEW m, NEW n, n.object_file = DefinitionsName(m, disk)
  PROVE  DefinitionsName(n, disk) = n.object_file
BY DEF DefinitionsName

\* Leaving out the legacy name is harmless where it is the one found.
LEMMA WrittenNameResolves ==
  ASSUME NEW disk, NEW m, ~(m.object_file = LegacyDefinitions /\ Exists(disk, Definitions)),
         m.object_file = LegacyDefinitions => Exists(disk, LegacyDefinitions)
  PROVE  DefinitionsName(AsWritten(m), disk) = DefinitionsName(m, disk)
<1>1. AsWritten(m).object_file = IF m.object_file = LegacyDefinitions THEN Definitions ELSE m.object_file
  BY SaysNothingWhere, KindsOfField DEF AsWritten, TextFields, PathFields
<1> HIDE DEF AsWritten
<1> QED BY <1>1, FourNames DEF DefinitionsName

\* A manifest and what is written of it mean the same, its definitions aside.
LEMMA WrittenMeansTheSame ==
  ASSUME NEW m, WellRead(m), NEW k \in Fields, k # "object_file"
  PROVE  Meant(AsWritten(m))[k] = Meant(m)[k]
<1> DEFINE n == AsWritten(m)
<1>1. DOMAIN n = Fields /\ DOMAIN m = Fields
  BY DEF AsWritten, WellRead
<1>2. Meant(n)[k] = (IF SaysNothing(n, k) THEN <<>> ELSE n[k])
      /\ Meant(m)[k] = (IF SaysNothing(m, k) THEN <<>> ELSE m[k])
  BY <1>1 DEF Meant
<1>3. CASE SaysNothing(m, k)
  <2>1. n[k] = <<>>
    BY <1>3 DEF AsWritten
  <2> HIDE DEF n
  <2> QED BY <1>2, <1>3, <2>1 DEF n
<1>4. CASE ~SaysNothing(m, k)
  <2>1. n[k] = m[k]
    BY <1>4 DEF AsWritten
  <2>2. ~SaysNothing(n, k)
    BY <1>4, <2>1, SameField
  <2> HIDE DEF n
  <2> QED BY <1>2, <1>4, <2>1, <2>2 DEF n
<1> QED BY <1>3, <1>4

LEMMA MeantWithAName ==
  ASSUME NEW m, m = [k \in Fields |-> m[k]], NEW name
  PROVE  LET n == [m EXCEPT !.object_file = name]
         IN  /\ n = [k \in Fields |-> n[k]] /\ n.object_file = name
             /\ \A k \in Fields \ {"object_file"} : n[k] = m[k]
             /\ Meant(n) = [k \in Fields |-> IF k = "object_file" THEN name ELSE Meant(m)[k]]
<1> DEFINE n == [m EXCEPT !.object_file = name]
<1>1. /\ n = [k \in Fields |-> n[k]] /\ n.object_file = name
      /\ \A k \in Fields \ {"object_file"} : n[k] = m[k]
  BY KindsOfField DEF PathFields
<1> HIDE DEF n
<1>2. DOMAIN m = Fields /\ DOMAIN n = Fields
  BY <1>1
<1>3. \A k \in Fields \ {"object_file"} : Meant(n)[k] = Meant(m)[k]
  BY <1>1, <1>2, SameField DEF Meant
<1>4. Meant(n)["object_file"] = name
  <2>1. ~SaysNothing(n, "object_file") /\ "object_file" \in Fields
    BY SaysNothingWhere, KindsOfField DEF TextFields, PathFields
  <2> QED BY <1>1, <1>2, <2>1 DEF Meant
<1>5. Meant(n) = [k \in Fields |-> Meant(n)[k]]
  BY <1>2 DEF Meant
<1>6. Meant(n) = [k \in Fields |-> IF k = "object_file" THEN name ELSE Meant(m)[k]]
  BY <1>3, <1>4, <1>5
<1> QED BY <1>1, <1>6 DEF n

LEMMA MeantOfNamed ==
  \A x, name : x = [k \in Fields |-> x[k]] =>
    Meant([x EXCEPT !.object_file = name]) = [k \in Fields |-> IF k = "object_file" THEN name ELSE Meant(x)[k]]
<1> TAKE x, name
<1> HAVE x = [k \in Fields |-> x[k]]
<1> QED BY MeantWithAName

LEMMA KeptIs ==
  ASSUME NEW x, x = [k \in Fields |-> x[k]], NEW disk
  PROVE  Kept(x, disk) =
           [k \in Fields |-> IF k = "object_file" THEN DefinitionsName(x, disk) ELSE Meant(x)[k]]
BY MeantOfNamed DEF Kept

LEMMA RenamedIsWellRead ==
  ASSUME NEW m, WellRead(m), NEW name
  PROVE  LET n == [m EXCEPT !.object_file = name]
         IN  /\ WellRead(n) /\ n.upload_prefix = m.upload_prefix
             /\ n.archival_version = m.archival_version /\ n.editor_types = m.editor_types
             /\ BuildDirIsApart(n) <=> BuildDirIsApart(m)
             /\ ScriptsStayInside(n) <=> ScriptsStayInside(m)
<1> DEFINE n == [m EXCEPT !.object_file = name]
<1>1. /\ n = [k \in Fields |-> n[k]]
      /\ \A k \in Fields \ {"object_file"} : n[k] = m[k]
  BY MeantWithAName DEF WellRead
<1> HIDE DEF n
<1>2. /\ n["objects"] = m["objects"] /\ n["pages"] = m["pages"] /\ n["layout_dir"] = m["layout_dir"]
      /\ n["static_dir"] = m["static_dir"] /\ n["scripts_dir"] = m["scripts_dir"]
      /\ n["build_dir"] = m["build_dir"] /\ n["scripts_build_dir"] = m["scripts_build_dir"]
      /\ n["upload_prefix"] = m["upload_prefix"] /\ n["archival_version"] = m["archival_version"]
      /\ n["editor_types"] = m["editor_types"]
  BY <1>1, KindsOfField DEF PathFields, DirFields, TextFields
<1>3. ASSUME NEW k \in Fields PROVE ReadsBack(n, k)
  <2>1. CASE k = "object_file"
    BY <2>1, TextReadsBack DEF Texts, PathFields
  <2>2. CASE k # "object_file"
    <3>1. n[k] = m[k]
      BY <1>1, <2>2
    <3> QED BY <3>1, SameField DEF WellRead
  <2> QED BY <2>1, <2>2
<1>4. BuildDirIsApart(n) <=> BuildDirIsApart(m)
  BY <1>2 DEF BuildDirIsApart, Sources
<1>5. ScriptsStayInside(n) <=> ScriptsStayInside(m)
  BY <1>2 DEF ScriptsStayInside
<1> QED BY <1>1, <1>2, <1>3, <1>4, <1>5 DEF WellRead, n

\* An empty version is no version.
LEMMA WrittenVersion ==
  ASSUME NEW m, Range(m.archival_version) \subseteq Compatible
  PROVE  Range(AsWritten(m).archival_version) \subseteq Compatible
<1>1. AsWritten(m).archival_version \in {<<>>, m.archival_version}
  BY KindsOfField DEF AsWritten, TextFields
<1>2. Range(<<>>) = {}
  BY DEF Range
<1> QED BY <1>1, <1>2

LEMMA WellReadTexts ==
  ASSUME NEW m, WellRead(m), NEW k \in TextFields \cup {"scripts_dir"}
  PROVE  Len(m[k]) \in {0, 1}
<1> DEFINE d == FieldDoc(m, k)
           default == DefaultManifest("")
<1>1. k \in Fields /\ k \notin {"metadata", "object_file"}
  BY KindsOfField DEF TextFields
<1>2. CASE ~IsDefault(m, k)
  <2>1. m[k] = ReadField(k, d)
    BY <1>1, <1>2 DEF WellRead, ReadsBack
  <2>2. ReadField(k, d) = IF d.doc = "string" THEN <<d.text>> ELSE <<>>
    BY DEF ReadField, TextFields
  <2> HIDE DEF d
  <2> QED BY <2>1, <2>2, OnePart
<1>3. CASE IsDefault(m, k)
  <2>1. m[k] = default[k] \/ m[k] = <<"">>
    BY <1>1, <1>3 DEF IsDefault, SaysNothing
  <2>2. /\ default["archival_version"] = <<>> /\ default["uploads_url"] = <<>>
        /\ default["site_url"] = <<>> /\ default["site_name"] = <<>>
        /\ default["scripts_dir"] = <<"scripts">>
    BY DEF DefaultManifest
  <2>3. default[k] = <<>> \/ default[k] = <<"scripts">>
    BY <2>2, Zenon DEF TextFields
  <2>4. m[k] = <<>> \/ \E x : m[k] = <<x>>
    BY <2>1, <2>3, Zenon
  <2>5. Len(<<>>) = 0 /\ \A x : Len(<<x>>) = 1
    OBVIOUS
  <2> QED BY <2>4, <2>5, Zenon
<1> QED BY <1>2, <1>3

\* What is written over a manifest is read back as it was meant.
LEMMA ReadBackAfterWriting ==
  ASSUME NEW disk, DOMAIN disk = DOMAIN Written, NEW m, WellRead(m),
         NEW prefix, prefix # <<>> => m["upload_prefix"] = Head(prefix),
         ~(m.object_file = LegacyDefinitions /\ Exists(WriteManifest(m, disk), Definitions))
  PROVE  LET after == WriteManifest(m, disk)
             again == LoadSite(after, prefix)
         IN  /\ BuildDirIsApart(m) /\ ScriptsStayInside(m) => ManifestOf(after, prefix) # Err
             /\ again # Err => Kept(again.manifest, after) = Kept(m, after)
<1> DEFINE after == WriteManifest(m, disk)
           n     == AsWritten(m)
           named == DefinitionsName(n, after)
           again == LoadSite(after, prefix).manifest
<1>1. ManifestOf(after, prefix) # Err =>
        ManifestOf(after, prefix) = [kind |-> "manifest", manifest |-> n]
  BY ManifestAfterWriting
<1>2. BuildDirIsApart(m) /\ ScriptsStayInside(m) => ManifestOf(after, prefix) # Err
  BY ManifestAfterWriting, ErrIsNoRecord
<1>3. ASSUME LoadSite(after, prefix) # Err
      PROVE  Kept(again, after) = Kept(m, after)
  <2>1. /\ ManifestOf(after, prefix).manifest = n /\ Exists(after, named)
        /\ again = [n EXCEPT !.object_file = named]
    <3>1. ManifestOf(after, prefix) = [kind |-> "manifest", manifest |-> n]
      BY <1>1, <1>3, LoadedSite
    <3> HIDE DEF n, after
    <3>2. ManifestOf(after, prefix).manifest = n
      BY <3>1
    <3> USE DEF named, again
    <3> QED BY <1>3, <3>2, LoadedSite
  <2>2. n = [k \in Fields |-> n[k]] /\ m = [k \in Fields |-> m[k]]
    BY DEF AsWritten, WellRead
  <2>3. n.object_file = IF m.object_file = LegacyDefinitions THEN Definitions ELSE m.object_file
    BY SaysNothingWhere, KindsOfField DEF AsWritten, TextFields, PathFields
  <2>4. \A k \in Fields \ {"object_file"} : Meant(n)[k] = Meant(m)[k]
    BY WrittenMeansTheSame
  <2> HIDE DEF n, after
  <2>5. m.object_file = LegacyDefinitions => Exists(after, LegacyDefinitions)
    BY <2>1, <2>3, FourNames DEF DefinitionsName, after
  <2>6. named = DefinitionsName(m, after)
    BY <2>5, WrittenNameResolves DEF n, after
  <2> HIDE DEF named, again
  <2>7. again = [k \in Fields |-> again[k]] /\ again.object_file = named
    BY <2>1, <2>2, MeantWithAName
  <2>8. DefinitionsName(again, after) = named
    BY <2>7, ResolvedNameStays DEF named
  <2>9. Meant(again) = [k \in Fields |-> IF k = "object_file" THEN named ELSE Meant(n)[k]]
    <3>1. Meant([n EXCEPT !.object_file = named])
            = [k \in Fields |-> IF k = "object_file" THEN named ELSE Meant(n)[k]]
      <4>1. n = [k \in Fields |-> n[k]]
        BY <2>2
      <4> QED BY <4>1, MeantOfNamed
    <3> QED BY <2>1, <3>1
  <2>10. Kept(again, after) = [k \in Fields |-> IF k = "object_file" THEN named ELSE Meant(again)[k]]
    BY <2>7, <2>8, KeptIs
  <2>11. Kept(m, after) = [k \in Fields |-> IF k = "object_file" THEN named ELSE Meant(m)[k]]
    BY <2>2, <2>6, KeptIs
  <2> QED BY <2>4, <2>9, <2>10, <2>11
<1> QED BY <1>2, <1>3

\* A prefix given by a host changes nothing else of a manifest.
LEMMA PrefixChangesItself ==
  ASSUME NEW disk, NEW prefix, ManifestOf(disk, prefix) # Err, ManifestOf(disk, <<>>) # Err,
         NEW k \in Fields, k # "upload_prefix"
  PROVE  ManifestOf(disk, prefix).manifest[k] = ManifestOf(disk, <<>>).manifest[k]
<1> DEFINE d == At(disk, ManifestName(disk))
           entries == d.entries
<1>1. /\ ManifestOf(disk, prefix) = ManifestFrom(entries, prefix)
      /\ ManifestOf(disk, <<>>) = ManifestFrom(entries, <<>>)
  BY DEF ManifestOf
<1> HIDE DEF d, entries
<1>2. ASSUME NEW given, ManifestFrom(entries, given) # Err
      PROVE  ManifestFrom(entries, given).manifest[k] =
               IF k \in DOMAIN entries THEN ReadField(k, entries[k]) ELSE DefaultManifest("")[k]
  <2> DEFINE default == DefaultManifest(IF given = <<>> THEN "" ELSE Head(given))
             set == (DOMAIN entries \cap DOMAIN default) \ (IF given = <<>> THEN {} ELSE {"upload_prefix"})
             m == [j \in DOMAIN default |-> IF j \in set THEN ReadField(j, entries[j]) ELSE default[j]]
  <2>1. ManifestFrom(entries, given).manifest = m
    <3> HIDE DEF default
    <3> QED BY <1>2, Zenon DEF ManifestFrom, default
  <2>2. DOMAIN default = Fields /\ default[k] = DefaultManifest("")[k]
    BY KindsOfField, DefaultsOfFields
  <2> HIDE DEF default
  <2>3. k \in set <=> k \in DOMAIN entries
    BY <2>2
  <2> QED BY <2>1, <2>2, <2>3
<1> QED BY <1>1, <1>2

\* What a host has just opened is what it would write.
LEMMA OnDiskAfterOpening ==
  ASSUME NEW disk, NEW prefix, LoadSite(disk, prefix) # Err, ManifestOf(disk, <<>>) # Err,
         NEW k \in Fields, prefix # <<>> => k # "upload_prefix",
         LoadSite(disk, prefix).manifest.object_file = LegacyDefinitions /\ Exists(disk, Definitions)
           => k # "object_file"
  PROVE  Means(ManifestOf(disk, <<>>).manifest, k, disk)
           = Means(AsWritten(LoadSite(disk, prefix).manifest), k, disk)
<1> DEFINE s == LoadSite(disk, prefix).manifest
           r == ManifestOf(disk, <<>>).manifest
           m == ManifestOf(disk, prefix).manifest
           named == DefinitionsName(m, disk)
<1>1. /\ ManifestOf(disk, prefix) # Err /\ Exists(disk, named)
      /\ s = [m EXCEPT !.object_file = named]
  BY LoadedSite
<1>2. WellRead(m) /\ WellRead(r)
  BY <1>1, LoadedManifestIsWellRead
<1>3. \A j \in Fields \ {"upload_prefix"} : m[j] = r[j]
  BY <1>1, PrefixChangesItself
<1>4. prefix = <<>> => m = r
  OBVIOUS
<1> HIDE DEF s, r, m
<1>5. WellRead(s)
  BY <1>1, <1>2, RenamedIsWellRead
<1>6. s.object_file = named /\ \A j \in Fields \ {"object_file"} : s[j] = m[j]
  BY <1>1, <1>2, MeantWithAName DEF WellRead
<1>7. CASE k # "object_file"
  <2>1. s[k] = r[k]
    BY <1>3, <1>4, <1>6, <1>7
  <2>2. DOMAIN s = Fields /\ DOMAIN r = Fields
    BY <1>2, <1>5 DEF WellRead
  <2>3. Meant(s)[k] = Meant(r)[k]
    BY <2>1, <2>2, SameField DEF Meant
  <2>4. Meant(AsWritten(s))[k] = Meant(s)[k]
    BY <1>5, <1>7, WrittenMeansTheSame
  <2>5. Means(r, k, disk) = Meant(r)[k] /\ Means(AsWritten(s), k, disk) = Meant(AsWritten(s))[k]
    BY <1>7 DEF Means
  <2> QED BY <2>3, <2>4, <2>5 DEF s, r
<1>8. CASE k = "object_file"
  <2>1. m.object_file = r.object_file
    BY <1>3, KindsOfField DEF PathFields
  <2>2. DefinitionsName(r, disk) = named
    BY <2>1 DEF DefinitionsName
  <2>3. DefinitionsName(s, disk) = named
    BY <1>6, ResolvedNameStays
  <2>4. /\ ~(s.object_file = LegacyDefinitions /\ Exists(disk, Definitions))
        /\ s.object_file = LegacyDefinitions => Exists(disk, LegacyDefinitions)
    BY <1>1, <1>6, <1>8 DEF s
  <2>5. DefinitionsName(AsWritten(s), disk) = named
    BY <2>3, <2>4, WrittenNameResolves
  <2>6. Means(r, k, disk) = DefinitionsName(r, disk)
        /\ Means(AsWritten(s), k, disk) = DefinitionsName(AsWritten(s), disk)
    BY <1>8 DEF Means
  <2> QED BY <2>2, <2>5, <2>6 DEF s, r
<1> QED BY <1>7, <1>8

-----------------------------------------------------------------------------
(* The invariant.                                                            *)

\* What a host holds was read or set: it can be written and read back.
Held ==
    site # Closed =>
        /\ site = [kind |-> "open", prefix |-> site.prefix, manifest |-> site.manifest, defs |-> site.defs]
        /\ WellRead(site.manifest)
        /\ site.prefix # <<>> => site.manifest["upload_prefix"] = Head(site.prefix)

\* As long as nobody else writes, the file says what would be written.
OnDisk ==
    site # Closed /\ current =>
        LET read == ManifestOf(files, <<>>)
        IN  read # Err => \A k \in Fields \ Leaks :
                            Means(read.manifest, k, files) = Means(AsWritten(site.manifest), k, files)

IInv == TypeOK /\ ManifestIsReadBack /\ Held /\ OnDisk

LEMMA InitIsFine == Init => IInv
<1> SUFFICES ASSUME Init PROVE IInv
  OBVIOUS
<1>1. site = Closed /\ NoFile.doc \in Docs
  BY DEF Init, NoFile, Docs
<1>2. /\ DOMAIN files = DOMAIN Written /\ \A f \in DOMAIN files : files[f] = NoFile
      /\ \A o \in DOMAIN objects : objects[o] = NoFile
      /\ current \in BOOLEAN
  BY DEF Init
<1>3. steps \in 0 .. MaxSteps
  BY SiteFilesAssumption DEF Init
<1> QED BY <1>1, <1>2, <1>3 DEF IInv, TypeOK, ManifestIsReadBack, Held, OnDisk

LEMMA WriteFileKeeps ==
  ASSUME IInv, NEW f \in DOMAIN Written, NEW d \in Written[f], WriteFile(f, d)
  PROVE  IInv'
<1>1. /\ files' = [files EXCEPT ![f] = d] /\ objects' = objects /\ site' = site
      /\ current' = FALSE /\ steps' \in 0 .. MaxSteps
  BY SiteFilesAssumption DEF WriteFile, Step, IInv, TypeOK
<1>2. DOMAIN files' = DOMAIN Written /\ \A g \in DOMAIN files' : files'[g].doc \in Docs
  BY <1>1, SiteFilesAssumption DEF IInv, TypeOK
<1>3. TypeOK'
  BY <1>1, <1>2 DEF IInv, TypeOK
<1>4. Held'
  BY <1>1 DEF IInv, Held
<1> QED BY <1>1, <1>3, <1>4 DEF IInv, ManifestIsReadBack, OnDisk

LEMMA WriteObjectKeeps ==
  ASSUME IInv, NEW o \in DOMAIN ObjectDocs, NEW d \in ObjectDocs[o], WriteObject(o, d)
  PROVE  IInv'
<1>1. /\ objects' = [objects EXCEPT ![o] = d] /\ files' = files /\ site' = site
      /\ current' = current /\ steps' \in 0 .. MaxSteps
  BY SiteFilesAssumption DEF WriteObject, Step, IInv, TypeOK
<1>2. \A p \in DOMAIN objects' : objects'[p].doc \in Docs
  BY <1>1, SiteFilesAssumption DEF IInv, TypeOK
<1>3. TypeOK'
  BY <1>1, <1>2 DEF IInv, TypeOK
<1>4. Held'
  BY <1>1 DEF IInv, Held
<1>5. ManifestIsReadBack'
  BY <1>1 DEF IInv, ManifestIsReadBack, Unnamed
<1>6. OnDisk'
  BY <1>1 DEF IInv, OnDisk, Leaks, Unnamed
<1> QED BY <1>3, <1>4, <1>5, <1>6 DEF IInv

LEMMA OpenKeeps ==
  ASSUME IInv, NEW prefix \in Overrides, Open(prefix)
  PROVE  IInv'
<1> DEFINE read == LoadSite(files, prefix)
           s    == read.manifest
           m    == ManifestOf(files, prefix).manifest
<1>1. /\ read # Err /\ files' = files /\ objects' = objects
      /\ site' = [kind |-> "open", prefix |-> prefix, manifest |-> s, defs |-> read.defs]
      /\ current' = TRUE /\ steps' \in 0 .. MaxSteps
  BY SiteFilesAssumption DEF Open, Step, IInv, TypeOK
<1>2. /\ ManifestOf(files, prefix) # Err
      /\ s = [m EXCEPT !.object_file = DefinitionsName(m, files)]
  BY <1>1, LoadedSite
<1>3. WellRead(m) /\ (prefix # <<>> => m["upload_prefix"] = Head(prefix))
  BY <1>2, LoadedManifestIsWellRead
<1>4. WellRead(s) /\ (prefix # <<>> => s["upload_prefix"] = Head(prefix))
  <2> HIDE DEF s, m
  <2> QED BY <1>2, <1>3, RenamedIsWellRead
<1> HIDE DEF read, m
<1>5. /\ site'.prefix = prefix /\ site'.manifest = s
      /\ site' = [kind |-> "open", prefix |-> site'.prefix, manifest |-> site'.manifest, defs |-> site'.defs]
  BY <1>1
<1>6. Held'
  <2> HIDE DEF s
  <2> QED BY <1>4, <1>5 DEF Held
<1>7. TypeOK'
  <2>1. \A k \in TextFields \cup {"scripts_dir"} : Len(site'.manifest[k]) \in {0, 1}
    BY <1>4, <1>5, WellReadTexts
  <2> QED BY <1>1, <2>1 DEF IInv, TypeOK
<1>8. ManifestIsReadBack'
  BY <1>1, <1>2, <1>5 DEF ManifestIsReadBack, read
<1>9. OnDisk'
  <2> SUFFICES ASSUME ManifestOf(files, <<>>) # Err, NEW k \in Fields \ Leaks'
               PROVE  Means(ManifestOf(files, <<>>).manifest, k, files) = Means(AsWritten(s), k, files)
    BY <1>1, <1>5 DEF OnDisk
  <2>1. prefix # <<>> => k # "upload_prefix"
    BY <1>5 DEF Leaks
  <2>2. s.object_file = LegacyDefinitions /\ Exists(files, Definitions) => k # "object_file"
    BY <1>1, <1>5 DEF Leaks, Unnamed
  <2> QED BY <1>1, <2>1, <2>2, OnDiskAfterOpening DEF read
<1> QED BY <1>6, <1>7, <1>8, <1>9 DEF IInv

LEMMA ModifyKeeps ==
  ASSUME IInv, NEW k \in DOMAIN Settings, NEW text \in Settings[k], Modify(k, text)
  PROVE  IInv'
<1> DEFINE n == SetField(site.manifest, k, text)
<1>1. /\ site # Closed /\ site' = [site EXCEPT !.manifest = n]
      /\ files' = WriteManifest(n, files)
      /\ objects' = objects /\ current' = current /\ steps' \in 0 .. MaxSteps
  BY SiteFilesAssumption DEF Modify, Step, IInv, TypeOK
<1>2. /\ site = [kind |-> "open", prefix |-> site.prefix, manifest |-> site.manifest, defs |-> site.defs]
      /\ WellRead(site.manifest)
      /\ site.prefix # <<>> => site.manifest["upload_prefix"] = Head(site.prefix)
      /\ DOMAIN files = DOMAIN Written
  BY <1>1 DEF IInv, Held, TypeOK
<1>3. k \in Settable
  BY SiteFilesAssumption
<1>4. WellRead(n) /\ n["upload_prefix"] = site.manifest["upload_prefix"]
  BY <1>2, <1>3, SetFieldIsWellRead
<1> HIDE DEF n
<1>5. /\ site'.prefix = site.prefix /\ site'.manifest = n
      /\ site' = [kind |-> "open", prefix |-> site'.prefix, manifest |-> site'.manifest, defs |-> site'.defs]
  BY <1>1, <1>2
<1>6. Held'
  BY <1>2, <1>4, <1>5 DEF Held
<1>7. TypeOK'
  <2>1. \A j \in TextFields \cup {"scripts_dir"} : Len(site'.manifest[j]) \in {0, 1}
    BY <1>4, <1>5, WellReadTexts
  <2>2. /\ DOMAIN files' = DOMAIN Written
        /\ \A f \in DOMAIN files' : files'[f] = files[f] \/ files'[f].doc = "table"
    BY <1>1, <1>2, WritingKeepsTheNames
  <2>3. \A f \in DOMAIN files' : files'[f].doc \in Docs
    BY <1>2, <2>2 DEF IInv, TypeOK, Docs
  <2> QED BY <1>1, <2>1, <2>2, <2>3 DEF IInv, TypeOK
<1>8. ManifestIsReadBack'
  <2> SUFFICES ASSUME ~(n.object_file = LegacyDefinitions /\ Exists(files', Definitions))
               PROVE  /\ BuildDirIsApart(n) /\ ScriptsStayInside(n) => ManifestOf(files', site.prefix) # Err
                      /\ LoadSite(files', site.prefix) # Err =>
                           Kept(LoadSite(files', site.prefix).manifest, files') = Kept(n, files')
    BY <1>5 DEF ManifestIsReadBack, Unnamed, Kept
  <2> QED BY <1>1, <1>2, <1>4, ReadBackAfterWriting
<1>9. OnDisk'
  <2>1. ManifestOf(files', <<>>) =
          IF BuildDirIsApart(n) /\ ScriptsStayInside(n)
          THEN [kind |-> "manifest", manifest |-> AsWritten(n)] ELSE Err
    BY <1>1, <1>2, <1>4, ManifestAfterWriting
  <2>2. ManifestOf(files', <<>>) # Err => ManifestOf(files', <<>>).manifest = AsWritten(n)
    BY <2>1
  <2> QED BY <1>5, <2>2 DEF OnDisk
<1> QED BY <1>6, <1>7, <1>8, <1>9 DEF IInv

LEMMA FormatKeeps ==
  ASSUME IInv, Format
  PROVE  IInv'
<1> DEFINE read == LoadSite(files, <<>>)
<1>1. /\ files' = WriteManifest(read.manifest, files) /\ site' = site
      /\ current' = FALSE /\ steps' \in 0 .. MaxSteps
  BY SiteFilesAssumption DEF Format, Step, IInv, TypeOK
<1>2. \A o \in DOMAIN objects' : objects'[o].doc \in Docs
  BY DEF Format, IInv, TypeOK, Docs
<1>3. /\ DOMAIN files' = DOMAIN Written
      /\ \A f \in DOMAIN files' : files'[f] = files[f] \/ files'[f].doc = "table"
  BY <1>1, WritingKeepsTheNames DEF IInv, TypeOK
<1>4. \A f \in DOMAIN files' : files'[f].doc \in Docs
  BY <1>3 DEF IInv, TypeOK, Docs
<1>5. TypeOK'
  BY <1>1, <1>2, <1>3, <1>4 DEF IInv, TypeOK
<1>6. Held'
  BY <1>1 DEF IInv, Held
<1> QED BY <1>1, <1>5, <1>6 DEF IInv, ManifestIsReadBack, OnDisk

LEMMA NextKeeps == IInv /\ [Next]_vars => IInv'
<1> SUFFICES ASSUME IInv, [Next]_vars PROVE IInv'
  OBVIOUS
<1>1. CASE \E f \in DOMAIN Written : \E d \in Written[f] : WriteFile(f, d)
  BY <1>1, WriteFileKeeps
<1>2. CASE \E o \in DOMAIN ObjectDocs : \E d \in ObjectDocs[o] : WriteObject(o, d)
  BY <1>2, WriteObjectKeeps
<1>3. CASE \E prefix \in Overrides : Open(prefix)
  BY <1>3, OpenKeeps
<1>4. CASE \E k \in DOMAIN Settings : \E text \in Settings[k] : Modify(k, text)
  BY <1>4, ModifyKeeps
<1>5. CASE Format
  BY <1>5, FormatKeeps
<1>6. CASE UNCHANGED vars
  BY <1>6 DEF vars, IInv, TypeOK, ManifestIsReadBack, Unnamed, Held, OnDisk, Leaks
<1> QED BY <1>1, <1>2, <1>3, <1>4, <1>5, <1>6 DEF Next

\* However a site is opened and modified, its manifest survives its own file:
\* Manifest::to_toml leaves out only what Manifest::from_string puts back.
THEOREM ManifestAlwaysSurvives == Spec => []ManifestSurvives
<1>1. IInv => ManifestSurvives
  BY DEF IInv, ManifestSurvives
<1> QED BY InitIsFine, NextKeeps, <1>1, PTL DEF Spec

-----------------------------------------------------------------------------
(* Rewriting.                                                                *)

LEMMA OnlyTheFieldIsWritten == IInv => OnlyTheFieldChanges
<1> SUFFICES ASSUME IInv, NEW k \in DOMAIN Settings, NEW text \in Settings[k], Modify(k, text), current,
                    ManifestOf(files, <<>>) # Err, ManifestOf(files', <<>>) # Err,
                    NEW other \in DOMAIN site.manifest \ ({k} \cup Leaks)
             PROVE  Means(ManifestOf(files', <<>>).manifest, other, files')
                      = Means(ManifestOf(files, <<>>).manifest, other, files)
  BY DEF OnlyTheFieldChanges
<1> DEFINE m == site.manifest
           n == SetField(m, k, text)
<1>1. /\ site # Closed /\ files' = WriteManifest(n, files)
      /\ WellRead(m) /\ DOMAIN files = DOMAIN Written
  BY DEF Modify, IInv, Held, TypeOK
<1>2. other \in Fields \ Leaks /\ other # k
  BY <1>1 DEF WellRead
<1>3. WellRead(n) /\ n[other] = m[other]
  BY <1>1, <1>2, SiteFilesAssumption, SetFieldIsWellRead
<1> HIDE DEF n
<1>4. Means(ManifestOf(files, <<>>).manifest, other, files) = Means(AsWritten(m), other, files)
  BY <1>1, <1>2 DEF IInv, OnDisk
<1>5. ManifestOf(files', <<>>).manifest = AsWritten(n)
  <2>1. ManifestOf(files', <<>>) = [kind |-> "manifest", manifest |-> AsWritten(n)]
    BY <1>1, <1>3, ManifestAfterWriting
  <2> QED BY <2>1
<1>6. AsWritten(n)[other] = AsWritten(m)[other]
  BY <1>2, <1>3, SameField DEF AsWritten
<1>7. CASE other = "object_file"
  <2>1. DefinitionsName(AsWritten(n), files') = DefinitionsName(AsWritten(n), files)
    BY <1>1, WritingKeepsTheDefinitions
  <2>2. DefinitionsName(AsWritten(n), files) = DefinitionsName(AsWritten(m), files)
    BY <1>6, <1>7 DEF DefinitionsName
  <2> QED BY <1>4, <1>5, <1>7, <2>1, <2>2 DEF Means
<1>8. CASE other # "object_file"
  <2>1. DOMAIN AsWritten(n) = Fields /\ DOMAIN AsWritten(m) = Fields
    BY DEF AsWritten
  <2>2. Meant(AsWritten(n))[other] = Meant(AsWritten(m))[other]
    BY <1>2, <1>6, <2>1, SameField DEF Meant
  <2> QED BY <1>4, <1>5, <1>8, <2>2 DEF Means
<1> QED BY <1>7, <1>8

\* What is loaded over a manifest that was loaded and written back.
LEMMA FormattedSiteLoads ==
  ASSUME NEW disk, DOMAIN disk = DOMAIN Written, LoadSite(disk, <<>>) # Err,
         LET s == LoadSite(disk, <<>>).manifest
         IN  Apart(s) /\ ~(s.object_file = LegacyDefinitions /\ Exists(disk, Definitions))
  PROVE  LET before == LoadSite(disk, <<>>)
             after  == LoadSite(WriteManifest(before.manifest, disk), <<>>)
         IN  /\ after # Err /\ after.defs = before.defs
             /\ Meant(after.manifest) = Meant(before.manifest)
<1> DEFINE before == LoadSite(disk, <<>>)
           m     == ManifestOf(disk, <<>>).manifest
           named == DefinitionsName(m, disk)
           s     == before.manifest
           disk2 == WriteManifest(s, disk)
           after == LoadSite(disk2, <<>>)
           n     == AsWritten(s)
           defs  == ReadDefinitions(At(disk, named), Editing(m.editor_types))
<1>1. /\ ManifestOf(disk, <<>>) # Err /\ Exists(disk, named) /\ defs # Err
      /\ Range(m.archival_version) \subseteq Compatible
      /\ s = [m EXCEPT !.object_file = named] /\ before.defs = defs.defs
  BY LoadedSite
<1>2. WellRead(m) /\ BuildDirIsApart(m) /\ ScriptsStayInside(m)
  BY <1>1, LoadedManifestIsWellRead
<1>3. Apart(s) /\ ~(s.object_file = LegacyDefinitions /\ Exists(disk, Definitions))
  OBVIOUS
<1> HIDE DEF before, m, s
<1>4. /\ WellRead(s) /\ BuildDirIsApart(s) /\ ScriptsStayInside(s)
      /\ s.archival_version = m.archival_version /\ s.editor_types = m.editor_types
  BY <1>1, <1>2, RenamedIsWellRead
<1>5. s.object_file = named
  BY <1>1, <1>2, MeantWithAName DEF WellRead
<1>6. /\ ManifestOf(disk2, <<>>) = [kind |-> "manifest", manifest |-> n]
      /\ ManifestOf(disk2, <<>>).manifest = n
  <2>1. ManifestOf(disk2, <<>>) = [kind |-> "manifest", manifest |-> n]
    BY <1>4, ManifestAfterWriting
  <2> HIDE DEF n, disk2
  <2> QED BY <2>1
<1>7. DefinitionsName(n, disk2) = named
  <2>1. DefinitionsName(n, disk2) = DefinitionsName(n, disk)
    BY WritingKeepsTheDefinitions
  <2>2. DefinitionsName(n, disk) = DefinitionsName(s, disk)
    BY <1>1, <1>3, <1>5, WrittenNameResolves
  <2>3. DefinitionsName(s, disk) = named
    BY <1>5, ResolvedNameStays
  <2> QED BY <2>1, <2>2, <2>3
<1>8. At(disk2, named) = At(disk, named)
  BY <1>3, <1>5, WritingKeepsTheNames DEF Apart
<1>9. n.editor_types = m.editor_types /\ Range(n.archival_version) \subseteq Compatible
  BY <1>1, <1>4, AsWrittenKeepsTheRest, WrittenVersion, KindsOfField DEF TextFields
<1>10. n = [k \in Fields |-> n[k]]
  BY DEF AsWritten
<1>11. \A k \in Fields \ {"object_file"} : Meant(n)[k] = Meant(s)[k]
  BY <1>4, WrittenMeansTheSame
<1> HIDE DEF disk2, n, named
<1>12. after # Err
  <2>1. Exists(disk2, DefinitionsName(n, disk2))
    BY <1>1, <1>7, <1>8 DEF Exists
  <2>2. ReadDefinitions(At(disk2, DefinitionsName(n, disk2)), Editing(n.editor_types)) # Err
    BY <1>1, <1>7, <1>8, <1>9
  <2> QED BY <1>6, <1>9, <2>1, <2>2, SiteLoads
<1>13. /\ after.manifest = [n EXCEPT !.object_file = named]
       /\ after.defs = ReadDefinitions(At(disk2, named), Editing(n.editor_types)).defs
  BY <1>6, <1>7, <1>12, LoadedSite
<1>14. after.defs = before.defs
  BY <1>1, <1>8, <1>9, <1>13
<1>15. Meant(after.manifest) = [k \in Fields |-> IF k = "object_file" THEN named ELSE Meant(n)[k]]
  <2>1. Meant([n EXCEPT !.object_file = named])
          = [k \in Fields |-> IF k = "object_file" THEN named ELSE Meant(n)[k]]
    BY <1>10, MeantOfNamed, Zenon
  <2> QED BY <1>13, <2>1
<1>16. Meant(s) = [k \in Fields |-> IF k = "object_file" THEN named ELSE Meant(s)[k]]
  <2>1. DOMAIN s = Fields
    BY <1>4 DEF WellRead
  <2>2. ~SaysNothing(s, "object_file") /\ "object_file" \in Fields
    BY SaysNothingWhere, KindsOfField DEF TextFields, PathFields
  <2> QED BY <1>5, <2>1, <2>2 DEF Meant
<1>17. Meant(after.manifest) = Meant(s)
  BY <1>11, <1>15, <1>16
<1> QED BY <1>12, <1>14, <1>17 DEF before, s, disk2

LEMMA FormattingIsHarmless == TypeOK => FormattingKeepsTheSite
<1> SUFFICES ASSUME TypeOK, Format, ~Unnamed(LoadSite(files, <<>>).manifest),
                    Apart(LoadSite(files, <<>>).manifest)
             PROVE  LET before == LoadSite(files, <<>>)
                        after  == LoadSite(files', <<>>)
                    IN  /\ after # Err
                        /\ Meant(after.manifest) = Meant(before.manifest)
                        /\ after.defs = before.defs
  BY DEF FormattingKeepsTheSite
<1>1. LoadSite(files, <<>>) # Err /\ files' = WriteManifest(LoadSite(files, <<>>).manifest, files)
  BY DEF Format
<1>2. DOMAIN files = DOMAIN Written
  BY DEF TypeOK
<1> QED BY <1>1, <1>2, FormattedSiteLoads DEF Unnamed

\* What a host sets in a manifest changes that field alone, and formatting a
\* site changes nothing a load of it would notice.
THEOREM RewritesAlwaysKeepTheRest == Spec => RewritesKeepTheRest
<1>1. IInv => OnlyTheFieldChanges /\ FormattingKeepsTheSite
  BY OnlyTheFieldIsWritten, FormattingIsHarmless DEF IInv
<1> QED BY InitIsFine, NextKeeps, <1>1, PTL DEF Spec, RewritesKeepTheRest
=============================================================================
