---------------------------- MODULE ObjectEvents ----------------------------
(***************************************************************************)
(* The events of an Archival over its file system, one at a time: what each *)
(* does to the object files, through the paths it carries, and what the     *)
(* direct file operations of lib_fs.rs do beside them.  (Who runs when, and *)
(* the object cache, are ArchivalBuild's; what values are, ObjectRoutes'.)  *)
(* The file system is MemoryFs; with Native it is a real directory, whose   *)
(* directories stay when they are empty.                                    *)
(***************************************************************************)
EXTENDS MemoryFs, ValuePaths

CONSTANTS Definitions,  \* an object type |-> its definition
          Names,        \* what objects may be called
          Toml,         \* a name |-> the name of its file
          TextsSent,    \* the texts events carry
          BadText,      \* one of them, which no field admits
          Orders,       \* the orders they carry
          ValuePathsSent, ChildPathsSent, \* the paths events carry, to values and to lists
          Given,        \* the values new objects and children are given: <<>> or one
          FilesSent,    \* the files written, deleted and renamed directly
          FirstFiles,   \* the file systems to begin with, as contents by path
          MaxSteps,
          Native

ASSUME NativeAssumption == Native \in BOOLEAN

VARIABLES fs,           \* the file system
          made,         \* Native: the directories that were made
          exact,        \* no path so far stretched what paths as strings can bear
          poisoned,     \* a closure panicked under the file system's mutex
          last,         \* what was done last, for the properties to name
          steps

vars == <<fs, made, exact, poisoned, last, steps>>

Types == DOMAIN Definitions
Junk  == [contents |-> "junk"]
Doc(order, values) == [contents |-> "object", order |-> order, values |-> values]

ObjectDir(type) == <<"objects", type>>
RootPath(type)  == <<"objects", Toml[type]>>
FilePath(type, name) == <<"objects", type, Toml[name]>>
Stem(file) == CHOOSE name \in DOMAIN Toml : Toml[name] = file

IsDirectory(path) == IsDir(fs, path) \/ path \in made
FileExists(path)  == Exists(fs, path) \/ path \in made

-----------------------------------------------------------------------------
(* Reading objects.                                                        *)

RECURSIVE AllTexts(_)
AllTexts(values) ==
    {values[k].text : k \in {k \in DOMAIN values : values[k].kind = "text"}}
    \cup UNION {UNION {AllTexts(values[k].children[i]) : i \in DOMAIN values[k].children} :
                   k \in {k \in DOMAIN values : values[k].kind = "objects"}}

\* A file that is missing, no TOML, or has a value its type does not admit.
Parses(contents) == contents.contents = "object" /\ BadText \notin AllTexts(contents.values)

\* get_objects_sorted_at for one type: a member that cannot be read is left
\* out; a root object that cannot be read, or one beside a directory, fails.
EntryOf(type) ==
    LET dir   == ObjectDir(type)
        files == {f \in WalkDir(fs, dir, FALSE) :
                     f[Len(f)] \in Range(Toml) /\ Parses(Read(fs, dir \o f))}
    IN  IF IsDirectory(dir)
        THEN IF FileExists(RootPath(type)) THEN [entry |-> "error"]
             ELSE [entry |-> "list", paths |-> {dir \o f : f \in files}]
        ELSE IF ~FileExists(RootPath(type)) THEN [entry |-> "list", paths |-> {}]
        ELSE IF Parses(Read(fs, RootPath(type)))
        THEN [entry |-> "root", paths |-> {RootPath(type)}]
        ELSE [entry |-> "error"]

GetObjectsOk == \A type \in Types : EntryOf(type).entry # "error"

NameOf(path) == Stem(Last(path))
FilesNamed(type, name) == {p \in EntryOf(type).paths : NameOf(p) = name}

\* object_path_impl, which reads every object to find whether there is a root.
ObjectPath(type, name) ==
    IF EntryOf(type).entry = "root" THEN RootPath(type) ELSE FilePath(type, name)

-----------------------------------------------------------------------------
Init ==
    /\ fs \in {FoldSet(LAMBDA p, f : Write(f, p, first[p]), EmptyFs, DOMAIN first) : first \in FirstFiles}
    /\ made = {}
    /\ exact = TRUE
    /\ poisoned = FALSE
    /\ last = [event |-> "none"]
    /\ steps = 0

\* No step is taken once a panic poisoned the mutex: with_fs fails for good.
Step(event) ==
    /\ ~poisoned
    /\ steps < MaxSteps
    /\ steps' = steps + 1
    /\ last' = event

Made(path) == IF Native THEN made \cup {Upto(path, i) : i \in 0 .. Len(path) - 1} ELSE {}

WriteTo(path, contents) ==
    /\ CanWrite(fs, path)
    /\ fs' = Write(fs, path, contents)
    /\ made' = Made(path)
    /\ exact' = (exact /\ ExactPath(fs, path))
    /\ UNCHANGED poisoned

DeleteAt(path) ==
    /\ CanDelete(fs, path)
    /\ Native => Read(fs, path) # Missing
    /\ fs' = Delete(fs, path)
    /\ exact' = (exact /\ ExactPath(fs, path))
    /\ UNCHANGED <<made, poisoned>>

RenameTo(from, to) ==
    /\ CanRename(fs, from, to)
    /\ fs' = Rename(fs, from, to)
    /\ made' = Made(to)
    /\ exact' = (exact /\ ExactRename(fs, from, to))
    /\ UNCHANGED poisoned

\* Object::from_def: the values given are set one after the other, unchecked.
FromDef(def, given) ==
    IF given = <<>> THEN Ok(EmptyValues(def))
    ELSE SetInObject(given[1].path, EmptyValues(def), <<[kind |-> "text", text |-> given[1].text]>>)

\* A new object is written, or setting its values fails: with an error, or a
\* panic while the mutex is held.
AddFile(path, order, type, given, dirs) ==
    LET new == FromDef(Definitions[type], given)
    IN  \/ /\ new.result = "ok"
           /\ WriteTo(path, Doc(order, new.values))
        \/ /\ new.result = "panic"
           /\ poisoned' = TRUE
           /\ made' = made \cup dirs
           /\ UNCHANGED <<fs, exact>>

SlipForgetRoot(type, name, order, given) ==
    /\ Step([event |-> "add", type |-> type, name |-> name])
    /\ ~FileExists(FilePath(type, name))
    /\ AddFile(FilePath(type, name), order, type, given, {})

\* The directory is made before it is known whether the object may be added.
AddObject(type, name, order, given) ==
    LET dirs == IF Native THEN {ObjectDir(type)} \cup Made(ObjectDir(type)) ELSE {}
    IN  /\ Step([event |-> "add", type |-> type, name |-> name])
        /\ \/ /\ ~FileExists(FilePath(type, name)) /\ ~FileExists(RootPath(type))
              /\ AddFile(FilePath(type, name), order, type, given, dirs)
           \/ /\ FileExists(FilePath(type, name)) \/ FileExists(RootPath(type))
              /\ dirs \ made # {}
              /\ made' = made \cup dirs
              /\ UNCHANGED <<fs, exact, poisoned>>

AddRootObject(type, given) ==
    /\ Step([event |-> "addRoot", type |-> type, given |-> given])
    /\ ~ (IsDirectory(ObjectDir(type)) /\ WalkDir(fs, ObjectDir(type), FALSE) # {})
    /\ ~FileExists(RootPath(type))
    /\ AddFile(RootPath(type), <<>>, type, given, {})

\* Refused only for the names of root objects, not for a name that is taken.
RenameObject(type, from, to) ==
    /\ Step([event |-> "rename", type |-> type, from |-> from, to |-> to])
    /\ GetObjectsOk
    /\ ~FileExists(RootPath(from))
    /\ RenameTo(ObjectPath(type, from), ObjectPath(type, to))

DeleteObject(type, name) ==
    /\ Step([event |-> "delete", type |-> type, name |-> name])
    /\ GetObjectsOk
    /\ DeleteAt(ObjectPath(type, name))

-----------------------------------------------------------------------------
(* Changing an object.                                                     *)

\* write_object: the first object of that name is changed, and written to
\* where an object of that name belongs.
WriteObject(type, name, event, Modified(_)) ==
    /\ Step([event |-> "write", type |-> type, name |-> name, change |-> event])
    /\ GetObjectsOk
    /\ \E p \in FilesNamed(type, name) :
          LET doc == Read(fs, p)
              new == Modified(doc)
          IN  /\ new.result = "ok"
              /\ WriteTo(ObjectPath(type, name), new.doc)

NewValues(doc, r) ==
    IF r.result = "ok" THEN [result |-> "ok", doc |-> [doc EXCEPT !.values = r.values]] ELSE r

\* A value is validated at its path; taking one away is not.
EditField(type, name, path, field, value) ==
    LET whole == Append(path, Key(field))
    IN  /\ value # <<>> => /\ HasFieldDefinition(whole, Definitions[type])
                           /\ value[1].text # BadText
        /\ WriteObject(type, name, [edit |-> "field", path |-> whole, value |-> value],
                       LAMBDA doc : NewValues(doc, SetInObject(whole, doc.values, value)))

EditOrder(type, name, order) ==
    WriteObject(type, name, [edit |-> "order", order |-> order],
                LAMBDA doc : [result |-> "ok", doc |-> [doc EXCEPT !.order = order]])

\* The child is empty but for the value it is given.
AddChild(type, name, path, index, given) ==
    LET def   == DefinitionAt(path, Definitions[type])
        value == <<[kind |-> "text", text |-> given[1].text]>>
        child == IF given = <<>> THEN Ok(EmptyValues(def[1]))
                 ELSE SetInTree(given[1].path, EmptyValues(def[1]), value)
    IN  /\ given # <<>> => /\ HasFieldDefinition(path \o given[1].path, Definitions[type])
                           /\ given[1].text # BadText
        /\ def # <<>>
        /\ WriteObject(type, name, [edit |-> "child", path |-> path, index |-> index], LAMBDA doc :
              NewValues(doc, IF child.result # "ok" THEN child
                             ELSE ModifyChildren(path, doc.values, Inserting(index, child.values))))

RemoveChild(type, name, path) ==
    WriteObject(type, name, [edit |-> "remove", path |-> Front(path), index |-> Last(path).index],
                LAMBDA doc : NewValues(doc, RemoveChildAt(path, doc.values)))

-----------------------------------------------------------------------------
(* Whole files.                                                            *)

\* Archival::write_file: an object's file, if it parses and validates.
WriteFile(type, name, doc) ==
    /\ Step([event |-> "writeFile", type |-> type, name |-> name])
    /\ Parses(doc)
    /\ GetObjectsOk
    /\ WriteTo(ObjectPath(type, name), doc)

\* fs_write_file, fs_delete_file and fs_rename_file: any file, whatever it is.
FsWrite(path, contents) == Step([event |-> "file"]) /\ WriteTo(path, contents)
FsDelete(path) == Step([event |-> "file"]) /\ DeleteAt(path)
FsRename(from, to) == Step([event |-> "file"]) /\ RenameTo(from, to)

\* dump_schemas: the directory is removed and a schema written for each type.
SchemaPath(type) == <<"schemas", Toml[type]>>
DumpSchemas ==
    LET empty == IF IsDirectory(<<"schemas">>) THEN RemoveDirAll(fs, <<"schemas">>) ELSE fs
    IN  /\ Step([event |-> "file"])
        /\ fs' = FoldSet(LAMBDA type, f : Write(f, SchemaPath(type), Junk), empty, Types)
        /\ made' = IF Native THEN made \cup {<<>>, <<"schemas">>} ELSE {}
        /\ exact' = (exact /\ ExactRemoval(fs, <<"schemas">>))
        /\ UNCHANGED poisoned

Values == {<<>>} \cup {<<[kind |-> "text", text |-> t]>> : t \in TextsSent}
Docs   == {Doc(<<>>, [k \in {"f"} |-> [kind |-> "text", text |-> t]]) : t \in TextsSent} \cup {Junk}

NextEvent ==
    \E type \in Types :
        \/ \E name \in Names, order \in Orders, given \in Given : AddObject(type, name, order, given)
        \/ \E given \in Given : AddRootObject(type, given)
        \/ \E from, to \in Names \cup {type} : RenameObject(type, from, to)
        \/ \E name \in Names \cup {type} :
              \/ DeleteObject(type, name)
              \/ \E path \in ValuePathsSent, value \in Values :
                    IsKey(path, Len(path)) /\ EditField(type, name, Front(path), Last(path).key, value)
              \/ \E order \in Orders : EditOrder(type, name, order)
              \/ \E path \in ChildPathsSent, index \in {<<>>, <<0>>, <<1>>}, given \in Given :
                    AddChild(type, name, path, index, given)
              \/ \E path \in ChildPathsSent, i \in {0, 1} :
                    RemoveChild(type, name, Append(path, Index(i)))
              \/ \E doc \in Docs : WriteFile(type, name, doc)

NextFile ==
    \/ \E path \in FilesSent, doc \in Docs : FsWrite(path, doc)
    \/ \E path \in FilesSent : FsDelete(path)
    \/ \E from, to \in FilesSent : FsRename(from, to)
    \/ DumpSchemas

Next == NextEvent \/ NextFile
Spec == Init /\ [][Next]_vars

-----------------------------------------------------------------------------
TypeOK ==
    /\ \A k \in DOMAIN fs.files : fs.files[k].contents \in {"object", "junk"}
    /\ \A k \in DOMAIN fs.tree : \A e \in fs.tree[k] : e.file \in BOOLEAN
    /\ exact \in BOOLEAN /\ poisoned \in BOOLEAN
    /\ steps \in 0 .. MaxSteps

\* The graph of the memory file system is that of its files, through every
\* write, delete, rename and removal that does not stretch paths as strings.
FilesAreListed == exact => GraphIsOfFiles(fs)

\* The objects that can be read, by type and name; names are unique where no
\* file lies in a directory below its type's.
Objects == [type \in Types |->
               [name \in {NameOf(p) : p \in EntryOf(type).paths} |->
                   Read(fs, CHOOSE p \in EntryOf(type).paths : NameOf(p) = name)]]
Flat == exact /\ GetObjectsOk /\ \A type \in Types : \A p \in EntryOf(type).paths : Len(p) <= 3

\* Type is all that changed, but for what is named.
OnlyIn(type, names) ==
    /\ \A t \in Types \ {type} : Objects'[t] = Objects[t]
    /\ \A name \in (DOMAIN Objects[type] \cup DOMAIN Objects'[type]) \ names :
          /\ name \in DOMAIN Objects[type] \cap DOMAIN Objects'[type]
          /\ Objects'[type][name] = Objects[type][name]

\* Once every object can be read, only a file written directly or a root object
\* whose values do not validate can change that: no other sequence of events
\* takes a whole site away.  With Native the code breaks this (README, Known
\* departures): a refused AddObject leaves a directory beside the root object's file.
EventsKeepSiteReadable ==
    [][GetObjectsOk /\ ~GetObjectsOk' =>
          \/ last'.event = "file"
          \/ last'.event = "addRoot" /\ BadText \in {last'.given[i].text : i \in DOMAIN last'.given}]_vars

\* An object that was written to before and after the step.
Wrote(edit) ==
    /\ Flat /\ Flat'
    /\ last'.event = "write" /\ last'.change.edit = edit
    /\ last'.name \in DOMAIN Objects[last'.type]
ObjectBefore == Objects[last'.type][last'.name]
ObjectAfter  == Objects'[last'.type][last'.name]

\* An edit whose path leads to a field sets that value, and no other value of
\* the object, no list, no order and no other object.
EditTouchesOneValue ==
    Wrote("field") =>
       LET path == last'.change.path
           old  == ObjectBefore.values
           new  == ObjectAfter.values
       IN  /\ OnlyIn(last'.type, {last'.name})
           /\ last'.name \in DOMAIN Objects'[last'.type]
           /\ Leads(path, Definitions[last'.type], old) =>
                 /\ ObjectAfter.order = ObjectBefore.order
                 /\ Lists(new, <<>>) = Lists(old, <<>>)
                 /\ Texts(new, <<>>) = {t \in Texts(old, <<>>) : t[1] # path}
                       \cup {<<path, last'.change.value[i].text>> : i \in DOMAIN last'.change.value}
                 /\ last'.change.value # <<>> => GetInObject(path, new) = last'.change.value

\* A child that is added moves those behind it, one that is removed too;
\* everything in them goes along and nothing else changes.
ChildrenShift ==
    Wrote("child") \/ Wrote("remove") =>
       LET path == last'.change.path
           old  == ObjectBefore.values
           new  == ObjectAfter.values
           count == Len(GetChildren(path, old)[1])
           Moved(values, i)   == {<<Shifted(t[1], path, i), t[2]>> : t \in Texts(values, <<>>)}
           Outside(values, i) == {t \in Texts(values, <<>>) : ~IsPrefix(Append(path, Index(i)), t[1])}
       IN  /\ OnlyIn(last'.type, {last'.name})
           /\ last'.name \in DOMAIN Objects'[last'.type]
           /\ GetChildren(path, old) # <<>> =>
                 IF last'.change.edit = "child"
                 THEN LET i == IF last'.change.index = <<>> THEN count ELSE last'.change.index[1]
                      IN  /\ Outside(new, i) = Moved(old, i)
                          /\ Len(GetChildren(path, new)[1]) = count + 1
                 ELSE /\ Moved(new, last'.change.index) = Outside(old, last'.change.index)
                      /\ Len(GetChildren(path, new)[1]) = count - 1

\* Adding, renaming and deleting are about the objects they name: a rename
\* leaves the object under its new name, over whatever had it.
EventsNameTheirObjects ==
    last'.event \in {"add", "delete", "rename"} /\ Flat /\ Flat'
     /\ EntryOf(last'.type).entry = "list" =>
       /\ last'.event = "add" => OnlyIn(last'.type, {last'.name})
       /\ last'.event = "delete" =>
             OnlyIn(last'.type, {last'.name}) /\ last'.name \notin DOMAIN Objects'[last'.type]
       /\ last'.event = "rename" /\ last'.from \in DOMAIN Objects[last'.type] =>
             /\ OnlyIn(last'.type, {last'.from, last'.to})
             /\ last'.from \notin DOMAIN Objects'[last'.type]
             /\ last'.to \in DOMAIN Objects'[last'.type]
             /\ Objects'[last'.type][last'.to] = Objects[last'.type][last'.from]

\* The file system is a map of files with the graph that lists them.
FileSystemIsSound == TypeOK /\ FilesAreListed

\* An event changes what it names as it says, and nothing else (lib.rs:498-777).
EventsTouchWhatTheyName ==
    [][EditTouchesOneValue /\ ChildrenShift /\ EventsNameTheirObjects]_vars
=============================================================================
