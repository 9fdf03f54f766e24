----------------------------- MODULE MemoryFs ------------------------------
(***************************************************************************)
(* MemoryFileSystem: contents by key, and a graph of directories beside    *)
(* them.  A path is a sequence of names, already relative; its key is the  *)
(* path in lower case, while the entries of the graph keep the spelling    *)
(* they were written with.  Keys are strings in the code, so a key "lies   *)
(* under" another when the text begins with it, whether or not a separator *)
(* follows.  A file system is [files |-> key -> contents, tree |-> key of a *)
(* directory -> its entries].                                              *)
(***************************************************************************)
EXTENDS Integers, Sequences, FiniteSets, SequencesExt

CONSTANTS Lower,        \* a name |-> the name in lower case
          StartsWith    \* <<a, b>>: the lower-case name a begins with b

ASSUME NameAssumption ==
    \A name \in DOMAIN Lower :
        /\ Lower[name] \in DOMAIN Lower
        /\ Lower[Lower[name]] = Lower[name]
        /\ <<Lower[name], Lower[name]>> \in StartsWith

Missing == [contents |-> "missing"]
EmptyFs == [files |-> [k \in {} |-> k], tree |-> [k \in {} |-> k]]

PathKey(path) == [i \in DOMAIN path |-> Lower[path[i]]]
Upto(path, n) == SubSeq(path, 1, n)
Without(f, keys) == [k \in DOMAIN f \ keys |-> f[k]]
SetAt(f, k, x)   == [y \in DOMAIN f \cup {k} |-> IF y = k THEN x ELSE f[y]]

\* k.starts_with(node_key)
Under(k, key) ==
    LET n == Len(key)
    IN  n = 0 \/ /\ Len(k) >= n
                 /\ Upto(k, n - 1) = Upto(key, n - 1)
                 /\ <<k[n], key[n]>> \in StartsWith

GetNode(tree, path) == IF PathKey(path) \in DOMAIN tree THEN tree[PathKey(path)] ELSE {}

\* An entry that is there keeps what it was added as: entries are compared by path.
AddEntry(node, path, isFile) ==
    IF \E e \in node : e.path = path THEN node ELSE node \cup {[path |-> path, file |-> isFile]}

AllChildren(fs, path, recursive, includeSelf) ==
    {k \in DOMAIN fs.tree \cup DOMAIN fs.files :
        /\ includeSelf \/ k # path
        /\ Under(k, PathKey(path))
        /\ recursive \/ Len(k) = Len(path) + 1}

SlipParentOnly(tree, path) ==
    SetAt(tree, PathKey(Front(path)), AddEntry(GetNode(tree, Front(path)), path, TRUE))

WriteToGraph(tree, path) ==
    LET Above(k) == {i \in 0 .. Len(path) - 1 : PathKey(Upto(path, i)) = k}
        Entry(k) == CHOOSE i \in Above(k) : TRUE
    IN  [k \in DOMAIN tree \cup {PathKey(Upto(path, i)) : i \in 0 .. Len(path) - 1} |->
            IF Above(k) = {} THEN tree[k]
            ELSE AddEntry(GetNode(tree, k), Upto(path, Entry(k) + 1), Entry(k) = Len(path) - 1)]

\* The nodes above a path that was removed: those that are left empty go too,
\* from the path's own up to the first that is not.
RemoveAbove(tree, path) ==
    LET Left(i)    == {e \in GetNode(tree, Upto(path, i)) : e.path # Upto(path, i + 1)}
        Goes(i)    == \A j \in i .. Len(path) - 1 : Left(j) = {}
        IsAbove(k) == Len(k) < Len(path) /\ k = PathKey(Upto(path, Len(k)))
    IN  [k \in {k \in DOMAIN tree : ~ (IsAbove(k) /\ Goes(Len(k)))} |->
            IF IsAbove(k) /\ Goes(Len(k) + 1) THEN Left(Len(k)) ELSE tree[k]]

RemoveFromGraph(fs, path) ==
    LET gone == IF GetNode(fs.tree, path) = {} THEN {} ELSE AllChildren(fs, path, TRUE, TRUE)
    IN  [files |-> Without(fs.files, gone),
         tree  |-> RemoveAbove(Without(fs.tree, gone), path)]

-----------------------------------------------------------------------------
(* FileSystemAPI.                                                          *)

IsDir(fs, path)  == PathKey(path) \in DOMAIN fs.tree
Exists(fs, path) == PathKey(path) \in DOMAIN fs.files \/ IsDir(fs, path)
Read(fs, path)   == IF PathKey(path) \in DOMAIN fs.files THEN fs.files[PathKey(path)] ELSE Missing

\* Refused for a directory.
CanWrite(fs, path) == ~IsDir(fs, path)
Write(fs, path, contents) ==
    [files |-> SetAt(fs.files, PathKey(path), contents),
     tree  |-> WriteToGraph(fs.tree, path)]

\* Refused for a directory; a file that is not there is not an error.
CanDelete(fs, path) == ~IsDir(fs, path)
Delete(fs, path) == RemoveFromGraph([fs EXCEPT !.files = Without(@, {PathKey(path)})], path)

SlipReadAfterDelete(fs, from, to) ==
    LET left == Delete(fs, from) IN Write(left, to, Read(left, from))
SlipCopy(fs, from, to) == Write(fs, to, Read(fs, from))

\* The new file is written before the old one is deleted.
CanRename(fs, from, to) ==
    /\ Read(fs, from) # Missing
    /\ CanWrite(fs, to)
    /\ CanDelete(Write(fs, to, Read(fs, from)), from)
Rename(fs, from, to) == Delete(Write(fs, to, Read(fs, from)), from)

RemoveDirAll(fs, path) == RemoveFromGraph(fs, path)

\* Relative to the directory; entries of another directory are left out with
\* an error, since the prefix to strip is compared name by name.
WalkDir(fs, path, includeDirs) ==
    {SubSeq(e.path, Len(path) + 1, Len(e.path)) :
        e \in {e \in UNION {GetNode(fs.tree, k) : k \in AllChildren(fs, path, TRUE, TRUE)} :
                  /\ includeDirs \/ e.file
                  /\ IsPrefix(path, e.path)}}

\* Not relative, and in lower case.
ListDir(fs, path) == AllChildren(fs, path, FALSE, FALSE)

-----------------------------------------------------------------------------
(* Where strings for paths are as good as paths: a file system is exact as *)
(* long as nothing below was done to it.                                   *)

\* A path is spelled as it was, and no part of it is a file.
ExactPath(fs, path) ==
    /\ \A i \in 1 .. Len(path) - 1 : PathKey(Upto(path, i)) \notin DOMAIN fs.files
    /\ \A k \in DOMAIN fs.tree : \A e \in fs.tree[k] : \A i \in 1 .. Len(path) :
          PathKey(Upto(path, i)) = PathKey(e.path) => Upto(path, i) = e.path

ExactRename(fs, from, to) ==
    ExactPath(fs, from) /\ ExactPath(fs, to) /\ PathKey(from) # PathKey(to)

ExactRemoval(fs, path) ==
    /\ ExactPath(fs, path)
    /\ \A k \in AllChildren(fs, path, TRUE, TRUE) : IsPrefix(PathKey(path), k)

\* The graph is that of the files: each is listed where it is, no directory
\* is empty and none is missing.
GraphIsOfFiles(fs) ==
    /\ {PathKey(p) : p \in WalkDir(fs, <<>>, FALSE)} = DOMAIN fs.files
    /\ DOMAIN fs.tree = UNION {{Upto(k, i) : i \in 0 .. Len(k) - 1} : k \in DOMAIN fs.files}
    /\ \A k \in DOMAIN fs.tree :
          {PathKey(e.path) : e \in fs.tree[k]} =
              {f \in DOMAIN fs.files \cup DOMAIN fs.tree : Len(f) = Len(k) + 1 /\ IsPrefix(k, f)}
=============================================================================
