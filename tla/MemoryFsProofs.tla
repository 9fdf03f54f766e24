--------------------------- MODULE MemoryFsProofs ---------------------------
(***************************************************************************)
(* Theorems about MemoryFs: its graph of directories is that of its files  *)
(* after any operations, for paths of any length and any names.  Keys are  *)
(* handled through three facts only: what Upto is of a path, that the key  *)
(* of a path commutes with Upto, and that two paths are one when they      *)
(* agree at each place.                                                    *)
(***************************************************************************)
EXTENDS MemoryFs, WellFoundedInduction, TLAPS

Paths == Seq(DOMAIN Lower)

-----------------------------------------------------------------------------
(* Paths and keys.                                                         *)

\* The names of a path up to the n-th.
LEMMA UptoIsPath ==
    ASSUME NEW path \in Paths, NEW n \in 0 .. Len(path)
    PROVE  /\ Upto(path, n) \in Paths
           /\ Len(Upto(path, n)) = n
           /\ \A i \in 1 .. n : Upto(path, n)[i] = path[i]
BY DEF Upto, Paths

\* A key is a path of the same length, each name in lower case.
LEMMA KeyIsPath ==
    ASSUME NEW path \in Paths
    PROVE  /\ PathKey(path) \in Paths
           /\ Len(PathKey(path)) = Len(path)
           /\ \A i \in 1 .. Len(path) : PathKey(path)[i] = Lower[path[i]]
<1>0. \A i \in 1 .. Len(path) : path[i] \in DOMAIN Lower
  BY DEF Paths
<1>1. \A i \in 1 .. Len(path) : Lower[path[i]] \in DOMAIN Lower
  BY <1>0, NameAssumption
<1>2. DOMAIN path = 1 .. Len(path)
  BY DEF Paths
<1>. QED  BY <1>1, <1>2 DEF PathKey, Paths

\* Paths that agree at each place are the same.
LEMMA SamePath ==
    ASSUME NEW p \in Paths, NEW q \in Paths, Len(p) = Len(q),
           \A i \in 1 .. Len(p) : p[i] = q[i]
    PROVE  p = q
BY DEF Paths

\* What lies above a part of a path lies above the path.
LEMMA UptoUpto ==
    ASSUME NEW path \in Paths, NEW n \in 0 .. Len(path), NEW m \in 0 .. n
    PROVE  Upto(Upto(path, n), m) = Upto(path, m)
BY UptoIsPath, SamePath

\* A path up to its end is the path.
LEMMA WholePath ==
    ASSUME NEW path \in Paths
    PROVE  /\ Upto(path, Len(path)) = path
           /\ Len(path) \in Nat
<1>1. Len(path) \in Nat  BY DEF Paths
<1>. QED  BY <1>1, UptoIsPath, SamePath

\* The key of a directory above a path is the directory above its key.
LEMMA KeyOfUpto ==
    ASSUME NEW path \in Paths, NEW n \in 0 .. Len(path)
    PROVE  PathKey(Upto(path, n)) = Upto(PathKey(path), n)
<1>1. Upto(path, n) \in Paths /\ Len(Upto(path, n)) = n /\ \A i \in 1 .. n : Upto(path, n)[i] = path[i]
  BY UptoIsPath
<1>2. PathKey(path) \in Paths /\ Len(PathKey(path)) = Len(path)
  BY KeyIsPath
<1>3. Upto(PathKey(path), n) \in Paths /\ Len(Upto(PathKey(path), n)) = n
      /\ \A i \in 1 .. n : Upto(PathKey(path), n)[i] = PathKey(path)[i]
  BY <1>2, UptoIsPath
<1>4. PathKey(Upto(path, n)) \in Paths /\ Len(PathKey(Upto(path, n))) = n
      /\ \A i \in 1 .. n : PathKey(Upto(path, n))[i] = Lower[path[i]]
  BY <1>1, KeyIsPath
<1>5. \A i \in 1 .. n : PathKey(path)[i] = Lower[path[i]]
  BY KeyIsPath, WholePath
<1>. QED  BY <1>3, <1>4, <1>5, SamePath

\* Lower case is lower case already (file_system_memory.rs:83).
LEMMA KeyOfKey ==
    ASSUME NEW path \in Paths
    PROVE  PathKey(PathKey(path)) = PathKey(path)
<1>1. PathKey(path) \in Paths /\ Len(PathKey(path)) = Len(path)
      /\ \A i \in 1 .. Len(path) : PathKey(path)[i] = Lower[path[i]]
  BY KeyIsPath
<1>2. PathKey(PathKey(path)) \in Paths /\ Len(PathKey(PathKey(path))) = Len(path)
      /\ \A i \in 1 .. Len(path) : PathKey(PathKey(path))[i] = Lower[PathKey(path)[i]]
  BY <1>1, KeyIsPath
<1>0. \A i \in 1 .. Len(path) : path[i] \in DOMAIN Lower
  BY DEF Paths
<1>3. \A i \in 1 .. Len(path) : Lower[Lower[path[i]]] = Lower[path[i]]
  BY <1>0, NameAssumption
<1>. QED  BY <1>1, <1>2, <1>3, SamePath

\* IsPrefix of the community modules, by Upto.
LEMMA PrefixIsUpto ==
    ASSUME NEW p \in Paths, NEW q \in Paths
    PROVE  IsPrefix(p, q) <=> Len(p) <= Len(q) /\ Upto(q, Len(p)) = p
<1>1. SubSeq(p, 1, Len(p)) = p  BY WholePath DEF Upto
<1>. QED  BY <1>1 DEF IsPrefix, Upto

\* The root has no names, and lies above every path.
LEMMA TheEmptyPath ==
    /\ <<>> \in Paths /\ Len(<<>>) = 0 /\ PathKey(<<>>) = <<>>
    /\ \A path \in Paths : /\ Upto(path, 0) = <<>>
                           /\ IsPrefix(<<>>, path)
                           /\ Len(path) = 0 => path = <<>>
<1>1. <<>> \in Paths /\ Len(<<>>) = 0
  BY DEF Paths
<1>2. \A path \in Paths : Len(path) = 0 => path = <<>>
  BY <1>1, SamePath
<1>3. PathKey(<<>>) = <<>>
  BY <1>1, <1>2, KeyIsPath
<1>4. \A path \in Paths : Upto(path, 0) = <<>>
  BY <1>2, UptoIsPath, WholePath
<1>5. \A path \in Paths : IsPrefix(<<>>, path)
  BY <1>1, <1>4, PrefixIsUpto, WholePath
<1>. QED  BY <1>1, <1>2, <1>3, <1>4, <1>5

-----------------------------------------------------------------------------
(* The invariant.  GraphIsOfFiles alone does not survive a step: an entry   *)
(* must also say truly whether it is a file, and no key may be both.       *)

Keys(fs) == DOMAIN fs.files \cup DOMAIN fs.tree
Beneath(f, k) == Len(k) < Len(f) /\ Upto(f, Len(k)) = k
Child(c, k)   == Len(c) = Len(k) + 1 /\ Upto(c, Len(k)) = k

Shape(fs) ==
    /\ fs = [files |-> fs.files, tree |-> fs.tree]
    /\ \A k \in Keys(fs) : k \in Paths /\ PathKey(k) = k
    /\ <<>> \notin DOMAIN fs.files
    /\ \A k \in DOMAIN fs.tree : \A e \in fs.tree[k] : e.path \in Paths
Apart(fs) == DOMAIN fs.files \cap DOMAIN fs.tree = {}
TreeOfFiles(fs) ==
    \A k \in Paths : k \in DOMAIN fs.tree <=> \E f \in DOMAIN fs.files : Beneath(f, k)
EntriesOfTree(fs) ==
    \A k \in DOMAIN fs.tree :
        /\ \A e \in fs.tree[k] :
              /\ PathKey(e.path) \in Keys(fs)
              /\ Child(PathKey(e.path), k)
              /\ e.file <=> PathKey(e.path) \in DOMAIN fs.files
        /\ \A c \in Keys(fs) : Child(c, k) => \E e \in fs.tree[k] : PathKey(e.path) = c
Sound(fs) == Shape(fs) /\ Apart(fs) /\ TreeOfFiles(fs) /\ EntriesOfTree(fs)

\* Every directory above a file or a directory has a node.
LEMMA AboveAKey ==
    ASSUME NEW fs, Sound(fs), NEW c \in Keys(fs), NEW n \in 0 .. Len(c), n < Len(c)
    PROVE  Upto(c, n) \in DOMAIN fs.tree
<1>1. c \in Paths  BY DEF Sound, Shape
<1>2. PICK f \in DOMAIN fs.files : Len(c) <= Len(f) /\ Upto(f, Len(c)) = c
  <2>1. CASE c \in DOMAIN fs.files
    BY <1>1, <2>1, WholePath
  <2>2. CASE c \in DOMAIN fs.tree
    BY <1>1, <2>2, WholePath DEF Sound, Shape, Keys, TreeOfFiles, Beneath
  <2>. QED  BY <2>1, <2>2 DEF Keys
<1>3. f \in Paths /\ Len(f) \in Nat /\ Len(c) \in Nat
  BY <1>1, WholePath DEF Sound, Shape, Keys
<1>4. Upto(c, n) \in Paths /\ Len(Upto(c, n)) = n
  BY <1>1, UptoIsPath
<1>5. Upto(f, n) = Upto(c, n)
  BY <1>2, <1>3, UptoUpto
<1>6. Beneath(f, Upto(c, n))
  BY <1>2, <1>3, <1>4, <1>5 DEF Beneath
<1>. QED  BY <1>4, <1>6 DEF Sound, TreeOfFiles

\* No node is empty, so an empty one means that there is none.
LEMMA ADirectoryHasAChild ==
    ASSUME NEW fs, Sound(fs), NEW k \in DOMAIN fs.tree
    PROVE  fs.tree[k] # {}
<1>1. k \in Paths /\ Len(k) \in Nat  BY WholePath DEF Sound, Shape, Keys
<1>2. PICK f \in DOMAIN fs.files : Beneath(f, k)
  BY <1>1 DEF Sound, TreeOfFiles
<1>3. f \in Paths /\ Len(f) \in Nat /\ f \in Keys(fs)
  BY WholePath DEF Sound, Shape, Keys
<1>4. Upto(f, Len(k) + 1) \in Paths /\ Len(Upto(f, Len(k) + 1)) = Len(k) + 1
  BY <1>1, <1>2, <1>3, UptoIsPath DEF Beneath
<1>5. Child(Upto(f, Len(k) + 1), k)
  BY <1>1, <1>2, <1>3, <1>4, UptoUpto DEF Child, Beneath
<1>6. Upto(f, Len(k) + 1) \in Keys(fs)
  <2>1. CASE Len(f) = Len(k) + 1
    BY <1>3, <2>1, WholePath
  <2>2. CASE Len(f) # Len(k) + 1
    BY <1>1, <1>2, <1>3, <2>2, AboveAKey DEF Beneath, Keys
  <2>. QED  BY <2>1, <2>2
<1>. QED  BY <1>5, <1>6 DEF Sound, EntriesOfTree

\* The invariant says that the graph is that of the files.
THEOREM SoundListsFiles ==
    ASSUME NEW fs, Sound(fs)
    PROVE  GraphIsOfFiles(fs)
<1> DEFINE F == DOMAIN fs.files
           T == DOMAIN fs.tree
<1>1. \A k \in Keys(fs) : k \in Paths /\ PathKey(k) = k /\ Len(k) \in Nat
  BY WholePath DEF Sound, Shape
<1>2. {PathKey(p) : p \in WalkDir(fs, <<>>, FALSE)} = F
  <2>1. <<>> \in Paths /\ Len(<<>>) = 0 /\ PathKey(<<>>) = <<>>
    BY TheEmptyPath
  <2>2. AllChildren(fs, <<>>, TRUE, TRUE) = Keys(fs)
    BY <2>1 DEF AllChildren, Under, Keys
  <2>3. \A k \in Keys(fs) : GetNode(fs.tree, k) = IF k \in T THEN fs.tree[k] ELSE {}
    BY <1>1 DEF GetNode
  <2>4. \A k \in T : \A e \in fs.tree[k] :
           IsPrefix(<<>>, e.path) /\ SubSeq(e.path, Len(<<>>) + 1, Len(e.path)) = e.path
    <3> SUFFICES ASSUME NEW k \in T, NEW e \in fs.tree[k]
                 PROVE  /\ IsPrefix(<<>>, e.path)
                        /\ SubSeq(e.path, Len(<<>>) + 1, Len(e.path)) = e.path
      OBVIOUS
    <3>1. e.path \in Paths
      BY DEF Sound, Shape
    <3>. QED  BY <2>1, <3>1, TheEmptyPath, WholePath DEF Upto
  <2>5. WalkDir(fs, <<>>, FALSE) = {e.path : e \in {e \in UNION {fs.tree[k] : k \in T} : e.file}}
    <3>1. UNION {GetNode(fs.tree, k) : k \in Keys(fs)} = UNION {fs.tree[k] : k \in T}
      BY <2>3 DEF Keys
    <3>2. {e \in UNION {GetNode(fs.tree, k) : k \in AllChildren(fs, <<>>, TRUE, TRUE)} :
             (FALSE \/ e.file) /\ IsPrefix(<<>>, e.path)}
            = {e \in UNION {fs.tree[k] : k \in T} : e.file}
      BY <2>2, <2>4, <3>1
    <3>3. \A e \in {e \in UNION {fs.tree[k] : k \in T} : e.file} :
            SubSeq(e.path, Len(<<>>) + 1, Len(e.path)) = e.path
      BY <2>4
    <3>. QED  BY <3>2, <3>3 DEF WalkDir
  <2>6. \A k \in T : \A e \in fs.tree[k] : e.file => PathKey(e.path) \in F
    BY DEF Sound, EntriesOfTree
  <2>7. \A f \in F : \E k \in T : \E e \in fs.tree[k] : e.file /\ PathKey(e.path) = f
    <3> SUFFICES ASSUME NEW f \in F
                 PROVE  \E k \in T : \E e \in fs.tree[k] : e.file /\ PathKey(e.path) = f
      OBVIOUS
    <3>1. f \in Paths /\ Len(f) \in Nat /\ Len(f) # 0 /\ f \in Keys(fs)
      BY <1>1, TheEmptyPath DEF Sound, Shape, Keys
    <3>2. Upto(f, Len(f) - 1) \in T /\ Len(Upto(f, Len(f) - 1)) = Len(f) - 1
      BY <3>1, AboveAKey, UptoIsPath
    <3>3. Child(f, Upto(f, Len(f) - 1))
      BY <3>1, <3>2 DEF Child
    <3>4. PICK e \in fs.tree[Upto(f, Len(f) - 1)] : PathKey(e.path) = f
      BY <3>1, <3>2, <3>3 DEF Sound, EntriesOfTree
    <3>. QED  BY <3>2, <3>4 DEF Sound, EntriesOfTree
  <2>8. \A p : p \in WalkDir(fs, <<>>, FALSE)
                 <=> \E k \in T : \E e \in fs.tree[k] : e.file /\ p = e.path
    BY <2>5
  <2>9. \A f \in F : \E p \in WalkDir(fs, <<>>, FALSE) : f = PathKey(p)
    BY <2>7, <2>8
  <2>10. \A p \in WalkDir(fs, <<>>, FALSE) : PathKey(p) \in F
    BY <2>6, <2>8
  <2> HIDE DEF F, T
  <2>. QED  BY <2>9, <2>10
<1>3. T = UNION {{Upto(k, i) : i \in 0 .. Len(k) - 1} : k \in F}
  <2>1. \A k \in T : \E f \in F : k \in {Upto(f, i) : i \in 0 .. Len(f) - 1}
    <3> SUFFICES ASSUME NEW k \in T PROVE \E f \in F : k \in {Upto(f, i) : i \in 0 .. Len(f) - 1}
      OBVIOUS
    <3>1. PICK f \in F : Beneath(f, k)
      BY <1>1 DEF Sound, TreeOfFiles, Keys
    <3>2. Len(k) \in 0 .. Len(f) - 1 /\ Upto(f, Len(k)) = k
      BY <1>1, <3>1 DEF Beneath, Keys
    <3>. QED  BY <3>2
  <2>2. \A f \in F : \A i \in 0 .. Len(f) - 1 : Upto(f, i) \in T
    BY <1>1, AboveAKey DEF Keys
  <2>. QED  BY <2>1, <2>2
<1>4. ASSUME NEW k \in T
      PROVE  {PathKey(e.path) : e \in fs.tree[k]}
                = {f \in F \cup T : Len(f) = Len(k) + 1 /\ IsPrefix(k, f)}
  <2>1. \A f \in Keys(fs) : Len(f) = Len(k) + 1 /\ IsPrefix(k, f) <=> Child(f, k)
    BY <1>1, PrefixIsUpto DEF Child, Keys
  <2>2. \A e \in fs.tree[k] : PathKey(e.path) \in Keys(fs) /\ Child(PathKey(e.path), k)
    BY DEF Sound, EntriesOfTree
  <2>3. \A c \in Keys(fs) : Child(c, k) => \E e \in fs.tree[k] : PathKey(e.path) = c
    BY DEF Sound, EntriesOfTree
  <2>. QED  BY <2>1, <2>2, <2>3 DEF Keys
<1>. QED  BY <1>2, <1>3, <1>4 DEF GraphIsOfFiles

-----------------------------------------------------------------------------
(* Writes.                                                                 *)

\* write_to_graph changes the nodes above the path, each by the one entry that
\* leads to it (file_system_memory.rs:287).
LEMMA NodesAbove ==
    ASSUME NEW tree, NEW path \in Paths,
           \A k \in DOMAIN tree : k \in Paths /\ PathKey(k) = k
    PROVE  LET p == PathKey(path)
               after == WriteToGraph(tree, path)
           IN  /\ DOMAIN after = DOMAIN tree \cup {Upto(p, i) : i \in 0 .. Len(path) - 1}
               /\ \A k \in DOMAIN after : ~Beneath(p, k) => after[k] = tree[k]
               /\ \A k \in DOMAIN after : Beneath(p, k) =>
                     after[k] = AddEntry(GetNode(tree, k), Upto(path, Len(k) + 1), Len(k) = Len(path) - 1)
<1> DEFINE p == PathKey(path)
           after == WriteToGraph(tree, path)
           Above(k) == {i \in 0 .. Len(path) - 1 : PathKey(Upto(path, i)) = k}
<1>1. p \in Paths /\ Len(p) = Len(path) /\ Len(path) \in Nat
  BY KeyIsPath, WholePath
<1>2. \A i \in 0 .. Len(path) - 1 : /\ PathKey(Upto(path, i)) = Upto(p, i)
                                     /\ Len(Upto(p, i)) = i
                                     /\ Upto(p, i) \in Paths
  BY <1>1, KeyOfUpto, UptoIsPath
<1>3. {PathKey(Upto(path, i)) : i \in 0 .. Len(path) - 1} = {Upto(p, i) : i \in 0 .. Len(path) - 1}
  BY <1>2
<1>4. DOMAIN after = DOMAIN tree \cup {Upto(p, i) : i \in 0 .. Len(path) - 1}
  BY <1>3 DEF WriteToGraph
<1>5. ASSUME NEW k \in DOMAIN after
      PROVE  k \in Paths /\ Len(k) \in Nat
  BY <1>1, <1>2, <1>4, WholePath
<1>6. ASSUME NEW k \in DOMAIN after
      PROVE  Above(k) = IF Beneath(p, k) THEN {Len(k)} ELSE {}
  BY <1>1, <1>2, <1>5 DEF Beneath
<1>7. ASSUME NEW k \in DOMAIN after, ~Beneath(p, k)
      PROVE  after[k] = tree[k]
  BY <1>3, <1>6, <1>7 DEF WriteToGraph
<1>8. ASSUME NEW k \in DOMAIN after, Beneath(p, k)
      PROVE  after[k] = AddEntry(GetNode(tree, k), Upto(path, Len(k) + 1), Len(k) = Len(path) - 1)
  <2>1. Above(k) = {Len(k)}
    BY <1>6, <1>8
  <2>2. (CHOOSE i \in Above(k) : TRUE) = Len(k)
    BY <2>1
  <2> HIDE DEF p
  <2>. QED  BY <1>3, <1>4, <2>1, <2>2 DEF WriteToGraph
<1>. QED  BY <1>4, <1>7, <1>8

\* A write lists the new file and the directories above it, and loses no entry
\* (file_system_memory.rs:277).
THEOREM WritesKeepTheGraph ==
    ASSUME NEW fs, Sound(fs), NEW path \in Paths, path # <<>>, NEW contents,
           CanWrite(fs, path),
           \A i \in 1 .. Len(path) - 1 : PathKey(Upto(path, i)) \notin DOMAIN fs.files
    PROVE  Sound(Write(fs, path, contents))
<1> DEFINE p == PathKey(path)
           n == Len(path)
           F == DOMAIN fs.files
           T == DOMAIN fs.tree
           new == Write(fs, path, contents)
           After == new.tree
<1>1. p \in Paths /\ Len(p) = n /\ n \in Nat /\ n > 0 /\ PathKey(p) = p
  BY KeyIsPath, KeyOfKey, WholePath, TheEmptyPath
<1>2. \A k \in Keys(fs) : k \in Paths /\ PathKey(k) = k /\ Len(k) \in Nat
  BY WholePath DEF Sound, Shape
<1>3. p \notin T
  BY DEF CanWrite, IsDir
<1>4. \A i \in 0 .. n : /\ Upto(p, i) \in Paths /\ Len(Upto(p, i)) = i
                         /\ PathKey(Upto(p, i)) = Upto(p, i)
                         /\ PathKey(Upto(path, i)) = Upto(p, i)
                         /\ Upto(path, i) \in Paths
  BY <1>1, UptoIsPath, KeyOfUpto
<1>5. \A i \in 0 .. n - 1 : Upto(p, i) \notin F
  <2>1. \A i \in 1 .. n - 1 : Upto(p, i) \notin F
    BY <1>1, <1>4
  <2>2. Upto(p, 0) \notin F
    BY <1>1, TheEmptyPath DEF Sound, Shape
  <2>. QED  BY <1>1, <2>1, <2>2
<1>6. DOMAIN new.files = F \cup {p}
  BY DEF Write, SetAt
<1>7. /\ DOMAIN After = T \cup {Upto(p, i) : i \in 0 .. n - 1}
      /\ \A k \in DOMAIN After : ~Beneath(p, k) => After[k] = fs.tree[k]
      /\ \A k \in DOMAIN After : Beneath(p, k) =>
            After[k] = AddEntry(GetNode(fs.tree, k), Upto(path, Len(k) + 1), Len(k) = n - 1)
  <2>1. After = WriteToGraph(fs.tree, path)
    BY DEF Write
  <2>2. \A k \in DOMAIN fs.tree : k \in Paths /\ PathKey(k) = k
    BY <1>2 DEF Keys
  <2> HIDE DEF new, After
  <2>. QED  BY <2>1, <2>2, NodesAbove
<1>8. Keys(new) = Keys(fs) \cup {Upto(p, i) : i \in 0 .. n}
  BY <1>1, <1>6, <1>7, WholePath DEF Keys
<1>9. \A k \in Keys(new) : k \in Paths /\ PathKey(k) = k /\ Len(k) \in Nat
  BY <1>1, <1>2, <1>4, <1>8
<1> HIDE DEF p, n, F, T, new, After
<1>10. ASSUME NEW k \in DOMAIN After, NEW e \in After[k]
       PROVE  \/ k \in T /\ e \in fs.tree[k]
              \/ /\ Beneath(p, k)
                 /\ e = [path |-> Upto(path, Len(k) + 1), file |-> Len(k) = n - 1]
  <2>1. k \in Paths /\ PathKey(k) = k /\ Len(k) \in Nat
    BY <1>9 DEF Keys, After
  <2>2. CASE ~Beneath(p, k)
    BY <1>1, <1>4, <1>7, <2>2, UptoUpto DEF Beneath
  <2>3. CASE Beneath(p, k)
    BY <1>7, <2>1, <2>3 DEF AddEntry, GetNode, T
  <2>. QED  BY <2>2, <2>3
<1>11. ASSUME NEW k \in T, NEW e \in fs.tree[k]
       PROVE  e \in After[k]
  BY <1>2, <1>7 DEF AddEntry, GetNode, T, Keys
<1>12. ASSUME NEW k \in DOMAIN After, Beneath(p, k)
       PROVE  \E e \in After[k] : e.path = Upto(path, Len(k) + 1)
  <2> DEFINE e == [path |-> Upto(path, Len(k) + 1), file |-> Len(k) = n - 1]
             node == GetNode(fs.tree, k)
  <2>1. After[k] = IF \E d \in node : d.path = Upto(path, Len(k) + 1) THEN node ELSE node \cup {e}
    BY <1>7, <1>12 DEF AddEntry
  <2>2. e.path = Upto(path, Len(k) + 1)
    OBVIOUS
  <2> HIDE DEF e, node
  <2>. QED  BY <2>1, <2>2
<1>13. Shape(new)
  <2>1. <<>> \notin DOMAIN new.files
    BY <1>1, <1>6, TheEmptyPath DEF Sound, Shape, F
  <2>2. \A k \in DOMAIN After : \A e \in After[k] : e.path \in Paths
    <3> SUFFICES ASSUME NEW k \in DOMAIN After, NEW e \in After[k] PROVE e.path \in Paths
      OBVIOUS
    <3>1. CASE k \in T /\ e \in fs.tree[k]
      BY <3>1 DEF Sound, Shape, T
    <3>2. CASE Beneath(p, k) /\ e = [path |-> Upto(path, Len(k) + 1), file |-> Len(k) = n - 1]
      <4>1. Len(k) + 1 \in 0 .. n
        BY <1>1, <1>9, <3>2 DEF Beneath, Keys, After
      <4>. QED  BY <1>4, <3>2, <4>1
    <3>. QED  BY <1>10, <3>1, <3>2
  <2>3. new = [files |-> new.files, tree |-> new.tree]
    BY DEF new, Write
  <2>. QED  BY <1>9, <2>1, <2>2, <2>3 DEF Shape, After
<1>14. Apart(new)
  <2>1. p \notin {Upto(p, i) : i \in 0 .. n - 1}
    BY <1>1, <1>4
  <2>. QED  BY <1>3, <1>5, <1>6, <1>7, <2>1 DEF Sound, Apart, F, T, After
<1>15. TreeOfFiles(new)
  <2>1. ASSUME NEW k \in Paths, k \in DOMAIN After
        PROVE  \E f \in DOMAIN new.files : Beneath(f, k)
    <3>1. CASE k \in T
      BY <1>6, <2>1, <3>1 DEF Sound, TreeOfFiles, T, F
    <3>2. CASE k \in {Upto(p, i) : i \in 0 .. n - 1}
      BY <1>1, <1>4, <1>6, <3>2 DEF Beneath
    <3>. QED  BY <1>7, <2>1, <3>1, <3>2
  <2>2. ASSUME NEW k \in Paths, NEW f \in DOMAIN new.files, Beneath(f, k)
        PROVE  k \in DOMAIN After
    <3>1. CASE f \in F
      BY <1>7, <2>2, <3>1 DEF Sound, TreeOfFiles, T, F
    <3>2. CASE f = p
      <4>1. Len(k) \in 0 .. n - 1
        BY <1>1, <2>2, <3>2, WholePath DEF Beneath
      <4>. QED  BY <1>7, <2>2, <3>2, <4>1 DEF Beneath
    <3>. QED  BY <1>6, <3>1, <3>2
  <2>. QED  BY <2>1, <2>2 DEF TreeOfFiles, After
<1>16. EntriesOfTree(new)
  <2>1. ASSUME NEW k \in DOMAIN After, NEW e \in After[k]
        PROVE  /\ PathKey(e.path) \in Keys(new)
               /\ Child(PathKey(e.path), k)
               /\ e.file <=> PathKey(e.path) \in DOMAIN new.files
    <3>1. CASE k \in T /\ e \in fs.tree[k]
      <4>1. /\ PathKey(e.path) \in Keys(fs)
            /\ Child(PathKey(e.path), k)
            /\ e.file <=> PathKey(e.path) \in F
        BY <3>1 DEF Sound, EntriesOfTree, T, F
      <4>2. p \in Keys(fs) => p \in F
        BY <1>3 DEF Keys, F, T
      <4>. QED  BY <1>6, <1>8, <4>1, <4>2
    <3>2. CASE Beneath(p, k) /\ e = [path |-> Upto(path, Len(k) + 1), file |-> Len(k) = n - 1]
      <4>1. Len(k) \in Nat /\ Len(k) + 1 \in 0 .. n /\ Len(k) \in 0 .. n
        BY <1>1, <1>9, <3>2 DEF Beneath, Keys, After
      <4>2. PathKey(e.path) = Upto(p, Len(k) + 1)
        BY <1>4, <3>2, <4>1
      <4>3. PathKey(e.path) \in Keys(new)
        BY <1>8, <4>1, <4>2
      <4>4. Child(PathKey(e.path), k)
        BY <1>1, <1>4, <3>2, <4>1, <4>2, UptoUpto DEF Beneath, Child
      <4>5. CASE Len(k) = n - 1
        <5>1. e.file
          BY <3>2, <4>5
        <5>2. Upto(p, Len(k) + 1) = p
          BY <1>1, <4>1, <4>5, WholePath
        <5>. QED  BY <1>6, <4>2, <4>3, <4>4, <5>1, <5>2
      <4>6. CASE Len(k) # n - 1
        <5>1. Len(k) + 1 \in 0 .. n - 1
          BY <1>1, <4>1, <4>6
        <5>2. PathKey(e.path) # p
          BY <1>1, <1>4, <4>1, <4>2, <5>1
        <5>. QED  BY <1>5, <1>6, <3>2, <4>2, <4>3, <4>4, <4>6, <5>1, <5>2
      <4>. QED  BY <4>5, <4>6
    <3>. QED  BY <1>10, <3>1, <3>2
  <2>2. ASSUME NEW k \in DOMAIN After, NEW c \in Keys(new), Child(c, k)
        PROVE  \E e \in After[k] : PathKey(e.path) = c
    <3>1. CASE c \in Keys(fs)
      <4>1. Len(k) \in 0 .. Len(c) /\ Len(k) < Len(c) /\ Upto(c, Len(k)) = k
        BY <1>9, <2>2 DEF Child, Keys, After
      <4>2. k \in T
        BY <3>1, <4>1, AboveAKey DEF T
      <4>3. PICK e \in fs.tree[k] : PathKey(e.path) = c
        BY <2>2, <3>1, <4>2 DEF Sound, EntriesOfTree, T
      <4>. QED  BY <1>11, <4>2, <4>3
    <3>2. CASE c \in {Upto(p, i) : i \in 0 .. n}
      <4>1. PICK i \in 0 .. n : c = Upto(p, i)
        BY <3>2
      <4>2. i = Len(k) + 1 /\ Len(k) \in Nat
        BY <1>4, <1>9, <2>2, <4>1 DEF Child, Keys, After
      <4>3. k = Upto(p, Len(k))
        BY <1>1, <2>2, <4>1, <4>2, UptoUpto DEF Child
      <4>4. Beneath(p, k)
        BY <1>1, <4>2, <4>3 DEF Beneath
      <4>5. PICK e \in After[k] : e.path = Upto(path, i)
        BY <1>12, <4>2, <4>4
      <4>. QED  BY <1>4, <4>1, <4>5
    <3>. QED  BY <1>8, <3>1, <3>2
  <2>. QED  BY <2>1, <2>2 DEF EntriesOfTree, After
<1>. QED  BY <1>13, <1>14, <1>15, <1>16 DEF Sound, new

-----------------------------------------------------------------------------
(* Deletes and removals.                                                   *)

\* k is p or lies somewhere under it, name by name.
WithinOf(k, p) == Len(p) <= Len(k) /\ Upto(k, Len(p)) = p

\* Among naturals there is a smallest one.
LEMMA Smallest ==
    ASSUME NEW S \in SUBSET Nat, S # {}
    PROVE  \E m \in S : \A n \in S : m <= n
<1>1. PICK m \in S : \A n \in S : ~(<<n, m>> \in OpToRel(<, Nat))
  BY NatLessThanWellFounded, WFMin
<1>2. ASSUME NEW n \in S, n < m
      PROVE  FALSE
  <2>1. <<n, m>> \in Nat \X Nat
    BY <1>1
  <2>2. <<n, m>> \in OpToRel(<, Nat)
    BY <1>2, <2>1 DEF OpToRel
  <2>. QED  BY <1>1, <2>2
<1>3. ASSUME NEW n \in S
      PROVE  m <= n
  <2>1. n \in Nat /\ m \in Nat /\ ~(n < m)
    BY <1>2
  <2>. QED  BY <2>1
<1>. QED  BY <1>3

\* A file that is not under a path, and no directory above it, leaves the path
\* at some node above the path.
LEMMA WhereItParts ==
    ASSUME NEW f \in Paths, NEW p \in Paths, NEW i \in Nat, i < Len(p), i < Len(f),
           Upto(f, i) = Upto(p, i),
           ~WithinOf(f, p),
           \A j \in 1 .. Len(p) - 1 : Upto(p, j) # f
    PROVE  \E j \in i .. Len(p) - 1 : /\ j < Len(f)
                                      /\ Upto(f, j) = Upto(p, j)
                                      /\ Upto(f, j + 1) # Upto(p, j + 1)
<1> DEFINE n == Len(p)
           Parted == {m \in i + 1 .. n : ~(m <= Len(f) /\ Upto(f, m) = Upto(p, m))}
<1>1. n \in Nat /\ Len(f) \in Nat /\ Upto(p, n) = p
  BY WholePath
<1>2. n \in Parted
  BY <1>1 DEF WithinOf
<1>3. PICK m \in Parted : \A l \in Parted : m <= l
  <2>1. Parted \in SUBSET Nat
    BY <1>1
  <2> HIDE DEF Parted
  <2>. QED  BY <1>2, <2>1, Smallest
<1>4. m - 1 < Len(f) /\ Upto(f, m - 1) = Upto(p, m - 1)
  <2>1. CASE m = i + 1
    BY <2>1
  <2>2. CASE m # i + 1
    <3>1. m - 1 \in i + 1 .. n /\ m - 1 \notin Parted
      BY <1>1, <1>3, <2>2
    <3>2. m - 1 <= Len(f) /\ Upto(f, m - 1) = Upto(p, m - 1)
      BY <3>1
    <3>3. m - 1 # Len(f)
      BY <1>1, <2>2, <3>1, <3>2, WholePath
    <3>. QED  BY <1>1, <3>1, <3>2, <3>3
  <2>. QED  BY <2>1, <2>2
<1>5. m - 1 \in i .. n - 1 /\ (m - 1) + 1 = m /\ m <= Len(f)
  BY <1>1, <1>3, <1>4
<1>6. Upto(f, m) # Upto(p, m)
  BY <1>3, <1>5
<1>. QED  BY <1>4, <1>5, <1>6

\* What is left when all below a path is gone is a graph again once the nodes
\* above it that became empty are gone (file_system_memory.rs:340-373).
LEMMA PruningKeepsTheGraph ==
    ASSUME NEW fs, Sound(fs), NEW path \in Paths, path # <<>>, ExactPath(fs, path), NEW left,
           DOMAIN left.files = {k \in DOMAIN fs.files : ~WithinOf(k, PathKey(path))},
           DOMAIN left.tree = {k \in DOMAIN fs.tree : ~WithinOf(k, PathKey(path))},
           \A k \in DOMAIN left.tree : left.tree[k] = fs.tree[k]
    PROVE  Sound([files |-> left.files, tree |-> RemoveAbove(left.tree, path)])
<1> DEFINE p == PathKey(path)
           n == Len(path)
           F == DOMAIN fs.files
           T == DOMAIN fs.tree
           FL == DOMAIN left.files
           TL == DOMAIN left.tree
           new == [files |-> left.files, tree |-> RemoveAbove(left.tree, path)]
           After == RemoveAbove(left.tree, path)
           Left(i) == {e \in GetNode(left.tree, Upto(path, i)) : e.path # Upto(path, i + 1)}
           Goes(i) == \A j \in i .. n - 1 : Left(j) = {}
           IsAbove(k) == Len(k) < n /\ k = PathKey(Upto(path, Len(k)))
<1>1. p \in Paths /\ Len(p) = n /\ n \in Nat /\ n > 0 /\ PathKey(p) = p
  BY KeyIsPath, KeyOfKey, WholePath, TheEmptyPath
<1>2. \A k \in Keys(fs) : k \in Paths /\ PathKey(k) = k /\ Len(k) \in Nat
  BY WholePath DEF Sound, Shape
<1>3. \A i \in 0 .. n : /\ Upto(p, i) \in Paths /\ Len(Upto(p, i)) = i
                         /\ PathKey(Upto(p, i)) = Upto(p, i)
                         /\ PathKey(Upto(path, i)) = Upto(p, i)
                         /\ Upto(path, i) \in Paths
  BY <1>1, UptoIsPath, KeyOfUpto
<1>4. \A i \in 1 .. n - 1 : Upto(p, i) \notin F
  BY <1>1, <1>3 DEF ExactPath
<1>5. \A k \in T : \A e \in fs.tree[k] : \A i \in 1 .. n :
         PathKey(e.path) = Upto(p, i) <=> e.path = Upto(path, i)
  BY <1>1, <1>3 DEF ExactPath
<1>6. /\ DOMAIN After = {k \in TL : ~(IsAbove(k) /\ Goes(Len(k)))}
      /\ \A k \in DOMAIN After :
            After[k] = IF IsAbove(k) /\ Goes(Len(k) + 1) THEN Left(Len(k)) ELSE fs.tree[k]
  BY DEF RemoveAbove
<1>7. \A k \in T : IsAbove(k) <=> Beneath(p, k)
  BY <1>1, <1>2, <1>3 DEF Beneath, Keys
<1>8. FL = {k \in F : ~WithinOf(k, p)} /\ TL = {k \in T : ~WithinOf(k, p)}
  OBVIOUS
<1>9. ASSUME NEW i \in 0 .. n - 1
      PROVE  Left(i) = IF Upto(p, i) \in T
                       THEN {e \in fs.tree[Upto(p, i)] : PathKey(e.path) # Upto(p, i + 1)}
                       ELSE {}
  <2>1. PathKey(Upto(path, i)) = Upto(p, i) /\ Len(Upto(p, i)) = i
    BY <1>1, <1>3
  <2>2. Upto(p, i) \in TL <=> Upto(p, i) \in T
    BY <1>1, <1>8, <2>1 DEF WithinOf
  <2>3. GetNode(left.tree, Upto(path, i)) = IF Upto(p, i) \in T THEN fs.tree[Upto(p, i)] ELSE {}
    BY <2>1, <2>2 DEF GetNode
  <2>4. i + 1 \in 1 .. n
    BY <1>1
  <2>. QED  BY <1>5, <2>3, <2>4
<1> HIDE DEF p, n, F, T, FL, TL, new, After, Left, Goes, IsAbove
<1>10. ASSUME NEW k \in T, NEW e \in fs.tree[k]
       PROVE  /\ PathKey(e.path) \in Keys(fs)
              /\ Child(PathKey(e.path), k)
              /\ e.file <=> PathKey(e.path) \in F
  BY DEF Sound, EntriesOfTree, T, F
<1>11. ASSUME NEW k \in Keys(fs)
       PROVE  \E f \in F : Len(k) <= Len(f) /\ Upto(f, Len(k)) = k
  <2>1. CASE k \in F
    BY <1>2, <2>1, WholePath
  <2>2. CASE k \in T
    BY <1>2, <2>2 DEF Sound, TreeOfFiles, Beneath, T, F
  <2>. QED  BY <2>1, <2>2 DEF Keys, T, F
\* A node above the path goes exactly when no file is left beneath it.
<1>12. ASSUME NEW i \in 0 .. n - 1, Goes(i), NEW f \in FL, Beneath(f, Upto(p, i))
       PROVE  FALSE
  <2>1. f \in Paths /\ f \in F /\ ~WithinOf(f, p) /\ f \in Keys(fs) /\ Len(f) \in Nat
    BY <1>2, <1>8 DEF Keys, F
  <2>2. i < Len(f) /\ Upto(f, i) = Upto(p, i)
    BY <1>1, <1>3, <1>12 DEF Beneath
  <2>3. \A j \in 1 .. n - 1 : Upto(p, j) # f
    BY <1>4, <2>1
  <2>4. PICK j \in i .. n - 1 : j < Len(f) /\ Upto(f, j) = Upto(p, j) /\ Upto(f, j + 1) # Upto(p, j + 1)
    BY <1>1, <2>1, <2>2, <2>3, WhereItParts
  <2>5. j \in 0 .. n - 1 /\ j + 1 \in 0 .. Len(f)
    BY <1>1, <2>1, <2>4
  <2>6. Upto(p, j) \in T
    BY <1>3, <2>1, <2>4, <2>5, AboveAKey DEF T
  <2>7. Upto(f, j + 1) \in Keys(fs)
    BY <2>1, <2>4, <2>5, AboveAKey, WholePath DEF Keys
  <2>8. Child(Upto(f, j + 1), Upto(p, j))
    BY <1>3, <2>1, <2>4, <2>5, UptoIsPath, UptoUpto DEF Child
  <2>9. PICK e \in fs.tree[Upto(p, j)] : PathKey(e.path) = Upto(f, j + 1)
    BY <2>6, <2>7, <2>8 DEF Sound, EntriesOfTree, T
  <2>10. e \in Left(j)
    BY <1>9, <2>4, <2>5, <2>6, <2>9
  <2>. QED  BY <1>12, <2>4, <2>10 DEF Goes
<1>13. ASSUME NEW i \in 0 .. n - 1, ~Goes(i)
       PROVE  \E f \in FL : Beneath(f, Upto(p, i))
  <2>1. PICK j \in i .. n - 1 : Left(j) # {}
    BY <1>13 DEF Goes
  <2>2. j \in 0 .. n - 1 /\ j + 1 \in 1 .. n /\ j \in 0 .. n
    BY <1>1, <2>1
  <2>3. PICK e \in fs.tree[Upto(p, j)] : Upto(p, j) \in T /\ PathKey(e.path) # Upto(p, j + 1)
    BY <1>9, <2>1, <2>2
  <2> DEFINE c == PathKey(e.path)
  <2>4. c \in Keys(fs) /\ Len(c) = j + 1 /\ Upto(c, j) = Upto(p, j) /\ c \in Paths
    BY <1>2, <1>3, <1>10, <2>2, <2>3 DEF Child
  <2>5. PICK f \in F : j + 1 <= Len(f) /\ Upto(f, j + 1) = c
    BY <1>11, <2>4
  <2> HIDE DEF c
  <2>6. f \in Paths /\ Len(f) \in Nat
    BY <1>2 DEF Keys, F
  <2>7. ~WithinOf(f, p)
    <3> SUFFICES ASSUME WithinOf(f, p) PROVE FALSE
      OBVIOUS
    <3>1. n <= Len(f) /\ Upto(f, n) = p
      BY <1>1 DEF WithinOf
    <3>2. Upto(f, j + 1) = Upto(p, j + 1)
      BY <1>1, <2>2, <2>6, <3>1, UptoUpto
    <3>. QED  BY <2>3, <2>5, <3>2 DEF c
  <2>8. Upto(f, i) = Upto(p, i)
    <3>1. i \in 0 .. j /\ j + 1 \in 0 .. Len(f) /\ j \in 0 .. j + 1 /\ i \in 0 .. j + 1
      BY <2>1, <2>2, <2>5, <2>6
    <3>2. Upto(f, i) = Upto(c, i)
      BY <2>5, <2>6, <3>1, UptoUpto
    <3>3. Upto(c, i) = Upto(Upto(p, j), i)
      BY <2>4, <3>1, UptoUpto
    <3>. QED  BY <1>1, <2>2, <3>1, <3>2, <3>3, UptoUpto
  <2>9. Beneath(f, Upto(p, i))
    BY <1>1, <1>3, <2>1, <2>5, <2>6, <2>8 DEF Beneath
  <2>. QED  BY <1>8, <2>5, <2>7, <2>9
<1>14. ASSUME NEW k \in DOMAIN After
       PROVE  k \in TL /\ k \in T /\ k \in Paths /\ Len(k) \in Nat /\ ~WithinOf(k, p)
  BY <1>2, <1>6, <1>8 DEF Keys, T
<1>15. \A k \in T : IsAbove(k) => Len(k) \in 0 .. n - 1 /\ k = Upto(p, Len(k)) /\ Beneath(p, k)
  BY <1>1, <1>2, <1>7 DEF Beneath, Keys, T
<1>16. \A k \in Paths : k \in DOMAIN After <=> \E f \in FL : Beneath(f, k)
  <2>1. ASSUME NEW k \in DOMAIN After
        PROVE  \E f \in FL : Beneath(f, k)
    <3>1. CASE IsAbove(k)
      BY <1>6, <1>13, <1>14, <1>15, <3>1
    <3>2. CASE ~IsAbove(k)
      <4>1. PICK f \in F : Beneath(f, k)
        BY <1>14 DEF Sound, TreeOfFiles, T, F
      <4>2. f \in Paths /\ Len(f) \in Nat
        BY <1>2 DEF Keys, F
      <4>3. ~WithinOf(f, p)
        <5> SUFFICES ASSUME WithinOf(f, p) PROVE FALSE
          OBVIOUS
        <5>1. n <= Len(f) /\ Upto(f, n) = p
          BY <1>1 DEF WithinOf
        <5>2. CASE Len(k) < n
          <6>1. Upto(p, Len(k)) = k
            BY <1>1, <1>14, <4>1, <4>2, <5>1, <5>2, UptoUpto DEF Beneath
          <6>. QED  BY <1>1, <1>7, <1>14, <3>2, <5>2, <6>1 DEF Beneath
        <5>3. CASE ~(Len(k) < n)
          <6>1. Upto(k, n) = p
            BY <1>1, <1>14, <4>1, <4>2, <5>1, <5>3, UptoUpto DEF Beneath
          <6>. QED  BY <1>1, <1>14, <5>3, <6>1 DEF WithinOf
        <5>. QED  BY <5>2, <5>3
      <4>. QED  BY <1>8, <4>1, <4>3
    <3>. QED  BY <3>1, <3>2
  <2>2. ASSUME NEW k \in Paths, NEW f \in FL, Beneath(f, k)
        PROVE  k \in DOMAIN After
    <3>1. f \in Paths /\ f \in F /\ ~WithinOf(f, p) /\ Len(f) \in Nat /\ Len(k) \in Nat
      BY <1>2, <1>8, WholePath DEF Keys, F
    <3>2. k \in T
      BY <2>2, <3>1 DEF Sound, TreeOfFiles, T, F
    <3>3. ~WithinOf(k, p)
      <4> SUFFICES ASSUME WithinOf(k, p) PROVE FALSE
        OBVIOUS
      <4>1. n <= Len(k) /\ Upto(k, n) = p
        BY <1>1 DEF WithinOf
      <4>2. Upto(f, n) = p /\ n <= Len(f)
        BY <1>1, <2>2, <3>1, <4>1, UptoUpto DEF Beneath
      <4>. QED  BY <1>1, <3>1, <4>2 DEF WithinOf
    <3>4. ~(IsAbove(k) /\ Goes(Len(k)))
      BY <1>12, <1>15, <2>2, <3>2
    <3>. QED  BY <1>6, <1>8, <3>2, <3>3, <3>4
  <2>. QED  BY <2>1, <2>2
<1>17. FL \subseteq F /\ DOMAIN After \subseteq T /\ (FL \cup DOMAIN After) \subseteq Keys(fs)
  BY <1>8, <1>14 DEF Keys, F, T
\* A child stays a child: it is neither the path nor, above it, gone.
<1>18. ASSUME NEW k \in DOMAIN After, NEW e \in After[k]
       PROVE  /\ e \in fs.tree[k]
              /\ PathKey(e.path) \in FL \cup DOMAIN After
              /\ e.file <=> PathKey(e.path) \in FL
  <2>1. e \in fs.tree[k] /\ (IsAbove(k) => ~Goes(Len(k) + 1) \/ PathKey(e.path) # Upto(p, Len(k) + 1))
    <3>1. CASE IsAbove(k) /\ Goes(Len(k) + 1)
      BY <1>6, <1>9, <1>14, <1>15, <3>1
    <3>2. CASE ~(IsAbove(k) /\ Goes(Len(k) + 1))
      BY <1>6, <3>2
    <3>. QED  BY <3>1, <3>2
  <2> DEFINE c == PathKey(e.path)
  <2>2. c \in Keys(fs) /\ Len(c) = Len(k) + 1 /\ Upto(c, Len(k)) = k /\ (e.file <=> c \in F)
        /\ c \in Paths /\ Len(c) \in Nat
    BY <1>2, <1>10, <1>14, <2>1 DEF Child
  <2> HIDE DEF c
  <2>3. ~WithinOf(c, p)
    <3> SUFFICES ASSUME WithinOf(c, p) PROVE FALSE
      OBVIOUS
    <3>1. n <= Len(c) /\ Upto(c, n) = p
      BY <1>1 DEF WithinOf
    <3>2. CASE Len(k) >= n
      <4>1. Upto(k, n) = p
        BY <1>1, <1>14, <2>2, <3>1, <3>2, UptoUpto
      <4>. QED  BY <1>1, <1>14, <3>2, <4>1 DEF WithinOf
    <3>3. CASE ~(Len(k) >= n)
      <4>1. Len(k) + 1 = n /\ c = p
        BY <1>1, <1>14, <2>2, <3>1, <3>3, WholePath
      <4>2. Beneath(p, k)
        BY <1>1, <1>14, <2>2, <4>1 DEF Beneath
      <4>3. IsAbove(k)
        BY <1>7, <1>14, <4>2
      <4>4. Goes(Len(k) + 1)
        BY <1>1, <4>1 DEF Goes
      <4>5. Upto(p, Len(k) + 1) = c
        BY <1>1, <4>1, WholePath
      <4>. QED  BY <2>1, <4>3, <4>4, <4>5 DEF c
    <3>. QED  BY <3>2, <3>3
  <2>4. ASSUME c \in T, IsAbove(c)
        PROVE  ~Goes(Len(c))
    <3>1. Beneath(p, c) /\ c = Upto(p, Len(c)) /\ Len(c) \in 0 .. n - 1
      BY <1>15, <2>4
    <3>2. Beneath(p, k)
      BY <1>1, <1>14, <2>2, <3>1, UptoUpto DEF Beneath
    <3>3. IsAbove(k)
      BY <1>7, <1>14, <3>2
    <3>. QED  BY <2>1, <2>2, <3>1, <3>3 DEF c
  <2>5. c \in F => c \in FL
    BY <1>8, <2>3
  <2>6. c \in T => c \in DOMAIN After
    BY <1>6, <1>8, <2>3, <2>4
  <2>7. c \in F \cup T
    BY <2>2 DEF Keys, F, T
  <2>. QED  BY <1>17, <2>1, <2>2, <2>5, <2>6, <2>7 DEF c
<1>19. ASSUME NEW k \in DOMAIN After, NEW c \in FL \cup DOMAIN After, Child(c, k)
       PROVE  \E e \in After[k] : PathKey(e.path) = c
  <2>1. c \in Keys(fs) /\ c \in Paths
    BY <1>2, <1>17
  <2>2. PICK e \in fs.tree[k] : PathKey(e.path) = c
    BY <1>14, <1>19, <2>1 DEF Sound, EntriesOfTree, T
  <2>3. ASSUME IsAbove(k), Goes(Len(k) + 1)
        PROVE  c # Upto(p, Len(k) + 1)
    <3> SUFFICES ASSUME c = Upto(p, Len(k) + 1) PROVE FALSE
      OBVIOUS
    <3>1. Len(k) \in 0 .. n - 1 /\ Len(c) = Len(k) + 1
      BY <1>14, <1>15, <1>19, <2>3 DEF Child
    <3>2. CASE Len(k) = n - 1
      <4>1. c = p
        BY <1>1, <3>1, <3>2, WholePath
      <4>2. WithinOf(c, p)
        BY <1>1, <4>1, WholePath DEF WithinOf
      <4>. QED  BY <1>8, <1>14, <4>2
    <3>3. CASE Len(k) # n - 1
      <4>1. Len(k) + 1 \in 1 .. n - 1
        BY <1>1, <3>1, <3>3
      <4>2. c \in DOMAIN After
        BY <1>4, <1>8, <4>1
      <4>3. Beneath(p, c)
        BY <1>1, <3>1, <4>1 DEF Beneath
      <4>4. IsAbove(c)
        BY <1>7, <1>14, <4>2, <4>3
      <4>. QED  BY <1>6, <2>3, <3>1, <4>2, <4>4
    <3>. QED  BY <3>2, <3>3
  <2>4. CASE IsAbove(k) /\ Goes(Len(k) + 1)
    BY <1>6, <1>9, <1>14, <1>15, <2>2, <2>3, <2>4
  <2>5. CASE ~(IsAbove(k) /\ Goes(Len(k) + 1))
    BY <1>6, <2>2, <2>5
  <2>. QED  BY <2>4, <2>5
<1>20. DOMAIN new.files = FL /\ new.tree = After /\ Keys(new) = FL \cup DOMAIN After
  BY DEF new, FL, After, Keys
<1>21. Shape(new)
  <2>1. new = [files |-> new.files, tree |-> new.tree]
    BY DEF new
  <2>. QED  BY <1>2, <1>14, <1>17, <1>18, <1>20, <2>1 DEF Sound, Shape, F, T
<1>22. Apart(new)
  BY <1>17, <1>20 DEF Sound, Apart, F, T
<1>23. TreeOfFiles(new)
  BY <1>16, <1>20 DEF TreeOfFiles
<1>24. EntriesOfTree(new)
  <2>1. ASSUME NEW k \in DOMAIN After, NEW e \in After[k]
        PROVE  Child(PathKey(e.path), k)
    BY <1>10, <1>14, <1>18
  <2>. QED  BY <1>18, <1>19, <1>20, <2>1 DEF EntriesOfTree
<1>. QED  BY <1>21, <1>22, <1>23, <1>24 DEF Sound, new, After

\* An entry after a write was there, or is a part of the path written to.
LEMMA EntriesAfterWrite ==
    ASSUME NEW fs, Sound(fs), NEW path \in Paths, NEW contents,
           NEW k \in DOMAIN Write(fs, path, contents).tree,
           NEW e \in Write(fs, path, contents).tree[k]
    PROVE  \/ k \in DOMAIN fs.tree /\ e \in fs.tree[k]
           \/ \E i \in 1 .. Len(path) : e.path = Upto(path, i)
<1> DEFINE p == PathKey(path)
           n == Len(path)
           T == DOMAIN fs.tree
           After == Write(fs, path, contents).tree
<1>1. p \in Paths /\ Len(p) = n /\ n \in Nat
  BY KeyIsPath, WholePath
<1>2. \A j \in T : j \in Paths /\ PathKey(j) = j
  BY DEF Sound, Shape, Keys
<1>3. \A i \in 0 .. n : Upto(p, i) \in Paths /\ Len(Upto(p, i)) = i /\ PathKey(Upto(p, i)) = Upto(p, i)
  BY <1>1, UptoIsPath, KeyOfUpto, KeyOfKey
<1>4. After = WriteToGraph(fs.tree, path)
  BY DEF Write
<1>5. /\ DOMAIN After = T \cup {Upto(p, i) : i \in 0 .. n - 1}
      /\ \A j \in DOMAIN After : ~Beneath(p, j) => After[j] = fs.tree[j]
      /\ \A j \in DOMAIN After : Beneath(p, j) =>
            After[j] = AddEntry(GetNode(fs.tree, j), Upto(path, Len(j) + 1), Len(j) = n - 1)
  <2> HIDE DEF After
  <2>. QED  BY <1>2, <1>4, NodesAbove
<1>6. k \in Paths /\ PathKey(k) = k /\ Len(k) \in Nat
  BY <1>1, <1>2, <1>3, <1>5, WholePath
<1> HIDE DEF p, n, T, After
<1>7. CASE ~Beneath(p, k)
  BY <1>1, <1>3, <1>5, <1>7, UptoUpto DEF Beneath, T, After
<1>8. CASE Beneath(p, k)
  <2>1. Len(k) + 1 \in 1 .. n
    BY <1>1, <1>6, <1>8 DEF Beneath
  <2>2. \/ k \in T /\ e \in fs.tree[k]
        \/ e = [path |-> Upto(path, Len(k) + 1), file |-> Len(k) = n - 1]
    BY <1>5, <1>6, <1>8 DEF AddEntry, GetNode, T, After
  <2>. QED  BY <2>1, <2>2 DEF n, T
<1>. QED  BY <1>7, <1>8

\* A file that is deleted is the only one that goes, and with it the directories
\* that it alone kept (file_system_memory.rs:195).
THEOREM DeletesKeepTheGraph ==
    ASSUME NEW fs, Sound(fs), NEW path \in Paths, path # <<>>, ExactPath(fs, path),
           CanDelete(fs, path)
    PROVE  /\ Sound(Delete(fs, path))
           /\ Delete(fs, path).files = Without(fs.files, {PathKey(path)})
<1> DEFINE p == PathKey(path)
           less == [fs EXCEPT !.files = Without(@, {p})]
           left == [files |-> Without(Without(fs.files, {p}), {}), tree |-> Without(fs.tree, {})]
<1>1. p \in Paths /\ Len(p) = Len(path) /\ Len(path) \in Nat /\ PathKey(p) = p
  BY KeyIsPath, KeyOfKey, WholePath
<1>2. p \notin DOMAIN fs.tree
  BY DEF CanDelete, IsDir
<1>3. \A k \in Keys(fs) : WithinOf(k, p) <=> k = p
  <2> SUFFICES ASSUME NEW k \in Keys(fs) PROVE WithinOf(k, p) <=> k = p
    OBVIOUS
  <2>1. k \in Paths /\ Len(k) \in Nat
    BY WholePath DEF Sound, Shape
  <2>2. WithinOf(p, p)
    BY <1>1, WholePath DEF WithinOf
  <2>3. ASSUME WithinOf(k, p) PROVE k = p
    <3>1. Len(p) <= Len(k) /\ Upto(k, Len(p)) = p
      BY <2>3 DEF WithinOf
    <3>2. Len(p) = Len(k)
      BY <1>1, <1>2, <2>1, <3>1, AboveAKey
    <3>. QED  BY <2>1, <3>1, <3>2, WholePath
  <2>. QED  BY <2>2, <2>3
<1>4. less.files = Without(fs.files, {p}) /\ less.tree = fs.tree
  BY DEF Sound, Shape
<1>5. GetNode(less.tree, path) = {}
  BY <1>2, <1>4 DEF GetNode
<1>6. Delete(fs, path) = [files |-> left.files, tree |-> RemoveAbove(left.tree, path)]
  BY <1>4, <1>5 DEF Delete, RemoveFromGraph
<1>7. /\ left.files = Without(fs.files, {p})
      /\ DOMAIN left.files = {k \in DOMAIN fs.files : ~WithinOf(k, p)}
      /\ DOMAIN left.tree = {k \in DOMAIN fs.tree : ~WithinOf(k, p)}
      /\ \A k \in DOMAIN left.tree : left.tree[k] = fs.tree[k]
  BY <1>2, <1>3 DEF Without, Keys
<1> HIDE DEF left, less
<1>. QED  BY <1>6, <1>7, PruningKeepsTheGraph

\* A directory that is removed takes what lies in it along, and nothing else
\* (file_system_memory.rs:177).
THEOREM RemovalsKeepTheGraph ==
    ASSUME NEW fs, Sound(fs), NEW path \in Paths, ExactRemoval(fs, path), IsDir(fs, path)
    PROVE  /\ Sound(RemoveDirAll(fs, path))
           /\ RemoveDirAll(fs, path).files
                 = Without(fs.files, {k \in DOMAIN fs.files : IsPrefix(PathKey(path), k)})
<1> DEFINE p == PathKey(path)
           gone == AllChildren(fs, path, TRUE, TRUE)
           left == [files |-> Without(fs.files, gone), tree |-> Without(fs.tree, gone)]
<1>1. p \in Paths /\ Len(p) = Len(path) /\ Len(path) \in Nat /\ PathKey(p) = p
  BY KeyIsPath, KeyOfKey, WholePath
<1>2. p \in DOMAIN fs.tree
  BY DEF IsDir
<1>3. \A k \in Keys(fs) : k \in Paths /\ PathKey(k) = k /\ Len(k) \in Nat
  BY WholePath DEF Sound, Shape
<1>4. \A k \in Keys(fs) : WithinOf(k, p) <=> IsPrefix(p, k)
  BY <1>1, <1>3, PrefixIsUpto DEF WithinOf
<1>5. gone = {k \in Keys(fs) : Under(k, p)}
  BY DEF AllChildren, Keys
<1>6. ASSUME NEW k \in Keys(fs), IsPrefix(p, k)
      PROVE  Under(k, p)
  <2>1. Len(p) <= Len(k) /\ Upto(k, Len(p)) = p
    BY <1>1, <1>3, <1>6, PrefixIsUpto
  <2>2. CASE Len(p) = 0
    BY <2>2 DEF Under
  <2>3. CASE Len(p) # 0
    <3>1. Len(p) - 1 \in 0 .. Len(p) /\ Len(p) \in 1 .. Len(k) /\ Len(p) \in 1 .. Len(p)
      BY <1>1, <1>3, <2>1, <2>3
    <3>2. Upto(k, Len(p) - 1) = Upto(p, Len(p) - 1)
      BY <1>3, <2>1, <3>1, UptoUpto
    <3>3. k[Len(p)] = p[Len(p)]
      BY <1>3, <2>1, <3>1, UptoIsPath
    <3>4. <<p[Len(p)], p[Len(p)]>> \in StartsWith
      <4>1. path[Len(p)] \in DOMAIN Lower
        BY <1>1, <3>1 DEF Paths
      <4>2. p[Len(p)] = Lower[path[Len(p)]]
        BY <1>1, <3>1, KeyIsPath
      <4>. QED  BY <4>1, <4>2, NameAssumption
    <3>. QED  BY <2>1, <3>2, <3>3, <3>4 DEF Under
  <2>. QED  BY <2>2, <2>3
<1>7. gone = {k \in Keys(fs) : IsPrefix(p, k)}
  BY <1>5, <1>6 DEF ExactRemoval
<1>8. RemoveDirAll(fs, path) = [files |-> left.files, tree |-> RemoveAbove(left.tree, path)]
  <2>1. GetNode(fs.tree, path) # {}
    BY <1>2, ADirectoryHasAChild DEF GetNode
  <2>. QED  BY <2>1 DEF RemoveDirAll, RemoveFromGraph
<1>9. /\ left.files = Without(fs.files, {k \in DOMAIN fs.files : IsPrefix(p, k)})
      /\ DOMAIN left.files = {k \in DOMAIN fs.files : ~WithinOf(k, p)}
      /\ DOMAIN left.tree = {k \in DOMAIN fs.tree : ~WithinOf(k, p)}
      /\ \A k \in DOMAIN left.tree : left.tree[k] = fs.tree[k]
  <2>1. DOMAIN fs.files \ gone = DOMAIN fs.files \ {k \in DOMAIN fs.files : IsPrefix(p, k)}
    BY <1>7 DEF Keys
  <2> HIDE DEF gone
  <2>. QED  BY <1>4, <1>7, <2>1 DEF Without, Keys
<1> HIDE DEF left, gone
<1>10. CASE path = <<>>
  <2>1. p = <<>> /\ \A k \in Keys(fs) : WithinOf(k, p)
    BY <1>3, <1>4, <1>10, TheEmptyPath
  <2>2. DOMAIN left.files = {} /\ DOMAIN left.tree = {}
    BY <1>9, <2>1 DEF Keys
  <2>3. DOMAIN RemoveAbove(left.tree, path) = {}
    BY <2>2 DEF RemoveAbove
  <2> DEFINE new == [files |-> left.files, tree |-> RemoveAbove(left.tree, path)]
  <2>4. new.files = left.files /\ new.tree = RemoveAbove(left.tree, path) /\ new = [files |-> new.files, tree |-> new.tree]
    OBVIOUS
  <2> HIDE DEF new
  <2>5. Sound(new)
    BY <2>2, <2>3, <2>4 DEF Sound, Shape, Apart, TreeOfFiles, EntriesOfTree, Keys
  <2>. QED  BY <1>8, <1>9, <2>5 DEF new
<1>11. CASE path # <<>>
  <2>1. ExactPath(fs, path)
    BY DEF ExactRemoval
  <2>2. Sound([files |-> left.files, tree |-> RemoveAbove(left.tree, path)])
    BY <1>9, <1>11, <2>1, PruningKeepsTheGraph
  <2>. QED  BY <1>8, <1>9, <2>2
<1>. QED  BY <1>10, <1>11

\* A rename writes the new file and deletes the old one, and neither loses an
\* entry, as long as the two are not one in another spelling
\* (file_system_memory.rs:214).
THEOREM RenamesKeepTheGraph ==
    ASSUME NEW fs, Sound(fs), NEW from \in Paths, NEW to \in Paths, from # <<>>, to # <<>>,
           ExactRename(fs, from, to), CanRename(fs, from, to)
    PROVE  /\ Sound(Rename(fs, from, to))
           /\ Rename(fs, from, to).files
                 = Without(SetAt(fs.files, PathKey(to), fs.files[PathKey(from)]), {PathKey(from)})
<1> DEFINE p == PathKey(from)
           q == PathKey(to)
           n == Len(from)
           mid == Write(fs, to, Read(fs, from))
<1>1. p \in Paths /\ Len(p) = n /\ n \in Nat /\ n > 0 /\ q \in Paths /\ Len(q) = Len(to) /\ Len(to) \in Nat
  BY KeyIsPath, WholePath, TheEmptyPath
<1>2. p \in DOMAIN fs.files /\ Read(fs, from) = fs.files[p]
  BY DEF CanRename, Read
<1>3. q \notin DOMAIN fs.tree
  BY DEF CanRename, CanWrite, IsDir
<1>4. Sound(mid)
  BY WritesKeepTheGraph DEF ExactRename, ExactPath, CanRename
<1>5. mid.files = SetAt(fs.files, q, fs.files[p])
  BY <1>2 DEF Write
<1>6. \A i \in 1 .. n - 1 : PathKey(Upto(from, i)) \notin DOMAIN mid.files
  <2> SUFFICES ASSUME NEW i \in 1 .. n - 1 PROVE PathKey(Upto(from, i)) \notin DOMAIN mid.files
    OBVIOUS
  <2>1. PathKey(Upto(from, i)) = Upto(p, i)
    BY <1>1, KeyOfUpto
  <2>2. Upto(p, i) \in DOMAIN fs.tree
    BY <1>1, <1>2, AboveAKey DEF Keys
  <2>3. Upto(p, i) \notin DOMAIN fs.files
    BY <2>1 DEF ExactRename, ExactPath
  <2>. QED  BY <1>3, <1>5, <2>1, <2>2, <2>3 DEF SetAt
\* Each part of the old path has an entry, spelled as both paths spell it.
<1>7. ASSUME NEW k \in DOMAIN mid.tree, NEW e \in mid.tree[k], NEW i \in 1 .. n,
             PathKey(Upto(from, i)) = PathKey(e.path)
      PROVE  Upto(from, i) = e.path
  <2>1. CASE k \in DOMAIN fs.tree /\ e \in fs.tree[k]
    BY <1>7, <2>1 DEF ExactRename, ExactPath
  <2>2. CASE \E j \in 1 .. Len(to) : e.path = Upto(to, j)
    <3>1. PICK j \in 1 .. Len(to) : e.path = Upto(to, j)
      BY <2>2
    <3>2. PathKey(Upto(from, i)) = Upto(p, i) /\ Upto(p, i) \in Paths /\ Len(Upto(p, i)) = i
          /\ Upto(p, i - 1) \in Paths /\ Len(Upto(p, i - 1)) = i - 1
      <4>1. i \in 0 .. n /\ i - 1 \in 0 .. n
        BY <1>1
      <4> HIDE DEF n
      <4>2. PathKey(Upto(from, i)) = Upto(p, i)
        BY <4>1, KeyOfUpto DEF n
      <4>. QED  BY <1>1, <4>1, <4>2, UptoIsPath
    <3>3. Upto(p, i - 1) \in DOMAIN fs.tree
      BY <1>1, <1>2, AboveAKey DEF Keys
    <3>4. Upto(p, i) \in Keys(fs)
      <4>1. CASE i = n
        BY <1>1, <1>2, <4>1, WholePath DEF Keys
      <4>2. CASE i # n
        BY <1>1, <1>2, <4>2, AboveAKey DEF Keys
      <4>. QED  BY <4>1, <4>2
    <3>5. Child(Upto(p, i), Upto(p, i - 1))
      BY <1>1, <3>2, UptoUpto DEF Child
    <3>6. PICK d \in fs.tree[Upto(p, i - 1)] : PathKey(d.path) = Upto(p, i)
      BY <3>3, <3>4, <3>5 DEF Sound, EntriesOfTree
    <3>7. d.path = Upto(from, i)
      BY <3>2, <3>3, <3>6 DEF ExactRename, ExactPath
    <3>8. d.path = Upto(to, j)
      BY <1>7, <3>1, <3>2, <3>3, <3>6 DEF ExactRename, ExactPath
    <3>. QED  BY <3>1, <3>7, <3>8
  <2>. QED  BY <1>7, <2>1, <2>2, EntriesAfterWrite
<1>8. ExactPath(mid, from)
  BY <1>6, <1>7 DEF ExactPath
<1>. QED  BY <1>4, <1>5, <1>8, DeletesKeepTheGraph DEF Rename, CanRename

\* What can be done to a file system, with paths that are as good as strings.
Operation(fs, after) ==
    \/ \E path \in Paths \ {<<>>} : \E contents :
          CanWrite(fs, path) /\ ExactPath(fs, path) /\ after = Write(fs, path, contents)
    \/ \E path \in Paths \ {<<>>} :
          CanDelete(fs, path) /\ ExactPath(fs, path) /\ after = Delete(fs, path)
    \/ \E from, to \in Paths \ {<<>>} :
          CanRename(fs, from, to) /\ ExactRename(fs, from, to) /\ after = Rename(fs, from, to)
    \/ \E path \in Paths :
          IsDir(fs, path) /\ ExactRemoval(fs, path) /\ after = RemoveDirAll(fs, path)

\* However long it is used, the graph lists the files and nothing else: no file
\* that a walk misses, no directory without a file.
THEOREM FilesStayListed ==
    ASSUME NEW VARIABLE fs
    PROVE  fs = EmptyFs /\ [][Operation(fs, fs')]_fs => []GraphIsOfFiles(fs)
<1>1. fs = EmptyFs => Sound(fs)
  BY DEF EmptyFs, Sound, Shape, Apart, TreeOfFiles, EntriesOfTree, Keys
<1>2. Sound(fs) /\ [Operation(fs, fs')]_fs => Sound(fs)'
  <2> SUFFICES ASSUME Sound(fs), [Operation(fs, fs')]_fs
               PROVE  Sound(fs')
    OBVIOUS
  <2>1. ASSUME NEW path \in Paths \ {<<>>}, NEW contents,
               CanWrite(fs, path), ExactPath(fs, path), fs' = Write(fs, path, contents)
        PROVE  Sound(fs')
    BY <2>1, WritesKeepTheGraph DEF ExactPath
  <2>2. ASSUME NEW path \in Paths \ {<<>>},
               CanDelete(fs, path), ExactPath(fs, path), fs' = Delete(fs, path)
        PROVE  Sound(fs')
    BY <2>2, DeletesKeepTheGraph
  <2>3. ASSUME NEW from \in Paths \ {<<>>}, NEW to \in Paths \ {<<>>},
               CanRename(fs, from, to), ExactRename(fs, from, to), fs' = Rename(fs, from, to)
        PROVE  Sound(fs')
    BY <2>3, RenamesKeepTheGraph
  <2>4. ASSUME NEW path \in Paths,
               IsDir(fs, path), ExactRemoval(fs, path), fs' = RemoveDirAll(fs, path)
        PROVE  Sound(fs')
    BY <2>4, RemovalsKeepTheGraph
  <2>5. CASE UNCHANGED fs
    BY <2>5
  <2>. QED  BY <2>1, <2>2, <2>3, <2>4, <2>5 DEF Operation
<1>3. Sound(fs) => GraphIsOfFiles(fs)
  BY SoundListsFiles
<1>. QED  BY <1>1, <1>2, <1>3, PTL
=============================================================================
