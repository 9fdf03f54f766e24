---------------------------- MODULE LspServerProofs ----------------------------
(* Theorems about LspServer, for any files, texts, parsers and disks, and any *)
(* number of steps and notifications.                                         *)
EXTENDS LspServer, DocumentsProofs, SequenceTheorems

\* The texts of some files, and what is sent of them.
Buffers == UNION {[S -> Texts] : S \in SUBSET Files}

Messages ==
  [kind : {"open"}, file : Files, text : Texts]
    \cup [kind : {"change"}, file : Files, changes : Seq(ContentChanges)]
    \cup [kind : {"close"}, file : Files]
    \cup [kind : {"watched"}, files : SUBSET Files]

-----------------------------------------------------------------------------
(* What a server has after the notifications on their way to it.             *)

\* What it has is told one notification at a time.
Receives(g, texts, messages) ==
  /\ g[0] = texts
  /\ \A i \in 1 .. Len(messages) : g[i] = Synced(g[i - 1], messages[i])

LEMMA ReceiptsExist ==
  ASSUME NEW texts, NEW S, NEW messages \in Seq(S)
  PROVE  \E g : /\ DOMAIN g = 0 .. Len(messages)
                /\ Receives(g, texts, messages)
<1> DEFINE Told(n, g) == /\ DOMAIN g = 0 .. n
                         /\ g[0] = texts
                         /\ \A i \in 1 .. n : g[i] = Synced(g[i - 1], messages[i])
           Bad == {n \in 0 .. Len(messages) : \A g : ~Told(n, g)}
<1>1. Len(messages) \in Nat
  OBVIOUS
<1>2. ASSUME Bad # {} PROVE FALSE
  <2>1. Bad \in SUBSET Nat
    BY <1>1
  <2>2. PICK m \in Bad : \A n \in Bad : m <= n
    BY <1>2, <2>1, Smallest
  <2>3. m \in 0 .. Len(messages) /\ \A g : ~Told(m, g)
    BY <2>2
  <2>4. m # 0
    <3>1. Told(0, [i \in 0 .. 0 |-> texts])
      OBVIOUS
    <3> QED BY <2>3, <3>1
  <2>5. m - 1 \in 0 .. Len(messages) /\ m - 1 \notin Bad
    BY <1>1, <2>2, <2>3, <2>4
  <2>6. PICK g : Told(m - 1, g)
    BY <2>5
  <2> DEFINE h == [i \in 0 .. m |-> IF i = m THEN Synced(g[m - 1], messages[m]) ELSE g[i]]
  <2>7. Told(m, h)
    <3>1. DOMAIN h = 0 .. m /\ h[0] = texts
      BY <2>3, <2>4, <2>6
    <3>2. ASSUME NEW i \in 1 .. m PROVE h[i] = Synced(h[i - 1], messages[i])
      <4>1. CASE i = m
        BY <2>3, <2>4, <4>1
      <4>2. CASE i # m
        <5>1. i \in 1 .. m - 1 /\ i \in 0 .. m /\ i - 1 \in 0 .. m /\ i - 1 # m
          BY <2>3, <4>2
        <5>2. h[i] = g[i] /\ h[i - 1] = g[i - 1]
          BY <4>2, <5>1
        <5>3. g[i] = Synced(g[i - 1], messages[i])
          BY <2>6, <5>1
        <5> QED BY <5>2, <5>3
      <4> QED BY <4>1, <4>2
    <3> HIDE DEF h
    <3> QED BY <3>1, <3>2
  <2> QED BY <2>3, <2>7
<1>3. Len(messages) \notin Bad
  BY <1>2
<1>4. PICK g : Told(Len(messages), g)
  BY <1>1, <1>3
<1> QED BY <1>4 DEF Receives

LEMMA ReceivedIsTheLast ==
  ASSUME NEW texts, NEW S, NEW messages \in Seq(S), NEW g, Receives(g, texts, messages)
  PROVE  Received(texts, messages) = g[Len(messages)]
<1> DEFINE dom == 0 .. Len(messages)
           Rule(f) == f = [i \in dom |-> IF i = 0 THEN texts ELSE Synced(f[i - 1], messages[i])]
           upTo == CHOOSE f : Rule(f)
<1>1. Len(messages) \in Nat
  OBVIOUS
<1>2. \E f : Rule(f)
  <2> DEFINE f == [i \in dom |-> g[i]]
  <2>1. ASSUME NEW i \in dom PROVE f[i] = IF i = 0 THEN texts ELSE Synced(f[i - 1], messages[i])
    <3>1. CASE i = 0
      BY <3>1 DEF Receives
    <3>2. CASE i # 0
      <4>1. i \in 1 .. Len(messages) /\ i - 1 \in dom
        BY <1>1, <3>2
      <4> QED BY <3>2, <4>1 DEF Receives
    <3> QED BY <3>1, <3>2
  <2>2. f = [i \in dom |-> f[i]]
    OBVIOUS
  <2> HIDE DEF f
  <2>3. Rule(f)
    BY <2>1, <2>2
  <2> QED BY <2>3
<1>3. Rule(upTo)
  BY <1>2
<1> HIDE DEF upTo
<1> DEFINE Bad == {i \in dom : upTo[i] # g[i]}
<1>4. ASSUME Bad # {} PROVE FALSE
  <2>1. Bad \in SUBSET Nat
    BY <1>1
  <2>2. PICK m \in Bad : \A n \in Bad : m <= n
    BY <1>4, <2>1, Smallest
  <2>3. m \in dom /\ upTo[m] # g[m]
    BY <2>2
  <2>4. m # 0
    BY <1>3, <2>3 DEF Receives
  <2>5. m - 1 \in dom /\ m \in 1 .. Len(messages) /\ ~(m <= m - 1)
    BY <1>1, <2>3, <2>4
  <2>6. upTo[m - 1] = g[m - 1]
    BY <2>2, <2>5
  <2>7. upTo[m] = Synced(upTo[m - 1], messages[m])
    BY <1>3, <2>3, <2>4
  <2>8. g[m] = Synced(g[m - 1], messages[m])
    BY <2>5 DEF Receives
  <2> QED BY <2>3, <2>6, <2>7, <2>8
<1>5. upTo[Len(messages)] = g[Len(messages)]
  BY <1>1, <1>4
<1> QED BY <1>5 DEF Received, upTo

\* None, one more at the end, and the first one.
LEMMA ReceivedNone ==
  ASSUME NEW texts
  PROVE  Received(texts, <<>>) = texts
<1> DEFINE g == [i \in {0} |-> texts]
<1>1. <<>> \in Seq({}) /\ Len(<<>>) = 0
  OBVIOUS
<1>2. Receives(g, texts, <<>>)
  BY DEF Receives
<1>3. Received(texts, <<>>) = g[0]
  BY <1>1, <1>2, ReceivedIsTheLast
<1> QED BY <1>3

LEMMA ReceivedOneMore ==
  ASSUME NEW texts, NEW S, NEW messages \in Seq(S), NEW m \in S
  PROVE  Received(texts, Append(messages, m)) = Synced(Received(texts, messages), m)
<1> DEFINE n    == Len(messages)
           more == Append(messages, m)
<1>1. PICK g : Receives(g, texts, messages)
  BY ReceiptsExist
<1>2. Received(texts, messages) = g[n]
  BY <1>1, ReceivedIsTheLast
<1>3. n \in Nat /\ more \in Seq(S) /\ Len(more) = n + 1 /\ more[n + 1] = m
      /\ \A i \in 1 .. n : more[i] = messages[i]
  OBVIOUS
<1> DEFINE h == [i \in 0 .. n + 1 |-> IF i = n + 1 THEN Synced(g[n], m) ELSE g[i]]
<1>4. Receives(h, texts, more)
  <2>1. h[0] = texts
    BY <1>1, <1>3 DEF Receives
  <2>2. ASSUME NEW i \in 1 .. n + 1 PROVE h[i] = Synced(h[i - 1], more[i])
    <3>1. CASE i = n + 1
      BY <1>3, <3>1
    <3>2. CASE i # n + 1
      <4>1. i \in 1 .. n /\ i \in 0 .. n + 1 /\ i - 1 \in 0 .. n + 1 /\ i - 1 # n + 1
        BY <1>3, <3>2
      <4>2. h[i] = g[i] /\ h[i - 1] = g[i - 1]
        BY <3>2, <4>1
      <4>3. g[i] = Synced(g[i - 1], messages[i])
        BY <1>1, <4>1 DEF Receives
      <4> QED BY <1>3, <4>1, <4>2, <4>3
    <3> QED BY <3>1, <3>2
  <2> HIDE DEF h, more
  <2> QED BY <1>3, <2>1, <2>2 DEF Receives
<1>5. Received(texts, more) = h[n + 1]
  BY <1>3, <1>4, ReceivedIsTheLast
<1>6. h[n + 1] = Synced(g[n], m)
  BY <1>3
<1> QED BY <1>2, <1>5, <1>6

LEMMA ReceivedFirst ==
  ASSUME NEW texts, NEW S, NEW messages \in Seq(S), messages # <<>>
  PROVE  Received(texts, messages) = Received(Synced(texts, Head(messages)), Tail(messages))
<1> DEFINE n    == Len(messages)
           rest == Tail(messages)
<1>1. PICK g : Receives(g, texts, messages)
  BY ReceiptsExist
<1>2. Received(texts, messages) = g[n]
  BY <1>1, ReceivedIsTheLast
<1>3. /\ n \in Nat \ {0} /\ Head(messages) = messages[1]
      /\ rest \in Seq(S) /\ Len(rest) = n - 1
      /\ \A i \in 1 .. n - 1 : rest[i] = messages[i + 1]
  <2>1. n \in Nat \ {0} /\ Head(messages) = messages[1]
    OBVIOUS
  <2>2. rest \in Seq(S) /\ Len(rest) = n - 1
    OBVIOUS
  <2>3. \A i \in 1 .. n - 1 : rest[i] = messages[i + 1]
    BY <2>1
  <2> QED BY <2>1, <2>2, <2>3
<1> DEFINE h == [i \in 0 .. n - 1 |-> g[i + 1]]
<1>4. Receives(h, Synced(texts, Head(messages)), rest)
  <2>1. h[0] = Synced(texts, Head(messages))
    <3>1. h[0] = g[1] /\ 1 \in 1 .. n /\ 1 - 1 = 0
      BY <1>3
    <3> QED BY <1>1, <1>3, <3>1 DEF Receives
  <2>2. ASSUME NEW i \in 1 .. n - 1 PROVE h[i] = Synced(h[i - 1], rest[i])
    <3>1. i + 1 \in 1 .. n /\ i \in 0 .. n - 1 /\ i - 1 \in 0 .. n - 1 /\ (i + 1) - 1 = i /\ (i - 1) + 1 = i
      BY <1>3
    <3>2. g[i + 1] = Synced(g[i], messages[i + 1])
      BY <1>1, <3>1 DEF Receives
    <3> QED BY <1>3, <3>1, <3>2
  <2> HIDE DEF h, rest
  <2> QED BY <1>3, <2>1, <2>2 DEF Receives
<1>5. h[n - 1] = g[n]
  BY <1>3
<1> HIDE DEF h, rest
<1>6. Received(Synced(texts, Head(messages)), rest) = h[n - 1]
  BY <1>3, <1>4, ReceivedIsTheLast
<1> USE DEF rest
<1> QED BY <1>2, <1>5, <1>6

-----------------------------------------------------------------------------
(* Texts of files.                                                           *)

LEMMA BuffersAre ==
  ASSUME NEW t \in Buffers
  PROVE  DOMAIN t \in SUBSET Files /\ t \in [DOMAIN t -> Texts]
BY DEF Buffers

LEMMA EmptyIsBuffers == Empty \in Buffers /\ DOMAIN Empty = {}
<1>1. Empty \in [{} -> Texts] /\ DOMAIN Empty = {}
  BY DEF Empty
<1> QED BY <1>1 DEF Buffers

LEMMA PutIsBuffers ==
  ASSUME NEW t \in Buffers, NEW f \in Files, NEW text \in Texts
  PROVE  /\ Put(t, f, text) \in Buffers
         /\ DOMAIN Put(t, f, text) = DOMAIN t \cup {f}
         /\ Put(t, f, text)[f] = text
         /\ \A g \in DOMAIN t \ {f} : Put(t, f, text)[g] = t[g]
<1>1. DOMAIN t \in SUBSET Files /\ t \in [DOMAIN t -> Texts]
  BY BuffersAre
<1>2. Put(t, f, text) \in [DOMAIN t \cup {f} -> Texts] /\ DOMAIN t \cup {f} \in SUBSET Files
  BY <1>1 DEF Put
<1>3. Put(t, f, text) \in Buffers
  BY <1>2 DEF Buffers
<1> QED BY <1>3 DEF Put

LEMMA WithoutIsBuffers ==
  ASSUME NEW t \in Buffers, NEW f
  PROVE  /\ Without(t, f) \in Buffers
         /\ DOMAIN Without(t, f) = DOMAIN t \ {f}
         /\ \A g \in DOMAIN t \ {f} : Without(t, f)[g] = t[g]
<1>1. DOMAIN t \in SUBSET Files /\ t \in [DOMAIN t -> Texts]
  BY BuffersAre
<1>2. Without(t, f) \in [DOMAIN t \ {f} -> Texts] /\ DOMAIN t \ {f} \in SUBSET Files
  BY <1>1 DEF Without
<1>3. Without(t, f) \in Buffers
  BY <1>2 DEF Buffers
<1> QED BY <1>3 DEF Without

LEMMA ExceptIsBuffers ==
  ASSUME NEW t \in Buffers, NEW f, NEW text, f \in DOMAIN t => text \in Texts
  PROVE  /\ [t EXCEPT ![f] = text] \in Buffers
         /\ DOMAIN [t EXCEPT ![f] = text] = DOMAIN t
         /\ f \in DOMAIN t => [t EXCEPT ![f] = text][f] = text
         /\ \A g \in DOMAIN t \ {f} : [t EXCEPT ![f] = text][g] = t[g]
         /\ f \notin DOMAIN t => [t EXCEPT ![f] = text] = t
<1>1. DOMAIN t \in SUBSET Files /\ t \in [DOMAIN t -> Texts]
  BY BuffersAre
<1>2. [t EXCEPT ![f] = text] \in [DOMAIN t -> Texts]
  BY <1>1
<1>3. [t EXCEPT ![f] = text] \in Buffers
  BY <1>1, <1>2 DEF Buffers
<1> QED BY <1>1, <1>3

\* Of whatever notification, and whether or not the file is open.
LEMMA SyncedIsBuffers ==
  ASSUME NEW t \in Buffers, NEW m \in Messages
  PROVE  Synced(t, m) \in Buffers
<1>1. CASE m.kind = "open"
  <2>1. m.file \in Files /\ m.text \in Texts
    BY <1>1 DEF Messages
  <2>2. Synced(t, m) = Put(t, m.file, m.text)
    BY <1>1 DEF Synced
  <2>3. Put(t, m.file, m.text) \in Buffers
    BY <2>1, PutIsBuffers
  <2> QED BY <2>2, <2>3
<1>2. CASE m.kind = "change"
  <2>1. m.file \in Files /\ m.changes \in Seq(ContentChanges)
    BY <1>2 DEF Messages
  <2>2. Synced(t, m) = [t EXCEPT ![m.file] = After(t[m.file], m.changes)]
    BY <1>2 DEF Synced
  <2>3. m.file \in DOMAIN t => After(t[m.file], m.changes) \in Texts
    BY <2>1, AfterIsText, BuffersAre
  <2>4. [t EXCEPT ![m.file] = After(t[m.file], m.changes)] \in Buffers
    BY <2>3, ExceptIsBuffers
  <2> QED BY <2>2, <2>4
<1>3. CASE m.kind = "close"
  <2>1. Synced(t, m) = Without(t, m.file)
    BY <1>3 DEF Synced
  <2> QED BY <2>1, WithoutIsBuffers
<1>4. CASE m.kind = "watched"
  BY <1>4 DEF Synced
<1> QED BY <1>1, <1>2, <1>3, <1>4 DEF Messages

\* A file of a disk is found under its name, and no other is.
LEMMA FileIsFound ==
  ASSUME NEW t \in Buffers, NEW dir, NEW name
  PROVE  /\ \A f \in DOMAIN t : f.dir = dir /\ f.name = name =>
               At(FilesOf(t, dir), name) = Parsed(t[f])
         /\ (\A f \in DOMAIN t : ~(f.dir = dir /\ f.name = name)) =>
               At(FilesOf(t, dir), name) = NoFile
<1>1. DOMAIN t \in SUBSET Files
  BY BuffersAre
<1>2. DOMAIN FilesOf(t, dir) = {f.name : f \in {f \in DOMAIN t : f.dir = dir}}
  BY DEF FilesOf
<1>3. ASSUME NEW f \in DOMAIN t, f.dir = dir, f.name = name
      PROVE  At(FilesOf(t, dir), name) = Parsed(t[f])
  <2>1. name \in DOMAIN FilesOf(t, dir)
    BY <1>2, <1>3
  <2>2. \A g \in DOMAIN t : g.dir = dir /\ g.name = name => g = f
    BY <1>1, <1>3, FilesAssumption
  <2>3. (CHOOSE g \in DOMAIN t : g.dir = dir /\ g.name = name) = f
    BY <1>3, <2>2
  <2>4. FilesOf(t, dir)[name] = Parsed(t[CHOOSE g \in DOMAIN t : g.dir = dir /\ g.name = name])
    BY <1>2, <2>1 DEF FilesOf
  <2> QED BY <2>1, <2>3, <2>4 DEF At
<1>4. ASSUME \A f \in DOMAIN t : ~(f.dir = dir /\ f.name = name)
      PROVE  At(FilesOf(t, dir), name) = NoFile
  BY <1>2, <1>4 DEF At
<1> QED BY <1>3, <1>4

\* What is written to a file of another name is not found under this one.
LEMMA OthersStay ==
  ASSUME NEW a \in Buffers, NEW b \in Buffers, NEW f,
         DOMAIN a \ {f} = DOMAIN b \ {f}, \A g \in DOMAIN a \ {f} : a[g] = b[g],
         NEW dir, NEW name, f.name # name
  PROVE  At(FilesOf(a, dir), name) = At(FilesOf(b, dir), name)
<1>1. CASE \E g \in DOMAIN a : g.dir = dir /\ g.name = name
  <2>1. PICK g \in DOMAIN a : g.dir = dir /\ g.name = name
    BY <1>1
  <2>2. g \in DOMAIN b /\ a[g] = b[g]
    BY <2>1
  <2> QED BY <2>1, <2>2, FileIsFound
<1>2. CASE \A g \in DOMAIN a : ~(g.dir = dir /\ g.name = name)
  <2>1. \A g \in DOMAIN b : ~(g.dir = dir /\ g.name = name)
    BY <1>2
  <2> QED BY <1>2, <2>1, FileIsFound
<1> QED BY <1>1, <1>2

-----------------------------------------------------------------------------
(* Loading a site.                                                           *)

\* What a load reads: the manifest, the name of the definitions, and those.
ManifestIn(files)    == ManifestOf(files, <<"">>)
Named(files)         == DefinitionsName(ManifestIn(files).manifest, files)
DefinitionsIn(files) ==
  ReadDefinitions(At(files, Named(files)), Editing(ManifestIn(files).manifest.editor_types))

LEMMA LoadedIs ==
  ASSUME NEW files
  PROVE  Loaded(files) =
           IF \/ ManifestIn(files) = Err
              \/ ~Range(ManifestIn(files).manifest.archival_version) \subseteq Compatible
              \/ ~Exists(files, Named(files)) \/ DefinitionsIn(files) = Err
           THEN Err
           ELSE [kind     |-> "site",
                 manifest |-> [ManifestIn(files).manifest EXCEPT !.object_file = Named(files)],
                 defs     |-> DefinitionsIn(files).defs]
BY DEF Loaded, SiteOf, ManifestIn, Named, DefinitionsIn

\* A site is made of the files a load looks for, and of nothing else.
LEMMA LoadsWhatItNames ==
  ASSUME NEW a, NEW b, \A name \in LoadNames(a) : At(a, name) = At(b, name)
  PROVE  LoadNames(a) = LoadNames(b) /\ Loaded(a) = Loaded(b)
<1>1. {Canonical, Legacy, Definitions, LegacyDefinitions} \in SUBSET LoadNames(a)
  BY DEF LoadNames
<1>2. \A name \in {Canonical, Legacy, Definitions, LegacyDefinitions} : At(a, name) = At(b, name)
  BY <1>1
<1>3. ManifestName(a) = ManifestName(b) /\ At(a, ManifestName(a)) = At(b, ManifestName(b))
  BY <1>2 DEF ManifestName, Exists
<1>4. ManifestIn(a) = ManifestIn(b)
  BY <1>3 DEF ManifestOf, ManifestIn
<1>5. LoadNames(a) = LoadNames(b)
  BY <1>4 DEF LoadNames, ManifestIn
<1>6. CASE ManifestIn(a) = Err
  <2>1. Loaded(a) = Err /\ Loaded(b) = Err
    BY <1>4, <1>6, LoadedIs
  <2> QED BY <1>5, <2>1
<1>7. CASE ManifestIn(a) # Err
  <2>1. ManifestIn(a).manifest.object_file \in LoadNames(a)
    BY <1>7 DEF LoadNames, ManifestIn
  <2>2. Named(a) = Named(b) /\ Named(a) \in LoadNames(a)
    BY <1>1, <1>2, <1>4, <2>1 DEF DefinitionsName, Exists, Named
  <2>3. DefinitionsIn(a) = DefinitionsIn(b)
    BY <1>4, <2>2 DEF DefinitionsIn
  <2>4. Exists(a, Named(a)) <=> Exists(b, Named(b))
    BY <2>2 DEF Exists
  <2>5. Loaded(a) = Loaded(b)
    BY <1>4, <2>2, <2>3, <2>4, LoadedIs
  <2> QED BY <1>5, <2>5
<1> QED BY <1>6, <1>7

LEMMA SourcesAreEnough ==
  ASSUME NEW files
  PROVE  /\ LoadNames(SourcesOf(files)) = LoadNames(files)
         /\ Loaded(SourcesOf(files)) = Loaded(files)
         /\ \A name \in LoadNames(files) : At(SourcesOf(files), name) = At(files, name)
<1>1. \A name \in LoadNames(files) : At(SourcesOf(files), name) = At(files, name)
  BY DEF SourcesOf, At, Restrict
<1> QED BY <1>1, LoadsWhatItNames

-----------------------------------------------------------------------------
(* What the server knows.                                                    *)

IsState(s) ==
  s = [documents |-> s.documents, sites |-> s.sites, sources |-> s.sources,
       resolved |-> s.resolved, shown |-> s.shown]

\* A directory is looked up once, and a site loaded once.
LEMMA LocatedIs ==
  ASSUME NEW s, IsState(s), NEW dirs
  PROVE  LET w == Located(dirs, s)
         IN  /\ IsState(w)
             /\ w.documents = s.documents /\ w.shown = s.shown
             /\ DOMAIN w.resolved = DOMAIN s.resolved \cup dirs
             /\ \A d \in DOMAIN s.resolved : w.resolved[d] = s.resolved[d]
             /\ \A d \in dirs : d \notin DOMAIN s.resolved => w.resolved[d] = RootsOf(d)
             /\ DOMAIN w.sites = DOMAIN s.sites \cup UNION {w.resolved[d] : d \in dirs}
             /\ DOMAIN w.sources = DOMAIN w.sites
             /\ \A r \in DOMAIN s.sites : w.sites[r] = s.sites[r] /\ w.sources[r] = s.sources[r]
             /\ \A r \in DOMAIN w.sites : r \notin DOMAIN s.sites =>
                   /\ w.sites[r] = Loaded(FilesOf(disk, r))
                   /\ w.sources[r] = SourcesOf(FilesOf(disk, r))
<1> DEFINE known == [d \in DOMAIN s.resolved \cup dirs |->
                        IF d \in DOMAIN s.resolved THEN s.resolved[d] ELSE RootsOf(d)]
           roots == DOMAIN s.sites \cup UNION {known[d] : d \in dirs}
           sitesW == [r \in roots |-> IF r \in DOMAIN s.sites THEN s.sites[r]
                                      ELSE Loaded(FilesOf(disk, r))]
           sourcesW == [r \in roots |-> IF r \in DOMAIN s.sites THEN s.sources[r]
                                        ELSE SourcesOf(FilesOf(disk, r))]
           w == Located(dirs, s)
<1>1. w = [s EXCEPT !.resolved = known, !.sites = sitesW, !.sources = sourcesW]
  BY DEF Located
<1> HIDE DEF known, sitesW, sourcesW, w
<1>2. w = [documents |-> s.documents, sites |-> sitesW, sources |-> sourcesW,
           resolved |-> known, shown |-> s.shown]
  BY <1>1 DEF IsState
<1>3. /\ w.documents = s.documents /\ w.shown = s.shown
      /\ w.resolved = known /\ w.sites = sitesW /\ w.sources = sourcesW
  BY <1>2
<1>4. IsState(w)
  BY <1>2, <1>3 DEF IsState
<1>5. /\ DOMAIN known = DOMAIN s.resolved \cup dirs
      /\ \A d \in DOMAIN s.resolved : known[d] = s.resolved[d]
      /\ \A d \in dirs : d \notin DOMAIN s.resolved => known[d] = RootsOf(d)
  BY DEF known
<1>6. /\ DOMAIN sitesW = roots /\ DOMAIN sourcesW = roots
      /\ \A r \in DOMAIN s.sites : sitesW[r] = s.sites[r] /\ sourcesW[r] = s.sources[r]
      /\ \A r \in roots : r \notin DOMAIN s.sites =>
            sitesW[r] = Loaded(FilesOf(disk, r)) /\ sourcesW[r] = SourcesOf(FilesOf(disk, r))
  BY DEF sitesW, sourcesW
<1> QED BY <1>3, <1>4, <1>5, <1>6 DEF w

\* The sites are those of the directories looked up, each as it was loaded.
Sound(s) ==
  /\ IsState(s)
  /\ s.documents \in Buffers
  /\ DOMAIN s.shown = Files
  /\ DOMAIN s.sites = UNION Range(s.resolved)
  /\ DOMAIN s.sources = DOMAIN s.sites
  /\ \A r \in DOMAIN s.sites : s.sites[r] = Loaded(s.sources[r])

\* What is shown of a file is what the server makes of it by what it knows.
Shows(f, s) ==
  IF f \in DOMAIN s.documents
  THEN /\ s.shown[f] = Diagnosed(f, s.documents[f], s, PositionAt)
       /\ f.toml => f.dir \in DOMAIN s.resolved
  ELSE s.shown[f] = {}

\* Nothing whose change causes a reload has changed since it was looked at.
Current(s) ==
  /\ \A d \in DOMAIN s.resolved : s.resolved[d] = RootsOf(d)
  /\ \A r \in DOMAIN s.sites : \A name \in Markers :
        At(s.sources[r], name) = At(FilesOf(disk, r), name)

\* What a publish looks up changes nothing of what was known.
LEMMA LocatedIsSound ==
  ASSUME NEW s, Sound(s), NEW dirs
  PROVE  LET w == Located(dirs, s)
         IN  /\ Sound(w)
             /\ Current(s) => Current(w)
<1> DEFINE w == Located(dirs, s)
<1>0. IsState(s)
  BY DEF Sound
<1> HIDE DEF w
<1>1. /\ IsState(w)
      /\ w.documents = s.documents /\ w.shown = s.shown
      /\ DOMAIN w.resolved = DOMAIN s.resolved \cup dirs
      /\ \A d \in DOMAIN s.resolved : w.resolved[d] = s.resolved[d]
      /\ \A d \in dirs : d \notin DOMAIN s.resolved => w.resolved[d] = RootsOf(d)
      /\ DOMAIN w.sites = DOMAIN s.sites \cup UNION {w.resolved[d] : d \in dirs}
      /\ DOMAIN w.sources = DOMAIN w.sites
      /\ \A r \in DOMAIN s.sites : w.sites[r] = s.sites[r] /\ w.sources[r] = s.sources[r]
      /\ \A r \in DOMAIN w.sites : r \notin DOMAIN s.sites =>
            /\ w.sites[r] = Loaded(FilesOf(disk, r))
            /\ w.sources[r] = SourcesOf(FilesOf(disk, r))
  BY <1>0, LocatedIs DEF w
<1>2. DOMAIN w.sites = UNION Range(w.resolved)
  <2>1. DOMAIN s.sites = UNION {s.resolved[d] : d \in DOMAIN s.resolved}
    BY DEF Sound, Range
  <2>2. Range(w.resolved) = {w.resolved[d] : d \in DOMAIN s.resolved \cup dirs}
    BY <1>1 DEF Range
  <2>3. {s.resolved[d] : d \in DOMAIN s.resolved} = {w.resolved[d] : d \in DOMAIN s.resolved}
    BY <1>1
  <2>4. ASSUME NEW r PROVE r \in DOMAIN w.sites <=> r \in UNION Range(w.resolved)
    BY <1>1, <2>1, <2>2, <2>3
  <2> QED BY <2>4
<1>3. ASSUME NEW r \in DOMAIN w.sites PROVE w.sites[r] = Loaded(w.sources[r])
  <2>1. CASE r \in DOMAIN s.sites
    BY <1>1, <2>1 DEF Sound
  <2>2. CASE r \notin DOMAIN s.sites
    BY <1>1, <2>2, SourcesAreEnough
  <2> QED BY <2>1, <2>2
<1>4. Sound(w)
  BY <1>1, <1>2, <1>3 DEF Sound
<1>5. ASSUME Current(s) PROVE Current(w)
  <2>1. ASSUME NEW d \in DOMAIN w.resolved PROVE w.resolved[d] = RootsOf(d)
    BY <1>1, <1>5 DEF Current
  <2>2. ASSUME NEW r \in DOMAIN w.sites, NEW name \in Markers
        PROVE  At(w.sources[r], name) = At(FilesOf(disk, r), name)
    <3>1. CASE r \in DOMAIN s.sites
      BY <1>1, <1>5, <3>1 DEF Current
    <3>2. CASE r \notin DOMAIN s.sites
      <4>1. name \in LoadNames(FilesOf(disk, r))
        BY DEF LoadNames, Markers
      <4>2. w.sources[r] = SourcesOf(FilesOf(disk, r))
        BY <1>1, <3>2
      <4> QED BY <4>1, <4>2, SourcesAreEnough
    <3> QED BY <3>1, <3>2
  <2> QED BY <2>1, <2>2 DEF Current
<1> QED BY <1>4, <1>5 DEF w

\* What is made of a text stays what it is while more is looked up.
LEMMA DiagnosedStays ==
  ASSUME NEW s, Sound(s), NEW dirs, NEW f, NEW text, f.toml => f.dir \in DOMAIN s.resolved
  PROVE  Diagnosed(f, text, Located(dirs, s), PositionAt) = Diagnosed(f, text, s, PositionAt)
<1> DEFINE w == Located(dirs, s)
<1>1. IsState(s)
  BY DEF Sound
<1>2. CASE ~f.toml
  BY <1>2 DEF Diagnosed, FaultsIn
<1>3. CASE f.toml
  <2>1. f.dir \in DOMAIN s.resolved /\ s.resolved[f.dir] \in SUBSET DOMAIN s.sites
    BY <1>3 DEF Sound, Range
  <2>2. /\ \A d \in DOMAIN s.resolved : w.resolved[d] = s.resolved[d]
        /\ \A r \in DOMAIN s.sites : w.sites[r] = s.sites[r]
    BY <1>1, LocatedIs
  <2> HIDE DEF w
  <2>3. w.resolved[f.dir] = s.resolved[f.dir]
    BY <2>1, <2>2
  <2>4. \A r \in s.resolved[f.dir] : w.sites[r] = s.sites[r]
    BY <2>1, <2>2
  <2>5. {TomlFaults(f, text, r, w.sites[r]) : r \in w.resolved[f.dir]}
          = {TomlFaults(f, text, r, s.sites[r]) : r \in s.resolved[f.dir]}
    BY <2>3, <2>4
  <2>6. FaultsIn(f, text, w.resolved, w.sites) = FaultsIn(f, text, s.resolved, s.sites)
    BY <1>3, <2>5 DEF FaultsIn
  <2> QED BY <2>6 DEF Diagnosed, w
<1> QED BY <1>2, <1>3

LEMMA PublishIs ==
  ASSUME NEW s, Sound(s), NEW files \in SUBSET DOMAIN s.documents,
         \A f \in Files \ files : Shows(f, s)
  PROVE  LET p == Publish(files, s)
         IN  /\ Sound(p)
             /\ p.documents = s.documents
             /\ \A f \in Files : Shows(f, p)
             /\ Current(s) => Current(p)
<1> DEFINE dirs == {f.dir : f \in {f \in files : f.toml}}
           w    == Located(dirs, s)
           p    == Publish(files, s)
           shownP == [f \in Files |-> IF f \in files THEN Diagnosed(f, s.documents[f], w, PositionAt)
                                      ELSE s.shown[f]]
<1>1. IsState(s) /\ DOMAIN s.documents \in SUBSET Files
  BY BuffersAre DEF Sound
<1>2. Sound(w) /\ (Current(s) => Current(w))
  BY LocatedIsSound
<1>3. /\ IsState(w) /\ w.documents = s.documents /\ w.shown = s.shown
      /\ DOMAIN w.resolved = DOMAIN s.resolved \cup dirs
  BY <1>1, LocatedIs
<1>4. p = [w EXCEPT !.shown = shownP]
  BY DEF Publish
<1> HIDE DEF w, p, shownP
<1>5. p = [documents |-> s.documents, sites |-> w.sites, sources |-> w.sources,
           resolved |-> w.resolved, shown |-> shownP]
  BY <1>3, <1>4 DEF IsState
<1>6. /\ p.documents = s.documents /\ p.shown = shownP
      /\ p.resolved = w.resolved /\ p.sites = w.sites /\ p.sources = w.sources
  BY <1>5
<1>7. IsState(p)
  BY <1>5, <1>6 DEF IsState
<1>8. DOMAIN shownP = Files
  BY DEF shownP
<1>9. Sound(p)
  BY <1>2, <1>3, <1>6, <1>7, <1>8 DEF Sound
<1>10. \A f, text : Diagnosed(f, text, p, PositionAt) = Diagnosed(f, text, w, PositionAt)
  BY <1>6 DEF Diagnosed
<1>11. ASSUME NEW f \in Files PROVE Shows(f, p)
  <2>1. CASE f \in files
    <3>1. p.shown[f] = Diagnosed(f, s.documents[f], w, PositionAt)
      BY <1>6, <2>1 DEF shownP
    <3>2. f.toml => f.dir \in DOMAIN p.resolved
      BY <1>3, <1>6, <2>1
    <3> QED BY <1>6, <1>10, <2>1, <3>1, <3>2 DEF Shows
  <2>2. CASE f \notin files
    <3>1. p.shown[f] = s.shown[f] /\ Shows(f, s)
      BY <1>6, <2>2 DEF shownP
    <3>2. CASE f \in DOMAIN s.documents
      <4>1. s.shown[f] = Diagnosed(f, s.documents[f], s, PositionAt)
            /\ (f.toml => f.dir \in DOMAIN s.resolved)
        BY <3>1, <3>2 DEF Shows
      <4>2. Diagnosed(f, s.documents[f], w, PositionAt) = Diagnosed(f, s.documents[f], s, PositionAt)
        BY <4>1, DiagnosedStays DEF w
      <4>3. f.toml => f.dir \in DOMAIN p.resolved
        BY <1>3, <1>6, <4>1
      <4> QED BY <1>6, <1>10, <3>1, <3>2, <4>1, <4>2, <4>3 DEF Shows
    <3>3. CASE f \notin DOMAIN s.documents
      BY <1>6, <3>1, <3>3 DEF Shows
    <3> QED BY <3>2, <3>3
  <2> QED BY <2>1, <2>2
<1>12. Current(s) => Current(p)
  BY <1>2, <1>6 DEF Current
<1> QED BY <1>6, <1>9, <1>11, <1>12 DEF p

-----------------------------------------------------------------------------
(* Taking a notification.                                                    *)

\* A notification that makes the server load its sites again.
Warns(m) == m.kind = "watched" /\ \E f \in m.files : f.name \in Markers

\* The same knowledge, with other texts and other diagnostics.
With(s, texts, diagnostics) == [s EXCEPT !.documents = texts, !.shown = diagnostics]

LEMMA KnowledgeStays ==
  ASSUME NEW s, Sound(s), NEW texts \in Buffers, NEW diagnostics, DOMAIN diagnostics = Files
  PROVE  LET t == With(s, texts, diagnostics)
         IN  /\ Sound(t) /\ t.documents = texts /\ t.shown = diagnostics
             /\ Current(s) => Current(t)
             /\ \A f \in Files : /\ f \in DOMAIN texts <=> f \in DOMAIN s.documents
                                 /\ f \in DOMAIN texts => texts[f] = s.documents[f]
                                 /\ diagnostics[f] = s.shown[f]
                                 /\ Shows(f, s)
                                 => Shows(f, t)
<1> DEFINE t == With(s, texts, diagnostics)
<1>0. t = [s EXCEPT !.documents = texts, !.shown = diagnostics]
  BY DEF With
<1> HIDE DEF t
<1>1. IsState(s)
  BY DEF Sound
<1>2. t = [documents |-> texts, sites |-> s.sites, sources |-> s.sources,
           resolved |-> s.resolved, shown |-> diagnostics]
  BY <1>0, <1>1 DEF IsState
<1>3. /\ t.documents = texts /\ t.shown = diagnostics
      /\ t.sites = s.sites /\ t.sources = s.sources /\ t.resolved = s.resolved
  BY <1>2
<1>4. IsState(t)
  BY <1>2, <1>3 DEF IsState
<1>5. Sound(t)
  BY <1>3, <1>4 DEF Sound
<1>6. Current(s) => Current(t)
  BY <1>3 DEF Current
<1>7. \A f, text : Diagnosed(f, text, t, PositionAt) = Diagnosed(f, text, s, PositionAt)
  BY <1>3 DEF Diagnosed
<1>8. ASSUME NEW f \in Files, f \in DOMAIN texts <=> f \in DOMAIN s.documents,
             f \in DOMAIN texts => texts[f] = s.documents[f],
             diagnostics[f] = s.shown[f], Shows(f, s)
      PROVE  Shows(f, t)
  <2>1. CASE f \in DOMAIN texts
    <3>1. s.shown[f] = Diagnosed(f, s.documents[f], s, PositionAt)
          /\ (f.toml => f.dir \in DOMAIN s.resolved)
      BY <1>8, <2>1 DEF Shows
    <3>2. t.shown[f] = Diagnosed(f, t.documents[f], t, PositionAt)
      BY <1>3, <1>7, <1>8, <2>1, <3>1
    <3> QED BY <1>3, <2>1, <3>1, <3>2 DEF Shows
  <2>2. CASE f \notin DOMAIN texts
    BY <1>3, <1>8, <2>2 DEF Shows
  <2> QED BY <2>1, <2>2
<1> QED BY <1>3, <1>5, <1>6, <1>8 DEF t

LEMMA OpenedIs ==
  ASSUME NEW s, Sound(s), \A f \in Files : Shows(f, s),
         NEW m \in Messages, m.kind = "open"
  PROVE  LET n == Opened(m, s)
         IN  /\ Sound(n) /\ n.documents = Synced(s.documents, m)
             /\ \A f \in Files : Shows(f, n)
             /\ Current(s) => Current(n)
<1> DEFINE texts == Put(s.documents, m.file, m.text)
           t     == [s EXCEPT !.documents = texts]
<1>1. m.file \in Files /\ m.text \in Texts
  BY DEF Messages
<1>2. s.documents \in Buffers /\ DOMAIN s.shown = Files /\ IsState(s)
  BY DEF Sound
<1>3. /\ texts \in Buffers /\ DOMAIN texts = DOMAIN s.documents \cup {m.file}
      /\ \A f \in DOMAIN s.documents \ {m.file} : texts[f] = s.documents[f]
  <2> DEFINE d == s.documents
             f == m.file
  <2>1. d \in Buffers /\ f \in Files
    BY <1>1, <1>2
  <2> HIDE DEF d, f
  <2>2. /\ Put(d, f, m.text) \in Buffers
        /\ DOMAIN Put(d, f, m.text) = DOMAIN d \cup {f}
        /\ \A g \in DOMAIN d \ {f} : Put(d, f, m.text)[g] = d[g]
    BY <1>1, <2>1, PutIsBuffers
  <2> QED BY <2>2 DEF d, f
<1> HIDE DEF texts
<1>4. t = With(s, texts, s.shown)
  BY <1>2 DEF IsState, With
<1> HIDE DEF t
<1>5. /\ Sound(t) /\ t.documents = texts /\ (Current(s) => Current(t))
      /\ \A f \in Files \ {m.file} : Shows(f, t)
  <2>1. \A f \in Files \ {m.file} : /\ f \in DOMAIN texts <=> f \in DOMAIN s.documents
                                    /\ f \in DOMAIN texts => texts[f] = s.documents[f]
    BY <1>3
  <2> QED BY <1>2, <1>3, <1>4, <2>1, KnowledgeStays
<1>6. Opened(m, s) = Publish({m.file}, t)
  BY DEF Opened, t, texts
<1>7. {m.file} \in SUBSET DOMAIN t.documents
  BY <1>3, <1>5
<1>8. /\ Sound(Publish({m.file}, t)) /\ Publish({m.file}, t).documents = texts
      /\ \A f \in Files : Shows(f, Publish({m.file}, t))
      /\ Current(t) => Current(Publish({m.file}, t))
  BY <1>5, <1>7, PublishIs
<1>9. Synced(s.documents, m) = texts
  BY DEF Synced, texts
<1> QED BY <1>5, <1>6, <1>8, <1>9

LEMMA ChangedIs ==
  ASSUME NEW s, Sound(s), \A f \in Files : Shows(f, s),
         NEW m \in Messages, m.kind = "change"
  PROVE  LET n == Changed(m, s)
         IN  /\ Sound(n) /\ n.documents = Synced(s.documents, m)
             /\ \A f \in Files : Shows(f, n)
             /\ Current(s) => Current(n)
<1> DEFINE texts == [s.documents EXCEPT ![m.file] = After(s.documents[m.file], m.changes)]
           t     == [s EXCEPT !.documents[m.file] = After(@, m.changes)]
<1>1. m.file \in Files /\ m.changes \in Seq(ContentChanges)
  BY DEF Messages
<1>2. s.documents \in Buffers /\ DOMAIN s.shown = Files /\ IsState(s)
  BY DEF Sound
<1>3. m.file \in DOMAIN s.documents => After(s.documents[m.file], m.changes) \in Texts
  BY <1>1, <1>2, AfterIsText, BuffersAre
<1>4. /\ texts \in Buffers /\ DOMAIN texts = DOMAIN s.documents
      /\ \A f \in DOMAIN s.documents \ {m.file} : texts[f] = s.documents[f]
      /\ m.file \notin DOMAIN s.documents => texts = s.documents
  BY <1>2, <1>3, ExceptIsBuffers
<1>5. Synced(s.documents, m) = texts
  BY DEF Synced
<1>6. t = [s EXCEPT !.documents = texts]
  BY <1>2 DEF IsState
<1> HIDE DEF texts
<1>7. t = With(s, texts, s.shown)
  <2> HIDE DEF t
  <2> QED BY <1>2, <1>6 DEF IsState, With
<1>8. CASE m.file \notin DOMAIN s.documents
  <2>1. Changed(m, s) = s
    BY <1>8 DEF Changed
  <2> QED BY <1>4, <1>5, <1>8, <2>1
<1>9. CASE m.file \in DOMAIN s.documents
  <2>1. Changed(m, s) = Publish({m.file}, t)
    BY <1>9 DEF Changed
  <2> HIDE DEF t
  <2>2. /\ Sound(t) /\ t.documents = texts /\ (Current(s) => Current(t))
        /\ \A f \in Files \ {m.file} : Shows(f, t)
    <3>1. \A f \in Files \ {m.file} : /\ f \in DOMAIN texts <=> f \in DOMAIN s.documents
                                      /\ f \in DOMAIN texts => texts[f] = s.documents[f]
      BY <1>4
    <3> QED BY <1>2, <1>4, <1>7, <3>1, KnowledgeStays
  <2>3. {m.file} \in SUBSET DOMAIN t.documents
    BY <1>4, <1>9, <2>2
  <2>4. /\ Sound(Publish({m.file}, t)) /\ Publish({m.file}, t).documents = texts
        /\ \A f \in Files : Shows(f, Publish({m.file}, t))
        /\ Current(t) => Current(Publish({m.file}, t))
    BY <2>2, <2>3, PublishIs
  <2> QED BY <1>5, <2>1, <2>2, <2>4
<1> QED BY <1>8, <1>9

LEMMA ClosedIs ==
  ASSUME NEW s, Sound(s), \A f \in Files : Shows(f, s),
         NEW m \in Messages, m.kind = "close"
  PROVE  LET n == Closed(m, s)
         IN  /\ Sound(n) /\ n.documents = Synced(s.documents, m)
             /\ \A f \in Files : Shows(f, n)
             /\ Current(s) => Current(n)
<1> DEFINE texts       == Without(s.documents, m.file)
           diagnostics == [s.shown EXCEPT ![m.file] = {}]
           n           == Closed(m, s)
<1>1. m.file \in Files
  BY DEF Messages
<1>2. s.documents \in Buffers /\ DOMAIN s.shown = Files /\ IsState(s)
  BY DEF Sound
<1>3. /\ texts \in Buffers /\ DOMAIN texts = DOMAIN s.documents \ {m.file}
      /\ \A f \in DOMAIN s.documents \ {m.file} : texts[f] = s.documents[f]
  BY <1>2, WithoutIsBuffers
<1>4. /\ DOMAIN diagnostics = Files /\ diagnostics[m.file] = {}
      /\ \A f \in Files \ {m.file} : diagnostics[f] = s.shown[f]
  BY <1>1, <1>2
<1>5. n = With(s, texts, diagnostics)
  BY <1>2 DEF Closed, IsState, With
<1>6. Synced(s.documents, m) = texts
  BY DEF Synced
<1> HIDE DEF texts, diagnostics, n
<1>7. /\ Sound(n) /\ n.documents = texts /\ n.shown = diagnostics
      /\ Current(s) => Current(n)
      /\ \A f \in Files \ {m.file} : Shows(f, n)
  <2>1. \A f \in Files \ {m.file} : /\ f \in DOMAIN texts <=> f \in DOMAIN s.documents
                                    /\ f \in DOMAIN texts => texts[f] = s.documents[f]
    BY <1>3
  <2> QED BY <1>3, <1>4, <1>5, <2>1, KnowledgeStays
<1>8. Shows(m.file, n)
  BY <1>3, <1>4, <1>7 DEF Shows
<1> QED BY <1>6, <1>7, <1>8 DEF n

LEMMA WatchedIs ==
  ASSUME NEW s, Sound(s), \A f \in Files : Shows(f, s),
         NEW m \in Messages, m.kind = "watched"
  PROVE  LET n == Watched(m, s)
         IN  /\ Sound(n) /\ n.documents = Synced(s.documents, m)
             /\ \A f \in Files : Shows(f, n)
             /\ Current(s) \/ Warns(m) => Current(n)
<1> DEFINE t == Reloaded(s)
<1>1. Synced(s.documents, m) = s.documents
  BY DEF Synced
<1>2. CASE ~Warns(m)
  <2>1. Watched(m, s) = s
    BY <1>2 DEF Watched, Warns
  <2> QED BY <1>1, <1>2, <2>1
<1>3. CASE Warns(m)
  <2>1. IsState(s) /\ s.documents \in Buffers /\ DOMAIN s.shown = Files
    BY DEF Sound
  <2>0. t = [s EXCEPT !.sites = Empty, !.sources = Empty, !.resolved = Empty]
    BY DEF Reloaded
  <2>2. t = [documents |-> s.documents, sites |-> Empty, sources |-> Empty,
             resolved |-> Empty, shown |-> s.shown]
    <3> DEFINE e == Empty
    <3> HIDE DEF t, e
    <3>1. t = [s EXCEPT !.sites = e, !.sources = e, !.resolved = e]
      BY <2>0 DEF e
    <3>2. t = [documents |-> s.documents, sites |-> e, sources |-> e,
               resolved |-> e, shown |-> s.shown]
      BY <2>1, <3>1 DEF IsState
    <3> QED BY <3>2 DEF e
  <2>3. Watched(m, s) = Publish(DOMAIN s.documents, t)
    BY <1>3 DEF Watched, Warns
  <2> HIDE DEF t
  <2>4. /\ t.documents = s.documents /\ t.sites = Empty /\ t.sources = Empty
        /\ t.resolved = Empty /\ t.shown = s.shown
    BY <2>2
  <2>5. IsState(t)
    BY <2>2, <2>4 DEF IsState
  <2>6. DOMAIN Empty = {} /\ UNION Range(Empty) = {}
    BY EmptyIsBuffers DEF Range
  <2>7. Sound(t)
    BY <2>1, <2>4, <2>5, <2>6 DEF Sound
  <2>8. Current(t)
    BY <2>4, <2>6 DEF Current
  <2>9. \A f \in Files \ DOMAIN s.documents : Shows(f, t)
    BY <2>4 DEF Shows
  <2>10. DOMAIN s.documents \in SUBSET DOMAIN t.documents
    BY <2>4
  <2>11. /\ Sound(Publish(DOMAIN s.documents, t))
         /\ Publish(DOMAIN s.documents, t).documents = s.documents
         /\ \A f \in Files : Shows(f, Publish(DOMAIN s.documents, t))
         /\ Current(Publish(DOMAIN s.documents, t))
    BY <2>4, <2>7, <2>8, <2>9, <2>10, PublishIs
  <2> QED BY <1>1, <2>3, <2>11
<1> QED BY <1>2, <1>3

LEMMA NotifiedIs ==
  ASSUME NEW s, Sound(s), \A f \in Files : Shows(f, s), NEW m \in Messages
  PROVE  LET n == Notified(m, s)
         IN  /\ Sound(n) /\ n.documents = Synced(s.documents, m)
             /\ \A f \in Files : Shows(f, n)
             /\ Current(s) \/ Warns(m) => Current(n)
<1> DEFINE n == Notified(m, s)
<1>1. CASE m.kind = "open"
  <2>1. n = Opened(m, s) /\ ~Warns(m)
    BY <1>1 DEF Notified, Warns
  <2> QED BY <1>1, <2>1, OpenedIs
<1>2. CASE m.kind = "change"
  <2>1. n = Changed(m, s) /\ ~Warns(m)
    BY <1>2 DEF Notified, Warns
  <2> QED BY <1>2, <2>1, ChangedIs
<1>3. CASE m.kind = "close"
  <2>1. n = Closed(m, s) /\ ~Warns(m)
    BY <1>3 DEF Notified, Warns
  <2> QED BY <1>3, <2>1, ClosedIs
<1>4. CASE m.kind = "watched"
  <2>1. n = Watched(m, s)
    BY <1>4 DEF Notified
  <2> QED BY <1>4, <2>1, WatchedIs
<1> QED BY <1>1, <1>2, <1>3, <1>4 DEF Messages

-----------------------------------------------------------------------------
(* The inductive invariant.                                                  *)

\* No file whose change causes a reload is still to be told of.
Quiet ==
  /\ \A f \in events : f.name \notin Markers
  /\ \A i \in 1 .. Len(inbox) : ~Warns(inbox[i])

TextsInv ==
  /\ disk \in Buffers /\ buffers \in Buffers
  /\ inbox \in Seq(Messages) /\ events \in SUBSET Files
  /\ steps \in 0 .. MaxSteps
  /\ TextsAgree

KnowledgeInv ==
  /\ Sound(State)
  /\ \A f \in Files : Shows(f, State)
  /\ Quiet => Current(State)

IInv == TextsInv /\ KnowledgeInv

LEMMA StateIs ==
  /\ State.documents = documents /\ State.shown = shown /\ State.sites = sites
  /\ State.sources = sources /\ State.resolved = resolved
  /\ IsState(State)
BY DEF State, IsState

LEMMA InitIInv == Init => IInv
<1> SUFFICES ASSUME Init PROVE IInv
  OBVIOUS
<1>1. Empty \in Buffers /\ DOMAIN Empty = {} /\ UNION Range(Empty) = {}
  BY EmptyIsBuffers DEF Range
<1>2. disk \in Buffers
  <2>1. DOMAIN disk \in SUBSET Files /\ disk \in [DOMAIN disk -> Texts]
    BY TextsAssumption DEF Init
  <2> QED BY <2>1 DEF Buffers
<1>3. TextsInv
  <2>1. inbox \in Seq(Messages) /\ steps \in 0 .. MaxSteps
    BY TextsAssumption DEF Init
  <2>2. TextsAgree
    BY ReceivedNone DEF Init, TextsAgree
  <2> QED BY <1>1, <1>2, <2>1, <2>2 DEF Init, TextsInv
<1>4. Sound(State)
  BY <1>1, StateIs DEF Init, Sound
<1>5. \A f \in Files : Shows(f, State)
  BY <1>1, StateIs DEF Init, Shows
<1>6. Current(State)
  BY <1>1, StateIs DEF Init, Current
<1> QED BY <1>3, <1>4, <1>5, <1>6 DEF IInv, KnowledgeInv

\* What the server knows is as current as the disk is as it was.
LEMMA CurrentStays ==
  ASSUME Current(State), server' = server, TextsInv, disk' \in Buffers, NEW f,
         DOMAIN disk \ {f} = DOMAIN disk' \ {f}, \A g \in DOMAIN disk \ {f} : disk[g] = disk'[g],
         f.name \notin Markers
  PROVE  Current(State)'
<1>1. State' = State
  BY DEF server, State
<1>2. ASSUME NEW dir PROVE IsRoot(dir)' <=> IsRoot(dir)
  BY DEF IsRoot
<1>3. ASSUME NEW dir PROVE RootsOf(dir)' = RootsOf(dir)
  BY <1>2 DEF RootsOf
<1>4. disk \in Buffers
  BY DEF TextsInv
<1>5. ASSUME NEW r, NEW name \in Markers
      PROVE  At(FilesOf(disk', r), name) = At(FilesOf(disk, r), name)
  <2>1. f.name # name
    OBVIOUS
  <2> QED BY <1>4, <2>1, OthersStay
<1>6. \A d \in DOMAIN State.resolved : State.resolved[d] = RootsOf(d)'
  BY <1>3 DEF Current
<1>7. \A r \in DOMAIN State.sites : \A name \in Markers :
         At(State.sources[r], name) = At(FilesOf(disk', r), name)
  BY <1>5 DEF Current
<1> QED BY <1>1, <1>6, <1>7 DEF Current

LEMMA CurrentUnlessDiskChanges ==
  ASSUME NEW s, Current(s), disk' = disk, State' = s
  PROVE  Current(State)'
<1>1. ASSUME NEW dir PROVE RootsOf(dir)' = RootsOf(dir)
  BY DEF RootsOf, IsRoot
<1>2. \A d \in DOMAIN s.resolved : s.resolved[d] = RootsOf(d)'
  BY <1>1 DEF Current
<1>3. \A r \in DOMAIN s.sites : \A name \in Markers :
         At(s.sources[r], name) = At(FilesOf(disk', r), name)
  BY DEF Current
<1> QED BY <1>2, <1>3 DEF Current

-----------------------------------------------------------------------------
(* The client's steps.                                                       *)

\* The server knows what it knew, and is no less warned.
LEMMA KnowledgeKept ==
  ASSUME KnowledgeInv, server' = server, disk' = disk, Quiet' => Quiet
  PROVE  KnowledgeInv'
<1>1. State' = State
  BY DEF server, State
<1>2. Sound(State)' /\ (\A f \in Files : Shows(f, State))'
  BY <1>1 DEF KnowledgeInv
<1>3. Current(State) => Current(State)'
  BY <1>1, CurrentUnlessDiskChanges
<1> QED BY <1>2, <1>3 DEF KnowledgeInv

\* A notification of its own.
LEMMA NotifyIs ==
  ASSUME TextsInv, NEW m \in Messages, inbox' = Append(inbox, m), documents' = documents
  PROVE  /\ inbox' \in Seq(Messages)
         /\ Received(documents, inbox)' = Synced(buffers, m)
         /\ events' = events => (Quiet' => Quiet)
<1>1. inbox \in Seq(Messages) /\ Received(documents, inbox) = buffers
  BY DEF TextsInv, TextsAgree
<1>2. Received(documents, inbox)' = Synced(buffers, m)
  BY <1>1, ReceivedOneMore
<1>3. /\ inbox' \in Seq(Messages) /\ Len(inbox) \in Nat /\ Len(inbox') = Len(inbox) + 1
      /\ \A i \in 1 .. Len(inbox) : inbox'[i] = inbox[i]
  BY <1>1, AppendProperties
<1>4. ASSUME events' = events, Quiet' PROVE Quiet
  <2>1. \A i \in 1 .. Len(inbox) : ~Warns(inbox'[i])
    BY <1>3, <1>4 DEF Quiet
  <2>2. \A i \in 1 .. Len(inbox) : ~Warns(inbox[i])
    BY <1>3, <2>1
  <2> QED BY <1>4, <2>2 DEF Quiet
<1> QED BY <1>2, <1>3, <1>4

\* A change sent by itself, or with the one before: either way it is received.
LEMMA SentIs ==
  ASSUME TextsInv, NEW f \in DOMAIN buffers, NEW change \in ContentChanges,
         Sent(f, change), documents' = documents, events' = events
  PROVE  /\ inbox' \in Seq(Messages)
         /\ Received(documents, inbox)' = [buffers EXCEPT ![f] = Applied(buffers[f], change)]
         /\ Quiet' => Quiet
<1>1. /\ inbox \in Seq(Messages) /\ Received(documents, inbox) = buffers
      /\ f \in Files /\ Len(inbox) \in Nat
  BY BuffersAre DEF TextsInv, TextsAgree
<1>2. CASE Notify([kind |-> "change", file |-> f, changes |-> <<change>>])
  <2> DEFINE m == [kind |-> "change", file |-> f, changes |-> <<change>>]
  <2>1. m \in Messages
    BY <1>1 DEF Messages
  <2>2. inbox' = Append(inbox, m)
    BY <1>2 DEF Notify
  <2>3. Synced(buffers, m) = [buffers EXCEPT ![f] = After(buffers[f], <<change>>)]
    BY DEF Synced
  <2> HIDE DEF m
  <2>4. After(buffers[f], <<change>>) = Applied(buffers[f], change)
    BY AfterOne
  <2>5. /\ inbox' \in Seq(Messages) /\ Received(documents, inbox)' = Synced(buffers, m)
        /\ Quiet' => Quiet
    BY <2>1, <2>2, NotifyIs
  <2> QED BY <2>3, <2>4, <2>5
<1>3. CASE /\ inbox # <<>> /\ Last(inbox).kind = "change" /\ Last(inbox).file = f
           /\ inbox' = [inbox EXCEPT ![Len(inbox)].changes = Append(@, change)]
  <2> DEFINE n     == Len(inbox)
             last  == inbox[n]
             more  == [last EXCEPT !.changes = Append(last.changes, change)]
             front == [i \in 1 .. n - 1 |-> inbox[i]]
             texts == Received(documents, front)
  <2>1. n \in Nat \ {0} /\ n - 1 \in Nat /\ last \in Messages
    BY <1>1, <1>3
  <2>2. last.kind = "change" /\ last.file = f
    BY <1>3 DEF Last
  <2>3. /\ last = [kind |-> "change", file |-> f, changes |-> last.changes]
        /\ last.changes \in Seq(ContentChanges)
    BY <2>1, <2>2 DEF Messages
  <2>4. more = [kind |-> "change", file |-> f, changes |-> Append(last.changes, change)]
    <3> HIDE DEF last
    <3>1. \A c, d : [[kind |-> "change", file |-> f, changes |-> c] EXCEPT !.changes = d]
                     = [kind |-> "change", file |-> f, changes |-> d]
      OBVIOUS
    <3> QED BY <2>3, <3>1, Zenon
  <2>5. Append(last.changes, change) \in Seq(ContentChanges)
    BY <2>3, AppendProperties
  <2>6. more \in Messages
    BY <1>1, <2>4, <2>5 DEF Messages
  <2>7. front \in Seq(Messages) /\ Len(front) = n - 1
    <3>1. \A i \in 1 .. n - 1 : inbox[i] \in Messages
      BY <1>1, <2>1
    <3>2. front \in [1 .. n - 1 -> Messages]
      BY <3>1
    <3> QED BY <2>1, <3>2, SeqDef
  <2>8. inbox = Append(front, last)
    <3>1. \A i \in 1 .. n : inbox[i] = Append(front, last)[i]
      <4>1. /\ \A i \in 1 .. n - 1 : front[i] = inbox[i]
            /\ \A i \in 1 .. n - 1 : Append(front, last)[i] = front[i]
            /\ Append(front, last)[n] = last /\ inbox[n] = last
        BY <2>1, <2>7, AppendProperties
      <4> HIDE DEF front, last, n
      <4>2. \A i \in 1 .. n : i = n \/ i \in 1 .. n - 1
        BY <2>1
      <4> QED BY <4>1, <4>2
    <3>2. Append(front, last) \in Seq(Messages) /\ Len(Append(front, last)) = n
      BY <2>1, <2>7, AppendProperties
    <3> HIDE DEF front, last
    <3> QED BY <1>1, <3>1, <3>2, SeqEqual
  <2>9. inbox' = Append(front, more)
    <3>1. inbox' = [inbox EXCEPT ![n] = more]
      BY <1>1, <1>3, <2>1
    <3>2. /\ inbox' \in Seq(Messages) /\ Len(inbox') = n
          /\ \A i \in 1 .. n : inbox'[i] = IF i = n THEN more ELSE inbox[i]
      <4> HIDE DEF more
      <4>1. n \in 1 .. Len(inbox)
        BY <2>1
      <4> QED BY <1>1, <2>6, <3>1, <4>1, ExceptSeq
    <3>3. Append(front, more) \in Seq(Messages) /\ Len(Append(front, more)) = n
      BY <2>1, <2>6, <2>7, AppendProperties
    <3>4. \A i \in 1 .. n : inbox'[i] = Append(front, more)[i]
      <4>1. /\ \A i \in 1 .. n - 1 : front[i] = inbox[i]
            /\ \A i \in 1 .. n - 1 : Append(front, more)[i] = front[i]
            /\ Append(front, more)[n] = more
        BY <2>1, <2>6, <2>7, AppendProperties
      <4> HIDE DEF front, more, last, n
      <4>2. \A i \in 1 .. n : i = n \/ (i \in 1 .. n - 1 /\ i # n)
        BY <2>1
      <4> QED BY <3>2, <4>1, <4>2
    <3> HIDE DEF front, more
    <3> QED BY <3>2, <3>3, <3>4, SeqEqual
  <2> HIDE DEF front, more, last
  <2>10. Received(documents, inbox) = Synced(texts, last)
    BY <2>1, <2>7, <2>8, ReceivedOneMore
  <2>11. Received(documents, inbox)' = Synced(texts, more)
    BY <2>6, <2>7, <2>9, ReceivedOneMore
  <2>12. buffers = [texts EXCEPT ![f] = After(texts[f], last.changes)]
    BY <1>1, <2>2, <2>10 DEF Synced
  <2>13. Synced(texts, more) = [texts EXCEPT ![f] = After(texts[f], Append(last.changes, change))]
    BY <2>4 DEF Synced
  <2>14. After(texts[f], Append(last.changes, change)) = Applied(After(texts[f], last.changes), change)
    BY <2>3, AfterOneMore
  <2>15. buffers[f] = After(texts[f], last.changes)
    BY <2>12
  <2>16. [texts EXCEPT ![f] = Applied(buffers[f], change)]
           = [buffers EXCEPT ![f] = Applied(buffers[f], change)]
    <3> DEFINE x == After(texts[f], last.changes)
               y == Applied(buffers[f], change)
    <3> HIDE DEF texts, x, y
    <3>1. buffers = [texts EXCEPT ![f] = x]
      BY <2>12 DEF x
    <3>2. [texts EXCEPT ![f] = y] = [[texts EXCEPT ![f] = x] EXCEPT ![f] = y]
      OBVIOUS
    <3>3. [texts EXCEPT ![f] = y] = [buffers EXCEPT ![f] = y]
      BY <3>1, <3>2
    <3> QED BY <3>3 DEF y
  <2>17. ASSUME Quiet' PROVE Quiet
    <3>1. Len(inbox') = n /\ \A i \in 1 .. n - 1 : inbox'[i] = inbox[i]
      BY <2>1, <2>6, <2>7, <2>8, <2>9, AppendProperties
    <3>2. \A i \in 1 .. n - 1 : ~Warns(inbox[i])
      <4>1. \A i \in 1 .. n : ~Warns(inbox'[i])
        BY <2>17, <3>1 DEF Quiet
      <4> QED BY <2>1, <3>1, <4>1
    <3>3. ~Warns(inbox[n])
      BY <2>2 DEF Warns, last
    <3> QED BY <2>1, <2>17, <3>2, <3>3 DEF Quiet
  <2>18. inbox' \in Seq(Messages)
    BY <2>6, <2>7, <2>9, AppendProperties
  <2> QED BY <2>11, <2>13, <2>14, <2>15, <2>16, <2>17, <2>18
<1> QED BY <1>2, <1>3 DEF Sent

LEMMA CursorIsAPosition ==
  ASSUME NEW text \in Texts, NEW i \in 0 .. Len(text)
  PROVE  Cursor(text, i) \in Positions
<1> DEFINE breaks == {j \in 1 .. i : text[j] = NewLine}
           line   == {j \in 1 .. i : \A b \in breaks : b < j}
           wide   == {j \in line : text[j] \in Wide}
<1>1. i \in Nat
  BY DEF Texts
<1>2. IsFiniteSet(1 .. i)
  BY <1>1, FS_Interval
<1>3. IsFiniteSet(breaks) /\ IsFiniteSet(line) /\ IsFiniteSet(wide)
  <2>1. breaks \in SUBSET (1 .. i) /\ line \in SUBSET (1 .. i) /\ wide \in SUBSET (1 .. i)
    OBVIOUS
  <2> HIDE DEF breaks, line, wide
  <2> QED BY <1>2, <2>1, FS_Subset
<1>4. Cursor(text, i) = [line |-> Cardinality(breaks), unit |-> Cardinality(line) + Cardinality(wide)]
  BY DEF Cursor
<1> HIDE DEF breaks, line, wide
<1>5. Cardinality(breaks) \in Nat /\ Cardinality(line) \in Nat /\ Cardinality(wide) \in Nat
  BY <1>3, FS_CardinalityType
<1> QED BY <1>4, <1>5 DEF Positions

LEMMA StepIs ==
  ASSUME TextsInv, Step
  PROVE  steps' \in 0 .. MaxSteps
BY TextsAssumption DEF TextsInv, Step

\* Whatever the client does to its buffers, it tells the server.
LEMMA OpenIInv ==
  ASSUME IInv, NEW f \in Files, Open(f)
  PROVE  IInv'
<1> DEFINE m == [kind |-> "open", file |-> f, text |-> disk[f]]
<1>1. disk[f] \in Texts /\ TextsInv /\ KnowledgeInv
  BY BuffersAre DEF Open, IInv, TextsInv
<1>2. m \in Messages
  BY <1>1 DEF Messages
<1>3. inbox' = Append(inbox, m) /\ documents' = documents
  BY DEF Open, Notify, server
<1>4. Synced(buffers, m) = Put(buffers, f, disk[f])
  BY DEF Synced
<1> HIDE DEF m
<1>5. /\ inbox' \in Seq(Messages) /\ Received(documents, inbox)' = Synced(buffers, m)
      /\ events' = events => (Quiet' => Quiet)
  BY <1>1, <1>2, <1>3, NotifyIs
<1>6. /\ disk' = disk /\ events' = events /\ server' = server
      /\ buffers' = Put(buffers, f, disk[f]) /\ steps' \in 0 .. MaxSteps
  BY <1>1, StepIs DEF Open
<1>7. buffers' \in Buffers
  BY <1>1, <1>6, PutIsBuffers DEF TextsInv
<1>8. TextsInv'
  BY <1>1, <1>4, <1>5, <1>6, <1>7 DEF TextsInv, TextsAgree
<1>9. KnowledgeInv'
  BY <1>1, <1>5, <1>6, KnowledgeKept
<1> QED BY <1>8, <1>9 DEF IInv

LEMMA SentIInv ==
  ASSUME IInv, NEW f \in DOMAIN buffers, NEW change \in ContentChanges, Step,
         Sent(f, change), UNCHANGED <<disk, events, server>>,
         buffers' = [buffers EXCEPT ![f] = Applied(buffers[f], change)]
  PROVE  IInv'
<1>1. TextsInv /\ KnowledgeInv /\ documents' = documents /\ buffers \in Buffers
  BY DEF IInv, TextsInv, server
<1>2. /\ inbox' \in Seq(Messages)
      /\ Received(documents, inbox)' = [buffers EXCEPT ![f] = Applied(buffers[f], change)]
      /\ Quiet' => Quiet
  BY <1>1, SentIs
<1>3. buffers' \in Buffers
  <2>1. Applied(buffers[f], change) \in Texts
    BY <1>1, AppliedIsText, BuffersAre
  <2> QED BY <1>1, <2>1, ExceptIsBuffers
<1>4. TextsInv'
  BY <1>1, <1>2, <1>3, StepIs DEF TextsInv, TextsAgree
<1>5. KnowledgeInv'
  BY <1>1, <1>2, KnowledgeKept
<1> QED BY <1>4, <1>5 DEF IInv

LEMMA TypeIInv ==
  ASSUME IInv, NEW f \in DOMAIN buffers, NEW from \in 0 .. Len(buffers[f]),
         NEW to \in from .. Len(buffers[f]), NEW new \in Typed[f], Type(f, from, to, new)
  PROVE  IInv'
<1> DEFINE text   == buffers[f]
           change == [whole |-> FALSE, from |-> Cursor(text, from), to |-> Cursor(text, to), text |-> new]
<1>1. f \in Files /\ text \in Texts /\ Len(text) \in Nat /\ new \in Texts
  BY BuffersAre, TextsAssumption DEF IInv, TextsInv, Texts
<1>2. from \in 0 .. Len(text) /\ to \in 0 .. Len(text) /\ to \in from .. Len(text)
  BY <1>1
<1>3. Cursor(text, from) \in Positions /\ Cursor(text, to) \in Positions
  BY <1>1, <1>2, CursorIsAPosition
<1>4. change \in ContentChanges
  BY <1>1, <1>3 DEF ContentChanges
<1>5. Applied(text, change) = Spliced(text, from, to, new)
  BY <1>1, <1>2, EditsLandWhereTheyWereMade
<1>6. /\ Step /\ Sent(f, change) /\ UNCHANGED <<disk, events, server>>
      /\ buffers' = [buffers EXCEPT ![f] = Spliced(text, from, to, new)]
  BY DEF Type
<1> HIDE DEF text, change
<1>7. buffers' = [buffers EXCEPT ![f] = Applied(buffers[f], change)]
  BY <1>5, <1>6 DEF text
<1> QED BY <1>4, <1>6, <1>7, SentIInv

LEMMA ReplaceIInv ==
  ASSUME IInv, NEW f \in DOMAIN buffers, NEW text \in Typed[f], Replace(f, text)
  PROVE  IInv'
<1> DEFINE change == [whole |-> TRUE, text |-> text]
<1>1. f \in Files /\ text \in Texts
  BY BuffersAre, TextsAssumption DEF IInv, TextsInv
<1>2. change \in ContentChanges /\ Applied(buffers[f], change) = text
  BY <1>1 DEF ContentChanges, Applied
<1>3. /\ Step /\ Sent(f, change) /\ UNCHANGED <<disk, events, server>>
      /\ buffers' = [buffers EXCEPT ![f] = text]
  BY DEF Replace
<1> HIDE DEF change
<1>4. buffers' = [buffers EXCEPT ![f] = Applied(buffers[f], change)]
  BY <1>2, <1>3
<1> QED BY <1>2, <1>3, <1>4, SentIInv

LEMMA CloseIInv ==
  ASSUME IInv, NEW f \in DOMAIN buffers, Close(f)
  PROVE  IInv'
<1> DEFINE m == [kind |-> "close", file |-> f]
<1>1. f \in Files /\ TextsInv /\ KnowledgeInv /\ buffers \in Buffers
  BY BuffersAre DEF IInv, TextsInv
<1>2. m \in Messages
  BY <1>1 DEF Messages
<1>3. inbox' = Append(inbox, m) /\ documents' = documents
  BY DEF Close, Notify, server
<1>4. Synced(buffers, m) = Without(buffers, f)
  BY DEF Synced
<1> HIDE DEF m
<1>5. /\ inbox' \in Seq(Messages) /\ Received(documents, inbox)' = Synced(buffers, m)
      /\ events' = events => (Quiet' => Quiet)
  BY <1>1, <1>2, <1>3, NotifyIs
<1>6. /\ disk' = disk /\ events' = events /\ server' = server
      /\ buffers' = Without(buffers, f) /\ steps' \in 0 .. MaxSteps
  BY <1>1, StepIs DEF Close
<1>7. buffers' \in Buffers
  BY <1>1, <1>6, WithoutIsBuffers
<1>8. TextsInv'
  BY <1>1, <1>4, <1>5, <1>6, <1>7 DEF TextsInv, TextsAgree
<1>9. KnowledgeInv'
  BY <1>1, <1>5, <1>6, KnowledgeKept
<1> QED BY <1>8, <1>9 DEF IInv

\* A file is written: the server knows what it knew, unless it will be warned.
LEMMA ChangesIInv ==
  ASSUME IInv, NEW f \in Files, NEW after \in Buffers, Changes(f, after), Step,
         DOMAIN disk \ {f} = DOMAIN after \ {f}, \A g \in DOMAIN disk \ {f} : disk[g] = after[g],
         UNCHANGED <<buffers, inbox, server>>
  PROVE  IInv'
<1>1. /\ TextsInv /\ KnowledgeInv /\ disk' = after /\ events' = events \cup {f}
      /\ documents' = documents /\ State' = State
  BY DEF IInv, Changes, server, State
<1>2. TextsInv'
  BY <1>1, StepIs DEF TextsInv, TextsAgree
<1>3. Sound(State)' /\ (\A g \in Files : Shows(g, State))'
  BY <1>1 DEF KnowledgeInv
<1>4. ASSUME Quiet' PROVE Current(State)'
  <2>1. f.name \notin Markers /\ Quiet
    BY <1>1, <1>4 DEF Quiet
  <2>2. Current(State) /\ disk' \in Buffers
    BY <1>1, <2>1 DEF KnowledgeInv
  <2>3. DOMAIN disk \ {f} = DOMAIN disk' \ {f} /\ \A g \in DOMAIN disk \ {f} : disk[g] = disk'[g]
    BY <1>1
  <2> QED BY <1>1, <2>1, <2>2, <2>3, CurrentStays
<1> QED BY <1>2, <1>3, <1>4 DEF IInv, KnowledgeInv

LEMMA SaveIInv ==
  ASSUME IInv, NEW f \in DOMAIN buffers, Save(f)
  PROVE  IInv'
<1> DEFINE after == Put(disk, f, buffers[f])
<1>1. f \in Files /\ buffers[f] \in Texts /\ disk \in Buffers
  BY BuffersAre DEF IInv, TextsInv
<1>2. /\ after \in Buffers /\ DOMAIN after = DOMAIN disk \cup {f}
      /\ \A g \in DOMAIN disk \ {f} : after[g] = disk[g]
  BY <1>1, PutIsBuffers
<1>3. Changes(f, after) /\ Step /\ UNCHANGED <<buffers, inbox, server>>
  BY DEF Save
<1> HIDE DEF after
<1>4. DOMAIN disk \ {f} = DOMAIN after \ {f}
  BY <1>2
<1> QED BY <1>1, <1>2, <1>3, <1>4, ChangesIInv

LEMMA WriteIInv ==
  ASSUME IInv, NEW f \in Files, NEW text \in OnDisk[f], Write(f, text)
  PROVE  IInv'
<1> DEFINE after == Put(disk, f, text)
<1>1. text \in Texts /\ disk \in Buffers
  BY TextsAssumption DEF IInv, TextsInv
<1>2. /\ after \in Buffers /\ DOMAIN after = DOMAIN disk \cup {f}
      /\ \A g \in DOMAIN disk \ {f} : after[g] = disk[g]
  BY <1>1, PutIsBuffers
<1>3. Changes(f, after) /\ Step /\ UNCHANGED <<buffers, inbox, server>>
  BY DEF Write
<1> HIDE DEF after
<1>4. DOMAIN disk \ {f} = DOMAIN after \ {f}
  BY <1>2
<1> QED BY <1>2, <1>3, <1>4, ChangesIInv

LEMMA DeleteIInv ==
  ASSUME IInv, NEW f \in Files, Delete(f)
  PROVE  IInv'
<1> DEFINE after == Without(disk, f)
<1>1. disk \in Buffers
  BY DEF IInv, TextsInv
<1>2. /\ after \in Buffers /\ DOMAIN after = DOMAIN disk \ {f}
      /\ \A g \in DOMAIN disk \ {f} : after[g] = disk[g]
  BY <1>1, WithoutIsBuffers
<1>3. Changes(f, after) /\ Step /\ UNCHANGED <<buffers, inbox, server>>
  BY DEF Delete
<1> HIDE DEF after
<1>4. DOMAIN disk \ {f} = DOMAIN after \ {f}
  BY <1>2
<1> QED BY <1>2, <1>3, <1>4, ChangesIInv

\* Told, changes are as much a warning as they were before.
LEMMA TellIInv ==
  ASSUME IInv, Tell
  PROVE  IInv'
<1> DEFINE m == [kind |-> "watched", files |-> events]
<1>1. TextsInv /\ KnowledgeInv /\ events \in SUBSET Files /\ inbox \in Seq(Messages)
  BY DEF IInv, TextsInv
<1>2. m \in Messages
  BY <1>1 DEF Messages
<1>3. inbox' = Append(inbox, m) /\ documents' = documents
  BY DEF Tell, Notify, server
<1>4. Synced(buffers, m) = buffers
  BY DEF Synced
<1>5. Warns(m) <=> \E f \in events : f.name \in Markers
  BY DEF Warns
<1> HIDE DEF m
<1>6. inbox' \in Seq(Messages) /\ Received(documents, inbox)' = Synced(buffers, m)
  BY <1>1, <1>2, <1>3, NotifyIs
<1>7. /\ disk' = disk /\ events' = {} /\ server' = server
      /\ buffers' = buffers /\ steps' = steps
  BY DEF Tell
<1>8. TextsInv'
  BY <1>1, <1>4, <1>6, <1>7 DEF TextsInv, TextsAgree
<1>9. ASSUME Quiet' PROVE Quiet
  <2>1. /\ Len(inbox) \in Nat /\ Len(inbox') = Len(inbox) + 1
        /\ \A i \in 1 .. Len(inbox) : inbox'[i] = inbox[i]
        /\ inbox'[Len(inbox) + 1] = m
    BY <1>1, <1>2, <1>3, AppendProperties
  <2>2. \A i \in 1 .. Len(inbox) : ~Warns(inbox'[i])
    BY <1>9, <2>1 DEF Quiet
  <2>3. ~Warns(m)
    <3>1. Len(inbox) + 1 \in 1 .. Len(inbox')
      BY <2>1
    <3> QED BY <1>9, <2>1, <3>1 DEF Quiet
  <2>4. \A i \in 1 .. Len(inbox) : ~Warns(inbox[i])
    BY <2>1, <2>2
  <2> QED BY <1>5, <2>3, <2>4 DEF Quiet
<1>10. KnowledgeInv'
  BY <1>1, <1>7, <1>9, KnowledgeKept
<1> QED BY <1>8, <1>10 DEF IInv

-----------------------------------------------------------------------------
(* The server's step.                                                        *)

LEMMA HandleIInv ==
  ASSUME IInv, Handle
  PROVE  IInv'
<1> DEFINE m == Head(inbox)
           n == Notified(m, State)
<1>1. /\ TextsInv /\ KnowledgeInv /\ inbox \in Seq(Messages) /\ inbox # <<>>
      /\ inbox' = Tail(inbox)
      /\ disk' = disk /\ buffers' = buffers /\ events' = events /\ steps' = steps
  BY DEF IInv, TextsInv, Handle
<1>2. /\ m \in Messages /\ m = inbox[1]
      /\ Tail(inbox) \in Seq(Messages) /\ Len(Tail(inbox)) = Len(inbox) - 1
      /\ \A i \in 1 .. Len(Tail(inbox)) : Tail(inbox)[i] = inbox[i + 1]
      /\ Len(inbox) \in Nat \ {0}
  <2>1. Len(inbox) \in Nat \ {0} /\ m = inbox[1]
    BY <1>1
  <2> QED BY <1>1, <2>1, HeadTailProperties
<1> HIDE DEF m
<1>3. /\ Sound(n) /\ n.documents = Synced(State.documents, m)
      /\ \A f \in Files : Shows(f, n)
      /\ Current(State) \/ Warns(m) => Current(n)
  BY <1>1, <1>2, NotifiedIs DEF KnowledgeInv
<1>4. Becomes(n)
  BY DEF Handle, m
<1> HIDE DEF n
<1>5. State' = n
  BY <1>3, <1>4 DEF Becomes, State, Sound, IsState
<1>6. TextsInv'
  <2>1. documents' = Synced(documents, m)
    BY <1>3, <1>4, StateIs DEF Becomes
  <2>2. Received(documents, inbox) = Received(Synced(documents, m), Tail(inbox))
    BY <1>1, ReceivedFirst DEF m
  <2>3. TextsAgree'
    BY <1>1, <2>1, <2>2 DEF TextsInv, TextsAgree
  <2> QED BY <1>1, <1>2, <2>3 DEF TextsInv
<1>7. ASSUME Quiet' PROVE Current(n)
  <2>1. CASE Warns(m)
    BY <1>3, <2>1
  <2>2. CASE ~Warns(m)
    <3>1. \A f \in events : f.name \notin Markers
      BY <1>1, <1>7 DEF Quiet
    <3>2. ASSUME NEW i \in 1 .. Len(inbox) PROVE ~Warns(inbox[i])
      <4>1. CASE i = 1
        BY <1>2, <2>2, <4>1
      <4>2. CASE i # 1
        <5>1. i - 1 \in 1 .. Len(Tail(inbox)) /\ (i - 1) + 1 = i
          BY <1>2, <4>2
        <5>2. ~Warns(Tail(inbox)[i - 1]) /\ Tail(inbox)[i - 1] = inbox[(i - 1) + 1]
          BY <1>1, <1>2, <1>7, <5>1 DEF Quiet
        <5> QED BY <5>1, <5>2
      <4> QED BY <4>1, <4>2
    <3>3. Quiet
      BY <3>1, <3>2 DEF Quiet
    <3> QED BY <1>1, <1>3, <3>3 DEF KnowledgeInv
  <2> QED BY <2>1, <2>2
<1>8. Current(n) => Current(State)'
  BY <1>1, <1>5, CurrentUnlessDiskChanges
<1>9. Sound(State)' /\ (\A f \in Files : Shows(f, State))'
  BY <1>3, <1>5
<1> QED BY <1>6, <1>7, <1>8, <1>9 DEF IInv, KnowledgeInv

LEMMA NextIInv == IInv /\ [Next]_vars => IInv'
<1> SUFFICES ASSUME IInv, [Next]_vars PROVE IInv'
  OBVIOUS
<1>1. CASE UNCHANGED vars
  <2>1. /\ disk' = disk /\ buffers' = buffers /\ inbox' = inbox /\ events' = events
        /\ server' = server /\ steps' = steps /\ documents' = documents
    BY <1>1 DEF vars, server
  <2>2. TextsInv'
    BY <2>1 DEF IInv, TextsInv, TextsAgree
  <2>3. KnowledgeInv'
    BY <2>1, KnowledgeKept DEF IInv, Quiet
  <2> QED BY <2>2, <2>3 DEF IInv
<1>2. ASSUME NEW f \in Files, Open(f) PROVE IInv'
  BY <1>2, OpenIInv
<1>3. ASSUME NEW f \in DOMAIN buffers, NEW from \in 0 .. Len(buffers[f]),
             NEW to \in from .. Len(buffers[f]), NEW new \in Typed[f], Type(f, from, to, new)
      PROVE  IInv'
  BY <1>3, TypeIInv
<1>4. ASSUME NEW f \in DOMAIN buffers, NEW text \in Typed[f], Replace(f, text) PROVE IInv'
  BY <1>4, ReplaceIInv
<1>5. ASSUME NEW f \in DOMAIN buffers, Close(f) PROVE IInv'
  BY <1>5, CloseIInv
<1>6. ASSUME NEW f \in DOMAIN buffers, Save(f) PROVE IInv'
  BY <1>6, SaveIInv
<1>7. ASSUME NEW f \in Files, NEW text \in OnDisk[f], Write(f, text) PROVE IInv'
  BY <1>7, WriteIInv
<1>8. ASSUME NEW f \in Files, Delete(f) PROVE IInv'
  BY <1>8, DeleteIInv
<1>9. CASE Tell
  BY <1>9, TellIInv
<1>10. CASE Handle
  BY <1>10, HandleIInv
<1> QED BY <1>1, <1>2, <1>3, <1>4, <1>5, <1>6, <1>7, <1>8, <1>9, <1>10 DEF Next

LEMMA IInvAlways == Spec => []IInv
BY InitIInv, NextIInv, PTL DEF Spec

-----------------------------------------------------------------------------
(* Theorems.                                                                 *)

\* The server has the client's buffers, whatever was typed, and wherever: with
\* the notifications on their way they are the same texts (documents.rs:44-60).
THEOREM BuffersAlwaysAgree == Spec => []BuffersAgree
<1>1. IInv => BuffersAgree
  <2> SUFFICES ASSUME IInv PROVE BuffersAgree
    OBVIOUS
  <2>1. TextsInv /\ Sound(State) /\ documents \in Buffers
    BY StateIs DEF IInv, KnowledgeInv, Sound
  <2>2. DOMAIN disk \cup DOMAIN buffers \cup DOMAIN documents \cup events \in SUBSET Files
    BY <2>1, BuffersAre DEF TextsInv
  <2>3. \A f \in DOMAIN documents : documents[f] \in Texts
    BY <2>1, BuffersAre
  <2>4. DOMAIN shown = Files /\ DOMAIN sites = UNION Range(resolved)
    BY <2>1, StateIs DEF Sound
  <2> QED BY <2>1, <2>2, <2>3, <2>4 DEF BuffersAgree, TypeOK, TextsInv
<1> QED BY <1>1, IInvAlways, PTL

\* Settled, the server's knowledge is what a load would now find.
LEMMA SettledKnows ==
  ASSUME IInv, Settled, UnwatchedKept
  PROVE  /\ documents = buffers
         /\ \A d \in DOMAIN resolved : resolved[d] = RootsOf(d) /\ resolved[d] \in SUBSET DOMAIN sites
         /\ \A r \in DOMAIN sites : sites[r] = Loaded(FilesOf(disk, r))
<1>1. TextsInv /\ Sound(State) /\ inbox = <<>> /\ events = {}
  BY DEF IInv, KnowledgeInv, Settled
<1>2. documents = buffers
  BY <1>1, ReceivedNone DEF TextsInv, TextsAgree
<1>3. Current(State)
  <2>1. Quiet
    BY <1>1 DEF Quiet
  <2> QED BY <2>1 DEF IInv, KnowledgeInv
<1>4. ASSUME NEW d \in DOMAIN resolved
      PROVE  resolved[d] = RootsOf(d) /\ resolved[d] \in SUBSET DOMAIN sites
  <2>1. resolved[d] = RootsOf(d)
    BY <1>3, StateIs DEF Current
  <2>2. resolved[d] \in SUBSET UNION Range(resolved)
    BY DEF Range
  <2> QED BY <1>1, <2>1, <2>2, StateIs DEF Sound
<1>5. ASSUME NEW r \in DOMAIN sites PROVE sites[r] = Loaded(FilesOf(disk, r))
  <2>1. sites[r] = Loaded(sources[r])
    BY <1>1, StateIs DEF Sound
  <2>2. ASSUME NEW name \in LoadNames(sources[r])
        PROVE  At(sources[r], name) = At(FilesOf(disk, r), name)
    <3>1. CASE name \in Markers
      BY <1>3, <3>1, StateIs DEF Current
    <3>2. CASE name \notin Markers
      BY <3>2 DEF UnwatchedKept
    <3> QED BY <3>1, <3>2
  <2>3. Loaded(sources[r]) = Loaded(FilesOf(disk, r))
    BY <2>2, LoadsWhatItNames
  <2> QED BY <2>1, <2>3
<1> QED BY <1>2, <1>4, <1>5

\* What is wrong with a buffer, settled, is what a server that has just started
\* would find.
LEMMA SettledFinds ==
  ASSUME IInv, Settled, UnwatchedKept, NEW f \in DOMAIN buffers
  PROVE  /\ shown[f] = Diagnosed(f, buffers[f], State, PositionAt)
         /\ f.toml => /\ resolved[f.dir] = RootsOf(f.dir)
                      /\ \A r \in resolved[f.dir] : sites[r] = Loaded(FilesOf(disk, r))
<1>1. /\ documents = buffers
      /\ \A d \in DOMAIN resolved : resolved[d] = RootsOf(d) /\ resolved[d] \in SUBSET DOMAIN sites
      /\ \A r \in DOMAIN sites : sites[r] = Loaded(FilesOf(disk, r))
  BY SettledKnows
<1>2. f \in Files /\ Shows(f, State)
  BY BuffersAre DEF IInv, TextsInv, KnowledgeInv
<1>3. shown[f] = Diagnosed(f, buffers[f], State, PositionAt) /\ (f.toml => f.dir \in DOMAIN resolved)
  BY <1>1, <1>2, StateIs DEF Shows
<1> QED BY <1>1, <1>3

LEMMA FreshFinds ==
  ASSUME NEW dir
  PROVE  /\ Located({dir}, Restarted).resolved[dir] = RootsOf(dir)
         /\ \A r \in RootsOf(dir) : Located({dir}, Restarted).sites[r] = Loaded(FilesOf(disk, r))
<1> DEFINE s == Restarted
           w == Located({dir}, s)
<1>1. IsState(s) /\ DOMAIN s.sites = {} /\ DOMAIN s.resolved = {}
  BY EmptyIsBuffers DEF Restarted, IsState
<1> HIDE DEF s
<1>2. /\ \A d \in {dir} : d \notin DOMAIN s.resolved => w.resolved[d] = RootsOf(d)
      /\ DOMAIN w.sites = DOMAIN s.sites \cup UNION {w.resolved[d] : d \in {dir}}
      /\ \A r \in DOMAIN w.sites : r \notin DOMAIN s.sites => w.sites[r] = Loaded(FilesOf(disk, r))
  BY <1>1, LocatedIs
<1> HIDE DEF w
<1>3. w.resolved[dir] = RootsOf(dir)
  BY <1>1, <1>2
<1>4. \A r \in RootsOf(dir) : r \in DOMAIN w.sites
  BY <1>2, <1>3
<1>5. \A r \in RootsOf(dir) : w.sites[r] = Loaded(FilesOf(disk, r))
  BY <1>1, <1>2, <1>4
<1> QED BY <1>3, <1>5 DEF s, w

\* Once nothing is on its way, what is shown of every buffer is what a server
\* started now would show, at the places the protocol gives, and nothing is
\* shown of a closed one: through any interleaving of edits, saves, other
\* programs' writes and reloads, no diagnostic is left behind (server.rs:123-140).
THEOREM ShownAlwaysFresh ==
  ASSUME \A text \in Texts : \A fault : SpanLies(text, fault)
  PROVE  Spec => []ShownIsFresh
<1>1. IInv => ShownIsFresh
  <2> SUFFICES ASSUME IInv, Settled, UnwatchedKept, NEW f \in Files
               PROVE  shown[f] = IF f \in DOMAIN buffers THEN Fresh(f) ELSE {}
    BY DEF ShownIsFresh
  <2>1. CASE f \notin DOMAIN buffers
    BY <2>1, SettledKnows, StateIs DEF IInv, KnowledgeInv, Shows
  <2>2. CASE f \in DOMAIN buffers
    <3> DEFINE text  == buffers[f]
               w     == Located({f.dir}, Restarted)
               found == FaultsIn(f, text, resolved, sites)
    <3>1. text \in Texts
      BY <2>2, BuffersAre DEF IInv, TextsInv
    <3>2. shown[f] = Placed(text, found, PositionAt)
      BY <2>2, SettledFinds, StateIs DEF Diagnosed
    <3>3. FaultsIn(f, text, w.resolved, w.sites) = found
      <4>1. CASE ~f.toml
        BY <4>1 DEF FaultsIn
      <4>2. CASE f.toml
        <5>1. /\ resolved[f.dir] = RootsOf(f.dir)
              /\ \A r \in resolved[f.dir] : sites[r] = Loaded(FilesOf(disk, r))
          BY <2>2, <4>2, SettledFinds
        <5>2. /\ w.resolved[f.dir] = RootsOf(f.dir)
              /\ \A r \in RootsOf(f.dir) : w.sites[r] = Loaded(FilesOf(disk, r))
          BY FreshFinds
        <5> HIDE DEF w
        <5>3. {TomlFaults(f, text, r, w.sites[r]) : r \in w.resolved[f.dir]}
                = {TomlFaults(f, text, r, sites[r]) : r \in resolved[f.dir]}
          BY <5>1, <5>2
        <5> QED BY <4>2, <5>3 DEF FaultsIn
      <4> QED BY <4>1, <4>2
    <3> HIDE DEF found
    <3>4. Fresh(f) = Placed(text, found, Cursor)
      BY <3>3 DEF Fresh, Diagnosed
    <3> HIDE DEF text
    <3>5. Placed(text, found, PositionAt) = Placed(text, found, Cursor)
      <4>1. ASSUME NEW e
            PROVE  /\ PositionAt(text, KeySpan(text, e).from) = Cursor(text, KeySpan(text, e).from)
                   /\ PositionAt(text, KeySpan(text, e).to) = Cursor(text, KeySpan(text, e).to)
        BY <3>1, PositionIsTheProtocols DEF SpanLies
      <4> QED BY <4>1 DEF Placed
    <3> QED BY <2>2, <3>2, <3>4, <3>5
  <2> QED BY <2>1, <2>2
<1> QED BY <1>1, IInvAlways, PTL

-----------------------------------------------------------------------------
(* The server and the loader.                                                *)

\* A manifest has the fields of a manifest.
LEMMA ManifestHasFields ==
  ASSUME NEW files, ManifestIn(files) # Err
  PROVE  LET m == ManifestIn(files).manifest
         IN  m = [k \in DOMAIN DefaultManifest("") |-> m[k]]
<1> DEFINE d       == At(files, ManifestName(files))
           default == DefaultManifest(Head(<<"">>))
           fields  == DOMAIN DefaultManifest("")
<1>1. DOMAIN default = fields /\ default = [k \in DOMAIN default |-> default[k]]
  BY DEF DefaultManifest
<1>2. CASE d.doc = "table"
  <2> DEFINE read == ManifestFrom(d.entries, <<"">>)
  <2>1. ManifestIn(files) = read
    BY <1>2 DEF ManifestIn, ManifestOf
  <2>2. read = Err \/ read.manifest = [k \in DOMAIN default |-> read.manifest[k]]
    <3> HIDE DEF default
    <3> QED BY DEF ManifestFrom, default
  <2> HIDE DEF read, default, fields
  <2>3. read.manifest = [k \in fields |-> read.manifest[k]]
    BY <1>1, <2>1, <2>2
  <2> QED BY <2>1, <2>3 DEF fields
<1>3. CASE d.doc # "table"
  <2>1. ManifestIn(files) = [kind |-> "manifest", manifest |-> default]
    BY <1>3, ManifestIn(files) # Err DEF ManifestIn, ManifestOf
  <2> HIDE DEF default, fields
  <2>2. ManifestIn(files).manifest = default
    BY <2>1
  <2> QED BY <1>1, <2>2 DEF fields
<1> QED BY <1>2, <1>3

\* The names of a site that loads are those of its manifest and definitions.
LEMMA LoadedSite ==
  ASSUME NEW files, Loaded(files) # Err
  PROVE  /\ ManifestIn(files) # Err /\ DefinitionsIn(files) # Err
         /\ DefinitionsOf(Loaded(files)) = Named(files)
         /\ EditorsOf(Loaded(files)) = Editing(ManifestIn(files).manifest.editor_types)
<1> DEFINE m == ManifestIn(files).manifest
<1>1. /\ ManifestIn(files) # Err /\ DefinitionsIn(files) # Err
      /\ Loaded(files) = [kind     |-> "site",
                          manifest |-> [m EXCEPT !.object_file = Named(files)],
                          defs     |-> DefinitionsIn(files).defs]
  BY LoadedIs
<1>2. m = [k \in DOMAIN DefaultManifest("") |-> m[k]]
  BY <1>1, ManifestHasFields
<1>3. "object_file" \in DOMAIN m /\ "editor_types" \in DOMAIN m
  <2>1. "object_file" \in DOMAIN DefaultManifest("") /\ "editor_types" \in DOMAIN DefaultManifest("")
    BY DEF DefaultManifest
  <2> HIDE DEF m
  <2> QED BY <1>2, <2>1
<1>4. Loaded(files).manifest = [m EXCEPT !.object_file = Named(files)]
  BY <1>1
<1> HIDE DEF m
<1>5. /\ Loaded(files).manifest.object_file = Named(files)
      /\ Loaded(files).manifest.editor_types = m.editor_types
  BY <1>3, <1>4
<1> QED BY <1>1, <1>5 DEF DefinitionsOf, EditorsOf, m

\* A directory with a marker is the root of its files.
LEMMA OwnRoot ==
  ASSUME NEW dir \in DOMAIN Above, IsRoot(dir), \E f \in Files : f.dir = dir
  PROVE  RootsOf(dir) = {dir}
<1> DEFINE up    == Above[dir]
           first == {i \in DOMAIN up : IsRoot(up[i]) /\ \A j \in 1 .. i - 1 : ~IsRoot(up[j])}
<1>1. up \in Seq(Range(up)) /\ up # <<>> /\ Head(up) = dir
  BY FilesAssumption
<1>2. Len(up) \in Nat \ {0} /\ DOMAIN up = 1 .. Len(up) /\ up[1] = dir
  BY <1>1, EmptySeq
<1>3. 1 \in first
  BY <1>2
<1>4. \A i \in first : i = 1
  BY <1>2
<1>5. RootsOf(dir) = {up[i] : i \in first}
  BY DEF RootsOf
<1> HIDE DEF first
<1> QED BY <1>2, <1>3, <1>4, <1>5

\* What is looked at in a site's own files.
LEMMA OwnFaults ==
  ASSUME NEW f, NEW text, NEW root, NEW site, f.dir = root
  PROVE  /\ f.name = Canonical => TomlFaults(f, text, root, site) = ManifestFaults(Parsed(text))
         /\ f.name = Definitions /\ DefinitionsOf(site) = Definitions =>
               TomlFaults(f, text, root, site)
                 = ServerDefinitionFaults(Parsed(text), ReadDefinitions(Parsed(text), EditorsOf(site)))
<1>1. Definitions # Canonical
  BY DEF Definitions, Canonical
<1> QED BY <1>1 DEF TomlFaults

\* Nothing is shown of a file exactly when nothing is wrong with it.
LEMMA NothingPlaced ==
  ASSUME NEW text, NEW faults
  PROVE  Placed(text, faults, PositionAt) = {} <=> faults = {}
BY DEF Placed

LEMMA OneRoot ==
  ASSUME IInv, Settled, UnwatchedKept, NEW f \in DOMAIN buffers, f.toml, RootsOf(f.dir) = {f.dir}
  PROVE  shown[f] = {} <=> TomlFaults(f, buffers[f], f.dir, Loaded(FilesOf(disk, f.dir))) = {}
<1>1. shown[f] = Placed(buffers[f], FaultsIn(f, buffers[f], resolved, sites), PositionAt)
  BY SettledFinds, StateIs DEF Diagnosed
<1>2. resolved[f.dir] = {f.dir} /\ sites[f.dir] = Loaded(FilesOf(disk, f.dir))
  BY SettledFinds
<1>3. FaultsIn(f, buffers[f], resolved, sites)
        = UNION {TomlFaults(f, buffers[f], r, sites[r]) : r \in resolved[f.dir]}
  BY DEF FaultsIn
<1>4. FaultsIn(f, buffers[f], resolved, sites) = TomlFaults(f, buffers[f], f.dir, sites[f.dir])
  BY <1>2, <1>3
<1> QED BY <1>1, <1>2, <1>4, NothingPlaced

\* With a site's own files open, saved and settled, the server finds fault with
\* one of them exactly when a build cannot load the site: for every parser, and
\* although the server reads the definitions by itself, with the editor types
\* of the site it loaded, or none if there is no such site (server.rs:158-210).
THEOREM ErrorsAreAlwaysTheLoaders ==
  ASSUME \A text \in Texts : IsTableOrBroken(text),
         \A d, entries : EditorsOnlyAdd(d, entries)
  PROVE  Spec => []ErrorsAreTheLoaders
<1>1. IInv => ErrorsAreTheLoaders
  <2> SUFFICES ASSUME IInv, Settled, UnwatchedKept, NEW g \in Files,
                      Saved(g.dir), Usual(FilesOf(disk, g.dir))
               PROVE  (\A f \in OwnFiles(g.dir) : shown[f] = {}) <=> Loaded(FilesOf(disk, g.dir)) # Err
    BY DEF ErrorsAreTheLoaders
  <2> DEFINE dir   == g.dir
             files == FilesOf(disk, dir)
             site  == Loaded(files)
  <2>1. disk \in Buffers /\ buffers \in Buffers /\ DOMAIN disk \in SUBSET Files
    BY BuffersAre DEF IInv, TextsInv
  <2>2. PICK c \in DOMAIN disk : c.dir = dir /\ c.name = Canonical
    BY <2>1, FileIsFound DEF Usual, Exists
  <2>3. PICK o \in DOMAIN disk : o.dir = dir /\ o.name = Definitions
    BY <2>1, FileIsFound DEF Usual, Exists
  <2>4. c \in Files /\ o \in Files /\ c.toml /\ o.toml
    BY <2>1, <2>2, <2>3, FilesAssumption DEF Markers
  <2>5. OwnFiles(dir) = {c, o}
    BY <2>2, <2>3, <2>4, FilesAssumption DEF OwnFiles, Markers
  <2>6. c \in DOMAIN buffers /\ o \in DOMAIN buffers /\ buffers[c] = disk[c] /\ buffers[o] = disk[o]
    BY <2>5 DEF Saved
  <2>7. RootsOf(dir) = {dir}
    <3>1. IsRoot(dir) /\ dir \in DOMAIN Above
      BY <2>2, FilesAssumption DEF IsRoot, Markers
    <3> QED BY <3>1, OwnRoot
  <2> DEFINE dc == Parsed(disk[c])
             do == Parsed(disk[o])
  <2>8. At(files, Canonical) = dc /\ At(files, Definitions) = do
    BY <2>1, <2>2, <2>3, FileIsFound
  <2>9. (dc = Broken \/ dc.doc = "table") /\ (do = Broken \/ do.doc = "table")
    <3>1. disk[c] \in Texts /\ disk[o] \in Texts
      BY <2>1, BuffersAre
    <3> QED BY <3>1 DEF IsTableOrBroken
  <2>10. Exists(files, Canonical) /\ Exists(files, Definitions)
    BY DEF Usual
  <2> HIDE DEF files, site, dc, do
  <2>11. ManifestIn(files) = IF dc.doc = "table" THEN ManifestFrom(dc.entries, <<"">>) ELSE Err
    <3>1. ManifestName(files) = Canonical
      BY <2>10 DEF ManifestName
    <3>2. dc # NoFile
      BY <2>8, <2>10 DEF Exists
    <3> QED BY <2>8, <3>1, <3>2 DEF ManifestIn, ManifestOf
  \* The manifest.
  <2>12. shown[c] = {} <=> ManifestIn(files) # Err
    <3>1. shown[c] = {} <=> TomlFaults(c, buffers[c], dir, site) = {}
      BY <2>2, <2>4, <2>6, <2>7, OneRoot DEF site, files
    <3>2. TomlFaults(c, buffers[c], dir, site) = ManifestFaults(dc)
      BY <2>2, <2>6, OwnFaults DEF dc
    <3>3. ManifestFaults(dc) = {} <=> ManifestIn(files) # Err
      <4>1. CASE dc = Broken
        <5>1. dc.doc # "table"
          BY <4>1 DEF Broken
        <5> QED BY <2>11, <4>1, <5>1 DEF ManifestFaults, Fault
      <4>2. CASE dc # Broken
        BY <2>9, <2>11, <4>2 DEF ManifestFaults, Fault
      <4> QED BY <4>1, <4>2
    <3> QED BY <3>1, <3>2, <3>3
  \* The definitions.
  <2>13. ASSUME ManifestIn(files) # Err
         PROVE  /\ Named(files) = Definitions
                /\ Range(ManifestIn(files).manifest.archival_version) \subseteq Compatible
    BY <2>10, <2>13 DEF Usual, files, ManifestIn, Named, DefinitionsName
  <2>14. DefinitionsOf(site) = Definitions
    <3>1. CASE site = Err
      BY <3>1 DEF DefinitionsOf
    <3>2. CASE site # Err
      BY <2>13, <3>2, LoadedSite DEF site
    <3> QED BY <3>1, <3>2
  <2>15. shown[o] = {} <=> do # Broken /\ ReadDefinitions(do, EditorsOf(site)) # Err
    <3>1. shown[o] = {} <=> TomlFaults(o, buffers[o], dir, site) = {}
      BY <2>3, <2>4, <2>6, <2>7, OneRoot DEF site, files
    <3>2. TomlFaults(o, buffers[o], dir, site)
            = ServerDefinitionFaults(do, ReadDefinitions(do, EditorsOf(site)))
      BY <2>3, <2>6, <2>14, OwnFaults DEF do
    <3>3. ServerDefinitionFaults(do, ReadDefinitions(do, EditorsOf(site))) = {}
            <=> do # Broken /\ ReadDefinitions(do, EditorsOf(site)) # Err
      BY DEF ServerDefinitionFaults, DefinitionFault, Fault
    <3> QED BY <3>1, <3>2, <3>3
  <2> DEFINE editors == Editing(ManifestIn(files).manifest.editor_types)
  <2>16. ASSUME ManifestIn(files) # Err
         PROVE  /\ DefinitionsIn(files) = ReadDefinitions(do, editors)
                /\ ReadDefinitions(Broken, editors) = Err
                /\ ReadDefinitions(do, NoEntries) # Err => ReadDefinitions(do, editors) # Err
    <3>1. DefinitionsIn(files) = ReadDefinitions(do, editors)
      BY <2>8, <2>13, <2>16 DEF DefinitionsIn
    <3>2. ManifestIn(files) = ManifestFrom(dc.entries, <<"">>)
      BY <2>11, <2>16
    <3>3. EditorsOnlyAdd(do, dc.entries)
      OBVIOUS
    <3> QED BY <2>16, <3>1, <3>2, <3>3 DEF EditorsOnlyAdd
  <2> HIDE DEF editors
  <2>17. ASSUME shown[c] = {}, shown[o] = {} PROVE site # Err
    <3>1. ManifestIn(files) # Err
      BY <2>12, <2>17
    <3>2. do # Broken /\ ReadDefinitions(do, EditorsOf(site)) # Err
      BY <2>15, <2>17
    <3>3. CASE site = Err
      <4>1. ReadDefinitions(do, NoEntries) # Err
        BY <3>2, <3>3 DEF EditorsOf
      <4>2. DefinitionsIn(files) # Err
        BY <2>16, <3>1, <4>1
      <4>3. site # Err
        <5>1. site = [kind     |-> "site",
                      manifest |-> [ManifestIn(files).manifest EXCEPT !.object_file = Named(files)],
                      defs     |-> DefinitionsIn(files).defs]
          BY <2>10, <2>13, <3>1, <4>2, LoadedIs DEF site
        <5> QED BY <5>1 DEF Err
      <4> QED BY <3>3, <4>3
    <3> QED BY <3>3
  <2>18. ASSUME site # Err PROVE shown[c] = {} /\ shown[o] = {}
    <3>1. /\ ManifestIn(files) # Err /\ DefinitionsIn(files) # Err
          /\ EditorsOf(site) = editors
      BY <2>18, LoadedSite DEF site, editors
    <3>2. ReadDefinitions(do, EditorsOf(site)) # Err
      BY <2>16, <3>1
    <3>3. do # Broken
      BY <2>16, <3>1, <3>2
    <3> QED BY <2>12, <2>15, <3>1, <3>2, <3>3
  <2> QED BY <2>5, <2>17, <2>18 DEF site, files
<1> QED BY <1>1, IInvAlways, PTL
=============================================================================
