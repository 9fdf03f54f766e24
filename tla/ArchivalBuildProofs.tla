------------------------- MODULE ArchivalBuildProofs -------------------------
(* Theorems about ArchivalBuild, for any number of threads, objects, static  *)
(* files and edits.                                                          *)
EXTENDS ArchivalBuild, TLAPS

USE DEF siteVars, planVars

-----------------------------------------------------------------------------
(* Lemmas about write plans *)

Value == Content \cup {None}

LEMMA ResolveType ==
  ASSUME NEW wanted \in [Output -> Value], NEW cache \in [Output -> Value]
  PROVE  Resolve(wanted, cache) \in Plans
BY DEF Resolve, Plans, Value

LEMMA AppliedType ==
  ASSUME NEW plan \in Plans, NEW disk \in [Output -> Value], NEW above
  PROVE  Applied(plan, disk, above) \in [Output -> Value]
BY DEF Applied, Plans, Value

LEMMA RecordedType ==
  ASSUME NEW plan \in Plans, NEW cache \in [Output -> Value], NEW above
  PROVE  Recorded(plan, cache, above) \in [Output -> Value]
BY DEF Recorded, Visited, Plans, Value

LEMMA ContentGrows ==
  ASSUME NEW c \in Content, NEW n \in Nat
  PROVE  c \cup {n} \in Content
BY DEF Content

LEMMA CachedType ==
  ASSUME TypeOK, NEW src \in [Source -> Value], NEW S, NEW g
  PROVE  Cached(src, S, g) \in [Object -> Value]
BY DEF Cached, TypeOK, Value, Source

LEMMA ParsedType ==
  ASSUME TypeOK, NEW src \in [Source -> Value], NEW S
  PROVE  Parsed(src, S) \in [Object -> Value]
BY DEF Parsed, TypeOK, Value, Source

LEMMA OutputTypes ==
  ASSUME TypeOK, NEW src \in [Source -> Value], NEW read \in [Object -> Value]
  PROVE  /\ StaticOutput(src) \in [Output -> Value]
         /\ PageOutput(read) \in [Output -> Value]
<1>1. PageOutput(read) \in [Output -> Value]
  BY DEF PageOutput, Value
<1>2. ASSUME NEW p \in Output, NEW s \in Static, Dest[s] = p
      PROVE  (CHOOSE s1 \in Static : Dest[s1] = p) \in Static
  BY <1>2
<1>3. ASSUME NEW s \in Static PROVE src[s] \in Value
  BY DEF Source
<1>4. StaticOutput(src) \in [Output -> Value]
  BY <1>2, <1>3 DEF StaticOutput, TypeOK, Value
<1> QED BY <1>1, <1>4

-----------------------------------------------------------------------------
(* Type correctness *)

LEMMA InitTypeOK == Init => TypeOK
<1> SUFFICES ASSUME Init PROVE TypeOK
  OBVIOUS
<1>1. NoOutput \in [Output -> Value]
  BY DEF NoOutput, Value
<1>2. NoPlan \in Plans
  BY <1>1, ResolveType DEF NoPlan
<1>3. {} \in Content
  BY DEF Content
<1>4. {} \in SUBSET Source /\ {} \in SUBSET Type
  OBVIOUS
<1> QED
  BY <1>1, <1>2, <1>3, <1>4 DEF Init, TypeOK, NoFiles, NoObjects, Value,
     InCall, BuildOptions

LEMMA MutateType ==
  ASSUME TypeOK, NEW t \in Thread, NEW newFiles \in [Source -> Value],
         NEW stale \in SUBSET Source, NEW newCache \in [Object -> Value],
         Mutate(t, newFiles, stale, newCache)
  PROVE  TypeOK'
BY DEF Mutate, TypeOK, Value, InCall

\* Every change to the source files keeps the types.
LEMMA ChangeType ==
  ASSUME TypeOK, NEW t \in Thread, Change(t)
  PROVE  TypeOK'
<1>0. /\ files \in [Source -> Value]
      /\ objCache \in [Object -> Value]
      /\ Loaded \in [Object -> Value]
      /\ Parsed(files, Object) \in [Object -> Value]
      /\ Object \subseteq Source
  BY CachedType, ParsedType DEF TypeOK, Value, Loaded, Source
<1>1. /\ Now \in Nat
      /\ {Now} \in Value
      /\ None \in Value
  BY DEF TypeOK, Now, Content, Value
<1>2. ASSUME NEW o \in Object, EditObject(t, o) PROVE TypeOK'
  <2>1. Parsed(files, Object)[o] \cup {Now} \in Value
    BY <1>0, <1>1, <1>2, ContentGrows DEF EditObject, Value
  <2> QED BY <1>0, <1>2, <2>1, MutateType DEF EditObject
<1>3. ASSUME NEW o \in Object, WriteObject(t, o) PROVE TypeOK'
  BY <1>0, <1>1, <1>3, MutateType DEF WriteObject
<1>4. ASSUME NEW o \in Object, AddObject(t, o) PROVE TypeOK'
  BY <1>0, <1>1, <1>4, MutateType DEF AddObject
<1>5. ASSUME NEW o \in Object, DeleteObject(t, o) PROVE TypeOK'
  BY <1>0, <1>1, <1>5, MutateType DEF DeleteObject
<1>6. ASSUME NEW from \in Object, NEW to \in Object, RenameObject(t, from, to)
      PROVE TypeOK'
  BY <1>0, <1>1, <1>6, MutateType DEF RenameObject
<1>7. ASSUME NEW s \in Source, WriteSource(t, s) PROVE TypeOK'
  BY <1>0, <1>1, <1>7, MutateType DEF WriteSource
<1>8. ASSUME NEW s \in Source, DeleteSource(t, s) PROVE TypeOK'
  BY <1>0, <1>1, <1>8, MutateType DEF DeleteSource
<1>9. ASSUME NEW from \in Source, NEW to \in Source, RenameSource(t, from, to)
      PROVE TypeOK'
  BY <1>0, <1>1, <1>9, MutateType DEF RenameSource
<1> QED
  BY <1>2, <1>3, <1>4, <1>5, <1>6, <1>7, <1>8, <1>9 DEF Change

\* What a thread keeps after a build is well typed.
LEMMA ForgetType ==
  ASSUME TypeOK, NEW t \in Thread, Forget(t)
  PROVE  /\ pc' \in [Thread -> InCall \cup InBuild]
         /\ buildLock' \in Thread \cup {None}
         /\ opts' \in [Thread -> BuildOptions]
         /\ gen' \in [Thread -> Nat]
         /\ snap' \in [Thread -> [Source -> Value]]
         /\ todo' \in [Thread -> SUBSET Type]
         /\ objs' \in [Thread -> [Object -> Value]]
         /\ statics' \in [Thread -> Plans \cup {None}]
         /\ \A u \in Thread : pc'[u] = "applyStatic" => statics'[u] \in Plans
         /\ pages' \in [Thread -> Plans]
         /\ failed' \in [Thread -> BOOLEAN]
<1>1. NoOutput \in [Output -> Value]
  BY DEF NoOutput, Value
<1>2. NoPlan \in Plans
  BY <1>1, ResolveType DEF NoPlan
<1>3. /\ NoFiles \in [Source -> Value]
      /\ NoObjects \in [Object -> Value]
      /\ [skipStatic |-> FALSE, skipFailures |-> FALSE] \in BuildOptions
  BY DEF NoFiles, NoObjects, Value, BuildOptions
<1> QED
  BY <1>2, <1>3 DEF Forget, TypeOK, Value, InCall

LEMMA StepTypeOK == TypeOK /\ [Next]_vars => TypeOK'
<1> SUFFICES ASSUME TypeOK, [Next]_vars PROVE TypeOK'
  OBVIOUS
<1> USE DEF Value
<1>1. CASE UNCHANGED vars
  BY <1>1 DEF vars, TypeOK
<1>2. ASSUME NEW t \in Thread, RequestRead(t) PROVE TypeOK'
  BY <1>2 DEF RequestRead, TypeOK, InCall
<1>3. ASSUME NEW t \in Thread, RequestBuild(t) PROVE TypeOK'
  BY <1>3, ConstantsAssumption DEF RequestBuild, TypeOK, InCall
<1>4. ASSUME NEW t \in Thread, Change(t) PROVE TypeOK'
  BY <1>4, ChangeType
<1>5. ASSUME NEW t \in Thread, ReadObjects(t) PROVE TypeOK'
  <2>1. Loaded \in [Object -> Value]
    BY CachedType DEF TypeOK, Loaded
  <2> QED BY <1>5, <2>1 DEF ReadObjects, TypeOK, InCall
<1>6. ASSUME NEW t \in Thread, Invalidate(t) PROVE TypeOK'
  <2>1. PICK s \in dirty[t] :
          /\ objCache' = [o \in Object |-> IF o = s THEN None ELSE objCache[o]]
          /\ generation' = generation + 1
          /\ dirty' = [dirty EXCEPT ![t] = @ \ {s}]
          /\ IF dirty[t] = {s}
               THEN /\ pc' = [pc EXCEPT ![t] = "idle"]
                    /\ fsOwner' = None
               ELSE UNCHANGED <<pc, fsOwner>>
    BY <1>6 DEF Invalidate
  <2>2. /\ objCache' \in [Object -> Value]
        /\ generation' \in Nat
        /\ dirty' \in [Thread -> SUBSET Source]
    BY <2>1 DEF TypeOK
  <2>3. /\ pc' \in [Thread -> InCall \cup InBuild]
        /\ fsOwner' \in Thread \cup {None}
        /\ \A u \in Thread : pc'[u] = "applyStatic" => pc[u] = "applyStatic"
    BY <2>1 DEF TypeOK, InCall
  <2> QED BY <1>6, <2>2, <2>3 DEF Invalidate, TypeOK
<1>7. ASSUME NEW t \in Thread, StartBuild(t) PROVE TypeOK'
  BY <1>7 DEF StartBuild, TypeOK, InBuild
<1>8. ASSUME NEW t \in Thread, ReturnSkipped(t) PROVE TypeOK'
  BY <1>8, ForgetType DEF ReturnSkipped, TypeOK
<1>9. ASSUME NEW t \in Thread, TakeSnapshot(t) PROVE TypeOK'
  BY <1>9 DEF TakeSnapshot, TypeOK, InBuild
<1>10. ASSUME NEW t \in Thread, PlanStatic(t) PROVE TypeOK'
  <2>1. snap[t] \in [Source -> Value] /\ objs[t] \in [Object -> Value]
    BY DEF TypeOK
  <2>2. Resolve(StaticOutput(snap[t]), staticCache) \in Plans
    BY <2>1, OutputTypes, ResolveType DEF TypeOK
  <2> QED BY <1>10, <2>2 DEF PlanStatic, TypeOK, InBuild
<1>11. ASSUME NEW t \in Thread, NEW ty \in Type, ReadType(t, ty) PROVE TypeOK'
  <2> DEFINE S == {o \in Object : TypeOf[o] = ty}
  <2>1. snap[t] \in [Source -> Value]
    BY DEF TypeOK
  <2>2. Parsed(snap[t], S) \in [Object -> Value]
    BY <2>1, ParsedType
  <2>3. Cached(snap[t], S, gen[t]) \in [Object -> Value]
    BY <2>1, CachedType
  <2> QED BY <1>11, <2>2, <2>3 DEF ReadType, TypeOK
<1>12. ASSUME NEW t \in Thread, PlanPages(t) PROVE TypeOK'
  <2>1. snap[t] \in [Source -> Value] /\ objs[t] \in [Object -> Value]
    BY DEF TypeOK
  <2>2. Resolve(PageOutput(objs[t]), buildCache) \in Plans
    BY <2>1, OutputTypes, ResolveType DEF TypeOK
  <2> QED BY <1>12, <2>2 DEF PlanPages, TypeOK, InBuild
<1>13. ASSUME NEW t \in Thread, PageFailure(t) PROVE TypeOK'
  BY <1>13, ForgetType DEF PageFailure, TypeOK
<1>14. ASSUME NEW t \in Thread, EnterApply(t) PROVE TypeOK'
  BY <1>14 DEF EnterApply, TypeOK, InBuild
<1>15. ASSUME NEW t \in Thread, ApplyStatic(t) PROVE TypeOK'
  <2>1. statics[t] \in Plans
    BY <1>15 DEF ApplyStatic, TypeOK
  <2>2. /\ Applied(statics[t], dist, Nothing(statics[t])) \in [Output -> Value]
        /\ Recorded(statics[t], staticCache, Nothing(statics[t])) \in [Output -> Value]
    BY <2>1, AppliedType, RecordedType DEF TypeOK
  <2> QED BY <1>15, <2>2 DEF ApplyStatic, TypeOK, InBuild
<1>16. ASSUME NEW t \in Thread, ApplyPages(t) PROVE TypeOK'
  <2>1. /\ Applied(pages[t], dist, staticCache) \in [Output -> Value]
        /\ Recorded(pages[t], buildCache, staticCache) \in [Output -> Value]
    BY AppliedType, RecordedType DEF TypeOK
  <2> QED BY <1>16, <2>1 DEF ApplyPages, TypeOK, InBuild
<1>17. ASSUME NEW t \in Thread, Publish(t) PROVE TypeOK'
  BY <1>17, ForgetType DEF Publish, TypeOK
<1> QED
  BY <1>1, <1>2, <1>3, <1>4, <1>5, <1>6, <1>7, <1>8, <1>9, <1>10, <1>11, <1>12,
     <1>13, <1>14, <1>15, <1>16, <1>17 DEF Next, Request, Plan, Proceed

\* Every state of every instance is well typed.
THEOREM TypeCorrect == Spec => []TypeOK
<1>1. Init => TypeOK
  BY InitTypeOK
<1>2. TypeOK /\ [Next]_vars => TypeOK'
  BY StepTypeOK
<1> QED BY <1>1, <1>2, PTL DEF Spec

-----------------------------------------------------------------------------
(* The locks *)

\* build_lock is held exactly through a build, the filesystem mutex exactly
\* inside with_fs.
LockInv ==
  \A t \in Thread :
    /\ pc[t] \in InBuild <=> buildLock = t
    /\ pc[t] \in InWithFs <=> fsOwner = t

LEMMA InitLockInv == Init => LockInv
BY NoneAssumption DEF Init, LockInv, InBuild, InWithFs

LEMMA StepLockInv == TypeOK /\ LockInv /\ [Next]_vars => LockInv'
<1> SUFFICES ASSUME TypeOK, LockInv, [Next]_vars PROVE LockInv'
  OBVIOUS
<1> USE NoneAssumption DEF LockInv, InBuild, InWithFs
<1>1. CASE UNCHANGED vars
  BY <1>1 DEF vars
<1>2. ASSUME NEW t \in Thread, Request(t) PROVE LockInv'
  BY <1>2 DEF Request, RequestRead, RequestBuild, TypeOK
<1>3. ASSUME NEW t \in Thread, Change(t) PROVE LockInv'
  <2>1. PICK newFiles, stale, newCache : Mutate(t, newFiles, stale, newCache)
    BY <1>3 DEF Change, EditObject, WriteObject, AddObject, DeleteObject,
       RenameObject, WriteSource, DeleteSource, RenameSource
  <2> QED BY <2>1 DEF Mutate, TypeOK
<1>4. ASSUME NEW t \in Thread, ReadObjects(t) PROVE LockInv'
  BY <1>4 DEF ReadObjects, TypeOK
<1>5. ASSUME NEW t \in Thread, Invalidate(t) PROVE LockInv'
  BY <1>5 DEF Invalidate, TypeOK
<1>6. ASSUME NEW t \in Thread, StartBuild(t) PROVE LockInv'
  BY <1>6 DEF StartBuild, TypeOK
<1>7. ASSUME NEW t \in Thread, ReturnSkipped(t) PROVE LockInv'
  BY <1>7 DEF ReturnSkipped, Forget, TypeOK
<1>8. ASSUME NEW t \in Thread, TakeSnapshot(t) PROVE LockInv'
  BY <1>8 DEF TakeSnapshot, TypeOK
<1>9. ASSUME NEW t \in Thread, PlanStatic(t) PROVE LockInv'
  BY <1>9 DEF PlanStatic, TypeOK
<1>10. ASSUME NEW t \in Thread, NEW ty \in Type, ReadType(t, ty) PROVE LockInv'
  BY <1>10 DEF ReadType, TypeOK
<1>11. ASSUME NEW t \in Thread, PlanPages(t) PROVE LockInv'
  BY <1>11 DEF PlanPages, TypeOK
<1>12. ASSUME NEW t \in Thread, PageFailure(t) PROVE LockInv'
  BY <1>12 DEF PageFailure, Forget, TypeOK
<1>13. ASSUME NEW t \in Thread, EnterApply(t) PROVE LockInv'
  BY <1>13 DEF EnterApply, TypeOK
<1>14. ASSUME NEW t \in Thread, ApplyStatic(t) PROVE LockInv'
  BY <1>14 DEF ApplyStatic, TypeOK
<1>15. ASSUME NEW t \in Thread, ApplyPages(t) PROVE LockInv'
  BY <1>15 DEF ApplyPages, TypeOK
<1>16. ASSUME NEW t \in Thread, Publish(t) PROVE LockInv'
  BY <1>16 DEF Publish, Forget, TypeOK
<1> QED
  BY <1>1, <1>2, <1>3, <1>4, <1>5, <1>6, <1>7, <1>8, <1>9, <1>10, <1>11, <1>12,
     <1>13, <1>14, <1>15, <1>16 DEF Next, Plan, Proceed

\* Calls under way never overlap where they must not: one build at a time, and
\* one thread inside with_fs.
THEOREM LocksHold == Spec => []LockInv
<1>1. Init => LockInv
  BY InitLockInv
<1>2. TypeOK /\ LockInv /\ [Next]_vars => LockInv'
  BY StepLockInv
<1> QED BY <1>1, <1>2, TypeCorrect, PTL DEF Spec

-----------------------------------------------------------------------------
(* The options of a build *)

\* A build runs with options some caller chose.
OptionsInv ==
  \A t \in Thread : pc[t] \in InBuild \cup {"queued"} => opts[t] \in Options

LEMMA StepOptionsInv == TypeOK /\ OptionsInv /\ [Next]_vars => OptionsInv'
<1> SUFFICES ASSUME TypeOK, OptionsInv, [Next]_vars PROVE OptionsInv'
  OBVIOUS
<1> USE DEF OptionsInv, InBuild
<1>1. CASE UNCHANGED vars
  BY <1>1 DEF vars
<1>2. ASSUME NEW t \in Thread, Request(t) PROVE OptionsInv'
  BY <1>2 DEF Request, RequestRead, RequestBuild, TypeOK
<1>3. ASSUME NEW t \in Thread, Change(t) PROVE OptionsInv'
  <2>1. PICK newFiles, stale, newCache : Mutate(t, newFiles, stale, newCache)
    BY <1>3 DEF Change, EditObject, WriteObject, AddObject, DeleteObject,
       RenameObject, WriteSource, DeleteSource, RenameSource
  <2> QED BY <2>1 DEF Mutate, TypeOK
<1>4. ASSUME NEW t \in Thread, ReadObjects(t) \/ Invalidate(t) PROVE OptionsInv'
  BY <1>4 DEF ReadObjects, Invalidate, TypeOK
<1>5. ASSUME NEW t \in Thread, StartBuild(t) \/ TakeSnapshot(t) PROVE OptionsInv'
  BY <1>5 DEF StartBuild, TakeSnapshot, TypeOK
<1>6. ASSUME NEW t \in Thread, Plan(t), ~PageFailure(t) PROVE OptionsInv'
  BY <1>6 DEF Plan, PlanStatic, ReadType, PlanPages, TypeOK
<1>7. ASSUME NEW t \in Thread, EnterApply(t) \/ ApplyStatic(t) \/ ApplyPages(t)
      PROVE OptionsInv'
  BY <1>7 DEF EnterApply, ApplyStatic, ApplyPages, TypeOK
<1>8. ASSUME NEW t \in Thread, ReturnSkipped(t) \/ PageFailure(t) \/ Publish(t)
      PROVE OptionsInv'
  BY <1>8 DEF ReturnSkipped, PageFailure, Publish, Forget, TypeOK
<1> QED
  BY <1>1, <1>2, <1>3, <1>4, <1>5, <1>6, <1>7, <1>8 DEF Next, Proceed

LEMMA OptionsAlways == Spec => []OptionsInv
<1>1. Init => OptionsInv
  BY DEF Init, OptionsInv, InBuild
<1> QED BY <1>1, StepOptionsInv, TypeCorrect, PTL DEF Spec

\* A build that has begun to write goes on to the end.  With a snapshot nothing
\* is written before everything is planned; on a real directory a page that does
\* not render ends the build between its two plans, unless failures are skipped.
BuildsWriteAll == SnapshotBackend \/ \A o \in Options : o.skipFailures

-----------------------------------------------------------------------------
(* The output caches describe the build directory *)

\* A plan still says of a cache what it said when it was made.
Matches(plan, cache) ==
  /\ plan.out \in [Output -> Value]
  /\ plan = Resolve(plan.out, cache)

\* Plans made and not yet applied match the caches as they are now.  Only with a
\* snapshot are both plans ever pending at once.
PlanInv ==
  \A t \in Thread :
    /\ pc[t] \in InCall \cup {"skipped", "locked", "static"} => statics[t] = None
    /\ pc[t] = "planned" => SnapshotBackend
    /\ pc[t] \in {"objects", "planned"} /\ SnapshotBackend =>
         statics[t] = None \/ Matches(statics[t], staticCache)
    /\ pc[t] = "applyStatic" => Matches(statics[t], staticCache)
    /\ pc[t] \in {"planned", "applyPages"} => Matches(pages[t], buildCache)
    /\ pc[t] = "applyStatic" /\ SnapshotBackend => Matches(pages[t], buildCache)

\* What is on disk is what the caches say, at every step of a build ...
DiskAgrees(disk, static, page) ==
  \A p \in Output : disk[p] = IF static[p] # None THEN static[p] ELSE page[p]

\* ... and no output has two owners ...
Disjoint(static, page) ==
  \A p \in Output : static[p] = None \/ page[p] = None

\* ... but between the two plans of a build.
BetweenPlans(t) ==
  pc[t] = "applyPages" \/ (pc[t] = "objects" /\ ~SnapshotBackend)

CacheInv ==
  /\ DiskAgrees(dist, staticCache, buildCache)
  /\ (\A t \in Thread : ~BetweenPlans(t)) => Disjoint(staticCache, buildCache)

LEMMA ResolveMatches ==
  ASSUME NEW wanted \in [Output -> Value], NEW cache \in [Output -> Value]
  PROVE  Matches(Resolve(wanted, cache), cache)
BY DEF Matches, Resolve

\* Applying a static plan, over which nothing has precedence, to a disk the
\* caches describe.
LEMMA ApplyStaticAgrees ==
  ASSUME NEW disk \in [Output -> Value], NEW static \in [Output -> Value],
         NEW page \in [Output -> Value], NEW plan,
         Matches(plan, static), DiskAgrees(disk, static, page),
         Disjoint(static, page)
  PROVE  DiskAgrees(Applied(plan, disk, Nothing(plan)),
                    Recorded(plan, static, Nothing(plan)), page)
BY DEF Matches, Resolve, DiskAgrees, Disjoint, Applied, Recorded, Visited, Nothing

\* Applying a page plan beneath the static outputs gives every output one owner.
LEMMA ApplyPagesAgrees ==
  ASSUME NEW disk \in [Output -> Value], NEW static \in [Output -> Value],
         NEW page \in [Output -> Value], NEW plan,
         Matches(plan, page), DiskAgrees(disk, static, page)
  PROVE  /\ DiskAgrees(Applied(plan, disk, static), static,
                       Recorded(plan, page, static))
         /\ Disjoint(static, Recorded(plan, page, static))
BY DEF Matches, Resolve, DiskAgrees, Disjoint, Applied, Recorded, Visited

LEMMA InitCacheInv == Init => PlanInv /\ CacheInv
BY DEF Init, PlanInv, CacheInv, DiskAgrees, Disjoint, NoOutput, InCall

LEMMA StepCacheInv ==
  ASSUME BuildsWriteAll, TypeOK, LockInv, OptionsInv, PlanInv, CacheInv, [Next]_vars
  PROVE  PlanInv' /\ CacheInv'
<1> USE DEF PlanInv, CacheInv, BetweenPlans, InCall
<1>1. CASE UNCHANGED vars
  BY <1>1 DEF vars
<1>2. ASSUME NEW t \in Thread, Request(t) PROVE PlanInv' /\ CacheInv'
  BY <1>2 DEF Request, RequestRead, RequestBuild, TypeOK
<1>3. ASSUME NEW t \in Thread, Change(t) PROVE PlanInv' /\ CacheInv'
  <2>1. PICK newFiles, stale, newCache : Mutate(t, newFiles, stale, newCache)
    BY <1>3 DEF Change, EditObject, WriteObject, AddObject, DeleteObject,
       RenameObject, WriteSource, DeleteSource, RenameSource
  <2> QED BY <2>1 DEF Mutate, TypeOK
<1>4. ASSUME NEW t \in Thread, ReadObjects(t) PROVE PlanInv' /\ CacheInv'
  BY <1>4 DEF ReadObjects, TypeOK
<1>5. ASSUME NEW t \in Thread, Invalidate(t) PROVE PlanInv' /\ CacheInv'
  BY <1>5 DEF Invalidate, TypeOK
<1>6. ASSUME NEW t \in Thread, StartBuild(t) PROVE PlanInv' /\ CacheInv'
  BY <1>6 DEF StartBuild, TypeOK
<1>7. ASSUME NEW t \in Thread, ReturnSkipped(t) PROVE PlanInv' /\ CacheInv'
  BY <1>7 DEF ReturnSkipped, Forget, TypeOK
<1>8. ASSUME NEW t \in Thread, TakeSnapshot(t) PROVE PlanInv' /\ CacheInv'
  BY <1>8 DEF TakeSnapshot, TypeOK
<1>9. ASSUME NEW t \in Thread, PlanStatic(t) PROVE PlanInv' /\ CacheInv'
  <2>1. snap[t] \in [Source -> Value] /\ objs[t] \in [Object -> Value]
    BY DEF TypeOK, Value
  <2>2. Matches(Resolve(StaticOutput(snap[t]), staticCache), staticCache)
    BY <2>1, OutputTypes, ResolveMatches DEF TypeOK, Value
  <2>3. CacheInv'
    BY <1>9 DEF PlanStatic, TypeOK
  <2>4. PlanInv'
    <3>1. CASE opts[t].skipStatic
      BY <1>9, <3>1 DEF PlanStatic, TypeOK
    <3>2. CASE ~opts[t].skipStatic
      <4> DEFINE plan == Resolve(StaticOutput(snap[t]), staticCache)
      <4>1. /\ statics' = [statics EXCEPT ![t] = plan]
            /\ pc' = [pc EXCEPT ![t] =
                        IF SnapshotBackend THEN "objects" ELSE "applyStatic"]
            /\ UNCHANGED <<staticCache, buildCache, pages>>
        BY <1>9, <3>2 DEF PlanStatic
      <4>2. Matches(plan, staticCache)
        BY <2>2
      <4> HIDE DEF plan
      <4>3. \A u \in Thread \ {t} : pc'[u] = pc[u] /\ statics'[u] = statics[u]
        BY <4>1 DEF TypeOK
      <4>4. /\ statics'[t] = plan
            /\ pc'[t] = IF SnapshotBackend THEN "objects" ELSE "applyStatic"
        BY <4>1 DEF TypeOK
      <4> QED BY <4>1, <4>2, <4>3, <4>4
    <3> QED BY <3>1, <3>2
  <2> QED BY <2>3, <2>4
<1>10. ASSUME NEW t \in Thread, NEW ty \in Type, ReadType(t, ty)
       PROVE PlanInv' /\ CacheInv'
  BY <1>10 DEF ReadType, TypeOK
<1>11. ASSUME NEW t \in Thread, PlanPages(t) PROVE PlanInv' /\ CacheInv'
  <2>1. snap[t] \in [Source -> Value] /\ objs[t] \in [Object -> Value]
    BY DEF TypeOK, Value
  <2>2. Matches(Resolve(PageOutput(objs[t]), buildCache), buildCache)
    BY <2>1, OutputTypes, ResolveMatches DEF TypeOK, Value
  <2> QED BY <1>11, <2>2 DEF PlanPages, TypeOK
<1>12. ASSUME NEW t \in Thread, PageFailure(t) PROVE PlanInv' /\ CacheInv'
  <2>1. SnapshotBackend
    <3>1. pc[t] = "objects" /\ ~opts[t].skipFailures
      BY <1>12 DEF PageFailure
    <3>2. opts[t] \in Options
      BY <3>1 DEF OptionsInv, InBuild
    <3> QED BY <3>1, <3>2 DEF BuildsWriteAll
  <2> QED BY <1>12, <2>1 DEF PageFailure, Forget, TypeOK
<1>13. ASSUME NEW t \in Thread, EnterApply(t) PROVE PlanInv' /\ CacheInv'
  BY <1>13 DEF EnterApply, TypeOK
<1>14. ASSUME NEW t \in Thread, ApplyStatic(t) PROVE PlanInv' /\ CacheInv'
  <2>1. /\ pc[t] = "applyStatic"
        /\ \A u \in Thread \ {t} : pc[u] \in InCall
    BY <1>14 DEF ApplyStatic, TypeOK, LockInv, InBuild
  <2>2. Matches(statics[t], staticCache) /\ Disjoint(staticCache, buildCache)
    BY <2>1
  <2>3. DiskAgrees(dist', staticCache', buildCache)
    BY <1>14, <2>2, ApplyStaticAgrees DEF ApplyStatic, TypeOK, Value
  <2>4. /\ buildCache' = buildCache /\ statics' = statics /\ pages' = pages
        /\ pc' = [pc EXCEPT ![t] = IF SnapshotBackend THEN "applyPages" ELSE "objects"]
    BY <1>14 DEF ApplyStatic
  <2>5. PlanInv'
    BY <2>1, <2>4 DEF TypeOK
  <2> QED BY <2>1, <2>3, <2>4, <2>5 DEF TypeOK
<1>15. ASSUME NEW t \in Thread, ApplyPages(t) PROVE PlanInv' /\ CacheInv'
  <2>1. /\ pc[t] = "applyPages"
        /\ \A u \in Thread \ {t} : pc[u] \in InCall
    BY <1>15 DEF ApplyPages, TypeOK, LockInv, InBuild
  <2>2. Matches(pages[t], buildCache)
    BY <2>1
  <2>3. /\ DiskAgrees(dist', staticCache, buildCache')
        /\ Disjoint(staticCache, buildCache')
    BY <1>15, <2>2, ApplyPagesAgrees DEF ApplyPages, TypeOK, Value
  <2>4. /\ staticCache' = staticCache /\ statics' = statics /\ pages' = pages
        /\ pc' = [pc EXCEPT ![t] = "publish"]
    BY <1>15 DEF ApplyPages
  <2>5. PlanInv'
    BY <2>1, <2>4 DEF TypeOK
  <2> QED BY <2>3, <2>4, <2>5
<1>16. ASSUME NEW t \in Thread, Publish(t) PROVE PlanInv' /\ CacheInv'
  BY <1>16 DEF Publish, Forget, TypeOK
<1> QED
  BY <1>1, <1>2, <1>3, <1>4, <1>5, <1>6, <1>7, <1>8, <1>9, <1>10, <1>11, <1>12,
     <1>13, <1>14, <1>15, <1>16 DEF Next, Plan, Proceed

LEMMA CachesAlways ==
  ASSUME BuildsWriteAll PROVE Spec => [](PlanInv /\ CacheInv)
<1>1. Init => PlanInv /\ CacheInv
  BY InitCacheInv
<1>2. TypeOK /\ LockInv /\ OptionsInv /\ (PlanInv /\ CacheInv) /\ [Next]_vars
        => (PlanInv /\ CacheInv)'
  BY StepCacheInv
<1> QED BY <1>1, <1>2, TypeCorrect, LocksHold, OptionsAlways, PTL DEF Spec

\* Whatever the threads edit, build and read at the same time, the static and
\* the build cache describe the build directory exactly whenever the filesystem
\* mutex is free, as long as no build stops between its two plans.
THEOREM CachesAlwaysDescribeDist ==
  ASSUME BuildsWriteAll PROVE Spec => []CachesDescribeDist
<1>1. LockInv /\ CacheInv => CachesDescribeDist
  <2> SUFFICES ASSUME LockInv, CacheInv, fsOwner = None
               PROVE  /\ DiskAgrees(dist, staticCache, buildCache)
                      /\ Disjoint(staticCache, buildCache)
    BY DEF CachesDescribeDist, DiskAgrees, Disjoint
  <2>1. \A t \in Thread : ~BetweenPlans(t)
    BY NoneAssumption DEF LockInv, InWithFs, BetweenPlans
  <2> QED BY <2>1 DEF CacheInv
<1> QED BY <1>1, CachesAlways, LocksHold, PTL

-----------------------------------------------------------------------------
(* The object cache is fresh *)

\* A mutation under way has changed nothing its thread will not invalidate, but
\* for a file that was not there before and so is in no cache.
Pending(o) == \E t \in Thread : o \in dirty[t]

\* A build whose snapshot is of the present generation plans against the files
\* as they are, but for those a mutation is changing: each is either about to be
\* invalidated or new, and the snapshot does not list a new one.
SnapInv ==
  \A t \in Thread :
    pc[t] \in {"static", "objects", "planned", "applyStatic"} =>
      /\ gen[t] \in Nat /\ gen[t] <= generation
      /\ gen[t] = generation =>
           \A o \in Object :
             snap[t][o] # None => snap[t][o] = files[o] \/ Pending(o)

\* Paths are dirty only inside the call that changed them.
DirtyInv == \A t \in Thread : dirty[t] # {} <=> pc[t] = "invalidating"

FreshInv == DirtyInv /\ SnapInv /\ ObjCacheFresh

LEMMA InitFreshInv == Init => FreshInv
BY DEF Init, FreshInv, DirtyInv, SnapInv, ObjCacheFresh, NoObjects

\* While the filesystem mutex is free no invalidation is due.
LEMMA NothingPending ==
  ASSUME TypeOK, LockInv, FreshInv, fsOwner = None
  PROVE  /\ \A t \in Thread : dirty[t] = {}
         /\ \A o \in Object : objCache[o] # None => objCache[o] = files[o]
         /\ \A o \in Object : Loaded[o] # None => Loaded[o] = files[o]
<1>1. \A t \in Thread : dirty[t] = {}
  BY NoneAssumption DEF LockInv, InWithFs, FreshInv, DirtyInv, TypeOK
<1>2. \A o \in Object : objCache[o] # None => objCache[o] = files[o]
  BY <1>1 DEF FreshInv, ObjCacheFresh
<1>3. \A o \in Object : Loaded[o] # None => Loaded[o] = files[o]
  BY <1>2 DEF Loaded, Cached
<1> QED BY <1>1, <1>2, <1>3

\* A mutation keeps the invariant when every file it changes is one it will
\* invalidate, or one that did not exist.
LEMMA MutateFresh ==
  ASSUME TypeOK, LockInv, FreshInv, NEW t \in Thread,
         NEW newFiles \in [Source -> Value], NEW stale \in SUBSET Source,
         NEW newCache \in [Object -> Value], stale # {},
         Mutate(t, newFiles, stale, newCache),
         newCache = objCache \/ newCache = Loaded,
         \A o \in Object \ stale : newFiles[o] = files[o] \/ files[o] = None
  PROVE  FreshInv'
<1>1. fsOwner = None /\ pc[t] = "idle"
  BY DEF Mutate
<1>2. /\ \A u \in Thread : dirty[u] = {}
      /\ \A o \in Object : newCache[o] # None => newCache[o] = files[o]
  BY <1>1, NothingPending
<1>3. /\ files' = newFiles /\ objCache' = newCache
      /\ dirty' = [dirty EXCEPT ![t] = stale]
      /\ pc' = [pc EXCEPT ![t] = "invalidating"]
      /\ generation' = generation /\ gen' = gen /\ snap' = snap
  BY DEF Mutate
<1>4. DirtyInv'
  BY <1>3 DEF DirtyInv, FreshInv, TypeOK
<1>5. \A o \in stale : \E u \in Thread : o \in dirty'[u]
  BY <1>3 DEF TypeOK
<1>6. ObjCacheFresh'
  BY <1>2, <1>3, <1>5 DEF ObjCacheFresh
<1>7. \A u \in Thread : pc'[u] \in {"static", "objects", "planned", "applyStatic"} => pc[u] = pc'[u]
  BY <1>3 DEF TypeOK
<1>8. SnapInv'
  <2> SUFFICES ASSUME NEW u \in Thread,
                      pc'[u] \in {"static", "objects", "planned", "applyStatic"}
               PROVE  /\ gen'[u] \in Nat /\ gen'[u] <= generation'
                      /\ gen'[u] = generation' =>
                           \A o \in Object :
                             snap'[u][o] # None =>
                               snap'[u][o] = files'[o] \/ Pending(o)'
    BY DEF SnapInv
  <2>1. /\ gen[u] \in Nat /\ gen[u] <= generation
        /\ gen[u] = generation =>
             \A o \in Object : snap[u][o] # None => snap[u][o] = files[o]
    BY <1>2, <1>7 DEF FreshInv, SnapInv, Pending
  <2> QED BY <1>3, <1>5, <2>1 DEF Pending
<1> QED BY <1>4, <1>6, <1>8 DEF FreshInv

\* The mutations of one file.
LEMMA WriteFresh ==
  ASSUME TypeOK, LockInv, FreshInv, NEW t \in Thread, NEW s \in Source,
         NEW v \in Value, NEW newCache \in [Object -> Value],
         newCache = objCache \/ newCache = Loaded,
         Mutate(t, [files EXCEPT ![s] = v], {s}, newCache)
  PROVE  FreshInv'
<1> DEFINE new == [files EXCEPT ![s] = v]
<1>1. new \in [Source -> Value]
  BY DEF TypeOK, Value
<1>2. \A o \in Object \ {s} : new[o] = files[o] \/ files[o] = None
  BY DEF TypeOK, Source
<1>3. Mutate(t, new, {s}, newCache)
  OBVIOUS
<1> HIDE DEF new
<1> QED BY <1>1, <1>2, <1>3, MutateFresh

LEMMA ChangeFresh ==
  ASSUME ~RenameOnto, TypeOK, LockInv, FreshInv, NEW t \in Thread, Change(t)
  PROVE  FreshInv'
<1>0. /\ files \in [Source -> Value]
      /\ objCache \in [Object -> Value]
      /\ Loaded \in [Object -> Value]
      /\ Parsed(files, Object) \in [Object -> Value]
      /\ Object \subseteq Source
  BY CachedType, ParsedType DEF TypeOK, Value, Loaded, Source
<1>1. /\ Now \in Nat
      /\ {Now} \in Value
      /\ None \in Value
  BY DEF TypeOK, Now, Content, Value
<1>2. ASSUME NEW o \in Object, EditObject(t, o) PROVE FreshInv'
  <2>1. Parsed(files, Object)[o] \cup {Now} \in Value
    BY <1>0, <1>1, <1>2, ContentGrows DEF EditObject, Value
  <2> QED BY <1>0, <1>2, <2>1, WriteFresh DEF EditObject
<1>3. ASSUME NEW o \in Object, WriteObject(t, o) PROVE FreshInv'
  BY <1>0, <1>1, <1>3, WriteFresh DEF WriteObject
<1>4. ASSUME NEW o \in Object, AddObject(t, o) PROVE FreshInv'
  BY <1>0, <1>1, <1>4, WriteFresh DEF AddObject
<1>5. ASSUME NEW o \in Object, DeleteObject(t, o) PROVE FreshInv'
  BY <1>0, <1>1, <1>5, WriteFresh DEF DeleteObject
<1>6. ASSUME NEW from \in Object, NEW to \in Object, RenameObject(t, from, to)
      PROVE FreshInv'
  <2> DEFINE new == [[files EXCEPT ![to] = files[from]] EXCEPT ![from] = None]
  <2>1. /\ files[to] = None
        /\ Mutate(t, new, {from}, Loaded)
    BY <1>6 DEF RenameObject
  <2>2. new \in [Source -> Value]
    BY <1>0, <1>1
  <2>3. \A o \in Object \ {from} : new[o] = files[o] \/ files[o] = None
    BY <1>0, <2>1
  <2> HIDE DEF new
  <2> QED BY <1>0, <2>1, <2>2, <2>3, MutateFresh
<1>7. ASSUME NEW s \in Source, WriteSource(t, s) PROVE FreshInv'
  BY <1>0, <1>1, <1>7, WriteFresh DEF WriteSource
<1>8. ASSUME NEW s \in Source, DeleteSource(t, s) PROVE FreshInv'
  BY <1>0, <1>1, <1>8, WriteFresh DEF DeleteSource
<1>9. ASSUME NEW from \in Source, NEW to \in Source, RenameSource(t, from, to)
      PROVE FreshInv'
  <2> DEFINE new == [[files EXCEPT ![to] = files[from]] EXCEPT ![from] = None]
  <2>1. Mutate(t, new, {from, to}, objCache)
    BY <1>9 DEF RenameSource
  <2>2. new \in [Source -> Value]
    BY <1>0, <1>1
  <2>3. \A o \in Object \ {from, to} : new[o] = files[o] \/ files[o] = None
    BY <1>0, <2>1
  <2> HIDE DEF new
  <2> QED BY <1>0, <2>1, <2>2, <2>3, MutateFresh
<1> QED
  BY <1>2, <1>3, <1>4, <1>5, <1>6, <1>7, <1>8, <1>9 DEF Change

\* Steps that change no file, no cache entry and no snapshot.
LEMMA FrameFresh ==
  ASSUME FreshInv,
         UNCHANGED <<files, objCache, dirty, generation, gen, snap>>,
         \A u \in Thread :
           /\ pc'[u] = "invalidating" <=> pc[u] = "invalidating"
           /\ pc'[u] \in {"static", "objects", "planned", "applyStatic"} =>
                pc[u] \in {"static", "objects", "planned", "applyStatic"}
  PROVE  FreshInv'
BY DEF FreshInv, DirtyInv, ObjCacheFresh, SnapInv, Pending

LEMMA StepFreshInv ==
  ASSUME ~RenameOnto, TypeOK, LockInv, FreshInv, [Next]_vars
  PROVE  FreshInv'
<1> USE DEF FreshInv, DirtyInv, ObjCacheFresh, SnapInv, Pending
<1>1. CASE UNCHANGED vars
  BY <1>1 DEF vars
<1>2. ASSUME NEW t \in Thread, Request(t) PROVE FreshInv'
  <2>1. \A u \in Thread :
          /\ pc'[u] = "invalidating" <=> pc[u] = "invalidating"
          /\ pc'[u] \in {"static", "objects", "planned", "applyStatic"} =>
               pc[u] \in {"static", "objects", "planned", "applyStatic"}
    BY <1>2 DEF Request, RequestRead, RequestBuild, TypeOK
  <2> QED BY <1>2, <2>1, FrameFresh DEF Request, RequestRead, RequestBuild
<1>3. ASSUME NEW t \in Thread, Change(t) PROVE FreshInv'
  BY <1>3, ChangeFresh
<1>4. ASSUME NEW t \in Thread, ReadObjects(t) PROVE FreshInv'
  <2>1. fsOwner = None /\ objCache' = Loaded /\ files' = files
    BY <1>4 DEF ReadObjects
  <2>2. ObjCacheFresh'
    BY <2>1, NothingPending DEF Loaded
  <2>3. DirtyInv' /\ SnapInv'
    BY <1>4 DEF ReadObjects, TypeOK
  <2> QED BY <2>2, <2>3
<1>5. ASSUME NEW t \in Thread, Invalidate(t) PROVE FreshInv'
  <2>1. PICK s \in dirty[t] :
          /\ objCache' = [o \in Object |-> IF o = s THEN None ELSE objCache[o]]
          /\ generation' = generation + 1
          /\ dirty' = [dirty EXCEPT ![t] = @ \ {s}]
          /\ IF dirty[t] = {s}
               THEN /\ pc' = [pc EXCEPT ![t] = "idle"]
                    /\ fsOwner' = None
               ELSE UNCHANGED <<pc, fsOwner>>
    BY <1>5 DEF Invalidate
  <2>2. pc[t] = "invalidating" /\ files' = files /\ gen' = gen /\ snap' = snap
    BY <1>5 DEF Invalidate
  <2>3. ObjCacheFresh'
    BY <2>1, <2>2 DEF TypeOK
  <2>4. DirtyInv'
    BY <2>1, <2>2 DEF TypeOK
  <2>5. \A u \in Thread : pc'[u] \in {"static", "objects", "planned", "applyStatic"} => pc[u] = pc'[u]
    BY <2>1, <2>2 DEF TypeOK
  <2>6. SnapInv'
    BY <2>1, <2>2, <2>5 DEF TypeOK
  <2> QED BY <2>3, <2>4, <2>6
<1>6. ASSUME NEW t \in Thread, StartBuild(t) PROVE FreshInv'
  BY <1>6 DEF StartBuild, TypeOK
<1>7. ASSUME NEW t \in Thread, ReturnSkipped(t) PROVE FreshInv'
  BY <1>7 DEF ReturnSkipped, Forget, TypeOK
<1>8. ASSUME NEW t \in Thread, TakeSnapshot(t) PROVE FreshInv'
  BY <1>8 DEF TakeSnapshot, TypeOK
<1>9. ASSUME NEW t \in Thread, PlanStatic(t) PROVE FreshInv'
  <2>1. \A u \in Thread :
          /\ pc'[u] = "invalidating" <=> pc[u] = "invalidating"
          /\ pc'[u] \in {"static", "objects", "planned", "applyStatic"} =>
               pc[u] \in {"static", "objects", "planned", "applyStatic"}
    BY <1>9 DEF PlanStatic, TypeOK
  <2> QED BY <1>9, <2>1, FrameFresh DEF PlanStatic
<1>10. ASSUME NEW t \in Thread, NEW ty \in Type, ReadType(t, ty) PROVE FreshInv'
  <2>1. /\ pc[t] = "objects"
        /\ objCache' = Cached(snap[t], {o \in Object : TypeOf[o] = ty}, gen[t])
        /\ files' = files /\ dirty' = dirty /\ pc' = pc /\ gen' = gen
        /\ snap' = snap /\ generation' = generation
    BY <1>10 DEF ReadType
  <2>2. ObjCacheFresh'
    BY <2>1 DEF Cached
  <2> QED BY <2>1, <2>2
<1>11. ASSUME NEW t \in Thread, PlanPages(t) PROVE FreshInv'
  BY <1>11 DEF PlanPages, TypeOK
<1>12. ASSUME NEW t \in Thread, PageFailure(t) PROVE FreshInv'
  BY <1>12 DEF PageFailure, Forget, TypeOK
<1>13. ASSUME NEW t \in Thread, EnterApply(t) PROVE FreshInv'
  <2>1. \A u \in Thread :
          /\ pc'[u] = "invalidating" <=> pc[u] = "invalidating"
          /\ pc'[u] \in {"static", "objects", "planned", "applyStatic"} =>
               pc[u] \in {"static", "objects", "planned", "applyStatic"}
    BY <1>13 DEF EnterApply, TypeOK
  <2> QED BY <1>13, <2>1, FrameFresh DEF EnterApply
<1>14. ASSUME NEW t \in Thread, ApplyStatic(t) PROVE FreshInv'
  BY <1>14 DEF ApplyStatic, TypeOK
<1>15. ASSUME NEW t \in Thread, ApplyPages(t) PROVE FreshInv'
  BY <1>15 DEF ApplyPages, TypeOK
<1>16. ASSUME NEW t \in Thread, Publish(t) PROVE FreshInv'
  BY <1>16 DEF Publish, Forget, TypeOK
<1> QED
  BY <1>1, <1>2, <1>3, <1>4, <1>5, <1>6, <1>7, <1>8, <1>9, <1>10, <1>11, <1>12,
     <1>13, <1>14, <1>15, <1>16 DEF Next, Plan, Proceed

LEMMA FreshAlways == ASSUME ~RenameOnto PROVE Spec => []FreshInv
<1>1. Init => FreshInv
  BY InitFreshInv
<1>2. TypeOK /\ LockInv /\ FreshInv /\ [Next]_vars => FreshInv'
  BY StepFreshInv
<1> QED BY <1>1, <1>2, TypeCorrect, LocksHold, PTL DEF Spec

\* As long as no object is renamed onto another, the object cache never serves
\* what its file no longer holds, on either kind of backend: the generation
\* check keeps every parse of an old snapshot out of it.
THEOREM ObjCacheAlwaysFresh == ASSUME ~RenameOnto PROVE Spec => []ObjCacheFresh
BY FreshAlways, PTL DEF FreshInv

\* Under the same assumption a field edit adds to what is on disk: no edit is
\* lost to a stale parse.
THEOREM EditsAlwaysBuildOnEdits ==
  ASSUME ~RenameOnto PROVE Spec => EditsBuildOnEdits
<1>1. TypeOK /\ LockInv /\ FreshInv =>
        [\A t \in Thread, o \in Object :
           EditObject(t, o) => files'[o] = files[o] \cup {Now}]_vars
  <2> SUFFICES ASSUME TypeOK, LockInv, FreshInv, NEW t \in Thread,
                      NEW o \in Object, EditObject(t, o)
               PROVE  files'[o] = files[o] \cup {Now}
    OBVIOUS
  <2>1. /\ fsOwner = None
        /\ Parsed(files, Object)[o] # None
        /\ files' = [files EXCEPT ![o] = Parsed(files, Object)[o] \cup {Now}]
    BY DEF EditObject, Mutate
  <2>2. objCache[o] # None => objCache[o] = files[o]
    BY <2>1, NothingPending
  <2>3. Parsed(files, Object)[o] = files[o]
    BY <2>1, <2>2 DEF Parsed
  <2> QED BY <2>1, <2>3 DEF TypeOK, Source
<1> QED BY <1>1, FreshAlways, TypeCorrect, LocksHold, PTL DEF EditsBuildOnEdits

-----------------------------------------------------------------------------
(* A build that no edit overtook leaves the build directory current, and a   *)
(* build is skipped only when it would change no page: the end-to-end        *)
(* theorems, on the lemmas above.                                            *)

-----------------------------------------------------------------------------
(* Lemmas about what a plan wants *)

\* A static file or script that compiles is copied to its own output.
LEMMA StaticOutputWants ==
  ASSUME NEW src \in [Source -> Value], NEW s \in Static, s \notin FailedScripts(src)
  PROVE  Dest[s] \in Output /\ StaticOutput(src)[Dest[s]] = src[s]
<1>1. Dest[s] \in Output
  BY DEF Output
<1>2. \A s1 \in Static : Dest[s1] = Dest[s] => s1 = s
  BY ConstantsAssumption
<1>3. (CHOOSE s1 \in Static : Dest[s1] = Dest[s]) = s
  BY <1>2
<1> QED BY <1>1, <1>2, <1>3 DEF StaticOutput

\* A page depends on its object alone.
LEMMA PageOutputSame ==
  ASSUME NEW read, NEW src, \A o \in Object : read[o] = src[o]
  PROVE  \A p \in Output : PageOutput(read)[p] = PageOutput(src)[p]
BY DEF PageOutput

\* A plan that matches its cache is recorded whole when nothing is above it.
LEMMA RecordedIsWanted ==
  ASSUME NEW plan, NEW cache \in [Output -> Value], Matches(plan, cache),
         NEW p \in Output
  PROVE  Recorded(plan, cache, Nothing(plan))[p] = plan.out[p]
BY DEF Matches, Resolve, Recorded, Visited, Nothing

\* Where nothing is above it, it is on the disk its cache describes.
LEMMA AppliedIsWanted ==
  ASSUME NEW plan, NEW disk \in [Output -> Value], NEW static \in [Output -> Value],
         NEW page \in [Output -> Value], Matches(plan, page),
         DiskAgrees(disk, static, page), NEW p \in Output, static[p] = None
  PROVE  Applied(plan, disk, static)[p] = plan.out[p]
BY DEF Matches, Resolve, Applied, DiskAgrees

-----------------------------------------------------------------------------
(* A build nobody overtakes plans and applies the files as they are *)

\* Nobody has finished an edit since t's snapshot, nor is in the middle of one.
Calm(t) == gen[t] = generation /\ ~Mutating

StaticPending(t) ==
  pc[t] \in {"planned", "applyStatic"} \/ (pc[t] = "objects" /\ SnapshotBackend)

StaticDone(t) ==
  pc[t] \in {"applyPages", "publish"} \/ (pc[t] = "objects" /\ ~SnapshotBackend)

PagesPending(t) ==
  pc[t] \in {"planned", "applyPages"} \/ (pc[t] = "applyStatic" /\ SnapshotBackend)

\* What t's build has done so far, when no edit has come between.
Underway == {"static", "objects", "planned", "applyStatic", "applyPages", "publish"}

SnapshotCurrent(t) == pc[t] \in Underway => snap[t] = files

ObjectsCurrent(t) ==
  pc[t] \in Underway =>
    \A o \in Object : TypeOf[o] \notin todo[t] => objs[t][o] = files[o]

PagesWanted(t) ==
  PagesPending(t) => \A p \in Output : pages[t].out[p] = PageOutput(files)[p]

StaticsWanted(t) ==
  StaticPending(t) /\ statics[t] # None =>
    \A s \in Static : s \notin FailedScripts(files) => statics[t].out[Dest[s]] = files[s]

StaticsWritten(t) == StaticDone(t) /\ statics[t] # None => StaticsCurrent

PagesWritten(t) == pc[t] = "publish" => PagesCurrent

OnTrack(t) ==
  /\ SnapshotCurrent(t)
  /\ ObjectsCurrent(t)
  /\ PagesWanted(t)
  /\ StaticsWanted(t)
  /\ StaticsWritten(t)
  /\ PagesWritten(t)

CurrentInv ==
  \A t \in Thread : gen[t] <= generation /\ (Calm(t) => OnTrack(t))

\* A thread that has no plan has nothing to get wrong.
NoPlanYet == InCall \cup {"skipped", "locked"}

LEMMA IdleOnTrack ==
  ASSUME NEW t \in Thread, pc[t] \in NoPlanYet
  PROVE  OnTrack(t)
BY DEF OnTrack, SnapshotCurrent, ObjectsCurrent, PagesWanted, StaticsWanted,
   StaticsWritten, PagesWritten, Underway, PagesPending, StaticPending,
   StaticDone, NoPlanYet, InCall

LEMMA IdleOnTrackNext ==
  ASSUME NEW t \in Thread, pc'[t] \in NoPlanYet
  PROVE  OnTrack(t)'
BY DEF OnTrack, SnapshotCurrent, ObjectsCurrent, PagesWanted, StaticsWanted,
   StaticsWritten, PagesWritten, Underway, PagesPending, StaticPending,
   StaticDone, NoPlanYet, InCall

\* While one thread builds, the others do not.
LEMMA OthersIdle ==
  ASSUME TypeOK, LockInv, NEW t \in Thread, pc[t] \in InBuild,
         NEW u \in Thread, u # t
  PROVE  pc[u] \in InCall
BY DEF LockInv, TypeOK

\* A step of t's build leaves the files and the generation alone, and need only
\* be looked at for t.
LEMMA BuilderStep ==
  ASSUME TypeOK, LockInv, CurrentInv, NEW t \in Thread, pc[t] \in InBuild,
         UNCHANGED <<files, generation>>,
         \A u \in Thread \ {t} : pc'[u] = pc[u] /\ gen'[u] = gen[u],
         pc'[t] \in InBuild \cup {"idle"}, gen'[t] <= generation,
         gen'[t] = generation /\ ~Mutating => OnTrack(t)'
  PROVE  CurrentInv'
<1>1. ASSUME NEW u \in Thread, u # t PROVE gen'[u] <= generation' /\ OnTrack(u)'
  <2>1. pc'[u] \in NoPlanYet
    BY <1>1, OthersIdle DEF NoPlanYet
  <2> QED BY <1>1, <2>1, IdleOnTrackNext DEF CurrentInv
<1>2. Mutating' => Mutating
  BY DEF Mutating, InBuild
<1>3. Mutating => Mutating'
  BY DEF Mutating, InBuild
<1>4. gen'[t] <= generation' /\ (Calm(t)' => OnTrack(t)')
  BY <1>2, <1>3 DEF Calm
<1> QED BY <1>1, <1>4 DEF CurrentInv

\* The end of a call, however it ended.
LEMMA ForgetCurrent ==
  ASSUME TypeOK, LockInv, CurrentInv, NEW t \in Thread, pc[t] \in InBuild,
         Forget(t), UNCHANGED <<files, generation>>
  PROVE  CurrentInv'
<1>1. /\ pc'[t] = "idle" /\ gen'[t] = 0 /\ 0 <= generation
      /\ \A u \in Thread \ {t} : pc'[u] = pc[u] /\ gen'[u] = gen[u]
  BY DEF Forget, TypeOK
<1>2. OnTrack(t)'
  BY <1>1, IdleOnTrackNext DEF NoPlanYet, InCall
<1> QED BY <1>1, <1>2, BuilderStep

\* The static plan of a build that is on track wants the files as they are.
LEMMA PlanStaticCurrent ==
  ASSUME TypeOK, LockInv, CurrentInv, PlanInv, NEW t \in Thread, PlanStatic(t)
  PROVE  CurrentInv'
<1>1. /\ pc[t] = "static"
      /\ UNCHANGED <<files, generation, gen, snap, todo, objs, pages>>
  BY DEF PlanStatic
<1>2. /\ pc'[t] \in {"objects", "applyStatic"}
      /\ pc'[t] = "applyStatic" => ~SnapshotBackend
      /\ \A u \in Thread \ {t} : pc'[u] = pc[u]
  <2>1. CASE opts[t].skipStatic
    BY <2>1 DEF PlanStatic, TypeOK
  <2>2. CASE ~opts[t].skipStatic
    BY <2>2 DEF PlanStatic, TypeOK
  <2> QED BY <2>1, <2>2
<1>3. gen[t] \in Nat /\ gen[t] <= generation /\ statics[t] = None
  BY <1>1 DEF TypeOK, CurrentInv, PlanInv
<1>4. ASSUME gen[t] = generation, ~Mutating PROVE OnTrack(t)'
  <2>1. SnapshotCurrent(t) /\ ObjectsCurrent(t) /\ snap[t] = files
    BY <1>1, <1>4 DEF CurrentInv, Calm, OnTrack, SnapshotCurrent, Underway
  <2>2. SnapshotCurrent(t)' /\ ObjectsCurrent(t)'
    BY <1>1, <1>2, <2>1 DEF SnapshotCurrent, ObjectsCurrent, Underway
  <2>3. PagesWanted(t)' /\ PagesWritten(t)'
    BY <1>2 DEF PagesWanted, PagesWritten, PagesPending
  <2>4. CASE opts[t].skipStatic
    <3>1. statics'[t] = None
      BY <1>3, <2>4 DEF PlanStatic
    <3> QED BY <2>2, <2>3, <3>1 DEF OnTrack, StaticsWanted, StaticsWritten
  <2>5. CASE ~opts[t].skipStatic
    <3>1. statics'[t] = Resolve(StaticOutput(files), staticCache)
      BY <2>1, <2>5 DEF PlanStatic, TypeOK
    <3>2. statics'[t].out = StaticOutput(files)
      BY <3>1 DEF Resolve
    <3>3. StaticsWanted(t)'
      <4>1. files \in [Source -> Value]
        BY DEF TypeOK, Value
      <4>2. files' = files
        BY <1>1
      <4>3. \A s \in Static : s \notin FailedScripts(files') =>
              statics'[t].out[Dest[s]] = files'[s]
        BY <3>2, <4>1, <4>2, StaticOutputWants
      <4> QED BY <4>3 DEF StaticsWanted
    <3>4. pc'[t] = IF SnapshotBackend THEN "objects" ELSE "applyStatic"
      BY <2>5 DEF PlanStatic, TypeOK
    <3>5. StaticsWritten(t)'
      BY <3>4 DEF StaticsWritten, StaticDone
    <3> QED BY <2>2, <2>3, <3>3, <3>5 DEF OnTrack
  <2> QED BY <2>4, <2>5
<1> QED BY <1>1, <1>2, <1>3, <1>4, BuilderStep DEF InBuild

\* Parsing one type on track reads the files as they are, from the object cache
\* or from the snapshot.
LEMMA ReadTypeCurrent ==
  ASSUME TypeOK, LockInv, FreshInv, CurrentInv, NEW t \in Thread, NEW ty \in Type,
         ReadType(t, ty)
  PROVE  CurrentInv'
<1> DEFINE S == {o \in Object : TypeOf[o] = ty}
<1>1. /\ pc[t] = "objects" /\ pc' = pc
      /\ objs' = [objs EXCEPT ![t] =
                    [o \in Object |-> IF o \in S THEN Parsed(snap[t], S)[o] ELSE @[o]]]
      /\ todo' = [todo EXCEPT ![t] = @ \ {ty}]
      /\ UNCHANGED <<files, dist, staticCache, buildCache, generation, gen, snap,
                     statics, pages>>
  BY DEF ReadType
<1>2. ASSUME gen[t] = generation, ~Mutating PROVE OnTrack(t)'
  <2>1. OnTrack(t) /\ snap[t] = files
    BY <1>1, <1>2 DEF CurrentInv, Calm, OnTrack, SnapshotCurrent, Underway
  <2>2. \A o \in Object : objCache[o] # None => objCache[o] = files[o]
    BY <1>2 DEF FreshInv, ObjCacheFresh, DirtyInv, Mutating
  <2>3. \A o \in S : Parsed(files, S)[o] = files[o]
    BY <2>2 DEF Parsed
  <2>4. ObjectsCurrent(t)'
    <3>1. SUFFICES ASSUME NEW o \in Object, TypeOf[o] \notin todo'[t]
                   PROVE  objs'[t][o] = files[o]
      BY <1>1 DEF ObjectsCurrent
    <3>2. CASE o \in S
      BY <1>1, <2>1, <2>3, <3>2 DEF TypeOK
    <3>3. CASE o \notin S
      <4>1. TypeOf[o] \notin todo[t]
        BY <1>1, <3>1, <3>3 DEF TypeOK
      <4>2. objs[t][o] = files[o]
        BY <1>1, <2>1, <4>1 DEF OnTrack, ObjectsCurrent, Underway
      <4> QED BY <1>1, <3>3, <4>2 DEF TypeOK
    <3> QED BY <3>2, <3>3
  <2>5. SnapshotCurrent(t)' /\ PagesWanted(t)' /\ PagesWritten(t)'
    BY <1>1, <2>1 DEF SnapshotCurrent, PagesWanted, PagesWritten, PagesPending
  <2>6. StaticsWanted(t)'
    BY <1>1, <2>1 DEF OnTrack, StaticsWanted, StaticPending, FailedScripts
  <2>7. StaticsWritten(t)'
    BY <1>1, <2>1 DEF OnTrack, StaticsWritten, StaticDone, StaticsCurrent, FailedScripts
  <2> QED BY <2>4, <2>5, <2>6, <2>7 DEF OnTrack
<1>3. gen[t] <= generation
  BY DEF CurrentInv
<1> QED BY <1>1, <1>2, <1>3, BuilderStep DEF InBuild

\* The page plan of a build that is on track wants the files as they are.
LEMMA PlanPagesCurrent ==
  ASSUME TypeOK, LockInv, CurrentInv, NEW t \in Thread, PlanPages(t)
  PROVE  CurrentInv'
<1>1. /\ pc[t] = "objects" /\ todo[t] = {}
      /\ pages' = [pages EXCEPT ![t] = Resolve(PageOutput(objs[t]), buildCache)]
      /\ UNCHANGED <<files, dist, staticCache, buildCache, generation, gen, snap,
                     todo, objs, statics>>
      /\ pc' = [pc EXCEPT ![t] = IF SnapshotBackend THEN "planned" ELSE "applyPages"]
  BY DEF PlanPages
<1>2. /\ pc'[t] = IF SnapshotBackend THEN "planned" ELSE "applyPages"
      /\ \A u \in Thread \ {t} : pc'[u] = pc[u]
      /\ gen[t] <= generation
  BY <1>1 DEF TypeOK, CurrentInv
<1>3. ASSUME gen[t] = generation, ~Mutating PROVE OnTrack(t)'
  <2>1. OnTrack(t)
    BY <1>3 DEF CurrentInv, Calm
  <2>2. \A o \in Object : objs[t][o] = files[o]
    BY <1>1, <2>1 DEF OnTrack, ObjectsCurrent, Underway
  <2>3. pages'[t].out = PageOutput(objs[t])
    BY <1>1 DEF TypeOK, Resolve
  <2>4. \A p \in Output : pages'[t].out[p] = PageOutput(files)[p]
    BY <2>2, <2>3, PageOutputSame
  <2>5. PagesWanted(t)'
    BY <1>1, <2>4 DEF PagesWanted, PageOutput
  <2>6. SnapshotCurrent(t)' /\ ObjectsCurrent(t)'
    BY <1>1, <1>2, <2>1 DEF OnTrack, SnapshotCurrent, ObjectsCurrent, Underway
  <2>7. StaticsWanted(t)'
    BY <1>1, <1>2, <2>1 DEF OnTrack, StaticsWanted, StaticPending, FailedScripts
  <2>8. StaticsWritten(t)'
    BY <1>1, <1>2, <2>1 DEF OnTrack, StaticsWritten, StaticDone, StaticsCurrent, FailedScripts
  <2>9. PagesWritten(t)'
    BY <1>2 DEF PagesWritten
  <2> QED BY <2>5, <2>6, <2>7, <2>8, <2>9 DEF OnTrack
<1> QED BY <1>1, <1>2, <1>3, BuilderStep DEF InBuild

\* Applying the static plan makes the static outputs current.
LEMMA ApplyStaticCurrent ==
  ASSUME TypeOK, LockInv, PlanInv, CurrentInv, NEW t \in Thread, ApplyStatic(t)
  PROVE  CurrentInv'
<1>1. /\ pc[t] = "applyStatic"
      /\ staticCache' = Recorded(statics[t], staticCache, Nothing(statics[t]))
      /\ pc' = [pc EXCEPT ![t] = IF SnapshotBackend THEN "applyPages" ELSE "objects"]
      /\ UNCHANGED <<files, generation, gen, snap, todo, objs, statics, pages>>
  BY DEF ApplyStatic
<1>2. /\ pc'[t] = IF SnapshotBackend THEN "applyPages" ELSE "objects"
      /\ \A u \in Thread \ {t} : pc'[u] = pc[u]
      /\ gen[t] <= generation
  BY <1>1 DEF TypeOK, CurrentInv
<1>3. statics[t] # None => Matches(statics[t], staticCache)
  BY <1>1 DEF PlanInv
<1>4. ASSUME gen[t] = generation, ~Mutating PROVE OnTrack(t)'
  <2>1. OnTrack(t)
    BY <1>4 DEF CurrentInv, Calm
  <2>2. ASSUME statics[t] # None PROVE StaticsCurrent'
    <3>1. SUFFICES ASSUME NEW s \in Static, s \notin FailedScripts(files)
                   PROVE  staticCache'[Dest[s]] = files[s]
      BY <1>1 DEF StaticsCurrent, FailedScripts
    <3>2. Dest[s] \in Output
      BY DEF Output
    <3>3. staticCache'[Dest[s]] = statics[t].out[Dest[s]]
      BY <1>1, <1>3, <2>2, <3>2, RecordedIsWanted DEF TypeOK, Value
    <3>4. statics[t].out[Dest[s]] = files[s]
      BY <1>1, <2>1, <2>2, <3>1 DEF OnTrack, StaticsWanted, StaticPending
    <3> QED BY <3>3, <3>4
  <2>3. StaticsWritten(t)'
    BY <1>1, <2>2 DEF StaticsWritten
  <2>4. SnapshotCurrent(t)' /\ ObjectsCurrent(t)'
    BY <1>1, <1>2, <2>1 DEF OnTrack, SnapshotCurrent, ObjectsCurrent, Underway
  <2>5. PagesWanted(t)'
    BY <1>1, <1>2, <2>1 DEF OnTrack, PagesWanted, PagesPending, PageOutput
  <2>6. StaticsWanted(t)' /\ PagesWritten(t)'
    BY <1>2 DEF StaticsWanted, StaticPending, PagesWritten
  <2> QED BY <2>3, <2>4, <2>5, <2>6 DEF OnTrack
<1> QED BY <1>1, <1>2, <1>4, BuilderStep DEF InBuild

\* Applying the page plan makes every output no static file holds current.
LEMMA ApplyPagesCurrent ==
  ASSUME TypeOK, LockInv, PlanInv, CacheInv, CurrentInv, NEW t \in Thread,
         ApplyPages(t)
  PROVE  CurrentInv' /\ (gen[t] = generation /\ ~Mutating => PagesCurrent')
<1>1. /\ pc[t] = "applyPages"
      /\ dist' = Applied(pages[t], dist, staticCache)
      /\ UNCHANGED <<files, staticCache, generation, gen, snap, todo, objs, statics, pages>>
      /\ pc'[t] = "publish"
      /\ \A u \in Thread \ {t} : pc'[u] = pc[u]
      /\ gen[t] <= generation
  BY DEF ApplyPages, TypeOK, CurrentInv
<1>2. Matches(pages[t], buildCache) /\ DiskAgrees(dist, staticCache, buildCache)
  BY <1>1 DEF PlanInv, CacheInv
<1>3. ASSUME gen[t] = generation, ~Mutating PROVE OnTrack(t)' /\ PagesCurrent'
  <2>1. OnTrack(t)
    BY <1>3 DEF CurrentInv, Calm
  <2>2. PagesCurrent'
    <3>1. SUFFICES ASSUME NEW p \in Output, staticCache[p] = None
                   PROVE  dist'[p] = PageOutput(files)[p]
      BY <1>1 DEF PagesCurrent, PageOutput
    <3>2. dist'[p] = pages[t].out[p]
      <4>1. /\ dist \in [Output -> Value] /\ staticCache \in [Output -> Value]
            /\ buildCache \in [Output -> Value]
        BY DEF TypeOK, Value
      <4>2. Applied(pages[t], dist, staticCache)[p] = pages[t].out[p]
        BY <1>2, <3>1, <4>1, AppliedIsWanted
      <4> QED BY <1>1, <4>2
    <3>3. pages[t].out[p] = PageOutput(files)[p]
      BY <1>1, <2>1 DEF OnTrack, PagesWanted, PagesPending
    <3> QED BY <3>2, <3>3
  <2>3. StaticsWritten(t)'
    BY <1>1, <2>1 DEF OnTrack, StaticsWritten, StaticDone, StaticsCurrent, FailedScripts
  <2>4. SnapshotCurrent(t)' /\ ObjectsCurrent(t)'
    BY <1>1, <2>1 DEF OnTrack, SnapshotCurrent, ObjectsCurrent, Underway
  <2>5. PagesWanted(t)' /\ StaticsWanted(t)'
    BY <1>1 DEF PagesWanted, PagesPending, StaticsWanted, StaticPending
  <2> QED BY <2>2, <2>3, <2>4, <2>5 DEF OnTrack, PagesWritten
<1> QED BY <1>1, <1>3, BuilderStep DEF InBuild

\* A step that gives nobody a plan and touches none.
LEMMA FrameCurrent ==
  ASSUME CurrentInv, Mutating' <=> Mutating,
         UNCHANGED <<files, dist, staticCache, generation, gen, snap, todo, objs,
                     statics, pages>>,
         \A u \in Thread : pc'[u] = pc[u] \/ pc'[u] \in NoPlanYet
  PROVE  CurrentInv'
<1> SUFFICES ASSUME NEW u \in Thread
             PROVE  gen'[u] <= generation' /\ (Calm(u)' => OnTrack(u)')
  BY DEF CurrentInv
<1>1. gen[u] <= generation /\ (Calm(u)' => OnTrack(u))
  BY DEF CurrentInv, Calm
<1>2. ASSUME OnTrack(u), pc'[u] = pc[u] PROVE OnTrack(u)'
  BY <1>2 DEF OnTrack, SnapshotCurrent, ObjectsCurrent, PagesWanted, StaticsWanted,
     StaticsWritten, PagesWritten, PagesPending, StaticPending, StaticDone,
     PagesCurrent, StaticsCurrent, PageOutput, FailedScripts
<1> QED BY <1>1, <1>2, IdleOnTrackNext

LEMMA StepCurrentInv ==
  ASSUME TypeOK, LockInv, FreshInv, PlanInv, CacheInv, CurrentInv, [Next]_vars
  PROVE  CurrentInv'
<1>1. CASE UNCHANGED vars
  <2>1. Mutating' <=> Mutating
    BY <1>1 DEF vars, Mutating
  <2> QED BY <1>1, <2>1, FrameCurrent DEF vars
<1>2. ASSUME NEW t \in Thread, Request(t) PROVE CurrentInv'
  <2>1. Mutating' <=> Mutating
    BY <1>2 DEF Request, RequestRead, RequestBuild, Mutating, TypeOK
  <2>2. \A u \in Thread : pc'[u] = pc[u] \/ pc'[u] \in NoPlanYet
    BY <1>2 DEF Request, RequestRead, RequestBuild, TypeOK, NoPlanYet, InCall
  <2> QED BY <1>2, <2>1, <2>2, FrameCurrent DEF Request, RequestRead, RequestBuild
<1>3. ASSUME NEW t \in Thread, Change(t) PROVE CurrentInv'
  <2>1. PICK newFiles, stale, newCache : Mutate(t, newFiles, stale, newCache)
    BY <1>3 DEF Change, EditObject, WriteObject, AddObject, DeleteObject,
       RenameObject, WriteSource, DeleteSource, RenameSource
  <2>2. Mutating'
    BY <2>1 DEF Mutate, TypeOK, Mutating
  <2>3. gen' = gen /\ generation' = generation
    BY <2>1 DEF Mutate
  <2> QED BY <2>2, <2>3 DEF CurrentInv, Calm
<1>4. ASSUME NEW t \in Thread, ReadObjects(t) PROVE CurrentInv'
  <2>1. Mutating' <=> Mutating
    BY <1>4 DEF ReadObjects, Mutating, TypeOK
  <2>2. \A u \in Thread : pc'[u] = pc[u] \/ pc'[u] \in NoPlanYet
    BY <1>4 DEF ReadObjects, TypeOK, NoPlanYet, InCall
  <2> QED BY <1>4, <2>1, <2>2, FrameCurrent DEF ReadObjects
<1>5. ASSUME NEW t \in Thread, Invalidate(t) PROVE CurrentInv'
  <2>1. generation' = generation + 1 /\ gen' = gen
    BY <1>5 DEF Invalidate
  <2>2. \A u \in Thread : gen[u] \in Nat /\ generation \in Nat /\ gen[u] <= generation
    BY DEF TypeOK, CurrentInv
  <2> QED BY <2>1, <2>2 DEF CurrentInv, Calm
<1>6. ASSUME NEW t \in Thread, StartBuild(t) PROVE CurrentInv'
  <2>1. /\ gen' = [gen EXCEPT ![t] = generation] /\ pc[t] = "queued"
        /\ pc' = [pc EXCEPT ![t] = "skipped"] \/ pc' = [pc EXCEPT ![t] = "locked"]
        /\ UNCHANGED <<files, dist, staticCache, generation, snap, todo, objs,
                       statics, pages>>
    BY <1>6 DEF StartBuild
  <2>2. ASSUME NEW u \in Thread PROVE gen'[u] <= generation' /\ (Calm(u)' => OnTrack(u)')
    <3>1. CASE u = t
      <4>1. pc'[u] \in NoPlanYet /\ gen'[u] = generation /\ generation \in Nat
        BY <2>1, <3>1 DEF TypeOK, NoPlanYet
      <4> QED BY <2>1, <4>1, IdleOnTrackNext
    <3>2. CASE u # t
      <4>1. pc'[u] = pc[u] /\ gen'[u] = gen[u]
        BY <2>1, <3>2 DEF TypeOK
      <4>2. \A v \in Thread : pc'[v] = "invalidating" <=> pc[v] = "invalidating"
        BY <2>1 DEF TypeOK
      <4>3. pc[u] \in InBuild => buildLock = u
        BY DEF LockInv
      <4>4. buildLock = None
        BY <1>6 DEF StartBuild
      <4>5. pc[u] \in InCall
        BY <4>3, <4>4, NoneAssumption DEF TypeOK
      <4>6. OnTrack(u)'
        BY <4>1, <4>5, IdleOnTrackNext DEF NoPlanYet
      <4> QED BY <2>1, <4>1, <4>6 DEF CurrentInv
    <3> QED BY <3>1, <3>2
  <2> QED BY <2>2 DEF CurrentInv
<1>7. ASSUME NEW t \in Thread, ReturnSkipped(t) \/ PageFailure(t) \/ Publish(t)
      PROVE CurrentInv'
  <2>1. Forget(t) /\ pc[t] \in InBuild /\ UNCHANGED <<files, generation>>
    BY <1>7 DEF ReturnSkipped, PageFailure, Publish, InBuild
  <2> QED BY <2>1, ForgetCurrent
<1>8. ASSUME NEW t \in Thread, TakeSnapshot(t) PROVE CurrentInv'
  <2>1. /\ pc[t] = "locked" /\ pc'[t] = "static" /\ gen'[t] = generation
        /\ snap'[t] = files /\ todo'[t] = Type
        /\ UNCHANGED <<files, generation>>
        /\ \A u \in Thread \ {t} : pc'[u] = pc[u] /\ gen'[u] = gen[u]
    BY <1>8 DEF TakeSnapshot, TypeOK
  <2>2. \A o \in Object : TypeOf[o] \in Type
    BY ConstantsAssumption
  <2>3. OnTrack(t)'
    BY <2>1, <2>2 DEF OnTrack, SnapshotCurrent, ObjectsCurrent, PagesWanted,
       StaticsWanted, StaticsWritten, PagesWritten, PagesPending, StaticPending,
       StaticDone
  <2>4. generation <= generation
    BY DEF TypeOK
  <2> QED BY <2>1, <2>3, <2>4, BuilderStep DEF InBuild
<1>9. ASSUME NEW t \in Thread, EnterApply(t) PROVE CurrentInv'
  <2>1. /\ pc[t] = "planned"
        /\ pc'[t] = IF statics[t] = None THEN "applyPages" ELSE "applyStatic"
        /\ \A u \in Thread \ {t} : pc'[u] = pc[u]
        /\ UNCHANGED <<files, generation, gen, snap, todo, objs, statics, pages>>
        /\ gen[t] <= generation
        /\ SnapshotBackend
    BY <1>9 DEF EnterApply, TypeOK, CurrentInv, PlanInv
  <2>2. ASSUME gen[t] = generation, ~Mutating PROVE OnTrack(t)'
    <3>1. OnTrack(t)
      BY <2>2 DEF CurrentInv, Calm
    <3>2. SnapshotCurrent(t)' /\ ObjectsCurrent(t)'
      BY <2>1, <3>1 DEF OnTrack, SnapshotCurrent, ObjectsCurrent, Underway
    <3>3. PagesWanted(t)' /\ PagesWritten(t)'
      BY <2>1, <3>1 DEF OnTrack, PagesWanted, PagesPending, PageOutput, PagesWritten
    <3>4. StaticsWanted(t)' /\ StaticsWritten(t)'
      BY <2>1, <3>1 DEF OnTrack, StaticsWanted, StaticsWritten, StaticPending,
         StaticDone, FailedScripts
    <3> QED BY <3>2, <3>3, <3>4 DEF OnTrack
  <2> QED BY <2>1, <2>2, BuilderStep DEF InBuild
<1> QED
  BY <1>1, <1>2, <1>3, <1>4, <1>5, <1>6, <1>7, <1>8, <1>9, PlanStaticCurrent,
     ReadTypeCurrent, PlanPagesCurrent, ApplyStaticCurrent, ApplyPagesCurrent
  DEF Next, Plan, Proceed

LEMMA CurrentAlways ==
  ASSUME BuildsWriteAll, ~RenameOnto PROVE Spec => []CurrentInv
<1>1. Init => CurrentInv
  BY IdleOnTrack DEF Init, CurrentInv, NoPlanYet, InCall
<1>2. TypeOK /\ LockInv /\ FreshInv /\ (PlanInv /\ CacheInv) /\ CurrentInv /\ [Next]_vars
        => CurrentInv'
  BY StepCurrentInv
<1> QED
  BY <1>1, <1>2, TypeCorrect, LocksHold, FreshAlways, CachesAlways, PTL DEF Spec

\* Whatever was edited, built, cached, shadowed or skipped before, and whatever
\* other threads do meanwhile: a build that no edit overtook leaves in the build
\* directory what the live sources render to.
THEOREM BuildAlwaysCurrent ==
  ASSUME BuildsWriteAll, ~RenameOnto PROVE Spec => []BuildIsCurrent
<1>1. CurrentInv => BuildIsCurrent
  BY DEF CurrentInv, BuildIsCurrent, Calm, OnTrack, PagesWritten, StaticsWritten,
     StaticDone
<1> QED BY <1>1, CurrentAlways, PTL

-----------------------------------------------------------------------------
(* One thread skips only builds that would change no page *)

\* With one thread no edit can fall between a build's snapshot and the id it
\* stores, which is the departure the README lists for more.
OneThread == \A t, u \in Thread : t = u

\* A build id counts the edits made so far.
IdInv ==
  lastBuildId = None \/ \E c, g : lastBuildId = <<c, g>> /\ g \in Nat /\ g <= generation

\* As long as the last build's id is the present one its pages are on disk.
RedundantInv ==
  \A t \in Thread :
    /\ pc[t] \in InBuild => gen[t] = generation
    /\ pc[t] = "skipped" => PagesCurrent
    /\ /\ pc[t] # "invalidating" /\ ~BetweenPlans(t)
       /\ BuildId # None /\ lastBuildId = BuildId
       => PagesCurrent

LEMMA StepIdInv ==
  ASSUME TypeOK, IdInv, [Next]_vars
  PROVE  IdInv'
<1>1. ASSUME generation' = generation \/ generation' = generation + 1,
             lastBuildId' = lastBuildId \/ (lastBuildId' = BuildId /\ generation' = generation)
      PROVE  IdInv'
  <2>1. generation \in Nat /\ generation' \in Nat /\ generation <= generation'
    BY <1>1 DEF TypeOK
  <2>2. CASE lastBuildId' = lastBuildId
    BY <2>1, <2>2 DEF IdInv
  <2>3. CASE lastBuildId' = BuildId /\ generation' = generation
    <3>1. CASE buildCache = NoOutput
      BY <2>3, <3>1 DEF IdInv, BuildId
    <3>2. CASE buildCache # NoOutput
      <4>1. lastBuildId' = <<buildCache, generation>>
        BY <2>3, <3>2 DEF BuildId
      <4> QED BY <2>1, <2>3, <4>1 DEF IdInv
    <3> QED BY <3>1, <3>2
  <2> QED BY <1>1, <2>2, <2>3
<1>2. CASE UNCHANGED vars
  BY <1>1, <1>2 DEF vars
<1>3. ASSUME NEW t \in Thread, Change(t) PROVE IdInv'
  <2>1. PICK newFiles, stale, newCache : Mutate(t, newFiles, stale, newCache)
    BY <1>3 DEF Change, EditObject, WriteObject, AddObject, DeleteObject,
       RenameObject, WriteSource, DeleteSource, RenameSource
  <2> QED BY <1>1, <2>1 DEF Mutate
<1>4. ASSUME NEW t \in Thread, Request(t) \/ Plan(t) PROVE IdInv'
  BY <1>1, <1>4 DEF Request, RequestRead, RequestBuild, Plan, PlanStatic, ReadType,
     PlanPages, PageFailure
<1>5. ASSUME NEW t \in Thread, Proceed(t), ~Publish(t) PROVE IdInv'
  BY <1>1, <1>5 DEF Proceed, ReadObjects, Invalidate, StartBuild, ReturnSkipped,
     TakeSnapshot, EnterApply, ApplyStatic, ApplyPages
<1>6. ASSUME NEW t \in Thread, Publish(t) PROVE IdInv'
  BY <1>1, <1>6 DEF Publish
<1> QED BY <1>2, <1>3, <1>4, <1>5, <1>6 DEF Next

\* A step that leaves the outputs, the sources and the ids alone, and does not
\* come from a half-written build directory.
LEMMA FrameRedundant ==
  ASSUME OneThread, RedundantInv, NEW t \in Thread,
         UNCHANGED <<files, dist, staticCache, buildCache, generation, lastBuildId>>,
         pc[t] # "invalidating", ~BetweenPlans(t) \/ BetweenPlans(t)',
         pc'[t] \in InBuild => gen'[t] = generation,
         pc'[t] = "skipped" => PagesCurrent
  PROVE  RedundantInv'
<1>1. PagesCurrent' <=> PagesCurrent
  BY DEF PagesCurrent, PageOutput
<1>2. \A u \in Thread : u = t
  BY DEF OneThread
<1>3. BuildId' = BuildId
  BY DEF BuildId
<1> QED BY <1>1, <1>2, <1>3 DEF RedundantInv

LEMMA StepRedundantInv ==
  ASSUME OneThread, BuildsWriteAll, TypeOK, LockInv, OptionsInv, FreshInv, PlanInv,
         CacheInv, CurrentInv, IdInv, RedundantInv, [Next]_vars
  PROVE  RedundantInv'
<1>0. ASSUME NEW t \in Thread, pc[t] # "invalidating" PROVE ~Mutating
  BY <1>0 DEF OneThread, Mutating
<1>1. CASE UNCHANGED vars
  BY <1>1 DEF vars, RedundantInv, PagesCurrent, PageOutput, BuildId, BetweenPlans
<1>2. ASSUME NEW t \in Thread, Request(t) \/ ReadObjects(t) PROVE RedundantInv'
  <2>1. /\ pc'[t] \in {"reading", "queued", "idle"} /\ pc[t] \in {"idle", "reading"}
        /\ UNCHANGED <<files, dist, staticCache, buildCache, generation, lastBuildId>>
    BY <1>2 DEF Request, RequestRead, RequestBuild, ReadObjects, TypeOK
  <2>2. pc'[t] \notin InBuild /\ ~BetweenPlans(t)
    BY <2>1 DEF InBuild, BetweenPlans
  <2> QED BY <2>1, <2>2, FrameRedundant
<1>3. ASSUME NEW t \in Thread, Change(t) PROVE RedundantInv'
  <2>1. PICK newFiles, stale, newCache : Mutate(t, newFiles, stale, newCache)
    BY <1>3 DEF Change, EditObject, WriteObject, AddObject, DeleteObject,
       RenameObject, WriteSource, DeleteSource, RenameSource
  <2>2. pc'[t] = "invalidating"
    BY <2>1 DEF Mutate, TypeOK
  <2> QED BY <2>2 DEF RedundantInv, OneThread, InBuild
<1>4. ASSUME NEW t \in Thread, Invalidate(t) PROVE RedundantInv'
  <2>1. /\ generation' = generation + 1 /\ UNCHANGED <<buildCache, lastBuildId>>
        /\ pc'[t] \in {"invalidating", "idle"}
    BY <1>4 DEF Invalidate, TypeOK
  <2>2. ~(BuildId' # None /\ lastBuildId' = BuildId')
    <3> SUFFICES ASSUME BuildId' # None, lastBuildId = BuildId' PROVE FALSE
      BY <2>1
    <3>1. BuildId' = <<buildCache, generation + 1>>
      BY <2>1 DEF BuildId
    <3>2. PICK c, g : lastBuildId = <<c, g>> /\ g \in Nat /\ g <= generation
      BY DEF IdInv
    <3>3. g = generation + 1
      BY <3>1, <3>2
    <3> QED BY <3>2, <3>3 DEF TypeOK
  <2> QED BY <2>1, <2>2 DEF RedundantInv, OneThread, InBuild
<1>5. ASSUME NEW t \in Thread, StartBuild(t) PROVE RedundantInv'
  <2>1. /\ pc[t] = "queued" /\ gen'[t] = generation
        /\ pc'[t] \in {"skipped", "locked"}
        /\ pc'[t] = "skipped" => BuildId # None /\ lastBuildId = BuildId
        /\ UNCHANGED <<files, dist, staticCache, buildCache, generation, lastBuildId>>
    BY <1>5 DEF StartBuild, TypeOK
  <2>2. ~BetweenPlans(t)
    BY <2>1 DEF BetweenPlans
  <2>3. pc'[t] = "skipped" => PagesCurrent
    BY <2>1, <2>2 DEF RedundantInv
  <2> QED BY <2>1, <2>2, <2>3, FrameRedundant
<1>6. ASSUME NEW t \in Thread, ReturnSkipped(t) PROVE RedundantInv'
  <2>1. /\ pc[t] = "skipped" /\ pc'[t] = "idle"
        /\ UNCHANGED <<files, dist, staticCache, buildCache, generation, lastBuildId>>
    BY <1>6 DEF ReturnSkipped, Forget, TypeOK
  <2> QED BY <2>1, FrameRedundant DEF InBuild, BetweenPlans
<1>7. ASSUME NEW t \in Thread, TakeSnapshot(t) \/ EnterApply(t) PROVE RedundantInv'
  <2>1. /\ pc[t] \in {"locked", "planned"}
        /\ gen'[t] = generation \/ gen'[t] = gen[t]
        /\ pc'[t] # "skipped"
        /\ UNCHANGED <<files, dist, staticCache, buildCache, generation, lastBuildId>>
    BY <1>7 DEF TakeSnapshot, EnterApply, TypeOK
  <2>2. gen[t] = generation /\ ~BetweenPlans(t)
    BY <2>1 DEF RedundantInv, InBuild, BetweenPlans
  <2> QED BY <2>1, <2>2, FrameRedundant
<1>8. ASSUME NEW t \in Thread, PlanStatic(t) PROVE RedundantInv'
  <2>1. /\ pc[t] = "static" /\ gen' = gen /\ pc'[t] # "skipped"
        /\ UNCHANGED <<files, dist, staticCache, buildCache, generation, lastBuildId>>
    BY <1>8 DEF PlanStatic, TypeOK
  <2>2. gen[t] = generation /\ ~BetweenPlans(t)
    BY <2>1 DEF RedundantInv, InBuild, BetweenPlans
  <2> QED BY <2>1, <2>2, FrameRedundant
<1>9. ASSUME NEW t \in Thread, NEW ty \in Type, ReadType(t, ty) PROVE RedundantInv'
  <2>1. /\ pc[t] = "objects" /\ gen' = gen /\ pc' = pc
        /\ UNCHANGED <<files, dist, staticCache, buildCache, generation, lastBuildId>>
    BY <1>9 DEF ReadType
  <2>2. gen[t] = generation
    BY <2>1 DEF RedundantInv, InBuild
  <2> QED BY <2>1, <2>2, FrameRedundant DEF BetweenPlans
<1>10. ASSUME NEW t \in Thread, PlanPages(t) PROVE RedundantInv'
  <2>1. /\ pc[t] = "objects" /\ gen' = gen
        /\ pc'[t] = IF SnapshotBackend THEN "planned" ELSE "applyPages"
        /\ UNCHANGED <<files, dist, staticCache, buildCache, generation, lastBuildId>>
    BY <1>10 DEF PlanPages, TypeOK
  <2>2. gen[t] = generation
    BY <2>1 DEF RedundantInv, InBuild
  <2>3. ~BetweenPlans(t) \/ BetweenPlans(t)'
    BY <2>1 DEF BetweenPlans
  <2> QED BY <2>1, <2>2, <2>3, FrameRedundant
<1>11. ASSUME NEW t \in Thread, PageFailure(t) PROVE RedundantInv'
  <2>1. /\ pc[t] = "objects" /\ ~opts[t].skipFailures /\ pc'[t] = "idle"
        /\ UNCHANGED <<files, dist, staticCache, buildCache, generation, lastBuildId>>
    BY <1>11 DEF PageFailure, Forget, TypeOK
  <2>2. opts[t] \in Options
    BY <2>1 DEF OptionsInv, InBuild
  <2>3. ~BetweenPlans(t)
    BY <2>1, <2>2 DEF BuildsWriteAll, BetweenPlans
  <2> QED BY <2>1, <2>3, FrameRedundant DEF InBuild
<1>12. ASSUME NEW t \in Thread, ApplyStatic(t) PROVE RedundantInv'
  <2>1. /\ pc[t] = "applyStatic" /\ gen' = gen /\ generation' = generation
        /\ pc'[t] = IF SnapshotBackend THEN "applyPages" ELSE "objects"
    BY <1>12 DEF ApplyStatic, TypeOK
  <2>2. gen[t] = generation
    BY <2>1 DEF RedundantInv, InBuild
  <2>3. BetweenPlans(t)'
    BY <2>1 DEF BetweenPlans
  <2> QED BY <2>1, <2>2, <2>3 DEF RedundantInv, OneThread
<1>13. ASSUME NEW t \in Thread, ApplyPages(t) PROVE RedundantInv'
  <2>1. /\ pc[t] = "applyPages" /\ gen' = gen /\ generation' = generation
        /\ pc'[t] = "publish"
    BY <1>13 DEF ApplyPages, TypeOK
  <2>2. gen[t] = generation
    BY <2>1 DEF RedundantInv, InBuild
  <2>3. PagesCurrent'
    BY <1>0, <1>13, <2>1, <2>2, ApplyPagesCurrent
  <2> QED BY <2>1, <2>2, <2>3 DEF RedundantInv, OneThread
<1>14. ASSUME NEW t \in Thread, Publish(t) PROVE RedundantInv'
  <2>1. /\ pc[t] = "publish" /\ pc'[t] = "idle"
        /\ UNCHANGED <<files, dist, staticCache>>
    BY <1>14 DEF Publish, Forget, TypeOK
  <2>2. gen[t] = generation
    BY <2>1 DEF RedundantInv, InBuild
  <2>3. PagesCurrent
    BY <1>0, <2>1, <2>2 DEF CurrentInv, Calm, OnTrack, PagesWritten
  <2>4. PagesCurrent'
    BY <2>1, <2>3 DEF PagesCurrent, PageOutput
  <2> QED BY <2>1, <2>4 DEF RedundantInv, OneThread, InBuild
<1> QED
  BY <1>1, <1>2, <1>3, <1>4, <1>5, <1>6, <1>7, <1>8, <1>9, <1>10, <1>11, <1>12,
     <1>13, <1>14 DEF Next, Plan, Proceed

\* With one thread, a build skipped as a duplicate would have changed no page,
\* on either kind of backend, after any edits and builds.
THEOREM SkippedBuildAlwaysRedundant ==
  ASSUME OneThread, BuildsWriteAll, ~RenameOnto
  PROVE  Spec => []SkippedBuildIsRedundant
<1>1. Init => IdInv /\ RedundantInv
  BY DEF Init, IdInv, RedundantInv, InBuild, BuildId, BetweenPlans
<1>2. /\ TypeOK /\ LockInv /\ OptionsInv /\ FreshInv /\ (PlanInv /\ CacheInv)
      /\ CurrentInv /\ (IdInv /\ RedundantInv) /\ [Next]_vars
      => (IdInv /\ RedundantInv)'
  BY StepIdInv, StepRedundantInv
<1>3. RedundantInv => SkippedBuildIsRedundant
  BY DEF RedundantInv, SkippedBuildIsRedundant
<1> QED
  BY <1>1, <1>2, <1>3, TypeCorrect, LocksHold, OptionsAlways, FreshAlways,
     CachesAlways, CurrentAlways, PTL DEF Spec
==============================================================================
