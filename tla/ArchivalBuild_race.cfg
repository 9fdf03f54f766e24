\* Two threads edit, read and build two objects of two types at once, and return.
CONSTANTS
  None = None
  o1 = o1
  o2 = o2
  s1 = s1
  t1 = t1
  t2 = t2
  Thread = {t1, t2}
  Object = {o1, o2}
  Static = {s1}
  Script = {s1}
  Type = {"post", "tag"}
  TypeOf <- MCTypeOf
  Dest <- MCDest
  Initial = {o1}
  Broken = {2}
  Options <- MCDefault
  SnapshotBackend = TRUE
  RenameOnto = FALSE
  MaxGeneration = 3
SPECIFICATION FairSpec
INVARIANTS ObjCacheFresh CachesDescribeDist BuildIsCurrent
PROPERTIES EditsBuildOnEdits BuildsReturn ReadersDoNotWaitForRenders
