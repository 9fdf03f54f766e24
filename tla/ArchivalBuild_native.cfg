\* A real directory, where builds and edits exclude each other: one thread, and one type.
CONSTANTS
  None = None
  o1 = o1
  o2 = o2
  s1 = s1
  t1 = t1
  t2 = t2
  Thread = {t1}
  Object = {o1, o2}
  Static = {s1}
  Script = {s1}
  Type = {"post"}
  TypeOf <- MCOneTypeOf
  Dest <- MCDest
  Initial = {o1}
  Broken = {2}
  Options <- MCSkipping
  SnapshotBackend = FALSE
  RenameOnto = FALSE
  MaxGeneration = 4
SPECIFICATION Spec
INVARIANTS TypeOK CachesDescribeDist BuildIsCurrent SkippedBuildIsRedundant
