\* Three threads call, nest and panic; a release build, where a nested call is an
\* error the closure may go on after.
CONSTANTS
  t1 = t1
  t2 = t2
  t3 = t3
  Unowned = Unowned
  Thread = {t1, t2, t3}
  DebugBuild = FALSE
  MaxStores = 6
SPECIFICATION FairSpec
INVARIANTS OwnerIsSound ContentionIsNotRefused NestedCallsAreRefused
PROPERTIES ImplementsGate CallsReturn
\* The bound on calls stops the instance.
CHECK_DEADLOCK FALSE
