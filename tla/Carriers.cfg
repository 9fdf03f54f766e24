\* A carrier is changed, reverted, removed and added while steps fail and the site
\* is rebuilt. The bounds stop it.
CONSTANTS
  None = None
  c1 = c1
  c2 = c2
  Carrier = {c1, c2}
  Present = {c1, c2}
  Edits = {"change", "revert", "add", "remove"}
  Drops = TRUE
  Pinned = FALSE
  MaxEdits = 2
  MaxBuilds = 1
  MaxFaults = 1
SPECIFICATION FairSpec
INVARIANTS WorkerIsSound
PROPERTIES EditsReachCarriers ObjectsReachCarriers
CHECK_DEADLOCK FALSE
