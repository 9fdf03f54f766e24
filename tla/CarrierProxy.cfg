\* A carrier is edited and requested while things go wrong, with one slot. The bounds stop it.
CONSTANTS
  None = None
  c1 = c1
  c2 = c2
  r1 = r1
  r2 = r2
  Carrier = {c1, c2}
  Present = {c1}
  Edits = {"change", "remove"}
  Drops = TRUE
  Pinned = FALSE
  MaxEdits = 2
  MaxBuilds = 0
  MaxFaults = 1
  Client = {r1, r2}
  Wants <- MCWants
  MaxConcurrent = 1
  MaxAttempts = 3
SPECIFICATION FairProxySpec
INVARIANTS ProxyIsSound
PROPERTIES BusyOnlyWhenFull RequestsAnswered
CHECK_DEADLOCK FALSE
