------------------------------ MODULE WritePlan ------------------------------
(***************************************************************************)
(* `WritePlan` (src/src/site.rs): what a build resolved to, before any of  *)
(* it touches the filesystem.  A cache, a disk and the output a plan wants *)
(* are functions from outputs to contents, with None for "nothing here".   *)
(* A cache entry is a 64-bit hash of the bytes; equal hashes are taken to  *)
(* mean equal bytes, so an entry is the contents themselves.               *)
(***************************************************************************)
CONSTANT None

\* Slip: an output that has been written before is taken to be up to date.
ResolveByPath(wanted, cache) ==
  [ out       |-> wanted,
    writes    |-> {p \in DOMAIN wanted : wanted[p] # None /\ cache[p] = None},
    unchanged |-> {p \in DOMAIN wanted : wanted[p] # None /\ cache[p] # None},
    deletes   |-> {p \in DOMAIN wanted : wanted[p] = None /\ cache[p] # None} ]

\* `record`: an output whose cache entry differs is written, one whose entry
\* agrees is only accounted for; `delete_unvisited`: whatever the cache holds
\* and nothing asked for is deleted.
Resolve(wanted, cache) ==
  [ out       |-> wanted,
    writes    |-> {p \in DOMAIN wanted : wanted[p] # None /\ wanted[p] # cache[p]},
    unchanged |-> {p \in DOMAIN wanted : wanted[p] # None /\ wanted[p] = cache[p]},
    deletes   |-> {p \in DOMAIN wanted : wanted[p] = None /\ cache[p] # None} ]

\* `visited`: the outputs a plan accounts for, written or not.
Visited(plan) == plan.writes \cup plan.unchanged

\* The disk once `apply_beneath` has run: an output `above` holds stays as it is.
Applied(plan, disk, above) ==
  [p \in DOMAIN disk |->
     IF above[p] # None THEN disk[p]
     ELSE IF p \in plan.writes THEN plan.out[p]
     ELSE IF p \in plan.deletes THEN None
     ELSE disk[p]]

\* Slip: an output something above holds is still recorded as this plan's.
RecordedAnyway(plan, cache, above) ==
  [p \in DOMAIN cache |->
     IF p \in Visited(plan) THEN plan.out[p]
     ELSE IF p \in plan.deletes THEN None
     ELSE cache[p]]

\* Slip: an output that was deleted keeps its entry.
RecordedDeletes(plan, cache, above) ==
  [p \in DOMAIN cache |->
     IF p \in Visited(plan) /\ above[p] = None THEN plan.out[p]
     ELSE IF p \in Visited(plan) THEN None
     ELSE cache[p]]

\* The cache once `apply_beneath` has run: an output `above` holds is dropped.
Recorded(plan, cache, above) ==
  [p \in DOMAIN cache |->
     IF p \in Visited(plan) /\ above[p] = None THEN plan.out[p]
     ELSE IF p \in Visited(plan) \cup plan.deletes THEN None
     ELSE cache[p]]

\* `apply` is `apply_beneath` with nothing above.
Nothing(plan) == [p \in DOMAIN plan.out |-> None]
==============================================================================
