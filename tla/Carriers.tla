------------------------------- MODULE Carriers -------------------------------
(***************************************************************************)
(* Carriers in `archival run` (src/src/binary/carriers/mod.rs, host.rs and *)
(* dev_server.rs): the dev server watches the carriers' files and tells a  *)
(* worker thread when they or the site's objects change; the worker runs   *)
(* them in a node process, the sidecar, that it replaces when code changed.*)
(* What the worker tells the proxy is `state`; CarrierProxy composes the   *)
(* two.                                                                    *)
(*                                                                         *)
(* Data.  A carrier is one watched path; what its directory holds is a     *)
(* number, the edit that put it there.  The site's objects are the number  *)
(* of the build that made them.  A sidecar process is its pid.             *)
(***************************************************************************)
EXTENDS Integers, Sequences

CONSTANTS
  Carrier,     \* directories under carriers/
  None,        \* nothing: no directory, no process, no payload
  Present,     \* the carriers the site starts with
  Edits,       \* what is done to carriers: "change", "revert", "add", "remove"
  Drops,       \* whether the dev server gives up and drops its supervisor
  Pinned,      \* CarrierOptions::port is set
  MaxEdits,    \* bound: edits of carriers
  MaxBuilds,   \* bound: builds of the site
  MaxFaults    \* bound: failures of the worker's steps and deaths of a sidecar

ASSUME CarriersAssumption ==
  /\ Present \subseteq Carrier
  /\ Edits \subseteq {"change", "revert", "add", "remove"}
  /\ Drops \in BOOLEAN
  /\ Pinned \in BOOLEAN
  /\ MaxEdits \in Nat /\ MaxBuilds \in Nat /\ MaxFaults \in Nat

\* None, of the Rust option, is told from the values it may stand in for.
ASSUME NoneAssumption == None \notin Int

VARIABLES
  disk,        \* the carriers' code
  edits,       \* edits so far
  kinds,       \* the kinds of edits among them
  faults,      \* faults so far
  events,      \* changed carriers the watcher has still to hand over
  seen,        \* SeenContents
  carriersChanged, objectsStale,   \* locals of watch_with
  objects,     \* the objects of the last build
  supervisor,  \* "running", or where its Drop is
  inbox,       \* the worker's channel
  wpc,         \* where the worker is
  roots,       \* Worker::roots
  payload,     \* Worker::payload
  sidecar,     \* CarrierSupervisor::sidecar
  booting,     \* the sidecar rebuild has spawned and not yet stored
  procs,       \* the live sidecar processes: what each loaded and was pushed
  pids,        \* processes spawned so far
  state        \* ProxyState

devVars    == <<disk, edits, kinds, events, seen, carriersChanged, objectsStale, objects>>
workerVars == <<wpc, roots, payload, sidecar, booting, pids, state>>
carrierVars == <<devVars, faults, supervisor, inbox, workerVars, procs>>

Is(s) == [is |-> s, port |-> None]
Ready(port) == [is |-> "Ready", port |-> port]

\* An unpinned sidecar reports the port the system gave it.
PortOf(pid) == IF Pinned THEN 0 ELSE pid

Rebuild == [kind |-> "Rebuild", objects |-> None]
Objects(n) == [kind |-> "Objects", objects |-> n]

Here == {c \in Carrier : disk[c] # None}
NothingLoaded == [c \in Carrier |-> None]

\* CarrierSupervisor::start, once the watcher runs.
Init ==
  /\ disk = [c \in Carrier |-> IF c \in Present THEN 0 ELSE None]
  /\ edits = 0
  /\ kinds = {}
  /\ faults = 0
  /\ events = {}
  /\ seen = disk
  /\ carriersChanged = FALSE
  /\ objectsStale = TRUE
  /\ objects = 0
  /\ supervisor = "running"
  /\ inbox = <<Rebuild>>
  /\ wpc = "recv"
  /\ roots = {}
  /\ payload = None
  /\ sidecar = None
  /\ booting = None
  /\ procs = <<>>
  /\ pids = 0
  /\ state = Is("Starting")

-----------------------------------------------------------------------------
(* The site's author *)

\* Every change of contents is new, but for one that is taken back.
KindOf(c, v) ==
  CASE v = None -> "remove"
    [] v # None /\ disk[c] = None -> "add"
    [] v # None /\ disk[c] # None /\ v \in 0 .. edits -> "revert"
    [] OTHER -> "change"

EditTo(c, v) ==
  /\ edits < MaxEdits
  /\ v # disk[c]
  /\ KindOf(c, v) \in Edits
  /\ KindOf(c, v) \in {"add", "change"} => v = edits + 1
  /\ kinds' = kinds \cup {KindOf(c, v)}
  /\ disk' = [disk EXCEPT ![c] = v]
  /\ events' = events \cup {c}
  /\ edits' = edits + 1
  /\ UNCHANGED <<faults, seen, carriersChanged, objectsStale, objects,
                 supervisor, inbox, workerVars, procs>>

Edit == \E c \in Carrier : \E v \in (0 .. MaxEdits) \cup {None} : EditTo(c, v)

-----------------------------------------------------------------------------
(* The dev server's loop *)

\* Slip: an event is taken for news of a carrier that is known already.
TakeEventOfNew(c) ==
  /\ c \in events
  /\ events' = events \ {c}
  /\ carriersChanged' = (carriersChanged \/ seen[c] = None)
  /\ seen' = [seen EXCEPT ![c] = disk[c]]
  /\ UNCHANGED <<disk, edits, kinds, objectsStale, objects, faults, supervisor, inbox,
                 workerVars, procs>>

\* should_rebuild: SeenContents::changed compares the path with the last look.
TakeEvent(c) ==
  /\ supervisor = "running"
  /\ c \in events
  /\ events' = events \ {c}
  /\ carriersChanged' = (carriersChanged \/ disk[c] # seen[c])
  /\ seen' = [seen EXCEPT ![c] = disk[c]]
  /\ UNCHANGED <<disk, edits, kinds, objectsStale, objects, faults, supervisor, inbox,
                 workerVars, procs>>

SendRebuild ==
  /\ supervisor = "running"
  /\ carriersChanged
  /\ carriersChanged' = FALSE
  /\ inbox' = Append(inbox, Rebuild)
  /\ UNCHANGED <<disk, edits, kinds, events, seen, objectsStale, objects, faults,
                 supervisor, workerVars, procs>>

\* A build of the site that succeeds.
SiteBuilt ==
  /\ supervisor = "running"
  /\ objects < MaxBuilds
  /\ objects' = objects + 1
  /\ objectsStale' = TRUE
  /\ UNCHANGED <<disk, edits, kinds, events, seen, carriersChanged, faults, supervisor,
                 inbox, workerVars, procs>>

\* Left stale while idle, so a carrier added later is sent current objects; no
\* longer stale, too, once build_payload has failed.
SendObjects ==
  /\ supervisor = "running"
  /\ objectsStale
  /\ state.is # "Idle"
  /\ objectsStale' = FALSE
  /\ \/ inbox' = Append(inbox, Objects(objects)) /\ UNCHANGED faults
     \/ faults < MaxFaults /\ faults' = faults + 1 /\ UNCHANGED inbox
  /\ UNCHANGED <<disk, edits, kinds, events, seen, carriersChanged, objects, supervisor,
                 workerVars, procs>>

Kill(p) == procs' = [q \in DOMAIN procs \ {p} |-> procs[q]]

\* watch_with returns an error: CarrierSupervisor::drop kills the sidecar ...
Drop ==
  /\ Drops
  /\ supervisor = "running"
  /\ supervisor' = "joining"
  /\ Kill(sidecar)
  /\ UNCHANGED <<devVars, faults, inbox, workerVars>>

\* ... joins the worker, and only then are the fields, the sender one of them,
\* dropped.
Join ==
  /\ supervisor = "joining"
  /\ wpc = "ended"
  /\ supervisor' = "dropped"
  /\ UNCHANGED <<devVars, faults, inbox, workerVars, procs>>

-----------------------------------------------------------------------------
(* The worker *)

At(here, next) == wpc = here /\ wpc' = next

Receive ==
  /\ wpc = "recv"
  /\ inbox # <<>>
  /\ inbox' = Tail(inbox)
  /\ IF Head(inbox).kind = "Rebuild"
       THEN wpc' = "discover" /\ UNCHANGED payload
       ELSE wpc' = "pushObjects" /\ payload' = Head(inbox).objects
  /\ UNCHANGED <<devVars, faults, supervisor, roots, sidecar, booting, pids,
                 state, procs>>

\* recv fails once the sender is gone, or fail() cannot print and panics.
WorkerEnds ==
  /\ \/ wpc = "recv" /\ inbox = <<>> /\ supervisor = "dropped"
     \/ wpc = "setFailed"
  /\ wpc' = "ended"
  /\ UNCHANGED <<devVars, faults, supervisor, inbox, roots, payload, sidecar,
                 booting, pids, state, procs>>

Discover ==
  /\ At("discover", IF Here = {} THEN "primeIdle" ELSE "detect")
  /\ roots' = Here
  /\ UNCHANGED <<devVars, faults, supervisor, inbox, payload, sidecar, booting,
                 pids, state, procs>>

\* SeenContents::prime looks at what is there; what is gone keeps its entry.
Primed == [c \in Carrier |-> IF disk[c] = None THEN seen[c] ELSE disk[c]]

Prime ==
  /\ \/ At("primeIdle", "setIdle")
     \/ At("prime", "setStarting")
  /\ seen' = Primed
  /\ UNCHANGED <<disk, edits, kinds, events, carriersChanged, objectsStale, objects,
                 faults, supervisor, inbox, roots, payload, sidecar, booting,
                 pids, state, procs>>

\* NodeInfo::detect and write_harness.
Detect ==
  /\ At("detect", "prime")
  /\ UNCHANGED <<devVars, faults, supervisor, inbox, roots, payload, sidecar,
                 booting, pids, state, procs>>

\* Slip: the proxy is told that the sidecar is going once it is gone.
SetStateLate ==
  /\ \/ At("setIdle", "dropIdle") /\ UNCHANGED state
     \/ At("setStarting", "dropStarting") /\ UNCHANGED state
     \/ At("setFailed", "dropFailed") /\ UNCHANGED state
  /\ UNCHANGED <<devVars, faults, supervisor, inbox, roots, payload, sidecar,
                 booting, pids, procs>>

\* The proxy is told before the sidecar it would send to goes.
SetState ==
  /\ \/ At("setIdle", "dropIdle") /\ state' = Is("Idle")
     \/ At("setStarting", "dropStarting") /\ state' = Is("Starting")
     \/ At("setFailed", "dropFailed") /\ state' = Is("Failed")
  /\ UNCHANGED <<devVars, faults, supervisor, inbox, roots, payload, sidecar,
                 booting, pids, procs>>

\* Slip: the process is let go of and not killed.
DropSidecarAlive ==
  /\ \/ At("dropIdle", "recv")
     \/ At("dropStarting", "spawn")
     \/ At("dropFailed", "recv")
  /\ sidecar' = None
  /\ UNCHANGED <<devVars, faults, supervisor, inbox, roots, payload, booting,
                 pids, state, procs>>

\* *self.sidecar.lock() = None: Sidecar::drop kills the process and reaps it.
DropSidecar ==
  /\ \/ At("dropIdle", "recv")
     \/ At("dropStarting", "spawn")
     \/ At("dropFailed", "recv")
  /\ sidecar' = None
  /\ Kill(sidecar)
  /\ UNCHANGED <<devVars, faults, supervisor, inbox, roots, payload, booting,
                 pids, state>>

Spawn ==
  /\ At("spawn", "health")
  /\ pids' = pids + 1
  /\ booting' = pids'
  /\ procs' = [q \in DOMAIN procs \cup {pids'} |->
                 IF q = pids' THEN [loaded |-> NothingLoaded, pushed |-> None]
                 ELSE procs[q]]
  /\ UNCHANGED <<devVars, faults, supervisor, inbox, roots, payload, sidecar,
                 state>>

\* Slip: the sidecar stays a local of rebuild.
HealthyNotStored ==
  /\ At("health", "push")
  /\ booting \in DOMAIN procs
  /\ UNCHANGED <<devVars, faults, supervisor, inbox, roots, payload, sidecar,
                 booting, pids, state, procs>>

\* wait_until_healthy, and the sidecar is stored.
Healthy ==
  /\ At("health", "push")
  /\ booting \in DOMAIN procs
  /\ sidecar' = booting
  /\ booting' = None
  /\ UNCHANGED <<devVars, faults, supervisor, inbox, roots, payload, pids, state,
                 procs>>

\* push_state: nothing to do until there is both a sidecar and a payload.
PushState ==
  \/ /\ sidecar = None \/ payload = None
     /\ UNCHANGED procs
  \/ /\ sidecar \in DOMAIN procs
     /\ payload # None
     /\ procs' = [procs EXCEPT ![sidecar].pushed =
                    [roots |-> roots, objects |-> payload]]

\* Slip: a new sidecar waits for the next build's objects.
PushNothing ==
  /\ \/ At("push", "ready") /\ UNCHANGED procs
     \/ At("pushObjects", "recv") /\ PushState
  /\ UNCHANGED <<devVars, faults, supervisor, inbox, roots, payload, sidecar,
                 booting, pids, state>>

Push ==
  /\ \/ At("push", "ready")
     \/ At("pushObjects", "recv")
  /\ PushState
  /\ UNCHANGED <<devVars, faults, supervisor, inbox, roots, payload, sidecar,
                 booting, pids, state>>

SetReady ==
  /\ At("ready", "recv")
  /\ state' = Ready(PortOf(sidecar))
  /\ UNCHANGED <<devVars, faults, supervisor, inbox, roots, payload, sidecar,
                 booting, pids, procs>>

\* A step of rebuild fails: a sidecar not yet stored is dropped on the way out,
\* and fail() takes over.  A failed push of objects is only warned about.
StepFails ==
  /\ \/ wpc \in {"discover", "detect", "spawn", "push", "pushObjects"} /\ faults < MaxFaults
     \/ wpc = "health" /\ (faults < MaxFaults \/ booting \notin DOMAIN procs)
     \/ wpc \in {"push", "pushObjects"} /\ sidecar \notin DOMAIN procs
  /\ wpc \in {"push", "pushObjects"} => sidecar # None /\ payload # None
  /\ faults' = IF faults < MaxFaults THEN faults + 1 ELSE faults
  /\ wpc' = IF wpc = "pushObjects" THEN "recv" ELSE "setFailed"
  /\ Kill(booting)
  /\ booting' = None
  /\ UNCHANGED <<devVars, supervisor, inbox, roots, payload, sidecar, pids, state>>

-----------------------------------------------------------------------------
(* The sidecar *)

Unbuilt == -1

\* The first request for a carrier builds it from its directory, and the
\* process keeps what it imported, or that it could not.
Load(p, c) ==
  procs' = [procs EXCEPT ![p].loaded[c] =
              IF @ # None THEN @ ELSE IF disk[c] = None THEN Unbuilt ELSE disk[c]]

\* Some request makes a sidecar load a carrier.
Request ==
  /\ \E p \in DOMAIN procs : \E c \in Carrier :
       /\ state = Ready(PortOf(p))
       /\ procs[p].pushed # None
       /\ c \in procs[p].pushed.roots
       /\ procs[p].loaded[c] = None
       /\ Load(p, c)
  /\ UNCHANGED <<devVars, faults, supervisor, inbox, workerVars>>

SidecarDies ==
  /\ faults < MaxFaults
  /\ faults' = faults + 1
  /\ \E p \in DOMAIN procs : Kill(p)
  /\ UNCHANGED <<devVars, supervisor, inbox, workerVars>>

-----------------------------------------------------------------------------

DevServer ==
  \/ \E c \in Carrier : TakeEvent(c)
  \/ SendRebuild
  \/ SendObjects
  \/ Join

Worker ==
  \/ Receive \/ WorkerEnds
  \/ Discover \/ Prime \/ Detect
  \/ SetState \/ DropSidecar \/ SetReady
  \/ Spawn \/ Healthy \/ Push
  \/ StepFails

Environment == Edit \/ SiteBuilt \/ SidecarDies \/ Drop

Next == DevServer \/ Worker \/ Environment \/ Request

Spec == Init /\ [][Next]_carrierVars

\* Both threads are scheduled; the dev server's loop polls every 50 ms.
FairSpec == Spec /\ WF_carrierVars(DevServer) /\ WF_carrierVars(Worker)

-----------------------------------------------------------------------------

WorkerAt == {"recv", "ended", "discover", "primeIdle", "setIdle", "dropIdle",
             "detect", "prime", "setStarting", "dropStarting", "spawn", "health",
             "push", "ready", "pushObjects", "setFailed", "dropFailed"}
Version == Nat \cup {None}
Message == [kind : {"Rebuild", "Objects"}, objects : Version]
Process == [loaded : [Carrier -> Version \cup {Unbuilt}],
            pushed : [roots : SUBSET Carrier, objects : Nat] \cup {None}]

\* Type invariant.
TypeOK ==
  /\ disk \in [Carrier -> Version]
  /\ kinds \subseteq Edits
  /\ edits \in Nat /\ faults \in Nat /\ objects \in Nat /\ pids \in Nat
  /\ events \subseteq Carrier
  /\ seen \in [Carrier -> Version]
  /\ carriersChanged \in BOOLEAN /\ objectsStale \in BOOLEAN
  /\ supervisor \in {"running", "joining", "dropped"}
  /\ inbox \in Seq(Message)
  /\ wpc \in WorkerAt
  /\ roots \subseteq Carrier
  /\ payload \in Version
  /\ sidecar \in 1 .. pids \cup {None}
  /\ booting \in 1 .. pids \cup {None}
  /\ DOMAIN procs \subseteq 1 .. pids
  /\ \A p \in DOMAIN procs : procs[p] \in Process
  /\ state \in [is : {"Idle", "Starting", "Failed"}, port : {None}]
                \cup [is : {"Ready"}, port : Nat]

\* The proxy is never left with the port of a sidecar the worker has let go of:
\* it is told first, whichever way a rebuild ends.
ReadyIsStored ==
  state.is = "Ready" => sidecar # None /\ state.port = PortOf(sidecar)

\* At most one sidecar runs: the old one is reaped before the next is spawned,
\* so that the two never share the site's database, or a pinned port.
OneSidecar == \A p, q \in DOMAIN procs : p = q

\* The code a request for c would run now, None when there is none to run.
Served(c) ==
  LET p == sidecar IN
  IF state.is = "Ready" /\ p \in DOMAIN procs /\ procs[p].pushed # None
       /\ c \in procs[p].pushed.roots
    THEN IF procs[p].loaded[c] = None THEN disk[c] ELSE procs[p].loaded[c]
    ELSE None

\* No step failed, no sidecar died, and the dev server still runs.
Undisturbed == faults = 0 /\ supervisor = "running"

AllServed == \A c \in Carrier : Served(c) = disk[c]

\* Once the author stops, every carrier runs the code its directory holds,
\* whenever an edit lands in a restart, as long as no carrier was added and no
\* change taken back.
EditsReachCarriers ==
  <>[](Undisturbed /\ kinds \subseteq {"change", "remove"} => AllServed)

\* The same of every edit: the code does not keep this (README, Known departures).
NoEditIsDropped == <>[](Undisturbed => AllServed)

\* Once the site stops changing, a running sidecar has its latest objects,
\* whether it was up, restarting or not yet there when they were built.
ObjectsReachCarriers ==
  <>[](Undisturbed /\ state.is = "Ready" => /\ procs[sidecar].pushed # None
                             /\ procs[sidecar].pushed.objects = objects)

\* Dropping the supervisor ends the worker and returns: the code does not keep
\* this (README, Known departures).
DropReturns == supervisor = "joining" ~> supervisor = "dropped"

\* The worker and what it has told: one sidecar, and no port but that one's.
WorkerIsSound == TypeOK /\ ReadyIsStored /\ OneSidecar
==============================================================================
