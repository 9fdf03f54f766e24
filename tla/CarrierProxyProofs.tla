-------------------------- MODULE CarrierProxyProofs --------------------------
(* Theorems about Carriers and CarrierProxy, for any clients, carriers and    *)
(* numbers of edits, builds, faults, slots and attempts: first the worker,    *)
(* then the proxy over it.                                                    *)
EXTENDS CarrierProxy, FiniteSetTheorems, TLAPS

-----------------------------------------------------------------------------
(* The worker *)

\* A process that is starting is a local of rebuild: it is there exactly while
\* the worker waits for it.
BootingInv == booting # None <=> wpc = "health"

\* No process is alive but those the worker still knows of.
LiveInv == DOMAIN procs \subseteq {sidecar, booting}

\* The old sidecar is let go of before the next is spawned ...
LetGoInv == wpc \in {"spawn", "health"} => sidecar = None

\* ... and the next is stored before it is given anything.
StoredInv == wpc \in {"push", "ready"} => sidecar # None

\* From telling the proxy that the sidecar goes until the next one is ready the
\* proxy has no port.
UnreadyInv ==
  wpc \in {"dropIdle", "dropStarting", "dropFailed", "spawn", "health", "push", "ready"}
    => state.is # "Ready"

\* The process the worker knows of is the last it spawned.
LatestInv == sidecar \in {None, pids} /\ booting \in {None, pids}

WorkerInv == /\ BootingInv /\ LiveInv /\ LetGoInv /\ StoredInv /\ UnreadyInv
             /\ LatestInv /\ ReadyIsStored

IInv == TypeOK /\ WorkerInv

\* OneSidecar needs no step of its own.
LEMMA OneSidecarFollows == IInv => OneSidecar
BY NoneAssumption
   DEF IInv, TypeOK, WorkerInv, BootingInv, LiveInv, LetGoInv, OneSidecar

LEMMA InitIInv == Init => IInv
<1> SUFFICES ASSUME Init PROVE IInv
  OBVIOUS
<1>1. procs = <<>> /\ DOMAIN procs = {}
  BY DEF Init
<1>2. inbox \in Seq(Message)
  <2>1. Rebuild \in Message
    BY DEF Rebuild, Message, Version
  <2> QED BY <2>1 DEF Init
<1>3. disk \in [Carrier -> Version] /\ seen \in [Carrier -> Version]
  BY DEF Init, Version
<1>4. TypeOK
  BY <1>1, <1>2, <1>3 DEF Init, TypeOK, WorkerAt, Is, Version
<1>5. WorkerInv
  BY <1>1 DEF Init, WorkerInv, BootingInv, LiveInv, LetGoInv, StoredInv, UnreadyInv, LatestInv,
              ReadyIsStored, Is
<1> QED BY <1>4, <1>5 DEF IInv

-----------------------------------------------------------------------------
(* Steps that leave the worker and its processes alone *)

\* What the worker's invariant speaks of.
workerView == <<booting, wpc, sidecar, pids, procs, state>>

LEMMA WorkerInvSame == WorkerInv /\ UNCHANGED workerView => WorkerInv'
BY DEF WorkerInv, BootingInv, LiveInv, LetGoInv, StoredInv, UnreadyInv, LatestInv,
       ReadyIsStored, workerView, PortOf

LEMMA EditIInv == IInv /\ Edit => IInv'
<1> SUFFICES ASSUME IInv, Edit PROVE IInv'
  OBVIOUS
<1>1. PICK c \in Carrier, v \in (0 .. MaxEdits) \cup {None} : EditTo(c, v)
  BY DEF Edit
<1>2. disk' \in [Carrier -> Version] /\ events' \subseteq Carrier /\ kinds' \subseteq Edits
  <2>1. v \in Version
    BY CarriersAssumption DEF Version
  <2> QED BY <1>1, <2>1 DEF EditTo, IInv, TypeOK
<1>3. TypeOK'
  BY <1>1, <1>2 DEF EditTo, IInv, TypeOK, workerVars
<1>4. WorkerInv'
  BY <1>1, WorkerInvSame DEF EditTo, IInv, workerVars, workerView
<1> QED BY <1>3, <1>4 DEF IInv

LEMMA DevServerIInv == IInv /\ DevServer => IInv'
<1> SUFFICES ASSUME IInv, DevServer PROVE IInv'
  OBVIOUS
<1>1. ASSUME NEW c \in Carrier, TakeEvent(c) PROVE IInv'
  <2>1. seen' \in [Carrier -> Version]
    BY <1>1 DEF TakeEvent, IInv, TypeOK
  <2>2. TypeOK'
    BY <1>1, <2>1 DEF TakeEvent, IInv, TypeOK, workerVars
  <2> QED BY <1>1, <2>2, WorkerInvSame DEF TakeEvent, IInv, workerVars, workerView
<1>2. ASSUME SendRebuild PROVE IInv'
  <2>1. Rebuild \in Message
    BY DEF Rebuild, Message, Version
  <2>2. inbox' \in Seq(Message)
    BY <1>2, <2>1 DEF SendRebuild, IInv, TypeOK
  <2>3. TypeOK'
    BY <1>2, <2>2 DEF SendRebuild, IInv, TypeOK, workerVars
  <2> QED BY <1>2, <2>3, WorkerInvSame DEF SendRebuild, IInv, workerVars, workerView
<1>3. ASSUME SendObjects PROVE IInv'
  <2>1. Objects(objects) \in Message
    BY DEF Objects, Message, Version, IInv, TypeOK
  <2>2. inbox' \in Seq(Message) /\ faults' \in Nat
    <3>1. inbox \in Seq(Message) /\ faults \in Nat
      BY DEF IInv, TypeOK
    <3>2. \/ inbox' = Append(inbox, Objects(objects)) /\ faults' = faults
          \/ faults' = faults + 1 /\ inbox' = inbox
      BY <1>3 DEF SendObjects
    <3> QED BY <2>1, <3>1, <3>2
  <2>3. TypeOK'
    BY <1>3, <2>2 DEF SendObjects, IInv, TypeOK, workerVars
  <2> QED BY <1>3, <2>3, WorkerInvSame DEF SendObjects, IInv, workerVars, workerView
<1>4. ASSUME Join PROVE IInv'
  <2>1. TypeOK'
    BY <1>4 DEF Join, IInv, TypeOK, workerVars, devVars
  <2> QED BY <1>4, <2>1, WorkerInvSame DEF Join, IInv, workerVars, workerView
<1> QED BY <1>1, <1>2, <1>3, <1>4 DEF DevServer

-----------------------------------------------------------------------------
(* Steps that kill a process *)

LEMMA KillKeepsType ==
  ASSUME TypeOK, NEW p, Kill(p), pids' = pids
  PROVE  /\ DOMAIN procs' \subseteq 1 .. pids'
         /\ \A q \in DOMAIN procs' : procs'[q] \in Process
BY DEF TypeOK, Kill

LEMMA EnvironmentIInv == IInv /\ Environment => IInv'
<1> SUFFICES ASSUME IInv, Environment PROVE IInv'
  OBVIOUS
<1>1. CASE Edit
  BY <1>1, EditIInv
<1>2. CASE SiteBuilt
  <2>1. TypeOK'
    BY <1>2 DEF SiteBuilt, IInv, TypeOK, workerVars
  <2> QED BY <1>2, <2>1, WorkerInvSame DEF SiteBuilt, IInv, workerVars, workerView
<1>3. ASSUME NEW p, Kill(p), UNCHANGED <<devVars, inbox, workerVars>>, faults' \in Nat,
             supervisor' \in {"running", "joining", "dropped"}
      PROVE IInv'
  <2>1. TypeOK'
    BY <1>3, KillKeepsType DEF IInv, TypeOK, workerVars, devVars
  <2>2. WorkerInv'
    BY <1>3 DEF IInv, WorkerInv, BootingInv, LiveInv, LetGoInv, StoredInv, UnreadyInv, LatestInv,
                ReadyIsStored, workerVars, Kill, PortOf
  <2> QED BY <2>1, <2>2 DEF IInv
<1>4. CASE SidecarDies
  BY <1>4, <1>3 DEF SidecarDies, IInv, TypeOK
<1>5. CASE Drop
  BY <1>5, <1>3 DEF Drop, IInv, TypeOK
<1> QED BY <1>1, <1>2, <1>4, <1>5 DEF Environment

-----------------------------------------------------------------------------
(* Steps of the worker *)

\* A worker that moves on with all it holds.
LEMMA MovesIInv ==
  ASSUME IInv, wpc' \in WorkerAt \ {"health"}, wpc # "health",
         wpc' = "spawn" => wpc = "spawn",
         wpc' \in {"push", "ready"} => wpc \in {"push", "ready"},
         wpc' \in {"dropIdle", "dropStarting", "dropFailed"} => state.is # "Ready",
         UNCHANGED <<sidecar, booting, pids, state, procs>>
  PROVE  WorkerInv'
BY DEF IInv, WorkerInv, BootingInv, LiveInv, LetGoInv, StoredInv, UnreadyInv, LatestInv,
                ReadyIsStored, At, PortOf

LEMMA WorkerIInv == IInv /\ Worker => IInv'
<1> SUFFICES ASSUME IInv, Worker PROVE IInv'
  OBVIOUS
<1> USE DEF IInv
<1>1. CASE Receive
  <2>1. inbox' \in Seq(Message) /\ Head(inbox) \in Message
    BY <1>1 DEF Receive, TypeOK
  <2>2. payload' \in Version /\ wpc' \in WorkerAt
    BY <1>1, <2>1 DEF Receive, TypeOK, Message, WorkerAt
  <2>3. TypeOK'
    BY <1>1, <2>1, <2>2 DEF Receive, TypeOK, devVars
  <2>4. WorkerInv'
    BY <1>1, <2>2, MovesIInv DEF Receive
  <2> QED BY <2>3, <2>4
<1>2. CASE WorkerEnds
  <2>1. TypeOK'
    BY <1>2 DEF WorkerEnds, TypeOK, devVars, WorkerAt
  <2>2. WorkerInv'
    BY <1>2, MovesIInv DEF WorkerEnds, WorkerAt
  <2> QED BY <2>1, <2>2
<1>3. CASE Discover
  <2>1. TypeOK'
    BY <1>3 DEF Discover, TypeOK, devVars, WorkerAt, At, Here
  <2>2. WorkerInv'
    BY <1>3, MovesIInv DEF Discover, WorkerAt, At
  <2> QED BY <2>1, <2>2
<1>4. CASE Prime
  <2>1. seen' \in [Carrier -> Version]
    BY <1>4 DEF Prime, Primed, TypeOK
  <2>2. TypeOK'
    BY <1>4, <2>1 DEF Prime, TypeOK, WorkerAt, At
  <2>3. WorkerInv'
    BY <1>4, MovesIInv DEF Prime, WorkerAt, At
  <2> QED BY <2>2, <2>3
<1>5. CASE Detect
  <2>1. TypeOK'
    BY <1>5 DEF Detect, TypeOK, devVars, WorkerAt, At
  <2>2. WorkerInv'
    BY <1>5, MovesIInv DEF Detect, WorkerAt, At
  <2> QED BY <2>1, <2>2
<1>6. CASE SetState
  <2>1. state' \in [is : {"Idle", "Starting", "Failed"}, port : {None}] /\ state'.is # "Ready"
    BY <1>6 DEF SetState, Is
  <2>2. TypeOK'
    BY <1>6, <2>1 DEF SetState, TypeOK, devVars, WorkerAt, At
  <2>3. WorkerInv'
    BY <1>6, <2>1 DEF SetState, WorkerInv, BootingInv, LiveInv, LetGoInv, StoredInv, UnreadyInv, LatestInv,
                ReadyIsStored, At, PortOf
  <2> QED BY <2>2, <2>3
<1>7. CASE DropSidecar
  <2>1. TypeOK'
    BY <1>7, KillKeepsType DEF DropSidecar, TypeOK, devVars, WorkerAt, At
  <2>2. WorkerInv'
    BY <1>7 DEF DropSidecar, Kill, WorkerInv, BootingInv, LiveInv, LetGoInv, StoredInv, UnreadyInv, LatestInv,
                ReadyIsStored, At, PortOf
  <2> QED BY <2>1, <2>2
<1>8. CASE SetReady
  <2>1. sidecar # None /\ PortOf(sidecar) \in Nat
    BY <1>8 DEF SetReady, WorkerInv, StoredInv, TypeOK, PortOf, At
  <2>2. state' \in [is : {"Ready"}, port : Nat] /\ state'.port = PortOf(sidecar)
    BY <1>8, <2>1 DEF SetReady, Ready
  <2>3. TypeOK'
    BY <1>8, <2>2 DEF SetReady, TypeOK, devVars, WorkerAt, At
  <2>4. WorkerInv'
    BY <1>8, <2>1, <2>2 DEF SetReady, WorkerInv, BootingInv, LiveInv, LetGoInv, StoredInv, UnreadyInv, LatestInv,
                ReadyIsStored, At, PortOf
  <2> QED BY <2>3, <2>4
<1>9. CASE Spawn
  <2>1. pids' \in Nat /\ booting' \in 1 .. pids' /\ pids < pids'
    BY <1>9 DEF Spawn, TypeOK
  <2>2. booting' # None
    BY <2>1, NoneAssumption
  <2>3. [loaded |-> NothingLoaded, pushed |-> None] \in Process
    BY DEF Process, NothingLoaded, Version
  <2>4. DOMAIN procs' = DOMAIN procs \cup {pids'} /\ DOMAIN procs' \subseteq 1 .. pids'
    BY <1>9, <2>1 DEF Spawn, TypeOK
  <2>5. \A q \in DOMAIN procs' : procs'[q] \in Process
    BY <1>9, <2>3, <2>4 DEF Spawn, TypeOK
  <2>6. sidecar' \in 1 .. pids' \cup {None}
    BY <1>9, <2>1 DEF Spawn, TypeOK
  <2>7. TypeOK'
    BY <1>9, <2>1, <2>4, <2>5, <2>6 DEF Spawn, TypeOK, devVars, WorkerAt, At
  <2>8. WorkerInv'
    BY <1>9, <2>1, <2>2, <2>4 DEF Spawn, WorkerInv, BootingInv, LiveInv, LetGoInv, StoredInv, UnreadyInv, LatestInv,
                ReadyIsStored, At, PortOf
  <2> QED BY <2>7, <2>8
<1>10. CASE Healthy
  <2>1. booting # None
    BY <1>10, NoneAssumption DEF Healthy, TypeOK
  <2>2. TypeOK'
    BY <1>10 DEF Healthy, TypeOK, devVars, WorkerAt, At
  <2>3. WorkerInv'
    BY <1>10, <2>1 DEF Healthy, WorkerInv, BootingInv, LiveInv, LetGoInv, StoredInv, UnreadyInv, LatestInv,
                ReadyIsStored, At, PortOf
  <2> QED BY <2>2, <2>3
<1>11. CASE Push
  <2>1. DOMAIN procs' = DOMAIN procs /\ \A q \in DOMAIN procs : procs'[q] \in Process
    <3>1. CASE UNCHANGED procs
      BY <3>1 DEF TypeOK
    <3>2. ASSUME sidecar \in DOMAIN procs, payload # None,
                 procs' = [procs EXCEPT ![sidecar].pushed = [roots |-> roots, objects |-> payload]]
          PROVE  DOMAIN procs' = DOMAIN procs /\ \A q \in DOMAIN procs : procs'[q] \in Process
      <4>1. [roots |-> roots, objects |-> payload] \in [roots : SUBSET Carrier, objects : Nat]
        BY <3>2 DEF TypeOK, Version
      <4>2. \A q \in DOMAIN procs :
              procs'[q] = IF q = sidecar
                            THEN [procs[q] EXCEPT !.pushed = [roots |-> roots, objects |-> payload]]
                            ELSE procs[q]
        BY <3>2
      <4> QED BY <3>2, <4>1, <4>2 DEF TypeOK, Process
    <3> QED BY <1>11, <3>1, <3>2 DEF Push, PushState
  <2>2. TypeOK'
    BY <1>11, <2>1 DEF Push, TypeOK, devVars, WorkerAt, At
  <2>3. WorkerInv'
    BY <1>11, <2>1 DEF Push, WorkerInv, BootingInv, LiveInv, LetGoInv, StoredInv, UnreadyInv, LatestInv,
                ReadyIsStored, At, PortOf
  <2> QED BY <2>2, <2>3
<1>12. CASE StepFails
  <2>1. faults' \in Nat
    BY <1>12 DEF StepFails, TypeOK
  <2>2. TypeOK'
    BY <1>12, <2>1, KillKeepsType DEF StepFails, TypeOK, devVars, WorkerAt
  <2>3. WorkerInv'
    BY <1>12 DEF StepFails, Kill, WorkerInv, BootingInv, LiveInv, LetGoInv, StoredInv, UnreadyInv, LatestInv,
                ReadyIsStored, At, PortOf
  <2> QED BY <2>2, <2>3
<1> QED
  BY <1>1, <1>2, <1>3, <1>4, <1>5, <1>6, <1>7, <1>8, <1>9, <1>10, <1>11, <1>12 DEF Worker

-----------------------------------------------------------------------------
(* Steps of the sidecar *)

\* A sidecar that loads a carrier, whoever asked for it.
LEMMA LoadIInv ==
  ASSUME IInv, NEW p \in DOMAIN procs, NEW c \in Carrier, Load(p, c),
         UNCHANGED <<devVars, faults, supervisor, inbox, workerVars>>
  PROVE  IInv' /\ DOMAIN procs' = DOMAIN procs
<1> DEFINE v == IF procs[p].loaded[c] # None THEN procs[p].loaded[c]
                ELSE IF disk[c] = None THEN Unbuilt ELSE disk[c]
<1>1. /\ DOMAIN procs' = DOMAIN procs
      /\ \A q \in DOMAIN procs :
           procs'[q] = IF q = p THEN [procs[q] EXCEPT !.loaded = [procs[q].loaded EXCEPT ![c] = v]]
                       ELSE procs[q]
  BY DEF Load
<1>2. procs[p] \in Process /\ v \in Version \cup {Unbuilt}
  BY DEF IInv, TypeOK, Process, Version
<1> HIDE DEF v
<1>3. \A q \in DOMAIN procs : procs'[q] \in Process
  BY <1>1, <1>2 DEF IInv, TypeOK, Process
<1>4. TypeOK'
  BY <1>1, <1>3 DEF IInv, TypeOK, devVars, workerVars
<1>5. WorkerInv'
  BY <1>1 DEF IInv, workerVars, WorkerInv, BootingInv, LiveInv, LetGoInv, StoredInv,
              UnreadyInv, LatestInv, ReadyIsStored, PortOf
<1> QED BY <1>1, <1>4, <1>5 DEF IInv

LEMMA StutterIInv == IInv /\ UNCHANGED carrierVars => IInv'
<1> SUFFICES ASSUME IInv, UNCHANGED carrierVars PROVE IInv'
  OBVIOUS
<1>1. TypeOK'
  BY DEF IInv, TypeOK, carrierVars, devVars, workerVars
<1> QED
  BY <1>1, WorkerInvSame DEF IInv, carrierVars, workerVars, workerView

-----------------------------------------------------------------------------

LEMMA StepIInv == IInv /\ [Next]_carrierVars => IInv'
<1> SUFFICES ASSUME IInv, [Next]_carrierVars PROVE IInv'
  OBVIOUS
<1>1. CASE Request
  BY <1>1, LoadIInv DEF Request, IInv, TypeOK
<1> QED
  BY <1>1, DevServerIInv, WorkerIInv, EnvironmentIInv, StutterIInv DEF Next

\* What the worker keeps and what it has told the proxy agree, whichever step
\* of a rebuild fails and whenever a process dies: at most one sidecar runs,
\* and the proxy has no port but that of the sidecar the worker has stored.
THEOREM WorkerIsAlwaysSound == Spec => []WorkerIsSound
<1>1. IInv => WorkerIsSound
  BY OneSidecarFollows DEF IInv, WorkerInv, WorkerIsSound
<1> QED BY InitIInv, StepIInv, <1>1, PTL DEF Spec

-----------------------------------------------------------------------------
(* How many sidecars there can have been *)

Rebuilds(s) == {i \in 1 .. Len(s) : s[i].kind = "Rebuild"}

\* A rebuild that has been received and may still spawn.
WillSpawn ==
  IF wpc \in {"discover", "detect", "prime", "setStarting", "dropStarting", "spawn"}
    THEN 1 ELSE 0

Changed == IF carriersChanged THEN 1 ELSE 0

\* Every sidecar but the first answers an edit: one that was spawned, that a
\* rebuild on its way will spawn, or that an event not yet read may ask for.
RestartInv ==
  /\ IsFiniteSet(events)
  /\ pids + WillSpawn + Cardinality(Rebuilds(inbox)) + Changed + Cardinality(events)
       <= 1 + edits

\* While edits do nothing worse than restart it, the sidecar that is stored, and
\* the one that is starting, are alive; nothing is given up; and once there was a
\* sidecar there are carriers for the next.
Calm ==
  /\ sidecar # None => sidecar \in DOMAIN procs
  /\ booting # None => booting \in DOMAIN procs
  /\ state.is # "Failed"
  /\ wpc \notin {"setFailed", "dropFailed"}
  /\ wpc \in {"detect", "prime", "setStarting", "dropStarting", "spawn"} => Here # {}
  /\ wpc \in {"dropStarting", "spawn"} => state.is = "Starting"
  /\ pids > 0 => /\ Here # {}
                 /\ state.is # "Idle"
                 /\ wpc \notin {"primeIdle", "setIdle", "dropIdle"}

CalmInv == OnlyRestarts => Calm

SupervisorInv == IInv /\ RestartInv /\ CalmInv

LEMMA RebuildsFinite ==
  ASSUME NEW s \in Seq(Message)
  PROVE  IsFiniteSet(Rebuilds(s)) /\ Cardinality(Rebuilds(s)) \in Nat
<1>1. Len(s) \in Nat
  OBVIOUS
<1>2. IsFiniteSet(1 .. Len(s))
  BY <1>1, FS_Interval
<1>3. Rebuilds(s) \in SUBSET (1 .. Len(s))
  BY DEF Rebuilds
<1> QED BY <1>2, <1>3, FS_Subset, FS_CardinalityType

\* Sending a message adds at most one rebuild, and none unless it is one.
LEMMA RebuildsAppend ==
  ASSUME NEW s \in Seq(Message), NEW m \in Message
  PROVE  Cardinality(Rebuilds(Append(s, m)))
           = Cardinality(Rebuilds(s)) + IF m.kind = "Rebuild" THEN 1 ELSE 0
<1> DEFINE n == Len(s) + 1
<1>1. /\ Len(s) \in Nat /\ Len(Append(s, m)) = n
      /\ \A i \in 1 .. n : Append(s, m)[i] = IF i = n THEN m ELSE s[i]
  OBVIOUS
<1>2. n \notin Rebuilds(s)
  BY <1>1 DEF Rebuilds
<1>3. Rebuilds(Append(s, m)) = IF m.kind = "Rebuild" THEN Rebuilds(s) \cup {n} ELSE Rebuilds(s)
  BY <1>1 DEF Rebuilds
<1> HIDE DEF n
<1>4. IsFiniteSet(Rebuilds(s)) /\ Cardinality(Rebuilds(s)) \in Nat
  BY RebuildsFinite
<1>5. Cardinality(Rebuilds(s) \cup {n}) = Cardinality(Rebuilds(s)) + 1
  BY <1>2, <1>4, FS_AddElement
<1> QED BY <1>3, <1>4, <1>5

\* Receiving one takes away a rebuild when it is one.
LEMMA RebuildsTail ==
  ASSUME NEW s \in Seq(Message), s # <<>>
  PROVE  Cardinality(Rebuilds(Tail(s)))
           <= Cardinality(Rebuilds(s)) - IF Head(s).kind = "Rebuild" THEN 1 ELSE 0
<1> DEFINE rest == Rebuilds(s) \ {1}
           f == [i \in Rebuilds(Tail(s)) |-> i + 1]
<1>1. /\ Len(s) \in Nat /\ Len(s) >= 1 /\ Head(s) = s[1]
      /\ Tail(s) \in Seq(Message) /\ Len(Tail(s)) = Len(s) - 1
      /\ \A i \in 1 .. Len(Tail(s)) : Tail(s)[i] = s[i + 1]
  OBVIOUS
<1>2. IsFiniteSet(Rebuilds(s)) /\ Cardinality(Rebuilds(s)) \in Nat
  BY RebuildsFinite
<1>3. /\ IsFiniteSet(rest)
      /\ Cardinality(rest) = Cardinality(Rebuilds(s)) - IF Head(s).kind = "Rebuild" THEN 1 ELSE 0
  <2>1. 1 \in Rebuilds(s) <=> Head(s).kind = "Rebuild"
    BY <1>1 DEF Rebuilds
  <2>2. /\ IsFiniteSet(rest)
        /\ Cardinality(rest) = IF 1 \in Rebuilds(s) THEN Cardinality(Rebuilds(s)) - 1
                                                    ELSE Cardinality(Rebuilds(s))
    BY <1>2, FS_RemoveElement, Zenon
  <2> HIDE DEF rest
  <2> QED BY <1>2, <2>1, <2>2
<1>4. f \in Injection(Rebuilds(Tail(s)), rest)
  <2>1. \A i \in Rebuilds(Tail(s)) : i \in Int /\ i + 1 \in rest
    BY <1>1 DEF Rebuilds
  <2>2. f \in [Rebuilds(Tail(s)) -> rest]
    BY <2>1
  <2>3. \A i, j \in Rebuilds(Tail(s)) : f[i] = f[j] => i = j
    BY <2>1
  <2> QED BY <2>2, <2>3 DEF Injection, IsInjective
<1> HIDE DEF f, rest
<1>5. Cardinality(Rebuilds(Tail(s))) <= Cardinality(rest)
  BY <1>3, <1>4, FS_Injection
<1> QED BY <1>3, <1>5

-----------------------------------------------------------------------------
(* The worker's part of the argument *)

SupervisorStep == DevServer \/ Worker \/ Environment

LEMMA SupervisorIInv == IInv /\ SupervisorStep => IInv'
BY DevServerIInv, WorkerIInv, EnvironmentIInv DEF SupervisorStep

LEMMA InitSupervisorInv == Init => SupervisorInv
<1> SUFFICES ASSUME Init PROVE SupervisorInv
  OBVIOUS
<1>1. IInv
  BY InitIInv
<1>2. RestartInv
  <2>1. inbox = Append(<<>>, Rebuild) /\ <<>> \in Seq(Message) /\ Rebuild \in Message
    BY DEF Init, Rebuild, Message, Version
  <2>2. Rebuilds(<<>>) = {}
    BY DEF Rebuilds
  <2>3. Cardinality(Rebuilds(<<>>)) = 0 /\ Rebuild.kind = "Rebuild"
    BY <2>2, FS_EmptySet DEF Rebuild
  <2>4. Cardinality(Rebuilds(Append(<<>>, Rebuild)))
          = Cardinality(Rebuilds(<<>>)) + IF Rebuild.kind = "Rebuild" THEN 1 ELSE 0
    BY <2>1, RebuildsAppend, Zenon
  <2>5. Cardinality(Rebuilds(inbox)) = 1
    BY <2>1, <2>3, <2>4
  <2>6. IsFiniteSet(events) /\ Cardinality(events) = 0
    BY FS_EmptySet DEF Init
  <2> QED BY <2>5, <2>6 DEF Init, RestartInv, WillSpawn, Changed
<1>3. CalmInv
  BY DEF Init, CalmInv, Calm, Is
<1> QED BY <1>1, <1>2, <1>3 DEF SupervisorInv

LEMMA RestartSame ==
  ASSUME IInv, RestartInv, WillSpawn' <= WillSpawn,
         UNCHANGED <<pids, events, edits, inbox, carriersChanged>>
  PROVE  RestartInv'
<1>1. Cardinality(Rebuilds(inbox)) \in Nat /\ Cardinality(events) \in Nat
  BY RebuildsFinite, FS_CardinalityType DEF IInv, TypeOK, RestartInv
<1>2. Rebuilds(inbox') = Rebuilds(inbox) /\ Changed' = Changed /\ events' = events
  BY DEF Changed
<1> QED BY <1>1, <1>2 DEF RestartInv, IInv, TypeOK, WillSpawn, Changed

LEMMA SupervisorRestartInv == IInv /\ RestartInv /\ SupervisorStep => RestartInv'
<1> SUFFICES ASSUME IInv, RestartInv, SupervisorStep PROVE RestartInv'
  OBVIOUS
<1> DEFINE waiting == Cardinality(Rebuilds(inbox))
           unread == Cardinality(events)
<1>1. /\ waiting \in Nat /\ unread \in Nat /\ pids \in Nat /\ edits \in Nat
      /\ inbox \in Seq(Message) /\ IsFiniteSet(events)
      /\ pids + WillSpawn + waiting + Changed + unread <= 1 + edits
  BY RebuildsFinite, FS_CardinalityType DEF IInv, TypeOK, RestartInv
<1>2. WillSpawn \in Nat /\ Changed \in Nat
  BY DEF WillSpawn, Changed
<1>3. CASE Edit
  <2>1. PICK c \in Carrier : /\ events' = events \cup {c} /\ edits' = edits + 1
                             /\ UNCHANGED <<pids, inbox, wpc, carriersChanged>>
    BY <1>3 DEF Edit, EditTo, workerVars
  <2>2. IsFiniteSet(events') /\ Cardinality(events') \in Nat /\ Cardinality(events') <= unread + 1
    <3>1. /\ IsFiniteSet(events \cup {c})
          /\ Cardinality(events \cup {c}) = IF c \in events THEN unread ELSE unread + 1
      BY <1>1, FS_AddElement
    <3> HIDE DEF unread
    <3> QED BY <1>1, <2>1, <3>1
  <2>3. Cardinality(Rebuilds(inbox')) = waiting /\ WillSpawn' = WillSpawn /\ Changed' = Changed
    BY <2>1 DEF WillSpawn, Changed
  <2> HIDE DEF waiting, unread
  <2> QED BY <1>1, <1>2, <2>1, <2>2, <2>3 DEF RestartInv
<1>4. ASSUME NEW c \in Carrier, TakeEvent(c) PROVE RestartInv'
  <2>1. /\ c \in events /\ events' = events \ {c}
        /\ UNCHANGED <<pids, inbox, wpc, edits>>
    BY <1>4 DEF TakeEvent, workerVars
  <2>2. IsFiniteSet(events') /\ Cardinality(events') \in Nat /\ Cardinality(events') + 1 = unread
    <3>1. IsFiniteSet(events') /\ Cardinality(events') = unread - 1
      BY <1>1, <2>1, FS_RemoveElement
    <3>2. Cardinality(events') \in Nat
      BY <3>1, FS_CardinalityType
    <3> HIDE DEF unread
    <3> QED BY <1>1, <3>1, <3>2
  <2>3. Cardinality(Rebuilds(inbox')) = waiting /\ WillSpawn' = WillSpawn
    BY <2>1 DEF WillSpawn
  <2>4. Changed' \in Nat /\ Changed \in Nat /\ Changed' <= Changed + 1
    BY DEF Changed
  <2>5. pids' = pids /\ edits' = edits
    BY <2>1
  <2> HIDE DEF waiting, unread
  <2> QED BY <1>1, <1>2, <2>2, <2>3, <2>4, <2>5 DEF RestartInv
<1>5. CASE SendRebuild
  <2>1. /\ Changed = 1 /\ Changed' = 0 /\ inbox' = Append(inbox, Rebuild)
        /\ UNCHANGED <<pids, events, wpc, edits>>
    BY <1>5 DEF SendRebuild, workerVars, Changed
  <2>2. Cardinality(Rebuilds(inbox')) = waiting + 1
    <3>1. Rebuild \in Message /\ Rebuild.kind = "Rebuild"
      BY DEF Rebuild, Message, Version
    <3> QED BY <1>1, <2>1, <3>1, RebuildsAppend
  <2>3. Cardinality(events') = unread /\ WillSpawn' = WillSpawn /\ IsFiniteSet(events')
    BY <1>1, <2>1 DEF WillSpawn
  <2> HIDE DEF waiting, unread
  <2> QED BY <1>1, <1>2, <2>1, <2>2, <2>3 DEF RestartInv
<1>6. CASE SendObjects
  <2>1. Objects(objects) \in Message /\ Objects(objects).kind # "Rebuild"
    BY DEF Objects, Message, Version, IInv, TypeOK
  <2>2. \/ inbox' = inbox
        \/ inbox' = Append(inbox, Objects(objects))
    BY <1>6 DEF SendObjects
  <2>3. Cardinality(Rebuilds(inbox')) = waiting
    <3>1. Cardinality(Rebuilds(Append(inbox, Objects(objects)))) = waiting + 0
      BY <1>1, <2>1, RebuildsAppend
    <3>2. CASE inbox' = inbox
      BY <3>2
    <3>3. CASE inbox' = Append(inbox, Objects(objects))
      BY <1>1, <3>1, <3>3
    <3> QED BY <2>2, <3>2, <3>3
  <2>4. UNCHANGED <<pids, events, wpc, edits, carriersChanged>>
    BY <1>6 DEF SendObjects, workerVars
  <2>5. /\ Cardinality(events') = unread /\ IsFiniteSet(events')
        /\ WillSpawn' = WillSpawn /\ Changed' = Changed
    BY <1>1, <2>4 DEF WillSpawn, Changed
  <2> HIDE DEF waiting, unread
  <2> QED BY <1>1, <1>2, <2>3, <2>4, <2>5 DEF RestartInv
<1>7. CASE Receive
  <2>1. /\ wpc = "recv" /\ inbox # <<>> /\ inbox' = Tail(inbox)
        /\ wpc' = IF Head(inbox).kind = "Rebuild" THEN "discover" ELSE "pushObjects"
        /\ UNCHANGED <<pids, events, edits, carriersChanged>>
    BY <1>7 DEF Receive, devVars
  <2>2. /\ Cardinality(Rebuilds(inbox')) \in Nat
        /\ Cardinality(Rebuilds(inbox'))
             <= waiting - IF Head(inbox).kind = "Rebuild" THEN 1 ELSE 0
    <3>1. Tail(inbox) \in Seq(Message)
      BY <1>1, <2>1
    <3> QED BY <1>1, <2>1, <3>1, RebuildsTail, RebuildsFinite
  <2>3. WillSpawn = 0 /\ WillSpawn' = IF Head(inbox).kind = "Rebuild" THEN 1 ELSE 0
    BY <2>1 DEF WillSpawn
  <2>4. Cardinality(events') = unread /\ IsFiniteSet(events') /\ Changed' = Changed
    BY <1>1, <2>1 DEF Changed
  <2> HIDE DEF waiting, unread
  <2> QED BY <1>1, <1>2, <2>1, <2>2, <2>3, <2>4 DEF RestartInv
<1>8. CASE Spawn
  <2>1. /\ pids' = pids + 1 /\ WillSpawn = 1 /\ WillSpawn' = 0
        /\ UNCHANGED <<inbox, events, edits, carriersChanged>>
    BY <1>8 DEF Spawn, devVars, At, WillSpawn
  <2>2. /\ Cardinality(Rebuilds(inbox')) = waiting /\ Cardinality(events') = unread
        /\ IsFiniteSet(events') /\ Changed' = Changed
    BY <1>1, <2>1 DEF Changed
  <2> HIDE DEF waiting, unread
  <2> QED BY <1>1, <1>2, <2>1, <2>2 DEF RestartInv
<1>9. CASE SiteBuilt \/ SidecarDies \/ Drop \/ Join
  BY <1>9, RestartSame DEF SiteBuilt, SidecarDies, Drop, Join, workerVars, devVars, WillSpawn
<1>10. CASE WorkerEnds \/ Discover \/ Prime \/ Detect
  BY <1>10, RestartSame DEF WorkerEnds, Discover, Prime, Detect, At, devVars, WillSpawn
<1>11. CASE SetState \/ DropSidecar \/ SetReady \/ Healthy \/ Push
  BY <1>11, RestartSame DEF SetState, DropSidecar, SetReady, Healthy, Push, At, devVars, WillSpawn
<1>12. CASE StepFails
  BY <1>12, RestartSame DEF StepFails, devVars, WillSpawn
<1> QED
  BY <1>3, <1>4, <1>5, <1>6, <1>7, <1>8, <1>9, <1>10, <1>11, <1>12
     DEF SupervisorStep, DevServer, Worker, Environment

\* Faults, removals and the end of the dev server are never taken back.
LEMMA OnlyRestartsBefore ==
  ASSUME IInv, SupervisorStep, OnlyRestarts'
  PROVE  OnlyRestarts
<1>1. faults \in Nat /\ faults' = 0 /\ supervisor' = "running" /\ "remove" \notin kinds' /\ ~Pinned
  BY DEF IInv, TypeOK, OnlyRestarts, Undisturbed
<1>2. kinds \subseteq kinds'
  BY DEF SupervisorStep, DevServer, Worker, Environment, TakeEvent, SendRebuild, SendObjects, Join,
         Receive, WorkerEnds, Discover, Prime, Detect, SetState, DropSidecar, SetReady, Spawn,
         Healthy, Push, StepFails, Edit, EditTo, SiteBuilt, SidecarDies, Drop, devVars
<1>3. faults = 0 /\ supervisor = "running"
  BY <1>1 DEF SupervisorStep, DevServer, Worker, Environment, TakeEvent, SendRebuild, SendObjects,
         Join, Receive, WorkerEnds, Discover, Prime, Detect, SetState, DropSidecar, SetReady, Spawn,
         Healthy, Push, StepFails, Edit, EditTo, SiteBuilt, SidecarDies, Drop
<1> QED BY <1>1, <1>2, <1>3 DEF OnlyRestarts, Undisturbed

\* A carrier that is not removed stays.
LEMMA HereStays ==
  ASSUME IInv, SupervisorStep, OnlyRestarts', Here # {}
  PROVE  Here' # {}
<1>1. CASE Edit
  <2>1. PICK c \in Carrier, v \in (0 .. MaxEdits) \cup {None} : EditTo(c, v)
    BY <1>1 DEF Edit
  <2>2. v # None
    <3>1. KindOf(c, v) \in kinds' /\ "remove" \notin kinds'
      BY <2>1 DEF EditTo, OnlyRestarts
    <3>2. v = None => KindOf(c, v) = "remove"
      BY DEF KindOf
    <3> QED BY <3>1, <3>2
  <2>3. Here \subseteq Here'
    BY <2>1, <2>2 DEF EditTo, Here, IInv, TypeOK
  <2> QED BY <2>3
<1>2. CASE UNCHANGED disk
  BY <1>2 DEF Here
<1>3. Edit \/ UNCHANGED disk
  BY DEF SupervisorStep, DevServer, Worker, Environment, TakeEvent, SendRebuild, SendObjects, Join,
         Receive, WorkerEnds, Discover, Prime, Detect, SetState, DropSidecar, SetReady, Spawn,
         Healthy, Push, StepFails, SiteBuilt, SidecarDies, Drop, devVars
<1> QED BY <1>1, <1>2, <1>3

LEMMA SupervisorCalmInv == IInv /\ CalmInv /\ SupervisorStep => CalmInv'
<1> SUFFICES ASSUME IInv, CalmInv, SupervisorStep, OnlyRestarts' PROVE Calm'
  BY DEF CalmInv
<1>1. OnlyRestarts /\ Calm
  BY OnlyRestartsBefore DEF CalmInv
<1>2. Here # {} => Here' # {}
  BY HereStays
<1>3. faults = 0 /\ faults' = 0 /\ supervisor = "running" /\ supervisor' = "running"
  BY <1>1 DEF OnlyRestarts, Undisturbed
<1>4. CASE Edit \/ SiteBuilt \/ SendRebuild \/ SendObjects \/ \E c \in Carrier : TakeEvent(c)
  BY <1>1, <1>2, <1>4
     DEF Calm, Edit, EditTo, SiteBuilt, SendRebuild, SendObjects, TakeEvent, workerVars
<1>5. CASE Drop \/ SidecarDies \/ Join
  BY <1>3, <1>5 DEF Drop, SidecarDies, Join
<1>6. CASE Receive \/ WorkerEnds \/ Detect \/ Prime
  BY <1>1, <1>2, <1>6 DEF Calm, Receive, WorkerEnds, Detect, Prime, At
<1>7. CASE Discover
  <2>1. Here' = Here
    BY <1>7 DEF Discover, devVars, Here
  <2> QED BY <1>1, <1>7, <2>1 DEF Calm, Discover, At
<1>8. CASE SetState
  BY <1>1, <1>2, <1>8 DEF Calm, SetState, At, Is
<1>9. CASE DropSidecar
  BY <1>1, <1>2, <1>9, NoneAssumption
     DEF Calm, DropSidecar, Kill, At, IInv, TypeOK, WorkerInv, BootingInv
<1>10. CASE SetReady
  BY <1>1, <1>2, <1>10 DEF Calm, SetReady, At, Ready
<1>11. CASE Spawn
  BY <1>1, <1>2, <1>11 DEF Calm, Spawn, At, IInv, WorkerInv, LetGoInv
<1>12. CASE Healthy
  BY <1>1, <1>2, <1>12 DEF Calm, Healthy, At
<1>13. CASE Push
  <2>1. DOMAIN procs' = DOMAIN procs
    BY <1>13 DEF Push, PushState
  <2> QED BY <1>1, <1>2, <1>13, <2>1 DEF Calm, Push, At
<1>14. CASE StepFails
  <2>1. ~(faults < MaxFaults)
    BY <1>3, <1>14 DEF StepFails
  <2>2. \/ wpc = "health" /\ booting \notin DOMAIN procs
        \/ sidecar # None /\ sidecar \notin DOMAIN procs
    BY <1>14, <2>1 DEF StepFails
  <2> QED BY <1>1, <2>2 DEF Calm, IInv, WorkerInv, BootingInv
<1> QED
  BY <1>4, <1>5, <1>6, <1>7, <1>8, <1>9, <1>10, <1>11, <1>12, <1>13, <1>14
     DEF SupervisorStep, DevServer, Worker, Environment

LEMMA SupervisorStepInv == SupervisorInv /\ SupervisorStep => SupervisorInv'
BY SupervisorIInv, SupervisorRestartInv, SupervisorCalmInv DEF SupervisorInv

-----------------------------------------------------------------------------
(* What a request knows *)

\* The slots taken are the requests that are being forwarded.
Forwarded == {q \in Client : rpc[q] \in InForward}

SlotInv == IsFiniteSet(Forwarded) /\ inFlight = Cardinality(Forwarded)

Sent == {"send", "running", "body", "again"}

\* A request is with a sidecar that was there, and each time it was sent again it
\* was sent to a later one.
SentInv ==
  ~Pinned =>
    \A r \in Client :
      /\ rpc[r] \in Sent => /\ port[r] \in 1 .. pids
                            /\ attempts[r] + port[r] >= MaxAttempts + 1
      /\ rpc[r] \in {"running", "body"} => at[r] = port[r]

\* A request that is to be sent again was with a sidecar that is gone.
AgainInv ==
  OnlyRestarts =>
    \A r \in Client : rpc[r] = "again" => port[r] \notin DOMAIN procs

RequestInv == ProxyTypeOK /\ SlotInv /\ SentInv /\ AgainInv /\ RestartsAreHidden

ProxyInv == SupervisorInv /\ RequestInv

LEMMA InitProxyInv == ProxyInit => ProxyInv
<1> SUFFICES ASSUME ProxyInit PROVE ProxyInv
  OBVIOUS
<1>1. SupervisorInv
  BY InitSupervisorInv DEF ProxyInit
<1>2. ProxyTypeOK
  BY ProxyAssumption DEF ProxyInit, ProxyTypeOK, Version
<1>3. Forwarded = {}
  BY DEF ProxyInit, Forwarded, InForward
<1>4. SlotInv
  BY <1>3, FS_EmptySet DEF ProxyInit, SlotInv
<1>5. SentInv /\ AgainInv
  BY DEF ProxyInit, SentInv, AgainInv, Sent
<1>6. RestartsAreHidden
  <2>1. "unanswered" # None
    BY ProxyAssumption DEF Answers
  <2>2. \A r \in Client : answer[r] = None
    BY DEF ProxyInit
  <2> QED BY <2>1, <2>2 DEF RestartsAreHidden
<1> QED BY <1>1, <1>2, <1>4, <1>5, <1>6 DEF ProxyInv, RequestInv

-----------------------------------------------------------------------------
(* Steps under the requests' feet *)

\* A process that is gone stays gone: the next has a pid of its own.
LEMMA GoneStaysGone ==
  ASSUME IInv, SupervisorStep
  PROVE  /\ pids' \in Nat /\ pids <= pids' /\ edits <= edits'
         /\ \A p \in 1 .. pids : p \notin DOMAIN procs => p \notin DOMAIN procs'
<1>1. pids \in Nat /\ edits \in Nat /\ pids' \in Nat
  BY SupervisorIInv DEF IInv, TypeOK
<1>2. CASE Spawn
  BY <1>1, <1>2 DEF Spawn, devVars
<1>3. CASE Push
  BY <1>1, <1>3 DEF Push, PushState, devVars
<1>4. CASE DevServer
  BY <1>1, <1>4 DEF DevServer, TakeEvent, SendRebuild, SendObjects, Join, devVars, workerVars
<1>5. CASE Edit \/ SiteBuilt
  BY <1>1, <1>5 DEF Edit, EditTo, SiteBuilt, devVars, workerVars
<1>6. CASE SidecarDies \/ Drop
  <2>1. pids' = pids /\ edits' = edits /\ \E q : Kill(q)
    BY <1>6 DEF SidecarDies, Drop, devVars, workerVars
  <2>2. DOMAIN procs' \subseteq DOMAIN procs
    BY <2>1 DEF Kill
  <2> QED BY <1>1, <2>1, <2>2
<1>7. CASE Receive \/ WorkerEnds \/ Discover \/ Prime \/ Detect \/ SetState \/ SetReady \/ Healthy
  BY <1>1, <1>7 DEF Receive, WorkerEnds, Discover, Prime, Detect, SetState, SetReady, Healthy, devVars
<1>8. CASE DropSidecar \/ StepFails
  BY <1>1, <1>8 DEF DropSidecar, StepFails, Kill, devVars
<1> QED
  BY <1>2, <1>3, <1>4, <1>5, <1>6, <1>7, <1>8 DEF SupervisorStep, Worker, Environment

LEMMA SupervisorKeepsRequests ==
  ProxyInv /\ SupervisorStep /\ UNCHANGED requestVars => ProxyInv'
<1> SUFFICES ASSUME ProxyInv, SupervisorStep, UNCHANGED requestVars PROVE ProxyInv'
  OBVIOUS
<1> USE DEF ProxyInv, RequestInv, SupervisorInv
<1>1. SupervisorInv'
  BY SupervisorStepInv
<1>2. /\ pids \in Nat /\ pids' \in Nat /\ pids <= pids'
      /\ edits \in Nat /\ edits' \in Nat /\ edits <= edits'
      /\ \A p \in 1 .. pids : p \notin DOMAIN procs => p \notin DOMAIN procs'
  BY <1>1, GoneStaysGone DEF IInv, TypeOK
<1>3. OnlyRestarts' => OnlyRestarts
  BY OnlyRestartsBefore
<1>4. ProxyTypeOK'
  BY DEF ProxyTypeOK, requestVars
<1>5. SlotInv'
  BY DEF SlotInv, Forwarded, requestVars
<1>6. SentInv'
  BY <1>2 DEF SentInv, requestVars, ProxyTypeOK
<1>7. AgainInv'
  BY <1>2, <1>3 DEF AgainInv, SentInv, Sent, requestVars, OnlyRestarts
<1>8. RestartsAreHidden'
  BY <1>2, <1>3, ProxyAssumption DEF RestartsAreHidden, requestVars
<1> QED BY <1>1, <1>4, <1>5, <1>6, <1>7, <1>8

-----------------------------------------------------------------------------
(* What the steps of a request do to the rest *)

\* Nothing of the worker's but the faults, or what a sidecar has loaded.
Frame ==
  /\ UNCHANGED <<pids, edits, state, sidecar>>
  /\ DOMAIN procs' = DOMAIN procs
  /\ OnlyRestarts' => OnlyRestarts

LEMMA FaultsFrame ==
  ASSUME SupervisorInv, UNCHANGED butFaults, faults' = faults \/ Timeout
  PROVE  SupervisorInv' /\ Frame
<1> USE DEF SupervisorInv
<1>1. faults \in Nat /\ faults' \in Nat /\ (faults' = 0 => faults = 0)
  BY DEF IInv, TypeOK, Timeout
<1>2. IInv'
  BY <1>1, WorkerInvSame DEF IInv, TypeOK, butFaults, devVars, workerVars, workerView
<1>3. OnlyRestarts' => OnlyRestarts
  BY <1>1 DEF OnlyRestarts, Undisturbed, butFaults, devVars
<1>4. RestartInv'
  BY RestartSame DEF butFaults, devVars, workerVars, WillSpawn, IInv, TypeOK
<1>5. CalmInv'
  BY <1>3 DEF CalmInv, Calm, butFaults, devVars, workerVars, Here
<1>6. Frame
  BY <1>3 DEF Frame, butFaults, devVars, workerVars
<1> QED BY <1>2, <1>4, <1>5, <1>6

LEMMA LoadFrame ==
  ASSUME SupervisorInv, NEW p \in DOMAIN procs, NEW c \in Carrier, Load(p, c),
         UNCHANGED <<devVars, faults, supervisor, inbox, workerVars>>
  PROVE  SupervisorInv' /\ Frame
<1> USE DEF SupervisorInv
<1>1. IInv' /\ DOMAIN procs' = DOMAIN procs
  BY LoadIInv
<1>2. OnlyRestarts' => OnlyRestarts
  BY DEF OnlyRestarts, Undisturbed, devVars
<1>3. RestartInv'
  BY RestartSame DEF devVars, workerVars, WillSpawn, IInv, TypeOK
<1>4. CalmInv'
  BY <1>1, <1>2 DEF CalmInv, Calm, devVars, workerVars, Here
<1>5. Frame
  BY <1>1, <1>2 DEF Frame, devVars, workerVars
<1> QED BY <1>1, <1>3, <1>4, <1>5

-----------------------------------------------------------------------------
(* What they do to the slots *)

LEMMA SlotKept ==
  ASSUME ProxyTypeOK, SlotInv, NEW r \in Client, NEW here, NEW next, Step(r, here, next),
         here \in InForward <=> next \in InForward, inFlight' = inFlight
  PROVE  SlotInv'
<1>1. Forwarded' = Forwarded
  BY DEF Step, Forwarded, ProxyTypeOK
<1> QED BY <1>1 DEF SlotInv

LEMMA SlotTaken ==
  ASSUME ProxyTypeOK, SlotInv, NEW r \in Client, Step(r, "new", "port"), inFlight' = inFlight + 1
  PROVE  SlotInv'
<1>1. Forwarded' = Forwarded \cup {r} /\ r \notin Forwarded
  BY DEF Step, Forwarded, ProxyTypeOK, InForward
<1> QED BY <1>1, FS_AddElement DEF SlotInv

LEMMA SlotGivenBack ==
  ASSUME ProxyTypeOK, SlotInv, NEW r \in Client, NEW here \in InForward, Step(r, here, "done"),
         inFlight' = inFlight - 1
  PROVE  SlotInv' /\ inFlight' \in 0 .. MaxConcurrent
<1>1. Forwarded' = Forwarded \ {r} /\ r \in Forwarded
  BY DEF Step, Forwarded, ProxyTypeOK, InForward
<1>2. IsFiniteSet(Forwarded') /\ Cardinality(Forwarded') = Cardinality(Forwarded) - 1
  BY <1>1, FS_RemoveElement DEF SlotInv
<1>3. Cardinality(Forwarded') \in Nat
  BY <1>2, FS_CardinalityType
<1> QED BY <1>2, <1>3, ProxyAssumption DEF SlotInv, ProxyTypeOK

-----------------------------------------------------------------------------
(* Steps of a request *)

\* An answer leaves the other requests, and what this one was sent to, alone.
LEMMA AnswerKeeps ==
  ASSUME RequestInv, Frame, NEW r \in Client, NEW here \in InForward, NEW a \in Answers,
         Answer(r, here, a), UNCHANGED <<port, attempts, runs>>,
         a = "unanswered" => ~(OnlyRestarts' /\ edits < MaxAttempts)
  PROVE  RequestInv'
<1> USE DEF RequestInv
<1>1. SlotInv' /\ inFlight' \in 0 .. MaxConcurrent
  BY SlotGivenBack DEF Answer
<1>2. None \in Version
  BY DEF Version
<1>3. ProxyTypeOK'
  BY <1>1, <1>2 DEF Answer, Step, ProxyTypeOK
<1>4. \A q \in Client : q # r => rpc'[q] = rpc[q] /\ at'[q] = at[q] /\ answer'[q] = answer[q]
  BY DEF Answer, Step, ProxyTypeOK
<1>5. rpc'[r] = "done" /\ answer'[r] = a
  BY DEF Answer, Step, ProxyTypeOK
<1>6. SentInv'
  BY <1>4, <1>5 DEF SentInv, Sent, Frame
<1>7. AgainInv'
  BY <1>4, <1>5 DEF AgainInv, Frame
<1>8. RestartsAreHidden'
  BY <1>4, <1>5 DEF RestartsAreHidden, Frame
<1> QED BY <1>1, <1>3, <1>6, <1>7, <1>8

LEMMA HandleInv == ASSUME ProxyInv, NEW r \in Client, Handle(r) PROVE ProxyInv'
<1> USE DEF ProxyInv, RequestInv
<1>1. SupervisorInv' /\ Frame
  BY FaultsFrame DEF Handle, carrierVars, butFaults
<1>2. UNCHANGED <<port, attempts, at, runs>>
  BY DEF Handle
<1>3. ASSUME NEW a \in {"static", "busy"}, Inline(r, a) PROVE RequestInv'
  <2>1. SlotInv'
    BY <1>3, SlotKept DEF Inline, InForward
  <2>2. ProxyTypeOK'
    BY <1>2, <1>3 DEF Inline, Step, ProxyTypeOK, Answers
  <2>3. /\ \A q \in Client : q # r => rpc'[q] = rpc[q] /\ answer'[q] = answer[q]
        /\ rpc'[r] = "done" /\ answer'[r] # "unanswered"
    BY <1>3 DEF Inline, Step, ProxyTypeOK
  <2>4. SentInv' /\ AgainInv' /\ RestartsAreHidden'
    BY <1>1, <1>2, <2>3 DEF SentInv, AgainInv, RestartsAreHidden, Sent, Frame
  <2> QED BY <2>1, <2>2, <2>4
<1>4. ASSUME inFlight < MaxConcurrent, Step(r, "new", "port"), inFlight' = inFlight + 1,
             UNCHANGED answer
      PROVE  RequestInv'
  <2>1. SlotInv'
    BY <1>4, SlotTaken
  <2>2. ProxyTypeOK'
    BY <1>2, <1>4, ProxyAssumption DEF Step, ProxyTypeOK, InForward
  <2>3. (\A q \in Client : q # r => rpc'[q] = rpc[q]) /\ rpc'[r] = "port"
    BY <1>4 DEF Step, ProxyTypeOK
  <2>4. SentInv' /\ AgainInv' /\ RestartsAreHidden'
    BY <1>1, <1>2, <1>4, <2>3 DEF SentInv, AgainInv, RestartsAreHidden, Sent, Frame
  <2> QED BY <2>1, <2>2, <2>4
<1> QED BY <1>1, <1>3, <1>4 DEF Handle

LEMMA ResolveInv == ASSUME ProxyInv, NEW r \in Client, Resolve(r) PROVE ProxyInv'
<1> USE DEF ProxyInv
<1>1. SupervisorInv' /\ Frame
  BY FaultsFrame DEF Resolve
<1>2. ASSUME NEW a \in Answers \ {"unanswered"}, Answer(r, "port", a), UNCHANGED <<port, attempts>>
      PROVE  RequestInv'
  BY <1>1, <1>2, AnswerKeeps DEF Resolve, InForward
<1>3. ASSUME state.is = "Ready", Step(r, "port", "send"),
             port' = [port EXCEPT ![r] = state.port],
             attempts' = [attempts EXCEPT ![r] = MaxAttempts],
             UNCHANGED <<at, answer, inFlight>>
      PROVE  RequestInv'
  <2> USE DEF RequestInv
  <2>1. state.port \in Nat /\ (~Pinned => state.port \in 1 .. pids)
    BY <1>3 DEF SupervisorInv, IInv, TypeOK, WorkerInv, ReadyIsStored, PortOf
  <2>2. SlotInv'
    BY <1>3, SlotKept DEF InForward
  <2>3. ProxyTypeOK'
    BY <1>3, <2>1, ProxyAssumption DEF Resolve, Step, ProxyTypeOK, Version, InForward
  <2>4. /\ \A q \in Client : q # r => /\ rpc'[q] = rpc[q] /\ port'[q] = port[q]
                                      /\ attempts'[q] = attempts[q]
        /\ rpc'[r] = "send" /\ port'[r] = state.port /\ attempts'[r] = MaxAttempts
    BY <1>3 DEF Step, ProxyTypeOK
  <2>5. SentInv'
    BY <1>1, <1>3, <2>1, <2>4, ProxyAssumption DEF SentInv, Sent, Frame
  <2>6. AgainInv' /\ RestartsAreHidden'
    BY <1>1, <1>3, <2>4 DEF AgainInv, RestartsAreHidden, Frame
  <2> QED BY <2>2, <2>3, <2>5, <2>6
<1> QED BY <1>1, <1>2, <1>3 DEF Resolve, Answers

LEMMA RunInv == ASSUME ProxyInv, NEW r \in Client, Run(r) PROVE ProxyInv'
<1> USE DEF ProxyInv
<1>1. PICK p \in Listening(r) :
        LET pushed == procs[p].pushed IN
        /\ \/ pushed = None /\ Answer(r, "send", "starting") /\ UNCHANGED <<procs, runs>>
           \/ /\ pushed # None /\ Wants[r] \notin pushed.roots
              /\ Answer(r, "send", "notFound")
              /\ UNCHANGED <<procs, runs>>
           \/ /\ pushed # None /\ Wants[r] \in pushed.roots
              /\ Step(r, "send", "running")
              /\ Load(p, Wants[r])
              /\ at' = [at EXCEPT ![r] = p]
              /\ runs' = [runs EXCEPT ![r] = @ + 1]
              /\ UNCHANGED <<answer, inFlight>>
        /\ UNCHANGED <<devVars, faults, supervisor, inbox, workerVars, port, attempts>>
  BY DEF Run
<1>2. p \in DOMAIN procs /\ PortOf(p) = port[r]
  BY DEF Listening
<1>3. ASSUME NEW a \in {"starting", "notFound"}, Answer(r, "send", a), UNCHANGED <<procs, runs>>
      PROVE  ProxyInv'
  <2>1. SupervisorInv' /\ Frame
    BY <1>1, <1>3, FaultsFrame DEF butFaults
  <2>2. RequestInv'
    BY <1>1, <1>3, <2>1, AnswerKeeps DEF InForward, Answers
  <2> QED BY <2>1, <2>2
<1>4. ASSUME Step(r, "send", "running"), Load(p, Wants[r]), at' = [at EXCEPT ![r] = p],
             runs' = [runs EXCEPT ![r] = @ + 1], UNCHANGED <<answer, inFlight>>
      PROVE  ProxyInv'
  <2> USE DEF RequestInv
  <2>1. SupervisorInv' /\ Frame
    BY <1>1, <1>2, <1>4, LoadFrame, ProxyAssumption
  <2>2. SlotInv'
    BY <1>4, SlotKept DEF InForward
  <2>3. p \in Nat
    BY <1>2 DEF SupervisorInv, IInv, TypeOK
  <2>4. ProxyTypeOK'
    BY <1>1, <1>4, <2>3 DEF Step, ProxyTypeOK, Version, InForward
  <2>5. /\ \A q \in Client : q # r => rpc'[q] = rpc[q] /\ at'[q] = at[q]
        /\ rpc[r] = "send" /\ rpc'[r] = "running" /\ at'[r] = p
    BY <1>4 DEF Step, ProxyTypeOK
  <2>6. SentInv'
    BY <1>1, <1>2, <2>1, <2>5 DEF SentInv, Sent, Frame, PortOf
  <2>7. AgainInv' /\ RestartsAreHidden'
    BY <1>1, <1>4, <2>1, <2>5 DEF AgainInv, RestartsAreHidden, Frame
  <2> QED BY <2>1, <2>2, <2>4, <2>6, <2>7
<1> QED BY <1>1, <1>3, <1>4

LEMMA RespondInv == ASSUME ProxyInv, NEW r \in Client, Respond(r) PROVE ProxyInv'
<1> USE DEF ProxyInv, RequestInv
<1>1. SupervisorInv' /\ Frame
  BY FaultsFrame DEF Respond, carrierVars, butFaults
<1>2. SlotInv'
  BY SlotKept DEF Respond, InForward
<1>3. ProxyTypeOK'
  BY DEF Respond, Step, ProxyTypeOK, InForward
<1>4. /\ \A q \in Client : q # r => rpc'[q] = rpc[q]
      /\ rpc[r] = "running" /\ rpc'[r] = "body"
      /\ UNCHANGED <<port, attempts, at, runs, answer>>
  BY DEF Respond, Step, ProxyTypeOK
<1>5. SentInv' /\ AgainInv' /\ RestartsAreHidden'
  BY <1>1, <1>4 DEF SentInv, AgainInv, RestartsAreHidden, Sent, Frame
<1> QED BY <1>1, <1>2, <1>3, <1>5

LEMMA ReadBodyInv == ASSUME ProxyInv, NEW r \in Client, ReadBody(r) PROVE ProxyInv'
<1>1. SupervisorInv' /\ Frame
  BY FaultsFrame DEF ReadBody, ProxyInv
<1>2. RequestInv'
  BY <1>1, AnswerKeeps DEF ReadBody, InForward, Answers, ProxyInv
<1> QED BY <1>1, <1>2 DEF ProxyInv

\* A wait that runs out is a fault.
LEMMA TimeoutIsFault == IInv /\ Timeout => faults' # 0
BY CarriersAssumption DEF IInv, TypeOK, Timeout

LEMMA SendFailsInv == ASSUME ProxyInv, NEW r \in Client, SendFails(r) PROVE ProxyInv'
<1> USE DEF ProxyInv, RequestInv, SupervisorInv
<1>1. SupervisorInv' /\ Frame
  BY FaultsFrame DEF SendFails
<1>2. PICK here \in {"send", "running"} : Step(r, here, "again")
  BY DEF SendFails
<1>3. SlotInv'
  BY <1>2, SlotKept DEF SendFails, InForward
<1>4. ProxyTypeOK'
  BY <1>2 DEF SendFails, Step, ProxyTypeOK, Version, InForward
<1>5. /\ \A q \in Client : q # r => rpc'[q] = rpc[q] /\ at'[q] = at[q]
      /\ rpc[r] = here /\ rpc'[r] = "again"
      /\ UNCHANGED <<port, attempts, answer>>
  BY <1>2 DEF SendFails, Step, ProxyTypeOK
<1>6. SentInv'
  BY <1>1, <1>5 DEF SentInv, Sent, Frame
<1>7. OnlyRestarts' => port[r] \notin DOMAIN procs
  <2> SUFFICES ASSUME OnlyRestarts' PROVE port[r] \notin DOMAIN procs
    OBVIOUS
  <2>1. ~Timeout /\ ~Pinned
    BY TimeoutIsFault DEF OnlyRestarts, Undisturbed
  <2>2. CASE Listening(r) = {}
    BY <2>1, <2>2 DEF Listening, PortOf
  <2>3. CASE rpc[r] = "running" /\ at[r] \notin DOMAIN procs
    BY <2>1, <2>3 DEF SentInv
  <2> QED BY <2>1, <2>2, <2>3 DEF SendFails, Step
<1>8. AgainInv'
  BY <1>1, <1>5, <1>7 DEF AgainInv, Frame
<1>9. RestartsAreHidden'
  BY <1>1, <1>5 DEF RestartsAreHidden, Frame
<1> QED BY <1>1, <1>3, <1>4, <1>6, <1>8, <1>9

\* A request that looks again finds a later sidecar, or one starting; and it has
\* attempts left, as each one before was spent on a sidecar of its own.
LEMMA RetryFindsAnother ==
  ASSUME ProxyInv, NEW r \in Client, rpc[r] = "again", OnlyRestarts, edits < MaxAttempts
  PROVE  \/ state.is = "Starting"
         \/ state.is = "Ready" /\ state.port # port[r] /\ attempts[r] > 1
<1> USE DEF ProxyInv, RequestInv, SupervisorInv
<1>1. /\ port[r] \in 1 .. pids /\ attempts[r] + port[r] >= MaxAttempts + 1
      /\ port[r] \notin DOMAIN procs /\ ~Pinned
  BY DEF SentInv, AgainInv, Sent, OnlyRestarts
<1>2. pids \in Nat /\ pids > 0 /\ edits \in Nat /\ attempts[r] \in Nat
  BY <1>1, ProxyAssumption DEF IInv, TypeOK, ProxyTypeOK
<1>3. Calm
  BY DEF CalmInv
<1>4. state.is \in {"Ready", "Starting"}
  BY <1>2, <1>3 DEF Calm, IInv, TypeOK
<1>5. ASSUME state.is = "Ready" PROVE state.port # port[r] /\ attempts[r] > 1
  <2>1. state.port = pids /\ pids \in DOMAIN procs
    BY <1>1, <1>3, <1>5 DEF Calm, IInv, WorkerInv, ReadyIsStored, LatestInv, PortOf
  <2>2. pids <= 1 + edits
    <3>1. /\ Cardinality(Rebuilds(inbox)) \in Nat /\ Cardinality(events) \in Nat
          /\ WillSpawn \in Nat /\ Changed \in Nat
      BY RebuildsFinite, FS_CardinalityType DEF IInv, TypeOK, RestartInv, WillSpawn, Changed
    <3> QED BY <1>2, <3>1 DEF RestartInv
  <2> QED BY <1>1, <1>2, <2>1, <2>2, ProxyAssumption
<1> QED BY <1>4, <1>5

LEMMA RetryInv == ASSUME ProxyInv, NEW r \in Client, Retry(r) PROVE ProxyInv'
<1> USE DEF ProxyInv, SupervisorInv
<1>1. SupervisorInv' /\ Frame
  BY FaultsFrame DEF Retry
<1>2. ASSUME state.is = "Ready", state.port # port[r], attempts[r] > 1,
             Step(r, "again", "send"), port' = [port EXCEPT ![r] = state.port],
             attempts' = [attempts EXCEPT ![r] = @ - 1], UNCHANGED <<faults, at, answer, inFlight>>
      PROVE  RequestInv'
  <2> USE DEF RequestInv
  <2>1. state.port \in Nat /\ (~Pinned => state.port = pids /\ state.port \in 1 .. pids)
    BY <1>2 DEF IInv, TypeOK, WorkerInv, ReadyIsStored, LatestInv, PortOf
  <2>2. SlotInv'
    BY <1>2, SlotKept DEF InForward
  <2>3. attempts[r] \in 0 .. MaxAttempts /\ attempts[r] - 1 \in 0 .. MaxAttempts
    BY <1>2, ProxyAssumption DEF ProxyTypeOK
  <2>4. ProxyTypeOK'
    BY <1>2, <2>1, <2>3 DEF Retry, Step, ProxyTypeOK, Version, InForward
  <2>5. /\ \A q \in Client : q # r => /\ rpc'[q] = rpc[q] /\ port'[q] = port[q]
                                      /\ attempts'[q] = attempts[q]
        /\ rpc[r] = "again" /\ rpc'[r] = "send" /\ port'[r] = state.port
        /\ attempts'[r] = attempts[r] - 1
    BY <1>2 DEF Step, ProxyTypeOK
  <2>6. SentInv'
    <3> SUFFICES ASSUME ~Pinned, NEW q \in Client
                 PROVE  /\ rpc'[q] \in Sent => /\ port'[q] \in 1 .. pids
                                               /\ attempts'[q] + port'[q] >= MaxAttempts + 1
                        /\ rpc'[q] \in {"running", "body"} => at'[q] = port'[q]
      BY <1>1 DEF SentInv, Frame
    <3>1. CASE q # r
      BY <1>2, <2>5, <3>1 DEF SentInv
    <3>2. CASE q = r
      <4>1. port[r] \in 1 .. pids /\ attempts[r] + port[r] >= MaxAttempts + 1
        BY <2>5 DEF SentInv, Sent
      <4>2. attempts[r] - 1 + state.port >= MaxAttempts + 1
        BY <1>2, <2>1, <2>3, <4>1, ProxyAssumption DEF IInv, TypeOK
      <4> QED BY <2>1, <2>5, <3>2, <4>2
    <3> QED BY <3>1, <3>2
  <2>7. AgainInv' /\ RestartsAreHidden'
    BY <1>1, <1>2, <2>5 DEF AgainInv, RestartsAreHidden, Frame
  <2> QED BY <2>2, <2>4, <2>6, <2>7
<1>3. ASSUME ~(state.is = "Ready" /\ state.port # port[r] /\ attempts[r] > 1),
             state.is = "Starting" => Timeout, Answer(r, "again", "unanswered"),
             UNCHANGED <<port, attempts>>
      PROVE  RequestInv'
  <2>1. ~(OnlyRestarts' /\ edits < MaxAttempts)
    <3>1. rpc[r] = "again"
      BY <1>3 DEF Answer, Step
    <3>2. OnlyRestarts' => OnlyRestarts /\ ~Timeout
      BY <1>1, TimeoutIsFault DEF Frame, OnlyRestarts, Undisturbed
    <3> QED BY <1>3, <3>1, <3>2, RetryFindsAnother
  <2> QED BY <1>1, <1>3, <2>1, AnswerKeeps DEF Retry, InForward, Answers
<1>4. UNCHANGED <<butFaults, runs>>
  BY DEF Retry
<1> QED BY <1>1, <1>2, <1>3 DEF Retry

-----------------------------------------------------------------------------

LEMMA ProxyStep == ProxyInv /\ [ProxyNext]_proxyVars => ProxyInv'
<1> SUFFICES ASSUME ProxyInv, [ProxyNext]_proxyVars PROVE ProxyInv'
  OBVIOUS
<1>1. CASE (DevServer \/ Worker \/ Environment) /\ UNCHANGED requestVars
  BY <1>1, SupervisorKeepsRequests DEF SupervisorStep
<1>2. ASSUME NEW r \in Client, Handle(r) \/ Forward(r) PROVE ProxyInv'
  BY <1>2, HandleInv, ResolveInv, RunInv, RespondInv, ReadBodyInv, SendFailsInv, RetryInv
     DEF Forward
<1>3. CASE UNCHANGED proxyVars
  <2>1. SupervisorInv' /\ Frame
    BY <1>3, FaultsFrame DEF proxyVars, carrierVars, butFaults, ProxyInv
  <2>2. RequestInv'
    BY <1>3, <2>1 DEF proxyVars, requestVars, ProxyInv, RequestInv, ProxyTypeOK, SlotInv, Forwarded,
                      SentInv, AgainInv, RestartsAreHidden, Frame
  <2> QED BY <2>1, <2>2 DEF ProxyInv
<1> QED BY <1>1, <1>2, <1>3 DEF ProxyNext

\* Restarts are hidden from requests: whatever the interleaving of edits, of the
\* worker and of the requests, none is told that the sidecar did not answer while
\* edits, fewer than MAX_ATTEMPTS, are all that disturbs it.
THEOREM ProxyIsAlwaysSound == ProxySpec => []ProxyIsSound
<1>1. ProxyInv => ProxyIsSound
  BY DEF ProxyInv, RequestInv, ProxyIsSound
<1> QED BY InitProxyInv, ProxyStep, <1>1, PTL DEF ProxySpec

\* A request is turned away only while MAX_CONCURRENT others are really being
\* forwarded: every way out of a request gives its slot back.
THEOREM BusyMeansFull == ProxySpec => BusyOnlyWhenFull
<1> DEFINE A == \A r \in Client :
                  answer'[r] = "busy" /\ answer[r] # "busy" =>
                    Cardinality({q \in Client : rpc[q] \in InForward}) >= MaxConcurrent
<1>1. ProxyInv /\ [ProxyNext]_proxyVars => [A]_proxyVars
  <2> SUFFICES ASSUME ProxyInv, ProxyNext, NEW r \in Client,
                      answer'[r] = "busy", answer[r] # "busy"
               PROVE  Cardinality(Forwarded) >= MaxConcurrent
    BY DEF Forwarded
  <2>1. PICK q \in Client : Handle(q) \/ Forward(q)
    BY DEF ProxyNext, requestVars
  <2>2. answer \in [Client -> Answers \cup {None}]
    BY DEF ProxyInv, RequestInv, ProxyTypeOK
  <2>3. ~Forward(q)
    BY <2>2 DEF Forward, Resolve, Run, Respond, ReadBody, SendFails, Retry, Answer
  <2>4. inFlight >= MaxConcurrent
    BY <2>1, <2>2, <2>3 DEF Handle, Inline
  <2> QED BY <2>4 DEF ProxyInv, RequestInv, SlotInv
<1> QED BY InitProxyInv, ProxyStep, <1>1, PTL DEF ProxySpec, BusyOnlyWhenFull
================================================================================
