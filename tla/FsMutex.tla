------------------------------- MODULE FsMutex -------------------------------
(***************************************************************************)
(* `FileSystemMutex::with_fs` (src/src/file_system_mutex.rs): a mutex that *)
(* refuses to be re-entered.  The mutex is std's; what the code adds is    *)
(* `owner`, an atomic a thread compares with its own key before it waits.  *)
(*                                                                         *)
(* The atomic is Relaxed, so it is modelled by its modification order: a   *)
(* thread's load returns any store at or after the last one it has seen.   *)
(* Nothing else orders the loads; the synchronization the mutex brings is  *)
(* left out, which only allows more behaviours.                            *)
(***************************************************************************)
EXTENDS Integers, Sequences

CONSTANTS
  Thread,        \* the threads, each standing for its THREAD_KEY
  Unowned,       \* UNOWNED, which is no thread's key
  DebugBuild,    \* debug_assertions: lock_failed panics instead of returning
  MaxStores      \* bound: no call starts once `owner` was stored so often

ASSUME UnownedAssumption == Unowned \notin Thread
ASSUME ConfigAssumption == DebugBuild \in BOOLEAN /\ MaxStores \in Nat

VARIABLES
  pc,         \* where each thread is in with_fs
  mutex,      \* the thread holding the std mutex, Unowned when free
  poisoned,   \* the std mutex was unlocked by a panic
  stores,     \* the modification order of `owner`
  seen        \* the last store each thread has observed

vars == <<pc, mutex, poisoned, stores, seen>>

Init ==
  /\ pc = [t \in Thread |-> "outside"]
  /\ mutex = Unowned
  /\ poisoned = FALSE
  /\ stores = <<Unowned>>
  /\ seen = [t \in Thread |-> 1]

\* owner.load(Relaxed)
Load(t, i) ==
  /\ i \in seen[t] .. Len(stores)
  /\ seen' = [seen EXCEPT ![t] = i]

\* owner.store(v, Relaxed)
Store(t, v) ==
  /\ stores' = Append(stores, v)
  /\ seen' = [seen EXCEPT ![t] = Len(stores) + 1]

Goto(t, label) == pc' = [pc EXCEPT ![t] = label]

\* Slip: the owner is set before the mutex is waited for.
OwnBeforeLock(t) ==
  /\ pc[t] = "outside"
  /\ Len(stores) < MaxStores
  /\ \E i \in seen[t] .. Len(stores) : stores[i] # t
  /\ Store(t, t)
  /\ Goto(t, "waiting")
  /\ UNCHANGED <<mutex, poisoned>>

\* with_fs is called: refuse a thread that finds its own key, else wait.
Call(t) ==
  /\ pc[t] = "outside"
  /\ Len(stores) < MaxStores
  /\ \E i \in 1 .. Len(stores) :
       /\ Load(t, i)
       /\ Goto(t, IF stores[i] = t THEN "refused" ELSE "waiting")
  /\ UNCHANGED <<mutex, poisoned, stores>>

\* Slip: the poison is ignored, as it is for build_lock.
LockPoisoned(t) ==
  /\ pc[t] = "waiting"
  /\ mutex = Unowned
  /\ mutex' = t
  /\ Goto(t, "locked")
  /\ UNCHANGED <<poisoned, stores, seen>>

\* fs.lock(): a poisoned mutex is handed out as an error and let go of at once.
Lock(t) ==
  /\ pc[t] = "waiting"
  /\ mutex = Unowned
  /\ IF poisoned
       THEN Goto(t, "failed") /\ UNCHANGED mutex
       ELSE Goto(t, "locked") /\ mutex' = t
  /\ UNCHANGED <<poisoned, stores, seen>>

SetOwner(t) ==
  /\ pc[t] = "locked"
  /\ Store(t, t)
  /\ Goto(t, "inside")
  /\ UNCHANGED <<mutex, poisoned>>

\* f calls with_fs again: refused, or waiting for a mutex its thread holds.
Nest(t) ==
  /\ pc[t] = "inside"
  /\ \E i \in 1 .. Len(stores) :
       /\ Load(t, i)
       /\ Goto(t, IF stores[i] = t THEN "nestRefused" ELSE "nestWaiting")
  /\ UNCHANGED <<mutex, poisoned, stores>>

\* lock_failed inside f: an error f may handle, or a panic in a debug build.
NestFails(t) ==
  /\ pc[t] = "nestRefused"
  /\ Goto(t, IF DebugBuild THEN "unwinding" ELSE "inside")
  /\ UNCHANGED <<mutex, poisoned, stores, seen>>

Return(t) ==
  /\ pc[t] = "inside"
  /\ Goto(t, "leaving")
  /\ UNCHANGED <<mutex, poisoned, stores, seen>>

Panic(t) ==
  /\ pc[t] = "inside"
  /\ Goto(t, "unwinding")
  /\ UNCHANGED <<mutex, poisoned, stores, seen>>

\* Slip: OwnerGuard is declared before the mutex guard, so dropped after it.
UnlockFirst(t) ==
  /\ pc[t] \in {"leaving", "unwinding"}
  /\ mutex' = IF mutex = t THEN Unowned ELSE mutex
  /\ poisoned' = (poisoned \/ pc[t] = "unwinding")
  /\ IF mutex = t
       THEN UNCHANGED <<pc, stores, seen>>
       ELSE Store(t, Unowned) /\ Goto(t, "outside")

\* Slip: nothing clears the owner.
KeepOwner(t) ==
  /\ pc[t] \in {"leaving", "unwinding"}
  /\ Goto(t, IF pc[t] = "leaving" THEN "unlocking" ELSE "poisoning")
  /\ UNCHANGED <<mutex, poisoned, stores, seen>>

\* OwnerGuard::drop, before the mutex guard's.
ClearOwner(t) ==
  /\ pc[t] \in {"leaving", "unwinding"}
  /\ Store(t, Unowned)
  /\ Goto(t, IF pc[t] = "leaving" THEN "unlocking" ELSE "poisoning")
  /\ UNCHANGED <<mutex, poisoned>>

\* The mutex guard is dropped, poisoning the mutex when f panicked.
Unlock(t) ==
  /\ pc[t] \in {"unlocking", "poisoning"}
  /\ mutex' = Unowned
  /\ poisoned' = (poisoned \/ pc[t] = "poisoning")
  /\ Goto(t, "outside")
  /\ UNCHANGED <<stores, seen>>

\* The caller gets the error, or unwinds from it holding nothing.
Refuse(t) ==
  /\ pc[t] \in {"refused", "failed"}
  /\ Goto(t, "outside")
  /\ UNCHANGED <<mutex, poisoned, stores, seen>>

Proceed(t) ==
  \/ Lock(t)
  \/ SetOwner(t)
  \/ NestFails(t)
  \/ Return(t) \/ Panic(t)
  \/ ClearOwner(t)
  \/ Unlock(t)
  \/ Refuse(t)

Next == \E t \in Thread : Call(t) \/ Nest(t) \/ Proceed(t)

Spec == Init /\ [][Next]_vars

\* Threads are scheduled and closures return or panic.
FairSpec == Spec /\ \A t \in Thread : WF_vars(Proceed(t))

-----------------------------------------------------------------------------

Holding == {"locked", "inside", "nestRefused", "nestWaiting", "leaving",
            "unwinding", "unlocking", "poisoning"}
Running == {"inside", "nestRefused", "nestWaiting", "leaving", "unwinding"}
Elsewhere == {"outside", "waiting", "refused", "failed"}

\* Type invariant.
TypeOK ==
  /\ pc \in [Thread -> Holding \cup Elsewhere]
  /\ mutex \in Thread \cup {Unowned}
  /\ poisoned \in BOOLEAN
  /\ stores \in Seq(Thread \cup {Unowned})
  /\ seen \in [Thread -> Nat]
  /\ \A t \in Thread : seen[t] \in 1 .. Len(stores)

\* `owner` is "the thread inside `with_fs`, or `UNOWNED`" (file_system_mutex.rs:32):
\* its newest store names the thread that runs its closure, and that thread has
\* the mutex; no thread that waits, was refused or has left is named.
OwnerIsTheThreadInside ==
  \A t \in Thread :
    /\ pc[t] \in Holding <=> mutex = t
    /\ pc[t] \in Running <=> stores[Len(stores)] = t

\* The state is well typed and owner tells who is inside.
OwnerIsSound == TypeOK /\ OwnerIsTheThreadInside

\* A thread that is not inside with_fs never finds its own key in `owner`,
\* however late it sees the stores of others: contention is waited for, not
\* refused.
ContentionIsNotRefused == \A t \in Thread : pc[t] # "refused"

\* A thread inside with_fs always finds its own key: a nested call is refused,
\* and never waits for the mutex its own thread holds.
NestedCallsAreRefused == \A t \in Thread : pc[t] # "nestWaiting"

\* The thread inside with_fs as its callers see it: from the moment it runs the
\* closure until it lets go of the mutex.
Holder == IF mutex # Unowned /\ pc[mutex] # "locked" THEN mutex ELSE Unowned

Gate == INSTANCE FsGate WITH Nobody <- Unowned, holder <- Holder, broken <- poisoned

\* with_fs is the gate the rest of the program takes it for.
ImplementsGate == Gate!Spec

\* Every call returns, unless calls keep coming or a closure nests forever.
CallsReturn ==
  \/ []<><<\E t \in Thread : Call(t) \/ Nest(t)>>_vars
  \/ \A t \in Thread : pc[t] # "outside" ~> pc[t] = "outside"
==============================================================================
