---------------------------- MODULE FsMutexProofs ----------------------------
(* Theorems about FsMutex, for any set of threads and any number of calls.   *)
EXTENDS FsMutex, TLAPS

\* The std mutex is held exactly between Lock and Unlock.
MutexInv == \A t \in Thread : pc[t] \in Holding <=> mutex = t

\* A thread can see its own key only while it is inside ...
KeyInv ==
  \A t \in Thread : \A i \in 1 .. Len(stores) :
    i >= seen[t] /\ stores[i] = t => pc[t] \in Running

\* ... and then sees nothing else.
LastInv ==
  \A t \in Thread :
    pc[t] \in Running => seen[t] = Len(stores) /\ stores[Len(stores)] = t

RefusalInv == ContentionIsNotRefused /\ NestedCallsAreRefused

\* A poisoned mutex is held by nobody: the panic that poisons it lets go of it.
PoisonInv == poisoned => mutex = Unowned

IInv == TypeOK /\ MutexInv /\ KeyInv /\ LastInv /\ RefusalInv /\ PoisonInv

LEMMA InitIInv == Init => IInv
<1> SUFFICES ASSUME Init PROVE IInv
  OBVIOUS
<1>1. stores = <<Unowned>> /\ Len(stores) = 1 /\ stores[1] = Unowned
  BY DEF Init
<1>2. TypeOK
  <2>1. stores \in Seq(Thread \cup {Unowned})
    BY <1>1
  <2>2. seen \in [Thread -> Nat] /\ \A t \in Thread : seen[t] \in 1 .. Len(stores)
    BY <1>1 DEF Init
  <2> QED BY <2>1, <2>2 DEF Init, TypeOK, Elsewhere
<1>3. MutexInv /\ KeyInv /\ LastInv
  BY <1>1, UnownedAssumption DEF Init, MutexInv, KeyInv, LastInv, Holding, Running
<1>4. RefusalInv /\ PoisonInv
  BY DEF Init, RefusalInv, PoisonInv, ContentionIsNotRefused, NestedCallsAreRefused
<1> QED BY <1>2, <1>3, <1>4 DEF IInv

\* A load by t from index i on.
LEMMA LoadIInv ==
  ASSUME IInv, NEW t \in Thread, NEW i \in 1 .. Len(stores), Load(t, i),
         NEW label, pc' = [pc EXCEPT ![t] = label],
         label \notin {"refused", "nestWaiting"},
         \/ pc[t] = "outside" /\ label = "waiting"
         \/ pc[t] = "inside" /\ label = "nestRefused",
         UNCHANGED <<mutex, poisoned, stores>>
  PROVE  IInv'
<1>1. TypeOK'
  BY DEF IInv, TypeOK, Load, Holding, Elsewhere
<1>2. MutexInv'
  BY DEF IInv, MutexInv, TypeOK, Holding
<1>3. \A u \in Thread : pc'[u] \in Running <=> pc[u] \in Running
  BY DEF IInv, TypeOK, Running
<1>4. \A u \in Thread : seen'[u] >= seen[u] /\ seen'[u] <= Len(stores)
  BY DEF IInv, TypeOK, Load
<1>5. KeyInv'
  BY <1>1, <1>3, <1>4 DEF IInv, KeyInv, TypeOK
<1>6. LastInv'
  BY <1>1, <1>3, <1>4 DEF IInv, LastInv, TypeOK
<1>7. RefusalInv' /\ PoisonInv'
  BY DEF IInv, RefusalInv, PoisonInv, ContentionIsNotRefused, NestedCallsAreRefused, TypeOK
<1> QED BY <1>1, <1>2, <1>5, <1>6, <1>7 DEF IInv

\* A store by the thread that holds the mutex.
LEMMA StoreIInv ==
  ASSUME IInv, NEW t \in Thread, mutex = t, NEW v, Store(t, v),
         NEW label \in Holding, pc' = [pc EXCEPT ![t] = label],
         \/ v = t /\ label = "inside"
         \/ v = Unowned /\ label \in {"unlocking", "poisoning"},
         UNCHANGED <<mutex, poisoned>>
  PROVE  IInv'
<1>1. /\ stores' = Append(stores, v)
      /\ Len(stores') = Len(stores) + 1
      /\ \A i \in 1 .. Len(stores) : stores'[i] = stores[i]
      /\ stores'[Len(stores) + 1] = v
      /\ v \in Thread \cup {Unowned}
  BY DEF Store, IInv, TypeOK
<1>2. TypeOK'
  BY <1>1 DEF IInv, TypeOK, Store
<1>3. MutexInv'
  BY DEF IInv, MutexInv, TypeOK
<1>4. \A u \in Thread \ {t} : pc[u] \notin Running /\ pc'[u] = pc[u] /\ seen'[u] = seen[u]
  BY DEF IInv, MutexInv, TypeOK, Running, Holding, Store
<1>5. seen'[t] = Len(stores) + 1
  BY DEF Store, IInv, TypeOK
<1>6. KeyInv'
  BY <1>1, <1>4, <1>5, UnownedAssumption DEF IInv, KeyInv, TypeOK, Running
<1>7. LastInv'
  BY <1>1, <1>4, <1>5, UnownedAssumption DEF IInv, LastInv, TypeOK, Running
<1>8. RefusalInv' /\ PoisonInv'
  BY DEF IInv, RefusalInv, PoisonInv, ContentionIsNotRefused, NestedCallsAreRefused, TypeOK
<1> QED BY <1>2, <1>3, <1>6, <1>7, <1>8 DEF IInv

\* A step that neither loads nor stores.
LEMMA OtherIInv ==
  ASSUME IInv, NEW t \in Thread, NEW label, pc' = [pc EXCEPT ![t] = label],
         label \in (Holding \cup Elsewhere) \ {"refused", "nestWaiting"},
         label \in Running <=> pc[t] \in Running,
         UNCHANGED <<stores, seen>>, poisoned' \in BOOLEAN,
         poisoned' => mutex' = Unowned,
         \/ mutex = t /\ mutex' = t /\ label \in Holding
         \/ mutex = t /\ mutex' = Unowned /\ label \in Elsewhere
         \/ mutex = Unowned /\ mutex' = t /\ label \in Holding
         \/ mutex # t /\ mutex' = mutex /\ label \in Elsewhere
  PROVE  IInv'
<1>1. TypeOK'
  BY DEF IInv, TypeOK
<1>2. MutexInv'
  BY UnownedAssumption DEF IInv, MutexInv, TypeOK, Holding, Elsewhere
<1>3. \A u \in Thread : pc'[u] \in Running <=> pc[u] \in Running
  BY DEF IInv, TypeOK
<1>4. KeyInv' /\ LastInv'
  BY <1>3 DEF IInv, KeyInv, LastInv
<1>5. RefusalInv' /\ PoisonInv'
  BY DEF IInv, RefusalInv, PoisonInv, ContentionIsNotRefused, NestedCallsAreRefused, TypeOK
<1> QED BY <1>1, <1>2, <1>4, <1>5 DEF IInv

LEMMA StepIInv == IInv /\ [Next]_vars => IInv'
<1> SUFFICES ASSUME IInv, [Next]_vars PROVE IInv'
  OBVIOUS
<1> USE DEF Goto
<1>0. \A t \in Thread : /\ pc[t] \in Holding <=> mutex = t
                        /\ mutex # Unowned => mutex \in Thread
                        /\ poisoned => mutex = Unowned
                        /\ t # Unowned
  BY UnownedAssumption DEF IInv, MutexInv, TypeOK, PoisonInv
<1>1. CASE UNCHANGED vars
  BY <1>1 DEF vars, IInv, TypeOK, MutexInv, KeyInv, LastInv, RefusalInv,
     PoisonInv, ContentionIsNotRefused, NestedCallsAreRefused
<1>2. ASSUME NEW t \in Thread, Call(t) PROVE IInv'
  <2>1. PICK i \in 1 .. Len(stores) :
          /\ Load(t, i)
          /\ pc' = [pc EXCEPT ![t] = IF stores[i] = t THEN "refused" ELSE "waiting"]
    BY <1>2 DEF Call
  <2>2. stores[i] # t
    BY <1>2, <2>1 DEF Call, Load, IInv, KeyInv, TypeOK, Running
  <2> QED BY <1>2, <2>1, <2>2, LoadIInv DEF Call
<1>3. ASSUME NEW t \in Thread, Nest(t) PROVE IInv'
  <2>1. PICK i \in 1 .. Len(stores) :
          /\ Load(t, i)
          /\ pc' = [pc EXCEPT ![t] = IF stores[i] = t THEN "nestRefused" ELSE "nestWaiting"]
    BY <1>3 DEF Nest
  <2>2. stores[i] = t
    BY <1>3, <2>1 DEF Nest, Load, IInv, LastInv, TypeOK, Running
  <2>3. pc' = [pc EXCEPT ![t] = "nestRefused"]
    BY <2>1, <2>2
  <2>4. pc[t] = "inside" /\ UNCHANGED <<mutex, poisoned, stores>>
    BY <1>3 DEF Nest
  <2>5. "nestRefused" \notin {"refused", "nestWaiting"}
    OBVIOUS
  <2>6. Load(t, i) /\ i \in 1 .. Len(stores) /\ t \in Thread
    BY <2>1
  <2> HIDE DEF Goto
  <2> QED BY <2>3, <2>4, <2>5, <2>6, LoadIInv
<1>4. ASSUME NEW t \in Thread, Lock(t) PROVE IInv'
  <2>1. poisoned \in BOOLEAN
    BY DEF IInv, TypeOK
  <2>2. CASE poisoned
    <3>1. /\ pc' = [pc EXCEPT ![t] = "failed"]
          /\ mutex # t /\ mutex' = mutex /\ mutex = Unowned
          /\ UNCHANGED <<stores, seen>> /\ poisoned' \in BOOLEAN
      BY <1>0, <1>4, <2>1, <2>2 DEF Lock
    <3>2. /\ "failed" \in Elsewhere
          /\ "failed" \notin Running /\ pc[t] \notin Running
      BY <1>4 DEF Lock, Elsewhere, Running
    <3> QED
      BY <3>1, <3>2, OtherIInv
  <2>3. CASE ~poisoned
    <3>1. pc' = [pc EXCEPT ![t] = "locked"] /\ mutex' = t
      BY <1>4, <2>3 DEF Lock
    <3> QED
      BY <1>0, <1>4, <2>1, <2>3, <3>1, OtherIInv DEF Lock, Holding, Elsewhere, Running
  <2> QED BY <2>2, <2>3
<1>5. ASSUME NEW t \in Thread, SetOwner(t) PROVE IInv'
  BY <1>0, <1>5, StoreIInv DEF SetOwner, Holding
<1>6. ASSUME NEW t \in Thread, NestFails(t) PROVE IInv'
  <2>1. poisoned \in BOOLEAN /\ DebugBuild \in BOOLEAN
    BY ConfigAssumption DEF IInv, TypeOK
  <2> QED
    BY <1>0, <1>6, <2>1, OtherIInv DEF NestFails, Holding, Elsewhere, Running
<1>7. ASSUME NEW t \in Thread, Return(t) \/ Panic(t) PROVE IInv'
  <2>1. poisoned \in BOOLEAN
    BY DEF IInv, TypeOK
  <2> QED
    BY <1>0, <1>7, <2>1, OtherIInv DEF Return, Panic, Holding, Elsewhere, Running
<1>8. ASSUME NEW t \in Thread, ClearOwner(t) PROVE IInv'
  BY <1>0, <1>8, StoreIInv DEF ClearOwner, Holding
<1>9. ASSUME NEW t \in Thread, Unlock(t) PROVE IInv'
  <2>1. (poisoned \/ pc[t] = "poisoning") \in BOOLEAN
    OBVIOUS
  <2> QED
    BY <1>0, <1>9, <2>1, OtherIInv DEF Unlock, Holding, Elsewhere, Running
<1>10. ASSUME NEW t \in Thread, Refuse(t) PROVE IInv'
  <2>1. poisoned \in BOOLEAN
    BY DEF IInv, TypeOK
  <2> QED
    BY <1>0, <1>10, <2>1, OtherIInv DEF Refuse, Holding, Elsewhere, Running
<1> QED
  BY <1>1, <1>2, <1>3, <1>4, <1>5, <1>6, <1>7, <1>8, <1>9, <1>10
     DEF Next, Proceed

LEMMA IInvAlways == Spec => []IInv
<1>1. IInv /\ [Next]_vars => IInv'
  BY StepIInv
<1> QED BY <1>1, InitIInv, PTL DEF Spec

\* Every state of every instance is well typed, and the newest store of `owner`
\* names exactly the thread that runs its closure with the mutex in its hands.
THEOREM OwnerAlwaysSound == Spec => []OwnerIsSound
<1>1. IInv => OwnerIsSound
  <2> SUFFICES ASSUME IInv, NEW t \in Thread
               PROVE  /\ pc[t] \in Holding <=> mutex = t
                      /\ pc[t] \in Running <=> stores[Len(stores)] = t
    BY DEF IInv, OwnerIsSound, OwnerIsTheThreadInside
  <2>1. pc[t] \in Holding <=> mutex = t
    BY DEF IInv, MutexInv
  <2>2. Len(stores) \in 1 .. Len(stores) /\ Len(stores) >= seen[t]
    BY DEF IInv, TypeOK
  <2>3. stores[Len(stores)] = t => pc[t] \in Running
    BY <2>2 DEF IInv, KeyInv
  <2>4. pc[t] \in Running => stores[Len(stores)] = t
    BY DEF IInv, LastInv
  <2> QED BY <2>1, <2>3, <2>4
<1> QED BY <1>1, IInvAlways, PTL

\* with_fs never mistakes contention for re-entry, though `owner` is Relaxed.
THEOREM ContentionNeverRefused == Spec => []ContentionIsNotRefused
BY IInvAlways, PTL DEF IInv, RefusalInv

\* with_fs never waits for the mutex its own thread holds.
THEOREM NestedCallsAlwaysRefused == Spec => []NestedCallsAreRefused
BY IInvAlways, PTL DEF IInv, RefusalInv

\* with_fs implements the gate: closures exclude each other, and none starts
\* after one has panicked.
THEOREM MutexImplementsGate == Spec => ImplementsGate
<1>1. Init => Gate!Init
  BY DEF Init, Gate!Init, Holder
<1>2. IInv /\ IInv' /\ [Next]_vars => [Gate!Next]_(Gate!gateVars)
  <2> SUFFICES ASSUME IInv, IInv', [Next]_vars
               PROVE  [Gate!Next]_(Gate!gateVars)
    OBVIOUS
  <2> USE UnownedAssumption DEF Goto
  <2>0. /\ pc \in [Thread -> Holding \cup Elsewhere]
        /\ \A t \in Thread : pc[t] \in Holding <=> mutex = t
        /\ mutex # Unowned => mutex \in Thread /\ ~poisoned
    BY DEF IInv, MutexInv, TypeOK, PoisonInv
  <2>1. CASE UNCHANGED vars
    BY <2>1 DEF vars, Gate!gateVars, Holder
  <2>2. ASSUME NEW t \in Thread, SetOwner(t) PROVE Gate!Enter(t)
    BY <2>0, <2>2 DEF SetOwner, Holding, Gate!Enter, Holder
  <2>3. ASSUME NEW t \in Thread, Unlock(t) PROVE Gate!Leave(t) \/ Gate!Break(t)
    <3>1. Holder = t /\ Holder' = Unowned /\ ~poisoned
      BY <2>0, <2>3 DEF Unlock, Holding, Holder
    <3>2. CASE pc[t] = "poisoning"
      <4>1. poisoned' = TRUE
        BY <2>3, <3>2 DEF Unlock
      <4> QED BY <3>1, <4>1 DEF Gate!Break
    <3>3. CASE pc[t] # "poisoning"
      <4>1. poisoned' = poisoned
        BY <2>3, <3>1, <3>3 DEF Unlock, IInv, TypeOK
      <4> QED BY <3>1, <4>1 DEF Gate!Leave
    <3> QED BY <3>2, <3>3
  <2>4. ASSUME NEW t \in Thread, Lock(t) PROVE UNCHANGED Gate!gateVars
    BY <2>0, <2>4 DEF Lock, Holding, Gate!gateVars, Holder
  <2>5. ASSUME NEW t \in Thread,
               Call(t) \/ Nest(t) \/ NestFails(t) \/ Return(t) \/ Panic(t)
                 \/ ClearOwner(t) \/ Refuse(t)
        PROVE  UNCHANGED Gate!gateVars
    <3>1. /\ UNCHANGED <<mutex, poisoned>>
          /\ pc[t] # "locked"
          /\ \E label : pc' = [pc EXCEPT ![t] = label] /\ label # "locked"
      BY <2>5 DEF Call, Nest, NestFails, Return, Panic, ClearOwner, Refuse
    <3>2. \A u \in Thread : pc'[u] = "locked" <=> pc[u] = "locked"
      BY <2>0, <3>1
    <3> QED BY <2>0, <3>1, <3>2 DEF Gate!gateVars, Holder
  <2> QED
    BY <2>1, <2>2, <2>3, <2>4, <2>5 DEF Next, Proceed, Gate!Next
<1> QED BY <1>1, <1>2, IInvAlways, PTL DEF ImplementsGate, Gate!Spec, Spec
==============================================================================
