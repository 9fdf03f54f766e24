-------------------------------- MODULE FsGate --------------------------------
(***************************************************************************)
(* What `FileSystemMutex` promises the rest of the program: closures run   *)
(* with the file system to themselves, and none runs after one of them has *)
(* panicked half-way.                                                      *)
(***************************************************************************)
CONSTANTS Thread, Nobody

VARIABLES holder, broken

gateVars == <<holder, broken>>

Init == holder = Nobody /\ broken = FALSE

Enter(t) ==
  /\ holder = Nobody
  /\ ~broken
  /\ holder' = t
  /\ UNCHANGED broken

Leave(t) ==
  /\ holder = t
  /\ holder' = Nobody
  /\ UNCHANGED broken

\* A closure panics: the gate never opens again.
Break(t) ==
  /\ holder = t
  /\ holder' = Nobody
  /\ broken' = TRUE

Next == \E t \in Thread : Enter(t) \/ Leave(t) \/ Break(t)

Spec == Init /\ [][Next]_gateVars
==============================================================================
