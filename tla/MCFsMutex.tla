------------------------------ MODULE MCFsMutex ------------------------------
(* Instances of FsMutex for TLC. *)
EXTENDS FsMutex
CONSTANTS t1, t2, t3
==============================================================================
