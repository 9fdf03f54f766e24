---------------------------- MODULE MCCarrierProxy ----------------------------
(* Instances of CarrierProxy for TLC. *)
EXTENDS CarrierProxy
CONSTANTS c1, c2, r1, r2

\* The second request is for a carrier that is not there.
MCWants == [r \in Client |-> IF r = r1 THEN c1 ELSE c2]
==============================================================================
