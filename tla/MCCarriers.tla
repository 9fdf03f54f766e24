------------------------------ MODULE MCCarriers ------------------------------
(* Instances of Carriers for TLC. *)
EXTENDS Carriers
CONSTANTS c1, c2
==============================================================================
