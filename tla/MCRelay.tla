------------------------------ MODULE MCRelay ------------------------------
(* Model-checking instance of Relay. *)
EXTENDS Relay
=============================================================================
