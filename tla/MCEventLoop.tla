---------------------------- MODULE MCEventLoop ----------------------------
(***************************************************************************)
(* Model-checking instance of EventLoop.  Addresses are interchangeable,   *)
(* but a liveness property is checked with the rest: no symmetry.          *)
(***************************************************************************)
EXTENDS EventLoop
=============================================================================
