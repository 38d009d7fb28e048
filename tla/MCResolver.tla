----------------------------- MODULE MCResolver -----------------------------
(***************************************************************************)
(* Model-checking instance of Resolver: each name has a host of its own.   *)
(***************************************************************************)
EXTENDS Resolver

MCHosts     == {"h1", "h2", "h3"}
MCAddressOf ==
    [n \in Names |-> CASE n = "a" -> "h1" [] n = "b" -> "h2" [] OTHER -> "h3"]
=============================================================================
