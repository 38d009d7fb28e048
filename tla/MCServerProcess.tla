-------------------------- MODULE MCServerProcess --------------------------
(***************************************************************************)
(* Model-checking instance of ServerProcess.                               *)
(***************************************************************************)
EXTENDS ServerProcess

Plain    == [form |-> "dotted", zeros |-> FALSE]
Zeros    == [form |-> "dotted", zeros |-> TRUE]
Zone     == [form |-> "other"]
Excess   == [form |-> "groups", before |-> 5, gap |-> TRUE, after |-> 3]
Full     == [form |-> "groups", before |-> 8, gap |-> FALSE, after |-> 0]

MCListens     == {Plain, Full}
MCCustoms     == {Zeros, Zone, Excess}
MCResolvFiles == {<<Plain, Zone>>, <<Zone, Plain>>}
=============================================================================
