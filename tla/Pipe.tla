-------------------------------- MODULE Pipe --------------------------------
(***************************************************************************)
(* What a TCP relay promises: two byte pipes, one per direction, that      *)
(* share one fate.  Bytes in transit towards a side are delivered in the   *)
(* order they were written, and only they are, until the pipes break: then *)
(* what is in transit may be anything, but what a side has received stays  *)
(* as it is and a closed pipe stays closed.                                *)
(***************************************************************************)
EXTENDS Naturals, Sequences

CONSTANTS Sides, Bytes

VARIABLES
    transit,  \* transit[x]: bytes on their way to side x
    got,      \* got[x]: bytes side x has received
    open,     \* the relay accepts bytes
    broken    \* the order of the bytes in transit is no longer kept

Init ==
    /\ transit = [x \in Sides |-> <<>>]
    /\ got = [x \in Sides |-> <<>>]
    /\ open = TRUE
    /\ broken = FALSE

\* A byte enters the pipe towards x.
Write(x, b) ==
    /\ open
    /\ transit' = [transit EXCEPT ![x] = Append(@, b)]
    /\ UNCHANGED <<got, open, broken>>

\* Side x receives the next n bytes.
Deliver(x, n) ==
    /\ got' = [got EXCEPT ![x] = @ \o SubSeq(transit[x], 1, n)]
    /\ transit' = [transit EXCEPT ![x] = SubSeq(@, n + 1, Len(@))]
    /\ UNCHANGED <<open, broken>>

\* What the relay has not handed over yet is lost with it.
Close ==
    /\ open
    /\ open' = FALSE
    /\ transit' = [x \in Sides |-> transit'[x]]
    /\ \A x \in Sides : \E kept \in 0..Len(transit[x]) :
          transit'[x] = SubSeq(transit[x], 1, kept)
    /\ UNCHANGED <<got, broken>>

\* The pipes break: nothing is lost yet.
Break ==
    /\ open
    /\ broken' = TRUE
    /\ UNCHANGED <<transit, got, open>>

\* A step of broken pipes
Ruin ==
    /\ broken
    /\ broken' = TRUE
    /\ open' => open
    /\ \A x \in Sides : got[x] = SubSeq(got'[x], 1, Len(got[x]))

Next ==
    \/ \E x \in Sides, b \in Bytes : Write(x, b)
    \/ \E x \in Sides : \E n \in 1..Len(transit[x]) : Deliver(x, n)
    \/ Close
    \/ Break
    \/ Ruin

Spec == Init /\ [][Next]_<<transit, got, open, broken>>
=============================================================================
