----------------------------- MODULE Association -----------------------------
(***************************************************************************)
(* What a UDP association promises.  Datagrams may be lost, duplicated or  *)
(* reordered at any point.  What is sent on was sent by the client's host, *)
(* to the address it names, or goes back to where it came from.  What is   *)
(* delivered names the address that sent it, and comes to the client's     *)
(* port that asked last for that address's port.                           *)
(***************************************************************************)
CONSTANTS Requests, Answers, ClientHost, Ports, None

VARIABLES
    open,       \* the association exists
    requests,   \* sent to the server
    answers,    \* sent back by other hosts
    last,       \* last[q]: client port that asked last for a port q
    out,        \* [to, of]: sent on to address to, made of request of
    delivered   \* [to, host, port, of]: to client port to, as sent by
                \* port of host

vars == <<open, requests, answers, last, out, delivered>>

Init ==
    /\ open = TRUE
    /\ requests = {}
    /\ answers = {}
    /\ last = [q \in Ports |-> None]
    /\ out = {}
    /\ delivered = {}

Ask(r) ==
    /\ requests' = requests \cup {r}
    /\ UNCHANGED <<open, answers, last, out, delivered>>

Answer(a) ==
    /\ answers' = answers \cup {a}
    /\ UNCHANGED <<open, requests, last, out, delivered>>

Relay(r) ==
    /\ open
    /\ r.from.host = ClientHost
    /\ last' = [last EXCEPT ![r.to.port] = r.from.port]
    /\ out' \in {out, out \cup {[to |-> r.to, of |-> r]}}
    /\ UNCHANGED <<open, requests, answers, delivered>>

Return(r) ==
    /\ open
    /\ out' = out \cup {[to |-> r.from, of |-> r]}
    /\ UNCHANGED <<open, requests, answers, last, delivered>>

Deliver(a) ==
    /\ open
    /\ last[a.from.port] # None
    /\ delivered' = delivered \cup
          {[to   |-> last[a.from.port],
            host |-> a.from.host,
            port |-> a.from.port,
            of   |-> a]}
    /\ UNCHANGED <<open, requests, answers, last, out>>

End ==
    /\ open
    /\ open' = FALSE
    /\ UNCHANGED <<requests, answers, last, out, delivered>>

Next ==
    \/ \E r \in Requests : Ask(r)
    \/ \E a \in Answers : Answer(a)
    \/ \E r \in requests : Relay(r) \/ Return(r)
    \/ \E a \in answers : Deliver(a)
    \/ End

Spec == Init /\ [][Next]_vars
=============================================================================
