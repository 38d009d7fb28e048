------------------------------ MODULE Resolver ------------------------------
(***************************************************************************)
(* The name lookups of a server: each session that is given a domain name  *)
(* opens a DnsSocket, which asks the DNS server and takes the first        *)
(* datagram that comes to its port for the answer.  The identifier of      *)
(* every query is 0, and neither the identifier, the question nor the      *)
(* source of what comes is looked at, so none of them is modelled.         *)
(*                                                                         *)
(* The network loses, duplicates, delays and reorders: a datagram under    *)
(* way stays so until it is lost.  A datagram in the buffer of a socket is *)
(* one that has not been read, and may no longer be if the socket closes.  *)
(***************************************************************************)
EXTENDS Integers, FiniteSets

CONSTANTS
    Sessions,
    Names,          \* domain names that clients ask for
    BadNames,       \* those that dnslib refuses to encode
    Hosts,          \* addresses
    NoHost,
    AddressOf,      \* the address a name has
    Ports,          \* ports the kernel chooses from for a DNS socket
    Lossy,          \* the network may lose
    MaxLookups      \* bound: queries of the server

ASSUME ResolverAssumption ==
    /\ BadNames \subseteq Names
    /\ AddressOf \in [Names -> Hosts]
    /\ NoHost \notin Hosts
    /\ Lossy \in BOOLEAN
    /\ MaxLookups \in Nat

VARIABLES
    alive,      \* the process
    state,      \* _state of each session, or "over" where there is none
    domain,     \* its _domain_name, of those it asked for last
    sockets,    \* its _dns_sockets: their ports
    watched,    \* those of them that are registered for Read
    remote,     \* the host it connects to
    inherits,   \* history: datagrams were under way to or from the port of its
                \* DNS socket when the kernel gave it that port
    commands,   \* history: how often _do_command() ran for it
    queries,    \* datagrams to the DNS server under way
    answers,    \* datagrams from the DNS server under way
    lookups     \* queries so far

vars == <<alive, state, domain, sockets, watched, remote, inherits, commands,
          queries, answers, lookups>>

States  == {"over", "Authenticated", "ResolvingDomainName", "ConnectingRemote"}
Kinds   == {"address", "none", "bad"}
Query   == [port : Ports, name : Names]
Answer  == [port : Ports, name : Names, kind : Kinds]

TypeOK ==
    /\ alive \in BOOLEAN
    /\ state \in [Sessions -> States]
    /\ domain \in [Sessions -> Names]
    /\ sockets \in [Sessions -> SUBSET Ports]
    /\ watched \in [Sessions -> SUBSET Ports]
    /\ remote \in [Sessions -> Hosts \cup {NoHost}]
    /\ inherits \in [Sessions -> BOOLEAN]
    /\ commands \in [Sessions -> Nat]
    /\ queries \subseteq Query
    /\ answers \subseteq Answer
    /\ lookups \in Nat

Init ==
    /\ alive = TRUE
    /\ state = [s \in Sessions |-> "over"]
    /\ domain \in [Sessions -> Names]
    /\ sockets = [s \in Sessions |-> {}]
    /\ watched = [s \in Sessions |-> {}]
    /\ remote = [s \in Sessions |-> NoHost]
    /\ inherits = [s \in Sessions |-> FALSE]
    /\ commands = [s \in Sessions |-> 0]
    /\ queries = {}
    /\ answers = {}
    /\ lookups = 0

Goto(s, there) == state' = [state EXCEPT ![s] = there]

\* Session::shutdown(): every socket is unregistered and closed.
Shutdown(s) ==
    /\ Goto(s, "over")
    /\ sockets' = [sockets EXCEPT ![s] = {}]
    /\ watched' = [watched EXCEPT ![s] = {}]

\* An exception that nobody catches
Terminate ==
    /\ alive' = FALSE
    /\ UNCHANGED <<state, sockets, watched, remote, inherits, commands>>

\* A client has connected and authenticated.
Accept(s) ==
    /\ alive
    /\ state[s] = "over"
    /\ Goto(s, "Authenticated")
    /\ remote' = [remote EXCEPT ![s] = NoHost]
    /\ inherits' = [inherits EXCEPT ![s] = FALSE]
    /\ commands' = [commands EXCEPT ![s] = 0]
    /\ UNCHANGED <<alive, domain, sockets, watched, queries, answers, lookups>>

\* The client leaves, or sends anything while its request is worked on.
ClientEnds(s) ==
    /\ alive
    /\ state[s] # "over"
    /\ Shutdown(s)
    /\ UNCHANGED <<alive, domain, remote, inherits, commands, queries, answers,
                   lookups>>

Taken == UNION {sockets[s] : s \in Sessions}

UnderWay(p) == (\E q \in queries : q.port = p) \/ (\E a \in answers : a.port = p)

\* The kernel may choose any port that no open socket has.
Free(p) == p \notin Taken

\* Mutated form: the query is encoded before _domain_name is assigned.
QuestionStale(s, name) == domain[s]

\* The name that the query of DnsSocket::query() asks for
Question(s, name) == name

\* Mutated form: the socket is not registered.
RegisterNot(s, p) == UNCHANGED watched

Register(s, p) == watched' = [watched EXCEPT ![s] = @ \cup {p}]

\* _resolve_domain_name(), DnsSocket::query(): a name that cannot be encoded
\* ends the process; if sendto() fails the client is answered and the session
\* ends, else the query leaves.
Resolve(s, name, p) ==
    /\ alive
    /\ state[s] = "Authenticated"
    /\ lookups < MaxLookups
    /\ Free(p)
    /\ domain' = [domain EXCEPT ![s] = name]
    /\ lookups' = lookups + 1
    /\ UNCHANGED answers
    /\ \/ /\ name \in BadNames
          /\ Terminate
          /\ UNCHANGED queries
       \/ /\ name \notin BadNames
          /\ Shutdown(s)
          /\ UNCHANGED <<alive, remote, inherits, commands, queries>>
       \/ /\ name \notin BadNames
          /\ Goto(s, "ResolvingDomainName")
          /\ sockets' = [sockets EXCEPT ![s] = @ \cup {p}]
          /\ Register(s, p)
          /\ queries' = queries \cup {[port |-> p, name |-> Question(s, name)]}
          /\ inherits' = [inherits EXCEPT ![s] = UnderWay(p)]
          /\ UNCHANGED <<alive, remote, commands>>

\* The DNS server answers, or answers once more.
Serve(q) ==
    /\ q \in queries
    /\ \E kind \in Kinds :
          answers' = answers \cup
                        {[port |-> q.port, name |-> q.name, kind |-> kind]}
    /\ queries' \in {queries, queries \ {q}}
    /\ UNCHANGED <<alive, state, domain, sockets, watched, remote, inherits,
                   commands, lookups>>

LoseQuery(q) ==
    /\ Lossy
    /\ q \in queries
    /\ queries' = queries \ {q}
    /\ UNCHANGED <<alive, state, domain, sockets, watched, remote, inherits,
                   commands, answers, lookups>>

LoseAnswer(a) ==
    /\ Lossy \/ a.port \notin Taken
    /\ a \in answers
    /\ answers' = answers \ {a}
    /\ UNCHANGED <<alive, state, domain, sockets, watched, remote, inherits,
                   commands, queries, lookups>>

\* Mutated form: the DNS socket stays registered.
UnregisterNot(s, p) == UNCHANGED watched

Unregister(s, p) == watched' = [watched EXCEPT ![s] = @ \ {p}]

\* The address in an answer
HostIn(a) == AddressOf[a.name]

\* process_dns_event(), get_response(): whatever a is.  The socket stays open
\* until the session ends.
ProcessDnsEvent(s, a) ==
    /\ alive
    /\ a \in answers
    /\ a.port \in watched[s]
    /\ answers' \in {answers, answers \ {a}}
    /\ UNCHANGED <<domain, queries, lookups>>
    /\ \/ a.kind = "bad"  /\ Terminate
       \/ /\ a.kind = "none"
          /\ Shutdown(s)
          /\ UNCHANGED <<alive, remote, inherits, commands>>
       \/ /\ a.kind = "address"
          /\ Unregister(s, a.port)
          /\ commands' = [commands EXCEPT ![s] = @ + 1]
          /\ remote' = [remote EXCEPT ![s] = HostIn(a)]
          /\ Goto(s, "ConnectingRemote")
          /\ UNCHANGED <<alive, sockets, inherits>>

Next ==
    \/ \E s \in Sessions : Accept(s) \/ ClientEnds(s)
    \/ \E s \in Sessions, name \in Names, p \in Ports : Resolve(s, name, p)
    \/ \E q \in Query : Serve(q) \/ LoseQuery(q)
    \/ \E a \in Answer : LoseAnswer(a)
    \/ \E s \in Sessions, a \in Answer : ProcessDnsEvent(s, a)

\* The DNS server answers what it gets and the loop dispatches what arrives: of
\* answers that are repeated without end, the network delivers one.
Fairness ==
    /\ \A q \in Query : WF_vars(Serve(q))
    /\ \A s \in Sessions : SF_vars(\E a \in Answer : ProcessDnsEvent(s, a))

Spec == Init /\ [][Next]_vars /\ Fairness

-----------------------------------------------------------------------------
\* A session connects to the host whose name its client asked for, whatever the
\* other sessions ask for and whatever is lost, repeated or late, as long as its
\* own DNS socket was not given a port with datagrams under way.  With such a
\* port anything may come: "ID ... can be used by the requester to match up
\* replies to outstanding queries", but DnsSocket::get_response() does not.
AnswersOwnQuestion ==
    \A s \in Sessions :
        state[s] = "ConnectingRemote" /\ ~inherits[s] =>
            remote[s] = AddressOf[domain[s]]

\* A request leads to at most one connection, also if its answer is duplicated;
\* and a session never has a second DNS socket, so that the limit of five
\* (SOCKSPP_SESSION_MAX_DNS_SOCKETS) is never met.
OncePerRequest ==
    \A s \in Sessions :
        /\ commands[s] <= 1
        /\ Cardinality(sockets[s]) <= 1
        /\ state[s] = "ConnectingRemote" => watched[s] = {}

\* The network may lose a query or its answer, and there is neither a timeout
\* nor a retry.  But nothing is lost in the server: a session goes on waiting
\* only if nothing is under way to its socket any more, which is registered
\* from before the query leaves (_resolve_domain_name()).
Resolved ==
    \A s \in Sessions :
        state[s] = "ResolvingDomainName" ~>
            \/ ~alive \/ state[s] # "ResolvingDomainName"
            \/ \A p \in sockets[s] : ~UnderWay(p)
=============================================================================
