------------------------------ MODULE UdpRelay ------------------------------
(***************************************************************************)
(* A UDP association: Session in State::Associated with its UDPSocket, on  *)
(* which the client's datagrams arrive, and its remote socket, from which  *)
(* they leave and on which the answers arrive.                             *)
(*                                                                         *)
(* The network is the set of all datagrams ever sent: the server may       *)
(* receive each of them any number of times, in any order, or never.  A    *)
(* datagram is its sender, its size, its payload and what its header says. *)
(***************************************************************************)
EXTENDS Integers

CONSTANTS
    ClientHost,     \* IP address of the TCP client
    IPv4Hosts,      \* the hosts with an IPv4 address; the others have IPv6
    Requests,       \* what may be sent to the UDP socket
    Answers,        \* what may be sent to the remote socket
    LittleEndian    \* byte order of the machine

MaxPort == 65535
Ports == 0 .. MaxPort

\* The family of the socket both ends of an association are opened with: the
\* server listens on IPv4 only.
SocketHosts == IPv4Hosts

ASSUME UdpAssumption ==
    /\ ClientHost \in IPv4Hosts
    /\ LittleEndian \in BOOLEAN
    /\ \A r \in Requests :
          /\ r.from.port \in Ports
          /\ r.to.port \in Ports
          /\ r.size \in Nat
          /\ r.type \in {"IPv4", "IPv6", "DomainName", "other"}
    /\ \A a \in Answers : a.from.port \in Ports /\ a.size \in Nat

\* Ports that requests go to and answers come from
WirePorts == {r.to.port : r \in Requests} \cup {a.from.port : a \in Answers}

VARIABLES
    life,       \* "live", "closed", "dropped" (by an answer), "terminated"
    ports,      \* _port_maps; its keys and values are the two bytes of a port
                \* as the machine reads them
    requests,   \* subset of Requests sent so far
    answers,    \* subset of Answers sent so far
    out,        \* [to, of] given to sendto() on the remote socket
    delivered   \* [to, host, port, of] given to sendto() on the UDP socket

vars == <<life, ports, requests, answers, out, delivered>>

TypeOK ==
    /\ life \in {"live", "closed", "dropped", "terminated"}
    /\ DOMAIN ports \subseteq Ports
    /\ \A k \in DOMAIN ports : ports[k] \in Ports
    /\ requests \subseteq Requests
    /\ answers \subseteq Answers

Init ==
    /\ life = "live"
    /\ ports = [k \in {} |-> 0]
    /\ requests = {}
    /\ answers = {}
    /\ out = {}
    /\ delivered = {}

Swap(n) == (n % 256) * 256 + n \div 256

\* The value of sin_port for port n, and the port for a value of sin_port
Raw(n) == IF LittleEndian THEN Swap(n) ELSE n
htons(n) == IF LittleEndian THEN Swap(n) ELSE n

-----------------------------------------------------------------------------
Send ==
    /\ life = "live"
    /\ UNCHANGED <<life, ports, out, delivered>>
    /\ \/ \E r \in Requests : requests' = requests \cup {r} /\ UNCHANGED answers
       \/ \E a \in Answers : answers' = answers \cup {a} /\ UNCHANGED requests

\* The client closes its TCP connection, or recvfrom() fails.
AssociationEnds ==
    /\ life = "live"
    /\ life' = "closed"
    /\ UNCHANGED <<ports, requests, answers, out, delivered>>

(***************************************************************************)
(* process_udp_event()                                                     *)
(***************************************************************************)
\* Mutated form: the source is not compared.
FromAnyone(r) == TRUE

FromClient(r) == r.from.host = ClientHost

HeaderSize(r) == IF r.type = "IPv4" THEN 10 ELSE 22

\* _port_maps[key] = value
Map(key, value) ==
    ports' = [k \in DOMAIN ports \cup {key} |->
                 IF k = key THEN value ELSE ports[k]]

\* Mutated form: the key lacks htons().
MapHostOrder(r) == Map(r.to.port, Raw(r.from.port))

MapPort(r) == Map(htons(r.to.port), Raw(r.from.port))

\* recv_from() returns the datagram as it came, with its sender as the address.
Bounce(r) ==
    /\ r.size \in 1 .. 10
    /\ out' = out \cup {[to |-> r.from, of |-> r]}
    /\ UNCHANGED <<life, ports, delivered>>

\* recv_from() returns 0.
Ignore(r) ==
    /\ \/ r.size = 0
       \/ r.size > 10 /\ ~FromClient(r)
       \/ r.size > 10 /\ r.type \notin {"IPv4", "IPv6"}
    /\ UNCHANGED <<life, ports, out, delivered>>

Parsed(r) ==
    /\ r.size > 10
    /\ FromClient(r)
    /\ r.type \in {"IPv4", "IPv6"}

\* memcpy() of a negative size, when the datagram ends inside its header
Truncated(r) ==
    /\ r.size < HeaderSize(r)
    /\ life' = "terminated"
    /\ UNCHANGED <<ports, out, delivered>>

\* A header without payload is dropped, after its port was mapped.  sendto()
\* may fail, also for an address of the wrong family: that is not looked at.
Forward(r) ==
    /\ r.size >= HeaderSize(r)
    /\ MapPort(r)
    /\ out' = IF r.size = HeaderSize(r) THEN out
              ELSE out \cup {[to |-> r.to, of |-> r]}
    /\ UNCHANGED <<life, delivered>>

ProcessUdp(r) ==
    /\ life = "live"
    /\ Bounce(r) \/ Ignore(r) \/ (Parsed(r) /\ (Truncated(r) \/ Forward(r)))
    /\ UNCHANGED <<requests, answers>>

(***************************************************************************)
(* process_remote_event()                                                  *)
(***************************************************************************)
Mapped(a) == Raw(a.from.port) \in DOMAIN ports

Drop == life' = "dropped" /\ UNCHANGED <<ports, out, delivered>>

\* Mutated form: set_port() without netport swaps the bytes once more.
NamedPortSwapped(a) == htons(a.from.port)

\* The port the header names: set_port() copies the two bytes.
NamedPort(a) == a.from.port

\* status 0 of recv_from() counts as a closed connection; and send_to()
\* returns 0 for a port the client never asked for.
Refuse(a) == (a.size = 0 \/ ~Mapped(a)) /\ Drop

Deliver(a) ==
    /\ a.size > 0
    /\ Mapped(a)
    /\ delivered' = delivered \cup
          {[to   |-> htons(ports[Raw(a.from.port)]),
            host |-> a.from.host,
            port |-> NamedPort(a),
            of   |-> a]}
    /\ UNCHANGED <<life, ports, out>>

ProcessRemote(a) ==
    /\ life = "live"
    /\ Refuse(a) \/ Deliver(a)
    /\ UNCHANGED <<requests, answers>>

Next ==
    \/ Send
    \/ AssociationEnds
    \/ \E r \in requests : ProcessUdp(r)
    \/ \E a \in answers : ProcessRemote(a)

Spec == Init /\ [][Next]_vars

-----------------------------------------------------------------------------
\* What is delivered to a port of the client's host comes from a port which
\* that client port asked for, whatever the byte order (send_to()).
Solicited ==
    \A d \in delivered :
        \E r \in requests : /\ r.from.host = ClientHost
                            /\ r.from.port = d.to
                            /\ r.to.port = d.port

\* Only a datagram of the client's host that ends inside its IPv6 header can
\* take the server down.
CrashOnlyOnTruncated ==
    life = "terminated" =>
        \E r \in requests : /\ r.from.host = ClientHost
                            /\ r.type = "IPv6"
                            /\ r.size \in 11 .. 21

\* What left for a destination a header named.  Datagrams of at most 10 octets
\* have none and were sent back.
Relayed == {o \in out : o.of.size > 10}

\* An association whose client stays is ended by an empty answer, or by one from
\* a port to which nothing was ever relayed: the map forgets no port it has
\* sent to, whoever asked last, and finds it for a port as answers name it.
DroppedForReason ==
    life = "dropped" =>
        \E a \in answers :
            \/ a.size = 0
            \/ \A o \in Relayed : o.of.to.port # a.from.port

\* The association is the one promised; keys and values of the port map are
\* turned back into ports.
A == INSTANCE Association WITH
        open  <- life = "live",
        Ports <- WirePorts,
        None  <- -1,
        last  <- [q \in WirePorts |-> IF Raw(q) \in DOMAIN ports
                                   THEN htons(ports[Raw(q)]) ELSE -1]

ImplementsAssociation == A!Spec

\* "drop packet for invalid source ip": what leaves was sent by the client.
InvalidSourceDropped == \A o \in out : o.of.from.host = ClientHost

\* "Full support for both IPv4 and IPv6 addresses": a destination is given to
\* a socket of its family.
FamilyMatches == \A o \in out : o.to.host \in SocketHosts
=============================================================================
