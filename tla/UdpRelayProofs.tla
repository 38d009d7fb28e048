--------------------------- MODULE UdpRelayProofs ---------------------------
(***************************************************************************)
(* UdpRelay for any hosts, ports, datagrams and either byte order.         *)
(***************************************************************************)
EXTENDS UdpRelay, TLAPS

-----------------------------------------------------------------------------
(* Byte order *)

\* Swapping the bytes of a 16-bit number twice gives it back.
LEMMA SwapTwice ==
    ASSUME NEW n \in Ports
    PROVE  Swap(n) \in Ports /\ Swap(Swap(n)) = n
<1> DEFINE q == n \div 256
           d == n % 256
<1>1. q \in 0 .. 255 /\ d \in 0 .. 255 /\ n = q * 256 + d
  <2>1. MaxPort \in Nat /\ MaxPort < 256 * 256
    BY DEF MaxPort
  <2>2. n \in Nat /\ n <= MaxPort
    BY <2>1 DEF Ports
  <2>3. n = q * 256 + d
    BY <2>2
  <2>4. d \in 0 .. 255
    BY <2>2
  <2>5. q \in 0 .. 255
    BY <2>1, <2>2
  <2> QED  BY <2>3, <2>4, <2>5
<1>2. Swap(n) = d * 256 + q
  BY DEF Swap
<1> HIDE DEF q, d
<1>3. Swap(n) \in Ports
  <2>1. d * 256 + q \in Nat /\ d * 256 + q <= MaxPort
    BY <1>1 DEF MaxPort
  <2> QED  BY <1>2, <2>1 DEF Ports
<1>4. (d * 256 + q) % 256 = q /\ (d * 256 + q) \div 256 = d
  BY <1>1
<1>5. Swap(Swap(n)) = n
  BY <1>1, <1>2, <1>4 DEF Swap
<1> QED  BY <1>3, <1>5

LEMMA RawTwice ==
    ASSUME NEW n \in Ports
    PROVE  /\ Raw(n) \in Ports /\ htons(n) = Raw(n)
           /\ htons(Raw(n)) = n /\ Raw(Raw(n)) = n
  BY SwapTwice DEF Raw, htons

-----------------------------------------------------------------------------
(* The invariant *)

\* An entry of the port map was made by a request of the client's host.
MapFromRequests ==
    \A k \in DOMAIN ports :
        \E r \in requests : /\ r.from.host = ClientHost
                            /\ k = Raw(r.to.port)
                            /\ ports[k] = Raw(r.from.port)

\* A port something was relayed to is in the port map, as the kernel names it.
RelayedMapped ==
    \A o \in Relayed : /\ o.of.to.port \in Ports
                       /\ Raw(o.of.to.port) \in DOMAIN ports

IInv == TypeOK /\ MapFromRequests /\ RelayedMapped
        /\ Solicited /\ CrashOnlyOnTruncated /\ DroppedForReason

LEMMA InitIInv == Init => IInv
  BY DEF Init, IInv, TypeOK, MapFromRequests, RelayedMapped, Relayed, Solicited,
         CrashOnlyOnTruncated, DroppedForReason

LEMMA SendIInv ==
    ASSUME IInv, Send
    PROVE  IInv'
<1> USE DEF IInv
<1>1. requests \subseteq requests' /\ answers \subseteq answers'
      /\ UNCHANGED <<ports, delivered>> /\ life = "live" /\ life' = "live"
  BY DEF Send
<1>2. TypeOK'
  BY DEF TypeOK, Send
<1>3. MapFromRequests'
  BY <1>1 DEF MapFromRequests
<1>4. Solicited'
  BY <1>1 DEF Solicited
<1>5. RelayedMapped'
  BY DEF RelayedMapped, Relayed, Send
<1> QED
  BY <1>1, <1>2, <1>3, <1>4, <1>5 DEF CrashOnlyOnTruncated, DroppedForReason

LEMMA ForwardIInv ==
    ASSUME IInv, life = "live", NEW r \in requests, Parsed(r), Forward(r),
           UNCHANGED <<requests, answers>>
    PROVE  IInv'
<1> USE DEF IInv
<1>1. r \in Requests /\ r.from.port \in Ports /\ r.to.port \in Ports
  BY UdpAssumption DEF TypeOK
<1> DEFINE key == Raw(r.to.port)
           value == Raw(r.from.port)
<1>2. key \in Ports /\ value \in Ports
  BY <1>1, RawTwice
<1>3. ports' = [k \in DOMAIN ports \cup {key} |-> IF k = key THEN value ELSE ports[k]]
  BY <1>1, RawTwice DEF Forward, MapPort, Map
<1> HIDE DEF key, value
<1>4. TypeOK'
  BY <1>2, <1>3 DEF TypeOK, Forward
<1>5. MapFromRequests'
  <2> SUFFICES ASSUME NEW k \in DOMAIN ports \cup {key}
               PROVE  \E x \in requests : /\ x.from.host = ClientHost
                                          /\ k = Raw(x.to.port)
                                          /\ ports'[k] = Raw(x.from.port)
    BY <1>3 DEF MapFromRequests
  <2>1. CASE k = key
    BY <2>1, <1>3 DEF Parsed, FromClient, key, value
  <2>2. CASE k # key
    BY <2>2, <1>3 DEF MapFromRequests
  <2> QED  BY <2>1, <2>2
<1>6. Solicited' /\ CrashOnlyOnTruncated' /\ DroppedForReason'
  BY DEF Forward, Solicited, CrashOnlyOnTruncated, DroppedForReason
<1>7. RelayedMapped'
  <2> SUFFICES ASSUME NEW o \in Relayed'
               PROVE  /\ o.of.to.port \in Ports
                      /\ Raw(o.of.to.port) \in DOMAIN ports'
    BY DEF RelayedMapped
  <2>1. o \in out' /\ o.of.size > 10
    BY DEF Relayed
  <2>2. DOMAIN ports' = DOMAIN ports \cup {key}
    BY <1>3
  <2>3. CASE o \in out
    BY <2>1, <2>2, <2>3 DEF RelayedMapped, Relayed
  <2>4. CASE o = [to |-> r.to, of |-> r]
    BY <2>2, <2>4, <1>1 DEF key
  <2> QED  BY <2>1, <2>3, <2>4 DEF Forward
<1> QED  BY <1>4, <1>5, <1>6, <1>7

LEMMA ProcessUdpIInv ==
    ASSUME IInv, NEW r \in requests, ProcessUdp(r)
    PROVE  IInv'
<1> USE DEF IInv
<1>1. CASE Bounce(r) \/ Ignore(r)
  <2>1. TypeOK' /\ MapFromRequests' /\ Solicited' /\ CrashOnlyOnTruncated'
    BY <1>1 DEF Bounce, Ignore, ProcessUdp, TypeOK, MapFromRequests, Solicited,
                CrashOnlyOnTruncated
  <2>2. DroppedForReason'
    BY <1>1 DEF Bounce, Ignore, ProcessUdp, DroppedForReason
  <2>3. CASE Bounce(r)
    <3>1. Relayed' = Relayed
      BY <2>3 DEF Bounce, Relayed
    <3> QED  BY <2>1, <2>2, <2>3, <3>1 DEF RelayedMapped, Bounce
  <2>4. CASE Ignore(r)
    BY <2>1, <2>2, <2>4 DEF RelayedMapped, Relayed, Ignore
  <2> QED  BY <1>1, <2>3, <2>4
<1>2. CASE Parsed(r) /\ Truncated(r)
  <2>1. r \in Requests /\ r.size \in Nat
    BY UdpAssumption DEF TypeOK
  <2>2. r.from.host = ClientHost /\ r.type = "IPv6" /\ r.size \in 11 .. 21
    BY <1>2, <2>1 DEF Parsed, Truncated, HeaderSize, FromClient
  <2>3. CrashOnlyOnTruncated'
    BY <2>2 DEF CrashOnlyOnTruncated, ProcessUdp
  <2> QED
    BY <1>2, <2>3 DEF Truncated, ProcessUdp, TypeOK, MapFromRequests,
                RelayedMapped, Relayed, Solicited, DroppedForReason
<1>3. CASE Parsed(r) /\ Forward(r)
  BY <1>3, ForwardIInv DEF ProcessUdp
<1> QED  BY <1>1, <1>2, <1>3 DEF ProcessUdp

LEMMA ProcessRemoteIInv ==
    ASSUME IInv, NEW a \in answers, ProcessRemote(a)
    PROVE  IInv'
<1> USE DEF IInv
<1>1. a \in Answers /\ a.from.port \in Ports
  BY UdpAssumption DEF TypeOK
<1>2. CASE Refuse(a)
  <2>1. UNCHANGED <<ports, requests, answers, out, delivered>> /\ life' = "dropped"
    BY <1>2 DEF Refuse, Drop, ProcessRemote
  <2>2. a.size = 0 \/ Raw(a.from.port) \notin DOMAIN ports
    BY <1>2 DEF Refuse, Mapped
  <2>3. a.size = 0 \/ \A o \in Relayed : o.of.to.port # a.from.port
    BY <2>2 DEF RelayedMapped
  <2>4. DroppedForReason' /\ RelayedMapped'
    BY <2>1, <2>3 DEF DroppedForReason, RelayedMapped, Relayed
  <2> QED
    BY <2>1, <2>4 DEF TypeOK, MapFromRequests, Solicited, CrashOnlyOnTruncated
<1>3. CASE Deliver(a)
  <2> DEFINE k == Raw(a.from.port)
  <2>1. k \in DOMAIN ports
    BY <1>3 DEF Deliver, Mapped
  <2>2. PICK r \in requests : /\ r.from.host = ClientHost
                              /\ k = Raw(r.to.port)
                              /\ ports[k] = Raw(r.from.port)
    BY <2>1 DEF MapFromRequests
  <2>3. r.from.port \in Ports /\ r.to.port \in Ports
    BY UdpAssumption DEF TypeOK
  <2>4. htons(ports[k]) = r.from.port
    BY <2>2, <2>3, RawTwice
  <2>5. r.to.port = a.from.port
    <3>1. htons(Raw(r.to.port)) = r.to.port /\ htons(Raw(a.from.port)) = a.from.port
      BY <1>1, <2>3, RawTwice
    <3> QED  BY <3>1, <2>2
  <2>6. delivered' = delivered \cup
            {[to |-> r.from.port, host |-> a.from.host, port |-> r.to.port, of |-> a]}
    BY <1>3, <2>4, <2>5 DEF Deliver, NamedPort
  <2>7. Solicited'
    <3> SUFFICES ASSUME NEW d \in delivered'
                 PROVE  \E x \in requests : /\ x.from.host = ClientHost
                                            /\ x.from.port = d.to
                                            /\ x.to.port = d.port
      BY DEF Solicited, ProcessRemote
    <3>1. CASE d \in delivered
      BY <3>1 DEF Solicited
    <3>2. CASE d = [to |-> r.from.port, host |-> a.from.host,
                    port |-> r.to.port, of |-> a]
      BY <3>2, <2>2
    <3> QED  BY <3>1, <3>2, <2>6
  <2> QED
    BY <1>3, <2>7 DEF Deliver, ProcessRemote, TypeOK, MapFromRequests,
                RelayedMapped, Relayed, CrashOnlyOnTruncated, DroppedForReason
<1> QED  BY <1>2, <1>3 DEF ProcessRemote

LEMMA NextIInv == IInv /\ [Next]_vars => IInv'
<1> SUFFICES ASSUME IInv, [Next]_vars PROVE IInv'
  OBVIOUS
<1>1. CASE Send
  BY <1>1, SendIInv
<1>2. CASE AssociationEnds
  BY <1>2 DEF AssociationEnds, IInv, TypeOK, MapFromRequests, RelayedMapped,
              Relayed, Solicited, CrashOnlyOnTruncated, DroppedForReason
<1>3. CASE \E r \in requests : ProcessUdp(r)
  BY <1>3, ProcessUdpIInv
<1>4. CASE \E a \in answers : ProcessRemote(a)
  BY <1>4, ProcessRemoteIInv
<1>5. CASE UNCHANGED vars
  BY <1>5 DEF vars, IInv, TypeOK, MapFromRequests, RelayedMapped, Relayed,
              Solicited, CrashOnlyOnTruncated, DroppedForReason
<1> QED  BY <1>1, <1>2, <1>3, <1>4, <1>5 DEF Next

LEMMA Inductive == Spec => []IInv
  BY InitIInv, NextIInv, PTL DEF Spec

\* The port map holds 16-bit values only, through every conversion.
THEOREM TypeCorrect == Spec => []TypeOK
<1>1. IInv => TypeOK
  BY DEF IInv
<1> QED  BY <1>1, Inductive, PTL

\* A client port is answered only by ports it asked, for any port numbers and
\* on a machine of either byte order.
THEOREM DeliversSolicited == Spec => []Solicited
<1>1. IInv => Solicited
  BY DEF IInv
<1> QED  BY <1>1, Inductive, PTL

\* Only a truncated IPv6 header from the client's host ends the process.
THEOREM CrashesOnlyOnTruncated == Spec => []CrashOnlyOnTruncated
<1>1. IInv => CrashOnlyOnTruncated
  BY DEF IInv
<1> QED  BY <1>1, Inductive, PTL

\* An association is ended by an empty answer or by one from a port to which
\* nothing was relayed: every port sent to stays in the map, for any ports and
\* on a machine of either byte order.
THEOREM DropsForReason == Spec => []DroppedForReason
<1>1. IInv => DroppedForReason
  BY DEF IInv
<1> QED  BY <1>1, Inductive, PTL

-----------------------------------------------------------------------------
(* Refinement *)

\* Mapped to the abstract state: the client port that last asked for port q.
Last == [q \in WirePorts |-> IF Raw(q) \in DOMAIN ports
                             THEN htons(ports[Raw(q)]) ELSE -1]

LEMMA WirePortsSmall ==
    /\ WirePorts \subseteq Ports
    /\ \A r \in Requests : r.to.port \in WirePorts
    /\ \A a \in Answers : a.from.port \in WirePorts
  BY UdpAssumption DEF WirePorts

LEMMA InitMaps == Init => A!Init
  BY DEF Init, A!Init

\* A request that is forwarded is the abstract Relay.
LEMMA ForwardMaps ==
    ASSUME IInv, life = "live", NEW r \in requests, Parsed(r), Forward(r),
           UNCHANGED <<requests, answers>>
    PROVE  A!Relay(r)
<1>1. r \in Requests /\ r.from.port \in Ports /\ r.to.port \in WirePorts
  BY UdpAssumption, WirePortsSmall DEF IInv, TypeOK
<1>2. r.to.port \in Ports
  BY <1>1, WirePortsSmall
<1> DEFINE key == Raw(r.to.port)
           value == Raw(r.from.port)
<1>3. ports' = [k \in DOMAIN ports \cup {key} |-> IF k = key THEN value ELSE ports[k]]
  BY <1>1, <1>2, RawTwice DEF Forward, MapPort, Map
<1>4. htons(value) = r.from.port
  BY <1>1, RawTwice
<1>5. \A q \in WirePorts : Raw(q) = key <=> q = r.to.port
  <2> SUFFICES ASSUME NEW q \in WirePorts, Raw(q) = key PROVE q = r.to.port
    OBVIOUS
  <2>1. q \in Ports
    BY WirePortsSmall
  <2>2. htons(Raw(q)) = q /\ htons(key) = r.to.port
    BY <2>1, <1>2, RawTwice
  <2> QED  BY <2>2
<1> HIDE DEF key, value
<1>6. ASSUME NEW q \in WirePorts
      PROVE  (IF Raw(q) \in DOMAIN ports' THEN htons(ports'[Raw(q)]) ELSE -1)
             = IF q = r.to.port THEN r.from.port
               ELSE IF Raw(q) \in DOMAIN ports THEN htons(ports[Raw(q)]) ELSE -1
  <2>1. PICK k : k = Raw(q)
    OBVIOUS
  <2>2. k = key <=> q = r.to.port
    BY <2>1, <1>5
  <2>3. CASE k = key
    BY <2>1, <2>2, <2>3, <1>3, <1>4
  <2>4. CASE k # key
    <3>1. k \in DOMAIN ports' <=> k \in DOMAIN ports
      BY <2>4, <1>3
    <3>2. k \in DOMAIN ports => ports'[k] = ports[k]
      BY <2>4, <1>3
    <3> QED  BY <2>1, <2>2, <2>4, <3>1, <3>2
  <2> QED  BY <2>3, <2>4
<1>7. Last' = [Last EXCEPT ![r.to.port] = r.from.port]
  BY <1>6 DEF Last
<1>8. life' = "live" /\ UNCHANGED delivered
      /\ (out' = out \/ out' = out \cup {[to |-> r.to, of |-> r]})
  BY DEF Forward
<1> QED
  BY <1>7, <1>8 DEF A!Relay, Last, Parsed, FromClient

LEMMA ProcessUdpMaps ==
    ASSUME IInv, NEW r \in requests, ProcessUdp(r)
    PROVE  A!Next \/ UNCHANGED A!vars
<1>1. CASE Bounce(r)
  BY <1>1 DEF Bounce, ProcessUdp, A!Return, A!Next
<1>2. CASE Ignore(r)
  BY <1>2 DEF Ignore, ProcessUdp, A!vars
<1>3. CASE Parsed(r) /\ Truncated(r)
  BY <1>3 DEF Truncated, ProcessUdp, A!End, A!Next
<1>4. CASE Parsed(r) /\ Forward(r)
  <2>1. A!Relay(r)
    BY <1>4, ForwardMaps DEF ProcessUdp
  <2> QED  BY <2>1 DEF A!Next
<1> QED  BY <1>1, <1>2, <1>3, <1>4 DEF ProcessUdp

LEMMA ProcessRemoteMaps ==
    ASSUME IInv, NEW a \in answers, ProcessRemote(a)
    PROVE  A!Next
<1>1. CASE Refuse(a)
  BY <1>1 DEF Refuse, Drop, ProcessRemote, A!End, A!Next
<1>2. CASE Deliver(a)
  <2>1. a \in Answers /\ a.from.port \in WirePorts /\ a.from.port \in Ports
    BY WirePortsSmall DEF IInv, TypeOK
  <2> DEFINE k == Raw(a.from.port)
  <2>2. k \in DOMAIN ports
    BY <1>2 DEF Deliver, Mapped
  <2>3. Last[a.from.port] = htons(ports[k])
    BY <2>1, <2>2 DEF Last
  <2>4. htons(ports[k]) # -1
    <3>1. ports[k] \in Ports
      BY <2>2 DEF IInv, TypeOK
    <3>2. htons(ports[k]) \in Ports
      BY <3>1, RawTwice
    <3>3. \A x \in Ports : x # -1
      BY DEF Ports
    <3> QED  BY <3>2, <3>3
  <2>5. delivered' = delivered \cup
            {[to |-> Last[a.from.port], host |-> a.from.host,
              port |-> a.from.port, of |-> a]}
    BY <1>2, <2>3 DEF Deliver, NamedPort
  <2>6. UNCHANGED <<life, ports, out, requests, answers>> /\ life = "live"
    BY <1>2 DEF Deliver, ProcessRemote
  <2>7. A!Deliver(a)
    BY <2>3, <2>4, <2>5, <2>6 DEF A!Deliver, Last
  <2> QED  BY <2>7 DEF A!Next
<1> QED  BY <1>1, <1>2 DEF ProcessRemote

LEMMA NextMaps == IInv /\ [Next]_vars => [A!Next]_(A!vars)
<1> SUFFICES ASSUME IInv, [Next]_vars PROVE A!Next \/ UNCHANGED A!vars
  OBVIOUS
<1>1. CASE Send
  BY <1>1 DEF Send, A!Ask, A!Answer, A!Next
<1>2. CASE AssociationEnds
  BY <1>2 DEF AssociationEnds, A!End, A!Next
<1>3. CASE \E r \in requests : ProcessUdp(r)
  BY <1>3, ProcessUdpMaps
<1>4. CASE \E a \in answers : ProcessRemote(a)
  BY <1>4, ProcessRemoteMaps
<1>5. CASE UNCHANGED vars
  BY <1>5 DEF vars, A!vars
<1> QED  BY <1>1, <1>2, <1>3, <1>4, <1>5 DEF Next

\* The association relays what Association allows and nothing else: the port
\* map, with its keys and values in two byte orders, is its table of askers.
THEOREM RefinesAssociation == Spec => ImplementsAssociation
  BY InitMaps, NextMaps, Inductive, PTL DEF Spec, ImplementsAssociation, A!Spec
=============================================================================
