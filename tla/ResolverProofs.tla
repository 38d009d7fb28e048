--------------------------- MODULE ResolverProofs ---------------------------
(***************************************************************************)
(* Proofs about module Resolver: a session whose port was given to it with *)
(* nothing under way looks up what was asked for, whatever the others do;  *)
(* and every session looks up once.                                        *)
(***************************************************************************)
EXTENDS Resolver, FiniteSetTheorems, TLAPS

\* What a session has in each of its states
Asking(s) ==
    /\ \E p \in Ports : sockets[s] = {p} /\ watched[s] = {p}
    /\ commands[s] = 0

Idle(s) == sockets[s] = {} /\ watched[s] = {}

Stages ==
    \A s \in Sessions :
        /\ commands[s] \in {0, 1}
        /\ state[s] = "over" => Idle(s)
        /\ state[s] = "Authenticated" => Idle(s) /\ commands[s] = 0
        /\ state[s] = "ResolvingDomainName" => Asking(s)
        /\ state[s] = "ConnectingRemote" =>
              /\ \E p \in Ports : sockets[s] = {p}
              /\ watched[s] = {}
              /\ commands[s] = 1

OwnSockets ==
    \A s, t \in Sessions : s # t => sockets[s] \cap sockets[t] = {}

\* All that is under way to or from the port of a session that inherited
\* nothing is about the session's name.
OwnDatagrams ==
    \A s \in Sessions :
        ~inherits[s] =>
            /\ \A q \in queries : q.port \in sockets[s] => q.name = domain[s]
            /\ \A a \in answers : a.port \in sockets[s] => a.name = domain[s]

IInv == TypeOK /\ Stages /\ OwnSockets /\ OwnDatagrams /\ AnswersOwnQuestion

USE ResolverAssumption

LEMMA InitIInv == Init => IInv
BY DEF Init, IInv, TypeOK, Stages, Idle, OwnSockets, OwnDatagrams,
       AnswersOwnQuestion, States

LEMMA AcceptIInv ==
    ASSUME IInv, NEW s \in Sessions, Accept(s) PROVE IInv'
<1> USE DEF Accept, Goto
<1>1. TypeOK'
    BY DEF IInv, TypeOK, States
<1>2. Stages'
    BY DEF IInv, TypeOK, Stages, Idle, Asking
<1>3. OwnSockets'
    BY DEF IInv, OwnSockets
<1>4. OwnDatagrams'
  <2>1. sockets[s] = {}
      BY DEF IInv, Stages, Idle
  <2> QED BY <2>1 DEF IInv, TypeOK, OwnDatagrams
<1>5. AnswersOwnQuestion'
    BY DEF IInv, TypeOK, AnswersOwnQuestion
<1> QED BY <1>1, <1>2, <1>3, <1>4, <1>5 DEF IInv

\* A session that ends leaves nothing behind that concerns the others.
LEMMA ShutdownIInv ==
    ASSUME IInv, NEW s \in Sessions, Shutdown(s),
           queries' = queries, answers' \subseteq answers,
           UNCHANGED <<alive, remote, inherits, commands>>,
           lookups' \in Nat,
           domain' \in [Sessions -> Names],
           \A t \in Sessions \ {s} : domain'[t] = domain[t]
    PROVE IInv'
<1> USE DEF Shutdown, Goto
<1>1. TypeOK'
    BY DEF IInv, TypeOK, States
<1>2. Stages'
    BY DEF IInv, TypeOK, Stages, Idle, Asking
<1>3. OwnSockets'
    BY DEF IInv, TypeOK, OwnSockets
<1>4. OwnDatagrams'
    BY DEF IInv, TypeOK, OwnDatagrams
<1>5. AnswersOwnQuestion'
    BY DEF IInv, TypeOK, AnswersOwnQuestion
<1> QED BY <1>1, <1>2, <1>3, <1>4, <1>5 DEF IInv

\* A query that leaves from a port of its own
LEMMA AskIInv ==
    ASSUME IInv, NEW s \in Sessions, NEW name \in Names, NEW p \in Ports,
           Resolve(s, name, p), state'[s] = "ResolvingDomainName"
    PROVE IInv'
<1>1. /\ state[s] = "Authenticated"
      /\ Free(p)
      /\ domain' = [domain EXCEPT ![s] = name]
      /\ lookups' = lookups + 1
      /\ state' = [state EXCEPT ![s] = "ResolvingDomainName"]
      /\ sockets' = [sockets EXCEPT ![s] = @ \cup {p}]
      /\ watched' = [watched EXCEPT ![s] = @ \cup {p}]
      /\ queries' = queries \cup {[port |-> p, name |-> name]}
      /\ inherits' = [inherits EXCEPT ![s] = UnderWay(p)]
      /\ UNCHANGED <<alive, remote, commands, answers>>
    BY DEF IInv, TypeOK, Resolve, Shutdown, Goto, Terminate, Register,
           Question
<1>2. sockets[s] = {} /\ watched[s] = {} /\ commands[s] = 0
    BY <1>1 DEF IInv, Stages, Idle
<1>3. \A t \in Sessions : p \notin sockets[t]
    BY <1>1 DEF Free, Taken
<1>4. TypeOK'
  <2>1. UnderWay(p) \in BOOLEAN
      BY Zenon DEF UnderWay
  <2>2. inherits' \in [Sessions -> BOOLEAN]
      BY <1>1, <2>1 DEF IInv, TypeOK
  <2>3. /\ alive' \in BOOLEAN
        /\ remote' \in [Sessions -> Hosts \cup {NoHost}]
        /\ commands' \in [Sessions -> Nat]
        /\ answers' \subseteq Answer
      BY <1>1 DEF IInv, TypeOK
  <2>4. /\ state' \in [Sessions -> States]
        /\ domain' \in [Sessions -> Names]
        /\ sockets' \in [Sessions -> SUBSET Ports]
        /\ watched' \in [Sessions -> SUBSET Ports]
      BY <1>1 DEF IInv, TypeOK, States
  <2>5. queries' \subseteq Query /\ lookups' \in Nat
      BY <1>1 DEF IInv, TypeOK, Query
  <2> QED BY <2>2, <2>3, <2>4, <2>5 DEF TypeOK
<1>5. Stages'
    BY <1>1, <1>2, <1>4 DEF IInv, TypeOK, Stages, Idle, Asking
<1>6. OwnSockets'
    BY <1>1, <1>2, <1>3 DEF IInv, TypeOK, OwnSockets
<1>7. OwnDatagrams'
  <2> SUFFICES ASSUME NEW t \in Sessions, ~inherits'[t]
               PROVE  /\ \A q \in queries' : q.port \in sockets'[t] => q.name = domain'[t]
                      /\ \A a \in answers' : a.port \in sockets'[t] => a.name = domain'[t]
      BY DEF OwnDatagrams
  <2>1. CASE t = s
    <3>1. ~UnderWay(p)
        BY <1>1, <2>1 DEF IInv, TypeOK
    <3> QED BY <1>1, <1>2, <2>1, <3>1 DEF IInv, TypeOK, UnderWay
  <2>2. CASE t # s
    <3>1. ~inherits[t]
        BY <1>1, <2>2 DEF IInv, TypeOK
    <3> QED BY <1>1, <1>3, <2>2, <3>1 DEF IInv, TypeOK, OwnDatagrams
  <2> QED BY <2>1, <2>2
<1>8. AnswersOwnQuestion'
    BY <1>1 DEF IInv, TypeOK, AnswersOwnQuestion
<1> QED BY <1>4, <1>5, <1>6, <1>7, <1>8 DEF IInv

\* A name that cannot be encoded
LEMMA RefusedIInv ==
    ASSUME IInv, NEW s \in Sessions, NEW name \in Names,
           state[s] = "Authenticated", Terminate,
           domain' = [domain EXCEPT ![s] = name], lookups' = lookups + 1,
           UNCHANGED <<queries, answers>>
    PROVE IInv'
<1> USE DEF Terminate
<1>0. sockets[s] = {}
    BY DEF IInv, Stages, Idle
<1>1. TypeOK'
  <2>1. alive' \in BOOLEAN
      OBVIOUS
  <2>2. /\ domain' \in [Sessions -> Names]
        /\ lookups' \in Nat
      BY DEF IInv, TypeOK
  <2>3. /\ state' \in [Sessions -> States]
        /\ sockets' \in [Sessions -> SUBSET Ports]
        /\ watched' \in [Sessions -> SUBSET Ports]
        /\ remote' \in [Sessions -> Hosts \cup {NoHost}]
        /\ inherits' \in [Sessions -> BOOLEAN]
        /\ commands' \in [Sessions -> Nat]
      BY DEF IInv, TypeOK
  <2>4. queries' \subseteq Query /\ answers' \subseteq Answer
      BY DEF IInv, TypeOK
  <2> QED BY <2>1, <2>2, <2>3, <2>4 DEF TypeOK
<1>2. Stages'
    BY DEF IInv, Stages, Idle, Asking
<1>3. OwnSockets'
    BY DEF IInv, OwnSockets
<1>4. OwnDatagrams'
    BY <1>0 DEF IInv, TypeOK, OwnDatagrams
<1>5. AnswersOwnQuestion'
    BY DEF IInv, TypeOK, AnswersOwnQuestion
<1> QED BY <1>1, <1>2, <1>3, <1>4, <1>5 DEF IInv

LEMMA ResolveIInv ==
    ASSUME IInv, NEW s \in Sessions, NEW name \in Names, NEW p \in Ports,
           Resolve(s, name, p)
    PROVE IInv'
<1>1. /\ state[s] = "Authenticated"
      /\ domain' = [domain EXCEPT ![s] = name]
      /\ lookups' = lookups + 1
      /\ UNCHANGED answers
    BY DEF Resolve
<1>2. CASE Terminate /\ UNCHANGED queries
    BY <1>1, <1>2, RefusedIInv
<1>3. CASE Shutdown(s) /\ UNCHANGED <<alive, remote, inherits, commands, queries>>
  <2>1. /\ lookups' \in Nat
        /\ domain' \in [Sessions -> Names]
        /\ \A t \in Sessions \ {s} : domain'[t] = domain[t]
      BY <1>1 DEF IInv, TypeOK
  <2> QED BY <1>1, <1>3, <2>1, ShutdownIInv
<1>4. CASE Goto(s, "ResolvingDomainName")
  <2>1. state'[s] = "ResolvingDomainName"
      BY <1>4 DEF IInv, TypeOK, Goto
  <2> QED BY <2>1, AskIInv
<1> QED BY <1>2, <1>3, <1>4 DEF Resolve

\* What the network does: every answer is about the name of its query.
LEMMA NetworkIInv ==
    ASSUME IInv,
           UNCHANGED <<alive, state, domain, sockets, watched, remote, inherits,
                       commands, lookups>>,
           queries' \subseteq queries,
           \A a \in answers' : \/ a \in answers
                               \/ /\ a \in Answer
                                  /\ \E q \in queries : a.port = q.port /\ a.name = q.name
    PROVE IInv'
<1>1. TypeOK'
    BY DEF IInv, TypeOK
<1>2. Stages'
    BY DEF IInv, Stages, Idle, Asking
<1>3. OwnSockets'
    BY DEF IInv, OwnSockets
<1>4. OwnDatagrams'
    BY DEF IInv, OwnDatagrams
<1>5. AnswersOwnQuestion'
    BY DEF IInv, AnswersOwnQuestion
<1> QED BY <1>1, <1>2, <1>3, <1>4, <1>5 DEF IInv

LEMMA ServeIInv ==
    ASSUME IInv, NEW q \in Query, Serve(q) PROVE IInv'
<1>1. PICK kind \in Kinds :
          answers' = answers \cup {[port |-> q.port, name |-> q.name, kind |-> kind]}
    BY DEF Serve
<1>2. queries' \subseteq queries /\ q \in queries
    BY DEF Serve
<1>3. \A a \in answers' : \/ a \in answers
                          \/ /\ a \in Answer
                             /\ \E r \in queries : a.port = r.port /\ a.name = r.name
    BY <1>1, <1>2 DEF Answer, Query
<1>4. UNCHANGED <<alive, state, domain, sockets, watched, remote, inherits,
                      commands, lookups>>
    BY DEF Serve
<1> QED BY <1>2, <1>3, <1>4, NetworkIInv

\* An answer with an address
LEMMA AddressIInv ==
    ASSUME IInv, NEW s \in Sessions, NEW a \in Answer, ProcessDnsEvent(s, a),
           a.kind = "address"
    PROVE IInv'
<1>1. /\ a \in answers
      /\ a.port \in watched[s]
      /\ answers' \subseteq answers
      /\ watched' = [watched EXCEPT ![s] = @ \ {a.port}]
      /\ commands' = [commands EXCEPT ![s] = @ + 1]
      /\ remote' = [remote EXCEPT ![s] = AddressOf[a.name]]
      /\ state' = [state EXCEPT ![s] = "ConnectingRemote"]
      /\ UNCHANGED <<alive, sockets, domain, inherits, queries, lookups>>
    BY DEF ProcessDnsEvent, Unregister, HostIn, Goto
<1>2. state[s] = "ResolvingDomainName"
    BY <1>1 DEF IInv, TypeOK, Stages, Idle, States
<1>3. sockets[s] = {a.port} /\ watched[s] = {a.port} /\ commands[s] = 0
    BY <1>1, <1>2 DEF IInv, Stages, Asking
<1>4. a.name \in Names /\ a.port \in Ports
    BY DEF Answer
<1>5. TypeOK'
    BY <1>1, <1>4 DEF IInv, TypeOK, States
<1>6. Stages'
    BY <1>1, <1>3, <1>4 DEF IInv, TypeOK, Stages, Idle, Asking
<1>7. OwnSockets'
    BY <1>1 DEF IInv, OwnSockets
<1>8. OwnDatagrams'
    BY <1>1 DEF IInv, OwnDatagrams
<1>9. AnswersOwnQuestion'
  <2>1. ~inherits[s] => a.name = domain[s]
      BY <1>1, <1>3 DEF IInv, OwnDatagrams
  <2> QED BY <1>1, <2>1 DEF IInv, TypeOK, AnswersOwnQuestion
<1> QED BY <1>5, <1>6, <1>7, <1>8, <1>9 DEF IInv

LEMMA ProcessDnsEventIInv ==
    ASSUME IInv, NEW s \in Sessions, NEW a \in Answer, ProcessDnsEvent(s, a)
    PROVE IInv'
<1>1. CASE a.kind = "bad" /\ Terminate
  <2> USE DEF Terminate
  <2>0. UNCHANGED <<domain, queries, lookups>> /\ answers' \subseteq answers
      BY DEF ProcessDnsEvent
  <2>1. TypeOK'
      BY <1>1, <2>0 DEF IInv, TypeOK
  <2>2. Stages'
      BY <1>1, <2>0 DEF IInv, Stages, Idle, Asking
  <2>3. OwnSockets'
      BY <1>1, <2>0 DEF IInv, OwnSockets
  <2>4. OwnDatagrams'
      BY <1>1, <2>0 DEF IInv, OwnDatagrams
  <2>5. AnswersOwnQuestion'
      BY <1>1, <2>0 DEF IInv, AnswersOwnQuestion
  <2> QED BY <2>1, <2>2, <2>3, <2>4, <2>5 DEF IInv
<1>2. CASE a.kind = "none" /\ Shutdown(s) /\ UNCHANGED <<alive, remote, inherits, commands>>
  <2>1. UNCHANGED <<domain, queries, lookups>> /\ answers' \subseteq answers
      BY DEF ProcessDnsEvent
  <2>2. /\ lookups' \in Nat
        /\ domain' \in [Sessions -> Names]
        /\ \A t \in Sessions \ {s} : domain'[t] = domain[t]
      BY <2>1 DEF IInv, TypeOK
  <2> QED BY <1>2, <2>1, <2>2, ShutdownIInv
<1>3. CASE a.kind = "address"
    BY <1>3, AddressIInv
<1> QED BY <1>1, <1>2, <1>3 DEF ProcessDnsEvent

LEMMA NextIInv == IInv /\ [Next]_vars => IInv'
<1> SUFFICES ASSUME IInv, [Next]_vars PROVE IInv'
    OBVIOUS
<1>1. ASSUME NEW s \in Sessions, Accept(s) PROVE IInv'
    BY <1>1, AcceptIInv
<1>2. ASSUME NEW s \in Sessions, ClientEnds(s) PROVE IInv'
  <2>1. /\ Shutdown(s)
        /\ queries' = queries /\ answers' \subseteq answers
        /\ UNCHANGED <<alive, remote, inherits, commands>>
        /\ lookups' \in Nat
        /\ domain' \in [Sessions -> Names]
        /\ \A t \in Sessions \ {s} : domain'[t] = domain[t]
      BY <1>2 DEF ClientEnds, IInv, TypeOK
  <2> QED BY <2>1, ShutdownIInv
<1>3. ASSUME NEW s \in Sessions, NEW name \in Names, NEW p \in Ports,
             Resolve(s, name, p)
      PROVE IInv'
    BY <1>3, ResolveIInv
<1>4. ASSUME NEW q \in Query, Serve(q) PROVE IInv'
    BY <1>4, ServeIInv
<1>5. ASSUME NEW q \in Query, LoseQuery(q) PROVE IInv'
  <2>1. /\ UNCHANGED <<alive, state, domain, sockets, watched, remote, inherits,
                      commands, lookups>>
        /\ queries' \subseteq queries
        /\ \A a \in answers' : a \in answers
      BY <1>5 DEF LoseQuery
  <2> QED BY <2>1, NetworkIInv
<1>6. ASSUME NEW a \in Answer, LoseAnswer(a) PROVE IInv'
  <2>1. /\ UNCHANGED <<alive, state, domain, sockets, watched, remote, inherits,
                      commands, lookups>>
        /\ queries' \subseteq queries
        /\ \A b \in answers' : b \in answers
      BY <1>6 DEF LoseAnswer
  <2> QED BY <2>1, NetworkIInv
<1>7. ASSUME NEW s \in Sessions, NEW a \in Answer, ProcessDnsEvent(s, a)
      PROVE IInv'
    BY <1>7, ProcessDnsEventIInv
<1>8. CASE UNCHANGED vars
    BY <1>8 DEF vars, IInv, TypeOK, Stages, Idle, Asking, OwnSockets, OwnDatagrams,
                AnswersOwnQuestion
<1> QED BY <1>1, <1>2, <1>3, <1>4, <1>5, <1>6, <1>7, <1>8 DEF Next

LEMMA Invariant == Spec => []IInv
BY InitIInv, NextIInv, PTL DEF Spec

\* TypeOK: every variable keeps its type, for any sets of sessions, names and
\* ports.
THEOREM TypeCorrect == Spec => []TypeOK
<1>1. IInv => TypeOK
    BY DEF IInv
<1> QED BY <1>1, Invariant, PTL

\* AnswersOwnQuestion: a session whose port came to it with nothing under way
\* only ever sees answers to its own query, get_response() comparing nothing,
\* and connects to the host it was asked for; whatever ports the others have
\* or had, and whatever is lost, repeated or late.
THEOREM OwnAnswer == Spec => []AnswersOwnQuestion
<1>1. IInv => AnswersOwnQuestion
    BY DEF IInv
<1> QED BY <1>1, Invariant, PTL

\* OncePerRequest: whatever is duplicated, lost or late, and however ports are
\* reused, a request leads to one _do_command() at most and to one DnsSocket.
THEOREM Once == Spec => []OncePerRequest
<1>1. IInv => OncePerRequest
  <2> SUFFICES ASSUME IInv, NEW s \in Sessions
               PROVE  /\ commands[s] <= 1
                      /\ Cardinality(sockets[s]) <= 1
                      /\ state[s] = "ConnectingRemote" => watched[s] = {}
      BY DEF OncePerRequest
  <2>1. sockets[s] = {} \/ \E p \in Ports : sockets[s] = {p}
      BY DEF IInv, TypeOK, States, Stages, Idle, Asking
  <2>2. Cardinality(sockets[s]) <= 1
    <3>1. CASE sockets[s] = {}
      <4>1. Cardinality(sockets[s]) = 0
          BY <3>1, FS_EmptySet, Zenon
      <4> QED BY <4>1
    <3>2. ASSUME NEW p \in Ports, sockets[s] = {p}
          PROVE Cardinality(sockets[s]) <= 1
      <4>1. Cardinality({p}) = 1
          BY FS_Singleton, Zenon
      <4> QED BY <3>2, <4>1
    <3> QED BY <2>1, <3>1, <3>2
  <2>3. commands[s] <= 1
      BY DEF IInv, Stages
  <2>4. state[s] = "ConnectingRemote" => watched[s] = {}
      BY DEF IInv, Stages
  <2> QED BY <2>2, <2>3, <2>4
<1> QED BY <1>1, Invariant, PTL
=============================================================================
