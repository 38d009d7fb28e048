------------------------ MODULE ServerProcessProofs ------------------------
(***************************************************************************)
(* For any number of descriptors and sessions, any command line and any    *)
(* /etc/resolv.conf: whatever SIGINT interrupts, each open descriptor has  *)
(* one owner, and stop() closes the listening socket or nothing.           *)
(***************************************************************************)
EXTENDS ServerProcess, WellFoundedInduction, TLAPS

\* What the thread and a signal may do between the two steps that open the
\* listening socket: the signal closes any number, this one too.
ListenerAwaited ==
    /\ \A d \in Fds : file[d] # "session"
    /\ \A d \in Fds : file[d] = "listener" => pc = "assign" /\ d = temporary
    /\ pc = "assign" => /\ temporary \in Fds
                        /\ file[temporary] \in {"listener", "none"}

\* The listening socket is in _server_socket, and what is in _server_socket is
\* the listening socket, or was it a step ago.
ListenerOwned ==
    /\ \A d \in Fds : file[d] = "listener" => d = server /\ pc # "forget"
    /\ server # -1 => \/ file[server] = "listener"
                      \/ file[server] = "none" /\ pc \in {"bind", "forget"}

\* Before and after
ListenerKept ==
    /\ pc \in Setup => ListenerAwaited
    /\ pc \notin Setup \cup Ends => ListenerOwned

\* The sockets of sessions and nothing else are in their Socket objects, each
\* in one of them.
SocketsOwned ==
    /\ \A d \in Fds : file[d] = "session" <=> \E o \in Sockets : held[o] = d
    /\ \A o, p \in Sockets : held[o] = held[p] /\ held[o] # -1 => o = p

\* A client that was reported finds a session that is not used.
RoomForClient ==
    ServerEvent \in events => \E s \in Sessions : held[<<s, "client">>] = -1

\* Each session is heard as long as there are sessions.
Heard ==
    pc \notin Ends \cup {"delete"} =>
        \A s \in Sessions :
           /\ held[<<s, "client">>] # -1 => held[<<s, "client">>] \in watched
           /\ Resolving(s) => held[<<s, "dns">>] \in watched

\* Who hears the name server has not begun with the command,
Waiting ==
    \A s \in Sessions :
       held[<<s, "dns">>] \in watched =>
           held[<<s, "remote">>] = -1 /\ held[<<s, "udp">>] = -1

\* and an answer that was reported was not dispatched before.
Unanswered ==
    pc \in {"dispatch", "second"} =>
        \A s \in Sessions : <<s, "dns">> \in events => held[<<s, "dns">>] \in watched

SocketsWatched == Heard /\ Waiting /\ Unanswered

\* The name server is the one of the settings.
ResolverChosen ==
    /\ pc \notin {"construct", "killed"} => dns = Resolver(params)
    /\ pc = "unresolvable" => dns # <<>> /\ ~Parses(dns[1])

IInv ==
    TypeOK /\ ListenerKept /\ SocketsOwned /\ SocketsWatched /\ RoomForClient
    /\ ResolverChosen
-----------------------------------------------------------------------------
(* Opening and closing descriptors *)

\* What the kernel gives out is free, and denotes nothing.
LEMMA LowestIsFree ==
  ASSUME FreeFds # {}
  PROVE  LowestFree \in Fds /\ file[LowestFree] = "none"
<1>1. FreeFds \subseteq Nat
  BY ProcessAssumption DEF FreeFds
<1> DEFINE Below == {p \in Nat \X Nat : p[1] < p[2]}
<1>2. IsWellFoundedOn(Below, Nat)
  BY NatLessThanWellFounded DEF OpToRel
<1>3. PICK d \in FreeFds : \A e \in FreeFds : <<e, d>> \notin Below
  <2> HIDE DEF Below
  <2>1. QED
    BY <1>1, <1>2, WFMin
<1>4. \A e \in FreeFds : d =< e
  <2>1. SUFFICES ASSUME NEW e \in FreeFds PROVE d =< e
    OBVIOUS
  <2>2. d \in Nat /\ e \in Nat
    BY <1>1
  <2>3. <<e, d>> \in Nat \X Nat => ~(e < d)
    BY <1>3
  <2>4. QED
    BY <2>2, <2>3
<1>5. LowestFree \in FreeFds
  BY <1>4 DEF LowestFree, Min
<1>6. QED
  BY <1>5 DEF FreeFds

\* A descriptor is a number other than -1.
LEMMA NotMinusOne == -1 \notin Fds
  BY ProcessAssumption

\* The words of --dns-ip that are no address differ.
LEMMA AutoIsNotNo == AutoDns # NoDns
<1>1. AutoDns.form = "auto" /\ NoDns.form = "none"
  BY DEF AutoDns, NoDns
<1>2. QED
  BY <1>1

\* Resolver, case by case
LEMMA ResolverCases ==
  ASSUME NEW p
  PROVE  /\ p.dns = NoDns => Resolver(p) = <<>>
         /\ p.dns = AutoDns => Resolver(p) = First(p.nameservers)
         /\ p.dns \notin {AutoDns, NoDns} =>
               Resolver(p) = IF is_ip_address(p.dns) THEN <<p.dns>> ELSE <<>>
<1>1. PICK d : d = p.dns
  OBVIOUS
<1>2. PICK i : i = (IF is_ip_address(p.dns) THEN <<p.dns>> ELSE <<>>)
  OBVIOUS
<1>3. PICK f : f = First(p.nameservers)
  OBVIOUS
<1>4. Resolver(p) = CASE d = NoDns -> <<>> [] d = AutoDns -> f [] OTHER -> i
  BY <1>1, <1>2, <1>3 DEF Resolver
<1>5. QED
  BY <1>1, <1>2, <1>3, <1>4, AutoIsNotNo

-----------------------------------------------------------------------------
(* Types *)

\* Closing keeps the type of the table.
LEMMA CloseAllType ==
  ASSUME TypeOK, NEW ds, CloseAll(ds)
  PROVE  /\ file' \in [Fds -> Files]
         /\ watched' \subseteq {d \in Fds : file'[d] \in {"listener", "session"}}
  BY DEF TypeOK, CloseAll, Files

\* A socket of a session that is opened
LEMMA AdoptFacts ==
  ASSUME TypeOK, NEW o \in Sockets, NEW d \in Fds, Adopt(o, d)
  PROVE  /\ file' \in [Fds -> Files]
         /\ held' \in [Sockets -> MaybeFd]
         /\ \A e \in Fds : file'[e] = IF e = d THEN "session" ELSE file[e]
         /\ \A p \in Sockets : held'[p] = IF p = o THEN d ELSE held[p]
<1>1. /\ file' \in [Fds -> Files]
      /\ \A e \in Fds : file'[e] = IF e = d THEN "session" ELSE file[e]
  BY DEF TypeOK, Adopt, Files
<1>2. /\ held' \in [Sockets -> MaybeFd]
      /\ \A p \in Sockets : held'[p] = IF p = o THEN d ELSE held[p]
  BY DEF TypeOK, Adopt, MaybeFd
<1>3. QED
  BY <1>1, <1>2

\* and registered, with another one
LEMMA AdoptType ==
  ASSUME TypeOK, NEW o \in Sockets, NEW d \in Fds, Adopt(o, d),
         \A e \in watched' : e \in watched \/ e = d \/ (e \in Fds /\ file[e] = "session")
  PROVE  /\ file' \in [Fds -> Files]
         /\ watched' \subseteq {e \in Fds : file'[e] \in {"listener", "session"}}
         /\ held' \in [Sockets -> MaybeFd]
<1>1. watched' \subseteq {e \in Fds : file'[e] \in {"listener", "session"}}
  BY AdoptFacts DEF TypeOK
<1>2. QED
  BY <1>1, AdoptFacts

\* A session that is deleted
LEMMA DeleteFacts ==
  ASSUME TypeOK, NEW s \in Sessions, Delete(s)
  PROVE  /\ file' \in [Fds -> Files]
         /\ watched' \subseteq {e \in Fds : file'[e] \in {"listener", "session"}}
         /\ held' \in [Sockets -> MaybeFd]
         /\ \A d \in Fds : file'[d] = IF \E r \in Roles : held[<<s, r>>] = d
                                       THEN "none" ELSE file[d]
         /\ \A d \in Fds : d \in watched' <=> /\ d \in watched
                                              /\ \A r \in Roles : held[<<s, r>>] # d
         /\ \A o \in Sockets : held'[o] = IF o[1] = s THEN -1 ELSE held[o]
         /\ \A e \in events' : e \in events /\ e[1] # s
<1>1. PICK ds : ds = {held[<<s, r>>] : r \in Roles}
  OBVIOUS
<1>2. CloseAll(ds)
  BY <1>1 DEF Delete
<1>3. \A d : d \in ds <=> \E r \in Roles : held[<<s, r>>] = d
  BY <1>1
<1>4. /\ file' \in [Fds -> Files]
      /\ watched' \subseteq {e \in Fds : file'[e] \in {"listener", "session"}}
  BY <1>2, CloseAllType
<1>5. \A d \in Fds : file'[d] = IF \E r \in Roles : held[<<s, r>>] = d
                               THEN "none" ELSE file[d]
  BY <1>2, <1>3 DEF CloseAll
<1>6. \A d \in Fds : d \in watched' <=> /\ d \in watched
                                       /\ \A r \in Roles : held[<<s, r>>] # d
  BY <1>2, <1>3 DEF CloseAll
<1>7. /\ held' \in [Sockets -> MaybeFd]
      /\ \A o \in Sockets : held'[o] = IF o[1] = s THEN -1 ELSE held[o]
  BY DEF Delete, TypeOK, MaybeFd
<1>8. \A e \in events' : e \in events /\ e[1] # s
  BY DEF Delete
<1>9. QED
  BY <1>4, <1>5, <1>6, <1>7, <1>8

\* The places of a session
LEMMA Places ==
  /\ \A s \in Sessions, r \in Roles : <<s, r>> \in Sockets
  /\ \A o \in Sockets : o[1] \in Sessions /\ o[2] \in Roles /\ o = <<o[1], o[2]>>
  /\ {"client", "dns", "remote", "udp"} = Roles
  /\ ServerEvent \notin Sockets
BY DEF Sockets, Roles, ServerEvent

\* A handler opens a socket of its session.
Opened(o, r) ==
    /\ FreeFds # {}
    /\ Adopt(<<o[1], r>>, LowestFree)
    /\ \A d \in watched : d \in watched' \/ d \in Unheard(o)
    /\ \A d \in watched' : d = LowestFree \/ (d \in watched /\ d \notin Unheard(o))
    /\ r = "dns" => o[2] = "client" /\ Idle(o[1]) /\ LowestFree \in watched'
    /\ r # "dns" => Commands(o)
    /\ pc' \in {"dispatch", "second"}
    /\ Done(o)

\* What a handler does with the descriptors: nothing, as it ends the process,
Ended ==
    /\ pc' = "threw" \/ (pc' = "unresolvable" /\ dns # <<>> /\ ~Parses(dns[1]))
    /\ UNCHANGED <<kernel, held, events>>

\* nothing, as it keeps them, open one, or close all of its session
LEMMA HandlerKinds ==
  ASSUME NEW o \in Sockets, Handler(o)
  PROVE  /\ pc = "dispatch" /\ o \in events
         /\ UNCHANGED <<back, settings, server, saved, temporary>>
         /\ \/ Ended
            \/ pc' = "dispatch" /\ Done(o) /\ UNCHANGED <<kernel, held>>
            \/ pc' = "dispatch" /\ Delete(o[1])
            \/ \E r \in {"dns", "remote", "udp"} : Opened(o, r)
<1>1. CASE HandlerConnects(o)
  BY <1>1 DEF HandlerConnects, Opened
<1>2. CASE HandlerAssociates(o)
  BY <1>2 DEF HandlerAssociates, Opened, Goto
<1>3. CASE HandlerResolves(o)
  <2>1. CASE Parses(dns[1])
    <3>1. Unheard(o) = {}
      BY <1>3 DEF HandlerResolves, Unheard
    <3>2. QED
      BY <1>3, <2>1, <3>1 DEF HandlerResolves, Opened
  <2>2. CASE ~Parses(dns[1])
    BY <1>3, <2>2 DEF HandlerResolves, Ended, Goto
  <2>3. QED
    BY <2>1, <2>2
<1>4. CASE HandlerKeeps(o)
  BY <1>4 DEF HandlerKeeps
<1>5. CASE HandlerDrops(o)
  BY <1>5 DEF HandlerDrops
<1>6. CASE HandlerThrows(o)
  BY <1>6 DEF HandlerThrows, Throw, Ended, Goto
<1>7. QED
  BY <1>1, <1>2, <1>3, <1>4, <1>5, <1>6 DEF Handler

\* The place of a socket that is opened is not taken.
LEMMA OpenedFresh ==
  ASSUME TypeOK, Waiting, Unanswered, pc = "dispatch",
         NEW o \in Sockets, o \in events, NEW r \in {"dns", "remote", "udp"}, Opened(o, r)
  PROVE  /\ <<o[1], r>> \in Sockets
         /\ held[<<o[1], r>>] = -1
         /\ LowestFree \in Fds /\ file[LowestFree] = "none"
<1>1. o[1] \in Sessions /\ o = <<o[1], o[2]>> /\ <<o[1], r>> \in Sockets
  BY Places
<1>2. CASE o[2] = "client"
  <2>1. Idle(o[1])
    BY <1>2 DEF Opened, Commands
  <2>2. QED
    BY <1>1, <2>1, LowestIsFree DEF Idle, Roles, Opened
<1>3. CASE o[2] # "client"
  <2>1. o[2] = "dns" /\ r # "dns"
    BY <1>3 DEF Opened, Commands
  <2>2. <<o[1], "dns">> \in events
    BY <1>1, <2>1
  <2>3. held[<<o[1], "dns">>] \in watched
    BY <1>1, <2>2 DEF Unanswered
  <2>4. held[<<o[1], "remote">>] = -1 /\ held[<<o[1], "udp">>] = -1
    BY <1>1, <2>3 DEF Waiting
  <2>5. QED
    BY <1>1, <2>1, <2>4, LowestIsFree DEF Opened
<1>4. QED
  BY <1>2, <1>3

\* A descriptor that is opened keeps the type of the table.
LEMMA OpenType ==
  ASSUME TypeOK, FreeFds # {}, NEW what \in Files, Open(what), watched' = watched
  PROVE  /\ file' \in [Fds -> Files]
         /\ watched' \subseteq {d \in Fds : file'[d] \in {"listener", "session"}}
<1>1. LowestFree \in Fds /\ file[LowestFree] = "none"
  BY LowestIsFree
<1>2. PICK n : n = LowestFree
  OBVIOUS
<1>3. file' = [file EXCEPT ![n] = what]
  BY <1>2 DEF Open
<1>4. n \in Fds /\ file[n] = "none"
  BY <1>1, <1>2
<1>5. QED
  BY <1>3, <1>4 DEF TypeOK

\* The name server is one text, or none.
LEMMA ResolverType ==
  ASSUME TypeOK
  PROVE  Resolver(params) \in Seq(Texts) /\ Len(Resolver(params)) =< 1
<1>1. params.nameservers \in Seq(Texts) /\ params.dns \in Customs \cup {AutoDns, NoDns}
  BY ProcessAssumption DEF TypeOK
<1>2. CASE params.dns = NoDns
  <2>1. Resolver(params) = <<>>
    BY <1>2, ResolverCases
  <2>2. QED
    BY <2>1
<1>3. CASE params.dns = AutoDns
  <2>1. Resolver(params) = First(params.nameservers)
    BY <1>3, ResolverCases
  <2>2. QED
    BY <1>1, <2>1 DEF First
<1>4. CASE params.dns \notin {AutoDns, NoDns}
  <2>1. params.dns \in Texts
    BY <1>1, <1>4, ProcessAssumption
  <2>2. Resolver(params) = IF is_ip_address(params.dns) THEN <<params.dns>> ELSE <<>>
    BY <1>4, ResolverCases
  <2>3. <<params.dns>> \in Seq(Texts) /\ Len(<<params.dns>>) = 1
    BY <2>1
  <2>4. <<>> \in Seq(Texts) /\ Len(<<>>) = 0
    OBVIOUS
  <2>5. QED
    BY <2>2, <2>3, <2>4
<1>5. QED
  BY <1>2, <1>3, <1>4
\* A handler keeps the types.
LEMMA HandlerType ==
  ASSUME TypeOK, NEW o \in Sockets, Handler(o)
  PROVE  TypeOK'
<1>1. UNCHANGED <<back, params, dns, handler, server, saved, temporary>>
  BY HandlerKinds DEF settings
<1>2. CASE Ended
  BY <1>1, <1>2 DEF Ended, TypeOK, kernel, PCs, Ends
<1>3. CASE pc' = "dispatch" /\ Done(o) /\ UNCHANGED <<kernel, held>>
  BY <1>1, <1>3 DEF Done, TypeOK, kernel, PCs
<1>4. CASE pc' = "dispatch" /\ Delete(o[1])
  BY <1>1, <1>4, DeleteFacts, Places DEF TypeOK, PCs
<1>5. ASSUME NEW r \in {"dns", "remote", "udp"}, Opened(o, r) PROVE TypeOK'
  <2>1. <<o[1], r>> \in Sockets /\ LowestFree \in Fds
    BY <1>5, LowestIsFree, Places DEF Opened
  <2>2. PICK p \in Sockets, d \in Fds : p = <<o[1], r>> /\ d = LowestFree
    BY <2>1
  <2>3. Adopt(p, d) /\ \A e \in watched' : e \in watched \/ e = d
    BY <1>5, <2>2 DEF Opened
  <2>4. /\ file' \in [Fds -> Files]
        /\ watched' \subseteq {e \in Fds : file'[e] \in {"listener", "session"}}
        /\ held' \in [Sockets -> MaybeFd]
    BY <2>3, AdoptType
  <2>5. pc' \in PCs /\ events' \subseteq events
    BY <1>5 DEF Opened, Done, PCs
  <2>6. QED
    BY <1>1, <2>4, <2>5 DEF TypeOK
<1>6. QED
  BY <1>2, <1>3, <1>4, <1>5, HandlerKinds

\* So does the second socket of an association.
LEMMA SecondType ==
  ASSUME TypeOK, SocketsOwned, NEW s \in Sessions, SecondSocket(s)
  PROVE  TypeOK'
<1>1. CASE Throw
  BY <1>1 DEF Throw, Goto, TypeOK, settings, kernel, PCs, Ends
<1>2. CASE ~Throw
  <2>1. /\ FreeFds # {} /\ pc' = "dispatch"
        /\ UNCHANGED <<back, params, dns, handler, server, saved, temporary>>
    BY <1>2 DEF SecondSocket, Goto, settings
  <2>2. CASE Delete(s)
    BY <2>1, <2>2, DeleteFacts DEF TypeOK, PCs
  <2>3. CASE ~Delete(s)
    <3>1. /\ Adopt(<<s, "remote">>, LowestFree) /\ UNCHANGED events
          /\ watched' = watched \cup {held[<<s, "udp">>], LowestFree}
          /\ held[<<s, "udp">>] # -1
      BY <1>2, <2>3 DEF SecondSocket
    <3>2. <<s, "remote">> \in Sockets /\ <<s, "udp">> \in Sockets
      BY Places
    <3>3. held[<<s, "udp">>] \in Fds /\ file[held[<<s, "udp">>]] = "session"
      BY <3>1, <3>2 DEF TypeOK, MaybeFd, SocketsOwned
    <3>4. LowestFree \in Fds
      BY <2>1, LowestIsFree
    <3>5. /\ file' \in [Fds -> Files]
          /\ watched' \subseteq {e \in Fds : file'[e] \in {"listener", "session"}}
          /\ held' \in [Sockets -> MaybeFd]
      BY <3>1, <3>2, <3>3, <3>4, AdoptType
    <3>6. QED
      BY <2>1, <3>1, <3>5 DEF TypeOK, PCs
  <2>4. QED
    BY <2>2, <2>3
<1>3. QED
  BY <1>1, <1>2

\* Setting up
LEMMA SetupType ==
  ASSUME TypeOK,
         \/ Construct \/ PrepareSigint \/ OpenListener \/ Assign \/ Bind \/ Listen
         \/ CreatePoller \/ RegisterListener
  PROVE  TypeOK'
<1> USE DEF PCs, Setup, Ends, settings, kernel, Goto
<1>1. CASE Construct
  BY <1>1, ResolverType DEF Construct, TypeOK
<1>2. CASE PrepareSigint
  BY <1>2 DEF PrepareSigint, TypeOK
<1>3. CASE OpenListener
  <2>1. LowestFree \in Fds /\ Open("listener") /\ watched' = watched
    BY <1>3, LowestIsFree DEF OpenListener
  <2>2. "listener" \in Files
    BY DEF Files
  <2>3. /\ file' \in [Fds -> Files]
        /\ watched' \subseteq {d \in Fds : file'[d] \in {"listener", "session"}}
    BY <1>3, <2>1, <2>2, OpenType DEF OpenListener
  <2>4. QED
    BY <1>3, <2>1, <2>3 DEF OpenListener, TypeOK, MaybeFd
<1>4. CASE Assign
  BY <1>4 DEF Assign, TypeOK, MaybeFd
<1>5. CASE Bind
  BY <1>5 DEF Bind, Throw, TypeOK
<1>6. CASE Listen
  BY <1>6 DEF Listen, TypeOK
<1>7. CASE CreatePoller
  <2>1. CASE FreeFds = {}
    BY <1>7, <2>1 DEF CreatePoller, Throw, TypeOK
  <2>2. CASE FreeFds # {}
    <3>1. Open("epoll") /\ watched' = watched /\ "epoll" \in Files
      BY <1>7, <2>2 DEF CreatePoller, Files
    <3>2. /\ file' \in [Fds -> Files]
          /\ watched' \subseteq {d \in Fds : file'[d] \in {"listener", "session"}}
      BY <2>2, <3>1, OpenType
    <3>3. QED
      BY <1>7, <2>2, <3>2 DEF CreatePoller, TypeOK
  <2>3. QED
    BY <2>1, <2>2
<1>8. CASE RegisterListener
  BY <1>8 DEF RegisterListener, CallStop, IsListener, TypeOK
<1>9. QED
  BY <1>1, <1>2, <1>3, <1>4, <1>5, <1>6, <1>7, <1>8

\* Serving and stopping
LEMMA ServeType ==
  ASSUME TypeOK, RoomForClient,
         \/ TestServing \/ Block \/ PollReturns \/ PollFails \/ AcceptClient
         \/ ServerFault \/ EndOfBatch \/ Unregister \/ DeleteSessions
         \/ CloseListener \/ ForgetListener \/ Sigint
  PROVE  TypeOK'
<1> USE DEF PCs, Setup, Ends, settings, kernel, Goto, CallStop
<1>1. CASE TestServing \/ Block
  BY <1>1 DEF TestServing, Block, TypeOK
<1>2. CASE PollReturns
  BY <1>2 DEF PollReturns, Ready, TypeOK
<1>3. CASE PollFails
  BY <1>3 DEF PollFails, TypeOK
<1>4. CASE AcceptClient
  <2>1. CASE Throw
    BY <2>1 DEF Throw, TypeOK
  <2>2. CASE ~Throw
    <3>1. PICK s : /\ Adopt(<<s, "client">>, LowestFree)
                   /\ s = CHOOSE t \in Sessions : t \notin Live
      BY <1>4, <2>2 DEF AcceptClient
    <3>2. s \in Sessions /\ <<s, "client">> \in Sockets
      BY <1>4, <3>1, Places DEF AcceptClient, RoomForClient, Live
    <3>3. LowestFree \in Fds
      BY <1>4, <2>2, LowestIsFree DEF AcceptClient
    <3>4. /\ events' = events \ {ServerEvent} /\ watched' = watched \cup {LowestFree}
          /\ UNCHANGED <<pc, back, settings, server, saved, temporary>>
      BY <1>4, <2>2 DEF AcceptClient, Done
    <3>5. QED
      BY <3>1, <3>2, <3>3, <3>4, AdoptType DEF TypeOK
  <2>3. QED
    BY <2>1, <2>2
<1>5. CASE ServerFault \/ EndOfBatch
  BY <1>5 DEF ServerFault, EndOfBatch, TypeOK
<1>6. CASE Unregister
  BY <1>6 DEF Unregister, TypeOK
<1>7. CASE DeleteSessions
  <2>1. PICK ds : CloseAll(ds)
    BY <1>7 DEF DeleteSessions
  <2>2. held' \in [Sockets -> MaybeFd]
    BY <1>7 DEF DeleteSessions, MaybeFd
  <2>3. pc' \in PCs /\ back' \in {"test", "returned"}
    BY <1>7 DEF DeleteSessions, TypeOK
  <2>4. QED
    BY <1>7, <2>1, <2>2, <2>3, CloseAllType DEF DeleteSessions, TypeOK
<1>8. CASE CloseListener
  BY <1>8, CloseAllType DEF CloseListener, TypeOK
<1>9. CASE ForgetListener
  BY <1>9 DEF ForgetListener, Closed, TypeOK, MaybeFd
<1>10. CASE Sigint
  <2>1. CASE handler
    <3>1. /\ CloseAll({server}) /\ server' = -1
          /\ pc' \in {pc, "unregister"}
      BY <1>10, <2>1 DEF Sigint, Closed
    <3>2. QED
      BY <1>10, <3>1, CloseAllType DEF Sigint, TypeOK, MaybeFd
  <2>2. CASE ~handler
    BY <1>10, <2>2 DEF Sigint, TypeOK
  <2>3. QED
    BY <2>1, <2>2
<1>11. QED
  BY <1>1, <1>2, <1>3, <1>4, <1>5, <1>6, <1>7, <1>8, <1>9, <1>10

\* Every step keeps the types.
LEMMA StepType ==
  ASSUME TypeOK, SocketsOwned, RoomForClient, [Next]_vars
  PROVE  TypeOK'
<1>1. ASSUME UNCHANGED vars PROVE TypeOK'
  BY <1>1 DEF vars, TypeOK
<1>2. QED
  BY <1>1, SetupType, ServeType, HandlerType, SecondType DEF Next, Run
-----------------------------------------------------------------------------
(* The sockets of sessions *)

\* Steps that neither open nor close a socket of a session
SessionsKept ==
    /\ held' = held
    /\ \A d \in Fds : file'[d] = "session" <=> file[d] = "session"

\* What leaves the sessions' descriptors alone keeps their owners.
LEMMA KeptSockets == SocketsOwned /\ SessionsKept => SocketsOwned'
  BY DEF SocketsOwned, SessionsKept

\* What stop() and the signal close is no socket of a session.
LEMMA ServerIsNoSession ==
  ASSUME TypeOK, ListenerKept, pc \notin Ends
  PROVE  server \in Fds => file[server] # "session"
<1>1. CASE pc \in Setup
  BY <1>1 DEF ListenerKept, ListenerAwaited
<1>2. CASE pc \notin Setup
  BY <1>2, NotMinusOne DEF ListenerKept, ListenerOwned
<1>3. QED
  BY <1>1, <1>2

\* Closing the listening socket leaves the sessions' descriptors alone.
LEMMA CloseServerKeeps ==
  ASSUME TypeOK, ListenerKept, pc \notin Ends, CloseAll({server}), held' = held
  PROVE  SessionsKept
  BY ServerIsNoSession DEF CloseAll, SessionsKept, TypeOK

\* So does opening one for something else.
LEMMA OpenKeeps ==
  ASSUME TypeOK, FreeFds # {}, NEW what, what # "session", Open(what), held' = held
  PROVE  SessionsKept
<1>1. PICK n : n = LowestFree
  OBVIOUS
<1>2. file' = [file EXCEPT ![n] = what] /\ n \in Fds /\ file[n] = "none"
  BY <1>1, LowestIsFree DEF Open
<1>3. QED
  BY <1>2 DEF SessionsKept, TypeOK

\* A new socket is in one Socket object: the number was in none, and the place
\* of the socket was not taken.
LEMMA AdoptOwned ==
  ASSUME TypeOK, SocketsOwned, NEW o \in Sockets, held[o] = -1,
         NEW d \in Fds, file[d] = "none", Adopt(o, d)
  PROVE  SocketsOwned'
<1>1. /\ \A e \in Fds : file'[e] = IF e = d THEN "session" ELSE file[e]
      /\ \A p \in Sockets : held'[p] = IF p = o THEN d ELSE held[p]
  BY AdoptFacts
<1>2. \A p \in Sockets : held[p] # d
  BY DEF SocketsOwned
<1>3. -1 \notin Fds
  BY NotMinusOne
<1>4. \A e \in Fds : file'[e] = "session" <=> \E p \in Sockets : held'[p] = e
  BY <1>1, <1>2, <1>3 DEF SocketsOwned
<1>5. \A p, q \in Sockets : held'[p] = held'[q] /\ held'[p] # -1 => p = q
  BY <1>1, <1>2 DEF SocketsOwned
<1>6. QED
  BY <1>4, <1>5 DEF SocketsOwned

\* A session that is deleted takes its sockets with it.
LEMMA DeleteOwned ==
  ASSUME TypeOK, SocketsOwned, NEW s \in Sessions, Delete(s)
  PROVE  SocketsOwned'
<1>1. /\ \A d \in Fds : file'[d] = IF \E r \in Roles : held[<<s, r>>] = d
                                   THEN "none" ELSE file[d]
      /\ \A o \in Sockets : held'[o] = IF o[1] = s THEN -1 ELSE held[o]
  BY DeleteFacts
<1>2. -1 \notin Fds
  BY NotMinusOne
<1>3. \A o, p \in Sockets : held'[o] = held'[p] /\ held'[o] # -1 => o = p
  BY <1>1 DEF SocketsOwned
<1>4. ASSUME NEW d \in Fds, file'[d] = "session" PROVE \E o \in Sockets : held'[o] = d
  <2>1. file[d] = "session" /\ \A r \in Roles : held[<<s, r>>] # d
    BY <1>1, <1>4
  <2>2. PICK o \in Sockets : held[o] = d
    BY <2>1 DEF SocketsOwned
  <2>3. o[1] # s
    BY <2>1, <2>2, Places
  <2>4. QED
    BY <1>1, <2>2, <2>3
<1>5. ASSUME NEW d \in Fds, NEW o \in Sockets, held'[o] = d PROVE file'[d] = "session"
  <2>1. o[1] # s /\ held[o] = d
    BY <1>1, <1>2, <1>5
  <2>2. file[d] = "session"
    BY <2>1 DEF SocketsOwned
  <2>3. \A r \in Roles : <<s, r>> # o /\ <<s, r>> \in Sockets
    BY <2>1, Places
  <2>4. \A r \in Roles : held[<<s, r>>] # d
    BY <1>2, <2>1, <2>3 DEF SocketsOwned
  <2>5. QED
    BY <1>1, <2>2, <2>4
<1>6. QED
  BY <1>3, <1>4, <1>5 DEF SocketsOwned

\* A handler keeps the owners.
LEMMA HandlerOwned ==
  ASSUME TypeOK, SocketsOwned, SocketsWatched, NEW o \in Sockets, Handler(o)
  PROVE  SocketsOwned'
<1>1. ASSUME UNCHANGED <<file, held>> PROVE SocketsOwned'
  BY <1>1 DEF SocketsOwned
<1>2. ASSUME NEW r \in {"dns", "remote", "udp"}, Opened(o, r) PROVE SocketsOwned'
  <2>1. pc = "dispatch" /\ o \in events
    BY HandlerKinds
  <2>2. /\ <<o[1], r>> \in Sockets
        /\ held[<<o[1], r>>] = -1
        /\ LowestFree \in Fds /\ file[LowestFree] = "none"
    BY <1>2, <2>1, OpenedFresh DEF SocketsWatched
  <2>3. Adopt(<<o[1], r>>, LowestFree)
    BY <1>2 DEF Opened
  <2>4. QED
    BY <2>2, <2>3, AdoptOwned
<1>3. CASE Delete(o[1])
  BY <1>3, DeleteOwned, Places
<1>4. CASE Ended \/ UNCHANGED <<kernel, held>>
  BY <1>1, <1>4 DEF Ended, kernel
<1>5. QED
  BY <1>2, <1>3, <1>4, HandlerKinds

\* So does the second socket of an association.
LEMMA SecondOwned ==
  ASSUME TypeOK, SocketsOwned, NEW s \in Sessions, SecondSocket(s)
  PROVE  SocketsOwned'
<1>1. CASE Throw
  BY <1>1 DEF Throw, SocketsOwned, kernel
<1>2. CASE Delete(s)
  BY <1>2, DeleteOwned
<1>3. CASE ~Throw /\ ~Delete(s)
  <2>1. Adopt(<<s, "remote">>, LowestFree) /\ held[<<s, "remote">>] = -1 /\ FreeFds # {}
    BY <1>3 DEF SecondSocket
  <2>2. QED
    BY <2>1, LowestIsFree, AdoptOwned, Places
<1>4. QED
  BY <1>1, <1>2, <1>3

\* The session that an accepted client gets
LEMMA AcceptFacts ==
  ASSUME RoomForClient, AcceptClient, ~Throw
  PROVE  \E s \in Sessions :
            /\ held[<<s, "client">>] = -1
            /\ Adopt(<<s, "client">>, LowestFree)
            /\ watched' = watched \cup {LowestFree}
            /\ LowestFree \in Fds /\ file[LowestFree] = "none"
            /\ events' = events \ {ServerEvent} /\ UNCHANGED <<pc, server>>
<1>1. PICK s : s = CHOOSE t \in Sessions : t \notin Live
  OBVIOUS
<1>2. s \in Sessions /\ s \notin Live
  BY <1>1 DEF AcceptClient, RoomForClient, Live
<1>3. FreeFds # {} /\ Adopt(<<s, "client">>, LowestFree)
  BY <1>1 DEF AcceptClient
<1>4. /\ watched' = watched \cup {LowestFree} /\ events' = events \ {ServerEvent}
      /\ UNCHANGED <<pc, server>>
  BY DEF AcceptClient, Done
<1>5. QED
  BY <1>2, <1>3, <1>4, LowestIsFree DEF Live

\* It gets one owner.
LEMMA AcceptOwned ==
  ASSUME TypeOK, SocketsOwned, RoomForClient, AcceptClient
  PROVE  SocketsOwned'
<1>1. CASE Throw
  BY <1>1 DEF Throw, SocketsOwned, kernel
<1>2. CASE ~Throw
  BY <1>2, AcceptFacts, AdoptOwned, Places
<1>3. QED
  BY <1>1, <1>2

\* When all sessions are deleted none has a socket,
LEMMA DeleteAllFacts ==
  ASSUME TypeOK, DeleteSessions
  PROVE  /\ \A o \in Sockets : held'[o] = -1
         /\ \A d \in Fds : file'[d] = IF \E o \in Sockets : held[o] = d
                                       THEN "none" ELSE file[d]
<1>1. PICK ds : ds = {held[o] : o \in Sockets}
  OBVIOUS
<1>2. CloseAll(ds)
  BY <1>1 DEF DeleteSessions
<1>3. \A d : d \in ds <=> \E o \in Sockets : held[o] = d
  BY <1>1
<1>4. \A d \in Fds : file'[d] = IF \E o \in Sockets : held[o] = d
                               THEN "none" ELSE file[d]
  BY <1>2, <1>3 DEF CloseAll
<1>5. \A o \in Sockets : held'[o] = -1
  BY DEF DeleteSessions
<1>6. QED
  BY <1>4, <1>5

\* and none is open.
LEMMA DeleteAllOwned ==
  ASSUME TypeOK, SocketsOwned, DeleteSessions
  PROVE  SocketsOwned'
<1>1. \A d \in Fds : file'[d] # "session"
  BY DeleteAllFacts DEF SocketsOwned
<1>2. \A o \in Sockets : held'[o] = -1
  BY DeleteAllFacts
<1>3. QED
  BY <1>1, <1>2, NotMinusOne DEF SocketsOwned

\* Every step keeps the owners.
LEMMA SocketsStep ==
  ASSUME TypeOK, ListenerKept, SocketsOwned, SocketsWatched, RoomForClient, [Next]_vars
  PROVE  SocketsOwned'
<1>1. CASE UNCHANGED <<file, held>>
  BY <1>1 DEF SocketsOwned
<1>2. CASE OpenListener \/ CreatePoller
  <2>1. CASE FreeFds = {}
    BY <1>1, <1>2, <2>1 DEF OpenListener, CreatePoller, Throw, kernel
  <2>2. CASE FreeFds # {}
    <3>1. PICK what : what # "session" /\ Open(what) /\ held' = held
      BY <1>2, <2>2 DEF OpenListener, CreatePoller
    <3>2. QED
      BY <2>2, <3>1, OpenKeeps, KeptSockets
  <2>3. QED
    BY <2>1, <2>2
<1>3. CASE CloseListener
  <2>1. pc \notin Ends /\ CloseAll({server}) /\ held' = held
    BY <1>3 DEF CloseListener, Ends
  <2>2. QED
    BY <2>1, CloseServerKeeps, KeptSockets
<1>4. CASE Sigint
  <2>1. CASE handler
    BY <1>4, <2>1, CloseServerKeeps, KeptSockets DEF Sigint
  <2>2. CASE ~handler
    BY <1>1, <1>4, <2>2 DEF Sigint, kernel
  <2>3. QED
    BY <2>1, <2>2
<1>5. ASSUME \/ Construct \/ PrepareSigint \/ Assign \/ Bind \/ Listen \/ RegisterListener
             \/ TestServing \/ Block \/ ServerFault \/ EndOfBatch \/ Unregister
             \/ ForgetListener \/ PollReturns \/ PollFails
      PROVE  UNCHANGED <<file, held>>
  BY <1>5 DEF Construct, PrepareSigint, Assign, Bind, Listen, RegisterListener,
       TestServing, Block, ServerFault, EndOfBatch, Unregister, ForgetListener,
       PollReturns, PollFails, Throw, kernel
<1>6. QED
  BY <1>1, <1>2, <1>3, <1>4, <1>5, HandlerOwned, SecondOwned, AcceptOwned,
     DeleteAllOwned DEF Next, Run, vars
-----------------------------------------------------------------------------
(* The poller *)

\* What is registered for sessions stays it, and no session gets a socket.
WatchKept ==
    /\ held' = held
    /\ \A o \in Sockets : held[o] \in watched' <=> held[o] \in watched

\* An answer that is dispatched is that of a session which waits for it.
LEMMA KeptWatched ==
  ASSUME SocketsWatched, WatchKept,
         pc' \notin Ends \cup {"delete"} => pc \notin Ends \cup {"delete"},
         pc' \in {"dispatch", "second"} =>
             pc \in {"dispatch", "second"} /\ events' \subseteq events
  PROVE  SocketsWatched'
<1>1. \A s \in Sessions, r \in Roles : <<s, r>> \in Sockets
  BY Places
<1>2. Heard'
  BY <1>1 DEF SocketsWatched, Heard, WatchKept, Resolving, Roles
<1>3. Waiting'
  BY <1>1 DEF SocketsWatched, Waiting, WatchKept, Roles
<1>4. Unanswered'
  BY <1>1 DEF SocketsWatched, Unanswered, WatchKept, Roles
<1>5. QED
  BY <1>2, <1>3, <1>4 DEF SocketsWatched

\* Nothing is opened or closed, but something registered that is no session's.
LEMMA StillWatched ==
  ASSUME UNCHANGED <<watched, held>>
  PROVE  WatchKept
  BY DEF WatchKept

\* Closing the listening socket
LEMMA CloseServerWatched ==
  ASSUME TypeOK, ListenerKept, SocketsOwned, pc \notin Ends, CloseAll({server}), held' = held
  PROVE  WatchKept
<1>1. ASSUME NEW o \in Sockets, held[o] \in watched PROVE held[o] # server
  <2>1. held[o] \in Fds
    BY <1>1 DEF TypeOK
  <2>2. file[held[o]] = "session"
    BY <2>1 DEF SocketsOwned
  <2>3. QED
    BY <2>1, <2>2, ServerIsNoSession
<1>2. QED
  BY <1>1 DEF CloseAll, WatchKept

\* A process that has ended
LEMMA EndedWatched ==
  ASSUME SocketsWatched, UNCHANGED <<watched, held>>, pc' \in Ends
  PROVE  SocketsWatched'
<1>1. pc' \notin {"dispatch", "second"}
  BY DEF Ends
<1>2. QED
  BY <1>1 DEF SocketsWatched, Heard, Waiting, Unanswered

\* A session that is deleted
LEMMA DeleteWatched ==
  ASSUME TypeOK, SocketsOwned, SocketsWatched, pc \in {"dispatch", "second"},
         pc' = "dispatch", NEW s \in Sessions, Delete(s)
  PROVE  SocketsWatched'
<1>1. /\ \A d \in Fds : d \in watched' <=> /\ d \in watched
                                         /\ \A r \in Roles : held[<<s, r>>] # d
      /\ \A o \in Sockets : held'[o] = IF o[1] = s THEN -1 ELSE held[o]
      /\ \A e \in events' : e \in events /\ e[1] # s
      /\ watched' \subseteq Fds
  BY DeleteFacts
<1>2. -1 \notin Fds /\ watched \subseteq Fds
  BY NotMinusOne DEF TypeOK
<1>3. \A t \in Sessions, r \in Roles : <<t, r>> \in Sockets
  BY Places
<1>4. \A r \in Roles : held'[<<s, r>>] = -1
  BY <1>1, <1>3
<1>5. ASSUME NEW t \in Sessions, t # s, NEW r \in Roles
      PROVE  /\ held'[<<t, r>>] = held[<<t, r>>]
             /\ held[<<t, r>>] \in watched' <=> held[<<t, r>>] \in watched
  <2>1. held'[<<t, r>>] = held[<<t, r>>]
    BY <1>1, <1>3, <1>5
  <2>2. \A q \in Roles : held[<<t, r>>] \in Fds => held[<<s, q>>] # held[<<t, r>>]
    BY <1>2, <1>3, <1>5 DEF SocketsOwned
  <2>3. QED
    BY <1>1, <1>2, <2>1, <2>2
<1>6. {"client", "dns", "remote", "udp"} = Roles
  BY Places
<1>7. pc \notin Ends \cup {"delete"}
  BY DEF Ends
<1>8. Heard'
  <2>1. SUFFICES ASSUME NEW t \in Sessions
                 PROVE  /\ held'[<<t, "client">>] # -1 => held'[<<t, "client">>] \in watched'
                        /\ Resolving(t)' => held'[<<t, "dns">>] \in watched'
    BY DEF Heard
  <2>2. CASE t = s
    BY <1>4, <1>6, <2>2 DEF Resolving
  <2>3. CASE t # s
    <3>1. /\ held[<<t, "client">>] # -1 => held[<<t, "client">>] \in watched
          /\ Resolving(t) => held[<<t, "dns">>] \in watched
      BY <1>7 DEF SocketsWatched, Heard
    <3>2. QED
      BY <1>5, <1>6, <2>3, <3>1 DEF Resolving
  <2>4. QED
    BY <2>2, <2>3
<1>9. Waiting'
  <2>1. SUFFICES ASSUME NEW t \in Sessions, held'[<<t, "dns">>] \in watched'
                 PROVE  held'[<<t, "remote">>] = -1 /\ held'[<<t, "udp">>] = -1
    BY DEF Waiting
  <2>2. CASE t = s
    BY <1>4, <1>6, <2>2
  <2>3. CASE t # s
    BY <1>5, <1>6, <2>1, <2>3 DEF SocketsWatched, Waiting
  <2>4. QED
    BY <2>2, <2>3
<1>10. Unanswered'
  <2>1. SUFFICES ASSUME NEW t \in Sessions, <<t, "dns">> \in events'
                 PROVE  held'[<<t, "dns">>] \in watched'
    BY DEF Unanswered
  <2>2. <<t, "dns">> \in events /\ t # s
    BY <1>1, <2>1
  <2>3. held[<<t, "dns">>] \in watched
    BY <2>2 DEF SocketsWatched, Unanswered
  <2>4. QED
    BY <1>5, <1>6, <2>2, <2>3
<1>11. QED
  BY <1>8, <1>9, <1>10 DEF SocketsWatched

\* A socket that a handler opens
LEMMA OpenedWatched ==
  ASSUME TypeOK, SocketsOwned, SocketsWatched, pc = "dispatch",
         NEW o \in Sockets, o \in events, NEW r \in {"dns", "remote", "udp"}, Opened(o, r)
  PROVE  SocketsWatched'
<1>1. /\ <<o[1], r>> \in Sockets
      /\ held[<<o[1], r>>] = -1
      /\ LowestFree \in Fds /\ file[LowestFree] = "none"
  BY OpenedFresh DEF SocketsWatched
<1>2. PICK n \in Fds, u \in Sessions : n = LowestFree /\ u = o[1]
  BY <1>1, Places
<1>3. Adopt(<<u, r>>, n) /\ <<u, r>> \in Sockets /\ file[n] = "none"
  BY <1>1, <1>2 DEF Opened
<1>4. \A p \in Sockets : held'[p] = IF p = <<u, r>> THEN n ELSE held[p]
  BY <1>3, AdoptFacts
<1>5. -1 \notin Fds /\ watched \subseteq Fds /\ \A p \in Sockets : held[p] # n
  BY <1>3, NotMinusOne DEF TypeOK, SocketsOwned
<1>6. /\ \A d \in watched : d \in watched' \/ d \in Unheard(o)
      /\ \A d \in watched' : d = n \/ (d \in watched /\ d \notin Unheard(o))
      /\ events' = events \ {o}
  BY <1>2 DEF Opened, Done
<1>7. \A t \in Sessions, q \in Roles : <<t, q>> \in Sockets
  BY Places
<1>8. {"client", "dns", "remote", "udp"} = Roles
  BY Places
<1>9. o = <<u, o[2]>> /\ o[2] \in Roles
  BY <1>2, Places
<1>10. ASSUME NEW p \in Sockets, p # o, p # <<u, r>>
       PROVE  held'[p] = held[p] /\ (held[p] \in watched' <=> held[p] \in watched)
  <2>1. held'[p] = held[p] /\ held[p] # n
    BY <1>4, <1>5, <1>10
  <2>2. held[p] \in watched => held[p] \notin Unheard(o)
    BY <1>5, <1>10 DEF Unheard, SocketsOwned
  <2>3. QED
    BY <1>6, <2>1, <2>2
<1>11. o # <<u, r>>
  <2>1. CASE o[2] = "client"
    BY <1>9, <2>1
  <2>2. CASE o[2] # "client"
    <3>1. o[2] = "dns" /\ r # "dns"
      BY <2>2 DEF Opened, Commands
    <3>2. QED
      BY <1>9, <3>1
  <2>3. QED
    BY <2>1, <2>2
<1>12. held'[o] = held[o]
  BY <1>4, <1>11
<1>13. o[2] = "client" => (held[o] \in watched' <=> held[o] \in watched)
  <2>1. held[o] # n
    BY <1>5
  <2>2. o[2] = "client" => Unheard(o) = {}
    BY DEF Unheard
  <2>3. QED
    BY <1>6, <2>1, <2>2
<1>14. o[2] = "dns" => held[o] \notin watched'
  <2>1. held[o] # n
    BY <1>5
  <2>2. QED
    BY <1>6, <2>1 DEF Unheard
<1>15. \/ o[2] = "client" /\ held[<<u, "dns">>] = -1
       \/ o[2] = "dns" /\ r # "dns"
  <2>1. CASE r = "dns"
    BY <1>2, <1>8, <2>1 DEF Opened, Idle
  <2>2. CASE r # "dns"
    BY <1>2, <1>8, <2>2 DEF Opened, Commands, Idle
  <2>3. QED
    BY <2>1, <2>2
<1>16. pc \notin Ends \cup {"delete"}
  BY DEF Ends
<1>17. Heard'
  <2>1. SUFFICES ASSUME NEW t \in Sessions
                 PROVE  /\ held'[<<t, "client">>] # -1 => held'[<<t, "client">>] \in watched'
                        /\ Resolving(t)' => held'[<<t, "dns">>] \in watched'
    BY DEF Heard
  <2>2. /\ held[<<t, "client">>] # -1 => held[<<t, "client">>] \in watched
        /\ Resolving(t) => held[<<t, "dns">>] \in watched
    BY <1>16 DEF SocketsWatched, Heard
  <2>3. held'[<<t, "client">>] # -1 => held'[<<t, "client">>] \in watched'
    <3>1. <<t, "client">> \in Sockets /\ <<t, "client">> # <<u, r>>
      BY <1>7, <1>8
    <3>2. CASE <<t, "client">> = o
      BY <1>12, <1>13, <2>2, <3>2
    <3>3. CASE <<t, "client">> # o
      BY <1>10, <2>2, <3>1, <3>3
    <3>4. QED
      BY <3>2, <3>3
  <2>4. ASSUME Resolving(t)' PROVE held'[<<t, "dns">>] \in watched'
    <3>1. /\ held'[<<t, "dns">>] # -1 /\ held'[<<t, "remote">>] = -1
          /\ held'[<<t, "udp">>] = -1
      BY <2>4 DEF Resolving
    <3>2. /\ <<t, "dns">> \in Sockets /\ <<t, "remote">> \in Sockets
          /\ <<t, "udp">> \in Sockets
      BY <1>7, <1>8
    <3>3. CASE t = u
      <4>1. r = "dns"
        BY <1>4, <1>5, <3>1, <3>2, <3>3
      <4>2. n \in watched'
        BY <1>2, <4>1 DEF Opened
      <4>3. QED
        BY <1>4, <3>2, <3>3, <4>1, <4>2
    <3>4. CASE t # u
      <4>1. /\ <<t, "dns">> # o /\ <<t, "dns">> # <<u, r>>
            /\ <<t, "remote">> # o /\ <<t, "remote">> # <<u, r>>
            /\ <<t, "udp">> # o /\ <<t, "udp">> # <<u, r>>
        BY <1>9, <3>4
      <4>2. Resolving(t)
        BY <1>10, <3>1, <3>2, <4>1 DEF Resolving
      <4>3. QED
        BY <1>10, <2>2, <3>2, <4>1, <4>2
    <3>5. QED
      BY <3>3, <3>4
  <2>5. QED
    BY <2>3, <2>4
<1>18. Waiting'
  <2>1. SUFFICES ASSUME NEW t \in Sessions, held'[<<t, "dns">>] \in watched'
                 PROVE  held'[<<t, "remote">>] = -1 /\ held'[<<t, "udp">>] = -1
    BY DEF Waiting
  <2>2. /\ <<t, "dns">> \in Sockets /\ <<t, "remote">> \in Sockets
        /\ <<t, "udp">> \in Sockets
    BY <1>7, <1>8
  <2>3. CASE t = u
    <3>1. r = "dns"
      <4>1. SUFFICES ASSUME r # "dns" PROVE FALSE
        OBVIOUS
      <4>2. held'[<<u, "dns">>] = held[<<u, "dns">>]
        BY <1>4, <2>2, <2>3, <4>1
      <4>3. held[<<u, "dns">>] # n
        BY <1>5, <2>2, <2>3
      <4>4. held[<<u, "dns">>] \in watched
        BY <1>6, <2>1, <2>3, <4>2, <4>3
      <4>5. o[2] = "dns"
        BY <1>5, <1>15, <4>4
      <4>6. QED
        BY <1>9, <1>14, <2>1, <2>3, <4>2, <4>5
    <3>2. Idle(u)
      BY <1>2, <3>1 DEF Opened
    <3>3. QED
      BY <1>4, <1>8, <2>2, <2>3, <3>1, <3>2 DEF Idle
  <2>4. CASE t # u
    <3>1. /\ <<t, "dns">> # o /\ <<t, "dns">> # <<u, r>>
          /\ <<t, "remote">> # <<u, r>> /\ <<t, "udp">> # <<u, r>>
      BY <1>9, <2>4
    <3>2. held[<<t, "dns">>] \in watched
      BY <1>10, <2>1, <2>2, <3>1
    <3>3. QED
      BY <1>4, <2>2, <3>1, <3>2 DEF SocketsWatched, Waiting
  <2>5. QED
    BY <2>3, <2>4
<1>19. Unanswered'
  <2>1. SUFFICES ASSUME NEW t \in Sessions, <<t, "dns">> \in events'
                 PROVE  held'[<<t, "dns">>] \in watched'
    BY DEF Unanswered
  <2>2. <<t, "dns">> \in Sockets /\ <<t, "dns">> \in events /\ <<t, "dns">> # o
    BY <1>6, <1>7, <1>8, <2>1
  <2>3. held[<<t, "dns">>] \in watched
    BY <2>2 DEF SocketsWatched, Unanswered
  <2>4. <<t, "dns">> # <<u, r>>
    BY <1>3, <1>5, <1>1, <1>2, <2>3
  <2>5. QED
    BY <1>10, <2>2, <2>3, <2>4
<1>20. QED
  BY <1>17, <1>18, <1>19 DEF SocketsWatched

\* A client that is accepted: its place in the session was not taken.
LEMMA AcceptWatched ==
  ASSUME TypeOK, SocketsOwned, SocketsWatched, RoomForClient, AcceptClient, ~Throw
  PROVE  SocketsWatched'
<1>1. PICK u \in Sessions :
         /\ held[<<u, "client">>] = -1
         /\ Adopt(<<u, "client">>, LowestFree)
         /\ watched' = watched \cup {LowestFree}
         /\ LowestFree \in Fds /\ file[LowestFree] = "none"
         /\ events' = events \ {ServerEvent} /\ UNCHANGED <<pc, server>>
  BY AcceptFacts
<1>2. PICK n \in Fds : n = LowestFree
  BY <1>1
<1>3. \A t \in Sessions, q \in Roles : <<t, q>> \in Sockets
  BY Places
<1>4. {"client", "dns", "remote", "udp"} = Roles
  BY Places
<1>5. \A p \in Sockets : held'[p] = IF p = <<u, "client">> THEN n ELSE held[p]
  BY <1>1, <1>2, <1>3, <1>4, AdoptFacts
<1>6. -1 \notin Fds /\ watched \subseteq Fds /\ \A p \in Sockets : held[p] # n
  BY <1>1, <1>2, NotMinusOne DEF TypeOK, SocketsOwned
<1>7. watched' = watched \cup {n}
  BY <1>1, <1>2
<1>8. \A t \in Sessions : /\ held'[<<t, "dns">>] = held[<<t, "dns">>]
                         /\ held'[<<t, "remote">>] = held[<<t, "remote">>]
                         /\ held'[<<t, "udp">>] = held[<<t, "udp">>]
                         /\ held[<<t, "dns">>] # n
  BY <1>3, <1>4, <1>5, <1>6
<1>9. Heard'
  <2>1. pc = "dispatch" /\ pc \notin Ends \cup {"delete"}
    BY DEF AcceptClient, Ends
  <2>2. \A t \in Sessions : held'[<<t, "client">>] # -1 => held'[<<t, "client">>] \in watched'
    BY <1>3, <1>4, <1>5, <1>7, <2>1 DEF SocketsWatched, Heard
  <2>3. \A t \in Sessions : Resolving(t)' => held'[<<t, "dns">>] \in watched'
    BY <1>7, <1>8, <2>1 DEF SocketsWatched, Heard, Resolving
  <2>4. QED
    BY <2>2, <2>3 DEF Heard
<1>10. Waiting'
  BY <1>7, <1>8 DEF SocketsWatched, Waiting
<1>11. Unanswered'
  BY <1>1, <1>7, <1>8 DEF SocketsWatched, Unanswered
<1>12. QED
  BY <1>9, <1>10, <1>11 DEF SocketsWatched

\* The two sockets of an association are registered together.
LEMMA SecondWatched ==
  ASSUME TypeOK, SocketsOwned, SocketsWatched, NEW u \in Sessions, SecondSocket(u)
  PROVE  SocketsWatched'
<1>1. CASE Throw
  <2>1. pc' \in Ends /\ UNCHANGED <<watched, held>>
    BY <1>1 DEF Throw, Goto, Ends, kernel
  <2>2. QED
    BY <2>1, EndedWatched
<1>2. CASE ~Throw /\ Delete(u)
  <2>1. pc = "second" /\ pc' = "dispatch"
    BY <1>2 DEF SecondSocket, Goto
  <2>2. QED
    BY <1>2, <2>1, DeleteWatched
<1>3. CASE ~Throw /\ ~Delete(u)
  <2>1. /\ pc = "second" /\ pc' = "dispatch" /\ FreeFds # {} /\ events' = events
        /\ held[<<u, "udp">>] # -1 /\ held[<<u, "remote">>] = -1
        /\ Adopt(<<u, "remote">>, LowestFree)
        /\ watched' = watched \cup {held[<<u, "udp">>], LowestFree}
    BY <1>3 DEF SecondSocket, Goto
  <2>2. PICK n \in Fds : n = LowestFree /\ file[n] = "none"
    BY <2>1, LowestIsFree
  <2>3. \A t \in Sessions, q \in Roles : <<t, q>> \in Sockets
    BY Places
  <2>4. {"client", "dns", "remote", "udp"} = Roles
    BY Places
  <2>5. \A p \in Sockets : held'[p] = IF p = <<u, "remote">> THEN n ELSE held[p]
    BY <2>1, <2>2, <2>3, <2>4, AdoptFacts
  <2>6. -1 \notin Fds /\ \A p \in Sockets : held[p] # n
    BY <2>2, NotMinusOne DEF SocketsOwned
  <2>7. watched' = watched \cup {held[<<u, "udp">>], n}
    BY <2>1, <2>2
  <2>8. \A t \in Sessions : /\ held'[<<t, "dns">>] = held[<<t, "dns">>]
                           /\ held'[<<t, "client">>] = held[<<t, "client">>]
                           /\ held'[<<t, "udp">>] = held[<<t, "udp">>]
                           /\ held[<<t, "dns">>] # n
    BY <2>3, <2>4, <2>5, <2>6
  <2>9. \A t \in Sessions : held[<<t, "dns">>] # held[<<u, "udp">>]
    <3>1. \A t \in Sessions : <<t, "dns">> # <<u, "udp">>
      OBVIOUS
    <3>2. QED
      BY <2>1, <2>3, <2>4, <3>1 DEF SocketsOwned
  <2>10. pc \notin Ends \cup {"delete"}
    BY <2>1 DEF Ends
  <2>11. Heard'
    <3>1. \A t \in Sessions : held'[<<t, "client">>] # -1 => held'[<<t, "client">>] \in watched'
      BY <2>7, <2>8, <2>10 DEF SocketsWatched, Heard
    <3>2. ASSUME NEW t \in Sessions, Resolving(t)' PROVE held'[<<t, "dns">>] \in watched'
      <4>1. t # u
        BY <2>1, <2>8, <3>2 DEF Resolving
      <4>2. <<t, "remote">> # <<u, "remote">> /\ <<t, "remote">> \in Sockets
        BY <2>3, <2>4, <4>1
      <4>3. held'[<<t, "remote">>] = held[<<t, "remote">>]
        BY <2>5, <4>2
      <4>4. Resolving(t)
        BY <2>8, <3>2, <4>3 DEF Resolving
      <4>5. QED
        BY <2>7, <2>8, <2>10, <4>4 DEF SocketsWatched, Heard
    <3>3. QED
      BY <3>1, <3>2 DEF Heard
  <2>12. Waiting'
    <3>1. SUFFICES ASSUME NEW t \in Sessions, held'[<<t, "dns">>] \in watched'
                   PROVE  held'[<<t, "remote">>] = -1 /\ held'[<<t, "udp">>] = -1
      BY DEF Waiting
    <3>2. held[<<t, "dns">>] \in watched
      BY <2>7, <2>8, <2>9, <3>1
    <3>3. held[<<t, "remote">>] = -1 /\ held[<<t, "udp">>] = -1
      BY <3>2 DEF SocketsWatched, Waiting
    <3>4. t # u
      BY <2>1, <3>3
    <3>5. <<t, "remote">> # <<u, "remote">> /\ <<t, "remote">> \in Sockets
      BY <2>3, <2>4, <3>4
    <3>6. QED
      BY <2>5, <2>8, <3>3, <3>5
  <2>13. Unanswered'
    BY <2>1, <2>7, <2>8 DEF SocketsWatched, Unanswered
  <2>14. QED
    BY <2>11, <2>12, <2>13 DEF SocketsWatched
<1>4. QED
  BY <1>1, <1>2, <1>3

\* A handler keeps what is registered.
LEMMA HandlerWatched ==
  ASSUME TypeOK, SocketsOwned, SocketsWatched, NEW o \in Sockets, Handler(o)
  PROVE  SocketsWatched'
<1>1. pc = "dispatch" /\ o \in events
  BY HandlerKinds
<1>2. CASE Ended
  BY <1>2, EndedWatched DEF Ended, Ends, kernel
<1>3. CASE pc' = "dispatch" /\ Done(o) /\ UNCHANGED <<kernel, held>>
  <2>1. UNCHANGED <<watched, held>> /\ events' \subseteq events
    BY <1>3 DEF Done, kernel
  <2>2. "dispatch" \notin Ends \cup {"delete"}
    BY DEF Ends
  <2>3. QED
    BY <1>1, <1>3, <2>1, <2>2, StillWatched, KeptWatched
<1>4. CASE pc' = "dispatch" /\ Delete(o[1])
  BY <1>1, <1>4, DeleteWatched, Places
<1>5. QED
  BY <1>1, <1>2, <1>3, <1>4, OpenedWatched, HandlerKinds

\* poll() reports what is registered.
LEMMA PollWatched ==
  ASSUME SocketsWatched, PollReturns
  PROVE  SocketsWatched'
<1>1. /\ pc = "blocked" /\ pc' = "dispatch" /\ UNCHANGED <<watched, held>>
      /\ events' \subseteq Ready
  BY DEF PollReturns, Goto, kernel
<1>2. Heard' /\ Waiting'
  BY <1>1 DEF SocketsWatched, Heard, Waiting, Resolving, Ends
<1>3. \A s \in Sessions : <<s, "dns">> \in Ready => held[<<s, "dns">>] \in watched
  <2>1. \A s \in Sessions : <<s, "dns">> # ServerEvent
    BY DEF ServerEvent
  <2>2. QED
    BY <2>1 DEF Ready
<1>4. Unanswered'
  BY <1>1, <1>3 DEF Unanswered
<1>5. QED
  BY <1>2, <1>4 DEF SocketsWatched

\* Every step keeps what sessions need registered.
LEMMA WatchedStep ==
  ASSUME TypeOK, ListenerKept, SocketsOwned, SocketsWatched, RoomForClient, [Next]_vars
  PROVE  SocketsWatched'
<1> USE DEF Goto, kernel, CallStop
<1>1. CASE UNCHANGED vars
  BY <1>1, StillWatched, KeptWatched DEF vars
<1>2. CASE \/ Construct \/ PrepareSigint \/ OpenListener \/ Assign \/ Bind \/ Listen
           \/ CreatePoller \/ TestServing \/ Block \/ ServerFault
           \/ EndOfBatch \/ ForgetListener \/ PollFails
  <2>1. UNCHANGED <<watched, held>>
    BY <1>2 DEF Construct, PrepareSigint, OpenListener, Assign, Bind, Listen, CreatePoller,
         TestServing, Block, ServerFault, EndOfBatch, ForgetListener, PollFails, Throw
  <2>2. /\ pc \notin Ends \cup {"delete"}
        /\ pc' \notin {"dispatch", "second"}
    BY <1>2 DEF Construct, PrepareSigint, OpenListener, Assign, Bind, Listen, CreatePoller,
         TestServing, Block, ServerFault, EndOfBatch, ForgetListener, PollFails, Throw,
         Ends, TypeOK
  <2>3. QED
    BY <2>1, <2>2, StillWatched, KeptWatched
<1>3. CASE RegisterListener
  <2>1. /\ pc = "register" /\ pc' \in {"test", "close"} /\ held' = held
        /\ watched' = watched \/ (IsListener(saved) /\ watched' = watched \cup {saved})
    BY <1>3 DEF RegisterListener
  <2>2. \A o \in Sockets : IsListener(saved) => held[o] # saved
    BY DEF IsListener, SocketsOwned
  <2>3. WatchKept
    BY <2>1, <2>2 DEF WatchKept
  <2>4. QED
    BY <2>1, <2>3, KeptWatched DEF Ends
<1>4. CASE CloseListener
  <2>1. pc = "close" /\ pc' = "forget" /\ CloseAll({server}) /\ held' = held
    BY <1>4 DEF CloseListener
  <2>2. pc \notin Ends \cup {"delete"}
    BY <2>1 DEF Ends
  <2>3. QED
    BY <2>1, <2>2, CloseServerWatched, KeptWatched
<1>5. CASE Sigint
  <2>1. pc \notin Ends /\ held' = held /\ events' = events
    BY <1>5 DEF Sigint
  <2>2. CASE handler
    <3>1. /\ CloseAll({server}) /\ pc' \in {pc, "unregister"}
          /\ pc' = "unregister" => pc \in {"blocked", "unregister"}
      BY <1>5, <2>2 DEF Sigint
    <3>2. WatchKept
      BY <2>1, <3>1, CloseServerWatched
    <3>3. QED
      BY <2>1, <3>1, <3>2, KeptWatched
  <2>3. CASE ~handler
    BY <1>5, <2>1, <2>3, EndedWatched DEF Sigint, Ends
  <2>4. QED
    BY <2>2, <2>3
<1>6. CASE AcceptClient
  <2>1. CASE Throw
    BY <2>1, EndedWatched DEF Throw, Ends
  <2>2. QED
    BY <1>6, <2>1, AcceptWatched
<1>7. CASE Unregister
  <2>1. pc' = "delete" /\ watched' \subseteq watched /\ held' = held
    BY <1>7 DEF Unregister
  <2>2. QED
    BY <2>1 DEF SocketsWatched, Heard, Waiting, Unanswered
<1>8. CASE DeleteSessions
  <2>1. pc' \in {"close", "returned"}
    BY <1>8 DEF DeleteSessions
  <2>2. \A t \in Sessions, q \in Roles : held'[<<t, q>>] = -1
    BY <1>8, DeleteAllFacts, Places
  <2>3. {"client", "dns", "remote", "udp"} = Roles
    BY Places
  <2>4. QED
    BY <2>1, <2>2, <2>3 DEF SocketsWatched, Heard, Waiting, Unanswered, Resolving
<1>9. QED
  BY <1>1, <1>2, <1>3, <1>4, <1>5, <1>6, <1>7, <1>8, HandlerWatched, SecondWatched,
     PollWatched DEF Next, Run
-----------------------------------------------------------------------------
(* The batch and the settings *)

\* A handler takes no session from a client that was reported.
LEMMA HandlerRoom ==
  ASSUME TypeOK, RoomForClient, NEW o \in Sockets, Handler(o)
  PROVE  RoomForClient'
<1>1. \A s \in Sessions : <<s, "client">> \in Sockets
  BY Places
<1>2. CASE Ended \/ (Done(o) /\ UNCHANGED <<kernel, held>>)
  BY <1>2 DEF Ended, Done, RoomForClient
<1>3. CASE Delete(o[1])
  BY <1>1, <1>3, DeleteFacts, Places DEF RoomForClient
<1>4. ASSUME NEW r \in {"dns", "remote", "udp"}, Opened(o, r) PROVE RoomForClient'
  <2>1. <<o[1], r>> \in Sockets /\ LowestFree \in Fds
    BY <1>4, LowestIsFree, Places DEF Opened
  <2>2. Adopt(<<o[1], r>>, LowestFree) /\ events' \subseteq events
    BY <1>4 DEF Opened, Done
  <2>3. \A s \in Sessions : held'[<<s, "client">>] = held[<<s, "client">>]
    BY <1>1, <2>1, <2>2, AdoptFacts
  <2>4. QED
    BY <2>2, <2>3 DEF RoomForClient
<1>5. QED
  BY <1>2, <1>3, <1>4, HandlerKinds

\* Nor does the second socket of an association.
LEMMA SecondRoom ==
  ASSUME TypeOK, RoomForClient, NEW u \in Sessions, SecondSocket(u)
  PROVE  RoomForClient'
<1>1. \A s \in Sessions, r \in Roles : <<s, r>> \in Sockets
  BY Places
<1>2. CASE Throw
  BY <1>2 DEF Throw, RoomForClient
<1>3. CASE Delete(u)
  BY <1>1, <1>3, DeleteFacts DEF RoomForClient, Roles
<1>4. CASE ~Throw /\ ~Delete(u)
  <2>1. FreeFds # {} /\ Adopt(<<u, "remote">>, LowestFree) /\ events' = events
    BY <1>4 DEF SecondSocket
  <2>2. <<u, "remote">> \in Sockets /\ LowestFree \in Fds
    BY <1>1, <2>1, LowestIsFree DEF Roles
  <2>3. \A s \in Sessions : held'[<<s, "client">>] = held[<<s, "client">>]
    BY <1>1, <2>1, <2>2, AdoptFacts DEF Roles
  <2>4. QED
    BY <2>1, <2>3 DEF RoomForClient
<1>5. QED
  BY <1>2, <1>3, <1>4

\* Every step keeps room for a client that was reported.
LEMMA RoomStep ==
  ASSUME TypeOK, RoomForClient, [Next]_vars
  PROVE  RoomForClient'
<1>1. CASE UNCHANGED <<events, held>>
  BY <1>1 DEF RoomForClient
<1>2. CASE AcceptClient
  <2>1. CASE Throw
    BY <2>1 DEF Throw, RoomForClient
  <2>2. CASE ~Throw
    BY <1>2, <2>2 DEF AcceptClient, Done, RoomForClient
  <2>3. QED
    BY <2>1, <2>2
<1>3. CASE PollReturns
  <2>1. events' \subseteq Ready /\ held' = held
    BY <1>3 DEF PollReturns
  <2>2. ASSUME ServerEvent \in Ready PROVE Live # Sessions
    BY <2>2, Places DEF Ready
  <2>3. QED
    BY <2>1, <2>2 DEF RoomForClient, Live
<1>4. CASE ServerFault
  BY <1>4 DEF ServerFault, RoomForClient
<1>5. CASE DeleteSessions
  <2>1. events' = events /\ \A s \in Sessions : held'[<<s, "client">>] = -1
    BY <1>5, DeleteAllFacts, Places DEF DeleteSessions
  <2>2. QED
    BY <2>1 DEF RoomForClient
<1>6. ASSUME \/ Construct \/ PrepareSigint \/ OpenListener \/ Assign \/ Bind \/ Listen
             \/ CreatePoller \/ RegisterListener \/ TestServing \/ Block \/ EndOfBatch
             \/ Unregister \/ CloseListener \/ ForgetListener
             \/ PollFails \/ Sigint
      PROVE  UNCHANGED <<events, held>>
  BY <1>6 DEF Construct, PrepareSigint, OpenListener, Assign, Bind, Listen,
       CreatePoller, RegisterListener, TestServing, Block, EndOfBatch, Unregister,
       CloseListener, ForgetListener, PollFails, Sigint, Throw
<1>7. QED
  BY <1>1, <1>2, <1>3, <1>4, <1>5, <1>6, HandlerRoom, SecondRoom DEF Next, Run, vars

\* Only the constructor chooses, and only a lookup ends for it.
LEMMA ResolverStep ==
  ASSUME TypeOK, ResolverChosen, [Next]_vars
  PROVE  ResolverChosen'
<1> USE DEF Goto, settings
<1>1. CASE Construct
  BY <1>1 DEF Construct, ResolverChosen
<1>2. ASSUME ~Construct, ~ \E o \in Sockets : Handler(o)
      PROVE  UNCHANGED <<params, dns>>
  BY <1>2 DEF Next, Run, vars, PrepareSigint, OpenListener, Assign, Bind, Listen,
       CreatePoller, RegisterListener, TestServing, Block, AcceptClient, ServerFault,
       SecondSocket, EndOfBatch, Unregister, DeleteSessions, CloseListener,
       ForgetListener, PollReturns, PollFails, Sigint, Throw
<1>3. ASSUME ~Construct, ~ \E o \in Sockets : Handler(o)
      PROVE  /\ pc = "construct" => pc' \in {"construct", "killed"}
             /\ pc = "killed" => pc' = "killed"
             /\ pc' = "unresolvable" => pc = "unresolvable"
  BY <1>3 DEF Next, Run, vars, PrepareSigint, OpenListener, Assign, Bind, Listen,
       CreatePoller, RegisterListener, TestServing, Block, AcceptClient, ServerFault,
       SecondSocket, EndOfBatch, Unregister, DeleteSessions, CloseListener,
       ForgetListener, PollReturns, PollFails, Sigint, Throw, CallStop, TypeOK, Ends
<1>4. ASSUME NEW o \in Sockets, Handler(o) PROVE ResolverChosen'
  <2>1. pc = "dispatch" /\ UNCHANGED <<params, dns>>
    BY <1>4, HandlerKinds
  <2>2. pc' = "unresolvable" => dns # <<>> /\ ~Parses(dns[1])
    <3>1. CASE Ended
      BY <3>1 DEF Ended
    <3>2. CASE pc' = "dispatch"
      BY <3>2
    <3>3. ASSUME NEW r, Opened(o, r) PROVE pc' # "unresolvable"
      BY <3>3 DEF Opened
    <3>4. QED
      BY <1>4, <3>1, <3>2, <3>3, HandlerKinds
  <2>3. QED
    BY <2>1, <2>2 DEF ResolverChosen
<1>5. CASE ~Construct /\ ~ \E o \in Sockets : Handler(o)
  BY <1>2, <1>3, <1>5 DEF ResolverChosen
<1>6. QED
  BY <1>1, <1>4, <1>5
-----------------------------------------------------------------------------
(* The listening socket *)

\* Once the loop runs, what is opened is a session's or the poller's, and what
\* is closed was a session's.
ListenersKept ==
    /\ UNCHANGED server
    /\ \A d \in Fds : file'[d] = "listener" <=> file[d] = "listener"

Serving == pc \notin Setup \cup Ends \cup {"bind", "forget"}

\* What leaves the table and the listening socket alone keeps their relation.
LEMMA KeptListener ==
  ASSUME TypeOK, ListenerOwned, Serving, ListenersKept, pc' # "forget"
  PROVE  ListenerOwned'
<1>1. \A d \in Fds : file'[d] = "listener" => d = server'
  BY DEF ListenerOwned, ListenersKept
<1>2. ASSUME server # -1 PROVE file'[server] = "listener"
  <2>1. server \in Fds /\ file[server] = "listener"
    BY <1>2 DEF TypeOK, MaybeFd, ListenerOwned, Serving
  <2>2. QED
    BY <2>1 DEF ListenersKept
<1>3. QED
  BY <1>1, <1>2 DEF ListenerOwned, ListenersKept

\* Sockets of sessions do not matter to it, neither those that are opened,
LEMMA AdoptKeepsListener ==
  ASSUME TypeOK, NEW o \in Sockets, NEW d \in Fds, file[d] = "none", Adopt(o, d),
         UNCHANGED server
  PROVE  ListenersKept
  BY AdoptFacts DEF ListenersKept

\* nor those that are closed,
LEMMA DeleteKeepsListener ==
  ASSUME TypeOK, SocketsOwned, NEW s \in Sessions, Delete(s), UNCHANGED server
  PROVE  ListenersKept
<1>1. \A d \in Fds : (\E r \in Roles : held[<<s, r>>] = d) => file[d] = "session"
  BY Places DEF SocketsOwned
<1>2. QED
  BY <1>1, DeleteFacts DEF ListenersKept

\* and so no handler matters to it.
LEMMA HandlerKeepsListener ==
  ASSUME TypeOK, SocketsOwned, NEW o \in Sockets, Handler(o)
  PROVE  /\ ListenersKept /\ pc = "dispatch"
         /\ pc' \in {"dispatch", "second", "threw", "unresolvable"}
<1>1. pc = "dispatch" /\ UNCHANGED server
  BY HandlerKinds
<1>2. CASE Ended
  BY <1>1, <1>2 DEF Ended, ListenersKept, kernel
<1>3. CASE pc' = "dispatch" /\ UNCHANGED <<kernel, held>>
  BY <1>1, <1>3 DEF ListenersKept, kernel
<1>4. CASE pc' = "dispatch" /\ Delete(o[1])
  BY <1>1, <1>4, DeleteKeepsListener, Places
<1>5. ASSUME NEW r \in {"dns", "remote", "udp"}, Opened(o, r)
      PROVE  ListenersKept /\ pc' \in {"dispatch", "second"}
  <2>1. /\ <<o[1], r>> \in Sockets /\ Adopt(<<o[1], r>>, LowestFree)
        /\ LowestFree \in Fds /\ file[LowestFree] = "none"
    BY <1>5, LowestIsFree, Places DEF Opened
  <2>2. QED
    BY <1>1, <1>5, <2>1, AdoptKeepsListener DEF Opened
<1>6. QED
  BY <1>1, <1>2, <1>3, <1>4, <1>5, HandlerKinds

LEMMA SecondKeepsListener ==
  ASSUME TypeOK, SocketsOwned, NEW s \in Sessions, SecondSocket(s)
  PROVE  /\ ListenersKept /\ pc = "second"
         /\ pc' \in {"dispatch", "threw"}
<1>1. pc = "second" /\ UNCHANGED server /\ pc' \in {"dispatch", "threw"}
  BY DEF SecondSocket, Throw, Goto
<1>2. CASE Throw
  BY <1>1, <1>2 DEF Throw, ListenersKept, kernel
<1>3. CASE Delete(s)
  BY <1>1, <1>3, DeleteKeepsListener
<1>4. CASE ~Throw /\ ~Delete(s)
  <2>1. FreeFds # {} /\ Adopt(<<s, "remote">>, LowestFree) /\ <<s, "remote">> \in Sockets
    BY <1>4, Places DEF SecondSocket
  <2>2. QED
    BY <1>1, <2>1, LowestIsFree, AdoptKeepsListener
<1>5. QED
  BY <1>1, <1>2, <1>3, <1>4

\* Setting up, as far as open_tcp()
LEMMA AwaitedStep ==
  ASSUME TypeOK, ListenerAwaited, pc \in Setup, Next
  PROVE  ListenerKept'
<1> USE DEF Setup, Ends, Goto, kernel
<1>1. CASE Construct \/ PrepareSigint
  BY <1>1 DEF Construct, PrepareSigint, ListenerKept, ListenerAwaited
<1>2. CASE OpenListener
  <2>1. PICK n : n = LowestFree
    OBVIOUS
  <2>2. n \in Fds /\ file' = [file EXCEPT ![n] = "listener"] /\ temporary' = n
    BY <1>2, <2>1, LowestIsFree DEF OpenListener, Open
  <2>3. pc = "open" /\ pc' = "assign"
    BY <1>2 DEF OpenListener
  <2>4. \A d \in Fds : file'[d] = IF d = n THEN "listener" ELSE file[d]
    BY <2>2 DEF TypeOK
  <2>5. QED
    BY <2>2, <2>3, <2>4 DEF ListenerKept, ListenerAwaited
<1>3. CASE Assign
  BY <1>3 DEF Assign, ListenerKept, ListenerAwaited, ListenerOwned
<1>4. CASE Sigint
  <2>1. pc' \in Setup \cup {"killed"} /\ temporary' = temporary
    BY <1>4 DEF Sigint
  <2>2. pc' \in Setup => pc' = pc
    BY <1>4 DEF Sigint
  <2>3. \A d \in Fds : file'[d] \in {file[d], "none"}
    BY <1>4 DEF Sigint, CloseAll
  <2>4. QED
    BY <2>1, <2>2, <2>3 DEF ListenerKept, ListenerAwaited
<1>5. Construct \/ PrepareSigint \/ OpenListener \/ Assign \/ Sigint
  BY HandlerKinds DEF Next, Run, Bind, Listen, CreatePoller, RegisterListener,
       TestServing, Block, AcceptClient, ServerFault, SecondSocket, EndOfBatch,
       Unregister, DeleteSessions, CloseListener, ForgetListener, PollReturns,
       PollFails
<1>6. QED
  BY <1>1, <1>2, <1>3, <1>4, <1>5

\* Socket::close(), by stop() or by the signal
LEMMA StopStep ==
  ASSUME TypeOK, ListenerOwned, pc \notin Setup \cup Ends,
         CloseListener \/ ForgetListener \/ Sigint
  PROVE  ListenerKept'
<1> USE DEF Setup, Ends, Goto, kernel
<1>1. CASE CloseListener
  <2>1. /\ pc' = "forget" /\ server' = server
        /\ \A d \in Fds : file'[d] = IF d = server THEN "none" ELSE file[d]
    BY <1>1 DEF CloseListener, CloseAll
  <2>2. \A d \in Fds : file'[d] # "listener"
    BY <2>1 DEF ListenerOwned
  <2>3. server # -1 => file'[server] = "none"
    BY <2>1 DEF TypeOK, MaybeFd
  <2>4. QED
    BY <2>1, <2>2, <2>3 DEF ListenerKept, ListenerOwned
<1>2. CASE ForgetListener
  <2>1. \A d \in Fds : file'[d] # "listener"
    BY <1>2 DEF ForgetListener, ListenerOwned
  <2>2. server' = -1 /\ pc' \in {"test", "returned"}
    BY <1>2 DEF ForgetListener, Closed, TypeOK
  <2>3. QED
    BY <2>1, <2>2 DEF ListenerKept, ListenerOwned
<1>3. CASE Sigint
  <2>1. CASE ~handler
    BY <1>3, <2>1 DEF Sigint, ListenerKept
  <2>2. CASE handler
    <3>1. /\ pc' \in {pc, "unregister"} /\ server' = -1
          /\ \A d \in Fds : file'[d] = IF d = server THEN "none" ELSE file[d]
      BY <1>3, <2>2 DEF Sigint, CloseAll, Closed
    <3>2. \A d \in Fds : file'[d] # "listener"
      BY <3>1 DEF ListenerOwned
    <3>3. QED
      BY <3>1, <3>2 DEF ListenerKept, ListenerOwned
  <2>3. QED
    BY <2>1, <2>2
<1>4. QED
  BY <1>1, <1>2, <1>3

\* From bind() on
LEMMA OwnedStep ==
  ASSUME TypeOK, SocketsOwned, RoomForClient, ListenerOwned, pc \notin Setup \cup Ends, Next
  PROVE  ListenerKept'
<1> USE DEF Setup, Ends, Goto, kernel, CallStop
<1>1. CASE CloseListener \/ ForgetListener \/ Sigint
  BY <1>1, StopStep
<1>2. CASE Bind
  <2>1. file' = file /\ server' = server /\ pc' \in {"listen", "threw"}
    BY <1>2 DEF Bind, Throw
  <2>2. pc' = "listen" => file[server] = "listener"
    BY <1>2 DEF Bind, Throw, IsListener
  <2>3. QED
    BY <1>2, <2>1, <2>2 DEF Bind, ListenerKept, ListenerOwned
<1>3. ASSUME Serving, ListenersKept, pc' \notin Setup \cup {"forget"}
      PROVE  ListenerKept'
  BY <1>3, KeptListener DEF ListenerKept
<1>4. CASE CreatePoller
  <2>1. CASE FreeFds = {}
    BY <1>4, <2>1 DEF CreatePoller, Throw, ListenerKept
  <2>2. CASE FreeFds # {}
    <3>1. PICK n : n = LowestFree
      OBVIOUS
    <3>2. n \in Fds /\ file[n] = "none" /\ file' = [file EXCEPT ![n] = "epoll"]
      BY <1>4, <2>2, <3>1, LowestIsFree DEF CreatePoller, Open
    <3>3. ListenersKept
      BY <1>4, <2>2, <3>2 DEF CreatePoller, ListenersKept, TypeOK
    <3>4. QED
      BY <1>3, <1>4, <2>2, <3>3 DEF CreatePoller, Serving
  <2>3. QED
    BY <2>1, <2>2
<1>5. CASE AcceptClient
  <2>1. pc = "dispatch" /\ pc' \in {"dispatch", "threw"} /\ server' = server
    BY <1>5 DEF AcceptClient, Throw
  <2>2. CASE Throw
    BY <2>2 DEF Throw, ListenerKept
  <2>3. CASE ~Throw
    <3>1. PICK s \in Sessions : /\ Adopt(<<s, "client">>, LowestFree)
                              /\ LowestFree \in Fds /\ file[LowestFree] = "none"
      BY <1>5, <2>3, AcceptFacts
    <3>2. ListenersKept
      BY <2>1, <3>1, AdoptKeepsListener, Places
    <3>3. QED
      BY <1>3, <2>1, <3>2 DEF Serving
  <2>4. QED
    BY <2>2, <2>3
<1>6. CASE \/ \E o \in Sockets : Handler(o)
           \/ \E s \in Sessions : SecondSocket(s)
  BY <1>3, <1>6, HandlerKeepsListener, SecondKeepsListener DEF Serving
<1>7. CASE DeleteSessions
  <2>1. server' = server /\ pc = "delete" /\ pc' \in {"close", "returned"}
    BY <1>7 DEF DeleteSessions
  <2>2. ListenersKept
    BY <1>7, <2>1, DeleteAllFacts DEF ListenersKept, SocketsOwned
  <2>3. QED
    BY <1>3, <2>1, <2>2 DEF Serving
<1>8. ASSUME \/ Listen \/ RegisterListener \/ TestServing \/ Block \/ ServerFault
             \/ EndOfBatch \/ Unregister \/ PollReturns \/ PollFails
      PROVE  Serving /\ ListenersKept /\ pc' \notin Setup \cup {"forget"}
  BY <1>8 DEF Listen, RegisterListener, TestServing, Block, ServerFault, EndOfBatch,
       Unregister, PollReturns, PollFails, Serving, ListenersKept
<1>9. ~(Construct \/ PrepareSigint \/ OpenListener \/ Assign)
  BY DEF Construct, PrepareSigint, OpenListener, Assign
<1>10. QED
  BY <1>1, <1>2, <1>3, <1>4, <1>5, <1>6, <1>7, <1>8, <1>9 DEF Next, Run
\* A process that has ended does nothing.
LEMMA EndsAreFinal == Next => pc \notin Ends
  BY HandlerKinds DEF Ends, Next, Run, Construct, PrepareSigint, OpenListener, Assign,
     Bind, Listen, CreatePoller, RegisterListener, TestServing, Block, AcceptClient,
     ServerFault, SecondSocket, EndOfBatch, Unregister, DeleteSessions, CloseListener,
     ForgetListener, PollReturns, PollFails, Sigint

\* Every step keeps the relation of the table and the listening socket.
LEMMA ListenerStep ==
  ASSUME TypeOK, ListenerKept, SocketsOwned, RoomForClient, [Next]_vars
  PROVE  ListenerKept'
<1>1. CASE UNCHANGED vars
  <2>1. UNCHANGED <<pc, file, server, temporary>>
    BY <1>1 DEF vars
  <2>2. QED
    BY <2>1 DEF ListenerKept, ListenerAwaited, ListenerOwned
<1>2. CASE Next /\ pc \in Setup
  BY <1>2, AwaitedStep DEF ListenerKept
<1>3. CASE Next /\ pc \notin Setup
  <2>1. pc \notin Setup \cup Ends
    BY <1>3, EndsAreFinal
  <2>2. QED
    BY <1>3, <2>1, OwnedStep DEF ListenerKept
<1>4. QED
  BY <1>1, <1>2, <1>3

-----------------------------------------------------------------------------
(* The theorems *)

\* The process starts with nothing open.
LEMMA InitInv == Init => IInv
<1> SUFFICES ASSUME Init PROVE IInv
  OBVIOUS
<1>1. TypeOK
  <2>1. file \in [Fds -> Files] /\ held \in [Sockets -> MaybeFd]
    BY DEF Init, Files, MaybeFd
  <2>2. dns \in Seq(Texts) /\ Len(dns) =< 1
    BY DEF Init
  <2>3. pc \in PCs /\ back \in {"test", "returned"} /\ saved \in MaybeFd /\ temporary \in MaybeFd
    BY DEF Init, PCs, Setup, MaybeFd
  <2>4. QED
    BY <2>1, <2>2, <2>3 DEF Init, TypeOK
<1>2. ListenerKept
  BY DEF Init, ListenerKept, ListenerAwaited, Setup
<1>3. SocketsOwned
  BY NotMinusOne DEF Init, SocketsOwned
<1>4. SocketsWatched
  <2>1. \A s \in Sessions, r \in Roles : held[<<s, r>>] = -1
    BY Places DEF Init
  <2>2. watched = {} /\ pc = "construct" /\ {"client", "dns", "remote", "udp"} = Roles
    BY Places DEF Init
  <2>3. QED
    BY <2>1, <2>2 DEF SocketsWatched, Heard, Waiting, Unanswered, Resolving
<1>5. RoomForClient /\ ResolverChosen
  BY DEF Init, RoomForClient, ResolverChosen
<1>6. QED
  BY <1>1, <1>2, <1>3, <1>4, <1>5 DEF IInv

\* Every step keeps the invariant.
LEMMA StepInv == IInv /\ [Next]_vars => IInv'
  BY StepType, ListenerStep, SocketsStep, WatchedStep, RoomStep, ResolverStep DEF IInv

\* At every place where SIGINT may fall: who owns which descriptor and who is
\* registered, that a client that was reported finds room, and where the name
\* server comes from.
THEOREM InvHolds == Spec => []IInv
  BY InitInv, StepInv, PTL DEF Spec

\* Type correctness: among others, the poller watches open sockets only, and a
\* client that is accepted finds a session (Server::serve()).
THEOREM ProcessTypeCorrect == Spec => []TypeOK
<1>1. IInv => TypeOK
  BY DEF IInv
<1>2. QED
  BY <1>1, InvHolds, PTL

\* From bind() on, wherever SIGINT falls, _server_socket holds the listening
\* socket or a number that nothing has got since (Server::stop()).
THEOREM StopsOwn == Spec => []StopClosesOwn
<1>1. IInv => StopClosesOwn
  BY DEF IInv, ListenerKept, ListenerOwned, StopClosesOwn
<1>2. QED
  BY <1>1, InvHolds, PTL

\* No descriptor is lost and none has two owners, whatever is opened, moved,
\* deleted or interrupted: any command of any session, with or without a lookup,
\* that succeeds or fails between its sockets (Socket::close(),
\* Session::_do_command(), Server::_delete_session()).
THEOREM HeldOnce == Spec => []EachHeldOnce
<1>1. ASSUME IInv PROVE EachHeldOnce
  <2>1. SUFFICES ASSUME pc \notin Setup \cup Ends \cup {"bind", "forget"}
                 PROVE  \A d \in Fds : file[d] = "listener" <=> server = d
    BY <1>1 DEF EachHeldOnce, IInv, SocketsOwned
  <2>2. ListenerOwned
    BY <1>1, <2>1 DEF IInv, ListenerKept
  <2>3. QED
    BY <2>1, <2>2, NotMinusOne DEF ListenerOwned
<1>2. QED
  BY <1>1, InvHolds, PTL

\* No session is left that nothing can wake, until all are deleted
\* (Session::process_dns_event(), Server::serve()).
THEOREM StaysWatched == Spec => []SessionsStayWatched
<1>1. IInv => SessionsStayWatched
  BY DEF IInv, SocketsWatched, Heard, SessionsStayWatched, Live
<1>2. QED
  BY <1>1, InvHolds, PTL

\* A lookup ends the process for what is_ip_address() and inet_pton() judge
\* differently, and for what the system wrote down (IPAddress::IPAddress()).
THEOREM LookupsSurviveHolds == Spec => []LookupsSurvive
<1>1. ASSUME IInv PROVE LookupsSurvive
  <2>1. SUFFICES ASSUME pc = "unresolvable"
                 PROVE  \/ params.dns = AutoDns /\ ~Parses(params.nameservers[1])
                        \/ /\ params.dns \in Customs
                           /\ ~Parses(params.dns)
                           /\ \/ params.dns.form = "dotted"
                              \/ /\ params.dns.form = "groups"
                                 /\ params.dns.before + params.dns.after > 7
    BY DEF LookupsSurvive
  <2>2. dns = Resolver(params) /\ dns # <<>> /\ ~Parses(dns[1])
    BY <1>1, <2>1 DEF IInv, ResolverChosen
  <2>3. params.dns # NoDns
    BY <2>2, ResolverCases
  <2>4. CASE params.dns = AutoDns
    <3>1. dns = First(params.nameservers)
      BY <2>2, <2>4, ResolverCases
    <3>2. dns[1] = params.nameservers[1]
      BY <2>2, <3>1 DEF First
    <3>3. QED
      BY <2>2, <2>4, <3>2
  <2>5. CASE params.dns # AutoDns
    <3>1. params.dns \in Customs /\ params.dns \in Texts
      BY <1>1, <2>3, <2>5, ProcessAssumption DEF IInv, TypeOK
    <3>2. is_ip_address(params.dns) /\ dns = <<params.dns>>
      BY <2>2, <2>3, <2>5, ResolverCases
    <3>3. ~Parses(params.dns)
      BY <2>2, <3>2
    <3>4. PICK t \in Texts : t = params.dns
      BY <3>1
    <3>5. \/ t.form = "dotted"
          \/ t.form = "groups" /\ t.before + t.after > 7
      <4>1. CASE t.form = "dotted"
        BY <4>1
      <4>2. CASE t.form = "groups"
        <5>1. t.before \in Nat /\ t.after \in Nat
          <6>1. t \in Groups
            BY <4>2 DEF Texts, Dotted, Other
          <6>2. t.before \in 0 .. MaxGroups /\ t.after \in 0 .. MaxGroups
            <7>1. 0 \in 0 .. MaxGroups
              BY DEF MaxGroups
            <7>2. QED
              BY <6>1, <7>1 DEF Groups
          <6>3. QED
            BY <6>2 DEF MaxGroups
        <5>2. QED
          BY <3>2, <3>3, <3>4, <4>2, <5>1 DEF is_ip_address, is_ipv4_address,
             is_ipv6_address, Parses, ParsesAsIPv6
      <4>3. QED
        BY <3>2, <3>4, <4>1, <4>2 DEF is_ip_address, is_ipv4_address, is_ipv6_address
    <3>6. QED
      BY <3>1, <3>3, <3>4, <3>5
  <2>6. QED
    BY <2>4, <2>5
<1>2. QED
  BY <1>1, InvHolds, PTL

-----------------------------------------------------------------------------
(***************************************************************************)
(* After an interrupt every step brings the process nearer to its end.     *)
(***************************************************************************)

\* serve() holds its socket, and a signal or an error has closed it.
Interrupted == pc \notin Setup /\ server = -1

\* The places of the thread in the order of its way to the end
Rank ==
    CASE pc = "bind"       -> 12
      [] pc = "listen"     -> 11
      [] pc = "poller"     -> 10
      [] pc = "register"   -> 9
      [] pc = "poll"       -> 8
      [] pc = "blocked"    -> 7
      [] pc = "dispatch"   -> 6
      [] pc = "second"     -> 6
      [] pc = "close"      -> 5
      [] pc = "forget"     -> 4
      [] pc = "test"       -> 3
      [] pc = "unregister" -> 2
      [] pc = "delete"     -> 1
      [] OTHER             -> 0

\* Further on the way, or with fewer events to dispatch, or back to them from the
\* second socket of an association
Nearer ==
    \/ Rank' < Rank
    \/ Rank' = Rank /\ events' \subseteq events /\ events' # events
    \/ /\ Rank' = Rank /\ events' \subseteq events
       /\ pc = "second" /\ pc' = "dispatch"

EndsNearer == Interrupted => Interrupted' /\ Nearer

LEMMA RankFacts ==
    /\ pc = "bind" => Rank = 12
    /\ pc = "listen" => Rank = 11
    /\ pc = "poller" => Rank = 10
    /\ pc = "register" => Rank = 9
    /\ pc = "poll" => Rank = 8
    /\ pc = "blocked" => Rank = 7
    /\ pc \in {"dispatch", "second"} => Rank = 6
    /\ pc = "close" => Rank = 5
    /\ pc = "forget" => Rank = 4
    /\ pc = "test" => Rank = 3
    /\ pc = "unregister" => Rank = 2
    /\ pc = "delete" => Rank = 1
    /\ pc \in Ends \cup Setup => Rank = 0
BY DEF Rank, Ends, Setup

LEMMA RankFactsPrime ==
    /\ pc' = "bind" => Rank' = 12
    /\ pc' = "listen" => Rank' = 11
    /\ pc' = "poller" => Rank' = 10
    /\ pc' = "register" => Rank' = 9
    /\ pc' = "poll" => Rank' = 8
    /\ pc' = "blocked" => Rank' = 7
    /\ pc' \in {"dispatch", "second"} => Rank' = 6
    /\ pc' = "close" => Rank' = 5
    /\ pc' = "forget" => Rank' = 4
    /\ pc' = "test" => Rank' = 3
    /\ pc' = "unregister" => Rank' = 2
    /\ pc' = "delete" => Rank' = 1
    /\ pc' \in Ends \cup Setup => Rank' = 0
BY DEF Rank, Ends, Setup

LEMMA EndsNotSetup == Ends \cap Setup = {}
BY DEF Ends, Setup

\* What is left to do there, when nothing is left to open
Onward == server' = -1 /\ pc' \notin Setup /\ Nearer

LEMMA ThrowNearer ==
    ASSUME Throw, server = -1, pc \notin Setup \cup Ends, TypeOK
    PROVE  Onward
<1>1. pc' = "threw" /\ server' = server
  BY DEF Throw, Goto
<1>2. "threw" \in Ends /\ "threw" \notin Setup
  BY DEF Ends, Setup
<1>3. Rank' = 0
  BY <1>1, <1>2, RankFactsPrime
<1>4. Rank \in 1 .. 12
  BY RankFacts DEF TypeOK, PCs, Setup, Ends
<1> QED
  BY <1>1, <1>2, <1>3, <1>4 DEF Onward, Nearer

\* A closed number that is none changes nothing.
LEMMA ClosesNothing ==
    ASSUME TypeOK, CloseAll({-1})
    PROVE  file' = file /\ watched' = watched
<1>1. \A d \in Fds : d \notin {-1}
  BY NotMinusOne
<1>2. file' = [d \in Fds |-> file[d]]
  BY <1>1 DEF CloseAll
<1>3. file = [d \in Fds |-> file[d]]
  BY DEF TypeOK
<1>4. watched' = watched
  BY <1>1 DEF CloseAll, TypeOK
<1> QED
  BY <1>2, <1>3, <1>4

LEMMA ServeNearer ==
    ASSUME TypeOK, server = -1, pc \notin Setup \cup Ends,
           \/ Bind \/ Listen \/ CreatePoller \/ RegisterListener \/ TestServing
           \/ Block \/ PollReturns \/ PollFails
    PROVE  Onward
<1>1. ~IsListener(server)
  BY NotMinusOne DEF IsListener
<1>2. CASE Bind
  BY <1>1, <1>2, ThrowNearer DEF Bind
<1>3. CASE Listen
  BY <1>3, RankFacts, RankFactsPrime DEF Listen, Goto, Onward, Nearer, Setup
<1>4. CASE CreatePoller
  <2>1. CASE Throw
    BY <2>1, ThrowNearer
  <2>2. CASE pc = "poller" /\ Goto("register") /\ UNCHANGED server
    BY <2>2, RankFacts, RankFactsPrime DEF Goto, Onward, Nearer, Setup
  <2> QED
    BY <1>4, <2>1, <2>2 DEF CreatePoller
<1>5. CASE RegisterListener
  <2>1. pc = "register" /\ pc' \in {"test", "close"} /\ server' = server
    BY <1>5 DEF RegisterListener, CallStop, Goto
  <2> QED
    BY <2>1, RankFacts, RankFactsPrime DEF Onward, Nearer, Setup
<1>6. CASE TestServing
  <2>1. pc = "test" /\ pc' = "unregister" /\ server' = server
    BY <1>6 DEF TestServing, Goto
  <2> QED
    BY <2>1, RankFacts, RankFactsPrime DEF Onward, Nearer, Setup
<1>7. CASE Block
  BY <1>7, RankFacts, RankFactsPrime DEF Block, Goto, Onward, Nearer, Setup
<1>8. CASE PollReturns \/ PollFails
  <2>1. /\ pc = "blocked" /\ pc' \in {"dispatch", "unregister", "close"}
        /\ server' = server
    BY <1>8 DEF PollReturns, PollFails, CallStop, Goto
  <2> QED
    BY <2>1, RankFacts, RankFactsPrime DEF Onward, Nearer, Setup
<1> QED
  BY <1>2, <1>3, <1>4, <1>5, <1>6, <1>7, <1>8

LEMMA DispatchNearer ==
    ASSUME TypeOK, server = -1, pc = "dispatch",
           \/ AcceptClient \/ ServerFault \/ EndOfBatch
           \/ \E o \in Sockets : Handler(o)
    PROVE  Onward
<1>1. "dispatch" \notin Setup \cup Ends /\ "second" \notin Setup \cup Ends
  BY DEF Setup, Ends
<1>2. ASSUME Throw PROVE Onward
  BY <1>1, <1>2, ThrowNearer
<1>3. ASSUME NEW e \in events, e \notin events', events' \subseteq events,
             pc' \in {"dispatch", "second"}, UNCHANGED server
      PROVE  Onward
  <2>1. Rank' = Rank
    BY <1>3, RankFacts, RankFactsPrime
  <2> QED
    BY <1>1, <1>3, <2>1 DEF Onward, Nearer
<1>4. ASSUME pc' \in {"close", "test", "threw", "unresolvable"}, UNCHANGED server
      PROVE  Onward
  <2>1. "unresolvable" \in Ends /\ "threw" \in Ends
    BY DEF Ends
  <2> QED
    BY <1>4, <2>1, RankFacts, RankFactsPrime DEF Onward, Nearer, Setup
<1>5. CASE AcceptClient
  <2>1. ~IsListener(server)
    BY NotMinusOne DEF IsListener
  <2> QED
    BY <1>2, <1>5, <2>1 DEF AcceptClient
<1>6. CASE ServerFault \/ EndOfBatch
  BY <1>4, <1>6 DEF ServerFault, EndOfBatch, CallStop, Goto
<1>7. ASSUME NEW o \in Sockets, Handler(o) PROVE Onward
  <2>1. o \in events /\ UNCHANGED server /\ o[1] \in Sessions
    BY <1>7, HandlerKinds, Places
  <2>2. CASE Ended
    BY <1>4, <2>1, <2>2 DEF Ended
  <2>3. CASE pc' = "dispatch" /\ Done(o)
    BY <1>3, <2>1, <2>3 DEF Done
  <2>4. CASE pc' = "dispatch" /\ Delete(o[1])
    <3>1. \A e \in events' : e \in events /\ e[1] # o[1]
      BY <2>1, <2>4, DeleteFacts
    <3> QED
      BY <1>3, <2>1, <2>4, <3>1
  <2>5. ASSUME NEW r, Opened(o, r) PROVE Onward
    BY <1>3, <2>1, <2>5 DEF Opened, Done
  <2> QED
    BY <1>7, <2>2, <2>3, <2>4, <2>5, HandlerKinds
<1> QED
  BY <1>5, <1>6, <1>7

LEMMA SecondNearer ==
    ASSUME TypeOK, server = -1, NEW s \in Sessions, SecondSocket(s)
    PROVE  Onward
<1>1. pc = "second" /\ pc \notin Setup \cup Ends /\ "dispatch" \notin Setup
  BY DEF SecondSocket, Setup, Ends
<1>2. CASE Throw
  BY <1>1, <1>2, ThrowNearer
<1>3. CASE ~Throw
  <2>1. pc' = "dispatch" /\ UNCHANGED server /\ events' \subseteq events
    BY <1>3 DEF SecondSocket, Goto, Delete
  <2>2. Rank' = Rank
    BY <1>1, <2>1, RankFacts, RankFactsPrime
  <2> QED
    BY <1>1, <2>1, <2>2 DEF Onward, Nearer
<1> QED
  BY <1>2, <1>3

LEMMA StopNearer ==
    ASSUME TypeOK, server = -1,
           Unregister \/ DeleteSessions \/ CloseListener \/ ForgetListener
    PROVE  Onward
<1>1. "returned" \in Ends /\ "returned" \notin Setup
  BY DEF Ends, Setup
<1>2. CASE Unregister
  BY <1>2, RankFacts, RankFactsPrime DEF Unregister, Goto, Onward, Nearer, Setup
<1>3. CASE DeleteSessions
  <2>1. pc = "delete" /\ pc' = "returned" /\ server' = server
    BY <1>3 DEF DeleteSessions, Goto
  <2> QED
    BY <1>1, <2>1, RankFacts, RankFactsPrime DEF Onward, Nearer
<1>4. CASE CloseListener
  BY <1>4, RankFacts, RankFactsPrime DEF CloseListener, Goto, Onward, Nearer, Setup
<1>5. CASE ForgetListener
  <2>1. pc = "forget" /\ pc' \in {"test", "returned"} /\ server' = -1
    BY <1>5 DEF ForgetListener, Goto, Closed, TypeOK
  <2> QED
    BY <1>1, <2>1, RankFacts, RankFactsPrime DEF Onward, Nearer, Setup
<1> QED
  BY <1>2, <1>3, <1>4, <1>5

LEMMA SignalNearer ==
    ASSUME TypeOK, server = -1, pc \notin Setup, Sigint, vars' # vars
    PROVE  Onward
<1>1. CASE ~handler
  <2>1. pc' = "killed" /\ server' = server /\ pc \notin Ends
    BY <1>1 DEF Sigint, Goto
  <2>2. "killed" \in Ends /\ "killed" \notin Setup
    BY DEF Ends, Setup
  <2>3. Rank' = 0
    BY <2>1, <2>2, RankFactsPrime
  <2>4. Rank \in 1 .. 12
    BY <2>1, RankFacts DEF TypeOK, PCs, Setup, Ends
  <2> QED
    BY <2>1, <2>2, <2>3, <2>4 DEF Onward, Nearer
<1>2. CASE handler
  <2>1. /\ CloseAll({-1}) /\ server' = -1
        /\ pc' = pc \/ (pc = "blocked" /\ pc' = "unregister")
        /\ UNCHANGED <<back, settings, saved, temporary, held, events>>
    BY <1>2 DEF Sigint, Closed, Goto
  <2>2. file' = file /\ watched' = watched
    BY <2>1, ClosesNothing
  <2>3. pc' # pc
    BY <2>1, <2>2 DEF vars, settings
  <2> QED
    BY <2>1, <2>3, RankFacts, RankFactsPrime DEF Onward, Nearer, Setup
<1> QED
  BY <1>1, <1>2

LEMMA StepNearer ==
    ASSUME TypeOK, [Next]_vars
    PROVE  [EndsNearer]_vars
<1> SUFFICES ASSUME Next, vars' # vars, pc \notin Setup, server = -1
             PROVE  Onward
  BY DEF EndsNearer, Interrupted, Onward
<1>1. pc \notin Ends
  BY EndsAreFinal
<1>2. ~Construct /\ ~PrepareSigint /\ ~OpenListener /\ ~Assign
  BY DEF Construct, PrepareSigint, OpenListener, Assign, Setup
<1>3. CASE \/ AcceptClient \/ ServerFault \/ EndOfBatch
           \/ \E o \in Sockets : Handler(o)
  <2>1. pc = "dispatch"
    BY <1>3, HandlerKinds DEF AcceptClient, ServerFault, EndOfBatch
  <2> QED
    BY <1>3, <2>1, DispatchNearer
<1> QED
  BY <1>1, <1>2, <1>3, ServeNearer, SecondNearer, StopNearer, SignalNearer DEF Next, Run

\* Once serve() holds its socket and an interrupt or an error has closed it,
\* nothing opens it again, and every step, also a further interrupt, brings the
\* process nearer to its end: it polls at most once more, and of one batch each
\* event is dispatched once at most (Server::serve(), Server::stop()).
THEOREM EndInSight == Spec => [][EndsNearer]_vars
<1>1. TypeOK /\ [Next]_vars => [EndsNearer]_vars
  BY StepNearer
<1> QED
  BY <1>1, ProcessTypeCorrect, PTL DEF Spec
=============================================================================
