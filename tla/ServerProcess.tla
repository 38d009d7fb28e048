--------------------------- MODULE ServerProcess ---------------------------
(***************************************************************************)
(* The process from main() to its end, seen at its descriptors: the        *)
(* parameters become settings, serve() opens and registers the listening   *)
(* socket, sessions open, register, forget and close theirs, and SIGINT    *)
(* closes the listening socket through the same Socket object that serve() *)
(* works with.  The kernel gives out the lowest free number, so a number   *)
(* that was closed soon denotes something else.  The system is POSIX:      *)
(* epoll, resolv.conf, and a poll() that never times out.                  *)
(***************************************************************************)
EXTENDS AddressText, Integers, Sequences, FiniteSetsExt

CONSTANTS
    Fds,            \* descriptors the process may have: 0 .. limit
    Sessions,       \* addresses of Session objects
    Listens,        \* texts given as --listen-ip
    Customs,        \* texts given as --dns-ip, other than "none" and "auto"
    ResolvFiles,    \* nameservers of /etc/resolv.conf
    MaxBatch        \* events that one poll() reports

ASSUME ProcessAssumption ==
    /\ Fds \subseteq Nat /\ 0 \in Fds
    /\ Listens \subseteq Texts /\ Customs \subseteq Texts
    /\ ResolvFiles \subseteq Seq(Texts)
    /\ "server" \notin Sessions
    /\ MaxBatch \in Nat

\* The SessionSockets of a session, each with its place in the Session
Roles == {"client", "dns", "remote", "udp"}
Sockets == Sessions \X Roles

\* An event points to a SessionSocket, or to the server.
ServerEvent == <<"server", "listener">>

\* The words of --dns-ip that are no address
AutoDns == [form |-> "auto"]
NoDns == [form |-> "none"]

VARIABLES
    pc,         \* the next system call, or event, of the thread
    back,       \* where stop() returns to
    params,     \* the command line and the nameservers of the system
    dns,        \* _params.dns_ip: a sequence of one text, or empty
    handler,    \* SIGINT runs sigint_handler()
    file,       \* kernel: what a descriptor denotes
    watched,    \* kernel: descriptors in the epoll set
    server,     \* _fd of _server_socket
    saved,      \* server_sock, the number it had when it was registered
    temporary,  \* _fd of the Socket that open_tcp() returned, or -1
    held,       \* _fd of each SessionSocket, -1 for one that is not there
    events      \* events of the batch that are to be dispatched

vars == <<pc, back, params, dns, handler, file, watched, server, saved,
          temporary, held, events>>

settings == <<params, dns, handler>>
kernel   == <<file, watched>>

Files  == {"none", "stdio", "epoll", "listener", "session"}
Setup  == {"construct", "signal", "open", "assign"}
Ends   == {"returned", "threw", "unresolvable", "killed"}
PCs    == Setup \cup Ends \cup
          {"bind", "listen", "poller", "register", "test", "poll", "blocked",
           "dispatch", "second", "close", "forget", "unregister", "delete"}

MaybeFd == Fds \cup {-1}

TypeOK ==
    /\ pc \in PCs
    /\ back \in {"test", "returned"}
    /\ params \in [listen : Listens, dns : Customs \cup {AutoDns, NoDns},
                   nameservers : ResolvFiles]
    /\ dns \in Seq(Texts) /\ Len(dns) <= 1
    /\ handler \in BOOLEAN
    /\ file \in [Fds -> Files]
    /\ watched \subseteq {d \in Fds : file[d] \in {"listener", "session"}}
    /\ server \in MaybeFd /\ saved \in MaybeFd /\ temporary \in MaybeFd
    /\ held \in [Sockets -> MaybeFd]
    /\ events \subseteq Sockets \cup {ServerEvent}

\* _server_socket is not initialised: its _fd is any number.
Init ==
    /\ pc = "construct"
    /\ back = "test"
    /\ params \in [listen : Listens, dns : Customs \cup {AutoDns, NoDns},
                   nameservers : ResolvFiles]
    /\ dns = <<>>
    /\ handler = FALSE
    /\ file = [d \in Fds |-> IF d = 0 THEN "stdio" ELSE "none"]
    /\ watched = {}
    /\ server \in MaybeFd
    /\ saved = -1
    /\ temporary = -1
    /\ held = [o \in Sockets |-> -1]
    /\ events = {}

-----------------------------------------------------------------------------
(* Descriptors *)

FreeFds   == {d \in Fds : file[d] = "none"}
LowestFree == Min(FreeFds)

\* The kernel opens what the next free number denotes from then on.
Open(what) == file' = [file EXCEPT ![LowestFree] = what]

\* ::close() of every d in ds: -1 and numbers that are free are errors only.
CloseAll(ds) ==
    /\ file' = [d \in Fds |-> IF d \in ds THEN "none" ELSE file[d]]
    /\ watched' = watched \ ds

\* Mutated form: the Socket that was moved from closes the descriptor.
AdoptCopied(o, d) ==
    /\ held' = [held EXCEPT ![o] = d]
    /\ UNCHANGED file

\* The descriptor d, just opened, is moved into the Socket of o: the Socket it
\* was moved from closes nothing.
Adopt(o, d) ==
    /\ held' = [held EXCEPT ![o] = d]
    /\ file' = [file EXCEPT ![d] = "session"]

Goto(there) == pc' = there

\* An exception: nobody catches it.
Throw == Goto("threw") /\ UNCHANGED <<back, settings, kernel, server, saved,
                                      temporary, held, events>>

-----------------------------------------------------------------------------
(* Server::Server() and the beginning of Server::serve() *)

First(list) == IF list = <<>> THEN <<>> ELSE <<list[1]>>

\* Mutated form: the address that is given is not looked at.
ResolverUnchecked(p) ==
    CASE p.dns = NoDns -> <<>>
      [] p.dns = AutoDns -> First(p.nameservers)
      [] OTHER -> <<p.dns>>

\* The name server: none, the first of the system, whatever it is, or the one
\* that is given if is_ip_address() knows it
Resolver(p) ==
    CASE p.dns = NoDns -> <<>>
      [] p.dns = AutoDns -> First(p.nameservers)
      [] OTHER -> IF is_ip_address(p.dns) THEN <<p.dns>> ELSE <<>>

Construct ==
    /\ pc = "construct"
    /\ dns' = Resolver(params)
    /\ Goto("signal")
    /\ UNCHANGED <<back, params, handler, kernel, server, saved, temporary,
                   held, events>>

PrepareSigint ==
    /\ pc = "signal"
    /\ handler' = TRUE
    /\ Goto("open")
    /\ UNCHANGED <<back, params, dns, kernel, server, saved, temporary, held,
                   events>>

\* Socket::open_tcp(), the result of which is in no member yet
OpenListener ==
    /\ pc = "open"
    /\ FreeFds # {}
    /\ Open("listener")
    /\ temporary' = LowestFree
    /\ Goto("assign")
    /\ UNCHANGED <<back, settings, watched, server, saved, held, events>>

\* _server_socket = ..., which closes nothing: the number that was there before is
\* overwritten, and the temporary has given its own away when it is destroyed.
Assign ==
    /\ pc = "assign"
    /\ server' = temporary
    /\ temporary' = -1
    /\ Goto("bind")
    /\ UNCHANGED <<back, settings, kernel, saved, held, events>>

IsListener(fd) == fd \in Fds /\ file[fd] = "listener"

\* The socket is an IPv4 one: any other address, a port in use and a descriptor
\* that is closed are errors.
Bind ==
    /\ pc = "bind"
    /\ \/ /\ IsListener(server)
          /\ ParsesAsIPv4(params.listen)
          /\ Goto("listen")
          /\ UNCHANGED <<back, settings, kernel, server, saved, temporary, held, events>>
       \/ Throw

\* The result of ::listen() is not looked at.
Listen ==
    /\ pc = "listen"
    /\ Goto("poller")
    /\ UNCHANGED <<back, settings, kernel, server, saved, temporary, held, events>>

\* Poller poller; int server_sock = ...
CreatePoller ==
    /\ pc = "poller"
    /\ IF FreeFds = {} THEN Throw
       ELSE /\ Open("epoll")
            /\ saved' = server
            /\ Goto("register")
            /\ UNCHANGED <<back, settings, watched, server, temporary, held, events>>

\* stop(), step by step
CallStop(then) == Goto("close") /\ back' = then

RegisterListener ==
    /\ pc = "register"
    /\ IF IsListener(saved)
       THEN /\ watched' = watched \cup {saved}
            /\ Goto("test")
            /\ UNCHANGED back
       ELSE CallStop("returned") /\ UNCHANGED watched
    /\ UNCHANGED <<settings, file, server, saved, temporary, held, events>>

-----------------------------------------------------------------------------
(* The loop *)

\* Mutated form: the condition of the loop is forgotten.
TestServingAlways ==
    /\ pc = "test"
    /\ Goto("poll")
    /\ UNCHANGED <<back, settings, kernel, server, saved, temporary, held, events>>

\* while (is_serving())
TestServing ==
    /\ pc = "test"
    /\ Goto(IF server # -1 THEN "poll" ELSE "unregister")
    /\ UNCHANGED <<back, settings, kernel, server, saved, temporary, held, events>>

\* epoll_wait() is entered: it returns for an event or a signal only.
Block ==
    /\ pc = "poll"
    /\ Goto("blocked")
    /\ UNCHANGED <<back, settings, kernel, server, saved, temporary, held, events>>

Live == {s \in Sessions : held[<<s, "client">>] # -1}

\* Clients come while there is room for a session.
Ready ==
    {o \in Sockets : held[o] \in watched}
    \cup IF Live # Sessions /\ \E d \in watched : file[d] = "listener"
         THEN {ServerEvent} ELSE {}

PollReturns ==
    /\ pc = "blocked"
    /\ events' \in SUBSET Ready \ {{}}
    /\ Cardinality(events') <= MaxBatch
    /\ Goto("dispatch")
    /\ UNCHANGED <<back, settings, kernel, server, saved, temporary, held>>

\* A signal other than SIGINT, or an error, which calls stop()
PollFails ==
    /\ pc = "blocked"
    /\ \/ Goto("unregister") /\ UNCHANGED back
       \/ CallStop("test")
    /\ UNCHANGED <<settings, kernel, server, saved, temporary, held, events>>

Done(e) == events' = events \ {e}

\* accept() fails on a descriptor that is closed, without a free one, and if
\* the client has left.
AcceptClient ==
    /\ pc = "dispatch"
    /\ ServerEvent \in events
    /\ \/ /\ IsListener(server)
          /\ FreeFds # {}
          /\ Adopt(<<CHOOSE s \in Sessions : s \notin Live, "client">>, LowestFree)
          /\ watched' = watched \cup {LowestFree}
          /\ Done(ServerEvent)
          /\ UNCHANGED <<pc, back, settings, server, saved, temporary>>
       \/ Throw

\* stop() and break
ServerFault ==
    /\ pc = "dispatch"
    /\ ServerEvent \in events
    /\ CallStop("test")
    /\ events' = {}
    /\ UNCHANGED <<settings, kernel, server, saved, temporary, held>>

\* The session has its client and nothing else.
Idle(s) == \A r \in Roles \ {"client"} : held[<<s, r>>] = -1

\* It waits for the answer to its query.
Resolving(s) ==
    held[<<s, "dns">>] # -1 /\ held[<<s, "remote">>] = -1 /\ held[<<s, "udp">>] = -1

\* _do_command() runs for a request with an address, and for an answer.
Commands(o) == o[2] = "dns" \/ (o[2] = "client" /\ Idle(o[1]))

\* Mutated form: the client's socket is unregistered.
UnheardClient(o) == IF o[2] = "dns" THEN {held[<<o[1], "client">>]} ELSE {}

\* What an event's handler unregisters before the command: process_dns_event()
\* the socket of the answer, which stays open
Unheard(o) == IF o[2] = "dns" THEN {held[o]} ELSE {}

\* Command::Connect: one socket, registered or, if no connect attempt could be
\* made, which _do_command() does not look at, not
HandlerConnects(o) ==
    /\ pc = "dispatch"
    /\ o \in events
    /\ Commands(o)
    /\ FreeFds # {}
    /\ Adopt(<<o[1], "remote">>, LowestFree)
    /\ \/ watched' = (watched \ Unheard(o)) \cup {LowestFree}
       \/ watched' = watched \ Unheard(o)
    /\ Done(o)
    /\ UNCHANGED <<pc, back, settings, server, saved, temporary>>

\* Command::UdpAssociate: two sockets are opened before one is registered.
HandlerAssociates(o) ==
    /\ pc = "dispatch"
    /\ o \in events
    /\ Commands(o)
    /\ FreeFds # {}
    /\ Adopt(<<o[1], "udp">>, LowestFree)
    /\ watched' = watched \ Unheard(o)
    /\ Goto("second")
    /\ Done(o)
    /\ UNCHANGED <<back, settings, server, saved, temporary>>

\* _delete_session() closes the sockets of s, and later events of the batch that
\* point to them are skipped.
Delete(s) ==
    /\ CloseAll({held[<<s, r>>] : r \in Roles})
    /\ held' = [o \in Sockets |-> IF o[1] = s THEN -1 ELSE held[o]]
    /\ events' = {e \in events : e[1] # s}

\* The second one throws, or _associate() registers both, or it fails, so that
\* both are closed and the session ends.
SecondSocket(s) ==
    /\ pc = "second"
    /\ held[<<s, "udp">>] # -1
    /\ held[<<s, "remote">>] = -1
    /\ \/ Throw
       \/ /\ FreeFds # {}
          /\ \/ /\ Adopt(<<s, "remote">>, LowestFree)
                /\ watched' = watched \cup {held[<<s, "udp">>], LowestFree}
                /\ UNCHANGED events
             \/ Delete(s)
          /\ Goto("dispatch")
          /\ UNCHANGED <<back, settings, server, saved, temporary>>

\* _resolve_domain_name(): IPAddress throws for what is no address.  A query that
\* is not sent ends the session.
HandlerResolves(o) ==
    /\ pc = "dispatch"
    /\ o \in events
    /\ o[2] = "client"
    /\ Idle(o[1])
    /\ dns # <<>>
    /\ IF Parses(dns[1])
       THEN /\ FreeFds # {}
            /\ Adopt(<<o[1], "dns">>, LowestFree)
            /\ watched' = watched \cup {LowestFree}
            /\ Done(o)
            /\ UNCHANGED <<pc, back, settings, server, saved, temporary>>
       ELSE /\ Goto("unresolvable")
            /\ UNCHANGED <<back, settings, kernel, server, saved, temporary, held,
                           events>>

\* The handler returns true: not for an answer without a command, nor for what
\* a client says meanwhile.
HandlerKeeps(o) ==
    /\ pc = "dispatch"
    /\ o \in events
    /\ ~Resolving(o[1])
    /\ Done(o)
    /\ UNCHANGED <<pc, back, settings, kernel, server, saved, temporary, held>>

\* The handler returns false.
HandlerDrops(o) ==
    /\ pc = "dispatch"
    /\ o \in events
    /\ Delete(o[1])
    /\ UNCHANGED <<pc, back, settings, server, saved, temporary>>

\* socket() fails, or another call whose failure is an exception.
HandlerThrows(o) ==
    /\ pc = "dispatch"
    /\ o \in events
    /\ Throw

Handler(o) ==
    \/ HandlerConnects(o) \/ HandlerAssociates(o) \/ HandlerResolves(o)
    \/ HandlerKeeps(o) \/ HandlerDrops(o) \/ HandlerThrows(o)

EndOfBatch ==
    /\ pc = "dispatch"
    /\ events = {}
    /\ Goto("test")
    /\ UNCHANGED <<back, settings, kernel, server, saved, temporary, held, events>>

-----------------------------------------------------------------------------
(* The end *)

\* The number the listening socket had may be that of a session's by now.
Unregister ==
    /\ pc = "unregister"
    /\ watched' = watched \ {saved}
    /\ Goto("delete")
    /\ UNCHANGED <<back, settings, file, server, saved, temporary, held, events>>

\* _delete_all_sessions(), and stop() if the loop did not end by it
DeleteSessions ==
    /\ pc = "delete"
    /\ CloseAll({held[o] : o \in Sockets})
    /\ held' = [o \in Sockets |-> -1]
    /\ IF server # -1 THEN CallStop("returned") ELSE Goto("returned") /\ UNCHANGED back
    /\ UNCHANGED <<settings, server, saved, temporary, events>>

\* Mutated form: the number stays in the Socket.
ClosedKept(fd) == fd

\* What Socket::close() leaves in the Socket
Closed(fd) == -1

\* Socket::close(), in two steps: SIGINT may come between them.
CloseListener ==
    /\ pc = "close"
    /\ CloseAll({server})
    /\ Goto("forget")
    /\ UNCHANGED <<back, settings, server, saved, temporary, held, events>>

ForgetListener ==
    /\ pc = "forget"
    /\ server' = Closed(server)
    /\ Goto(back)
    /\ UNCHANGED <<back, settings, kernel, saved, temporary, held, events>>

\* sigint_handler(), or the default action before it is installed.  A thread
\* that is blocked in epoll_wait() is woken, one that is about to enter it is not.
Sigint ==
    /\ pc \notin Ends
    /\ IF handler
       THEN /\ CloseAll({server})
            /\ server' = Closed(server)
            /\ Goto(IF pc = "blocked" THEN "unregister" ELSE pc)
       ELSE /\ Goto("killed")
            /\ UNCHANGED <<kernel, server>>
    /\ UNCHANGED <<back, settings, saved, temporary, held, events>>

Run ==
    \/ Construct \/ PrepareSigint \/ OpenListener \/ Assign \/ Bind \/ Listen
    \/ CreatePoller \/ RegisterListener
    \/ TestServing \/ Block \/ AcceptClient \/ ServerFault
    \/ \E o \in Sockets : Handler(o)
    \/ \E s \in Sessions : SecondSocket(s)
    \/ EndOfBatch
    \/ Unregister \/ DeleteSessions \/ CloseListener \/ ForgetListener

Next == Run \/ PollReturns \/ PollFails \/ Sigint

\* The thread runs; clients, peers and signals may stay away.
Spec == Init /\ [][Next]_vars /\ WF_vars(Run)

-----------------------------------------------------------------------------
\* From the moment it holds the listening socket, the Socket that a signal
\* closes denotes that socket or nothing: never the client, the remote host or
\* the poller that got the number after it (Server::stop(), Socket::close()).
StopClosesOwn ==
    (pc \notin Setup \cup Ends /\ server # -1) =>
        \/ file[server] = "listener"
        \/ file[server] = "none" /\ pc \in {"bind", "forget"}

\* Every socket that is open is in exactly one Socket object, and every Socket
\* object of a session is open: none leaks and none is closed under its owner,
\* whatever is moved, deleted or interrupted, also between the two sockets of an
\* association and after a command that failed (Socket, SessionSocket).
EachHeldOnce ==
    pc \notin Setup \cup Ends \cup {"bind", "forget"} =>
        /\ \A d \in Fds :
              /\ file[d] = "listener" <=> server = d
              /\ file[d] = "session" <=> \E o \in Sockets : held[o] = d
        /\ \A o, p \in Sockets : held[o] = held[p] /\ held[o] # -1 => o = p

\* Until all sessions are deleted, each hears its client, and the answer that it
\* waits for: no session is left that nothing can wake.  The number that
\* serve() saved and removes from the poller may be a session's by then, but
\* none is served any more (Server::serve(), Session::process_dns_event()).
SessionsStayWatched ==
    pc \notin Ends \cup {"delete"} =>
        \A s \in Live :
           /\ held[<<s, "client">>] \in watched
           /\ Resolving(s) => held[<<s, "dns">>] \in watched

\* A lookup ends the process (IPAddress::IPAddress()) only for a name server
\* that the system has badly written down, or for an address that the patterns
\* of is_ip_address() know and inet_pton() does not.
LookupsSurvive ==
    pc = "unresolvable" =>
        \/ params.dns = AutoDns /\ ~Parses(params.nameservers[1])
        \/ /\ params.dns \in Customs
           /\ ~Parses(params.dns)
           /\ \/ params.dns.form = "dotted"
              \/ params.dns.form = "groups" /\ params.dns.before + params.dns.after > 7

\* Once serve() holds its socket, an interrupt ends the process, whatever step
\* of setting up, serving or stopping it comes before, also if epoll_wait() is
\* blocked.  Only the one that comes between the test of the loop and
\* epoll_wait(), which has no timeout here, is not seen until a client comes.
InterruptEnds == (pc \notin Setup \cup {"poll", "blocked"} /\ server = -1) ~> pc \in Ends
=============================================================================
