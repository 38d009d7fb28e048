------------------------------ MODULE EventLoop ------------------------------
(***************************************************************************)
(* Server::serve(): the single-threaded loop that polls, dispatches the    *)
(* events of one batch in order, creates a Session for each accepted       *)
(* client and destroys a Session whose handler returned false - while      *)
(* SIGINT may close the listening socket between any two steps.            *)
(*                                                                         *)
(* A Session is an address (a Slot of the heap, reused after delete), an   *)
(* event pointer is <<slot, kind>>: the SessionSocket of that kind of the  *)
(* Session at that address.  What a handler does inside its own session is *)
(* left to module Session; here it may open and register the sockets the   *)
(* session code opens, and it returns true, returns false or throws.       *)
(***************************************************************************)
EXTENDS Naturals, Sequences

CONSTANTS
    Slots,      \* addresses a Session may be allocated at: bounds live sessions
    Server,     \* tag of the pointer of the listening socket's event
    Null,       \* tag of the null pointer
    MaxBatch,   \* POLL_BATCH
    TimedPoll   \* SOCKSPP_POLL_TIMEOUT: TRUE = 2000 ms (Windows), FALSE = -1

ASSUME EventLoopAssumption ==
    /\ Server \notin Slots
    /\ Null \notin Slots
    /\ Server # Null
    /\ MaxBatch \in Nat \ {0}
    /\ TimedPoll \in BOOLEAN

VARIABLES
    pc,          \* where serve() stands
    listening,   \* is_serving(): the listening descriptor is not -1
    sessions,    \* _sessions
    socks,       \* SessionSocket objects each session owns
    registered,  \* pointers the poller may return
    batch,       \* events, as filled by the last poll()
    idx,         \* loop index i, from 1
    born         \* history: sessions allocated since the last poll()

vars == <<pc, listening, sessions, socks, registered, batch, idx, born>>

Kinds    == {"client", "remote", "udp", "dns"}
Pointers == Slots \X Kinds
NullPtr  == <<Null, "null">>
Events   == Pointers \cup ({Server} \X {"read", "error"}) \cup {NullPtr}

PCs == {"start", "test", "calling", "waiting", "dispatch", "stopping",
        "stopped", "terminated"}

TypeOK ==
    /\ pc \in PCs
    /\ listening \in BOOLEAN
    /\ sessions \subseteq Slots
    /\ socks \in [Slots -> SUBSET Kinds]
    /\ registered \subseteq Pointers
    /\ batch \in Seq(Events)
    /\ idx \in Nat \ {0}
    /\ born \subseteq Slots

Init ==
    /\ pc = "start"
    /\ listening = FALSE
    /\ sessions = {}
    /\ socks = [s \in Slots |-> {}]
    /\ registered = {}
    /\ batch = <<>>
    /\ idx = 1
    /\ born = {}

(***************************************************************************)
(* The loop up to the return of poll().                                    *)
(***************************************************************************)

\* bind() throws, or the listening socket cannot be registered and serve()
\* returns, or the loop begins.
Start ==
    /\ pc = "start"
    /\ \/ pc' = "terminated" /\ UNCHANGED listening
       \/ pc' = "stopped" /\ UNCHANGED listening
       \/ pc' = "test" /\ listening' = TRUE
    /\ UNCHANGED <<sessions, socks, registered, batch, idx, born>>

\* Mutated form: the loop condition is never re-evaluated.
TestServingOnce ==
    /\ pc = "test"
    /\ pc' = "calling"
    /\ batch' = <<>>
    /\ UNCHANGED <<listening, sessions, socks, registered, idx, born>>

\* while (is_serving()) { events.clear(); ...
TestServing ==
    /\ pc = "test"
    /\ pc' = IF listening THEN "calling" ELSE "stopping"
    /\ batch' = <<>>
    /\ UNCHANGED <<listening, sessions, socks, registered, idx, born>>

\* The thread enters epoll_wait(): a SIGINT before this step is not seen by it.
EnterPoll ==
    /\ pc = "calling"
    /\ pc' = "waiting"
    /\ UNCHANGED <<listening, sessions, socks, registered, batch, idx, born>>

\* Any registered socket may be ready.  The listening socket is reported
\* readable only while a Slot is free.
Ready ==
    registered \cup
        IF ~listening THEN {}
        ELSE {<<Server, "error">>} \cup
             IF sessions = Slots THEN {} ELSE {<<Server, "read">>}

\* epoll returns at most one event per descriptor.
OnePerDescriptor(b) ==
    \A i, j \in DOMAIN b :
        i # j => b[i] # b[j] /\ ~(b[i][1] = Server /\ b[j][1] = Server)

PollReturns ==
    /\ pc = "waiting"
    /\ \E n \in 1..MaxBatch : \E b \in [1..n -> Ready] :
          OnePerDescriptor(b) /\ batch' = b
    /\ pc' = "dispatch"
    /\ idx' = 1
    /\ born' = {}
    /\ UNCHANGED <<listening, sessions, socks, registered>>

\* res = 0: continue
PollTimesOut ==
    /\ pc = "waiting"
    /\ TimedPoll
    /\ pc' = "test"
    /\ UNCHANGED <<listening, sessions, socks, registered, batch, idx, born>>

\* res = -1: the loop ends, after a stop() unless errno is EINTR (a signal
\* other than SIGINT was handled)
PollFails ==
    /\ pc = "waiting"
    /\ pc' = "stopping"
    /\ listening' \in {FALSE, listening}
    /\ UNCHANGED <<sessions, socks, registered, batch, idx, born>>

(***************************************************************************)
(* Dispatch of batch[idx].                                                 *)
(***************************************************************************)
Current(e) == pc = "dispatch" /\ idx <= Len(batch) /\ batch[idx] = e

Terminate ==
    /\ pc' = "terminated"
    /\ UNCHANGED <<listening, sessions, socks, registered, batch, idx, born>>

\* The event of a session deleted earlier in this batch
SkipNull ==
    /\ Current(NullPtr)
    /\ idx' = idx + 1
    /\ UNCHANGED <<pc, listening, sessions, socks, registered, batch, born>>

\* _accept_client() and _create_new_session(): accept() on a descriptor that
\* stop() has set to -1 throws; so does a failed accept() or getpeername().
AcceptClient ==
    /\ Current(<<Server, "read">>)
    /\ \/ /\ listening
          /\ \E s \in Slots \ sessions :
                /\ sessions' = sessions \cup {s}
                /\ socks' = [socks EXCEPT ![s] = {"client"}]
                /\ registered' = registered \cup {<<s, "client">>}
                /\ born' = born \cup {s}
          /\ idx' = idx + 1
          /\ UNCHANGED <<pc, listening, batch>>
       \/ Terminate

\* An event of the listening socket without Read: stop() and break
ServerFault ==
    /\ Current(<<Server, "error">>)
    /\ pc' = "test"
    /\ listening' = FALSE
    /\ UNCHANGED <<sessions, socks, registered, batch, idx, born>>

\* The sockets a handler may open, by the socket whose event it handles.
Opens(k) ==
    CASE k = "client" -> {{}, {"dns"}, {"remote"}, {"remote", "udp"}}
      [] k = "dns"    -> {{}, {"remote"}, {"remote", "udp"}}
      [] OTHER        -> {{}}

\* Effect on s of a handler for its socket k: sockets are opened and
\* registered (a remote socket whose connect() failed at once is not), the
\* answered DNS socket is unregistered.
HandlerEffect(s, k) ==
    \E new \in Opens(k) : \E quiet \in {{}, {"remote"}} :
        /\ new \cap socks[s] = {}
        /\ quiet # {} => new = {"remote"}
        /\ socks' = [socks EXCEPT ![s] = @ \cup new]
        /\ registered' = (registered \ {<<s, "dns">> : d \in {k} \cap {"dns"}})
                             \cup ({s} \X (new \ quiet))

\* process_event() returned true
HandlerKeeps(s, k) ==
    /\ Current(<<s, k>>)
    /\ HandlerEffect(s, k)
    /\ idx' = idx + 1
    /\ UNCHANGED <<pc, listening, sessions, batch, born>>

\* Mutated form: only the event being handled is invalidated.
InvalidateCurrent(b, i, s) == [b EXCEPT ![i] = NullPtr]

\* Every event of session s from index i on becomes a null event.
Invalidate(b, i, s) ==
    [j \in DOMAIN b |-> IF j >= i /\ b[j][1] = s THEN NullPtr ELSE b[j]]

\* Mutated form: shutdown() forgets the DNS sockets.
PointersNotDns(s) == {s} \X (Kinds \ {"dns"})

\* The registrations that Session::shutdown() removes
PointersOf(s) == {s} \X Kinds

\* process_event() returned false: invalidate, shutdown(), erase, delete
HandlerDrops(s, k) ==
    /\ Current(<<s, k>>)
    /\ batch' = Invalidate(batch, idx, s)
    /\ registered' = registered \ PointersOf(s)
    /\ sessions' = sessions \ {s}
    /\ socks' = [socks EXCEPT ![s] = {}]
    /\ idx' = idx + 1
    /\ UNCHANGED <<pc, listening, born>>

\* socket(), getpeername() and the DNS codec throw, and nobody catches.
HandlerThrows(s, k) ==
    /\ Current(<<s, k>>)
    /\ k # "udp"
    /\ Terminate

EndOfBatch ==
    /\ pc = "dispatch"
    /\ idx > Len(batch)
    /\ pc' = "test"
    /\ UNCHANGED <<listening, sessions, socks, registered, batch, idx, born>>

\* After the loop: _delete_all_sessions(), stop()
Finish ==
    /\ pc = "stopping"
    /\ pc' = "stopped"
    /\ listening' = FALSE
    /\ sessions' = {}
    /\ socks' = [s \in Slots |-> {}]
    /\ registered' = {}
    /\ UNCHANGED <<batch, idx, born>>

\* sigint_handler() calls stop().  Only a thread blocked in epoll_wait() gets
\* EINTR, and not on Windows.
Sigint ==
    /\ pc \in {"test", "calling", "waiting", "dispatch"}
    /\ listening \/ pc = "waiting"
    /\ listening' = FALSE
    /\ pc' = IF pc = "waiting" /\ ~TimedPoll THEN "stopping" ELSE pc
    /\ UNCHANGED <<sessions, socks, registered, batch, idx, born>>

Dispatch ==
    \/ SkipNull
    \/ AcceptClient
    \/ ServerFault
    \/ \E s \in Slots, k \in Kinds :
          HandlerKeeps(s, k) \/ HandlerDrops(s, k) \/ HandlerThrows(s, k)
    \/ EndOfBatch

Loop ==
    \/ TestServing \/ EnterPoll
    \/ PollReturns \/ PollTimesOut \/ PollFails
    \/ Dispatch
    \/ Finish

Next == Start \/ Loop \/ Sigint

\* The thread keeps running and a timed poll() times out.  Nothing outside the
\* process - a client, a peer, SIGINT - is ever forced to do anything.
Fairness == /\ WF_vars(TestServing \/ EnterPoll \/ Dispatch \/ Finish)
            /\ WF_vars(PollTimesOut)

Spec == Init /\ [][Next]_vars /\ Fairness

-----------------------------------------------------------------------------
\* Every event not yet dispatched points to a socket object of a session that
\* exists and existed when poll() returned: neither the dispatch of an event
\* nor the invalidation loop, which calls get_session() on every later event,
\* touches a freed object or the object of a newer session at its address.
NoDanglingEvent ==
    pc = "dispatch" =>
        \A j \in idx..Len(batch) :
            batch[j] \in Pointers =>
                /\ batch[j][1] \in sessions \ born
                /\ batch[j][2] \in socks[batch[j][1]]

\* The poller knows only sockets of live sessions, and a dead session owns no
\* socket: what the next poll() returns can be dereferenced.
PollerTracksSessions ==
    /\ \A p \in registered : p[1] \in sessions /\ p[2] \in socks[p[1]]
    /\ \A s \in Slots \ sessions : socks[s] = {}

\* Once the listening socket is closed - by SIGINT, by a poll error, by an
\* error event - serve() comes to an end.
StopEndsServe ==
    (pc # "start" /\ ~listening) ~> (pc \in {"stopped", "terminated"})
=============================================================================
