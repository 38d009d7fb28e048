------------------------------ MODULE Session ------------------------------
(***************************************************************************)
(* The life of one Session from accept to relay: the handlers of its four  *)
(* kinds of sockets, the state machine they drive, the messages they send  *)
(* to the client, and the connect attempts of RemoteSocket.                *)
(*                                                                         *)
(* What a client or a DNS server sends is a choice among the ways the code *)
(* can read it: any bytes may arrive in any state, and a short message is  *)
(* read past its end.  The bytes relayed are left to module Relay.         *)
(***************************************************************************)
EXTENDS Naturals, Sequences, Poller

CONSTANTS
    AuthRequired,   \* get_auth_method() is UserPass
    DnsEnabled,     \* get_dns_ip() is not empty
    HupOnFailure,   \* the kernel reports a failed connect() with EPOLLHUP
    MaxAddresses    \* bound: addresses in a DNS answer

ASSUME SessionAssumption ==
    /\ AuthRequired \in BOOLEAN
    /\ DnsEnabled \in BOOLEAN
    /\ HupOnFailure \in BOOLEAN
    /\ MaxAddresses \in Nat \ {0}

VARIABLES
    life,       \* "live", "deleted" (a handler returned false), "terminated"
    state,      \* _state
    command,    \* _command
    watch,      \* mask each kind of socket is registered with, {} if it is not
    addresses,  \* RemoteSocket::_addresses: the family of each
    idx,        \* _connecting_idx + 1
    connected,  \* RemoteSocket::_connected
    attempt,    \* the kernel's view of the current connect()
    sent,       \* messages given to send() for the client
    verified,   \* history: authenticate() returned true
    ender       \* history: the socket whose handler returned false

vars == <<life, state, command, watch, addresses, idx, connected, attempt,
          sent, verified, ender>>
remote == <<addresses, idx, connected, attempt>>

Kinds    == {"client", "remote", "udp", "dns"}
Families == {"IPv4", "IPv6"}
Lists    == UNION {[1..n -> Families] : n \in 0..MaxAddresses}
States   == {"Accepted", "AuthRequested", "Authenticated", "ResolvingDomainName",
             "ConnectingRemote", "Connected", "Associated"}
Failures == {"CommandNotSupported", "AddrTypeNotSupported", "GeneralFailure",
             "Unreachable"}
Messages == {"method", "nomethod", "authok", "authbad", "success"} \cup Failures

TypeOK ==
    /\ life \in {"live", "deleted", "terminated"}
    /\ state \in States
    /\ command \in {"none", "Connect", "UdpAssociate"}
    /\ watch \in [Kinds -> {{}, ReadMask, WriteMask}]
    /\ addresses \in Lists
    /\ idx \in 0..(MaxAddresses + 1)
    /\ connected \in BOOLEAN
    /\ attempt \in {"none", "pending", "ok", "failed", "reset"}
    /\ sent \in Seq(Messages)
    /\ verified \in BOOLEAN
    /\ ender \in Kinds \cup {"none"}

\* After Session::initialize()
Init ==
    /\ life = "live"
    /\ state = "Accepted"
    /\ command = "none"
    /\ watch = [k \in Kinds |-> IF k = "client" THEN ReadMask ELSE {}]
    /\ addresses = <<>>
    /\ idx = 0
    /\ connected = FALSE
    /\ attempt = "none"
    /\ sent = <<>>
    /\ verified = FALSE
    /\ ender = "none"

(***************************************************************************)
(* Outcomes of a handler; every action adds what becomes of command.       *)
(***************************************************************************)
Say(m) == sent' = Append(sent, m)
Quiet  == UNCHANGED sent

\* return true
Keep == UNCHANGED <<life, ender>>

\* The handler of socket k returns false: Session::shutdown() and delete.
Drop(k) ==
    /\ life' = "deleted"
    /\ ender' = k
    /\ watch' = [j \in Kinds |-> {}]
    /\ UNCHANGED <<state, remote, verified>>

\* An exception nobody catches
Throw ==
    /\ life' = "terminated"
    /\ UNCHANGED <<state, watch, remote, sent, verified, ender>>

\* poll() returns socket k, registered with a mask that asks for flag f.
Event(k, f) == life = "live" /\ f \in watch[k]

\* Closed or Error on a socket whose handler only returns false then; a recv()
\* that returns 0 or -1; in a relay, also a send() that fails.
SocketEnds(k) ==
    /\ life = "live"
    /\ watch[k] # {}
    /\ k = "remote" => state # "ConnectingRemote"
    /\ Drop(k)
    /\ Quiet
    /\ UNCHANGED command

(***************************************************************************)
(* The client socket: greeting, authentication, request.                   *)
(***************************************************************************)

\* Mutated form: the two methods are swapped.
AfterGreetingSwapped == IF AuthRequired THEN "Authenticated" ELSE "AuthRequested"

AfterGreeting == IF AuthRequired THEN "AuthRequested" ELSE "Authenticated"

\* _check_version(), _request_auth(); send_auth() may fail.
Greeting ==
    /\ Event("client", "Read")
    /\ state = "Accepted"
    /\ UNCHANGED command
    /\ \/ Drop("client") /\ (Say("nomethod") \/ Quiet)
       \/ /\ Keep
          /\ Say("method")
          /\ state' = AfterGreeting
          /\ UNCHANGED <<watch, remote, verified>>

\* _handle_auth(): a length exceeds the message, the credentials are wrong, or
\* right.
HandleAuth ==
    /\ Event("client", "Read")
    /\ state = "AuthRequested"
    /\ UNCHANGED command
    /\ \/ Drop("client") /\ (Say("authbad") \/ Quiet)
       \/ /\ Keep
          /\ Say("authok")
          /\ state' = "Authenticated"
          /\ verified' = TRUE
          /\ UNCHANGED <<watch, remote>>

\* Bytes of the client while its request is being worked on
EarlyData ==
    /\ Event("client", "Read")
    /\ state \in {"ResolvingDomainName", "ConnectingRemote"}
    /\ Drop("client")
    /\ Quiet
    /\ UNCHANGED command

(***************************************************************************)
(* The request: _do_command() for socket k, whose handler runs; mask is    *)
(* what is left of the DNS socket's registration.                          *)
(***************************************************************************)

\* _connect_remote(): the first connect() is under way, or has failed.  The
\* failure is answered, but the caller ignores it: the session stays, with a
\* remote socket that is not registered.
ConnectRemote(list, mask) ==
    /\ Keep
    /\ state' = "ConnectingRemote"
    /\ addresses' = list
    /\ idx' = 1
    /\ UNCHANGED <<connected, verified>>
    /\ \/ /\ attempt' = "pending"
          /\ watch' = [watch EXCEPT !["remote"] = WriteMask, !["dns"] = mask]
          /\ Quiet
       \/ /\ attempt' = "failed"
          /\ watch' = [watch EXCEPT !["dns"] = mask]
          /\ Say("GeneralFailure")

\* _associate(): bind() or getsockname() fails, or two sockets are registered.
Associate(k, mask) ==
    \/ Drop(k) /\ Quiet
    \/ /\ Keep
       /\ Say("success")
       /\ state' = "Associated"
       /\ watch' = [watch EXCEPT !["remote"] = ReadMask, !["udp"] = ReadMask,
                                 !["dns"] = mask]
       /\ connected' = TRUE
       /\ UNCHANGED <<addresses, idx, attempt, verified>>

DoCommand(k, what, list, mask) ==
    \/ Throw
    \/ what = "Connect" /\ ConnectRemote(list, mask)
    \/ what = "UdpAssociate" /\ Associate(k, mask)

\* _check_command() refuses BIND and what it does not know.
RefuseCommand ==
    /\ Event("client", "Read")
    /\ state = "Authenticated"
    /\ Drop("client")
    /\ Say("CommandNotSupported")
    /\ UNCHANGED command

\* An IP address; an address of another type, or a name that cannot be queried;
\* or a name, for which a DNS query leaves.
Request(what) ==
    /\ Event("client", "Read")
    /\ state = "Authenticated"
    /\ command' = what
    /\ \/ \E f \in Families : DoCommand("client", what, <<f>>, {})
       \/ Drop("client") /\ Say("AddrTypeNotSupported")
       \/ /\ DnsEnabled
          /\ Keep
          /\ state' = "ResolvingDomainName"
          /\ watch' = [watch EXCEPT !["dns"] = ReadMask]
          /\ UNCHANGED <<remote, sent, verified>>

\* process_dns_event(): the answer holds addresses, or none.
DnsAnswer ==
    /\ Event("dns", "Read")
    /\ UNCHANGED command
    /\ \/ Drop("dns") /\ Quiet
       \/ \E list \in Lists \ {<<>>} : DoCommand("dns", command, list, {})

(***************************************************************************)
(* The remote socket while it connects.                                    *)
(***************************************************************************)
Settle ==
    /\ attempt = "pending"
    /\ life = "live"
    /\ attempt' \in {"ok", "failed"}
    /\ UNCHANGED <<life, state, command, watch, addresses, idx, connected, sent,
                   verified, ender>>

\* The peer of an established connection resets it before we know.
ResetEarly ==
    /\ attempt = "ok"
    /\ life = "live"
    /\ ~connected
    /\ attempt' = "reset"
    /\ UNCHANGED <<life, state, command, watch, addresses, idx, connected, sent,
                   verified, ender>>

Condition ==
    CASE attempt = "ok"     -> {"Write"}
      [] attempt = "reset"  -> {"Write", "Error", "Closed"}
      [] attempt = "failed" -> {"Write", "Error"} \cup
                                   IF HupOnFailure THEN {"Closed"} ELSE {}
      [] OTHER              -> {}

Connecting ==
    /\ life = "live"
    /\ state = "ConnectingRemote"
    /\ ~connected
    /\ Pollable(watch["remote"], Condition)
    /\ UNCHANGED command

\* process_remote_event() looks at Closed before Error.
RemoteCloses ==
    /\ Connecting
    /\ "Closed" \in Condition
    /\ Drop("remote")
    /\ Quiet

Exhausted == idx = Len(addresses)

\* Mutated form: the reply is missing.
GiveUpQuietly == Drop("remote") /\ Quiet

\* Mutated form: try_connect_next() returns true after the last address.
GiveUpStays ==
    /\ Keep
    /\ Say("Unreachable")
    /\ idx' = idx + 1
    /\ UNCHANGED <<state, watch, addresses, connected, attempt, verified>>

\* Every address has failed.
GiveUp == Drop("remote") /\ Say("Unreachable")

\* try_connect_next(): the same socket tries the next address.  An address of
\* the other family, at least, fails at once; then the rest is not tried.
TryConnectNext ==
    /\ Connecting
    /\ Condition \cap {"Closed", "Error"} = {"Error"}
    /\ \/ Exhausted /\ GiveUp
       \/ /\ ~Exhausted
          /\ addresses[idx + 1] = addresses[1]
          /\ idx' = idx + 1
          /\ attempt' = "pending"
          /\ Keep
          /\ UNCHANGED <<state, watch, addresses, connected, sent, verified>>
       \/ ~Exhausted /\ Drop("remote") /\ Say("GeneralFailure")

\* Mutated form: the socket stays registered for Write.
RemoteConnectedDeaf == state' = "Connected" /\ UNCHANGED watch

\* Mutated form: the state is not advanced.
RemoteConnectedSame ==
    /\ UNCHANGED state
    /\ watch' = [watch EXCEPT !["remote"] = ReadMask]

RemoteConnected ==
    /\ state' = "Connected"
    /\ watch' = [watch EXCEPT !["remote"] = ReadMask]

\* could_connect(), reply_remote_connection(): getpeername() throws if the
\* connection is gone again.
CouldConnect ==
    /\ Connecting
    /\ Condition \cap {"Closed", "Error"} = {}
    /\ \/ Throw
       \/ /\ Keep
          /\ RemoteConnected
          /\ connected' = TRUE
          /\ addresses' = <<>>
          /\ Say("success")
          /\ UNCHANGED <<idx, attempt, verified>>

RemoteProgress == RemoteCloses \/ TryConnectNext \/ CouldConnect

Next ==
    \/ Greeting \/ HandleAuth \/ EarlyData \/ RefuseCommand
    \/ \E what \in {"Connect", "UdpAssociate"} : Request(what)
    \/ DnsAnswer
    \/ Settle \/ ResetEarly \/ RemoteProgress
    \/ \E k \in Kinds : SocketEnds(k)

\* The kernel gives up a connect() in the end, and the server loop dispatches
\* what it reports.  A DNS server need not answer, a client need not speak.
Fairness == WF_vars(Settle) /\ WF_vars(RemoteProgress)

Spec == Init /\ [][Next]_vars /\ Fairness

-----------------------------------------------------------------------------
Said(S) == \E i \in DOMAIN sent : sent[i] \in S

\* Nothing is opened on behalf of a client that has to authenticate and has
\* not: no DNS query, no connection, no association.
AuthGate ==
    AuthRequired /\ ~verified =>
        /\ state \in {"Accepted", "AuthRequested"}
        /\ \A k \in Kinds \ {"client"} : watch[k] = {}

\* A live session is always registered for the event its state waits for, so
\* it cannot be forgotten while its client waits for an answer; and the answer
\* is there exactly once nothing more is awaited.
NoSilentWait ==
    life = "live" =>
        /\ watch["client"] = ReadMask
        /\ watch["dns"] # {} <=> state = "ResolvingDomainName"
        /\ state = "ConnectingRemote" =>
              IF Said(Failures) THEN watch["remote"] = {}
              ELSE watch["remote"] = WriteMask /\ attempt # "none"
        /\ state = "Connected" => watch["remote"] = ReadMask
        /\ state = "Associated" =>
              watch["remote"] = ReadMask /\ watch["udp"] = ReadMask
        /\ Said({"success"}) <=> state \in {"Connected", "Associated"}

\* _addresses->at(_connecting_idx) is in range whenever an event may lead there.
AddressIndexValid ==
    (life = "live" /\ state = "ConnectingRemote") => idx \in DOMAIN addresses

\* When an attempt fails, the next address is tried or the client is told: the
\* session does not just end ("start connect attempts").
ConnectFailureAnswered ==
    (ender = "remote" /\ attempt = "failed") => Said(Failures)

\* A session that connects is connected in the end, or over.
ConnectSettles ==
    (life = "live" /\ state = "ConnectingRemote" /\ ~Said(Failures)) ~>
        (life # "live" \/ state = "Connected")

\* The client sees a SOCKS5 server.
Phase ==
    IF life # "live" THEN "over"
    ELSE CASE state = "Accepted"            -> "greeting"
           [] state = "AuthRequested"       -> "auth"
           [] state = "Authenticated"       -> "request"
           [] state = "ResolvingDomainName" -> "pending"
           [] state = "ConnectingRemote"    -> IF Said(Failures) THEN "refused"
                                               ELSE "pending"
           [] OTHER                         -> "relay"

S5 == INSTANCE Socks5 WITH phase <- Phase, trusted <- verified

ImplementsSocks5 == S5!Spec
=============================================================================
