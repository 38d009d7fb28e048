# A TLA+ verification of sockspp

sockspp is a SOCKS5 server (CONNECT and UDP ASSOCIATE) built as one thread, one
poller and non-blocking sockets. Nothing runs in parallel except the signal
handler, yet most of its correctness is about order: in which order the kernel
reports events, what a batch of events still refers to after one of them was
handled, how much of a `send()` was taken, and which of two error flags is
looked at first. The modules in this directory model that, from the source.

## 1. Inventory

| Component | State it keeps | Operations | Talks to |
|---|---|---|---|
| Server loop (`server.cxx`) | listening socket, `_sessions`, the current batch of events | `serve`, `_accept_client`, `_create_new_session`, `_delete_session`, `_delete_all_sessions`, `stop` | poller (poll), sessions (`process_event`, `shutdown`), the signal handler (shares the listening socket) |
| Session (`session.cxx`) | `_state`, `_command`, four kinds of sockets, `_client_buffer`, `_remote_buffer` | one handler per kind of socket, `reply_remote_connection`, `shutdown` | poller (masks), its sockets, the server's parameters and hooks |
| Remote socket (`remote_socket.cxx`) | `_addresses`, `_connecting_idx`, `_connected` | `try_connect_next`, `could_connect` | its session (reply, state) |
| Client socket (`client_socket.cxx`) | - | `send_auth`, `send_auth_status`, `send_reply` | the client |
| UDP socket (`udp_socket.cxx`) | `_client_info`, `_port_maps` | `recv_from`, `send_to` | client and remote datagrams |
| DNS socket (`dns_socket.cxx`) | name, port | `query`, `get_response` | dnslib, the name server |
| Socket (`socket.cxx`) | one descriptor | open, move, close, ... ; several throw | the kernel |
| Poller (`poller/epoll_poller.hpp`) | mask and pointer per descriptor | register, update, remove, `poll` | the kernel |
| SOCKS5 codec (`s5.cxx`), dnslib (vendored) | - | encode, decode | - |
| Addresses (`ip_address.cxx`, `utils.cxx`) | - | `IPAddress`, `is_ip_address` | `inet_pton()` |
| Operating system queries (`utils.cxx`) | - | `get_dns_nameservers` | `/etc/resolv.conf` |
| Hooks (`server_hook.hpp`) | - | defaults that forward the call | user code |
| CLI (`cli.cxx`) | parameters, `g_server` | `sigint_handler` | the server |

What is hard:

* **Batches.** `poll()` returns up to 512 events with raw pointers. A handler may
  delete a session that later events point to, and a new session may be
  allocated at its address in the same batch.
* **Masks.** A session expresses what it waits for only by the masks of its
  sockets. A wrong mask is a session that hangs, or one that reads what it
  cannot forward.
* **Partial sends.** One buffer per direction, shared between Read handlers
  (new bytes) and Write handlers (no new bytes, a null pointer).
* **Flags.** A failed `connect()` is `EPOLLERR|EPOLLHUP` on Linux and without HUP
  on the Windows shim; a signal interrupts `epoll_wait()` only if it is blocked.
* **Exceptions.** `socket()`, `accept()`, `getpeername()` and the DNS codec throw,
  and nobody catches: one session's failure ends the server.
* **Framing.** One `recv()` is taken for one message.
* **Datagrams.** A UDP association and a name lookup meet answers that are lost,
  late, repeated, or not meant for them, and tell them apart by a port.
* **Octets.** Lengths, offsets, links and byte orders in three wire formats,
  read from buffers whose rest is undefined.
* **Descriptors.** `Socket::~Socket()` closes, a move empties the Socket that is
  moved from, and an assignment overwrites the number that was there without
  closing it; a number that is closed is given out again at once, and a signal
  handler closes one.

What makes each component correct: the loop never touches a freed session and
ends when it is told to; the poller knows live sockets only; the relay loses,
repeats and reorders no byte, wakes up again, and does not crash; the session
opens nothing for a client that has not authenticated, answers a request at most
once and truthfully, always waits for an event that will come, and uses every
address it was given; what it understands of a message is what the client wrote;
a UDP association delivers answers to the port that asked; a lookup gets the
answer to its own question; name decoding ends and stays inside the message, and
what one dnslib encodes another decodes; every open descriptor has one owner,
and the signal closes the listening socket and nothing else.

`PROJECT.json` lists the components with their status and, under `hazards`, each
of these dangers at its line.

## 2. Modules

| Module | Models | Checked by | Proved in |
|---|---|---|---|
| `Poller` | event flags, masks, level-triggered reporting | (used by the others) | - |
| `EventLoop` | `Server::serve()` and SIGINT | `MCEventLoop` | `EventLoopProofs` |
| `ServerProcess` | the process at the level of descriptors, from `main()` to its end | `MCServerProcess` | `ServerProcessProofs` |
| `AddressText` | which texts the program takes for addresses | (used by `ServerProcess`) | - |
| `Session` | a session from accept to relay or association | `MCSession` | `SessionProofs` |
| `Socks5` | abstract: what a SOCKS5 client may rely on | refined by `Session` | `SessionProofs` |
| `Handshake`, `S5Message` | the octets of the messages, and what a session reads in them | `MCHandshake` | `HandshakeProofs` |
| `Relay` | a session in `State::Connected`, its sockets and peers | `MCRelay` | `RelayProofs` |
| `Pipe` | abstract: a pair of reliable byte pipes | refined by `Relay` | `RelayProofs` |
| `UdpRelay` | a session in `State::Associated` | `MCUdpRelay` | `UdpRelayProofs` |
| `Association` | abstract: what a UDP association promises | refined by `UdpRelay` | `UdpRelayProofs` |
| `Resolver` | the lookups of all sessions, with the network | `MCResolver` | `ResolverProofs` |
| `DnsName` | decoding of domain names, with its calls | `MCDnsName` | `DnsNameProofs` |
| `DomainNames` | reference: domain names as RFC 1035 defines them | (used by `DnsName`) | - |
| `DnsBuffer`, `DnsReader` | what dnslib's `Buffer` appends and yields | (used by `DnsMessage`) | - |
| `DnsTypes`, `DnsRecords` | dnslib's classes, and their members in the order they are written and read | (used by `DnsMessage`) | - |
| `DnsMessage` | a message encoded, sent over the network, decoded, and searched for addresses | `MCDnsMessage` | - |

### EventLoop

`pc` is the place of the thread in `serve()`: at the loop test, about to call
`epoll_wait()`, blocked in it, dispatching the batch, after the loop. `Sigint`
may happen between any two steps, but only a blocked thread gets EINTR: that is
why "about to call" and "blocked" are two values. A session is the address it is
allocated at (`Slots`), reused freely; an event pointer is `<<slot, kind>>`. The
history variable `born` holds the addresses allocated since the last poll: an
event that was polled before may not reach them. What a handler does inside its
session is reduced to its effect on the loop: it opens sockets and returns true,
returns false, or throws.

### ServerProcess and AddressText

The process on a POSIX system: `resolv.conf`, epoll, and a poll without timeout.
`file` is the kernel's table: what each number denotes. Opening takes the lowest
free one, which is what makes a number dangerous after its `close()`. `server` is
the number in `_server_socket` (any number before the assignment: the member is
not initialised), `saved` the local copy `server_sock` that is unregistered after
the loop, `temporary` the Socket that `open_tcp()` returned, and `held` the
numbers in the SessionSockets of each session, by their role: the client's, the
name server's, the remote one and the one of UDP.

`Sigint` falls between any two actions. Wherever the thread works with the
listening socket an action is one system call: `Socket::close()` is two steps,
`CloseListener` and `ForgetListener`, `CallStop` remembers in `back` where `stop()`
returns to, and "about to poll" and "blocked" are two places, as a signal wakes
only a thread that is blocked. An action of a handler may merge calls: `Adopt`
opens and moves, `AcceptClient` and the commands also register, `Delete` and
`DeleteSessions` close several sockets. What SIGINT does, closing the number in
`_server_socket` and setting it to -1, commutes with those calls, but for the
lowest free number, which a signal before the first of them makes available as
well as one between them.

Handlers are their effect on descriptors. A session may hold four: the DNS socket
stays open, only unregistered (`Unheard`), when `process_dns_event()` goes on to
the command; CONNECT opens one more (`HandlerConnects`), UDP ASSOCIATE two, the
second of which may throw or be closed with the first by a failed `_associate()`:
`HandlerAssociates` and `SecondSocket` are two steps, with the place "second"
between them.

`Resolver` (the operator) is what `Server::Server()` makes of `--dns-ip` and
`/etc/resolv.conf`. A text is modelled by what the patterns of `is_ip_address()`
and `inet_pton()` look at, as the two disagree.

### Session and Socks5

One action per handler and state; the branches of a handler are the disjuncts of
its action. Bytes from the client or the name server are a choice among the ways
the code can read them, because any bytes can arrive in any state and short
messages are read past their end. `attempt` is the kernel's view of the current
`connect()`, `Condition` what it reports. `HupOnFailure` tells Linux from the
Windows build. `Socks5` is the client's view: phases, and one message per change
of phase; `Phase` maps the one to the other.

### Handshake and S5Message

What `Session` leaves to choice: the octets. A client says a dialog, laid out as
RFC 1928 and RFC 1929 define (`Encoded`); the session reads each `recv()` through
the same offsets as the code, from a memory whose rest has any value (`Garbage`).
A `recv()` returns all there is, which may be more than one message, or one of the
lengths in `Pieces`; the history variable `whole` tells whether all of them
returned one message so far.
`S5Message` is `S5Address` and the reply, as functions on memory. `heard` is what
the session understood, `said` the octets it answered. `ClientsWellSpoken` says of
the dialogs what the RFCs demand of a client: a greeting with 1 to 255 methods,
credentials of at most 255 octets (and at least one), an address that its type
fits, each message at the place in the dialog where it is due;
`ClientsSendOctets` says only that they send octets.

### Relay and Pipe

Two sides, `client` and `remote`. `inbox` and `out` are the kernel's receive and
send buffers, `sched[x]` the bytes scheduled for `x` (`_client_buffer` and
`_remote_buffer`), `interest` the two masks. The kernel takes of a `send()` what
fits into `SndBuf` and reports Write when `LowWater` bytes are free. Bytes are
numbered, so that loss, repetition and reordering are visible; `Junk` stands for
memory behind the received bytes, which the over-scheduled path may copy.
`_session_socket_send()` is split by the case it is called in: `Forward` (new
bytes, nothing scheduled), `ForwardOverScheduled` (new bytes, some scheduled),
`Flush` (a Write event). The history variable `crossed` becomes true when one side
is scheduled for while bytes are scheduled for the other, which takes two Read
events of one batch and two partial sends: the one step after which bytes may be
lost (run `relay_lost`).

`Pipe` is what a relay promises: bytes in transit are delivered in order, and
only closing loses some, until the pipes break. Broken ones may lose and repeat
what is in transit (`Ruin`), but take nothing back that was delivered, and do not
open again. `Relay` implements it with
`transit[x] <- out[x] \o sched[x] \o inbox[Other(x)]` and `broken <- crossed`.

### UdpRelay and Association

The network is the set of all datagrams ever sent: each may be received any
number of times, in any order, or never. `ports` is `_port_maps`, whose keys and
values are the two bytes of a port as the machine reads them: `Raw` and `htons`
swap them on a little-endian machine, so that a conversion too many or too few
shows. `ProcessUdp` has the cases of `UDPSocket::recv_from()`: `Bounce` (at most
ten octets go back to their sender), `Ignore`, `Truncated`, `Forward`;
`ProcessRemote` those of `send_to()`: `Refuse` and `Deliver`. `Association` is
the promise: what is delivered comes to the client port that asked last for the
port it comes from. It permits that a datagram of at most ten octets is sent back
to whoever sent it, as the code does (section 5). `Relayed` is what left for a
destination that a header named.

### Resolver

Sessions open a DNS socket, send a query, and take the first datagram to its
port for the answer; `queries` and `answers` are the datagrams under way. A name
that cannot be encoded and an answer that cannot be decoded end the process. The
kernel gives a port out again as soon as no open socket has it, also while
datagrams to or from it are under way; `inherits` remembers of a session that its
DNS socket got such a port.

### DnsName, DnsMessage and what they use

`DnsName` is `Buffer::getDnsDomainName()`, one step per octet of control or
return, with the calls it makes for links in `frames`. The reference it is checked
against, `DomainNames`, spells names as dnslib does, where no standard says how:
a dot follows each label that is not followed by the end itself, so that a name
whose last label is followed by a link to an end is spelled with a dot at its end.
`DecodesName` therefore says nothing about that dot. `DnsMessage` is the rest
of dnslib: `Encode` puts one entry of the message, the network delivers, cuts,
extends or damages it, `DecodeHeader` and `DecodeEntry` read it, `GetResponse`
takes the addresses out as `DnsSocket::get_response()` does. A class of record
data is, in `DnsRecords`, the list of its members as `decode()` reads them and
as `encode()` writes them, each with the get or put function it uses.

## 3. Runs

| Run | Bounds | Shows |
|---|---|---|
| `loop` | 2 session addresses, batches of 3, timed poll | `NoDanglingEvent`, `PollerTracksSessions`; `StopEndsServe`: every stop request ends the loop |
| `process` | 7 descriptors, 2 sessions, batches of 2, 2 listen addresses, 5 settings of the name server, 2 files | `StopClosesOwn`, `EachHeldOnce`, `SessionsStayWatched`, `LookupsSurvive`, `InterruptEnds` |
| `session` | up to 4 addresses, authentication on, no HUP on failure | `AuthGate`, `NoSilentWait`, `AddressIndexValid`, `ConnectFailureAnswered`, `Socks5` implemented, `ConnectSettles` |
| `session_linux` | 2 addresses, HUP on failure | *violated*: no reply, no second address |
| `handshake` | dialogs of up to 3 messages, names and credentials of 0 to 255 octets, 3 kinds of garbage, a `recv()` of all there is or of 1, 2 or 5 octets | as long as each `recv()` returns one message: `HeardAsSent`, `RefusedForReason`, `RepliesWellFormed` |
| `relay` | both sockets in one batch, partial sends of any size, 4 bytes each way, a writable socket takes a whole buffer | until both directions are scheduled in one batch: `LostOnlyByCrossing`, `Fifo`, `EofDelivered`, `Delivered`, `Pipe` implemented; and then too: `WriteWatchedHasData`, `ReadsRestored`, `NeverCrashes` |
| `relay_lost` | the same, 3 bytes each way | *violated*: the second schedule of a batch cancels the Write watch of the first |
| `relay_crash` | a writable socket may have less room than a buffer | *violated*: null pointer in the flush path |
| `udp` | 2 client ports and a stranger, 9 requests, 4 answers | `Solicited`, `CrashOnlyOnTruncated`, `DroppedForReason`, `Association` implemented |
| `resolver` | 2 sessions, 2 lookups, 2 ports given out again at any time, 3 names | `AnswersOwnQuestion` where nothing was under way for the port, `OncePerRequest`, `Resolved` |
| `dns_name` | all messages of up to 6 octets over 5 values | `NoOverflow`, `Progress`, `Terminates`; `DecodesName` and `RejectsOnlyBad` against the reference |
| `dns_message` | all 19 record types and an unknown one; every cut, and three values for every octet | `RoundTrip`, `FailsForReason`, `AddressesAsSent` |

Why these bounds are enough. Two sessions make every pair of interfering
sessions, and a batch of three lets an event precede, follow and be the one that
deletes. Of seven descriptors the standard streams, the poller and the listening
socket leave four, or five once that one is closed: enough for one session with
all its sockets beside another, and too few for two of them, so that opening
fails at every place. In the relay a batch is all that a session can have, one
event per socket, and `MaxBytes` exceeds `SndBuf`, so that both the full send
buffer and a scheduled remainder occur, and what two reads take. Pieces of one,
two and five octets cut a message before, inside and behind its lengths. Four addresses
give a first, a last and two middle attempts, each of either family. The UDP
ports 258 and 513 are each other's swapped bytes. Six octets hold two labels and
a link, links in both directions, nested links and a loop of three; the five
octet values are an end, labels of the allowed length, a label that is too long,
and the first octet of a link. `MaxLabel`, `MaxDomain` and `Capacity` are cut
down in the DNS runs so that their limits are met.

Type invariants are proved for `EventLoop`, `ServerProcess`, `Session`,
`Handshake`, `Relay`, `UdpRelay`, `DnsName` and `Resolver`; that of `DnsMessage`
holds in the configuration of `dns_message` when it is added to it.

`CHECK_DEADLOCK FALSE` is set everywhere: `serve()` returns, sessions and
messages end, and peers that have spoken a bounded number of times may stay
silent.

Fairness. The thread runs: steps of the loop, of handlers and of the decoder are
weakly fair, and in `EventLoop` a poll with a timeout times out (that of
`ServerProcess` has none). Poll is weakly fair in `Relay`, where it
has something to return. The kernel ends every `connect()`. Peers that are there
keep reading in `Relay` (without this the code promises no delivery, as both
directions stop together). In `Resolver` the DNS server answers what reaches it
(weak fairness of `Serve`), and a session that again and again has an answer
dispatches it (strong fairness of `ProcessDnsEvent`, because a network that
duplicates may take an answer back and repeat it; `poll()` is level-triggered,
so what has arrived stays reported). Nothing else is assumed: clients need not
speak, name servers need not answer, SIGINT need not come.

## 4. Proofs

TLC shows a property for the constants of a configuration; the theorems below
hold for all of them. They rest on the named assumptions of the modules
(`EventLoopAssumption`: the listening socket and the null pointer are not
session addresses; `RelayAssumption`: positive sizes, a low-water mark that
fits into the send buffer; `SessionAssumption`: at least one address in an
answer; `UdpAssumption`: ports have 16 bits, the client has an IPv4 address;
`NameAssumption`: messages are octets, and the stack holds as many calls as a
message has octets; `ResolverAssumption`: the types of the constants;
`ProcessAssumption`: their types too, descriptors are numbers, and the listening
socket is no session; `HandshakeAssumption`: credentials are octets, a message
has a buffer of at least 513 octets, where the code has 8192, and a reply one of
262), and on nothing else unless the theorem says so.

| Theorem | Says |
|---|---|
| `EventLoopTypeOK`, `NoDanglingEventHolds`, `PollerTracksSessionsHolds` | any number of addresses, any batch: no event reaches a dead or newer session |
| `StopInSight` | any batch: once `stop()` was called, every step brings `serve()` nearer to its end, in `MaxBatch + 5` steps at most |
| `RelayTypeOK`, `RelayWriteWatchedHasData`, `RelayReadsRestored` | any buffer sizes and any batch, also where bytes are lost |
| `RelayLostOnlyByCrossing`, `RelayFifo`, `RelayEofDelivered` | the same, until both directions are scheduled in one batch: nothing is lost, however little a `send()` takes |
| `RelayNeverCrashes` | under `Roomy` (a writable socket takes a whole buffer): for any batch |
| `RelayImplementsPipe` | any buffer sizes and any batch: `Relay` implements `Pipe`, which breaks when both directions are scheduled in one batch |
| `SessionTypeOK`, `SessionAuthGate`, `SessionNoSilentWait`, `SessionAddressIndexValid` | any length of an answer, with and without authentication and DNS |
| `SessionConnectFailureAnswered` | where a failed `connect()` comes without HUP |
| `SessionGoesOn` | any length of an answer, any client: every step brings a session nearer to its relay or its end |
| `SessionImplementsSocks5` | `Session` implements `Socks5` |
| `ServerProcessProofs`: `InvHolds`, `ProcessTypeCorrect`, `StopsOwn`, `HeldOnce`, `StaysWatched`, `LookupsSurviveHolds` | any number of descriptors and sessions, any batches, command line and `/etc/resolv.conf`, SIGINT between any two steps |
| `ServerProcessProofs`: `EndInSight` | the same: after an interrupt nothing opens the listening socket again, and every step brings the process nearer to its end |
| `HandshakeProofs`: `SaneHolds`, `HandshakeTypeCorrect` | any client, any octets, in any segments (`ClientsSendOctets`) |
| `HandshakeProofs`: `InvHolds`, `HeardAsSentHolds`, `RefusedForReasonHolds`, `RepliesWellFormedHolds` | well-spoken clients (`ClientsWellSpoken`), any credentials, addresses, ports, garbage and pieces: until a `recv()` returns less or more than one message |
| `UdpRelayProofs`: `TypeCorrect`, `DeliversSolicited`, `CrashesOnlyOnTruncated`, `DropsForReason` | any hosts, ports, datagrams and byte order; an association is dropped for an empty answer or a port nothing was relayed to, never because the map lost an entry |
| `UdpRelayProofs`: `RefinesAssociation` | `UdpRelay` implements `Association` |
| `DnsNameProofs`: `TypeCorrect`, `StackSuffices`, `ReadsOn` | any message: the decoder stays inside it and calls itself at most as often as it has octets |
| `DnsNameProofs`: `NamesAsSent`, `NoGoodNameRefused` | any message: the name returned is the one that the reference finds there, and a refusal has its reason |
| `DnsNameProofs`: `WorkShrinks` | any message: each step makes what is left to do smaller, in a well-founded order |
| `ResolverProofs`: `TypeCorrect`, `Once` | any sessions, names and ports, given out again at any time |
| `ResolverProofs`: `OwnAnswer` | the same: a session whose own port had nothing under way connects to the host it asked for, whatever ports the others got |

**Server loop.** The conjunction of the three properties is inductive.
`NoDanglingEvent` is not by itself: an event of a new batch is safe because the
poller, which reported it, holds sockets of live sessions only. `StopInSight`
counts the steps that are left (`StepsToEnd`), for which the invariant gets
`InBatch`: the loop stands at an event of its batch or right behind the last one,
and a batch is no longer than `MaxBatch`. From `stop()` on, the count falls with
each step, so no session that is still dispatched to keeps `serve()` going; a
`poll()` that nothing wakes does (section 5), and that is no step.

**Process.** `EachHeldOnce` says of each descriptor who owns it, and is not
inductive: what `close()` and `open()` do depends on which numbers `server`,
`saved` and `temporary` hold at the place of the thread. `ListenerKept` says it
by `pc`: up to the assignment in `serve()` the listening socket is the
`temporary` one, and SIGINT may close it as it may any number; from there on it
is in `_server_socket`, and `_server_socket` denotes it, nothing, or (between
the two steps of `Socket::close()`, and in `bind()` after a signal) a number that
was closed a step ago. That number cannot be given out again meanwhile, as no
step of the thread that opens a descriptor lies between. `SocketsOwned` is the
same for the sockets of sessions, also between the two that an association opens,
`RoomForClient` that a client that was reported finds a session to be accepted
into, and `ResolverChosen` that the name server is still the one of the settings,
from which `LookupsSurvive` follows.

`SocketsWatched` is for `SessionsStayWatched`, which is not inductive either: an
answer whose socket is unregistered must be that of a session which then has its
command's socket. `Heard` is the property, `Waiting` says that who hears the name
server has not begun with the command, and `Unanswered` that an answer in the batch
was not dispatched before. What SIGINT closes is no session's
(`SocketsOwned` and `ListenerKept`), and the removal of the saved number happens
on the way to "delete", where no session is served any more.

For `EndInSight`, `Rank` orders the places of the thread along its way out; the
dispatch of a batch and the second socket of an association have the same rank,
and there `events` loses a member or the thread comes back to the dispatch. A
further SIGINT closes nothing then (`ClosesNothing`: -1 is no descriptor). An
interrupt at the place "poll" is no exception: the thread then blocks, which
brings it nearer too, but only an event wakes it (section 5).

**Handshake.** `Sane` holds for any client. It types what a session has heard by
its state, and the step of a message needs that every octet that is read lies in
the buffer: two lengths of up to 255 lead to octet 512 at most, whatever was
received. Outside its domain a memory has no known value, so the proof would fail
if a read left it.

What is understood and answered needs more: `ClientsWellSpoken`, and the history
`whole` that no `recv()` has returned less or more than one message. The invariant
is `IInv == whole => Hearing /\ Speech`; once `whole` is false it stays so, and
nothing is promised, as `RefusedForReason` without it is refuted (section 5).
`MCHandshake` has TLC evaluate that the clients of the run are well-spoken. The
lemmas on octets say where the parts of an encoded message lie (`GreetingOctets`,
`LoginOctets`, `RequestOctets`), that `Memory` begins with it, that `Slice` at
those offsets gives the parts back, and how a reply is laid out (`ReplyKnown`,
`ReplyUnknown`). The invariant has `UnderWay` (what is under way is the last
message that was sent), `InTurn` (all before it was taken), `Stages` (the state
tells how many were taken, and hence which is due) and `Replies` (a refusal is the
last thing said, about the last thing sent).

**Relay.** `Typed` (the type, `WriteWatchedHasData`, `ReadsRestored`) is inductive
whatever the environment does: a mask for Write names the socket that has the
bytes, and the other one is then not watched for Read, so that whoever flushes
last restores both.

What is said of bytes holds until both directions are scheduled in one batch.
Nothing is assumed of batches: the invariant is
`Straight == Ended /\ OneEach /\ (~crossed => Whole)`.

* `Ended`: the cause of an end is set by the end, so `EofDelivered` follows from
  `Fifo` at the step that reads the end of the stream.
* `OneEach`: a batch has one event per socket, so that after the first one was
  dispatched at most that of the other side is left.
* `Whole` has `ScheduledIsWatched`, `Fifo` and `EofDelivered`, and `ReadsReady`: a
  Read event that is still to be dispatched finds nothing scheduled for the side
  that its bytes go to. Hence `ForwardOverScheduled` never runs
  (`NeverOverScheduled`), and what `send()` leaves is all there is between the
  send buffer and the receive buffer. When the first Read event of a batch
  schedules, the second one is about the opposite direction: if its `send()` is
  partial too, this is the crossing, and if not, `Whole` is kept.

A partial flush ends the process and loses what was scheduled, but what the
kernel took before is still in order: no property of bytes needs room.

`NeverCrashes` needs `Roomy == LowWater >= BufSize`, a socket that is reported
writable takes a whole buffer. Without it the run `relay_crash` refutes it. On a
default Linux socket it is usually so: the kernel reports a socket writable when
a good part of a send buffer much larger than
`SOCKSPP_SESSION_SOCKET_BUFFER_SIZE` is free. `WritesReady` says of each Write event that is still to be
dispatched that its socket has scheduled bytes and room for them. It survives the
other events of the batch: where a socket is watched for Write, the one that its
bytes come from is watched for nothing, so that all that can be reported of that
one is a hang-up, which ends the session before the flush.

**Refinement of Pipe.** A step of the session moves bytes along inside `Transit`
and is a stutter; a peer's write or read is `Write` or `Deliver`; an end keeps
the front part that the send buffer holds and is `Close`, and so is the crash of
a partial flush. The step that crosses is `Break`, which still loses nothing, and
every later one is `Ruin`, for which the proof needs that a peer takes nothing
back (`GotStays`) and that a session that is over stays so (`StaysOver`).

**Session.** `IInv` adds `Shape` to the properties: a failure is told in state
ConnectingRemote only, the remote socket does not exist before that state, and
a connected session's attempt succeeded. Without it `NoSilentWait` is not
inductive: nothing else excludes that a session in `Authenticated` has a remote
socket already registered. `ConnectFailureAnswered` follows step by step: only
`TryConnectNext` ends a session for a failed attempt when there is no HUP.
`SessionGoesOn` counts what is left: `StepsLeft` falls with the state, within
`ConnectingRemote` by the addresses that are left (four steps each at most: the
kernel settles the attempt, its peer resets it, the session tries the next one),
and `AddressIndexValid` keeps it positive. So no handler runs for ever before the
relay; that the kernel and the loop do go on is the fairness that `ConnectSettles`
adds, with TLC.

**UDP association.** `SwapTwice` (swapping two bytes twice gives a port back) is
the arithmetic that everything rests on. The inductive invariant adds
`MapFromRequests`: an entry of the port map was made by a request of the
client's host, in the byte order of the machine. The refinement maps the port
map to the table of last askers, and needs `SwapTwice` for the port that
`Map` changes and for those it leaves alone. `RelayedMapped` says that the map has
an entry for every port that something was relayed to, as answers name it:
`DropsForReason` follows.

**Domain names.** The inductive invariant is `Calls`, which says that the entries
of the calls lie in the message and differ, and that each call that waits for a
link will go on behind it, inside the message. `StackSuffices` is then the
pigeonhole principle: differing entries in a message of n octets are at most n
calls, which the stack holds by `NameAssumption`.

The reference `DomainNames` follows the links of a message for a number of steps
by a recursive function, which says nothing to a prover until such a function is
known to exist: `UpTo` is induction over the number of steps, stated of a set
instead of an operator, `HasTable` builds the function row by row, and
`NamesEquation` is the equation of the definition, proved. As many steps as a
message has octets are enough (`EnoughSteps`): each step of a name that ends comes
to a place of its own, so the pigeonhole principle bounds them. `OneName` says
that there is at most one name at a place, `NoEnd` that there is none where links
lead back to where they came from.

The invariant `Meaning` gives what a decoder has read as a continuation: the name
at the place a call was made for is what the call has gathered, followed by the
name at the place it has come to. It says so of the call under way (`Carries`)
and of each call that waits for a link (`Linked`), whose name ends where the link
does. When the end octet is read, nothing is missing, hence `NamesAsSent`. When a
call gives up, there is no name at its place or a reason not to take it
(`Needs`, `Longer`), and this carries over to all callers, hence
`NoGoodNameRefused`. A link to an entry that is under way closes a loop, and a
name there would take more steps than itself.

`WorkShrinks` orders what is left: the octets behind the last name read
(`NamesLeft`), then the calls that the name under way may still make and has to
return from (`CallsLeft`), then the octets ahead (`OctetsLeft`). With the
fairness of the specification this is why `Terminates` holds; that last step is
left to TLC.

**Resolver.** `Stages` says what each state of a session implies for its sockets,
their registration and the number of its commands; `OwnSockets` that no two
sessions share a port; `OwnDatagrams` that all that is under way to or from an
open port is about the name its session asked for, unless the session `inherits`.
It is kept although others get ports with datagrams under way, as a port belongs
to one session at a time, and what comes to it from then on is about its question.

Model-checked only: the liveness properties (`StopEndsServe`, `Delivered`,
`ConnectSettles`, `Resolved`, `Terminates`, `InterruptEnds`), which are out of
the proof system's reach under fairness, and of which the safety half of four is
proved, that no step leads away from the goal (`StopInSight`, `SessionGoesOn`,
`WorkShrinks`, `EndInSight`); and the properties of
`DnsMessage` (`RoundTrip`, `FailsForReason`, `AddressesAsSent`), where reader and
writer fold over lists of fields of any length by RECURSIVE operators: what these
compute for every message is an induction over data. The three violated runs are
counterexamples. The theorems speak of safety alone: the fairness in the
specifications is not used in any proof.

## 5. Claims that do not hold

Statements of the repository's texts, of the protocols it implements, or of what
one would expect, that a model refutes. The first three are runs; each of the
others is a definition of its module, refuted by the change of a configuration
that is given here.

| Claim | How it is refuted | What happens |
|---|---|---|
| `NeverCrashes` | run `relay_crash` | A Write event whose `send()` is partial reads through a null buffer. |
| `ConnectFailureAnswered` | run `session_linux` | EPOLLHUP with EPOLLERR is taken for an end: the other addresses are not tried, the client is not told. |
| `ScheduledIsWatched` | run `relay_lost` | Both sockets in one batch: the second schedule cancels the first one's Write watch. |
| `StopEndsServe` | `EventLoop.cfg`, `TimedPoll = FALSE` (as on Linux) | SIGINT between the loop test and `epoll_wait()` closes the listening socket, and the loop waits for sessions' events. |
| `InterruptEnds` | `ServerProcess.cfg`, with the place "poll" not excluded from the property | The same: an interrupt before `epoll_wait()`, whose timeout is -1, is not seen until an event comes. |
| `RefusedForReason` | `Handshake.cfg`, without its conjunct `whole` | A greeting in two segments is refused. |
| `LengthsWithinMessage` | in place of the invariants of `Handshake.cfg`, `Dialogs <- Broken` | The check of `username_len` wraps; octets that were not received are compared. |
| `AssociationIsTold` | add it to `Handshake.cfg`, `Dialogs <- Plain` | `send()` returning -1 counts as success. |
| `InvalidSourceDropped` | add it to `UdpRelay.cfg` | A datagram of at most ten octets is sent back whoever sent it. |
| `FamilyMatches` | add it to `UdpRelay.cfg` | IPv6 destinations are given to an IPv4 socket. |
| `AnswersOwnQuestion` | `Resolver.cfg`, without its conjunct `~inherits[s]` | The identifier of every query is 0 and answers are not compared with questions: a late answer is taken by the next socket with that port. |
| `UnderstandsPointers` | add it to `DnsName.cfg` | A message that ends with a link is refused, as its end is no position. |
| `ResponseCodeKept` | add it to `DnsMessage.cfg` | `decode()` does not read the response code. |

Further observations, which the models contain as outcomes: the longest name
that is accepted overruns, by its final zero, the array it is laid out in
(`buffer.cpp:388`; `Layout` has one octet more than the array), and a name that
ends in a dot loses that zero (`buffer.cpp:363-365`, `Layout`); the target of an
SRV record is written as one string and read as labels; `::1` and other IPv6
forms are refused as `--dns-ip` while eight groups around a `::` are accepted and
then throw; an IPv6 listen address ends in an exception, as the socket is IPv4;
a name server text of the system is used unseen; SIGINT between
`prepare_sigint()` and the assignment in `serve()` closes whatever number the
uninitialised member holds, and is forgotten.

## 6. Not modelled, and the plan

Left out for good: logging, the option parser (vendored), the hooks (user
extension points: their default implementations forward), the Windows adapter
query and the Windows shim of epoll, whose sources are not in the repository,
printing and accessors of dnslib, and `Socket`'s option setters.

One composition would be worth adding: `EventLoop` with `Session` in place of the
abstract handlers, shown to implement `EventLoop`.
