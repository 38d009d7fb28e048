----------------------------- MODULE Handshake -----------------------------
(***************************************************************************)
(* The messages of a SOCKS5 client as octets on a TCP connection, and what *)
(* a Session makes of each recv(), which it takes for one message.  The    *)
(* buffer that a message is read from is an array on the stack: what lies  *)
(* behind the octets received has any value.                               *)
(***************************************************************************)
EXTENDS S5Message

CONSTANTS
    Dialogs,        \* sequences of messages of a client
    Params,         \* _params: username and password of the server
    Garbage,        \* values of memory that was not written
    MessageSize,    \* size of the buffer for a message
    ReplySize,      \* size of the buffer for a reply
    Pieces          \* lengths that a recv() may return short of all there is

ASSUME HandshakeAssumption ==
    /\ Params \subseteq [username : Seq(Octets), password : Seq(Octets)]
    /\ Garbage \subseteq Octets /\ Garbage # {}
    /\ MessageSize \in Nat /\ MessageSize >= 513
    /\ ReplySize \in Nat /\ ReplySize >= 262
    /\ Pieces \subseteq Nat

VARIABLES
    dialog,     \* what the client says
    params,     \* the server's parameters
    spoken,     \* messages the client has sent
    stream,     \* octets under way to the session
    state,      \* _state, or "over"
    heard,      \* what the session understood, message by message
    said,       \* octets of the messages to the client, those that were lost too
    told,       \* the last of them was taken by send()
    whole       \* history: every recv() so far has returned one message, all of
                \* it and nothing more

vars == <<dialog, params, spoken, stream, state, heard, said, told, whole>>

NoAuth       == 0
UserPass     == 2
Invalid      == 255
Connect      == 1
UdpAssociate == 3

States == {"Accepted", "AuthRequested", "Authenticated", "Working", "Connected",
           "Associated", "over"}

TypeOK ==
    /\ spoken \in 0 .. Len(dialog)
    /\ stream \in Seq(Octets)
    /\ state \in States
    /\ Len(heard) <= 3
    /\ said \in Seq(Seq(Octets))
    /\ told \in BOOLEAN
    /\ whole \in BOOLEAN

-----------------------------------------------------------------------------
(* The client: messages as RFC 1928 and RFC 1929 lay them out. *)

Text(octets) == <<Len(octets)>> \o octets

Encoded(message) ==
    CASE message.kind = "greeting" -> <<5>> \o Text(message.methods)
      [] message.kind = "auth" -> <<1>> \o Text(message.username)
                                        \o Text(message.password)
      [] message.kind = "request" ->
            <<5, message.command, 0, message.type>>
            \o (IF message.type = 3 THEN Text(message.address) ELSE message.address)
            \o <<message.port \div 256, message.port % 256>>
      [] OTHER -> message.octets

\* What RFC 1928 and RFC 1929 let a client say: a text has up to 255 octets, an
\* address the length of its type.
MaxText == 255

IsText(octets) == octets \in Seq(Octets) /\ Len(octets) <= MaxText

Greetings == [kind : {"greeting"}, methods : Seq(Octets)]
Logins    == [kind : {"auth"}, username : Seq(Octets), password : Seq(Octets)]
Requests  == [kind : {"request"}, command : Octets, type : Octets,
              address : Seq(Octets), port : Ports]
Payloads  == [kind : {"data"}, octets : Seq(Octets)]

IsGreeting(m) == m \in Greetings /\ IsText(m.methods)

IsLogin(m) == m \in Logins /\ IsText(m.username) /\ IsText(m.password)

IsRequest(m) ==
    /\ m \in Requests
    /\ IsText(m.address)
    /\ m.type = 1 => Len(m.address) = 4
    /\ m.type = 4 => Len(m.address) = 16

\* The method that a server with these parameters asks for
Demanded(p) == IF p = [username |-> <<>>, password |-> <<>>] THEN 0 ELSE 2

Offers(d, p) ==
    Len(d) > 0 /\ \E i \in DOMAIN d[1].methods : d[1].methods[i] = Demanded(p)

\* A client of a server with the parameters p says one thing after the other: if
\* it has offered the method that is demanded, its credentials if they are, its
\* request, and only then data.
WellSpoken(d, p) ==
    LET last == IF Demanded(p) = 0 THEN 2 ELSE 3 IN
    /\ d \in Seq(Greetings \cup Logins \cup Requests \cup Payloads)
    /\ Len(d) > 0 => IsGreeting(d[1])
    /\ Offers(d, p) =>
          /\ Len(d) > 1 /\ last = 3 => IsLogin(d[2])
          /\ Len(d) >= last => IsRequest(d[last])
          /\ \A i \in last + 1 .. Len(d) : d[i] \in Payloads

\* All clients are well-spoken, whatever server they meet.
ClientsWellSpoken == \A d \in Dialogs, p \in Params : WellSpoken(d, p)

\* All clients send octets, which may be anything.
ClientsSendOctets ==
    \A d \in Dialogs : /\ Len(d) \in Nat
                       /\ \A i \in 1 .. Len(d) : Encoded(d[i]) \in Seq(Octets)

Init ==
    /\ dialog \in Dialogs
    /\ params \in Params
    /\ spoken = 0
    /\ stream = <<>>
    /\ state = "Accepted"
    /\ heard = <<>>
    /\ said = <<>>
    /\ told = TRUE
    /\ whole = TRUE

\* The client need not wait until its last message was read, nor for a reply.
Speak ==
    /\ state # "over"
    /\ spoken < Len(dialog)
    /\ told
    /\ spoken' = spoken + 1
    /\ whole' = (whole /\ stream = <<>>)
    /\ stream' = stream \o Encoded(dialog[spoken + 1])
    /\ UNCHANGED <<dialog, params, state, heard, said, told>>

-----------------------------------------------------------------------------
(* The session *)

\* get_auth_method()
AuthMethod ==
    IF params.username = <<>> /\ params.password = <<>> THEN NoAuth ELSE UserPass

\* Memory with the octets received
Memory(octets, g) ==
    [i \in 0 .. MessageSize - 1 |-> IF i < Len(octets) THEN octets[i + 1] ELSE g]

Slice(m, from, n) == [i \in 1 .. n |-> m[from + i - 1]]

\* length > n, where a negative n has wrapped round
Exceeds(length, n) == n >= 0 /\ length > n

Tell(octets) == said' = Append(said, octets) /\ told' \in BOOLEAN
Silent       == UNCHANGED <<said, told>>

Hear(message) == heard' = Append(heard, message)

Goto(there) == state' = there

Refuse(octets) == Goto("over") /\ Tell(octets) /\ UNCHANGED heard

\* _check_version(), _request_auth(): it ends if send() fails.
Greet(m) ==
    LET offered == {m[i + 2] : i \in 0 .. m[1] - 1} IN
    IF m[0] # 5 \/ AuthMethod \notin offered THEN Refuse(<<5, Invalid>>)
    ELSE /\ Tell(<<5, AuthMethod>>)
         /\ Hear([kind |-> "greeting", method |-> AuthMethod])
         /\ Goto(IF ~told' THEN "over"
                 ELSE IF AuthMethod = NoAuth THEN "Authenticated" ELSE "AuthRequested")

\* Mutated form: an empty rest is not enough for an empty password.
PasswordTooLongStrict(m, size) ==
    Exceeds(m[2 + m[1]] + 1, size - m[1] - 3)

PasswordTooLong(m, size) == Exceeds(m[2 + m[1]], size - m[1] - 3)

\* _handle_auth(), Server::authenticate()
HandleAuth(m, size) ==
    LET username == Slice(m, 2, m[1])
        password == Slice(m, 3 + m[1], m[2 + m[1]])
    IN IF Exceeds(m[1], size - 2) \/ PasswordTooLong(m, size)
       THEN Goto("over") /\ Silent /\ UNCHANGED heard
       ELSE IF username # params.username \/ password # params.password
       THEN Refuse(<<5, 255>>)
       ELSE /\ Tell(<<5, 0>>)
            /\ Hear([kind |-> "auth", username |-> username, password |-> password])
            /\ Goto("Authenticated")

\* A refusal names the address of the request.
RefuseRequest(m, g, reply) ==
    Refuse(Reply([i \in 0 .. ReplySize - 1 |-> g], reply, m[3],
                 [i \in 0 .. 255 |-> m[4 + i]], get_port(m, 3)))

\* _resolve_address(): what is connected to, or asked for
Target(m) ==
    [kind    |-> "request",
     command |-> m[1],
     type    |-> m[3],
     address |-> CASE m[3] = AddrType.IPv4 -> Slice(m, 4, 4)
                   [] m[3] = AddrType.IPv6 -> Slice(m, 4, 16)
                   [] OTHER                -> Slice(m, 5, m[4]),
     port    |-> get_port(m, 3)]

KnownType(m) == \E t \in DOMAIN AddrType : AddrType[t] = m[3]

\* _check_command(), _resolve_address(): a name may not be queried.
Request(m, g) ==
    \/ /\ m[1] \notin {Connect, UdpAssociate}
       /\ RefuseRequest(m, g, 7)
    \/ /\ m[1] \in {Connect, UdpAssociate}
       /\ ~KnownType(m) \/ m[3] = AddrType.DomainName
       /\ RefuseRequest(m, g, 8)
    \/ /\ m[1] \in {Connect, UdpAssociate}
       /\ KnownType(m)
       /\ Hear(Target(m))
       /\ Goto("Working")
       /\ Silent

\* process_client_event(): n octets arrive, of one message or of several.
Receive(n, g) ==
    LET m == Memory(SubSeq(stream, 1, n), g) IN
    /\ state \notin {"over", "Connected", "Associated"}
    /\ n \in 1 .. Len(stream)
    /\ n \in Pieces \/ n = Len(stream)
    /\ whole' = (whole /\ n = Len(stream))
    /\ stream' = SubSeq(stream, n + 1, Len(stream))
    /\ \/ state = "Accepted"      /\ Greet(m)
       \/ state = "AuthRequested" /\ HandleAuth(m, n)
       \/ state = "Authenticated" /\ Request(m, g)
       \/ state = "Working"       /\ Goto("over") /\ Silent /\ UNCHANGED heard
    /\ UNCHANGED <<dialog, params, spoken>>

\* The request is carried out, or not, and the reply names the host that was
\* connected to, or where datagrams are expected.  send_reply() returns -1 as
\* true: a reply that send() did not take makes no difference.  After the
\* failure of the first connect() the session stays.
Answer(a, type, port, g) ==
    LET connects == heard[Len(heard)].command = Connect IN
    /\ state = "Working"
    /\ Len(said) < Len(heard)
    /\ \E reply \in IF connects THEN {0, 1, 3} ELSE {0} :
          /\ Tell(Reply([i \in 0 .. ReplySize - 1 |-> g], reply, type, a, port))
          /\ \/ reply = 0 /\ Goto(IF connects THEN "Connected" ELSE "Associated")
             \/ reply # 0 /\ Goto("over")
             \/ reply = 1 /\ UNCHANGED state
    /\ UNCHANGED <<dialog, params, spoken, stream, heard, whole>>

Next ==
    \/ Speak
    \/ \E n \in 1 .. Len(stream), g \in Garbage : Receive(n, g)
    \/ \E type \in {AddrType.IPv4, AddrType.IPv6}, g \in Garbage :
          Answer([i \in 0 .. 15 |-> 16 + i], type, 258, g)

Spec == Init /\ [][Next]_vars

-----------------------------------------------------------------------------
\* What the session should understand of a message
Meaning(message) ==
    IF message.kind = "greeting"
    THEN [kind   |-> "greeting",
          method |-> Demanded(params)]
    ELSE message

\* As long as every recv() returns one message, the credentials, the address and
\* the port that a session works with are those that its client wrote, at their
\* offsets and in their byte order, and nothing that lay in the buffer before.
HeardAsSent ==
    whole => \A i \in DOMAIN heard : heard[i] = Meaning(dialog[i])

\* Messages that a server must take
Acceptable(message) ==
    CASE message.kind = "greeting" ->
            Meaning(message).method \in {message.methods[i] : i \in DOMAIN message.methods}
      [] message.kind = "auth" ->
            /\ message.username = params.username
            /\ message.password = params.password
      [] message.kind = "request" -> message.command \in {1, 3} /\ message.type \in {1, 4}
      [] OTHER -> FALSE

\* A session that gets each message by one recv() refuses nothing that a SOCKS5
\* server has to take, however long its texts are: it ends for a method,
\* credentials, a command or an address type.  One that gets a message in two
\* pieces takes the first for all of it, and may end for that (README, section
\* 5).
RefusedForReason ==
    (whole /\ state = "over" /\ told /\ Len(heard) < Len(dialog)) =>
        ~Acceptable(dialog[Len(heard) + 1])

\* To a client whose messages are received one by one, every reply fits its
\* buffer and is a message of RFC 1928: version, reply, a
\* reserved octet, and an address with the length of its type; and the address
\* in a refusal is that of the request.  The refusal of an address type that is
\* not known is cut off before it.
RepliesWellFormed ==
    whole => \A i \in DOMAIN said :
        LET r == said[i]
            e == Encoded(dialog[spoken])
        IN \/ Len(r) = 2
           \/ Len(r) = 3 /\ dialog[spoken].type \notin {1, 3, 4}
           \/ /\ Len(r) <= ReplySize
              /\ r[1] = 5
              /\ r[4] \in {1, 3, 4}
              /\ Len(r) = 6 + CASE r[4] = 1 -> 4 [] r[4] = 4 -> 16 [] OTHER -> 1 + r[5]
              /\ r[2] \in {7, 8} => SubSeq(r, 4, Len(r)) = SubSeq(e, 4, Len(e))
              /\ r[2] \in {0, 1, 3} =>
                    /\ SubSeq(r, Len(r) - 1, Len(r)) = <<1, 2>>
                    /\ \A k \in 5 .. Len(r) - 2 : r[k] = 11 + k

\* "Username length is longer than the buffer itself": credentials lie within
\* the message that was received.
LengthsWithinMessage ==
    \A i \in DOMAIN heard : heard[i].kind = "auth" =>
        Len(heard[i].username) + Len(heard[i].password) + 3 <= Len(Encoded(dialog[i]))

\* "failed sending association reply": a client that is associated was told so.
AssociationIsTold == state = "Associated" => told
=============================================================================
