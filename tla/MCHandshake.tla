---------------------------- MODULE MCHandshake ----------------------------
(***************************************************************************)
(* Model-checking instance of Handshake: dialogs of two or three messages. *)
(***************************************************************************)
EXTENDS Handshake

Long == [i \in 1 .. 255 |-> 97]

MCParams ==
    [username : {<<>>, <<117, 117>>}, password : {<<>>, <<112>>}]
    \cup {[username |-> Long, password |-> Long]}

MCGreetings == [kind : {"greeting"}, methods : {<<>>, <<0>>, <<2>>, <<1, 0, 2>>}]

MCLogins == {[kind |-> "auth", username |-> p.username, password |-> p.password] :
             p \in MCParams}

Addresses == {<<1, <<1, 2, 3, 4>>>>, <<4, [i \in 1 .. 16 |-> i]>>,
              <<3, <<>>>>, <<3, <<97, 98>>>>, <<3, Long>>, <<2, <<>>>>}

MCRequests == {[kind |-> "request", command |-> c, type |-> a[1], address |-> a[2],
              port |-> p] : c \in 1 .. 3, a \in Addresses, p \in {80, 4660}}

Authenticated == [kind |-> "greeting", methods |-> <<2>>]
Open          == [kind |-> "greeting", methods |-> <<0>>]

MCDialogs ==
    {<<g>> : g \in MCGreetings}
    \cup {<<Authenticated, a>> : a \in MCLogins}
    \cup {<<Open, r>> : r \in MCRequests}
    \cup {<<Authenticated, [kind |-> "auth", username |-> Long, password |-> Long], r>> :
             r \in MCRequests}
    \cup {<<Open, r, [kind |-> "data", octets |-> <<97>>]>> : r \in MCRequests}

\* These are the clients that the theorems speak of.
ASSUME (Dialogs = MCDialogs => ClientsWellSpoken) /\ ClientsSendOctets

\* A message of authentication that is cut off, or not one
Broken == {<<Authenticated, [kind |-> "cut", octets |-> o]>> :
              o \in {<<1>>, <<1, 2, 117, 117>>, <<1, 2, 117, 117, 1, 112>>}}

\* One of everything
Plain == {<<Authenticated, [kind |-> "auth", username |-> <<>>, password |-> <<112>>], r>> :
             r \in [kind : {"request"}, command : {1, 3}, type : {1},
                    address : {<<1, 2, 3, 4>>}, port : {80}]}
=============================================================================
