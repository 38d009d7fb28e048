-------------------------- MODULE HandshakeProofs --------------------------
(***************************************************************************)
(* For clients that speak as RFC 1928 and RFC 1929 have it, whatever they  *)
(* say, and as long as a recv() returns a whole message: the session       *)
(* understands what was said, refuses only what it may, and answers with   *)
(* well-formed messages.  For any client and any pieces: it handles        *)
(* nothing but octets.                                                     *)
(***************************************************************************)
EXTENDS Handshake, SequenceTheorems, TLAPS

\* Messages that come before the request
Before == IF Demanded(params) = 0 THEN 1 ELSE 2

\* What is under way is the last message that the client has sent.
UnderWay ==
    /\ dialog \in Dialogs /\ params \in Params
    /\ stream # <<>> => spoken > 0 /\ stream = Encoded(dialog[spoken])

\* The session has taken all that was sent, up to what is under way.
InTurn ==
    /\ Len(heard) <= spoken
    /\ state \in {"Accepted", "AuthRequested", "Authenticated"} =>
          spoken = Len(heard) + IF stream = <<>> THEN 0 ELSE 1

\* The state tells how many messages were taken.
Stages ==
    /\ state = "Accepted" => heard = <<>>
    /\ state = "AuthRequested" => Len(heard) = 1 /\ Demanded(params) = 2
    /\ state = "Authenticated" => Len(heard) = Before
    /\ state \in {"Working", "Connected", "Associated"} => Len(heard) = Before + 1
    /\ heard # <<>> => Offers(dialog, params)

\* A reply of RFC 1928, with an address of the length of its type
WellFormed(r) ==
    /\ Len(r) <= ReplySize
    /\ r[1] = 5 /\ r[4] \in {1, 3, 4}
    /\ Len(r) = 6 + CASE r[4] = 1 -> 4 [] r[4] = 4 -> 16 [] OTHER -> 1 + r[5]

\* The answer to a request, with the address and the port of Answer
IsAnswer(r) ==
    /\ r[2] \in {0, 1, 3}
    /\ WellFormed(r)
    /\ SubSeq(r, Len(r) - 1, Len(r)) = <<1, 2>>
    /\ \A k \in 5 .. Len(r) - 2 : r[k] = 11 + k

\* The refusal of the request q
IsRefusal(r, q) ==
    /\ r[2] \in {7, 8}
    /\ \/ Len(r) = 3 /\ q.type \notin {1, 3, 4}
       \/ /\ WellFormed(r)
          /\ SubSeq(r, 4, Len(r)) = SubSeq(Encoded(q), 4, Len(Encoded(q)))

\* A refusal is the last thing that is said, about the last thing that was sent.
Replies ==
    \A i \in DOMAIN said :
        \/ Len(said[i]) = 2
        \/ IsAnswer(said[i])
        \/ /\ state = "over" /\ spoken > 0
           /\ IsRequest(dialog[spoken])
           /\ IsRefusal(said[i], dialog[spoken])

\* What a session can have understood
Understood == [kind : {"greeting"}, method : {0, 2}] \cup Logins \cup Requests

\* The types, but for what is said
Typed ==
    /\ spoken \in 0 .. Len(dialog)
    /\ stream \in Seq(Octets)
    /\ state \in States
    /\ heard \in Seq(Understood) /\ Len(heard) <= 3
    /\ told \in BOOLEAN

\* What is heard does not depend on what is said, but for its being taken.
Hearing == whole /\ Typed /\ UnderWay /\ InTurn /\ Stages /\ HeardAsSent /\ RefusedForReason

Speech == said \in Seq(Seq(Octets)) /\ Replies

\* This holds until a recv() returns less than a message, or more.
IInv == whole => Hearing /\ Speech
-----------------------------------------------------------------------------
(* The client's octets *)

\* A message of n octets
Sized(s, n) == s \in Seq(Octets) /\ Len(s) = n

\* The n octets of s are in e, behind k others.
Within(e, k, s, n) == \A i \in 1 .. n : e[k + i] = s[i]

\* e is the m octets of s and the n octets of t.
IsJoined(e, s, m, t, n) ==
    /\ Sized(e, m + n)
    /\ \A i \in 1 .. m : e[i] = s[i]
    /\ Within(e, m, t, n)

\* e is the text o and its length n before it.
IsTextOf(e, o, n) == Sized(e, 1 + n) /\ e[1] = n /\ Within(e, 1, o, n)

\* An octet is a number.
LEMMA OctetIsNat == \A n \in Octets : n \in Nat /\ n <= 255
  BY DEF Octets

\* Two messages, one behind the other
LEMMA Joined ==
  ASSUME NEW m \in Nat, NEW n \in Nat, NEW s, NEW t, Sized(s, m), Sized(t, n)
  PROVE  IsJoined(s \o t, s, m, t, n)
<1>1. s \in Seq(Octets) /\ t \in Seq(Octets) /\ Len(s) = m /\ Len(t) = n
  BY DEF Sized
<1>2. PICK j : j = s \o t
  OBVIOUS
<1>3. /\ j \in Seq(Octets) /\ Len(j) = m + n
      /\ \A i \in 1 .. m + n : j[i] = IF i <= m THEN s[i] ELSE t[i - m]
  BY <1>1, <1>2, ConcatProperties, Zenon
<1>4. \A i \in 1 .. m : j[i] = s[i]
  BY <1>3
<1>5. \A i \in 1 .. n : j[m + i] = t[i]
  <2>1. TAKE i \in 1 .. n
  <2>2. m + i \in 1 .. m + n /\ ~(m + i <= m) /\ (m + i) - m = i
    OBVIOUS
  <2>3. QED
    BY <1>3, <2>2
<1>6. Sized(j, m + n)
  BY <1>3 DEF Sized
<1>7. IsJoined(j, s, m, t, n)
  BY <1>4, <1>5, <1>6 DEF IsJoined, Within
<1>8. QED
  BY <1>2, <1>7

\* A text has at most 255 octets.
LEMMA TextSized ==
  ASSUME NEW o, IsText(o)
  PROVE  \E n \in Octets : Sized(o, n)
<1>1. o \in Seq(Octets) /\ Len(o) <= MaxText
  BY Zenon DEF IsText
<1>2. Len(o) \in Nat
  BY <1>1, LenProperties, Zenon
<1>3. PICK n : n = Len(o)
  OBVIOUS
<1>4. n \in Nat /\ n <= MaxText
  BY <1>1, <1>2, <1>3, Zenon
<1>5. n \in Octets
  BY <1>4 DEF MaxText, Octets
<1>6. Sized(o, n)
  BY <1>1, <1>3, Zenon DEF Sized
<1>7. QED
  BY <1>5, <1>6

\* One octet
LEMMA OneOctet ==
  ASSUME NEW x \in Octets
  PROVE  Sized(<<x>>, 1) /\ <<x>>[1] = x
  BY DEF Sized

\* An octet for the length and the text
LEMMA TextOctets ==
  ASSUME NEW o, NEW n \in Octets, Sized(o, n)
  PROVE  IsTextOf(Text(o), o, n)
<1>1. PICK s : s = <<n>>
  OBVIOUS
<1>2. 1 \in Nat /\ n \in Nat
  BY OctetIsNat
<1>3. Sized(s, 1) /\ s[1] = n
  BY <1>1, OneOctet
<1>4. Text(o) = s \o o
  BY <1>1, Zenon DEF Text, Sized
<1>5. IsJoined(Text(o), s, 1, o, n)
  BY <1>2, <1>3, <1>4, Joined
<1>6. Text(o)[1] = s[1]
  <2>1. 1 \in 1 .. 1
    OBVIOUS
  <2>2. QED
    BY <1>5, <2>1, Zenon DEF IsJoined
<1>7. QED
  BY <1>3, <1>5, <1>6, Zenon DEF IsJoined, IsTextOf

\* What is within a part is within the whole.
LEMMA WithinPart ==
  ASSUME NEW j \in Nat, NEW k \in Nat, NEW m \in Nat, NEW n \in Nat,
         NEW e, NEW s, NEW t, Within(e, j, s, m), Within(s, k, t, n), k + n <= m
  PROVE  Within(e, j + k, t, n)
<1>1. SUFFICES ASSUME NEW i \in 1 .. n PROVE e[(j + k) + i] = t[i]
  BY DEF Within
<1>2. k + i \in 1 .. m /\ j + (k + i) = (j + k) + i
  OBVIOUS
<1>3. QED
  BY <1>2, Zenon DEF Within

\* What is within the front is within the whole.
LEMMA WithinFront ==
  ASSUME NEW k \in Nat, NEW m \in Nat, NEW n \in Nat, NEW l \in Nat,
         NEW e, NEW s, NEW t, NEW u, IsJoined(e, s, m, u, l), Within(s, k, t, n),
         k + n <= m
  PROVE  Within(e, k, t, n)
<1>1. SUFFICES ASSUME NEW i \in 1 .. n PROVE e[k + i] = t[i]
  BY DEF Within
<1>2. k + i \in 1 .. m
  OBVIOUS
<1>3. e[k + i] = s[k + i] /\ s[k + i] = t[i]
  BY <1>2, Zenon DEF IsJoined, Within
<1>4. QED
  BY <1>3

\* One octet of the second part
LEMMA WithinAt ==
  ASSUME NEW k, NEW n, NEW e, NEW s, Within(e, k, s, n), NEW i \in 1 .. n
  PROVE  e[k + i] = s[i]
  BY DEF Within

\* A greeting: the version, the number of methods, the methods
LEMMA GreetingOctets ==
  ASSUME NEW d, IsGreeting(d), NEW e, e = Encoded(d)
  PROVE  \E n \in Octets :
            /\ Sized(d.methods, n) /\ Sized(e, 2 + n)
            /\ e[1] = 5 /\ e[2] = n /\ Within(e, 2, d.methods, n)
<1>1. d.kind = "greeting" /\ IsText(d.methods)
  BY DEF IsGreeting, Greetings
<1>2. PICK n \in Octets : Sized(d.methods, n)
  BY <1>1, TextSized
<1>3. PICK s : s = <<5>>
  OBVIOUS
<1>4. Sized(s, 1) /\ s[1] = 5
  <2>1. 5 \in Octets
    BY DEF Octets
  <2>2. QED
    BY <1>3, <2>1, OneOctet
<1>5. PICK x : x = Text(d.methods)
  OBVIOUS
<1>6. Sized(x, 1 + n) /\ x[1] = n /\ Within(x, 1, d.methods, n)
  <2>1. IsTextOf(Text(d.methods), d.methods, n)
    BY <1>2, TextOctets
  <2>2. QED
    BY <1>5, <2>1 DEF IsTextOf
<1>7. e = s \o x
  BY <1>1, <1>3, <1>5 DEF Encoded
<1>8. /\ 1 \in Nat /\ n \in Nat /\ 1 + n \in Nat /\ 1 \in 1 .. 1 /\ 1 \in 1 .. 1 + n
      /\ 1 + 1 = 2 /\ 1 + (1 + n) = 2 + n /\ 1 + n <= 1 + n
  BY OctetIsNat
<1>9. IsJoined(e, s, 1, x, 1 + n)
  BY <1>4, <1>6, <1>7, <1>8, Joined
<1>10. Sized(e, 1 + (1 + n)) /\ e[1] = s[1] /\ Within(e, 1, x, 1 + n)
  BY <1>8, <1>9, Zenon DEF IsJoined
<1>11. Within(e, 1 + 1, d.methods, n)
  BY <1>6, <1>8, <1>10, WithinPart
<1>12. e[1 + 1] = x[1]
  BY <1>8, <1>10, WithinAt
<1>13. Sized(e, 2 + n) /\ e[1] = 5 /\ e[2] = n /\ Within(e, 2, d.methods, n)
  BY <1>4, <1>6, <1>8, <1>10, <1>11, <1>12
<1>14. QED
  BY <1>2, <1>13

\* e is s, of m octets, with the text o of n octets behind it.
Behind(e, s, m, o, n) ==
    /\ Sized(e, m + (1 + n))
    /\ Within(e, 0, s, m)
    /\ e[m + 1] = n
    /\ Within(e, m + 1, o, n)

\* A text behind a message
LEMMA TextBehind ==
  ASSUME NEW m \in Nat, NEW n \in Octets, NEW s, NEW o, Sized(s, m), Sized(o, n)
  PROVE  Behind(s \o Text(o), s, m, o, n)
<1>1. PICK x : x = Text(o)
  OBVIOUS
<1>2. Sized(x, 1 + n) /\ x[1] = n /\ Within(x, 1, o, n)
  <2>1. IsTextOf(Text(o), o, n)
    BY TextOctets
  <2>2. QED
    BY <1>1, <2>1 DEF IsTextOf
<1>3. n \in Nat /\ 1 + n \in Nat /\ 1 \in 1 .. 1 + n /\ 1 \in Nat /\ 1 + n <= 1 + n
  BY OctetIsNat
<1>4. PICK e : e = s \o x
  OBVIOUS
<1>5. IsJoined(e, s, m, x, 1 + n)
  BY <1>2, <1>3, <1>4, Joined
<1>6. Sized(e, m + (1 + n)) /\ Within(e, m, x, 1 + n) /\ \A i \in 1 .. m : e[i] = s[i]
  BY <1>5, Zenon DEF IsJoined
<1>7. Within(e, 0, s, m)
  <2>1. SUFFICES ASSUME NEW i \in 1 .. m PROVE e[0 + i] = s[i]
    BY Zenon DEF Within
  <2>2. 0 + i = i
    OBVIOUS
  <2>3. QED
    BY <1>6, <2>2
<1>8. e[m + 1] = n
  BY <1>2, <1>3, <1>6, WithinAt
<1>9. Within(e, m + 1, o, n)
  BY <1>2, <1>3, <1>6, WithinPart
<1>10. QED
  BY <1>1, <1>4, <1>6, <1>7, <1>8, <1>9, Zenon DEF Behind

\* Credentials: the version and two texts, each with its length before it
LEMMA LoginOctets ==
  ASSUME NEW d, IsLogin(d), NEW e, e = Encoded(d)
  PROVE  \E u \in Octets, p \in Octets :
            /\ Sized(d.username, u) /\ Sized(d.password, p)
            /\ Sized(e, (2 + u) + (1 + p))
            /\ e[2] = u /\ Within(e, 2, d.username, u)
            /\ e[3 + u] = p /\ Within(e, 3 + u, d.password, p)
<1>1. d.kind = "auth" /\ IsText(d.username) /\ IsText(d.password)
  BY DEF IsLogin, Logins
<1>2. PICK u \in Octets : Sized(d.username, u)
  BY <1>1, TextSized
<1>3. PICK p \in Octets : Sized(d.password, p)
  BY <1>1, TextSized
<1>4. PICK s : s = <<1>>
  OBVIOUS
<1>5. Sized(s, 1)
  <2>1. 1 \in Octets
    BY DEF Octets
  <2>2. QED
    BY <1>4, <2>1, OneOctet
<1>6. PICK x : x = s \o Text(d.username)
  OBVIOUS
<1>7. u \in Nat /\ p \in Nat
  BY OctetIsNat
<1>8. Behind(x, s, 1, d.username, u)
  BY <1>2, <1>5, <1>6, TextBehind
<1>9. Sized(x, 2 + u) /\ x[2] = u /\ Within(x, 2, d.username, u)
  <2>1. 1 + (1 + u) = 2 + u /\ 1 + 1 = 2
    BY <1>7
  <2>2. QED
    BY <1>8, <2>1 DEF Behind
<1>10. e = x \o Text(d.password)
  BY <1>1, <1>4, <1>6 DEF Encoded
<1>11. Behind(e, x, 2 + u, d.password, p)
  BY <1>3, <1>7, <1>9, <1>10, TextBehind
<1>12. /\ Sized(e, (2 + u) + (1 + p)) /\ Within(e, 0, x, 2 + u)
       /\ e[(2 + u) + 1] = p /\ Within(e, (2 + u) + 1, d.password, p)
  BY <1>11, Zenon DEF Behind
<1>13. (2 + u) + 1 = 3 + u /\ 0 + 2 = 2 /\ 2 \in 1 .. 2 + u /\ 2 + u <= 2 + u
  BY <1>7
<1>14. e[2] = u
  BY <1>9, <1>12, <1>13, WithinAt
<1>15. Within(e, 2, d.username, u)
  BY <1>7, <1>9, <1>12, <1>13, WithinPart
<1>16. QED
  BY <1>2, <1>3, <1>12, <1>13, <1>14, <1>15

\* The address of a request as it is sent
Address(d) == IF d.type = 3 THEN Text(d.address) ELSE d.address

\* The address of d is sent in w octets, n of them of the name.
AddressIs(d, w, n) ==
    /\ Sized(Address(d), w)
    /\ d.type = 1 => w = 4
    /\ d.type = 4 => w = 16
    /\ d.type = 3 => /\ w = 1 + n /\ Sized(d.address, n)
                     /\ Address(d)[1] = n /\ Within(Address(d), 1, d.address, n)

\* A message has one length.
LEMMA SizedLen ==
  ASSUME NEW s, NEW n, NEW k, Sized(s, n), Len(s) = k
  PROVE  n = k
  BY Zenon DEF Sized

\* An address of a request has at most 256 octets.
LEMMA AddressSized ==
  ASSUME NEW d, IsRequest(d)
  PROVE  \E n \in Octets, w \in Nat : w <= 256 /\ AddressIs(d, w, n)
<1>1. IsText(d.address)
  BY Zenon DEF IsRequest
<1>2. PICK n \in Octets : Sized(d.address, n)
  BY <1>1, TextSized
<1>3. n \in Nat /\ 1 + n \in Nat /\ n <= 256 /\ 1 + n <= 256
  BY OctetIsNat
<1>4. CASE d.type = 3
  <2>1. IsTextOf(Text(d.address), d.address, n)
    BY <1>2, TextOctets
  <2>2. Address(d) = Text(d.address)
    BY <1>4, Zenon DEF Address
  <2>3. AddressIs(d, 1 + n, n)
    <3>1. d.type # 1 /\ d.type # 4
      BY <1>4
    <3>2. QED
      BY <1>2, <2>1, <2>2, <3>1, Zenon DEF IsTextOf, AddressIs
  <2>4. QED
    BY <1>3, <2>3
<1>5. CASE d.type # 3
  <2>1. Address(d) = d.address
    BY <1>5, Zenon DEF Address
  <2>2. (d.type = 1 => n = 4) /\ (d.type = 4 => n = 16)
    BY <1>2, SizedLen, Zenon DEF IsRequest
  <2>3. AddressIs(d, n, n)
    BY <1>2, <1>5, <2>1, <2>2, Zenon DEF AddressIs
  <2>4. QED
    BY <1>3, <2>3
<1>6. QED
  BY <1>4, <1>5

\* e is the request d with an address of w octets.
RequestIs(e, d, w) ==
    /\ Sized(e, (4 + w) + 2)
    /\ e[1] = 5 /\ e[2] = d.command /\ e[4] = d.type
    /\ Within(e, 4, Address(d), w)
    /\ e[(4 + w) + 1] = d.port \div 256
    /\ e[(4 + w) + 2] = d.port % 256

\* A port is two octets.
LEMMA TwoOctets ==
  ASSUME NEW port \in Ports
  PROVE  /\ port \div 256 \in Octets /\ port % 256 \in Octets
         /\ port = (port \div 256) * 256 + (port % 256)
<1>1. port \in Nat /\ port < 65536
  <2>1. MaxPort \in Nat /\ MaxPort < 65536
    BY DEF MaxPort
  <2>2. port \in 0 .. MaxPort
    BY Zenon DEF Ports
  <2>3. port \in Nat /\ port <= MaxPort
    BY <2>1, <2>2
  <2>4. QED
    BY <2>1, <2>3
<1>2. PICK q \in Int, r \in Int : q = port \div 256 /\ r = port % 256
  BY <1>1
<1>3. 0 <= r /\ r <= 255 /\ port = 256 * q + r
  BY <1>1, <1>2, SMTT(30)
<1>4. 0 <= q /\ q <= 255
  BY <1>1, <1>3
<1>5. QED
  BY <1>2, <1>3, <1>4 DEF Octets

\* A request: version, command, type, address and port
LEMMA RequestOctets ==
  ASSUME NEW d, IsRequest(d), NEW w \in Nat, Sized(Address(d), w), NEW e, e = Encoded(d)
  PROVE  RequestIs(e, d, w)
<1>1. /\ d.kind = "request" /\ d.command \in Octets /\ d.type \in Octets
      /\ d.port \in Ports
  BY DEF IsRequest, Requests
<1>2. DEFINE q == d.port \div 256
             r == d.port % 256
<1>3. q \in Octets /\ r \in Octets
  BY <1>1, TwoOctets
<1>4. PICK h : h = <<5, d.command, 0, d.type>>
  OBVIOUS
<1>5. Sized(h, 4) /\ h[1] = 5 /\ h[2] = d.command /\ h[4] = d.type
  <2>1. 5 \in Octets /\ 0 \in Octets
    BY DEF Octets
  <2>2. QED
    BY <1>1, <1>4, <2>1 DEF Sized
<1>6. PICK t : t = <<q, r>>
  OBVIOUS
<1>7. Sized(t, 2) /\ t[1] = q /\ t[2] = r
  <2> HIDE DEF q, r
  <2>1. QED
    BY <1>3, <1>6 DEF Sized
<1>8. PICK a : a = Address(d)
  OBVIOUS
<1>9. e = (h \o a) \o t
  BY <1>1, <1>4, <1>6, <1>8 DEF Encoded, Address
<1>10. PICK x : x = h \o a
  OBVIOUS
<1>11. /\ 4 \in Nat /\ 2 \in Nat /\ 4 + w \in Nat /\ 1 \in 1 .. 2 /\ 2 \in 1 .. 2
       /\ 1 \in 1 .. 4 /\ 2 \in 1 .. 4 /\ 4 \in 1 .. 4
       /\ 1 \in 1 .. 4 + w /\ 2 \in 1 .. 4 + w /\ 4 \in 1 .. 4 + w
       /\ 4 + w <= 4 + w
  OBVIOUS
<1>12. IsJoined(x, h, 4, a, w)
  BY <1>5, <1>8, <1>10, <1>11, Joined
<1>13. Sized(x, 4 + w) /\ x[1] = 5 /\ x[2] = d.command /\ x[4] = d.type /\ Within(x, 4, a, w)
  BY <1>5, <1>11, <1>12, Zenon DEF IsJoined
<1>14. IsJoined(e, x, 4 + w, t, 2)
  BY <1>7, <1>9, <1>10, <1>11, <1>13, Joined
<1>15. /\ Sized(e, (4 + w) + 2) /\ e[1] = 5 /\ e[2] = d.command /\ e[4] = d.type
       /\ Within(e, 4 + w, t, 2)
  BY <1>11, <1>13, <1>14, Zenon DEF IsJoined
<1>16. Within(e, 4, a, w)
  BY <1>11, <1>13, <1>14, WithinFront
<1>17. e[(4 + w) + 1] = q /\ e[(4 + w) + 2] = r
  <2>1. e[(4 + w) + 1] = t[1]
    BY <1>11, <1>15, WithinAt
  <2>2. e[(4 + w) + 2] = t[2]
    BY <1>11, <1>15, WithinAt
  <2>3. QED
    BY <1>7, <2>1, <2>2
<1>18. QED
  BY <1>8, <1>15, <1>16, <1>17, Zenon DEF RequestIs
-----------------------------------------------------------------------------
(* What the session reads *)

\* The memory m begins with the l octets of e.
Holds(m, e, l) == \A i \in 1 .. l : m[i - 1] = e[i]

\* Memory of n octets
IsMemory(m, n) == DOMAIN m = 0 .. n - 1 /\ \A i \in 0 .. n - 1 : m[i] \in Octets

\* A message consists of octets.
LEMMA SizedAt ==
  ASSUME NEW s, NEW n, Sized(s, n), NEW i \in 1 .. n
  PROVE  s[i] \in Octets
<1>1. s \in Seq(Octets) /\ Len(s) = n
  BY Zenon DEF Sized
<1>2. i \in 1 .. Len(s)
  BY <1>1
<1>3. QED
  BY <1>1, <1>2, ElementOfSeq, Zenon

\* What is received lies in a memory of octets, however long it is.
LEMMA MemoryIs ==
  ASSUME NEW g \in Garbage, NEW e \in Seq(Octets)
  PROVE  IsMemory(Memory(e, g), MessageSize)
<1>1. MessageSize \in Nat /\ g \in Octets
  BY HandshakeAssumption
<1>2. PICK l \in Nat : l = Len(e)
  BY LenProperties
<1>3. PICK m : m = Memory(e, g)
  OBVIOUS
<1>4. m = [i \in 0 .. MessageSize - 1 |-> IF i < l THEN e[i + 1] ELSE g]
  BY <1>2, <1>3 DEF Memory
<1>5. SUFFICES ASSUME NEW i \in 0 .. MessageSize - 1 PROVE m[i] \in Octets
  BY <1>3, <1>4 DEF IsMemory
<1>6. m[i] = IF i < l THEN e[i + 1] ELSE g
  BY <1>4, <1>5
<1>7. ASSUME i < l PROVE e[i + 1] \in Octets
  <2>1. i + 1 \in 1 .. l
    BY <1>1, <1>2, <1>5, <1>7
  <2>2. QED
    BY <1>2, <2>1, ElementOfSeq, Zenon
<1>8. QED
  BY <1>1, <1>6, <1>7

\* A message that was received is in the memory, and garbage behind it.
LEMMA MemoryHolds ==
  ASSUME NEW g \in Garbage, NEW l \in Nat, NEW e, Sized(e, l), l <= 513
  PROVE  Holds(Memory(e, g), e, l) /\ IsMemory(Memory(e, g), MessageSize)
<1>1. MessageSize \in Nat /\ MessageSize >= 513
  BY HandshakeAssumption
<1>2. e \in Seq(Octets) /\ Len(e) = l
  BY Zenon DEF Sized
<1>3. PICK m : m = Memory(e, g)
  OBVIOUS
<1>4. m = [i \in 0 .. MessageSize - 1 |-> IF i < l THEN e[i + 1] ELSE g]
  BY <1>2, <1>3 DEF Memory
<1>5. Holds(m, e, l)
  <2>1. SUFFICES ASSUME NEW i \in 1 .. l PROVE m[i - 1] = e[i]
    BY DEF Holds
  <2>2. i - 1 \in 0 .. MessageSize - 1 /\ i - 1 < l /\ (i - 1) + 1 = i
    BY <1>1
  <2>3. QED
    BY <1>4, <2>2
<1>6. IsMemory(m, MessageSize)
  BY <1>2, <1>3, MemoryIs
<1>7. QED
  BY <1>3, <1>5, <1>6

\* One octet of the memory
LEMMA HoldsAt ==
  ASSUME NEW m, NEW e, NEW l, Holds(m, e, l), NEW i \in 1 .. l
  PROVE  m[i - 1] = e[i]
  BY Zenon DEF Holds

\* What a message has behind its first k octets is read from the address k.
LEMMA Sliced ==
  ASSUME NEW m, NEW e, NEW l \in Nat, NEW k \in Nat, NEW n \in Nat, NEW s,
         Holds(m, e, l), Sized(s, n), Within(e, k, s, n), k + n <= l
  PROVE  Slice(m, k, n) = s
<1>1. PICK t : t = Slice(m, k, n)
  OBVIOUS
<1>2. \A i \in 1 .. n : t[i] = s[i]
  <2>1. TAKE i \in 1 .. n
  <2>2. k + i \in 1 .. l /\ (k + i) - 1 = k + i - 1
    OBVIOUS
  <2>3. m[(k + i) - 1] = e[k + i]
    BY <2>2, HoldsAt
  <2>4. e[k + i] = s[i]
    BY WithinAt
  <2>5. QED
    BY <1>1, <2>2, <2>3, <2>4 DEF Slice
<1>3. s \in Seq(Octets) /\ Len(s) = n
  BY Zenon DEF Sized
<1>4. s = [i \in 1 .. n |-> s[i]]
  BY <1>3
<1>5. t = [i \in 1 .. n |-> t[i]]
  BY <1>1 DEF Slice
<1>6. t = s
  BY <1>2, <1>4, <1>5
<1>7. QED
  BY <1>1, <1>6

\* The methods that are read from the memory m, and those that the client wrote
Offered(m) == {m[i + 2] : i \in 0 .. m[1] - 1}
Methods(d) == {d.methods[i] : i \in DOMAIN d.methods}

\* The methods that a client offers are those that it wrote.
LEMMA GreetReads ==
  ASSUME NEW d, IsGreeting(d), NEW g \in Garbage, NEW m, m = Memory(Encoded(d), g)
  PROVE  m[0] = 5 /\ Offered(m) = Methods(d)
<1>1. PICK e : e = Encoded(d)
  OBVIOUS
<1>2. PICK n \in Octets : /\ Sized(d.methods, n) /\ Sized(e, 2 + n)
                          /\ e[1] = 5 /\ e[2] = n /\ Within(e, 2, d.methods, n)
  BY <1>1, GreetingOctets
<1>3. /\ n \in Nat /\ 2 + n \in Nat /\ 2 + n <= 513 /\ 1 \in 1 .. 2 + n /\ 2 \in 1 .. 2 + n
      /\ 1 - 1 = 0 /\ 2 - 1 = 1
  BY OctetIsNat
<1>4. Holds(m, e, 2 + n)
  BY <1>1, <1>2, <1>3, MemoryHolds
<1>5. m[0] = 5 /\ m[1] = n
  <2>1. m[1 - 1] = e[1] /\ m[2 - 1] = e[2]
    BY <1>3, <1>4, HoldsAt
  <2>2. QED
    BY <1>2, <1>3, <2>1
<1>6. \A i \in 0 .. n - 1 : i + 1 \in 1 .. n /\ m[i + 2] = d.methods[i + 1]
  <2>1. TAKE i \in 0 .. n - 1
  <2>2. i + 1 \in 1 .. n /\ 2 + (i + 1) \in 1 .. 2 + n /\ (2 + (i + 1)) - 1 = i + 2
    BY <1>3
  <2>3. m[(2 + (i + 1)) - 1] = e[2 + (i + 1)]
    BY <1>4, <2>2, HoldsAt
  <2>4. e[2 + (i + 1)] = d.methods[i + 1]
    BY <1>2, <2>2, WithinAt
  <2>5. QED
    BY <2>2, <2>3, <2>4
<1>7. DOMAIN d.methods = 1 .. n
  <2>1. d.methods \in Seq(Octets) /\ Len(d.methods) = n
    BY <1>2, Zenon DEF Sized
  <2>2. QED
    BY <2>1
<1>8. \A i \in 1 .. n : i - 1 \in 0 .. n - 1 /\ (i - 1) + 1 = i
  BY <1>3
<1>9. {m[i + 2] : i \in 0 .. n - 1} = {d.methods[i] : i \in 1 .. n}
  <2>1. ASSUME NEW x \in {m[i + 2] : i \in 0 .. n - 1}
        PROVE  x \in {d.methods[i] : i \in 1 .. n}
    <3>1. PICK i \in 0 .. n - 1 : x = m[i + 2]
      BY <2>1
    <3>2. i + 1 \in 1 .. n /\ x = d.methods[i + 1]
      BY <1>6, <3>1
    <3>3. QED
      BY <3>2
  <2>2. ASSUME NEW x \in {d.methods[i] : i \in 1 .. n}
        PROVE  x \in {m[i + 2] : i \in 0 .. n - 1}
    <3>1. PICK i \in 1 .. n : x = d.methods[i]
      BY <2>2
    <3>2. i - 1 \in 0 .. n - 1 /\ x = m[(i - 1) + 2]
      BY <1>6, <1>8, <3>1
    <3>3. QED
      BY <3>2
  <2>3. QED
    BY <2>1, <2>2
<1>10. QED
  BY <1>5, <1>7, <1>9 DEF Offered, Methods

\* The credentials are those that the client wrote, and never too long.
LEMMA LoginReads ==
  ASSUME NEW d, IsLogin(d), NEW g \in Garbage, NEW m, m = Memory(Encoded(d), g)
  PROVE  /\ ~Exceeds(m[1], Len(Encoded(d)) - 2)
         /\ ~PasswordTooLong(m, Len(Encoded(d)))
         /\ Slice(m, 2, m[1]) = d.username
         /\ Slice(m, 3 + m[1], m[2 + m[1]]) = d.password
<1>1. PICK e : e = Encoded(d)
  OBVIOUS
<1>2. PICK u \in Octets, p \in Octets :
            /\ Sized(d.username, u) /\ Sized(d.password, p)
            /\ Sized(e, (2 + u) + (1 + p))
            /\ e[2] = u /\ Within(e, 2, d.username, u)
            /\ e[3 + u] = p /\ Within(e, 3 + u, d.password, p)
  BY <1>1, LoginOctets
<1>3. PICK l : l = (2 + u) + (1 + p)
  OBVIOUS
<1>4. u \in Nat /\ p \in Nat /\ u <= 255 /\ p <= 255
  BY OctetIsNat
<1>5. /\ l \in Nat /\ l <= 513 /\ 2 \in 1 .. l /\ 3 + u \in 1 .. l
      /\ 2 - 1 = 1 /\ (3 + u) - 1 = 2 + u /\ 2 + u <= l /\ (3 + u) + p <= l
      /\ 2 \in Nat /\ 3 + u \in Nat /\ ~(u > l - 2) /\ ~(p > l - u - 3)
  BY <1>3, <1>4
<1>6. Sized(e, l) /\ Len(Encoded(d)) = l
  BY <1>1, <1>2, <1>3, Zenon DEF Sized
<1>7. Holds(m, e, l)
  BY <1>1, <1>5, <1>6, MemoryHolds
<1>8. m[1] = u /\ m[2 + u] = p
  <2>1. m[2 - 1] = e[2] /\ m[(3 + u) - 1] = e[3 + u]
    BY <1>5, <1>7, HoldsAt
  <2>2. QED
    BY <1>2, <1>5, <2>1
<1>9. ~Exceeds(m[1], l - 2) /\ ~PasswordTooLong(m, l)
  BY <1>5, <1>8 DEF Exceeds, PasswordTooLong
<1>10. Slice(m, 2, u) = d.username
  BY <1>2, <1>4, <1>5, <1>7, Sliced
<1>11. Slice(m, 3 + u, p) = d.password
  BY <1>2, <1>4, <1>5, <1>7, Sliced
<1>12. QED
  BY <1>6, <1>8, <1>9, <1>10, <1>11, Zenon

\* The types of addresses that are known
LEMMA Known ==
  ASSUME NEW m
  PROVE  KnownType(m) <=> m[3] \in {1, 3, 4}
  BY DEF KnownType, AddrType

\* The size of an address whose octets are n, of a name of l octets
LEMMA SizeOf ==
  ASSUME NEW m, NEW p, m[p] \in {1, 3, 4}
  PROVE  /\ m[p] = 1 => get_size(m, p) = 7
         /\ m[p] = 4 => get_size(m, p) = 19
         /\ m[p] = 3 => get_size(m, p) = m[p + 1] + 4
  BY DEF get_size, AddrType

\* The request is the one that the client wrote.
LEMMA RequestReads ==
  ASSUME NEW d, IsRequest(d), NEW g \in Garbage, NEW m, m = Memory(Encoded(d), g)
  PROVE  /\ m[1] = d.command /\ m[3] = d.type
         /\ d.type \in {1, 3, 4} => get_port(m, 3) = d.port /\ Target(m) = d
<1>1. PICK e : e = Encoded(d)
  OBVIOUS
<1>2. PICK n \in Octets, w \in Nat : w <= 256 /\ AddressIs(d, w, n)
  BY AddressSized
<1>3. Sized(Address(d), w)
  BY <1>2, Zenon DEF AddressIs
<1>4. RequestIs(e, d, w)
  BY <1>1, <1>3, RequestOctets
<1>5. PICK l : l = (4 + w) + 2
  OBVIOUS
<1>6. /\ l \in Nat /\ l <= 513 /\ n \in Nat
      /\ 2 \in 1 .. l /\ 4 \in 1 .. l /\ (4 + w) + 1 \in 1 .. l /\ (4 + w) + 2 \in 1 .. l
      /\ 2 - 1 = 1 /\ 4 - 1 = 3 /\ ((4 + w) + 1) - 1 = 4 + w /\ ((4 + w) + 2) - 1 = 5 + w
      /\ 4 + w <= l /\ 4 \in Nat
  BY <1>2, <1>5, OctetIsNat
<1>7. /\ Sized(e, l) /\ e[2] = d.command /\ e[4] = d.type /\ Within(e, 4, Address(d), w)
      /\ e[(4 + w) + 1] = d.port \div 256 /\ e[(4 + w) + 2] = d.port % 256
  BY <1>4, <1>5, Zenon DEF RequestIs
<1>8. Holds(m, e, l)
  BY <1>1, <1>6, <1>7, MemoryHolds
<1>9. /\ m[1] = d.command /\ m[3] = d.type
      /\ m[4 + w] = d.port \div 256 /\ m[5 + w] = d.port % 256
  <2>1. /\ m[2 - 1] = e[2] /\ m[4 - 1] = e[4]
        /\ m[((4 + w) + 1) - 1] = e[(4 + w) + 1] /\ m[((4 + w) + 2) - 1] = e[(4 + w) + 2]
    BY <1>6, <1>8, HoldsAt
  <2>2. QED
    BY <1>6, <1>7, <2>1
<1>10. d \in Requests
  BY Zenon DEF IsRequest
<1>11. d.port \in Ports /\ d.kind = "request"
  BY <1>10 DEF Requests
<1>12. CASE d.type \in {1, 3, 4}
  <2>1. d.type = 3 => 1 + n = w /\ m[4] = n /\ 1 <= w /\ Within(e, 5, d.address, n)
                      /\ Sized(d.address, n)
    <3>1. SUFFICES ASSUME d.type = 3
                   PROVE  1 + n = w /\ m[4] = n /\ 1 <= w /\ Within(e, 5, d.address, n)
                          /\ Sized(d.address, n)
      OBVIOUS
    <3>2. /\ w = 1 + n /\ Sized(d.address, n) /\ Address(d)[1] = n
          /\ Within(Address(d), 1, d.address, n)
      BY <1>2, <3>1, Zenon DEF AddressIs
    <3>3. /\ 1 \in 1 .. w /\ 1 + n <= w /\ 1 <= w /\ 4 + 1 = 5 /\ 5 \in 1 .. l
          /\ 5 - 1 = 4 /\ 1 \in Nat
      BY <1>5, <1>6, <3>2
    <3>4. e[4 + 1] = n
      BY <1>7, <3>2, <3>3, WithinAt
    <3>5. m[5 - 1] = e[5]
      BY <1>8, <3>3, HoldsAt
    <3>6. Within(e, 4 + 1, d.address, n)
      BY <1>6, <1>7, <3>2, <3>3, WithinPart
    <3>7. QED
      BY <3>2, <3>3, <3>4, <3>5, <3>6
  <2>2. get_size(m, 3) = w + 3
    <3>1. (d.type = 1 => w = 4) /\ (d.type = 4 => w = 16)
      BY <1>2, Zenon DEF AddressIs
    <3>2. QED
      BY <1>2, <1>6, <1>9, <1>12, <2>1, <3>1, SizeOf
  <2>3. get_port(m, 3) = d.port
    <3>1. w + 3 # 0 /\ 3 + (w + 3) - 2 = 4 + w /\ 3 + (w + 3) - 1 = 5 + w
      BY <1>2
    <3>2. get_port(m, 3) = m[4 + w] * 256 + m[5 + w]
      BY <2>2, <3>1 DEF get_port
    <3>3. d.port = (d.port \div 256) * 256 + (d.port % 256)
      BY <1>11, TwoOctets
    <3>4. QED
      BY <1>9, <3>2, <3>3, Zenon
  <2>4. Target(m).address = d.address
    <3>1. CASE d.type = 3
      <4>1. 5 \in Nat /\ 5 + n <= l
        BY <1>5, <1>6, <2>1, <3>1
      <4>2. Slice(m, 5, n) = d.address
        BY <1>6, <1>8, <2>1, <3>1, <4>1, Sliced
      <4>3. QED
        BY <1>9, <2>1, <3>1, <4>2 DEF Target, AddrType
    <3>2. CASE d.type # 3
      <4>1. Address(d) = d.address
        BY <3>2, Zenon DEF Address
      <4>2. Slice(m, 4, w) = d.address
        BY <1>2, <1>3, <1>6, <1>7, <1>8, <4>1, Sliced
      <4>3. (d.type = 1 => w = 4) /\ (d.type = 4 => w = 16)
        BY <1>2, Zenon DEF AddressIs
      <4>4. QED
        BY <1>9, <1>12, <3>2, <4>2, <4>3 DEF Target, AddrType
    <3>3. QED
      BY <3>1, <3>2
  <2>5. Target(m) = d
    <3>1. /\ Target(m) = [kind |-> "request", command |-> m[1], type |-> m[3],
                          address |-> Target(m).address, port |-> get_port(m, 3)]
      BY DEF Target
    <3>2. d = [kind |-> "request", command |-> d.command, type |-> d.type,
               address |-> d.address, port |-> d.port]
      BY <1>10 DEF Requests
    <3>3. QED
      BY <1>9, <2>3, <2>4, <3>1, <3>2
  <2>6. QED
    BY <1>9, <2>3, <2>5
<1>13. QED
  BY <1>9, <1>12
-----------------------------------------------------------------------------
(* What the session answers *)

\* The sizes of an address depend on its type and its first octet.
LEMMA SizeSame ==
  ASSUME NEW m, NEW x, NEW p, m[p] = x[p], m[p + 1] = x[p + 1]
  PROVE  get_size(m, p) = get_size(x, p)
  BY DEF get_size

\* What is read for a port, even from memory that was not written, is one.
LEMMA PortRead ==
  ASSUME NEW m, NEW z \in Nat, z >= 262, IsMemory(m, z), m[3] \in {1, 3, 4}
  PROVE  get_port(m, 3) \in Ports
<1>2. PICK s : s = get_size(m, 3)
  OBVIOUS
<1>3. \A i \in 0 .. 261 : m[i] \in Octets
  BY DEF IsMemory
<1>4. m[4] \in Nat /\ m[4] <= 255
  BY <1>3, OctetIsNat
<1>5. s \in Nat /\ s >= 4 /\ s <= 259
  BY <1>2, <1>4, SizeOf
<1>6. 3 + s - 2 \in 0 .. 261 /\ 3 + s - 1 \in 0 .. 261 /\ s # 0
  BY <1>5
<1>7. PICK q \in Octets, r \in Octets : get_port(m, 3) = q * 256 + r
  BY <1>2, <1>3, <1>6 DEF get_port
<1>8. q \in Nat /\ r \in Nat /\ q <= 255 /\ r <= 255
  BY OctetIsNat
<1>9. PICK port : port = q * 256 + r
  OBVIOUS
<1>10. port \in Nat /\ port <= MaxPort
  BY <1>8, <1>9 DEF MaxPort
<1>11. port \in Ports
  BY <1>10 DEF Ports
<1>12. QED
  BY <1>7, <1>9, <1>11

\* The memory m has an address of w octets at 3.
HasAddress(m, w) ==
    IsMemory(m, ReplySize) /\ m[3] \in {1, 3, 4} /\ get_size(m, 3) = w + 3

\* set_address() copies the octets of the address.
LEMMA AddressCopied ==
  ASSUME NEW m, IsMemory(m, ReplySize), m[3] \in {1, 3, 4}, NEW a,
         NEW w \in Nat, 1 <= w, w <= 256, Width(m, 3, a) = w, \A i \in 0 .. w - 1 : a[i] \in Octets
  PROVE  /\ HasAddress(CopyAddress(m, 3, a), w)
         /\ \A i \in 0 .. 3 : CopyAddress(m, 3, a)[i] = m[i]
         /\ \A i \in 0 .. w - 1 : CopyAddress(m, 3, a)[4 + i] = a[i]
<1>1. ReplySize \in Nat /\ ReplySize >= 262
  BY HandshakeAssumption
<1>2. PICK c : c = CopyAddress(m, 3, a)
  OBVIOUS
<1>3. DOMAIN m = 0 .. ReplySize - 1 /\ \A i \in 0 .. ReplySize - 1 : m[i] \in Octets
  BY DEF IsMemory
<1>4. c = [i \in 0 .. ReplySize - 1 |-> IF i - 3 - 1 \in 0 .. w - 1
                                         THEN a[i - 3 - 1] ELSE m[i]]
  BY <1>2, <1>3 DEF CopyAddress
<1>5. IsMemory(c, ReplySize)
  <2>1. \A i \in 0 .. ReplySize - 1 : c[i] \in Octets
    BY <1>3, <1>4
  <2>2. QED
    BY <1>4, <2>1 DEF IsMemory
<1>6. \A i \in 0 .. 3 : c[i] = m[i]
  BY <1>1, <1>4
<1>7. \A i \in 0 .. w - 1 : c[4 + i] = a[i]
  <2>1. TAKE i \in 0 .. w - 1
  <2>2. 4 + i \in 0 .. ReplySize - 1 /\ (4 + i) - 3 - 1 = i
    BY <1>1
  <2>3. QED
    BY <1>4, <2>2
<1>8. get_size(c, 3) = w + 3
  <2>1. c[3] = m[3]
    BY <1>6
  <2>2. /\ m[3] = 1 => w = 4
        /\ m[3] = 4 => w = 16
        /\ m[3] = 3 => w = a[0] + 1
    BY DEF Width, AddrType
  <2>3. 0 \in 0 .. w - 1
    OBVIOUS
  <2>4. c[4] = a[0] /\ a[0] \in Nat
    BY <1>7, <2>3, OctetIsNat
  <2>5. QED
    BY <2>1, <2>2, <2>4, SizeOf
<1>9. QED
  BY <1>2, <1>5, <1>6, <1>7, <1>8 DEF HasAddress

\* The port lies behind the address, which stays as it is.
LEMMA PortWritten ==
  ASSUME NEW m, NEW w \in Nat, 1 <= w, w <= 256, HasAddress(m, w), NEW port \in Ports
  PROVE  /\ HasAddress(set_port(m, 3, port), w)
         /\ \A i \in 0 .. 3 + w : set_port(m, 3, port)[i] = m[i]
         /\ set_port(m, 3, port)[4 + w] = port \div 256
         /\ set_port(m, 3, port)[5 + w] = port % 256
<1>1. ReplySize \in Nat /\ ReplySize >= 262
  BY HandshakeAssumption
<1>2. PICK x : x = set_port(m, 3, port)
  OBVIOUS
<1>3. PICK q \in Octets, r \in Octets : q = port \div 256 /\ r = port % 256
  BY TwoOctets
<1>4. x = [m EXCEPT ![4 + w] = q, ![5 + w] = r]
  <2>1. w + 3 # 0 /\ 3 + (w + 3) - 2 = 4 + w /\ 3 + (w + 3) - 1 = 5 + w
    OBVIOUS
  <2>2. PortOctets(port)[1] = q /\ PortOctets(port)[2] = r
    BY <1>3 DEF PortOctets
  <2>3. QED
    BY <1>2, <2>1, <2>2 DEF set_port, HasAddress
<1>5. DOMAIN m = 0 .. ReplySize - 1 /\ \A i \in 0 .. ReplySize - 1 : m[i] \in Octets
  BY DEF IsMemory, HasAddress
<1>6. /\ DOMAIN x = 0 .. ReplySize - 1 /\ x[4 + w] = q /\ x[5 + w] = r
      /\ \A i \in 0 .. ReplySize - 1 : i # 4 + w /\ i # 5 + w => x[i] = m[i]
  <2>1. /\ 4 + w \in 0 .. ReplySize - 1 /\ 5 + w \in 0 .. ReplySize - 1
        /\ 4 + w # 5 + w
    BY <1>1
  <2>2. DOMAIN x = DOMAIN m
    BY <1>4
  <2>3. x = [i \in 0 .. ReplySize - 1 |->
                IF i = 5 + w THEN r ELSE IF i = 4 + w THEN q ELSE m[i]]
    BY <1>4, <1>5, <2>1
  <2>4. QED
    BY <1>5, <2>1, <2>3
<1>7. IsMemory(x, ReplySize)
  BY <1>5, <1>6 DEF IsMemory
<1>8. \A i \in 0 .. 3 + w : x[i] = m[i]
  BY <1>1, <1>6
<1>9. x[3] = m[3] /\ x[3 + 1] = m[3 + 1]
  BY <1>8
<1>10. get_size(x, 3) = get_size(m, 3)
  BY <1>9, SizeSame
<1>11. QED
  BY <1>2, <1>3, <1>6, <1>7, <1>8, <1>9, <1>10 DEF HasAddress

\* r is a reply with an address of w octets.
IsReply(r, reply, type, a, w, port) ==
    /\ Sized(r, (4 + w) + 2)
    /\ r[1] = 5 /\ r[2] = reply /\ r[4] = type
    /\ \A i \in 1 .. w : r[4 + i] = a[i - 1]
    /\ r[(4 + w) + 1] = port \div 256
    /\ r[(4 + w) + 2] = port % 256

\* A reply as send_reply() begins it
Begun(g, reply, type) ==
    [[i \in 0 .. ReplySize - 1 |-> g] EXCEPT ![0] = 5, ![1] = reply, ![3] = type]

\* A reply that was begun has its version, its code and its type.
LEMMA BegunIs ==
  ASSUME NEW g \in Garbage, NEW reply \in Octets, NEW type \in Octets
  PROVE  /\ IsMemory(Begun(g, reply, type), ReplySize)
         /\ Begun(g, reply, type)[0] = 5 /\ Begun(g, reply, type)[1] = reply
         /\ Begun(g, reply, type)[3] = type
<1>1. ReplySize \in Nat /\ ReplySize >= 262 /\ g \in Octets
  BY HandshakeAssumption
<1>2. 5 \in Octets
  BY DEF Octets
<1>3. QED
  BY <1>1, <1>2 DEF Begun, IsMemory

\* Octets of a memory as a message
LEMMA Copied ==
  ASSUME NEW m, NEW n \in Nat, n <= ReplySize, IsMemory(m, ReplySize)
  PROVE  /\ Sized([i \in 1 .. n |-> m[i - 1]], n)
         /\ \A i \in 1 .. n : [j \in 1 .. n |-> m[j - 1]][i] = m[i - 1]
<1>1. ReplySize \in Nat
  BY HandshakeAssumption
<1>2. \A i \in 1 .. n : m[i - 1] \in Octets
  BY <1>1 DEF IsMemory
<1>3. QED
  BY <1>2 DEF Sized

\* What is written for an address of w octets that begins at a
Spans(type, a, w) ==
    /\ w \in Nat /\ 1 <= w /\ w <= 256
    /\ type = 1 => w = 4
    /\ type = 4 => w = 16
    /\ type = 3 => w = a[0] + 1
    /\ \A i \in 0 .. w - 1 : a[i] \in Octets

\* The address a is in x, which is m otherwise.
AddressIn(x, m, a, w) ==
    /\ HasAddress(x, w)
    /\ \A i \in 0 .. 3 : x[i] = m[i]
    /\ \A i \in 0 .. w - 1 : x[4 + i] = a[i]

\* set_address() as a whole: the port that it moves behind a name does not matter.
LEMMA AddressSet ==
  ASSUME NEW m, IsMemory(m, ReplySize), NEW type \in {1, 3, 4}, m[3] = type,
         NEW a, NEW w, Spans(type, a, w)
  PROVE  AddressIn(set_address(m, 3, a), m, a, w)
<1>1. w \in Nat /\ 1 <= w /\ w <= 256 /\ \A i \in 0 .. w - 1 : a[i] \in Octets
  BY DEF Spans
<1>2. Width(m, 3, a) = w
  BY DEF Spans, Width, AddrType
<1>3. PICK c : c = CopyAddress(m, 3, a)
  OBVIOUS
<1>4. /\ HasAddress(c, w)
      /\ \A i \in 0 .. 3 : c[i] = m[i]
      /\ \A i \in 0 .. w - 1 : c[4 + i] = a[i]
  <2>1. m[3] \in {1, 3, 4}
    OBVIOUS
  <2>2. QED
    BY <1>1, <1>2, <1>3, <2>1, AddressCopied
<1>5. CASE m[3] = 3
  <2>1. PICK q \in Ports : q = get_port(m, 3)
    BY HandshakeAssumption, PortRead
  <2>2. PICK x : x = set_port(c, 3, q)
    OBVIOUS
  <2>3. HasAddress(x, w) /\ \A i \in 0 .. 3 + w : x[i] = c[i]
    BY <1>1, <1>4, <2>2, PortWritten
  <2>4. \A i \in 0 .. 3 : x[i] = m[i]
    BY <1>1, <1>4, <2>3
  <2>5. \A i \in 0 .. w - 1 : x[4 + i] = a[i]
    <3>1. TAKE i \in 0 .. w - 1
    <3>2. 4 + i \in 0 .. 3 + w
      BY <1>1
    <3>3. QED
      BY <1>4, <2>3, <3>2
  <2>6. set_address(m, 3, a) = x
    BY <1>3, <1>5, <2>1, <2>2 DEF set_address, AddrType
  <2>7. QED
    BY <2>3, <2>4, <2>5, <2>6, Zenon DEF AddressIn
<1>6. CASE m[3] # 3
  <2>1. set_address(m, 3, a) = c
    BY <1>3, <1>6 DEF set_address, AddrType
  <2>2. QED
    BY <1>4, <2>1, Zenon DEF AddressIn
<1>7. QED
  BY <1>5, <1>6

\* A reply with an address of a known type is laid out as RFC 1928 has it.
LEMMA ReplyKnown ==
  ASSUME NEW g \in Garbage, NEW reply \in Octets, NEW type \in {1, 3, 4}, NEW a, NEW w,
         Spans(type, a, w), NEW port \in Ports, NEW r,
         r = Reply([i \in 0 .. ReplySize - 1 |-> g], reply, type, a, port)
  PROVE  IsReply(r, reply, type, a, w, port)
<1>1. w \in Nat /\ 1 <= w /\ w <= 256
  BY DEF Spans
<1>2. type \in Octets
  BY DEF Octets
<1>3. PICK b : b = Begun(g, reply, type)
  OBVIOUS
<1>4. IsMemory(b, ReplySize) /\ b[0] = 5 /\ b[1] = reply /\ b[3] = type
  BY <1>2, <1>3, BegunIs
<1>5. PICK x : x = set_address(b, 3, a)
  OBVIOUS
<1>6. /\ HasAddress(x, w)
      /\ \A i \in 0 .. 3 : x[i] = b[i]
      /\ \A i \in 0 .. w - 1 : x[4 + i] = a[i]
  <2>1. IsMemory(b, ReplySize) /\ b[3] = type
    BY <1>4
  <2>2. AddressIn(x, b, a, w)
    BY <1>5, <2>1, AddressSet
  <2>3. QED
    BY <2>2, Zenon DEF AddressIn
<1>7. PICK m : m = set_port(x, 3, port)
  OBVIOUS
<1>8. /\ HasAddress(m, w)
      /\ \A i \in 0 .. 3 + w : m[i] = x[i]
      /\ m[4 + w] = port \div 256
      /\ m[5 + w] = port % 256
  BY <1>1, <1>6, <1>7, PortWritten
<1>9. PICK n : n = (4 + w) + 2
  OBVIOUS
<1>10. /\ n \in Nat /\ n <= ReplySize /\ 1 \in 1 .. n /\ 2 \in 1 .. n /\ 4 \in 1 .. n
       /\ (4 + w) + 1 \in 1 .. n /\ (4 + w) + 2 \in 1 .. n
       /\ 1 - 1 = 0 /\ 2 - 1 = 1 /\ 4 - 1 = 3
       /\ ((4 + w) + 1) - 1 = 4 + w /\ ((4 + w) + 2) - 1 = 5 + w
       /\ (w + 3) + 3 = n
       /\ 0 \in 0 .. 3 + w /\ 1 \in 0 .. 3 + w /\ 3 \in 0 .. 3 + w
  BY <1>1, <1>9, HandshakeAssumption
<1>11. r = [i \in 1 .. n |-> m[i - 1]]
  BY <1>3, <1>5, <1>7, <1>8, <1>10 DEF Reply, Begun, HasAddress
<1>12. IsMemory(m, ReplySize)
  BY <1>8 DEF HasAddress
<1>13. Sized(r, n) /\ \A i \in 1 .. n : r[i] = m[i - 1]
  BY <1>10, <1>11, <1>12, Copied
<1>14. m[0] = 5 /\ m[1] = reply /\ m[3] = type
  BY <1>4, <1>6, <1>8, <1>10
<1>15. /\ r[1] = 5 /\ r[2] = reply /\ r[4] = type
       /\ r[(4 + w) + 1] = port \div 256 /\ r[(4 + w) + 2] = port % 256
  <2>1. r[1] = m[1 - 1] /\ r[2] = m[2 - 1] /\ r[4] = m[4 - 1]
    BY <1>10, <1>13
  <2>2. /\ r[(4 + w) + 1] = m[((4 + w) + 1) - 1]
        /\ r[(4 + w) + 2] = m[((4 + w) + 2) - 1]
    BY <1>10, <1>13
  <2>3. QED
    BY <1>8, <1>10, <1>14, <2>1, <2>2, Zenon
<1>16. \A i \in 1 .. w : r[4 + i] = a[i - 1]
  <2>1. TAKE i \in 1 .. w
  <2>2. /\ 4 + i \in 1 .. n /\ i - 1 \in 0 .. w - 1 /\ (4 + i) - 1 = 4 + (i - 1)
        /\ 4 + (i - 1) \in 0 .. 3 + w
    BY <1>1, <1>9
  <2>3. r[4 + i] = m[4 + (i - 1)]
    BY <1>13, <2>2
  <2>4. m[4 + (i - 1)] = x[4 + (i - 1)]
    BY <1>8, <2>2
  <2>5. x[4 + (i - 1)] = a[i - 1]
    BY <1>6, <2>2
  <2>6. QED
    BY <2>3, <2>4, <2>5
<1>17. QED
  BY <1>9, <1>13, <1>15, <1>16, Zenon DEF IsReply

\* A reply without an address
IsCut(r, reply) == Sized(r, 3) /\ r[2] = reply

\* A reply with a type that is not known ends before it.
LEMMA ReplyUnknown ==
  ASSUME NEW g \in Garbage, NEW reply \in Octets, NEW type \in Octets,
         type # 1, type # 3, type # 4, NEW a, NEW port \in Ports, NEW r,
         r = Reply([i \in 0 .. ReplySize - 1 |-> g], reply, type, a, port)
  PROVE  IsCut(r, reply)
<1>1. PICK b : b = Begun(g, reply, type)
  OBVIOUS
<1>2. IsMemory(b, ReplySize) /\ b[0] = 5 /\ b[1] = reply /\ b[3] = type
  BY <1>1, BegunIs
<1>3. PICK x : x = set_address(b, 3, a)
  OBVIOUS
<1>4. x = CopyAddress(b, 3, a) /\ Width(b, 3, a) = 0
  BY <1>2, <1>3 DEF set_address, Width, AddrType
<1>5. x = [i \in DOMAIN b |-> b[i]]
  <2>1. \A i \in DOMAIN b : ~(i - 3 - 1 \in 0 .. 0 - 1)
    OBVIOUS
  <2>2. QED
    BY <1>4, <2>1 DEF CopyAddress
<1>6. ReplySize \in Nat /\ ReplySize >= 262
  BY HandshakeAssumption
<1>7. IsMemory(x, ReplySize) /\ x[1] = reply /\ x[3] = type
  BY <1>2, <1>5, <1>6 DEF IsMemory
<1>8. get_size(x, 3) = 0
  BY <1>7 DEF get_size, AddrType
<1>9. set_port(x, 3, port) = x
  BY <1>8 DEF set_port
<1>10. r = [i \in 1 .. 3 |-> x[i - 1]]
  <2>1. r = [i \in 1 .. get_size(x, 3) + 3 |-> x[i - 1]]
    BY <1>1, <1>3, <1>9 DEF Reply, Begun
  <2>2. get_size(x, 3) + 3 = 3
    BY <1>8
  <2>3. QED
    BY <2>1, <2>2
<1>11. Sized(r, 3) /\ \A i \in 1 .. 3 : r[i] = x[i - 1]
  <2>1. 3 \in Nat /\ 3 <= ReplySize
    BY <1>6
  <2>2. QED
    BY <1>7, <1>10, <2>1, Copied
<1>12. r[2] = reply
  <2>1. 2 \in 1 .. 3 /\ 2 - 1 = 1
    OBVIOUS
  <2>2. QED
    BY <1>7, <1>11, <2>1
<1>13. QED
  BY <1>11, <1>12, Zenon DEF IsCut

\* A reply has the length of its address.
LEMMA ReplyWellFormed ==
  ASSUME NEW r, NEW reply, NEW type \in {1, 3, 4}, NEW a, NEW w, NEW port,
         Spans(type, a, w), IsReply(r, reply, type, a, w, port)
  PROVE  WellFormed(r)
<1>1. w \in Nat /\ 1 <= w /\ w <= 256
  BY DEF Spans
<1>2. PICK n : n = (4 + w) + 2
  OBVIOUS
<1>3. Sized(r, n) /\ r[1] = 5 /\ r[4] = type /\ \A i \in 1 .. w : r[4 + i] = a[i - 1]
  BY <1>2, Zenon DEF IsReply
<1>4. Len(r) = n
  BY <1>3, Zenon DEF Sized
<1>5. n <= ReplySize
  BY <1>1, <1>2, HandshakeAssumption
<1>6. r[5] = a[0]
  <2>1. 1 \in 1 .. w /\ 4 + 1 = 5 /\ 1 - 1 = 0
    BY <1>1
  <2>2. r[4 + 1] = a[1 - 1]
    BY <1>3, <2>1
  <2>3. QED
    BY <2>1, <2>2
<1>7. PICK v : v = CASE r[4] = 1 -> 4 [] r[4] = 4 -> 16 [] OTHER -> 1 + r[5]
  OBVIOUS
<1>8. v = w
  <2>1. CASE type = 1
    BY <1>3, <1>7, <2>1 DEF Spans
  <2>2. CASE type = 4
    BY <1>3, <1>7, <2>2 DEF Spans
  <2>3. CASE type = 3
    <3>1. w = a[0] + 1 /\ a[0] \in Octets
      <4>1. 0 \in 0 .. w - 1
        BY <1>1
      <4>2. QED
        BY <2>3, <4>1 DEF Spans
    <3>2. v = 1 + a[0]
      BY <1>3, <1>6, <1>7, <2>3
    <3>3. QED
      BY <3>1, <3>2, OctetIsNat
  <2>4. QED
    BY <2>1, <2>2, <2>3
<1>9. n = 6 + v
  BY <1>1, <1>2, <1>8
<1>10. QED
  BY <1>3, <1>4, <1>5, <1>7, <1>9, Zenon DEF WellFormed

\* The rest of a message
LEMMA TailIs ==
  ASSUME NEW s, NEW n \in Nat, NEW k \in 1 .. n, Sized(s, n)
  PROVE  SubSeq(s, k, Len(s)) = [i \in 1 .. n - k + 1 |-> s[i + k - 1]]
<1>1. s \in Seq(Octets) /\ Len(s) = n
  BY Zenon DEF Sized
<1>2. PICK t : t = SubSeq(s, k, n)
  OBVIOUS
<1>3. t = [i \in 1 .. n - k + 1 |-> s[i + k - 1]]
  BY <1>1, <1>2
<1>4. QED
  BY <1>1, <1>2, <1>3

\* The address and the port of a refusal are those of the request.
LEMMA SameTail ==
  ASSUME NEW s, NEW t, NEW n \in Nat, NEW k \in 1 .. n, Sized(s, n), Sized(t, n),
         \A i \in k .. n : s[i] = t[i]
  PROVE  SubSeq(s, k, Len(s)) = SubSeq(t, k, Len(t))
<1>1. \A i \in 1 .. n - k + 1 : i + k - 1 \in k .. n
  OBVIOUS
<1>2. \A i \in 1 .. n - k + 1 : s[i + k - 1] = t[i + k - 1]
  BY <1>1
<1>3. /\ SubSeq(s, k, Len(s)) = [i \in 1 .. n - k + 1 |-> s[i + k - 1]]
      /\ SubSeq(t, k, Len(t)) = [i \in 1 .. n - k + 1 |-> t[i + k - 1]]
  BY TailIs
<1>4. QED
  BY <1>2, <1>3

\* The reply with the address and the port of Answer
Answered(g, reply, type) ==
    Reply([i \in 0 .. ReplySize - 1 |-> g], reply, type, [i \in 0 .. 15 |-> 16 + i], 258)

\* The reply of RefuseRequest
Refused(m, g, reply) ==
    Reply([i \in 0 .. ReplySize - 1 |-> g], reply, m[3],
          [i \in 0 .. 255 |-> m[4 + i]], get_port(m, 3))

\* What is said to a client whose request is answered
LEMMA AnswerSaid ==
  ASSUME NEW g \in Garbage, NEW reply \in {0, 1, 3}, NEW type \in {1, 4}
  PROVE  Answered(g, reply, type) \in Seq(Octets) /\ IsAnswer(Answered(g, reply, type))
<1>1. PICK a : a = [i \in 0 .. 15 |-> 16 + i]
  OBVIOUS
<1> PICK r : r = Answered(g, reply, type)
  OBVIOUS
<1>2. PICK w \in Nat : w = IF type = 1 THEN 4 ELSE 16
  OBVIOUS
<1>3. 1 <= w /\ w <= 16
  BY <1>2
<1>4. \A i \in 0 .. w - 1 : i \in 0 .. 15 /\ a[i] = 16 + i /\ a[i] \in Octets
  BY <1>1, <1>3 DEF Octets
<1>5. Spans(type, a, w)
  BY <1>2, <1>3, <1>4 DEF Spans
<1>6. reply \in Octets /\ type \in {1, 3, 4}
  BY DEF Octets
<1>7. PICK port \in Ports : port = 258
  BY DEF Ports, MaxPort
<1>8. IsReply(r, reply, type, a, w, port)
  <2>1. r = Reply([i \in 0 .. ReplySize - 1 |-> g], reply, type, a, port)
    BY <1>1, <1>7 DEF Answered
  <2>2. QED
    BY <1>5, <1>6, <2>1, ReplyKnown
<1>9. WellFormed(r)
  BY <1>5, <1>6, <1>8, ReplyWellFormed
<1>10. PICK n : n = (4 + w) + 2
  OBVIOUS
<1>11. /\ Sized(r, n) /\ r[2] = reply
       /\ \A i \in 1 .. w : r[4 + i] = a[i - 1]
       /\ r[(4 + w) + 1] = port \div 256 /\ r[(4 + w) + 2] = port % 256
  BY <1>8, <1>10, Zenon DEF IsReply
<1>12. r[(4 + w) + 1] = 1 /\ r[(4 + w) + 2] = 2
  BY <1>7, <1>11
<1>13. r \in Seq(Octets) /\ Len(r) = n
  BY <1>11, Zenon DEF Sized
<1>14. SubSeq(r, Len(r) - 1, Len(r)) = <<1, 2>>
  <2>1. /\ n \in Nat /\ n - 1 \in 1 .. n /\ n - (n - 1) + 1 = 2
        /\ 1 + (n - 1) - 1 = (4 + w) + 1 /\ 2 + (n - 1) - 1 = (4 + w) + 2
    BY <1>10
  <2>5. Sized(r, n)
    BY <1>11
  <2>6. SubSeq(r, n - 1, Len(r)) = [i \in 1 .. n - (n - 1) + 1 |-> r[i + (n - 1) - 1]]
    BY <2>1, <2>5, TailIs
  <2>2. SubSeq(r, n - 1, Len(r)) = [i \in 1 .. 2 |-> r[i + (n - 1) - 1]]
    BY <2>1, <2>6, Zenon
  <2>3. [i \in 1 .. 2 |-> r[i + (n - 1) - 1]] = <<r[1 + (n - 1) - 1], r[2 + (n - 1) - 1]>>
    OBVIOUS
  <2>4. QED
    BY <1>12, <1>13, <2>1, <2>2, <2>3
<1>15. \A k \in 5 .. n - 2 : r[k] = 11 + k
  <2>1. TAKE k \in 5 .. n - 2
  <2>2. /\ k - 4 \in 1 .. w /\ 4 + (k - 4) = k /\ (k - 4) - 1 \in 0 .. w - 1
        /\ 16 + ((k - 4) - 1) = 11 + k
    BY <1>10
  <2>3. r[4 + (k - 4)] = a[(k - 4) - 1]
    BY <1>11, <2>2
  <2>4. QED
    BY <1>4, <2>2, <2>3
<1>16. QED
  BY <1>9, <1>11, <1>13, <1>14, <1>15 DEF IsAnswer

\* What is said to a client whose request is refused
LEMMA RefusalSaid ==
  ASSUME NEW q, IsRequest(q), NEW g \in Garbage, NEW m, m = Memory(Encoded(q), g),
         NEW reply \in {7, 8}
  PROVE  Refused(m, g, reply) \in Seq(Octets) /\ IsRefusal(Refused(m, g, reply), q)
<1> PICK r : r = Refused(m, g, reply)
  OBVIOUS
<1>1. PICK e : e = Encoded(q)
  OBVIOUS
<1>2. PICK n \in Octets, w \in Nat : w <= 256 /\ AddressIs(q, w, n)
  BY AddressSized
<1>3. Sized(Address(q), w)
  BY <1>2, Zenon DEF AddressIs
<1>4. RequestIs(e, q, w)
  BY <1>1, <1>3, RequestOctets
<1>5. PICK l : l = (4 + w) + 2
  OBVIOUS
<1>6. /\ Sized(e, l) /\ e[4] = q.type /\ Within(e, 4, Address(q), w)
      /\ e[(4 + w) + 1] = q.port \div 256 /\ e[(4 + w) + 2] = q.port % 256
  BY <1>4, <1>5, Zenon DEF RequestIs
<1>7. l \in Nat /\ l <= 513 /\ 4 \in 1 .. l /\ 4 \in Nat
  BY <1>2, <1>5
<1>8. Holds(m, e, l) /\ IsMemory(m, MessageSize)
  BY <1>1, <1>6, <1>7, MemoryHolds
<1>9. m[3] = q.type /\ (q.type \in {1, 3, 4} => get_port(m, 3) = q.port)
  BY RequestReads
<1>10. q.type \in Octets /\ q.port \in Ports
  BY DEF IsRequest, Requests
<1>11. PICK a : a = [i \in 0 .. 255 |-> m[4 + i]]
  OBVIOUS
<1> PICK port : port = get_port(m, 3)
  OBVIOUS
<1>16. r = Reply([i \in 0 .. ReplySize - 1 |-> g], reply, m[3], a, port)
  BY <1>11 DEF Refused
<1>12. reply \in Octets
  BY DEF Octets
<1>13. CASE q.type \in {1, 3, 4}
  <2>1. 1 <= w
    BY <1>2, <1>13, OctetIsNat DEF AddressIs
  <2>2. \A i \in 0 .. w - 1 : a[i] = m[4 + i] /\ m[4 + i] \in Octets
    <3>1. TAKE i \in 0 .. w - 1
    <3>2. i \in 0 .. 255 /\ 4 + i \in 0 .. MessageSize - 1
      BY <1>2, HandshakeAssumption
    <3>3. QED
      BY <1>8, <1>11, <3>2 DEF IsMemory
  <2>3. q.type = 3 => w = a[0] + 1
    <3>1. SUFFICES ASSUME q.type = 3 PROVE w = a[0] + 1
      OBVIOUS
    <3>2. w = 1 + n /\ Address(q)[1] = n
      BY <1>2, <3>1, Zenon DEF AddressIs
    <3>3. 1 \in 1 .. w /\ 5 \in 1 .. l /\ 0 \in 0 .. w - 1 /\ 5 - 1 = 4 + 0 /\ 4 + 1 = 5
      BY <1>2, <1>5, <2>1
    <3>4. e[4 + 1] = n
      BY <1>6, <3>2, <3>3, WithinAt
    <3>5. m[5 - 1] = e[5]
      BY <1>8, <3>3, HoldsAt
    <3>6. a[0] = n
      BY <2>2, <3>3, <3>4, <3>5
    <3>7. QED
      BY <3>2, <3>6, OctetIsNat
  <2>4. Spans(q.type, a, w)
    <3>1. (q.type = 1 => w = 4) /\ (q.type = 4 => w = 16)
      BY <1>2, Zenon DEF AddressIs
    <3>2. \A i \in 0 .. w - 1 : a[i] \in Octets
      BY <2>2
    <3>3. QED
      BY <1>2, <2>1, <2>3, <3>1, <3>2, Zenon DEF Spans
  <2>5. IsReply(r, reply, q.type, a, w, q.port)
    <3>1. r = Reply([i \in 0 .. ReplySize - 1 |-> g], reply, q.type, a, q.port)
      BY <1>9, <1>13, <1>16
    <3>2. QED
      BY <1>10, <1>12, <1>13, <2>4, <3>1, ReplyKnown
  <2>6. /\ Sized(r, l) /\ r[2] = reply /\ r[4] = q.type
        /\ \A i \in 1 .. w : r[4 + i] = a[i - 1]
        /\ r[(4 + w) + 1] = q.port \div 256 /\ r[(4 + w) + 2] = q.port % 256
    BY <1>5, <2>5, Zenon DEF IsReply
  <2>7. \A i \in 1 .. w : r[4 + i] = e[4 + i]
    <3>1. TAKE i \in 1 .. w
    <3>2. i - 1 \in 0 .. w - 1 /\ 4 + i \in 1 .. l /\ (4 + i) - 1 = 4 + (i - 1)
      BY <1>2, <1>5
    <3>3. m[(4 + i) - 1] = e[4 + i]
      BY <1>8, <3>2, HoldsAt
    <3>4. QED
      BY <2>2, <2>6, <3>2, <3>3
  <2>8. \A k \in 4 .. l : r[k] = e[k]
    <3>1. TAKE k \in 4 .. l
    <3>2. \/ k = 4
          \/ k - 4 \in 1 .. w /\ 4 + (k - 4) = k
          \/ k = (4 + w) + 1
          \/ k = (4 + w) + 2
      BY <1>2, <1>5
    <3>3. CASE k - 4 \in 1 .. w /\ 4 + (k - 4) = k
      <4>1. r[4 + (k - 4)] = e[4 + (k - 4)]
        BY <2>7, <3>3
      <4>2. QED
        BY <3>3, <4>1
    <3>4. QED
      BY <1>6, <2>6, <3>2, <3>3
  <2>9. SubSeq(r, 4, Len(r)) = SubSeq(e, 4, Len(e))
    BY <1>6, <1>7, <2>6, <2>8, SameTail
  <2>10. WellFormed(r)
    BY <1>13, <2>4, <2>5, ReplyWellFormed
  <2>11. r \in Seq(Octets)
    BY <2>6, Zenon DEF Sized
  <2>12. QED
    BY <1>1, <2>6, <2>9, <2>10, <2>11, Zenon DEF IsRefusal
<1>14. CASE q.type \notin {1, 3, 4}
  <2>1. get_port(m, 3) = 0
    <3>1. get_size(m, 3) = 0
      BY <1>9, <1>14 DEF get_size, AddrType
    <3>2. QED
      BY <3>1 DEF get_port
  <2>2. 0 \in Ports
    BY DEF Ports, MaxPort
  <2>3. Sized(r, 3) /\ r[2] = reply
    <3>1. PICK type \in Octets : type = q.type
      BY <1>10
    <3>2. r = Reply([i \in 0 .. ReplySize - 1 |-> g], reply, type, a, port)
      BY <1>9, <1>16, <3>1
    <3>3. port \in Ports
      BY <2>1, <2>2
    <3>4. type # 1 /\ type # 3 /\ type # 4
      BY <1>14, <3>1
    <3>5. IsCut(r, reply)
      BY <1>12, <3>2, <3>3, <3>4, ReplyUnknown
    <3>6. QED
      BY <3>5, Zenon DEF IsCut
  <2>4. r \in Seq(Octets) /\ Len(r) = 3
    BY <2>3, Zenon DEF Sized
  <2>5. QED
    BY <1>14, <2>3, <2>4, Zenon DEF IsRefusal
<1>15. QED
  BY <1>13, <1>14
-----------------------------------------------------------------------------
(* The dialog *)

\* A message of some octets is not empty.
LEMMA NotEmpty ==
  ASSUME NEW e, NEW n \in Nat, n # 0, Sized(e, n)
  PROVE  e \in Seq(Octets) /\ e # <<>>
<1>1. e \in Seq(Octets) /\ Len(e) = n
  BY Zenon DEF Sized
<1>2. Len(<<>>) = 0
  OBVIOUS
<1>3. QED
  BY <1>1, <1>2, Zenon

\* The messages up to the request are octets, and some.
LEMMA MessageOctets ==
  ASSUME NEW d, IsGreeting(d) \/ IsLogin(d) \/ IsRequest(d)
  PROVE  Encoded(d) \in Seq(Octets) /\ Encoded(d) # <<>>
<1>1. PICK e : e = Encoded(d)
  OBVIOUS
<1>2. CASE IsGreeting(d)
  <2>1. PICK n \in Octets : Sized(e, 2 + n)
    BY <1>1, <1>2, GreetingOctets
  <2>2. 2 + n \in Nat /\ 2 + n # 0
    BY OctetIsNat
  <2>3. QED
    BY <1>1, <2>1, <2>2, NotEmpty
<1>3. CASE IsLogin(d)
  <2>1. PICK u \in Octets, p \in Octets : Sized(e, (2 + u) + (1 + p))
    BY <1>1, <1>3, LoginOctets
  <2>2. (2 + u) + (1 + p) \in Nat /\ (2 + u) + (1 + p) # 0
    BY OctetIsNat
  <2>3. QED
    BY <1>1, <2>1, <2>2, NotEmpty
<1>4. CASE IsRequest(d)
  <2>1. PICK n \in Octets, w \in Nat : w <= 256 /\ AddressIs(d, w, n)
    BY <1>4, AddressSized
  <2>2. Sized(Address(d), w)
    BY <2>1, Zenon DEF AddressIs
  <2>3. RequestIs(e, d, w)
    BY <1>1, <1>4, <2>2, RequestOctets
  <2>4. Sized(e, (4 + w) + 2)
    BY <2>3, Zenon DEF RequestIs
  <2>5. (4 + w) + 2 \in Nat /\ (4 + w) + 2 # 0
    OBVIOUS
  <2>6. QED
    BY <1>1, <2>4, <2>5, NotEmpty
<1>5. QED
  BY <1>2, <1>3, <1>4

\* Data is octets, and no message of the handshake.
LEMMA DataOctets ==
  ASSUME NEW d \in Payloads
  PROVE  Encoded(d) \in Seq(Octets) /\ ~Acceptable(d)
<1>1. d.kind = "data" /\ d.octets \in Seq(Octets)
  BY DEF Payloads
<1>2. QED
  BY <1>1 DEF Encoded, Acceptable

\* The method that get_auth_method() chooses is the one that is demanded.
LEMMA MethodDemanded ==
  ASSUME params \in Params
  PROVE  AuthMethod = Demanded(params) /\ Demanded(params) \in {0, 2}
<1>1. params \in [username : Seq(Octets), password : Seq(Octets)]
  BY HandshakeAssumption
<1>2. params = [username |-> <<>>, password |-> <<>>] <=>
          params.username = <<>> /\ params.password = <<>>
  BY <1>1
<1>3. QED
  BY <1>2 DEF AuthMethod, Demanded, NoAuth, UserPass

\* What the client says, one message after the other
LEMMA Dialog ==
  ASSUME ClientsWellSpoken, UnderWay
  PROVE  /\ Len(dialog) \in Nat
         /\ Before \in {1, 2}
         /\ Len(dialog) > 0 => IsGreeting(dialog[1])
         /\ Offers(dialog, params) =>
               /\ Len(dialog) > 1 /\ Before = 2 => IsLogin(dialog[2])
               /\ Len(dialog) >= Before + 1 => IsRequest(dialog[Before + 1])
               /\ \A i \in Before + 2 .. Len(dialog) : dialog[i] \in Payloads
<1>1. dialog \in Dialogs /\ params \in Params
  BY Zenon DEF UnderWay
<1>2. WellSpoken(dialog, params)
  BY <1>1, Zenon DEF ClientsWellSpoken
<1>3. Demanded(params) \in {0, 2}
  BY <1>1, MethodDemanded
<1>4. PICK last : last = IF Demanded(params) = 0 THEN 2 ELSE 3
  OBVIOUS
<1>5. Before + 1 = last /\ Before \in {1, 2} /\ (Before = 2 => last = 3)
      /\ Before + 2 = last + 1
  BY <1>3, <1>4 DEF Before
<1>6. /\ dialog \in Seq(Greetings \cup Logins \cup Requests \cup Payloads)
      /\ Len(dialog) > 0 => IsGreeting(dialog[1])
      /\ Offers(dialog, params) =>
            /\ Len(dialog) > 1 /\ last = 3 => IsLogin(dialog[2])
            /\ Len(dialog) >= last => IsRequest(dialog[last])
            /\ \A i \in last + 1 .. Len(dialog) : dialog[i] \in Payloads
  BY <1>2, <1>4, Zenon DEF WellSpoken
<1>7. Len(dialog) \in Nat
  BY <1>6, LenProperties, Zenon
<1>8. QED
  BY <1>5, <1>6, <1>7, Zenon

\* The message that the session takes next
LEMMA Due ==
  ASSUME ClientsWellSpoken, UnderWay, Stages, heard \in Seq(Understood),
         NEW k, k = Len(heard) + 1, k <= Len(dialog)
  PROVE  /\ state = "Accepted" => k = 1 /\ IsGreeting(dialog[k])
         /\ state = "AuthRequested" => /\ k = 2 /\ Before = 2 /\ Demanded(params) = 2
                                       /\ Offers(dialog, params) /\ IsLogin(dialog[k])
         /\ state = "Authenticated" => /\ k = Before + 1 /\ Offers(dialog, params)
                                       /\ IsRequest(dialog[k])
         /\ state \in {"Working", "Connected", "Associated"} =>
               \A i \in k .. Len(dialog) : dialog[i] \in Payloads
<1>1. Len(heard) \in Nat /\ Len(<<>>) = 0
  OBVIOUS
<1>2. Len(dialog) \in Nat /\ Before \in {1, 2}
  BY Dialog, Zenon
<1>3. /\ Len(dialog) > 0 => IsGreeting(dialog[1])
      /\ Offers(dialog, params) =>
            /\ Len(dialog) > 1 /\ Before = 2 => IsLogin(dialog[2])
            /\ Len(dialog) >= Before + 1 => IsRequest(dialog[Before + 1])
            /\ \A i \in Before + 2 .. Len(dialog) : dialog[i] \in Payloads
  BY Dialog, Zenon
<1>4. Len(heard) > 0 => Offers(dialog, params)
  BY <1>1 DEF Stages
<1>5. ASSUME state = "Accepted" PROVE k = 1 /\ IsGreeting(dialog[k])
  <2>1. heard = <<>>
    BY <1>5, Zenon DEF Stages
  <2>2. k = 1
    BY <1>1, <2>1
  <2>3. Len(dialog) > 0
    BY <1>2, <2>2
  <2>4. QED
    BY <1>3, <2>2, <2>3, Zenon
<1>6. ASSUME state = "AuthRequested"
      PROVE  /\ k = 2 /\ Before = 2 /\ Demanded(params) = 2
             /\ Offers(dialog, params) /\ IsLogin(dialog[k])
  <2>1. Len(heard) = 1 /\ Demanded(params) = 2
    BY <1>6, Zenon DEF Stages
  <2>2. k = 2 /\ Before = 2 /\ Len(heard) > 0
    BY <2>1 DEF Before
  <2>3. Len(dialog) > 1
    BY <1>2, <2>2
  <2>4. QED
    BY <1>3, <1>4, <2>1, <2>2, <2>3, Zenon
<1>7. ASSUME state = "Authenticated"
      PROVE  k = Before + 1 /\ Offers(dialog, params) /\ IsRequest(dialog[k])
  <2>1. Len(heard) = Before
    BY <1>7, Zenon DEF Stages
  <2>2. k = Before + 1 /\ Len(heard) > 0 /\ Len(dialog) >= Before + 1
    BY <1>2, <2>1
  <2>3. QED
    BY <1>3, <1>4, <2>2, Zenon
<1>8. ASSUME state \in {"Working", "Connected", "Associated"}
      PROVE  \A i \in k .. Len(dialog) : dialog[i] \in Payloads
  <2>1. Len(heard) = Before + 1
    BY <1>8, Zenon DEF Stages
  <2>2. k = Before + 2 /\ Len(heard) > 0
    BY <1>2, <2>1
  <2>3. QED
    BY <1>3, <1>4, <2>2, Zenon
<1>9. QED
  BY <1>5, <1>6, <1>7, <1>8, Zenon
-----------------------------------------------------------------------------
(* What the session hears *)

\* The dialog begins.
LEMMA InitHearing ==
  ASSUME ClientsWellSpoken, Init
  PROVE  Hearing /\ Speech
<1>1. /\ dialog \in Dialogs /\ params \in Params /\ spoken = 0 /\ stream = <<>>
      /\ state = "Accepted" /\ heard = <<>> /\ said = <<>> /\ told = TRUE
      /\ whole = TRUE
  BY Zenon DEF Init
<1>2. UnderWay
  BY <1>1, Zenon DEF UnderWay
<1>3. Len(dialog) \in Nat
  BY <1>2, Dialog, Zenon
<1>4. <<>> \in Seq(Octets) /\ <<>> \in Seq(Understood) /\ <<>> \in Seq(Seq(Octets))
      /\ Len(<<>>) = 0 /\ 0 <= 3 /\ DOMAIN <<>> = {}
  OBVIOUS
<1>5. spoken \in 0 .. Len(dialog)
  BY <1>1, <1>3
<1>6. Typed
  BY <1>1, <1>4, <1>5 DEF Typed, States
<1>7. InTurn
  BY <1>1, <1>4 DEF InTurn
<1>8. Stages
  BY <1>1 DEF Stages
<1>9. HeardAsSent
  BY <1>1, <1>4, Zenon DEF HeardAsSent
<1>10. RefusedForReason
  BY <1>1 DEF RefusedForReason
<1>11. Speech
  BY <1>1, <1>4, Zenon DEF Speech, Replies
<1>12. QED
  BY <1>1, <1>2, <1>6, <1>7, <1>8, <1>9, <1>10, <1>11, Zenon DEF Hearing

\* What the client says next
LEMMA Speaks ==
  ASSUME ClientsWellSpoken, Hearing, whole', Speak
  PROVE  /\ Encoded(dialog[spoken + 1]) \in Seq(Octets)
         /\ state \in {"Accepted", "AuthRequested", "Authenticated"} =>
               Encoded(dialog[spoken + 1]) # <<>>
<1>1. state # "over" /\ spoken < Len(dialog) /\ stream = <<>>
  BY Zenon DEF Speak
<1>2. spoken \in Nat /\ Len(dialog) \in Nat /\ Len(heard) \in Nat /\ state \in States
  <2>1. Len(dialog) \in Nat
    BY Dialog, Zenon DEF Hearing
  <2>2. QED
    BY <2>1 DEF Hearing, Typed
<1>3. PICK k : k = Len(heard) + 1
  OBVIOUS
<1>4. Len(heard) <= spoken
  BY Zenon DEF Hearing, InTurn
<1>5. k <= Len(dialog)
  BY <1>1, <1>2, <1>3, <1>4
<1>6. /\ state = "Accepted" => IsGreeting(dialog[k])
      /\ state = "AuthRequested" => IsLogin(dialog[k])
      /\ state = "Authenticated" => IsRequest(dialog[k])
      /\ state \in {"Working", "Connected", "Associated"} =>
               \A i \in k .. Len(dialog) : dialog[i] \in Payloads
  BY <1>3, <1>5, Due DEF Hearing, Typed
<1>7. CASE state \in {"Accepted", "AuthRequested", "Authenticated"}
  <2>1. spoken + 1 = k
    BY <1>1, <1>2, <1>3, <1>7 DEF Hearing, InTurn
  <2>2. IsGreeting(dialog[k]) \/ IsLogin(dialog[k]) \/ IsRequest(dialog[k])
    BY <1>6, <1>7, Zenon
  <2>3. Encoded(dialog[k]) \in Seq(Octets) /\ Encoded(dialog[k]) # <<>>
    BY <2>2, MessageOctets, Zenon
  <2>4. QED
    BY <2>1, <2>3, Zenon
<1>8. CASE state \in {"Working", "Connected", "Associated"}
  <2>1. spoken + 1 \in k .. Len(dialog)
    BY <1>1, <1>2, <1>3, <1>4
  <2>2. dialog[spoken + 1] \in Payloads
    BY <1>6, <1>8, <2>1, Zenon
  <2>3. Encoded(dialog[spoken + 1]) \in Seq(Octets)
    BY <2>2, DataOctets, Zenon
  <2>4. QED
    BY <1>8, <2>3
<1>9. QED
  BY <1>1, <1>2, <1>7, <1>8 DEF States

\* A message of the client is under way.
LEMMA SpeakHearing ==
  ASSUME ClientsWellSpoken, Hearing, whole', Speak
  PROVE  Hearing'
<1>1. /\ state # "over" /\ spoken < Len(dialog) /\ stream = <<>>
      /\ spoken' = spoken + 1 /\ stream' = stream \o Encoded(dialog[spoken + 1])
      /\ dialog' = dialog /\ params' = params /\ state' = state
      /\ heard' = heard /\ told' = told
  BY Zenon DEF Speak
<1>2. PICK e \in Seq(Octets) : e = Encoded(dialog[spoken + 1])
  BY Speaks, Zenon
<1>3. state \in {"Accepted", "AuthRequested", "Authenticated"} => e # <<>>
  BY <1>2, Speaks, Zenon
<1>4. stream' = e
  BY <1>1, <1>2, ConcatEmptySeq
<1>5. /\ spoken \in Nat /\ spoken \in 0 .. Len(dialog) /\ Len(heard) \in Nat
      /\ Len(heard) <= spoken
  BY DEF Hearing, Typed, InTurn
<1>6. Typed'
  <2>1. spoken + 1 \in 0 .. Len(dialog)
    <3>1. Len(dialog) \in Nat
      BY Dialog, Zenon DEF Hearing
    <3>2. QED
      BY <1>1, <1>5, <3>1
  <2>2. QED
    BY <1>1, <1>2, <1>4, <2>1 DEF Hearing, Typed
<1>7. UnderWay'
  BY <1>1, <1>2, <1>4, <1>5 DEF Hearing, UnderWay
<1>8. InTurn'
  <2>1. state \in {"Accepted", "AuthRequested", "Authenticated"} => spoken = Len(heard)
    BY <1>1, <1>5 DEF Hearing, InTurn
  <2>2. QED
    BY <1>1, <1>3, <1>4, <1>5, <2>1 DEF InTurn
<1>9. Stages'
  BY <1>1, Zenon DEF Hearing, Stages, Before
<1>10. HeardAsSent'
  BY <1>1, Zenon DEF Hearing, HeardAsSent, Meaning
<1>11. RefusedForReason'
  BY <1>1, Zenon DEF RefusedForReason
<1>12. QED
  BY <1>6, <1>7, <1>8, <1>9, <1>10, <1>11, Zenon DEF Hearing

\* A session that ends for a reason, or because a reply was lost, leaves what it
\* heard.
LEMMA Ends ==
  ASSUME Hearing, whole', state' = "over", stream' \in {<<>>, stream}, told' \in BOOLEAN,
         dialog' = dialog, params' = params, spoken' = spoken, heard' = heard,
         told' /\ Len(heard) < Len(dialog) => ~Acceptable(dialog[Len(heard) + 1])
  PROVE  Hearing'
<1>1. Typed'
  <2>1. /\ spoken \in 0 .. Len(dialog) /\ stream \in Seq(Octets)
        /\ heard \in Seq(Understood) /\ Len(heard) <= 3
    BY Zenon DEF Hearing, Typed
  <2>2. stream' \in Seq(Octets)
    <3>1. <<>> \in Seq(Octets)
      BY EmptySeq, Zenon
    <3>2. QED
      BY <2>1, <3>1, Zenon
  <2>3. state' \in States
    BY DEF States
  <2>4. QED
    BY <2>1, <2>2, <2>3, Zenon DEF Typed
<1>2. UnderWay'
  BY Zenon DEF Hearing, UnderWay
<1>3. InTurn'
  BY DEF Hearing, InTurn
<1>4. Stages'
  BY DEF Hearing, Stages
<1>5. HeardAsSent'
  BY Zenon DEF Hearing, HeardAsSent, Meaning
<1>6. RefusedForReason'
  BY Zenon DEF RefusedForReason, Acceptable, Meaning
<1>7. QED
  BY <1>1, <1>2, <1>3, <1>4, <1>5, <1>6, Zenon DEF Hearing

\* A message that was taken is one more that was heard.
LEMMA Takes ==
  ASSUME Hearing, whole', state' \in States \ {"Accepted", "Connected", "Associated"},
         stream' = <<>>, told' \in BOOLEAN,
         dialog' = dialog, params' = params, spoken' = spoken,
         Offers(dialog, params),
         NEW k, k = Len(heard) + 1, k <= 3, spoken = k,
         NEW x \in Understood, x = Meaning(dialog[k]), heard' = Append(heard, x),
         state' = "over" => ~told',
         state' = "AuthRequested" => k = 1 /\ Demanded(params) = 2,
         state' = "Authenticated" => k = Before,
         state' = "Working" => k = Before + 1
  PROVE  Hearing'
<1>1. heard \in Seq(Understood) /\ Len(heard) \in Nat
  BY DEF Hearing, Typed
<1>2. heard' \in Seq(Understood) /\ Len(heard') = k
  BY <1>1
<1>3. heard' # <<>>
  <2>1. Len(<<>>) = 0 /\ k # 0
    BY <1>1
  <2>2. QED
    BY <1>2, <2>1
<1>4. Typed'
  BY <1>2 DEF Hearing, Typed
<1>5. UnderWay'
  BY Zenon DEF Hearing, UnderWay
<1>6. InTurn'
  BY <1>1, <1>2 DEF InTurn
<1>7. Stages'
  <2>1. /\ state' # "Accepted" /\ state' # "Connected" /\ state' # "Associated"
        /\ Before' = Before
    BY Zenon DEF Before
  <2>2. QED
    BY <1>2, <2>1 DEF Stages
<1>8. HeardAsSent'
  <2>1. \A i \in 1 .. Len(heard) : heard[i] = Meaning(dialog[i])
    BY <1>1 DEF Hearing, HeardAsSent
  <2>2. \A i \in 1 .. k : heard'[i] = Meaning(dialog[i])
    <3>1. TAKE i \in 1 .. k
    <3>2. CASE i = k
      BY <1>1, <3>2
    <3>3. CASE i # k
      <4>1. i \in 1 .. Len(heard) /\ heard'[i] = heard[i]
        BY <1>1, <3>3
      <4>2. QED
        BY <2>1, <4>1
    <3>4. QED
      BY <3>2, <3>3
  <2>3. DOMAIN heard' = 1 .. k
    BY <1>2
  <2>4. \A d : Meaning(d)' = Meaning(d)
    BY Zenon DEF Meaning
  <2>5. QED
    BY <2>2, <2>3, <2>4, Zenon DEF HeardAsSent, Meaning
<1>9. RefusedForReason'
  BY Zenon DEF RefusedForReason
<1>10. QED
  BY <1>4, <1>5, <1>6, <1>7, <1>8, <1>9, Zenon DEF Hearing

\* What is said does not change.
LEMMA SaysNothing ==
  ASSUME Speech, said' = said, state # "over"
  PROVE  Speech'
<1>1. \A i \in DOMAIN said : Len(said[i]) = 2 \/ IsAnswer(said[i])
  BY Zenon DEF Speech, Replies
<1>2. QED
  BY <1>1, Zenon DEF Speech, Replies

\* One more message
LEMMA Says ==
  ASSUME Speech, state # "over", NEW r \in Seq(Octets), said' = Append(said, r),
         \/ Len(r) = 2
         \/ IsAnswer(r)
         \/ /\ state' = "over" /\ spoken' > 0
            /\ IsRequest(dialog'[spoken']) /\ IsRefusal(r, dialog'[spoken'])
  PROVE  Speech'
<1>1. said \in Seq(Seq(Octets))
  BY Zenon DEF Speech
<1>2. \A i \in DOMAIN said : Len(said[i]) = 2 \/ IsAnswer(said[i])
  BY Zenon DEF Speech, Replies
<1>3. PICK n \in Nat : n = Len(said)
  BY <1>1
<1>4. said' \in Seq(Seq(Octets)) /\ Len(said') = n + 1
  BY <1>1, <1>3
<1>5. DOMAIN said' = 1 .. n + 1 /\ DOMAIN said = 1 .. n
  BY <1>1, <1>3, <1>4
<1>6. said'[n + 1] = r /\ \A i \in 1 .. n : said'[i] = said[i]
  BY <1>1, <1>3
<1>7. ASSUME NEW i \in DOMAIN said'
      PROVE  \/ Len(said'[i]) = 2
             \/ IsAnswer(said'[i])
             \/ /\ state' = "over" /\ spoken' > 0
                /\ IsRequest(dialog'[spoken']) /\ IsRefusal(said'[i], dialog'[spoken'])
  <2>1. CASE i = n + 1
    BY <1>6, <2>1, Zenon
  <2>2. CASE i # n + 1
    <3>1. i \in 1 .. n
      BY <1>5, <1>7, <2>2
    <3>2. said'[i] = said[i] /\ i \in DOMAIN said
      BY <1>5, <1>6, <3>1
    <3>3. QED
      BY <1>2, <3>2, Zenon
  <2>3. QED
    BY <2>1, <2>2
<1>8. Replies'
  BY <1>7, Zenon DEF Replies
<1>9. QED
  BY <1>4, <1>8, Zenon DEF Speech

\* A message of two octets
LEMMA TwoLong ==
  ASSUME NEW x \in Octets, NEW y \in Octets
  PROVE  <<x, y>> \in Seq(Octets) /\ Len(<<x, y>>) = 2
  OBVIOUS

\* A whole message is received.
LEMMA ReceivesWhole ==
  ASSUME ClientsWellSpoken, Hearing, whole', NEW g \in Garbage, NEW n \in 1 .. Len(stream), Receive(n, g)
  PROVE  /\ spoken > 0 /\ stream = Encoded(dialog[spoken]) /\ n = Len(stream)
         /\ stream # <<>> /\ stream' = <<>>
         /\ dialog' = dialog /\ params' = params /\ spoken' = spoken
         /\ \/ state = "Accepted"      /\ Greet(Memory(stream, g))
            \/ state = "AuthRequested" /\ HandleAuth(Memory(stream, g), n)
            \/ state = "Authenticated" /\ Request(Memory(stream, g), g)
            \/ state = "Working" /\ Goto("over") /\ Silent /\ heard' = heard
<1>1. stream \in Seq(Octets)
  BY Zenon DEF Hearing, Typed
<1>2. Len(stream) \in Nat /\ Len(<<>>) = 0
  BY <1>1
<1>3. stream # <<>>
  BY <1>2
<1>4. n = Len(stream)
  BY Zenon DEF Receive
<1>5. SubSeq(stream, 1, n) = stream
  BY <1>1, <1>4, SubSeqFull
<1>6. SubSeq(stream, n + 1, Len(stream)) = <<>>
  <2>1. n + 1 \in Int /\ Len(stream) \in Int /\ Len(stream) < n + 1
    BY <1>2, <1>4
  <2>2. QED
    BY <2>1, SubSeqEmpty
<1>7. stream' = <<>>
  BY <1>6, Zenon DEF Receive
<1>8. spoken > 0 /\ stream = Encoded(dialog[spoken])
  BY <1>3, Zenon DEF Hearing, UnderWay
<1>9. PICK m : m = Memory(stream, g) /\ m = Memory(SubSeq(stream, 1, n), g)
  BY <1>5
<1>10. \/ state = "Accepted"      /\ Greet(m)
       \/ state = "AuthRequested" /\ HandleAuth(m, n)
       \/ state = "Authenticated" /\ Request(m, g)
       \/ state = "Working" /\ Goto("over") /\ Silent /\ heard' = heard
  BY <1>9, Zenon DEF Receive
<1>11. dialog' = dialog /\ params' = params /\ spoken' = spoken
  BY Zenon DEF Receive
<1>12. QED
  BY <1>3, <1>4, <1>7, <1>8, <1>9, <1>10, <1>11, Zenon

\* In the first three states, what arrives is the message that is due.
LEMMA Arrives ==
  ASSUME ClientsWellSpoken, Hearing, whole', NEW g \in Garbage, NEW n \in 1 .. Len(stream), Receive(n, g),
         state \in {"Accepted", "AuthRequested", "Authenticated"}
  PROVE  \E k \in Nat : /\ k = Len(heard) + 1 /\ k = spoken /\ k <= Len(dialog)
                        /\ stream = Encoded(dialog[k])
<1>1. spoken > 0 /\ stream = Encoded(dialog[spoken]) /\ stream # <<>>
  BY ReceivesWhole, Zenon
<1>2. spoken \in 0 .. Len(dialog) /\ Len(dialog) \in Nat /\ Len(heard) \in Nat
  <2>1. Len(dialog) \in Nat
    BY Dialog, Zenon DEF Hearing
  <2>2. QED
    BY <2>1 DEF Hearing, Typed
<1>3. spoken = Len(heard) + 1
  BY <1>1, <1>2 DEF Hearing, InTurn
<1>4. spoken \in Nat /\ spoken <= Len(dialog)
  BY <1>2
<1>5. QED
  BY <1>1, <1>3, <1>4, Zenon

\* _check_version(), _request_auth()
LEMMA GreetStep ==
  ASSUME ClientsWellSpoken, Hearing, whole', Speech, NEW g \in Garbage, NEW n \in 1 .. Len(stream),
         Receive(n, g), state = "Accepted"
  PROVE  Hearing' /\ Speech'
<1>1. PICK k \in Nat : /\ k = Len(heard) + 1 /\ k = spoken /\ k <= Len(dialog)
                       /\ stream = Encoded(dialog[k])
  BY Arrives
<1>2. /\ stream' = <<>> /\ dialog' = dialog /\ params' = params /\ spoken' = spoken
      /\ Greet(Memory(stream, g))
  <2>1. state # "AuthRequested" /\ state # "Authenticated" /\ state # "Working"
    OBVIOUS
  <2>2. QED
    BY <2>1, ReceivesWhole, Zenon
<1>3. k = 1 /\ IsGreeting(dialog[k])
  BY <1>1, Due DEF Hearing, Typed
<1>4. PICK d : d = dialog[1] /\ d = dialog[k] /\ d = dialog[Len(heard) + 1]
  BY <1>1, <1>3
<1>5. PICK m : m = Memory(stream, g)
  OBVIOUS
<1>6. m[0] = 5 /\ Offered(m) = Methods(d)
  <2>1. IsGreeting(d) /\ m = Memory(Encoded(d), g)
    BY <1>1, <1>3, <1>4, <1>5, Zenon
  <2>2. QED
    BY <2>1, GreetReads
<1>7. PICK offered : offered = Offered(m) /\ offered = {d.methods[i] : i \in DOMAIN d.methods}
  BY <1>6, Zenon DEF Methods
<1>8. AuthMethod = Demanded(params) /\ Demanded(params) \in {0, 2}
  BY MethodDemanded, Zenon DEF Hearing, UnderWay
<1>9. IF m[0] # 5 \/ AuthMethod \notin offered THEN Refuse(<<5, Invalid>>)
      ELSE /\ Tell(<<5, AuthMethod>>)
           /\ Hear([kind |-> "greeting", method |-> AuthMethod])
           /\ Goto(IF ~told' THEN "over"
                   ELSE IF AuthMethod = NoAuth THEN "Authenticated" ELSE "AuthRequested")
  BY <1>2, <1>5, <1>7, Zenon DEF Greet, Offered
<1>10. d.kind = "greeting"
  BY <1>3, <1>4 DEF IsGreeting, Greetings
<1>11. CASE AuthMethod \in offered
  <2>1. /\ Tell(<<5, AuthMethod>>)
        /\ Hear([kind |-> "greeting", method |-> AuthMethod])
        /\ Goto(IF ~told' THEN "over"
                ELSE IF AuthMethod = NoAuth THEN "Authenticated" ELSE "AuthRequested")
    BY <1>6, <1>9, <1>11, Zenon
  <2>2. PICK x : x = [kind |-> "greeting", method |-> AuthMethod]
    OBVIOUS
  <2>3. x \in Understood /\ x = Meaning(dialog[k])
    <3>1. x \in Understood
      BY <1>8, <2>2 DEF Understood
    <3>2. x = Meaning(d)
      BY <1>8, <1>10, <2>2 DEF Meaning
    <3>3. QED
      BY <1>4, <3>1, <3>2
  <2>4. Offers(dialog, params)
    <3>1. Len(dialog) > 0
      <4>1. Len(dialog) \in Nat
        BY Dialog, Zenon DEF Hearing
      <4>2. QED
        BY <1>1, <1>3, <4>1
    <3>2. \E i \in DOMAIN d.methods : d.methods[i] = Demanded(params)
      BY <1>7, <1>8, <1>11
    <3>3. QED
      BY <1>4, <3>1, <3>2, Zenon DEF Offers
  <2>5. told' \in BOOLEAN /\ said' = Append(said, <<5, AuthMethod>>) /\ heard' = Append(heard, x)
    BY <2>1, <2>2, Zenon DEF Tell, Hear
  <2>6. /\ state' \in {"over", "Authenticated", "AuthRequested"}
        /\ state' = "over" => ~told'
        /\ state' = "Authenticated" => Demanded(params) = 0
        /\ state' = "AuthRequested" => Demanded(params) = 2
    BY <1>8, <2>1 DEF Goto, NoAuth
  <2>7. Hearing'
    <3>1. state' \in States \ {"Accepted", "Connected", "Associated"} /\ state' # "Working"
      BY <2>6 DEF States
    <3>2. k <= 3 /\ (state' = "Authenticated" => k = Before)
          /\ (state' = "AuthRequested" => k = 1 /\ Demanded(params) = 2)
      BY <1>3, <2>6 DEF Before
    <3>3. QED
      BY <1>1, <1>2, <2>3, <2>4, <2>5, <2>6, <3>1, <3>2, Takes
  <2>8. Speech'
    <3>1. 5 \in Octets /\ AuthMethod \in Octets
      BY <1>8 DEF Octets
    <3>2. PICK r \in Seq(Octets) : r = <<5, AuthMethod>> /\ Len(r) = 2
      BY <3>1, TwoLong
    <3>3. state # "over"
      OBVIOUS
    <3>4. QED
      BY <2>5, <3>2, <3>3, Says
  <2>9. QED
    BY <2>7, <2>8
<1>12. CASE AuthMethod \notin offered
  <2>1. Refuse(<<5, Invalid>>)
    BY <1>9, <1>12, Zenon
  <2>2. /\ state' = "over" /\ heard' = heard /\ told' \in BOOLEAN
        /\ said' = Append(said, <<5, 255>>)
    BY <2>1, Zenon DEF Refuse, Goto, Tell, Invalid
  <2>3. ~Acceptable(d)
    BY <1>7, <1>8, <1>10, <1>12 DEF Acceptable, Meaning
  <2>4. Hearing'
    BY <1>2, <1>4, <2>2, <2>3, Ends
  <2>5. Speech'
    <3>1. 5 \in Octets /\ 255 \in Octets
      BY DEF Octets
    <3>2. PICK r \in Seq(Octets) : r = <<5, 255>> /\ Len(r) = 2
      BY <3>1, TwoLong
    <3>3. state # "over"
      OBVIOUS
    <3>4. QED
      BY <2>2, <3>2, <3>3, Says
  <2>6. QED
    BY <2>4, <2>5
<1>13. QED
  BY <1>11, <1>12

\* Behind the request there is data only.
LEMMA DataIsDue ==
  ASSUME ClientsWellSpoken, Hearing, state = "Working"
  PROVE  Len(heard) < Len(dialog) => ~Acceptable(dialog[Len(heard) + 1])
<1>1. SUFFICES ASSUME Len(heard) < Len(dialog)
               PROVE  ~Acceptable(dialog[Len(heard) + 1])
  OBVIOUS
<1>2. PICK k : k = Len(heard) + 1
  OBVIOUS
<1>3. Len(dialog) \in Nat /\ Len(heard) \in Nat
  <2>1. Len(dialog) \in Nat
    BY Dialog, Zenon DEF Hearing
  <2>2. QED
    BY <2>1 DEF Hearing, Typed
<1>4. k \in k .. Len(dialog) /\ k <= Len(dialog)
  BY <1>1, <1>2, <1>3
<1>5. \A i \in k .. Len(dialog) : dialog[i] \in Payloads
  BY <1>2, <1>4, Due DEF Hearing, Typed
<1>6. dialog[k] \in Payloads
  BY <1>4, <1>5, Zenon
<1>7. ~Acceptable(dialog[k])
  <2>1. PICK d \in Payloads : d = dialog[k]
    BY <1>6
  <2>2. ~Acceptable(d)
    BY DataOctets
  <2>3. QED
    BY <2>1, <2>2, Zenon
<1>8. QED
  BY <1>2, <1>7

\* _handle_auth()
LEMMA AuthStep ==
  ASSUME ClientsWellSpoken, Hearing, whole', Speech, NEW g \in Garbage, NEW n \in 1 .. Len(stream),
         Receive(n, g), state = "AuthRequested"
  PROVE  Hearing' /\ Speech'
<1>1. PICK k \in Nat : /\ k = Len(heard) + 1 /\ k = spoken /\ k <= Len(dialog)
                       /\ stream = Encoded(dialog[k])
  BY Arrives
<1>2. /\ stream' = <<>> /\ dialog' = dialog /\ params' = params /\ spoken' = spoken
      /\ n = Len(stream) /\ HandleAuth(Memory(stream, g), n)
  <2>1. state # "Accepted" /\ state # "Authenticated" /\ state # "Working"
    OBVIOUS
  <2>2. QED
    BY <2>1, ReceivesWhole, Zenon
<1>3. /\ k = 2 /\ Before = 2 /\ Demanded(params) = 2 /\ Offers(dialog, params)
      /\ IsLogin(dialog[k])
  BY <1>1, Due DEF Hearing, Typed
<1>4. PICK d : d = dialog[k] /\ d = dialog[Len(heard) + 1]
  BY <1>1
<1>5. PICK m : m = Memory(stream, g)
  OBVIOUS
<1>6. /\ ~Exceeds(m[1], n - 2) /\ ~PasswordTooLong(m, n)
      /\ Slice(m, 2, m[1]) = d.username
      /\ Slice(m, 3 + m[1], m[2 + m[1]]) = d.password
  <2>1. IsLogin(d) /\ m = Memory(Encoded(d), g) /\ n = Len(Encoded(d))
    BY <1>1, <1>2, <1>3, <1>4, <1>5, Zenon
  <2>2. QED
    BY <2>1, LoginReads
<1>7. d \in Logins /\ d.kind = "auth"
  BY <1>3, <1>4 DEF IsLogin, Logins
<1>8. IF d.username # params.username \/ d.password # params.password
      THEN Refuse(<<5, 255>>)
      ELSE /\ Tell(<<5, 0>>)
           /\ Hear([kind |-> "auth", username |-> d.username, password |-> d.password])
           /\ Goto("Authenticated")
  BY <1>2, <1>5, <1>6, Zenon DEF HandleAuth
<1>9. state # "over" /\ 0 \in Octets /\ 5 \in Octets /\ 255 \in Octets
  BY DEF Octets
<1>10. CASE d.username # params.username \/ d.password # params.password
  <2>1. /\ state' = "over" /\ heard' = heard /\ told' \in BOOLEAN
        /\ said' = Append(said, <<5, 255>>)
    BY <1>8, <1>10, Zenon DEF Refuse, Goto, Tell
  <2>2. ~Acceptable(d)
    BY <1>7, <1>10 DEF Acceptable
  <2>3. Hearing'
    BY <1>2, <1>4, <2>1, <2>2, Ends
  <2>4. PICK r \in Seq(Octets) : r = <<5, 255>> /\ Len(r) = 2
    BY <1>9, TwoLong
  <2>5. Speech'
    BY <1>9, <2>1, <2>4, Says
  <2>6. QED
    BY <2>3, <2>5
<1>11. CASE ~(d.username # params.username \/ d.password # params.password)
  <2>1. /\ state' = "Authenticated" /\ told' \in BOOLEAN
        /\ said' = Append(said, <<5, 0>>)
        /\ heard' = Append(heard, [kind |-> "auth", username |-> d.username,
                                   password |-> d.password])
    BY <1>8, <1>11, Zenon DEF Hear, Goto, Tell
  <2>2. d = [kind |-> "auth", username |-> d.username, password |-> d.password]
    BY <1>7 DEF Logins
  <2>3. d \in Understood /\ d = Meaning(dialog[k]) /\ heard' = Append(heard, d)
    BY <1>4, <1>7, <2>1, <2>2 DEF Understood, Meaning
  <2>4. /\ state' \in States \ {"Accepted", "Connected", "Associated"}
        /\ state' # "over" /\ state' # "AuthRequested" /\ state' # "Working"
        /\ k <= 3 /\ k = Before
    BY <1>3, <2>1 DEF States
  <2>5. Hearing'
    BY <1>1, <1>2, <1>3, <2>1, <2>3, <2>4, Takes
  <2>6. PICK r \in Seq(Octets) : r = <<5, 0>> /\ Len(r) = 2
    BY <1>9, TwoLong
  <2>7. Speech'
    BY <1>9, <2>1, <2>6, Says
  <2>8. QED
    BY <2>5, <2>7
<1>12. QED
  BY <1>10, <1>11

\* _check_command(), _resolve_address()
LEMMA RequestStep ==
  ASSUME ClientsWellSpoken, Hearing, whole', Speech, NEW g \in Garbage, NEW n \in 1 .. Len(stream),
         Receive(n, g), state = "Authenticated"
  PROVE  Hearing' /\ Speech'
<1>1. PICK k \in Nat : /\ k = Len(heard) + 1 /\ k = spoken /\ k <= Len(dialog)
                       /\ stream = Encoded(dialog[k])
  BY Arrives
<1>2. /\ stream' = <<>> /\ dialog' = dialog /\ params' = params /\ spoken' = spoken
      /\ spoken > 0 /\ Request(Memory(stream, g), g)
  <2>1. state # "Accepted" /\ state # "AuthRequested" /\ state # "Working"
    OBVIOUS
  <2>2. QED
    BY <2>1, ReceivesWhole, Zenon
<1>3. k = Before + 1 /\ Offers(dialog, params) /\ IsRequest(dialog[k])
  BY <1>1, Due DEF Hearing, Typed
<1>4. PICK d : d = dialog[k] /\ d = dialog[Len(heard) + 1]
  BY <1>1
<1>5. PICK m : m = Memory(stream, g) /\ m = Memory(Encoded(d), g)
  BY <1>1, <1>4
<1>6. /\ m[1] = d.command /\ m[3] = d.type
      /\ d.type \in {1, 3, 4} => get_port(m, 3) = d.port /\ Target(m) = d
  BY <1>3, <1>4, <1>5, RequestReads
<1>7. d \in Requests /\ d.kind = "request"
  BY <1>3, <1>4 DEF IsRequest, Requests
<1>8. KnownType(m) <=> m[3] \in {1, 3, 4}
  BY Known
<1>9. state # "over"
  OBVIOUS
<1>10. \/ \E reply \in {7, 8} : RefuseRequest(m, g, reply) /\ ~Acceptable(d)
       \/ KnownType(m) /\ Hear(Target(m)) /\ Goto("Working") /\ Silent
  <2>1. \/ m[1] \notin {1, 3} /\ RefuseRequest(m, g, 7)
        \/ (~KnownType(m) \/ m[3] = 3) /\ RefuseRequest(m, g, 8)
        \/ KnownType(m) /\ Hear(Target(m)) /\ Goto("Working") /\ Silent
    <3>1. AddrType.DomainName = 3
      BY DEF AddrType
    <3>2. QED
      BY <1>2, <1>5, <3>1, Zenon DEF Request, Connect, UdpAssociate
  <2>2. Acceptable(d) => m[1] \in {1, 3} /\ m[3] \in {1, 4}
    BY <1>6, <1>7 DEF Acceptable
  <2>3. Acceptable(d) => m[1] \in {1, 3} /\ KnownType(m) /\ m[3] # 3
    BY <1>8, <2>2
  <2>4. 7 \in {7, 8} /\ 8 \in {7, 8}
    OBVIOUS
  <2>5. QED
    BY <2>1, <2>3, <2>4, Zenon
<1>11. CASE \E reply \in {7, 8} : RefuseRequest(m, g, reply) /\ ~Acceptable(d)
  <2>1. PICK reply \in {7, 8} : RefuseRequest(m, g, reply) /\ ~Acceptable(d)
    BY <1>11
  <2>2. PICK r : r = Refused(m, g, reply)
    OBVIOUS
  <2>3. /\ state' = "over" /\ heard' = heard /\ told' \in BOOLEAN
        /\ said' = Append(said, r)
    BY <2>1, <2>2, Zenon DEF RefuseRequest, Refused, Refuse, Goto, Tell
  <2>4. Hearing'
    BY <1>2, <1>4, <2>1, <2>3, Ends
  <2>5. r \in Seq(Octets) /\ IsRefusal(r, d)
    BY <1>3, <1>4, <1>5, <2>2, RefusalSaid
  <2>6. spoken' > 0 /\ IsRequest(dialog'[spoken']) /\ IsRefusal(r, dialog'[spoken'])
    BY <1>1, <1>2, <1>3, <1>4, <2>5, Zenon
  <2>7. Speech'
    BY <1>9, <2>3, <2>5, <2>6, Says
  <2>8. QED
    BY <2>4, <2>7
<1>12. CASE KnownType(m) /\ Hear(Target(m)) /\ Goto("Working") /\ Silent
  <2>1. Target(m) = d
    BY <1>6, <1>8, <1>12
  <2>2. /\ state' = "Working" /\ heard' = Append(heard, d) /\ said' = said /\ told' = told
    BY <1>12, <2>1, Zenon DEF Hear, Goto, Silent
  <2>3. d \in Understood /\ d = Meaning(dialog[k])
    BY <1>4, <1>7 DEF Understood, Meaning
  <2>4. told' \in BOOLEAN
    BY <2>2, Zenon DEF Hearing, Typed
  <2>5. /\ state' \in States \ {"Accepted", "Connected", "Associated"}
        /\ state' # "over" /\ state' # "AuthRequested" /\ state' # "Authenticated"
    BY <2>2 DEF States
  <2>6. k <= 3
    BY <1>3, Dialog DEF Hearing
  <2>7. Hearing'
    BY <1>1, <1>2, <1>3, <2>2, <2>3, <2>4, <2>5, <2>6, Takes
  <2>8. Speech'
    BY <1>9, <2>2, SaysNothing
  <2>9. QED
    BY <2>7, <2>8
<1>13. QED
  BY <1>10, <1>11, <1>12

\* What arrives while the request is carried out ends the session.
LEMMA WorkingStep ==
  ASSUME ClientsWellSpoken, Hearing, whole', Speech, NEW g \in Garbage, NEW n \in 1 .. Len(stream),
         Receive(n, g), state = "Working"
  PROVE  Hearing' /\ Speech'
<1>1. /\ stream' = <<>> /\ dialog' = dialog /\ params' = params /\ spoken' = spoken
      /\ Goto("over") /\ Silent /\ heard' = heard
  <2>1. state # "Accepted" /\ state # "AuthRequested" /\ state # "Authenticated"
    OBVIOUS
  <2>2. QED
    BY <2>1, ReceivesWhole, Zenon
<1>2. state' = "over" /\ said' = said /\ told' = told /\ told \in BOOLEAN
  BY <1>1, Zenon DEF Goto, Silent, Hearing, Typed
<1>3. Len(heard) < Len(dialog) => ~Acceptable(dialog[Len(heard) + 1])
  BY DataIsDue
<1>4. Hearing'
  BY <1>1, <1>2, <1>3, Ends
<1>5. Speech'
  <2>1. state # "over"
    OBVIOUS
  <2>2. QED
    BY <1>2, <2>1, SaysNothing
<1>6. QED
  BY <1>4, <1>5

\* The reply to the request
LEMMA AnswerStep ==
  ASSUME ClientsWellSpoken, Hearing, whole', Speech, NEW g \in Garbage, NEW type \in {1, 4},
         Answer([i \in 0 .. 15 |-> 16 + i], type, 258, g)
  PROVE  Hearing' /\ Speech'
<1>1. /\ state = "Working"
      /\ dialog' = dialog /\ params' = params /\ spoken' = spoken
      /\ stream' = stream /\ heard' = heard
  BY Zenon DEF Answer
<1>2. PICK reply \in {0, 1, 3} :
         /\ Tell(Answered(g, reply, type))
         /\ state' \in {"Connected", "Associated", "over", "Working"}
  <2> DEFINE connects == heard[Len(heard)].command = Connect
  <2>1. PICK reply \in IF connects THEN {0, 1, 3} ELSE {0} :
         /\ Tell(Answered(g, reply, type))
         /\ \/ reply = 0 /\ Goto(IF connects THEN "Connected" ELSE "Associated")
            \/ reply # 0 /\ Goto("over")
            \/ reply = 1 /\ UNCHANGED state
    BY Zenon DEF Answer, Answered
  <2>2. reply \in {0, 1, 3}
    BY <2>1
  <2>3. state' \in {"Connected", "Associated", "over", "Working"}
    BY <1>1, <2>1 DEF Goto
  <2>4. QED
    BY <2>1, <2>2, <2>3, Zenon
<1>3. PICK r : r = Answered(g, reply, type)
  OBVIOUS
<1>4. said' = Append(said, r) /\ told' \in BOOLEAN
  BY <1>2, <1>3, Zenon DEF Tell
<1>5. r \in Seq(Octets) /\ IsAnswer(r)
  BY <1>3, AnswerSaid
<1>6. Speech'
  <2>1. state # "over"
    BY <1>1
  <2>2. QED
    BY <1>4, <1>5, <2>1, Says
<1>7. CASE state' = "over"
  <2>1. Len(heard) < Len(dialog) => ~Acceptable(dialog[Len(heard) + 1])
    BY <1>1, DataIsDue
  <2>2. Hearing'
    BY <1>1, <1>4, <1>7, <2>1, Ends
  <2>3. QED
    BY <1>6, <2>2
<1>8. CASE state' \in {"Connected", "Associated", "Working"}
  <2>1. Typed'
    BY <1>1, <1>4, <1>8 DEF Hearing, Typed, States
  <2>2. UnderWay'
    BY <1>1, Zenon DEF Hearing, UnderWay
  <2>3. InTurn'
    BY <1>1, <1>8 DEF Hearing, InTurn
  <2>4. Stages'
    <3>1. Before' = Before
      BY <1>1, Zenon DEF Before
    <3>2. QED
      BY <1>1, <1>8, <3>1 DEF Hearing, Stages
  <2>5. HeardAsSent'
    BY <1>1, Zenon DEF Hearing, HeardAsSent, Meaning
  <2>6. RefusedForReason'
    BY <1>8 DEF RefusedForReason
  <2>7. Hearing'
    BY <2>1, <2>2, <2>3, <2>4, <2>5, <2>6, Zenon DEF Hearing
  <2>8. QED
    BY <1>6, <2>7
<1>9. QED
  BY <1>2, <1>7, <1>8
-----------------------------------------------------------------------------
(* Any client *)

\* What holds whatever octets arrive, and in whatever pieces
Sane ==
    /\ dialog \in Dialogs /\ params \in Params
    /\ spoken \in 0 .. Len(dialog)
    /\ stream \in Seq(Octets)
    /\ state \in States
    /\ whole \in BOOLEAN
    /\ heard \in Seq(Understood) /\ Len(heard) <= 3
    /\ state = "Accepted" => heard = <<>>
    /\ state = "AuthRequested" => Len(heard) = 1
    /\ state = "Authenticated" => Len(heard) <= 2
    /\ said \in Seq(Seq(Octets))
    /\ told \in BOOLEAN

\* An octet of the first 513 of a message, which the buffer holds whatever was
\* received
LEMMA MemoryAt ==
  ASSUME NEW m, IsMemory(m, MessageSize), NEW i \in Nat, i < 513
  PROVE  m[i] \in Octets
<1>1. MessageSize \in Nat /\ MessageSize >= 513
  BY HandshakeAssumption
<1>2. i \in 0 .. MessageSize - 1
  BY <1>1
<1>3. QED
  BY <1>2, Zenon DEF IsMemory

\* What is read within those is octets.
LEMMA SliceOctets ==
  ASSUME NEW m, IsMemory(m, MessageSize), NEW k \in Nat, NEW n \in Nat, k + n <= 513
  PROVE  Slice(m, k, n) \in Seq(Octets)
<1>1. \A i \in 1 .. n : m[k + i - 1] \in Octets
  <2>1. TAKE i \in 1 .. n
  <2>2. k + i - 1 \in Nat /\ k + i - 1 < 513
    OBVIOUS
  <2>3. QED
    BY <2>2, MemoryAt
<1>2. QED
  BY <1>1 DEF Slice

\* The two lengths of any message of authentication lead nowhere behind the buffer.
LEMMA LoginTyped ==
  ASSUME NEW m, IsMemory(m, MessageSize)
  PROVE  [kind |-> "auth", username |-> Slice(m, 2, m[1]),
          password |-> Slice(m, 3 + m[1], m[2 + m[1]])] \in Understood
<1>1. PICK u \in Nat : u = m[1] /\ u <= 255
  BY MemoryAt, OctetIsNat
<1>2. 2 + u \in Nat /\ 2 + u < 513 /\ 3 + u \in Nat /\ 2 \in Nat /\ 2 + u <= 513
  BY <1>1
<1>3. PICK p \in Nat : p = m[2 + u] /\ p <= 255
  BY <1>2, MemoryAt, OctetIsNat
<1>4. (3 + u) + p <= 513
  BY <1>1, <1>3
<1>5. Slice(m, 2, u) \in Seq(Octets) /\ Slice(m, 3 + u, p) \in Seq(Octets)
  BY <1>1, <1>2, <1>3, <1>4, SliceOctets
<1>6. QED
  BY <1>1, <1>3, <1>5 DEF Understood, Logins

\* The type, the address and the port of any request are read inside the buffer.
LEMMA TargetTyped ==
  ASSUME NEW m, IsMemory(m, MessageSize), KnownType(m)
  PROVE  Target(m) \in Understood
<1>1. m[3] \in {1, 3, 4}
  BY Known
<1>2. m[1] \in Octets /\ m[3] \in Octets /\ m[4] \in Octets
  BY MemoryAt
<1>3. get_port(m, 3) \in Ports
  <2>1. MessageSize \in Nat /\ MessageSize >= 262
    BY HandshakeAssumption
  <2>2. QED
    BY <1>1, <2>1, PortRead
<1>4. PICK a : a = Target(m).address
  OBVIOUS
<1>5. a \in Seq(Octets)
  <2>1. CASE m[3] = 1
    <3>1. a = Slice(m, 4, 4)
      BY <1>4, <2>1 DEF Target, AddrType
    <3>2. QED
      BY <3>1, SliceOctets
  <2>2. CASE m[3] = 4
    <3>1. a = Slice(m, 4, 16)
      BY <1>4, <2>2 DEF Target, AddrType
    <3>2. QED
      BY <3>1, SliceOctets
  <2>3. CASE m[3] = 3
    <3>1. PICK n \in Nat : n = m[4] /\ n <= 255
      BY <1>2, OctetIsNat
    <3>2. a = Slice(m, 5, n)
      BY <1>4, <2>3, <3>1 DEF Target, AddrType
    <3>3. QED
      BY <3>1, <3>2, SliceOctets
  <2>4. QED
    BY <1>1, <2>1, <2>2, <2>3
<1>6. Target(m) = [kind |-> "request", command |-> m[1], type |-> m[3],
                   address |-> a, port |-> get_port(m, 3)]
  BY <1>4 DEF Target
<1>7. QED
  BY <1>2, <1>3, <1>5, <1>6 DEF Understood, Requests

\* The address that a refusal copies, whatever was received
LEMMA Copies ==
  ASSUME NEW m, IsMemory(m, MessageSize), NEW a, a = [i \in 0 .. 255 |-> m[4 + i]],
         m[3] \in {1, 3, 4}
  PROVE  \E w : Spans(m[3], a, w)
<1>1. \A i \in 0 .. 255 : a[i] \in Octets
  <2>1. TAKE i \in 0 .. 255
  <2>2. 4 + i \in Nat /\ 4 + i < 513
    OBVIOUS
  <2>3. QED
    BY <2>2, MemoryAt
<1>2. PICK n \in Nat : n = a[0] /\ n <= 255
  BY <1>1, OctetIsNat
<1>3. PICK w \in Nat : w = IF m[3] = 1 THEN 4 ELSE IF m[3] = 4 THEN 16 ELSE n + 1
  BY <1>2
<1>4. 1 <= w /\ w <= 256
  BY <1>2, <1>3
<1>5. \A i \in 0 .. w - 1 : a[i] \in Octets
  <2>1. \A i \in 0 .. w - 1 : i \in 0 .. 255
    BY <1>4
  <2>2. QED
    BY <1>1, <2>1
<1>6. Spans(m[3], a, w)
  BY <1>2, <1>3, <1>4, <1>5 DEF Spans
<1>7. QED
  BY <1>6

\* A refusal is octets, whatever was received.
LEMMA RefusedTyped ==
  ASSUME NEW m, IsMemory(m, MessageSize), NEW g \in Garbage, NEW reply \in {7, 8}
  PROVE  Refused(m, g, reply) \in Seq(Octets)
<1> PICK r : r = Refused(m, g, reply)
  OBVIOUS
<1>1. PICK a : a = [i \in 0 .. 255 |-> m[4 + i]]
  OBVIOUS
<1>2. PICK port : port = get_port(m, 3)
  OBVIOUS
<1>3. PICK type \in Octets : type = m[3]
  BY MemoryAt
<1>4. r = Reply([i \in 0 .. ReplySize - 1 |-> g], reply, type, a, port)
  BY <1>1, <1>2, <1>3 DEF Refused
<1>5. reply \in Octets
  BY DEF Octets
<1>6. CASE type \in {1, 3, 4}
  <2>1. PICK w : Spans(type, a, w)
    BY <1>1, <1>3, <1>6, Copies
  <2>2. port \in Ports
    <3>1. MessageSize \in Nat /\ MessageSize >= 262
      BY HandshakeAssumption
    <3>2. QED
      BY <1>2, <1>3, <1>6, <3>1, PortRead
  <2>3. IsReply(r, reply, type, a, w, port)
    BY <1>4, <1>5, <1>6, <2>1, <2>2, ReplyKnown
  <2>4. QED
    BY <2>3, Zenon DEF IsReply, Sized
<1>7. CASE type \notin {1, 3, 4}
  <2>1. port = 0
    BY <1>2, <1>3, <1>7 DEF get_port, get_size, AddrType
  <2>2. port \in Ports
    BY <2>1 DEF Ports, MaxPort
  <2>3. type # 1 /\ type # 3 /\ type # 4
    BY <1>7
  <2>4. IsCut(r, reply)
    BY <1>4, <1>5, <2>2, <2>3, ReplyUnknown
  <2>5. QED
    BY <2>4, Zenon DEF IsCut, Sized
<1>8. QED
  BY <1>6, <1>7

\* A session that understood one more message has gone on.
GoesOn ==
    \/ state = "Accepted" /\ state' \in {"AuthRequested", "Authenticated", "over"}
    \/ state = "AuthRequested" /\ state' = "Authenticated"
    \/ state = "Authenticated" /\ state' = "Working"

\* A step of the session that answers and hears octets
LEMMA StaysSane ==
  ASSUME Sane, dialog' = dialog, params' = params, spoken' = spoken,
         stream' \in Seq(Octets), told' \in BOOLEAN, whole' \in BOOLEAN,
         said' = said \/ \E r \in Seq(Octets) : said' = Append(said, r),
         \/ heard' = heard /\ state' \in {"over", "Working", "Connected", "Associated"}
         \/ (\E d \in Understood : heard' = Append(heard, d)) /\ GoesOn
  PROVE  Sane'
<1>1. said' \in Seq(Seq(Octets))
  <2>1. said \in Seq(Seq(Octets))
    BY Zenon DEF Sane
  <2>2. CASE said' = said
    BY <2>1, <2>2, Zenon
  <2>3. CASE \E r \in Seq(Octets) : said' = Append(said, r)
    <3>1. PICK r \in Seq(Octets) : said' = Append(said, r)
      BY <2>3
    <3>2. QED
      BY <2>1, <3>1
  <2>4. QED
    BY <2>2, <2>3
<1>2. heard \in Seq(Understood) /\ Len(heard) \in Nat /\ Len(heard) <= 3 /\ Len(<<>>) = 0
  BY DEF Sane
<1>3. /\ state' \in States
      /\ heard' \in Seq(Understood) /\ Len(heard') <= 3
      /\ state' = "Accepted" => heard' = <<>>
      /\ state' = "AuthRequested" => Len(heard') = 1
      /\ state' = "Authenticated" => Len(heard') <= 2
  <2>1. CASE heard' = heard /\ state' \in {"over", "Working", "Connected", "Associated"}
    BY <1>2, <2>1 DEF States
  <2>2. CASE (\E d \in Understood : heard' = Append(heard, d)) /\ GoesOn
    <3>1. heard' \in Seq(Understood) /\ Len(heard') = Len(heard) + 1
      BY <1>2, <2>2, AppendProperties
    <3>2. /\ state = "Accepted" => Len(heard) = 0
          /\ state = "AuthRequested" => Len(heard) = 1
          /\ state = "Authenticated" => Len(heard) <= 2
      BY <1>2 DEF Sane
    <3>3. QED
      BY <1>2, <2>2, <3>1, <3>2 DEF GoesOn, States
  <2>3. QED
    BY <2>1, <2>2
<1>4. QED
  BY <1>1, <1>3, Zenon DEF Sane

\* The message of a step is answered by octets and understood, or it is the last.
LEMMA ReceiveSane ==
  ASSUME Sane, NEW g \in Garbage, NEW n \in 1 .. Len(stream), Receive(n, g)
  PROVE  Sane'
<1>1. stream \in Seq(Octets) /\ params \in Params /\ told \in BOOLEAN
  BY Zenon DEF Sane
<1>2. SubSeq(stream, 1, n) \in Seq(Octets) /\ SubSeq(stream, n + 1, Len(stream)) \in Seq(Octets)
  BY <1>1
<1>3. PICK m : m = Memory(SubSeq(stream, 1, n), g)
  OBVIOUS
<1>4. IsMemory(m, MessageSize)
  BY <1>2, <1>3, MemoryIs
<1>5. /\ dialog' = dialog /\ params' = params /\ spoken' = spoken
      /\ stream' \in Seq(Octets) /\ whole' \in BOOLEAN
      /\ \/ state = "Accepted"      /\ Greet(m)
         \/ state = "AuthRequested" /\ HandleAuth(m, n)
         \/ state = "Authenticated" /\ Request(m, g)
         \/ state = "Working"       /\ Goto("over") /\ Silent /\ UNCHANGED heard
  BY <1>2, <1>3, Zenon DEF Receive
<1>6. PICK a \in {0, 2} : a = AuthMethod
  BY <1>1, MethodDemanded
<1>7. a \in Octets /\ 0 \in Octets /\ 5 \in Octets /\ Invalid \in Octets /\ 255 \in Octets
  BY DEF Octets, Invalid
<1>8. \A x \in Octets : <<5, x>> \in Seq(Octets)
  BY <1>7
<1>9. ASSUME NEW r \in Seq(Octets), Refuse(r) PROVE Sane'
  <2>1. heard' = heard /\ state' = "over" /\ said' = Append(said, r) /\ told' \in BOOLEAN
    BY <1>9, Zenon DEF Refuse, Goto, Tell
  <2>2. state' \in {"over", "Working", "Connected", "Associated"}
    BY <2>1
  <2>3. QED
    BY <1>5, <2>1, <2>2, StaysSane, Zenon
<1>10. ASSUME Goto("over"), Silent, heard' = heard PROVE Sane'
  <2>1. state' = "over" /\ said' = said /\ told' \in BOOLEAN
    BY <1>1, <1>10, Zenon DEF Goto, Silent
  <2>2. state' \in {"over", "Working", "Connected", "Associated"}
    BY <2>1
  <2>3. QED
    BY <1>5, <1>10, <2>1, <2>2, StaysSane, Zenon
<1>11. CASE state = "Accepted" /\ Greet(m)
  <2>1. \/ Refuse(<<5, Invalid>>)
        \/ /\ Tell(<<5, a>>)
           /\ Hear([kind |-> "greeting", method |-> a])
           /\ state' \in {"AuthRequested", "Authenticated", "over"}
    BY <1>6, <1>11 DEF Greet, Goto
  <2>2. CASE Refuse(<<5, Invalid>>)
    BY <1>7, <1>8, <1>9, <2>2
  <2>3. CASE /\ Tell(<<5, a>>)
             /\ Hear([kind |-> "greeting", method |-> a])
             /\ state' \in {"AuthRequested", "Authenticated", "over"}
    <3>1. [kind |-> "greeting", method |-> a] \in Understood
      BY DEF Understood
    <3>2. /\ \E d \in Understood : heard' = Append(heard, d)
          /\ \E r \in Seq(Octets) : said' = Append(said, r)
          /\ told' \in BOOLEAN
      BY <1>7, <1>8, <2>3, <3>1, Zenon DEF Tell, Hear
    <3>3. GoesOn
      BY <1>11, <2>3, Zenon DEF GoesOn
    <3>4. QED
      BY <1>5, <3>2, <3>3, StaysSane, Zenon
  <2>4. QED
    BY <2>1, <2>2, <2>3
<1>12. CASE state = "AuthRequested" /\ HandleAuth(m, n)
  <2> DEFINE d == [kind |-> "auth", username |-> Slice(m, 2, m[1]),
                   password |-> Slice(m, 3 + m[1], m[2 + m[1]])]
  <2>1. \/ Goto("over") /\ Silent /\ heard' = heard
        \/ Refuse(<<5, 255>>)
        \/ Tell(<<5, 0>>) /\ Hear(d) /\ Goto("Authenticated")
    BY <1>12, Zenon DEF HandleAuth
  <2>2. CASE Tell(<<5, 0>>) /\ Hear(d) /\ Goto("Authenticated")
    <3>1. d \in Understood
      BY <1>4, LoginTyped
    <3>2. /\ \E x \in Understood : heard' = Append(heard, x)
          /\ \E r \in Seq(Octets) : said' = Append(said, r)
          /\ told' \in BOOLEAN
      BY <1>7, <1>8, <2>2, <3>1, Zenon DEF Tell, Hear
    <3>3. GoesOn
      BY <1>12, <2>2, Zenon DEF GoesOn, Goto
    <3>4. QED
      BY <1>5, <3>2, <3>3, StaysSane, Zenon
  <2>3. QED
    BY <1>7, <1>8, <1>9, <1>10, <2>1, <2>2
<1>13. CASE state = "Authenticated" /\ Request(m, g)
  <2>1. \/ \E reply \in {7, 8} : RefuseRequest(m, g, reply)
        \/ KnownType(m) /\ Hear(Target(m)) /\ Goto("Working") /\ Silent
    BY <1>13 DEF Request
  <2>2. CASE \E reply \in {7, 8} : RefuseRequest(m, g, reply)
    <3>1. PICK reply \in {7, 8} : Refuse(Refused(m, g, reply))
      BY <2>2, Zenon DEF RefuseRequest, Refused
    <3>2. Refused(m, g, reply) \in Seq(Octets)
      BY <1>4, RefusedTyped
    <3>3. QED
      BY <1>9, <3>1, <3>2
  <2>3. CASE KnownType(m) /\ Hear(Target(m)) /\ Goto("Working") /\ Silent
    <3>1. Target(m) \in Understood
      BY <1>4, <2>3, TargetTyped
    <3>2. /\ \E d \in Understood : heard' = Append(heard, d)
          /\ said' = said /\ told' \in BOOLEAN
      BY <1>1, <2>3, <3>1, Zenon DEF Silent, Hear
    <3>3. GoesOn
      BY <1>13, <2>3, Zenon DEF GoesOn, Goto
    <3>4. QED
      BY <1>5, <3>2, <3>3, StaysSane, Zenon
  <2>4. QED
    BY <2>1, <2>2, <2>3
<1>14. CASE state = "Working" /\ Goto("over") /\ Silent /\ UNCHANGED heard
  BY <1>10, <1>14
<1>15. QED
  BY <1>5, <1>11, <1>12, <1>13, <1>14

\* The reply to a request is octets, whatever the request was.
LEMMA AnswerSane ==
  ASSUME Sane, NEW g \in Garbage, NEW type \in {1, 4},
         Answer([i \in 0 .. 15 |-> 16 + i], type, 258, g)
  PROVE  Sane'
<1>1. /\ dialog' = dialog /\ params' = params /\ spoken' = spoken
      /\ stream' \in Seq(Octets) /\ heard' = heard /\ state = "Working"
      /\ whole' \in BOOLEAN
  BY Zenon DEF Answer, Sane
<1>2. PICK reply : /\ reply \in {0, 1, 3}
                   /\ Tell(Answered(g, reply, type))
                   /\ state' \in {"over", "Working", "Connected", "Associated"}
  <2> DEFINE connects == heard[Len(heard)].command = Connect
  <2>1. PICK reply \in IF connects THEN {0, 1, 3} ELSE {0} :
         /\ Tell(Answered(g, reply, type))
         /\ \/ reply = 0 /\ Goto(IF connects THEN "Connected" ELSE "Associated")
            \/ reply # 0 /\ Goto("over")
            \/ reply = 1 /\ UNCHANGED state
    BY Zenon DEF Answer, Answered
  <2>2. reply \in {0, 1, 3} /\ state' \in {"over", "Working", "Connected", "Associated"}
    BY <1>1, <2>1 DEF Goto
  <2>3. QED
    BY <2>1, <2>2, Zenon
<1>3. Answered(g, reply, type) \in Seq(Octets)
  BY <1>2, AnswerSaid
<1>4. (\E r \in Seq(Octets) : said' = Append(said, r)) /\ told' \in BOOLEAN
  BY <1>2, <1>3, Zenon DEF Tell
<1>5. QED
  BY <1>1, <1>2, <1>4, StaysSane, Zenon

\* No client can make the session forget the types of what it holds.
LEMMA NextSane ==
  ASSUME ClientsSendOctets, Sane, [Next]_vars
  PROVE  Sane'
<1>1. ASSUME Speak PROVE Sane'
  <2>1. /\ dialog' = dialog /\ params' = params /\ state' = state /\ heard' = heard
        /\ said' = said /\ told' = told
        /\ spoken' = spoken + 1 /\ spoken < Len(dialog)
        /\ stream' = stream \o Encoded(dialog[spoken + 1])
        /\ whole' \in BOOLEAN
    BY <1>1, Zenon DEF Speak
  <2>2. Len(dialog) \in Nat /\ spoken \in 0 .. Len(dialog)
    BY Zenon DEF Sane, ClientsSendOctets
  <2>3. spoken' \in 0 .. Len(dialog) /\ spoken + 1 \in 1 .. Len(dialog)
    BY <2>1, <2>2
  <2>4. Encoded(dialog[spoken + 1]) \in Seq(Octets) /\ stream \in Seq(Octets)
    BY <2>3, Zenon DEF Sane, ClientsSendOctets
  <2>5. stream' \in Seq(Octets)
    BY <2>1, <2>4, ConcatProperties, Zenon
  <2>6. QED
    BY <2>1, <2>3, <2>5, Zenon DEF Sane
<1>2. ASSUME NEW n \in 1 .. Len(stream), NEW g \in Garbage, Receive(n, g) PROVE Sane'
  BY <1>2, ReceiveSane
<1>3. ASSUME NEW type \in {AddrType.IPv4, AddrType.IPv6}, NEW g \in Garbage,
             Answer([i \in 0 .. 15 |-> 16 + i], type, 258, g)
      PROVE  Sane'
  <2>1. type \in {1, 4}
    BY DEF AddrType
  <2>2. QED
    BY <1>3, <2>1, AnswerSane
<1>4. ASSUME UNCHANGED vars PROVE Sane'
  BY <1>4, Zenon DEF vars, Sane
<1>5. QED
  BY <1>1, <1>2, <1>3, <1>4, Zenon DEF Next

\* At first nothing was said.
LEMMA InitSane == ClientsSendOctets /\ Init => Sane
<1> SUFFICES ASSUME ClientsSendOctets, Init PROVE Sane
  OBVIOUS
<1>1. /\ dialog \in Dialogs /\ params \in Params /\ spoken = 0 /\ stream = <<>>
      /\ state = "Accepted" /\ heard = <<>> /\ said = <<>> /\ told = TRUE
      /\ whole = TRUE
  BY Zenon DEF Init
<1>2. Len(dialog) \in Nat
  BY <1>1, Zenon DEF ClientsSendOctets
<1>3. <<>> \in Seq(Octets) /\ <<>> \in Seq(Understood) /\ <<>> \in Seq(Seq(Octets))
      /\ Len(<<>>) = 0
  OBVIOUS
<1>4. QED
  BY <1>1, <1>2, <1>3 DEF Sane, States
-----------------------------------------------------------------------------
(* The theorems *)

\* The invariant holds at first,
LEMMA InitInv == ClientsWellSpoken /\ Init => IInv
  BY InitHearing, Zenon DEF IInv

\* and every step keeps it.
LEMMA StepInv ==
  ASSUME ClientsWellSpoken, IInv, [Next]_vars
  PROVE  IInv'
<1> SUFFICES ASSUME whole' PROVE Hearing' /\ Speech'
  BY Zenon DEF IInv
<1>0. whole
  BY Zenon DEF Next, Speak, Receive, Answer, vars
<1>1. Hearing /\ Speech
  BY <1>0, Zenon DEF IInv
<1>2. ASSUME Speak PROVE Hearing' /\ Speech'
  <2>1. Hearing'
    BY <1>1, <1>2, SpeakHearing, Zenon
  <2>2. said' = said /\ state # "over"
    BY <1>2, Zenon DEF Speak
  <2>3. Speech'
    BY <1>1, <2>2, SaysNothing
  <2>4. QED
    BY <2>1, <2>3
<1>3. ASSUME NEW n \in 1 .. Len(stream), NEW g \in Garbage, Receive(n, g)
      PROVE  Hearing' /\ Speech'
  <2>1. \/ state = "Accepted" \/ state = "AuthRequested"
        \/ state = "Authenticated" \/ state = "Working"
    BY <1>1, <1>3, ReceivesWhole, Zenon
  <2>2. QED
    BY <1>1, <1>3, <2>1, GreetStep, AuthStep, RequestStep, WorkingStep
<1>4. ASSUME NEW type \in {AddrType.IPv4, AddrType.IPv6}, NEW g \in Garbage,
             Answer([i \in 0 .. 15 |-> 16 + i], type, 258, g)
      PROVE  Hearing' /\ Speech'
  <2>1. type \in {1, 4}
    BY DEF AddrType
  <2>2. QED
    BY <1>1, <1>4, <2>1, AnswerStep
<1>5. ASSUME UNCHANGED vars PROVE Hearing' /\ Speech'
  <2>1. /\ dialog' = dialog /\ params' = params /\ spoken' = spoken /\ stream' = stream
        /\ state' = state /\ heard' = heard /\ said' = said /\ told' = told
    BY <1>5, Zenon DEF vars
  <2>2. Hearing'
    BY <1>1, <2>1, Zenon DEF Hearing, Typed, UnderWay, InTurn, Stages, Before,
       HeardAsSent, RefusedForReason, Acceptable, Meaning
  <2>3. Speech'
    BY <1>1, <2>1, Zenon DEF Speech, Replies
  <2>4. QED
    BY <2>2, <2>3
<1>6. QED
  BY <1>2, <1>3, <1>4, <1>5, Zenon DEF Next, IInv

\* For clients that say what RFC 1928 and RFC 1929 let them say, the parts of the
\* invariant hold until a recv() returns less than one message or more: the session
\* takes the messages in turn, and its _state tells how many it took.
THEOREM InvHolds == ClientsWellSpoken /\ Spec => []IInv
<1>1. ClientsWellSpoken /\ Init => IInv
  BY InitInv
<1>2. ClientsWellSpoken /\ IInv /\ [Next]_vars => IInv'
  BY StepInv
<1>3. ClientsWellSpoken => []ClientsWellSpoken
  <2>1. ClientsWellSpoken => ClientsWellSpoken'
    BY Zenon DEF ClientsWellSpoken
  <2>2. QED
    BY <2>1, PTL
<1>4. QED
  BY <1>1, <1>2, <1>3, PTL DEF Spec

\* Whatever octets a client sends, in whatever segments they arrive: a length that
\* leads behind the message, or a type that is not one, makes the session read and
\* copy nothing but octets of its two buffers, of which 513 and 262 are enough. What
\* it understands is credentials or a request, and what it answers is octets.
THEOREM SaneHolds == ClientsSendOctets /\ Spec => []Sane
<1>1. ClientsSendOctets /\ Init => Sane
  BY InitSane
<1>2. ClientsSendOctets /\ Sane /\ [Next]_vars => Sane'
  BY NextSane
<1>3. ClientsSendOctets => []ClientsSendOctets
  <2>1. ClientsSendOctets => ClientsSendOctets'
    BY Zenon DEF ClientsSendOctets
  <2>2. QED
    BY <2>1, PTL
<1>4. QED
  BY <1>1, <1>2, <1>3, PTL DEF Spec

\* The variables have their types, for any client.
THEOREM HandshakeTypeCorrect == ClientsSendOctets /\ Spec => []TypeOK
<1>1. Sane => TypeOK
  BY Zenon DEF Sane, TypeOK
<1>2. QED
  BY <1>1, SaneHolds, PTL

\* Whatever a client's credentials, addresses and ports are, if each message is
\* received by one recv(), get_username(),
\* get_password(), get_address() and get_port() read those that it wrote; what lies
\* behind the octets that were received never counts.
THEOREM HeardAsSentHolds == ClientsWellSpoken /\ Spec => []HeardAsSent
<1>1. IInv => HeardAsSent
  BY Zenon DEF IInv, Hearing, HeardAsSent
<1>2. QED
  BY <1>1, InvHolds, PTL

\* A session that got each message by one recv() and ends while its client listens
\* had a reason in the message that was due: the method, the credentials, the
\* command or the type of the address; never the length of a text, up to 255.
THEOREM RefusedForReasonHolds == ClientsWellSpoken /\ Spec => []RefusedForReason
<1>1. IInv => RefusedForReason
  BY Zenon DEF IInv, Hearing, RefusedForReason
<1>2. QED
  BY <1>1, InvHolds, PTL

\* Whatever address send_reply() is given, a name of up to 255 octets included, the
\* reply fits the buffer of 262 octets and has the length of its address, and a
\* refusal repeats the address and the port of the request.
THEOREM RepliesWellFormedHolds == ClientsWellSpoken /\ Spec => []RepliesWellFormed
<1>1. IInv => RepliesWellFormed
  <2>1. SUFFICES ASSUME IInv, whole, NEW i \in DOMAIN said
                 PROVE  LET r == said[i]
                            e == Encoded(dialog[spoken])
                        IN \/ Len(r) = 2
                           \/ Len(r) = 3 /\ dialog[spoken].type \notin {1, 3, 4}
                           \/ /\ Len(r) <= ReplySize
                              /\ r[1] = 5
                              /\ r[4] \in {1, 3, 4}
                              /\ Len(r) = 6 + CASE r[4] = 1 -> 4 [] r[4] = 4 -> 16
                                                [] OTHER -> 1 + r[5]
                              /\ r[2] \in {7, 8} => SubSeq(r, 4, Len(r)) = SubSeq(e, 4, Len(e))
                              /\ r[2] \in {0, 1, 3} =>
                                    /\ SubSeq(r, Len(r) - 1, Len(r)) = <<1, 2>>
                                    /\ \A k \in 5 .. Len(r) - 2 : r[k] = 11 + k
    BY Zenon DEF RepliesWellFormed
  <2>2. PICK r : r = said[i]
    OBVIOUS
  <2>3. Len(r) = 2 \/ IsAnswer(r) \/ IsRefusal(r, dialog[spoken])
    BY <2>1, <2>2, Zenon DEF IInv, Speech, Replies
  <2>4. CASE IsAnswer(r)
    <3>1. r[2] \notin {7, 8}
      BY <2>4 DEF IsAnswer
    <3>2. QED
      BY <2>2, <2>4, <3>1, Zenon DEF IsAnswer, WellFormed
  <2>5. CASE IsRefusal(r, dialog[spoken])
    <3>1. r[2] \notin {0, 1, 3}
      BY <2>5 DEF IsRefusal
    <3>2. QED
      BY <2>2, <2>5, <3>1, Zenon DEF IsRefusal, WellFormed
  <2>6. QED
    BY <2>2, <2>3, <2>4, <2>5, Zenon
<1>2. QED
  BY <1>1, InvHolds, PTL
=============================================================================
