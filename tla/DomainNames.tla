---------------------------- MODULE DomainNames ----------------------------
(***************************************************************************)
(* Domain names in DNS messages as RFC 1035 defines them, spelled as in    *)
(* dnslib: the reference its codec is checked against.  A message is a     *)
(* sequence of octets, a position counts from 0.                           *)
(***************************************************************************)
EXTENDS Integers, Sequences

\* The labels end at p, with a zero octet.
EndsAt(m, p) == p < Len(m) /\ m[p + 1] = 0

\* A label no longer than max is at p, inside the message.
HasLabel(m, max, p) ==
    p < Len(m) /\ m[p + 1] \in 1 .. max /\ p + 1 + m[p + 1] <= Len(m)

LabelOf(m, p) == SubSeq(m, p + 2, p + 1 + m[p + 1])
BehindLabel(m, p) == p + 1 + m[p + 1]

\* A link is at p, inside the message: two bits set, then 14 bits of position.
HasLink(m, p) == p + 2 <= Len(m) /\ m[p + 1] >= 192

LinkedTo(m, p) == (m[p + 1] % 64) * 256 + m[p + 2]

\* A label and the text of what is behind it: a dot follows the label, unless
\* the end of the labels does.
Labelled(m, p, text) ==
    IF EndsAt(m, BehindLabel(m, p)) THEN LabelOf(m, p)
    ELSE LabelOf(m, p) \o <<46>> \o text

\* The name at p, its text and the position behind it, as a set of at most one,
\* if names[<<k - 1, q>>] is the name at q for every q.
NamesFrom(m, max, names, k, p) ==
    IF k = 0 THEN {}
    ELSE IF EndsAt(m, p) THEN {[text |-> <<>>, next |-> p + 1]}
    ELSE IF HasLabel(m, max, p) THEN
         {[text |-> Labelled(m, p, rest.text), next |-> rest.next] :
             rest \in names[<<k - 1, BehindLabel(m, p)>>]}
    ELSE IF HasLink(m, p) THEN
         {[text |-> there.text, next |-> p + 2] :
             there \in names[<<k - 1, LinkedTo(m, p)>>]}
    ELSE {}

\* The name at x[2] which takes at most x[1] labels, links and ends to read.  If
\* it takes more of them than the message has octets, it meets one of them
\* twice, and has no end.
NamesWithin(m, max) ==
    LET names[x \in (0 .. Len(m) + 1) \X Nat] ==
            NamesFrom(m, max, names, x[1], x[2])
    IN  names

NamesAt(m, max, p) == NamesWithin(m, max)[<<Len(m) + 1, p>>]
=============================================================================
