----------------------------- MODULE DnsBuffer -----------------------------
(***************************************************************************)
(* What the put functions of dnslib's Buffer append to the octets written  *)
(* so far.  Whether they fit is asked before every octet, so a series of   *)
(* puts fails exactly if what it adds up to does not fit.                  *)
(***************************************************************************)
EXTENDS Integers, Sequences, FiniteSetsExt

CONSTANTS
    MaxLabel,       \* MAX_LABEL_LEN, 63
    MaxDomain       \* MAX_DOMAIN_LEN, 255

ASSUME LengthAssumption == MaxLabel \in 1 .. 63 /\ MaxDomain \in 1 .. 255

Octets == 0 .. 255
Dot    == 46

\* put8bits(), put16bits() and put32bits(): the n lowest octets of v
Big(v, n) == [i \in 1 .. n |-> (v \div 256 ^ (n - i)) % 256]

\* putDnsCharacterString()
CharacterString(text) == Big(Len(text), 1) \o text

\* putDnsDomainName() lays a name out in the array domain, whose place p holds
\* the character before place p of the name, or the length of the label that
\* begins there.
BeginsLabel(name, p) == p = 1 \/ name[p - 1] = Dot

LabelLen(name, p) ==
    Min({i \in p .. Len(name) : name[i] = Dot} \cup {Len(name) + 1}) - p

EndsInDot(name) == name # <<>> /\ name[Len(name)] = Dot

\* The places of the labels; a dot at the end begins no label.
Places(name) == IF EndsInDot(name) THEN Len(name) ELSE Len(name) + 1

Labels(name) ==
    [p \in 1 .. Places(name) |->
        IF BeginsLabel(name, p) THEN LabelLen(name, p) ELSE name[p - 1]]

\* The array up to domainPos: without the final zero if a dot ends the name
Layout(name) == IF EndsInDot(name) THEN Labels(name) ELSE Labels(name) \o <<0>>

Refuses(name) ==
    \/ Len(name) > MaxDomain
    \/ \E p \in 1 .. Places(name) :
          BeginsLabel(name, p) /\ LabelLen(name, p) > MaxLabel

\* Mutated form: what precedes the final zero is looked for.
TipsOfLabels(octets, name, p) ==
    LET sub  == SubSeq(Labels(name), p, Places(name))
        seen == octets \o SubSeq(Layout(name), 1, p - 1)
    IN {q \in 1 .. Len(seen) - Len(sub) : SubSeq(seen, q, q + Len(sub) - 1) = sub}

\* Where the rest of the name from place p is found in what was written before
\* it; the last place where it could be is not looked at.
Tips(octets, name, p) ==
    LET sub  == SubSeq(Layout(name), p, Len(Layout(name)))
        seen == octets \o SubSeq(Layout(name), 1, p - 1)
    IN {q \in 1 .. Len(seen) - Len(sub) : SubSeq(seen, q, q + Len(sub) - 1) = sub}

\* The link to the octet at place q, counted from zero
Link(q) == Big(49152 + q - 1, 2)

\* putDnsDomainName(): labels, up to the first whose rest was written before
DomainName(octets, name, compressionAllowed) ==
    LET found == {p \in 1 .. Places(name) :
                      BeginsLabel(name, p) /\ Tips(octets, name, p) # {}}
    IN IF name = <<>> THEN <<0>>
       ELSE IF ~compressionAllowed THEN Layout(name)
       ELSE IF found = {} THEN Labels(name) \o <<0>>
       ELSE LET p == Min(found) IN
            SubSeq(Labels(name), 1, p - 1) \o Link(Min(Tips(octets, name, p)))
=============================================================================
