----------------------------- MODULE DnsReader -----------------------------
(***************************************************************************)
(* What the get functions of dnslib's Buffer yield: the value read at a    *)
(* position, counted from 0, and the position behind it; or a failure.     *)
(***************************************************************************)
EXTENDS DnsBuffer

Thrown == [ok |-> FALSE, undefined |-> FALSE, value |-> <<>>, next |-> 0]

Got(value, next) ==
    [ok |-> TRUE, undefined |-> FALSE, value |-> value, next |-> next]

\* getBytes()
getBytes(octets, p, n) ==
    IF p + n > Len(octets) THEN Thrown
    ELSE Got(SubSeq(octets, p + 1, p + n), p + n)

\* The number in two octets
Short16(octets, p) == octets[p + 1] * 256 + octets[p + 2]

get16bits(octets, p) ==
    IF p + 2 > Len(octets) THEN Thrown ELSE Got(Short16(octets, p), p + 2)

get32bits(octets, p) ==
    IF p + 4 > Len(octets) THEN Thrown
    ELSE Got([high |-> Short16(octets, p), low |-> Short16(octets, p + 2)], p + 4)

getDnsCharacterString(octets, p) ==
    IF p >= Len(octets) THEN Thrown ELSE getBytes(octets, p + 1, octets[p + 1])

\* The strings read so far with one more
OneMore(r, string) ==
    IF string.ok THEN Got(Append(r.value, string.value), string.next) ELSE string

\* Character strings, one after the other, until one ends at end or behind it
RECURSIVE StringsFrom(_, _, _)

StringsFrom(octets, r, end) ==
    IF ~r.ok \/ r.next >= end THEN r
    ELSE StringsFrom(octets,
                     OneMore(r, getDnsCharacterString(octets, r.next)), end)

getStrings(octets, p, end) == StringsFrom(octets, Got(<<>>, p), end)

Joined(text, more) == IF text = <<>> THEN more ELSE text \o <<Dot>> \o more

\* setPos() back behind a link refuses the end of the buffer.
BackFromLink(octets, p, text, there) ==
    IF there.ok /\ p < Len(octets) THEN Got(Joined(text, there.value), p)
    ELSE Thrown

\* The rest of a domain name, text being what was read of it; links are the
\* places that calls for this name began at (mLinkPos).
RECURSIVE NameRest(_, _, _, _, _)

NameRest(octets, p, text, links, compressionAllowed) ==
    IF p >= Len(octets) THEN Thrown
    ELSE LET c == octets[p + 1] IN
         IF c = 0 THEN Got(text, p + 1)
         ELSE IF c < 192 THEN
            IF c > MaxLabel \/ p + 1 + c > Len(octets) THEN Thrown
            ELSE NameRest(octets, p + 1 + c,
                          Joined(text, SubSeq(octets, p + 2, p + 1 + c)),
                          links, compressionAllowed)
         ELSE IF ~compressionAllowed \/ p + 2 > Len(octets) THEN Thrown
         ELSE LET target == Short16(octets, p) % (64 * 256) IN
            IF target >= Len(octets) \/ target \in links THEN Thrown
            ELSE BackFromLink(octets, p + 2, text,
                    NameRest(octets, target, <<>>, links \cup {target}, TRUE))

NameWithinLimit(name) == IF Len(name.value) > MaxDomain THEN Thrown ELSE name

getDnsDomainName(octets, p, compressionAllowed) ==
    NameWithinLimit(NameRest(octets, p, <<>>, {p}, compressionAllowed))
=============================================================================
