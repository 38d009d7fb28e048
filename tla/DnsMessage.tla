----------------------------- MODULE DnsMessage -----------------------------
(***************************************************************************)
(* A DNS message on its way: a server encodes it, the network delivers it  *)
(* whole or damaged, and get_response() of a DnsSocket decodes it and      *)
(* takes the addresses out.  One step is one section entry.                *)
(***************************************************************************)
EXTENDS DnsRecords

CONSTANTS
    Messages,       \* messages that are sent
    Marks,          \* octets that damage puts in the place of others
    Capacity,       \* size of the buffer that encode() is given
    MaxMessage      \* MAX_MSG_LEN, 512

ASSUME MessageAssumption ==
    /\ Messages \subseteq Message
    /\ Marks \subseteq Octets
    /\ Capacity \in Nat /\ Capacity >= 12 /\ MaxMessage \in Nat

VARIABLES
    sent,       \* the message that was encoded
    octets,     \* what was written, or received
    whole,      \* history: nothing happened to the octets on their way
    got,        \* the message as far as it is decoded
    left,       \* entries that are still to come, by section
    pos,        \* position of the decoder
    addresses,  \* what get_response() has taken out
    stage       \* "encode", "decode", "answer", "done", or how it failed

vars == <<sent, octets, whole, got, left, pos, addresses, stage>>

Sections == <<"queries", "answers", "authorities", "additional">>

Failures == {"full", "thrown", "undefined", "crash"}

TypeOK ==
    /\ sent \in Messages
    /\ octets \in Seq(Octets)
    /\ whole \in BOOLEAN
    /\ got \in Message
    /\ left \in [1 .. 4 -> Short]
    /\ pos \in 0 .. Len(octets)
    /\ addresses \in Seq([1 .. 4 -> Octets] \cup [1 .. 16 -> Octets])
    /\ stage \in {"encode", "decode", "answer", "done"} \cup Failures

-----------------------------------------------------------------------------
(* Message::encode() *)

Flags(m) == m.qr * 2 ^ 15 + m.opCode * 2 ^ 11 + m.aa * 2 ^ 10 + m.tc * 2 ^ 9
            + m.rd * 2 ^ 8 + m.ra * 2 ^ 7 + m.rCode

HeaderOctets(m) ==
    Big(m.id, 2) \o Big(Flags(m), 2) \o
        FlattenSeq([i \in 1 .. 4 |-> Big(Len(m[Sections[i]]), 2)])

Init ==
    /\ sent \in Messages
    /\ octets = HeaderOctets(sent)
    /\ whole = TRUE
    /\ got = EmptyMessage
    /\ left = [i \in 1 .. 4 |-> Len(sent[Sections[i]])]
    /\ pos = 0
    /\ addresses = <<>>
    /\ stage = "encode"

\* The section of the next entry
Section == CHOOSE i \in 1 .. 4 : left[i] > 0 /\ \A j \in 1 .. i - 1 : left[j] = 0

More == \E i \in 1 .. 4 : left[i] > 0

Entry ==
    LET entries == sent[Sections[Section]] IN
    entries[Len(entries) - left[Section] + 1]

PutQuery(o, q) ==
    o \o DomainName(o, q.qName, TRUE) \o Big(q.qType, 2) \o Big(q.qClass, 2)

\* The names of an entry
NamesOf(entry) ==
    IF Section = 1 THEN {entry.qName}
    ELSE {entry.name} \cup
         IF entry.rdata = NoData THEN {}
         ELSE LET members == BuiltClassOf(entry.type).encode IN
              {entry.rdata[members[i][2]] :
                  i \in {j \in DOMAIN members : members[j][1] \in {"name", "plain"}}}

RefusesName(entry) == \E name \in NamesOf(entry) : Refuses(name)

\* An entry that does not fit, or that data fills the buffer to its end
Full(o) ==
    \/ Len(o) > Capacity
    \/ Len(o) = Capacity /\ Section > 1 /\ Entry.rdata # NoData

Encode ==
    /\ stage = "encode"
    /\ More
    /\ LET o == IF Section = 1 THEN PutQuery(octets, Entry)
                ELSE PutRecord(octets, Entry)
       IN IF RefusesName(Entry) \/ Full(o)
          THEN /\ stage' = IF RefusesName(Entry) THEN "thrown" ELSE "full"
               /\ UNCHANGED <<octets, left>>
          ELSE /\ octets' = o
               /\ left' = [left EXCEPT ![Section] = @ - 1]
               /\ UNCHANGED stage
    /\ UNCHANGED <<sent, whole, got, pos, addresses>>

-----------------------------------------------------------------------------
(* The network *)

Arrive(o, intact) ==
    /\ stage = "encode"
    /\ ~More
    /\ octets' = o
    /\ whole' = intact
    /\ stage' = "decode"
    /\ UNCHANGED <<sent, got, left, pos, addresses>>

Deliver  == Arrive(octets, TRUE)
Truncate == \E n \in 1 .. Len(octets) - 1 : Arrive(SubSeq(octets, 1, n), FALSE)
Extend   == \E v \in Marks : Arrive(Append(octets, v), FALSE)
Damage   == \E i \in DOMAIN octets, v \in Marks :
                octets[i] # v /\ Arrive([octets EXCEPT ![i] = v], FALSE)

-----------------------------------------------------------------------------
(* Message::decode() *)

Throw(undefined) ==
    /\ stage' = IF undefined THEN "undefined" ELSE "thrown"
    /\ UNCHANGED <<got, left, pos>>

Words == [i \in 0 .. 5 |-> Short16(octets, 2 * i)]

FlagBit(n) == (Words[1] \div 2 ^ n) % 2

\* The header; the response code is not read.
DecodeHeader ==
    /\ stage = "decode"
    /\ pos = 0
    /\ IF Len(octets) > MaxMessage \/ Len(octets) < 12 THEN Throw(FALSE)
       ELSE /\ got' = [EmptyMessage EXCEPT
                          !.id = Words[0],      !.qr = FlagBit(15),
                          !.opCode = (Words[1] \div 2 ^ 11) % 16,
                          !.aa = FlagBit(10),   !.tc = FlagBit(9),
                          !.rd = FlagBit(8),    !.ra = FlagBit(7)]
            /\ left' = [i \in 1 .. 4 |-> Words[i + 1]]
            /\ pos' = 12
            /\ UNCHANGED stage
    /\ UNCHANGED <<sent, octets, whole, addresses>>

Question == << <<"name", "qName">>, <<"short", "qType">>, <<"short", "qClass">> >>

Take(entry) ==
    /\ got' = [got EXCEPT ![Sections[Section]] = Append(@, entry)]
    /\ left' = [left EXCEPT ![Section] = @ - 1]

Decoded(entry) ==
    IF ~entry.ok THEN Throw(entry.undefined)
    ELSE /\ Take(entry.value)
         /\ pos' = entry.next
         /\ UNCHANGED stage

DecodeEntry ==
    /\ stage = "decode"
    /\ pos > 0
    /\ More
    /\ Decoded(IF Section = 1 THEN Members(octets, pos, 0, Question)
               ELSE RecordAt(octets, pos))
    /\ UNCHANGED <<sent, octets, whole, addresses>>

DecodeEnd ==
    /\ stage = "decode"
    /\ pos > 0
    /\ ~More
    /\ stage' = IF pos = Len(octets) THEN "answer" ELSE "thrown"
    /\ UNCHANGED <<sent, octets, whole, got, left, pos, addresses>>

-----------------------------------------------------------------------------
(* DnsSocket::get_response() *)

\* Mutated form: the class is not looked at.
IsAddressOfAnyClass(rr) == rr.type \in {RDataType.A, RDataType.AAAA}

IsAddress(rr) == rr.class = CLASS_IN /\ rr.type \in {RDataType.A, RDataType.AAAA}

\* The addresses of the answers, unless one has no data to point at.
GetResponse ==
    LET found == SelectSeq(got.answers, IsAddress) IN
    /\ stage = "answer"
    /\ IF \E i \in DOMAIN found : found[i].rdata = NoData
       THEN stage' = "crash" /\ UNCHANGED addresses
       ELSE /\ stage' = "done"
            /\ addresses' = [i \in DOMAIN found |-> found[i].rdata.addr]
    /\ UNCHANGED <<sent, octets, whole, got, left, pos>>

Next ==
    \/ Encode
    \/ Deliver \/ Truncate \/ Extend \/ Damage
    \/ DecodeHeader \/ DecodeEntry \/ DecodeEnd
    \/ GetResponse

Spec == Init /\ [][Next]_vars

-----------------------------------------------------------------------------
HasType(m, types) ==
    \E s \in {"answers", "authorities", "additional"} :
        \E i \in DOMAIN m[s] : m[s][i].type \in types /\ m[s][i].rdata # NoData

\* What one dnslib encodes, another decodes: every member of every record, in
\* its section, also where names are links.  Not so for the response code, and
\* for the target of an SRV record, which is written as one string and read as
\* labels.
RoundTrip ==
    (stage = "done" /\ whole /\ ~HasType(sent, {RDataType.SRV})) =>
        got = [sent EXCEPT !.rCode = 0]

\* Whatever arrives, get_response() ends the process by a bad pointer only for
\* an address record that came without data, and decode() meets an empty
\* string only in an SRV record without a target.  A message that arrives
\* whole is refused only if it holds an SRV or WKS record, or ends in a link.
FailsForReason ==
    /\ stage = "crash" =>
          \E s \in {"answers", "authorities", "additional"} :
              \E i \in DOMAIN sent[s] : sent[s][i].rdata = NoData
    /\ (stage = "undefined" /\ whole) =>
          \E s \in {"answers", "authorities", "additional"} :
              \E i \in DOMAIN sent[s] :
                  /\ sent[s][i].type = RDataType.SRV
                  /\ sent[s][i].rdata # NoData
                  /\ sent[s][i].rdata.target = <<>>
    /\ (stage = "thrown" /\ whole /\ pos > 0) =>
          \/ HasType(sent, {RDataType.SRV, RDataType.WKS})
          \/ octets[Len(octets) - 1] >= 192

\* The session gets the addresses that were in the answers, in their order.
AddressesAsSent ==
    (stage = "done" /\ whole) =>
        addresses = LET Internet(rr) == rr.class = 1 /\ rr.type \in {1, 28}
                        found == SelectSeq(sent.answers, Internet)
                    IN [i \in DOMAIN found |-> found[i].rdata.addr]

\* "RCODE  Response code - this 4 bit field is set as part of responses": the
\* code that a server set is in the message that was decoded.
ResponseCodeKept == (stage = "done" /\ whole) => got.rCode = sent.rCode
=============================================================================
