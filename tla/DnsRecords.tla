----------------------------- MODULE DnsRecords -----------------------------
(***************************************************************************)
(* Resource records of dnslib on the wire.  The decode() and encode()      *)
(* functions of each class of record data are the members they read and    *)
(* write, in order, each as one kind of field.                             *)
(***************************************************************************)
EXTENDS DnsReader, DnsTypes, SequencesExt, TLC

\* decode() and encode() of each class
WithName == [decode |-> << <<"name", "name">> >>,
             encode |-> << <<"name", "name">> >>]
HINFO == [decode |-> << <<"string", "cpu">>, <<"string", "os">> >>,
          encode |-> << <<"string", "cpu">>, <<"string", "os">> >>]
MINFO == [decode |-> << <<"name", "rMailBx">>, <<"name", "mailBx">> >>,
          encode |-> << <<"name", "rMailBx">>, <<"name", "mailBx">> >>]
MX == [decode |-> << <<"short", "preference">>, <<"name", "exchange">> >>,
       encode |-> << <<"short", "preference">>, <<"name", "exchange">> >>]
NULL == [decode |-> << <<"all", "data">> >>,
         encode |-> << <<"all", "data">> >>]
SOA ==
    LET numbers == << <<"long", "serial">>, <<"long", "refresh">>,
                      <<"long", "retry">>, <<"long", "expire">>,
                      <<"long", "minimum">> >>
    IN [decode |-> << <<"name", "mName">>, <<"name", "rName">> >> \o numbers,
        encode |-> << <<"name", "mName">>, <<"name", "rName">> >> \o numbers]
TXT == [decode |-> << <<"strings", "texts">> >>,
        encode |-> << <<"strings", "texts">> >>]
A == [decode |-> << <<"four", "addr">> >>,
      encode |-> << <<"four", "addr">> >>]
WKS == [decode |-> << <<"four", "addr">>, <<"octet", "protocol">>, <<"all", "bitmap">> >>,
        encode |-> << <<"four", "addr">>, <<"octet", "protocol">>, <<"all", "bitmap">> >>]
AAAA == [decode |-> << <<"sixteen", "addr">> >>,
         encode |-> << <<"sixteen", "addr">> >>]
NAPTR ==
    LET members == << <<"short", "order">>, <<"short", "preference">>,
                      <<"string", "flags">>, <<"string", "services">>,
                      <<"string", "regExp">>, <<"plain", "replacement">> >>
    IN [decode |-> members, encode |-> members]
SRV ==
    LET numbers == << <<"short", "priority">>, <<"short", "weight">>,
                      <<"short", "port">> >>
    IN [decode |-> Append(numbers, <<"target", "target">>),
        encode |-> Append(numbers, <<"string", "target">>)]

\* The class of the data that ResourceRecord::decode() makes for a type: RDataA
\* for a WKS record, RDataNULL for an unknown one
ClassOf(type) ==
    LET T == RDataType IN
    CASE type \in {T.CNAME, T.MB, T.MD, T.MF, T.MG, T.MR, T.NS, T.PTR} -> WithName
      [] type = T.HINFO -> HINFO
      [] type = T.MINFO -> MINFO
      [] type = T.MX    -> MX
      [] type = T.SOA   -> SOA
      [] type = T.TXT   -> TXT
      [] type \in {T.A, T.WKS} -> A
      [] type = T.AAAA  -> AAAA
      [] type = T.NAPTR -> NAPTR
      [] type = T.SRV   -> SRV
      [] OTHER -> NULL

\* The class of the data in a record that was built
BuiltClassOf(type) == IF type = RDataType.WKS THEN WKS ELSE ClassOf(type)

-----------------------------------------------------------------------------
(* Writing *)

put32bits(v) == Big(v.high, 2) \o Big(v.low, 2)

\* What one member adds to the octets
FieldOctets(octets, kind, v) ==
    CASE kind = "name"    -> DomainName(octets, v, TRUE)
      [] kind = "plain"   -> DomainName(octets, v, FALSE)
      [] kind = "string"  -> CharacterString(v)
      [] kind = "strings" -> FlattenSeq([i \in DOMAIN v |-> CharacterString(v[i])])
      [] kind = "octet"   -> Big(v, 1)
      [] kind = "short"   -> Big(v, 2)
      [] kind = "long"    -> put32bits(v)
      [] OTHER -> v

PutMembers(octets, rdata, members) ==
    FoldLeft(LAMBDA o, f : o \o FieldOctets(o, f[1], rdata[f[2]]), octets, members)

\* Mutated form: the two octets of the length count as data.
PutDataLong(octets, rr) ==
    IF rr.rdata = NoData THEN octets \o Big(0, 2)
    ELSE LET all  == PutMembers(octets \o Big(0, 2), rr.rdata,
                                BuiltClassOf(rr.type).encode)
             size == Big(Len(all) - Len(octets), 2)
         IN octets \o size \o SubSeq(all, Len(octets) + 3, Len(all))

\* The length of the data, and the data; the length is known last.
PutData(octets, rr) ==
    IF rr.rdata = NoData THEN octets \o Big(0, 2)
    ELSE LET all  == PutMembers(octets \o Big(0, 2), rr.rdata,
                                BuiltClassOf(rr.type).encode)
             size == Big(Len(all) - Len(octets) - 2, 2)
         IN octets \o size \o SubSeq(all, Len(octets) + 3, Len(all))

\* ResourceRecord::encode(): the octets so far with those of the record
PutRecord(octets, rr) ==
    PutData(octets \o DomainName(octets, rr.name, TRUE) \o Big(rr.type, 2)
                   \o Big(rr.class, 2) \o put32bits(rr.ttl),
            rr)

-----------------------------------------------------------------------------
(* Reading *)

\* RDataSRV::decode(): the strings with a dot behind each, without the last two
\* characters.  There may be none.
WithoutLastTwo(text, next) ==
    IF Len(text) < 2 THEN [Thrown EXCEPT !.undefined = TRUE]
    ELSE Got(SubSeq(text, 1, Len(text) - 2), next)

Target(r) ==
    IF ~r.ok THEN r
    ELSE WithoutLastTwo(FlattenSeq([i \in DOMAIN r.value |-> Append(r.value[i], Dot)]),
                        r.next)

\* size - 6 is unsigned: less than six octets are more than there can be.
TargetEnd(octets, p, size) == IF size < 6 THEN Len(octets) + 1 ELSE p + size - 6

\* One member of data of size octets
Field(octets, kind, p, size) ==
    CASE kind = "name"    -> getDnsDomainName(octets, p, TRUE)
      [] kind = "plain"   -> getDnsDomainName(octets, p, FALSE)
      [] kind = "string"  -> getDnsCharacterString(octets, p)
      [] kind = "strings" -> getStrings(octets, p, p + size)
      [] kind = "target"  -> Target(getStrings(octets, p, TargetEnd(octets, p, size)))
      [] kind = "short"   -> get16bits(octets, p)
      [] kind = "long"    -> get32bits(octets, p)
      [] kind = "four"    -> getBytes(octets, p, 4)
      [] kind = "sixteen" -> getBytes(octets, p, 16)
      [] OTHER -> getBytes(octets, p, size)

\* The members read so far with one more
WithMember(r, member, field) ==
    IF field.ok THEN Got(r.value @@ (member :> field.value), field.next)
    ELSE field

\* Members, from position p on
Members(octets, p, size, members) ==
    FoldLeft(LAMBDA r, m :
                 IF ~r.ok THEN r
                 ELSE WithMember(r, m[2], Field(octets, m[1], r.next, size)),
             Got(<<>>, p), members)

\* What was decoded at p must be size octets.
OfSize(data, p, size) ==
    IF data.ok /\ data.next - p # size THEN Thrown ELSE data

DataAt(octets, p, type, size) ==
    IF size = 0 THEN Got(NoData, p)
    ELSE OfSize(Members(octets, p, size, ClassOf(type).decode), p, size)

RecordHead == << <<"name", "name">>, <<"short", "type">>, <<"short", "class">>,
                 <<"long", "ttl">>, <<"short", "size">> >>

Record(h, data) ==
    IF ~data.ok THEN data
    ELSE Got([name |-> h.name, type |-> h.type, class |-> h.class,
              ttl |-> h.ttl, rdata |-> data.value], data.next)

Completed(octets, head) ==
    IF ~head.ok THEN head
    ELSE Record(head.value,
                DataAt(octets, head.next, head.value.type, head.value.size))

\* ResourceRecord::decode()
RecordAt(octets, p) == Completed(octets, Members(octets, p, 0, RecordHead))
=============================================================================
