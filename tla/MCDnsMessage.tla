---------------------------- MODULE MCDnsMessage ----------------------------
(***************************************************************************)
(* Model-checking instance of DnsMessage: a few records of every type.     *)
(* Numbers and characters differ wherever members could be confused.       *)
(***************************************************************************)
EXTENDS DnsMessage

a  == <<97>>
b  == <<98>>
ab == <<97, 46, 98>>
aa == <<97, 97>>

Names == {<<>>, a, ab}

T == RDataType

L(n) == [high |-> n, low |-> 258]

DataOf(type) ==
    CASE type \in {T.CNAME, T.MB, T.MD, T.MF, T.MG, T.MR, T.NS, T.PTR} ->
            [name : Names]
      [] type = T.HINFO -> [cpu : {<<>>, a}, os : {b}]
      [] type = T.MINFO -> [rMailBx : {a, ab}, mailBx : {b, ab}]
      [] type = T.MX    -> [preference : {1, 258}, exchange : Names]
      [] type = T.SOA   -> [mName : {a, ab}, rName : {b}, serial : {L(1)},
                            refresh : {L(2)}, retry : {L(3)}, expire : {L(4)},
                            minimum : {L(5)}]
      [] type = T.TXT   -> [texts : {<<a>>, <<<<>>, aa>>}]
      [] type = T.A     -> [addr : {<<1, 2, 3, 4>>}]
      [] type = T.WKS   -> [addr : {<<1, 2, 3, 4>>}, protocol : {6},
                            bitmap : {<<>>, a}]
      [] type = T.AAAA  -> [addr : {[i \in 1 .. 16 |-> i]}]
      [] type = T.NAPTR -> [order : {1}, preference : {258}, flags : {a},
                            services : {b, <<>>}, regExp : {aa},
                            replacement : {<<>>, ab}]
      [] type = T.SRV   -> [priority : {1}, weight : {2}, port : {3},
                            target : {<<>>, a, aa}]
      [] OTHER -> [data : {a, <<0, 1, 97>>}]

Types == {T[t] : t \in DOMAIN T} \cup {99}

Records(types, names) ==
    UNION {[name : names, type : {t}, class : {1}, ttl : {L(7)},
            rdata : DataOf(t) \cup {NoData}] : t \in types}

Queries == {<<>>, <<[qName |-> ab, qType |-> 1, qClass |-> 1]>>}

With(q, an, ns, ar) ==
    [EmptyMessage EXCEPT !.id = 7, !.qr = 1, !.rd = 1, !.rCode = 3,
        !.queries = q, !.answers = an, !.authorities = ns, !.additional = ar]

\* One record, of any type; in another section only if it has an address
One == {With(q, <<r>>, <<>>, <<>>) : q \in Queries, r \in Records(Types, {a})}
       \cup {With(<<>>, <<>>, <<r>>, <<s>>) :
                r \in Records({T.A}, {ab}), s \in Records({T.AAAA, T.A}, {ab})}
       \cup {With(<<>>, <<[r EXCEPT !.class = 3]>>, <<>>, <<>>) :
                r \in Records({T.A}, Names)}

\* Two answers, a name too long for a label, and a full buffer
Two == {With(<<>>, <<r, s>>, <<>>, <<>>) :
            r \in Records({T.CNAME, T.A}, {ab}),
            s \in Records({T.CNAME, T.AAAA, T.A}, {b, ab})
                  \cup Records({T.A}, {<<97, 97, 97>>})}

\* Before the data stands 1 97 0 0, which reads as the name a
Lookalike == {With(<<>>, <<[r EXCEPT !.ttl.low = 353], r>>, <<>>, <<>>) :
                 r \in Records({T.CNAME, T.MX, T.MINFO}, {b})}

MCMessages == One \cup Two \cup Lookalike
=============================================================================
