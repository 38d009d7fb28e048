------------------------------ MODULE DnsTypes ------------------------------
(***************************************************************************)
(* What a DNS message of dnslib holds: the classes of message.h, qs.h and  *)
(* rr.h as sets of records, with their private members.                    *)
(***************************************************************************)
EXTENDS Integers, Sequences

Octet  == 0 .. 255
Short  == 0 .. 256 ^ 2 - 1
\* 32 bits, as two halves
Long   == [high : Short, low : Short]
Chars   == Seq(Octet)
Bit    == {0, 1}

\* eRDataType
RDataType == [
    A     |-> 1,   NS   |-> 2,   MD    |-> 3,   MF   |-> 4,   CNAME |-> 5,
    SOA   |-> 6,   MB   |-> 7,   MG    |-> 8,   MR   |-> 9,   NULL  |-> 10,
    WKS   |-> 11,  PTR  |-> 12,  HINFO |-> 13,  MINFO |-> 14, MX    |-> 15,
    TXT   |-> 16,  AAAA |-> 28,  SRV   |-> 33,  NAPTR |-> 35]

\* eClass: the one of its members that is looked at
CLASS_IN == 1

RDataWithName == [name : Chars]
RDataHINFO    == [cpu : Chars, os : Chars]
RDataMINFO    == [rMailBx : Chars, mailBx : Chars]
RDataMX       == [preference : Short, exchange : Chars]
RDataNULL     == [data : Chars]
RDataSOA      == [mName : Chars, rName : Chars, serial : Long, refresh : Long,
                  retry : Long, expire : Long, minimum : Long]
RDataTXT      == [texts : Seq(Chars)]
RDataA        == [addr : [1 .. 4 -> Octet]]
RDataWKS      == [addr : [1 .. 4 -> Octet], protocol : Octet, bitmap : Chars]
RDataAAAA     == [addr : [1 .. 16 -> Octet]]
RDataNAPTR    == [order : Short, preference : Short, flags : Chars,
                  services : Chars, regExp : Chars, replacement : Chars]
RDataSRV      == [priority : Short, weight : Short, port : Short, target : Chars]

RData ==
    RDataWithName \cup RDataHINFO \cup RDataMINFO \cup RDataMX \cup RDataNULL
    \cup RDataSOA \cup RDataTXT \cup RDataA \cup RDataWKS \cup RDataAAAA
    \cup RDataNAPTR \cup RDataSRV

\* A record without data: mRData is NULL.
NoData == [null |-> TRUE]

ResourceRecord == [name : Chars, type : Short, class : Short, ttl : Long,
                   rdata : RData \cup {NoData}]

QuerySection == [qName : Chars, qType : Short, qClass : Short]

Message == [id : Short, qr : Bit, opCode : 0 .. 15, aa : Bit, tc : Bit,
            rd : Bit, ra : Bit, rCode : 0 .. 15,
            queries     : Seq(QuerySection),
            answers     : Seq(ResourceRecord),
            authorities : Seq(ResourceRecord),
            additional  : Seq(ResourceRecord)]

\* Message()
EmptyMessage == [id |-> 0, qr |-> 0, opCode |-> 0, aa |-> 0, tc |-> 0, rd |-> 0,
                 ra |-> 0, rCode |-> 0, queries |-> <<>>, answers |-> <<>>,
                 authorities |-> <<>>, additional |-> <<>>]
=============================================================================
