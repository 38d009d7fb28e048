------------------------------ MODULE S5Message ------------------------------
(***************************************************************************)
(* S5Address and S5ReplyMessage: views of memory.  A memory m is a         *)
(* function from 0 to octets; p is where the address begins in it.         *)
(***************************************************************************)
EXTENDS Integers, Sequences

Octets  == 0 .. 255
MaxPort == 65535
Ports   == 0 .. MaxPort

AddrType == [IPv4 |-> 1, DomainName |-> 3, IPv6 |-> 4]

\* Mutated form: the length octet of a name is not counted.
get_sizeShort(m, p) ==
    CASE m[p] = AddrType.IPv4       -> 7
      [] m[p] = AddrType.IPv6       -> 19
      [] m[p] = AddrType.DomainName -> m[p + 1] + 3
      [] OTHER                      -> 0

\* Type, address and port; nothing for a type that is not known
get_size(m, p) ==
    CASE m[p] = AddrType.IPv4       -> 7
      [] m[p] = AddrType.IPv6       -> 19
      [] m[p] = AddrType.DomainName -> m[p + 1] + 4
      [] OTHER                      -> 0

\* Mutated form: four octets of any address
WidthFour(m, p, a) == IF m[p] = AddrType.DomainName THEN a[0] + 1 ELSE 4

\* The octets that set_address() copies from a, which begins with its length if
\* it is a name
Width(m, p, a) ==
    CASE m[p] = AddrType.IPv4       -> 4
      [] m[p] = AddrType.IPv6       -> 16
      [] m[p] = AddrType.DomainName -> a[0] + 1
      [] OTHER                      -> 0

get_port(m, p) ==
    IF get_size(m, p) = 0 THEN 0
    ELSE m[p + get_size(m, p) - 2] * 256 + m[p + get_size(m, p) - 1]

\* htons()
PortOctets(port) == <<port \div 256, port % 256>>

set_port(m, p, port) ==
    IF get_size(m, p) = 0 THEN m
    ELSE [m EXCEPT ![p + get_size(m, p) - 2] = PortOctets(port)[1],
                   ![p + get_size(m, p) - 1] = PortOctets(port)[2]]

CopyAddress(m, p, a) ==
    [i \in DOMAIN m |-> IF i - p - 1 \in 0 .. Width(m, p, a) - 1
                        THEN a[i - p - 1] ELSE m[i]]

\* The port stays, though a name of another length moves it.
set_address(m, p, a) ==
    IF m[p] = AddrType.DomainName
    THEN set_port(CopyAddress(m, p, a), p, get_port(m, p))
    ELSE CopyAddress(m, p, a)

\* ClientSocket::send_reply(): the third octet is never written.
Reply(memory, reply, type, a, port) ==
    LET m == set_port(set_address([memory EXCEPT ![0] = 5, ![1] = reply, ![3] = type],
                                  3, a),
                      3, port)
    IN [i \in 1 .. get_size(m, 3) + 3 |-> m[i - 1]]
=============================================================================
