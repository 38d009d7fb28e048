----------------------------- MODULE MCUdpRelay -----------------------------
(***************************************************************************)
(* Model-checking instance of UdpRelay.  Ports 258 and 513 are each        *)
(* other's swapped bytes.                                                  *)
(***************************************************************************)
EXTENDS UdpRelay

CONSTANTS client, stranger, near, far

At(h, p) == [host |-> h, port |-> p]

Hosts4 == {client, stranger, near}

Packet(from, size, type, to) ==
    [from |-> from, size |-> size, type |-> type, to |-> to]

\* Two client ports ask one remote port and its mirror image; short, empty,
\* truncated and header-only datagrams; a stranger; an unsupported address.
MCRequests ==
    {Packet(At(client, 1), 11, "IPv4", At(near, 258)),
     Packet(At(client, 2), 11, "IPv4", At(near, 258)),
     Packet(At(client, 2), 23, "IPv6", At(far, 513)),
     Packet(At(client, 1), 22, "IPv6", At(far, 7)),
     Packet(At(client, 1), 12, "IPv6", At(far, 513)),
     Packet(At(client, 2), 30, "DomainName", At(near, 258)),
     Packet(At(client, 1), 0, "other", At(near, 258)),
     Packet(At(stranger, 3), 10, "IPv4", At(near, 7)),
     Packet(At(stranger, 3), 12, "IPv6", At(near, 7))}

MCAnswers ==
    {[from |-> At(near, 258), size |-> 1],
     [from |-> At(far, 513), size |-> 1],
     [from |-> At(stranger, 7), size |-> 12],
     [from |-> At(near, 258), size |-> 0]}
=============================================================================
