----------------------------- MODULE MCDnsName -----------------------------
(***************************************************************************)
(* Model-checking instance of DnsName.  Messages of all lengths up to      *)
(* MaxLength over a few octets: zero, labels, one too long a label, links  *)
(* into the message and beyond.                                            *)
(***************************************************************************)
EXTENDS DnsName

CONSTANTS MaxLength

Alphabet == {0, 1, 2, 3, 192}

MCMessages == UNION {[1 .. n -> Alphabet] : n \in 1 .. MaxLength}

\* "all programs are required to understand arriving messages that contain
\* pointers": a well-formed name of allowed length is understood.
UnderstandsPointers ==
    mode \in Failures /\ allowed =>
        \A name \in NamesAt(mem, MaxLabel, start) : Len(name.text) > MaxDomain
=============================================================================
