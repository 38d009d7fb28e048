------------------------------ MODULE DnsName ------------------------------
(***************************************************************************)
(* Buffer::getDnsDomainName() of dnslib: a message is read as one domain   *)
(* name after the other.  A name is labels ended by a zero octet, or by a  *)
(* link to another place of the message, for which the function calls      *)
(* itself.  One step is the work on one octet of control, or one return.   *)
(***************************************************************************)
EXTENDS DomainNames, Integers, Sequences

CONSTANTS
    Messages,       \* messages to read, sequences of octets
    MaxLabel,       \* MAX_LABEL_LEN, 63
    MaxDomain,      \* MAX_DOMAIN_LEN, 255
    StackDepth      \* calls that fit the stack of the process

Octets == 0 .. 255

ASSUME NameAssumption ==
    /\ Messages \subseteq Seq(Octets)
    /\ MaxLabel \in 1 .. 63
    /\ MaxDomain \in Nat
    /\ StackDepth \in Nat
    /\ \A m \in Messages : Len(m) <= StackDepth

VARIABLES
    mem,        \* the message
    allowed,    \* compressionAllowed of the outermost call
    pos,        \* position of the next octet, from 0
    frames,     \* one per call: its entry in mLinkPos, its local domain, and
                \* saveBuffPos while it waits for a link
    start,      \* history: where the outermost call began
    domain,     \* what the last call returned
    mode        \* "idle", "read", "return", or why it failed

vars == <<mem, allowed, pos, frames, start, domain, mode>>

Dot == 46

Failures == {"loop", "bounds", "label", "length", "link", "end", "overflow"}

Frame == [entry : Nat, text : Seq(Octets), saved : Nat]

TypeOK ==
    /\ mem \in Messages
    /\ allowed \in BOOLEAN
    /\ pos \in 0 .. Len(mem)
    /\ frames \in Seq(Frame)
    /\ start \in Nat
    /\ domain \in Seq(Octets)
    /\ mode \in {"idle", "read", "return"} \cup Failures

Init ==
    /\ mem \in Messages
    /\ allowed \in BOOLEAN
    /\ pos = 0
    /\ frames = <<>>
    /\ start = 0
    /\ domain = <<>>
    /\ mode = "idle"

\* Mutated form: the last octet counts as missing.
MissesLast(p, n) == p + n >= Len(mem)

\* checkAvailableSpace(): fewer than n octets are left at p.
Misses(p, n) == p + n > Len(mem)

\* setPos() refuses p, also right behind the last octet.
Behind(p) == p >= Len(mem)

Octet(p) == mem[p + 1]
Top == frames[Len(frames)]
Below == SubSeq(frames, 1, Len(frames) - 1)

\* An exception: the message is given up.
Fail(why) ==
    /\ mode' = why
    /\ UNCHANGED <<mem, allowed, pos, frames, start, domain>>

\* Mutated form: the entries of the calls are not looked at.
EnterUnchecked(stack, p) ==
    IF Len(stack) = StackDepth
    THEN mode' = "overflow" /\ UNCHANGED <<frames, pos>>
    ELSE /\ mode' = "read"
         /\ pos' = p
         /\ frames' = Append(stack, [entry |-> p, text |-> <<>>, saved |-> 0])

\* A call, at p, on top of the calls in stack.
Enter(stack, p) ==
    IF \E i \in DOMAIN stack : stack[i].entry = p
    THEN mode' = "loop" /\ UNCHANGED <<frames, pos>>
    ELSE IF Len(stack) = StackDepth
    THEN mode' = "overflow" /\ UNCHANGED <<frames, pos>>
    ELSE /\ mode' = "read"
         /\ pos' = p
         /\ frames' = Append(stack, [entry |-> p, text |-> <<>>, saved |-> 0])

\* The next name of the message
Call ==
    /\ mode = "idle"
    /\ pos < Len(mem)
    /\ start' = pos
    /\ Enter(frames, pos)
    /\ UNCHANGED <<mem, allowed, domain>>

\* The outermost call returns text.
Leave(text, p) ==
    /\ pos' = p
    /\ frames' = Below
    /\ domain' = text
    /\ mode' = IF Len(text) > MaxDomain THEN "length"
               ELSE IF Len(frames) = 1 THEN "idle" ELSE "return"
    /\ UNCHANGED <<mem, allowed, start>>

Join(text, more) ==
    IF text = <<>> THEN more ELSE text \o <<Dot>> \o more

ReadEnd ==
    /\ Octet(pos) = 0
    /\ Leave(Top.text, pos + 1)

\* Mutated form: the octet of length is taken into the label.
LabelWithLength(p, len) == SubSeq(mem, p + 1, p + 1 + len)

LabelAt(p, len) == SubSeq(mem, p + 2, p + 1 + len)

ReadLabel ==
    LET len == Octet(pos) IN
    /\ len \in 1 .. 191
    /\ IF len > MaxLabel THEN Fail("label")
       ELSE IF Misses(pos, 1 + len) THEN Fail("bounds")
       ELSE /\ pos' = pos + 1 + len
            /\ frames' = Append(Below,
                  [Top EXCEPT !.text = Join(@, LabelAt(pos, len))])
            /\ UNCHANGED <<mem, allowed, start, domain, mode>>

Target == (Octet(pos) % 64) * 256 + Octet(pos + 1)

\* Mutated form: getPos() is called before the link is read.
AfterLinkEarly(p) == p

AfterLink(p) == p + 2

ReadLink ==
    /\ Octet(pos) \in 192 .. 255
    /\ IF ~allowed /\ Len(frames) = 1 THEN Fail("link")
       ELSE IF Misses(pos, 2) \/ Behind(Target) THEN Fail("bounds")
       ELSE /\ Enter(Append(Below, [Top EXCEPT !.saved = AfterLink(pos)]), Target)
            /\ UNCHANGED <<mem, allowed, start, domain>>

Read ==
    /\ mode = "read"
    /\ IF Misses(pos, 1) THEN Fail("bounds")
       ELSE ReadEnd \/ ReadLabel \/ ReadLink

\* The call for a link has returned; its caller goes back to where the link
\* ends, and returns too.
ReturnFromLink ==
    /\ mode = "return"
    /\ IF Behind(Top.saved) THEN Fail("end")
       ELSE Leave(Join(Top.text, domain), Top.saved)

Next == Call \/ Read \/ ReturnFromLink

Spec == Init /\ [][Next]_vars /\ WF_vars(Next)

-----------------------------------------------------------------------------
\* The calls under way began at different places (mLinkPos), each inside the
\* message: so there are never more of them than the message has octets, and
\* the message cannot exhaust the stack.
NoOverflow ==
    /\ mode # "overflow"
    /\ \A i, j \in DOMAIN frames :
          frames[i].entry = frames[j].entry => i = j

\* The caller of a link goes on behind it, inside the part that was read: a
\* name takes at least one octet, and the next one is read behind it.
Progress ==
    /\ mode = "idle" /\ pos # 0 => start < pos
    /\ \A i \in 1 .. Len(frames) - 1 :
          frames[i].entry < frames[i].saved /\ frames[i].saved <= Len(mem)

\* What a call returns is the name at the place it was called for, and it ends
\* where that name ends (getDnsDomainName()).
DecodesName ==
    mode = "idle" /\ pos # 0 =>
        NamesAt(mem, MaxLabel, start) = {[text |-> domain, next |-> pos]}

\* The message ends with the two octets of a link.
LinkAtEnd == Len(mem) >= 2 /\ mem[Len(mem) - 1] >= 192

\* A message is given up for a name which is malformed, has no end, is too
\* long, or may not hold the link it holds; or because it ends with a link.
RejectsOnlyBad ==
    mode \in Failures =>
        \/ mode = "link" /\ ~allowed
        \/ mode = "end" /\ LinkAtEnd
        \/ \A name \in NamesAt(mem, MaxLabel, start) :
               Len(name.text) > MaxDomain

\* Every message is read to its end or given up.
Terminates == <>[](mode \in Failures \/ (mode = "idle" /\ pos = Len(mem)))
=============================================================================
