-------------------------------- MODULE Relay --------------------------------
(***************************************************************************)
(* The TCP relay of one Session in State::Connected: two non-blocking      *)
(* sockets, one buffer per direction for the bytes a send() did not take,  *)
(* and the event masks that decide which of the two is looked at next.     *)
(*                                                                         *)
(* A side's bytes are numbered as its peer wrote them; Junk is a byte that *)
(* no peer wrote.  The kernel takes as much of a send() as fits into the   *)
(* free space of the send buffer and reports a socket writable once        *)
(* LowWater bytes of it are free.                                          *)
(***************************************************************************)
EXTENDS Naturals, Sequences, Poller

CONSTANTS
    BufSize,   \* SOCKSPP_SESSION_SOCKET_BUFFER_SIZE
    SndBuf,    \* kernel send buffer of a socket
    LowWater,  \* free space at which the kernel reports a socket writable
    MaxBatch,  \* sockets of this session that one poll() may return
    MaxBytes   \* bound: bytes each peer writes

ASSUME RelayAssumption ==
    /\ BufSize \in Nat \ {0}
    /\ SndBuf \in Nat \ {0}
    /\ LowWater \in 1..SndBuf
    /\ MaxBatch \in Nat \ {0}
    /\ MaxBytes \in Nat

VARIABLES
    status,    \* "up", "closed" (a handler returned false), "crashed", "killed"
    cause,     \* why it was closed; a side: recv() returned 0 there
    peer,      \* what the peer of each socket did
    inbox,     \* kernel receive buffer of each socket
    out,       \* kernel send buffer of each socket
    sched,     \* sched[x]: _client_buffer, _remote_buffer: scheduled for x
    interest,  \* mask each socket is registered with
    batch,     \* events of the last poll() not yet dispatched
    wrote,     \* history: bytes the peer of x wrote
    got,       \* history: bytes the peer of x read
    crossed    \* history: one side was scheduled for while the other was

vars ==
    <<status, cause, peer, inbox, out, sched, interest, batch, wrote, got, crossed>>
session == <<status, cause, sched, interest, batch, crossed>>

Sides    == {"client", "remote"}
Other(x) == IF x = "client" THEN "remote" ELSE "client"
Junk     == 0
Bytes    == 0..MaxBytes
Masks    == {ReadMask, WriteMask, ClosedMask}

TypeOK ==
    /\ status \in {"up", "closed", "crashed", "killed"}
    /\ cause \in {"none", "hangup", "error"} \cup Sides
    /\ peer \in [Sides -> {"open", "eof", "reset", "broken"}]
    /\ inbox \in [Sides -> Seq(Bytes)]
    /\ out \in [Sides -> Seq(Bytes)]
    /\ sched \in [Sides -> Seq(Bytes)]
    /\ interest \in [Sides -> Masks]
    /\ batch \in Seq(Sides \X SUBSET Flags)
    /\ wrote \in [Sides -> Seq(Bytes)]
    /\ got \in [Sides -> Seq(Bytes)]
    /\ crossed \in BOOLEAN
    /\ \A x \in Sides : Len(out[x]) <= SndBuf /\ Len(sched[x]) <= BufSize

\* As Session::_remote_connected() leaves the session
Init ==
    /\ status = "up"
    /\ cause = "none"
    /\ peer = [x \in Sides |-> "open"]
    /\ inbox = [x \in Sides |-> <<>>]
    /\ out = [x \in Sides |-> <<>>]
    /\ sched = [x \in Sides |-> <<>>]
    /\ interest = [x \in Sides |-> ReadMask]
    /\ batch = <<>>
    /\ wrote = [x \in Sides |-> <<>>]
    /\ got = [x \in Sides |-> <<>>]
    /\ crossed = FALSE

Smaller(m, n)  == IF m <= n THEN m ELSE n
Taken(s, n)    == SubSeq(s, 1, Smaller(n, Len(s)))
Left(s, n)     == SubSeq(s, Smaller(n, Len(s)) + 1, Len(s))
Room(x)        == SndBuf - Len(out[x])
Gone(x)        == peer[x] \in {"reset", "broken"}

(***************************************************************************)
(* The peers and the kernel.                                               *)
(***************************************************************************)
PeerWrites(x) ==
    /\ status = "up"
    /\ peer[x] = "open"
    /\ Len(wrote[x]) < MaxBytes
    /\ wrote' = [wrote EXCEPT ![x] = Append(@, Len(@) + 1)]
    /\ inbox' = [inbox EXCEPT ![x] = Append(@, Len(wrote[x]) + 1)]
    /\ UNCHANGED <<session, peer, out, got>>

PeerShutsDown(x) ==
    /\ peer[x] = "open"
    /\ peer' = [peer EXCEPT ![x] = "eof"]
    /\ UNCHANGED <<session, inbox, out, wrote, got>>

PeerResets(x) ==
    /\ ~Gone(x)
    /\ peer' = [peer EXCEPT ![x] = IF @ = "open" THEN "reset" ELSE "broken"]
    /\ UNCHANGED <<session, inbox, out, wrote, got>>

\* Bytes of the send buffer reach the peer, also after the socket is closed.
PeerReads(x) ==
    /\ ~Gone(x)
    /\ \E n \in 1..Len(out[x]) :
          /\ got' = [got EXCEPT ![x] = @ \o SubSeq(out[x], 1, n)]
          /\ out' = [out EXCEPT ![x] = SubSeq(@, n + 1, Len(@))]
    /\ UNCHANGED <<session, peer, inbox, wrote>>

\* The condition of socket x, as the poller sees it
Condition(x) ==
    {f \in Flags :
        \/ f = "Read" /\ (inbox[x] # <<>> \/ peer[x] # "open")
        \/ f = "Write" /\ (Room(x) >= LowWater \/ Gone(x))
        \/ f \in {"Closed", "Error"} /\ Gone(x)}

\* poll(): one event for each socket reported, in any order.
Poll ==
    /\ status = "up"
    /\ batch = <<>>
    /\ \E n \in 1..Smaller(MaxBatch, 2) : \E b \in [1..n -> Sides] :
          /\ \A i, j \in 1..n : i # j => b[i] # b[j]
          /\ \A i \in 1..n : Pollable(interest[b[i]], Condition(b[i]))
          /\ batch' = [i \in 1..n |->
                          <<b[i], Reported(interest[b[i]], Condition(b[i]))>>]
    /\ UNCHANGED <<status, cause, peer, inbox, out, sched, interest, wrote, got, crossed>>

(***************************************************************************)
(* Dispatch of the first event of the batch.                               *)
(***************************************************************************)

\* The handler returned false: the session and its other events are gone.
Close(why) ==
    /\ status' = "closed"
    /\ cause' = why
    /\ batch' = <<>>
    /\ UNCHANGED <<sched, interest, crossed>>

\* The process dies.
Die(how) ==
    /\ status' = how
    /\ batch' = <<>>
    /\ UNCHANGED <<cause, sched, interest, crossed>>

Continue == batch' = Tail(batch) /\ UNCHANGED <<status, cause>>

Event(x, asked) ==
    /\ status = "up"
    /\ batch # <<>>
    /\ Head(batch)[1] = x
    /\ asked = IF Head(batch)[2] \cap {"Closed", "Error"} # {} THEN "hangup"
               ELSE IF "Write" \in Head(batch)[2] THEN "write" ELSE "read"

HangsUp(x) ==
    /\ Event(x, "hangup")
    /\ Close("hangup")
    /\ UNCHANGED <<peer, inbox, out, wrote, got>>

\* recv() returned 0 or -1
RecvEnds(x) ==
    /\ Event(x, "read")
    /\ inbox[x] = <<>>
    /\ Close(IF peer[x] = "reset" THEN "error" ELSE x)
    /\ UNCHANGED <<peer, inbox, out, wrote, got>>

\* send() to a peer that is gone returns -1; if the peer had shut down its
\* side before, SIGPIPE kills the process instead.
SendFails(y) ==
    /\ Gone(y)
    /\ IF peer[y] = "reset" THEN Close("error") ELSE Die("killed")
    /\ UNCHANGED out

\* What a send() of s to y leaves behind: out[y] takes what fits.
Sends(y, s) ==
    /\ ~Gone(y)
    /\ out' = [out EXCEPT ![y] = @ \o Taken(s, Room(y))]

\* Mutated form: the source stays watched for Read.
WatchWriteOnly(y) == interest' = [interest EXCEPT ![y] = WriteMask]

\* Mutated form: both set_event() calls name the same socket.
WatchWriteSame(y) == interest' = [interest EXCEPT ![y] = ClosedMask]

\* "Listen for WRITE event": y until it is writable, its source not at all.
WatchWrite(y) == interest' = [x \in Sides |-> IF x = y THEN WriteMask ELSE ClosedMask]

\* Mutated form: only the source is watched for Read again.
WatchReadSource ==
    interest' = [x \in Sides |->
                    IF interest[x] = ClosedMask THEN ReadMask ELSE interest[x]]

\* "Listen for READ event", on both sockets
WatchRead == interest' = [x \in Sides |-> ReadMask]

\* Mutated form: buffer instead of buffer + sent.
UnsentFromStart(buf, n) == SubSeq(buf, 1, Len(buf) - Smaller(n, Len(buf)))

\* What a send() that took n bytes leaves to be scheduled
Unsent(buf, n) == Left(buf, n)

\* recv() returned bytes and nothing is scheduled for the other side: what
\* send() does not take is scheduled.  If bytes are scheduled for x itself - its
\* Read event is of the batch in which they were - x now loses its Write watch.
Forward(x) ==
    LET y   == Other(x)
        buf == Taken(inbox[x], BufSize)
    IN  /\ Event(x, "read")
        /\ inbox[x] # <<>>
        /\ sched[y] = <<>>
        /\ inbox' = [inbox EXCEPT ![x] = Left(@, BufSize)]
        /\ UNCHANGED <<peer, wrote, got>>
        /\ \/ SendFails(y)
           \/ /\ Sends(y, buf)
              /\ Continue
              /\ sched' = [sched EXCEPT ![y] = Unsent(buf, Room(y))]
              /\ IF Room(y) >= Len(buf)
                 THEN UNCHANGED <<interest, crossed>>
                 ELSE WatchWrite(y) /\ crossed' = (crossed \/ sched[x] # <<>>)

\* scheduled.copy_from(buffer + n, size): memory behind the received bytes is
\* whatever the stack holds.
Overwritten(buf, n, size) ==
    [i \in 1..size |-> IF n + i <= Len(buf) THEN buf[n + i] ELSE Junk]

\* The same while bytes are scheduled: send() is given those, the bytes just
\* received are dropped, or overwrite what is left of the scheduled ones.
ForwardOverScheduled(x) ==
    LET y   == Other(x)
        buf == Taken(inbox[x], BufSize)
        s   == sched[y]
        n   == Smaller(Room(y), Len(s))
    IN  /\ Event(x, "read")
        /\ inbox[x] # <<>>
        /\ s # <<>>
        /\ inbox' = [inbox EXCEPT ![x] = Left(@, BufSize)]
        /\ UNCHANGED <<peer, wrote, got>>
        /\ \/ SendFails(y)
           \/ /\ Sends(y, s)
              /\ Continue
              /\ UNCHANGED crossed
              /\ IF n = Len(s)
                 THEN sched' = [sched EXCEPT ![y] = <<>>] /\ WatchRead
                 ELSE /\ sched' = [sched EXCEPT ![y] =
                              IF n = 0 THEN s ELSE Overwritten(buf, n, Len(s) - n)]
                      /\ UNCHANGED interest

\* y is writable: the scheduled bytes are sent.  If send() takes only a part,
\* or nothing is scheduled, the code reads through buffer, which is null.
Flush(y) ==
    LET s == sched[y]
    IN  /\ Event(y, "write")
        /\ UNCHANGED <<peer, inbox, wrote, got>>
        /\ \/ SendFails(y)
           \/ /\ Sends(y, s)
              /\ UNCHANGED crossed
              /\ CASE s # <<>> /\ Room(y) >= Len(s) ->
                          /\ Continue
                          /\ sched' = [sched EXCEPT ![y] = <<>>]
                          /\ WatchRead
                   [] s # <<>> /\ Room(y) = 0 -> Continue /\ UNCHANGED <<sched, interest>>
                   [] OTHER -> Die("crashed")

Dispatch(x) ==
    HangsUp(x) \/ RecvEnds(x) \/ Forward(x) \/ ForwardOverScheduled(x) \/ Flush(x)

Next ==
    \/ Poll
    \/ \E x \in Sides :
          \/ PeerWrites(x) \/ PeerShutsDown(x) \/ PeerResets(x) \/ PeerReads(x)
          \/ Dispatch(x)

\* The server loop keeps polling and dispatching, and a peer that is there
\* keeps reading.
Fairness ==
    /\ WF_vars(Poll)
    /\ \A x \in Sides : WF_vars(Dispatch(x)) /\ WF_vars(PeerReads(x))

Spec == Init /\ [][Next]_vars /\ Fairness

-----------------------------------------------------------------------------
\* A socket watched for Write has bytes scheduled for it, and the other one is
\* then not read from, also when both were ready in one batch.
WriteWatchedHasData ==
    status = "up" =>
        \A x \in Sides : interest[x] = WriteMask =>
            sched[x] # <<>> /\ interest[Other(x)] = ClosedMask

\* "Listen for READ event": when no bytes are scheduled any more, both sockets
\* are read from again, whatever was scheduled before and in which order.
ReadsRestored ==
    status = "up" /\ (\A x \in Sides : sched[x] = <<>>) =>
        \A x \in Sides : interest[x] = ReadMask

\* Scheduled bytes are always waiting for a Write event ("Schedule buffer for
\* next WRITE event", "Listen for WRITE event").
ScheduledIsWatched ==
    status = "up" =>
        \A x \in Sides : sched[x] # <<>> => interest[x] = WriteMask

\* The same until both directions were scheduled in one batch, which is the
\* only way in which scheduled bytes ever lose their Write event.
LostOnlyByCrossing == ~crossed => ScheduledIsWatched

\* No byte is lost, repeated, reordered or made up between the peer that wrote
\* it and the peer that reads it, whatever partial sends happened on the way,
\* unless both directions were scheduled in one batch.
Fifo ==
    status = "up" /\ ~crossed =>
        \A x \in Sides :
            wrote[x] = got[Other(x)] \o out[Other(x)] \o sched[Other(x)] \o inbox[x]

\* A session that ends because a peer shut down its side has handed over to
\* the kernel everything that peer wrote, with the same exception.
EofDelivered ==
    ~crossed =>
        \A x \in Sides : cause = x => wrote[x] = got[Other(x)] \o out[Other(x)]

\* A partial send() while flushing does not take the process down ("Schedule
\* buffer for next WRITE event").
NeverCrashes == status # "crashed"

\* The relay is a pair of reliable byte pipes until both directions were
\* scheduled in one batch.
Transit ==
    [x \in Sides |->
        IF status = "up" THEN out[x] \o sched[x] \o inbox[Other(x)] ELSE out[x]]

P == INSTANCE Pipe WITH transit <- Transit, open <- (status = "up"), broken <- crossed

ImplementsPipe == P!Spec

\* What a peer wrote reaches the other one, unless one of the two went away or
\* both directions were scheduled in one batch.
Delivered ==
    \A x \in Sides : \A n \in 1..MaxBytes :
        Len(wrote[x]) >= n ~>
            \/ Len(got[Other(x)]) >= n
            \/ \E z \in Sides : peer[z] # "open"
            \/ crossed
=============================================================================
