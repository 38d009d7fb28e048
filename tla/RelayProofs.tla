----------------------------- MODULE RelayProofs -----------------------------
(***************************************************************************)
(* What holds of the relay for all buffer sizes, all send buffers, any     *)
(* number of bytes and any batch of events.  The masks keep their shape;   *)
(* if a writable socket takes the whole buffer, the process survives; and  *)
(* until both directions are scheduled in one batch, the relay implements  *)
(* a pair of reliable pipes, whatever a socket takes.                      *)
(***************************************************************************)
EXTENDS Relay, SequenceTheorems, TLAPS

\* What the constants are worth to the provers
LEMMA ConstantFacts ==
    /\ BufSize \in Nat /\ BufSize > 0
    /\ SndBuf \in Nat /\ SndBuf > 0
    /\ LowWater \in Nat
    /\ MaxBatch \in Nat
    /\ MaxBytes \in Nat
BY RelayAssumption

LEMMA SideFacts ==
    \A x \in Sides : /\ Other(x) \in Sides
                     /\ Other(x) # x
                     /\ Other(Other(x)) = x
                     /\ \A z \in Sides : z = x \/ z = Other(x)
BY DEF Sides, Other

LEMMA MaskFacts ==
    /\ ReadMask # WriteMask /\ ReadMask # ClosedMask /\ WriteMask # ClosedMask
    /\ ReadMask \in Masks /\ WriteMask \in Masks /\ ClosedMask \in Masks
<1>1. "Read" \in ReadMask /\ "Read" \notin WriteMask /\ "Read" \notin ClosedMask
  BY DEF ReadMask, WriteMask, ClosedMask
<1>2. "Write" \in WriteMask /\ "Write" \notin ClosedMask
  BY DEF WriteMask, ClosedMask
<1> QED
  BY <1>1, <1>2 DEF Masks

-----------------------------------------------------------------------------
(***************************************************************************)
(* Sequences cut in two.                                                   *)
(***************************************************************************)
LEMMA SmallerFacts ==
    ASSUME NEW m \in Nat, NEW n \in Nat
    PROVE  /\ Smaller(m, n) \in Nat
           /\ Smaller(m, n) <= m /\ Smaller(m, n) <= n
           /\ m <= n => Smaller(m, n) = m
           /\ m >= n => Smaller(m, n) = n
BY DEF Smaller

\* A send() or recv() of at most n bytes of s cuts s in two.
LEMMA Cut ==
    ASSUME NEW S, NEW s \in Seq(S), NEW n \in Nat
    PROVE  /\ Taken(s, n) \in Seq(S)
           /\ Len(Taken(s, n)) = Smaller(n, Len(s))
           /\ Left(s, n) \in Seq(S)
           /\ Len(Left(s, n)) = Len(s) - Smaller(n, Len(s))
           /\ Taken(s, n) \o Left(s, n) = s
           /\ n >= Len(s) => Taken(s, n) = s /\ Left(s, n) = <<>>
<1> DEFINE k == Smaller(n, Len(s))
<1>1. Len(s) \in Nat /\ \A i \in 1..Len(s) : s[i] \in S
  BY LenProperties, ElementOfSeq
<1>2. k \in Nat /\ k <= Len(s) /\ (n >= Len(s) => k = Len(s))
  BY <1>1, SmallerFacts
<1>3. \A i \in 1..k : s[i] \in S
  BY <1>1, <1>2
<1>4. \A i \in (k+1)..Len(s) : s[i] \in S
  BY <1>1, <1>2
<1> HIDE DEF k
<1>5. /\ SubSeq(s, 1, k) \in Seq(S)
      /\ Len(SubSeq(s, 1, k)) = k
  <2>1. Len(SubSeq(s, 1, k)) = IF 1 <= k THEN k - 1 + 1 ELSE 0
    BY <1>2, <1>3, SubSeqProperties
  <2> QED
    BY <1>2, <1>3, <2>1, SubSeqProperties
<1>6. /\ SubSeq(s, k+1, Len(s)) \in Seq(S)
      /\ Len(SubSeq(s, k+1, Len(s))) = Len(s) - k
  <2>1. k + 1 \in Int /\ Len(s) \in Int
    BY <1>1, <1>2
  <2>2. Len(SubSeq(s, k+1, Len(s))) =
            IF k+1 <= Len(s) THEN Len(s) - (k+1) + 1 ELSE 0
    BY <2>1, <1>4, SubSeqProperties
  <2> QED
    BY <1>1, <1>2, <1>4, <2>1, <2>2, SubSeqProperties
<1>7. SubSeq(s, 1, k) \o SubSeq(s, k+1, Len(s)) = SubSeq(s, 1, Len(s))
  <2>1. 1 \in 1..Len(s)+1 /\ k \in (1-1)..Len(s) /\ Len(s) \in k..Len(s)
    BY <1>1, <1>2
  <2> QED
    BY <2>1, ConcatAdjacentSubSeq
<1>8. SubSeq(s, 1, Len(s)) = s
  BY SubSeqFull
<1>9. n >= Len(s) => SubSeq(s, 1, k) = s /\ SubSeq(s, k+1, Len(s)) = <<>>
  <2>1. k = Len(s) => SubSeq(s, k+1, Len(s)) = <<>>
    BY <1>1, <1>2, SubSeqEmpty
  <2> QED
    BY <1>2, <1>8, <2>1
<1> QED
  BY <1>5, <1>6, <1>7, <1>8, <1>9 DEF Taken, Left, k

\* The same for a cut at a position within s
LEMMA CutAt ==
    ASSUME NEW S, NEW s \in Seq(S), NEW n \in 0..Len(s)
    PROVE  /\ SubSeq(s, 1, n) \in Seq(S)
           /\ Len(SubSeq(s, 1, n)) = n
           /\ SubSeq(s, n + 1, Len(s)) \in Seq(S)
           /\ Len(SubSeq(s, n + 1, Len(s))) = Len(s) - n
           /\ SubSeq(s, 1, n) \o SubSeq(s, n + 1, Len(s)) = s
<1>1. Len(s) \in Nat /\ n \in Nat /\ n <= Len(s)
  BY LenProperties
<1>2. Smaller(n, Len(s)) = n
  BY <1>1, SmallerFacts
<1> QED
  BY <1>1, <1>2, Cut DEF Taken, Left

LEMMA Concat3 ==
    ASSUME NEW S, NEW a \in Seq(S), NEW b \in Seq(S), NEW c \in Seq(S)
    PROVE  /\ a \o b \in Seq(S)
           /\ (a \o b) \o c = a \o (b \o c)
           /\ (a \o b) \o c \in Seq(S)
<1>1. a \o b \in Seq(S)
  BY ConcatProperties
<1> QED
  BY <1>1, ConcatProperties, ConcatAssociative

-----------------------------------------------------------------------------
(***************************************************************************)
(* In every environment: the types, and the shape of the masks.            *)
(***************************************************************************)
Typed == TypeOK /\ WriteWatchedHasData /\ ReadsRestored

\* What TypeOK says of one side, in the form the steps need
LEMMA SideTypes ==
    ASSUME TypeOK, NEW x \in Sides
    PROVE  /\ inbox[x] \in Seq(Bytes) /\ out[x] \in Seq(Bytes)
           /\ sched[x] \in Seq(Bytes)
           /\ wrote[x] \in Seq(Bytes) /\ got[x] \in Seq(Bytes)
           /\ Len(out[x]) \in Nat /\ Len(sched[x]) \in Nat
           /\ Len(inbox[x]) \in Nat /\ Len(wrote[x]) \in Nat
           /\ Room(x) \in Nat
           /\ interest[x] \in Masks
<1>1. /\ inbox[x] \in Seq(Bytes) /\ out[x] \in Seq(Bytes)
      /\ sched[x] \in Seq(Bytes)
      /\ wrote[x] \in Seq(Bytes) /\ got[x] \in Seq(Bytes)
      /\ interest[x] \in Masks
  BY DEF TypeOK
<1>2. /\ Len(out[x]) \in Nat /\ Len(sched[x]) \in Nat
      /\ Len(inbox[x]) \in Nat /\ Len(wrote[x]) \in Nat
  BY <1>1, LenProperties
<1>3. Len(out[x]) <= SndBuf
  BY DEF TypeOK
<1> QED
  BY <1>1, <1>2, <1>3, ConstantFacts DEF Room

\* The parts of TypeOK that a step of the session may change
SessionTyped ==
    /\ status \in {"up", "closed", "crashed", "killed"}
    /\ cause \in {"none", "hangup", "error"} \cup Sides
    /\ sched \in [Sides -> Seq(Bytes)]
    /\ interest \in [Sides -> Masks]
    /\ batch \in Seq(Sides \X SUBSET Flags)
    /\ crossed \in BOOLEAN
    /\ \A x \in Sides : Len(sched[x]) <= BufSize

\* The parts that the peers and the kernel change
KernelTyped ==
    /\ peer \in [Sides -> {"open", "eof", "reset", "broken"}]
    /\ inbox \in [Sides -> Seq(Bytes)]
    /\ out \in [Sides -> Seq(Bytes)]
    /\ wrote \in [Sides -> Seq(Bytes)]
    /\ got \in [Sides -> Seq(Bytes)]
    /\ \A x \in Sides : Len(out[x]) <= SndBuf

LEMMA TypeParts == TypeOK <=> SessionTyped /\ KernelTyped
BY DEF TypeOK, SessionTyped, KernelTyped

\* A send() of s to y fills the send buffer up to its size.
LEMMA SendsTyped ==
    ASSUME TypeOK, NEW y \in Sides, NEW s \in Seq(Bytes), Sends(y, s)
    PROVE  /\ out' \in [Sides -> Seq(Bytes)]
           /\ \A x \in Sides : Len(out'[x]) <= SndBuf
           /\ out'[y] = out[y] \o Taken(s, Room(y))
           /\ out'[Other(y)] = out[Other(y)]
<1>1. /\ out[y] \in Seq(Bytes) /\ Room(y) \in Nat /\ Len(out[y]) \in Nat
      /\ Len(s) \in Nat
  BY SideTypes, LenProperties
<1>2. /\ Taken(s, Room(y)) \in Seq(Bytes)
      /\ Len(Taken(s, Room(y))) <= Room(y)
      /\ Len(Taken(s, Room(y))) \in Nat
  <2>1. /\ Taken(s, Room(y)) \in Seq(Bytes)
        /\ Len(Taken(s, Room(y))) = Smaller(Room(y), Len(s))
    BY <1>1, Cut
  <2> QED
    BY <1>1, <2>1, SmallerFacts
<1> DEFINE t == out[y] \o Taken(s, Room(y))
<1>3. t \in Seq(Bytes) /\ Len(t) = Len(out[y]) + Len(Taken(s, Room(y)))
  BY <1>1, <1>2, ConcatProperties
<1>5. out' = [out EXCEPT ![y] = t]
  BY DEF Sends
<1> DEFINE l == Len(Taken(s, Room(y)))
<1>4. Len(t) <= SndBuf
  <2>1. l \in Nat /\ l <= Room(y) /\ Len(t) = Len(out[y]) + l
    BY <1>2, <1>3
  <2> HIDE DEF t, l
  <2>2. Room(y) = SndBuf - Len(out[y])
    BY DEF Room
  <2> QED
    BY <1>1, <2>1, <2>2, ConstantFacts
<1>6. out \in [Sides -> Seq(Bytes)] /\ \A x \in Sides : Len(out[x]) <= SndBuf
  BY DEF TypeOK
<1> HIDE DEF t
<1>7. /\ out' \in [Sides -> Seq(Bytes)]
      /\ out'[y] = t
      /\ out'[Other(y)] = out[Other(y)]
      /\ \A z \in Sides : out'[z] = IF z = y THEN t ELSE out[z]
  <2>1. t \in Seq(Bytes) /\ out \in [Sides -> Seq(Bytes)]
    BY <1>3, <1>6
  <2>2. /\ [out EXCEPT ![y] = t] \in [Sides -> Seq(Bytes)]
        /\ [out EXCEPT ![y] = t][y] = t
        /\ [out EXCEPT ![y] = t][Other(y)] = out[Other(y)]
        /\ \A z \in Sides : [out EXCEPT ![y] = t][z] = IF z = y THEN t ELSE out[z]
    BY <2>1, SideFacts
  <2> QED
    BY <1>5, <2>2
<1> QED
  BY <1>4, <1>6, <1>7 DEF t

LEMMA InitTyped == Init => Typed
<1> SUFFICES ASSUME Init PROVE Typed
  OBVIOUS
<1>1. <<>> \in Seq(Bytes) /\ Len(<<>>) = 0 /\ <<>> \in Seq(Sides \X SUBSET Flags)
  BY EmptySeq
<1>2. SessionTyped
  <2>1. sched \in [Sides -> Seq(Bytes)] /\ \A x \in Sides : Len(sched[x]) <= BufSize
    BY <1>1, ConstantFacts DEF Init
  <2>2. interest \in [Sides -> Masks]
    BY MaskFacts DEF Init
  <2> QED
    BY <1>1, <2>1, <2>2 DEF Init, SessionTyped
<1>3. KernelTyped
  <2>1. out \in [Sides -> Seq(Bytes)] /\ \A x \in Sides : Len(out[x]) <= SndBuf
    BY <1>1, ConstantFacts DEF Init
  <2>2. /\ inbox \in [Sides -> Seq(Bytes)]
        /\ wrote \in [Sides -> Seq(Bytes)]
        /\ got \in [Sides -> Seq(Bytes)]
    BY <1>1 DEF Init
  <2> QED
    BY <2>1, <2>2 DEF Init, KernelTyped
<1>4. WriteWatchedHasData
  BY MaskFacts DEF Init, WriteWatchedHasData
<1>5. ReadsRestored
  BY MaskFacts DEF Init, ReadsRestored, Sides
<1> QED
  BY <1>2, <1>3, <1>4, <1>5, TypeParts DEF Typed

\* How a handler leaves the session when it does not return true
LEMMA CloseTyped ==
    ASSUME TypeOK, NEW why \in {"none", "hangup", "error"} \cup Sides, Close(why)
    PROVE  SessionTyped' /\ status' = "closed"
<1>1. batch' \in Seq(Sides \X SUBSET Flags)
  BY EmptySeq DEF Close
<1> QED
  BY <1>1 DEF Close, TypeOK, SessionTyped

LEMMA DieTyped ==
    ASSUME TypeOK, NEW how \in {"crashed", "killed"}, Die(how)
    PROVE  SessionTyped' /\ status' = how
<1>1. batch' \in Seq(Sides \X SUBSET Flags)
  BY EmptySeq DEF Die
<1> QED
  BY <1>1 DEF Die, TypeOK, SessionTyped

LEMMA SendFailsTyped ==
    ASSUME TypeOK, NEW y \in Sides, SendFails(y)
    PROVE  /\ SessionTyped'
           /\ status' \in {"closed", "killed"}
           /\ status' = "closed" => cause' = "error"
           /\ status' = "killed" => cause' = cause
           /\ UNCHANGED <<out, crossed>>
<1>1. CASE Close("error")
  BY <1>1, CloseTyped DEF SendFails, Close
<1>2. CASE Die("killed")
  BY <1>2, DieTyped DEF SendFails, Die
<1> QED
  BY <1>1, <1>2 DEF SendFails

LEMMA ContinueTyped ==
    ASSUME TypeOK, batch # <<>>, Continue
    PROVE  batch' \in Seq(Sides \X SUBSET Flags)
<1>1. batch \in Seq(Sides \X SUBSET Flags)
  BY DEF TypeOK
<1> QED
  BY <1>1, HeadTailProperties DEF Continue

\* The two ways set_event() is called in pairs
LEMMA WatchFacts ==
    /\ \A y \in Sides : WatchWrite(y) =>
          /\ interest' \in [Sides -> Masks]
          /\ interest'[y] = WriteMask
          /\ interest'[Other(y)] = ClosedMask
    /\ WatchRead =>
          /\ interest' \in [Sides -> Masks]
          /\ \A z \in Sides : interest'[z] = ReadMask
BY SideFacts, MaskFacts DEF WatchWrite, WatchRead

LEMMA ConditionFacts ==
    \A mask : \A x \in Sides : Reported(mask, Condition(x)) \in SUBSET Flags
BY DEF Reported, Condition

LEMMA PollTyped ==
    ASSUME TypeOK, Poll
    PROVE  SessionTyped'
<1>1. PICK n \in 1..Smaller(MaxBatch, 2) : \E b \in [1..n -> Sides] :
            batch' = [i \in 1..n |-> <<b[i], Reported(interest[b[i]], Condition(b[i]))>>]
  BY DEF Poll
<1>2. PICK b \in [1..n -> Sides] :
            batch' = [i \in 1..n |-> <<b[i], Reported(interest[b[i]], Condition(b[i]))>>]
  BY <1>1
<1>3. n \in Nat
  BY <1>1, ConstantFacts, SmallerFacts
<1>4. \A i \in 1..n : b[i] \in Sides
  BY <1>2
<1>5. \A i \in 1..n : Reported(interest[b[i]], Condition(b[i])) \in SUBSET Flags
  BY <1>4, ConditionFacts
<1>6. \A i \in 1..n : <<b[i], Reported(interest[b[i]], Condition(b[i]))>> \in Sides \X SUBSET Flags
  BY <1>4, <1>5
<1>7. batch' \in [1..n -> Sides \X SUBSET Flags]
  BY <1>2, <1>6
<1>8. batch' \in Seq(Sides \X SUBSET Flags)
  BY <1>3, <1>7
<1> QED
  BY <1>8 DEF Poll, TypeOK, SessionTyped

\* A step of a peer or of the kernel
LEMMA PeersTyped ==
    ASSUME TypeOK, NEW x \in Sides,
           PeerWrites(x) \/ PeerShutsDown(x) \/ PeerResets(x) \/ PeerReads(x)
    PROVE  KernelTyped' /\ UNCHANGED session
<1> USE DEF session
<1>1. CASE PeerWrites(x)
  <2>1. Len(wrote[x]) + 1 \in Bytes
    BY <1>1, SideTypes, ConstantFacts DEF PeerWrites, Bytes
  <2>2. /\ Append(wrote[x], Len(wrote[x]) + 1) \in Seq(Bytes)
        /\ Append(inbox[x], Len(wrote[x]) + 1) \in Seq(Bytes)
    BY <2>1, SideTypes, AppendProperties
  <2>3. wrote' \in [Sides -> Seq(Bytes)] /\ inbox' \in [Sides -> Seq(Bytes)]
    BY <1>1, <2>2 DEF PeerWrites, TypeOK
  <2> QED
    BY <1>1, <2>3 DEF PeerWrites, TypeOK, KernelTyped
<1>2. CASE PeerShutsDown(x)
  BY <1>2 DEF PeerShutsDown, TypeOK, KernelTyped
<1>3. CASE PeerResets(x)
  BY <1>3 DEF PeerResets, TypeOK, KernelTyped
<1>4. CASE PeerReads(x)
  <2>1. PICK n \in 1..Len(out[x]) :
            /\ got' = [got EXCEPT ![x] = @ \o SubSeq(out[x], 1, n)]
            /\ out' = [out EXCEPT ![x] = SubSeq(@, n + 1, Len(@))]
    BY <1>4 DEF PeerReads
  <2>2. /\ SubSeq(out[x], 1, n) \in Seq(Bytes)
        /\ SubSeq(out[x], n + 1, Len(out[x])) \in Seq(Bytes)
        /\ Len(SubSeq(out[x], n + 1, Len(out[x]))) <= Len(out[x])
    <3>1. out[x] \in Seq(Bytes) /\ Len(out[x]) \in Nat /\ n \in 0..Len(out[x])
      BY SideTypes
    <3>2. /\ SubSeq(out[x], 1, n) \in Seq(Bytes)
          /\ SubSeq(out[x], n + 1, Len(out[x])) \in Seq(Bytes)
          /\ Len(SubSeq(out[x], n + 1, Len(out[x]))) = Len(out[x]) - n
      BY <3>1, CutAt
    <3> QED
      BY <3>1, <3>2
  <2>3. got[x] \o SubSeq(out[x], 1, n) \in Seq(Bytes)
    BY <2>2, SideTypes, ConcatProperties
  <2>4. got' \in [Sides -> Seq(Bytes)]
    BY <2>1, <2>3 DEF TypeOK
  <2>5. out' \in [Sides -> Seq(Bytes)]
    BY <2>1, <2>2 DEF TypeOK
  <2>6. \A z \in Sides : Len(out'[z]) <= SndBuf
    <3> SUFFICES ASSUME NEW z \in Sides PROVE Len(out'[z]) <= SndBuf
      OBVIOUS
    <3>1. CASE z = x
      <4>1. out'[x] = SubSeq(out[x], n + 1, Len(out[x]))
        BY <2>1 DEF TypeOK
      <4>2. Len(out[x]) <= SndBuf
        BY DEF TypeOK
      <4>3. Len(out'[x]) \in Nat /\ Len(out[x]) \in Nat
        BY <2>2, <4>1, SideTypes, LenProperties
      <4> QED
        BY <2>2, <3>1, <4>1, <4>2, <4>3, ConstantFacts
    <3>2. CASE z # x
      BY <2>1, <3>2 DEF TypeOK
    <3> QED
      BY <3>1, <3>2
  <2> QED
    BY <1>4, <2>4, <2>5, <2>6 DEF PeerReads, TypeOK, KernelTyped
<1> QED
  BY <1>1, <1>2, <1>3, <1>4

\* The masks keep their shape when the session is left alone.
LEMMA SameSession ==
    ASSUME Typed, UNCHANGED session
    PROVE  SessionTyped' /\ WriteWatchedHasData' /\ ReadsRestored'
<1>1. UNCHANGED <<status, cause, sched, interest, batch, crossed>>
  BY DEF session
<1>2. SessionTyped'
  BY <1>1 DEF Typed, TypeOK, SessionTyped
<1> QED
  BY <1>1, <1>2 DEF Typed, WriteWatchedHasData, ReadsRestored

LEMMA OverShape ==
    ASSUME status' # "up"
    PROVE  WriteWatchedHasData' /\ ReadsRestored'
BY DEF WriteWatchedHasData, ReadsRestored

\* recv() takes the bytes that fit into the buffer.
LEMMA ReceivedTyped ==
    ASSUME TypeOK, NEW x \in Sides, inbox' = [inbox EXCEPT ![x] = Left(@, BufSize)]
    PROVE  /\ inbox' \in [Sides -> Seq(Bytes)]
           /\ inbox'[x] = Left(inbox[x], BufSize)
           /\ inbox'[Other(x)] = inbox[Other(x)]
           /\ Taken(inbox[x], BufSize) \in Seq(Bytes)
           /\ Len(Taken(inbox[x], BufSize)) \in Nat
           /\ Len(Taken(inbox[x], BufSize)) <= BufSize
           /\ inbox[x] = Taken(inbox[x], BufSize) \o Left(inbox[x], BufSize)
<1>1. inbox[x] \in Seq(Bytes) /\ BufSize \in Nat /\ Len(inbox[x]) \in Nat
  BY SideTypes, ConstantFacts
<1>2. /\ Left(inbox[x], BufSize) \in Seq(Bytes)
      /\ Taken(inbox[x], BufSize) \in Seq(Bytes)
      /\ Len(Taken(inbox[x], BufSize)) = Smaller(BufSize, Len(inbox[x]))
      /\ Taken(inbox[x], BufSize) \o Left(inbox[x], BufSize) = inbox[x]
  BY <1>1, Cut
<1>3. inbox \in [Sides -> Seq(Bytes)]
  BY DEF TypeOK
<1> HIDE DEF Left
<1>4. /\ inbox' \in [Sides -> Seq(Bytes)]
      /\ inbox'[x] = Left(inbox[x], BufSize)
      /\ inbox'[Other(x)] = inbox[Other(x)]
  BY <1>2, <1>3, SideFacts
<1> QED
  BY <1>1, <1>2, <1>4, SmallerFacts

LEMMA OverwrittenTyped ==
    ASSUME NEW buf \in Seq(Bytes), NEW n \in Nat, NEW size \in Nat
    PROVE  /\ Overwritten(buf, n, size) \in Seq(Bytes)
           /\ Len(Overwritten(buf, n, size)) = size
<1>1. Junk \in Bytes
  BY ConstantFacts DEF Junk, Bytes
<1>2. \A i \in 1..size : (IF n + i <= Len(buf) THEN buf[n + i] ELSE Junk) \in Bytes
  <2> SUFFICES ASSUME NEW i \in 1..size, n + i <= Len(buf) PROVE buf[n + i] \in Bytes
    BY <1>1
  <2>1. Len(buf) \in Nat /\ n + i \in 1..Len(buf)
    BY LenProperties
  <2> QED
    BY <2>1, ElementOfSeq
<1>3. Overwritten(buf, n, size) \in [1..size -> Bytes]
  BY <1>2 DEF Overwritten
<1> QED
  BY <1>3

\* What Forward does when send() does not fail
LEMMA ForwardKeeps ==
    ASSUME TypeOK, NEW x \in Sides, Forward(x), ~SendFails(Other(x))
    PROVE  LET y == Other(x)
               buf == Taken(inbox[x], BufSize)
           IN  /\ Sends(y, buf)
               /\ Continue
               /\ sched' = [sched EXCEPT ![y] = Unsent(buf, Room(y))]
               /\ sched' \in [Sides -> Seq(Bytes)]
               /\ \A z \in Sides : Len(sched'[z]) <= BufSize
               /\ sched'[y] = Unsent(buf, Room(y))
               /\ sched'[x] = sched[x]
               /\ \/ sched'[y] = <<>> /\ UNCHANGED <<interest, crossed>>
                  \/ /\ sched'[y] # <<>>
                     /\ WatchWrite(y)
                     /\ crossed' = (crossed \/ sched[x] # <<>>)
               /\ crossed' \in BOOLEAN /\ (crossed => crossed')
<1> DEFINE y == Other(x)
           buf == Taken(inbox[x], BufSize)
<1>1. /\ Sends(y, buf)
      /\ Continue
      /\ sched' = [sched EXCEPT ![y] = Unsent(buf, Room(y))]
      /\ IF Room(y) >= Len(buf)
         THEN UNCHANGED <<interest, crossed>>
         ELSE WatchWrite(y) /\ crossed' = (crossed \/ sched[x] # <<>>)
  BY DEF Forward
<1>2. buf \in Seq(Bytes) /\ Len(buf) \in Nat /\ Len(buf) <= BufSize
  BY ReceivedTyped DEF Forward
<1>3. y \in Sides /\ y # x /\ Room(y) \in Nat
  BY SideFacts, SideTypes
<1> HIDE DEF y, buf
<1>4. /\ Unsent(buf, Room(y)) \in Seq(Bytes)
      /\ Len(Unsent(buf, Room(y))) = Len(buf) - Smaller(Room(y), Len(buf))
      /\ Room(y) >= Len(buf) => Unsent(buf, Room(y)) = <<>>
  BY <1>2, <1>3, Cut DEF Unsent
<1>5. /\ Smaller(Room(y), Len(buf)) \in Nat
      /\ Smaller(Room(y), Len(buf)) <= Len(buf)
      /\ Smaller(Room(y), Len(buf)) <= Room(y)
  BY <1>2, <1>3, SmallerFacts
<1>6. Len(Unsent(buf, Room(y))) <= BufSize
  BY <1>2, <1>4, <1>5, ConstantFacts
<1>7. ~(Room(y) >= Len(buf)) => Unsent(buf, Room(y)) # <<>>
  <2>1. Len(<<>>) = 0
    BY EmptySeq
  <2> SUFFICES ASSUME ~(Room(y) >= Len(buf)) PROVE Len(Unsent(buf, Room(y))) # 0
    BY <2>1
  <2> QED
    BY <1>2, <1>3, <1>4, <1>5
<1>8. sched \in [Sides -> Seq(Bytes)] /\ \A z \in Sides : Len(sched[z]) <= BufSize
  BY DEF TypeOK
<1> DEFINE u == Unsent(buf, Room(y))
<1>9. u \in Seq(Bytes) /\ Len(u) <= BufSize /\ sched' = [sched EXCEPT ![y] = u]
  BY <1>1, <1>4, <1>6
<1> HIDE DEF u
<1>10. /\ sched' \in [Sides -> Seq(Bytes)]
       /\ sched'[y] = u
       /\ \A z \in Sides : z # y => sched'[z] = sched[z]
  BY <1>3, <1>8, <1>9
<1>11. \A z \in Sides : Len(sched'[z]) <= BufSize
  <2> SUFFICES ASSUME NEW z \in Sides PROVE Len(sched'[z]) <= BufSize
    OBVIOUS
  <2>1. CASE z = y
    BY <1>9, <1>10, <2>1
  <2>2. CASE z # y
    BY <1>8, <1>10, <2>2
  <2> QED
    BY <2>1, <2>2
<1>12. \/ u = <<>> /\ UNCHANGED <<interest, crossed>>
       \/ u # <<>> /\ WatchWrite(y) /\ crossed' = (crossed \/ sched[x] # <<>>)
  BY <1>1, <1>4, <1>7 DEF u
<1>13. sched'[x] = sched[x]
  BY <1>3, <1>10
<1>14. crossed' \in BOOLEAN /\ (crossed => crossed')
  <2>1. crossed \in BOOLEAN
    BY DEF TypeOK
  <2>2. CASE crossed' = crossed
    BY <2>1, <2>2
  <2>3. CASE crossed' = (crossed \/ sched[x] # <<>>)
    <3>1. CASE crossed \/ sched[x] # <<>>
      <4>1. crossed' = TRUE
        BY <2>3, <3>1
      <4> QED
        BY <4>1
    <3>2. CASE ~(crossed \/ sched[x] # <<>>)
      <4>1. crossed' = FALSE
        BY <2>3, <3>2
      <4> QED
        BY <3>2, <4>1
    <3> QED
      BY <3>1, <3>2
  <2> QED
    BY <1>12, <2>2, <2>3, Zenon
<1>15. /\ sched' = [sched EXCEPT ![y] = Unsent(buf, Room(y))]
       /\ sched' \in [Sides -> Seq(Bytes)]
       /\ sched'[y] = Unsent(buf, Room(y))
  BY <1>9, <1>10 DEF u
<1>16. \/ sched'[y] = <<>> /\ UNCHANGED <<interest, crossed>>
       \/ /\ sched'[y] # <<>>
          /\ WatchWrite(y)
          /\ crossed' = (crossed \/ sched[x] # <<>>)
  BY <1>10, <1>12, Zenon
<1>17. Sends(y, buf) /\ Continue
  BY <1>1
<1> QED
  BY <1>11, <1>13, <1>14, <1>15, <1>16, <1>17 DEF y, buf

LEMMA ForwardTyped ==
    ASSUME Typed, NEW x \in Sides, Forward(x)
    PROVE  Typed'
<1> DEFINE y == Other(x)
           buf == Taken(inbox[x], BufSize)
<1>0. /\ TypeOK /\ WriteWatchedHasData /\ ReadsRestored
      /\ y \in Sides /\ Other(y) = x /\ y # x
      /\ \A z \in Sides : z = y \/ z = x
  BY SideFacts DEF Typed
<1>1. /\ inbox' \in [Sides -> Seq(Bytes)]
      /\ buf \in Seq(Bytes)
  BY <1>0, ReceivedTyped DEF Forward
<1>2. CASE SendFails(y)
  <2>1. SessionTyped' /\ status' \in {"closed", "killed"} /\ UNCHANGED out
    BY <1>0, <1>2, SendFailsTyped
  <2>2. KernelTyped'
    BY <1>0, <1>1, <2>1 DEF Forward, TypeOK, KernelTyped
  <2>3. WriteWatchedHasData' /\ ReadsRestored'
    BY <2>1, OverShape
  <2> QED
    BY <2>1, <2>2, <2>3, TypeParts DEF Typed, TypeOK, SessionTyped, KernelTyped
<1>3. CASE ~SendFails(y)
  <2>1. /\ Sends(y, buf)
        /\ Continue
        /\ sched' \in [Sides -> Seq(Bytes)]
        /\ \A z \in Sides : Len(sched'[z]) <= BufSize
        /\ sched'[x] = sched[x]
        /\ \/ sched'[y] = <<>> /\ UNCHANGED interest
           \/ sched'[y] # <<>> /\ WatchWrite(y)
        /\ crossed' \in BOOLEAN
    BY <1>0, <1>3, ForwardKeeps
  <2>2. sched[y] = <<>> /\ status = "up" /\ batch # <<>>
    BY DEF Forward, Event
  <2>3. /\ out' \in [Sides -> Seq(Bytes)]
        /\ \A z \in Sides : Len(out'[z]) <= SndBuf
    BY <1>0, <1>1, <2>1, SendsTyped
  <2>4. batch' \in Seq(Sides \X SUBSET Flags)
    BY <1>0, <2>1, <2>2, ContinueTyped
  <2>5. interest' \in [Sides -> Masks]
    BY <1>0, <2>1, WatchFacts DEF TypeOK
  <2>6. TypeOK'
    BY <1>0, <1>1, <2>1, <2>3, <2>4, <2>5 DEF Continue, Forward, TypeOK
  <2>7. WriteWatchedHasData' /\ ReadsRestored'
    <3>1. CASE sched'[y] = <<>> /\ UNCHANGED interest
      BY <1>0, <2>1, <2>2, <3>1 DEF Continue, WriteWatchedHasData, ReadsRestored
    <3>2. CASE sched'[y] # <<>> /\ WatchWrite(y)
      <4>1. interest'[y] = WriteMask /\ interest'[x] = ClosedMask
        BY <1>0, <3>2, WatchFacts
      <4> QED
        BY <1>0, <3>2, <4>1, MaskFacts DEF WriteWatchedHasData, ReadsRestored
    <3> QED
      BY <2>1, <3>1, <3>2
  <2> QED
    BY <2>6, <2>7 DEF Typed
<1> QED
  BY <1>2, <1>3

LEMMA OverScheduledTyped ==
    ASSUME Typed, NEW x \in Sides, ForwardOverScheduled(x)
    PROVE  Typed'
<1> DEFINE y == Other(x)
           buf == Taken(inbox[x], BufSize)
           s == sched[y]
           n == Smaller(Room(y), Len(s))
<1>0. /\ TypeOK /\ WriteWatchedHasData /\ ReadsRestored
      /\ y \in Sides /\ Other(y) = x /\ y # x
      /\ \A z \in Sides : z = y \/ z = x
  BY SideFacts DEF Typed
<1>1. /\ inbox' \in [Sides -> Seq(Bytes)]
      /\ buf \in Seq(Bytes)
  BY <1>0, ReceivedTyped DEF ForwardOverScheduled
<1>2. CASE SendFails(y)
  <2>1. SessionTyped' /\ status' \in {"closed", "killed"} /\ UNCHANGED out
    BY <1>0, <1>2, SendFailsTyped
  <2>2. KernelTyped'
    BY <1>0, <1>1, <2>1 DEF ForwardOverScheduled, TypeOK, KernelTyped
  <2>3. WriteWatchedHasData' /\ ReadsRestored'
    BY <2>1, OverShape
  <2> QED
    BY <2>1, <2>2, <2>3, TypeParts DEF Typed, TypeOK, SessionTyped, KernelTyped
<1>3. CASE ~SendFails(y)
  <2>1. /\ Sends(y, s)
        /\ Continue
        /\ UNCHANGED crossed
        /\ \/ sched' = [sched EXCEPT ![y] = <<>>] /\ WatchRead
           \/ /\ n # Len(s)
              /\ sched' = [sched EXCEPT ![y] =
                              IF n = 0 THEN s ELSE Overwritten(buf, n, Len(s) - n)]
              /\ UNCHANGED interest
    BY <1>3 DEF ForwardOverScheduled
  <2>2. status = "up" /\ batch # <<>> /\ s # <<>>
    BY DEF ForwardOverScheduled, Event
  <2>3. /\ s \in Seq(Bytes) /\ Len(s) \in Nat /\ Room(y) \in Nat /\ Len(s) <= BufSize
        /\ n \in Nat /\ n <= Len(s)
    <3>1. s \in Seq(Bytes) /\ Len(s) \in Nat /\ Room(y) \in Nat /\ Len(s) <= BufSize
      BY <1>0, SideTypes DEF TypeOK
    <3> QED
      BY <3>1, SmallerFacts
  <2>4. /\ out' \in [Sides -> Seq(Bytes)]
        /\ \A z \in Sides : Len(out'[z]) <= SndBuf
    BY <1>0, <2>1, <2>3, SendsTyped
  <2>5. batch' \in Seq(Sides \X SUBSET Flags)
    BY <1>0, <2>1, <2>2, ContinueTyped
  <2>6. interest' \in [Sides -> Masks]
    BY <1>0, <2>1, WatchFacts DEF TypeOK
  <2> DEFINE k == IF n = 0 THEN s ELSE Overwritten(buf, n, Len(s) - n)
  <2>7. n # Len(s) => k \in Seq(Bytes) /\ Len(k) <= BufSize /\ k # <<>>
    <3> SUFFICES ASSUME n # Len(s)
                 PROVE  k \in Seq(Bytes) /\ Len(k) <= BufSize /\ k # <<>>
      OBVIOUS
    <3>1. CASE n = 0
      BY <2>2, <2>3, <3>1
    <3>2. CASE n # 0
      <4> DEFINE o == Overwritten(buf, n, Len(s) - n)
      <4> HIDE DEF n, s
      <4>1. Len(s) - n \in Nat /\ Len(s) - n # 0 /\ Len(s) - n <= BufSize
        BY <2>3, ConstantFacts
      <4>2. o \in Seq(Bytes) /\ Len(o) = Len(s) - n
        BY <1>1, <2>3, <4>1, OverwrittenTyped
      <4>3. Len(<<>>) = 0
        BY EmptySeq
      <4> HIDE DEF o
      <4>4. o # <<>> /\ Len(o) <= BufSize
        BY <4>1, <4>2, <4>3
      <4> QED
        BY <3>2, <4>2, <4>4 DEF o
    <3> QED
      BY <3>1, <3>2
  <2>8. /\ sched' \in [Sides -> Seq(Bytes)]
        /\ \A z \in Sides : Len(sched'[z]) <= BufSize
    <3>1. <<>> \in Seq(Bytes) /\ Len(<<>>) <= BufSize
      BY EmptySeq, ConstantFacts
    <3>2. PICK v \in Seq(Bytes) : Len(v) <= BufSize /\ sched' = [sched EXCEPT ![y] = v]
      BY <2>1, <2>7, <3>1
    <3>3. sched \in [Sides -> Seq(Bytes)] /\ \A z \in Sides : Len(sched[z]) <= BufSize
      BY <1>0 DEF TypeOK
    <3>4. \A z \in Sides : sched'[z] = IF z = y THEN v ELSE sched[z]
      BY <3>2, <3>3
    <3>5. sched' \in [Sides -> Seq(Bytes)]
      BY <3>2, <3>3
    <3>6. \A z \in Sides : Len(sched'[z]) <= BufSize
      BY <3>2, <3>3, <3>4, <1>0
    <3> QED
      BY <3>5, <3>6
  <2>9. TypeOK'
    BY <1>0, <1>1, <2>1, <2>4, <2>5, <2>6, <2>8 DEF Continue, ForwardOverScheduled, TypeOK
  <2>10. WriteWatchedHasData' /\ ReadsRestored'
    <3>1. CASE WatchRead
      <4>1. \A z \in Sides : interest'[z] = ReadMask
        BY <3>1, WatchFacts
      <4> QED
        BY <1>0, <4>1, MaskFacts DEF WriteWatchedHasData, ReadsRestored
    <3>2. CASE n # Len(s) /\ UNCHANGED interest /\ sched' = [sched EXCEPT ![y] = k]
      <4>1. sched \in [Sides -> Seq(Bytes)]
        BY <1>0 DEF TypeOK
      <4> HIDE DEF k
      <4>2. sched'[y] # <<>> /\ sched'[x] = sched[x]
        BY <1>0, <2>7, <3>2, <4>1
      <4> QED
        BY <1>0, <2>2, <3>2, <4>2 DEF WriteWatchedHasData, ReadsRestored
    <3> QED
      BY <2>1, <3>1, <3>2
  <2> QED
    BY <2>9, <2>10 DEF Typed
<1> QED
  BY <1>2, <1>3

\* What Flush does when send() does not fail
LEMMA FlushKeeps ==
    ASSUME TypeOK, NEW y \in Sides, Flush(y), ~SendFails(y)
    PROVE  /\ Sends(y, sched[y])
           /\ UNCHANGED crossed
           /\ \/ /\ sched[y] # <<>> /\ Room(y) >= Len(sched[y])
                 /\ Continue /\ WatchRead
                 /\ sched' = [sched EXCEPT ![y] = <<>>]
              \/ /\ sched[y] # <<>> /\ ~(Room(y) >= Len(sched[y]))
                 /\ Room(y) = 0 /\ Continue /\ UNCHANGED <<sched, interest>>
              \/ /\ ~(sched[y] # <<>> /\ Room(y) >= Len(sched[y]))
                 /\ Die("crashed")
BY DEF Flush

LEMMA FlushTyped ==
    ASSUME Typed, NEW y \in Sides, Flush(y)
    PROVE  Typed'
<1>0. /\ TypeOK /\ WriteWatchedHasData /\ ReadsRestored
      /\ status = "up" /\ batch # <<>>
      /\ UNCHANGED <<peer, inbox, wrote, got>>
  BY DEF Typed, Flush, Event
<1>1. CASE SendFails(y)
  <2>1. SessionTyped' /\ status' \in {"closed", "killed"} /\ UNCHANGED out
    BY <1>0, <1>1, SendFailsTyped
  <2>2. KernelTyped'
    BY <1>0, <2>1 DEF TypeOK, KernelTyped
  <2>3. WriteWatchedHasData' /\ ReadsRestored'
    BY <2>1, OverShape
  <2> QED
    BY <2>1, <2>2, <2>3, TypeParts DEF Typed, TypeOK, SessionTyped, KernelTyped
<1>2. CASE ~SendFails(y)
  <2>1. /\ Sends(y, sched[y])
        /\ UNCHANGED crossed
        /\ \/ Continue /\ WatchRead /\ sched' = [sched EXCEPT ![y] = <<>>]
           \/ Continue /\ UNCHANGED <<sched, interest>>
           \/ Die("crashed")
    BY <1>0, <1>2, FlushKeeps
  <2>2. sched[y] \in Seq(Bytes)
    BY <1>0, SideTypes
  <2>3. /\ out' \in [Sides -> Seq(Bytes)]
        /\ \A z \in Sides : Len(out'[z]) <= SndBuf
    BY <1>0, <2>1, <2>2, SendsTyped
  <2>4. KernelTyped'
    BY <1>0, <2>3 DEF TypeOK, KernelTyped
  <2>5. CASE Die("crashed")
    <3>1. SessionTyped' /\ status' = "crashed"
      BY <1>0, <2>5, DieTyped
    <3>2. WriteWatchedHasData' /\ ReadsRestored'
      BY <3>1, OverShape
    <3> QED
      BY <2>4, <3>1, <3>2 DEF Typed, TypeOK, SessionTyped, KernelTyped
  <2>6. CASE Continue /\ WatchRead /\ sched' = [sched EXCEPT ![y] = <<>>]
    <3>1. batch' \in Seq(Sides \X SUBSET Flags)
      BY <1>0, <2>6, ContinueTyped
    <3>2. interest' \in [Sides -> Masks] /\ \A z \in Sides : interest'[z] = ReadMask
      BY <2>6, WatchFacts
    <3>3. sched \in [Sides -> Seq(Bytes)] /\ \A z \in Sides : Len(sched[z]) <= BufSize
      BY <1>0 DEF TypeOK
    <3>4. <<>> \in Seq(Bytes) /\ Len(<<>>) <= BufSize
      BY EmptySeq, ConstantFacts
    <3>5. sched' \in [Sides -> Seq(Bytes)] /\ \A z \in Sides : Len(sched'[z]) <= BufSize
      BY <2>6, <3>3, <3>4
    <3>6. SessionTyped'
      BY <1>0, <2>1, <2>6, <3>1, <3>2, <3>5 DEF Continue, TypeOK, SessionTyped
    <3>7. WriteWatchedHasData' /\ ReadsRestored'
      BY <3>2, MaskFacts, SideFacts DEF WriteWatchedHasData, ReadsRestored, Sides
    <3> QED
      BY <2>4, <3>6, <3>7 DEF Typed, TypeOK, SessionTyped, KernelTyped
  <2>7. CASE Continue /\ UNCHANGED <<sched, interest>>
    <3>1. batch' \in Seq(Sides \X SUBSET Flags)
      BY <1>0, <2>7, ContinueTyped
    <3>2. SessionTyped'
      BY <1>0, <2>1, <2>7, <3>1 DEF Continue, TypeOK, SessionTyped
    <3>3. WriteWatchedHasData' /\ ReadsRestored'
      BY <1>0, <2>7 DEF Continue, WriteWatchedHasData, ReadsRestored
    <3> QED
      BY <2>4, <3>2, <3>3 DEF Typed, TypeOK, SessionTyped, KernelTyped
  <2> QED
    BY <2>1, <2>5, <2>6, <2>7
<1> QED
  BY <1>1, <1>2

LEMMA NextTyped == Typed /\ [Next]_vars => Typed'
<1> SUFFICES ASSUME Typed, [Next]_vars PROVE Typed'
  OBVIOUS
<1>0. TypeOK /\ WriteWatchedHasData /\ ReadsRestored
  BY DEF Typed
<1>1. CASE UNCHANGED vars
  <2>1. KernelTyped' /\ UNCHANGED session
    BY <1>0, <1>1 DEF vars, session, TypeOK, KernelTyped
  <2> QED
    BY <2>1, SameSession DEF Typed, TypeOK, SessionTyped, KernelTyped
<1>2. CASE Poll
  <2>1. KernelTyped'
    BY <1>0, <1>2 DEF Poll, TypeOK, KernelTyped
  <2>2. SessionTyped'
    BY <1>0, <1>2, PollTyped
  <2>3. WriteWatchedHasData' /\ ReadsRestored'
    BY <1>0, <1>2 DEF Poll, WriteWatchedHasData, ReadsRestored
  <2> QED
    BY <2>1, <2>2, <2>3 DEF Typed, TypeOK, SessionTyped, KernelTyped
<1>3. ASSUME NEW x \in Sides,
             PeerWrites(x) \/ PeerShutsDown(x) \/ PeerResets(x) \/ PeerReads(x)
      PROVE  Typed'
  <2>1. KernelTyped' /\ UNCHANGED session
    BY <1>0, <1>3, PeersTyped
  <2> QED
    BY <2>1, SameSession DEF Typed, TypeOK, SessionTyped, KernelTyped
<1>4. ASSUME NEW x \in Sides, HangsUp(x) \/ RecvEnds(x)
      PROVE  Typed'
  <2>1. KernelTyped'
    BY <1>0, <1>4 DEF HangsUp, RecvEnds, TypeOK, KernelTyped
  <2>2. \E why \in {"none", "hangup", "error"} \cup Sides : Close(why)
    BY <1>4 DEF HangsUp, RecvEnds
  <2>3. SessionTyped' /\ status' = "closed"
    BY <1>0, <2>2, CloseTyped
  <2>4. WriteWatchedHasData' /\ ReadsRestored'
    BY <2>3, OverShape
  <2> QED
    BY <2>1, <2>3, <2>4 DEF Typed, TypeOK, SessionTyped, KernelTyped
<1> QED
  BY <1>1, <1>2, <1>3, <1>4, ForwardTyped, OverScheduledTyped, FlushTyped
     DEF Next, Dispatch

\* TypeOK: the variables keep their types for all buffer sizes; in particular
\* no send buffer and no scheduled buffer outgrows its capacity (what
\* _session_socket_send() and copy_from() leave behind).
THEOREM RelayTypeOK == Spec => []TypeOK
<1>1. Typed => TypeOK
  BY DEF Typed
<1> QED
  BY <1>1, InitTyped, NextTyped, PTL DEF Spec

\* WriteWatchedHasData: whenever _session_socket_send() leaves a socket watched
\* for Write, it has bytes scheduled for it, for any batch of events.
THEOREM RelayWriteWatchedHasData == Spec => []WriteWatchedHasData
<1>1. Typed => WriteWatchedHasData
  BY DEF Typed
<1> QED
  BY <1>1, InitTyped, NextTyped, PTL DEF Spec

\* ReadsRestored: when nothing is scheduled any more, _session_socket_send() has
\* both sockets watched for Read again, whatever was scheduled in which order.
THEOREM RelayReadsRestored == Spec => []ReadsRestored
<1>1. Typed => ReadsRestored
  BY DEF Typed
<1> QED
  BY <1>1, InitTyped, NextTyped, PTL DEF Spec

-----------------------------------------------------------------------------
(***************************************************************************)
(* A Write event is dispatched in the state that it reports; so that where *)
(* a writable socket takes a whole buffer, the process survives.           *)
(***************************************************************************)
Roomy == LowWater >= BufSize

HangUp(event) == event[2] \cap {"Closed", "Error"} # {}
AsksWrite(event) == ~HangUp(event) /\ "Write" \in event[2]

\* A flush of y has bytes to send, and room for them.
Ready(y) ==
    /\ sched[y] # <<>>
    /\ interest[y] = WriteMask
    /\ Gone(y) \/ Room(y) >= LowWater

\* A Write event that is still to be dispatched finds what it says; only a hang-up,
\* which ends the session, comes before it.
WritesReady ==
    status = "up" =>
        \A i \in 1..Len(batch) : AsksWrite(batch[i]) =>
            Ready(batch[i][1]) /\ (i = 1 \/ HangUp(batch[1]))

LEMMA InitReady == Init => WritesReady
<1>1. Len(<<>>) = 0 /\ \A i \in 1..0 : FALSE
  BY EmptySeq
<1> QED
  BY <1>1 DEF Init, WritesReady

\* Where y is watched for Write, its source is watched for nothing: what poll()
\* reports of the source is a hang-up.
LEMMA PollReady ==
    ASSUME Typed, Poll
    PROVE  WritesReady'
<1>0. PICK n \in 1..Smaller(MaxBatch, 2) : \E b \in [1..n -> Sides] :
          /\ \A i, j \in 1..n : i # j => b[i] # b[j]
          /\ \A i \in 1..n : Pollable(interest[b[i]], Condition(b[i]))
          /\ batch' = [i \in 1..n |-> <<b[i], Reported(interest[b[i]], Condition(b[i]))>>]
  BY DEF Poll
<1>1. n \in Nat /\ 1 <= n
  BY ConstantFacts, SmallerFacts
<1>2. PICK b \in [1..n -> Sides] :
          /\ \A i, j \in 1..n : i # j => b[i] # b[j]
          /\ \A i \in 1..n : Pollable(interest[b[i]], Condition(b[i]))
          /\ batch' = [i \in 1..n |-> <<b[i], Reported(interest[b[i]], Condition(b[i]))>>]
  BY <1>0
<1>3. Len(batch') = n
  BY <1>1, <1>2
<1>4. status = "up" /\ UNCHANGED <<status, peer, out, sched, interest>>
  BY DEF Poll
<1> SUFFICES ASSUME NEW i \in 1..n, AsksWrite(batch'[i])
             PROVE  Ready(batch[i][1])' /\ (i = 1 \/ HangUp(batch'[1]))
  BY <1>3 DEF WritesReady
<1>5. PICK y \in Sides : y = b[i]
  BY <1>2
<1>6. /\ batch'[i][1] = y
      /\ batch'[i][2] = Reported(interest[y], Condition(y))
  BY <1>2, <1>5
<1>7. "Write" \in interest[y] /\ "Write" \in Condition(y)
  BY <1>6 DEF AsksWrite, Reported
<1>8. interest[y] = WriteMask
  <2>1. interest[y] \in {ReadMask, WriteMask, ClosedMask}
    BY SideTypes DEF Typed, Masks
  <2> QED
    BY <1>7, <2>1 DEF ReadMask, ClosedMask
<1>9. sched[y] # <<>> /\ interest[Other(y)] = ClosedMask
  BY <1>4, <1>8 DEF Typed, WriteWatchedHasData
<1>10. Gone(y) \/ Room(y) >= LowWater
  BY <1>7 DEF Condition
<1>11. Ready(batch[i][1])'
  BY <1>4, <1>6, <1>8, <1>9, <1>10 DEF Ready, Gone, Room
<1>12. i # 1 => HangUp(batch'[1])
  <2> SUFFICES ASSUME i # 1 PROVE HangUp(batch'[1])
    OBVIOUS
  <2>1. 1 \in 1..n /\ b[1] \in Sides /\ b[1] # y
    BY <1>1, <1>2, <1>5
  <2>2. b[1] = Other(y)
    BY <2>1, SideFacts
  <2>3. batch'[1][2] = Reported(ClosedMask, Condition(Other(y)))
    BY <1>2, <1>9, <2>1, <2>2
  <2>4. Reported(ClosedMask, Condition(Other(y))) # {}
    BY <1>2, <1>9, <2>1, <2>2 DEF Pollable
  <2> QED
    BY <2>3, <2>4 DEF HangUp, Reported, ClosedMask
<1> QED
  BY <1>11, <1>12

\* Bytes on their way to the peer of x
LEMMA ReadsKeep ==
    ASSUME TypeOK, NEW x \in Sides, PeerReads(x)
    PROVE  /\ got'[x] \o out'[x] = got[x] \o out[x]
           /\ got'[Other(x)] = got[Other(x)] /\ out'[Other(x)] = out[Other(x)]
           /\ \A z \in Sides : Room(z)' >= Room(z)
           /\ \A z \in Sides : Room(z) \in Nat /\ Room(z)' \in Int
<1>1. PICK n \in 1..Len(out[x]) :
          /\ got' = [got EXCEPT ![x] = @ \o SubSeq(out[x], 1, n)]
          /\ out' = [out EXCEPT ![x] = SubSeq(@, n + 1, Len(@))]
  BY DEF PeerReads
<1>2. /\ out[x] \in Seq(Bytes) /\ got[x] \in Seq(Bytes)
      /\ Len(out[x]) \in Nat /\ n \in 0..Len(out[x])
  BY SideTypes
<1> DEFINE a == SubSeq(out[x], 1, n)
           b == SubSeq(out[x], n + 1, Len(out[x]))
<1>3. /\ a \in Seq(Bytes) /\ b \in Seq(Bytes)
      /\ a \o b = out[x]
      /\ Len(b) = Len(out[x]) - n
  BY <1>2, CutAt
<1>4. got \in [Sides -> Seq(Bytes)] /\ out \in [Sides -> Seq(Bytes)]
  BY DEF TypeOK
<1>5. got' = [got EXCEPT ![x] = got[x] \o a] /\ out' = [out EXCEPT ![x] = b]
  BY <1>1, <1>4
<1> HIDE DEF a, b
<1>6. /\ got'[x] = got[x] \o a /\ out'[x] = b
      /\ \A z \in Sides : z # x => got'[z] = got[z] /\ out'[z] = out[z]
  BY <1>4, <1>5
<1>7. (got[x] \o a) \o b = got[x] \o (a \o b)
  <2>1. PICK g \in Seq(Bytes) : g = got[x]
    BY <1>2
  <2>2. (g \o a) \o b = g \o (a \o b)
    <3>1. a \in Seq(Bytes) /\ b \in Seq(Bytes)
      BY <1>3
    <3> QED
      BY <3>1, ConcatAssociative
  <2> QED
    BY <2>1, <2>2
<1>8. \A z \in Sides : Len(out'[z]) <= Len(out[z]) /\ Len(out[z]) \in Nat /\ Len(out'[z]) \in Nat
  <2> SUFFICES ASSUME NEW z \in Sides
               PROVE  Len(out'[z]) <= Len(out[z]) /\ Len(out[z]) \in Nat /\ Len(out'[z]) \in Nat
    OBVIOUS
  <2>1. Len(out[z]) \in Nat
    BY SideTypes
  <2>2. CASE z = x
    BY <1>2, <1>3, <1>6, <2>1, <2>2, LenProperties
  <2>3. CASE z # x
    BY <1>6, <2>1, <2>3
  <2> QED
    BY <2>2, <2>3
<1>9. \A z \in Sides : Room(z)' >= Room(z) /\ Room(z)' \in Int
  BY <1>8, ConstantFacts DEF Room
<1> QED
  BY <1>3, <1>6, <1>7, <1>9, SideFacts, SideTypes

\* The peers make room, or are gone.
LEMMA PeersReady ==
    ASSUME Typed, WritesReady, NEW x \in Sides,
           PeerWrites(x) \/ PeerShutsDown(x) \/ PeerResets(x) \/ PeerReads(x)
    PROVE  WritesReady'
<1>0. TypeOK
  BY DEF Typed
<1>1. UNCHANGED <<status, sched, interest, batch>>
  BY <1>0, PeersTyped DEF session
<1>2. \A z \in Sides : Gone(z) => Gone(z)'
  BY <1>0 DEF PeerWrites, PeerShutsDown, PeerResets, PeerReads, Gone, TypeOK
<1>3. \A z \in Sides : Room(z) \in Nat /\ Room(z)' \in Int /\ Room(z)' >= Room(z)
  <2>1. CASE PeerReads(x)
    BY <1>0, <2>1, ReadsKeep
  <2>2. CASE PeerWrites(x) \/ PeerShutsDown(x) \/ PeerResets(x)
    <3>1. UNCHANGED out
      BY <2>2 DEF PeerWrites, PeerShutsDown, PeerResets
    <3>2. \A z \in Sides : Room(z)' = Room(z) /\ Room(z) \in Nat
      BY <1>0, <3>1, SideTypes DEF Room
    <3> QED
      BY <3>2
  <2> QED
    BY <2>1, <2>2
<1>4. \A z \in Sides : Ready(z) => Ready(z)'
  <2> SUFFICES ASSUME NEW z \in Sides, Ready(z) PROVE Ready(z)'
    OBVIOUS
  <2>1. Room(z) >= LowWater => Room(z)' >= LowWater
    BY <1>3, ConstantFacts
  <2> QED
    BY <1>1, <1>2, <2>1 DEF Ready
<1> SUFFICES ASSUME status = "up", NEW i \in 1..Len(batch), AsksWrite(batch[i])
             PROVE  Ready(batch[i][1])' /\ (i = 1 \/ HangUp(batch[1]))
  BY <1>1 DEF WritesReady
<1>5. PICK y \in Sides : y = batch[i][1]
  <2>1. batch \in Seq(Sides \X SUBSET Flags)
    BY <1>0, Zenon DEF TypeOK
  <2>2. batch[i] \in Sides \X SUBSET Flags
    BY <2>1, ElementOfSeq, Zenon
  <2> QED
    BY <2>2
<1>6. Ready(y) /\ (i = 1 \/ HangUp(batch[1]))
  BY <1>5 DEF WritesReady
<1>7. Ready(y)'
  BY <1>4, <1>6
<1>8. Ready(batch[i][1])'
  BY <1>1, <1>5, <1>7 DEF Ready, Gone, Room
<1> QED
  BY <1>6, <1>8

\* After an event that was no hang-up no Write event is left.
LEMMA RestReady ==
    ASSUME Typed, WritesReady, batch # <<>>, ~HangUp(Head(batch)), Continue
    PROVE  WritesReady'
<1>1. batch \in Seq(Sides \X SUBSET Flags)
  BY DEF Typed, TypeOK
<1>2. /\ Len(batch') = Len(batch) - 1 /\ Len(batch) \in Nat /\ Len(batch) # 0
      /\ \A i \in 1..Len(batch') : batch'[i] = batch[i + 1]
      /\ Head(batch) = batch[1]
  BY <1>1, HeadTailProperties, LenProperties, EmptySeq DEF Continue
<1> SUFFICES ASSUME status = "up", NEW i \in 1..Len(batch'), AsksWrite(batch'[i])
             PROVE  FALSE
  BY DEF WritesReady, Continue
<1>3. i + 1 \in 1..Len(batch) /\ i + 1 # 1
  BY <1>2
<1>4. AsksWrite(batch[i + 1])
  BY <1>2
<1> QED
  BY <1>2, <1>3, <1>4 DEF WritesReady

LEMMA NextReady == Typed /\ WritesReady /\ [Next]_vars => WritesReady'
<1> SUFFICES ASSUME Typed, WritesReady, [Next]_vars PROVE WritesReady'
  OBVIOUS
<1>1. CASE UNCHANGED vars
  BY <1>1 DEF vars, WritesReady, Ready, Gone, Room
<1>2. CASE Poll
  BY <1>2, PollReady
<1>3. ASSUME NEW x \in Sides,
             PeerWrites(x) \/ PeerShutsDown(x) \/ PeerResets(x) \/ PeerReads(x)
      PROVE  WritesReady'
  BY <1>3, PeersReady
<1>4. ASSUME NEW x \in Sides, Dispatch(x)
      PROVE  WritesReady'
  <2>1. CASE status' # "up"
    BY <2>1 DEF WritesReady
  <2>2. CASE status' = "up"
    <3>1. /\ Forward(x) \/ ForwardOverScheduled(x) \/ Flush(x)
          /\ Continue
      BY <1>4, <2>2 DEF Dispatch, HangsUp, RecvEnds, Close, Forward,
                        ForwardOverScheduled, Flush, SendFails, Die
    <3>2. batch # <<>> /\ ~HangUp(Head(batch))
      BY <3>1 DEF Forward, ForwardOverScheduled, Flush, Event, HangUp
    <3> QED
      BY <3>1, <3>2, RestReady
  <2> QED
    BY <2>1, <2>2
<1> QED
  BY <1>1, <1>2, <1>3, <1>4 DEF Next

\* The flush is the only place where the process can crash.
LEMMA NextSurvives ==
    Roomy /\ Typed /\ WritesReady /\ NeverCrashes /\ [Next]_vars => NeverCrashes'
<1> SUFFICES ASSUME Roomy, Typed, WritesReady, NeverCrashes, [Next]_vars, status' = "crashed"
             PROVE  FALSE
  BY DEF NeverCrashes
<1>1. PICK y \in Sides : Flush(y) /\ ~SendFails(y)
  BY DEF Next, vars, Poll, PeerWrites, PeerShutsDown, PeerResets, PeerReads, session,
         Dispatch, HangsUp, RecvEnds, Forward, ForwardOverScheduled, Flush, Close, Die,
         SendFails, Continue, NeverCrashes
<1>2. /\ status = "up" /\ batch # <<>> /\ Head(batch)[1] = y /\ AsksWrite(Head(batch))
  BY <1>1 DEF Flush, Event, AsksWrite, HangUp
<1>3. batch \in Seq(Sides \X SUBSET Flags) /\ TypeOK
  BY DEF Typed, TypeOK
<1>4. Head(batch) = batch[1] /\ 1 \in 1..Len(batch)
  BY <1>2, <1>3, HeadTailProperties, LenProperties, EmptySeq
<1>5. Ready(y)
  BY <1>2, <1>4 DEF WritesReady
<1>6. ~Gone(y) /\ ~(sched[y] # <<>> /\ Room(y) >= Len(sched[y]))
  BY <1>1, <1>2, <1>3, FlushKeeps DEF Sends, Continue
<1>7. /\ Len(sched[y]) \in Nat /\ Room(y) \in Nat
      /\ Len(sched[y]) <= BufSize
  BY <1>3, SideTypes DEF TypeOK
<1> QED
  BY <1>5, <1>6, <1>7, ConstantFacts DEF Ready, Roomy

\* NeverCrashes: a flush never falls short, so that the null buffer of a Write
\* event is never read, for any number of events in a batch, if a socket that is
\* reported writable takes what one recv() returns.
THEOREM RelayNeverCrashes == Roomy /\ Spec => []NeverCrashes
<1> DEFINE I == Roomy /\ Typed /\ WritesReady /\ NeverCrashes
<1>1. Roomy /\ Init => I
  BY InitTyped, InitReady DEF Init, NeverCrashes
<1>2. Roomy => Roomy'
  BY DEF Roomy
<1>3. I /\ [Next]_vars => I'
  BY <1>2, NextTyped, NextReady, NextSurvives
<1>4. I => NeverCrashes
  OBVIOUS
<1> QED
  BY <1>1, <1>3, <1>4, PTL DEF Spec

-----------------------------------------------------------------------------
(***************************************************************************)
(* Until both directions are scheduled in one batch: nothing is lost.      *)
(***************************************************************************)
Ended == cause \in Sides => status # "up"

\* poll() returns one event for each socket.
OneEach == \A i, j \in 1..Len(batch) : i # j => batch[i][1] # batch[j][1]

\* Where a Read event is still to be dispatched, nothing is scheduled for the
\* side that its bytes go to.
AsksRead(event) == ~HangUp(event) /\ "Write" \notin event[2]

ReadsReady ==
    status = "up" =>
        \A i \in 1..Len(batch) :
            AsksRead(batch[i]) => sched[Other(batch[i][1])] = <<>>

Whole == Ended /\ ReadsReady /\ ScheduledIsWatched /\ Fifo /\ EofDelivered

Straight == Ended /\ OneEach /\ (~crossed => Whole)

LEMMA InitStraight == Init => Straight
<1> SUFFICES ASSUME Init PROVE Straight
  OBVIOUS
<1>1. <<>> \in Seq(Bytes) /\ <<>> \o <<>> = <<>> /\ Len(<<>>) = 0
  BY EmptySeq, ConcatEmptySeq
<1>2. Fifo
  <2> SUFFICES ASSUME NEW x \in Sides
               PROVE  wrote[x] = got[Other(x)] \o out[Other(x)]
                                    \o sched[Other(x)] \o inbox[x]
    BY DEF Fifo
  <2>1. /\ wrote[x] = <<>> /\ inbox[x] = <<>> /\ got[Other(x)] = <<>>
        /\ out[Other(x)] = <<>> /\ sched[Other(x)] = <<>>
    BY SideFacts DEF Init
  <2> QED
    BY <1>1, <2>1
<1>3. cause \notin Sides
  BY DEF Init, Sides
<1>4. OneEach /\ ReadsReady
  BY <1>1 DEF Init, OneEach, ReadsReady
<1> QED
  BY <1>2, <1>3, <1>4 DEF Init, Straight, Whole, ScheduledIsWatched, Ended, EofDelivered

\* In a session that is watched for Read nothing is scheduled.
LEMMA ReadingIsEmpty ==
    ASSUME Typed, ScheduledIsWatched, status = "up",
           NEW x \in Sides, interest[x] = ReadMask
    PROVE  sched[x] = <<>> /\ sched[Other(x)] = <<>>
<1>1. sched[x] = <<>>
  BY MaskFacts DEF ScheduledIsWatched
<1>2. sched[Other(x)] = <<>>
  <2> SUFFICES ASSUME sched[Other(x)] # <<>> PROVE FALSE
    OBVIOUS
  <2>1. interest[Other(x)] = WriteMask
    BY SideFacts DEF ScheduledIsWatched
  <2>2. interest[x] = ClosedMask
    BY <2>1, SideFacts DEF Typed, WriteWatchedHasData
  <2> QED
    BY <2>2, MaskFacts
<1> QED
  BY <1>1, <1>2

\* Bytes are received where nothing is scheduled for their way.
LEMMA ReadEvent ==
    ASSUME Typed, Whole, NEW x \in Sides, Event(x, "read")
    PROVE  status = "up" /\ batch # <<>> /\ sched[Other(x)] = <<>>
<1>1. /\ status = "up" /\ batch # <<>> /\ Head(batch)[1] = x
      /\ AsksRead(Head(batch))
  BY DEF Event, AsksRead, HangUp
<1>2. batch \in Seq(Sides \X SUBSET Flags)
  BY DEF Typed, TypeOK
<1>3. Head(batch) = batch[1] /\ 1 \in 1..Len(batch)
  BY <1>1, <1>2, HeadTailProperties, LenProperties, EmptySeq
<1> QED
  BY <1>1, <1>3 DEF Whole, ReadsReady

\* Bytes are flushed where some are scheduled.
LEMMA WriteEvent ==
    ASSUME Typed, WritesReady, NEW y \in Sides, Event(y, "write")
    PROVE  /\ status = "up" /\ batch # <<>>
           /\ sched[y] # <<>> /\ interest[Other(y)] = ClosedMask
<1>1. /\ status = "up" /\ batch # <<>> /\ Head(batch)[1] = y
      /\ AsksWrite(Head(batch))
  BY DEF Event, AsksWrite, HangUp
<1>2. batch \in Seq(Sides \X SUBSET Flags)
  BY DEF Typed, TypeOK
<1>3. Head(batch) = batch[1] /\ 1 \in 1..Len(batch)
  BY <1>1, <1>2, HeadTailProperties, LenProperties, EmptySeq
<1>4. Ready(y)
  BY <1>1, <1>3 DEF WritesReady
<1> QED
  BY <1>1, <1>4 DEF Ready, Typed, WriteWatchedHasData

\* A session that is over has only EofDelivered left to keep.
LEMMA OverWhole ==
    ASSUME status' # "up", EofDelivered'
    PROVE  Whole'
BY DEF Whole, ReadsReady, ScheduledIsWatched, Fifo, Ended

LEMMA SendFailsWhole ==
    ASSUME Typed, Whole, status = "up", NEW y \in Sides, SendFails(y)
    PROVE  Whole'
<1>1. /\ status' \in {"closed", "killed"}
      /\ status' = "closed" => cause' = "error"
      /\ status' = "killed" => cause' = cause
  BY SendFailsTyped DEF Typed
<1>2. cause \notin Sides
  BY DEF Whole, Ended
<1>3. cause' \notin Sides
  BY <1>1, <1>2 DEF Sides
<1> QED
  BY <1>1, <1>3, OverWhole DEF EofDelivered

\* poll() reports bytes to read only of a socket that is watched for Read.
LEMMA PollWhole ==
    ASSUME Typed, ~crossed, Whole, Poll
    PROVE  Whole'
<1>1. PICK n \in 1..Smaller(MaxBatch, 2) : \E b \in [1..n -> Sides] :
          /\ \A i \in 1..n : Pollable(interest[b[i]], Condition(b[i]))
          /\ batch' = [i \in 1..n |-> <<b[i], Reported(interest[b[i]], Condition(b[i]))>>]
  BY DEF Poll
<1>2. PICK b \in [1..n -> Sides] :
          /\ \A i \in 1..n : Pollable(interest[b[i]], Condition(b[i]))
          /\ batch' = [i \in 1..n |-> <<b[i], Reported(interest[b[i]], Condition(b[i]))>>]
  BY <1>1
<1>3. n \in Nat /\ Len(batch') = n
  BY <1>2, ConstantFacts, SmallerFacts
<1>4. /\ UNCHANGED <<status, cause, peer, inbox, out, sched, interest, wrote, got, crossed>>
      /\ status = "up"
  BY DEF Poll
<1>5. ReadsReady'
  <2> SUFFICES ASSUME NEW i \in 1..n, AsksRead(batch'[i])
               PROVE  sched[Other(batch'[i][1])] = <<>>
    BY <1>3, <1>4 DEF ReadsReady
  <2>1. PICK x \in Sides : x = b[i]
    BY <1>2
  <2>2. PICK f : f = Reported(interest[x], Condition(x))
    OBVIOUS
  <2>3. batch'[i][1] = x /\ batch'[i][2] = f
    BY <1>2, <2>1, <2>2
  <2>4. f # {} /\ f \subseteq interest[x] \cup {"Closed", "Error"}
    BY <1>2, <2>1, <2>2 DEF Pollable, Reported
  <2>5. f \cap {"Closed", "Error"} = {} /\ "Write" \notin f
    BY <2>3 DEF AsksRead, HangUp
  <2>6. \E e \in f : e \in interest[x] /\ e \notin {"Closed", "Error", "Write"}
    BY <2>4, <2>5
  <2>7. interest[x] \in {ReadMask, WriteMask, ClosedMask}
    BY SideTypes DEF Typed, Masks
  <2>8. interest[x] = ReadMask
    BY <2>6, <2>7 DEF WriteMask, ClosedMask
  <2>9. sched[Other(x)] = <<>>
    BY <1>4, <2>8, ReadingIsEmpty DEF Whole
  <2> QED
    BY <2>3, <2>9
<1>6. ScheduledIsWatched' /\ Fifo' /\ Ended' /\ EofDelivered'
  BY <1>4 DEF Whole, ScheduledIsWatched, Fifo, Ended, EofDelivered
<1> QED
  BY <1>5, <1>6 DEF Whole

LEMMA PeersWhole ==
    ASSUME Typed, ~crossed, Whole, NEW x \in Sides,
           PeerWrites(x) \/ PeerShutsDown(x) \/ PeerResets(x) \/ PeerReads(x)
    PROVE  Whole'
<1>0. /\ TypeOK /\ ReadsReady /\ ScheduledIsWatched
      /\ Fifo /\ Ended /\ EofDelivered /\ ~crossed
  BY DEF Typed, Whole
<1>1. UNCHANGED <<status, cause, sched, interest, batch, crossed>>
  BY <1>0, PeersTyped DEF session
<1>2. ReadsReady' /\ ScheduledIsWatched' /\ Ended'
  BY <1>0, <1>1 DEF ReadsReady, ScheduledIsWatched, Ended
<1>3. CASE PeerShutsDown(x) \/ PeerResets(x)
  <2>1. UNCHANGED <<inbox, out, wrote, got>>
    BY <1>3 DEF PeerShutsDown, PeerResets
  <2>2. Fifo' /\ EofDelivered'
    BY <1>0, <1>1, <2>1 DEF Fifo, EofDelivered
  <2> QED
    BY <1>2, <2>2 DEF Whole
<1>4. CASE PeerWrites(x)
  <2>1. UNCHANGED <<out, got>> /\ status = "up"
    BY <1>4 DEF PeerWrites
  <2>2. EofDelivered'
    BY <1>0, <1>1, <2>1 DEF EofDelivered, Ended
  <2>3. Fifo'
    <3> DEFINE e == Len(wrote[x]) + 1
    <3>1. /\ wrote' = [wrote EXCEPT ![x] = Append(wrote[x], e)]
          /\ inbox' = [inbox EXCEPT ![x] = Append(inbox[x], e)]
      BY <1>0, <1>4 DEF PeerWrites, TypeOK
    <3>2. e \in Bytes
      BY <1>0, <1>4, SideTypes, ConstantFacts DEF PeerWrites, Bytes
    <3> HIDE DEF e
    <3>3. /\ wrote'[x] = Append(wrote[x], e) /\ inbox'[x] = Append(inbox[x], e)
          /\ \A z \in Sides : z # x => wrote'[z] = wrote[z] /\ inbox'[z] = inbox[z]
      BY <1>0, <3>1 DEF TypeOK
    <3> SUFFICES ASSUME NEW z \in Sides
                 PROVE  wrote'[z] = got[Other(z)] \o out[Other(z)]
                                       \o sched[Other(z)] \o inbox'[z]
      BY <1>1, <2>1 DEF Fifo
    <3>4. wrote[z] = got[Other(z)] \o out[Other(z)] \o sched[Other(z)] \o inbox[z]
      BY <1>0, <2>1 DEF Fifo
    <3>5. CASE z # x
      BY <3>3, <3>4, <3>5
    <3>6. CASE z = x
      <4> DEFINE a == got[Other(x)] \o out[Other(x)] \o sched[Other(x)]
      <4>1. a \in Seq(Bytes)
        BY <1>0, SideFacts, SideTypes, Concat3
      <4>2. wrote[x] = a \o inbox[x]
        BY <3>4, <3>6
      <4>3. inbox[x] \in Seq(Bytes)
        BY <1>0, SideTypes
      <4> HIDE DEF a
      <4>4. Append(a \o inbox[x], e) = a \o Append(inbox[x], e)
        <5>1. PICK i \in Seq(Bytes) : i = inbox[x]
          BY <4>3
        <5>2. PICK c \in Seq(Bytes), d \in Bytes : c = a /\ d = e
          BY <3>2, <4>1
        <5>3. Append(c \o i, d) = c \o Append(i, d)
          <6>1. c \o i \in Seq(Bytes) /\ <<d>> \in Seq(Bytes)
            BY ConcatProperties
          <6>2. Append(c \o i, d) = (c \o i) \o <<d>>
            BY <6>1, AppendIsConcat
          <6>3. Append(i, d) = i \o <<d>>
            BY AppendIsConcat
          <6> QED
            BY <6>1, <6>2, <6>3, ConcatAssociative
        <5> QED
          BY <5>1, <5>2, <5>3
      <4>5. wrote'[x] = a \o inbox'[x]
        BY <3>3, <4>2, <4>4
      <4> QED
        BY <3>6, <4>5 DEF a
    <3> QED
      BY <3>5, <3>6
  <2> QED
    BY <1>2, <2>2, <2>3 DEF Whole
<1>5. CASE PeerReads(x)
  <2>1. UNCHANGED <<inbox, wrote, peer>>
    BY <1>5 DEF PeerReads
  <2>2. /\ got'[x] \o out'[x] = got[x] \o out[x]
        /\ got'[Other(x)] = got[Other(x)] /\ out'[Other(x)] = out[Other(x)]
        /\ \A z \in Sides : Room(z)' >= Room(z)
        /\ \A z \in Sides : Room(z) \in Nat /\ Room(z)' \in Int
    BY <1>0, <1>5, ReadsKeep
  <2>3. \A z \in Sides : got'[z] \o out'[z] = got[z] \o out[z]
    BY <2>2, SideFacts
  <2>4. Fifo'
    BY <1>0, <1>1, <2>1, <2>3, SideFacts DEF Fifo
  <2>5. EofDelivered'
    BY <1>0, <1>1, <2>1, <2>3, SideFacts DEF EofDelivered
  <2> QED
    BY <1>2, <2>4, <2>5 DEF Whole
<1> QED
  BY <1>3, <1>4, <1>5

LEMMA Assoc == \A a, b, c \in Seq(Bytes) : (a \o b) \o c = a \o (b \o c)
BY ConcatAssociative

\* What is on its way to x within the session and the kernel
InTransit(x) == out[x] \o sched[x] \o inbox[Other(x)]

\* A step that moves bytes only within the session and the kernel
MovesWithin ==
    /\ status = "up" /\ status' = "up"
    /\ UNCHANGED <<wrote, got>>
    /\ \A x \in Sides : InTransit(x)' = InTransit(x)

LEMMA TransitKeepsFifo ==
    ASSUME TypeOK, KernelTyped', SessionTyped', ~crossed, Fifo, MovesWithin
    PROVE  Fifo'
<1> SUFFICES ASSUME NEW x \in Sides
             PROVE  wrote'[x] = got'[Other(x)] \o out'[Other(x)]
                                   \o sched'[Other(x)] \o inbox'[x]
  BY DEF Fifo
<1>1. PICK y \in Sides : y = Other(x) /\ Other(y) = x
  BY SideFacts
<1>2. got[y] \o out[y] \o sched[y] \o inbox[x] = got[y] \o InTransit(y)
  <2>1. PICK g \in Seq(Bytes), o \in Seq(Bytes), s \in Seq(Bytes), i \in Seq(Bytes) :
            g = got[y] /\ o = out[y] /\ s = sched[y] /\ i = inbox[x]
    BY SideTypes
  <2>2. PICK m \in Seq(Bytes) : m = o \o s
    BY ConcatProperties
  <2>3. (g \o o) \o s = g \o (o \o s)
    BY Assoc, Zenon
  <2>4. (g \o m) \o i = g \o (m \o i)
    BY Assoc, Zenon
  <2>5. got[y] \o out[y] \o sched[y] \o inbox[x] = ((g \o o) \o s) \o i
    BY <2>1
  <2>6. got[y] \o InTransit(y) = g \o ((o \o s) \o i)
    BY <1>1, <2>1 DEF InTransit
  <2> QED
    BY <2>2, <2>3, <2>4, <2>5, <2>6
<1>3. got'[y] \o out'[y] \o sched'[y] \o inbox'[x] = got'[y] \o InTransit(y)'
  <2>1. PICK g \in Seq(Bytes), o \in Seq(Bytes), s \in Seq(Bytes), i \in Seq(Bytes) :
            g = got'[y] /\ o = out'[y] /\ s = sched'[y] /\ i = inbox'[x]
    BY DEF KernelTyped, SessionTyped
  <2>2. PICK m \in Seq(Bytes) : m = o \o s
    BY ConcatProperties
  <2>3. (g \o o) \o s = g \o (o \o s)
    BY Assoc, Zenon
  <2>4. (g \o m) \o i = g \o (m \o i)
    BY Assoc, Zenon
  <2>5. got'[y] \o out'[y] \o sched'[y] \o inbox'[x] = ((g \o o) \o s) \o i
    BY <2>1
  <2>6. got'[y] \o InTransit(y)' = g \o ((o \o s) \o i)
    BY <1>1, <2>1 DEF InTransit
  <2> QED
    BY <2>2, <2>3, <2>4, <2>5, <2>6
<1>4. wrote[x] = got[y] \o out[y] \o sched[y] \o inbox[x]
  BY <1>1 DEF Fifo, MovesWithin
<1>5. wrote'[x] = wrote[x] /\ got'[y] = got[y] /\ InTransit(y)' = InTransit(y)
  BY DEF MovesWithin
<1> HIDE DEF InTransit
<1>6. wrote'[x] = got'[y] \o out'[y] \o sched'[y] \o inbox'[x]
  BY <1>2, <1>3, <1>4, <1>5
<1> QED
  BY <1>1, <1>6

\* recv(), send() and copy_from() only move bytes: what was received goes to the
\* send buffer as far as it fits and is scheduled for the rest.
LEMMA ForwardTransit ==
    ASSUME Typed, NEW x \in Sides, Forward(x), ~SendFails(Other(x))
    PROVE  \A z \in Sides : InTransit(z)' = InTransit(z)
<1>0. PICK y \in Sides : y = Other(x) /\ Other(y) = x /\ y # x
  BY SideFacts
<1>1. /\ TypeOK /\ sched[y] = <<>>
      /\ inbox' = [inbox EXCEPT ![x] = Left(@, BufSize)]
  BY <1>0 DEF Typed, Forward
<1>2. PICK b \in Seq(Bytes) : b = Taken(inbox[x], BufSize)
  BY <1>1, ReceivedTyped
<1>3. /\ inbox'[x] = Left(inbox[x], BufSize) /\ inbox'[y] = inbox[y]
      /\ inbox[x] = b \o Left(inbox[x], BufSize)
  BY <1>0, <1>1, <1>2, ReceivedTyped
<1>4. inbox'[x] \in Seq(Bytes)
  BY <1>1, ReceivedTyped
<1>5. PICK l \in Seq(Bytes) : l = inbox'[x] /\ inbox[x] = b \o l
  BY <1>3, <1>4
<1>6. Sends(y, b) /\ sched'[y] = Unsent(b, Room(y)) /\ sched'[x] = sched[x]
  BY <1>0, <1>1, <1>2, ForwardKeeps
<1>7. PICK r \in Nat : r = Room(y)
  BY <1>1, SideTypes
<1>8. out'[y] = out[y] \o Taken(b, r) /\ out'[x] = out[x]
  BY <1>0, <1>1, <1>6, <1>7, SendsTyped
<1>9. /\ Taken(b, r) \in Seq(Bytes) /\ Left(b, r) \in Seq(Bytes)
      /\ Taken(b, r) \o Left(b, r) = b
  BY Cut
<1>10. PICK t \in Seq(Bytes), u \in Seq(Bytes), o \in Seq(Bytes) :
           t = Taken(b, r) /\ u = Left(b, r) /\ o = out[y]
  BY <1>1, <1>9, SideTypes
<1>11. out'[y] \o sched'[y] \o inbox'[x] = ((o \o t) \o u) \o l
  BY <1>5, <1>6, <1>7, <1>8, <1>10 DEF Unsent
<1>12. ((o \o t) \o u) \o l = (o \o <<>>) \o (b \o l)
  <2>1. (o \o t) \o u = o \o (t \o u)
    BY Assoc, Zenon
  <2>2. t \o u = b
    BY <1>9, <1>10
  <2>3. (o \o b) \o l = o \o (b \o l)
    BY Assoc, Zenon
  <2>4. o \o <<>> = o
    BY ConcatEmptySeq
  <2> QED
    BY <2>1, <2>2, <2>3, <2>4
<1>13. InTransit(y)' = InTransit(y)
  <2>1. InTransit(y)' = ((o \o t) \o u) \o l
    BY <1>0, <1>11 DEF InTransit
  <2>2. InTransit(y) = (o \o <<>>) \o (b \o l)
    BY <1>0, <1>1, <1>5, <1>10 DEF InTransit
  <2> QED
    BY <1>12, <2>1, <2>2
<1>14. InTransit(x)' = InTransit(x)
  BY <1>0, <1>3, <1>6, <1>8 DEF InTransit
<1> QED
  BY <1>0, <1>13, <1>14, SideFacts

\* A send() moves scheduled bytes to the send buffer.
LEMMA FlushSends ==
    ASSUME Typed, NEW y \in Sides, Flush(y), ~SendFails(y)
    PROVE  /\ out'[y] = out[y] \o Taken(sched[y], Room(y))
           /\ out'[Other(y)] = out[Other(y)]
           /\ UNCHANGED inbox
<1>1. TypeOK /\ UNCHANGED inbox
  BY DEF Typed, Flush
<1>2. Sends(y, sched[y])
  BY <1>1, FlushKeeps
<1> QED
  BY <1>1, <1>2, SideTypes, SendsTyped

\* All of them, or none where nothing fits
LEMMA FlushTransit ==
    ASSUME Typed, NEW y \in Sides, Flush(y), ~SendFails(y), status' = "up"
    PROVE  /\ \A z \in Sides : InTransit(z)' = InTransit(z)
           /\ Continue
           /\ sched'[y] \in {<<>>, sched[y]} /\ sched'[Other(y)] = sched[Other(y)]
           /\ sched'[y] = <<>> \/ UNCHANGED interest
<1>0. PICK x \in Sides : x = Other(y) /\ Other(x) = y /\ y # x
  BY SideFacts
<1>1. /\ TypeOK /\ UNCHANGED inbox
      /\ sched \in [Sides -> Seq(Bytes)]
      /\ out'[y] = out[y] \o Taken(sched[y], Room(y))
      /\ out'[x] = out[x]
  BY <1>0, FlushSends DEF Typed, TypeOK
<1>2. PICK s \in Seq(Bytes), o \in Seq(Bytes), r \in Nat :
          s = sched[y] /\ o = out[y] /\ r = Room(y)
  BY <1>1, SideTypes
<1>3. out'[y] = o \o Taken(s, r)
  BY <1>1, <1>2
<1>4. /\ o \o s \in Seq(Bytes) /\ Len(s) \in Nat
      /\ (o \o s) \o <<>> = o \o s
      /\ o \o <<>> = o
  BY ConcatProperties, ConcatEmptySeq, LenProperties
<1>5. CASE /\ Room(y) >= Len(sched[y]) /\ Continue
           /\ sched' = [sched EXCEPT ![y] = <<>>]
  <2>1. sched'[y] = <<>> /\ sched'[x] = sched[x]
    BY <1>0, <1>1, <1>5
  <2>2. Taken(s, r) = s
    BY <1>2, <1>5, Cut
  <2>3. InTransit(y)' = InTransit(y)
    BY <1>1, <1>2, <1>3, <1>4, <2>1, <2>2 DEF InTransit
  <2>4. InTransit(x)' = InTransit(x)
    BY <1>0, <1>1, <2>1 DEF InTransit
  <2> QED
    BY <1>0, <1>5, <2>1, <2>3, <2>4, SideFacts
<1>6. CASE Room(y) = 0 /\ Continue /\ UNCHANGED <<sched, interest>>
  <2>1. Taken(s, 0) = <<>>
    <3>1. Taken(s, 0) \in Seq(Bytes) /\ Len(Taken(s, 0)) = Smaller(0, Len(s))
      BY Cut
    <3>2. Smaller(0, Len(s)) = 0
      BY <1>4, SmallerFacts
    <3> QED
      BY <3>1, <3>2, EmptySeq
  <2>2. out'[y] = out[y]
    BY <1>2, <1>3, <1>4, <1>6, <2>1
  <2>3. \A z \in Sides : InTransit(z)' = InTransit(z)
    BY <1>0, <1>1, <1>6, <2>2, SideFacts DEF InTransit
  <2> QED
    BY <1>6, <2>3
<1>7. ~Die("crashed")
  BY DEF Die
<1> QED
  BY <1>1, <1>5, <1>6, <1>7, FlushKeeps

\* A step that moves bytes along and keeps them watched
LEMMA KeepsWhole ==
    ASSUME Typed, ~crossed, Whole, Typed', MovesWithin, UNCHANGED cause,
           ReadsReady', ScheduledIsWatched'
    PROVE  Whole'
<1>1. /\ TypeOK /\ KernelTyped' /\ SessionTyped' /\ Fifo
      /\ status = "up" /\ status' = "up"
  BY DEF Typed, Whole, TypeOK, KernelTyped, SessionTyped, MovesWithin
<1>2. Fifo'
  BY <1>1, TransitKeepsFifo
<1>3. cause' \notin Sides
  BY <1>1 DEF Whole, Ended
<1> QED
  BY <1>1, <1>2, <1>3 DEF Whole, Ended, EofDelivered

LEMMA HangsUpWhole ==
    ASSUME NEW x \in Sides, HangsUp(x)
    PROVE  Whole'
<1>1. status' = "closed" /\ cause' = "hangup"
  BY DEF HangsUp, Close
<1>2. cause' \notin Sides
  BY <1>1 DEF Sides
<1> QED
  BY <1>1, <1>2, OverWhole DEF EofDelivered

LEMMA RecvEndsWhole ==
    ASSUME Typed, ~crossed, Whole, NEW x \in Sides, RecvEnds(x)
    PROVE  Whole'
<1>1. /\ status' = "closed" /\ cause' \in {"error", x}
      /\ UNCHANGED <<out, wrote, got>> /\ inbox[x] = <<>> /\ Event(x, "read")
  BY DEF RecvEnds, Close
<1>2. status = "up" /\ sched[Other(x)] = <<>>
  BY <1>1, ReadEvent
<1>3. wrote[x] = got[Other(x)] \o out[Other(x)]
  <2>1. PICK g \in Seq(Bytes), o \in Seq(Bytes) : g = got[Other(x)] /\ o = out[Other(x)]
    BY SideFacts, SideTypes DEF Typed
  <2>2. wrote[x] = g \o o \o <<>> \o <<>>
    BY <1>1, <1>2, <2>1 DEF Whole, Fifo
  <2>3. PICK m \in Seq(Bytes) : m = g \o o
    BY ConcatProperties
  <2>4. m \o <<>> = m
    BY ConcatEmptySeq
  <2> QED
    BY <2>1, <2>2, <2>3, <2>4
<1>4. EofDelivered'
  BY <1>1, <1>3 DEF EofDelivered, Sides
<1> QED
  BY <1>1, <1>4, OverWhole

\* New bytes do not arrive over scheduled ones.
LEMMA NeverOverScheduled ==
    ASSUME Typed, Whole, NEW x \in Sides
    PROVE  ~ForwardOverScheduled(x)
<1> SUFFICES ASSUME ForwardOverScheduled(x) PROVE FALSE
  OBVIOUS
<1>1. Event(x, "read") /\ sched[Other(x)] # <<>>
  BY DEF ForwardOverScheduled
<1> QED
  BY <1>1, ReadEvent

\* What is left of a batch after its first event
LEMMA RestOfBatch ==
    ASSUME Typed, batch # <<>>, Continue
    PROVE  /\ Len(batch') \in Nat /\ batch[1][1] = Head(batch)[1]
           /\ 1 \in 1..Len(batch)
           /\ \A i \in 1..Len(batch') :
                 i + 1 \in 1..Len(batch) /\ i + 1 # 1 /\ batch'[i] = batch[i + 1]
           /\ \A i \in 1..Len(batch) : batch[i][1] \in Sides
<1>1. batch \in Seq(Sides \X SUBSET Flags)
  BY DEF Typed, TypeOK
<1>2. /\ Len(batch') = Len(batch) - 1 /\ Len(batch) \in Nat /\ Len(batch) # 0
      /\ \A i \in 1..Len(batch') : batch'[i] = batch[i + 1]
      /\ Head(batch) = batch[1]
  BY <1>1, HeadTailProperties, LenProperties, EmptySeq DEF Continue
<1>3. \A i \in 1..Len(batch) : batch[i] \in Sides \X SUBSET Flags
  BY <1>1, ElementOfSeq
<1> QED
  BY <1>2, <1>3

LEMMA ForwardMoves ==
    ASSUME Typed, NEW x \in Sides, Forward(x), ~SendFails(Other(x))
    PROVE  MovesWithin /\ Continue
<1>1. status = "up" /\ UNCHANGED <<wrote, got>>
  BY DEF Forward, Event
<1>2. Continue
  BY ForwardKeeps DEF Typed
<1>3. \A z \in Sides : InTransit(z)' = InTransit(z)
  BY ForwardTransit
<1> QED
  BY <1>1, <1>2, <1>3 DEF Continue, MovesWithin

\* The other socket may have a Read event in the same batch: what it reads goes
\* to x, for which nothing is scheduled here.
LEMMA ForwardWhole ==
    ASSUME Typed, OneEach, ~crossed, Whole, ~crossed',
           NEW x \in Sides, Forward(x), ~SendFails(Other(x))
    PROVE  Whole'
<1>0. PICK y \in Sides : y = Other(x) /\ Other(y) = x /\ y # x /\ \A z \in Sides : z = x \/ z = y
  BY SideFacts
<1>1. Event(x, "read") /\ status = "up" /\ batch # <<>> /\ Head(batch)[1] = x
  BY DEF Forward, Event
<1>2. sched[y] = <<>>
  BY <1>0, <1>1, ReadEvent
<1>3. /\ Continue
      /\ sched'[x] = sched[x]
      /\ \/ sched'[y] = <<>> /\ UNCHANGED interest
         \/ sched'[y] # <<>> /\ WatchWrite(y) /\ sched[x] = <<>>
  BY <1>0, ForwardKeeps DEF Typed
<1>4. MovesWithin
  BY ForwardMoves
<1>5. ScheduledIsWatched'
  <2>1. CASE sched'[y] = <<>> /\ UNCHANGED interest
    BY <1>0, <1>1, <1>3, <2>1 DEF Whole, ScheduledIsWatched
  <2>2. CASE sched'[y] # <<>> /\ WatchWrite(y) /\ sched[x] = <<>>
    <3>1. interest'[y] = WriteMask
      BY <2>2, WatchFacts
    <3> QED
      BY <1>0, <1>3, <2>2, <3>1 DEF ScheduledIsWatched
  <2> QED
    BY <1>3, <2>1, <2>2
<1>6. ReadsReady'
  <2> SUFFICES ASSUME NEW i \in 1..Len(batch'), AsksRead(batch'[i])
               PROVE  sched'[Other(batch'[i][1])] = <<>>
    BY DEF ReadsReady
  <2>1. /\ 1 \in 1..Len(batch) /\ i + 1 \in 1..Len(batch) /\ i + 1 # 1
        /\ batch'[i] = batch[i + 1] /\ batch[1][1] = x /\ batch[i + 1][1] \in Sides
    BY <1>1, <1>3, RestOfBatch
  <2>2. batch[i + 1][1] # x
    BY <2>1 DEF OneEach
  <2>3. batch[i + 1][1] = y
    BY <1>0, <2>1, <2>2
  <2>4. sched[x] = <<>>
    BY <1>0, <1>1, <2>1, <2>3 DEF Whole, ReadsReady
  <2> QED
    BY <1>0, <1>3, <2>1, <2>3, <2>4
<1>7. Typed' /\ UNCHANGED cause
  BY <1>3, ForwardTyped DEF Continue
<1> QED
  BY <1>4, <1>5, <1>6, <1>7, KeepsWhole

LEMMA FlushMoves ==
    ASSUME Typed, WritesReady, NEW y \in Sides, Flush(y), ~SendFails(y), status' = "up"
    PROVE  MovesWithin
<1>1. Event(y, "write") /\ UNCHANGED <<wrote, got>>
  BY DEF Flush
<1> QED
  BY <1>1, WriteEvent, FlushTransit DEF MovesWithin

LEMMA FlushWhole ==
    ASSUME Typed, WritesReady, ~crossed, Whole, NEW y \in Sides, Flush(y), ~SendFails(y)
    PROVE  Whole'
<1>0. PICK x \in Sides : x = Other(y) /\ Other(x) = y /\ y # x /\ \A z \in Sides : z = x \/ z = y
  BY SideFacts
<1>1. /\ Event(y, "write") /\ status = "up" /\ batch # <<>>
      /\ sched[y] # <<>> /\ interest[x] = ClosedMask
  BY <1>0, WriteEvent DEF Flush
<1>2. sched[x] = <<>>
  BY <1>0, <1>1, MaskFacts DEF Whole, ScheduledIsWatched
<1>3. CASE status' = "up"
  <2>1. /\ Continue
        /\ sched'[y] \in {<<>>, sched[y]} /\ sched'[x] = <<>>
        /\ sched'[y] = <<>> \/ UNCHANGED interest
    BY <1>0, <1>2, <1>3, FlushTransit
  <2>2. MovesWithin
    BY <1>3, FlushMoves
  <2>3. ScheduledIsWatched'
    BY <1>0, <1>1, <2>1 DEF Whole, ScheduledIsWatched
  <2>4. ReadsReady'
    <3> SUFFICES ASSUME NEW i \in 1..Len(batch'), AsksRead(batch'[i])
                 PROVE  sched'[Other(batch'[i][1])] = <<>>
      BY DEF ReadsReady
    <3>1. /\ i + 1 \in 1..Len(batch) /\ batch'[i] = batch[i + 1]
          /\ batch[i + 1][1] \in Sides
      BY <1>1, <2>1, RestOfBatch
    <3>2. sched[Other(batch[i + 1][1])] = <<>>
      BY <1>1, <3>1 DEF Whole, ReadsReady
    <3>3. Other(batch[i + 1][1]) # y
      BY <1>1, <3>2
    <3>4. Other(batch[i + 1][1]) = x
      BY <1>0, <3>1, <3>3, SideFacts
    <3> QED
      BY <2>1, <3>1, <3>4
  <2>5. Typed' /\ UNCHANGED cause
    BY <2>1, FlushTyped DEF Continue
  <2> QED
    BY <2>2, <2>3, <2>4, <2>5, KeepsWhole
<1>4. CASE status' # "up"
  <2>1. Die("crashed")
    BY <1>1, <1>4, FlushKeeps DEF Typed, Continue
  <2>2. cause' \notin Sides
    BY <1>1, <2>1 DEF Die, Whole, Ended
  <2> QED
    BY <1>4, <2>2, OverWhole DEF EofDelivered
<1> QED
  BY <1>3, <1>4

LEMMA CrossedStays == Typed /\ [Next]_vars => (crossed => crossed')
<1> SUFFICES ASSUME Typed, [Next]_vars, crossed PROVE crossed'
  OBVIOUS
<1>1. ASSUME NEW x \in Sides, Forward(x), ~SendFails(Other(x)) PROVE crossed'
  BY <1>1, ForwardKeeps DEF Typed
<1>2. ASSUME NEW y \in Sides, SendFails(y) PROVE crossed'
  BY <1>2, SendFailsTyped DEF Typed
<1>3. CASE UNCHANGED crossed
  BY <1>3
<1>4. ASSUME NEW x \in Sides, Flush(x), ~SendFails(x) PROVE UNCHANGED crossed
  BY <1>4, FlushKeeps DEF Typed
<1>5. ASSUME NEW x \in Sides, ForwardOverScheduled(x), ~SendFails(Other(x))
      PROVE  UNCHANGED crossed
  BY <1>5 DEF ForwardOverScheduled
<1>6. ASSUME NEW x \in Sides, HangsUp(x) \/ RecvEnds(x) PROVE UNCHANGED crossed
  BY <1>6 DEF HangsUp, RecvEnds, Close
<1>7. ASSUME NEW x \in Sides,
             PeerWrites(x) \/ PeerShutsDown(x) \/ PeerResets(x) \/ PeerReads(x)
      PROVE  UNCHANGED crossed
  BY <1>7, PeersTyped DEF Typed, session
<1>8. Poll => UNCHANGED crossed
  BY DEF Poll
<1> QED
  BY <1>1, <1>2, <1>3, <1>4, <1>5, <1>6, <1>7, <1>8, SideFacts DEF Next, Dispatch, vars

LEMMA NextWhole ==
    ASSUME Typed, WritesReady, OneEach, ~crossed, Whole, ~crossed', [Next]_vars
    PROVE  Whole'
<1>1. CASE UNCHANGED vars
  BY <1>1 DEF vars, Whole, ReadsReady, ScheduledIsWatched, Fifo, Ended, EofDelivered
<1>2. CASE Poll
  BY <1>2, PollWhole
<1>3. ASSUME NEW x \in Sides,
             PeerWrites(x) \/ PeerShutsDown(x) \/ PeerResets(x) \/ PeerReads(x)
      PROVE  Whole'
  BY <1>3, PeersWhole
<1>4. ASSUME NEW x \in Sides, HangsUp(x) \/ RecvEnds(x)
      PROVE  Whole'
  BY <1>4, HangsUpWhole, RecvEndsWhole
<1>5. ASSUME NEW x \in Sides, Forward(x)
      PROVE  Whole'
  <2>1. CASE SendFails(Other(x))
    <3>1. status = "up" /\ Other(x) \in Sides
      BY <1>5, SideFacts DEF Forward, Event
    <3> QED
      BY <2>1, <3>1, SendFailsWhole
  <2>2. CASE ~SendFails(Other(x))
    BY <1>5, <2>2, ForwardWhole
  <2> QED
    BY <2>1, <2>2
<1>6. ASSUME NEW y \in Sides, Flush(y)
      PROVE  Whole'
  <2>1. CASE SendFails(y)
    <3>1. status = "up"
      BY <1>6 DEF Flush, Event
    <3> QED
      BY <2>1, <3>1, SendFailsWhole
  <2>2. CASE ~SendFails(y)
    BY <1>6, <2>2, FlushWhole
  <2> QED
    BY <2>1, <2>2
<1> QED
  BY <1>1, <1>2, <1>3, <1>4, <1>5, <1>6, NeverOverScheduled DEF Next, Dispatch

\* In every environment a handler that goes on leaves the rest of the batch, and
\* one that ends the session leaves nothing of it.
LEMMA DispatchLeaves ==
    ASSUME Typed, NEW x \in Sides, Dispatch(x)
    PROVE  /\ status = "up" /\ batch # <<>>
           /\ Continue \/ (status' # "up" /\ batch' = <<>>)
BY DEF Dispatch, HangsUp, RecvEnds, Close, Forward, ForwardOverScheduled, Flush,
       SendFails, Die, Event

LEMMA NextEnded == Typed /\ Ended /\ [Next]_vars => Ended'
<1> SUFFICES ASSUME Typed, Ended, [Next]_vars PROVE Ended'
  OBVIOUS
<1>1. CASE UNCHANGED <<status, cause>>
  BY <1>1 DEF Ended
<1>2. ASSUME NEW x \in Sides, Dispatch(x) PROVE Ended'
  BY <1>2, DispatchLeaves DEF Ended, Continue
<1>3. ASSUME NEW x \in Sides,
             PeerWrites(x) \/ PeerShutsDown(x) \/ PeerResets(x) \/ PeerReads(x)
      PROVE  UNCHANGED <<status, cause>>
  BY <1>3, PeersTyped DEF Typed, session
<1> QED
  BY <1>1, <1>2, <1>3 DEF Next, Poll, vars

LEMMA NextOneEach == Typed /\ OneEach /\ [Next]_vars => OneEach'
<1> SUFFICES ASSUME Typed, OneEach, [Next]_vars PROVE OneEach'
  OBVIOUS
<1>1. CASE UNCHANGED batch
  BY <1>1 DEF OneEach
<1>2. CASE Poll
  <2>1. PICK n \in 1..Smaller(MaxBatch, 2) : \E b \in [1..n -> Sides] :
            /\ \A i, j \in 1..n : i # j => b[i] # b[j]
            /\ batch' = [i \in 1..n |-> <<b[i], Reported(interest[b[i]], Condition(b[i]))>>]
    BY <1>2 DEF Poll
  <2>2. PICK b \in [1..n -> Sides] :
            /\ \A i, j \in 1..n : i # j => b[i] # b[j]
            /\ batch' = [i \in 1..n |-> <<b[i], Reported(interest[b[i]], Condition(b[i]))>>]
    BY <2>1
  <2>3. n \in Nat /\ Len(batch') = n
    BY <2>2, ConstantFacts, SmallerFacts
  <2> QED
    BY <2>2, <2>3 DEF OneEach
<1>3. ASSUME NEW x \in Sides, Dispatch(x) PROVE OneEach'
  <2>1. batch # <<>>
    BY <1>3, DispatchLeaves
  <2>2. CASE Continue
    <3> SUFFICES ASSUME NEW i \in 1..Len(batch'), NEW j \in 1..Len(batch'), i # j
                 PROVE  batch'[i][1] # batch'[j][1]
      BY DEF OneEach
    <3>1. /\ i + 1 \in 1..Len(batch) /\ batch'[i] = batch[i + 1]
          /\ j + 1 \in 1..Len(batch) /\ batch'[j] = batch[j + 1]
      BY <2>1, <2>2, RestOfBatch
    <3>2. i + 1 # j + 1
      OBVIOUS
    <3> QED
      BY <3>1, <3>2 DEF OneEach
  <2>3. CASE batch' = <<>>
    BY <2>3, EmptySeq DEF OneEach
  <2> QED
    BY <1>3, <2>2, <2>3, DispatchLeaves
<1>4. ASSUME NEW x \in Sides,
             PeerWrites(x) \/ PeerShutsDown(x) \/ PeerResets(x) \/ PeerReads(x)
      PROVE  UNCHANGED batch
  BY <1>4, PeersTyped DEF Typed, session
<1> QED
  BY <1>1, <1>2, <1>3, <1>4 DEF Next, vars

Inv == Typed /\ WritesReady /\ Straight

LEMMA Invariant == Spec => []Inv
<1>1. Init => Inv
  BY InitTyped, InitReady, InitStraight DEF Inv
<1>2. Inv /\ [Next]_vars => Inv'
  <2> SUFFICES ASSUME Inv, [Next]_vars PROVE Inv'
    OBVIOUS
  <2>1. Typed /\ WritesReady /\ Ended /\ OneEach /\ (~crossed => Whole)
    BY DEF Inv, Straight
  <2>2. Typed' /\ WritesReady' /\ Ended' /\ OneEach'
    BY <2>1, NextTyped, NextReady, NextEnded, NextOneEach
  <2>3. ASSUME ~crossed' PROVE Whole'
    BY <2>1, <2>3, CrossedStays, NextWhole
  <2> QED
    BY <2>2, <2>3 DEF Inv, Straight
<1> QED
  BY <1>1, <1>2, PTL DEF Spec

\* LostOnlyByCrossing: what _session_socket_send() schedules stays registered for
\* its Write event, until both directions are scheduled in one batch (there the
\* second set_event() of one call takes the first one of the other away).
THEOREM RelayLostOnlyByCrossing == Spec => []LostOnlyByCrossing
<1>1. Inv => LostOnlyByCrossing
  BY DEF Inv, Straight, Whole, LostOnlyByCrossing
<1> QED
  BY <1>1, Invariant, PTL

\* Fifo: process_client_event() and process_remote_event() lose, repeat and
\* reorder nothing, for all buffer sizes, all batches and however little a send()
\* takes, until both directions are scheduled in one batch.
THEOREM RelayFifo == Spec => []Fifo
<1>1. Inv => Fifo
  BY DEF Inv, Straight, Whole, Fifo
<1> QED
  BY <1>1, Invariant, PTL

\* EofDelivered: when recv() returns 0 and the session is deleted, all that the
\* peer wrote before has been handed over to the kernel, with the same exception.
THEOREM RelayEofDelivered == Spec => []EofDelivered
<1>1. Inv => EofDelivered
  BY DEF Inv, Straight, Whole, EofDelivered
<1> QED
  BY <1>1, Invariant, PTL

-----------------------------------------------------------------------------
(***************************************************************************)
(* Every step of the relay is a step of a pair of pipes, or changes nothing*)
(* that the peers can see: writing puts a byte into a pipe, reading        *)
(* delivers from it, the session's own steps only move bytes along, its    *)
(* end cuts off what the kernel does not hold, and scheduling both         *)
(* directions in one batch breaks the pipes.                               *)
(***************************************************************************)

\* What the peers see
seen == <<Transit, got, status = "up", crossed>>

\* A front part of what is in transit that the send buffer holds
LEMMA FrontOfConcat ==
    ASSUME NEW s \in Seq(Bytes), NEW t \in Seq(Bytes), NEW n \in 0..Len(s)
    PROVE  /\ SubSeq(s \o t, 1, n) = SubSeq(s, 1, n)
           /\ SubSeq(s \o t, n + 1, Len(s \o t)) = SubSeq(s, n + 1, Len(s)) \o t
           /\ n <= Len(s \o t)
<1>1. /\ Len(s) \in Nat /\ Len(t) \in Nat /\ n \in Nat /\ n <= Len(s)
      /\ s \o t \in Seq(Bytes) /\ Len(s \o t) = Len(s) + Len(t)
  BY LenProperties, ConcatProperties
<1>2. n \in 0..Len(s \o t)
  BY <1>1
<1>3. SubSeq(s \o t, 1, n) = SubSeq(s, 1, n)
  <2>1. CASE n = 0
    <3>1. 0 < 1 /\ 1 \in Int /\ 0 \in Int
      OBVIOUS
    <3>2. SubSeq(s \o t, 1, 0) = <<>> /\ SubSeq(s, 1, 0) = <<>>
      BY <3>1, SubSeqEmpty
    <3> QED
      BY <2>1, <3>2
  <2>2. CASE n # 0
    <3>1. 1 \in 1..Len(s) /\ n \in 1..Len(s)
      BY <1>1, <2>2
    <3> QED
      BY <3>1, SubSeqOfConcat1
  <2> QED
    BY <2>1, <2>2
<1>4. PICK a \in Seq(Bytes), b \in Seq(Bytes), c \in Seq(Bytes) :
          /\ a = SubSeq(s, 1, n) /\ b = SubSeq(s, n + 1, Len(s))
          /\ c = SubSeq(s \o t, n + 1, Len(s \o t))
          /\ a \o b = s /\ a \o c = s \o t
  <2>1. /\ SubSeq(s, 1, n) \in Seq(Bytes) /\ SubSeq(s, n + 1, Len(s)) \in Seq(Bytes)
        /\ SubSeq(s, 1, n) \o SubSeq(s, n + 1, Len(s)) = s
    BY CutAt
  <2>2. PICK w \in Seq(Bytes) : w = s \o t
    BY <1>1
  <2>3. /\ SubSeq(w, n + 1, Len(w)) \in Seq(Bytes)
        /\ SubSeq(w, 1, n) \o SubSeq(w, n + 1, Len(w)) = w
    BY <1>2, <2>2, CutAt
  <2> QED
    BY <1>3, <2>1, <2>2, <2>3
<1>5. (a \o b) \o t = a \o (b \o t)
  BY Assoc, Zenon
<1>6. b \o t \in Seq(Bytes)
  BY ConcatProperties
<1>7. a \o c = a \o (b \o t)
  BY <1>4, <1>5
<1>8. c = b \o t
  <2>1. PICK d \in Seq(Bytes) : d = b \o t
    BY <1>6
  <2>2. a \o c = a \o d => c = d
    BY ConcatSimplifications
  <2> QED
    BY <1>7, <2>1, <2>2
<1>9. n <= Len(s \o t)
  BY <1>2, <1>1
<1>10. SubSeq(s \o t, n + 1, Len(s \o t)) = SubSeq(s, n + 1, Len(s)) \o t
  BY <1>4, <1>8
<1> QED
  BY <1>3, <1>9, <1>10

LEMMA InitRefines == Init => P!Init
<1> SUFFICES ASSUME Init PROVE P!Init
  OBVIOUS
<1>1. <<>> \o <<>> = <<>>
  BY EmptySeq, ConcatEmptySeq
<1>2. \A x \in Sides : out[x] \o sched[x] \o inbox[Other(x)] = <<>>
  BY <1>1, SideFacts DEF Init
<1>3. Transit = [x \in Sides |-> <<>>]
  BY <1>2 DEF Init, Transit
<1> QED
  BY <1>3 DEF Init, P!Init

\* Steps that only move bytes along, or nothing
LEMMA WithinRefines ==
    ASSUME MovesWithin
    PROVE  UNCHANGED <<Transit, got, status = "up">>
<1>1. /\ status = "up" /\ status' = "up" /\ got' = got
      /\ \A x \in Sides : InTransit(x)' = InTransit(x)
  BY DEF MovesWithin
<1>2. \A x \in Sides : Transit'[x] = Transit[x]
  BY <1>1 DEF Transit, InTransit
<1>3. Transit' = Transit
  BY <1>2 DEF Transit
<1> QED
  BY <1>1, <1>3

LEMMA StillRefines ==
    ASSUME UNCHANGED <<status, inbox, out, sched, got, crossed>>
    PROVE  UNCHANGED seen
BY DEF seen, Transit

LEMMA WritesRefines ==
    ASSUME TypeOK, NEW x \in Sides, PeerWrites(x)
    PROVE  P!Next
<1>0. PICK y \in Sides : y = Other(x) /\ Other(y) = x /\ y # x /\ \A z \in Sides : z = x \/ z = y
  BY SideFacts
<1>1. PICK e \in Bytes : e = Len(wrote[x]) + 1
  BY SideTypes, ConstantFacts DEF PeerWrites, Bytes
<1>2. /\ status = "up" /\ UNCHANGED <<status, sched, out, got, crossed>>
      /\ inbox' = [inbox EXCEPT ![x] = Append(@, Len(wrote[x]) + 1)]
  BY DEF PeerWrites, session
<1>3. inbox'[x] = Append(inbox[x], e) /\ inbox'[y] = inbox[y]
  BY <1>0, <1>1, <1>2 DEF TypeOK
<1>4. PICK o \in Seq(Bytes), i \in Seq(Bytes) : o = out[y] \o sched[y] /\ i = inbox[x]
  BY SideTypes, Concat3
<1>5. o \o Append(i, e) = Append(o \o i, e)
  <2>1. o \o i \in Seq(Bytes) /\ <<e>> \in Seq(Bytes)
    BY ConcatProperties
  <2>2. Append(o \o i, e) = (o \o i) \o <<e>>
    BY <2>1, AppendIsConcat
  <2>3. Append(i, e) = i \o <<e>>
    BY AppendIsConcat
  <2> QED
    BY <2>1, <2>2, <2>3, ConcatAssociative
<1>6. Transit[y] = o \o i /\ Transit'[y] = o \o Append(i, e)
  BY <1>0, <1>2, <1>3, <1>4 DEF Transit
<1>7. Transit'[x] = Transit[x]
  <2>1. Transit[x] = out[x] \o sched[x] \o inbox[y]
    BY <1>0, <1>2 DEF Transit
  <2>2. Transit'[x] = out'[x] \o sched'[x] \o inbox'[y]
    BY <1>0, <1>2 DEF Transit
  <2> HIDE DEF Transit
  <2>3. out'[x] = out[x] /\ sched'[x] = sched[x] /\ inbox'[y] = inbox[y]
    BY <1>2, <1>3
  <2> QED
    BY <2>1, <2>2, <2>3
<1>8. Transit' = [Transit EXCEPT ![y] = Append(Transit[y], e)]
  <2>1. Transit'[y] = Append(Transit[y], e)
    BY <1>5, <1>6
  <2>2. DOMAIN Transit = Sides /\ Transit = [z \in Sides |-> Transit[z]]
    BY DEF Transit
  <2>3. Transit' = [z \in Sides |-> Transit'[z]]
    BY DEF Transit
  <2> HIDE DEF Transit
  <2>4. \A z \in Sides : Transit'[z] = IF z = y THEN Append(Transit[y], e) ELSE Transit[z]
    BY <1>0, <1>7, <2>1
  <2> QED
    BY <2>2, <2>3, <2>4
<1>9. P!Write(y, e)
  BY <1>2, <1>8 DEF P!Write
<1> QED
  BY <1>9 DEF P!Next

\* A pipe is cut at the end of what the send buffer holds.
LEMMA TransitFront ==
    ASSUME TypeOK, NEW x \in Sides, NEW n \in 0..Len(out[x])
    PROVE  /\ SubSeq(Transit[x], 1, n) = SubSeq(out[x], 1, n)
           /\ SubSeq(Transit[x], n + 1, Len(Transit[x])) =
                 IF status = "up"
                 THEN SubSeq(out[x], n + 1, Len(out[x])) \o sched[x] \o inbox[Other(x)]
                 ELSE SubSeq(out[x], n + 1, Len(out[x]))
           /\ n <= Len(Transit[x]) /\ Len(Transit[x]) \in Nat
<1>1. CASE status # "up"
  <2>1. Transit[x] = out[x]
    BY <1>1 DEF Transit
  <2>2. Len(out[x]) \in Nat
    BY SideTypes
  <2> QED
    BY <1>1, <2>1, <2>2
<1>2. CASE status = "up"
  <2>1. PICK o \in Seq(Bytes), s \in Seq(Bytes), i \in Seq(Bytes) :
            o = out[x] /\ s = sched[x] /\ i = inbox[Other(x)]
    BY SideFacts, SideTypes
  <2>2. Transit[x] = (o \o s) \o i
    BY <1>2, <2>1 DEF Transit
  <2>3. (o \o s) \o i = o \o (s \o i)
    BY Assoc, Zenon
  <2>4. PICK r \in Seq(Bytes) : r = s \o i
    BY ConcatProperties
  <2>5. n \in 0..Len(o)
    BY <2>1
  <2>6. /\ SubSeq(o \o r, 1, n) = SubSeq(o, 1, n)
        /\ SubSeq(o \o r, n + 1, Len(o \o r)) = SubSeq(o, n + 1, Len(o)) \o r
        /\ n <= Len(o \o r)
    BY <2>5, FrontOfConcat
  <2>7. PICK b \in Seq(Bytes) : b = SubSeq(o, n + 1, Len(o))
    BY <2>5, CutAt
  <2>8. (b \o s) \o i = b \o (s \o i)
    BY Assoc, Zenon
  <2>9. PICK w \in Seq(Bytes) : w = o \o r
    BY ConcatProperties
  <2>10. Transit[x] = w /\ Len(w) \in Nat
    BY <2>2, <2>3, <2>4, <2>9, LenProperties
  <2>11. /\ SubSeq(w, 1, n) = SubSeq(o, 1, n)
         /\ SubSeq(w, n + 1, Len(w)) = (b \o s) \o i
         /\ n <= Len(w)
    BY <2>4, <2>6, <2>7, <2>8, <2>9
  <2> HIDE DEF Transit
  <2> QED
    BY <1>2, <2>1, <2>7, <2>10, <2>11
<1> QED
  BY <1>1, <1>2

LEMMA ReadsRefines ==
    ASSUME TypeOK, NEW x \in Sides, PeerReads(x)
    PROVE  P!Next
<1>1. PICK n \in 1..Len(out[x]) :
          /\ got' = [got EXCEPT ![x] = @ \o SubSeq(out[x], 1, n)]
          /\ out' = [out EXCEPT ![x] = SubSeq(@, n + 1, Len(@))]
  BY DEF PeerReads
<1>2. UNCHANGED <<status, sched, inbox, crossed>>
  BY DEF PeerReads, session
<1>3. n \in 0..Len(out[x]) /\ n \in Nat /\ 1 <= n
  BY SideTypes
<1>4. /\ SubSeq(Transit[x], 1, n) = SubSeq(out[x], 1, n)
      /\ SubSeq(Transit[x], n + 1, Len(Transit[x])) =
            IF status = "up"
            THEN SubSeq(out[x], n + 1, Len(out[x])) \o sched[x] \o inbox[Other(x)]
            ELSE SubSeq(out[x], n + 1, Len(out[x]))
      /\ n <= Len(Transit[x]) /\ Len(Transit[x]) \in Nat
  BY <1>3, TransitFront
<1>5. /\ out'[x] = SubSeq(out[x], n + 1, Len(out[x]))
      /\ \A z \in Sides : z # x => out'[z] = out[z]
  BY <1>1 DEF TypeOK
<1>6. Transit'[x] = SubSeq(Transit[x], n + 1, Len(Transit[x]))
  <2>1. Transit'[x] = IF status = "up" THEN out'[x] \o sched[x] \o inbox[Other(x)]
                      ELSE out'[x]
    BY <1>2 DEF Transit
  <2> HIDE DEF Transit
  <2>2. CASE status = "up"
    <3>1. Transit'[x] = out'[x] \o sched[x] \o inbox[Other(x)]
      BY <2>1, <2>2
    <3>2. SubSeq(Transit[x], n + 1, Len(Transit[x])) =
              SubSeq(out[x], n + 1, Len(out[x])) \o sched[x] \o inbox[Other(x)]
      BY <1>4, <2>2
    <3>3. out'[x] = SubSeq(out[x], n + 1, Len(out[x]))
      BY <1>5
    <3> QED
      BY <3>1, <3>2, <3>3, Zenon
  <2>3. CASE status # "up"
    BY <1>4, <1>5, <2>1, <2>3
  <2> QED
    BY <2>2, <2>3
<1>7. \A z \in Sides : z # x => Transit'[z] = Transit[z]
  <2> SUFFICES ASSUME NEW z \in Sides, z # x PROVE Transit'[z] = Transit[z]
    OBVIOUS
  <2>1. Transit[z] = IF status = "up" THEN out[z] \o sched[z] \o inbox[Other(z)] ELSE out[z]
    BY DEF Transit
  <2>2. Transit'[z] = IF status' = "up" THEN out'[z] \o sched'[z] \o inbox'[Other(z)]
                      ELSE out'[z]
    BY DEF Transit
  <2> HIDE DEF Transit
  <2> QED
    BY <1>2, <1>5, <2>1, <2>2
<1>8. Transit' = [Transit EXCEPT ![x] = SubSeq(@, n + 1, Len(@))]
  <2>1. Transit = [z \in Sides |-> Transit[z]] /\ Transit' = [z \in Sides |-> Transit'[z]]
    BY DEF Transit
  <2> HIDE DEF Transit
  <2> QED
    BY <1>6, <1>7, <2>1
<1>9. got' = [got EXCEPT ![x] = @ \o SubSeq(Transit[x], 1, n)]
  BY <1>1, <1>4
<1>10. P!Deliver(x, n)
  BY <1>2, <1>8, <1>9 DEF P!Deliver
<1>11. n \in 1..Len(Transit[x])
  BY <1>3, <1>4
<1> QED
  BY <1>10, <1>11 DEF P!Next

\* What the send buffer of x holds is a front part of what is in transit to x.
LEMMA SentRemains ==
    ASSUME TypeOK, NEW x \in Sides
    PROVE  \E kept \in 0..Len(Transit[x]) : out[x] = SubSeq(Transit[x], 1, kept)
<1>1. PICK n \in 0..Len(out[x]) : n = Len(out[x])
  BY SideTypes
<1>2. SubSeq(Transit[x], 1, n) = SubSeq(out[x], 1, n) /\ n <= Len(Transit[x])
      /\ Len(Transit[x]) \in Nat
  BY TransitFront
<1>3. SubSeq(out[x], 1, n) = out[x]
  BY <1>1, SideTypes, SubSeqFull
<1> HIDE DEF Transit
<1>4. n \in 0..Len(Transit[x])
  BY <1>1, <1>2, SideTypes
<1> WITNESS n \in 0..Len(Transit[x])
<1> QED
  BY <1>2, <1>3

\* Whatever ends the session: what the send buffers hold is still delivered.
LEMMA EndRefines ==
    ASSUME TypeOK, status = "up", status' # "up", UNCHANGED <<out, got, crossed>>
    PROVE  P!Next
<1>1. Transit' = [x \in Sides |-> Transit'[x]] /\ \A x \in Sides : Transit'[x] = out[x]
  BY DEF Transit
<1>2. \A x \in Sides : \E kept \in 0..Len(Transit[x]) :
          Transit'[x] = SubSeq(Transit[x], 1, kept)
  BY <1>1, SentRemains
<1>3. P!Close
  BY <1>1, <1>2 DEF P!Close
<1> QED
  BY <1>3 DEF P!Next

\* A send() of r bytes of s, in front of i: what is sent comes first.
LEMMA SentIsFront ==
    ASSUME NEW o \in Seq(Bytes), NEW s \in Seq(Bytes), NEW i \in Seq(Bytes), NEW r \in Nat
    PROVE  \E f, e \in Seq(Bytes) : f = o \o Taken(s, r) /\ (o \o s) \o i = f \o e
<1>1. PICK t \in Seq(Bytes), u \in Seq(Bytes) :
          t = Taken(s, r) /\ u = Left(s, r) /\ t \o u = s
  BY Cut
<1>2. (o \o t) \o u = o \o (t \o u)
  BY Assoc
<1>3. PICK f \in Seq(Bytes), e \in Seq(Bytes) : f = o \o t /\ e = u \o i
  BY ConcatProperties
<1>4. (f \o u) \o i = f \o (u \o i)
  BY Assoc
<1>5. (o \o s) \o i = f \o e
  BY <1>1, <1>2, <1>3, <1>4
<1> QED
  BY <1>1, <1>3, <1>5

\* A partial flush ends the process, but what the kernel took is delivered.
LEMMA CrashRefines ==
    ASSUME Typed, NEW y \in Sides, Flush(y), ~SendFails(y), status' # "up"
    PROVE  P!Next
<1>0. PICK x \in Sides : x = Other(y) /\ Other(x) = y /\ y # x /\ \A z \in Sides : z = x \/ z = y
  BY SideFacts
<1>1. TypeOK /\ status = "up" /\ UNCHANGED <<got, crossed>>
  BY FlushKeeps DEF Typed, Flush, Event
<1>2. /\ out'[y] = out[y] \o Taken(sched[y], Room(y))
      /\ out'[x] = out[x]
  BY <1>0, FlushSends
<1>3. PICK o \in Seq(Bytes), s \in Seq(Bytes), i \in Seq(Bytes), r \in Nat :
          o = out[y] /\ s = sched[y] /\ i = inbox[Other(y)] /\ r = Room(y)
  BY <1>1, SideFacts, SideTypes
<1>4. PICK f \in Seq(Bytes), e \in Seq(Bytes) :
          f = o \o Taken(s, r) /\ (o \o s) \o i = f \o e
  BY SentIsFront
<1>5. Transit[y] = f \o e /\ Transit'[y] = f
  BY <1>0, <1>1, <1>2, <1>3, <1>4 DEF Transit
<1>6. Transit'[x] = out[x]
  BY <1>0, <1>2 DEF Transit
<1>7. \E kept \in 0..Len(Transit[y]) : Transit'[y] = SubSeq(Transit[y], 1, kept)
  <2>1. PICK w \in Seq(Bytes), n \in Nat : w = f \o e /\ n = Len(f)
    BY ConcatProperties, LenProperties
  <2>2. n \in 0..Len(f)
    BY <2>1
  <2>3. SubSeq(w, 1, n) = SubSeq(f, 1, n) /\ n <= Len(w) /\ Len(w) \in Nat
    BY <2>1, <2>2, FrontOfConcat, LenProperties
  <2>4. SubSeq(f, 1, n) = f
    BY <2>1, SubSeqFull
  <2>5. n \in 0..Len(w) /\ f = SubSeq(w, 1, n)
    BY <2>3, <2>4
  <2> HIDE DEF Transit
  <2> QED
    BY <1>5, <2>1, <2>5
<1>8. \E kept \in 0..Len(Transit[x]) : Transit'[x] = SubSeq(Transit[x], 1, kept)
  BY <1>1, <1>6, SentRemains
<1>9. Transit' = [z \in Sides |-> Transit'[z]]
  BY DEF Transit
<1>10. P!Close
  <2>1. \A z \in Sides : \E kept \in 0..Len(Transit[z]) :
            Transit'[z] = SubSeq(Transit[z], 1, kept)
    BY <1>0, <1>7, <1>8
  <2> HIDE DEF Transit
  <2> QED
    BY <1>1, <1>9, <2>1 DEF P!Close
<1> QED
  BY <1>10 DEF P!Next

LEMMA SendFailsRefines ==
    ASSUME TypeOK, NEW y \in Sides, SendFails(y), status = "up", UNCHANGED got
    PROVE  P!Next
BY SendFailsTyped, EndRefines

\* What a side has received stays, whatever happens.
LEMMA GotStays ==
    ASSUME Typed, [Next]_vars, NEW x \in Sides
    PROVE  got[x] = SubSeq(got'[x], 1, Len(got[x]))
<1>0. TypeOK
  BY DEF Typed
<1>1. PICK g \in Seq(Bytes), n \in Nat : g = got[x] /\ n = Len(g)
  BY <1>0, SideTypes
<1>2. SubSeq(g, 1, n) = g
  BY <1>1, SubSeqFull
<1>3. CASE got'[x] = got[x]
  BY <1>1, <1>2, <1>3
<1>4. ASSUME NEW z \in Sides, PeerReads(z), got'[x] # got[x]
      PROVE  got[x] = SubSeq(got'[x], 1, Len(got[x]))
  <2>1. PICK m \in 1..Len(out[z]) :
            got' = [got EXCEPT ![z] = @ \o SubSeq(out[z], 1, m)]
    BY <1>4 DEF PeerReads
  <2>2. got \in [Sides -> Seq(Bytes)]
    BY <1>0 DEF TypeOK
  <2>3. z = x
    BY <1>4, <2>1, <2>2
  <2>4. PICK t \in Seq(Bytes) : t = SubSeq(out[x], 1, m)
    <3>1. m \in 0..Len(out[x]) /\ out[x] \in Seq(Bytes)
      BY <1>0, <2>3, SideTypes
    <3> QED
      BY <3>1, CutAt
  <2>5. got'[x] = g \o t
    BY <1>1, <2>1, <2>2, <2>3, <2>4
  <2>6. n \in 0..Len(g)
    BY <1>1
  <2>7. SubSeq(g \o t, 1, n) = SubSeq(g, 1, n)
    BY <2>6, FrontOfConcat
  <2> QED
    BY <1>1, <1>2, <2>5, <2>7
<1>5. (\E z \in Sides : PeerReads(z)) \/ UNCHANGED got
  BY DEF Next, vars, Poll, PeerWrites, PeerShutsDown, PeerResets, session, Dispatch,
         HangsUp, RecvEnds, Forward, ForwardOverScheduled, Flush
<1> QED
  BY <1>3, <1>4, <1>5

\* Nothing reopens a session.
LEMMA StaysOver == Typed /\ [Next]_vars => (status' = "up" => status = "up")
<1> SUFFICES ASSUME Typed, [Next]_vars, status' = "up" PROVE status = "up"
  OBVIOUS
<1>1. ASSUME NEW x \in Sides, Dispatch(x) PROVE status = "up"
  BY <1>1, DispatchLeaves
<1>2. ASSUME NEW x \in Sides,
             PeerWrites(x) \/ PeerShutsDown(x) \/ PeerResets(x) \/ PeerReads(x)
      PROVE  UNCHANGED status
  BY <1>2, PeersTyped DEF Typed, session
<1> QED
  BY <1>1, <1>2 DEF Next, Poll, vars

\* Once both directions were scheduled in one batch
LEMMA RuinRefines ==
    ASSUME Typed, [Next]_vars, crossed
    PROVE  P!Next
<1>1. crossed' = TRUE /\ crossed = TRUE
  <2>1. crossed' /\ crossed
    BY CrossedStays
  <2>2. crossed' \in BOOLEAN /\ crossed \in BOOLEAN
    BY NextTyped DEF Typed, TypeOK
  <2> QED
    BY <2>1, <2>2
<1>2. status' = "up" => status = "up"
  BY StaysOver
<1>3. \A x \in Sides : got[x] = SubSeq(got'[x], 1, Len(got[x]))
  BY GotStays
<1>4. P!Ruin
  BY <1>1, <1>2, <1>3 DEF P!Ruin
<1> QED
  BY <1>4 DEF P!Next

\* Scheduling for one side while bytes are scheduled for the other
LEMMA BreakRefines ==
    ASSUME Typed, MovesWithin, crossed'
    PROVE  P!Next
<1>1. UNCHANGED <<Transit, got, status = "up">> /\ status = "up"
  BY WithinRefines DEF MovesWithin
<1> HIDE DEF Transit
<1>2. P!Break
  BY <1>1 DEF P!Break
<1> QED
  BY <1>2 DEF P!Next

LEMMA StepRefines ==
    Inv /\ [Next]_vars => [P!Next]_<<Transit, got, status = "up", crossed>>
<1> SUFFICES ASSUME Typed, WritesReady, Whole, ~crossed, [Next]_vars
             PROVE  P!Next \/ UNCHANGED seen
  BY RuinRefines DEF seen, Inv, Straight
<1>0. TypeOK
  BY DEF Typed
<1>1. CASE UNCHANGED vars
  BY <1>1, StillRefines DEF vars
<1>2. CASE Poll
  BY <1>2, StillRefines DEF Poll
<1>3. ASSUME NEW x \in Sides, PeerShutsDown(x) \/ PeerResets(x)
      PROVE  UNCHANGED seen
  BY <1>3, StillRefines DEF PeerShutsDown, PeerResets, session
<1>4. ASSUME NEW x \in Sides, HangsUp(x) \/ RecvEnds(x)
      PROVE  P!Next
  BY <1>0, <1>4, EndRefines DEF HangsUp, RecvEnds, Event, Close
<1>5. ASSUME NEW x \in Sides, Forward(x)
      PROVE  P!Next \/ UNCHANGED seen
  <2>1. status = "up" /\ UNCHANGED got /\ Other(x) \in Sides
    BY <1>5, SideFacts DEF Forward, Event
  <2>2. CASE SendFails(Other(x))
    BY <1>0, <2>1, <2>2, SendFailsRefines
  <2>3. CASE ~SendFails(Other(x)) /\ crossed'
    BY <1>5, <2>3, ForwardMoves, BreakRefines
  <2>4. CASE ~SendFails(Other(x)) /\ ~crossed'
    <3>1. UNCHANGED crossed
      BY <1>0, <2>4, NextTyped DEF Typed, TypeOK
    <3> QED
      BY <1>5, <2>4, <3>1, ForwardMoves, WithinRefines DEF seen
  <2> QED
    BY <2>2, <2>3, <2>4
<1>6. ASSUME NEW y \in Sides, Flush(y)
      PROVE  P!Next \/ UNCHANGED seen
  <2>1. status = "up" /\ UNCHANGED got
    BY <1>6 DEF Flush, Event
  <2>2. CASE SendFails(y)
    BY <1>0, <2>1, <2>2, SendFailsRefines
  <2>3. CASE ~SendFails(y) /\ status' = "up"
    <3>1. UNCHANGED crossed
      BY <1>0, <1>6, <2>3, FlushKeeps
    <3> QED
      BY <1>6, <2>3, <3>1, FlushMoves, WithinRefines DEF seen
  <2>4. CASE ~SendFails(y) /\ status' # "up"
    BY <1>6, <2>4, CrashRefines
  <2> QED
    BY <2>2, <2>3, <2>4
<1> QED
  BY <1>0, <1>1, <1>2, <1>3, <1>4, <1>5, <1>6, WritesRefines, ReadsRefines,
     NeverOverScheduled DEF Next, Dispatch

\* ImplementsPipe: for all buffer sizes and all batches, what the peers see of
\* process_client_event(), process_remote_event() and _session_socket_send() is
\* a pair of reliable pipes, until both directions are scheduled in one batch;
\* even then nothing is taken back and no session reopens.
THEOREM RelayImplementsPipe == Spec => ImplementsPipe
<1>1. Spec => Init /\ [][Next]_vars
  BY PTL DEF Spec
<1> QED
  BY <1>1, InitRefines, StepRefines, Invariant, PTL DEF ImplementsPipe, P!Spec

=============================================================================
