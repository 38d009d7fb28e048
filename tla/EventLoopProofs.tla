-------------------------- MODULE EventLoopProofs --------------------------
(***************************************************************************)
(* For any set of session addresses, any batch size and either poll        *)
(* timeout, the server loop never dereferences an event of a destroyed     *)
(* session.  The three invariants are inductive together: a poll() can     *)
(* only fill the batch with live sockets because the poller tracks the     *)
(* sessions, and a handler that registers sockets keeps it doing so only   *)
(* because the session whose event is dispatched is alive.                 *)
(***************************************************************************)
EXTENDS EventLoop, TLAPS

IInv == TypeOK /\ NoDanglingEvent /\ PollerTracksSessions

\* The pointers are told apart from the two other kinds of events by their tag.
LEMMA PointerTags ==
    /\ \A e \in Pointers : e[1] \in Slots /\ e[2] \in Kinds /\ e = <<e[1], e[2]>>
    /\ \A s \in Slots, k \in Kinds : <<s, k>> \in Pointers
    /\ NullPtr \notin Pointers
    /\ \A x : <<Server, x>> \notin Pointers
BY EventLoopAssumption DEF Pointers, NullPtr

LEMMA InitIInv == Init => IInv
<1> SUFFICES ASSUME Init PROVE IInv
  OBVIOUS
<1>1. TypeOK
  <2>1. socks \in [Slots -> SUBSET Kinds]
    BY DEF Init
  <2>2. batch \in Seq(Events)
    BY DEF Init
  <2>3. listening \in BOOLEAN
    BY DEF Init
  <2> QED
    BY <2>1, <2>2, <2>3 DEF Init, TypeOK, PCs
<1>2. NoDanglingEvent
  BY DEF Init, NoDanglingEvent
<1>3. PollerTracksSessions
  BY DEF Init, PollerTracksSessions
<1> QED
  BY <1>1, <1>2, <1>3 DEF IInv

\* What poll() may return are well-formed events.
LEMMA ReadyEvents == TypeOK => Ready \subseteq Events
BY DEF TypeOK, Ready, Events

\* Invalidation yields a batch of the same length, whose events are either the
\* old ones, of another session, or null.
LEMMA InvalidateBatch ==
    ASSUME NEW b \in Seq(Events), NEW i \in Nat, NEW s \in Slots
    PROVE  /\ Invalidate(b, i, s) \in Seq(Events)
           /\ Len(Invalidate(b, i, s)) = Len(b)
           /\ \A j \in 1..Len(b) : j >= i /\ Invalidate(b, i, s)[j] \in Pointers =>
                 /\ Invalidate(b, i, s)[j] = b[j]
                 /\ b[j][1] # s
<1> DEFINE c == Invalidate(b, i, s)
<1>1. /\ DOMAIN b = 1..Len(b)
      /\ Len(b) \in Nat
      /\ \A j \in 1..Len(b) : b[j] \in Events
  OBVIOUS
<1>2. c = [j \in 1..Len(b) |-> IF j >= i /\ b[j][1] = s THEN NullPtr ELSE b[j]]
  BY <1>1 DEF Invalidate
<1>3. NullPtr \in Events
  BY DEF Events
<1>4. c \in [1..Len(b) -> Events]
  BY <1>1, <1>2, <1>3
<1>5. c \in Seq(Events) /\ Len(c) = Len(b)
  BY <1>1, <1>4
<1>6. \A j \in 1..Len(b) : j >= i /\ c[j] \in Pointers => c[j] = b[j] /\ b[j][1] # s
  BY <1>2, PointerTags
<1> QED
  BY <1>5, <1>6

\* The same of the batch under way
LEMMA InvalidateRest ==
    ASSUME TypeOK, NEW s \in Slots
    PROVE  /\ Invalidate(batch, idx, s) \in Seq(Events)
           /\ Len(Invalidate(batch, idx, s)) = Len(batch)
           /\ \A j \in 1..Len(batch) :
                 j >= idx /\ Invalidate(batch, idx, s)[j] \in Pointers =>
                    /\ Invalidate(batch, idx, s)[j] = batch[j]
                    /\ batch[j][1] # s
<1>1. batch \in Seq(Events) /\ idx \in Nat
  BY DEF TypeOK
<1> QED
  BY <1>1, InvalidateBatch

LEMMA NextIInv == IInv /\ [Next]_vars => IInv'
<1> SUFFICES ASSUME IInv, [Next]_vars PROVE IInv'
  OBVIOUS
<1> USE DEF IInv
<1>T. TypeOK /\ NoDanglingEvent /\ PollerTracksSessions
  OBVIOUS
<1>B. /\ Len(batch) \in Nat
      /\ DOMAIN batch = 1..Len(batch)
      /\ \A j \in 1..Len(batch) : batch[j] \in Events
  BY DEF TypeOK
<1>1. CASE UNCHANGED vars
  BY <1>1 DEF vars, TypeOK, NoDanglingEvent, PollerTracksSessions
\* Steps that leave the sessions alone and do not enter or stay in dispatch
<1>2. CASE Start
  BY <1>2 DEF Start, TypeOK, PCs, NoDanglingEvent, PollerTracksSessions
<1>3. CASE TestServing
  <2>1. batch' \in Seq(Events)
    BY <1>3 DEF TestServing
  <2> QED
    BY <1>3, <2>1 DEF TestServing, TypeOK, PCs, NoDanglingEvent, PollerTracksSessions
<1>4. CASE EnterPoll
  BY <1>4 DEF EnterPoll, TypeOK, PCs, NoDanglingEvent, PollerTracksSessions
<1>5. CASE PollReturns
  <2>1. PICK n \in 1..MaxBatch : \E b \in [1..n -> Ready] : batch' = b
    BY <1>5 DEF PollReturns
  <2>2. /\ batch' \in [1..n -> Ready]
        /\ n \in Nat
    BY <2>1, EventLoopAssumption
  <2>3. batch' \in Seq(Events)
    BY <2>2, ReadyEvents
  <2>4. DOMAIN batch' = 1..n /\ Len(batch') = n
    BY <2>2, <2>3
  <2>5. TypeOK'
    BY <1>5, <2>3 DEF PollReturns, TypeOK, PCs
  <2>6. \A j \in 1..n : batch'[j] \in Pointers => batch'[j] \in registered
    BY <2>2, PointerTags DEF Ready
  <2>7. NoDanglingEvent'
    BY <1>5, <2>4, <2>6 DEF PollReturns, NoDanglingEvent, PollerTracksSessions
  <2>8. PollerTracksSessions'
    BY <1>5 DEF PollReturns, PollerTracksSessions
  <2> QED
    BY <2>5, <2>7, <2>8
<1>6. CASE PollTimesOut
  BY <1>6 DEF PollTimesOut, TypeOK, PCs, NoDanglingEvent, PollerTracksSessions
<1>7. CASE PollFails
  BY <1>7 DEF PollFails, TypeOK, PCs, NoDanglingEvent, PollerTracksSessions
<1>8. CASE SkipNull
  BY <1>8 DEF SkipNull, Current, TypeOK, NoDanglingEvent, PollerTracksSessions
<1>9. CASE AcceptClient
  <2>1. CASE Terminate
    BY <2>1 DEF Terminate, TypeOK, PCs, NoDanglingEvent, PollerTracksSessions
  <2>2. CASE ~Terminate
    <3>1. PICK s \in Slots \ sessions :
             /\ sessions' = sessions \cup {s}
             /\ socks' = [socks EXCEPT ![s] = {"client"}]
             /\ registered' = registered \cup {<<s, "client">>}
             /\ born' = born \cup {s}
      BY <1>9, <2>2 DEF AcceptClient
    <3>2. idx' = idx + 1 /\ UNCHANGED <<pc, listening, batch>>
      BY <1>9, <2>2 DEF AcceptClient
    <3>3. TypeOK'
      <4>1. socks' \in [Slots -> SUBSET Kinds]
        BY <3>1 DEF TypeOK, Kinds
      <4>2. <<s, "client">> \in Pointers
        BY PointerTags DEF Kinds
      <4> QED
        BY <3>1, <3>2, <4>1, <4>2 DEF TypeOK
    <3>4. NoDanglingEvent'
      BY <3>1, <3>2, PointerTags DEF TypeOK, NoDanglingEvent
    <3>5. PollerTracksSessions'
      <4>1. \A t \in Slots : socks'[t] = IF t = s THEN {"client"} ELSE socks[t]
        BY <3>1 DEF TypeOK
      <4> QED
        BY <3>1, <4>1, PointerTags DEF TypeOK, PollerTracksSessions
    <3> QED
      BY <3>3, <3>4, <3>5
  <2> QED
    BY <2>1, <2>2
<1>10. CASE ServerFault
  BY <1>10 DEF ServerFault, TypeOK, PCs, NoDanglingEvent, PollerTracksSessions
<1>11. ASSUME NEW s \in Slots, NEW k \in Kinds, HandlerKeeps(s, k) PROVE IInv'
  <2>1. /\ pc = "dispatch" /\ idx \in 1..Len(batch) /\ batch[idx] = <<s, k>>
        /\ idx' = idx + 1
        /\ UNCHANGED <<pc, listening, sessions, batch, born>>
    BY <1>11 DEF HandlerKeeps, Current, TypeOK
  <2>2. s \in sessions
    <3>1. batch[idx] \in Pointers /\ batch[idx][1] = s
      BY <2>1, PointerTags
    <3>2. idx \in idx..Len(batch)
      BY <2>1, <1>B
    <3> QED
      BY <2>1, <3>1, <3>2 DEF NoDanglingEvent
  <2>3. PICK new \in Opens(k), quiet \in {{}, {"remote"}} :
           /\ socks' = [socks EXCEPT ![s] = @ \cup new]
           /\ registered' = (registered \ {<<s, "dns">> : d \in {k} \cap {"dns"}})
                                \cup ({s} \X (new \ quiet))
    BY <1>11 DEF HandlerKeeps, HandlerEffect
  <2>4. new \subseteq Kinds
    BY DEF Opens, Kinds
  <2>5. \A t \in Slots : socks'[t] = IF t = s THEN socks[t] \cup new ELSE socks[t]
    BY <2>3 DEF TypeOK
  <2>6. \A p \in registered' :
           p \in registered \/ (p[1] = s /\ p[2] \in new /\ p \in Pointers)
    BY <2>3, <2>4 DEF Pointers
  <2>7. TypeOK'
    <3>1. socks' \in [Slots -> SUBSET Kinds]
      BY <2>3, <2>4 DEF TypeOK
    <3> QED
      BY <2>1, <2>6, <3>1 DEF TypeOK
  <2>8. NoDanglingEvent'
    <3> SUFFICES ASSUME NEW j \in idx'..Len(batch'), batch'[j] \in Pointers
                 PROVE  /\ batch'[j][1] \in sessions' \ born'
                        /\ batch'[j][2] \in socks'[batch'[j][1]]
      BY DEF NoDanglingEvent
    <3>1. j \in idx..Len(batch) /\ batch[j] \in Pointers
      BY <2>1, <1>B DEF TypeOK
    <3>2. batch[j][1] \in sessions \ born /\ batch[j][2] \in socks[batch[j][1]]
      BY <2>1, <3>1 DEF NoDanglingEvent
    <3>3. batch[j][1] \in Slots
      BY <3>1, PointerTags
    <3> QED
      BY <2>1, <2>5, <3>2, <3>3
  <2>9. PollerTracksSessions'
    <3>1. \A p \in registered' : p[1] \in sessions' /\ p[2] \in socks'[p[1]]
      BY <2>1, <2>2, <2>5, <2>6, PointerTags DEF PollerTracksSessions, TypeOK
    <3>2. \A t \in Slots \ sessions' : socks'[t] = {}
      BY <2>1, <2>2, <2>5 DEF PollerTracksSessions
    <3> QED
      BY <3>1, <3>2 DEF PollerTracksSessions
  <2> QED
    BY <2>7, <2>8, <2>9
<1>12. ASSUME NEW s \in Slots, NEW k \in Kinds, HandlerDrops(s, k) PROVE IInv'
  <2>1. /\ pc = "dispatch" /\ idx \in 1..Len(batch) /\ batch[idx] = <<s, k>>
        /\ batch' = Invalidate(batch, idx, s)
        /\ registered' = registered \ PointersOf(s)
        /\ sessions' = sessions \ {s}
        /\ socks' = [socks EXCEPT ![s] = {}]
        /\ idx' = idx + 1
        /\ UNCHANGED <<pc, listening, born>>
    BY <1>12 DEF HandlerDrops, Current, TypeOK
  <2>2. /\ batch' \in Seq(Events)
        /\ Len(batch') = Len(batch)
        /\ \A j \in 1..Len(batch) : j >= idx /\ batch'[j] \in Pointers =>
              batch'[j] = batch[j] /\ batch[j][1] # s
    <3>1. /\ Invalidate(batch, idx, s) \in Seq(Events)
          /\ Len(Invalidate(batch, idx, s)) = Len(batch)
          /\ \A j \in 1..Len(batch) :
                j >= idx /\ Invalidate(batch, idx, s)[j] \in Pointers =>
                   /\ Invalidate(batch, idx, s)[j] = batch[j]
                   /\ batch[j][1] # s
      BY InvalidateRest
    <3> QED
      BY <2>1, <3>1
  <2>3. \A t \in Slots : socks'[t] = IF t = s THEN {} ELSE socks[t]
    BY <2>1 DEF TypeOK
  <2>4. TypeOK'
    BY <2>1, <2>2 DEF TypeOK
  <2>5. NoDanglingEvent'
    <3> SUFFICES ASSUME NEW j \in idx'..Len(batch'), batch'[j] \in Pointers
                 PROVE  /\ batch'[j][1] \in sessions' \ born'
                        /\ batch'[j][2] \in socks'[batch'[j][1]]
      BY DEF NoDanglingEvent
    <3>1. j \in idx..Len(batch) /\ j \in 1..Len(batch) /\ j >= idx
      BY <2>1, <2>2, <1>B DEF TypeOK
    <3>2. batch'[j] = batch[j] /\ batch[j][1] # s /\ batch[j] \in Pointers
      BY <2>2, <3>1
    <3>3. batch[j][1] \in sessions \ born /\ batch[j][2] \in socks[batch[j][1]]
      BY <2>1, <3>1, <3>2 DEF NoDanglingEvent
    <3>4. batch[j][1] \in Slots
      BY <3>2, PointerTags
    <3> QED
      BY <2>1, <2>3, <3>2, <3>3, <3>4
  <2>6. PollerTracksSessions'
    <3>1. \A p \in registered' : p[1] # s /\ p \in registered /\ p[1] \in Slots
      BY <2>1, PointerTags DEF PointersOf, TypeOK
    <3>2. \A p \in registered' : p[1] \in sessions' /\ p[2] \in socks'[p[1]]
      BY <2>1, <2>3, <3>1 DEF PollerTracksSessions
    <3>3. \A t \in Slots \ sessions' : socks'[t] = {}
      BY <2>1, <2>3 DEF PollerTracksSessions
    <3> QED
      BY <3>2, <3>3 DEF PollerTracksSessions
  <2> QED
    BY <2>4, <2>5, <2>6
<1>13. ASSUME NEW s \in Slots, NEW k \in Kinds, HandlerThrows(s, k) PROVE IInv'
  BY <1>13 DEF HandlerThrows, Terminate, TypeOK, PCs, NoDanglingEvent, PollerTracksSessions
<1>14. CASE EndOfBatch
  BY <1>14 DEF EndOfBatch, TypeOK, PCs, NoDanglingEvent, PollerTracksSessions
<1>15. CASE Finish
  <2>1. socks' \in [Slots -> SUBSET Kinds] /\ \A t \in Slots : socks'[t] = {}
    BY <1>15 DEF Finish
  <2> QED
    BY <1>15, <2>1 DEF Finish, TypeOK, PCs, NoDanglingEvent, PollerTracksSessions
<1>16. CASE Sigint
  BY <1>16 DEF Sigint, TypeOK, PCs, NoDanglingEvent, PollerTracksSessions
<1> QED
  BY <1>1, <1>2, <1>3, <1>4, <1>5, <1>6, <1>7, <1>8, <1>9, <1>10, <1>11, <1>12,
     <1>13, <1>14, <1>15, <1>16 DEF Next, Loop, Dispatch

\* The server loop (server.cxx:155-325) reaches only well-typed states.
THEOREM EventLoopTypeOK == Spec => []TypeOK
<1>1. Spec => []IInv
  BY InitIInv, NextIInv, PTL DEF Spec
<1> QED
  BY <1>1, PTL DEF IInv

\* No event is dispatched to, or compared by the invalidation loop with, a
\* session that was destroyed or was created after poll() returned
\* (server.cxx:211-260).
THEOREM NoDanglingEventHolds == Spec => []NoDanglingEvent
<1>1. Spec => []IInv
  BY InitIInv, NextIInv, PTL DEF Spec
<1> QED
  BY <1>1, PTL DEF IInv

\* Between any two steps the poller holds pointers to sockets of live sessions
\* only (server.cxx:344-371, session.cxx:90-120).
THEOREM PollerTracksSessionsHolds == Spec => []PollerTracksSessions
<1>1. Spec => []IInv
  BY InitIInv, NextIInv, PTL DEF Spec
<1> QED
  BY <1>1, PTL DEF IInv

-----------------------------------------------------------------------------
(***************************************************************************)
(* After a stop request every step brings serve() nearer to its end.       *)
(***************************************************************************)

\* The loop stands at an event of its batch, or right behind the last one.
InBatch ==
    pc = "dispatch" => Len(batch) <= MaxBatch /\ idx <= Len(batch) + 1

\* stop() was called, or an error ended the loop.
StopAsked == pc # "start" /\ ~listening

\* What serve() has left to do if it is to stop: one more poll at most, and the
\* events of its batch
StepsToEnd ==
    CASE pc = "calling"  -> MaxBatch + 5
      [] pc = "waiting"  -> MaxBatch + 4
      [] pc = "dispatch" -> Len(batch) - idx + 4
      [] pc = "test"     -> 2
      [] pc = "stopping" -> 1
      [] OTHER           -> 0

EndsNearer == StopAsked => StopAsked' /\ StepsToEnd' < StepsToEnd

LEMMA Batch ==
    ASSUME IInv
    PROVE  /\ pc \in PCs /\ listening \in BOOLEAN
           /\ idx \in Nat \ {0} /\ Len(batch) \in Nat /\ MaxBatch \in Nat \ {0}
BY EventLoopAssumption DEF IInv, TypeOK

\* A session that is deleted leaves null events, and as many as before.
LEMMA DropsSameLength ==
    ASSUME IInv, NEW s \in Slots, NEW k \in Kinds, HandlerDrops(s, k)
    PROVE  Len(batch') = Len(batch)
<1>1. Len(Invalidate(batch, idx, s)) = Len(batch)
  BY InvalidateRest DEF IInv
<1>2. batch' = Invalidate(batch, idx, s)
  BY DEF HandlerDrops
<1> QED
  BY <1>1, <1>2

LEMMA InBatchStep ==
    ASSUME IInv, InBatch, [Next]_vars
    PROVE  InBatch'
<1>1. idx \in Nat /\ Len(batch) \in Nat /\ MaxBatch \in Nat /\ MaxBatch >= 1
  BY Batch
<1>2. CASE pc' # "dispatch"
  BY <1>2 DEF InBatch
<1>3. CASE UNCHANGED <<pc, batch, idx>>
  BY <1>3 DEF InBatch
<1>4. CASE /\ pc = "dispatch" /\ idx <= Len(batch)
           /\ idx' = idx + 1 /\ Len(batch') = Len(batch)
  BY <1>1, <1>4 DEF InBatch
<1>5. CASE PollReturns
  <2>1. PICK n \in 1..MaxBatch : batch' \in [1..n -> Ready]
    BY <1>5 DEF PollReturns
  <2>2. Len(batch') = n /\ idx' = 1
    BY <1>5, <2>1 DEF PollReturns
  <2> QED
    BY <1>1, <2>1, <2>2 DEF InBatch
<1>6. CASE Dispatch
  <2>1. CASE SkipNull \/ AcceptClient
    BY <1>2, <1>3, <1>4, <2>1 DEF SkipNull, AcceptClient, Terminate, Current
  <2>2. CASE ServerFault \/ EndOfBatch
    BY <1>2, <2>2 DEF ServerFault, EndOfBatch
  <2>3. ASSUME NEW s \in Slots, NEW k \in Kinds,
               HandlerKeeps(s, k) \/ HandlerThrows(s, k)
        PROVE  InBatch'
    BY <1>2, <1>4, <2>3 DEF HandlerKeeps, HandlerThrows, Terminate, Current
  <2>4. ASSUME NEW s \in Slots, NEW k \in Kinds, HandlerDrops(s, k)
        PROVE  InBatch'
    <3>1. Len(batch') = Len(batch)
      BY <2>4, DropsSameLength
    <3> QED
      BY <1>4, <2>4, <3>1 DEF HandlerDrops, Current
  <2> QED
    BY <1>6, <2>1, <2>2, <2>3, <2>4 DEF Dispatch
<1>7. CASE Start \/ TestServing \/ EnterPoll \/ PollTimesOut \/ PollFails \/ Finish
  BY <1>2, <1>7
     DEF Start, TestServing, EnterPoll, PollTimesOut, PollFails, Finish
<1>8. CASE Sigint \/ UNCHANGED vars
  BY <1>2, <1>3, <1>8 DEF Sigint, vars
<1> QED
  BY <1>5, <1>6, <1>7, <1>8 DEF Next, Loop

LEMMA ToEnd ==
    /\ pc = "calling" => StepsToEnd = MaxBatch + 5
    /\ pc = "waiting" => StepsToEnd = MaxBatch + 4
    /\ pc = "dispatch" => StepsToEnd = Len(batch) - idx + 4
    /\ pc = "test" => StepsToEnd = 2
    /\ pc = "stopping" => StepsToEnd = 1
    /\ pc \in {"start", "stopped", "terminated"} => StepsToEnd = 0
BY DEF StepsToEnd

LEMMA ToEndPrime ==
    /\ pc' = "calling" => StepsToEnd' = MaxBatch + 5
    /\ pc' = "waiting" => StepsToEnd' = MaxBatch + 4
    /\ pc' = "dispatch" => StepsToEnd' = Len(batch') - idx' + 4
    /\ pc' = "test" => StepsToEnd' = 2
    /\ pc' = "stopping" => StepsToEnd' = 1
    /\ pc' \in {"start", "stopped", "terminated"} => StepsToEnd' = 0
BY DEF StepsToEnd

LEMMA EndInSight ==
    ASSUME IInv, InBatch
    PROVE  StepsToEnd \in 0..MaxBatch + 5
BY Batch, ToEnd DEF InBatch, PCs

LEMMA DispatchEnds ==
    ASSUME IInv, InBatch, ~listening, Dispatch
    PROVE  StepsToEnd' < StepsToEnd /\ pc' # "start" /\ ~listening'
<1>1. idx \in Nat /\ Len(batch) \in Nat /\ MaxBatch \in Nat
  BY Batch
<1>2. pc = "dispatch"
  BY DEF Dispatch, SkipNull, AcceptClient, ServerFault, HandlerKeeps, HandlerDrops,
         HandlerThrows, EndOfBatch, Current
<1>3. StepsToEnd = Len(batch) - idx + 4 /\ StepsToEnd >= 3
  BY <1>1, <1>2, ToEnd DEF InBatch
<1>4. CASE pc' \in {"test", "terminated"} /\ ~listening'
  BY <1>1, <1>3, <1>4, ToEndPrime
<1>5. CASE /\ UNCHANGED <<pc, listening>>
           /\ idx' = idx + 1 /\ Len(batch') = Len(batch)
  <2>1. StepsToEnd' = Len(batch) - (idx + 1) + 4
    BY <1>2, <1>5, ToEndPrime
  <2> QED
    BY <1>1, <1>2, <1>3, <1>5, <2>1
<1>6. CASE SkipNull \/ AcceptClient \/ ServerFault \/ EndOfBatch
  BY <1>4, <1>5, <1>6 DEF SkipNull, AcceptClient, ServerFault, EndOfBatch, Terminate
<1>7. ASSUME NEW s \in Slots, NEW k \in Kinds,
             HandlerKeeps(s, k) \/ HandlerThrows(s, k)
      PROVE  StepsToEnd' < StepsToEnd /\ pc' # "start" /\ ~listening'
  BY <1>4, <1>5, <1>7 DEF HandlerKeeps, HandlerThrows, Terminate
<1>8. ASSUME NEW s \in Slots, NEW k \in Kinds, HandlerDrops(s, k)
      PROVE  StepsToEnd' < StepsToEnd /\ pc' # "start" /\ ~listening'
  <2>1. Len(batch') = Len(batch)
    BY <1>8, DropsSameLength
  <2> QED
    BY <1>5, <1>8, <2>1 DEF HandlerDrops
<1> QED
  BY <1>6, <1>7, <1>8 DEF Dispatch

LEMMA StepEnds ==
    ASSUME IInv, InBatch, [Next]_vars
    PROVE  [EndsNearer]_vars
<1> SUFFICES ASSUME pc # "start", ~listening, Next, vars' # vars
             PROVE  StepsToEnd' < StepsToEnd /\ pc' # "start" /\ ~listening'
  BY DEF EndsNearer, StopAsked
<1>1. idx \in Nat /\ Len(batch) \in Nat /\ MaxBatch \in Nat /\ MaxBatch >= 1
  BY Batch
<1>2. ~Start
  BY DEF Start
<1>3. CASE TestServing
  BY <1>3, ToEnd, ToEndPrime DEF TestServing
<1>4. CASE EnterPoll
  BY <1>1, <1>4, ToEnd, ToEndPrime DEF EnterPoll
<1>5. CASE PollReturns
  <2>1. pc = "waiting" /\ pc' = "dispatch" /\ idx' = 1 /\ ~listening'
    BY <1>5 DEF PollReturns
  <2>2. PICK n \in 1..MaxBatch : batch' \in [1..n -> Ready]
    BY <1>5 DEF PollReturns
  <2>3. Len(batch') = n
    BY <2>2
  <2>4. StepsToEnd = MaxBatch + 4 /\ StepsToEnd' = n - 1 + 4
    BY <2>1, <2>3, ToEnd, ToEndPrime
  <2> QED
    BY <1>1, <2>1, <2>2, <2>4
<1>6. CASE PollTimesOut \/ PollFails \/ Sigint
  <2>1. CASE pc = "waiting" /\ pc' \in {"test", "stopping"} /\ ~listening'
    <3>1. StepsToEnd = MaxBatch + 4 /\ StepsToEnd' \in {1, 2}
      BY <2>1, ToEnd, ToEndPrime
    <3> QED
      BY <1>1, <2>1, <3>1
  <2>2. CASE PollTimesOut
    BY <2>1, <2>2, Zenon DEF PollTimesOut
  <2>3. CASE PollFails
    <3>1. ~listening'
      BY <2>3, Zenon DEF PollFails
    <3> QED
      BY <2>1, <2>3, <3>1 DEF PollFails
  <2>4. CASE Sigint
    <3>1. listening \in BOOLEAN /\ listening' = FALSE /\ pc = "waiting"
      BY <2>4, Batch DEF Sigint
    <3>2. listening' = listening
      BY <3>1
    <3>3. ~TimedPoll
      BY <2>4, <3>1, <3>2 DEF Sigint, vars
    <3> QED
      BY <2>1, <2>4, <3>1, <3>3 DEF Sigint
  <2> QED
    BY <1>6, <2>2, <2>4, <2>3
<1>7. CASE Finish
  BY <1>7, ToEnd, ToEndPrime DEF Finish
<1> QED
  BY <1>2, <1>3, <1>4, <1>5, <1>6, <1>7, DispatchEnds DEF Next, Loop

\* Once stop() was called, or an error ended the loop, nothing sets the
\* listening socket again, and every step brings serve() nearer to its end: it
\* polls once more at most, and takes at most MaxBatch + 5 steps, whatever the
\* sessions it still dispatches to do (server.cxx:155-325).
THEOREM StopInSight ==
    Spec => [](StepsToEnd \in 0..MaxBatch + 5) /\ [][EndsNearer]_vars
<1> DEFINE J == IInv /\ InBatch
<1>1. Init => J
  BY InitIInv DEF Init, InBatch
<1>2. J /\ [Next]_vars => J'
  BY NextIInv, InBatchStep
<1>3. J => StepsToEnd \in 0..MaxBatch + 5
  BY EndInSight
<1>4. J /\ [Next]_vars => [EndsNearer]_vars
  BY StepEnds
<1> QED
  BY <1>1, <1>2, <1>3, <1>4, PTL DEF Spec
=============================================================================
