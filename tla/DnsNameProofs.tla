---------------------------- MODULE DnsNameProofs ----------------------------
(***************************************************************************)
(* DnsName for messages of any length, however their links are laid:       *)
(* reading stays inside the message, and never holds more calls than the   *)
(* message has octets; what is read is the name that is there, and only    *)
(* where there is none is the message given up; and every step makes the   *)
(* rest of the work smaller.                                               *)
(***************************************************************************)
EXTENDS DnsName, FiniteSetTheorems, SequenceTheorems,
    WellFoundedInduction, TLAPS

-----------------------------------------------------------------------------
(* Sequences *)

LEMMA PushLemma ==
    ASSUME NEW S, NEW s \in Seq(S), NEW x \in S
    PROVE  /\ Append(s, x) \in Seq(S)
           /\ Len(Append(s, x)) = Len(s) + 1
           /\ Append(s, x)[Len(s) + 1] = x
           /\ \A i \in 1 .. Len(s) : Append(s, x)[i] = s[i]
  OBVIOUS

LEMMA PopLemma ==
    ASSUME NEW S, NEW s \in Seq(S), s # <<>>
    PROVE  /\ Len(s) \in Nat \ {0}
           /\ s[Len(s)] \in S
           /\ SubSeq(s, 1, Len(s) - 1) \in Seq(S)
           /\ Len(SubSeq(s, 1, Len(s) - 1)) = Len(s) - 1
           /\ \A i \in 1 .. Len(s) - 1 : SubSeq(s, 1, Len(s) - 1)[i] = s[i]
<1>1. Len(s) \in Nat \ {0} /\ DOMAIN s = 1 .. Len(s)
  OBVIOUS
<1>2. s[Len(s)] \in S
  BY <1>1
<1>3. \A i \in 1 .. Len(s) - 1 : s[i] \in S
  BY <1>1
<1> QED  BY <1>1, <1>2, <1>3

-----------------------------------------------------------------------------
(* The invariant, of a stack of calls *)

\* A call of message m that waits, or has waited, for a link: it goes on
\* behind it.
Waits(f, m) == f.entry < f.saved /\ f.saved <= Len(m)

\* Calls of message m: each began inside it, no two at the same place, and all
\* but the last wait.
Inside(s, m) == \A i \in DOMAIN s : s[i].entry < Len(m)
Distinct(s)  == \A i, j \in DOMAIN s : s[i].entry = s[j].entry => i = j
Nested(s, m) == \A i \in 1 .. Len(s) - 1 : Waits(s[i], m)

Calls(s, m) == s \in Seq(Frame) /\ Inside(s, m) /\ Distinct(s) /\ Nested(s, m)

ModeOK ==
    /\ frames # <<>> => frames[1].entry = start
    /\ mode = "idle" => frames = <<>> /\ (pos # 0 => start < pos)
    /\ mode = "read" => frames # <<>> /\ Top.entry <= pos
    /\ mode = "return" => frames # <<>> /\ Waits(Top, mem)

IInv == TypeOK /\ Calls(frames, mem) /\ ModeOK /\ mode # "overflow"

LEMMA Intervals ==
    \A x, y \in Int :
        /\ IsFiniteSet(x .. y)
        /\ Cardinality(x .. y) = IF x > y THEN 0 ELSE y - x + 1
  BY FS_Interval, Zenon

\* No injection of k + 1 calls into n places, unless there is room.
LEMMA Pigeonhole ==
    ASSUME NEW n \in Nat, NEW k \in Nat, NEW e \in [1 .. k + 1 -> 0 .. n - 1],
           \A i, j \in 1 .. k + 1 : e[i] = e[j] => i = j
    PROVE  k < n
<1>1. PICK S : S = 1 .. k + 1
  OBVIOUS
<1>2. PICK T : T = 0 .. n - 1
  OBVIOUS
<1>3. IsFiniteSet(S) /\ Cardinality(S) = k + 1
  BY <1>1, Intervals
<1>4. IsFiniteSet(T) /\ Cardinality(T) = n
  BY <1>2, Intervals
<1>5. e \in [S -> T] /\ (\A i, j \in S : e[i] = e[j] => i = j)
  BY <1>1, <1>2
<1>6. ~(Cardinality(T) < Cardinality(S))
  <2> SUFFICES ASSUME Cardinality(T) < Cardinality(S) PROVE FALSE
    OBVIOUS
  <2>1. \E i, j \in S : i # j /\ e[i] = e[j]
    BY <1>3, <1>4, <1>5, FS_PigeonHole, Zenon
  <2> QED  BY <1>5, <2>1
<1> QED  BY <1>3, <1>4, <1>6

\* Calls at distinct places of the message are fewer than its octets, if there
\* is one more place where none of them began.
LEMMA RoomForOneMore ==
    ASSUME NEW m \in Messages, NEW s \in Seq(Frame), NEW p \in Nat, p < Len(m),
           \A i \in DOMAIN s : s[i].entry < Len(m) /\ s[i].entry # p,
           \A i, j \in DOMAIN s : s[i].entry = s[j].entry => i = j
    PROVE  Len(s) < Len(m)
<1>1. PICK n : n = Len(m)
  OBVIOUS
<1>2. PICK k : k = Len(s)
  OBVIOUS
<1>3. n \in Nat /\ k \in Nat /\ DOMAIN s = 1 .. k
  BY <1>1, <1>2, NameAssumption
<1>4. \A i \in 1 .. k : s[i] \in Frame
  BY <1>2, <1>3
<1>5. \A i \in 1 .. k : s[i].entry \in 0 .. n - 1 /\ s[i].entry # p
  <2>1. TAKE i \in 1 .. k
  <2>2. PICK q : q = s[i].entry
    OBVIOUS
  <2>3. q \in Nat
    BY <1>4, <2>2 DEF Frame
  <2>4. q < n /\ q # p
    BY <1>1, <1>3, <2>2
  <2> QED  BY <1>3, <2>2, <2>3, <2>4
<1>6. p \in 0 .. n - 1
  BY <1>1, <1>3
<1>7. PICK e : e = [i \in 1 .. k + 1 |-> IF i = k + 1 THEN p ELSE s[i].entry]
  OBVIOUS
<1>8. e \in [1 .. k + 1 -> 0 .. n - 1]
  BY <1>3, <1>5, <1>6, <1>7
<1>9. \A i, j \in 1 .. k + 1 : e[i] = e[j] => i = j
  BY <1>3, <1>5, <1>7, SMTT(30)
<1>10. k < n
  BY <1>3, <1>8, <1>9, Pigeonhole
<1> QED  BY <1>1, <1>2, <1>10

-----------------------------------------------------------------------------
(* Stacks of calls *)

\* A call on top of calls that all wait
LEMMA PushCall ==
    ASSUME NEW m, NEW s \in Seq(Frame), Inside(s, m), Distinct(s),
           \A i \in DOMAIN s : Waits(s[i], m),
           NEW f \in Frame, f.entry < Len(m),
           \A i \in DOMAIN s : s[i].entry # f.entry,
           NEW t, t = Append(s, f)
    PROVE  /\ Calls(t, m) /\ t # <<>> /\ t[Len(t)] = f
           /\ s # <<>> => t[1] = s[1]
           /\ s = <<>> => t[1] = f
<1>1. /\ t \in Seq(Frame) /\ Len(t) = Len(s) + 1 /\ t[Len(s) + 1] = f
      /\ \A i \in 1 .. Len(s) : t[i] = s[i]
  BY PushLemma
<1>2. Len(s) \in Nat /\ DOMAIN s = 1 .. Len(s) /\ DOMAIN t = 1 .. Len(s) + 1
  BY <1>1
<1>3. Inside(t, m)
  BY <1>1, <1>2 DEF Inside
<1>4. Distinct(t)
  BY <1>1, <1>2 DEF Distinct
<1>5. Nested(t, m)
  BY <1>1, <1>2 DEF Nested
<1>6. t # <<>> /\ (s # <<>> => Len(s) >= 1) /\ (s = <<>> => Len(s) = 0)
  BY <1>1, <1>2
<1> QED  BY <1>1, <1>2, <1>3, <1>4, <1>5, <1>6 DEF Calls

\* The last call has returned.
LEMMA PopCall ==
    ASSUME NEW m, NEW s, Calls(s, m), s # <<>>,
           NEW t, t = SubSeq(s, 1, Len(s) - 1)
    PROVE  /\ Calls(t, m)
           /\ Len(s) = 1 => t = <<>>
           /\ Len(s) # 1 => t # <<>>
           /\ t # <<>> => t[1] = s[1] /\ Waits(t[Len(t)], m)
<1>1. s \in Seq(Frame)
  BY DEF Calls
<1>2. /\ t \in Seq(Frame) /\ Len(t) = Len(s) - 1 /\ Len(s) \in Nat \ {0}
      /\ \A i \in 1 .. Len(s) - 1 : t[i] = s[i]
  BY <1>1, PopLemma
<1>3. DOMAIN s = 1 .. Len(s) /\ DOMAIN t = 1 .. Len(s) - 1
  BY <1>1, <1>2
<1>4. Inside(t, m) /\ Distinct(t) /\ Nested(t, m)
  BY <1>2, <1>3 DEF Calls, Inside, Distinct, Nested
<1>5. t = <<>> <=> Len(s) = 1
  <2>1. t = <<>> <=> Len(t) = 0
    BY <1>2, EmptySeq
  <2> QED  BY <1>2, <2>1
<1>6. ASSUME t # <<>> PROVE t[1] = s[1] /\ Waits(t[Len(t)], m)
  <2>1. Len(s) - 1 \in 1 .. Len(s) - 1 /\ 1 \in 1 .. Len(s) - 1
    BY <1>2, <1>5, <1>6
  <2> QED  BY <2>1, <1>2 DEF Calls, Nested
<1> QED  BY <1>2, <1>4, <1>5, <1>6 DEF Calls

\* t is s, with its last call in the state f.
Changed(s, f, t) ==
    /\ t = Append(SubSeq(s, 1, Len(s) - 1), f)
    /\ f.entry = s[Len(s)].entry

\* The last call has changed, not where it began.
LEMMA ChangeCall ==
    ASSUME NEW m, NEW s, Calls(s, m), s # <<>>,
           NEW f \in Frame, NEW t, Changed(s, f, t)
    PROVE  Calls(t, m) /\ Len(t) = Len(s) /\ t # <<>> /\ t[Len(t)] = f
           /\ t[1].entry = s[1].entry
<1>1. s \in Seq(Frame)
  BY DEF Calls
<1>2. PICK b : b = SubSeq(s, 1, Len(s) - 1)
  OBVIOUS
<1>3. PICK k : k = Len(s)
  OBVIOUS
<1>4. k \in Nat \ {0} /\ b \in Seq(Frame) /\ Len(b) = k - 1
      /\ \A i \in 1 .. k - 1 : b[i] = s[i]
  BY <1>1, <1>2, <1>3, PopLemma
<1>5. t = Append(b, f) /\ f.entry = s[Len(s)].entry
  BY <1>2 DEF Changed
<1>6. /\ t \in Seq(Frame) /\ Len(t) = Len(b) + 1 /\ t[Len(b) + 1] = f
      /\ \A i \in 1 .. Len(b) : t[i] = b[i]
  <2>1. b \in Seq(Frame)
    BY <1>4
  <2>2. /\ Append(b, f) \in Seq(Frame)
        /\ Len(Append(b, f)) = Len(b) + 1
        /\ Append(b, f)[Len(b) + 1] = f
        /\ \A i \in 1 .. Len(b) : Append(b, f)[i] = b[i]
    BY <2>1, PushLemma
  <2> QED  BY <1>5, <2>2
<1>7. Len(b) + 1 = k
  BY <1>4
<1>8. /\ t \in Seq(Frame) /\ Len(t) = k /\ t[k] = f
      /\ \A i \in 1 .. k - 1 : t[i] = s[i]
  BY <1>4, <1>6, <1>7
<1>9. DOMAIN s = 1 .. k /\ DOMAIN t = 1 .. k
  BY <1>1, <1>3, <1>4, <1>8
<1>10. \A i \in 1 .. k : i = k \/ i \in 1 .. k - 1
  BY <1>4
<1>11. \A i \in 1 .. k : t[i].entry = s[i].entry
  BY <1>3, <1>5, <1>8, <1>10
<1>12. Inside(t, m)
  BY <1>9, <1>11 DEF Calls, Inside
<1>13. Distinct(t)
  BY <1>9, <1>11 DEF Calls, Distinct
<1>14. Nested(t, m)
  BY <1>3, <1>8 DEF Calls, Nested
<1>15. t # <<>>
  BY <1>4, <1>8
<1>16. t[1].entry = s[1].entry
  BY <1>4, <1>11
<1> QED  BY <1>3, <1>8, <1>12, <1>13, <1>14, <1>15, <1>16 DEF Calls

-----------------------------------------------------------------------------
(* Octets of the message *)

LEMMA OctetType ==
    ASSUME TypeOK, pos < Len(mem)
    PROVE  /\ mem \in Seq(Octets) /\ Len(mem) \in Nat /\ pos \in Nat
           /\ Octet(pos) \in Octets
<1>1. mem \in Seq(Octets)
  BY NameAssumption DEF TypeOK
<1>2. PICK n : n = Len(mem)
  OBVIOUS
<1>3. n \in Nat /\ DOMAIN mem = 1 .. n /\ \A i \in 1 .. n : mem[i] \in Octets
  BY <1>1, <1>2
<1>4. pos \in Nat /\ pos + 1 \in 1 .. n
  BY <1>2, <1>3 DEF TypeOK
<1> QED  BY <1>1, <1>2, <1>3, <1>4 DEF Octet

LEMMA JoinType ==
    ASSUME NEW a \in Seq(Octets), NEW b \in Seq(Octets)
    PROVE  Join(a, b) \in Seq(Octets)
<1>1. Dot \in Octets
  BY DEF Dot, Octets
<1>2. <<Dot>> \in Seq(Octets)
  BY <1>1
<1>3. a \o <<Dot>> \in Seq(Octets)
  BY <1>2
<1>4. PICK c : c = a \o <<Dot>>
  OBVIOUS
<1>5. c \o b \in Seq(Octets)
  BY <1>3, <1>4
<1> QED  BY <1>4, <1>5 DEF Join

-----------------------------------------------------------------------------
(* Steps *)

LEMMA EnterCalls ==
    ASSUME mem \in Messages, NEW s \in Seq(Frame), Inside(s, mem), Distinct(s),
           \A i \in DOMAIN s : Waits(s[i], mem),
           NEW p \in Nat, p < Len(mem), Enter(s, p)
    PROVE  \/ mode' = "loop" /\ UNCHANGED <<frames, pos>>
           \/ /\ mode' = "read" /\ pos' = p
              /\ Calls(frames', mem) /\ frames' # <<>>
              /\ frames'[Len(frames')].entry = p
              /\ s # <<>> => frames'[1] = s[1]
              /\ s = <<>> => frames'[1].entry = p
<1>1. CASE \E i \in DOMAIN s : s[i].entry = p
  BY <1>1 DEF Enter
<1>2. CASE \A i \in DOMAIN s : s[i].entry # p
  <2>1. Len(s) < Len(mem)
    BY <1>2, RoomForOneMore DEF Inside, Distinct
  <2>2. Len(mem) <= StackDepth /\ StackDepth \in Nat /\ Len(mem) \in Nat
        /\ Len(s) \in Nat
    BY NameAssumption
  <2>3. Len(s) # StackDepth
    BY <2>1, <2>2
  <2>4. PICK f : f = [entry |-> p, text |-> <<>>, saved |-> 0]
    OBVIOUS
  <2>5. f \in Frame /\ f.entry = p
    BY <2>4 DEF Frame
  <2>6. mode' = "read" /\ pos' = p /\ frames' = Append(s, f)
    BY <1>2, <2>3, <2>4 DEF Enter
  <2>7. PICK t : t = frames'
    OBVIOUS
  <2>8. t = Append(s, f) /\ f.entry < Len(mem) /\ f \in Frame
    BY <2>5, <2>6, <2>7
  <2>9. \A i \in DOMAIN s : s[i].entry # f.entry
    BY <1>2, <2>5
  <2>10. /\ Calls(t, mem) /\ t # <<>> /\ t[Len(t)] = f
         /\ s # <<>> => t[1] = s[1]
         /\ s = <<>> => t[1] = f
    <3>1. Calls(t, mem)
      BY <2>8, <2>9, PushCall
    <3>2. t # <<>> /\ t[Len(t)] = f
      BY <2>8, <2>9, PushCall
    <3>3. s # <<>> => t[1] = s[1]
      BY <2>8, <2>9, PushCall
    <3>4. s = <<>> => t[1] = f
      BY <2>8, <2>9, PushCall
    <3> QED  BY <3>1, <3>2, <3>3, <3>4
  <2> QED  BY <2>5, <2>6, <2>7, <2>10
<1> QED  BY <1>1, <1>2

LEMMA FailIInv ==
    ASSUME IInv, NEW why \in Failures, why # "overflow", Fail(why)
    PROVE  IInv'
<1>1. UNCHANGED <<mem, allowed, pos, frames, start, domain>> /\ mode' = why
  BY DEF Fail
<1>2. why \notin {"idle", "read", "return"}
  BY DEF Failures
<1>3. TypeOK'
  BY <1>1 DEF IInv, TypeOK
<1>4. Calls(frames, mem)'
  BY <1>1 DEF IInv, Calls, Inside, Distinct, Nested, Waits
<1>5. ModeOK'
  BY <1>1, <1>2 DEF IInv, ModeOK
<1> QED  BY <1>1, <1>3, <1>4, <1>5 DEF IInv

LEMMA LeaveIInv ==
    ASSUME IInv, frames # <<>>, NEW text \in Seq(Octets), NEW p \in Nat,
           p <= Len(mem), Top.entry < p, Leave(text, p)
    PROVE  IInv'
<1>1. /\ pos' = p /\ frames' = SubSeq(frames, 1, Len(frames) - 1)
      /\ domain' = text /\ UNCHANGED <<mem, allowed, start>>
      /\ mode' \in {"length", "idle", "return"}
      /\ mode' = "idle" => Len(frames) = 1
      /\ mode' = "return" => Len(frames) # 1
  BY DEF Leave, Below
<1>2. PICK t : t = frames'
  OBVIOUS
<1>3. /\ Calls(t, mem)
      /\ Len(frames) = 1 => t = <<>>
      /\ Len(frames) # 1 => t # <<>>
      /\ t # <<>> => t[1] = frames[1] /\ Waits(t[Len(t)], mem)
  <2>1. t = SubSeq(frames, 1, Len(frames) - 1)
    BY <1>1, <1>2
  <2>2. Calls(frames, mem)
    BY DEF IInv
  <2> QED  BY <2>1, <2>2, PopCall
<1>4. TypeOK'
  <2>1. Len(mem) \in Nat
    BY NameAssumption DEF IInv, TypeOK
  <2>2. p \in 0 .. Len(mem)
    BY <2>1
  <2> QED  BY <1>1, <1>2, <1>3, <2>2 DEF IInv, TypeOK, Calls, Failures
<1>5. Calls(frames, mem)'
  BY <1>1, <1>2, <1>3 DEF Calls, Inside, Distinct, Nested, Waits
<1>6. ModeOK'
  <2>1. frames' # <<>> => frames'[1].entry = start'
    BY <1>1, <1>2, <1>3 DEF IInv, ModeOK
  <2>2. mode' = "idle" => frames' = <<>> /\ start' < pos'
    BY <1>1, <1>2, <1>3 DEF IInv, ModeOK, Top
  <2>3. mode' = "return" => frames' # <<>> /\ Waits(frames'[Len(frames')], mem')
    BY <1>1, <1>2, <1>3 DEF Waits
  <2> QED  BY <1>1, <2>1, <2>2, <2>3 DEF ModeOK, Top
<1> QED  BY <1>1, <1>4, <1>5, <1>6 DEF IInv

LEMMA CallIInv ==
    ASSUME IInv, Call
    PROVE  IInv'
<1>1. mode = "idle" /\ pos < Len(mem) /\ start' = pos /\ Enter(frames, pos)
      /\ UNCHANGED <<mem, allowed, domain>> /\ frames = <<>>
  BY DEF Call, IInv, ModeOK
<1>2. mem \in Messages /\ pos \in Nat
  BY DEF IInv, TypeOK
<1>3. frames \in Seq(Frame) /\ Inside(frames, mem) /\ Distinct(frames)
      /\ \A i \in DOMAIN frames : Waits(frames[i], mem)
  BY <1>1 DEF IInv, Calls
<1>4. \/ mode' = "loop" /\ UNCHANGED <<frames, pos>>
      \/ /\ mode' = "read" /\ pos' = pos
         /\ Calls(frames', mem) /\ frames' # <<>>
         /\ frames'[Len(frames')].entry = pos
         /\ frames'[1].entry = pos
  BY <1>1, <1>2, <1>3, EnterCalls
<1>5. TypeOK'
  BY <1>1, <1>2, <1>4 DEF IInv, TypeOK, Calls, Failures
<1>6. Calls(frames, mem)'
  BY <1>1, <1>4 DEF IInv, Calls, Inside, Distinct, Nested, Waits
<1>7. ModeOK'
  BY <1>1, <1>2, <1>4 DEF ModeOK, Top
<1> QED  BY <1>1, <1>4, <1>5, <1>6, <1>7 DEF IInv

\* What every step that reads an octet of a call starts from
LEMMA Reading ==
    ASSUME IInv, mode \in {"read", "return"}
    PROVE  /\ mem \in Messages /\ mem \in Seq(Octets) /\ Len(mem) \in Nat
           /\ pos \in Nat /\ pos <= Len(mem)
           /\ frames \in Seq(Frame) /\ frames # <<>>
           /\ Top \in Frame /\ Top.entry \in Nat /\ Top.text \in Seq(Octets)
           /\ Top.saved \in Nat /\ Below \in Seq(Frame)
           /\ Top.entry < Len(mem)
<1>1. mem \in Messages /\ mem \in Seq(Octets)
  BY NameAssumption DEF IInv, TypeOK
<1>2. Len(mem) \in Nat
  BY <1>1
<1>3. pos \in Nat /\ pos <= Len(mem)
  BY <1>2 DEF IInv, TypeOK
<1>4. frames \in Seq(Frame) /\ frames # <<>> /\ Inside(frames, mem)
  BY DEF IInv, ModeOK, Calls
<1>5. Len(frames) \in Nat \ {0} /\ Top \in Frame /\ Below \in Seq(Frame)
  BY <1>4, PopLemma DEF Top, Below
<1>6. PICK f : f = Top
  OBVIOUS
<1>7. f.entry \in Nat /\ f.text \in Seq(Octets) /\ f.saved \in Nat
  BY <1>5, <1>6 DEF Frame
<1>8. Len(frames) \in DOMAIN frames
  BY <1>4, <1>5
<1>9. f.entry < Len(mem)
  BY <1>4, <1>6, <1>8 DEF Inside, Top
<1> QED  BY <1>1, <1>2, <1>3, <1>4, <1>5, <1>6, <1>7, <1>9

LEMMA LabelType ==
    ASSUME IInv, mode = "read", ~Misses(pos, 1), NEW len \in 1 .. 191,
           ~Misses(pos, 1 + len)
    PROVE  LabelAt(pos, len) \in Seq(Octets)
<1>1. PICK n : n = Len(mem)
  OBVIOUS
<1>2. mem \in Seq(Octets) /\ n \in Nat /\ pos \in Nat
  BY <1>1, Reading
<1>3. pos + (1 + len) <= n
  BY <1>1, <1>2 DEF Misses
<1>4. \A i \in pos + 2 .. pos + 1 + len : mem[i] \in Octets
  BY <1>1, <1>2, <1>3
<1> QED  BY <1>1, <1>2, <1>3, <1>4 DEF LabelAt

LEMMA ReadEndIInv ==
    ASSUME IInv, mode = "read", ~Misses(pos, 1), ReadEnd
    PROVE  IInv'
<1>1. Leave(Top.text, pos + 1)
  BY DEF ReadEnd
<1>2. pos + 1 \in Nat /\ pos + 1 <= Len(mem)
  BY Reading DEF Misses
<1>3. Top.entry < pos + 1
  <2>1. Top.entry <= pos
    BY DEF IInv, ModeOK
  <2> QED  BY <2>1, Reading
<1>4. frames # <<>> /\ Top.text \in Seq(Octets)
  BY Reading
<1> QED  BY <1>1, <1>2, <1>3, <1>4, LeaveIInv

LEMMA ReadLabelIInv ==
    ASSUME IInv, mode = "read", ~Misses(pos, 1), ReadLabel
    PROVE  IInv'
<1>1. PICK len \in 1 .. 191 : len = Octet(pos)
  BY DEF ReadLabel
<1>2. CASE len > MaxLabel
  BY <1>1, <1>2, FailIInv DEF ReadLabel, Failures
<1>3. CASE ~(len > MaxLabel) /\ Misses(pos, 1 + len)
  BY <1>1, <1>3, FailIInv DEF ReadLabel, Failures
<1>4. CASE ~(len > MaxLabel) /\ ~Misses(pos, 1 + len)
  <2>1. PICK label : label = LabelAt(pos, len)
    OBVIOUS
  <2>2. label \in Seq(Octets)
    BY <1>4, <2>1, LabelType
  <2>3. PICK text : text = Join(Top.text, label)
    OBVIOUS
  <2>4. text \in Seq(Octets)
    BY <2>2, <2>3, JoinType, Reading
  <2>5. PICK f : f = [Top EXCEPT !.text = text]
    OBVIOUS
  <2>6. f \in Frame /\ f.entry = Top.entry
    BY <2>4, <2>5, Reading DEF Frame
  <2>7. pos' = pos + 1 + len /\ frames' = Append(Below, f)
        /\ UNCHANGED <<mem, allowed, start, domain, mode>>
    BY <1>1, <1>4, <2>1, <2>3, <2>5 DEF ReadLabel
  <2>8. PICK t : t = frames'
    OBVIOUS
  <2>9. Changed(frames, f, t)
    BY <2>6, <2>7, <2>8 DEF Below, Top, Changed
  <2>10. Calls(frames, mem) /\ frames # <<>>
    BY Reading DEF IInv
  <2>11. Calls(t, mem) /\ t # <<>> /\ t[Len(t)] = f
         /\ t[1].entry = frames[1].entry
    BY <2>6, <2>9, <2>10, ChangeCall
  <2>12. pos + 1 + len \in 0 .. Len(mem) /\ pos <= pos + 1 + len
    BY <1>4, Reading DEF Misses
  <2>13. TypeOK'
    BY <2>7, <2>8, <2>11, <2>12 DEF IInv, TypeOK, Calls
  <2>14. Calls(frames, mem)'
    BY <2>7, <2>8, <2>11 DEF Calls, Inside, Distinct, Nested, Waits
  <2>15. Top.entry <= pos + 1 + len
    <3>1. Top.entry <= pos
      BY DEF IInv, ModeOK
    <3> QED  BY <3>1, <2>12, Reading
  <2>16. ModeOK'
    BY <2>6, <2>7, <2>8, <2>11, <2>15 DEF IInv, ModeOK, Top
  <2> QED  BY <2>7, <2>13, <2>14, <2>16 DEF IInv
<1> QED  BY <1>2, <1>3, <1>4

LEMMA TargetType ==
    ASSUME IInv, mode = "read", ~Misses(pos, 2)
    PROVE  Target \in Nat
<1>1. PICK n : n = Len(mem)
  OBVIOUS
<1>2. mem \in Seq(Octets) /\ n \in Nat /\ pos \in Nat /\ pos + 2 <= n
  BY <1>1, Reading DEF Misses
<1>3. mem[pos + 1] \in Octets /\ mem[pos + 1 + 1] \in Octets
  BY <1>1, <1>2
<1>4. \A a, b \in Octets : (a % 64) * 256 + b \in Nat
  BY DEF Octets
<1> QED  BY <1>3, <1>4 DEF Target, Octet

LEMMA ReadLinkIInv ==
    ASSUME IInv, mode = "read", ~Misses(pos, 1), ReadLink
    PROVE  IInv'
<1>1. CASE ~allowed /\ Len(frames) = 1
  BY <1>1, FailIInv DEF ReadLink, Failures
<1>2. CASE ~(~allowed /\ Len(frames) = 1) /\ (Misses(pos, 2) \/ Behind(Target))
  BY <1>2, FailIInv DEF ReadLink, Failures
<1>3. CASE /\ ~(~allowed /\ Len(frames) = 1)
           /\ ~Misses(pos, 2) /\ ~Behind(Target)
  <2>1. PICK p : p = Target
    OBVIOUS
  <2>2. p \in Nat /\ p < Len(mem)
    BY <1>3, <2>1, TargetType, Reading DEF Behind
  <2>3. PICK q : q = pos + 2
    OBVIOUS
  <2>4. q \in Nat /\ pos < q /\ q <= Len(mem)
    BY <1>3, <2>3, Reading DEF Misses
  <2>5. PICK f : f = [Top EXCEPT !.saved = q]
    OBVIOUS
  <2>6. f \in Frame /\ f.entry = Top.entry /\ f.saved = q
    BY <2>4, <2>5, Reading DEF Frame
  <2>7. Waits(f, mem)
    <3>1. Top.entry <= pos
      BY DEF IInv, ModeOK
    <3> QED  BY <2>4, <2>6, <3>1, Reading DEF Waits
  <2>8. PICK s : s = Append(Below, f)
    OBVIOUS
  <2>9. Enter(s, p) /\ UNCHANGED <<mem, allowed, start, domain>>
    BY <1>3, <2>1, <2>3, <2>5, <2>8 DEF ReadLink, AfterLink
  <2>10. Changed(frames, f, s)
    BY <2>6, <2>8 DEF Below, Top, Changed
  <2>11. Calls(frames, mem) /\ frames # <<>>
    BY Reading DEF IInv
  <2>12. Calls(s, mem) /\ s # <<>> /\ s[Len(s)] = f
         /\ s[1].entry = frames[1].entry
    BY <2>6, <2>10, <2>11, ChangeCall
  <2>13. \A i \in DOMAIN s : Waits(s[i], mem)
    <3>1. s \in Seq(Frame) /\ Nested(s, mem)
      BY <2>12 DEF Calls
    <3>2. DOMAIN s = 1 .. Len(s) /\ Len(s) \in Nat
      BY <3>1
    <3>3. \A i \in DOMAIN s : i = Len(s) \/ i \in 1 .. Len(s) - 1
      BY <3>2
    <3> QED  BY <2>7, <2>12, <3>1, <3>3 DEF Nested
  <2>14. s \in Seq(Frame) /\ Inside(s, mem) /\ Distinct(s)
    BY <2>12 DEF Calls
  <2>15. mem \in Messages
    BY Reading
  <2>16. \/ mode' = "loop" /\ UNCHANGED <<frames, pos>>
         \/ /\ mode' = "read" /\ pos' = p
            /\ Calls(frames', mem) /\ frames' # <<>>
            /\ frames'[Len(frames')].entry = p
            /\ frames'[1] = s[1]
    BY <2>2, <2>9, <2>12, <2>13, <2>14, <2>15, EnterCalls
  <2>17. p \in 0 .. Len(mem)
    BY <2>2, Reading
  <2>18. TypeOK'
    BY <2>9, <2>16, <2>17 DEF IInv, TypeOK, Calls, Failures
  <2>19. Calls(frames, mem)'
    BY <2>9, <2>16 DEF IInv, Calls, Inside, Distinct, Nested, Waits
  <2>20. ModeOK'
    BY <2>2, <2>9, <2>12, <2>16 DEF IInv, ModeOK, Top
  <2> QED  BY <2>16, <2>18, <2>19, <2>20 DEF IInv
<1> QED  BY <1>1, <1>2, <1>3

LEMMA ReadIInv ==
    ASSUME IInv, Read
    PROVE  IInv'
<1>1. mode = "read"
  BY DEF Read
<1>2. CASE Misses(pos, 1)
  BY <1>2, FailIInv DEF Read, Failures
<1>3. CASE ~Misses(pos, 1)
  BY <1>1, <1>3, ReadEndIInv, ReadLabelIInv, ReadLinkIInv DEF Read
<1> QED  BY <1>2, <1>3

LEMMA ReturnFromLinkIInv ==
    ASSUME IInv, ReturnFromLink
    PROVE  IInv'
<1>1. mode = "return"
  BY DEF ReturnFromLink
<1>2. CASE Behind(Top.saved)
  BY <1>2, FailIInv DEF ReturnFromLink, Failures
<1>3. CASE ~Behind(Top.saved)
  <2>1. PICK text : text = Join(Top.text, domain)
    OBVIOUS
  <2>2. text \in Seq(Octets)
    BY <1>1, <2>1, Reading, JoinType DEF IInv, TypeOK
  <2>3. Leave(text, Top.saved)
    BY <1>3, <2>1 DEF ReturnFromLink
  <2>4. Waits(Top, mem)
    BY <1>1 DEF IInv, ModeOK
  <2>5. Top.saved \in Nat /\ frames # <<>>
    BY <1>1, Reading
  <2> QED  BY <2>2, <2>3, <2>4, <2>5, LeaveIInv DEF Waits
<1> QED  BY <1>2, <1>3

LEMMA InitIInv ==
    ASSUME Init
    PROVE  IInv
<1>1. Len(mem) \in Nat
  BY NameAssumption DEF Init
<1>2. TypeOK
  BY <1>1 DEF Init, TypeOK, Failures
<1>3. Calls(frames, mem)
  BY DEF Init, Calls, Inside, Distinct, Nested
<1>4. ModeOK
  BY DEF Init, ModeOK
<1> QED  BY <1>2, <1>3, <1>4 DEF Init, IInv

LEMMA NextIInv ==
    ASSUME IInv, [Next]_vars
    PROVE  IInv'
<1>1. CASE UNCHANGED vars
  BY <1>1 DEF vars, IInv, TypeOK, Calls, Inside, Distinct, Nested, Waits,
     ModeOK, Top
<1> QED  BY <1>1, CallIInv, ReadIInv, ReturnFromLinkIInv DEF Next

LEMMA Inductive == Spec => []IInv
<1>1. Init => IInv
  BY InitIInv
<1>2. IInv /\ [Next]_vars => IInv'
  BY NextIInv
<1> QED  BY <1>1, <1>2, PTL DEF Spec

-----------------------------------------------------------------------------
(* The definition of the names has an equation of its own. *)

\* Induction up to n, in the form of a set that holds 0 and, with a number, the
\* next.
LEMMA UpTo ==
    ASSUME NEW n \in Nat, NEW S, 0 \in S,
           \A k \in 0 .. n - 1 : k \in S => k + 1 \in S
    PROVE  \A k \in 0 .. n : k \in S
<1> DEFINE Less == {p \in Nat \X Nat : p[1] < p[2]}
           T == {k \in 0 .. n : k \notin S}
<1> SUFFICES ASSUME T # {} PROVE FALSE
  <2> HIDE DEF Less
  <2> QED  OBVIOUS
<1>1. IsWellFoundedOn(Less, Nat) /\ T \subseteq Nat
  BY NatLessThanWellFounded DEF OpToRel
<1>2. PICK k \in T : \A j \in T : <<j, k>> \notin Less
  <2> HIDE DEF Less, T
  <2> QED  BY <1>1, WFMin
<1>3. \A j \in T : ~(j < k)
  <2> SUFFICES ASSUME NEW j \in T PROVE ~(j < k)
    OBVIOUS
  <2>1. j \in Nat /\ k \in Nat
    BY <1>1
  <2>2. <<j, k>> \notin Less
    BY <1>2
  <2> QED  BY <2>1, <2>2
<1>4. k \in 1 .. n /\ k \notin S
  OBVIOUS
<1>5. k - 1 \in 0 .. n - 1 /\ k - 1 \notin S
  BY <1>4
<1> QED  BY <1>3, <1>4, <1>5

Steps(m) == 0 .. Len(m) + 1
Names(m, k, p) == NamesWithin(m, MaxLabel)[<<k, p>>]
At(m, p) == NamesAt(m, MaxLabel, p)
From(m, names, k, p) == NamesFrom(m, MaxLabel, names, k, p)

Table(m, names, n) ==
    names = [x \in (0 .. n) \X Nat |-> From(m, names, x[1], x[2])]

LEMMA LabelPlace ==
    ASSUME NEW m \in Seq(Octets), NEW p \in Nat, HasLabel(m, MaxLabel, p)
    PROVE  BehindLabel(m, p) \in Nat /\ p < BehindLabel(m, p)
           /\ LabelOf(m, p) \in Seq(Octets) /\ LabelOf(m, p) # <<>>
<1>1. PICK n : n = Len(m)
  OBVIOUS
<1>2. PICK c : c = m[p + 1]
  OBVIOUS
<1>3. n \in Nat /\ \A i \in 1 .. n : m[i] \in Octets
  BY <1>1
<1>4. c \in 1 .. MaxLabel /\ p + 1 + c <= n /\ MaxLabel \in Nat
  BY <1>1, <1>2, NameAssumption DEF HasLabel
<1>5. c \in Nat \ {0}
  BY <1>4
<1>6. PICK l : l = SubSeq(m, p + 2, p + 1 + c)
  OBVIOUS
<1>7. \A i \in p + 2 .. p + 1 + c : m[i] \in Octets
  BY <1>3, <1>4, <1>5
<1>8. l \in Seq(Octets) /\ Len(l) = c
  BY <1>5, <1>6, <1>7
<1>9. l # <<>>
  BY <1>5, <1>8
<1>10. LabelOf(m, p) = l
  BY <1>2, <1>6 DEF LabelOf
<1>11. BehindLabel(m, p) = p + 1 + c
  BY <1>2 DEF BehindLabel
<1>12. p + 1 + c \in Nat /\ p < p + 1 + c
  BY <1>5
<1> QED  BY <1>8, <1>9, <1>10, <1>11, <1>12

LEMMA LinkPlace ==
    ASSUME NEW m \in Seq(Octets), NEW p \in Nat, HasLink(m, p)
    PROVE  LinkedTo(m, p) \in Nat
<1>1. PICK n : n = Len(m)
  OBVIOUS
<1>2. n \in Nat /\ p + 2 <= n /\ \A i \in 1 .. n : m[i] \in Octets
  BY <1>1 DEF HasLink
<1>3. m[p + 1] \in Octets /\ m[p + 2] \in Octets
  BY <1>2
<1>4. \A a, b \in Octets : (a % 64) * 256 + b \in Nat
  BY DEF Octets
<1> QED  BY <1>3, <1>4 DEF LinkedTo

\* Two tables that agree on one step less give the same names.
LEMMA SameFrom ==
    ASSUME NEW m \in Seq(Octets), NEW a, NEW b, NEW k \in Nat, NEW p \in Nat,
           k # 0 => \A q \in Nat : a[<<k - 1, q>>] = b[<<k - 1, q>>]
    PROVE  From(m, a, k, p) = From(m, b, k, p)
<1>1. CASE k = 0
  BY <1>1 DEF From, NamesFrom
<1>2. CASE k # 0 /\ EndsAt(m, p)
  BY <1>2 DEF From, NamesFrom
<1>3. CASE k # 0 /\ ~EndsAt(m, p) /\ HasLabel(m, MaxLabel, p)
  <2>1. a[<<k - 1, BehindLabel(m, p)>>] = b[<<k - 1, BehindLabel(m, p)>>]
    BY <1>3, LabelPlace
  <2> QED  BY <1>3, <2>1 DEF From, NamesFrom
<1>4. CASE k # 0 /\ ~EndsAt(m, p) /\ ~HasLabel(m, MaxLabel, p) /\ HasLink(m, p)
  <2>1. a[<<k - 1, LinkedTo(m, p)>>] = b[<<k - 1, LinkedTo(m, p)>>]
    BY <1>4, LinkPlace
  <2> QED  BY <1>4, <2>1 DEF From, NamesFrom
<1>5. CASE k # 0 /\ ~EndsAt(m, p) /\ ~HasLabel(m, MaxLabel, p) /\ ~HasLink(m, p)
  BY <1>5 DEF From, NamesFrom
<1> QED  BY <1>1, <1>2, <1>3, <1>4, <1>5

\* The first rows of a table can be followed by one more.
LEMMA NextRow ==
    ASSUME NEW m \in Seq(Octets), NEW n \in Nat, NEW a, Table(m, a, n)
    PROVE  \E b : Table(m, b, n + 1)
<1>1. PICK b : b = [x \in (0 .. n + 1) \X Nat |->
                       IF x[1] <= n THEN a[x] ELSE From(m, a, x[1], x[2])]
  OBVIOUS
<1>2. \A k \in 0 .. n, p \in Nat : b[<<k, p>>] = a[<<k, p>>]
  BY <1>1
<1>3. ASSUME NEW k \in 0 .. n + 1, NEW p \in Nat
      PROVE  b[<<k, p>>] = From(m, b, k, p)
  <2>1. ASSUME k # 0, NEW q \in Nat
        PROVE  a[<<k - 1, q>>] = b[<<k - 1, q>>]
    <3>1. k - 1 \in 0 .. n
      BY <2>1
    <3> QED  BY <1>2, <3>1
  <2>2. From(m, a, k, p) = From(m, b, k, p)
    <3>1. k \in Nat
      OBVIOUS
    <3> QED  BY <2>1, <3>1, SameFrom
  <2>3. CASE k <= n
    <3>1. a[<<k, p>>] = From(m, a, k, p)
      BY <2>3 DEF Table
    <3> QED  BY <1>2, <2>2, <2>3, <3>1
  <2>4. CASE ~(k <= n)
    <3>1. <<k, p>> \in (0 .. n + 1) \X Nat /\ <<k, p>>[1] = k /\ <<k, p>>[2] = p
      OBVIOUS
    <3> QED  BY <1>1, <2>2, <2>4, <3>1
  <2> QED  BY <2>3, <2>4
<1>4. \A x \in (0 .. n + 1) \X Nat : b[x] = From(m, b, x[1], x[2])
  <2> TAKE x \in (0 .. n + 1) \X Nat
  <2>1. x = <<x[1], x[2]>> /\ x[1] \in 0 .. n + 1 /\ x[2] \in Nat
    OBVIOUS
  <2> QED  BY <1>3, <2>1
<1>5. Table(m, b, n + 1)
  BY <1>1, <1>4 DEF Table
<1> QED  BY <1>5

LEMMA HasTable ==
    ASSUME NEW m \in Seq(Octets), NEW n \in Nat
    PROVE  \E a : Table(m, a, n)
<1> DEFINE S == {k \in Nat : \E a : Table(m, a, k)}
<1>1. 0 \in S
  <2>1. PICK a : a = [x \in (0 .. 0) \X Nat |-> {}]
    OBVIOUS
  <2>2. \A x \in (0 .. 0) \X Nat : From(m, a, x[1], x[2]) = {}
    BY DEF From, NamesFrom
  <2>3. Table(m, a, 0)
    BY <2>1, <2>2 DEF Table
  <2> QED  BY <2>3
<1>2. \A k \in 0 .. n - 1 : k \in S => k + 1 \in S
  BY NextRow
<1>3. n \in S
  <2> HIDE DEF S
  <2>1. \A k \in 0 .. n : k \in S
    BY <1>1, <1>2, UpTo
  <2> QED  BY <2>1
<1> QED  BY <1>3

\* The defining equation of the names
LEMMA NamesEquation ==
    ASSUME NEW m \in Seq(Octets), NEW k \in Steps(m), NEW p \in Nat
    PROVE  Names(m, k, p) = From(m, NamesWithin(m, MaxLabel), k, p)
<1>1. PICK t : t = NamesWithin(m, MaxLabel)
  OBVIOUS
<1>2. PICK n : n = Len(m) + 1
  OBVIOUS
<1>3. n \in Nat
  BY <1>2
<1>4. t = CHOOSE a : Table(m, a, n)
  BY <1>1, <1>2 DEF NamesWithin, Table, From
<1>5. Table(m, t, n)
  <2>1. \E a : Table(m, a, n)
    BY <1>3, HasTable
  <2> QED  BY <1>4, <2>1
<1>6. <<k, p>> \in (0 .. n) \X Nat /\ <<k, p>>[1] = k /\ <<k, p>>[2] = p
  BY <1>2 DEF Steps
<1>7. t[<<k, p>>] = From(m, t, k, p)
  BY <1>5, <1>6 DEF Table
<1> QED  BY <1>1, <1>7 DEF Names

\* A place of the message is of one kind at most, and none is behind the end.
LEMMA Apart ==
    ASSUME NEW m \in Seq(Octets), NEW p \in Nat
    PROVE  /\ EndsAt(m, p) => ~HasLabel(m, MaxLabel, p) /\ ~HasLink(m, p)
           /\ HasLabel(m, MaxLabel, p) => ~HasLink(m, p)
           /\ EndsAt(m, p) \/ HasLabel(m, MaxLabel, p) \/ HasLink(m, p)
                 => p < Len(m)
<1>1. PICK n : n = Len(m)
  OBVIOUS
<1>2. PICK c : c = m[p + 1]
  OBVIOUS
<1>3. n \in Nat /\ \A i \in 1 .. n : m[i] \in Octets
  BY <1>1
<1>4. MaxLabel \in 1 .. 63
  BY NameAssumption
<1>5. EndsAt(m, p) => p < n /\ c = 0
  BY <1>1, <1>2 DEF EndsAt
<1>6. HasLabel(m, MaxLabel, p) => p < n /\ c \in 1 .. MaxLabel
  BY <1>1, <1>2 DEF HasLabel
<1>7. HasLink(m, p) => p + 2 <= n /\ c >= 192
  BY <1>1, <1>2 DEF HasLink
<1>8. c = 0 => ~(c \in 1 .. MaxLabel) /\ ~(c >= 192)
  BY <1>4
<1>9. c \in 1 .. MaxLabel => ~(c >= 192)
  BY <1>4
<1>10. p + 2 <= n => p < n
  BY <1>3
<1> QED  BY <1>1, <1>5, <1>6, <1>7, <1>8, <1>9, <1>10

-----------------------------------------------------------------------------
(* The names a message has, by the kind of place they are at *)

LEMMA NoSteps ==
    ASSUME NEW m \in Seq(Octets), NEW p \in Nat
    PROVE  Names(m, 0, p) = {}
<1>1. 0 \in Steps(m)
  BY DEF Steps
<1> QED  BY <1>1, NamesEquation DEF From, NamesFrom

LEMMA OneStep ==
    ASSUME NEW m \in Seq(Octets), NEW p \in Nat, NEW k \in 0 .. Len(m)
    PROVE  /\ EndsAt(m, p) => Names(m, k + 1, p) = {[text |-> <<>>, next |-> p + 1]}
           /\ HasLabel(m, MaxLabel, p) => Names(m, k + 1, p) =
                {[text |-> Labelled(m, p, rest.text), next |-> rest.next] :
                    rest \in Names(m, k, BehindLabel(m, p))}
           /\ HasLink(m, p) => Names(m, k + 1, p) =
                {[text |-> there.text, next |-> p + 2] :
                    there \in Names(m, k, LinkedTo(m, p))}
           /\ \/ EndsAt(m, p) \/ HasLabel(m, MaxLabel, p) \/ HasLink(m, p)
              \/ Names(m, k + 1, p) = {}
<1>1. PICK t : t = NamesWithin(m, MaxLabel)
  OBVIOUS
<1>2. k + 1 \in Steps(m) /\ k + 1 # 0 /\ k + 1 - 1 = k
  BY DEF Steps
<1>3. Names(m, k + 1, p) = NamesFrom(m, MaxLabel, t, k + 1, p)
  BY <1>1, <1>2, NamesEquation DEF From
<1>4. \A q : Names(m, k, q) = t[<<k, q>>]
  BY <1>1 DEF Names
<1>5. CASE EndsAt(m, p)
  <2>1. ~HasLabel(m, MaxLabel, p) /\ ~HasLink(m, p)
    BY <1>5, Apart
  <2>2. NamesFrom(m, MaxLabel, t, k + 1, p) = {[text |-> <<>>, next |-> p + 1]}
    BY <1>2, <1>5 DEF NamesFrom
  <2> QED  BY <1>3, <1>5, <2>1, <2>2
<1>6. CASE HasLabel(m, MaxLabel, p)
  <2>1. ~EndsAt(m, p) /\ ~HasLink(m, p)
    BY <1>6, Apart
  <2>2. NamesFrom(m, MaxLabel, t, k + 1, p) =
           {[text |-> Labelled(m, p, rest.text), next |-> rest.next] :
               rest \in t[<<k, BehindLabel(m, p)>>]}
    BY <1>2, <1>6, <2>1 DEF NamesFrom
  <2> QED  BY <1>3, <1>4, <1>6, <2>1, <2>2
<1>7. CASE HasLink(m, p)
  <2>1. ~EndsAt(m, p) /\ ~HasLabel(m, MaxLabel, p)
    BY <1>7, Apart
  <2>2. NamesFrom(m, MaxLabel, t, k + 1, p) =
           {[text |-> there.text, next |-> p + 2] :
               there \in t[<<k, LinkedTo(m, p)>>]}
    BY <1>2, <1>7, <2>1 DEF NamesFrom
  <2> QED  BY <1>3, <1>4, <1>7, <2>1, <2>2
<1>8. CASE ~EndsAt(m, p) /\ ~HasLabel(m, MaxLabel, p) /\ ~HasLink(m, p)
  BY <1>2, <1>3, <1>8 DEF NamesFrom
<1> QED  BY <1>5, <1>6, <1>7, <1>8

\* Whether there is a name depends on whether there is one behind the label, or
\* where the link leads.
LEMMA Found ==
    ASSUME NEW m \in Seq(Octets), NEW p \in Nat, NEW k \in 0 .. Len(m)
    PROVE  Names(m, k + 1, p) # {} <=>
              \/ EndsAt(m, p)
              \/ HasLabel(m, MaxLabel, p) /\ Names(m, k, BehindLabel(m, p)) # {}
              \/ HasLink(m, p) /\ Names(m, k, LinkedTo(m, p)) # {}
<1>1. CASE EndsAt(m, p)
  BY <1>1, OneStep, Apart
<1>2. CASE HasLabel(m, MaxLabel, p)
  <2>1. PICK S : S = Names(m, k, BehindLabel(m, p))
    OBVIOUS
  <2>2. Names(m, k + 1, p) =
           {[text |-> Labelled(m, p, rest.text), next |-> rest.next] : rest \in S}
    BY <1>2, <2>1, OneStep
  <2>3. Names(m, k + 1, p) # {} <=> S # {}
    BY <2>2
  <2> QED  BY <1>2, <2>1, <2>3, Apart
<1>3. CASE HasLink(m, p)
  <2>1. PICK S : S = Names(m, k, LinkedTo(m, p))
    OBVIOUS
  <2>2. Names(m, k + 1, p) = {[text |-> there.text, next |-> p + 2] : there \in S}
    BY <1>3, <2>1, OneStep
  <2>3. Names(m, k + 1, p) # {} <=> S # {}
    BY <2>2
  <2> QED  BY <1>3, <2>1, <2>3, Apart
<1> QED  BY <1>1, <1>2, <1>3, OneStep

\* With more steps there are no fewer names.
LEMMA MoreSteps ==
    ASSUME NEW m \in Seq(Octets)
    PROVE  \A k \in 0 .. Len(m) : \A p \in Nat : Names(m, k, p) \subseteq Names(m, k + 1, p)
<1> DEFINE S == {k \in Nat : \A p \in Nat : Names(m, k, p) \subseteq Names(m, k + 1, p)}
<1>1. PICK n : n = Len(m)
  OBVIOUS
<1>2. 0 \in S
  BY NoSteps
<1>3. ASSUME NEW k \in 0 .. n - 1, k \in S PROVE k + 1 \in S
  <2>1. k \in 0 .. Len(m) /\ k + 1 \in 0 .. Len(m) /\ n \in Nat
    BY <1>1
  <2>2. ASSUME NEW p \in Nat
        PROVE  Names(m, k + 1, p) \subseteq Names(m, k + 1 + 1, p)
    <3>1. CASE EndsAt(m, p)
      BY <2>1, <3>1, OneStep
    <3>2. CASE HasLabel(m, MaxLabel, p)
      <4>1. PICK q \in Nat : q = BehindLabel(m, p)
        BY <3>2, LabelPlace
      <4>2. Names(m, k, q) \subseteq Names(m, k + 1, q)
        BY <1>3
      <4>3. Names(m, k + 1, p) =
               {[text |-> Labelled(m, p, rest.text), next |-> rest.next] :
                   rest \in Names(m, k, q)}
        BY <2>1, <3>2, <4>1, OneStep
      <4>4. Names(m, k + 1 + 1, p) =
               {[text |-> Labelled(m, p, rest.text), next |-> rest.next] :
                   rest \in Names(m, k + 1, q)}
        BY <2>1, <3>2, <4>1, OneStep
      <4> QED  BY <4>2, <4>3, <4>4
    <3>3. CASE HasLink(m, p)
      <4>1. PICK q \in Nat : q = LinkedTo(m, p)
        BY <3>3, LinkPlace
      <4>2. Names(m, k, q) \subseteq Names(m, k + 1, q)
        BY <1>3
      <4>3. Names(m, k + 1, p) =
               {[text |-> there.text, next |-> p + 2] : there \in Names(m, k, q)}
        BY <2>1, <3>3, <4>1, OneStep
      <4>4. Names(m, k + 1 + 1, p) =
               {[text |-> there.text, next |-> p + 2] : there \in Names(m, k + 1, q)}
        BY <2>1, <3>3, <4>1, OneStep
      <4> QED  BY <4>2, <4>3, <4>4
    <3> QED  BY <2>1, <3>1, <3>2, <3>3, OneStep
  <2> QED  BY <2>1, <2>2
<1>4. \A k \in 0 .. n : k \in S
  <2> HIDE DEF S
  <2>1. n \in Nat
    BY <1>1
  <2> QED  BY <1>2, <1>3, <2>1, UpTo
<1> QED  BY <1>1, <1>4

NameSet == [text : Seq(Octets), next : Nat]

LEMMA LabelledType ==
    ASSUME NEW m \in Seq(Octets), NEW p \in Nat, HasLabel(m, MaxLabel, p),
           NEW text \in Seq(Octets)
    PROVE  Labelled(m, p, text) \in Seq(Octets)
<1>1. PICK l : l = LabelOf(m, p)
  OBVIOUS
<1>2. l \in Seq(Octets)
  BY <1>1, LabelPlace
<1>3. <<46>> \in Seq(Octets)
  BY DEF Octets
<1>4. l \o <<46>> \o text \in Seq(Octets)
  <2>1. l \o <<46>> \in Seq(Octets)
    BY <1>2, <1>3
  <2>2. PICK c : c = l \o <<46>>
    OBVIOUS
  <2>3. c \o text \in Seq(Octets)
    BY <2>1, <2>2
  <2> QED  BY <2>2, <2>3
<1> QED  BY <1>1, <1>2, <1>4 DEF Labelled

\* A set of at most one name
Single(S) == S \subseteq NameSet /\ \A a, b \in S : a = b

\* At a place there is one name, if any.
LEMMA OneName ==
    ASSUME NEW m \in Seq(Octets)
    PROVE  \A k \in Steps(m) : \A p \in Nat : Single(Names(m, k, p))
<1> DEFINE S == {k \in Nat : \A p \in Nat : Single(Names(m, k, p))}
<1>1. PICK n : n = Len(m) + 1
  OBVIOUS
<1>2. 0 \in S
  BY NoSteps DEF Single
<1>3. ASSUME NEW k \in 0 .. n - 1, k \in S PROVE k + 1 \in S
  <2>1. k \in 0 .. Len(m) /\ k + 1 \in Nat
    BY <1>1
  <2>2. ASSUME NEW p \in Nat PROVE Single(Names(m, k + 1, p))
    <3>1. CASE EndsAt(m, p)
      <4>1. <<>> \in Seq(Octets)
        OBVIOUS
      <4>2. PICK r : r = [text |-> <<>>, next |-> p + 1]
        OBVIOUS
      <4>3. r \in NameSet
        BY <4>1, <4>2 DEF NameSet
      <4>4. Names(m, k + 1, p) = {r}
        BY <2>1, <3>1, <4>2, OneStep
      <4> QED  BY <4>3, <4>4 DEF Single
    <3>2. CASE HasLabel(m, MaxLabel, p)
      <4>1. PICK q \in Nat : q = BehindLabel(m, p)
        BY <3>2, LabelPlace
      <4>2. Single(Names(m, k, q))
        BY <1>3
      <4>3. Names(m, k + 1, p) =
               {[text |-> Labelled(m, p, rest.text), next |-> rest.next] :
                   rest \in Names(m, k, q)}
        BY <2>1, <3>2, <4>1, OneStep
      <4>4. \A rest \in Names(m, k, q) :
               Labelled(m, p, rest.text) \in Seq(Octets) /\ rest.next \in Nat
        BY <3>2, <4>2, LabelledType DEF Single, NameSet
      <4> QED  BY <4>2, <4>3, <4>4 DEF Single, NameSet
    <3>3. CASE HasLink(m, p)
      <4>1. PICK q \in Nat : q = LinkedTo(m, p)
        BY <3>3, LinkPlace
      <4>2. Single(Names(m, k, q))
        BY <1>3
      <4>3. Names(m, k + 1, p) =
               {[text |-> there.text, next |-> p + 2] : there \in Names(m, k, q)}
        BY <2>1, <3>3, <4>1, OneStep
      <4>4. \A there \in Names(m, k, q) :
               there.text \in Seq(Octets) /\ there \in NameSet
        BY <4>2 DEF Single, NameSet
      <4>5. \A a \in Names(m, k + 1, p) : a \in NameSet
        <5>1. p + 2 \in Nat
          OBVIOUS
        <5> QED  BY <4>3, <4>4, <5>1 DEF NameSet
      <4>6. \A a, b \in Names(m, k + 1, p) : a = b
        BY <4>2, <4>3 DEF Single
      <4> QED  BY <4>5, <4>6 DEF Single
    <3>4. CASE Names(m, k + 1, p) = {}
      BY <3>4 DEF Single
    <3> QED  BY <2>1, <3>1, <3>2, <3>3, <3>4, OneStep
  <2> QED  BY <2>1, <2>2
<1>4. \A k \in 0 .. n : k \in S
  <2> HIDE DEF S
  <2>1. n \in Nat
    BY <1>1
  <2> QED  BY <1>2, <1>3, <2>1, UpTo
<1> QED  BY <1>1, <1>4 DEF Steps

\* The places where there is a name of at most k steps
Places(m, k) == {p \in 0 .. Len(m) - 1 : Names(m, k, p) # {}}

LEMMA InPlaces ==
    ASSUME NEW m \in Seq(Octets), NEW k \in Steps(m), NEW p \in Nat,
           Names(m, k, p) # {}
    PROVE  p \in Places(m, k)
<1>1. CASE k = 0
  BY <1>1, NoSteps
<1>2. CASE k # 0
  <2>1. k - 1 \in 0 .. Len(m) /\ k - 1 + 1 = k
    BY <1>2 DEF Steps
  <2>2. EndsAt(m, p) \/ HasLabel(m, MaxLabel, p) \/ HasLink(m, p)
    BY <2>1, Found
  <2>3. p < Len(m) /\ Len(m) \in Nat
    BY <2>2, Apart
  <2> QED  BY <2>3 DEF Places
<1> QED  BY <1>1, <1>2

\* Once a step adds no place, no further step does.
LEMMA NoNewPlaces ==
    ASSUME NEW m \in Seq(Octets), NEW k \in Nat, k + 1 <= Len(m),
           Places(m, k + 1) = Places(m, k)
    PROVE  Places(m, k + 1 + 1) = Places(m, k + 1)
<1>1. Len(m) \in Nat /\ k \in 0 .. Len(m) /\ k + 1 \in 0 .. Len(m)
      /\ k + 1 \in Steps(m) /\ k \in Steps(m)
  BY DEF Steps
<1>2. ASSUME NEW q \in Nat, Names(m, k + 1, q) # {}
      PROVE  Names(m, k, q) # {}
  <2>1. q \in Places(m, k + 1)
    BY <1>1, <1>2, InPlaces
  <2> QED  BY <2>1 DEF Places
<1>3. ASSUME NEW p \in Nat, Names(m, k + 1 + 1, p) # {}
      PROVE  Names(m, k + 1, p) # {}
  <2>1. CASE EndsAt(m, p)
    BY <1>1, <2>1, Found
  <2>2. CASE HasLabel(m, MaxLabel, p)
    <3>1. PICK q \in Nat : q = BehindLabel(m, p)
      BY <2>2, LabelPlace
    <3>2. Names(m, k + 1, q) # {}
      BY <1>1, <1>3, <2>2, <3>1, Found, Apart
    <3>3. Names(m, k, q) # {}
      BY <1>2, <3>2
    <3> QED  BY <1>1, <2>2, <3>1, <3>3, Found
  <2>3. CASE HasLink(m, p)
    <3>1. PICK q \in Nat : q = LinkedTo(m, p)
      BY <2>3, LinkPlace
    <3>2. Names(m, k + 1, q) # {}
      BY <1>1, <1>3, <2>3, <3>1, Found, Apart
    <3>3. Names(m, k, q) # {}
      BY <1>2, <3>2
    <3> QED  BY <1>1, <2>3, <3>1, <3>3, Found
  <2> QED  BY <1>1, <1>3, <2>1, <2>2, <2>3, Found
<1>4. \A p \in Nat : Names(m, k + 1, p) \subseteq Names(m, k + 1 + 1, p)
  BY <1>1, MoreSteps
<1> QED  BY <1>3, <1>4 DEF Places

\* A message of n octets has no name that takes more than n steps.
LEMMA EnoughPlaces ==
    ASSUME NEW m \in Seq(Octets)
    PROVE  Places(m, Len(m) + 1) = Places(m, Len(m))
<1>1. PICK n \in Nat : n = Len(m)
  OBVIOUS
<1> DEFINE All == 0 .. n - 1
<1>2. IsFiniteSet(All) /\ Cardinality(All) = n
  BY Intervals
<1>3. \A k : Places(m, k) \subseteq All
  BY <1>1 DEF Places
<1>4. \A k : IsFiniteSet(Places(m, k)) /\ Cardinality(Places(m, k)) \in Nat
  <2> HIDE DEF All
  <2> QED  BY <1>2, <1>3, FS_Subset, FS_CardinalityType
<1> DEFINE S == {k \in Nat : \/ Cardinality(Places(m, k)) >= k
                            \/ Places(m, k + 1) = Places(m, k)}
<1>5. 0 \in S
  BY <1>4
<1>6. ASSUME NEW k \in 0 .. n - 1, k \in S PROVE k + 1 \in S
  <2>1. k \in Nat /\ k + 1 <= Len(m) /\ k \in 0 .. Len(m)
    BY <1>1
  <2>2. CASE Places(m, k + 1) = Places(m, k)
    BY <2>1, <2>2, NoNewPlaces
  <2>3. CASE Places(m, k + 1) # Places(m, k) /\ Cardinality(Places(m, k)) >= k
    <3>1. Places(m, k) \subseteq Places(m, k + 1)
      BY <2>1, MoreSteps DEF Places
    <3>2. Cardinality(Places(m, k)) < Cardinality(Places(m, k + 1))
      BY <1>4, <2>3, <3>1, FS_Subset
    <3>3. Cardinality(Places(m, k + 1)) >= k + 1
      BY <1>4, <2>1, <2>3, <3>2
    <3> QED  BY <2>1, <3>3
  <2> QED  BY <1>6, <2>2, <2>3
<1>7. n \in S
  <2> HIDE DEF S
  <2>1. \A k \in 0 .. n : k \in S
    BY <1>5, <1>6, UpTo
  <2> QED  BY <2>1
<1>8. CASE Cardinality(Places(m, n)) >= n
  <2>1. Places(m, n) = All
    <3> HIDE DEF All
    <3>1. ASSUME Places(m, n) # All PROVE FALSE
      <4>1. PICK P : P = Places(m, n)
        OBVIOUS
      <4>2. P \in SUBSET All /\ P # All
        BY <1>3, <3>1, <4>1
      <4>3. Cardinality(P) <= n /\ Cardinality(P) # n
        BY <1>2, <4>2, FS_Subset
      <4> QED  BY <1>4, <1>8, <4>1, <4>3
    <3> QED  BY <3>1
  <2>2. Places(m, n) \subseteq Places(m, n + 1)
    <3>1. n \in 0 .. Len(m)
      BY <1>1
    <3> QED  BY <3>1, MoreSteps DEF Places
  <2> QED  BY <1>1, <1>3, <2>1, <2>2
<1> QED  BY <1>1, <1>7, <1>8

LEMMA EnoughSteps ==
    ASSUME NEW m \in Seq(Octets), NEW p \in Nat
    PROVE  Names(m, Len(m), p) = At(m, p)
<1>1. PICK n \in Nat : n = Len(m)
  OBVIOUS
<1>2. n \in 0 .. Len(m) /\ n \in Steps(m) /\ n + 1 \in Steps(m)
  BY <1>1 DEF Steps
<1>3. At(m, p) = Names(m, n + 1, p)
  BY <1>1 DEF At, NamesAt, Names
<1>4. Names(m, n, p) \subseteq Names(m, n + 1, p)
  BY <1>2, MoreSteps
<1>5. Names(m, n + 1, p) # {} => Names(m, n, p) # {}
  <2> SUFFICES ASSUME Names(m, n + 1, p) # {} PROVE Names(m, n, p) # {}
    OBVIOUS
  <2>1. p \in Places(m, n + 1)
    BY <1>2, InPlaces
  <2>2. p \in Places(m, n)
    BY <1>1, <2>1, EnoughPlaces
  <2> QED  BY <2>2 DEF Places
<1>6. Single(Names(m, n + 1, p))
  BY <1>2, OneName
<1>7. Names(m, n + 1, p) \subseteq Names(m, n, p)
  BY <1>4, <1>5, <1>6 DEF Single
<1> QED  BY <1>1, <1>3, <1>4, <1>7

\* The name at a place, by the kind of the place
LEMMA NameRules ==
    ASSUME NEW m \in Seq(Octets), NEW p \in Nat
    PROVE  /\ EndsAt(m, p) => At(m, p) = {[text |-> <<>>, next |-> p + 1]}
           /\ HasLabel(m, MaxLabel, p) => At(m, p) =
                {[text |-> Labelled(m, p, rest.text), next |-> rest.next] :
                    rest \in At(m, BehindLabel(m, p))}
           /\ HasLink(m, p) => At(m, p) =
                {[text |-> there.text, next |-> p + 2] :
                    there \in At(m, LinkedTo(m, p))}
           /\ \/ EndsAt(m, p) \/ HasLabel(m, MaxLabel, p) \/ HasLink(m, p)
              \/ At(m, p) = {}
<1>1. PICK n \in Nat : n = Len(m)
  OBVIOUS
<1>2. n \in 0 .. Len(m)
  BY <1>1
<1>3. At(m, p) = Names(m, n + 1, p)
  BY <1>1 DEF At, NamesAt, Names
<1>4. \A q \in Nat : Names(m, n, q) = At(m, q)
  BY <1>1, EnoughSteps
<1>5. HasLabel(m, MaxLabel, p) =>
         Names(m, n, BehindLabel(m, p)) = At(m, BehindLabel(m, p))
  BY <1>4, LabelPlace
<1>6. HasLink(m, p) => Names(m, n, LinkedTo(m, p)) = At(m, LinkedTo(m, p))
  BY <1>4, LinkPlace
<1>7. CASE EndsAt(m, p)
  BY <1>2, <1>3, <1>7, OneStep, Apart
<1>8. CASE HasLabel(m, MaxLabel, p)
  BY <1>2, <1>3, <1>5, <1>8, OneStep, Apart
<1>9. CASE HasLink(m, p)
  BY <1>2, <1>3, <1>6, <1>9, OneStep, Apart
<1> QED  BY <1>2, <1>3, <1>7, <1>8, <1>9, OneStep

LEMMA NameType ==
    ASSUME NEW m \in Seq(Octets), NEW p \in Nat
    PROVE  Single(At(m, p))
<1>1. Len(m) + 1 \in Steps(m)
  BY DEF Steps
<1> QED  BY <1>1, OneName DEF At, NamesAt, Names

\* A name at p takes more steps than the one at q.
Needs(m, p, q) ==
    \A k \in 0 .. Len(m) : Names(m, k + 1, p) # {} => Names(m, k, q) # {}

LEMMA NeedsMore ==
    ASSUME NEW m \in Seq(Octets), NEW p \in Nat, NEW q \in Nat, NEW r \in Nat,
           Needs(m, p, q), Needs(m, q, r)
    PROVE  Needs(m, p, r)
<1> SUFFICES ASSUME NEW k \in 0 .. Len(m), Names(m, k + 1, p) # {}
             PROVE  Names(m, k, r) # {}
  BY DEF Needs
<1>1. Names(m, k, q) # {}
  BY DEF Needs
<1>2. Names(m, k + 1, q) # {}
  BY <1>1, MoreSteps
<1> QED  BY <1>2 DEF Needs

LEMMA NeedsOne ==
    ASSUME NEW m \in Seq(Octets), NEW p \in Nat, NEW q \in Nat,
           Needs(m, p, q), At(m, q) = {}
    PROVE  At(m, p) = {}
<1>1. PICK n \in Nat : n = Len(m)
  OBVIOUS
<1>2. n \in 0 .. Len(m) /\ Names(m, n, q) = {}
  BY <1>1, EnoughSteps
<1>3. Names(m, n + 1, p) = {}
  BY <1>2 DEF Needs
<1> QED  BY <1>1, <1>3 DEF At, NamesAt, Names

\* A name that leads back to where it begins has no end.
LEMMA NoEnd ==
    ASSUME NEW m \in Seq(Octets), NEW p \in Nat, Needs(m, p, p)
    PROVE  At(m, p) = {}
<1>1. PICK n \in Nat : n = Len(m) + 1
  OBVIOUS
<1> DEFINE S == {k \in Nat : Names(m, k, p) = {}}
<1>2. 0 \in S
  BY NoSteps
<1>3. \A k \in 0 .. n - 1 : k \in S => k + 1 \in S
  BY <1>1 DEF Needs
<1>4. n \in S
  <2> HIDE DEF S
  <2>1. \A k \in 0 .. n : k \in S
    BY <1>2, <1>3, UpTo
  <2> QED  BY <2>1
<1> QED  BY <1>1, <1>4 DEF At, NamesAt, Names

-----------------------------------------------------------------------------
(* Text *)

LEMMA JoinNonEmpty ==
    ASSUME NEW a \in Seq(Octets), a # <<>>, NEW b \in Seq(Octets)
    PROVE  /\ Join(a, b) = a \o <<46>> \o b
           /\ Join(a, b) \in Seq(Octets)
           /\ Join(a, b) # <<>>
           /\ Len(Join(a, b)) >= Len(b)
<1>1. <<46>> \in Seq(Octets) /\ Len(<<46>>) = 1
  BY DEF Octets
<1>2. PICK d : d = <<46>>
  OBVIOUS
<1>3. PICK c : c = a \o d
  OBVIOUS
<1>4. c \in Seq(Octets) /\ Len(c) = Len(a) + 1
  BY <1>1, <1>2, <1>3, ConcatProperties
<1>5. PICK e : e = c \o b
  OBVIOUS
<1>6. e \in Seq(Octets) /\ Len(e) = Len(c) + Len(b)
  BY <1>4, <1>5, ConcatProperties
<1>7. Len(a) \in Nat /\ Len(b) \in Nat
  BY LenProperties
<1>8. Len(e) # 0 /\ Len(e) >= Len(b)
  BY <1>4, <1>6, <1>7
<1>9. e # <<>>
  BY <1>8
<1>10. Join(a, b) = e
  BY <1>2, <1>3, <1>5 DEF Join, Dot
<1> QED  BY <1>2, <1>3, <1>5, <1>6, <1>8, <1>9, <1>10

\* z is p, and q behind it.
Cat(z, p, q) == z = p \o q

LEMMA Regroup ==
    ASSUME NEW S, NEW p \in Seq(S), NEW q \in Seq(S), NEW r \in Seq(S),
           NEW pq, Cat(pq, p, q), NEW qr, Cat(qr, q, r), NEW z
    PROVE  Cat(z, p, qr) <=> Cat(z, pq, r)
<1>1. (p \o q) \o r = p \o (q \o r)
  BY ConcatAssociative
<1> QED  BY <1>1, Zenon DEF Cat

LEMMA FiveParts ==
    ASSUME NEW S, NEW a \in Seq(S), NEW b \in Seq(S), NEW c \in Seq(S),
           NEW d \in Seq(S), NEW ad, Cat(ad, a, d), NEW bd, Cat(bd, b, d),
           NEW x, Cat(x, bd, c), NEW y, Cat(y, ad, b), NEW yd, Cat(yd, y, d),
           NEW z
    PROVE  Cat(z, ad, x) <=> Cat(z, yd, c)
<1>1. ad \in Seq(S)
  BY ConcatProperties DEF Cat
<1>2. bd \in Seq(S)
  BY ConcatProperties DEF Cat
<1>3. Cat(yd, ad, bd)
  BY <1>1, Regroup
<1> QED  BY <1>1, <1>2, <1>3, Regroup

LEMMA JoinAssociative ==
    ASSUME NEW a \in Seq(Octets), a # <<>>, NEW b \in Seq(Octets), b # <<>>,
           NEW c \in Seq(Octets)
    PROVE  Join(a, Join(b, c)) = Join(Join(a, b), c)
<1>1. <<46>> \in Seq(Octets)
  BY DEF Octets
<1>2. PICK d : d = <<46>>
  OBVIOUS
<1>3. d \in Seq(Octets)
  BY <1>1, <1>2
<1>4. ASSUME NEW s \in Seq(Octets), s # <<>>, NEW t \in Seq(Octets)
      PROVE  /\ \E sd : Cat(sd, s, d) /\ Cat(Join(s, t), sd, t)
             /\ Join(s, t) \in Seq(Octets) /\ Join(s, t) # <<>>
  BY <1>2, <1>4, JoinNonEmpty, Zenon DEF Cat
<1>5. PICK x : x = Join(b, c)
  OBVIOUS
<1>6. PICK y : y = Join(a, b)
  OBVIOUS
<1>7. PICK bd : Cat(bd, b, d) /\ Cat(x, bd, c) /\ x \in Seq(Octets)
  BY <1>4, <1>5
<1>8. PICK ad : Cat(ad, a, d) /\ Cat(y, ad, b) /\ y \in Seq(Octets) /\ y # <<>>
  BY <1>4, <1>6
<1>9. \E s : Cat(s, a, d) /\ Cat(Join(a, x), s, x)
  BY <1>4, <1>7
<1>10. Cat(Join(a, x), ad, x)
  BY <1>8, <1>9 DEF Cat
<1>11. PICK yd : Cat(yd, y, d) /\ Cat(Join(y, c), yd, c)
  BY <1>4, <1>8
<1>12. Cat(Join(a, x), yd, c)
  BY <1>3, <1>7, <1>8, <1>10, <1>11, FiveParts
<1> QED  BY <1>5, <1>6, <1>11, <1>12 DEF Cat

\* The text a of labels, joined with the text of the name at p behind them
Joined(m, a, p, text) ==
    IF a = <<>> THEN text ELSE IF EndsAt(m, p) THEN a ELSE Join(a, text)

\* A label moves from the name behind to the labels before.
LEMMA JoinedLabel ==
    ASSUME NEW m \in Seq(Octets), NEW p \in Nat, HasLabel(m, MaxLabel, p),
           NEW a \in Seq(Octets), NEW text \in Seq(Octets)
    PROVE  Joined(m, a, p, Labelled(m, p, text))
             = Joined(m, Join(a, LabelOf(m, p)), BehindLabel(m, p), text)
<1>1. PICK l \in Seq(Octets) : l = LabelOf(m, p) /\ l # <<>>
  BY LabelPlace
<1>2. PICK q : q = BehindLabel(m, p)
  OBVIOUS
<1>3. ~EndsAt(m, p)
  BY Apart
<1>4. Labelled(m, p, text) = IF EndsAt(m, q) THEN l ELSE Join(l, text)
  BY <1>1, <1>2, JoinNonEmpty DEF Labelled
<1>5. CASE a = <<>>
  <2>1. Join(a, l) = l
    BY <1>5 DEF Join
  <2> QED  BY <1>1, <1>2, <1>4, <1>5, <2>1 DEF Joined
<1>6. CASE a # <<>>
  <2>1. Join(a, l) # <<>>
    BY <1>1, <1>6, JoinNonEmpty
  <2>2. Join(a, Join(l, text)) = Join(Join(a, l), text)
    BY <1>1, <1>6, JoinAssociative
  <2> QED  BY <1>1, <1>2, <1>3, <1>4, <1>6, <2>1, <2>2 DEF Joined
<1> QED  BY <1>5, <1>6

-----------------------------------------------------------------------------
(* The invariant: what the calls under way say about the name they read *)

\* The name at p is all that is missing from the name where call f began.
Carries(m, f, p) ==
    /\ \A r \in At(m, p) :
          [text |-> Joined(m, f.text, p, r.text), next |-> r.next] \in At(m, f.entry)
    /\ \A k \in Steps(m) : Names(m, k, f.entry) # {} => Names(m, k, p) # {}

\* Call f waits for the name at q, behind the link that leads there.
Linked(m, f, q) ==
    \E p \in Nat : /\ f.saved = p + 2
                  /\ HasLink(m, p) /\ LinkedTo(m, p) = q
                  /\ Carries(m, f, p)

\* The name at p is at least as long as the one at q.
Longer(m, p, q) ==
    \A r \in At(m, q) : \E a \in At(m, p) : Len(a.text) >= Len(r.text)

LEMMA CarriesAll ==
    ASSUME NEW m \in Seq(Octets), NEW f \in Frame, f.text = <<>>
    PROVE  Carries(m, f, f.entry)
<1>1. f.entry \in Nat
  BY DEF Frame
<1>2. ASSUME NEW r \in At(m, f.entry)
      PROVE  [text |-> Joined(m, f.text, f.entry, r.text), next |-> r.next]
                 \in At(m, f.entry)
  <2>1. r \in NameSet
    BY <1>1, <1>2, NameType DEF Single
  <2>2. r = [text |-> r.text, next |-> r.next]
    BY <2>1 DEF NameSet
  <2>3. Joined(m, f.text, f.entry, r.text) = r.text
    BY DEF Joined
  <2> QED  BY <1>2, <2>2, <2>3
<1> QED  BY <1>2 DEF Carries

LEMMA CarriesLabel ==
    ASSUME NEW m \in Seq(Octets), NEW f \in Frame, NEW p \in Nat,
           Carries(m, f, p), HasLabel(m, MaxLabel, p),
           NEW g \in Frame, g.entry = f.entry, g.text = Join(f.text, LabelOf(m, p))
    PROVE  Carries(m, g, BehindLabel(m, p))
<1>1. PICK q \in Nat : q = BehindLabel(m, p)
  BY LabelPlace
<1>2. f.entry \in Nat /\ f.text \in Seq(Octets)
  BY DEF Frame
<1>3. ASSUME NEW r \in At(m, q)
      PROVE  [text |-> Joined(m, g.text, q, r.text), next |-> r.next] \in At(m, g.entry)
  <2>1. r.text \in Seq(Octets)
    BY <1>1, <1>3, NameType DEF Single, NameSet
  <2>2. PICK b : b = [text |-> Labelled(m, p, r.text), next |-> r.next]
    OBVIOUS
  <2>3. b \in At(m, p)
    BY <1>1, <1>3, <2>2, NameRules
  <2>4. [text |-> Joined(m, f.text, p, b.text), next |-> b.next] \in At(m, f.entry)
    BY <2>3 DEF Carries
  <2>5. Joined(m, f.text, p, b.text) = Joined(m, g.text, q, r.text)
    BY <1>1, <1>2, <2>1, <2>2, JoinedLabel
  <2>6. b.next = r.next
    BY <2>2
  <2> QED  BY <2>4, <2>5, <2>6
<1>4. ASSUME NEW k \in Steps(m), Names(m, k, g.entry) # {}
      PROVE  Names(m, k, q) # {}
  <2>1. Names(m, k, p) # {}
    BY <1>4 DEF Carries
  <2>2. k # 0
    BY <2>1, NoSteps
  <2>3. PICK j \in 0 .. Len(m) : k = j + 1
    <3>1. k - 1 \in 0 .. Len(m) /\ k = k - 1 + 1
      BY <2>2 DEF Steps
    <3> QED  BY <3>1
  <2>4. Names(m, j, q) # {}
    BY <1>1, <2>1, <2>3, Found, Apart
  <2> QED  BY <2>3, <2>4, MoreSteps
<1> QED  BY <1>1, <1>3, <1>4 DEF Carries

\* Where nothing is missing, the name is complete.
LEMMA CarriesEnd ==
    ASSUME NEW m \in Seq(Octets), NEW f \in Frame, NEW p \in Nat,
           Carries(m, f, p), EndsAt(m, p)
    PROVE  [text |-> f.text, next |-> p + 1] \in At(m, f.entry)
<1>1. PICK r : r = [text |-> <<>>, next |-> p + 1]
  OBVIOUS
<1>2. r \in At(m, p)
  BY <1>1, NameRules
<1>3. [text |-> Joined(m, f.text, p, r.text), next |-> r.next] \in At(m, f.entry)
  BY <1>2 DEF Carries
<1>4. Joined(m, f.text, p, r.text) = f.text /\ r.next = p + 1
  BY <1>1 DEF Joined
<1> QED  BY <1>3, <1>4

\* Where a malformed name is, the name of the call is malformed.
LEMMA CarriesNone ==
    ASSUME NEW m \in Seq(Octets), NEW f \in Frame, NEW p \in Nat,
           Carries(m, f, p), At(m, p) = {}
    PROVE  At(m, f.entry) = {}
<1>1. PICK k : k = Len(m) + 1
  OBVIOUS
<1>2. k \in Steps(m)
  BY <1>1 DEF Steps
<1>3. \A q : At(m, q) = Names(m, k, q)
  BY <1>1 DEF At, NamesAt, Names
<1> QED  BY <1>2, <1>3 DEF Carries

LEMMA LinkedNeeds ==
    ASSUME NEW m \in Seq(Octets), NEW f \in Frame, NEW q \in Nat, Linked(m, f, q)
    PROVE  Needs(m, f.entry, q)
<1>1. PICK p \in Nat : HasLink(m, p) /\ LinkedTo(m, p) = q /\ Carries(m, f, p)
  BY DEF Linked
<1> SUFFICES ASSUME NEW k \in 0 .. Len(m), Names(m, k + 1, f.entry) # {}
             PROVE  Names(m, k, q) # {}
  BY DEF Needs
<1>2. k + 1 \in Steps(m)
  BY DEF Steps
<1>3. Names(m, k + 1, p) # {}
  BY <1>1, <1>2 DEF Carries
<1> QED  BY <1>1, <1>3, Found, Apart

\* The name at the end of the link completes the name of the call.
LEMMA LinkedEnd ==
    ASSUME NEW m \in Seq(Octets), NEW f \in Frame, NEW q \in Nat,
           Linked(m, f, q), NEW r \in At(m, q)
    PROVE  /\ r.text \in Seq(Octets)
           /\ [text |-> Join(f.text, r.text), next |-> f.saved] \in At(m, f.entry)
           /\ Len(Join(f.text, r.text)) >= Len(r.text)
<1>1. PICK p \in Nat : f.saved = p + 2 /\ HasLink(m, p) /\ LinkedTo(m, p) = q
                      /\ Carries(m, f, p)
  BY DEF Linked
<1>2. r.text \in Seq(Octets) /\ f.text \in Seq(Octets)
  BY NameType DEF Single, NameSet, Frame
<1>3. PICK b : b = [text |-> r.text, next |-> p + 2]
  OBVIOUS
<1>4. b \in At(m, p)
  BY <1>1, <1>3, NameRules
<1>5. [text |-> Joined(m, f.text, p, b.text), next |-> b.next] \in At(m, f.entry)
  BY <1>1, <1>4 DEF Carries
<1>6. Joined(m, f.text, p, b.text) = Join(f.text, r.text)
  BY <1>1, <1>3, Apart DEF Joined, Join
<1>7. b.next = f.saved
  BY <1>1, <1>3
<1>8. Len(Join(f.text, r.text)) >= Len(r.text)
  <2>1. CASE f.text = <<>>
    <3>1. Join(f.text, r.text) = r.text
      BY <2>1 DEF Join
    <3>2. Len(r.text) \in Nat
      BY <1>2, LenProperties
    <3> QED  BY <3>1, <3>2
  <2>2. CASE f.text # <<>>
    BY <1>2, <2>2, JoinNonEmpty
  <2> QED  BY <2>1, <2>2
<1> QED  BY <1>2, <1>5, <1>6, <1>7, <1>8

\* What the calls in s, the outermost of which began at st, say
Told(s, m, st) ==
    /\ \A i \in 1 .. Len(s) - 1 : Linked(m, s[i], s[i + 1].entry)
    /\ \A i, j \in DOMAIN s : i < j => Needs(m, s[i].entry, s[j].entry)
    /\ \A i \in DOMAIN s : Longer(m, st, s[i].entry)

Meaning ==
    /\ Told(frames, mem, start)
    /\ mode = "read" => Carries(mem, Top, pos)
    /\ mode = "return" =>
          \E q \in Nat : Linked(mem, Top, q) /\ \E r \in At(mem, q) : r.text = domain
    /\ DecodesName
    /\ RejectsOnlyBad

LEMMA ChangeTold ==
    ASSUME NEW m, NEW st, NEW s, Calls(s, m), s # <<>>, Told(s, m, st),
           NEW f \in Frame, NEW t, Changed(s, f, t)
    PROVE  Told(t, m, st)
<1>1. PICK k : k = Len(s)
  OBVIOUS
<1>2. s \in Seq(Frame) /\ k \in Nat \ {0}
  BY <1>1, PopLemma DEF Calls
<1>3. PICK b \in Seq(Frame) : b = SubSeq(s, 1, k - 1) /\ Len(b) = k - 1
                            /\ \A i \in 1 .. k - 1 : b[i] = s[i]
  BY <1>1, <1>2, PopLemma
<1>4. t = Append(b, f) /\ f.entry = s[k].entry
  BY <1>1, <1>3 DEF Changed
<1>5. t \in Seq(Frame) /\ Len(t) = k /\ t[k] = f /\ \A i \in 1 .. k - 1 : t[i] = s[i]
  <2>1. /\ Append(b, f) \in Seq(Frame)
        /\ Len(Append(b, f)) = Len(b) + 1
        /\ Append(b, f)[Len(b) + 1] = f
        /\ \A i \in 1 .. Len(b) : Append(b, f)[i] = b[i]
    BY <1>3, PushLemma
  <2>2. Len(b) + 1 = k
    BY <1>2, <1>3
  <2> QED  BY <1>3, <1>4, <2>1, <2>2
<1>6. DOMAIN s = 1 .. k /\ DOMAIN t = 1 .. k
  BY <1>1, <1>2, <1>5
<1>7. \A i \in 1 .. k : i = k \/ i \in 1 .. k - 1
  BY <1>2
<1>8. \A i \in 1 .. k : t[i].entry = s[i].entry
  BY <1>4, <1>5, <1>7
<1>9. \A i \in 1 .. k - 1 : i + 1 \in 1 .. k
  BY <1>2
<1>10. \A i \in 1 .. k - 1 : Linked(m, t[i], t[i + 1].entry)
  BY <1>1, <1>5, <1>8, <1>9 DEF Told
<1>11. \A i, j \in DOMAIN t : i < j => Needs(m, t[i].entry, t[j].entry)
  BY <1>6, <1>8 DEF Told
<1>12. \A i \in DOMAIN t : Longer(m, st, t[i].entry)
  BY <1>6, <1>8 DEF Told
<1> QED  BY <1>5, <1>10, <1>11, <1>12 DEF Told

LEMMA PushTold ==
    ASSUME NEW m \in Seq(Octets), NEW st \in Nat,
           NEW s \in Seq(Frame), s # <<>>, Told(s, m, st),
           NEW f \in Frame, Linked(m, s[Len(s)], f.entry),
           NEW t, t = Append(s, f)
    PROVE  Told(t, m, st)
<1>1. PICK k : k = Len(s)
  OBVIOUS
<1>2. k \in Nat \ {0} /\ k \in DOMAIN s /\ s[k] \in Frame
  BY <1>1, PopLemma
<1>3. t \in Seq(Frame) /\ Len(t) = k + 1 /\ t[k + 1] = f /\ \A i \in 1 .. k : t[i] = s[i]
  BY <1>1, PushLemma
<1>4. DOMAIN s = 1 .. k /\ DOMAIN t = 1 .. k + 1
  BY <1>1, <1>2, <1>3
<1>5. PICK e \in Nat : e = f.entry
  BY DEF Frame
<1>6. PICK h \in Frame : h = s[k] /\ Linked(m, h, e)
  BY <1>1, <1>2, <1>5
<1>7. h.entry \in Nat /\ Needs(m, h.entry, e)
  BY <1>6, LinkedNeeds DEF Frame
<1>8. \A i \in 1 .. k : s[i].entry \in Nat
  <2>1. \A x \in Frame : x.entry \in Nat
    BY DEF Frame
  <2>2. \A i \in 1 .. k : s[i] \in Frame
    BY <1>1, LenProperties
  <2> QED  BY <2>1, <2>2
<1>9. \A i \in 1 .. k : Needs(m, s[i].entry, e)
  <2> TAKE i \in 1 .. k
  <2>1. CASE i = k
    BY <1>6, <1>7, <2>1
  <2>2. CASE i # k
    <3>1. i < k /\ i \in DOMAIN s
      BY <1>2, <1>4, <2>2
    <3>2. Needs(m, s[i].entry, h.entry)
      BY <1>2, <1>6, <3>1 DEF Told
    <3> QED  BY <1>7, <1>8, <3>2, NeedsMore
  <2> QED  BY <2>1, <2>2
<1>10. Longer(m, st, e)
  <2> SUFFICES ASSUME NEW r \in At(m, e)
               PROVE  \E a \in At(m, st) : Len(a.text) >= Len(r.text)
    BY DEF Longer
  <2>1. PICK c : c = [text |-> Join(h.text, r.text), next |-> h.saved]
    OBVIOUS
  <2>2. c \in At(m, h.entry) /\ Len(c.text) >= Len(r.text) /\ r.text \in Seq(Octets)
    BY <1>6, <2>1, LinkedEnd
  <2>3. PICK a \in At(m, st) : Len(a.text) >= Len(c.text)
    BY <1>2, <1>6, <2>2 DEF Told, Longer
  <2>4. a.text \in Seq(Octets) /\ c.text \in Seq(Octets)
    BY <1>7, <2>2, <2>3, NameType DEF Single, NameSet
  <2>5. Len(a.text) \in Nat /\ Len(c.text) \in Nat /\ Len(r.text) \in Nat
    BY <2>2, <2>4, LenProperties
  <2>6. Len(a.text) >= Len(r.text)
    BY <2>2, <2>3, <2>5
  <2> QED  BY <2>6
<1>11. \A i \in 1 .. Len(t) - 1 : Linked(m, t[i], t[i + 1].entry)
  <2>1. Len(t) - 1 = k
    BY <1>2, <1>3
  <2> SUFFICES ASSUME NEW i \in 1 .. k PROVE Linked(m, t[i], t[i + 1].entry)
    BY <2>1
  <2>2. CASE i = k
    BY <1>3, <1>5, <1>6, <2>2
  <2>3. CASE i # k
    <3>1. i \in 1 .. k - 1 /\ i + 1 \in 1 .. k
      BY <1>2, <2>3
    <3> QED  BY <1>1, <1>3, <3>1 DEF Told
  <2> QED  BY <2>2, <2>3
<1>12. \A i \in DOMAIN t : i = k + 1 \/ i \in 1 .. k
  BY <1>2, <1>4
<1>13. \A i, j \in DOMAIN t : i < j => Needs(m, t[i].entry, t[j].entry)
  <2> SUFFICES ASSUME NEW i \in DOMAIN t, NEW j \in DOMAIN t, i < j
               PROVE  Needs(m, t[i].entry, t[j].entry)
    OBVIOUS
  <2>1. i \in 1 .. k
    BY <1>2, <1>4
  <2>2. CASE j = k + 1
    BY <1>3, <1>5, <1>9, <2>1, <2>2
  <2>3. CASE j \in 1 .. k
    BY <1>3, <1>4, <2>1, <2>3 DEF Told
  <2> QED  BY <1>12, <2>2, <2>3
<1>14. \A i \in DOMAIN t : Longer(m, st, t[i].entry)
  <2> TAKE i \in DOMAIN t
  <2>1. CASE i = k + 1
    BY <1>3, <1>5, <1>10, <2>1
  <2>2. CASE i \in 1 .. k
    BY <1>3, <1>4, <2>2 DEF Told
  <2> QED  BY <1>12, <2>1, <2>2
<1> QED  BY <1>11, <1>13, <1>14 DEF Told

LEMMA PopTold ==
    ASSUME NEW m, NEW st, NEW s \in Seq(Frame), s # <<>>, Told(s, m, st),
           NEW t, t = SubSeq(s, 1, Len(s) - 1)
    PROVE  /\ Told(t, m, st)
           /\ Len(s) # 1 => Linked(m, t[Len(t)], s[Len(s)].entry)
<1>1. PICK k : k = Len(s)
  OBVIOUS
<1>2. k \in Nat \ {0} /\ t \in Seq(Frame) /\ Len(t) = k - 1
      /\ \A i \in 1 .. k - 1 : t[i] = s[i]
  BY <1>1, PopLemma
<1>3. DOMAIN s = 1 .. k /\ DOMAIN t = 1 .. k - 1
  BY <1>1, <1>2
<1>4. \A i \in 1 .. Len(t) - 1 : Linked(m, t[i], t[i + 1].entry)
  <2> TAKE i \in 1 .. Len(t) - 1
  <2>1. i \in 1 .. k - 1 /\ i + 1 \in 1 .. k - 1
    BY <1>2
  <2> QED  BY <1>1, <1>2, <2>1 DEF Told
<1>5. \A i, j \in DOMAIN t : i < j => Needs(m, t[i].entry, t[j].entry)
  BY <1>2, <1>3 DEF Told
<1>6. \A i \in DOMAIN t : Longer(m, st, t[i].entry)
  BY <1>2, <1>3 DEF Told
<1>7. ASSUME k # 1 PROVE Linked(m, t[k - 1], s[k].entry)
  <2>1. k - 1 \in 1 .. k - 1 /\ k - 1 + 1 = k
    BY <1>2, <1>7
  <2>2. Linked(m, s[k - 1], s[k - 1 + 1].entry)
    BY <1>1, <2>1 DEF Told
  <2> QED  BY <1>2, <2>1, <2>2
<1> QED  BY <1>1, <1>2, <1>4, <1>5, <1>6, <1>7 DEF Told

\* No name at the entry of a call: none at that of the outermost.
LEMMA NoneAtStart ==
    ASSUME NEW m \in Seq(Octets), NEW s \in Seq(Frame), s # <<>>, NEW st,
           Told(s, m, st), s[1].entry = st,
           NEW i \in DOMAIN s, At(m, s[i].entry) = {}
    PROVE  At(m, st) = {}
<1>1. 1 \in DOMAIN s /\ Len(s) \in Nat /\ DOMAIN s = 1 .. Len(s)
  BY PopLemma
<1>2. s[1].entry \in Nat /\ s[i].entry \in Nat
  <2>1. \A x \in Frame : x.entry \in Nat
    BY DEF Frame
  <2>2. s[1] \in Frame /\ s[i] \in Frame
    BY <1>1
  <2> QED  BY <2>1, <2>2
<1>3. CASE i = 1
  BY <1>3
<1>4. CASE i # 1
  <2>1. 1 < i
    BY <1>1, <1>4
  <2>2. Needs(m, s[1].entry, s[i].entry)
    BY <1>1, <2>1 DEF Told
  <2> QED  BY <1>2, <2>2, NeedsOne
<1> QED  BY <1>3, <1>4

\* The rest of the invariant, when the stack and the message are the same
LEMMA FailMeaning ==
    ASSUME IInv, Meaning, NEW why \in Failures, Fail(why),
           \/ why = "link" /\ ~allowed
           \/ why = "end" /\ LinkAtEnd
           \/ At(mem, start) = {}
    PROVE  Meaning'
<1>1. UNCHANGED <<mem, allowed, pos, frames, start, domain>> /\ mode' = why
  BY DEF Fail
<1>2. why \notin {"idle", "read", "return"}
  BY DEF Failures
<1>3. Told(frames, mem, start)'
  BY <1>1 DEF Meaning
<1>4. RejectsOnlyBad'
  BY <1>1 DEF RejectsOnlyBad, LinkAtEnd, At
<1>5. DecodesName'
  BY <1>1, <1>2 DEF DecodesName
<1> QED  BY <1>1, <1>2, <1>3, <1>4, <1>5 DEF Meaning

\* The last call has found no name, nor has the outermost.
LEMMA NothingAtStart ==
    ASSUME IInv, Meaning, frames # <<>>, mem \in Seq(Octets),
           At(mem, Top.entry) = {}
    PROVE  At(mem, start) = {}
<1>1. frames \in Seq(Frame) /\ frames[1].entry = start
  BY DEF IInv, Calls, ModeOK
<1>2. Len(frames) \in DOMAIN frames
  BY <1>1, PopLemma
<1>3. Told(frames, mem, start)
  BY DEF Meaning
<1> QED  BY <1>1, <1>2, <1>3, NoneAtStart DEF Top

LEMMA NothingAtPos ==
    ASSUME IInv, Meaning, mode = "read", At(mem, pos) = {}
    PROVE  At(mem, start) = {}
<1>1. mem \in Seq(Octets) /\ Top \in Frame /\ pos \in Nat /\ frames # <<>>
  BY Reading
<1>2. Carries(mem, Top, pos)
  BY DEF Meaning
<1>3. PICK f \in Frame : f = Top
  BY <1>1
<1>4. At(mem, f.entry) = {}
  BY <1>1, <1>2, <1>3, CarriesNone
<1> QED  BY <1>1, <1>3, <1>4, NothingAtStart

\* The last call returns a name, and that is the name where it began.
LEMMA LeaveMeaning ==
    ASSUME IInv, Meaning, mode \in {"read", "return"}, NEW text, NEW p \in Nat,
           [text |-> text, next |-> p] \in At(mem, Top.entry),
           Leave(text, p)
    PROVE  Meaning'
<1>1. /\ pos' = p /\ frames' = SubSeq(frames, 1, Len(frames) - 1)
      /\ domain' = text /\ UNCHANGED <<mem, allowed, start>>
      /\ mode' = IF Len(text) > MaxDomain THEN "length"
                 ELSE IF Len(frames) = 1 THEN "idle" ELSE "return"
  BY DEF Leave, Below
<1>2. /\ mem \in Seq(Octets) /\ frames \in Seq(Frame) /\ frames # <<>>
      /\ Top.entry \in Nat /\ start \in Nat
  BY Reading DEF IInv, TypeOK
<1>3. PICK r : r = [text |-> text, next |-> p]
  OBVIOUS
<1>4. PICK e \in Nat : e = Top.entry
  BY <1>2
<1>5. r \in At(mem, e) /\ r.text = text /\ r.next = p /\ r \in NameSet
  BY <1>2, <1>3, <1>4, NameType DEF Single
<1>6. PICK t : t = frames'
  OBVIOUS
<1>7. Told(t, mem, start) /\ (Len(frames) # 1 => Linked(mem, t[Len(t)], e))
  BY <1>1, <1>2, <1>4, <1>6, PopTold DEF Meaning, Top
<1>8. mode' = "return" =>
         \E q \in Nat : Linked(mem, Top, q)' /\ \E x \in At(mem, q)' : x.text = domain'
  <2> SUFFICES ASSUME mode' = "return"
               PROVE  /\ Linked(mem', frames'[Len(frames')], e)
                      /\ \E x \in At(mem', e) : x.text = domain'
    BY DEF Top
  <2>1. Len(frames) # 1
    BY <1>1
  <2> QED  BY <1>1, <1>5, <1>6, <1>7, <2>1
<1>9. DecodesName'
  <2> SUFFICES ASSUME mode' = "idle"
               PROVE  At(mem, start) = {[text |-> text, next |-> p]}
    BY <1>1 DEF DecodesName, At
  <2>1. Len(frames) = 1
    BY <1>1
  <2>2. Top.entry = start
    BY <1>2, <2>1 DEF IInv, ModeOK, Top
  <2>3. Single(At(mem, start))
    BY <1>2, NameType
  <2> QED  BY <1>3, <1>4, <1>5, <2>2, <2>3 DEF Single
<1>10. RejectsOnlyBad'
  <2> SUFFICES ASSUME mode' \in Failures, NEW a \in At(mem, start)
               PROVE  Len(a.text) > MaxDomain
    BY <1>1 DEF RejectsOnlyBad, At
  <2>1. Len(text) > MaxDomain
    BY <1>1 DEF Failures
  <2>2. Len(frames) \in DOMAIN frames
    BY <1>2, PopLemma
  <2>3. Longer(mem, start, e)
    BY <1>4, <2>2 DEF Meaning, Told, Top
  <2>4. PICK b \in At(mem, start) : Len(b.text) >= Len(r.text)
    BY <1>5, <2>3 DEF Longer
  <2>5. a = b /\ a \in NameSet
    BY <1>2, <2>4, NameType DEF Single
  <2>6. Len(a.text) \in Nat /\ Len(text) \in Nat
    BY <1>5, <2>5, LenProperties DEF NameSet
  <2>7. MaxDomain \in Nat
    BY NameAssumption
  <2> QED  BY <1>5, <2>1, <2>4, <2>5, <2>6, <2>7
<1> QED  BY <1>1, <1>6, <1>7, <1>8, <1>9, <1>10 DEF Meaning

-----------------------------------------------------------------------------
(* What the function looks at is what the definition of names looks at. *)

LEMMA SeesEnd ==
    ASSUME IInv, mode = "read", ~Misses(pos, 1), Octet(pos) = 0
    PROVE  EndsAt(mem, pos)
<1>1. PICK n : n = Len(mem)
  OBVIOUS
<1>2. n \in Nat /\ pos \in Nat
  BY <1>1, Reading
<1>3. pos < n
  BY <1>1, <1>2 DEF Misses
<1> QED  BY <1>1, <1>3 DEF EndsAt, Octet

LEMMA SeesLabel ==
    ASSUME IInv, mode = "read", ~Misses(pos, 1), Octet(pos) \in 1 .. 191,
           ~(Octet(pos) > MaxLabel), ~Misses(pos, 1 + Octet(pos))
    PROVE  /\ HasLabel(mem, MaxLabel, pos)
           /\ BehindLabel(mem, pos) = pos + 1 + Octet(pos)
           /\ LabelOf(mem, pos) = LabelAt(pos, Octet(pos))
<1>1. PICK n : n = Len(mem)
  OBVIOUS
<1>2. PICK c : c = Octet(pos) /\ c = mem[pos + 1]
  BY DEF Octet
<1>3. n \in Nat /\ pos \in Nat /\ MaxLabel \in Nat /\ c \in Nat /\ c >= 1
  <2>1. n \in Nat /\ pos \in Nat
    BY <1>1, Reading
  <2>2. MaxLabel \in Nat
    BY NameAssumption
  <2>3. c \in 1 .. 191
    BY <1>2
  <2> QED  BY <2>1, <2>2, <2>3
<1>4. pos < n /\ pos + 1 + c <= n /\ c \in 1 .. MaxLabel
  BY <1>1, <1>2, <1>3 DEF Misses
<1>5. HasLabel(mem, MaxLabel, pos)
  BY <1>1, <1>2, <1>4 DEF HasLabel
<1>6. BehindLabel(mem, pos) = pos + 1 + c
  BY <1>2 DEF BehindLabel
<1>7. LabelOf(mem, pos) = LabelAt(pos, c)
  BY <1>2 DEF LabelOf, LabelAt
<1> QED  BY <1>2, <1>5, <1>6, <1>7

LEMMA SeesLink ==
    ASSUME IInv, mode = "read", Octet(pos) \in 192 .. 255, ~Misses(pos, 2)
    PROVE  HasLink(mem, pos) /\ LinkedTo(mem, pos) = Target
<1>1. PICK n : n = Len(mem)
  OBVIOUS
<1>2. PICK c : c = Octet(pos) /\ c = mem[pos + 1]
  BY DEF Octet
<1>3. n \in Nat /\ pos \in Nat
  BY <1>1, Reading
<1>4. pos + 2 <= n /\ c >= 192
  <2>1. pos + 2 <= n
    BY <1>1, <1>3 DEF Misses
  <2>2. c \in 192 .. 255
    BY <1>2
  <2> QED  BY <2>1, <2>2
<1>5. Octet(pos + 1) = mem[pos + 2]
  BY <1>3 DEF Octet
<1>6. LinkedTo(mem, pos) = Target
  <2>1. LinkedTo(mem, pos) = (c % 64) * 256 + mem[pos + 2]
    BY <1>2 DEF LinkedTo
  <2>2. Target = (c % 64) * 256 + mem[pos + 2]
    BY <1>2, <1>5 DEF Target
  <2> QED  BY <2>1, <2>2
<1> QED  BY <1>1, <1>2, <1>4, <1>6 DEF HasLink

\* Where the function gives up for an octet, there is no name.
LEMMA SeesNothing ==
    ASSUME IInv, mode = "read",
           \/ Misses(pos, 1)
           \/ /\ Octet(pos) \in 1 .. 191
              /\ Octet(pos) > MaxLabel \/ Misses(pos, 1 + Octet(pos))
           \/ Octet(pos) \in 192 .. 255 /\ Misses(pos, 2)
    PROVE  At(mem, pos) = {}
<1>1. PICK n : n = Len(mem)
  OBVIOUS
<1>2. PICK c : c = Octet(pos) /\ c = mem[pos + 1]
  BY DEF Octet
<1>3. n \in Nat /\ pos \in Nat /\ MaxLabel \in 1 .. 63 /\ mem \in Seq(Octets)
  BY <1>1, Reading, NameAssumption
<1>4. EndsAt(mem, pos) => pos < n /\ c = 0
  BY <1>1, <1>2 DEF EndsAt
<1>5. HasLabel(mem, MaxLabel, pos) => pos < n /\ c \in 1 .. MaxLabel /\ pos + 1 + c <= n
  BY <1>1, <1>2 DEF HasLabel
<1>6. HasLink(mem, pos) => pos + 2 <= n /\ c >= 192
  BY <1>1, <1>2 DEF HasLink
<1>7. CASE Misses(pos, 1)
  <2>1. ~(pos < n)
    BY <1>1, <1>3, <1>7 DEF Misses
  <2> QED  BY <1>3, <1>4, <1>5, <1>6, <2>1, NameRules, Apart, <1>1
<1>8. CASE c \in 1 .. 191 /\ (c > MaxLabel \/ Misses(pos, 1 + c))
  <2>1. c \in Nat /\ c # 0 /\ ~(c >= 192)
    BY <1>8
  <2>2. c > MaxLabel => ~(c \in 1 .. MaxLabel)
    BY <1>3, <2>1
  <2>3. Misses(pos, 1 + c) => ~(pos + 1 + c <= n)
    BY <1>1, <1>3, <2>1 DEF Misses
  <2> QED  BY <1>3, <1>4, <1>5, <1>6, <1>8, <2>1, <2>2, <2>3, NameRules
<1>9. CASE c \in 192 .. 255 /\ Misses(pos, 2)
  <2>1. c # 0 /\ ~(c \in 1 .. MaxLabel)
    BY <1>3, <1>9
  <2>2. ~(pos + 2 <= n)
    BY <1>1, <1>3, <1>9 DEF Misses
  <2> QED  BY <1>3, <1>4, <1>5, <1>6, <2>1, <2>2, NameRules
<1> QED  BY <1>2, <1>7, <1>8, <1>9

\* A name that links behind the end of the message is none.
LEMMA LinksNowhere ==
    ASSUME NEW m \in Seq(Octets), NEW p \in Nat, HasLink(m, p),
           LinkedTo(m, p) >= Len(m)
    PROVE  At(m, p) = {}
<1>1. PICK q \in Nat : q = LinkedTo(m, p)
  BY LinkPlace
<1>2. PICK n \in Nat : n = Len(m)
  OBVIOUS
<1>3. ~(q < n)
  BY <1>1, <1>2
<1>4. At(m, q) = {}
  BY <1>2, <1>3, NameRules, Apart
<1>5. At(m, p) = {[text |-> there.text, next |-> p + 2] : there \in At(m, q)}
  BY <1>1, NameRules
<1> QED  BY <1>4, <1>5

-----------------------------------------------------------------------------
(* The steps keep the meaning. *)

LEMMA InitMeaning ==
    ASSUME Init
    PROVE  Meaning
<1>1. Told(frames, mem, start)
  BY DEF Init, Told
<1> QED  BY <1>1 DEF Init, Meaning, DecodesName, RejectsOnlyBad, Failures

LEMMA CallMeaning ==
    ASSUME IInv, IInv', Meaning, Call
    PROVE  Meaning'
<1>1. mode = "idle" /\ start' = pos /\ Enter(frames, pos)
      /\ UNCHANGED <<mem, allowed, domain>> /\ frames = <<>> /\ mode' # "overflow"
  BY DEF Call, IInv, ModeOK
<1>2. pos \in Nat /\ mem \in Seq(Octets)
  BY NameAssumption DEF IInv, TypeOK
<1>3. PICK f : f = [entry |-> pos, text |-> <<>>, saved |-> 0]
  OBVIOUS
<1>4. f \in Frame /\ f.entry = pos /\ f.text = <<>>
  BY <1>2, <1>3 DEF Frame
<1>5. mode' = "read" /\ pos' = pos /\ frames' = Append(frames, f)
  <2>1. ~\E i \in DOMAIN frames : frames[i].entry = pos
    BY <1>1
  <2> QED  BY <1>1, <1>3, <2>1 DEF Enter
<1>6. PICK t : t = frames'
  OBVIOUS
<1>7. Len(t) = 1 /\ t[1] = f /\ DOMAIN t = {1}
  BY <1>1, <1>4, <1>5, <1>6
<1>8. Longer(mem, pos, pos)
  <2> SUFFICES ASSUME NEW r \in At(mem, pos)
               PROVE  Len(r.text) >= Len(r.text)
    BY DEF Longer
  <2>1. r.text \in Seq(Octets)
    BY <1>2, NameType DEF Single, NameSet
  <2>2. Len(r.text) \in Nat
    BY <2>1, LenProperties
  <2> QED  BY <2>2
<1>9. Told(t, mem, pos)
  BY <1>4, <1>7, <1>8 DEF Told
<1>10. Carries(mem, f, pos)
  BY <1>2, <1>4, CarriesAll
<1>11. Told(frames, mem, start)'
  BY <1>1, <1>6, <1>9
<1>12. Carries(mem, Top, pos)'
  BY <1>1, <1>5, <1>6, <1>7, <1>10 DEF Top
<1>13. DecodesName' /\ RejectsOnlyBad'
  BY <1>5 DEF DecodesName, RejectsOnlyBad, Failures
<1> QED  BY <1>5, <1>11, <1>12, <1>13 DEF Meaning

LEMMA ReadEndMeaning ==
    ASSUME IInv, Meaning, mode = "read", ~Misses(pos, 1), ReadEnd
    PROVE  Meaning'
<1>1. Leave(Top.text, pos + 1) /\ EndsAt(mem, pos)
  BY SeesEnd DEF ReadEnd
<1>2. mem \in Seq(Octets) /\ Top \in Frame /\ pos \in Nat
  BY Reading
<1>3. PICK f \in Frame : f = Top
  BY <1>2
<1>4. Carries(mem, f, pos)
  BY <1>3 DEF Meaning
<1>5. [text |-> f.text, next |-> pos + 1] \in At(mem, f.entry)
  BY <1>1, <1>2, <1>4, CarriesEnd
<1>6. pos + 1 \in Nat
  BY <1>2
<1> QED  BY <1>1, <1>3, <1>5, <1>6, LeaveMeaning

LEMMA ReadLabelMeaning ==
    ASSUME IInv, Meaning, mode = "read", ~Misses(pos, 1), ReadLabel
    PROVE  Meaning'
<1>1. PICK len : len = Octet(pos) /\ len \in 1 .. 191
  BY DEF ReadLabel
<1>2. CASE len > MaxLabel
  <2>1. At(mem, pos) = {}
    BY <1>1, <1>2, SeesNothing
  <2>2. At(mem, start) = {}
    BY <2>1, NothingAtPos
  <2> QED  BY <1>1, <1>2, <2>2, FailMeaning DEF ReadLabel, Failures
<1>3. CASE ~(len > MaxLabel) /\ Misses(pos, 1 + len)
  <2>1. At(mem, pos) = {}
    BY <1>1, <1>3, SeesNothing
  <2>2. At(mem, start) = {}
    BY <2>1, NothingAtPos
  <2> QED  BY <1>1, <1>3, <2>2, FailMeaning DEF ReadLabel, Failures
<1>4. CASE ~(len > MaxLabel) /\ ~Misses(pos, 1 + len)
  <2>1. /\ mem \in Seq(Octets) /\ Top \in Frame /\ pos \in Nat
        /\ Top.text \in Seq(Octets) /\ frames # <<>>
    BY Reading
  <2>2. HasLabel(mem, MaxLabel, pos) /\ BehindLabel(mem, pos) = pos + 1 + len
        /\ LabelOf(mem, pos) = LabelAt(pos, len)
    BY <1>1, <1>4, SeesLabel
  <2>3. PICK text : text = Join(Top.text, LabelAt(pos, len))
    OBVIOUS
  <2>4. text \in Seq(Octets)
    BY <2>1, <2>2, <2>3, JoinType, LabelPlace
  <2>5. PICK f : f = [Top EXCEPT !.text = text]
    OBVIOUS
  <2>6. f \in Frame /\ f.entry = Top.entry /\ f.text = text
    BY <2>1, <2>4, <2>5 DEF Frame
  <2>7. pos' = pos + 1 + len /\ frames' = Append(Below, f)
        /\ UNCHANGED <<mem, allowed, start, domain, mode>>
    BY <1>1, <1>4, <2>3, <2>5 DEF ReadLabel
  <2>8. PICK t : t = frames'
    OBVIOUS
  <2>9. Changed(frames, f, t)
    BY <2>6, <2>7, <2>8 DEF Below, Top, Changed
  <2>10. Calls(frames, mem) /\ Told(frames, mem, start) /\ Carries(mem, Top, pos)
    BY DEF IInv, Meaning
  <2>11. Told(t, mem, start)
    BY <2>1, <2>6, <2>9, <2>10, ChangeTold
  <2>12. t[Len(t)] = f
    BY <2>1, <2>6, <2>9, <2>10, ChangeCall
  <2>13. Carries(mem, f, pos + 1 + len)
    <3>1. PICK h \in Frame : h = Top
      BY <2>1
    <3>2. Carries(mem, h, pos)
      BY <2>10, <3>1
    <3>3. f.entry = h.entry /\ f.text = Join(h.text, LabelOf(mem, pos))
      BY <2>2, <2>3, <2>6, <3>1
    <3>4. Carries(mem, f, BehindLabel(mem, pos))
      BY <2>1, <2>2, <2>6, <3>2, <3>3, CarriesLabel
    <3> QED  BY <2>2, <3>4
  <2>14. Told(frames, mem, start)'
    BY <2>7, <2>8, <2>11
  <2>15. Carries(mem, Top, pos)'
    BY <2>7, <2>8, <2>12, <2>13 DEF Top
  <2>16. mode' = "read"
    BY <2>7
  <2>17. DecodesName' /\ RejectsOnlyBad'
    BY <2>16 DEF DecodesName, RejectsOnlyBad, Failures
  <2> QED  BY <2>14, <2>15, <2>16, <2>17 DEF Meaning
<1> QED  BY <1>2, <1>3, <1>4

\* A link to where a call under way began: that call reads no name.
LEMMA LoopMeaning ==
    ASSUME NEW m \in Seq(Octets), NEW s \in Seq(Frame), s # <<>>, NEW st,
           Told(s, m, st), s[1].entry = st,
           NEW p \in Nat, Linked(m, s[Len(s)], p),
           NEW i \in DOMAIN s, s[i].entry = p
    PROVE  At(m, st) = {}
<1>1. PICK k : k = Len(s)
  OBVIOUS
<1>2. k \in Nat \ {0} /\ DOMAIN s = 1 .. k /\ s[k] \in Frame
  BY <1>1, PopLemma
<1>3. PICK h \in Frame : h = s[k] /\ Linked(m, h, p)
  BY <1>1, <1>2
<1>4. h.entry \in Nat /\ Needs(m, h.entry, p)
  BY <1>3, LinkedNeeds DEF Frame
<1>5. Needs(m, p, p)
  <2>1. CASE i = k
    BY <1>3, <1>4, <2>1
  <2>2. CASE i # k
    <3>1. i < k /\ k \in DOMAIN s
      BY <1>2, <2>2
    <3>2. Needs(m, p, h.entry)
      BY <1>3, <3>1 DEF Told
    <3> QED  BY <1>4, <3>2, NeedsMore
  <2> QED  BY <2>1, <2>2
<1>6. At(m, s[i].entry) = {}
  BY <1>5, NoEnd
<1> QED  BY <1>6, NoneAtStart

LEMMA ReadLinkMeaning ==
    ASSUME IInv, IInv', Meaning, mode = "read", ~Misses(pos, 1), ReadLink
    PROVE  Meaning'
<1>1. Octet(pos) \in 192 .. 255
  BY DEF ReadLink
<1>2. CASE ~allowed /\ Len(frames) = 1
  BY <1>2, FailMeaning DEF ReadLink, Failures
<1>3. CASE ~(~allowed /\ Len(frames) = 1) /\ Misses(pos, 2)
  <2>1. At(mem, pos) = {}
    BY <1>1, <1>3, SeesNothing
  <2>2. At(mem, start) = {}
    BY <2>1, NothingAtPos
  <2> QED  BY <1>3, <2>2, FailMeaning DEF ReadLink, Failures
<1>4. CASE ~(~allowed /\ Len(frames) = 1) /\ ~Misses(pos, 2) /\ Behind(Target)
  <2>1. HasLink(mem, pos) /\ LinkedTo(mem, pos) = Target
    BY <1>1, <1>4, SeesLink
  <2>2. At(mem, pos) = {}
    BY <1>4, <2>1, LinksNowhere, Reading DEF Behind
  <2>3. At(mem, start) = {}
    BY <2>2, NothingAtPos
  <2> QED  BY <1>4, <2>3, FailMeaning DEF ReadLink, Failures
<1>5. CASE /\ ~(~allowed /\ Len(frames) = 1)
           /\ ~Misses(pos, 2) /\ ~Behind(Target)
  <2>1. /\ mem \in Seq(Octets) /\ Top \in Frame /\ pos \in Nat
        /\ frames \in Seq(Frame) /\ frames # <<>>
    BY Reading
  <2>2. PICK p : p = Target
    OBVIOUS
  <2>3. HasLink(mem, pos) /\ LinkedTo(mem, pos) = p /\ p \in Nat
    BY <1>1, <1>5, <2>2, SeesLink, TargetType
  <2>4. PICK q : q = pos + 2 /\ q \in Nat
    BY <2>1
  <2>5. PICK f : f = [Top EXCEPT !.saved = q]
    OBVIOUS
  <2>6. f \in Frame /\ f.entry = Top.entry /\ f.text = Top.text /\ f.saved = q
    BY <2>1, <2>4, <2>5 DEF Frame
  <2>7. PICK s : s = Append(Below, f)
    OBVIOUS
  <2>8. Enter(s, p) /\ UNCHANGED <<mem, allowed, start, domain>> /\ mode' # "overflow"
    BY <1>5, <2>2, <2>4, <2>5, <2>7 DEF ReadLink, AfterLink, IInv
  <2>9. Changed(frames, f, s)
    BY <2>6, <2>7 DEF Below, Top, Changed
  <2>10. Calls(frames, mem) /\ Told(frames, mem, start) /\ Carries(mem, Top, pos)
         /\ frames[1].entry = start /\ start \in Nat
    BY <2>1 DEF IInv, Meaning, ModeOK, TypeOK
  <2>11. Told(s, mem, start)
    BY <2>1, <2>6, <2>9, <2>10, ChangeTold
  <2>12. s[Len(s)] = f /\ s \in Seq(Frame) /\ s # <<>> /\ s[1].entry = start
    BY <2>1, <2>6, <2>9, <2>10, ChangeCall DEF Calls
  <2>13. Linked(mem, f, p)
    <3>1. Carries(mem, f, pos)
      BY <2>6, <2>10 DEF Carries
    <3> QED  BY <2>1, <2>3, <2>4, <2>6, <3>1 DEF Linked
  <2>14. CASE \E i \in DOMAIN s : s[i].entry = p
    <3>1. At(mem, start) = {}
      BY <2>1, <2>3, <2>11, <2>12, <2>13, <2>14, LoopMeaning
    <3>2. Fail("loop")
      BY <2>8, <2>14 DEF Enter, Fail
    <3> QED  BY <3>1, <3>2, FailMeaning DEF Failures
  <2>15. CASE ~\E i \in DOMAIN s : s[i].entry = p
    <3>1. PICK g : g = [entry |-> p, text |-> <<>>, saved |-> 0]
      OBVIOUS
    <3>2. g \in Frame /\ g.entry = p /\ g.text = <<>>
      BY <2>3, <3>1 DEF Frame
    <3>3. mode' = "read" /\ pos' = p /\ frames' = Append(s, g)
      BY <2>8, <2>15, <3>1 DEF Enter
    <3>4. PICK t : t = frames'
      OBVIOUS
    <3>5. Told(t, mem, start)
      BY <2>1, <2>10, <2>11, <2>12, <2>13, <3>2, <3>3, <3>4, PushTold
    <3>6. t[Len(t)] = g
      BY <2>12, <3>2, <3>3, <3>4, PushLemma
    <3>7. Carries(mem, g, p)
      BY <2>1, <3>2, CarriesAll
    <3>8. Told(frames, mem, start)'
      BY <2>8, <3>4, <3>5
    <3>9. Carries(mem, Top, pos)'
      BY <2>8, <3>3, <3>4, <3>6, <3>7 DEF Top
    <3>10. DecodesName' /\ RejectsOnlyBad'
      BY <3>3 DEF DecodesName, RejectsOnlyBad, Failures
    <3> QED  BY <3>3, <3>8, <3>9, <3>10 DEF Meaning
  <2> QED  BY <2>14, <2>15
<1> QED  BY <1>2, <1>3, <1>4, <1>5

LEMMA ReadMeaning ==
    ASSUME IInv, IInv', Meaning, Read
    PROVE  Meaning'
<1>1. mode = "read"
  BY DEF Read
<1>2. CASE Misses(pos, 1)
  <2>1. At(mem, start) = {}
    BY <1>1, <1>2, SeesNothing, NothingAtPos
  <2> QED  BY <1>2, <2>1, FailMeaning DEF Read, Failures
<1>3. CASE ~Misses(pos, 1)
  BY <1>1, <1>3, ReadEndMeaning, ReadLabelMeaning, ReadLinkMeaning DEF Read
<1> QED  BY <1>2, <1>3

LEMMA ReturnFromLinkMeaning ==
    ASSUME IInv, Meaning, ReturnFromLink
    PROVE  Meaning'
<1>1. mode = "return"
  BY DEF ReturnFromLink
<1>2. mem \in Seq(Octets) /\ Top \in Frame /\ Top.saved \in Nat
  BY <1>1, Reading
<1>3. PICK f \in Frame : f = Top
  BY <1>2
<1>4. PICK q \in Nat : Linked(mem, f, q) /\ \E r \in At(mem, q) : r.text = domain
  BY <1>1, <1>3 DEF Meaning
<1>5. CASE Behind(Top.saved)
  <2>1. PICK p \in Nat : f.saved = p + 2 /\ HasLink(mem, p)
    BY <1>4 DEF Linked
  <2>2. PICK n \in Nat : n = Len(mem)
    BY <1>2
  <2>3. p + 2 >= n /\ p + 2 <= n /\ mem[p + 1] >= 192
    BY <1>3, <1>5, <2>1, <2>2 DEF Behind, HasLink
  <2>4. n >= 2 /\ n - 1 = p + 1
    BY <2>3
  <2>5. LinkAtEnd
    BY <2>2, <2>3, <2>4 DEF LinkAtEnd
  <2> QED  BY <1>5, <2>5, FailMeaning DEF ReturnFromLink, Failures
<1>6. CASE ~Behind(Top.saved)
  <2>1. Leave(Join(f.text, domain), f.saved)
    BY <1>3, <1>6 DEF ReturnFromLink
  <2>2. [text |-> Join(f.text, domain), next |-> f.saved] \in At(mem, f.entry)
    BY <1>2, <1>4, LinkedEnd
  <2> QED  BY <1>1, <1>2, <1>3, <2>1, <2>2, LeaveMeaning
<1> QED  BY <1>5, <1>6

LEMMA NextMeaning ==
    ASSUME IInv, IInv', Meaning, [Next]_vars
    PROVE  Meaning'
<1>1. CASE UNCHANGED vars
  BY <1>1 DEF vars, Meaning, Top, DecodesName, RejectsOnlyBad, LinkAtEnd
<1> QED  BY <1>1, CallMeaning, ReadMeaning, ReturnFromLinkMeaning DEF Next

LEMMA MeaningHolds == Spec => []Meaning
<1>1. Init => Meaning
  BY InitMeaning
<1>2. Meaning /\ IInv /\ IInv' /\ [Next]_vars => Meaning'
  BY NextMeaning
<1> QED  BY <1>1, <1>2, Inductive, PTL DEF Spec

-----------------------------------------------------------------------------
(* Every step comes nearer to the end of the message. *)

\* Twice the octets behind the last name read; one less, while one is read
NamesLeft ==
    IF mode \in Failures THEN 0
    ELSE IF mode = "idle" THEN 2 * (Len(mem) - pos)
    ELSE 2 * (Len(mem) - start) - 1

\* The calls that the name read may still make and has to return from
CallsLeft ==
    IF mode = "read" THEN 2 * Len(mem) + 1 - Len(frames) ELSE Len(frames)

\* The octets behind the next one to read
OctetsLeft == IF mode = "read" THEN Len(mem) - pos ELSE 0

LeftOver == NamesLeft \in Nat /\ CallsLeft \in Nat /\ OctetsLeft \in Nat

Shrinks ==
    \/ NamesLeft' < NamesLeft
    \/ NamesLeft' = NamesLeft /\ CallsLeft' < CallsLeft
    \/ NamesLeft' = NamesLeft /\ CallsLeft' = CallsLeft /\ OctetsLeft' < OctetsLeft

LEMMA InName ==
    ASSUME IInv, mode \in {"read", "return"}
    PROVE  /\ Len(mem) \in Nat /\ start \in Nat /\ start < Len(mem)
           /\ Len(frames) \in Nat /\ 1 <= Len(frames) /\ Len(frames) <= Len(mem)
           /\ pos \in Nat /\ pos <= Len(mem)
           /\ Len(Below) = Len(frames) - 1
<1>1. /\ mem \in Messages /\ Len(mem) \in Nat /\ frames \in Seq(Frame) /\ frames # <<>>
      /\ Top.entry \in Nat /\ Top.entry < Len(mem) /\ pos \in Nat /\ pos <= Len(mem)
  BY Reading
<1>2. frames[1].entry = start /\ start \in Nat /\ Inside(frames, mem) /\ Distinct(frames)
  BY <1>1 DEF IInv, ModeOK, TypeOK, Calls
<1>3. PICK k : k = Len(frames)
  OBVIOUS
<1>4. k \in Nat \ {0} /\ DOMAIN frames = 1 .. k
  BY <1>1, <1>3, PopLemma
<1>5. start < Len(mem)
  BY <1>2, <1>4 DEF Inside
<1>6. PICK b : b = Below
  OBVIOUS
<1>7. b \in Seq(Frame) /\ Len(b) = k - 1 /\ \A i \in 1 .. k - 1 : b[i] = frames[i]
  BY <1>1, <1>3, <1>6, PopLemma DEF Below
<1>8. DOMAIN b = 1 .. k - 1
  BY <1>7
<1>9. \A i \in DOMAIN b : i \in DOMAIN frames /\ i # k /\ b[i] = frames[i]
  BY <1>4, <1>7, <1>8
<1>10. k \in DOMAIN frames /\ Top = frames[k]
  BY <1>3, <1>4 DEF Top
<1>11. \A i \in DOMAIN b : b[i].entry < Len(mem) /\ b[i].entry # Top.entry
  BY <1>2, <1>9, <1>10 DEF Inside, Distinct
<1>12. \A i, j \in DOMAIN b : b[i].entry = b[j].entry => i = j
  BY <1>2, <1>9 DEF Distinct
<1>13. Len(b) < Len(mem)
  BY <1>1, <1>7, <1>11, <1>12, RoomForOneMore
<1>14. k <= Len(mem)
  BY <1>1, <1>4, <1>7, <1>13
<1> QED  BY <1>1, <1>2, <1>3, <1>4, <1>5, <1>6, <1>7, <1>14

LEMMA LeftOverHolds ==
    ASSUME IInv
    PROVE  LeftOver
<1>1. CASE mode \in {"read", "return"}
  <2>1. mode \notin Failures /\ mode # "idle"
    BY <1>1 DEF Failures
  <2> QED  BY <1>1, <2>1, InName DEF LeftOver, NamesLeft, CallsLeft, OctetsLeft
<1>2. CASE mode \notin {"read", "return"}
  <2>1. Len(mem) \in Nat /\ Len(frames) \in Nat /\ pos \in 0 .. Len(mem)
        /\ (mode = "idle" \/ mode \in Failures)
    BY <1>2, NameAssumption DEF IInv, TypeOK
  <2> QED  BY <1>2, <2>1 DEF LeftOver, NamesLeft, CallsLeft, OctetsLeft
<1> QED  BY <1>1, <1>2

LEMMA FailShrinks ==
    ASSUME IInv, mode \in {"read", "return"}, mode' \in Failures
    PROVE  Shrinks
<1>1. NamesLeft' = 0
  BY DEF NamesLeft
<1>2. mode \notin Failures /\ mode # "idle"
  BY DEF Failures
<1>3. NamesLeft > 0
  BY <1>2, InName DEF NamesLeft
<1> QED  BY <1>1, <1>3 DEF Shrinks

LEMMA LeaveShrinks ==
    ASSUME IInv, mode \in {"read", "return"}, NEW text, NEW p \in Nat,
           Top.entry < p, p <= Len(mem), Leave(text, p)
    PROVE  Shrinks
<1>1. /\ pos' = p /\ frames' = Below /\ UNCHANGED <<mem, start>>
      /\ mode' = IF Len(text) > MaxDomain THEN "length"
                 ELSE IF Len(frames) = 1 THEN "idle" ELSE "return"
  BY DEF Leave
<1>2. mode \notin Failures /\ mode # "idle" /\ "idle" \notin Failures /\ "return" \notin Failures
  BY DEF Failures
<1>3. CASE mode' = "length"
  BY <1>3, FailShrinks DEF Failures
<1>4. CASE mode' = "idle"
  <2>1. Top.entry = start
    BY <1>1, <1>4, Reading DEF IInv, ModeOK, Top
  <2>2. NamesLeft = 2 * (Len(mem) - start) - 1
    BY <1>2 DEF NamesLeft
  <2>3. NamesLeft' = 2 * (Len(mem) - p)
    BY <1>1, <1>2, <1>4 DEF NamesLeft
  <2> QED  BY <2>1, <2>2, <2>3, InName DEF Shrinks
<1>5. CASE mode' = "return"
  <2>1. NamesLeft' = NamesLeft
    BY <1>1, <1>2, <1>5 DEF NamesLeft
  <2>2. CallsLeft' = Len(frames) - 1
    BY <1>1, <1>5, InName DEF CallsLeft
  <2>3. CallsLeft >= Len(frames)
    BY InName DEF CallsLeft
  <2>4. CallsLeft' < CallsLeft
    <3>1. PICK c : c = CallsLeft
      OBVIOUS
    <3>2. c \in Nat
      BY <3>1, LeftOverHolds DEF LeftOver
    <3> QED  BY <2>2, <2>3, <3>1, <3>2, InName
  <2> QED  BY <2>1, <2>4 DEF Shrinks
<1> QED  BY <1>1, <1>3, <1>4, <1>5

LEMMA CallShrinks ==
    ASSUME IInv, IInv', Call
    PROVE  Shrinks
<1>1. mode = "idle" /\ pos < Len(mem) /\ start' = pos /\ UNCHANGED mem
      /\ frames = <<>> /\ Enter(frames, pos) /\ mode' # "overflow"
  BY DEF Call, IInv, ModeOK
<1>2. mode' = "read"
  <2>1. ~\E i \in DOMAIN frames : frames[i].entry = pos
    BY <1>1
  <2> QED  BY <1>1, <2>1 DEF Enter
<1>3. NamesLeft = 2 * (Len(mem) - pos)
  BY <1>1 DEF NamesLeft, Failures
<1>4. NamesLeft' = 2 * (Len(mem) - pos) - 1
  BY <1>1, <1>2 DEF NamesLeft, Failures
<1>5. Len(mem) \in Nat /\ pos \in Nat
  BY NameAssumption DEF IInv, TypeOK
<1> QED  BY <1>3, <1>4, <1>5 DEF Shrinks

LEMMA ReadShrinks ==
    ASSUME IInv, IInv', Read
    PROVE  Shrinks
<1>1. mode = "read" /\ mode \notin Failures
  BY DEF Read, Failures
<1>2. CASE mode' \in Failures
  BY <1>1, <1>2, FailShrinks
<1>3. CASE mode' \notin Failures /\ ReadEnd
  <2>1. Leave(Top.text, pos + 1)
    BY <1>3 DEF ReadEnd
  <2>2. ~Misses(pos, 1)
    BY <1>3 DEF Read, Fail, Failures
  <2>3. pos + 1 \in Nat /\ pos + 1 <= Len(mem)
    BY <1>1, <2>2, Reading DEF Misses
  <2>4. Top.entry < pos + 1
    <3>1. Top.entry <= pos
      BY <1>1 DEF IInv, ModeOK
    <3> QED  BY <1>1, <3>1, Reading
  <2> QED  BY <1>1, <2>1, <2>3, <2>4, LeaveShrinks
<1>4. CASE mode' \notin Failures /\ ReadLabel
  <2>1. PICK len : len = Octet(pos) /\ len \in 1 .. 191
    BY <1>4 DEF ReadLabel
  <2>2. /\ pos' = pos + 1 + len /\ UNCHANGED <<mem, start, mode>>
        /\ \E f : frames' = Append(Below, f)
    BY <1>4, <2>1 DEF ReadLabel, Fail, Failures
  <2>3. Len(frames') = Len(frames)
    <3>1. PICK b : b = Below
      OBVIOUS
    <3>2. b \in Seq(Frame) /\ Len(b) = Len(frames) - 1 /\ Len(frames) \in Nat
      BY <1>1, <3>1, Reading, InName
    <3>3. \A f : Len(Append(b, f)) = Len(b) + 1
      BY <3>2
    <3> QED  BY <2>2, <3>1, <3>2, <3>3
  <2>4. NamesLeft' = NamesLeft
    BY <1>1, <2>2 DEF NamesLeft
  <2>5. CallsLeft' = CallsLeft
    BY <2>2, <2>3 DEF CallsLeft
  <2>6. OctetsLeft = Len(mem) - pos /\ OctetsLeft' = Len(mem) - (pos + 1 + len)
    BY <1>1, <2>2 DEF OctetsLeft
  <2>7. OctetsLeft' < OctetsLeft
    <3>1. Len(mem) \in Nat /\ pos \in Nat
      BY <1>1, InName
    <3>2. \A n, p \in Nat : n - (p + 1 + len) < n - p
      BY <2>1
    <3> QED  BY <2>6, <3>1, <3>2
  <2> QED  BY <2>4, <2>5, <2>7 DEF Shrinks
<1>5. CASE mode' \notin Failures /\ ReadLink
  <2>1. PICK f : Enter(Append(Below, f), Target) /\ UNCHANGED <<mem, start>>
    <3>1. ~Fail("link") /\ ~Fail("bounds")
      BY <1>5 DEF Fail, Failures
    <3>2. /\ Enter(Append(Below, [Top EXCEPT !.saved = AfterLink(pos)]), Target)
          /\ UNCHANGED <<mem, allowed, start, domain>>
      BY <1>5, <3>1 DEF ReadLink
    <3> QED  BY <3>2
  <2>2. PICK b : b = Below
    OBVIOUS
  <2>3. PICK s : s = Append(b, f)
    OBVIOUS
  <2>4. /\ mode' = "read"
        /\ \E g : frames' = Append(s, g)
    BY <1>5, <2>1, <2>2, <2>3 DEF Enter, Failures
  <2>5. Len(frames') = Len(frames) + 1
    <3>1. Len(b) = Len(frames) - 1 /\ Len(frames) \in Nat /\ b \in Seq(Frame)
      BY <1>1, <2>2, Reading, InName
    <3>2. \E S : b \in Seq(S) /\ f \in S
      <4>1. PICK S : S = Frame \cup {f}
        OBVIOUS
      <4>2. b \in Seq(S) /\ f \in S
        BY <3>1, <4>1
      <4> QED  BY <4>2
    <3>3. PICK S : b \in Seq(S) /\ f \in S
      BY <3>2
    <3>4. s \in Seq(S) /\ Len(s) = Len(b) + 1
      BY <2>3, <3>3
    <3>5. \A g : Len(Append(s, g)) = Len(s) + 1
      BY <3>4
    <3> QED  BY <2>4, <3>1, <3>4, <3>5
  <2>6. NamesLeft' = NamesLeft
    BY <1>1, <2>1, <2>4 DEF NamesLeft, Failures
  <2>7. CallsLeft = 2 * Len(mem) + 1 - Len(frames)
        /\ CallsLeft' = 2 * Len(mem) + 1 - (Len(frames) + 1)
    BY <1>1, <2>1, <2>4, <2>5 DEF CallsLeft
  <2>8. CallsLeft' < CallsLeft
    BY <1>1, <2>7, InName
  <2> QED  BY <2>6, <2>8 DEF Shrinks
<1>6. CASE Misses(pos, 1)
  BY <1>1, <1>6, FailShrinks DEF Read, Fail, Failures
<1> QED  BY <1>2, <1>3, <1>4, <1>5, <1>6 DEF Read

LEMMA ReturnShrinks ==
    ASSUME IInv, ReturnFromLink
    PROVE  Shrinks
<1>1. mode = "return"
  BY DEF ReturnFromLink
<1>2. CASE Behind(Top.saved)
  BY <1>1, <1>2, FailShrinks DEF ReturnFromLink, Fail, Failures
<1>3. CASE ~Behind(Top.saved)
  <2>1. Leave(Join(Top.text, domain), Top.saved)
    BY <1>3 DEF ReturnFromLink
  <2>2. Waits(Top, mem)
    BY <1>1 DEF IInv, ModeOK
  <2> QED  BY <1>1, <2>1, <2>2, LeaveShrinks, Reading DEF Waits
<1> QED  BY <1>2, <1>3

-----------------------------------------------------------------------------
(* Theorems *)

\* The state of a decoder of any set of messages: buffPos stays inside the
\* message or right behind it, and what is returned is made of octets.
THEOREM TypeCorrect == Spec => []TypeOK
<1>1. IInv => TypeOK
  BY DEF IInv
<1> QED  BY <1>1, Inductive, PTL

\* However the links of a message of n octets are laid, getDnsDomainName()
\* never holds more than n calls, no two for the same place: a stack with room
\* for n calls is enough.
THEOREM StackSuffices == Spec => []NoOverflow
<1>1. IInv => NoOverflow
  BY DEF IInv, Calls, Distinct, NoOverflow
<1> QED  BY <1>1, Inductive, PTL

\* A name takes at least one octet, and a call that waits for a link goes on
\* behind it and inside the message.
THEOREM ReadsOn == Spec => []Progress
<1>1. IInv => Progress
  BY DEF IInv, Calls, Nested, Waits, ModeOK, Progress
<1> QED  BY <1>1, Inductive, PTL

\* Of every message: what getDnsDomainName() returns is the name which is at the
\* place it was called for, and it goes on where that name ends.
THEOREM NamesAsSent == Spec => []DecodesName
<1>1. Meaning => DecodesName
  BY DEF Meaning
<1> QED  BY <1>1, MeaningHolds, PTL

\* Of every message: getDnsDomainName() gives up only where there is no name, or
\* too long a one, or for a link that is not allowed or ends the message.
THEOREM NoGoodNameRefused == Spec => []RejectsOnlyBad
<1>1. Meaning => RejectsOnlyBad
  BY DEF Meaning
<1> QED  BY <1>1, MeaningHolds, PTL

\* Of every message: each step of getDnsDomainName() makes the rest of the work
\* smaller, in an order without infinite descent (the names left to read, then
\* the calls left to make or to return from, then the octets left).  So it does
\* not read for ever, whatever links the message holds.
THEOREM WorkShrinks == Spec => []LeftOver /\ [][Shrinks]_vars
<1>1. IInv => LeftOver
  BY LeftOverHolds
<1>2. IInv /\ IInv' /\ [Next]_vars => [Shrinks]_vars
  BY CallShrinks, ReadShrinks, ReturnShrinks DEF Next
<1> QED  BY <1>1, <1>2, Inductive, PTL DEF Spec
=============================================================================
