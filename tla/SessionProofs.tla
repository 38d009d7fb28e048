---------------------------- MODULE SessionProofs ----------------------------
(***************************************************************************)
(* For any length of a DNS answer, with and without authentication and     *)
(* DNS: a session opens nothing for a client it does not trust, waits for  *)
(* nothing it is not registered for, and shows its client a SOCKS5 server. *)
(***************************************************************************)
EXTENDS Session, SequenceTheorems, TLAPS

\* What the properties need to be inductive: when a failure may have been
\* told, when the remote socket exists, and what the kernel can say of it.
Early == {"Accepted", "AuthRequested", "Authenticated", "ResolvingDomainName"}

Shape ==
    life = "live" =>
        /\ ender = "none"
        /\ Said(Failures) => state = "ConnectingRemote"
        /\ state \in Early =>
              watch["remote"] = {} /\ attempt = "none" /\ ~connected
        /\ state = "Connected" => connected /\ attempt = "ok"
        /\ state = "Associated" => attempt = "none"

IInv == /\ TypeOK
        /\ AuthGate
        /\ NoSilentWait
        /\ AddressIndexValid
        /\ Shape

LEMMA MaskFacts ==
    /\ ReadMask # WriteMask /\ ReadMask # {} /\ WriteMask # {}
    /\ "Read" \in ReadMask /\ "Read" \notin WriteMask /\ "Read" \notin {}
BY DEF ReadMask, WriteMask

LEMMA MessageFacts ==
    /\ {"method", "nomethod", "authok", "authbad", "success"} \subseteq Messages
    /\ Failures \subseteq Messages
    /\ \A m \in {"method", "nomethod", "authok", "authbad", "success"} : m \notin Failures
    /\ \A m \in Failures : m # "success"
    /\ {"CommandNotSupported", "AddrTypeNotSupported", "GeneralFailure",
        "Unreachable"} = Failures
BY DEF Messages, Failures

LEMMA SayFacts ==
    ASSUME sent \in Seq(Messages), NEW m \in Messages, Say(m)
    PROVE  /\ sent' \in Seq(Messages)
           /\ \A S : Said(S)' <=> (Said(S) \/ m \in S)
<1>1. /\ sent' \in Seq(Messages)
      /\ Len(sent') = Len(sent) + 1
      /\ \A i \in 1..Len(sent) : sent'[i] = sent[i]
      /\ sent'[Len(sent) + 1] = m
  BY AppendProperties DEF Say
<1>2. Len(sent) \in Nat /\ DOMAIN sent = 1..Len(sent) /\ DOMAIN sent' = 1..Len(sent)+1
  BY <1>1, LenProperties
<1> SUFFICES ASSUME NEW S PROVE Said(S)' <=> (Said(S) \/ m \in S)
  BY <1>1
<1>3. ASSUME Said(S)' PROVE Said(S) \/ m \in S
  <2>1. PICK i \in 1..Len(sent)+1 : sent'[i] \in S
    BY <1>2, <1>3 DEF Said
  <2>2. CASE i = Len(sent) + 1
    BY <1>1, <2>1, <2>2
  <2>3. CASE i # Len(sent) + 1
    <3>1. i \in 1..Len(sent)
      BY <1>2, <2>3
    <3> QED
      BY <1>1, <1>2, <2>1, <3>1 DEF Said
  <2> QED
    BY <2>2, <2>3
<1>4. ASSUME Said(S) PROVE Said(S)'
  <2>1. PICK i \in 1..Len(sent) : sent[i] \in S
    BY <1>2, <1>4 DEF Said
  <2>2. i \in 1..Len(sent)+1 /\ sent'[i] \in S
    BY <1>1, <1>2, <2>1
  <2> QED
    BY <1>2, <2>2 DEF Said
<1>5. ASSUME m \in S PROVE Said(S)'
  <2>1. Len(sent) + 1 \in 1..Len(sent)+1
    BY <1>2
  <2> QED
    BY <1>1, <1>2, <1>5, <2>1 DEF Said
<1> QED
  BY <1>3, <1>4, <1>5

LEMMA QuietFacts ==
    ASSUME Quiet
    PROVE  sent' = sent /\ \A S : Said(S)' <=> Said(S)
BY DEF Quiet, Said

LEMMA ListFacts ==
    \A l \in Lists : /\ \E n \in 0..MaxAddresses : DOMAIN l = 1..n /\ Len(l) = n
                     /\ l # <<>> => 1 \in DOMAIN l
                     /\ Len(l) \in Nat /\ Len(l) <= MaxAddresses /\ DOMAIN l = 1..Len(l)
<1> SUFFICES ASSUME NEW l \in Lists
             PROVE  /\ \E n \in 0..MaxAddresses : DOMAIN l = 1..n /\ Len(l) = n
                    /\ l # <<>> => 1 \in DOMAIN l
                    /\ Len(l) \in Nat /\ Len(l) <= MaxAddresses /\ DOMAIN l = 1..Len(l)
  OBVIOUS
<1>1. PICK n \in 0..MaxAddresses : l \in [1..n -> Families]
  BY DEF Lists
<1>2. n \in Nat /\ MaxAddresses \in Nat /\ n <= MaxAddresses
  BY SessionAssumption
<1>3. l \in Seq(Families) /\ Len(l) = n /\ DOMAIN l = 1..n
  BY <1>1, <1>2
<1>4. l # <<>> => n # 0
  BY <1>3, EmptySeq
<1> QED
  BY <1>2, <1>3, <1>4

LEMMA OneAddress == \A f \in Families : <<f>> \in Lists /\ <<f>> # <<>>
<1> SUFFICES ASSUME NEW f \in Families PROVE <<f>> \in Lists
  OBVIOUS
<1>1. 1 \in 0..MaxAddresses
  BY SessionAssumption
<1>2. <<f>> \in [1..1 -> Families]
  OBVIOUS
<1> QED
  BY <1>1, <1>2 DEF Lists

LEMMA InitIInv == Init => IInv
<1> SUFFICES ASSUME Init PROVE IInv
  OBVIOUS
<1>1. sent = <<>> /\ \A S : ~Said(S)
  BY DEF Init, Said
<1>2. /\ watch["client"] = ReadMask
      /\ \A k \in Kinds : k # "client" => watch[k] = {}
      /\ watch \in [Kinds -> {{}, ReadMask, WriteMask}]
  BY DEF Init, Kinds
<1>3. TypeOK
  <2>1. <<>> \in Lists
    <3>1. 0 \in 0..MaxAddresses
      BY SessionAssumption
    <3>2. <<>> \in [1..0 -> Families]
      OBVIOUS
    <3> QED
      BY <3>1, <3>2 DEF Lists
  <2>2. <<>> \in Seq(Messages) /\ 0 \in 0..(MaxAddresses + 1)
    BY SessionAssumption, EmptySeq
  <2> QED
    BY <1>2, <2>1, <2>2 DEF Init, TypeOK, States
<1>4. AuthGate
  BY <1>2 DEF Init, AuthGate
<1>5. NoSilentWait
  BY <1>1, <1>2 DEF Init, NoSilentWait, Kinds
<1>6. AddressIndexValid /\ Shape
  BY <1>1, <1>2 DEF Init, AddressIndexValid, Shape, Kinds
<1> QED
  BY <1>3, <1>4, <1>5, <1>6 DEF IInv

\* A session that is over keeps only its types and the gate.
LEMMA OverKeeps ==
    ASSUME IInv, life' # "live", TypeOK', UNCHANGED <<state, verified>>,
           \A k \in Kinds : watch[k] = {} => watch'[k] = {}
    PROVE  IInv'
BY DEF IInv, AuthGate, NoSilentWait, AddressIndexValid, Shape

LEMMA DropKeeps ==
    ASSUME IInv, NEW k \in Kinds, Drop(k), sent' \in Seq(Messages),
           command' \in {"none", "Connect", "UdpAssociate"}
    PROVE  IInv'
<1>1. watch' \in [Kinds -> {{}, ReadMask, WriteMask}] /\ \A j \in Kinds : watch'[j] = {}
  BY DEF Drop
<1>2. TypeOK'
  BY <1>1 DEF Drop, IInv, TypeOK, remote
<1> QED
  BY <1>1, <1>2, OverKeeps DEF Drop

LEMMA ThrowKeeps ==
    ASSUME IInv, Throw, command' \in {"none", "Connect", "UdpAssociate"}
    PROVE  IInv'
<1>1. TypeOK'
  BY DEF Throw, IInv, TypeOK, remote
<1> QED
  BY <1>1, OverKeeps DEF Throw

Commands == {"none", "Connect", "UdpAssociate"}

\* What TypeOK says, one variable at a time
LEMMA Types ==
    ASSUME IInv
    PROVE  /\ state \in States /\ command \in Commands
           /\ watch \in [Kinds -> {{}, ReadMask, WriteMask}]
           /\ addresses \in Lists /\ idx \in 0..(MaxAddresses + 1)
           /\ connected \in BOOLEAN /\ verified \in BOOLEAN
           /\ attempt \in {"none", "pending", "ok", "failed", "reset"}
           /\ sent \in Seq(Messages)
           /\ life \in {"live", "deleted", "terminated"}
           /\ ender \in Kinds \cup {"none"}
BY DEF IInv, TypeOK, Commands

\* The greeting is answered.
LEMMA GreetingKeeps ==
    ASSUME IInv, Greeting
    PROVE  IInv'
<1>1. sent \in Seq(Messages) /\ command' \in Commands
  BY Types DEF Greeting
<1>2. CASE Drop("client") /\ (Say("nomethod") \/ Quiet)
  <2>1. sent' \in Seq(Messages)
    BY <1>1, <1>2, SayFacts, QuietFacts, MessageFacts
  <2> QED
    BY <1>1, <1>2, <2>1, DropKeeps DEF Commands, Kinds
<1>3. CASE /\ Keep
           /\ Say("method")
           /\ state' = AfterGreeting
           /\ UNCHANGED <<watch, remote, verified>>
  <2>1. sent' \in Seq(Messages) /\ \A S : Said(S)' <=> (Said(S) \/ "method" \in S)
    BY <1>1, <1>3, SayFacts, MessageFacts
  <2>2. (Said(Failures)' <=> Said(Failures)) /\ (Said({"success"})' <=> Said({"success"}))
    BY <2>1, MessageFacts
  <2>3. life = "live" /\ state = "Accepted"
    BY DEF Greeting, Event
  <2>4. state' \in {"AuthRequested", "Authenticated"} /\ (AuthRequired => state' = "AuthRequested")
    BY <1>3 DEF AfterGreeting
  <2>5. UNCHANGED <<life, ender, watch, addresses, idx, connected, attempt, verified>>
    BY <1>3 DEF Keep, remote
  <2>6. TypeOK'
    BY <1>1, <2>1, <2>4, <2>5 DEF IInv, TypeOK, States, Commands
  <2>7. AuthGate'
    BY <2>3, <2>4, <2>5 DEF IInv, AuthGate
  <2>8. NoSilentWait'
    BY <2>2, <2>3, <2>4, <2>5 DEF IInv, NoSilentWait
  <2>9. AddressIndexValid' /\ Shape'
    BY <2>2, <2>3, <2>4, <2>5 DEF IInv, AddressIndexValid, Shape, Early
  <2> QED
    BY <2>6, <2>7, <2>8, <2>9 DEF IInv
<1> QED
  BY <1>2, <1>3 DEF Greeting

\* The credentials are checked.
LEMMA HandleAuthKeeps ==
    ASSUME IInv, HandleAuth
    PROVE  IInv'
<1>1. sent \in Seq(Messages) /\ command' \in Commands
  BY Types DEF HandleAuth
<1>2. CASE Drop("client") /\ (Say("authbad") \/ Quiet)
  <2>1. sent' \in Seq(Messages)
    BY <1>1, <1>2, SayFacts, QuietFacts, MessageFacts
  <2> QED
    BY <1>1, <1>2, <2>1, DropKeeps DEF Commands, Kinds
<1>3. CASE /\ Keep
           /\ Say("authok")
           /\ state' = "Authenticated"
           /\ verified' = TRUE
           /\ UNCHANGED <<watch, remote>>
  <2>1. sent' \in Seq(Messages) /\ \A S : Said(S)' <=> (Said(S) \/ "authok" \in S)
    BY <1>1, <1>3, SayFacts, MessageFacts
  <2>2. (Said(Failures)' <=> Said(Failures)) /\ (Said({"success"})' <=> Said({"success"}))
    BY <2>1, MessageFacts
  <2>3. life = "live" /\ state = "AuthRequested"
    BY DEF HandleAuth, Event
  <2>5. UNCHANGED <<life, ender, watch, addresses, idx, connected, attempt>>
    BY <1>3 DEF Keep, remote
  <2>6. TypeOK'
    BY <1>1, <1>3, <2>1, <2>5 DEF IInv, TypeOK, States, Commands
  <2>7. AuthGate'
    BY <1>3 DEF AuthGate
  <2>8. NoSilentWait'
    BY <1>3, <2>2, <2>3, <2>5 DEF IInv, NoSilentWait
  <2>9. AddressIndexValid' /\ Shape'
    BY <1>3, <2>2, <2>3, <2>5 DEF IInv, AddressIndexValid, Shape, Early
  <2> QED
    BY <2>6, <2>7, <2>8, <2>9 DEF IInv
<1> QED
  BY <1>2, <1>3 DEF HandleAuth

\* The request is taken up, by the handler of the client or the DNS socket.
LEMMA DoCommandKeeps ==
    ASSUME IInv, NEW k \in Kinds, NEW what \in Commands, NEW list \in Lists,
           life = "live", state \in {"Authenticated", "ResolvingDomainName"},
           AuthRequired => verified,
           list # <<>>, command' \in Commands,
           DoCommand(k, what, list, {})
    PROVE  IInv'
<1>1. sent \in Seq(Messages) /\ watch \in [Kinds -> {{}, ReadMask, WriteMask}]
  BY Types
<1>2. /\ watch["client"] = ReadMask /\ watch["remote"] = {}
      /\ ~Said(Failures) /\ ~Said({"success"})
      /\ attempt = "none" /\ ~connected /\ ender = "none"
  BY DEF IInv, NoSilentWait, Shape, Early
<1>3. 1 \in DOMAIN list
  BY ListFacts
<1>4. CASE Throw
  BY <1>4, ThrowKeeps DEF Commands
<1>5. CASE ConnectRemote(list, {})
  <2>1. /\ state' = "ConnectingRemote" /\ addresses' = list /\ idx' = 1
        /\ UNCHANGED <<life, ender, connected, verified>>
    BY <1>5 DEF ConnectRemote, Keep
  <2>2. 1 \in 0..(MaxAddresses + 1)
    BY SessionAssumption
  <2>3. AuthGate' /\ AddressIndexValid'
    BY <1>3, <2>1 DEF AuthGate, AddressIndexValid
  <2>4. CASE /\ attempt' = "pending"
             /\ watch' = [watch EXCEPT !["remote"] = WriteMask, !["dns"] = {}]
             /\ Quiet
    <3>1. sent' \in Seq(Messages) /\ ~Said(Failures)' /\ ~Said({"success"})'
      BY <1>1, <1>2, <2>4, QuietFacts
    <3>2. /\ watch' \in [Kinds -> {{}, ReadMask, WriteMask}]
          /\ watch'["remote"] = WriteMask /\ watch'["dns"] = {}
          /\ watch'["client"] = ReadMask
      BY <1>1, <1>2, <2>4 DEF Kinds
    <3>3. TypeOK'
      BY <2>1, <2>2, <2>4, <3>1, <3>2 DEF IInv, TypeOK, States, Commands
    <3>4. NoSilentWait' /\ Shape'
      BY <1>2, <2>1, <2>4, <3>1, <3>2, MaskFacts DEF NoSilentWait, Shape, Early
    <3> QED
      BY <2>3, <3>3, <3>4 DEF IInv
  <2>5. CASE /\ attempt' = "failed"
             /\ watch' = [watch EXCEPT !["dns"] = {}]
             /\ Say("GeneralFailure")
    <3>1. sent' \in Seq(Messages) /\ Said(Failures)' /\ ~Said({"success"})'
      <4>1. /\ "GeneralFailure" \in Messages /\ "GeneralFailure" \in Failures
            /\ "GeneralFailure" \notin {"success"}
        BY MessageFacts
      <4>2. sent' \in Seq(Messages) /\ \A S : Said(S)' <=> (Said(S) \/ "GeneralFailure" \in S)
        BY <1>1, <2>5, <4>1, SayFacts
      <4> QED
        BY <1>2, <4>1, <4>2
    <3>2. /\ watch' \in [Kinds -> {{}, ReadMask, WriteMask}]
          /\ watch'["remote"] = {} /\ watch'["dns"] = {}
          /\ watch'["client"] = ReadMask
      BY <1>1, <1>2, <2>5 DEF Kinds
    <3>3. TypeOK'
      BY <2>1, <2>2, <2>5, <3>1, <3>2 DEF IInv, TypeOK, States, Commands
    <3>4. NoSilentWait' /\ Shape'
      BY <1>2, <2>1, <2>5, <3>1, <3>2, MaskFacts DEF NoSilentWait, Shape, Early
    <3> QED
      BY <2>3, <3>3, <3>4 DEF IInv
  <2> QED
    BY <1>5, <2>4, <2>5 DEF ConnectRemote
<1>6. CASE Associate(k, {})
  <2>1. CASE Drop(k) /\ Quiet
    BY <1>1, <2>1, DropKeeps, QuietFacts DEF Commands
  <2>2. CASE ~(Drop(k) /\ Quiet)
    <3>1. /\ state' = "Associated" /\ Say("success") /\ connected' = TRUE
          /\ watch' = [watch EXCEPT !["remote"] = ReadMask, !["udp"] = ReadMask, !["dns"] = {}]
          /\ UNCHANGED <<life, ender, addresses, idx, attempt, verified>>
      BY <1>6, <2>2 DEF Associate, Keep
    <3>2. sent' \in Seq(Messages) /\ ~Said(Failures)' /\ Said({"success"})'
      <4>1. "success" \in Messages /\ "success" \notin Failures
        BY MessageFacts
      <4>2. sent' \in Seq(Messages) /\ \A S : Said(S)' <=> (Said(S) \/ "success" \in S)
        BY <1>1, <3>1, <4>1, SayFacts
      <4> QED
        BY <1>2, <4>1, <4>2
    <3>3. /\ watch' \in [Kinds -> {{}, ReadMask, WriteMask}]
          /\ watch'["remote"] = ReadMask /\ watch'["dns"] = {} /\ watch'["udp"] = ReadMask
          /\ watch'["client"] = ReadMask
      BY <1>1, <1>2, <3>1 DEF Kinds
    <3>4. TypeOK'
      BY <3>1, <3>2, <3>3 DEF IInv, TypeOK, States, Commands
    <3>5. AuthGate' /\ AddressIndexValid'
      BY <3>1 DEF AuthGate, AddressIndexValid
    <3>6. NoSilentWait' /\ Shape'
      BY <1>2, <3>1, <3>2, <3>3, MaskFacts DEF NoSilentWait, Shape, Early
    <3> QED
      BY <3>4, <3>5, <3>6 DEF IInv
  <2> QED
    BY <2>1, <2>2
<1> QED
  BY <1>4, <1>5, <1>6 DEF DoCommand

LEMMA RequestKeeps ==
    ASSUME IInv, NEW what \in {"Connect", "UdpAssociate"}, Request(what)
    PROVE  IInv'
<1>1. /\ sent \in Seq(Messages) /\ command' \in Commands /\ what \in Commands
      /\ watch \in [Kinds -> {{}, ReadMask, WriteMask}]
      /\ life = "live" /\ state = "Authenticated"
  BY Types DEF Request, Commands, Event
<1>2. AuthRequired => verified
  BY <1>1 DEF IInv, AuthGate
<1>3. ASSUME NEW f \in Families, DoCommand("client", what, <<f>>, {})
      PROVE  IInv'
  <2>1. <<f>> \in Lists /\ <<f>> # <<>> /\ "client" \in Kinds
    BY OneAddress DEF Kinds
  <2> QED
    BY <1>1, <1>2, <1>3, <2>1, DoCommandKeeps
<1>4. CASE Drop("client") /\ Say("AddrTypeNotSupported")
  <2>1. "AddrTypeNotSupported" \in Messages
    BY DEF Messages, Failures
  <2>2. sent' \in Seq(Messages)
    BY <1>1, <1>4, <2>1, SayFacts
  <2> QED
    BY <1>1, <1>4, <2>2, DropKeeps DEF Commands, Kinds
<1>5. CASE /\ Keep
           /\ state' = "ResolvingDomainName"
           /\ watch' = [watch EXCEPT !["dns"] = ReadMask]
           /\ UNCHANGED <<remote, sent, verified>>
  <2>1. UNCHANGED <<life, ender, sent, addresses, idx, connected, attempt, verified>>
    BY <1>5 DEF Keep, remote
  <2>2. /\ watch' \in [Kinds -> {{}, ReadMask, WriteMask}]
        /\ watch'["dns"] = ReadMask
        /\ \A k \in Kinds : k # "dns" => watch'[k] = watch[k]
    BY <1>1, <1>5 DEF Kinds
  <2>3. (Said(Failures)' <=> Said(Failures)) /\ (Said({"success"})' <=> Said({"success"}))
    BY <2>1 DEF Said
  <2>4. TypeOK'
    BY <1>1, <1>5, <2>1, <2>2 DEF IInv, TypeOK, States, Commands
  <2>5. AuthGate' /\ AddressIndexValid'
    BY <1>2, <1>5, <2>1 DEF AuthGate, AddressIndexValid
  <2>6. NoSilentWait'
    BY <1>1, <1>5, <2>1, <2>2, <2>3, MaskFacts DEF IInv, NoSilentWait, Kinds
  <2>7. Shape'
    BY <1>1, <1>5, <2>1, <2>2, <2>3 DEF IInv, Shape, Early, Kinds
  <2> QED
    BY <2>4, <2>5, <2>6, <2>7 DEF IInv
<1> QED
  BY <1>3, <1>4, <1>5 DEF Request

LEMMA DnsAnswerKeeps ==
    ASSUME IInv, DnsAnswer
    PROVE  IInv'
<1>1. /\ sent \in Seq(Messages) /\ command' \in Commands /\ command \in Commands
      /\ life = "live" /\ "Read" \in watch["dns"] /\ "dns" \in Kinds
  BY Types DEF DnsAnswer, Event, Kinds
<1>2. state = "ResolvingDomainName"
  BY <1>1 DEF IInv, NoSilentWait
<1>3. AuthRequired => verified
  BY <1>1, <1>2 DEF IInv, AuthGate
<1>4. CASE Drop("dns") /\ Quiet
  BY <1>1, <1>4, DropKeeps, QuietFacts DEF Commands
<1>5. ASSUME NEW list \in Lists \ {<<>>}, DoCommand("dns", command, list, {})
      PROVE  IInv'
  BY <1>1, <1>2, <1>3, <1>5, DoCommandKeeps
<1> QED
  BY <1>4, <1>5 DEF DnsAnswer

\* Handlers that only end the session
LEMMA EndKeeps ==
    ASSUME IInv, EarlyData \/ RefuseCommand \/ \E k \in Kinds : SocketEnds(k)
    PROVE  IInv'
<1>1. sent \in Seq(Messages) /\ command \in Commands
  BY Types
<1>2. CASE EarlyData
  BY <1>1, <1>2, DropKeeps, QuietFacts DEF EarlyData, Commands, Kinds
<1>3. CASE RefuseCommand
  <2>1. "CommandNotSupported" \in Messages
    BY DEF Messages, Failures
  <2>2. sent' \in Seq(Messages)
    BY <1>1, <1>3, <2>1, SayFacts DEF RefuseCommand
  <2> QED
    BY <1>1, <1>3, <2>2, DropKeeps DEF RefuseCommand, Commands, Kinds
<1>4. ASSUME NEW k \in Kinds, SocketEnds(k) PROVE IInv'
  BY <1>1, <1>4, DropKeeps, QuietFacts DEF SocketEnds, Commands
<1> QED
  BY <1>2, <1>3, <1>4

LEMMA KernelKeeps ==
    ASSUME IInv, Settle \/ ResetEarly
    PROVE  IInv'
<1>1. /\ UNCHANGED <<life, state, command, watch, addresses, idx, connected, sent,
                     verified, ender>>
      /\ attempt' \in {"none", "pending", "ok", "failed", "reset"} /\ attempt' # "none"
      /\ attempt = "pending" \/ (attempt = "ok" /\ ~connected)
      /\ life = "live"
  BY DEF Settle, ResetEarly
<1>2. TypeOK'
  BY <1>1 DEF IInv, TypeOK
<1>3. (Said(Failures)' <=> Said(Failures)) /\ (Said({"success"})' <=> Said({"success"}))
  BY <1>1 DEF Said
<1>4. AuthGate' /\ AddressIndexValid'
  BY <1>1 DEF IInv, AuthGate, AddressIndexValid
<1>5. NoSilentWait'
  BY <1>1, <1>3 DEF IInv, NoSilentWait
<1>6. Shape'
  BY <1>1, <1>3 DEF IInv, Shape
<1> QED
  BY <1>2, <1>4, <1>5, <1>6 DEF IInv

\* A session whose remote socket is reported has not been answered yet.
LEMMA ConnectingFacts ==
    ASSUME IInv, Connecting
    PROVE  /\ life = "live" /\ state = "ConnectingRemote" /\ ender = "none"
           /\ ~Said(Failures) /\ ~Said({"success"})
           /\ watch["remote"] = WriteMask /\ watch["client"] = ReadMask
           /\ watch["dns"] = {}
           /\ AuthRequired => verified
           /\ idx \in DOMAIN addresses
           /\ UNCHANGED command
<1>1. life = "live" /\ state = "ConnectingRemote" /\ watch["remote"] # {} /\ UNCHANGED command
  BY DEF Connecting, Pollable
<1>2. ~Said(Failures)
  BY <1>1 DEF IInv, NoSilentWait
<1> QED
  BY <1>1, <1>2 DEF IInv, NoSilentWait, AuthGate, AddressIndexValid, Shape

LEMMA ProgressKeeps ==
    ASSUME IInv, RemoteProgress
    PROVE  IInv'
<1>0. Connecting
  BY DEF RemoteProgress, RemoteCloses, TryConnectNext, CouldConnect
<1>1. /\ life = "live" /\ state = "ConnectingRemote" /\ ender = "none"
      /\ ~Said(Failures) /\ ~Said({"success"})
      /\ watch["remote"] = WriteMask /\ watch["client"] = ReadMask
      /\ watch["dns"] = {}
      /\ AuthRequired => verified
      /\ idx \in DOMAIN addresses
      /\ UNCHANGED command
  BY <1>0, ConnectingFacts
<1>2. /\ sent \in Seq(Messages) /\ command' \in Commands
      /\ watch \in [Kinds -> {{}, ReadMask, WriteMask}]
      /\ addresses \in Lists /\ "remote" \in Kinds
  BY <1>1, Types DEF Kinds
<1>3. CASE RemoteCloses
  BY <1>2, <1>3, DropKeeps, QuietFacts DEF RemoteCloses, Commands
<1>4. CASE TryConnectNext
  <2>1. ASSUME NEW m \in {"Unreachable", "GeneralFailure"}, Drop("remote"), Say(m)
        PROVE  IInv'
    <3>1. m \in Messages
      BY <2>1, MessageFacts
    <3>2. sent' \in Seq(Messages)
      BY <1>2, <2>1, <3>1, SayFacts
    <3> QED
      BY <1>2, <2>1, <3>2, DropKeeps DEF Commands
  <2>2. CASE /\ ~Exhausted
             /\ idx' = idx + 1
             /\ attempt' = "pending"
             /\ Keep
             /\ UNCHANGED <<state, watch, addresses, connected, sent, verified>>
    <3>1. UNCHANGED <<life, ender>>
      BY <2>2 DEF Keep
    <3>2. idx' \in DOMAIN addresses /\ idx' \in 0..(MaxAddresses + 1)
      <4>1. /\ Len(addresses) \in Nat /\ Len(addresses) <= MaxAddresses
            /\ DOMAIN addresses = 1..Len(addresses)
        BY <1>2, ListFacts
      <4> QED
        BY <1>1, <2>2, <4>1, SessionAssumption DEF Exhausted
    <3>3. TypeOK'
      BY <1>1, <1>2, <2>2, <3>1, <3>2 DEF IInv, TypeOK
    <3>4. ~Said(Failures)' /\ ~Said({"success"})'
      BY <1>1, <2>2 DEF Said
    <3>5. AuthGate' /\ AddressIndexValid'
      BY <1>1, <2>2, <3>1, <3>2 DEF AuthGate, AddressIndexValid
    <3>6. NoSilentWait' /\ Shape'
      BY <1>1, <2>2, <3>1, <3>4 DEF NoSilentWait, Shape, Early
    <3> QED
      BY <3>3, <3>5, <3>6 DEF IInv
  <2> QED
    BY <1>4, <2>1, <2>2 DEF TryConnectNext, GiveUp
<1>5. CASE CouldConnect
  <2>1. CASE Throw
    BY <1>2, <2>1, ThrowKeeps DEF Commands
  <2>2. CASE /\ Keep
             /\ RemoteConnected
             /\ connected' = TRUE
             /\ addresses' = <<>>
             /\ Say("success")
             /\ UNCHANGED <<idx, attempt, verified>>
    <3>1. /\ UNCHANGED <<life, ender>> /\ state' = "Connected"
          /\ watch' = [watch EXCEPT !["remote"] = ReadMask]
      BY <2>2 DEF Keep, RemoteConnected
    <3>2. attempt = "ok"
      <4>1. Condition \cap {"Closed", "Error"} = {}
        BY <1>5 DEF CouldConnect
      <4>2. Condition # {}
        BY <1>0 DEF Connecting, Pollable, Reported
      <4>3. attempt \in {"none", "pending", "ok", "failed", "reset"}
        BY Types
      <4> QED
        BY <4>1, <4>2, <4>3 DEF Condition
    <3>3. /\ watch' \in [Kinds -> {{}, ReadMask, WriteMask}]
          /\ watch'["remote"] = ReadMask /\ watch'["dns"] = {}
          /\ watch'["client"] = ReadMask
      BY <1>1, <1>2, <3>1 DEF Kinds
    <3>4. sent' \in Seq(Messages) /\ ~Said(Failures)' /\ Said({"success"})'
      <4>1. "success" \in Messages /\ "success" \notin Failures
        BY MessageFacts
      <4>2. sent' \in Seq(Messages) /\ \A S : Said(S)' <=> (Said(S) \/ "success" \in S)
        BY <1>2, <2>2, <4>1, SayFacts
      <4> QED
        BY <1>1, <4>1, <4>2
    <3>5. addresses' \in Lists
      <4>1. 0 \in 0..MaxAddresses /\ <<>> \in [1..0 -> Families]
        BY SessionAssumption
      <4> QED
        BY <2>2, <4>1 DEF Lists
    <3>6. TypeOK'
      BY <1>2, <2>2, <3>1, <3>3, <3>4, <3>5 DEF IInv, TypeOK, States, Commands
    <3>7. AuthGate' /\ AddressIndexValid'
      BY <1>1, <2>2, <3>1 DEF AuthGate, AddressIndexValid
    <3>8. NoSilentWait' /\ Shape'
      BY <1>1, <2>2, <3>1, <3>2, <3>3, <3>4, MaskFacts DEF NoSilentWait, Shape, Early
    <3> QED
      BY <3>6, <3>7, <3>8 DEF IInv
  <2> QED
    BY <1>5, <2>1, <2>2 DEF CouldConnect
<1> QED
  BY <1>3, <1>4, <1>5 DEF RemoteProgress

LEMMA NextIInv == IInv /\ [Next]_vars => IInv'
<1> SUFFICES ASSUME IInv, [Next]_vars PROVE IInv'
  OBVIOUS
<1>1. CASE UNCHANGED vars
  BY <1>1 DEF vars, IInv, TypeOK, AuthGate, NoSilentWait, AddressIndexValid, Shape, Said
<1>2. CASE Next
  BY <1>2, GreetingKeeps, HandleAuthKeeps, RequestKeeps, DnsAnswerKeeps, EndKeeps,
     KernelKeeps, ProgressKeeps DEF Next
<1> QED
  BY <1>1, <1>2

LEMMA Invariant == Spec => []IInv
BY InitIInv, NextIInv, PTL DEF Spec

\* TypeOK: whatever the client and the DNS server send, for answers of any length.
THEOREM SessionTypeOK == Spec => []TypeOK
<1>1. IInv => TypeOK
  BY DEF IInv
<1> QED
  BY <1>1, Invariant, PTL

\* AuthGate: _request_auth() and _handle_auth() are the only way to a DNS query,
\* a connection or an association.
THEOREM SessionAuthGate == Spec => []AuthGate
<1>1. IInv => AuthGate
  BY DEF IInv
<1> QED
  BY <1>1, Invariant, PTL

\* NoSilentWait: after every handler the session is registered for the event
\* its state waits for, and has told the client exactly what there is to tell.
THEOREM SessionNoSilentWait == Spec => []NoSilentWait
<1>1. IInv => NoSilentWait
  BY DEF IInv
<1> QED
  BY <1>1, Invariant, PTL

\* AddressIndexValid: try_connect_next() and could_connect() index the address
\* list within its bounds, for answers of any length.
THEOREM SessionAddressIndexValid == Spec => []AddressIndexValid
<1>1. IInv => AddressIndexValid
  BY DEF IInv
<1> QED
  BY <1>1, Invariant, PTL

LEMMA AnsweredStep ==
    ~HupOnFailure /\ IInv /\ ConnectFailureAnswered /\ [Next]_vars
        => ConnectFailureAnswered'
<1> SUFFICES ASSUME ~HupOnFailure, IInv, ConnectFailureAnswered, [Next]_vars,
                    ender' = "remote", attempt' = "failed"
             PROVE  Said(Failures)'
  BY DEF ConnectFailureAnswered
<1>0. life = "live" => ender = "none"
  BY DEF IInv, Shape
<1>1. CASE UNCHANGED vars
  BY <1>1 DEF vars, ConnectFailureAnswered, Said
<1>2. ASSUME life = "live", UNCHANGED ender PROVE FALSE
  BY <1>0, <1>2
<1>3. ASSUME NEW k \in Kinds, Drop(k) PROVE k = "remote" /\ attempt = "failed"
  BY <1>3 DEF Drop, remote
<1>4. CASE Greeting
  BY <1>2, <1>3, <1>4 DEF Greeting, Event, Keep, Kinds
<1>5. CASE HandleAuth
  BY <1>2, <1>3, <1>5 DEF HandleAuth, Event, Keep, Kinds
<1>6. CASE EarlyData
  BY <1>3, <1>6 DEF EarlyData, Kinds
<1>7. CASE RefuseCommand
  BY <1>3, <1>7 DEF RefuseCommand, Kinds
<1>8. ASSUME NEW k \in {"client", "dns"}, NEW what, NEW list, life = "live",
             DoCommand(k, what, list, {})
      PROVE  FALSE
  <2>1. k \in Kinds /\ k # "remote"
    BY DEF Kinds
  <2> QED
    BY <1>2, <1>3, <1>8, <2>1 DEF DoCommand, ConnectRemote, Associate, Throw, Keep
<1>9. ASSUME NEW what \in {"Connect", "UdpAssociate"}, Request(what) PROVE FALSE
  BY <1>2, <1>3, <1>8, <1>9 DEF Request, Event, Keep, Kinds
<1>10. CASE DnsAnswer
  BY <1>2, <1>3, <1>8, <1>10 DEF DnsAnswer, Event, Kinds
<1>11. CASE Settle \/ ResetEarly
  BY <1>2, <1>11 DEF Settle, ResetEarly
<1>12. CASE RemoteCloses
  <2>1. attempt = "failed"
    BY <1>3, <1>12 DEF RemoteCloses, Kinds
  <2>2. "Closed" \notin Condition
    BY <2>1 DEF Condition
  <2> QED
    BY <1>12, <2>2 DEF RemoteCloses
<1>13. CASE TryConnectNext
  <2>1. sent \in Seq(Messages) /\ life = "live"
    BY <1>13, Types DEF TryConnectNext, Connecting
  <2>2. ASSUME NEW m \in Failures, Say(m) PROVE Said(Failures)'
    <3>1. m \in Messages
      BY MessageFacts
    <3> QED
      BY <2>1, <2>2, <3>1, SayFacts
  <2>3. "Unreachable" \in Failures /\ "GeneralFailure" \in Failures
    BY DEF Failures
  <2> QED
    BY <1>2, <1>13, <2>1, <2>2, <2>3 DEF TryConnectNext, GiveUp, Keep
<1>14. CASE CouldConnect
  BY <1>2, <1>14 DEF CouldConnect, Connecting, Throw, Keep
<1>15. ASSUME NEW k \in Kinds, SocketEnds(k) PROVE FALSE
  <2>1. k = "remote" /\ attempt = "failed" /\ state # "ConnectingRemote" /\ life = "live"
    BY <1>3, <1>15 DEF SocketEnds
  <2>2. state \in Early \cup {"Connected", "Associated"}
    BY <2>1, Types DEF States, Early
  <2> QED
    BY <2>1, <2>2 DEF IInv, Shape
<1> QED
  BY <1>1, <1>4, <1>5, <1>6, <1>7, <1>9, <1>10, <1>11, <1>12, <1>13, <1>14, <1>15
     DEF Next, RemoteProgress

\* ConnectFailureAnswered: where a failed connect() is not reported with HUP,
\* try_connect_next() goes on or replies, for any number of addresses.
THEOREM SessionConnectFailureAnswered ==
    ~HupOnFailure /\ Spec => []ConnectFailureAnswered
<1> DEFINE J == ~HupOnFailure /\ IInv /\ ConnectFailureAnswered
<1>1. (~HupOnFailure) => (~HupOnFailure)'
  OBVIOUS
<1>2. J /\ [Next]_vars => J'
  BY <1>1, NextIInv, AnsweredStep
<1>3. ~HupOnFailure /\ Init => J
  BY InitIInv DEF Init, ConnectFailureAnswered
<1>4. J => ConnectFailureAnswered
  OBVIOUS
<1> QED
  BY <1>2, <1>3, <1>4, PTL DEF Spec


-----------------------------------------------------------------------------
(***************************************************************************)
(* Every step brings a session nearer to its relay or its end.             *)
(***************************************************************************)

\* What may still happen to the current connect(): the kernel settles it, its
\* peer resets it, the session looks at it.
AttemptLeft == CASE attempt = "pending" -> 3 [] attempt = "ok" -> 2 [] OTHER -> 1

StepsLeft ==
    IF life # "live" THEN 0
    ELSE CASE state = "Accepted"            -> 4 * MaxAddresses + 4
           [] state = "AuthRequested"       -> 4 * MaxAddresses + 3
           [] state = "Authenticated"       -> 4 * MaxAddresses + 2
           [] state = "ResolvingDomainName" -> 4 * MaxAddresses + 1
           [] state = "ConnectingRemote"    ->
                 4 * (MaxAddresses - idx) + AttemptLeft + 1
           [] OTHER                         -> 1

\* What is left of n addresses and of the attempt to connect to one of them
LEMMA FewerLeft ==
    ASSUME NEW n \in Nat, NEW i \in Nat, NEW a \in 1..3, NEW b \in 1..3,
           NEW j \in Nat, (j = i + 1) \/ (j = i /\ b < a),
           NEW s, s = 4 * (n - i) + a + 1,
           NEW t, t = 4 * (n - j) + b + 1
    PROVE  t < s
OBVIOUS

LEMMA AllLeft ==
    ASSUME NEW n \in Nat, NEW b \in 1..3, NEW s \in Nat, s >= 4 * n + 1
    PROVE  4 * (n - 1) + b + 1 < s
OBVIOUS

LEMMA AttemptFacts ==
    /\ AttemptLeft \in 1..3
    /\ attempt = "pending" => AttemptLeft = 3
    /\ attempt = "ok" => AttemptLeft = 2
    /\ attempt \in {"reset", "failed"} => AttemptLeft = 1
BY DEF AttemptLeft

LEMMA AttemptFactsPrime ==
    /\ AttemptLeft' \in 1..3
    /\ attempt' = "pending" => AttemptLeft' = 3
    /\ attempt' = "ok" => AttemptLeft' = 2
    /\ attempt' \in {"reset", "failed"} => AttemptLeft' = 1
BY DEF AttemptLeft

LEMMA LeftFacts ==
    /\ life # "live" => StepsLeft = 0
    /\ life = "live" =>
          /\ state = "Accepted" => StepsLeft = 4 * MaxAddresses + 4
          /\ state = "AuthRequested" => StepsLeft = 4 * MaxAddresses + 3
          /\ state = "Authenticated" => StepsLeft = 4 * MaxAddresses + 2
          /\ state = "ResolvingDomainName" => StepsLeft = 4 * MaxAddresses + 1
          /\ state = "ConnectingRemote" =>
                StepsLeft = 4 * (MaxAddresses - idx) + AttemptLeft + 1
          /\ state \in {"Connected", "Associated"} => StepsLeft = 1
BY DEF StepsLeft

LEMMA LeftFactsPrime ==
    /\ life' # "live" => StepsLeft' = 0
    /\ life' = "live" =>
          /\ state' = "Accepted" => StepsLeft' = 4 * MaxAddresses + 4
          /\ state' = "AuthRequested" => StepsLeft' = 4 * MaxAddresses + 3
          /\ state' = "Authenticated" => StepsLeft' = 4 * MaxAddresses + 2
          /\ state' = "ResolvingDomainName" => StepsLeft' = 4 * MaxAddresses + 1
          /\ state' = "ConnectingRemote" =>
                StepsLeft' = 4 * (MaxAddresses - idx') + AttemptLeft' + 1
          /\ state' \in {"Connected", "Associated"} => StepsLeft' = 1
BY DEF StepsLeft

\* A live session has a step left at least.
LEMMA LiveLeft ==
    ASSUME IInv
    PROVE  StepsLeft \in Nat /\ (life = "live" => StepsLeft >= 1)
<1>1. MaxAddresses \in Nat /\ MaxAddresses >= 1
  BY SessionAssumption
<1>2. ASSUME life = "live", state = "ConnectingRemote"
      PROVE  idx \in 1..MaxAddresses
  <2>1. /\ Len(addresses) \in Nat /\ Len(addresses) <= MaxAddresses
        /\ DOMAIN addresses = 1..Len(addresses)
    BY Types, ListFacts
  <2> QED
    BY <1>1, <1>2, <2>1 DEF IInv, AddressIndexValid
<1>3. state \in States
  BY Types
<1> QED
  BY <1>1, <1>2, <1>3, LeftFacts, AttemptFacts DEF States

LEMMA OverLess ==
    ASSUME IInv, life = "live", life' # "live"
    PROVE  StepsLeft' < StepsLeft
BY LiveLeft, LeftFactsPrime

LEMMA CommandLess ==
    ASSUME IInv, NEW k, NEW what, NEW list,
           life = "live", state \in {"Authenticated", "ResolvingDomainName"},
           DoCommand(k, what, list, {})
    PROVE  StepsLeft' < StepsLeft
<1>1. MaxAddresses \in Nat /\ MaxAddresses >= 1
  BY SessionAssumption
<1>2. StepsLeft >= 4 * MaxAddresses + 1 /\ StepsLeft \in Nat
  BY <1>1, LeftFacts, LiveLeft
<1>3. CASE life' # "live"
  BY <1>3, OverLess
<1>4. CASE life' = "live"
  <2>1. CASE state' = "ConnectingRemote" /\ idx' = 1
    <3>1. StepsLeft' = 4 * (MaxAddresses - 1) + AttemptLeft' + 1
      BY <1>4, <2>1, LeftFactsPrime
    <3>2. AttemptLeft' \in 1..3
      BY AttemptFactsPrime
    <3> QED
      <4>1. 4 * (MaxAddresses - 1) + AttemptLeft' + 1 < StepsLeft
        BY <1>1, <1>2, <3>2, AllLeft
      <4> QED
        BY <3>1, <4>1, Zenon
  <2>2. CASE state' = "Associated"
    BY <1>1, <1>2, <1>4, <2>2, LeftFactsPrime
  <2> QED
    BY <1>4, <2>1, <2>2 DEF DoCommand, ConnectRemote, Associate, Throw, Drop
<1> QED
  BY <1>3, <1>4

LEMMA ClientLess ==
    ASSUME IInv,
           \/ Greeting \/ HandleAuth \/ EarlyData \/ RefuseCommand \/ DnsAnswer
           \/ \E what \in {"Connect", "UdpAssociate"} : Request(what)
           \/ \E k \in Kinds : SocketEnds(k)
    PROVE  StepsLeft' < StepsLeft
<1>1. MaxAddresses \in Nat /\ life = "live"
  BY SessionAssumption
     DEF Greeting, HandleAuth, EarlyData, RefuseCommand, DnsAnswer, Request,
         SocketEnds, Event
<1>2. CASE life' # "live"
  BY <1>1, <1>2, OverLess
<1>3. CASE life' = "live"
  <2>0. ASSUME NEW k, Drop(k) PROVE FALSE
    BY <1>3, <2>0 DEF Drop
  <2>1. CASE Greeting
    <3>1. state = "Accepted" /\ state' \in {"AuthRequested", "Authenticated"}
      BY <2>0, <2>1 DEF Greeting, AfterGreeting
    <3> QED
      BY <1>1, <1>3, <3>1, LeftFacts, LeftFactsPrime
  <2>2. CASE HandleAuth
    <3>1. state = "AuthRequested" /\ state' = "Authenticated"
      BY <2>0, <2>2 DEF HandleAuth
    <3> QED
      BY <1>1, <1>3, <3>1, LeftFacts, LeftFactsPrime
  <2>3. ASSUME NEW what \in {"Connect", "UdpAssociate"}, Request(what)
        PROVE  StepsLeft' < StepsLeft
    <3>1. state = "Authenticated"
      BY <2>3 DEF Request
    <3>2. CASE \E f \in Families : DoCommand("client", what, <<f>>, {})
      BY <1>1, <3>1, <3>2, CommandLess
    <3>3. CASE state' = "ResolvingDomainName"
      BY <1>1, <1>3, <3>1, <3>3, LeftFacts, LeftFactsPrime
    <3> QED
      BY <2>0, <2>3, <3>2, <3>3 DEF Request
  <2>4. CASE DnsAnswer
    <3>1. watch["dns"] # {}
      BY <2>4, MaskFacts DEF DnsAnswer, Event
    <3>2. state = "ResolvingDomainName"
      BY <1>1, <3>1 DEF IInv, NoSilentWait
    <3> QED
      BY <1>1, <2>0, <2>4, <3>2, CommandLess DEF DnsAnswer
  <2>5. ~EarlyData /\ ~RefuseCommand /\ \A k \in Kinds : ~SocketEnds(k)
    BY <2>0 DEF EarlyData, RefuseCommand, SocketEnds
  <2> QED
    BY <2>1, <2>2, <2>3, <2>4, <2>5
<1> QED
  BY <1>2, <1>3

LEMMA KernelLess ==
    ASSUME IInv, Settle \/ ResetEarly
    PROVE  StepsLeft' < StepsLeft
<1>1. /\ UNCHANGED <<life, state, idx>> /\ life = "live"
      /\ \/ attempt = "pending" /\ attempt' \in {"ok", "failed"}
         \/ attempt = "ok" /\ ~connected /\ attempt' = "reset"
  BY DEF Settle, ResetEarly
<1>2. state = "ConnectingRemote"
  <2>1. state \in Early \cup {"ConnectingRemote", "Connected", "Associated"}
    BY Types DEF States, Early
  <2> QED
    BY <1>1, <2>1 DEF IInv, Shape
<1>3. MaxAddresses \in Nat /\ idx \in Nat
  BY SessionAssumption, Types
<1>4. AttemptLeft \in 1..3 /\ AttemptLeft' \in 1..3 /\ AttemptLeft' < AttemptLeft
  BY <1>1, AttemptFacts, AttemptFactsPrime
<1>5. StepsLeft = 4 * (MaxAddresses - idx) + AttemptLeft + 1
  BY <1>1, <1>2, LeftFacts
<1>6. StepsLeft' = 4 * (MaxAddresses - idx) + AttemptLeft' + 1
  BY <1>1, <1>2, LeftFactsPrime
<1> QED
  BY <1>3, <1>4, <1>5, <1>6, FewerLeft

LEMMA RemoteLess ==
    ASSUME IInv, RemoteProgress
    PROVE  StepsLeft' < StepsLeft
<1>1. Connecting
  BY DEF RemoteProgress, RemoteCloses, TryConnectNext, CouldConnect
<1>2. life = "live" /\ state = "ConnectingRemote"
  BY <1>1, ConnectingFacts
<1>3. MaxAddresses \in Nat /\ idx \in Nat
  BY SessionAssumption, Types
<1>4. CASE life' # "live"
  BY <1>2, <1>4, OverLess
<1>5. CASE life' = "live"
  <2>1. ASSUME NEW k, Drop(k) PROVE FALSE
    BY <1>5, <2>1 DEF Drop
  <2>2. CASE TryConnectNext
    <3>1. /\ state' = "ConnectingRemote" /\ idx' = idx + 1
      BY <1>2, <2>1, <2>2 DEF TryConnectNext, GiveUp
    <3>2. AttemptLeft \in 1..3 /\ AttemptLeft' \in 1..3
      BY AttemptFacts, AttemptFactsPrime
    <3>3. StepsLeft = 4 * (MaxAddresses - idx) + AttemptLeft + 1
      BY <1>2, LeftFacts
    <3>4. StepsLeft' = 4 * (MaxAddresses - idx') + AttemptLeft' + 1
      BY <1>5, <3>1, LeftFactsPrime
    <3>5. idx' \in Nat
      BY <1>3, <3>1
    <3> QED
      BY <1>3, <3>1, <3>2, <3>3, <3>4, <3>5, FewerLeft
  <2>3. CASE CouldConnect
    <3>1. state' = "Connected"
      BY <1>5, <2>3 DEF CouldConnect, Throw, RemoteConnected
    <3>2. StepsLeft > 1
      <4>1. idx <= MaxAddresses
        <5>1. /\ Len(addresses) \in Nat /\ Len(addresses) <= MaxAddresses
              /\ DOMAIN addresses = 1..Len(addresses)
          BY Types, ListFacts
        <5> QED
          BY <1>1, <1>3, <5>1, ConnectingFacts
      <4> QED
        BY <1>2, <1>3, <4>1, LeftFacts, AttemptFacts
    <3> QED
      BY <1>5, <3>1, <3>2, LeftFactsPrime
  <2>4. ~RemoteCloses
    BY <2>1 DEF RemoteCloses
  <2> QED
    BY <2>2, <2>3, <2>4 DEF RemoteProgress
<1> QED
  BY <1>4, <1>5

\* A session that was accepted takes 4 * MaxAddresses + 4 steps at most, besides
\* those that relay: none of its handlers can be called without end before it
\* is connected, associated or over, whatever its client, the name server and
\* the addresses of an answer do.
THEOREM SessionGoesOn ==
    Spec => /\ [](StepsLeft \in Nat /\ StepsLeft <= 4 * MaxAddresses + 4)
            /\ [][StepsLeft' < StepsLeft]_vars
<1>1. IInv => StepsLeft \in Nat /\ StepsLeft <= 4 * MaxAddresses + 4
  <2> SUFFICES ASSUME IInv
               PROVE  StepsLeft \in Nat /\ StepsLeft <= 4 * MaxAddresses + 4
    OBVIOUS
  <2>1. MaxAddresses \in Nat /\ state \in States
    BY SessionAssumption, Types
  <2>2. ASSUME life = "live", state = "ConnectingRemote" PROVE idx \in Nat /\ idx >= 1
    <3>1. DOMAIN addresses = 1..Len(addresses) /\ Len(addresses) \in Nat
      BY Types, ListFacts
    <3> QED
      BY <2>2, <3>1 DEF IInv, AddressIndexValid
  <2> QED
    BY <2>1, <2>2, LiveLeft, LeftFacts, AttemptFacts DEF States
<1>2. IInv /\ [Next]_vars => [StepsLeft' < StepsLeft]_vars
  BY ClientLess, KernelLess, RemoteLess DEF Next
<1> QED
  BY <1>1, <1>2, Invariant, PTL DEF Spec


-----------------------------------------------------------------------------
(***************************************************************************)
(* Every handler of the session is, for the client, one step of a SOCKS5   *)
(* server or no step at all.                                               *)
(***************************************************************************)

\* What the client sees
seen == <<Phase, sent, verified>>

LEMMA PhaseFacts ==
    /\ life # "live" => Phase = "over"
    /\ life = "live" =>
          /\ state = "Accepted" => Phase = "greeting"
          /\ state = "AuthRequested" => Phase = "auth"
          /\ state = "Authenticated" => Phase = "request"
          /\ state = "ResolvingDomainName" => Phase = "pending"
          /\ state = "ConnectingRemote" =>
                Phase = IF Said(Failures) THEN "refused" ELSE "pending"
          /\ state \in {"Connected", "Associated"} => Phase = "relay"
BY DEF Phase

\* The same after a step
LEMMA PhaseFactsPrime ==
    /\ life' # "live" => Phase' = "over"
    /\ life' = "live" =>
          /\ state' = "Accepted" => Phase' = "greeting"
          /\ state' = "AuthRequested" => Phase' = "auth"
          /\ state' = "Authenticated" => Phase' = "request"
          /\ state' = "ResolvingDomainName" => Phase' = "pending"
          /\ state' = "ConnectingRemote" =>
                Phase' = IF Said(Failures)' THEN "refused" ELSE "pending"
          /\ state' \in {"Connected", "Associated"} => Phase' = "relay"
BY DEF Phase

LEMMA LivePhase ==
    ASSUME IInv, life = "live"
    PROVE  Phase # "over"
<1>1. state \in States
  BY Types
<1>2. \/ state = "ConnectingRemote"
      \/ state \in {"Accepted", "AuthRequested", "Authenticated", "ResolvingDomainName"}
      \/ state \in {"Connected", "Associated"}
  BY <1>1 DEF States
<1> QED
  BY <1>2, PhaseFacts

LEMMA InitRefines == Init => S5!Init
<1> SUFFICES ASSUME Init PROVE S5!Init
  OBVIOUS
<1>1. Phase = "greeting"
  BY PhaseFacts DEF Init
<1> QED
  BY <1>1 DEF Init, S5!Init

\* The session ends without a message.
LEMMA AbortRefines ==
    ASSUME IInv, life = "live", life' # "live", UNCHANGED <<sent, verified>>
    PROVE  S5!Next
<1>1. Phase # "over" /\ Phase' = "over"
  BY LivePhase, PhaseFactsPrime
<1> QED
  BY <1>1 DEF S5!Next, S5!Abort

LEMMA GreetingRefines ==
    ASSUME IInv, Greeting
    PROVE  S5!Next
<1>1. life = "live" /\ Phase = "greeting"
  BY PhaseFacts DEF Greeting, Event
<1>2. CASE Drop("client") /\ Quiet
  BY <1>1, <1>2, AbortRefines DEF Drop, Quiet
<1>3. CASE Drop("client") /\ Say("nomethod")
  <2>1. Phase' = "over" /\ UNCHANGED verified
    BY <1>3, PhaseFactsPrime DEF Drop
  <2> QED
    BY <1>1, <1>3, <2>1 DEF Say, S5!Next, S5!AnswerGreeting, S5!Says
<1>4. CASE /\ Keep
           /\ Say("method")
           /\ state' = AfterGreeting
           /\ UNCHANGED <<watch, remote, verified>>
  <2>1. Phase' = IF AuthRequired THEN "auth" ELSE "request"
    BY <1>1, <1>4, PhaseFactsPrime DEF Keep, AfterGreeting
  <2> QED
    BY <1>1, <1>4, <2>1 DEF Say, S5!Next, S5!AnswerGreeting, S5!Says
<1> QED
  BY <1>2, <1>3, <1>4 DEF Greeting

LEMMA HandleAuthRefines ==
    ASSUME IInv, HandleAuth
    PROVE  S5!Next
<1>1. life = "live" /\ Phase = "auth"
  BY PhaseFacts DEF HandleAuth, Event
<1>2. CASE Drop("client") /\ Quiet
  BY <1>1, <1>2, AbortRefines DEF Drop, Quiet
<1>3. CASE Drop("client") /\ Say("authbad")
  <2>1. Phase' = "over" /\ UNCHANGED verified
    BY <1>3, PhaseFactsPrime DEF Drop
  <2> QED
    BY <1>1, <1>3, <2>1 DEF Say, S5!Next, S5!AnswerAuth, S5!Says
<1>4. CASE /\ Keep
           /\ Say("authok")
           /\ state' = "Authenticated"
           /\ verified' = TRUE
  <2>1. Phase' = "request"
    BY <1>1, <1>4, PhaseFactsPrime DEF Keep
  <2> QED
    BY <1>1, <1>4, <2>1 DEF Say, S5!Next, S5!AnswerAuth, S5!Says
<1> QED
  BY <1>2, <1>3, <1>4 DEF HandleAuth

\* A refusal, after which the session is over or waits for the client to leave
LEMMA RefuseRefines ==
    ASSUME NEW m \in Failures, Say(m), UNCHANGED verified,
           Phase \in {"request", "pending"}, Phase' \in {"refused", "over"}
    PROVE  S5!Next
<1>1. S5!Refuse
  BY DEF Say, Failures, S5!Refuse, S5!Says
<1> QED
  BY <1>1 DEF S5!Next

LEMMA GrantRefines ==
    ASSUME Say("success"), UNCHANGED verified,
           Phase \in {"request", "pending"}, Phase' = "relay"
    PROVE  S5!Next
<1>1. S5!Grant
  BY DEF Say, S5!Grant, S5!Says
<1> QED
  BY <1>1 DEF S5!Next

LEMMA DoCommandRefines ==
    ASSUME IInv, NEW k \in Kinds, NEW what, NEW list, NEW mask,
           life = "live", state \in {"Authenticated", "ResolvingDomainName"},
           DoCommand(k, what, list, mask)
    PROVE  S5!Next \/ UNCHANGED seen
<1>0. sent \in Seq(Messages) /\ ~Said(Failures)
  BY Types DEF IInv, Shape
<1>1. Phase \in {"request", "pending"} /\ (state = "Authenticated" => Phase = "request")
      /\ (state = "ResolvingDomainName" => Phase = "pending")
  BY PhaseFacts
<1>2. CASE Throw
  BY <1>2, AbortRefines DEF Throw
<1>3. CASE ConnectRemote(list, mask)
  <2>1. life' = "live" /\ state' = "ConnectingRemote" /\ UNCHANGED verified
    BY <1>3 DEF ConnectRemote, Keep
  <2>2. CASE Quiet
    <3>1. ~Said(Failures)' /\ UNCHANGED sent
      BY <1>0, <2>2, QuietFacts
    <3>2. Phase' = "pending"
      BY <2>1, <3>1, PhaseFactsPrime
    <3> QED
      BY <1>1, <2>1, <3>1, <3>2 DEF seen, S5!Next, S5!TakeRequest
  <2>3. CASE Say("GeneralFailure")
    <3>1. "GeneralFailure" \in Failures /\ "GeneralFailure" \in Messages
      BY MessageFacts
    <3>2. Said(Failures)'
      BY <1>0, <2>3, <3>1, SayFacts
    <3>3. Phase' = "refused"
      BY <2>1, <3>2, PhaseFactsPrime
    <3> QED
      BY <1>1, <2>1, <2>3, <3>1, <3>3, RefuseRefines
  <2> QED
    BY <1>3, <2>2, <2>3 DEF ConnectRemote
<1>4. CASE Associate(k, mask)
  <2>1. CASE Drop(k) /\ Quiet
    BY <2>1, AbortRefines DEF Drop, Quiet
  <2>2. CASE Keep /\ Say("success") /\ state' = "Associated" /\ UNCHANGED verified
    <3>1. Phase' = "relay"
      BY <2>2, PhaseFactsPrime DEF Keep
    <3> QED
      BY <1>1, <2>2, <3>1, GrantRefines
  <2> QED
    BY <1>4, <2>1, <2>2 DEF Associate
<1> QED
  BY <1>2, <1>3, <1>4 DEF DoCommand

LEMMA RequestRefines ==
    ASSUME IInv, NEW what \in {"Connect", "UdpAssociate"}, Request(what)
    PROVE  S5!Next \/ UNCHANGED seen
<1>1. life = "live" /\ state = "Authenticated" /\ Phase = "request" /\ "client" \in Kinds
  BY PhaseFacts DEF Request, Event, Kinds
<1>2. ASSUME NEW f \in Families, DoCommand("client", what, <<f>>, {})
      PROVE  S5!Next \/ UNCHANGED seen
  BY <1>1, <1>2, DoCommandRefines
<1>3. CASE Drop("client") /\ Say("AddrTypeNotSupported")
  <2>1. Phase' = "over" /\ UNCHANGED verified
    BY <1>3, PhaseFactsPrime DEF Drop
  <2>2. "AddrTypeNotSupported" \in Failures
    BY DEF Failures
  <2> QED
    BY <1>1, <1>3, <2>1, <2>2, RefuseRefines
<1>4. CASE Keep /\ state' = "ResolvingDomainName" /\ UNCHANGED <<sent, verified>>
  <2>1. Phase' = "pending"
    BY <1>1, <1>4, PhaseFactsPrime DEF Keep
  <2> QED
    BY <1>1, <1>4, <2>1 DEF S5!Next, S5!TakeRequest
<1> QED
  BY <1>2, <1>3, <1>4 DEF Request

LEMMA DnsAnswerRefines ==
    ASSUME IInv, DnsAnswer
    PROVE  S5!Next \/ UNCHANGED seen
<1>1. life = "live" /\ "dns" \in Kinds /\ watch["dns"] # {}
  BY DEF DnsAnswer, Event, Kinds
<1>2. state = "ResolvingDomainName"
  BY <1>1 DEF IInv, NoSilentWait
<1>3. CASE Drop("dns") /\ Quiet
  BY <1>1, <1>3, AbortRefines DEF Drop, Quiet
<1>4. ASSUME NEW list, DoCommand("dns", command, list, {})
      PROVE  S5!Next \/ UNCHANGED seen
  BY <1>1, <1>2, <1>4, DoCommandRefines
<1> QED
  BY <1>3, <1>4 DEF DnsAnswer

LEMMA ProgressRefines ==
    ASSUME IInv, RemoteProgress
    PROVE  S5!Next \/ UNCHANGED seen
<1>0. Connecting
  BY DEF RemoteProgress, RemoteCloses, TryConnectNext, CouldConnect
<1>1. life = "live" /\ state = "ConnectingRemote" /\ ~Said(Failures)
  BY <1>0, ConnectingFacts
<1>2. Phase = "pending"
  BY <1>1, PhaseFacts
<1>3. CASE RemoteCloses
  BY <1>1, <1>3, AbortRefines DEF RemoteCloses, Drop, Quiet
<1>4. ASSUME NEW m \in Failures, Drop("remote"), Say(m)
      PROVE  S5!Next
  <2>1. Phase' = "over" /\ UNCHANGED verified
    BY <1>4, PhaseFactsPrime DEF Drop
  <2> QED
    BY <1>2, <1>4, <2>1, RefuseRefines
<1>5. CASE Keep /\ UNCHANGED <<state, sent, verified>>
  <2>1. life' = "live" /\ state' = "ConnectingRemote" /\ ~Said(Failures)'
    BY <1>1, <1>5 DEF Keep, Said
  <2>2. Phase' = "pending"
    BY <2>1, PhaseFactsPrime
  <2> QED
    BY <1>2, <1>5, <2>2 DEF seen
<1>6. CASE TryConnectNext
  <2>1. "Unreachable" \in Failures /\ "GeneralFailure" \in Failures
    BY DEF Failures
  <2> QED
    BY <1>4, <1>5, <1>6, <2>1 DEF TryConnectNext, GiveUp
<1>7. CASE CouldConnect
  <2>1. CASE Throw
    BY <1>1, <2>1, AbortRefines DEF Throw
  <2>2. CASE Keep /\ RemoteConnected /\ Say("success") /\ UNCHANGED verified
    <3>1. Phase' = "relay"
      BY <1>1, <2>2, PhaseFactsPrime DEF Keep, RemoteConnected
    <3> QED
      BY <1>2, <2>2, <3>1, GrantRefines
  <2> QED
    BY <1>7, <2>1, <2>2 DEF CouldConnect
<1> QED
  BY <1>3, <1>6, <1>7 DEF RemoteProgress

LEMMA StepRefines ==
    IInv /\ [Next]_vars => [S5!Next]_<<Phase, sent, verified>>
<1> SUFFICES ASSUME IInv, [Next]_vars PROVE S5!Next \/ UNCHANGED seen
  BY DEF seen
<1>1. ASSUME UNCHANGED <<life, state, sent, verified>> PROVE UNCHANGED seen
  BY <1>1 DEF seen, Phase, Said
<1>2. CASE UNCHANGED vars \/ Settle \/ ResetEarly
  BY <1>1, <1>2 DEF vars, Settle, ResetEarly
<1>3. CASE EarlyData
  BY <1>3, AbortRefines DEF EarlyData, Event, Drop, Quiet
<1>4. ASSUME NEW k \in Kinds, SocketEnds(k) PROVE S5!Next
  BY <1>4, AbortRefines DEF SocketEnds, Drop, Quiet
<1>5. CASE RefuseCommand
  <2>1. Phase = "request" /\ Phase' = "over" /\ UNCHANGED verified
    BY <1>5, PhaseFacts, PhaseFactsPrime DEF RefuseCommand, Event, Drop
  <2>2. "CommandNotSupported" \in Failures /\ Say("CommandNotSupported")
    BY <1>5 DEF RefuseCommand, Failures
  <2> QED
    BY <2>1, <2>2, RefuseRefines
<1> QED
  BY <1>2, <1>3, <1>4, <1>5, GreetingRefines, HandleAuthRefines, RequestRefines,
     DnsAnswerRefines, ProgressRefines DEF Next

\* ImplementsSocks5: whatever is sent to process_client_event(),
\* process_dns_event() and process_remote_event(), for answers of any length and
\* either way a kernel reports a failed connect(), the client sees the messages
\* of a SOCKS5 server in their order.
THEOREM SessionImplementsSocks5 == Spec => ImplementsSocks5
BY InitRefines, StepRefines, Invariant, PTL DEF Spec, ImplementsSocks5, S5!Spec

=============================================================================
