------------------------- MODULE SharedMemoryProofs -------------------------
(***************************************************************************)
(* Theorems about ConsistencyClient in front of any number of servers, for *)
(* any script: the state stays well typed, and every answer finds the slot *)
(* of its request.                                                         *)
(***************************************************************************)
EXTENDS SharedMemory, DataLemmas

-----------------------------------------------------------------------------
(* The latest of several responses                                         *)

\* Latest takes r before s.
Later(r, s) == r = s \/ ClockLess(s.clock, r.clock) \/ (s.clock = r.clock /\ s.value < r.value)

\* The clock and the value of a response are numbers.
LEMMA ResponseIs ==
    ASSUME NEW r \in Response
    PROVE  /\ r.clock[1] \in Nat /\ r.clock[2] \in Nat /\ r.value \in Nat
           /\ r = [clock |-> << r.clock[1], r.clock[2] >>, value |-> r.value]
<1>1. r.clock \in Nat \X Nat /\ r.value \in Nat
  BY DEF Response, LogicalClock, Value
<1>2. r.clock = << r.clock[1], r.clock[2] >>
  BY <1>1
<1>. QED  BY <1>1, <1>2 DEF Response

\* Of two responses, one is later, or they are the same.
LEMMA LaterIsTotal ==
    ASSUME NEW r \in Response, NEW s \in Response
    PROVE  Later(r, s) \/ Later(s, r)
<1>1. /\ r.clock[1] \in Nat /\ r.clock[2] \in Nat /\ r.value \in Nat
      /\ s.clock[1] \in Nat /\ s.clock[2] \in Nat /\ s.value \in Nat
  BY ResponseIs
<1>2. CASE ClockLess(s.clock, r.clock) \/ ClockLess(r.clock, s.clock)
  BY <1>2 DEF Later
<1>3. CASE ~(ClockLess(s.clock, r.clock) \/ ClockLess(r.clock, s.clock))
  <2>1. r.clock[1] = s.clock[1] /\ r.clock[2] = s.clock[2]
    BY <1>1, <1>3 DEF ClockLess
  <2>2. r.clock = s.clock
    <3>1. r.clock \in Nat \X Nat /\ s.clock \in Nat \X Nat
      BY DEF Response, LogicalClock
    <3>. QED  BY <2>1, <3>1
  <2>3. r.value = s.value => r = s
    <3>1. r = [clock |-> r.clock, value |-> r.value] /\ s = [clock |-> s.clock, value |-> s.value]
      BY DEF Response
    <3>. QED  BY <2>2, <3>1
  <2>. QED  BY <1>1, <2>2, <2>3 DEF Later
<1>. QED  BY <1>2, <1>3

\* What is later than something later is later.
LEMMA LaterIsTransitive ==
    ASSUME NEW r \in Response, NEW s \in Response, NEW t \in Response, Later(r, s), Later(s, t)
    PROVE  Later(r, t)
<1>1. /\ r.clock[1] \in Nat /\ r.clock[2] \in Nat /\ r.value \in Nat
      /\ s.clock[1] \in Nat /\ s.clock[2] \in Nat /\ s.value \in Nat
      /\ t.clock[1] \in Nat /\ t.clock[2] \in Nat /\ t.value \in Nat
  BY ResponseIs
<1>2. CASE r = s \/ s = t
  BY <1>2
<1>3. CASE r # s /\ s # t
  BY <1>1, <1>3 DEF Later, ClockLess
<1>. QED  BY <1>2, <1>3

\* Of finitely many responses one is the latest.
LEMMA LatestIsOne ==
    ASSUME NEW S \in SUBSET Response, IsFiniteSet(S), S # {}
    PROVE  Latest(S) \in S
<1>1. PICK n \in Nat : \E f \in [1 .. n -> S] : \A x \in S : \E k \in 1 .. n : f[k] = x
  <2>1. PICK n \in Nat : ExistsBijection(1 .. n, S)
    BY FS_NatBijection
  <2>. QED  BY <2>1 DEF ExistsBijection, Bijection, Surjection
<1>0. PICK f \in [1 .. n -> S] : \A x \in S : \E k \in 1 .. n : f[k] = x
  BY <1>1
<1>. DEFINE First(m, x) == \A k \in 1 .. m : Later(x, f[k])
            T == {m \in 0 .. n : m # 0 => \E x \in S : First(m, x)}
<1>2. 0 \in T
  OBVIOUS
<1>3. ASSUME NEW m \in 0 .. n - 1, m \in T
      PROVE  m + 1 \in T
  <2>1. f[m + 1] \in S /\ \A k \in 1 .. m + 1 : k \in 1 .. m \/ k = m + 1
    OBVIOUS
  <2>2. \A k \in 1 .. m : f[k] \in S
    OBVIOUS
  <2>3. Later(f[m + 1], f[m + 1])
    BY DEF Later
  <2>4. CASE m = 0
    <3>1. First(m + 1, f[m + 1])
      BY <2>1, <2>3, <2>4
    <3>. QED  BY <2>1, <3>1
  <2>5. CASE m # 0
    <3>1. PICK x \in S : First(m, x)
      BY <1>3, <2>5
    <3>2. CASE Later(x, f[m + 1])
      <4>1. First(m + 1, x)
        BY <2>1, <3>1, <3>2
      <4>. QED  BY <4>1
    <3>3. CASE ~Later(x, f[m + 1])
      <4>1. Later(f[m + 1], x)
        BY <2>1, <3>3, LaterIsTotal
      <4>2. \A k \in 1 .. m : Later(f[m + 1], f[k])
        BY <2>1, <2>2, <3>1, <4>1, LaterIsTransitive
      <4>3. First(m + 1, f[m + 1])
        BY <2>1, <2>3, <4>2
      <4>. QED  BY <2>1, <4>3
    <3>. QED  BY <3>2, <3>3
  <2>. QED  BY <2>4, <2>5
<1>4. n \in T
  <2>. HIDE DEF T
  <2>1. 0 .. n \subseteq T
    BY <1>2, <1>3, Induction
  <2>. QED  BY <2>1
<1>5. n # 0
  BY <1>0
<1>6. \E x \in S : \A s \in S : Later(x, s)
  BY <1>0, <1>4, <1>5
<1>. QED  BY <1>6 DEF Latest, Later

-----------------------------------------------------------------------------
(* Types                                                                   *)

\* What a server is, and that the queues are a function of two actors.
Shape ==
    /\ cfg \in Configuration
    /\ server = [id \in Server |-> [fiber |-> server[id].fiber,
                                    clock |-> server[id].clock,
                                    value |-> server[id].value]]
    /\ inbox_by_src = [dst \in Actor |-> [src \in Actor |-> inbox_by_src[dst][src]]]

\* Every message of the queues is for those two actors.
QueuesOK == \A dst, src \in Actor : inbox_by_src[dst][src] \in Seq(MsgFor(dst, src))

\* The part of TypeOK that is about a fiber.
FiberOK(fiber) ==
    /\ fiber.state \in {"idle", "phase1", "phase2"}
    /\ fiber.state = "phase1" =>
          /\ fiber.src = Client /\ fiber.msg \in ClientMsg
          /\ DOMAIN fiber.responses \subseteq Server
          /\ \A s \in DOMAIN fiber.responses : fiber.responses[s] \in Response
          /\ Cardinality(DOMAIN fiber.responses) < Quorum
    /\ fiber.state = "phase2" =>
          /\ fiber.src = Client /\ fiber.reply \in Reply
          /\ fiber.acks \subseteq Server
          /\ Cardinality(fiber.acks) < Quorum

ServerOK(id) ==
    /\ server[id].clock \in LogicalClock /\ server[id].value \in Value
    /\ FiberOK(server[id].fiber)

Typed ==
    /\ Shape
    /\ \A id \in Server : ServerOK(id)
    /\ QueuesOK
    /\ called \in 0 .. Len(cfg.script)

\* The actors are the servers and the client.
LEMMA ActorsAre ==
    ASSUME cfg \in Configuration
    PROVE  /\ cfg.servers \in Nat \ {0} /\ cfg.replicated \in BOOLEAN
           /\ cfg.script \in Seq(ClientCall(cfg.servers))
           /\ Client \in Actor /\ Client \notin Server /\ Server \subseteq Actor
           /\ \A id \in Actor : id \in Server \/ id = Client
           /\ Server \subseteq Nat /\ Quorum \in Nat /\ Quorum > 0
BY ConfigurationAssumption DEF Client, Server, Actor, Quorum

\* A message has the fields of its type, which tells who may send it to whom.
LEMMA MessageFields ==
    ASSUME cfg \in Configuration, NEW id \in Server, NEW src \in Actor, NEW msg \in MsgFor(id, src)
    PROVE  /\ msg.type \in {"Get", "Put"} <=> src = Client
           /\ src = Client => msg \in ClientMsg /\ msg.req_id \in Nat
           /\ src # Client => src \in Server /\ msg \in InternalMsg
           /\ msg.type = "Put" => msg.value \in Value
           /\ msg.type \in {"InternalGetOk", "InternalPut"} => msg.clock \in LogicalClock /\ msg.value \in Value
           /\ msg.type \in {"Get", "Put", "InternalGet", "InternalGetOk", "InternalPut", "InternalPutOk"}
<1>1. id # Client /\ (src = Client \/ src \in Server)
  BY ActorsAre
<1>2. CASE src = Client
  <2>1. msg \in ClientMsg
    BY <1>1, <1>2 DEF MsgFor
  <2>. QED  BY <1>2, <2>1 DEF ClientMsg
<1>3. CASE src # Client
  <2>1. msg \in InternalMsg
    BY <1>1, <1>3 DEF MsgFor
  <2>. QED  BY <1>1, <1>3, <2>1 DEF InternalMsg
<1>. QED  BY <1>2, <1>3

\* What the server id may send.
Sendable(id, out) == \A dst \in Actor : out[dst] \in Seq(MsgFor(dst, id))

\* Nothing can be sent, ...
LEMMA SilenceIsSendable ==
    ASSUME NEW id
    PROVE  Sendable(id, Silence)
BY DEF Sendable, Silence

\* ... or one message to one actor, ...
LEMMA TellIsSendable ==
    ASSUME NEW id, NEW dst \in Actor, NEW msg \in MsgFor(dst, id)
    PROVE  Sendable(id, Tell(dst, msg)) /\ Tell(dst, msg) = [a \in Actor |-> IF a = dst THEN << msg >> ELSE << >>]
<1>1. Tell(dst, msg) = [a \in Actor |-> IF a = dst THEN << msg >> ELSE << >>]
  BY DEF Tell, Silence
<1>. QED  BY <1>1 DEF Sendable

\* ... or one message to all servers.
LEMMA BroadcastIsSendable ==
    ASSUME cfg \in Configuration, NEW id \in Server, NEW msg \in InternalMsg
    PROVE  Sendable(id, Broadcast(msg))
<1>1. \A dst \in Server : MsgFor(dst, id) = InternalMsg
  BY ActorsAre DEF MsgFor
<1>. QED  BY <1>1 DEF Sendable, Broadcast

(***************************************************************************)
(* An exchange takes the head of one queue of id and appends what id sends *)
(* to its queues.                                                          *)
(***************************************************************************)
LEMMA ExchangeTypes ==
    ASSUME Shape, QueuesOK, NEW id \in Server, NEW src \in Actor, NEW out, Sendable(id, out),
           inbox_by_src[id][src] # << >>, Exchange(id, src, out), cfg' = cfg
    PROVE  /\ QueuesOK'
           /\ inbox_by_src' = [dst \in Actor |-> [s \in Actor |-> inbox_by_src'[dst][s]]]
<1>. DEFINE rest(dst, s) == IF dst = id /\ s = src THEN Tail(inbox_by_src[dst][s]) ELSE inbox_by_src[dst][s]
<1>1. inbox_by_src' = [dst \in Actor |-> [s \in Actor |->
                          IF s = id THEN rest(dst, s) \o out[dst] ELSE rest(dst, s)]]
  BY DEF Exchange
<1>2. ASSUME NEW dst \in Actor, NEW s \in Actor
      PROVE  inbox_by_src'[dst][s] \in Seq(MsgFor(dst, s))
  <2>1. inbox_by_src[dst][s] \in Seq(MsgFor(dst, s))
    BY DEF QueuesOK
  <2>2. rest(dst, s) \in Seq(MsgFor(dst, s))
    BY <2>1
  <2>. HIDE DEF rest
  <2>3. s = id => out[dst] \in Seq(MsgFor(dst, s))
    BY DEF Sendable
  <2>4. s = id => rest(dst, s) \o out[dst] \in Seq(MsgFor(dst, s))
    BY <2>2, <2>3
  <2>. QED  BY <1>1, <2>2, <2>4
<1>3. Actor' = Actor /\ \A dst, s : MsgFor(dst, s)' = MsgFor(dst, s)
  BY DEF Actor, MsgFor, Client
<1>4. QueuesOK'
  BY <1>2, <1>3 DEF QueuesOK
<1>. QED  BY <1>1, <1>4

\* The fiber of one server changes, and nothing else of the servers.
LEMMA BecomeTypes ==
    ASSUME Shape, NEW id \in Server, NEW fiber, Become(id, fiber)
    PROVE  /\ server'[id] = [fiber |-> fiber, clock |-> server[id].clock, value |-> server[id].value]
           /\ \A other \in Server : other # id => server'[other] = server[other]
           /\ server' = [s \in Server |-> [fiber |-> server'[s].fiber,
                                           clock |-> server'[s].clock,
                                           value |-> server'[s].value]]
<1>1. server' = [server EXCEPT ![id].fiber = fiber]
  BY DEF Become
<1>2. DOMAIN server = Server /\ \A s \in Server : server[s] = [fiber |-> server[s].fiber,
                                                              clock |-> server[s].clock,
                                                              value |-> server[s].value]
  BY DEF Shape
<1>3. server' = [s \in Server |-> IF s = id THEN [server[s] EXCEPT !.fiber = fiber] ELSE server[s]]
  BY <1>1, <1>2
<1>4. [server[id] EXCEPT !.fiber = fiber] = [fiber |-> fiber, clock |-> server[id].clock, value |-> server[id].value]
  BY <1>2
<1>5. /\ server'[id] = [fiber |-> fiber, clock |-> server[id].clock, value |-> server[id].value]
      /\ \A other \in Server : other # id => server'[other] = server[other]
  BY <1>3, <1>4
<1>6. \A s \in Server : server'[s] = [fiber |-> server'[s].fiber, clock |-> server'[s].clock, value |-> server'[s].value]
  BY <1>2, <1>5
<1>7. server' = [s \in Server |-> server'[s]]
  BY <1>3
<1>. QED  BY <1>5, <1>6, <1>7

\* The servers after a step of one of them.
ServersOK ==
    /\ server = [s \in Server |-> [fiber |-> server[s].fiber,
                                   clock |-> server[s].clock,
                                   value |-> server[s].value]]
    /\ \A id \in Server : ServerOK(id)

\* The same types after a step that leaves the configuration.
LEMMA SameTypes ==
    ASSUME cfg' = cfg
    PROVE  /\ Server' = Server /\ Client' = Client /\ Actor' = Actor /\ Quorum' = Quorum
           /\ \A fiber : FiberOK(fiber)' <=> FiberOK(fiber)
<1>1. Server' = Server /\ Client' = Client /\ Actor' = Actor /\ Quorum' = Quorum
  BY DEF Server, Client, Actor, Quorum
<1>. QED  BY <1>1 DEF FiberOK

\* A fiber that is well typed keeps its server well typed.
LEMMA BecomeKeepsServersOK ==
    ASSUME Typed, NEW id \in Server, NEW fiber, Become(id, fiber), FiberOK(fiber), cfg' = cfg
    PROVE  /\ ServersOK'
           /\ server'[id].fiber = fiber
           /\ \A other \in Server : other # id => server'[other] = server[other]
<1>1. /\ server'[id] = [fiber |-> fiber, clock |-> server[id].clock, value |-> server[id].value]
      /\ \A other \in Server : other # id => server'[other] = server[other]
      /\ server' = [s \in Server |-> [fiber |-> server'[s].fiber,
                                      clock |-> server'[s].clock,
                                      value |-> server'[s].value]]
  BY BecomeTypes DEF Typed
<1>2. \A s \in Server : ServerOK(s)
  BY DEF Typed
<1>3. ASSUME NEW s \in Server PROVE ServerOK(s)'
  <2>1. CASE s = id
    <3>1. /\ server'[s].clock = server[id].clock /\ server'[s].value = server[id].value
          /\ server'[s].fiber = fiber
      BY <1>1, <2>1
    <3>2. server[id].clock \in LogicalClock /\ server[id].value \in Value
      BY <1>2 DEF ServerOK
    <3>3. FiberOK(server[s].fiber)'
      <4>1. FiberOK(fiber)'
        BY SameTypes
      <4>. QED  BY <3>1, <4>1 DEF FiberOK
    <3>. QED  BY <3>1, <3>2, <3>3 DEF ServerOK
  <2>2. CASE s # id
    <3>1. server'[s] = server[s]
      BY <1>1, <2>2
    <3>2. FiberOK(server[s].fiber)'
      BY <1>2, <3>1, SameTypes DEF ServerOK, FiberOK
    <3>. QED  BY <1>2, <3>1, <3>2 DEF ServerOK
  <2>. QED  BY <2>1, <2>2
<1>. QED  BY <1>1, <1>3, SameTypes DEF ServersOK

\* Neither does a new clock or a new value spoil a server.
LEMMA StoreKeepsServersOK ==
    ASSUME Typed, NEW id \in Server, NEW clock \in LogicalClock, NEW value \in Value, cfg' = cfg,
           \/ server' = [server EXCEPT ![id].clock = clock, ![id].value = value]
           \/ server' = [server EXCEPT ![id].value = value] /\ clock = server[id].clock
    PROVE  /\ ServersOK'
           /\ server'[id] = [fiber |-> server[id].fiber, clock |-> clock, value |-> value]
           /\ \A other \in Server : other # id => server'[other] = server[other]
<1>1. DOMAIN server = Server /\ \A s \in Server : server[s] = [fiber |-> server[s].fiber,
                                                              clock |-> server[s].clock,
                                                              value |-> server[s].value]
  BY DEF Typed, Shape
<1>. DEFINE stored == [fiber |-> server[id].fiber, clock |-> clock, value |-> value]
<1>2. server' = [s \in Server |-> IF s = id THEN stored ELSE server[s]]
  <2>1. CASE server' = [server EXCEPT ![id].clock = clock, ![id].value = value]
    <3>. DEFINE first == [server EXCEPT ![id].clock = clock]
    <3>1. server' = [first EXCEPT ![id].value = value]
      BY <2>1
    <3>2. DOMAIN first = Server /\ \A s \in Server : s # id => first[s] = server[s]
      BY <1>1
    <3>3. first[id] = [fiber |-> server[id].fiber, clock |-> clock, value |-> server[id].value]
      <4>1. first[id] = [server[id] EXCEPT !.clock = clock]
        BY <1>1
      <4>2. PICK f, c, v : f = server[id].fiber /\ c = server[id].clock /\ v = server[id].value
        OBVIOUS
      <4>3. server[id] = [fiber |-> f, clock |-> c, value |-> v]
        BY <1>1, <4>2
      <4>. QED  BY <4>1, <4>2, <4>3
    <3>. HIDE DEF first
    <3>4. [first[id] EXCEPT !.value = value] = stored
      BY <3>3
    <3>. QED  BY <3>1, <3>2, <3>4
  <2>2. CASE server' = [server EXCEPT ![id].value = value] /\ clock = server[id].clock
    <3>1. [server[id] EXCEPT !.value = value] = stored
      BY <1>1, <2>2
    <3>. QED  BY <1>1, <2>2, <3>1
  <2>. QED  BY <2>1, <2>2
<1>3. server'[id] = stored /\ \A other \in Server : other # id => server'[other] = server[other]
  BY <1>2
<1>4. \A s \in Server : server'[s] = [fiber |-> server'[s].fiber, clock |-> server'[s].clock, value |-> server'[s].value]
  BY <1>1, <1>3
<1>5. \A s \in Server : server'[s].fiber = server[s].fiber
  BY <1>3
<1>6. ASSUME NEW s \in Server PROVE ServerOK(s)'
  <2>1. ServerOK(s)
    BY DEF Typed
  <2>2. FiberOK(server[s].fiber)'
    BY <1>5, <2>1, SameTypes DEF ServerOK, FiberOK
  <2>3. server'[s].clock \in LogicalClock /\ server'[s].value \in Value
    BY <1>3, <2>1 DEF ServerOK
  <2>. QED  BY <2>2, <2>3 DEF ServerOK
<1>7. server' = [s \in Server |-> server'[s]]
  BY <1>2
<1>8. ServersOK'
  BY <1>4, <1>6, <1>7, SameTypes DEF ServersOK
<1>. QED  BY <1>3, <1>8

\* Servers that do not change stay well typed.
LEMMA UnchangedServersOK ==
    ASSUME Typed, UNCHANGED <<cfg, server>>
    PROVE  ServersOK'
<1>1. \A s \in Server : ServerOK(s)' <=> ServerOK(s)
  BY SameTypes DEF ServerOK, FiberOK
<1>. QED  BY <1>1, SameTypes DEF ServersOK, Typed, Shape

-----------------------------------------------------------------------------
(* What a step of a server does to requests                                *)

Busy(id) == server[id].fiber.state # "idle"

\* The request that a server is about, or what will answer it.
Held(id) ==
    LET fiber == server[id].fiber IN IF fiber.state = "phase1" THEN fiber.msg ELSE fiber.reply

\* Whether a request, or an answer, is to read.
Asks(msg) == msg.type \in {"Get", "GetOk"}

SameRequest(m, n) == m.req_id = n.req_id /\ (Asks(m) <=> Asks(n))

\* The server is still about what it was about.
HoldsOn(id) ==
    /\ Busy(id)' <=> Busy(id)
    /\ Busy(id) => SameRequest(Held(id)', Held(id))

\* The only thing that is sent to the client is this.
Answers(out, msg) == \E m : out[Client] = << m >> /\ SameRequest(m, msg)

(***************************************************************************)
(* A step of a server on a message from src: it keeps what it is about,    *)
(* and drops a request if it is busy; it takes up a request; it answers    *)
(* the request it is about; or it answers the client at once.              *)
(***************************************************************************)
Conduct(id, src, out) ==
    \/ HoldsOn(id) /\ (src = Client => Busy(id)) /\ out[Client] = << >>
    \/ /\ src = Client /\ ~Busy(id) /\ Busy(id)'
       /\ SameRequest(Held(id)', Head(inbox_by_src[id][Client]))
       /\ out[Client] = << >>
    \/ src # Client /\ Busy(id) /\ ~Busy(id)' /\ Answers(out, Held(id))
    \/ src = Client /\ HoldsOn(id) /\ Answers(out, Head(inbox_by_src[id][Client]))

\* What a busy server has asked of all, what it waits for, and from whom it has come.
QuestionOf(fiber) == IF fiber.state = "phase1" THEN "InternalGet" ELSE "InternalPut"
ResponseOf(fiber) == IF fiber.state = "phase1" THEN "InternalGetOk" ELSE "InternalPutOk"
HeardBy(fiber)    == IF fiber.state = "phase1" THEN DOMAIN fiber.responses ELSE fiber.acks

Sends(out, dst, type) == \E m : out[dst] = << m >> /\ m.type = type

\* The fiber next goes on with the question of fiber, or asks one of its own.
GoesOn(fiber, next, src, type, out) ==
    \/ /\ fiber.state = next.state /\ HeardBy(fiber) \subseteq HeardBy(next)
       /\ type = ResponseOf(fiber) => src \in HeardBy(next)
    \/ \A s \in Server : Sends(out, s, QuestionOf(next))

(***************************************************************************)
(* A busy server keeps its question and what it has heard of it, or asks   *)
(* all servers another one; one that is not answers what it is asked,      *)
(* unless its assertion fails.                                             *)
(***************************************************************************)
Pursues(id, src, type, out) ==
    /\ Busy(id)' => GoesOn(server[id].fiber, server'[id].fiber, src, type, out)
    /\ ~Busy(id) /\ asserted' =>
          /\ type = "InternalGet" => Sends(out, src, "InternalGetOk")
          /\ type = "InternalPut" => Sends(out, src, "InternalPutOk")

ServerStep(id, src, out) ==
    /\ Sendable(id, out) /\ Exchange(id, src, out)
    /\ Conduct(id, src, out)
    /\ Pursues(id, src, Head(inbox_by_src[id][src]).type, out)
    /\ ServersOK'
    /\ \A other \in Server : other # id => server'[other] = server[other]

\* The state in which the server id turns to a message from src.
Turns(id, src, msg) ==
    /\ Typed /\ cfg' = cfg
    /\ id \in Server /\ src \in Actor
    /\ inbox_by_src[id][src] # << >>
    /\ msg = Head(inbox_by_src[id][src])

\* The message is for the server.
LEMMA TurnsToMessage ==
    ASSUME NEW id, NEW src, NEW msg, Turns(id, src, msg)
    PROVE  msg \in MsgFor(id, src) /\ cfg \in Configuration
<1>1. inbox_by_src[id][src] \in Seq(MsgFor(id, src)) /\ id \in Actor
  BY ActorsAre DEF Turns, Typed, QueuesOK, Shape
<1>. QED  BY <1>1 DEF Turns, Typed, Shape

\* Nothing is sent to the client by silence, or by telling a server.
LEMMA SentToTheClient ==
    ASSUME cfg \in Configuration
    PROVE  /\ Silence[Client] = << >>
           /\ \A msg : Tell(Client, msg)[Client] = << msg >>
           /\ \A id \in Server : \A msg : Tell(id, msg)[Client] = << >>
           /\ \A msg : Broadcast(msg)[Client] = << >>
<1>1. /\ Client \in Actor /\ Client \notin Server /\ Server \subseteq Actor
  BY ActorsAre
<1>. QED  BY <1>1 DEF Silence, Tell, Broadcast

\* A server whose fiber does not change goes on, if the message is no response to it.
LEMMA UnchangedGoesOn ==
    ASSUME NEW id, server'[id].fiber = server[id].fiber, NEW src, NEW type, NEW out,
           Busy(id) => type # ResponseOf(server[id].fiber)
    PROVE  Busy(id)' => GoesOn(server[id].fiber, server'[id].fiber, src, type, out)
BY DEF Busy, GoesOn

\* What a server tells another one.
LEMMA TellSends ==
    ASSUME NEW dst \in Actor, NEW msg
    PROVE  Sends(Tell(dst, msg), dst, msg.type)
BY DEF Sends, Tell, Silence

\* What a server tells all servers.
LEMMA BroadcastSends ==
    ASSUME cfg \in Configuration, NEW msg
    PROVE  \A s \in Server : Sends(Broadcast(msg), s, msg.type)
BY ActorsAre DEF Sends, Broadcast

\* A server that does not change holds on.
LEMMA UnchangedHoldsOn ==
    ASSUME NEW id, server' = server
    PROVE  HoldsOn(id)
BY DEF HoldsOn, Busy, Held, SameRequest

(***************************************************************************)
(* A server of kv-buggy.rs.                                                *)
(***************************************************************************)
LEMMA AloneSteps ==
    ASSUME NEW id, NEW src, NEW msg, Turns(id, src, msg), ServeAlone(id, src, msg)
    PROVE  \E out : ServerStep(id, src, out)
<1>1. msg \in MsgFor(id, src) /\ cfg \in Configuration /\ Typed /\ cfg' = cfg /\ id \in Server /\ src \in Actor
  BY TurnsToMessage DEF Turns
<1>2. src = Client /\ msg \in ClientMsg /\ msg.req_id \in Nat /\ id # Client /\ Client \in Actor
  BY <1>1, MessageFields, ActorsAre DEF ServeAlone
<1>3. MsgFor(Client, id) = Reply
  BY <1>2 DEF MsgFor
<1>4. server[id].clock \in LogicalClock /\ server[id].value \in Value
  BY <1>1 DEF Typed, ServerOK
<1>5. CASE /\ msg.type = "Get"
           /\ Exchange(id, src, Tell(src, GetOk(msg.req_id, server[id].value)))
           /\ UNCHANGED server
  <2>. DEFINE reply == GetOk(msg.req_id, server[id].value)
  <2>1. reply \in Reply /\ SameRequest(reply, msg)
    BY <1>2, <1>4, <1>5 DEF GetOk, Reply, SameRequest, Asks
  <2>. HIDE DEF reply
  <2>2. Sendable(id, Tell(Client, reply))
    BY <1>2, <1>3, <2>1, TellIsSendable
  <2>3. Answers(Tell(Client, reply), msg)
    BY <1>1, <2>1, SentToTheClient DEF Answers
  <2>4. Conduct(id, src, Tell(Client, reply))
    BY <1>2, <1>5, <2>3, UnchangedHoldsOn DEF Conduct, Turns
  <2>5. ServersOK'
    BY <1>1, <1>5, UnchangedServersOK
  <2>6. Exchange(id, src, Tell(Client, reply))
    BY <1>2, <1>5 DEF reply
  <2>7. Pursues(id, src, msg.type, Tell(Client, reply))
    <3>1. msg.type # ResponseOf(server[id].fiber)
      BY <1>5 DEF ResponseOf
    <3>. QED  BY <1>5, <3>1, UnchangedGoesOn DEF Pursues
  <2>. QED  BY <1>5, <2>2, <2>4, <2>5, <2>6, <2>7 DEF ServerStep, Turns
<1>6. CASE /\ msg.type = "Put"
           /\ Exchange(id, src, Tell(src, PutOk(msg.req_id)))
           /\ server' = [server EXCEPT ![id].value = msg.value]
  <2>. DEFINE reply == PutOk(msg.req_id)
  <2>1. reply \in Reply /\ SameRequest(reply, msg)
    BY <1>2, <1>6 DEF PutOk, Reply, SameRequest, Asks
  <2>. HIDE DEF reply
  <2>2. Sendable(id, Tell(Client, reply))
    BY <1>2, <1>3, <2>1, TellIsSendable
  <2>3. Answers(Tell(Client, reply), msg)
    BY <1>1, <2>1, SentToTheClient DEF Answers
  <2>4. msg.value \in Value
    BY <1>1, <1>6, MessageFields
  <2>5. /\ server'[id] = [fiber |-> server[id].fiber, clock |-> server[id].clock, value |-> msg.value]
        /\ \A other \in Server : other # id => server'[other] = server[other]
        /\ ServersOK'
    BY <1>1, <1>4, <1>6, <2>4, StoreKeepsServersOK
  <2>6. HoldsOn(id)
    BY <2>5 DEF HoldsOn, Busy, Held, SameRequest
  <2>7. Conduct(id, src, Tell(Client, reply))
    BY <1>2, <2>3, <2>6 DEF Conduct, Turns
  <2>8. Exchange(id, src, Tell(Client, reply))
    BY <1>2, <1>6 DEF reply
  <2>9. Pursues(id, src, msg.type, Tell(Client, reply))
    <3>1. msg.type # ResponseOf(server[id].fiber)
      BY <1>6 DEF ResponseOf
    <3>2. server'[id].fiber = server[id].fiber
      BY <2>5
    <3>. QED  BY <1>6, <3>1, <3>2, UnchangedGoesOn DEF Pursues
  <2>. QED  BY <2>2, <2>5, <2>7, <2>8, <2>9 DEF ServerStep, Turns
<1>. QED  BY <1>5, <1>6 DEF ServeAlone

(***************************************************************************)
(* A server of kv.rs between two requests.                                 *)
(***************************************************************************)
LEMMA IdleSteps ==
    ASSUME NEW id, NEW src, NEW msg, Turns(id, src, msg), ~Busy(id), ServeIdle(id, src, msg)
    PROVE  \E out : ServerStep(id, src, out)
<1>1. msg \in MsgFor(id, src) /\ cfg \in Configuration /\ Typed /\ cfg' = cfg /\ id \in Server /\ src \in Actor
  BY TurnsToMessage DEF Turns
<1>2. server[id].clock \in LogicalClock /\ server[id].value \in Value /\ id # Client
  BY <1>1, ActorsAre DEF Typed, ServerOK
<1>3. CASE /\ msg.type \in {"Get", "Put"}
           /\ Become(id, Phase1(src, msg, << >>))
           /\ Exchange(id, src, Broadcast(InternalGet))
  <2>. DEFINE fiber == Phase1(src, msg, << >>)
  <2>1. src = Client /\ msg \in ClientMsg
    BY <1>1, <1>3, MessageFields
  <2>2. /\ fiber.state = "phase1" /\ fiber.src = src /\ fiber.msg = msg /\ fiber.responses = << >>
    BY DEF Phase1
  <2>3. DOMAIN << >> = {} /\ Cardinality({}) = 0 /\ Quorum > 0
    BY <1>1, ActorsAre, FS_EmptySet
  <2>. HIDE DEF fiber
  <2>4. FiberOK(fiber)
    BY <2>1, <2>2, <2>3 DEF FiberOK
  <2>5. /\ ServersOK' /\ server'[id].fiber = fiber
        /\ \A other \in Server : other # id => server'[other] = server[other]
    BY <1>1, <1>3, <2>4, BecomeKeepsServersOK DEF fiber
  <2>6. Busy(id)' /\ SameRequest(Held(id)', msg)
    BY <2>2, <2>5 DEF Busy, Held, SameRequest
  <2>7. InternalGet \in InternalMsg
    BY DEF InternalGet, InternalMsg
  <2>8. Sendable(id, Broadcast(InternalGet)) /\ Broadcast(InternalGet)[Client] = << >>
    BY <1>1, <2>7, BroadcastIsSendable, SentToTheClient
  <2>9. Conduct(id, src, Broadcast(InternalGet))
    BY <2>1, <2>6, <2>8 DEF Conduct, Turns
  <2>10. Pursues(id, src, msg.type, Broadcast(InternalGet))
    <3>1. QuestionOf(server'[id].fiber) = InternalGet.type
      BY <2>2, <2>5 DEF QuestionOf, InternalGet
    <3>2. \A s \in Server : Sends(Broadcast(InternalGet), s, InternalGet.type)
      BY <1>1, BroadcastSends
    <3>. QED  BY <1>3, <3>1, <3>2 DEF Pursues, GoesOn
  <2>. QED  BY <1>3, <2>5, <2>8, <2>9, <2>10 DEF ServerStep, Turns
<1>4. CASE /\ msg.type = "InternalGet"
           /\ Exchange(id, src, Tell(src, InternalGetOk(server[id].clock, server[id].value)))
           /\ UNCHANGED <<server, asserted>>
  <2>. DEFINE reply == InternalGetOk(server[id].clock, server[id].value)
  <2>1. src \in Server
    BY <1>1, <1>4, MessageFields
  <2>2. reply \in MsgFor(src, id)
    <3>1. reply \in InternalMsg
      BY <1>2 DEF InternalGetOk, InternalMsg
    <3>2. src # Client
      BY <1>1, <2>1, ActorsAre
    <3>. QED  BY <1>2, <3>1, <3>2 DEF MsgFor
  <2>. HIDE DEF reply
  <2>3. Sendable(id, Tell(src, reply)) /\ Tell(src, reply)[Client] = << >>
    BY <1>1, <2>1, <2>2, TellIsSendable, SentToTheClient
  <2>4. Conduct(id, src, Tell(src, reply))
    BY <1>1, <1>4, <2>1, <2>3, UnchangedHoldsOn, ActorsAre DEF Conduct
  <2>5. ServersOK'
    BY <1>1, <1>4, UnchangedServersOK
  <2>6. Exchange(id, src, Tell(src, reply))
    BY <1>4 DEF reply
  <2>7. Pursues(id, src, msg.type, Tell(src, reply))
    <3>1. reply.type = "InternalGetOk"
      BY DEF reply, InternalGetOk
    <3>2. Sends(Tell(src, reply), src, "InternalGetOk")
      BY <1>1, <3>1, TellSends
    <3>. QED  BY <1>4, <3>2, UnchangedGoesOn DEF Pursues
  <2>. QED  BY <1>4, <2>3, <2>4, <2>5, <2>6, <2>7 DEF ServerStep, Turns
<1>5. CASE /\ msg.type = "InternalPut"
           /\ server' = IF asserted' /\ ClockLess(server[id].clock, msg.clock)
                        THEN [server EXCEPT ![id].clock = msg.clock, ![id].value = msg.value]
                        ELSE server
           /\ Exchange(id, src, IF asserted' THEN Tell(src, InternalPutOk) ELSE Silence)
  <2>. DEFINE out == IF asserted' THEN Tell(src, InternalPutOk) ELSE Silence
  <2>1. src \in Server /\ msg.clock \in LogicalClock /\ msg.value \in Value
    BY <1>1, <1>5, MessageFields
  <2>2. Sendable(id, out) /\ out[Client] = << >>
    <3>1. InternalPutOk \in MsgFor(src, id)
      <4>1. InternalPutOk \in InternalMsg
        BY DEF InternalPutOk, InternalMsg
      <4>2. src # Client
        BY <1>1, <2>1, ActorsAre
      <4>. QED  BY <1>2, <4>1, <4>2 DEF MsgFor
    <3>2. Sendable(id, Tell(src, InternalPutOk)) /\ Tell(src, InternalPutOk)[Client] = << >>
      BY <1>1, <2>1, <3>1, TellIsSendable, SentToTheClient
    <3>3. Sendable(id, Silence) /\ Silence[Client] = << >>
      BY <1>1, SilenceIsSendable, SentToTheClient
    <3>. QED  BY <3>2, <3>3
  <2>3. ServersOK' /\ HoldsOn(id) /\ \A other \in Server : other # id => server'[other] = server[other]
    <3>1. CASE server' = server
      BY <1>1, <3>1, UnchangedServersOK, UnchangedHoldsOn
    <3>2. CASE server' = [server EXCEPT ![id].clock = msg.clock, ![id].value = msg.value]
      <4>1. /\ ServersOK'
            /\ server'[id] = [fiber |-> server[id].fiber, clock |-> msg.clock, value |-> msg.value]
            /\ \A other \in Server : other # id => server'[other] = server[other]
        BY <1>1, <2>1, <3>2, StoreKeepsServersOK
      <4>2. server'[id].fiber = server[id].fiber
        BY <4>1
      <4>. QED  BY <4>1, <4>2 DEF HoldsOn, Busy, Held, SameRequest
    <3>. QED  BY <1>5, <3>1, <3>2
  <2>4. Exchange(id, src, out)
    BY <1>5
  <2>5. asserted' => Sends(out, src, "InternalPutOk")
    <3>1. InternalPutOk.type = "InternalPutOk"
      BY DEF InternalPutOk
    <3>. QED  BY <1>1, <3>1, TellSends
  <2>. HIDE DEF out
  <2>6. Conduct(id, src, out)
    BY <1>1, <2>1, <2>2, <2>3, ActorsAre DEF Conduct
  <2>7. Pursues(id, src, msg.type, out)
    BY <1>5, <2>3, <2>5 DEF Pursues, HoldsOn
  <2>. QED  BY <2>2, <2>3, <2>4, <2>6, <2>7 DEF ServerStep, Turns
<1>6. CASE /\ msg.type \in {"InternalGetOk", "InternalPutOk"}
           /\ Exchange(id, src, Silence)
           /\ UNCHANGED <<server, asserted>>
  <2>1. Sendable(id, Silence) /\ Silence[Client] = << >>
    BY <1>1, SilenceIsSendable, SentToTheClient
  <2>2. Conduct(id, src, Silence)
    BY <1>1, <1>6, <2>1, UnchangedHoldsOn, MessageFields DEF Conduct
  <2>3. ServersOK'
    BY <1>1, <1>6, UnchangedServersOK
  <2>4. Pursues(id, src, msg.type, Silence)
    BY <1>6, UnchangedGoesOn DEF Pursues
  <2>. QED  BY <1>6, <2>1, <2>2, <2>3, <2>4 DEF ServerStep, Turns
<1>. QED  BY <1>3, <1>4, <1>5, <1>6 DEF ServeIdle

\* The servers are finitely many.
LEMMA ServersAreFinite ==
    ASSUME cfg \in Configuration, NEW S \in SUBSET Server
    PROVE  IsFiniteSet(S)
<1>1. cfg.servers \in Nat
  BY ActorsAre
<1>2. IsFiniteSet(1 .. cfg.servers)
  BY <1>1, FS_Interval
<1>. QED  BY <1>2, FS_Subset DEF Server

\* A server that takes no notice of a message, as it waits for another, drops it.
LEMMA SilentSteps ==
    ASSUME NEW id, NEW src, NEW msg, Turns(id, src, msg), Busy(id),
           msg.type # ResponseOf(server[id].fiber),
           server' = server, Exchange(id, src, Silence)
    PROVE  \E out : ServerStep(id, src, out)
<1>1. cfg \in Configuration /\ Typed /\ cfg' = cfg /\ id \in Server
  BY TurnsToMessage DEF Turns
<1>2. Sendable(id, Silence) /\ Silence[Client] = << >>
  BY <1>1, SilenceIsSendable, SentToTheClient
<1>3. Conduct(id, src, Silence)
  BY <1>2, UnchangedHoldsOn DEF Conduct
<1>4. ServersOK'
  BY <1>1, UnchangedServersOK
<1>5. Pursues(id, src, msg.type, Silence)
  BY UnchangedGoesOn DEF Pursues
<1>. QED  BY <1>2, <1>3, <1>4, <1>5 DEF ServerStep, Turns

\* A server that goes on with what it is about, in one phase or the next.
LEMMA HoldingSteps ==
    ASSUME NEW id, NEW src, NEW msg, Turns(id, src, msg), Busy(id),
           NEW fiber, Become(id, fiber), FiberOK(fiber), fiber.state # "idle",
           SameRequest(IF fiber.state = "phase1" THEN fiber.msg ELSE fiber.reply, Held(id)),
           NEW out, Exchange(id, src, out), Sendable(id, out), out[Client] = << >>,
           GoesOn(server[id].fiber, fiber, src, msg.type, out)
    PROVE  ServerStep(id, src, out)
<1>1. cfg \in Configuration /\ Typed /\ cfg' = cfg /\ id \in Server
  BY TurnsToMessage DEF Turns
<1>2. /\ ServersOK' /\ server'[id].fiber = fiber
      /\ \A other \in Server : other # id => server'[other] = server[other]
  BY <1>1, BecomeKeepsServersOK
<1>3. Busy(id)' /\ Held(id)' = IF fiber.state = "phase1" THEN fiber.msg ELSE fiber.reply
  BY <1>2 DEF Busy, Held
<1>4. HoldsOn(id)
  BY <1>3 DEF HoldsOn
<1>5. Pursues(id, src, msg.type, out)
  BY <1>2 DEF Pursues
<1>. QED  BY <1>2, <1>4, <1>5 DEF ServerStep, Conduct, Turns

\* A server that answers the request that it is about.
LEMMA AnsweringSteps ==
    ASSUME NEW id, NEW src, NEW msg, Turns(id, src, msg), Busy(id), src # Client,
           Become(id, Idle), NEW reply \in Reply, SameRequest(reply, Held(id)),
           Exchange(id, src, Tell(Client, reply))
    PROVE  ServerStep(id, src, Tell(Client, reply))
<1>1. cfg \in Configuration /\ Typed /\ cfg' = cfg /\ id \in Server
  BY TurnsToMessage DEF Turns
<1>2. Idle.state = "idle"
  BY DEF Idle
<1>3. FiberOK(Idle)
  BY <1>2 DEF FiberOK
<1>4. /\ ServersOK' /\ server'[id].fiber = Idle
      /\ \A other \in Server : other # id => server'[other] = server[other]
  BY <1>1, <1>3, BecomeKeepsServersOK
<1>5. ~Busy(id)'
  BY <1>2, <1>4 DEF Busy
<1>6. reply \in MsgFor(Client, id) /\ Client \in Actor
  BY <1>1, ActorsAre DEF MsgFor
<1>7. Sendable(id, Tell(Client, reply))
  BY <1>6, TellIsSendable
<1>8. Answers(Tell(Client, reply), Held(id))
  BY <1>1, SentToTheClient DEF Answers
<1>9. Pursues(id, src, msg.type, Tell(Client, reply))
  BY <1>5 DEF Pursues
<1>. QED  BY <1>4, <1>5, <1>7, <1>8, <1>9 DEF ServerStep, Conduct, Turns

(***************************************************************************)
(* A server that waits for the second phase.                               *)
(***************************************************************************)
LEMMA AckSteps ==
    ASSUME NEW id, NEW src, NEW msg, Turns(id, src, msg), server[id].fiber.state = "phase2",
           CollectAcks(id, src, msg)
    PROVE  \E out : ServerStep(id, src, out)
<1>. DEFINE fiber == server[id].fiber
            acks  == fiber.acks \cup {src}
            next  == Phase2(fiber.src, fiber.reply, acks)
<1>1. msg \in MsgFor(id, src) /\ cfg \in Configuration /\ Typed /\ cfg' = cfg /\ id \in Server /\ src \in Actor
  BY TurnsToMessage DEF Turns
<1>2. FiberOK(fiber)
  BY <1>1 DEF Typed, ServerOK
<1>3. fiber.src = Client /\ fiber.reply \in Reply /\ fiber.acks \subseteq Server
  BY <1>2 DEF FiberOK
<1>4. Busy(id) /\ Held(id) = fiber.reply
  BY DEF Busy, Held
<1>5. CASE msg.type # "InternalPutOk"
  <2>1. server' = server /\ Exchange(id, src, Silence)
    BY <1>5 DEF CollectAcks
  <2>2. msg.type # ResponseOf(server[id].fiber)
    BY <1>5 DEF ResponseOf
  <2>. QED  BY <1>4, <2>1, <2>2, SilentSteps
<1>6. CASE msg.type = "InternalPutOk" /\ Cardinality(acks) < Quorum
  <2>1. Become(id, next) /\ Exchange(id, src, Silence)
    BY <1>6 DEF CollectAcks
  <2>2. src \in Server
    BY <1>1, <1>6, MessageFields
  <2>3. /\ next.state = "phase2" /\ next.src = fiber.src /\ next.reply = fiber.reply
        /\ next.acks = acks /\ acks \subseteq Server
    BY <1>3, <2>2 DEF Phase2
  <2>. HIDE DEF next
  <2>4. FiberOK(next)
    BY <1>3, <1>6, <2>3 DEF FiberOK
  <2>5. Sendable(id, Silence) /\ Silence[Client] = << >>
    BY <1>1, SilenceIsSendable, SentToTheClient
  <2>6. /\ next.state # "idle"
        /\ SameRequest(IF next.state = "phase1" THEN next.msg ELSE next.reply, Held(id))
    BY <1>4, <2>3 DEF SameRequest
  <2>7. GoesOn(fiber, next, src, msg.type, Silence)
    BY <2>3 DEF GoesOn, HeardBy
  <2>8. ServerStep(id, src, Silence)
    BY <1>4, <2>1, <2>4, <2>5, <2>6, <2>7, HoldingSteps
  <2>. QED  BY <2>8
<1>7. CASE msg.type = "InternalPutOk" /\ ~(Cardinality(acks) < Quorum)
  <2>1. Become(id, Idle) /\ Exchange(id, src, Tell(fiber.src, fiber.reply))
    BY <1>7 DEF CollectAcks
  <2>2. src # Client
    BY <1>1, <1>7, MessageFields
  <2>3. SameRequest(fiber.reply, Held(id))
    BY <1>4 DEF SameRequest
  <2>4. ServerStep(id, src, Tell(Client, fiber.reply))
    BY <1>3, <1>4, <2>1, <2>2, <2>3, AnsweringSteps
  <2>. QED  BY <2>4
<1>. QED  BY <1>5, <1>6, <1>7

(***************************************************************************)
(* A server that waits for the first phase.                                *)
(***************************************************************************)
LEMMA CollectSteps ==
    ASSUME NEW id, NEW src, NEW msg, Turns(id, src, msg), server[id].fiber.state = "phase1",
           CollectResponses(id, src, msg)
    PROVE  \E out : ServerStep(id, src, out)
<1>. DEFINE fiber     == server[id].fiber
            responses == [s \in DOMAIN fiber.responses \cup {src} |->
                            IF s = src THEN [clock |-> msg.clock, value |-> msg.value]
                            ELSE fiber.responses[s]]
            latest    == Latest({responses[s] : s \in DOMAIN responses})
            few       == Cardinality(DOMAIN responses) < Quorum
            agree     == \A s \in DOMAIN responses : responses[s].clock = latest.clock
            Stores(reply, clock, value) ==
                /\ Become(id, Phase2(fiber.src, reply, {}))
                /\ Exchange(id, src, Broadcast(InternalPut(clock, value)))
<1>1. msg \in MsgFor(id, src) /\ cfg \in Configuration /\ Typed /\ cfg' = cfg /\ id \in Server /\ src \in Actor
  BY TurnsToMessage DEF Turns
<1>2. FiberOK(fiber)
  BY <1>1 DEF Typed, ServerOK
<1>3. /\ fiber.src = Client /\ fiber.msg \in ClientMsg
      /\ DOMAIN fiber.responses \subseteq Server
      /\ \A s \in DOMAIN fiber.responses : fiber.responses[s] \in Response
  BY <1>2 DEF FiberOK
<1>4. Busy(id) /\ Held(id) = fiber.msg
  BY DEF Busy, Held
<1>5. IF msg.type # "InternalGetOk" THEN server' = server /\ Exchange(id, src, Silence)
      ELSE IF few
      THEN Become(id, Phase1(fiber.src, fiber.msg, responses)) /\ Exchange(id, src, Silence)
      ELSE IF fiber.msg.type = "Put"
      THEN Stores(PutOk(fiber.msg.req_id), << latest.clock[1] + 1, id >>, fiber.msg.value)
      ELSE IF agree
      THEN /\ Become(id, Idle)
           /\ Exchange(id, src, Tell(fiber.src, GetOk(fiber.msg.req_id, latest.value)))
      ELSE Stores(GetOk(fiber.msg.req_id, latest.value), latest.clock, latest.value)
  BY DEF CollectResponses
<1>6. CASE msg.type # "InternalGetOk"
  <2>1. msg.type # ResponseOf(server[id].fiber)
    BY <1>6 DEF ResponseOf
  <2>. QED  BY <1>4, <1>5, <1>6, <2>1, SilentSteps
<1>7. CASE msg.type = "InternalGetOk"
  <2>1. src \in Server /\ src # Client /\ msg.clock \in LogicalClock /\ msg.value \in Value
    BY <1>1, <1>7, MessageFields
  <2>2. [clock |-> msg.clock, value |-> msg.value] \in Response
    BY <2>1 DEF Response
  <2>3. /\ DOMAIN responses \subseteq Server /\ src \in DOMAIN responses
        /\ \A s \in DOMAIN responses : responses[s] \in Response
        /\ responses = [s \in DOMAIN responses |-> responses[s]]
    BY <1>3, <2>1, <2>2
  <2>. HIDE DEF responses
  <2>4. latest \in Response
    <3>. DEFINE S == {responses[s] : s \in DOMAIN responses}
    <3>1. S \subseteq Response /\ S # {}
      BY <2>3
    <3>2. IsFiniteSet(DOMAIN responses)
      BY <1>1, <2>3, ServersAreFinite
    <3>3. IsFiniteSet(S)
      <4>1. responses \in Surjection(DOMAIN responses, S)
        BY <2>3 DEF Surjection
      <4>. HIDE DEF S
      <4>. QED  BY <3>2, <4>1, FS_Surjection
    <3>. HIDE DEF S
    <3>4. Latest(S) \in S
      BY <3>1, <3>3, LatestIsOne
    <3>. QED  BY <3>1, <3>4 DEF S
  <2>. HIDE DEF latest, few, agree
  <2>5. /\ latest.clock \in LogicalClock /\ latest.value \in Value /\ latest.clock[1] \in Nat
    BY <2>4, ResponseIs DEF Response
  <2>6. fiber.msg.type \in {"Get", "Put"} /\ fiber.msg.req_id \in Nat
        /\ (fiber.msg.type = "Put" => fiber.msg.value \in Value)
    BY <1>3 DEF ClientMsg
  <2>7. /\ fiber.msg.type = "Get" =>
              /\ GetOk(fiber.msg.req_id, latest.value) \in Reply
              /\ SameRequest(GetOk(fiber.msg.req_id, latest.value), fiber.msg)
        /\ fiber.msg.type = "Put" =>
              /\ PutOk(fiber.msg.req_id) \in Reply
              /\ SameRequest(PutOk(fiber.msg.req_id), fiber.msg)
    BY <2>5, <2>6 DEF GetOk, PutOk, Reply, SameRequest, Asks
  <2>8. ASSUME NEW reply \in Reply, NEW clock \in LogicalClock, NEW value \in Value,
               SameRequest(reply, fiber.msg), Stores(reply, clock, value)
        PROVE  \E out : ServerStep(id, src, out)
    <3>. DEFINE next == Phase2(fiber.src, reply, {})
                put  == InternalPut(clock, value)
    <3>1. /\ next.state = "phase2" /\ next.src = Client /\ next.reply = reply /\ next.acks = {}
      BY <1>3 DEF Phase2
    <3>2. put \in InternalMsg
      BY DEF InternalPut, InternalMsg
    <3>3. Become(id, next) /\ Exchange(id, src, Broadcast(put))
      BY <2>8
    <3>. HIDE DEF next, put
    <3>4. Cardinality({}) < Quorum
      BY <1>1, ActorsAre, FS_EmptySet
    <3>5. FiberOK(next)
      BY <3>1, <3>4 DEF FiberOK
    <3>6. Sendable(id, Broadcast(put)) /\ Broadcast(put)[Client] = << >>
      BY <1>1, <3>2, BroadcastIsSendable, SentToTheClient
    <3>7. /\ next.state # "idle"
          /\ SameRequest(IF next.state = "phase1" THEN next.msg ELSE next.reply, Held(id))
      BY <1>4, <2>8, <3>1
    <3>8. GoesOn(fiber, next, src, msg.type, Broadcast(put))
      <4>1. \A s \in Server : Sends(Broadcast(put), s, put.type)
        BY <1>1, BroadcastSends
      <4>2. put.type = QuestionOf(next)
        BY <3>1 DEF put, InternalPut, QuestionOf
      <4>. QED  BY <4>1, <4>2 DEF GoesOn
    <3>9. ServerStep(id, src, Broadcast(put))
      BY <1>4, <3>3, <3>5, <3>6, <3>7, <3>8, HoldingSteps
    <3>. QED  BY <3>9
  <2>9. CASE few
    <3>. DEFINE next == Phase1(fiber.src, fiber.msg, responses)
    <3>1. Become(id, next) /\ Exchange(id, src, Silence)
      BY <1>5, <1>7, <2>9
    <3>2. /\ next.state = "phase1" /\ next.src = Client /\ next.msg = fiber.msg
          /\ next.responses = responses
      BY <1>3 DEF Phase1
    <3>. HIDE DEF next
    <3>3. FiberOK(next)
      BY <1>3, <2>3, <2>9, <3>2 DEF FiberOK, few
    <3>4. Sendable(id, Silence) /\ Silence[Client] = << >>
      BY <1>1, SilenceIsSendable, SentToTheClient
    <3>5. /\ next.state # "idle"
          /\ SameRequest(IF next.state = "phase1" THEN next.msg ELSE next.reply, Held(id))
      BY <1>4, <3>2 DEF SameRequest
    <3>6. GoesOn(fiber, next, src, msg.type, Silence)
      <4>1. DOMAIN fiber.responses \subseteq DOMAIN responses
        BY DEF responses
      <4>. QED  BY <2>3, <3>2, <4>1 DEF GoesOn, HeardBy
    <3>7. ServerStep(id, src, Silence)
      BY <1>4, <3>1, <3>3, <3>4, <3>5, <3>6, HoldingSteps
    <3>. QED  BY <3>7
  <2>10. CASE ~few /\ fiber.msg.type = "Put"
    <3>1. Stores(PutOk(fiber.msg.req_id), << latest.clock[1] + 1, id >>, fiber.msg.value)
      BY <1>5, <1>7, <2>10
    <3>2. << latest.clock[1] + 1, id >> \in LogicalClock
      <4>1. id \in Nat
        BY <1>1, ActorsAre
      <4>. QED  BY <2>5, <4>1 DEF LogicalClock
    <3>. HIDE DEF Stores
    <3>. QED  BY <2>6, <2>7, <2>8, <2>10, <3>1, <3>2
  <2>11. CASE ~few /\ fiber.msg.type = "Get" /\ agree
    <3>. DEFINE reply == GetOk(fiber.msg.req_id, latest.value)
    <3>1. Become(id, Idle) /\ Exchange(id, src, Tell(Client, reply))
      BY <1>3, <1>5, <1>7, <2>11
    <3>2. reply \in Reply /\ SameRequest(reply, Held(id))
      BY <1>4, <2>7, <2>11
    <3>. HIDE DEF reply
    <3>3. ServerStep(id, src, Tell(Client, reply))
      BY <1>4, <2>1, <3>1, <3>2, AnsweringSteps
    <3>. QED  BY <3>3
  <2>12. CASE ~few /\ fiber.msg.type = "Get" /\ ~agree
    <3>1. Stores(GetOk(fiber.msg.req_id, latest.value), latest.clock, latest.value)
      BY <1>5, <1>7, <2>12
    <3>. HIDE DEF Stores
    <3>. QED  BY <2>5, <2>7, <2>8, <2>12, <3>1
  <2>. QED  BY <2>6, <2>9, <2>10, <2>11, <2>12
<1>. QED  BY <1>6, <1>7

(***************************************************************************)
(* Whatever its state, a server handles a message like this.               *)
(***************************************************************************)
LEMMA ServeSteps ==
    ASSUME Typed, NEW id \in Server, Serve(id)
    PROVE  \E src \in Actor : \E out :
              inbox_by_src[id][src] # << >> /\ ServerStep(id, src, out)
<1>1. PICK src \in Actor :
         /\ inbox_by_src[id][src] # << >>
         /\ LET msg == Head(inbox_by_src[id][src])
            IN  CASE ~cfg.replicated -> ServeAlone(id, src, msg)
                  [] cfg.replicated /\ server[id].fiber.state = "idle" -> ServeIdle(id, src, msg)
                  [] cfg.replicated /\ server[id].fiber.state = "phase1" ->
                        CollectResponses(id, src, msg)
                  [] cfg.replicated /\ server[id].fiber.state = "phase2" ->
                        CollectAcks(id, src, msg)
  BY DEF Serve
<1>. DEFINE msg == Head(inbox_by_src[id][src])
<1>2. Turns(id, src, msg)
  BY <1>1 DEF Turns, Serve
<1>3. server[id].fiber.state \in {"idle", "phase1", "phase2"}
  BY DEF Typed, ServerOK, FiberOK
<1>4. \/ ServeAlone(id, src, msg)
      \/ ~Busy(id) /\ ServeIdle(id, src, msg)
      \/ server[id].fiber.state = "phase1" /\ CollectResponses(id, src, msg)
      \/ server[id].fiber.state = "phase2" /\ CollectAcks(id, src, msg)
  BY <1>1, <1>3 DEF Busy
<1>. HIDE DEF msg
<1>5. \E out : ServerStep(id, src, out)
  BY <1>2, <1>4, AloneSteps, IdleSteps, CollectSteps, AckSteps
<1>. QED  BY <1>1, <1>5

-----------------------------------------------------------------------------
(* The client                                                              *)

(***************************************************************************)
(* The slots in use hold different identifiers, all of them given out, and *)
(* are the threads that the tester knows to have an operation in flight.   *)
(***************************************************************************)
ClientOK(c) ==
    LET slots == c.thread_idx_to_request_id
    IN  /\ c = [tester |-> c.tester, next_req_id |-> c.next_req_id,
                thread_idx_to_request_id |-> slots, panicked |-> c.panicked]
        /\ c.tester = [init_ref_obj |-> c.tester.init_ref_obj,
                       history_by_thread |-> c.tester.history_by_thread,
                       in_flight_by_thread |-> c.tester.in_flight_by_thread,
                       is_valid_history |-> TRUE]
        /\ c.next_req_id \in Nat \ {0}
        /\ slots \in Seq(Nat)
        /\ \A t \in DOMAIN slots : slots[t] < c.next_req_id
        /\ \A t, u \in DOMAIN slots : slots[t] = slots[u] /\ slots[t] # None => t = u
        /\ DOMAIN c.tester.in_flight_by_thread = {t \in DOMAIN slots : slots[t] # None}
        /\ c.panicked \in {"None", "inconsistent"}

\* The message has a slot of the client, which knows what kind it is of.
HasSlot(c, msg) ==
    \E t \in DOMAIN c.thread_idx_to_request_id :
        /\ c.thread_idx_to_request_id[t] = msg.req_id /\ msg.req_id # None
        /\ Asks(msg) <=> c.tester.in_flight_by_thread[t].op = Read

\* The client at first.
LEMMA NewClientIsOK == ClientOK(NewClient(Register(0)))
<1>1. DOMAIN [t \in {} |-> << >>] = {}
  OBVIOUS
<1>2. << >> \in Seq(Nat) /\ DOMAIN << >> = {}
  OBVIOUS
<1>3. REQUEST_ID_SKIP \in Nat \ {0}
  BY DEF REQUEST_ID_SKIP
<1>. HIDE DEF REQUEST_ID_SKIP
<1>. QED  BY <1>1, <1>2, <1>3 DEF ClientOK, NewClient, Tester!New

\* The slot of the next request is free, and one of the slots or the next one.
LEMMA FreeSlotIs ==
    ASSUME NEW slots \in Seq(Nat)
    PROVE  \/ FreeSlot(slots) \in DOMAIN slots /\ slots[FreeSlot(slots)] = None
           \/ FreeSlot(slots) = Len(slots) + 1
<1>. DEFINE free == {t \in DOMAIN slots : slots[t] = None}
<1>1. CASE free = {}
  BY <1>1 DEF FreeSlot
<1>2. CASE free # {}
  <2>1. free \in SUBSET Nat
    OBVIOUS
  <2>. HIDE DEF free
  <2>2. \E t \in free : \A u \in free : t <= u
    BY <1>2, <2>1, Least
  <2>3. FreeSlot(slots) = CHOOSE t \in free : \A u \in free : t <= u
    BY <1>2 DEF FreeSlot, free
  <2>4. FreeSlot(slots) \in free
    BY <2>2, <2>3
  <2>. QED  BY <2>4 DEF free
<1>. QED  BY <1>1, <1>2

\* The slot t of c holds req_id in d, and the operation op is in flight there.
Occupies(c, d, t, op) ==
    LET old == c.thread_idx_to_request_id
        new == d.thread_idx_to_request_id
        was == c.tester.in_flight_by_thread
        is  == d.tester.in_flight_by_thread
    IN  /\ t \notin DOMAIN was
        /\ new \in Seq(Nat) /\ DOMAIN new = DOMAIN old \cup {t}
        /\ new[t] = c.next_req_id /\ \A u \in DOMAIN old : u # t => new[u] = old[u]
        /\ DOMAIN is = DOMAIN was \cup {t}
        /\ is[t].op = op /\ \A u \in DOMAIN was : is[u] = was[u]

\* What invoke does to a client.
LEMMA InvokeIs ==
    ASSUME NEW c, ClientOK(c), NEW op
    PROVE  LET d == Invoke(c, op)
           IN  /\ d = [tester |-> d.tester, next_req_id |-> d.next_req_id,
                       thread_idx_to_request_id |-> d.thread_idx_to_request_id,
                       panicked |-> "None"]
               /\ d.tester = [init_ref_obj |-> c.tester.init_ref_obj,
                              history_by_thread |-> c.tester.history_by_thread,
                              in_flight_by_thread |-> d.tester.in_flight_by_thread,
                              is_valid_history |-> TRUE]
               /\ d.next_req_id = c.next_req_id + REQUEST_ID_SKIP
               /\ \E t : Occupies(c, d, t, op)
<1>. DEFINE d      == Invoke(c, op)
            slots  == c.thread_idx_to_request_id
            flying == c.tester.in_flight_by_thread
            t      == FreeSlot(slots)
            tester == Tester!OnInvoke(c.tester, t, op)
            inside == [completed |-> Tester!LastCompleted(c.tester, t), op |-> op]
            is     == [u \in DOMAIN flying \cup {t} |-> IF u = t THEN inside ELSE flying[u]]
            new    == IF t > Len(slots) THEN Append(slots, c.next_req_id)
                      ELSE [slots EXCEPT ![t] = c.next_req_id]
<1>1. /\ slots \in Seq(Nat) /\ c.next_req_id \in Nat \ {0}
      /\ DOMAIN flying = {u \in DOMAIN slots : slots[u] # None}
  BY DEF ClientOK
<1>2. (t \in DOMAIN slots /\ slots[t] = None) \/ t = Len(slots) + 1
  BY <1>1, FreeSlotIs
<1>. HIDE DEF t
<1>3. t \notin DOMAIN flying
  BY <1>1, <1>2
<1>4. c.tester = [init_ref_obj |-> c.tester.init_ref_obj,
                  history_by_thread |-> c.tester.history_by_thread,
                  in_flight_by_thread |-> flying,
                  is_valid_history |-> TRUE]
  BY DEF ClientOK
<1>5. tester = [c.tester EXCEPT !.in_flight_by_thread = is]
  <2>1. c.tester.is_valid_history /\ ~Tester!IsInFlight(c.tester, t)
    BY <1>3, <1>4 DEF Tester!IsInFlight
  <2>. QED  BY <2>1 DEF Tester!OnInvoke
<1>. HIDE DEF is
<1>6. tester = [init_ref_obj |-> c.tester.init_ref_obj,
                history_by_thread |-> c.tester.history_by_thread,
                in_flight_by_thread |-> is,
                is_valid_history |-> TRUE]
  <2>1. PICK r : r = c.tester
    OBVIOUS
  <2>2. /\ r = [init_ref_obj |-> r.init_ref_obj, history_by_thread |-> r.history_by_thread,
             in_flight_by_thread |-> r.in_flight_by_thread, is_valid_history |-> r.is_valid_history]
       /\ r.is_valid_history = TRUE
    BY <1>4, <2>1
  <2>3. [r EXCEPT !.in_flight_by_thread = is]
           = [init_ref_obj |-> r.init_ref_obj, history_by_thread |-> r.history_by_thread,
              in_flight_by_thread |-> is, is_valid_history |-> r.is_valid_history]
    BY <2>2
  <2>. HIDE DEF tester
  <2>. QED  BY <1>5, <2>1, <2>2, <2>3
<1>7. d = [c EXCEPT !.thread_idx_to_request_id = new, !.tester = tester,
                    !.panicked = IF tester.is_valid_history THEN "None" ELSE "on_invoke",
                    !.next_req_id = Skip(c)]
  BY DEF Invoke, t
<1>8. c = [tester |-> c.tester, next_req_id |-> c.next_req_id,
           thread_idx_to_request_id |-> slots, panicked |-> c.panicked]
  BY DEF ClientOK
<1>. HIDE DEF tester, new, d
<1>9. /\ d = [tester |-> tester, next_req_id |-> Skip(c), thread_idx_to_request_id |-> new,
              panicked |-> "None"]
  BY <1>6, <1>7, <1>8
<1>10. /\ new \in Seq(Nat) /\ DOMAIN new = DOMAIN slots \cup {t}
       /\ new[t] = c.next_req_id /\ \A u \in DOMAIN slots : u # t => new[u] = slots[u]
  BY <1>1, <1>2 DEF new
<1>11. /\ DOMAIN is = DOMAIN flying \cup {t}
       /\ is[t].op = op /\ \A u \in DOMAIN flying : is[u] = flying[u]
  BY <1>3 DEF is
<1>12. Occupies(c, d, t, op)
  BY <1>3, <1>6, <1>9, <1>10, <1>11 DEF Occupies
<1>13. d.tester = [init_ref_obj |-> c.tester.init_ref_obj,
                   history_by_thread |-> c.tester.history_by_thread,
                   in_flight_by_thread |-> d.tester.in_flight_by_thread,
                   is_valid_history |-> TRUE]
  BY <1>6, <1>9
<1>14. /\ d = [tester |-> d.tester, next_req_id |-> d.next_req_id,
               thread_idx_to_request_id |-> d.thread_idx_to_request_id, panicked |-> "None"]
       /\ d.next_req_id = c.next_req_id + REQUEST_ID_SKIP
  BY <1>9 DEF Skip
<1>. QED  BY <1>12, <1>13, <1>14 DEF d

(***************************************************************************)
(* A request that is sent has a slot from then on, and those before it     *)
(* keep theirs.                                                            *)
(***************************************************************************)
LEMMA InvokeGivesASlot ==
    ASSUME NEW c, ClientOK(c), NEW op \in Operation
    PROVE  /\ ClientOK(Invoke(c, op))
           /\ HasSlot(Invoke(c, op), Request(c.next_req_id, op))
           /\ \A msg : HasSlot(c, msg) => HasSlot(Invoke(c, op), msg)
<1>. DEFINE d     == Invoke(c, op)
            old   == c.thread_idx_to_request_id
            new   == d.thread_idx_to_request_id
            was   == c.tester.in_flight_by_thread
            is    == d.tester.in_flight_by_thread
<1>1. /\ d = [tester |-> d.tester, next_req_id |-> d.next_req_id,
              thread_idx_to_request_id |-> new, panicked |-> "None"]
      /\ d.tester = [init_ref_obj |-> c.tester.init_ref_obj,
                     history_by_thread |-> c.tester.history_by_thread,
                     in_flight_by_thread |-> is,
                     is_valid_history |-> TRUE]
      /\ d.next_req_id = c.next_req_id + REQUEST_ID_SKIP
  BY InvokeIs
<1>2. PICK t : Occupies(c, d, t, op)
  BY InvokeIs
<1>. HIDE DEF d
<1>3. /\ t \notin DOMAIN was
      /\ new \in Seq(Nat) /\ DOMAIN new = DOMAIN old \cup {t}
      /\ new[t] = c.next_req_id /\ \A u \in DOMAIN old : u # t => new[u] = old[u]
      /\ DOMAIN is = DOMAIN was \cup {t}
      /\ is[t].op = op /\ \A u \in DOMAIN was : is[u] = was[u]
  BY <1>2 DEF Occupies
<1>4. /\ c.next_req_id \in Nat \ {0} /\ old \in Seq(Nat)
      /\ \A u \in DOMAIN old : old[u] \in Nat /\ old[u] < c.next_req_id
      /\ \A u, v \in DOMAIN old : old[u] = old[v] /\ old[u] # None => u = v
      /\ DOMAIN was = {u \in DOMAIN old : old[u] # None}
  BY DEF ClientOK
<1>5. d.next_req_id \in Nat \ {0} /\ c.next_req_id < d.next_req_id
  BY <1>1, <1>4 DEF REQUEST_ID_SKIP
<1>6. ASSUME NEW u \in DOMAIN new
      PROVE  /\ u = t => new[u] = c.next_req_id
             /\ u # t => u \in DOMAIN old /\ new[u] = old[u]
             /\ new[u] \in Nat /\ new[u] < d.next_req_id
             /\ u # t => new[u] < c.next_req_id
  <2>1. CASE u = t
    BY <1>3, <1>4, <1>5, <2>1
  <2>2. CASE u # t
    <3>1. u \in DOMAIN old /\ new[u] = old[u]
      BY <1>3, <2>2
    <3>2. old[u] \in Nat /\ old[u] < c.next_req_id
      BY <1>4, <3>1
    <3>. QED  BY <1>4, <1>5, <2>2, <3>1, <3>2
  <2>. QED  BY <2>1, <2>2
<1>7. ASSUME NEW u \in DOMAIN new, NEW v \in DOMAIN new, new[u] = new[v], new[u] # None
      PROVE  u = v
  <2>1. CASE u # t /\ v # t
    BY <1>4, <1>6, <1>7, <2>1
  <2>2. CASE u = t /\ v # t
    <3>1. new[u] = c.next_req_id /\ new[v] < c.next_req_id /\ c.next_req_id \in Nat
      BY <1>4, <1>6, <2>2
    <3>. QED  BY <1>7, <3>1
  <2>3. CASE u # t /\ v = t
    <3>1. new[v] = c.next_req_id /\ new[u] < c.next_req_id /\ c.next_req_id \in Nat
      BY <1>4, <1>6, <2>3
    <3>. QED  BY <1>7, <3>1
  <2>. QED  BY <2>1, <2>2, <2>3
<1>8. DOMAIN is = {u \in DOMAIN new : new[u] # None}
  BY <1>3, <1>4 DEF None
<1>9. d.panicked = "None"
  BY <1>1
<1>10. /\ d.tester.init_ref_obj = c.tester.init_ref_obj
       /\ d.tester.history_by_thread = c.tester.history_by_thread
  BY <1>1
<1>11. ClientOK(d)
  BY <1>1, <1>3, <1>5, <1>6, <1>7, <1>8, <1>9, <1>10 DEF ClientOK
<1>12. HasSlot(d, Request(c.next_req_id, op))
  <2>1. /\ Request(c.next_req_id, op).req_id = c.next_req_id
        /\ Asks(Request(c.next_req_id, op)) <=> op = Read
    BY DEF Request, Get, Put, Asks
  <2>. QED  BY <1>3, <1>4, <2>1 DEF HasSlot, None
<1>13. ASSUME NEW msg, HasSlot(c, msg) PROVE HasSlot(d, msg)
  <2>1. PICK u \in DOMAIN old : /\ old[u] = msg.req_id /\ msg.req_id # None
                                /\ Asks(msg) <=> was[u].op = Read
    BY <1>13 DEF HasSlot
  <2>2. u \in DOMAIN was /\ u # t
    BY <1>3, <1>4, <2>1
  <2>. QED  BY <1>3, <2>1, <2>2 DEF HasSlot
<1>. QED  BY <1>11, <1>12, <1>13 DEF d

(***************************************************************************)
(* A response clears the slot of its request, and leaves the others.       *)
(***************************************************************************)
LEMMA AwaitClearsTheSlot ==
    ASSUME NEW c, ClientOK(c), NEW msg, HasSlot(c, msg), NEW ret
    PROVE  /\ ClientOK(AwaitResponse(c, msg.req_id, ret))
           /\ \A m : HasSlot(c, m) /\ m.req_id # msg.req_id
                        => HasSlot(AwaitResponse(c, msg.req_id, ret), m)
<1>. DEFINE d       == AwaitResponse(c, msg.req_id, ret)
            slots   == c.thread_idx_to_request_id
            flying  == c.tester.in_flight_by_thread
            waiting == {u \in DOMAIN slots : slots[u] = msg.req_id}
            tidx    == CHOOSE u \in waiting : \A v \in waiting : u <= v
<1>1. PICK t \in DOMAIN slots : slots[t] = msg.req_id /\ msg.req_id # None
  BY DEF HasSlot
<1>2. /\ c.next_req_id \in Nat \ {0} /\ slots \in Seq(Nat)
      /\ \A u \in DOMAIN slots : slots[u] \in Nat /\ slots[u] < c.next_req_id
      /\ \A u, v \in DOMAIN slots : slots[u] = slots[v] /\ slots[u] # None => u = v
      /\ DOMAIN flying = {u \in DOMAIN slots : slots[u] # None}
  BY DEF ClientOK
<1>3. waiting = {t} /\ t \in Nat
  BY <1>1, <1>2
<1>4. tidx = t
  BY <1>3
<1>. DEFINE tester == Tester!OnReturn(c.tester, t, ret)
            is     == [u \in DOMAIN flying \ {t} |-> flying[u]]
            new    == [slots EXCEPT ![t] = None]
<1>5. d = [c EXCEPT !.thread_idx_to_request_id = new, !.tester = tester, !.panicked = Verdict(tester)]
  <2>. HIDE DEF tester, new
  <2>. QED  BY <1>3, <1>4 DEF AwaitResponse, tester, new
<1>6. c.tester = [init_ref_obj |-> c.tester.init_ref_obj,
                  history_by_thread |-> c.tester.history_by_thread,
                  in_flight_by_thread |-> flying,
                  is_valid_history |-> TRUE]
  BY DEF ClientOK
<1>7. \E history : tester = [init_ref_obj |-> c.tester.init_ref_obj,
                             history_by_thread |-> history,
                             in_flight_by_thread |-> is,
                             is_valid_history |-> TRUE]
  <2>1. c.tester.is_valid_history /\ Tester!IsInFlight(c.tester, t)
    BY <1>1, <1>2, <1>6 DEF Tester!IsInFlight
  <2>2. PICK item : item = [completed |-> flying[t].completed, op |-> flying[t].op, ret |-> ret]
    OBVIOUS
  <2>3. tester = [c.tester EXCEPT !.in_flight_by_thread = is,
                                  !.history_by_thread[t] = Append(@, item)]
    BY <2>1, <2>2 DEF Tester!OnReturn
  <2>. DEFINE history == [c.tester.history_by_thread EXCEPT ![t] = Append(@, item)]
              first   == [c.tester EXCEPT !.in_flight_by_thread = is]
  <2>4. first = [init_ref_obj |-> c.tester.init_ref_obj,
                 history_by_thread |-> c.tester.history_by_thread,
                 in_flight_by_thread |-> is,
                 is_valid_history |-> TRUE]
    <3>1. PICK r : r = c.tester
      OBVIOUS
    <3>2. /\ r = [init_ref_obj |-> r.init_ref_obj, history_by_thread |-> r.history_by_thread,
               in_flight_by_thread |-> r.in_flight_by_thread, is_valid_history |-> r.is_valid_history]
         /\ r.is_valid_history = TRUE
      BY <1>6, <3>1
    <3>. HIDE DEF is
    <3>3. [r EXCEPT !.in_flight_by_thread = is]
             = [init_ref_obj |-> r.init_ref_obj, history_by_thread |-> r.history_by_thread,
                in_flight_by_thread |-> is, is_valid_history |-> r.is_valid_history]
      BY <3>2
    <3>. QED  BY <3>1, <3>2, <3>3
  <2>5. tester = [first EXCEPT !.history_by_thread[t] = Append(@, item)]
    BY <2>3
  <2>. HIDE DEF tester, first, is
  <2>6. tester = [init_ref_obj |-> c.tester.init_ref_obj,
                  history_by_thread |-> history,
                  in_flight_by_thread |-> is,
                  is_valid_history |-> TRUE]
    BY <2>4, <2>5
  <2>. QED  BY <2>6
<1>8. c = [tester |-> c.tester, next_req_id |-> c.next_req_id,
           thread_idx_to_request_id |-> slots, panicked |-> c.panicked]
  BY DEF ClientOK
<1>9. /\ new \in Seq(Nat) /\ DOMAIN new = DOMAIN slots
      /\ new[t] = None /\ \A u \in DOMAIN slots : u # t => new[u] = slots[u]
  BY <1>1, <1>2 DEF None
<1>10. DOMAIN is = DOMAIN flying \ {t} /\ \A u \in DOMAIN is : is[u] = flying[u]
  OBVIOUS
<1>. HIDE DEF tester, new, is
<1>11. Verdict(tester) \in {"None", "inconsistent"}
  <2>1. tester.is_valid_history
    BY <1>7
  <2>. QED  BY <2>1 DEF Verdict
<1>. HIDE DEF d
<1>12. d = [tester |-> tester, next_req_id |-> c.next_req_id, thread_idx_to_request_id |-> new,
            panicked |-> Verdict(tester)]
  BY <1>5, <1>8
<1>13. /\ \A u \in DOMAIN new : new[u] < c.next_req_id
       /\ \A u, v \in DOMAIN new : new[u] = new[v] /\ new[u] # None => u = v
       /\ DOMAIN is = {u \in DOMAIN new : new[u] # None}
  <2>1. \A u \in DOMAIN new : IF u = t THEN new[u] = None ELSE new[u] = slots[u]
    BY <1>9
  <2>2. ASSUME NEW u \in DOMAIN new PROVE new[u] < c.next_req_id
    <3>1. CASE u = t
      BY <1>2, <2>1, <3>1 DEF None
    <3>2. CASE u # t
      BY <1>2, <1>9, <2>1, <3>2
    <3>. QED  BY <3>1, <3>2
  <2>3. \A u, v \in DOMAIN new : new[u] = new[v] /\ new[u] # None => u = v
    BY <1>2, <1>9, <2>1
  <2>4. DOMAIN is = {u \in DOMAIN new : new[u] # None}
    BY <1>2, <1>9, <1>10, <2>1
  <2>. QED  BY <2>2, <2>3, <2>4
<1>14. ClientOK(d)
  <2>1. /\ d.tester = tester /\ d.next_req_id = c.next_req_id
        /\ d.thread_idx_to_request_id = new /\ d.panicked = Verdict(tester)
    BY <1>12
  <2>2. /\ tester.in_flight_by_thread = is
        /\ tester = [init_ref_obj |-> tester.init_ref_obj,
                     history_by_thread |-> tester.history_by_thread,
                     in_flight_by_thread |-> tester.in_flight_by_thread,
                     is_valid_history |-> TRUE]
    BY <1>7
  <2>. QED  BY <1>2, <1>9, <1>11, <1>12, <1>13, <2>1, <2>2 DEF ClientOK
<1>15. ASSUME NEW m, HasSlot(c, m), m.req_id # msg.req_id
       PROVE  HasSlot(d, m)
  <2>1. PICK u \in DOMAIN slots : /\ slots[u] = m.req_id /\ m.req_id # None
                                  /\ Asks(m) <=> flying[u].op = Read
    BY <1>15 DEF HasSlot
  <2>2. u # t /\ u \in DOMAIN is
    BY <1>1, <1>2, <1>10, <1>15, <2>1
  <2>3. d.thread_idx_to_request_id = new /\ d.tester.in_flight_by_thread = is
    BY <1>7, <1>12
  <2>. QED  BY <1>9, <1>10, <2>1, <2>2, <2>3 DEF HasSlot
<1>. QED  BY <1>14, <1>15 DEF d

-----------------------------------------------------------------------------
(* The requests of a server on a line                                      *)

(***************************************************************************)
(* The requests of the client at a server on a line: queued from 1 on, the *)
(* one that the server is about at 0, and the answers that the client has  *)
(* not received before it, so that taking one from either end of the line  *)
(* moves no other.                                                         *)
(***************************************************************************)
Line(id) ==
    [queue   |-> inbox_by_src[id][Client],
     held    |-> IF Busy(id) THEN << Held(id) >> ELSE << >>,
     answers |-> inbox_by_src[Client][id]]

On(line, x) ==
    \/ x \in 1 .. Len(line.queue)
    \/ x = 0 /\ line.held # << >>
    \/ -x \in 1 .. Len(line.answers)

RequestAt(line, x) ==
    IF x > 0 THEN line.queue[x]
    ELSE IF x = 0 THEN line.held[1]
    ELSE line.answers[x + Len(line.answers) + 1]

LineOK(line) == \E V : line.queue \in Seq(V) /\ line.answers \in Seq(V)

\* What is on a line comes from different places of the line before.
Comes(line, next, g) ==
    /\ \A x \in Int : On(next, x) => On(line, g[x]) /\ SameRequest(RequestAt(next, x), RequestAt(line, g[x]))
    /\ \A x, y \in Int : On(next, x) /\ On(next, y) /\ g[x] = g[y] => x = y

Moves(line, next) == \E g \in [Int -> Int] : Comes(line, next, g)

\* Where what is on a line comes from when the first of the queue is dropped, ...
Dropped(x) == IF x > 0 THEN x + 1 ELSE x

\* ... is taken up, ...
TakenUp(x) == IF x >= 0 THEN x + 1 ELSE x

\* ... or is answered at once.
Overtaken(x) == IF x > 0 \/ x < -1 THEN x + 1 ELSE IF x = -1 THEN 1 ELSE 0

\* These are different places for different places.
LEMMA ComesFromOnePlace ==
    ASSUME NEW x \in Int, NEW y \in Int
    PROVE  /\ Dropped(x) = Dropped(y) => x = y
           /\ TakenUp(x) = TakenUp(y) => x = y
           /\ Overtaken(x) = Overtaken(y) => x = y
           /\ Dropped(x) \in Int /\ TakenUp(x) \in Int /\ Overtaken(x) \in Int
<1>1. Dropped(x) = Dropped(y) => x = y
  BY DEF Dropped
<1>2. TakenUp(x) = TakenUp(y) => x = y
  BY DEF TakenUp
<1>3. Overtaken(x) = Overtaken(y) => x = y
  BY DEF Overtaken
<1>. QED  BY <1>1, <1>2, <1>3 DEF Dropped, TakenUp, Overtaken

\* What a server is about is as before.
SameHeld(line, next) ==
    \/ line.held = << >> /\ next.held = << >>
    \/ line.held # << >> /\ next.held # << >> /\ SameRequest(next.held[1], line.held[1])

\* Nothing moves.
LEMMA KeepMoves ==
    ASSUME NEW line, NEW next, LineOK(line), SameHeld(line, next),
           next.queue = line.queue, next.answers = line.answers
    PROVE  Moves(line, next)
<1>. DEFINE g == [x \in Int |-> x]
<1>1. \A x \in Int : On(next, x) => On(line, x) /\ SameRequest(RequestAt(next, x), RequestAt(line, x))
  BY DEF SameHeld, On, RequestAt, SameRequest
<1>2. g \in [Int -> Int] /\ \A x \in Int : g[x] = x
  OBVIOUS
<1>. HIDE DEF g
<1>3. Comes(line, next, g)
  BY <1>1, <1>2 DEF Comes
<1>. QED  BY <1>2, <1>3 DEF Moves

\* The first request of the queue is dropped.
LEMMA DropMoves ==
    ASSUME NEW line, NEW next, LineOK(line), SameHeld(line, next),
           line.queue # << >>, next.queue = Tail(line.queue), next.answers = line.answers
    PROVE  Moves(line, next)
<1>. DEFINE g == [x \in Int |-> Dropped(x)]
<1>1. PICK V : line.queue \in Seq(V) /\ line.answers \in Seq(V)
  BY DEF LineOK
<1>2. /\ Len(next.queue) = Len(line.queue) - 1 /\ Len(line.queue) \in Nat
      /\ \A x \in 1 .. Len(next.queue) : next.queue[x] = line.queue[x + 1]
      /\ Len(line.answers) \in Nat
  BY <1>1
<1>3. \A x \in Int : x > 0 /\ On(next, x) => On(line, x + 1) /\ SameRequest(RequestAt(next, x), RequestAt(line, x + 1))
  BY <1>2 DEF On, RequestAt, SameRequest
<1>4. \A x \in Int : ~(x > 0) /\ On(next, x) => On(line, x) /\ SameRequest(RequestAt(next, x), RequestAt(line, x))
  BY <1>2 DEF On, RequestAt, SameRequest, SameHeld
<1>5. g \in [Int -> Int] /\ \A x \in Int : g[x] = Dropped(x)
  BY ComesFromOnePlace
<1>. HIDE DEF g
<1>6. \A x \in Int : On(next, x) => On(line, g[x]) /\ SameRequest(RequestAt(next, x), RequestAt(line, g[x]))
  BY <1>3, <1>4, <1>5 DEF Dropped
<1>7. \A x, y \in Int : g[x] = g[y] => x = y
  BY <1>5, ComesFromOnePlace
<1>. QED  BY <1>5, <1>6, <1>7 DEF Moves, Comes

\* The first request of the queue is taken up.
LEMMA TakeMoves ==
    ASSUME NEW line, NEW next, LineOK(line),
           line.held = << >>, next.held # << >>, SameRequest(next.held[1], line.queue[1]),
           line.queue # << >>, next.queue = Tail(line.queue), next.answers = line.answers
    PROVE  Moves(line, next)
<1>. DEFINE g == [x \in Int |-> TakenUp(x)]
<1>1. PICK V : line.queue \in Seq(V) /\ line.answers \in Seq(V)
  BY DEF LineOK
<1>2. /\ Len(next.queue) = Len(line.queue) - 1 /\ Len(line.queue) \in Nat
      /\ \A x \in 1 .. Len(next.queue) : next.queue[x] = line.queue[x + 1]
      /\ Len(line.answers) \in Nat
  BY <1>1
<1>3. \A x \in Int : x >= 0 /\ On(next, x) => On(line, x + 1) /\ SameRequest(RequestAt(next, x), RequestAt(line, x + 1))
  BY <1>2 DEF On, RequestAt, SameRequest
<1>4. \A x \in Int : ~(x >= 0) /\ On(next, x) => On(line, x) /\ SameRequest(RequestAt(next, x), RequestAt(line, x))
  BY <1>2 DEF On, RequestAt, SameRequest
<1>5. g \in [Int -> Int] /\ \A x \in Int : g[x] = TakenUp(x)
  BY ComesFromOnePlace
<1>. HIDE DEF g
<1>6. \A x \in Int : On(next, x) => On(line, g[x]) /\ SameRequest(RequestAt(next, x), RequestAt(line, g[x]))
  BY <1>3, <1>4, <1>5 DEF TakenUp
<1>7. \A x, y \in Int : g[x] = g[y] => x = y
  BY <1>5, ComesFromOnePlace
<1>. QED  BY <1>5, <1>6, <1>7 DEF Moves, Comes

\* The request that the server is about is answered.
LEMMA AnswerMoves ==
    ASSUME NEW line, NEW next, LineOK(line), NEW m, SameRequest(m, line.held[1]),
           line.held # << >>, next.held = << >>,
           next.queue = line.queue, next.answers = line.answers \o << m >>
    PROVE  Moves(line, next)
<1>. DEFINE g == [x \in Int |-> IF x < 0 THEN x + 1 ELSE x]
<1>1. PICK V : line.queue \in Seq(V) /\ line.answers \in Seq(V)
  BY DEF LineOK
<1>2. /\ Len(next.answers) = Len(line.answers) + 1 /\ Len(line.answers) \in Nat
      /\ \A k \in 1 .. Len(line.answers) : next.answers[k] = line.answers[k]
      /\ next.answers[Len(line.answers) + 1] = m
      /\ Len(line.queue) \in Nat
  <2>1. line.answers \in Seq(V \cup {m}) /\ << m >> \in Seq(V \cup {m})
    BY <1>1
  <2>. QED  BY <1>1, <2>1
<1>3. \A x \in Int : x < 0 /\ On(next, x) => On(line, x + 1) /\ SameRequest(RequestAt(next, x), RequestAt(line, x + 1))
  <2>1. ASSUME NEW x \in Int, x < 0, On(next, x)
        PROVE  On(line, x + 1) /\ SameRequest(RequestAt(next, x), RequestAt(line, x + 1))
    <3>1. CASE x = -1
      <4>1. RequestAt(next, x) = m /\ RequestAt(line, x + 1) = line.held[1] /\ On(line, x + 1)
        BY <1>2, <3>1 DEF On, RequestAt
      <4>. QED  BY <4>1
    <3>2. CASE x # -1
      <4>1. -x \in 1 .. Len(line.answers) + 1 /\ x + 1 < 0
        BY <1>2, <2>1, <3>2 DEF On
      <4>2. x + Len(line.answers) + 2 \in 1 .. Len(line.answers)
        BY <1>2, <3>2, <4>1
      <4>3. /\ RequestAt(next, x) = next.answers[x + Len(line.answers) + 2]
            /\ RequestAt(line, x + 1) = line.answers[x + Len(line.answers) + 2]
        BY <1>2, <4>1, <2>1 DEF RequestAt
      <4>4. On(line, x + 1)
        BY <1>2, <4>1 DEF On
      <4>5. next.answers[x + Len(line.answers) + 2] = line.answers[x + Len(line.answers) + 2]
        BY <1>2, <4>2
      <4>. QED  BY <4>3, <4>4, <4>5 DEF SameRequest
    <3>. QED  BY <3>1, <3>2
  <2>. QED  BY <2>1
<1>4. \A x \in Int : ~(x < 0) /\ On(next, x) => x > 0 /\ On(line, x) /\ SameRequest(RequestAt(next, x), RequestAt(line, x))
  BY <1>2 DEF On, RequestAt, SameRequest
<1>5. g \in [Int -> Int] /\ \A x \in Int : g[x] = IF x < 0 THEN x + 1 ELSE x
  OBVIOUS
<1>. HIDE DEF g
<1>6. \A x \in Int : On(next, x) => On(line, g[x]) /\ SameRequest(RequestAt(next, x), RequestAt(line, g[x]))
  BY <1>3, <1>4, <1>5
<1>7. \A x, y \in Int : On(next, x) /\ On(next, y) /\ g[x] = g[y] => x = y
  <2>1. \A x \in Int : On(next, x) => x < 0 \/ x > 0
    BY <1>4
  <2>2. \A x, y \in Int : (x < 0 \/ x > 0) /\ (y < 0 \/ y > 0) /\ g[x] = g[y] => x = y
    BY <1>5
  <2>. QED  BY <2>1, <2>2
<1>. QED  BY <1>5, <1>6, <1>7 DEF Moves, Comes

\* The first request of the queue is answered at once.
LEMMA AtOnceMoves ==
    ASSUME NEW line, NEW next, LineOK(line), SameHeld(line, next),
           NEW m, SameRequest(m, line.queue[1]),
           line.queue # << >>, next.queue = Tail(line.queue), next.answers = line.answers \o << m >>
    PROVE  Moves(line, next)
<1>. DEFINE g == [x \in Int |-> Overtaken(x)]
<1>1. PICK V : line.queue \in Seq(V) /\ line.answers \in Seq(V)
  BY DEF LineOK
<1>2. /\ Len(next.answers) = Len(line.answers) + 1 /\ Len(line.answers) \in Nat
      /\ \A k \in 1 .. Len(line.answers) : next.answers[k] = line.answers[k]
      /\ next.answers[Len(line.answers) + 1] = m
      /\ Len(next.queue) = Len(line.queue) - 1 /\ Len(line.queue) \in Nat /\ Len(line.queue) > 0
      /\ \A x \in 1 .. Len(next.queue) : next.queue[x] = line.queue[x + 1]
  <2>1. line.answers \in Seq(V \cup {m}) /\ << m >> \in Seq(V \cup {m})
    BY <1>1
  <2>. QED  BY <1>1, <2>1
<1>3. \A x \in Int : x > 0 /\ On(next, x) => On(line, x + 1) /\ SameRequest(RequestAt(next, x), RequestAt(line, x + 1))
  BY <1>2 DEF On, RequestAt, SameRequest
<1>4. \A x \in Int : x < -1 /\ On(next, x) => On(line, x + 1) /\ SameRequest(RequestAt(next, x), RequestAt(line, x + 1))
  <2>1. ASSUME NEW x \in Int, x < -1, On(next, x)
        PROVE  On(line, x + 1) /\ SameRequest(RequestAt(next, x), RequestAt(line, x + 1))
    <3>1. -x \in 1 .. Len(line.answers) + 1 /\ x + 1 < 0
      BY <1>2, <2>1 DEF On
    <3>2. x + Len(line.answers) + 2 \in 1 .. Len(line.answers)
      BY <1>2, <2>1, <3>1
    <3>3. /\ RequestAt(next, x) = next.answers[x + Len(line.answers) + 2]
          /\ RequestAt(line, x + 1) = line.answers[x + Len(line.answers) + 2]
      BY <1>2, <3>1, <2>1 DEF RequestAt
    <3>4. On(line, x + 1)
      BY <1>2, <3>1 DEF On
    <3>5. next.answers[x + Len(line.answers) + 2] = line.answers[x + Len(line.answers) + 2]
      BY <1>2, <3>2
    <3>. QED  BY <3>3, <3>4, <3>5 DEF SameRequest
  <2>. QED  BY <2>1
<1>5. On(line, 1) /\ SameRequest(RequestAt(next, -1), RequestAt(line, 1))
  <2>1. RequestAt(next, -1) = m /\ RequestAt(line, 1) = line.queue[1] /\ On(line, 1)
    BY <1>2 DEF On, RequestAt
  <2>. QED  BY <2>1
<1>6. On(next, 0) => On(line, 0) /\ SameRequest(RequestAt(next, 0), RequestAt(line, 0))
  BY <1>2 DEF On, RequestAt, SameHeld
<1>7. g \in [Int -> Int] /\ \A x \in Int : g[x] = Overtaken(x)
  BY ComesFromOnePlace
<1>. HIDE DEF g
<1>8. \A x \in Int : On(next, x) => On(line, g[x]) /\ SameRequest(RequestAt(next, x), RequestAt(line, g[x]))
  <2>1. ASSUME NEW x \in Int, On(next, x)
        PROVE  On(line, g[x]) /\ SameRequest(RequestAt(next, x), RequestAt(line, g[x]))
    <3>1. x > 0 \/ x < -1 \/ x = -1 \/ x = 0
      OBVIOUS
    <3>2. CASE x > 0 \/ x < -1
      BY <1>3, <1>4, <1>7, <2>1, <3>2 DEF Overtaken
    <3>3. CASE x = -1
      BY <1>5, <1>7, <3>3 DEF Overtaken
    <3>4. CASE x = 0
      BY <1>6, <1>7, <2>1, <3>4 DEF Overtaken
    <3>. QED  BY <3>1, <3>2, <3>3, <3>4
  <2>. QED  BY <2>1
<1>9. \A x, y \in Int : g[x] = g[y] => x = y
  BY <1>7, ComesFromOnePlace
<1>. QED  BY <1>7, <1>8, <1>9 DEF Moves, Comes

-----------------------------------------------------------------------------
(* Every request has its slot                                              *)

\* Two places on the lines are different requests, and each has a slot.
Matched ==
    /\ \A i, j \in Server : \A x, y \in Int :
          On(Line(i), x) /\ On(Line(j), y) /\ RequestAt(Line(i), x).req_id = RequestAt(Line(j), y).req_id
             => i = j /\ x = y
    /\ \A i \in Server : \A x \in Int : On(Line(i), x) => HasSlot(client, RequestAt(Line(i), x))

\* What has a slot has it whatever else the message says.
LEMMA SameRequestHasSlot ==
    ASSUME NEW c, NEW m, NEW n, SameRequest(m, n), HasSlot(c, n)
    PROVE  HasSlot(c, m)
BY DEF SameRequest, HasSlot

\* Requests that move along the line of one server keep their slots.
LEMMA MovesKeepMatched ==
    ASSUME Matched, cfg' = cfg, client' = client,
           NEW id \in Server, Moves(Line(id), Line(id)'),
           \A j \in Server : j # id => Line(j)' = Line(j)
    PROVE  Matched'
<1>1. PICK g \in [Int -> Int] : Comes(Line(id), Line(id)', g)
  BY DEF Moves
<1>. DEFINE From(j, x) == IF j = id THEN g[x] ELSE x
<1>2. ASSUME NEW j \in Server, NEW x \in Int, On(Line(j)', x)
      PROVE  /\ From(j, x) \in Int /\ On(Line(j), From(j, x))
             /\ SameRequest(RequestAt(Line(j)', x), RequestAt(Line(j), From(j, x)))
  <2>1. CASE j = id
    BY <1>1, <1>2, <2>1 DEF Comes
  <2>2. CASE j # id
    <3>1. Line(j)' = Line(j) /\ From(j, x) = x
      BY <2>2
    <3>. QED  BY <1>2, <3>1 DEF SameRequest
  <2>. QED  BY <2>1, <2>2
<1>3. ASSUME NEW j \in Server, NEW x \in Int, NEW y \in Int,
             On(Line(j)', x), On(Line(j)', y), From(j, x) = From(j, y)
      PROVE  x = y
  <2>1. CASE j = id
    BY <1>1, <1>3, <2>1 DEF Comes
  <2>2. CASE j # id
    BY <1>3, <2>2
  <2>. QED  BY <2>1, <2>2
<1>. HIDE DEF From
<1>4. Server' = Server
  BY DEF Server
<1>5. ASSUME NEW i \in Server, NEW j \in Server, NEW x \in Int, NEW y \in Int,
             On(Line(i)', x), On(Line(j)', y),
             RequestAt(Line(i)', x).req_id = RequestAt(Line(j)', y).req_id
      PROVE  i = j /\ x = y
  <2>1. /\ From(i, x) \in Int /\ On(Line(i), From(i, x))
        /\ SameRequest(RequestAt(Line(i)', x), RequestAt(Line(i), From(i, x)))
        /\ From(j, y) \in Int /\ On(Line(j), From(j, y))
        /\ SameRequest(RequestAt(Line(j)', y), RequestAt(Line(j), From(j, y)))
    BY <1>2, <1>5
  <2>2. RequestAt(Line(i), From(i, x)).req_id = RequestAt(Line(j), From(j, y)).req_id
    BY <1>5, <2>1 DEF SameRequest
  <2>3. i = j /\ From(i, x) = From(j, y)
    BY <2>1, <2>2 DEF Matched
  <2>. QED  BY <1>3, <1>5, <2>3
<1>6. ASSUME NEW i \in Server, NEW x \in Int, On(Line(i)', x)
      PROVE  HasSlot(client, RequestAt(Line(i)', x))
  <2>1. /\ From(i, x) \in Int /\ On(Line(i), From(i, x))
        /\ SameRequest(RequestAt(Line(i)', x), RequestAt(Line(i), From(i, x)))
    BY <1>2, <1>6
  <2>2. HasSlot(client, RequestAt(Line(i), From(i, x)))
    BY <2>1 DEF Matched
  <2>. QED  BY <2>1, <2>2, SameRequestHasSlot
<1>7. ASSUME NEW i \in Server, NEW x \in Int
      PROVE  On(Line(i), x)' = On(Line(i)', x) /\ RequestAt(Line(i), x)' = RequestAt(Line(i)', x)
             /\ \A m : HasSlot(client', m) = HasSlot(client, m)
  BY DEF On, RequestAt, HasSlot
<1>. QED  BY <1>4, <1>5, <1>6, <1>7 DEF Matched

\* What an exchange does to the queues between servers and client.
LEMMA ExchangeQueues ==
    ASSUME cfg \in Configuration, NEW id \in Server, NEW src \in Actor, NEW out,
           Exchange(id, src, out), cfg' = cfg
    PROVE  /\ inbox_by_src'[id][Client] =
                 IF src = Client THEN Tail(inbox_by_src[id][Client]) ELSE inbox_by_src[id][Client]
           /\ inbox_by_src'[Client][id] = inbox_by_src[Client][id] \o out[Client]
           /\ \A j \in Server : j # id =>
                 /\ inbox_by_src'[j][Client] = inbox_by_src[j][Client]
                 /\ inbox_by_src'[Client][j] = inbox_by_src[Client][j]
<1>1. Client \in Actor /\ Client \notin Server /\ Server \subseteq Actor
  BY ActorsAre
<1>2. inbox_by_src' = [dst \in Actor |-> [s \in Actor |->
         IF s = id
         THEN (IF dst = id /\ s = src THEN Tail(inbox_by_src[dst][s]) ELSE inbox_by_src[dst][s]) \o out[dst]
         ELSE IF dst = id /\ s = src THEN Tail(inbox_by_src[dst][s]) ELSE inbox_by_src[dst][s]]]
  BY DEF Exchange
<1>. QED  BY <1>1, <1>2

(***************************************************************************)
(* A step of a server moves the requests on its line.                      *)
(***************************************************************************)
LEMMA StepMoves ==
    ASSUME Typed, NEW id \in Server, NEW src \in Actor, NEW out, ServerStep(id, src, out),
           inbox_by_src[id][src] # << >>, cfg' = cfg
    PROVE  /\ Moves(Line(id), Line(id)')
           /\ \A j \in Server : j # id => Line(j)' = Line(j)
<1>. DEFINE line == Line(id)
            next == Line(id)'
<1>1. cfg \in Configuration
  BY DEF Typed, Shape
<1>2. Client' = Client /\ id \in Actor /\ Client \in Actor
  BY <1>1, ActorsAre DEF Client
<1>3. /\ inbox_by_src'[id][Client] =
            IF src = Client THEN Tail(inbox_by_src[id][Client]) ELSE inbox_by_src[id][Client]
      /\ inbox_by_src'[Client][id] = inbox_by_src[Client][id] \o out[Client]
      /\ \A j \in Server : j # id =>
            /\ inbox_by_src'[j][Client] = inbox_by_src[j][Client]
            /\ inbox_by_src'[Client][j] = inbox_by_src[Client][j]
  BY <1>1, ExchangeQueues DEF ServerStep
<1>4. ASSUME NEW j \in Server, j # id
      PROVE  Line(j)' = Line(j)
  <2>1. server'[j] = server[j]
    BY <1>4 DEF ServerStep
  <2>. QED  BY <1>2, <1>3, <1>4, <2>1 DEF Line, Busy, Held
<1>5. /\ line.queue = inbox_by_src[id][Client] /\ line.answers = inbox_by_src[Client][id]
      /\ line.held = IF Busy(id) THEN << Held(id) >> ELSE << >>
      /\ next.queue = inbox_by_src'[id][Client] /\ next.answers = inbox_by_src'[Client][id]
      /\ next.held = IF Busy(id)' THEN << Held(id)' >> ELSE << >>
  BY <1>2 DEF Line
<1>6. LineOK(line)
  <2>1. \A dst, s \in Actor : inbox_by_src[dst][s] \in Seq(MsgFor(dst, s))
    BY DEF Typed, QueuesOK
  <2>2. /\ line.queue \in Seq(MsgFor(id, Client) \cup MsgFor(Client, id))
        /\ line.answers \in Seq(MsgFor(id, Client) \cup MsgFor(Client, id))
    <3>1. /\ line.queue \in Seq(MsgFor(id, Client)) /\ line.answers \in Seq(MsgFor(Client, id))
      BY <1>2, <1>5, <2>1
    <3>. HIDE DEF line
    <3>. QED  BY <3>1
  <2>. QED  BY <2>2 DEF LineOK
<1>7. HoldsOn(id) => SameHeld(line, next)
  BY <1>5 DEF HoldsOn, SameHeld
<1>8. out[Client] = << >> => next.answers = line.answers
  <2>1. inbox_by_src[Client][id] \in Seq(MsgFor(Client, id))
    BY <1>2 DEF Typed, QueuesOK
  <2>. QED  BY <1>3, <1>5, <2>1
<1>9. src = Client => /\ line.queue # << >> /\ next.queue = Tail(line.queue)
                      /\ Head(inbox_by_src[id][Client]) = line.queue[1]
  <2>1. inbox_by_src[id][Client] \in Seq(MsgFor(id, Client))
    BY <1>2 DEF Typed, QueuesOK
  <2>. QED  BY <1>3, <1>5, <2>1
<1>10. src # Client => next.queue = line.queue
  BY <1>3, <1>5
<1>11. ASSUME NEW m, out[Client] = << m >>
       PROVE  next.answers = line.answers \o << m >>
  BY <1>3, <1>5, <1>11
<1>12. CASE HoldsOn(id) /\ out[Client] = << >>
  <2>1. SameHeld(line, next) /\ next.answers = line.answers
    BY <1>7, <1>8, <1>12
  <2>. HIDE DEF line, next
  <2>2. ASSUME src = Client PROVE Moves(line, next)
    BY <1>6, <1>9, <2>1, <2>2, DropMoves
  <2>3. ASSUME src # Client PROVE Moves(line, next)
    BY <1>6, <1>10, <2>1, <2>3, KeepMoves
  <2>4. Moves(line, next)
    BY <2>2, <2>3
  <2>. QED  BY <1>4, <2>4 DEF line, next
<1>13. CASE /\ src = Client /\ ~Busy(id) /\ Busy(id)'
            /\ SameRequest(Held(id)', Head(inbox_by_src[id][Client]))
            /\ out[Client] = << >>
  <2>1. /\ line.held = << >> /\ next.held # << >> /\ SameRequest(next.held[1], line.queue[1])
        /\ next.answers = line.answers
    BY <1>5, <1>8, <1>9, <1>13
  <2>. HIDE DEF line, next
  <2>2. Moves(line, next)
    BY <1>6, <1>9, <1>13, <2>1, TakeMoves
  <2>. QED  BY <1>4, <2>2 DEF line, next
<1>14. CASE src # Client /\ Busy(id) /\ ~Busy(id)' /\ Answers(out, Held(id))
  <2>1. PICK m : out[Client] = << m >> /\ SameRequest(m, Held(id))
    BY <1>14 DEF Answers
  <2>2. /\ line.held # << >> /\ next.held = << >> /\ SameRequest(m, line.held[1])
        /\ next.answers = line.answers \o << m >>
    BY <1>5, <1>11, <1>14, <2>1
  <2>. HIDE DEF line, next
  <2>3. Moves(line, next)
    BY <1>6, <1>10, <1>14, <2>2, AnswerMoves
  <2>. QED  BY <1>4, <2>3 DEF line, next
<1>15. CASE src = Client /\ HoldsOn(id) /\ Answers(out, Head(inbox_by_src[id][Client]))
  <2>1. PICK m : out[Client] = << m >> /\ SameRequest(m, Head(inbox_by_src[id][Client]))
    BY <1>15 DEF Answers
  <2>2. /\ SameHeld(line, next) /\ SameRequest(m, line.queue[1])
        /\ next.answers = line.answers \o << m >>
    BY <1>7, <1>9, <1>11, <1>15, <2>1
  <2>. HIDE DEF line, next
  <2>3. Moves(line, next)
    BY <1>6, <1>9, <1>15, <2>2, AtOnceMoves
  <2>. QED  BY <1>4, <2>3 DEF line, next
<1>. QED  BY <1>12, <1>13, <1>14, <1>15 DEF ServerStep, Conduct

-----------------------------------------------------------------------------
(* The invariant                                                           *)

Inv == Typed /\ ClientOK(client) /\ Matched

\* The first state.
LEMMA InitInv == Init => Inv
<1>. SUFFICES ASSUME Init PROVE Inv
  OBVIOUS
<1>1. cfg \in Configuration /\ called = 0 /\ client = NewClient(Register(0))
  BY DEF Init
<1>2. server = [id \in Server |-> NewServer]
  BY DEF Init
<1>3. inbox_by_src = [dst \in Actor |-> [src \in Actor |-> << >>]]
  BY DEF Init
<1>4. NewServer = [fiber |-> Idle, clock |-> << 0, 1 >>, value |-> 0] /\ Idle.state = "idle"
  BY DEF NewServer, Idle, DefaultClock
<1>5. \A id \in Server : ServerOK(id) /\ ~Busy(id)
  BY <1>2, <1>4 DEF ServerOK, FiberOK, LogicalClock, Value, Busy
<1>6. QueuesOK
  BY <1>3 DEF QueuesOK
<1>7. Shape
  <2>1. NewServer = [fiber |-> NewServer.fiber, clock |-> NewServer.clock, value |-> NewServer.value]
    BY <1>4
  <2>2. \A id \in Server : server[id] = NewServer
    BY <1>2
  <2>3. server = [id \in Server |-> [fiber |-> server[id].fiber, clock |-> server[id].clock,
                                     value |-> server[id].value]]
    <3>. HIDE DEF NewServer
    <3>. QED  BY <1>2, <2>1, <2>2
  <2>. QED  BY <1>1, <1>3, <2>3 DEF Shape
<1>8. called \in 0 .. Len(cfg.script)
  <2>1. cfg.script \in Seq(ClientCall(cfg.servers))
    BY <1>1, ActorsAre
  <2>. QED  BY <1>1, <2>1
<1>9. Typed
  BY <1>5, <1>6, <1>7, <1>8 DEF Typed
<1>10. Matched
  <2>1. ASSUME NEW i \in Server, NEW x \in Int PROVE ~On(Line(i), x)
    <3>1. Line(i).queue = << >> /\ Line(i).held = << >> /\ Line(i).answers = << >>
      BY <1>1, <1>3, <1>5, ActorsAre DEF Line
    <3>. QED  BY <3>1 DEF On
  <2>. QED  BY <2>1 DEF Matched
<1>. QED  BY <1>1, <1>9, <1>10, NewClientIsOK DEF Inv

\* A step of a server.
LEMMA ServeKeepsInv ==
    ASSUME Inv, NEW id \in Server, Serve(id)
    PROVE  Inv'
<1>1. Typed /\ cfg' = cfg /\ client' = client /\ called' = called
  BY DEF Inv, Serve
<1>2. PICK src \in Actor : \E out : inbox_by_src[id][src] # << >> /\ ServerStep(id, src, out)
  BY <1>1, ServeSteps
<1>3. PICK out : inbox_by_src[id][src] # << >> /\ ServerStep(id, src, out)
  BY <1>2
<1>4. /\ QueuesOK' /\ inbox_by_src' = [dst \in Actor |-> [s \in Actor |-> inbox_by_src'[dst][s]]]
  BY <1>1, <1>3, ExchangeTypes DEF Typed, ServerStep
<1>5. ServersOK'
  BY <1>3 DEF ServerStep
<1>6. Actor' = Actor /\ Server' = Server
  BY <1>1, SameTypes
<1>7. Shape'
  BY <1>1, <1>4, <1>5, <1>6 DEF Shape, ServersOK, Typed
<1>8. Typed'
  BY <1>1, <1>4, <1>5, <1>7 DEF Typed, ServersOK
<1>9. Matched'
  <2>1. /\ Moves(Line(id), Line(id)')
        /\ \A j \in Server : j # id => Line(j)' = Line(j)
    BY <1>1, <1>3, StepMoves
  <2>. QED  BY <1>1, <2>1, MovesKeepMatched DEF Inv
<1>10. ClientOK(client)'
  BY <1>1 DEF Inv, ClientOK
<1>. QED  BY <1>8, <1>9, <1>10 DEF Inv

\* The next call is one of those that a script is made of.
LEMMA NextCallIs ==
    ASSUME Typed, ClientRuns
    PROVE  /\ called + 1 \in 0 .. Len(cfg.script)
           /\ NextCall.call = "invoke" => NextCall.dst \in Server /\ NextCall.op \in Operation
<1>1. /\ cfg.script \in Seq(ClientCall(cfg.servers)) /\ called \in 0 .. Len(cfg.script)
      /\ called < Len(cfg.script)
  BY ActorsAre DEF Typed, Shape, ClientRuns
<1>2. NextCall \in ClientCall(cfg.servers) /\ called + 1 \in 0 .. Len(cfg.script)
  BY <1>1 DEF NextCall
<1>. QED  BY <1>2 DEF ClientCall, Server

\* An identifier that has a slot was given out.
LEMMA SlotsAreGivenOut ==
    ASSUME NEW c, ClientOK(c), NEW msg, HasSlot(c, msg)
    PROVE  msg.req_id # c.next_req_id
<1>1. PICK t \in DOMAIN c.thread_idx_to_request_id : c.thread_idx_to_request_id[t] = msg.req_id
  BY DEF HasSlot
<1>2. c.thread_idx_to_request_id[t] \in Nat /\ c.thread_idx_to_request_id[t] < c.next_req_id
      /\ c.next_req_id \in Nat
  BY DEF ClientOK
<1>. QED  BY <1>1, <1>2

\* The queue q2 is q with m at the end.
Grows(q, q2, m) ==
    /\ Len(q2) = Len(q) + 1 /\ q2[Len(q) + 1] = m
    /\ \A k \in 1 .. Len(q) : q2[k] = q[k]

\* What is appended comes last.
LEMMA AppendGrows ==
    ASSUME NEW V, NEW q \in Seq(V), NEW m \in V
    PROVE  Grows(q, Append(q, m), m)
BY DEF Grows

\* A request that the client sends.
LEMMA InvokesKeepsInv ==
    ASSUME Inv, ClientInvokes
    PROVE  Inv'
<1>. DEFINE call == NextCall
            c    == client
            msg  == Request(c.next_req_id, call.op)
            dst  == call.dst
<1>1. Typed /\ ClientOK(c) /\ Matched /\ cfg' = cfg /\ server' = server /\ cfg \in Configuration
  BY DEF Inv, ClientInvokes, Typed, Shape
<1>2. /\ called + 1 \in 0 .. Len(cfg.script) /\ dst \in Server /\ call.op \in Operation
      /\ called' = called + 1
  BY <1>1, NextCallIs DEF ClientInvokes
<1>3. client' = Invoke(c, call.op)
  BY DEF ClientInvokes
<1>4. inbox_by_src' = [inbox_by_src EXCEPT ![dst][Client] = Append(@, msg)]
  BY DEF ClientInvokes
<1>5. msg \in ClientMsg /\ msg.req_id = c.next_req_id
  <2>1. c.next_req_id \in Nat
    BY <1>1 DEF ClientOK
  <2>. QED  BY <1>2, <2>1 DEF Operation, Read, Request, Get, Put, ClientMsg, Value
<1>6. Client \in Actor /\ Client \notin Server /\ Server \subseteq Actor /\ MsgFor(dst, Client) = ClientMsg
  BY <1>1, <1>2, ActorsAre DEF MsgFor
<1>. HIDE DEF msg, dst, call
<1>7. /\ inbox_by_src'[dst][Client] = Append(inbox_by_src[dst][Client], msg)
      /\ \A a, b \in Actor : a # dst \/ b # Client => inbox_by_src'[a][b] = inbox_by_src[a][b]
      /\ inbox_by_src' = [a \in Actor |-> [b \in Actor |-> inbox_by_src'[a][b]]]
  <2>1. inbox_by_src = [a \in Actor |-> [b \in Actor |-> inbox_by_src[a][b]]]
    BY <1>1 DEF Typed, Shape
  <2>. QED  BY <1>2, <1>4, <1>6, <2>1
<1>8. Server' = Server /\ Client' = Client /\ Actor' = Actor
  BY <1>1, SameTypes
<1>9. \A a, b \in Actor : inbox_by_src[a][b] \in Seq(MsgFor(a, b))
  BY <1>1 DEF Typed, QueuesOK
<1>10. Typed'
  <2>1. QueuesOK'
    <3>1. ASSUME NEW a \in Actor, NEW b \in Actor
          PROVE  inbox_by_src'[a][b] \in Seq(MsgFor(a, b))
      <4>1. CASE a = dst /\ b = Client
        <5>1. inbox_by_src[a][b] \in Seq(ClientMsg)
          BY <1>6, <1>9, <4>1
        <5>2. Append(inbox_by_src[a][b], msg) \in Seq(ClientMsg)
          BY <1>5, <5>1
        <5>. QED  BY <1>6, <1>7, <4>1, <5>2
      <4>2. CASE ~(a = dst /\ b = Client)
        BY <1>7, <1>9, <4>2
      <4>. QED  BY <4>1, <4>2
    <3>2. \A a, b : MsgFor(a, b)' = MsgFor(a, b)
      BY <1>8 DEF MsgFor
    <3>. QED  BY <1>8, <3>1, <3>2 DEF QueuesOK
  <2>2. ServersOK'
    BY <1>1, UnchangedServersOK
  <2>3. Shape'
    BY <1>1, <1>7, <1>8, <2>2 DEF Shape, ServersOK
  <2>. QED  BY <1>1, <1>2, <2>1, <2>2, <2>3 DEF Typed, ServersOK
<1>11. /\ ClientOK(client')
       /\ HasSlot(client', msg)
       /\ \A m : HasSlot(c, m) => HasSlot(client', m)
  <2>1. /\ ClientOK(Invoke(c, call.op))
        /\ HasSlot(Invoke(c, call.op), Request(c.next_req_id, call.op))
        /\ \A m : HasSlot(c, m) => HasSlot(Invoke(c, call.op), m)
    BY <1>1, <1>2, InvokeGivesASlot
  <2>. QED  BY <1>3, <2>1 DEF msg
<1>. DEFINE IsNew(i, x) == i = dst /\ x = Len(inbox_by_src[dst][Client]) + 1
<1>12. ASSUME NEW i \in Server, NEW x \in Int, On(Line(i)', x)
       PROVE  IF IsNew(i, x) THEN RequestAt(Line(i)', x) = msg
              ELSE On(Line(i), x) /\ RequestAt(Line(i)', x) = RequestAt(Line(i), x)
  <2>1. /\ Line(i)'.queue = inbox_by_src'[i][Client] /\ Line(i)'.answers = inbox_by_src'[Client][i]
        /\ Line(i).queue = inbox_by_src[i][Client] /\ Line(i).answers = inbox_by_src[Client][i]
        /\ Line(i)'.held = Line(i).held
    BY <1>1, <1>8 DEF Line, Busy, Held
  <2>2. Line(i)'.answers = Line(i).answers
    BY <1>6, <1>7, <2>1
  <2>3. CASE i # dst
    <3>1. Line(i)'.queue = Line(i).queue
      BY <1>6, <1>7, <2>1, <2>3
    <3>. QED  BY <1>12, <2>1, <2>2, <2>3, <3>1 DEF On, RequestAt
  <2>4. CASE i = dst
    <3>1. Line(i).queue \in Seq(ClientMsg)
      BY <1>6, <1>9, <2>1, <2>4
    <3>2. Line(i)'.queue = Append(Line(i).queue, msg)
      BY <1>6, <1>7, <2>1, <2>4
    <3>3. PICK n \in Nat : n = Len(Line(i).queue) /\ n = Len(inbox_by_src[dst][Client])
      BY <2>1, <2>4, <3>1
    <3>4. /\ Len(Line(i)'.queue) = n + 1 /\ Line(i)'.queue[n + 1] = msg
          /\ \A k \in 1 .. n : Line(i)'.queue[k] = Line(i).queue[k]
      <4>1. Grows(Line(i).queue, Append(Line(i).queue, msg), msg)
        BY <1>5, <3>1, AppendGrows
      <4>. QED  BY <3>2, <3>3, <4>1 DEF Grows
    <3>5. CASE x = n + 1
      BY <2>4, <3>3, <3>4, <3>5 DEF RequestAt
    <3>6. CASE x # n + 1
      <4>1. x \in 1 .. n \/ (x = 0 /\ Line(i).held # << >>) \/ -x \in 1 .. Len(Line(i).answers)
        <5>1. x \in 1 .. n + 1 \/ (x = 0 /\ Line(i)'.held # << >>) \/ -x \in 1 .. Len(Line(i)'.answers)
          BY <1>12, <3>4, Zenon DEF On
        <5>2. x \in 1 .. n + 1 => x \in 1 .. n
          BY <3>6
        <5>. QED  BY <2>1, <2>2, <5>1, <5>2
      <4>2. On(Line(i), x)
        BY <3>3, <4>1 DEF On
      <4>3. RequestAt(Line(i)', x) = RequestAt(Line(i), x)
        BY <2>1, <2>2, <3>4, <4>1 DEF RequestAt
      <4>. QED  BY <2>4, <3>3, <3>6, <4>2, <4>3
    <3>. QED  BY <3>5, <3>6
  <2>. QED  BY <2>3, <2>4
<1>. HIDE DEF c
<1>13. ASSUME NEW i \in Server, NEW x \in Int, On(Line(i)', x), ~IsNew(i, x)
       PROVE  HasSlot(c, RequestAt(Line(i)', x)) /\ RequestAt(Line(i)', x).req_id # msg.req_id
  <2>1. On(Line(i), x) /\ RequestAt(Line(i)', x) = RequestAt(Line(i), x)
    BY <1>12, <1>13
  <2>2. HasSlot(c, RequestAt(Line(i), x))
    BY <1>1, <2>1 DEF Matched, c
  <2>. QED  BY <1>1, <1>5, <2>1, <2>2, SlotsAreGivenOut
<1>14. ASSUME NEW i \in Server, NEW j \in Server, NEW x \in Int, NEW y \in Int,
              On(Line(i)', x), On(Line(j)', y),
              RequestAt(Line(i)', x).req_id = RequestAt(Line(j)', y).req_id
       PROVE  i = j /\ x = y
  <2>1. CASE IsNew(i, x) /\ IsNew(j, y)
    BY <2>1
  <2>2. CASE IsNew(i, x) /\ ~IsNew(j, y)
    BY <1>12, <1>13, <1>14, <2>2
  <2>3. CASE ~IsNew(i, x) /\ IsNew(j, y)
    BY <1>12, <1>13, <1>14, <2>3
  <2>4. CASE ~IsNew(i, x) /\ ~IsNew(j, y)
    <3>1. /\ On(Line(i), x) /\ RequestAt(Line(i)', x) = RequestAt(Line(i), x)
          /\ On(Line(j), y) /\ RequestAt(Line(j)', y) = RequestAt(Line(j), y)
      BY <1>12, <1>14, <2>4
    <3>. QED  BY <1>1, <1>14, <3>1 DEF Matched
  <2>. QED  BY <2>1, <2>2, <2>3, <2>4
<1>15. ASSUME NEW i \in Server, NEW x \in Int, On(Line(i)', x)
       PROVE  HasSlot(client', RequestAt(Line(i)', x))
  <2>1. CASE IsNew(i, x)
    BY <1>11, <1>12, <1>15, <2>1
  <2>2. CASE ~IsNew(i, x)
    BY <1>11, <1>13, <1>15, <2>2
  <2>. QED  BY <2>1, <2>2
<1>16. Matched'
  <2>1. ASSUME NEW i \in Server, NEW x \in Int
        PROVE  On(Line(i), x)' = On(Line(i)', x) /\ RequestAt(Line(i), x)' = RequestAt(Line(i)', x)
    BY DEF On, RequestAt
  <2>2. \A m : HasSlot(client, m)' = HasSlot(client', m)
    BY DEF HasSlot
  <2>. QED  BY <1>8, <1>14, <1>15, <2>1, <2>2 DEF Matched
<1>17. ClientOK(client)'
  BY <1>11 DEF ClientOK
<1>. QED  BY <1>10, <1>16, <1>17 DEF Inv

\* An answer that the client receives.
LEMMA AwaitsKeepsInv ==
    ASSUME Inv, ClientAwaits
    PROVE  Inv'
<1>1. PICK src \in Server :
         /\ inbox_by_src[Client][src] # << >>
         /\ LET msg == Head(inbox_by_src[Client][src])
            IN  client' = AwaitResponse(client, msg.req_id, Decoded(msg))
         /\ inbox_by_src' = [inbox_by_src EXCEPT ![Client][src] = Tail(@)]
  BY DEF ClientAwaits
<1>. DEFINE c   == client
            msg == Head(inbox_by_src[Client][src])
<1>2. /\ Typed /\ ClientOK(c) /\ Matched /\ cfg' = cfg /\ server' = server /\ cfg \in Configuration
      /\ called' = called + 1
  BY DEF Inv, ClientAwaits, Typed, Shape
<1>3. called + 1 \in 0 .. Len(cfg.script)
  BY <1>2, NextCallIs DEF ClientAwaits
<1>4. client' = AwaitResponse(c, msg.req_id, Decoded(msg))
  BY <1>1
<1>5. Client \in Actor /\ Client \notin Server /\ Server \subseteq Actor
  BY <1>2, ActorsAre
<1>6. /\ inbox_by_src'[Client][src] = Tail(inbox_by_src[Client][src])
      /\ \A a, b \in Actor : a # Client \/ b # src => inbox_by_src'[a][b] = inbox_by_src[a][b]
      /\ inbox_by_src' = [a \in Actor |-> [b \in Actor |-> inbox_by_src'[a][b]]]
  <2>1. inbox_by_src = [a \in Actor |-> [b \in Actor |-> inbox_by_src[a][b]]]
    BY <1>2 DEF Typed, Shape
  <2>. QED  BY <1>1, <1>5, <2>1
<1>7. Server' = Server /\ Client' = Client /\ Actor' = Actor
  BY <1>2, SameTypes
<1>8. \A a, b \in Actor : inbox_by_src[a][b] \in Seq(MsgFor(a, b))
  BY <1>2 DEF Typed, QueuesOK
<1>9. PICK n \in Nat : /\ n = Len(inbox_by_src[Client][src]) /\ n > 0
                       /\ Len(inbox_by_src'[Client][src]) = n - 1
                       /\ \A k \in 1 .. n - 1 : inbox_by_src'[Client][src][k] = inbox_by_src[Client][src][k + 1]
                       /\ msg = inbox_by_src[Client][src][1]
  <2>1. PICK q \in Seq(MsgFor(Client, src)) : q = inbox_by_src[Client][src]
    BY <1>5, <1>8
  <2>2. /\ Len(q) \in Nat /\ Len(q) > 0 /\ Len(Tail(q)) = Len(q) - 1
        /\ \A k \in 1 .. Len(q) - 1 : Tail(q)[k] = q[k + 1]
        /\ Head(q) = q[1]
    BY <1>1, <2>1
  <2>. QED  BY <1>6, <2>1, <2>2
<1>10. Typed'
  <2>1. QueuesOK'
    <3>1. ASSUME NEW a \in Actor, NEW b \in Actor
          PROVE  inbox_by_src'[a][b] \in Seq(MsgFor(a, b))
      <4>1. inbox_by_src[a][b] \in Seq(MsgFor(a, b))
        BY <1>8
      <4>2. CASE a = Client /\ b = src
        <5>1. inbox_by_src[a][b] # << >> /\ inbox_by_src'[a][b] = Tail(inbox_by_src[a][b])
          BY <1>1, <1>6, <4>2
        <5>. QED  BY <4>1, <5>1
      <4>3. CASE ~(a = Client /\ b = src)
        BY <1>6, <4>1, <4>3
      <4>. QED  BY <4>2, <4>3
    <3>2. \A a, b : MsgFor(a, b)' = MsgFor(a, b)
      BY <1>7 DEF MsgFor
    <3>. QED  BY <1>7, <3>1, <3>2 DEF QueuesOK
  <2>2. ServersOK'
    BY <1>2, UnchangedServersOK
  <2>3. Shape'
    BY <1>2, <1>6, <1>7, <2>2 DEF Shape, ServersOK
  <2>. QED  BY <1>2, <1>3, <2>1, <2>2, <2>3 DEF Typed, ServersOK
<1>. HIDE DEF msg
<1>11. ASSUME NEW i \in Server
       PROVE  /\ Line(i)'.queue = inbox_by_src[i][Client] /\ Line(i)'.answers = inbox_by_src'[Client][i]
              /\ Line(i).queue = inbox_by_src[i][Client] /\ Line(i).answers = inbox_by_src[Client][i]
              /\ Line(i)'.held = Line(i).held
  <2>1. Line(i)'.queue = inbox_by_src'[i][Client] /\ Line(i)'.answers = inbox_by_src'[Client][i]
    BY <1>7 DEF Line
  <2>2. inbox_by_src'[i][Client] = inbox_by_src[i][Client]
    BY <1>5, <1>6
  <2>3. Line(i)'.held = Line(i).held
    BY <1>2 DEF Line, Busy, Held
  <2>. QED  BY <2>1, <2>2, <2>3 DEF Line
\* The answer that is received is the last one on the line.
<1>12. On(Line(src), -n) /\ RequestAt(Line(src), -n) = msg
  BY <1>9, <1>11 DEF On, RequestAt
<1>13. ASSUME NEW i \in Server, NEW x \in Int, On(Line(i)', x)
       PROVE  /\ On(Line(i), x) /\ RequestAt(Line(i)', x) = RequestAt(Line(i), x)
              /\ ~(i = src /\ x = -n)
  <2>1. CASE i # src
    <3>1. Line(i)'.answers = Line(i).answers
      BY <1>5, <1>6, <1>11, <2>1
    <3>. QED  BY <1>11, <1>13, <2>1, <3>1 DEF On, RequestAt
  <2>2. CASE i = src
    <3>1. /\ Len(Line(i).answers) = n /\ Len(Line(i)'.answers) = n - 1
          /\ \A k \in 1 .. n - 1 : Line(i)'.answers[k] = Line(i).answers[k + 1]
          /\ Line(i)'.queue = Line(i).queue /\ Line(i)'.held = Line(i).held
      BY <1>9, <1>11, <2>2
    <3>2. CASE x < 0
      <4>1. -x \in 1 .. n - 1
        <5>1. x \in 1 .. Len(Line(i)'.queue) \/ x = 0 \/ -x \in 1 .. Len(Line(i)'.answers)
          BY <1>13 DEF On
        <5>2. PICK l : l = Len(Line(i)'.queue)
          OBVIOUS
        <5>3. x \notin 1 .. l
          BY <3>2
        <5>. QED  BY <3>1, <3>2, <5>1, <5>2, <5>3
      <4>2. On(Line(i), x) /\ x # -n
        BY <3>1, <4>1 DEF On
      <4>3. x + n \in 1 .. n - 1
        BY <4>1
      <4>4. RequestAt(Line(i)', x) = Line(i)'.answers[x + n] /\ RequestAt(Line(i), x) = Line(i).answers[x + n + 1]
        <5>1. ~(x > 0) /\ x # 0 /\ x + (n - 1) + 1 = x + n
          BY <3>2
        <5>. QED  BY <3>1, <5>1 DEF RequestAt
      <4>. QED  BY <3>1, <4>2, <4>3, <4>4
    <3>3. CASE ~(x < 0)
      <4>1. x \in 1 .. Len(Line(i).queue) \/ (x = 0 /\ Line(i).held # << >>)
        <5>1. -x \notin 1 .. n - 1
          BY <3>3
        <5>. QED  BY <1>13, <3>1, <5>1 DEF On
      <4>2. On(Line(i), x) /\ x # -n
        BY <1>9, <3>3, <4>1 DEF On
      <4>3. RequestAt(Line(i)', x) = RequestAt(Line(i), x)
        BY <3>1, <3>3 DEF RequestAt
      <4>. QED  BY <4>2, <4>3
    <3>. QED  BY <3>2, <3>3
  <2>. QED  BY <2>1, <2>2
<1>14. HasSlot(c, msg)
  BY <1>2, <1>9, <1>12 DEF Matched
<1>15. /\ ClientOK(client')
       /\ \A m : HasSlot(c, m) /\ m.req_id # msg.req_id => HasSlot(client', m)
  <2>1. /\ ClientOK(AwaitResponse(c, msg.req_id, Decoded(msg)))
        /\ \A m : HasSlot(c, m) /\ m.req_id # msg.req_id
                     => HasSlot(AwaitResponse(c, msg.req_id, Decoded(msg)), m)
    BY <1>2, <1>14, AwaitClearsTheSlot
  <2>. QED  BY <1>4, <2>1
<1>16. ASSUME NEW i \in Server, NEW x \in Int, On(Line(i)', x)
       PROVE  HasSlot(client', RequestAt(Line(i)', x))
  <2>1. /\ On(Line(i), x) /\ RequestAt(Line(i)', x) = RequestAt(Line(i), x)
        /\ ~(i = src /\ x = -n)
    BY <1>13, <1>16
  <2>2. HasSlot(c, RequestAt(Line(i), x))
    BY <1>2, <2>1 DEF Matched
  <2>3. RequestAt(Line(i), x).req_id # msg.req_id
    <3>1. -n \in Int
      OBVIOUS
    <3>. QED  BY <1>2, <1>12, <2>1, <3>1 DEF Matched
  <2>. QED  BY <1>15, <2>1, <2>2, <2>3
<1>17. ASSUME NEW i \in Server, NEW j \in Server, NEW x \in Int, NEW y \in Int,
              On(Line(i)', x), On(Line(j)', y),
              RequestAt(Line(i)', x).req_id = RequestAt(Line(j)', y).req_id
       PROVE  i = j /\ x = y
  <2>1. /\ On(Line(i), x) /\ RequestAt(Line(i)', x) = RequestAt(Line(i), x)
        /\ On(Line(j), y) /\ RequestAt(Line(j)', y) = RequestAt(Line(j), y)
    BY <1>13, <1>17
  <2>. QED  BY <1>2, <1>17, <2>1 DEF Matched
<1>18. Matched'
  <2>1. ASSUME NEW i \in Server, NEW x \in Int
        PROVE  On(Line(i), x)' = On(Line(i)', x) /\ RequestAt(Line(i), x)' = RequestAt(Line(i)', x)
    BY DEF On, RequestAt
  <2>2. \A m : HasSlot(client, m)' = HasSlot(client', m)
    BY DEF HasSlot
  <2>. QED  BY <1>7, <1>16, <1>17, <2>1, <2>2 DEF Matched
<1>19. ClientOK(client)'
  BY <1>15 DEF ClientOK
<1>. QED  BY <1>10, <1>18, <1>19 DEF Inv

\* A step that changes nothing.
LEMMA StutterKeepsInv ==
    ASSUME Inv, UNCHANGED vars
    PROVE  Inv'
<1>1. UNCHANGED <<cfg, server, client, called, inbox_by_src>>
  BY DEF vars
<1>2. Server' = Server /\ Client' = Client /\ Actor' = Actor
  BY <1>1, SameTypes
<1>3. Typed'
  <2>1. ServersOK'
    BY <1>1, UnchangedServersOK DEF Inv
  <2>2. QueuesOK'
    BY <1>1, <1>2 DEF Inv, Typed, QueuesOK, MsgFor
  <2>3. Shape'
    BY <1>1, <1>2, <2>1 DEF Inv, Typed, Shape, ServersOK
  <2>. QED  BY <1>1, <2>1, <2>2, <2>3 DEF Inv, Typed, ServersOK
<1>4. Matched'
  <2>1. \A i, x : Line(i)' = Line(i)
    BY <1>1, <1>2 DEF Line, Busy, Held
  <2>2. ASSUME NEW i, NEW x
        PROVE  On(Line(i), x)' = On(Line(i), x) /\ RequestAt(Line(i), x)' = RequestAt(Line(i), x)
    BY <2>1 DEF On, RequestAt
  <2>3. \A m : HasSlot(client, m)' = HasSlot(client, m)
    BY <1>1 DEF HasSlot
  <2>4. \A i, x : HasSlot(client, RequestAt(Line(i), x))' = HasSlot(client, RequestAt(Line(i), x))
    BY <1>1, <2>2 DEF HasSlot, Asks
  <2>. QED  BY <1>2, <2>2, <2>4 DEF Inv, Matched
<1>5. ClientOK(client)'
  BY <1>1 DEF Inv, ClientOK
<1>. QED  BY <1>3, <1>4, <1>5 DEF Inv

\* Every step keeps the invariant.
LEMMA NextKeepsInv == Inv /\ [Next]_vars => Inv'
<1>. SUFFICES ASSUME Inv, [Next]_vars PROVE Inv'
  OBVIOUS
<1>1. CASE ServerNext
  BY <1>1, ServeKeepsInv DEF ServerNext
<1>2. CASE ClientInvokes
  BY <1>2, InvokesKeepsInv
<1>3. CASE ClientAwaits
  BY <1>3, AwaitsKeepsInv
<1>4. CASE UNCHANGED vars
  BY <1>4, StutterKeepsInv
<1>. QED  BY <1>1, <1>2, <1>3, <1>4 DEF Next

\* The invariant holds in every state.
LEMMA AlwaysInv == Spec => []Inv
<1>. QED  BY InitInv, NextKeepsInv, PTL DEF Spec

-----------------------------------------------------------------------------
(* The theorems                                                            *)

(***************************************************************************)
(* Requests go to servers, replies to the client, internal messages from   *)
(* server to server; a server that serves a request serves the client, and *)
(* never waits once it has a quorum of answers.                            *)
(***************************************************************************)
THEOREM MemoryIsWellTyped == Spec => []TypeOK
<1>1. Inv => TypeOK
  BY DEF Inv, Typed, ServerOK, FiberOK, QueuesOK, TypeOK
<1>. QED  BY <1>1, AlwaysInv, PTL

\* Where the request is that comes at x on the line of the server id.
PlaceAt(id, x) ==
    [id |-> id,
     at |-> IF x > 0 THEN "queue" ELSE IF x = 0 THEN "fiber" ELSE "client",
     k  |-> IF x > 0 THEN x ELSE IF x = 0 THEN 1 ELSE x + Len(Line(id).answers) + 1,
     req_id |-> RequestAt(Line(id), x).req_id]

\* Every place is on a line.
LEMMA PlacesAreOnLines ==
    ASSUME Typed, NEW p \in Places
    PROVE  \E id \in Server : \E x \in Int : On(Line(id), x) /\ p = PlaceAt(id, x)
<1>1. PICK id \in Server : p \in Queued(id) \cup Served(id) \cup Answered(id)
  BY DEF Places
<1>2. /\ Line(id).queue = inbox_by_src[id][Client] /\ Line(id).answers = inbox_by_src[Client][id]
      /\ Line(id).held = IF Busy(id) THEN << Held(id) >> ELSE << >>
  BY DEF Line
<1>3. /\ inbox_by_src[id][Client] \in Seq(MsgFor(id, Client))
      /\ inbox_by_src[Client][id] \in Seq(MsgFor(Client, id))
  BY ActorsAre DEF Typed, Shape, QueuesOK
<1>4. PICK n \in Nat, m \in Nat :
         /\ n = Len(inbox_by_src[id][Client]) /\ DOMAIN inbox_by_src[id][Client] = 1 .. n
         /\ m = Len(inbox_by_src[Client][id]) /\ DOMAIN inbox_by_src[Client][id] = 1 .. m
  BY <1>3
<1>5. CASE p \in Queued(id)
  <2>1. PICK k \in 1 .. n :
           p = [id |-> id, at |-> "queue", k |-> k, req_id |-> inbox_by_src[id][Client][k].req_id]
    BY <1>4, <1>5 DEF Queued
  <2>2. On(Line(id), k) /\ RequestAt(Line(id), k) = inbox_by_src[id][Client][k]
    BY <1>2, <1>4 DEF On, RequestAt
  <2>3. p = PlaceAt(id, k)
    BY <2>1, <2>2 DEF PlaceAt
  <2>. QED  BY <2>2, <2>3
<1>6. CASE p \in Served(id)
  <2>1. server[id].fiber.state \in {"idle", "phase1", "phase2"}
    BY DEF Typed, ServerOK, FiberOK
  <2>2. Busy(id) /\ p = [id |-> id, at |-> "fiber", k |-> 1, req_id |-> Held(id).req_id]
    BY <1>6, <2>1 DEF Served, Busy, Held
  <2>3. On(Line(id), 0) /\ RequestAt(Line(id), 0) = Held(id)
    BY <1>2, <2>2 DEF On, RequestAt
  <2>4. p = PlaceAt(id, 0)
    BY <2>2, <2>3 DEF PlaceAt
  <2>. QED  BY <2>3, <2>4
<1>7. CASE p \in Answered(id)
  <2>1. PICK k \in 1 .. m :
           p = [id |-> id, at |-> "client", k |-> k, req_id |-> inbox_by_src[Client][id][k].req_id]
    BY <1>4, <1>7 DEF Answered
  <2>. DEFINE x == k - m - 1
  <2>2. x \in Int /\ x < 0 /\ -x \in 1 .. m /\ x + m + 1 = k
    OBVIOUS
  <2>. HIDE DEF x
  <2>3. On(Line(id), x) /\ RequestAt(Line(id), x) = inbox_by_src[Client][id][k]
    BY <1>2, <1>4, <2>2 DEF On, RequestAt
  <2>4. p = PlaceAt(id, x)
    BY <1>2, <1>4, <2>1, <2>2, <2>3 DEF PlaceAt
  <2>. QED  BY <2>2, <2>3, <2>4
<1>. QED  BY <1>1, <1>5, <1>6, <1>7

(***************************************************************************)
(* However the responses overtake one another, each finds the slot of its  *)
(* own request: no unwrap of the client fails, and it is never told of an  *)
(* invalid request ID.                                                     *)
(***************************************************************************)
THEOREM AnswersFindTheirRequests == Spec => []RequestsAreMatched
<1>1. ASSUME Inv PROVE RequestsAreMatched
  <2>. DEFINE slots  == client.thread_idx_to_request_id
              flying == client.tester.in_flight_by_thread
              Slot(req_id) == CHOOSE t \in DOMAIN slots : slots[t] = req_id
  <2>1. Typed /\ ClientOK(client) /\ Matched
    BY <1>1 DEF Inv
  <2>2. /\ client.panicked \in {"None", "inconsistent"}
        /\ {t \in DOMAIN slots : slots[t] # None} = DOMAIN flying
        /\ \A t, u \in DOMAIN slots : slots[t] = slots[u] /\ slots[t] # None => t = u
    BY <2>1 DEF ClientOK
  <2>3. ASSUME NEW p \in Places, NEW q \in Places, p.req_id = q.req_id
        PROVE  p = q
    <3>1. PICK i \in Server, x \in Int : On(Line(i), x) /\ p = PlaceAt(i, x)
      BY <2>1, PlacesAreOnLines
    <3>2. PICK j \in Server, y \in Int : On(Line(j), y) /\ q = PlaceAt(j, y)
      BY <2>1, PlacesAreOnLines
    <3>3. RequestAt(Line(i), x).req_id = RequestAt(Line(j), y).req_id
      BY <2>3, <3>1, <3>2 DEF PlaceAt
    <3>. QED  BY <2>1, <3>1, <3>2, <3>3 DEF Matched
  <2>4. ASSUME NEW p \in Places
        PROVE  \E t \in DOMAIN slots : slots[t] = p.req_id
    <3>1. PICK i \in Server, x \in Int : On(Line(i), x) /\ p = PlaceAt(i, x)
      BY <2>1, PlacesAreOnLines
    <3>2. p.req_id = RequestAt(Line(i), x).req_id
      BY <3>1 DEF PlaceAt
    <3>3. HasSlot(client, RequestAt(Line(i), x))
      BY <2>1, <3>1 DEF Matched
    <3>. QED  BY <3>2, <3>3 DEF HasSlot
  <2>5. ASSUME NEW id \in Server, NEW k \in DOMAIN inbox_by_src[Client][id]
        PROVE  LET msg == inbox_by_src[Client][id][k]
               IN  msg.type = "GetOk" <=> flying[Slot(msg.req_id)].op = Read
    <3>. DEFINE msg == inbox_by_src[Client][id][k]
    <3>1. inbox_by_src[Client][id] \in Seq(MsgFor(Client, id)) /\ MsgFor(Client, id) = Reply
      BY <2>1, ActorsAre DEF Typed, Shape, QueuesOK, MsgFor
    <3>2. PICK m \in Nat : m = Len(inbox_by_src[Client][id]) /\ k \in 1 .. m
      BY <3>1
    <3>3. msg \in Reply
      BY <3>1, <3>2
    <3>4. msg.type = "GetOk" <=> Asks(msg)
      BY <3>3 DEF Reply, Asks
    <3>5. Line(id).answers = inbox_by_src[Client][id]
      BY DEF Line
    <3>. DEFINE x == k - m - 1
    <3>6. x \in Int /\ x < 0 /\ -x \in 1 .. m /\ x + m + 1 = k
      <4>1. k \in 1 .. m
        BY <3>2
      <4>. HIDE DEF msg
      <4>. QED  BY <4>1
    <3>. HIDE DEF x, msg
    <3>7. On(Line(id), x) /\ RequestAt(Line(id), x) = msg
      BY <3>2, <3>5, <3>6 DEF On, RequestAt, msg
    <3>8. HasSlot(client, msg)
      BY <2>1, <3>6, <3>7 DEF Matched
    <3>9. PICK t \in DOMAIN slots : /\ slots[t] = msg.req_id /\ msg.req_id # None
                                    /\ Asks(msg) <=> flying[t].op = Read
      BY <3>8 DEF HasSlot
    <3>10. Slot(msg.req_id) = t
      BY <2>2, <3>9
    <3>11. msg.type = "GetOk" <=> flying[Slot(msg.req_id)].op = Read
      BY <3>4, <3>9, <3>10
    <3>. QED  BY <3>11 DEF msg
  <2>. QED  BY <2>2, <2>3, <2>4, <2>5 DEF RequestsAreMatched
<1>. QED  BY <1>1, AlwaysInv, PTL

-----------------------------------------------------------------------------
(* A client that waits for every answer                                    *)

\* No request is at the server, ...
Free(id) == inbox_by_src[id][Client] = << >> /\ ~Busy(id) /\ inbox_by_src[Client][id] = << >>

\* ... or one: queued, being served or answered.
Engaged(id) ==
    \/ Len(inbox_by_src[id][Client]) = 1 /\ ~Busy(id) /\ inbox_by_src[Client][id] = << >>
    \/ inbox_by_src[id][Client] = << >> /\ Busy(id) /\ inbox_by_src[Client][id] = << >>
    \/ inbox_by_src[id][Client] = << >> /\ ~Busy(id) /\ Len(inbox_by_src[Client][id]) = 1

\* Between two operations all servers are free, within one all but one are.
OneAtATime ==
    IF called % 2 = 0 THEN \A id \in Server : Free(id)
    ELSE \E c \in Server : Engaged(c) /\ \A id \in Server \ {c} : Free(id)

Has(queue, type) == \E k \in 1 .. Len(queue) : queue[k].type = type

\* What the server id waits for will come of s: it has, or the question or the
\* response is on its way.
WillHear(id, s) ==
    \/ s \in HeardBy(server[id].fiber)
    \/ Has(inbox_by_src[s][id], QuestionOf(server[id].fiber))
    \/ Has(inbox_by_src[id][s], ResponseOf(server[id].fiber))

\* Only servers that replicate ever wait, and all others will respond.
AllWillRespond ==
    \A id \in Server : Busy(id) => cfg.replicated /\ \A s \in Server \ {id} : WillHear(id, s)

Going == asserted /\ client.panicked = "None"

\* The invariant of a client that makes one call at a time.
ServedInv == IsSequential /\ Going => OneAtATime /\ AllWillRespond

\* What a queue has it keeps, but for the head that is taken.
LEMMA HasAfter ==
    ASSUME NEW V, NEW q \in Seq(V), NEW r \in Seq(V), NEW type
    PROVE  /\ Has(q, type) => Has(q \o r, type)
           /\ Has(r, type) => Has(q \o r, type)
           /\ q # << >> /\ Head(q).type # type /\ Has(q, type) => Has(Tail(q), type)
<1>1. PICK n \in Nat, m \in Nat : n = Len(q) /\ m = Len(r)
  OBVIOUS
<1>2. /\ Len(q \o r) = n + m
      /\ \A k \in 1 .. n : (q \o r)[k] = q[k]
      /\ \A k \in 1 .. m : (q \o r)[n + k] = r[k]
  BY <1>1
<1>3. ASSUME Has(q, type) PROVE Has(q \o r, type)
  <2>1. PICK k \in 1 .. n : q[k].type = type
    BY <1>1, <1>3 DEF Has
  <2>2. (q \o r)[k] = q[k]
    BY <1>2
  <2>3. k \in 1 .. n + m
    OBVIOUS
  <2>4. k \in 1 .. Len(q \o r) /\ (q \o r)[k].type = type
    BY <1>2, <2>1, <2>2, <2>3, Zenon
  <2>. QED  BY <2>4 DEF Has
<1>4. ASSUME Has(r, type) PROVE Has(q \o r, type)
  <2>1. PICK k \in 1 .. m : r[k].type = type
    BY <1>1, <1>4 DEF Has
  <2>2. (q \o r)[n + k] = r[k]
    BY <1>2
  <2>3. n + k \in 1 .. n + m
    OBVIOUS
  <2>4. n + k \in 1 .. Len(q \o r) /\ (q \o r)[n + k].type = type
    BY <1>2, <2>1, <2>2, <2>3, Zenon
  <2>. QED  BY <2>4 DEF Has
<1>5. ASSUME q # << >>, Head(q).type # type, Has(q, type) PROVE Has(Tail(q), type)
  <2>1. PICK k \in 1 .. n : q[k].type = type
    BY <1>1, <1>5 DEF Has
  <2>2. Head(q) = q[1] /\ Len(Tail(q)) = n - 1 /\ \A j \in 1 .. n - 1 : Tail(q)[j] = q[j + 1]
    BY <1>1, <1>5
  <2>3. k # 1
    BY <1>5, <2>1, <2>2
  <2>4. k - 1 \in 1 .. n - 1 /\ Tail(q)[k - 1] = q[k]
    BY <2>1, <2>2, <2>3
  <2>. QED  BY <2>1, <2>2, <2>4 DEF Has
<1>. QED  BY <1>3, <1>4, <1>5

\* What the state of a server is about depends on the queues to and from the client.
LEMMA SameStanding ==
    ASSUME NEW id, cfg' = cfg, server'[id].fiber = server[id].fiber,
           inbox_by_src'[id][Client] = inbox_by_src[id][Client],
           inbox_by_src'[Client][id] = inbox_by_src[Client][id]
    PROVE  (Free(id)' <=> Free(id)) /\ (Engaged(id)' <=> Engaged(id))
<1>1. Client' = Client /\ (Busy(id)' <=> Busy(id))
  BY SameTypes DEF Busy
<1>2. Free(id)' <=> Free(id)
  BY <1>1 DEF Free
<1>3. Engaged(id)' <=> Engaged(id)
  BY <1>1 DEF Engaged
<1>. QED  BY <1>2, <1>3

\* There is nothing behind the head of a sequence of one.
LEMMA TailOfOne ==
    ASSUME NEW V, NEW q \in Seq(V), Len(q) = 1
    PROVE  Tail(q) = << >>
<1>1. q # << >>
  OBVIOUS
<1>2. Tail(q) \in Seq(V) /\ Len(Tail(q)) = 0
  BY <1>1
<1>3. \A r \in Seq(V) : Len(r) = 0 => r = << >>
  OBVIOUS
<1>. QED  BY <1>2, <1>3

\* A step of a server neither loses nor makes up a request.
LEMMA StepsKeepStanding ==
    ASSUME Typed, NEW id \in Server, NEW src \in Actor, NEW out, ServerStep(id, src, out),
           inbox_by_src[id][src] # << >>, cfg' = cfg
    PROVE  /\ Free(id) => Free(id)'
           /\ Engaged(id) => Engaged(id)'
           /\ \A j \in Server : j # id => (Free(j)' <=> Free(j)) /\ (Engaged(j)' <=> Engaged(j))
<1>1. cfg \in Configuration
  BY DEF Typed, Shape
<1>2. Client' = Client /\ id \in Actor /\ Client \in Actor
  BY <1>1, ActorsAre, SameTypes
<1>3. /\ inbox_by_src'[id][Client] =
            IF src = Client THEN Tail(inbox_by_src[id][Client]) ELSE inbox_by_src[id][Client]
      /\ inbox_by_src'[Client][id] = inbox_by_src[Client][id] \o out[Client]
      /\ \A j \in Server : j # id =>
            /\ inbox_by_src'[j][Client] = inbox_by_src[j][Client]
            /\ inbox_by_src'[Client][j] = inbox_by_src[Client][j]
  BY <1>1, ExchangeQueues DEF ServerStep
<1>4. ASSUME NEW j \in Server, j # id
      PROVE  (Free(j)' <=> Free(j)) /\ (Engaged(j)' <=> Engaged(j))
  <2>1. server'[j].fiber = server[j].fiber
    BY <1>4 DEF ServerStep
  <2>. QED  BY <1>3, <1>4, <2>1, SameStanding
<1>. DEFINE q == inbox_by_src[id][Client]
            a == inbox_by_src[Client][id]
            b == inbox_by_src'[Client][id]
            r == inbox_by_src'[id][Client]
<1>5. q \in Seq(MsgFor(id, Client)) /\ a \in Seq(MsgFor(Client, id))
  BY <1>2 DEF Typed, QueuesOK
<1>6. src = Client => q # << >> /\ r = Tail(q) /\ (Len(q) = 1 => r = << >>)
  <2>1. src = Client => q # << >> /\ r = Tail(q)
    BY <1>3
  <2>2. Len(q) = 1 => Tail(q) = << >>
    <3>1. PICK V : q \in Seq(V)
      BY <1>5
    <3>. HIDE DEF q
    <3>. QED  BY <3>1, TailOfOne
  <2>. QED  BY <2>1, <2>2
<1>7. src # Client => r = q
  BY <1>3
<1>8. out[Client] = << >> => b = a
  BY <1>3, <1>5
<1>9. ASSUME NEW m, out[Client] = << m >>, a = << >>
      PROVE  Len(b) = 1
  BY <1>3, <1>9
<1>10. /\ Free(id) <=> q = << >> /\ ~Busy(id) /\ a = << >>
       /\ Free(id)' <=> r = << >> /\ ~Busy(id)' /\ b = << >>
       /\ Engaged(id) <=> \/ Len(q) = 1 /\ ~Busy(id) /\ a = << >>
                          \/ q = << >> /\ Busy(id) /\ a = << >>
                          \/ q = << >> /\ ~Busy(id) /\ Len(a) = 1
       /\ Engaged(id)' <=> \/ Len(r) = 1 /\ ~Busy(id)' /\ b = << >>
                           \/ r = << >> /\ Busy(id)' /\ b = << >>
                           \/ r = << >> /\ ~Busy(id)' /\ Len(b) = 1
  BY <1>2 DEF Free, Engaged
<1>. HIDE DEF q, a, b, r
<1>11. CASE HoldsOn(id) /\ (src = Client => Busy(id)) /\ out[Client] = << >>
  BY <1>4, <1>6, <1>7, <1>8, <1>10, <1>11 DEF HoldsOn
<1>12. CASE src = Client /\ ~Busy(id) /\ Busy(id)' /\ out[Client] = << >>
  BY <1>4, <1>6, <1>8, <1>10, <1>12
<1>13. CASE src # Client /\ Busy(id) /\ ~Busy(id)' /\ \E m : out[Client] = << m >>
  BY <1>4, <1>7, <1>9, <1>10, <1>13
<1>14. CASE src = Client /\ HoldsOn(id) /\ \E m : out[Client] = << m >>
  BY <1>4, <1>6, <1>9, <1>10, <1>14 DEF HoldsOn
<1>. QED  BY <1>11, <1>12, <1>13, <1>14 DEF ServerStep, Conduct, Answers

\* What an exchange does to the queue of a from b.
Exchanged(id, src, out, a, b) ==
    /\ inbox_by_src[a][b] \in Seq(InternalMsg)
    /\ b = id => out[a] \in Seq(InternalMsg) /\ inbox_by_src'[a][b] = inbox_by_src[a][b] \o out[a]
    /\ b # id => inbox_by_src'[a][b] = IF a = id /\ b = src THEN Tail(inbox_by_src[a][b])
                                      ELSE inbox_by_src[a][b]

\* This is so for any two servers.
LEMMA ExchangeBetweenServers ==
    ASSUME Typed, NEW id \in Server, NEW src \in Actor, NEW out, Sendable(id, out),
           Exchange(id, src, out), NEW a \in Server, NEW b \in Server, a # b
    PROVE  Exchanged(id, src, out, a, b)
<1>1. /\ a # Client /\ b # Client /\ a \in Actor /\ b \in Actor
  BY ActorsAre DEF Typed, Shape
<1>2. MsgFor(a, b) = InternalMsg
  BY <1>1 DEF MsgFor
<1>3. inbox_by_src[a][b] \in Seq(InternalMsg)
  BY <1>1, <1>2 DEF Typed, QueuesOK
<1>4. b = id => out[a] \in Seq(InternalMsg)
  BY <1>1, <1>2 DEF Sendable
<1>5. inbox_by_src'[a][b] =
         IF b = id
         THEN (IF a = id /\ b = src THEN Tail(inbox_by_src[a][b]) ELSE inbox_by_src[a][b]) \o out[a]
         ELSE IF a = id /\ b = src THEN Tail(inbox_by_src[a][b]) ELSE inbox_by_src[a][b]
  BY <1>1 DEF Exchange
<1>6. b = id => inbox_by_src'[a][b] = inbox_by_src[a][b] \o out[a]
  <2>1. b = id => a # id
    OBVIOUS
  <2>. QED  BY <1>5, <2>1
<1>. QED  BY <1>3, <1>4, <1>5, <1>6 DEF Exchanged

\* A server that does not replicate never waits.
LEMMA AloneIsNeverBusy ==
    ASSUME Typed, NEW id \in Server, Serve(id), ~cfg.replicated
    PROVE  Busy(id)' <=> Busy(id)
<1>1. PICK src \in Actor : ServeAlone(id, src, Head(inbox_by_src[id][src]))
  BY DEF Serve
<1>2. server' = server \/ \E v : server' = [server EXCEPT ![id].value = v]
  BY <1>1 DEF ServeAlone
<1>3. server[id] = [fiber |-> server[id].fiber, clock |-> server[id].clock, value |-> server[id].value]
      /\ DOMAIN server = Server
  BY DEF Typed, Shape
<1>4. server'[id].fiber = server[id].fiber
  BY <1>2, <1>3
<1>. QED  BY <1>4 DEF Busy

\* A step of one server leaves the fibers of the others.
LEMMA OthersStayBusy ==
    ASSUME Typed, NEW id \in Server, Serve(id), NEW c \in Server, c # id
    PROVE  Busy(c)' <=> Busy(c)
<1>1. PICK src \in Actor : \E out : ServerStep(id, src, out)
  BY ServeSteps
<1>2. server'[c] = server[c]
  BY <1>1 DEF ServerStep
<1>. QED  BY <1>2 DEF Busy

(***************************************************************************)
(* What a server waits for will come of every other that is not busy, now  *)
(* or when it is asked: a server that is not busy answers its questions.   *)
(***************************************************************************)
LEMMA ServeKeepsHearing ==
    ASSUME Typed, NEW id \in Server, Serve(id), asserted',
           NEW c \in Server, NEW s \in Server \ {c}, Busy(c)', Busy(c) => WillHear(c, s),
           s = id => ~Busy(id)
    PROVE  WillHear(c, s)'
<1>2. PICK src \in Actor : \E out : inbox_by_src[id][src] # << >> /\ ServerStep(id, src, out)
  BY ServeSteps DEF Serve
<1>3. PICK out : inbox_by_src[id][src] # << >> /\ ServerStep(id, src, out)
  BY <1>2
<1>. DEFINE type == Head(inbox_by_src[id][src]).type
<1>4. /\ Sendable(id, out) /\ Exchange(id, src, out)
      /\ Pursues(id, src, type, out)
      /\ \A other \in Server : other # id => server'[other] = server[other]
  BY <1>3 DEF ServerStep
<1>. HIDE DEF type
<1>5. ASSUME NEW a \in Server, NEW b \in Server, a # b, NEW t, Has(inbox_by_src[a][b], t),
             a = id /\ b = src => type # t
      PROVE  Has(inbox_by_src'[a][b], t)
  <2>1. Exchanged(id, src, out, a, b)
    BY <1>4, <1>5, ExchangeBetweenServers
  <2>2. CASE b = id
    BY <1>5, <2>1, <2>2, HasAfter DEF Exchanged
  <2>3. CASE b # id /\ a = id /\ b = src
    BY <1>3, <1>5, <2>1, <2>3, HasAfter DEF Exchanged, type
  <2>4. CASE b # id /\ ~(a = id /\ b = src)
    BY <1>5, <2>1, <2>4 DEF Exchanged
  <2>. QED  BY <2>2, <2>3, <2>4
<1>6. ASSUME NEW a \in Server, a # id, NEW t, Sends(out, a, t)
      PROVE  Has(inbox_by_src'[a][id], t)
  <2>1. /\ inbox_by_src[a][id] \in Seq(InternalMsg) /\ out[a] \in Seq(InternalMsg)
        /\ inbox_by_src'[a][id] = inbox_by_src[a][id] \o out[a]
    <3>1. Exchanged(id, src, out, a, id)
      BY <1>4, <1>6, ExchangeBetweenServers
    <3>. QED  BY <3>1 DEF Exchanged
  <2>2. PICK m : out[a] = << m >> /\ m.type = t
    BY <1>6 DEF Sends
  <2>3. Has(out[a], t)
    <3>1. Len(out[a]) = 1 /\ out[a][1] = m
      BY <2>2
    <3>. QED  BY <2>2, <3>1 DEF Has
  <2>. QED  BY <2>1, <2>3, HasAfter
<1>7. CASE c = id
  <2>1. GoesOn(server[id].fiber, server'[id].fiber, src, type, out)
    BY <1>4, <1>7 DEF Pursues
  <2>2. CASE \A u \in Server : Sends(out, u, QuestionOf(server'[id].fiber))
    BY <1>6, <1>7, <2>2 DEF WillHear, QuestionOf
  <2>3. CASE /\ server[id].fiber.state = server'[id].fiber.state
             /\ HeardBy(server[id].fiber) \subseteq HeardBy(server'[id].fiber)
             /\ type = ResponseOf(server[id].fiber) => src \in HeardBy(server'[id].fiber)
    <3>1. WillHear(id, s)
      BY <1>7, <2>3 DEF Busy
    <3>2. /\ QuestionOf(server'[id].fiber) = QuestionOf(server[id].fiber)
          /\ ResponseOf(server'[id].fiber) = ResponseOf(server[id].fiber)
      BY <2>3 DEF QuestionOf, ResponseOf
    <3>3. CASE s \in HeardBy(server[id].fiber) \/ s \in HeardBy(server'[id].fiber)
      BY <1>7, <2>3, <3>3 DEF WillHear, HeardBy
    <3>4. CASE Has(inbox_by_src[s][id], QuestionOf(server[id].fiber))
      <4>1. Has(inbox_by_src'[s][id], QuestionOf(server'[id].fiber))
        BY <1>5, <1>7, <3>2, <3>4
      <4>. QED  BY <1>7, <4>1 DEF WillHear, QuestionOf, Has
    <3>5. CASE Has(inbox_by_src[id][s], ResponseOf(server[id].fiber)) /\ s \notin HeardBy(server'[id].fiber)
      <4>1. s = src => type # ResponseOf(server[id].fiber)
        BY <2>3, <3>5
      <4>2. Has(inbox_by_src'[id][s], ResponseOf(server'[id].fiber))
        BY <1>5, <1>7, <3>2, <3>5, <4>1
      <4>. QED  BY <1>7, <4>2 DEF WillHear, ResponseOf, Has
    <3>. QED  BY <3>1, <3>3, <3>4, <3>5 DEF WillHear
  <2>. QED  BY <2>1, <2>2, <2>3 DEF GoesOn
<1>8. CASE c # id
  <2>. DEFINE question == QuestionOf(server[c].fiber)
              response == ResponseOf(server[c].fiber)
  <2>1. server'[c] = server[c] /\ Busy(c)
    BY <1>4, <1>8 DEF Busy
  <2>2. WillHear(c, s) /\ s # c
    BY <2>1
  <2>3. WillHear(c, s)' <=> \/ s \in HeardBy(server[c].fiber)
                            \/ Has(inbox_by_src'[s][c], question)
                            \/ Has(inbox_by_src'[c][s], response)
    BY <2>1 DEF WillHear, HeardBy, QuestionOf, ResponseOf, Has
  <2>4. CASE Has(inbox_by_src[c][s], response)
    <3>1. Has(inbox_by_src'[c][s], response)
      BY <1>5, <1>8, <2>2, <2>4
    <3>. QED  BY <2>3, <3>1
  <2>5. CASE Has(inbox_by_src[s][c], question) /\ (s = id /\ c = src => type # question)
    <3>1. Has(inbox_by_src'[s][c], question)
      BY <1>5, <2>2, <2>5
    <3>. QED  BY <2>3, <3>1
  <2>6. CASE s = id /\ c = src /\ type = question
    <3>1. Sends(out, c, response)
      <4>1. \/ question = "InternalGet" /\ response = "InternalGetOk"
            \/ question = "InternalPut" /\ response = "InternalPutOk"
        BY DEF QuestionOf, ResponseOf
      <4>. QED  BY <1>4, <2>6, <4>1 DEF Pursues
    <3>2. Has(inbox_by_src'[c][id], response)
      BY <1>6, <1>8, <3>1
    <3>. QED  BY <2>3, <2>6, <3>2
  <2>7. CASE s \in HeardBy(server[c].fiber)
    BY <2>3, <2>7
  <2>. QED  BY <2>2, <2>4, <2>5, <2>6, <2>7 DEF WillHear
<1>. QED  BY <1>7, <1>8

(***************************************************************************)
(* While one server is busy the others answer what it asks of them, so all *)
(* will respond to it.                                                     *)
(***************************************************************************)
LEMMA ServeKeepsResponses ==
    ASSUME Typed, OneAtATime, AllWillRespond, NEW id \in Server, Serve(id), asserted'
    PROVE  AllWillRespond'
<1>1. cfg' = cfg /\ Server' = Server
  BY SameTypes DEF Serve
<1>2. ASSUME NEW c \in Server, Busy(c)'
      PROVE  cfg.replicated /\ \A s \in Server \ {c} : WillHear(c, s)'
  <2>1. Busy(c) => cfg.replicated /\ \A s \in Server \ {c} : WillHear(c, s)
    BY DEF AllWillRespond
  <2>2. c # id => Busy(c)
    BY <1>2, OthersStayBusy
  <2>3. cfg.replicated
    BY <1>2, <2>1, <2>2, AloneIsNeverBusy
  <2>4. ASSUME NEW s \in Server \ {c} PROVE WillHear(c, s)'
    <3>1. s = id => ~Busy(id)
      <4>1. Busy(c) => ~Free(c)
        BY DEF Free
      <4>2. Busy(c) => \A j \in Server \ {c} : Free(j)
        BY <4>1 DEF OneAtATime
      <4>. QED  BY <2>2, <4>2 DEF Free
    <3>. QED  BY <1>2, <2>1, <3>1, ServeKeepsHearing
  <2>. QED  BY <2>3, <2>4
<1>. QED  BY <1>1, <1>2 DEF AllWillRespond

\* A step of a server, as long as no assertion fails.
LEMMA ServeKeepsServedInv ==
    ASSUME Inv, ServedInv, NEW id \in Server, Serve(id)
    PROVE  ServedInv'
<1>1. Typed /\ cfg' = cfg /\ client' = client /\ called' = called /\ asserted
  BY DEF Inv, Serve
<1>. SUFFICES ASSUME IsSequential', Going'
              PROVE  OneAtATime' /\ AllWillRespond'
  BY DEF ServedInv
<1>2. IsSequential /\ Going /\ asserted'
  BY <1>1 DEF IsSequential, Going
<1>3. OneAtATime /\ AllWillRespond
  BY <1>2 DEF ServedInv
<1>4. AllWillRespond'
  BY <1>1, <1>2, <1>3, ServeKeepsResponses
<1>5. PICK src \in Actor : \E out : inbox_by_src[id][src] # << >> /\ ServerStep(id, src, out)
  BY <1>1, ServeSteps
<1>6. /\ Free(id) => Free(id)'
      /\ Engaged(id) => Engaged(id)'
      /\ \A j \in Server : j # id => (Free(j)' <=> Free(j)) /\ (Engaged(j)' <=> Engaged(j))
  BY <1>1, <1>5, StepsKeepStanding
<1>7. \A j \in Server : (Free(j) => Free(j)') /\ (Engaged(j) => Engaged(j)')
  BY <1>6
<1>8. Server' = Server
  BY <1>1, SameTypes
<1>9. OneAtATime'
  BY <1>1, <1>3, <1>7, <1>8 DEF OneAtATime
<1>. QED  BY <1>4, <1>9

\* The calls of a sequential script alternate.
LEMMA CallsAlternate ==
    ASSUME Typed, IsSequential, ClientRuns
    PROVE  /\ called \in Nat
           /\ NextCall.call = "invoke" => called % 2 = 0 /\ (called + 1) % 2 = 1
           /\ NextCall.call = "await" => called % 2 = 1 /\ (called + 1) % 2 = 0
<1>1. /\ cfg.script \in Seq(ClientCall(cfg.servers)) /\ called \in 0 .. Len(cfg.script)
      /\ called < Len(cfg.script)
  BY ActorsAre DEF Typed, Shape, ClientRuns
<1>2. called \in Nat /\ called + 1 \in DOMAIN cfg.script
  BY <1>1
<1>3. NextCall.call = IF (called + 1) % 2 = 1 THEN "invoke" ELSE "await"
  BY <1>2 DEF IsSequential, NextCall
<1>4. /\ called % 2 = 0 => (called + 1) % 2 = 1
      /\ called % 2 # 0 => called % 2 = 1 /\ (called + 1) % 2 = 0
  BY <1>2
<1>. QED  BY <1>2, <1>3, <1>4

\* The messages between servers and what servers are stay as they are, ...
LEMMA ClientLeavesHearing ==
    ASSUME server' = server, NEW c \in Server, NEW s \in Server,
           \A a, b \in Server : inbox_by_src'[a][b] = inbox_by_src[a][b]
    PROVE  (Busy(c)' <=> Busy(c)) /\ (WillHear(c, s)' <=> WillHear(c, s))
BY DEF Busy, WillHear, Has, HeardBy, QuestionOf, ResponseOf

\* ... and with them what servers wait for.
LEMMA ClientLeavesResponses ==
    ASSUME cfg' = cfg, server' = server, cfg \in Configuration, AllWillRespond,
           \A a, b \in Server : inbox_by_src'[a][b] = inbox_by_src[a][b]
    PROVE  AllWillRespond'
<1>1. Server' = Server
  BY SameTypes
<1>2. \A c, s \in Server : (Busy(c)' <=> Busy(c)) /\ (WillHear(c, s)' <=> WillHear(c, s))
  BY ClientLeavesHearing
<1>. QED  BY <1>1, <1>2 DEF AllWillRespond

\* A client that invokes an operation when all servers are free.
LEMMA InvokesKeepsServedInv ==
    ASSUME Inv, ServedInv, ClientInvokes
    PROVE  ServedInv'
<1>1. /\ Typed /\ cfg' = cfg /\ server' = server /\ called' = called + 1 /\ asserted' = asserted
      /\ cfg \in Configuration /\ ClientRuns /\ NextCall.call = "invoke"
  BY DEF Inv, ClientInvokes, Typed, Shape
<1>. SUFFICES ASSUME IsSequential', Going'
              PROVE  OneAtATime' /\ AllWillRespond'
  BY DEF ServedInv
<1>2. IsSequential /\ Going
  BY <1>1 DEF IsSequential, Going, ClientRuns
<1>3. OneAtATime /\ AllWillRespond /\ called % 2 = 0 /\ called' % 2 = 1
  BY <1>1, <1>2, CallsAlternate DEF ServedInv
<1>4. PICK dst \in Server :
         \E msg : inbox_by_src' = [inbox_by_src EXCEPT ![dst][Client] = Append(@, msg)]
  BY <1>1, NextCallIs DEF ClientInvokes
<1>5. PICK msg : inbox_by_src' = [inbox_by_src EXCEPT ![dst][Client] = Append(@, msg)]
  BY <1>4
<1>6. Client \in Actor /\ Client \notin Server /\ Server \subseteq Actor
  BY <1>1, ActorsAre
<1>7. /\ inbox_by_src'[dst][Client] = Append(inbox_by_src[dst][Client], msg)
      /\ \A a, b \in Actor : a # dst \/ b # Client => inbox_by_src'[a][b] = inbox_by_src[a][b]
  <2>1. inbox_by_src = [a \in Actor |-> [b \in Actor |-> inbox_by_src[a][b]]]
    BY <1>1 DEF Typed, Shape
  <2>. QED  BY <1>5, <1>6, <2>1
<1>8. AllWillRespond'
  <2>1. \A a, b \in Server : inbox_by_src'[a][b] = inbox_by_src[a][b]
    BY <1>6, <1>7
  <2>. QED  BY <1>1, <1>3, <2>1, ClientLeavesResponses
<1>9. \A id \in Server : Free(id)
  BY <1>3 DEF OneAtATime
<1>10. ASSUME NEW id \in Server \ {dst} PROVE Free(id)'
  <2>1. /\ inbox_by_src'[id][Client] = inbox_by_src[id][Client]
        /\ inbox_by_src'[Client][id] = inbox_by_src[Client][id]
    BY <1>6, <1>7
  <2>. QED  BY <1>1, <1>9, <2>1, SameStanding
<1>11. Engaged(dst)'
  <2>1. inbox_by_src[dst][Client] = << >> /\ ~Busy(dst) /\ inbox_by_src[Client][dst] = << >>
    BY <1>4, <1>9 DEF Free
  <2>2. Len(inbox_by_src'[dst][Client]) = 1
    <3>1. Len(Append(<< >>, msg)) = 1
      OBVIOUS
    <3>. QED  BY <1>7, <2>1, <3>1
  <2>3. inbox_by_src'[Client][dst] = << >>
    BY <1>4, <1>6, <1>7, <2>1
  <2>4. ~Busy(dst)' /\ Client' = Client
    BY <1>1, <2>1, SameTypes DEF Busy
  <2>. QED  BY <2>2, <2>3, <2>4 DEF Engaged
<1>12. OneAtATime'
  <2>1. Server' = Server /\ called' % 2 # 0
    BY <1>1, <1>3, SameTypes
  <2>. QED  BY <1>4, <1>10, <1>11, <2>1 DEF OneAtATime
<1>. QED  BY <1>8, <1>12

\* The answer that the client receives is that of its operation, the only one.
LEMMA AwaitsKeepsServedInv ==
    ASSUME Inv, ServedInv, ClientAwaits
    PROVE  ServedInv'
<1>1. /\ Typed /\ cfg' = cfg /\ server' = server /\ called' = called + 1 /\ asserted' = asserted
      /\ cfg \in Configuration /\ ClientRuns /\ NextCall.call = "await"
  BY DEF Inv, ClientAwaits, Typed, Shape
<1>. SUFFICES ASSUME IsSequential', Going'
              PROVE  OneAtATime' /\ AllWillRespond'
  BY DEF ServedInv
<1>2. IsSequential /\ Going
  BY <1>1 DEF IsSequential, Going, ClientRuns
<1>3. OneAtATime /\ AllWillRespond /\ called % 2 = 1 /\ called' % 2 = 0
  BY <1>1, <1>2, CallsAlternate DEF ServedInv
<1>4. PICK src \in Server :
         /\ inbox_by_src[Client][src] # << >>
         /\ inbox_by_src' = [inbox_by_src EXCEPT ![Client][src] = Tail(@)]
  BY DEF ClientAwaits
<1>5. Client \in Actor /\ Client \notin Server /\ Server \subseteq Actor
  BY <1>1, ActorsAre
<1>6. /\ inbox_by_src'[Client][src] = Tail(inbox_by_src[Client][src])
      /\ \A a, b \in Actor : a # Client \/ b # src => inbox_by_src'[a][b] = inbox_by_src[a][b]
  <2>1. inbox_by_src = [a \in Actor |-> [b \in Actor |-> inbox_by_src[a][b]]]
    BY <1>1 DEF Typed, Shape
  <2>. QED  BY <1>4, <1>5, <2>1
<1>7. AllWillRespond'
  <2>1. \A a, b \in Server : inbox_by_src'[a][b] = inbox_by_src[a][b]
    BY <1>5, <1>6
  <2>. QED  BY <1>1, <1>3, <2>1, ClientLeavesResponses
<1>8. PICK c \in Server : Engaged(c) /\ \A id \in Server \ {c} : Free(id)
  BY <1>3 DEF OneAtATime
<1>9. c = src
  BY <1>4, <1>8 DEF Free
<1>10. inbox_by_src[src][Client] = << >> /\ ~Busy(src) /\ Len(inbox_by_src[Client][src]) = 1
  BY <1>4, <1>8, <1>9 DEF Engaged
<1>11. Free(src)'
  <2>1. inbox_by_src[Client][src] \in Seq(MsgFor(Client, src))
    BY <1>1, <1>5 DEF Typed, QueuesOK
  <2>2. inbox_by_src'[Client][src] = << >>
    BY <1>6, <1>10, <2>1, TailOfOne
  <2>3. inbox_by_src'[src][Client] = << >>
    BY <1>5, <1>6, <1>10
  <2>4. ~Busy(src)' /\ Client' = Client
    BY <1>1, <1>10, SameTypes DEF Busy
  <2>. QED  BY <2>2, <2>3, <2>4 DEF Free
<1>12. ASSUME NEW id \in Server \ {src} PROVE Free(id)'
  <2>1. /\ inbox_by_src'[id][Client] = inbox_by_src[id][Client]
        /\ inbox_by_src'[Client][id] = inbox_by_src[Client][id]
    BY <1>5, <1>6
  <2>. QED  BY <1>1, <1>8, <1>9, <2>1, SameStanding
<1>13. OneAtATime'
  <2>1. Server' = Server
    BY <1>1, SameTypes
  <2>. QED  BY <1>3, <1>11, <1>12, <2>1 DEF OneAtATime
<1>. QED  BY <1>7, <1>13

\* At first nothing is asked.
LEMMA InitServedInv == Init => ServedInv
<1>. SUFFICES ASSUME Init PROVE OneAtATime /\ AllWillRespond
  BY DEF ServedInv
<1>1. cfg \in Configuration /\ called = 0 /\ server = [id \in Server |-> NewServer]
      /\ inbox_by_src = [dst \in Actor |-> [src \in Actor |-> << >>]]
  BY DEF Init
<1>2. \A id \in Server : ~Busy(id)
  BY <1>1 DEF Busy, NewServer, Idle
<1>3. \A id \in Server : Free(id)
  BY <1>1, <1>2, ActorsAre DEF Free
<1>4. called % 2 = 0
  BY <1>1
<1>. QED  BY <1>2, <1>3, <1>4 DEF OneAtATime, AllWillRespond

\* Every step keeps the invariant.
LEMMA NextKeepsServedInv == Inv /\ ServedInv /\ [Next]_vars => ServedInv'
<1>. SUFFICES ASSUME Inv, ServedInv, [Next]_vars PROVE ServedInv'
  OBVIOUS
<1>1. CASE ServerNext
  BY <1>1, ServeKeepsServedInv DEF ServerNext
<1>2. CASE ClientInvokes
  BY <1>2, InvokesKeepsServedInv
<1>3. CASE ClientAwaits
  BY <1>3, AwaitsKeepsServedInv
<1>4. CASE UNCHANGED vars
  <2>1. UNCHANGED <<cfg, server, client, called, inbox_by_src, asserted>>
    BY <1>4 DEF vars
  <2>2. Server' = Server
    BY <2>1, SameTypes
  <2>3. \A id \in Server : (Free(id)' <=> Free(id)) /\ (Engaged(id)' <=> Engaged(id))
    BY <2>1, SameStanding
  <2>4. OneAtATime => OneAtATime'
    BY <2>1, <2>2, <2>3 DEF OneAtATime
  <2>5. AllWillRespond => AllWillRespond'
    BY <2>1, ClientLeavesResponses DEF Inv, Typed, Shape
  <2>6. (IsSequential' <=> IsSequential) /\ (Going' <=> Going)
    BY <2>1 DEF IsSequential, Going
  <2>. QED  BY <2>4, <2>5, <2>6 DEF ServedInv
<1>. QED  BY <1>1, <1>2, <1>3, <1>4 DEF Next

\* A server takes no question of its own, so it is the others that must be a quorum.
OthersAreAQuorum == cfg.replicated => Quorum <= cfg.servers - 1

\* If all others have responded, a server does not wait.
LEMMA AllHeardIsEnough ==
    ASSUME Typed, OthersAreAQuorum, cfg.replicated, NEW id \in Server, Busy(id)
    PROVE  ~(Server \ {id} \subseteq HeardBy(server[id].fiber))
<1>. SUFFICES ASSUME Server \ {id} \subseteq HeardBy(server[id].fiber) PROVE FALSE
  OBVIOUS
<1>. DEFINE heard == HeardBy(server[id].fiber)
<1>1. /\ cfg \in Configuration /\ cfg.servers \in Nat \ {0} /\ Quorum \in Nat
      /\ Quorum <= cfg.servers - 1
  BY ActorsAre DEF Typed, Shape, OthersAreAQuorum
<1>2. heard \subseteq Server /\ Cardinality(heard) < Quorum
  BY DEF Typed, ServerOK, FiberOK, Busy, HeardBy
<1>. HIDE DEF heard
<1>3. IsFiniteSet(heard) /\ IsFiniteSet(Server)
  BY <1>1, <1>2, ServersAreFinite
<1>4. Cardinality(Server) = cfg.servers
  <2>1. Cardinality(1 .. cfg.servers) = cfg.servers
    BY <1>1, FS_Interval
  <2>. QED  BY <2>1 DEF Server
<1>5. Cardinality(Server \ {id}) = cfg.servers - 1
  BY <1>3, <1>4, FS_RemoveElement
<1>6. Cardinality(Server \ {id}) <= Cardinality(heard) /\ Cardinality(heard) \in Nat
  BY <1>3, FS_Subset, FS_CardinalityType DEF heard
<1>. QED  BY <1>1, <1>2, <1>5, <1>6

(***************************************************************************)
(* A client that waits for every answer before it goes on gets them all,   *)
(* whatever messages earlier operations have left over, whatever the       *)
(* servers are, as long as a server finds a quorum among the others.       *)
(***************************************************************************)
THEOREM SequentialClientsAreServed == Spec /\ OthersAreAQuorum => []SequentialClientIsServed
<1>1. ASSUME Inv, ServedInv, OthersAreAQuorum
      PROVE  SequentialClientIsServed
  <2>. SUFFICES ASSUME Quiescent, IsSequential, ClientRuns PROVE FALSE
    BY DEF SequentialClientIsServed
  <2>1. Typed /\ OneAtATime /\ AllWillRespond /\ cfg \in Configuration
    BY <1>1 DEF ServedInv, Going, ClientRuns, Inv, Typed, Shape
  <2>2. /\ \A id \in Server : \A src \in Actor : inbox_by_src[id][src] = << >>
        /\ \A src \in Server : inbox_by_src[Client][src] = << >>
        /\ NextCall.call = "await"
    BY DEF Quiescent
  <2>3. called % 2 # 0
    BY <2>1, <2>2, CallsAlternate
  <2>4. PICK c \in Server : Engaged(c)
    BY <2>1, <2>3 DEF OneAtATime
  <2>5. Client \in Actor /\ Server \subseteq Actor /\ Len(<< >>) = 0
    BY <2>1, ActorsAre
  <2>6. inbox_by_src[c][Client] = << >> /\ inbox_by_src[Client][c] = << >>
    BY <2>2, <2>5
  <2>7. Busy(c)
    BY <2>4, <2>5, <2>6 DEF Engaged
  <2>8. ASSUME NEW s \in Server \ {c} PROVE s \in HeardBy(server[c].fiber)
    <3>1. WillHear(c, s)
      BY <2>1, <2>7 DEF AllWillRespond
    <3>2. inbox_by_src[s][c] = << >> /\ inbox_by_src[c][s] = << >>
      BY <2>2, <2>5
    <3>3. \A type : ~Has(<< >>, type)
      BY <2>5 DEF Has
    <3>. QED  BY <3>1, <3>2, <3>3 DEF WillHear
  <2>9. cfg.replicated
    BY <2>1, <2>7 DEF AllWillRespond
  <2>. QED  BY <1>1, <2>1, <2>7, <2>8, <2>9, AllHeardIsEnough
<1>2. OthersAreAQuorum /\ [Next]_vars => OthersAreAQuorum'
  <2>1. [Next]_vars => cfg' = cfg
    BY DEF Next, ServerNext, Serve, ClientInvokes, ClientAwaits, vars
  <2>. QED  BY <2>1 DEF OthersAreAQuorum, Quorum
<1>. QED  BY <1>1, <1>2, InitServedInv, NextKeepsServedInv, AlwaysInv, PTL DEF Spec

-----------------------------------------------------------------------------
(* Servers that collect answers at the same time                           *)

\* Only a server that the client asks has a request or is busy, ...
OnlyCollectorsCollect ==
    \A id \in Server : Busy(id) \/ inbox_by_src[id][Client] # << >> => id \in Collectors

\* ... and it will hear of all those that the client never asks.
OthersWillRespond ==
    \A id \in Server : Busy(id) => cfg.replicated /\ \A s \in Server \ Collectors : WillHear(id, s)

\* The invariant of servers some of which are never asked by the client.
BlockInv == asserted => OnlyCollectorsCollect /\ OthersWillRespond

\* A step of a server: those that are never asked stay free, and answer.
LEMMA ServeKeepsBlockInv ==
    ASSUME Inv, BlockInv, NEW id \in Server, Serve(id)
    PROVE  BlockInv'
<1>. SUFFICES ASSUME asserted' PROVE OnlyCollectorsCollect' /\ OthersWillRespond'
  BY DEF BlockInv
<1>1. /\ Typed /\ cfg' = cfg /\ cfg \in Configuration
      /\ OnlyCollectorsCollect /\ OthersWillRespond
  BY DEF Inv, BlockInv, Serve, Typed, Shape
<1>2. Server' = Server /\ Client' = Client /\ Collectors' = Collectors
  BY <1>1, SameTypes DEF Collectors
<1>3. PICK src \in Actor : \E out : inbox_by_src[id][src] # << >> /\ ServerStep(id, src, out)
  BY <1>1, ServeSteps
<1>4. PICK out : inbox_by_src[id][src] # << >> /\ ServerStep(id, src, out)
  BY <1>3
<1>5. ASSUME NEW j \in Server, inbox_by_src'[j][Client] # << >> PROVE inbox_by_src[j][Client] # << >>
  <2>1. /\ inbox_by_src'[id][Client] =
              IF src = Client THEN Tail(inbox_by_src[id][Client]) ELSE inbox_by_src[id][Client]
        /\ \A k \in Server : k # id => inbox_by_src'[k][Client] = inbox_by_src[k][Client]
    BY <1>1, <1>4, ExchangeQueues DEF ServerStep
  <2>. QED  BY <1>4, <1>5, <2>1
<1>6. ASSUME NEW j \in Server, Busy(j)' PROVE Busy(j) \/ inbox_by_src[j][Client] # << >>
  <2>1. CASE j # id
    BY <1>1, <1>6, <2>1, OthersStayBusy
  <2>2. CASE j = id
    BY <1>4, <1>6, <2>2 DEF ServerStep, Conduct, HoldsOn
  <2>. QED  BY <2>1, <2>2
<1>7. OnlyCollectorsCollect'
  BY <1>1, <1>2, <1>5, <1>6 DEF OnlyCollectorsCollect
<1>8. ASSUME NEW c \in Server, Busy(c)'
      PROVE  cfg.replicated /\ \A s \in Server \ Collectors : WillHear(c, s)'
  <2>1. Busy(c) => cfg.replicated /\ \A s \in Server \ Collectors : WillHear(c, s)
    BY <1>1 DEF OthersWillRespond
  <2>2. c # id => Busy(c)
    BY <1>1, <1>8, OthersStayBusy
  <2>3. cfg.replicated
    BY <1>1, <1>8, <2>1, <2>2, AloneIsNeverBusy
  <2>4. c \in Collectors
    BY <1>1, <1>6, <1>8 DEF OnlyCollectorsCollect
  <2>5. ASSUME NEW s \in Server \ Collectors PROVE WillHear(c, s)'
    <3>1. s \in Server \ {c} /\ ~Busy(s)
      BY <1>1, <2>4 DEF OnlyCollectorsCollect
    <3>. QED  BY <1>1, <1>8, <2>1, <3>1, ServeKeepsHearing
  <2>. QED  BY <2>3, <2>5
<1>9. OthersWillRespond'
  BY <1>1, <1>2, <1>8 DEF OthersWillRespond
<1>. QED  BY <1>7, <1>9

\* A client that asks a server makes it one of those that it asks.
LEMMA InvokesKeepsBlockInv ==
    ASSUME Inv, BlockInv, ClientInvokes
    PROVE  BlockInv'
<1>1. /\ Typed /\ cfg' = cfg /\ server' = server /\ asserted' = asserted
      /\ cfg \in Configuration /\ ClientRuns /\ NextCall.call = "invoke"
  BY DEF Inv, ClientInvokes, Typed, Shape
<1>. SUFFICES ASSUME asserted PROVE OnlyCollectorsCollect' /\ OthersWillRespond'
  BY <1>1 DEF BlockInv
<1>2. OnlyCollectorsCollect /\ OthersWillRespond
  BY DEF BlockInv
<1>3. Server' = Server /\ Client' = Client /\ Collectors' = Collectors
  BY <1>1, SameTypes DEF Collectors
<1>4. NextCall.dst \in Server /\ NextCall.dst \in Collectors
  <2>1. cfg.script \in Seq(ClientCall(cfg.servers)) /\ called \in 0 .. Len(cfg.script) /\ called < Len(cfg.script)
    BY <1>1, ActorsAre DEF Typed, ClientRuns
  <2>2. called + 1 \in DOMAIN cfg.script
    BY <2>1
  <2>. QED  BY <1>1, <2>2, NextCallIs DEF Collectors, NextCall
<1>5. PICK msg : inbox_by_src' = [inbox_by_src EXCEPT ![NextCall.dst][Client] = Append(@, msg)]
  BY DEF ClientInvokes
<1>6. Client \in Actor /\ Client \notin Server /\ Server \subseteq Actor
  BY <1>1, ActorsAre
<1>7. \A a, b \in Actor : a # NextCall.dst \/ b # Client => inbox_by_src'[a][b] = inbox_by_src[a][b]
  <2>1. inbox_by_src = [a \in Actor |-> [b \in Actor |-> inbox_by_src[a][b]]]
    BY <1>1 DEF Typed, Shape
  <2>. QED  BY <1>4, <1>5, <1>6, <2>1
<1>8. \A c, s \in Server : (Busy(c)' <=> Busy(c)) /\ (WillHear(c, s)' <=> WillHear(c, s))
  <2>1. \A a, b \in Server : inbox_by_src'[a][b] = inbox_by_src[a][b]
    BY <1>6, <1>7
  <2>. QED  BY <1>1, <2>1, ClientLeavesHearing
<1>9. OnlyCollectorsCollect'
  BY <1>2, <1>3, <1>4, <1>6, <1>7, <1>8 DEF OnlyCollectorsCollect
<1>10. OthersWillRespond'
  BY <1>1, <1>2, <1>3, <1>8 DEF OthersWillRespond
<1>. QED  BY <1>9, <1>10

\* Nor does it matter to the servers what the client receives.
LEMMA QueuesKeepBlockInv ==
    ASSUME BlockInv, cfg' = cfg, server' = server, asserted' = asserted, cfg \in Configuration,
           \A a \in Server, b \in Actor : inbox_by_src'[a][b] = inbox_by_src[a][b]
    PROVE  BlockInv'
<1>1. Server' = Server /\ Client' = Client /\ Collectors' = Collectors
  BY SameTypes DEF Collectors
<1>2. Client \in Actor /\ Server \subseteq Actor
  BY ActorsAre
<1>3. \A c, s \in Server : (Busy(c)' <=> Busy(c)) /\ (WillHear(c, s)' <=> WillHear(c, s))
  <2>1. \A a, b \in Server : inbox_by_src'[a][b] = inbox_by_src[a][b]
    BY <1>2
  <2>. QED  BY <2>1, ClientLeavesHearing
<1>4. OnlyCollectorsCollect => OnlyCollectorsCollect'
  BY <1>1, <1>2, <1>3 DEF OnlyCollectorsCollect
<1>5. OthersWillRespond => OthersWillRespond'
  BY <1>1, <1>3 DEF OthersWillRespond
<1>. QED  BY <1>4, <1>5 DEF BlockInv

\* Every step keeps the invariant.
LEMMA NextKeepsBlockInv == Inv /\ BlockInv /\ [Next]_vars => BlockInv'
<1>. SUFFICES ASSUME Inv, BlockInv, [Next]_vars PROVE BlockInv'
  OBVIOUS
<1>0. cfg \in Configuration /\ inbox_by_src = [a \in Actor |-> [b \in Actor |-> inbox_by_src[a][b]]]
  BY DEF Inv, Typed, Shape
<1>1. CASE ServerNext
  BY <1>1, ServeKeepsBlockInv DEF ServerNext
<1>2. CASE ClientInvokes
  BY <1>2, InvokesKeepsBlockInv
<1>3. CASE ClientAwaits
  <2>1. cfg' = cfg /\ server' = server /\ asserted' = asserted
    BY <1>3 DEF ClientAwaits
  <2>2. PICK src \in Server : inbox_by_src' = [inbox_by_src EXCEPT ![Client][src] = Tail(@)]
    BY <1>3 DEF ClientAwaits
  <2>3. Client \in Actor /\ Client \notin Server /\ Server \subseteq Actor
    BY <1>0, ActorsAre
  <2>4. \A a \in Server, b \in Actor : inbox_by_src'[a][b] = inbox_by_src[a][b]
    BY <1>0, <2>2, <2>3
  <2>. QED  BY <1>0, <2>1, <2>4, QueuesKeepBlockInv
<1>4. CASE UNCHANGED vars
  BY <1>0, <1>4, QueuesKeepBlockInv DEF vars
<1>. QED  BY <1>1, <1>2, <1>3, <1>4 DEF Next

\* A majority of the servers is a quorum: if all of them have responded, nobody waits.
LEMMA MajorityIsEnough ==
    ASSUME Typed, NEW id \in Server, Busy(id), NEW S \in SUBSET Server,
           cfg.servers < 2 * Cardinality(S)
    PROVE  ~(S \subseteq HeardBy(server[id].fiber))
<1>. SUFFICES ASSUME S \subseteq HeardBy(server[id].fiber) PROVE FALSE
  OBVIOUS
<1>. DEFINE heard == HeardBy(server[id].fiber)
<1>1. cfg \in Configuration /\ cfg.servers \in Nat \ {0}
  BY ActorsAre DEF Typed, Shape
<1>2. heard \subseteq Server /\ Cardinality(heard) < Quorum
  BY DEF Typed, ServerOK, FiberOK, Busy, HeardBy
<1>. HIDE DEF heard
<1>3. IsFiniteSet(heard)
  BY <1>1, <1>2, ServersAreFinite
<1>4. Cardinality(S) <= Cardinality(heard) /\ Cardinality(heard) \in Nat /\ Cardinality(S) \in Nat
  BY <1>3, FS_Subset, FS_CardinalityType DEF heard
<1>. QED  BY <1>1, <1>2, <1>4 DEF Quorum

(***************************************************************************)
(* Servers that collect answers at the same time never wait for one        *)
(* another as long as most servers never collect any, whatever the client  *)
(* asks and whatever was left over from earlier operations.                *)
(***************************************************************************)
THEOREM CollectorsNeverBlock == Spec => []CollectorsDoNotBlock
<1>1. ASSUME Inv, BlockInv PROVE CollectorsDoNotBlock
  <2>. SUFFICES ASSUME Quiescent, asserted, cfg.servers < 2 * Cardinality(Server \ Collectors),
                       NEW id \in Server, server[id].fiber.state # "idle"
                PROVE  FALSE
    BY DEF CollectorsDoNotBlock
  <2>1. Typed /\ OthersWillRespond /\ cfg \in Configuration
    BY <1>1 DEF BlockInv, Inv, Typed, Shape
  <2>2. Busy(id)
    BY <2>1 DEF Typed, ServerOK, FiberOK, Busy
  <2>3. \A a \in Server : \A b \in Actor : inbox_by_src[a][b] = << >>
    BY DEF Quiescent
  <2>4. ASSUME NEW s \in Server \ Collectors PROVE s \in HeardBy(server[id].fiber)
    <3>1. WillHear(id, s)
      BY <2>1, <2>2 DEF OthersWillRespond
    <3>2. inbox_by_src[s][id] = << >> /\ inbox_by_src[id][s] = << >>
      BY <2>1, <2>3, ActorsAre
    <3>3. \A type : ~Has(<< >>, type)
      BY DEF Has
    <3>. QED  BY <3>1, <3>2, <3>3 DEF WillHear
  <2>. QED  BY <2>1, <2>2, <2>4, MajorityIsEnough
<1>2. Init => BlockInv
  <2>. SUFFICES ASSUME Init PROVE OnlyCollectorsCollect /\ OthersWillRespond
    BY DEF BlockInv
  <2>1. cfg \in Configuration /\ server = [id \in Server |-> NewServer]
        /\ inbox_by_src = [dst \in Actor |-> [src \in Actor |-> << >>]]
    BY DEF Init
  <2>2. \A id \in Server : ~Busy(id)
    BY <2>1 DEF Busy, NewServer, Idle
  <2>3. \A id \in Server : inbox_by_src[id][Client] = << >>
    BY <2>1, ActorsAre
  <2>. QED  BY <2>2, <2>3 DEF OnlyCollectorsCollect, OthersWillRespond
<1>. QED  BY <1>1, <1>2, NextKeepsBlockInv, AlwaysInv, PTL DEF Spec

=============================================================================
