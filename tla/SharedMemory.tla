---------------------------- MODULE SharedMemory ----------------------------
(***************************************************************************)
(* The shared memory of crates/fibril_verifier/tests/kv.rs and kv-buggy.rs:*)
(* servers that keep a register, and a fiber that invokes operations on it *)
(* through a ConsistencyClient.  The servers of kv.rs replicate the        *)
(* register in two phases ("ABD"), those of kv-buggy.rs do not.            *)
(*                                                                         *)
(* A step is the receipt of a message with all the sends that follow it.   *)
(* Sends never wait, and a fiber's next receipt is the only choice there   *)
(* is, so no other actor can come in between with an effect of its own.    *)
(***************************************************************************)
EXTENDS ConsistencyClient, FiniteSets

CONSTANTS
    Configuration  \* the configurations: replicated or not, servers, the client's script

Value == Nat

Operation == {Read} \cup [type : {"Write"}, value : Value]

\* What a script is made of: an operation at a server, or waiting for an answer.
ClientCall(servers) == [call : {"invoke"}, dst : 1 .. servers, op : Operation] \cup [call : {"await"}]

ASSUME ConfigurationAssumption ==
    \A c \in Configuration :
        /\ c.replicated \in BOOLEAN
        /\ c.servers \in Nat \ {0}
        /\ c.script \in Seq(ClientCall(c.servers))

VARIABLES
    cfg,          \* the configuration
    server,       \* server[id]: where the server is, its clock and its value
    client,       \* the ConsistencyClient
    called,       \* the calls of its script that the client has made
    inbox_by_src, \* inbox_by_src[dst][src]: queue of messages
    asserted      \* FALSE once an assertion of a server has failed

vars == <<cfg, server, client, called, inbox_by_src, asserted>>

Server == 1 .. cfg.servers
Client == cfg.servers + 1
Actor  == 1 .. cfg.servers + 1

-----------------------------------------------------------------------------
(* Messages and clocks                                                     *)

Get(req_id)             == [type |-> "Get", req_id |-> req_id]
GetOk(req_id, value)    == [type |-> "GetOk", req_id |-> req_id, value |-> value]
Put(req_id, value)      == [type |-> "Put", req_id |-> req_id, value |-> value]
PutOk(req_id)           == [type |-> "PutOk", req_id |-> req_id]
InternalGet             == [type |-> "InternalGet"]
InternalGetOk(clock, value) == [type |-> "InternalGetOk", clock |-> clock, value |-> value]
InternalPut(clock, value)   == [type |-> "InternalPut", clock |-> clock, value |-> value]
InternalPutOk           == [type |-> "InternalPutOk"]

\* encode_request
Request(req_id, op) == IF op = Read THEN Get(req_id) ELSE Put(req_id, op.value)

\* decode_response
Decoded(msg) == IF msg.type = "GetOk" THEN ReadOk(msg.value) ELSE WriteOk

\* LogicalClock, a pair that is compared in the order of its components.
DefaultClock == <<0, 1>>

ClockLess(c, d) == c[1] < d[1] \/ (c[1] = d[1] /\ c[2] < d[2])

\* responses.values().max(): the latest clock, then the largest value.
Latest(responses) ==
    CHOOSE r \in responses : \A s \in responses :
        r = s \/ ClockLess(s.clock, r.clock) \/ (s.clock = r.clock /\ s.value < r.value)

\* Mutant: one response too few.
QuorumTooSmallMutant == cfg.servers \div 2

\* Mutant: the server counts itself among those that it needs besides.
QuorumTooLargeMutant == cfg.servers \div 2 + 2

Quorum == cfg.servers \div 2 + 1

-----------------------------------------------------------------------------
(* The server: its fiber between two receipts                              *)

Idle == [state |-> "idle"]

\* abd_phase1 waits for InternalGetOk, on behalf of the request msg of src; ...
Phase1(src, msg, responses) ==
    [state |-> "phase1", src |-> src, msg |-> msg, responses |-> responses]

\* ... abd_phase2 for InternalPutOk, before it answers src with reply.
Phase2(src, reply, acks) == [state |-> "phase2", src |-> src, reply |-> reply, acks |-> acks]

NewServer == [fiber |-> Idle, clock |-> DefaultClock, value |-> 0]

\* The message from src at the head of its queue is taken, the messages out are
\* sent: out[dst] is what dst is sent.
Exchange(id, src, out) ==
    inbox_by_src' = [dst \in Actor |-> [s \in Actor |->
        LET queue == inbox_by_src[dst][s]
            rest  == IF dst = id /\ s = src THEN Tail(queue) ELSE queue
        IN  IF s = id THEN rest \o out[dst] ELSE rest]]

Silence        == [dst \in Actor |-> << >>]
Tell(dst, msg) == [Silence EXCEPT ![dst] = <<msg>>]

\* Mutant: everybody is sent the message.
BroadcastToAllMutant(msg) == [dst \in Actor |-> <<msg>>]

\* send_broadcast to the servers, the sender included.
Broadcast(msg) == [dst \in Actor |-> IF dst \in Server THEN <<msg>> ELSE << >>]

Become(id, fiber) == server' = [server EXCEPT ![id].fiber = fiber]

\* The outer loop of a server of kv.rs.
ServeIdle(id, src, msg) ==
    \/ /\ msg.type \in {"Get", "Put"}
       /\ Become(id, Phase1(src, msg, << >>))
       /\ Exchange(id, src, Broadcast(InternalGet))
       /\ UNCHANGED asserted
    \/ /\ msg.type = "InternalGet"
       /\ Exchange(id, src, Tell(src, InternalGetOk(server[id].clock, server[id].value)))
       /\ UNCHANGED <<server, asserted>>
    \/ /\ msg.type = "InternalPut"
       /\ asserted' = (msg.clock = server[id].clock => msg.value = server[id].value)
       /\ server' = IF asserted' /\ ClockLess(server[id].clock, msg.clock)
                    THEN [server EXCEPT ![id].clock = msg.clock, ![id].value = msg.value]
                    ELSE server
       /\ Exchange(id, src, IF asserted' THEN Tell(src, InternalPutOk) ELSE Silence)
    \/ /\ msg.type \in {"InternalGetOk", "InternalPutOk"}
       /\ Exchange(id, src, Silence)
       /\ UNCHANGED <<server, asserted>>

\* recv_responses: any other message than a response is dropped.
CollectResponses(id, src, msg) ==
    LET fiber     == server[id].fiber
        responses == [s \in DOMAIN fiber.responses \cup {src} |->
                        IF s = src THEN [clock |-> msg.clock, value |-> msg.value]
                        ELSE fiber.responses[s]]
        latest    == Latest({responses[s] : s \in DOMAIN responses})
        Answer(reply) == Become(id, Idle) /\ Exchange(id, src, Tell(fiber.src, reply))
        Store(reply, clock, value) ==
            /\ Become(id, Phase2(fiber.src, reply, {}))
            /\ Exchange(id, src, Broadcast(InternalPut(clock, value)))
    IN  /\ IF msg.type # "InternalGetOk"
           THEN UNCHANGED server /\ Exchange(id, src, Silence)
           ELSE IF Cardinality(DOMAIN responses) < Quorum
           THEN Become(id, Phase1(fiber.src, fiber.msg, responses)) /\ Exchange(id, src, Silence)
           ELSE IF fiber.msg.type = "Put"
           THEN Store(PutOk(fiber.msg.req_id), <<latest.clock[1] + 1, id>>, fiber.msg.value)
           ELSE IF \A s \in DOMAIN responses : responses[s].clock = latest.clock
           THEN Answer(GetOk(fiber.msg.req_id, latest.value))
           ELSE Store(GetOk(fiber.msg.req_id, latest.value), latest.clock, latest.value)
        /\ UNCHANGED asserted

\* recv_response_count
CollectAcks(id, src, msg) ==
    LET fiber == server[id].fiber
        acks  == fiber.acks \cup {src}
    IN  /\ IF msg.type # "InternalPutOk"
           THEN UNCHANGED server /\ Exchange(id, src, Silence)
           ELSE IF Cardinality(acks) < Quorum
           THEN Become(id, Phase2(fiber.src, fiber.reply, acks)) /\ Exchange(id, src, Silence)
           ELSE Become(id, Idle) /\ Exchange(id, src, Tell(fiber.src, fiber.reply))
        /\ UNCHANGED asserted

\* A server of kv-buggy.rs.
ServeAlone(id, src, msg) ==
    /\ \/ /\ msg.type = "Get"
          /\ Exchange(id, src, Tell(src, GetOk(msg.req_id, server[id].value)))
          /\ UNCHANGED server
       \/ /\ msg.type = "Put"
          /\ Exchange(id, src, Tell(src, PutOk(msg.req_id)))
          /\ server' = [server EXCEPT ![id].value = msg.value]
    /\ UNCHANGED asserted

Serve(id) ==
    /\ asserted
    /\ \E src \in Actor :
          /\ inbox_by_src[id][src] # << >>
          /\ LET msg == Head(inbox_by_src[id][src])
             IN  CASE ~cfg.replicated -> ServeAlone(id, src, msg)
                   [] cfg.replicated /\ server[id].fiber.state = "idle" -> ServeIdle(id, src, msg)
                   [] cfg.replicated /\ server[id].fiber.state = "phase1" ->
                         CollectResponses(id, src, msg)
                   [] cfg.replicated /\ server[id].fiber.state = "phase2" ->
                         CollectAcks(id, src, msg)
    /\ UNCHANGED <<cfg, client, called>>

-----------------------------------------------------------------------------
(* The client's fiber                                                      *)

ClientRuns == asserted /\ client.panicked = "None" /\ called < Len(cfg.script)

NextCall == cfg.script[called + 1]

ClientInvokes ==
    /\ ClientRuns
    /\ NextCall.call = "invoke"
    /\ client' = Invoke(client, NextCall.op)
    /\ inbox_by_src' = [inbox_by_src EXCEPT ![NextCall.dst][Client] =
                           Append(@, Request(client.next_req_id, NextCall.op))]
    /\ called' = called + 1
    /\ UNCHANGED <<cfg, server, asserted>>

ClientAwaits ==
    /\ ClientRuns
    /\ NextCall.call = "await"
    /\ \E src \in Server :
          /\ inbox_by_src[Client][src] # << >>
          /\ LET msg == Head(inbox_by_src[Client][src])
             IN  client' = AwaitResponse(client, msg.req_id, Decoded(msg))
          /\ inbox_by_src' = [inbox_by_src EXCEPT ![Client][src] = Tail(@)]
    /\ called' = called + 1
    /\ UNCHANGED <<cfg, server, asserted>>

Init ==
    /\ cfg \in Configuration
    /\ server = [id \in Server |-> NewServer]
    /\ client = NewClient(Register(0))
    /\ called = 0
    /\ inbox_by_src = [dst \in Actor |-> [src \in Actor |-> << >>]]
    /\ asserted = TRUE

ServerNext == \E id \in Server : Serve(id)

Next == ServerNext \/ ClientInvokes \/ ClientAwaits

Spec == Init /\ [][Next]_vars

-----------------------------------------------------------------------------

LogicalClock == Nat \X Nat

Response == [clock : LogicalClock, value : Value]

Reply == [type : {"GetOk"}, req_id : Nat, value : Value] \cup [type : {"PutOk"}, req_id : Nat]

ClientMsg == [type : {"Get"}, req_id : Nat] \cup [type : {"Put"}, req_id : Nat, value : Value]

InternalMsg ==
    [type : {"InternalGet", "InternalPutOk"}]
        \cup [type : {"InternalGetOk", "InternalPut"}, clock : LogicalClock, value : Value]

\* What src may send dst: the client only talks to servers.
MsgFor(dst, src) ==
    IF dst = Client THEN IF src = Client THEN {} ELSE Reply
    ELSE IF src = Client THEN ClientMsg ELSE InternalMsg

\* The type invariant: requests go to servers, replies to the client, and a
\* phase never has a quorum of answers while it still waits.
TypeOK ==
    /\ \A id \in Server :
          LET fiber == server[id].fiber
          IN  /\ server[id].clock \in LogicalClock /\ server[id].value \in Value
              /\ fiber.state \in {"idle", "phase1", "phase2"}
              /\ fiber.state = "phase1" =>
                    /\ fiber.src = Client /\ fiber.msg \in ClientMsg
                    /\ DOMAIN fiber.responses \subseteq Server
                    /\ \A s \in DOMAIN fiber.responses : fiber.responses[s] \in Response
                    /\ Cardinality(DOMAIN fiber.responses) < Quorum
              /\ fiber.state = "phase2" =>
                    /\ fiber.src = Client /\ fiber.reply \in Reply
                    /\ fiber.acks \subseteq Server
                    /\ Cardinality(fiber.acks) < Quorum
    /\ \A dst, src \in Actor : inbox_by_src[dst][src] \in Seq(MsgFor(dst, src))
    /\ called \in 0 .. Len(cfg.script)

-----------------------------------------------------------------------------

\* Where a request is: queued at a server, being served, or answered.
Queued(id)   == {[id |-> id, at |-> "queue", k |-> k, req_id |-> inbox_by_src[id][Client][k].req_id] :
                    k \in DOMAIN inbox_by_src[id][Client]}
Served(id)   == LET fiber == server[id].fiber
                    Place(msg) == {[id |-> id, at |-> "fiber", k |-> 1, req_id |-> msg.req_id]}
                IN  CASE fiber.state = "idle"   -> {}
                      [] fiber.state = "phase1" -> Place(fiber.msg)
                      [] fiber.state = "phase2" -> Place(fiber.reply)
Answered(id) == {[id |-> id, at |-> "client", k |-> k, req_id |-> inbox_by_src[Client][id][k].req_id] :
                    k \in DOMAIN inbox_by_src[Client][id]}

Places == UNION {Queued(id) \cup Served(id) \cup Answered(id) : id \in Server}

(***************************************************************************)
(* However the responses overtake one another, each finds the slot of its  *)
(* own request: a request is in one place at most, from being queued to    *)
(* being answered, no two share an identifier, each has a slot, the slots  *)
(* in use are the threads with an operation in flight, and the kind of the *)
(* answer is that of the operation.  So none of the unwraps of the client  *)
(* fails, nor does it meet an invalid request ID.                          *)
(***************************************************************************)
RequestsAreMatched ==
    LET slots  == client.thread_idx_to_request_id
        flying == client.tester.in_flight_by_thread
        Slot(req_id) == CHOOSE t \in DOMAIN slots : slots[t] = req_id
    IN  /\ client.panicked \in {"None", "inconsistent"}
        /\ {t \in DOMAIN slots : slots[t] # None} = DOMAIN flying
        /\ \A p, q \in Places : p.req_id = q.req_id => p = q
        /\ \A p \in Places : \E t \in DOMAIN slots : slots[t] = p.req_id
        /\ \A id \in Server : \A k \in DOMAIN inbox_by_src[Client][id] :
              LET msg == inbox_by_src[Client][id][k]
              IN  msg.type = "GetOk" <=> flying[Slot(msg.req_id)].op = Read

(***************************************************************************)
(* "Provides a linearizable register" (kv.rs:1): the client never finds    *)
(* what it was answered inconsistent, and no server receives two values    *)
(* for one clock.                                                          *)
(***************************************************************************)
AnswersAreLinearizable ==
    cfg.replicated \/ cfg.servers = 1 => client.panicked # "inconsistent" /\ asserted

Quiescent ==
    /\ \A id \in Server : \A src \in Actor : inbox_by_src[id][src] = << >>
    /\ ClientRuns => /\ NextCall.call = "await"
                     /\ \A src \in Server : inbox_by_src[Client][src] = << >>

IsSequential ==
    \A k \in DOMAIN cfg.script : cfg.script[k].call = IF k % 2 = 1 THEN "invoke" ELSE "await"

(***************************************************************************)
(* A client that waits for every answer before it goes on gets them all:   *)
(* the messages left over from an operation, of which a server discards    *)
(* those that find it busy, never leave a later operation without a        *)
(* quorum.  The server that collects the answers gives none itself, so     *)
(* that there have to be a quorum of others (three servers are enough, two *)
(* are not).  With two operations at a time two servers may each wait for  *)
(* the other ("does_not_guarantee_client_response").                       *)
(***************************************************************************)
SequentialClientIsServed == Quiescent /\ IsSequential => ~ClientRuns

\* The servers that the client asks, and that therefore collect answers at some time.
Collectors == {cfg.script[k].dst : k \in {l \in DOMAIN cfg.script : cfg.script[l].call = "invoke"}}

(***************************************************************************)
(* Servers that collect answers at the same time discard the questions of  *)
(* one another (kv.rs:87).  None of them waits for ever as long as most of *)
(* the servers never collect any: whatever the others discard, those       *)
(* answer, and they are a quorum.                                          *)
(***************************************************************************)
CollectorsDoNotBlock ==
    Quiescent /\ cfg.replicated /\ asserted /\ cfg.servers < 2 * Cardinality(Server \ Collectors)
        => \A id \in Server : server[id].fiber.state = "idle"

(***************************************************************************)
(* When there are two servers that do not replicate, a read at the other   *)
(* one after a write is found to be inconsistent, in every schedule        *)
(* (the test is_not_linearizable of kv-buggy.rs).                          *)
(***************************************************************************)
StaleReadIsDetected ==
    Quiescent /\ ~cfg.replicated /\ cfg.servers = 2 => client.panicked = "inconsistent"

=============================================================================
