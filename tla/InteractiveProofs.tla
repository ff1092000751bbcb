-------------------------- MODULE InteractiveProofs --------------------------
(***************************************************************************)
(* Theorems about Verifier::into_fiber for any number of actors, any       *)
(* behaviors and any operator: a location that was kept is a run, and its  *)
(* steps take new actors where they took the old ones.                     *)
(***************************************************************************)
EXTENDS Interactive, ActorSystemProofs

-----------------------------------------------------------------------------
(* Requests                                                                *)

\* A listed step of an actor that does not receive is one it offers.
LEMMA ListedStep ==
    ASSUME ActorTypeOK, NEW id \in Id, NEW step \in EnabledSteps(id)
    PROVE  /\ step.id = id
           /\ \/ Pending(step.event, step.event_clock) \in EnabledEvents(id)
              \/ /\ enabled_events[id].kind = "Recv"
                 /\ \E src \in Id : /\ inbox_by_src[id][src] # << >>
                                    /\ \E msg : step.event = RecvOk(src, msg)
<1>1. enabled_events[id] \in Iterator
  BY DEF ActorTypeOK
<1>2. CASE enabled_events[id].kind = "Recv"
  <2>1. PICK src \in Id : step \in {[id |-> id, event |-> Pending(RecvOk(src, m.msg), m.clock).event,
                                     event_clock |-> Pending(RecvOk(src, m.msg), m.clock).event_clock] :
                                       m \in {inbox_by_src[id][src][k] : k \in DOMAIN inbox_by_src[id][src]}}
    BY <1>2 DEF EnabledSteps
  <2>2. PICK k \in DOMAIN inbox_by_src[id][src] :
           step = [id |-> id, event |-> RecvOk(src, inbox_by_src[id][src][k].msg),
                   event_clock |-> inbox_by_src[id][src][k].clock]
    BY <2>1 DEF Pending
  <2>3. inbox_by_src[id][src] # << >>
    BY <2>2
  <2>. QED  BY <1>2, <2>2, <2>3
<1>3. CASE enabled_events[id].kind # "Recv"
  <2>1. PICK pending \in EnabledEvents(id) :
           step = [id |-> id, event |-> pending.event, event_clock |-> pending.event_clock]
    BY <1>3 DEF EnabledSteps
  <2>2. pending = Pending(pending.event, pending.event_clock)
    BY <1>1, <1>3, <2>1 DEF EnabledEvents, Pending, Iterator
  <2>. QED  BY <2>1, <2>2
<1>. QED  BY <1>2, <1>3

\* The first message of a queue is offered.
LEMMA HeadIsOffered ==
    ASSUME NEW id \in Id, enabled_events[id].kind = "Recv", NEW src \in Id, NEW msg, NEW event_clock,
           inbox_by_src[id][src] # << >>, Refusal(id, RecvOk(src, msg), event_clock) = "None"
    PROVE  Pending(RecvOk(src, msg), event_clock) \in EnabledEvents(id)
<1>. DEFINE inbox == inbox_by_src[id][src]
<1>1. RecvOk(src, msg).type = "RecvOk" /\ RecvOk(src, msg).src = src /\ RecvOk(src, msg).msg = msg
  BY DEF RecvOk
<1>2. Head(inbox).msg = msg /\ Head(inbox).clock = event_clock
  BY <1>1 DEF Refusal
<1>. QED  BY <1>2 DEF EnabledEvents

\* The operator's step is one of the schedule, or it unwinds.
LEMMA HandledStep ==
    ASSUME ActorTypeOK, HandleStep
    PROVE  Schedule \/ panicked' # "None"
<1>1. PICK id \in Id : \E step \in EnabledSteps(id) : Step(step.id, step.event, step.event_clock)
  BY DEF HandleStep, AllEnabledSteps
<1>2. PICK step \in EnabledSteps(id) : Step(step.id, step.event, step.event_clock)
  BY <1>1
<1>. DEFINE e == step.event
            ec == step.event_clock
<1>3. Step(id, e, ec) /\ panicked = "None"
  BY <1>2, ListedStep DEF HandleStep, Idle
<1>4. ASSUME Pending(e, ec) \in EnabledEvents(id)
      PROVE  Schedule
  <2>1. Pending(e, ec).event = e /\ Pending(e, ec).event_clock = ec
    BY DEF Pending
  <2>. QED  BY <1>3, <1>4, <2>1 DEF Schedule
<1>5. CASE Pending(e, ec) \notin EnabledEvents(id)
  <2>0. PICK src \in Id : /\ enabled_events[id].kind = "Recv"
                          /\ inbox_by_src[id][src] # << >>
                          /\ \E msg : e = RecvOk(src, msg)
    BY <1>5, ListedStep
  <2>1. PICK msg : e = RecvOk(src, msg)
    BY <2>0
  <2>2. Refusal(id, e, ec) # "None"
    BY <1>5, <2>0, <2>1, HeadIsOffered
  <2>3. panicked' = Refusal(id, e, ec)
    BY <1>3, <2>2 DEF Step, Advance, Refuse
  <2>. QED  BY <2>2, <2>3
<1>. QED  BY <1>4, <1>5

-----------------------------------------------------------------------------
(* What a run makes of the actors                                          *)

(***************************************************************************)
(* The fields of the actors are as in their states s, and the queues hold  *)
(* what was sent and not yet received.                                     *)
(***************************************************************************)
Restores(s, fields) ==
    /\ fields = << fields[1], fields[2], fields[3], fields[4], fields[5], fields[6] >>
    /\ fields[1] = [id \in Id |-> s[id].behavior]
    /\ fields[2] = [id \in Id |-> s[id].clock]
    /\ fields[3] = [id \in Id |-> s[id].iterator]
    /\ fields[4] = [id \in Id |-> s[id].expectation]
    /\ fields[5] \in [Id -> [Id -> Seq(QueuedMessage)]]
    /\ \A src, dst \in Id : s[src].sent[dst] = s[dst].received[src] \o fields[5][dst][src]
    /\ fields[6] = [id \in Id |-> s[id].time]

\* What follows a beginning is determined by the whole.
LEMMA SameRest ==
    ASSUME NEW V, NEW a \in Seq(V), NEW b \in Seq(V), NEW c \in Seq(V), a \o b = a \o c
    PROVE  b = c
<1>1. Len(a \o b) = Len(a) + Len(b) /\ Len(a \o c) = Len(a) + Len(c)
  OBVIOUS
<1>2. Len(b) = Len(c) /\ Len(a) \in Nat
  BY <1>1
<1>3. ASSUME NEW k \in 1 .. Len(b) PROVE b[k] = c[k]
  <2>1. (a \o b)[Len(a) + k] = b[k] /\ (a \o c)[Len(a) + k] = c[k]
    BY <1>2
  <2>. QED  BY <2>1
<1>. QED  BY <1>2, <1>3

\* The states of the actors determine everything that a step depends on.
LEMMA RestoresOne ==
    ASSUME NEW s, NEW x, NEW y, \A id \in Id : IsLocal(s[id]), Restores(s, x), Restores(s, y)
    PROVE  x = y
<1>1. x[1] = y[1] /\ x[2] = y[2] /\ x[3] = y[3] /\ x[4] = y[4] /\ x[6] = y[6]
  BY DEF Restores
<1>2. x[5] \in [Id -> [Id -> Seq(QueuedMessage)]] /\ y[5] \in [Id -> [Id -> Seq(QueuedMessage)]]
  BY DEF Restores
<1>3. ASSUME NEW dst \in Id, NEW src \in Id PROVE x[5][dst][src] = y[5][dst][src]
  <2>. DEFINE a == s[dst].received[src]
              b == x[5][dst][src]
              c == y[5][dst][src]
  <2>1. a \in Seq(QueuedMessage)
    BY DEF IsLocal
  <2>2. b \in Seq(QueuedMessage) /\ c \in Seq(QueuedMessage)
    BY <1>2
  <2>3. a \o b = a \o c
    <3>1. s[src].sent[dst] = a \o b
      BY DEF Restores
    <3>2. s[src].sent[dst] = a \o c
      BY DEF Restores
    <3>. QED  BY <3>1, <3>2
  <2>. HIDE DEF a, b, c
  <2>4. b = c
    BY <2>1, <2>2, <2>3, SameRest
  <2>. QED  BY <2>4 DEF b, c
<1>4. x[5] = y[5]
  <2>1. \A dst \in Id : x[5][dst] = y[5][dst]
    BY <1>2, <1>3
  <2>. QED  BY <1>2, <2>1
<1>5. /\ x = << x[1], x[2], x[3], x[4], x[5], x[6] >>
      /\ y = << y[1], y[2], y[3], y[4], y[5], y[6] >>
  BY Zenon DEF Restores
<1>. QED  BY <1>1, <1>4, <1>5, Zenon

\* The TimeContexts are a function of the actors, which ActorTypeOK does not say.
TimeOfActors == time_context = [id \in Id |-> time_context[id]]

\* The actors are what their states say.
LEMMA ActorsAreRestored ==
    ASSUME ActorTypeOK, Conserved, TimeOfActors, NEW s, \A id \in Id : Local(id) = s[id]
    PROVE  Restores(s, actors)
<1>1. /\ actors[1] = behavior /\ actors[2] = clock /\ actors[3] = enabled_events
      /\ actors[4] = expectation /\ actors[5] = inbox_by_src /\ actors[6] = time_context
      /\ actors = << actors[1], actors[2], actors[3], actors[4], actors[5], actors[6] >>
  BY DEF actors
<1>2. \A id \in Id : /\ s[id].behavior = behavior[id] /\ s[id].clock = clock[id]
                     /\ s[id].iterator = enabled_events[id] /\ s[id].expectation = expectation[id]
                     /\ s[id].time = time_context[id]
                     /\ \A dst \in Id : s[id].sent[dst] = SentMessages(id, dst)
                     /\ \A src \in Id : s[id].received[src] = ReceivedMessages(src, id)
  <2>. SUFFICES ASSUME NEW id \in Id
                PROVE  /\ s[id].behavior = behavior[id] /\ s[id].clock = clock[id]
                       /\ s[id].iterator = enabled_events[id] /\ s[id].expectation = expectation[id]
                       /\ s[id].time = time_context[id]
                       /\ \A dst \in Id : s[id].sent[dst] = SentMessages(id, dst)
                       /\ \A src \in Id : s[id].received[src] = ReceivedMessages(src, id)
    OBVIOUS
  <2>1. s[id] = Local(id)
    OBVIOUS
  <2>2. s[id].sent = [dst \in Id |-> SentMessages(id, dst)]
    BY <2>1 DEF Local
  <2>3. s[id].received = [src \in Id |-> ReceivedMessages(src, id)]
    BY <2>1 DEF Local
  <2>4. /\ s[id].behavior = behavior[id] /\ s[id].clock = clock[id]
        /\ s[id].iterator = enabled_events[id] /\ s[id].expectation = expectation[id]
        /\ s[id].time = time_context[id]
    BY <2>1 DEF Local
  <2>. QED  BY <2>2, <2>3, <2>4
<1>3. /\ DOMAIN behavior = Id /\ DOMAIN clock = Id /\ DOMAIN enabled_events = Id
      /\ DOMAIN expectation = Id /\ DOMAIN time_context = Id
      /\ inbox_by_src \in [Id -> [Id -> Seq(QueuedMessage)]]
  BY DEF ActorTypeOK
<1>4. behavior = [id \in Id |-> behavior[id]] /\ clock = [id \in Id |-> clock[id]]
  BY DEF ActorTypeOK
<1>5. enabled_events = [id \in Id |-> enabled_events[id]] /\ expectation = [id \in Id |-> expectation[id]]
  BY DEF ActorTypeOK
<1>6. time_context = [id \in Id |-> time_context[id]]
  BY DEF TimeOfActors
<1>7. ASSUME NEW src \in Id, NEW dst \in Id
      PROVE  s[src].sent[dst] = s[dst].received[src] \o inbox_by_src[dst][src]
  <2>1. SentMessages(src, dst) = ReceivedMessages(src, dst) \o inbox_by_src[dst][src]
    BY DEF Conserved
  <2>2. s[src].sent[dst] = SentMessages(src, dst) /\ s[dst].received[src] = ReceivedMessages(src, dst)
    BY <1>2
  <2>. QED  BY <2>1, <2>2
<1>8. behavior = [id \in Id |-> s[id].behavior] /\ clock = [id \in Id |-> s[id].clock]
  BY <1>2, <1>4
<1>9. /\ enabled_events = [id \in Id |-> s[id].iterator]
      /\ expectation = [id \in Id |-> s[id].expectation]
  BY <1>2, <1>5
<1>10. time_context = [id \in Id |-> s[id].time]
  BY <1>2, <1>6
<1>. QED  BY <1>1, <1>3, <1>7, <1>8, <1>9, <1>10, Zenon DEF Restores

-----------------------------------------------------------------------------
(* The invariant                                                           *)

\* What a location keeps of a record.
Location(r) == [id |-> r.id, event |-> r.event, event_clock |-> r.event_clock]

\* The steps of the location are the records of T from the n-th on.
LeadsAlong(location, T, n) ==
    /\ location \in Seq({Location(T[k]) : k \in 1 .. Len(T)})
    /\ Len(location) = Len(T) - n
    /\ \A k \in 1 .. Len(T) - n : location[k] = Location(T[n + k])

\* The bookmark is of the run T with the states st, and of the actors at its end.
Booked(T, st) ==
    /\ Runs(cfg_fn, T, st)
    /\ T # << >>
    /\ LeadsAlong(bookmark.location, T, 0)
    /\ Restores(st[Len(T)], bookmark.actors)

\* The first n steps of the run were taken again, and the others are left.
BackAt(T, st, n) ==
    /\ n \in 0 .. Len(T) - 1
    /\ LeadsAlong(replaying, T, n)
    /\ Replayed(T, st, 1 .. n)

(***************************************************************************)
(* The inductive invariant.  It is about the time before a panic, which    *)
(* ends the fiber.                                                         *)
(***************************************************************************)
FiberInv ==
    panicked = "None" =>
        /\ ActorInv /\ TimeOfActors
        /\ bookmark # NoBookmark => \E T, st : Booked(T, st)
        /\ replaying # << >> => \E T, st, n : Booked(T, st) /\ BackAt(T, st, n)

\* A step or a reset leaves the TimeContexts a function of the actors.
LEMMA TimeStaysOfActors ==
    ASSUME TimeOfActors, [ActorNext]_actor_vars
    PROVE  TimeOfActors'
<1>. DEFINE Of(tc) == tc = [id \in Id |-> tc[id]]
<1>1. \A id \in Id : \A x : Of([time_context EXCEPT ![id] = x])
  BY DEF TimeOfActors
<1>2. ASSUME NEW id \in Id, NEW event, NEW event_clock, Step(id, event, event_clock)
      PROVE  Of(time_context')
  <2>. DEFINE command == CommandFor(id, event)
              tc == TimeAfter(id, event)
              clk == Tick(id, event_clock)
  <2>1. CASE Refusal(id, event, event_clock) # "None"
    <3>1. time_context' = time_context
      BY <1>2, <2>1 DEF Step, Advance, Refuse
    <3>. QED  BY <3>1 DEF TimeOfActors
  <2>2. CASE Refusal(id, event, event_clock) = "None"
    <3>1. Deliver(id, event, event_clock)
      BY <1>2, <2>2 DEF Step, Advance
    <3>2. \/ Perform(id, command, PopInbox(id, event), tc, clk)
          \/ time_context' = [time_context EXCEPT ![id] = tc]
      BY <3>1 DEF Deliver
    <3>. HIDE DEF command, tc, clk, Of
    <3>3. \E x : time_context' = [time_context EXCEPT ![id] = x]
      BY <3>2 DEF Perform
    <3>. QED  BY <1>1, <3>3
  <2>. QED  BY <2>1, <2>2
<1>3. CASE Schedule
  <2>1. \E id \in Id : \E event, event_clock : Step(id, event, event_clock)
    BY <1>3 DEF Schedule
  <2>. QED  BY <1>2, <2>1 DEF TimeOfActors
<1>4. CASE ResetActors
  BY <1>4 DEF ResetActors, TimeOfActors
<1>5. CASE UNCHANGED actor_vars
  BY <1>5 DEF actor_vars, actors, TimeOfActors
<1>. QED  BY <1>3, <1>4, <1>5 DEF ActorNext

\* The location of a trace leads along all of it.
LEMMA LocationLeadsAlong ==
    ASSUME NEW T \in Seq(TraceRecord)
    PROVE  LeadsAlong(LocationOf(T), T, 0)
<1>1. DOMAIN T = 1 .. Len(T) /\ Len(T) \in Nat
  OBVIOUS
<1>2. LocationOf(T) = [k \in 1 .. Len(T) |-> Location(T[k])]
  BY <1>1 DEF LocationOf, Location
<1>3. LocationOf(T) \in Seq({Location(T[k]) : k \in 1 .. Len(T)}) /\ Len(LocationOf(T)) = Len(T)
  BY <1>1, <1>2
<1>4. \A k \in 1 .. Len(T) - 0 : LocationOf(T)[k] = Location(T[0 + k])
  BY <1>1, <1>2
<1>. QED  BY <1>1, <1>3, <1>4 DEF LeadsAlong

\* What is left after its first step.
LEMMA LeadsOn ==
    ASSUME NEW T \in Seq(TraceRecord), NEW n \in 0 .. Len(T) - 1,
           NEW location, LeadsAlong(location, T, n)
    PROVE  /\ Head(location) = Location(T[n + 1])
           /\ LeadsAlong(Tail(location), T, n + 1)
           /\ Tail(location) = << >> <=> n + 1 = Len(T)
<1>. DEFINE W == {Location(T[k]) : k \in 1 .. Len(T)}
<1>1. location \in Seq(W) /\ Len(location) = Len(T) - n /\ Len(T) \in Nat
  BY DEF LeadsAlong
<1>2. \A k \in 1 .. Len(T) - n : location[k] = Location(T[n + k])
  BY DEF LeadsAlong
<1>. HIDE DEF W
<1>3. 1 \in 1 .. Len(T) - n /\ location # << >>
  BY <1>1
<1>4. Head(location) = location[1]
  BY <1>1, <1>3
<1>5. /\ Tail(location) \in Seq(W) /\ Len(Tail(location)) = Len(T) - (n + 1)
      /\ \A k \in 1 .. Len(T) - (n + 1) : Tail(location)[k] = location[k + 1]
  BY <1>1, <1>3
<1>6. ASSUME NEW k \in 1 .. Len(T) - (n + 1)
      PROVE  Tail(location)[k] = Location(T[(n + 1) + k])
  <2>1. k + 1 \in 1 .. Len(T) - n /\ n + (k + 1) = (n + 1) + k
    BY <1>1
  <2>. QED  BY <1>2, <1>5, <2>1
<1>7. LeadsAlong(Tail(location), T, n + 1)
  BY <1>5, <1>6 DEF LeadsAlong, W
<1>8. Tail(location) = << >> <=> n + 1 = Len(T)
  <2>1. ASSUME NEW S, NEW s \in Seq(S) PROVE s = << >> <=> Len(s) = 0
    OBVIOUS
  <2>2. Tail(location) = << >> <=> Len(Tail(location)) = 0
    BY <1>5, <2>1
  <2>3. Len(T) - (n + 1) = 0 <=> n + 1 = Len(T)
    BY <1>1
  <2>. QED  BY <1>5, <2>2, <2>3
<1>. QED  BY <1>2, <1>3, <1>4, <1>7, <1>8

\* At the end of a run that was taken again the actors are what they were.
LEMMA AllReplayed ==
    ASSUME NEW p, NEW T, NEW st, Runs(p, T, st), Replayed(T, st, 1 .. Len(T))
    PROVE  \A id \in Id : Local(id) = st[Len(T)][id]
<1>. SUFFICES ASSUME NEW id \in Id PROVE Local(id) = st[Len(T)][id]
  OBVIOUS
<1>1. Len(T) \in Nat
  BY RunIs
<1>2. PICK l : Cut(T, 1 .. Len(T), id, l) /\ Local(id) = st[l][id]
  BY DEF Replayed
<1>3. Cut(T, 1 .. Len(T), id, Len(T))
  BY <1>1 DEF Cut
<1>4. Alike(st, l, Len(T), id)
  BY <1>2, <1>3, OneCut
<1>. QED  BY <1>2, <1>4 DEF Alike

\* The same after a step.
LEMMA AllReplayedAgain ==
    (\A p, T, st : Runs(p, T, st) /\ Replayed(T, st, 1 .. Len(T)) =>
        \A id \in Id : Local(id) = st[Len(T)][id])'
<1>1. \A p, T, st : Runs(p, T, st) /\ Replayed(T, st, 1 .. Len(T)) =>
          \A id \in Id : Local(id) = st[Len(T)][id]
  BY AllReplayed
<1>. QED  BY <1>1, PTL

\* The actors are restored after a step, too.
LEMMA ActorsAreRestoredAgain ==
    (ActorInv /\ TimeOfActors =>
        \A s : (\A id \in Id : Local(id) = s[id]) => Restores(s, actors))'
<1>1. ActorInv /\ TimeOfActors =>
          \A s : (\A id \in Id : Local(id) = s[id]) => Restores(s, actors)
  BY ActorsAreRestored DEF ActorInv, OfferInv
<1>. QED  BY <1>1, PTL

\* The next step of the location is one of the schedule, and the run goes on.
LEMMA StepsBack ==
    ASSUME FiberInv, StepMany
    PROVE  /\ panicked' = "None" /\ Schedule
           /\ \E T, st, n : /\ Booked(T, st) /\ n \in 0 .. Len(T) - 1
                            /\ LeadsAlong(replaying', T, n + 1)
                            /\ replaying' = << >> <=> n + 1 = Len(T)
                            /\ Replayed(T, st, 1 .. n + 1)'
<1>1. panicked = "None" /\ replaying # << >>
  BY DEF StepMany
<1>2. PICK T, st, n : Booked(T, st) /\ BackAt(T, st, n)
  BY <1>1 DEF FiberInv
<1>3. /\ Runs(cfg_fn, T, st) /\ n \in 0 .. Len(T) - 1
      /\ LeadsAlong(replaying, T, n) /\ Replayed(T, st, 1 .. n)
      /\ T \in Seq(TraceRecord) /\ Len(T) \in Nat
  BY <1>2 DEF Booked, BackAt, Runs
<1>. DEFINE k == n + 1
            r == T[k]
<1>4. k \in 1 .. Len(T) /\ k - 1 = n /\ n \in 0 .. Len(T) /\ (1 .. n) \cup {k} = 1 .. n + 1
  BY <1>3
<1>5. r.id \in Id
  BY <1>3, <1>4, RunIs
<1>6. Head(replaying) = Location(r)
  BY <1>3, LeadsOn
<1>7. Step(r.id, r.event, r.event_clock)
  BY <1>6 DEF StepMany, Location
<1>8. Cut(T, 1 .. n, r.id, k - 1)
  BY <1>3, <1>4 DEF Cut
<1>9. Served(T, st, 1 .. n, st[k - 1][r.id], r)
  <2>1. \A m \in 1 .. k - 1 : m \in 1 .. n
    BY <1>4
  <2>. QED  BY <1>3, <1>4, <2>1, StepIsServed
<1>10. OfferInv /\ Conserved
  BY <1>1 DEF FiberInv, ActorInv
<1>. HIDE DEF k
<1>11. /\ panicked' = "None"
       /\ Pending(r.event, r.event_clock) \in EnabledEvents(r.id)
       /\ Replayed(T, st, (1 .. n) \cup {k})'
  BY <1>1, <1>3, <1>4, <1>7, <1>8, <1>9, <1>10, StepAgain
<1>12. Schedule
  <2>1. Pending(r.event, r.event_clock).event = r.event
    BY DEF Pending
  <2>2. Pending(r.event, r.event_clock).event_clock = r.event_clock
    BY DEF Pending
  <2>. QED  BY <1>1, <1>5, <1>7, <1>11, <2>1, <2>2 DEF Schedule
<1>13. Replayed(T, st, 1 .. n + 1)'
  <2>1. PICK S : S = (1 .. n) \cup {k}
    OBVIOUS
  <2>2. S = 1 .. n + 1
    BY <1>4, <2>1
  <2>. QED  BY <1>11, <2>1, <2>2
<1>14. /\ LeadsAlong(replaying', T, n + 1)
       /\ replaying' = << >> <=> n + 1 = Len(T)
  BY <1>3, LeadsOn DEF StepMany
<1>. QED  BY <1>2, <1>3, <1>11, <1>12, <1>13, <1>14

\* A bookmark that is not touched stays one, of the same run.
LEMMA StaysBooked ==
    ASSUME bookmark' = bookmark, cfg_fn' = cfg_fn, NEW T, NEW st, Booked(T, st)
    PROVE  Booked(T, st)'
BY DEF Booked

\* FiberInv is inductive.
LEMMA NextKeepsFiberInv ==
    ASSUME FiberInv, [Next]_vars
    PROVE  FiberInv'
<1>. SUFFICES ASSUME panicked' = "None" PROVE FiberInv'
  BY DEF FiberInv
<1>0. ASSUME ActorNext \/ UNCHANGED actor_vars, panicked = "None"
      PROVE  ActorInv' /\ TimeOfActors' /\ cfg_fn' = cfg_fn
  <2>1. ActorInv /\ TimeOfActors
    BY <1>0 DEF FiberInv
  <2>2. ActorInv' /\ TimeOfActors'
    BY <1>0, <2>1, NextKeepsActorInv, TimeStaysOfActors
  <2>3. cfg_fn' = cfg_fn
    BY <1>0 DEF ActorNext, Schedule, Step, Advance, ResetActors, actor_vars
  <2>. QED  BY <2>2, <2>3
<1>1. ASSUME ActorInv', TimeOfActors', cfg_fn' = cfg_fn, bookmark' = bookmark,
             panicked = "None", replaying' = << >>
      PROVE  FiberInv'
  <2>1. bookmark' # NoBookmark => \E T, st : Booked(T, st)'
    BY <1>1, StaysBooked DEF FiberInv
  <2>. QED  BY <1>1, <2>1 DEF FiberInv, NoBookmark
<1>2. CASE HandleReset
  BY <1>0, <1>1, <1>2 DEF HandleReset, Idle, ActorNext
<1>3. CASE HandleStep
  <2>1. panicked = "None" /\ replaying' = << >> /\ bookmark' = bookmark
    BY <1>3 DEF HandleStep, Idle
  <2>2. Schedule
    BY <1>3, <2>1, HandledStep DEF FiberInv, ActorInv, OfferInv
  <2>. QED  BY <1>0, <1>1, <2>1, <2>2 DEF ActorNext
<1>4. CASE Keep
  <2>1. /\ panicked = "None" /\ replaying' = << >> /\ UNCHANGED actor_vars
        /\ trace_records # << >>
        /\ bookmark' = [location |-> LocationOf(trace_records), actors |-> actors]
    BY <1>4 DEF Keep, Idle
  <2>2. ActorInv' /\ TimeOfActors' /\ cfg_fn' = cfg_fn
    BY <1>0, <2>1
  <2>3. PICK T : T = trace_records
    OBVIOUS
  <2>4. PICK st : OnRun(st)
    BY <2>1 DEF FiberInv, ActorInv, RunInv
  <2>5. Runs(cfg_fn, T, st) /\ \A id \in Id : Local(id) = st[Len(T)][id]
    BY <2>3, <2>4 DEF OnRun
  <2>6. LeadsAlong(LocationOf(T), T, 0)
    BY <2>5, LocationLeadsAlong DEF Runs
  <2>7. Restores(st[Len(T)], actors)
    BY <2>1, <2>5, ActorsAreRestored DEF FiberInv, ActorInv, OfferInv
  <2>8. bookmark'.location = LocationOf(T) /\ bookmark'.actors = actors
    BY <2>1, <2>3
  <2>9. Booked(T, st)'
    BY <2>1, <2>2, <2>3, <2>5, <2>6, <2>7, <2>8 DEF Booked
  <2>. QED  BY <2>1, <2>2, <2>9 DEF FiberInv
<1>5. CASE HandleResetAndStepMany
  <2>1. /\ panicked = "None" /\ ResetActors /\ bookmark # NoBookmark
        /\ replaying' = bookmark.location /\ bookmark' = bookmark
    BY <1>5 DEF HandleResetAndStepMany, Idle
  <2>2. ActorInv' /\ TimeOfActors' /\ cfg_fn' = cfg_fn
    BY <1>0, <2>1 DEF ActorNext
  <2>3. PICK T, st : Booked(T, st)
    BY <2>1 DEF FiberInv
  <2>4. Booked(T, st)'
    BY <2>1, <2>2, <2>3, StaysBooked
  <2>5. NewTrace'
    BY <2>1, ResetIsNewTrace DEF FiberInv, ActorInv, OfferInv
  <2>6. Replayed(T, st, {})'
    BY <2>3, <2>5, NewTraceReplaysAgain DEF Booked
  <2>7. Len(T) \in Nat /\ Len(T) # 0 /\ 1 .. 0 = {}
    BY <2>3 DEF Booked, Runs
  <2>8. BackAt(T, st, 0)'
    BY <2>1, <2>3, <2>6, <2>7 DEF BackAt, Booked
  <2>. QED  BY <2>2, <2>4, <2>8 DEF FiberInv
<1>6. CASE StepMany
  <2>1. panicked = "None" /\ bookmark' = bookmark
    BY <1>6 DEF StepMany
  <2>2. Schedule
    BY <1>6, StepsBack
  <2>3. ActorInv' /\ TimeOfActors' /\ cfg_fn' = cfg_fn
    BY <1>0, <2>1, <2>2 DEF ActorNext
  <2>4. PICK T, st, n : /\ Booked(T, st) /\ n \in 0 .. Len(T) - 1
                        /\ LeadsAlong(replaying', T, n + 1)
                        /\ replaying' = << >> <=> n + 1 = Len(T)
                        /\ Replayed(T, st, 1 .. n + 1)'
    BY <1>6, StepsBack
  <2>5. Booked(T, st)'
    BY <2>1, <2>3, <2>4, StaysBooked
  <2>6. replaying' # << >> => BackAt(T, st, n + 1)'
    <3>1. Len(T) \in Nat
      BY <2>4 DEF Booked, Runs
    <3>. QED  BY <2>4, <3>1 DEF BackAt
  <2>. QED  BY <2>3, <2>5, <2>6 DEF FiberInv
<1>7. CASE UNCHANGED vars
  <2>1. /\ UNCHANGED actor_vars /\ bookmark' = bookmark /\ replaying' = replaying
        /\ panicked = "None"
    BY <1>7 DEF vars, actor_vars
  <2>2. ActorInv' /\ TimeOfActors' /\ cfg_fn' = cfg_fn
    BY <1>0, <2>1
  <2>3. CASE replaying = << >>
    BY <1>1, <2>1, <2>2, <2>3
  <2>4. CASE replaying # << >>
    <3>1. PICK T, st, n : Booked(T, st) /\ BackAt(T, st, n)
      BY <2>1, <2>4 DEF FiberInv
    <3>2. Booked(T, st)'
      BY <2>1, <2>2, <3>1, StaysBooked
    <3>3. \A id \in Id : Local(id)' = Local(id)
      BY <2>1, UnchangedLocal
    <3>4. BackAt(T, st, n)'
      BY <2>1, <3>1, <3>3 DEF BackAt, Replayed
    <3>. QED  BY <2>2, <3>2, <3>4 DEF FiberInv
  <2>. QED  BY <2>3, <2>4
<1>. QED  BY <1>2, <1>3, <1>4, <1>5, <1>6, <1>7 DEF Next

\* FiberInv holds at first.
LEMMA InitHasFiberInv == Init => FiberInv
<1>. SUFFICES ASSUME Init PROVE FiberInv
  OBVIOUS
<1>1. ActorInv
  BY InitHasActorInv DEF Init
<1>2. TimeOfActors
  BY DEF Init, ActorInit, TimeOfActors
<1>. QED  BY <1>1, <1>2 DEF Init, FiberInv

\* A replay does not panic, and ends where the bookmark was kept.
LEMMA ReplayEnds ==
    ASSUME FiberInv, Next, replaying # << >>
    PROVE  /\ panicked' = "None"
           /\ replaying' = << >> => actors' = bookmark.actors
<1>1. StepMany
  BY DEF Next, HandleReset, HandleStep, Keep, HandleResetAndStepMany, Idle
<1>2. panicked' = "None" /\ Schedule /\ bookmark' = bookmark /\ panicked = "None"
  BY <1>1, StepsBack DEF StepMany
<1>3. PICK T, st, n : /\ Booked(T, st) /\ n \in 0 .. Len(T) - 1
                      /\ LeadsAlong(replaying', T, n + 1)
                      /\ replaying' = << >> <=> n + 1 = Len(T)
                      /\ Replayed(T, st, 1 .. n + 1)'
  BY <1>1, StepsBack
<1>4. ASSUME replaying' = << >> PROVE actors' = bookmark.actors
  <2>1. Replayed(T, st, 1 .. Len(T))' /\ Runs(cfg_fn, T, st)
    BY <1>3, <1>4 DEF Booked
  <2>2. \A id \in Id : Local(id)' = st[Len(T)][id]
    BY <2>1, AllReplayedAgain
  <2>3. ActorInv' /\ TimeOfActors'
    BY <1>2, NextKeepsActorInv, TimeStaysOfActors DEF FiberInv, ActorNext
  <2>4. PICK s : s = st[Len(T)]
    OBVIOUS
  <2>5. Restores(s, actors')
    BY <2>2, <2>3, <2>4, ActorsAreRestoredAgain
  <2>6. Restores(s, bookmark.actors)
    BY <1>3, <2>4 DEF Booked
  <2>7. \A id \in Id : IsLocal(s[id])
    BY <2>1, <2>4 DEF Runs
  <2>. QED  BY <2>5, <2>6, <2>7, RestoresOne
<1>. QED  BY <1>2, <1>4

(***************************************************************************)
(* A kept location leads back to the state it was taken in, for any number *)
(* of actors, any behaviors, however long it is and whatever the operator  *)
(* did meanwhile (into_fiber's ResetAndStepMany): no step of it panics,    *)
(* and at its end the actors are what they were.                           *)
(***************************************************************************)
THEOREM LocationsLeadBack == Spec => LocationLeadsBack
<1>1. FiberInv /\ [Next]_vars =>
        [replaying # << >> =>
            /\ panicked' = "None"
            /\ replaying' = << >> => actors' = bookmark.actors]_vars
  BY ReplayEnds
<1>. QED  BY <1>1, InitHasFiberInv, NextKeepsFiberInv, PTL DEF Spec, LocationLeadsBack

=============================================================================
