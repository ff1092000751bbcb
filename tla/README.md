# Fibril in TLA+

Fibril runs *behaviors* (coroutines that answer every event with a command) in two
ways: for real, on UDP sockets (`crates/fibril`), and under a *verifier*
(`crates/fibril_verifier`), which executes a configuration of actors again and again,
one representative schedule per equivalence class, until an assertion fails or no
class is left. The specifications here say what both runtimes do, what the verifier's
answers are worth, and how the two runtimes compare.

## Inventory of the system

| component | state | operations | what is hard about it | what makes it correct |
|---|---|---|---|---|
| Vector clocks (`vector_clock`) | a vector of counters that grows on use | `increment`, `merge_in`, `reset`; comparison, equality, hash | two shapes of one clock; a comparison loop with an expected direction | comparison is the pointwise order; equality, order and hash agree |
| Core vocabulary (`fibril_core`) | – | `Event`, `Command`, `Step` | – | – |
| Identifiers (`fibril_core/id.rs`) | a number of eight bytes | conversion from and to addresses of six | bytes in order, bytes cut off | an address survives as an identifier, an identifier as an address if it fits |
| `TimeContext` | next deadline, pending deadlines with durations | `new_deadline`, `possibilities_for_deadline_elapsed`, `deadline_elapsed`, `reset` | infers which deadlines have passed without a clock | leaves no answer out that a real clock can give |
| Actors and `step` (`verifier.rs`) | per actor: behavior, clock, iterator of enabled events, inboxes by source, expectation, `TimeContext`; the trace | `create_actors`, `reset_actors`, `EnabledEventIterator`, `step` | overtaking between sources, order within one; reuse of actors between traces | clocks are happens-before; no message is lost, doubled or overtaken in its queue |
| Search (`Verifier::run`) | prefix to replay, trace count, one `TraceTree` per actor | `run`, `pick_next_step`, `pick_next_representative_prefix` | which race to reverse, what was visited already, replay of a prefix that was never executed, panics | every trace is a schedule; none is explored twice; Complete covers all; the minimal trace reproduces |
| `TraceTree` | tree of shared nodes with a cursor | `visit`, `visited`, `reset_cursor` | branches reused and branched off; the cursor reset without a comparison; looked up with histories cut out of the trace | it is the set of the histories visited |
| Interactive mode (`into_fiber`) | the actors, driven by an operator | `Reset`, `Step`, `ResetAndStepMany` | locations handed out and sent back later | a location leads back to its state; offered steps can be taken |
| Visitors, records, macros | – | `on_maximal`, assertions of tests | – | the traces are those the tests assert |
| UDP runtime (`fibril/udp.rs`) | per actor: thread, task, two bounded channels, socket, deadlines | `spawn`, `join` | two sides that block on each other; failing sockets; panics on either side; shutdown | turns are taken; every answer fits; `join` returns and tells of every panic |
| `Sdk`, `Fiber` | the coroutine | commands as function calls; `send_broadcast`, `recv_*` | `unreachable!` on a wrong answer | the answer fits the command, in both runtimes |
| Linearizability tester | per thread: completed operations with indices, one in flight | `on_invoke`, `on_return`, `serialized_history`, `is_consistent` | real time kept as indices; backtracking search | accepts exactly the linearizable histories |
| Sequential consistency tester | the same without indices | the same | operations in flight at the end | accepts exactly the sequentially consistent histories |
| Reference objects | `Register`, `Vec` | `invoke`, `is_valid_step` | – | – |
| `ConsistencyClient` | thread slots, request identifiers | `new`, `invoke`, `await_response` | slots reused with several requests in flight; asserts at every answer | an answer finds its request; a stale read is found out, a correct register never |
| Tests and examples | the replicated register of `kv.rs`; the registry of `discovery.rs` | echo, calc, registry, time, discovery, kv | messages left over from the last operation; quorums that lag behind | the traces the tests assert; linearizability |

Interactions: the verifier calls behaviors through `Step`, moves messages between its
actors' inboxes together with the sender's clock, and calls a visitor at the end of
every trace. The UDP runtime connects a behavior thread and an I/O task per actor by an
event channel and a command channel, and actors by datagrams. The consistency testers
are told of invocations and returns by a `ConsistencyClient` inside a verified
configuration. Both runtimes are seen by behaviors through the answers to their commands
only, which is the one interface that has an abstract specification (`Runtime`).

The hazards, each with its line and the properties that cover it, are listed in
`PROJECT.json` under `hazards`.

## Modules

| module | models | built on |
|---|---|---|
| `VClock` | `VectorClock`: operations | – |
| `ClockAlgebra` | its `partial_cmp`, `eq`, `hash`, on two clocks under all operations; the crate's tests | `VClock` |
| `FibrilCore` | `Event`, `Command`; a behavior | – |
| `Ids` | identifiers, addresses and their bytes | – |
| `Runtime` | the abstract specification of a runtime: which events may answer which command | `FibrilCore` |
| `TimeContext` | `TimeContext` | – |
| `DeadlineAudit` | the UDP runtime's deadlines and the verifier's `TimeContext` along one execution | `TimeContext` |
| `ActorSystem` | actors, `EnabledEventIterator`, `step`, `reset_actors`, in every schedule; implements `Runtime` | `FibrilCore`, `VClock`, `TimeContext` |
| `VisitedHistories` | the abstract specification of a trace tree: a set of local histories | – |
| `TraceTree` | nodes, nexts and cursor of `trace_tree.rs`; implements `VisitedHistories` | – |
| `Verifier` | `run`, `pick_next_step`, `pick_next_representative_prefix` | `ActorSystem` |
| `VerifierAudit` | not code: re-executes a configuration after `run` has returned | `Verifier` |
| `Interactive` | `into_fiber` and its operator | `ActorSystem` |
| `UdpRuntime` | `spawn`, `join`, channels, socket; implements `Runtime` | `FibrilCore` |
| `SequentialSpec` | `Register`, `Vec` | – |
| `LinearizabilityTester`, `SequentialConsistencyTester` | the two testers as operators on their state | `SequentialSpec` |
| `ConsistencyAudit` | both testers told of one history, with the definitions of the two models | the testers |
| `TesterTests` | the tests of both testers, as histories and their serializations | the testers |
| `ConsistencyClient` | `invoke`, `await_response` with slots and request identifiers | `LinearizabilityTester` |
| `SharedMemory` | the servers of `kv.rs` and `kv-buggy.rs`, and a client of them | `ConsistencyClient` |
| `Discovery` | the server of `examples/discovery.rs` | – |
| `VerifierTests` | the tests of `fibril_verifier`: configurations with the outcome, number and traces asserted | `Scripts`, `Discovery` |
| `Scripts`, `Configurations` | behaviors and families of configurations to check | – |
| `Subsequences` | `Iterator::filter` as a function on sequences | – |
| `DataLemmas` | lemmas about clocks, sequences and subsequences | `VClock`, `Subsequences` |
| `RuntimeProofs`, `UdpRuntimeProofs` | theorems | the module of the name |
| `ActorSystemProofs` | theorems, and that `ActorSystem` implements `Runtime`; conservation of messages and happens-before; traces as runs | `ActorSystem`, `RuntimeProofs`, `DataLemmas` |
| `DataTypeProofs` | theorems about deadlines, identifiers, clocks, trace trees and the consistency testers | `DeadlineAudit`, `Ids`, `ClockAlgebra`, `TraceTree`, `ConsistencyAudit`, `DataLemmas` |
| `VerifierProofs` | theorems about `Verifier` and `VerifierAudit` | `ActorSystemProofs` |
| `InteractiveProofs` | the theorem about the locations of `Interactive` | `ActorSystemProofs` |
| `SharedMemoryProofs` | theorems about `SharedMemory` and its client | `SharedMemory`, `DataLemmas` |
| `MCDataTypes` | one run for the modules that stand for themselves | `DeadlineAudit`, `Ids`, `ClockAlgebra`, `TraceTree`, `ConsistencyAudit`, `TesterTests` |
| other `MC*` | constants for TLC | the module of the name |

The refinements: `ActorSystem` and `UdpRuntime` both implement `Runtime`, with the same
mapping (`cfg_fn` and `behavior` are variables of each), so what is true of a behavior in any
single answer under the verifier is true on a socket. `Verifier` takes only steps of
`ActorSystem` (`EveryTraceIsASchedule`). `TraceTree` implements `VisitedHistories`, whose two
variables are `trace_tree[id]` and `behavior[id]` of `Verifier`.

### How state and actions correspond to the code

*Behaviors.* A behavior is deterministic: the same events make it issue the same
commands. Its state is therefore the sequence of events it has consumed (`behavior[id]`), and the
constant operator `Behave` gives its command. A value outside `Command` is a panic of the
behavior. `Program` is the set of configurations, one of which `cfg_fn` is.

*Actors.* The fields of `Actor` are the variables `clock`, `enabled_events`,
`expectation`, `inbox_by_src`, `time_context`, `trace_records`. One call of
`Verifier::step` is one `Step`: its assertions first (`Refuse`: empty inbox, unexpected
message, clock mismatch, no query of an elapsed deadline), then clock, delivery, record and command
(`Deliver`). The values of `panicked` are the panics of `step`. The code indexes
actors and clocks from 0, the model from 1.

*Search.* `run` is a deterministic loop. Its control points are `pc`: the loop head, within
a trace, a caught panic, returned. `StartTrace` resets the actors; `ReplayStep` is the
prefix loop, outside of `catch_unwind`; `ExploreStep` the loop inside it; `ReportPanic`,
`CompleteTrace` and `GiveUp` are the ways it ends or goes on. `NextPrefix` takes the last
record with an alternative, and of its reversals the innermost, as the nested loops do.
An actor's tree is the set of local histories it holds: a
node is the path that leads to it, and the cursor is `behavior[id]`. That this is what
`trace_tree.rs` does is the refinement of `VisitedHistories` by `TraceTree`, where nodes are
allocated in a sequence, an `Rc` is a number, and children are searched by first match. `maximal` records what `on_maximal` was
called with, by local histories: two schedules are equivalent exactly when every actor
consumes the same events in the same order.

*UDP runtime.* Thread, task and the two channels of each actor are separate, every
`recv`, `send` and match on a command is a step. A datagram is lost, or duplicated, or
overtakes others; reads, writes and codecs may fail, and a duration may be beyond what an `Instant` can
be, which panics (`Faults`). A side that ends drops
both of its channel ends. Time is the moment a deadline passes; in `DeadlineAudit` it is
a clock with durations, which a query reads for the answer and then again for each deadline of the
sweep, in the order of their numbers.

*Identifiers.* `identifier` and `address` are what a behavior and what its socket call a peer. They
are set by `Command::Recv` (`ReceiveFrom`) and by `Command::Send` or serialization (`SendTo`).

*Runtime.* All there is of an actor is the sequence of events it was stepped with.
`IsAnswer` says which event may come next, by the last command: a new deadline is new, "not
elapsed" is said of an existing deadline that was not said to have elapsed, an
expectation comes back with its description, a message was sent by its source to this
actor, and nothing answers `Exit`, `Panic` or a behavior that has unwound. Messages may be
lost, copied and overtaken. The verifier may restart all behaviors at once
(`RestartingSpec`), and messages of the last trace must not survive that.

*Shared memory.* A step of a server is the receipt of a message with all the sends that
follow it: a send never waits, its message is visible to the receiver only, and the next
receipt is the only thing left to chance, so every interleaving of the finer steps is
equivalent to one of these. A fiber's position in its loop and in `recv_responses` is its `state`,
and its locals are the fields beside it. Values are numbers, as the order of
strings only breaks ties that do not occur.

*Tests.* A trace that a test asserts is told by the actors that are stepped, what they
learn and what they send; `AgreesWithTests` compares the n-th trace of the search with the n-th of
the test, step by step. The traces of `tests/*.rs` are told by their number only. The
10 seconds of `tests/time.rs` are a duration of 2.

*Testers.* Their operators have the names and fields of the code. A call of `serialize` is a
record of its arguments, of which `done` counts what was popped of each thread's history; `Serialize` gives
the calls that a call makes of itself. The code searches depth first and returns the
first order it finds; `SerializedHistories` collects the orders of all calls, level by level
(`Depth` levels at most, as every call takes one operation). `is_consistent` only asks whether there is one.

## What is checked

Times are for two workers on a small machine; all runs end within five minutes.

| run | instance | states | shows |
|---|---|---|---|
| `Actors` | 8 configurations of 3 actors, all schedules | 27 000 | `CausalClocks`, `ClockOrderIsHappensBefore` (clock order is the transitive closure of program order and message delivery), `MessagesAreConserved`, `ImplementsRuntime` (with restarts); deadlines, expectations, panics and messages to oneself occur |
| `DataTypes` | deadlines: 3, of durations 0, 1, 3, time up to 6; clocks: 2, 3 indices, counts up to 2; trees: 6 nodes, 4 events deep; histories: a register and a stack, 3 threads, 6 calls; every test of the testers; identifiers of bytes with 2 values | 143 000 | `AnswersAreAnticipated`, `ElapsedIsForever`; `AnswersReachThePeer`, `TransferKeepsWhatFits`; `OrderIsPointwise`, `EqOrdAndHashAgree`, `ClocksPassTheTests`; `ImplementsHistories`, `LookupsFindTheHistories`; `LinearizabilityIsDecided`, `SequentialConsistencyIsDecided`, `TestersPassTheTests` |
| `Verifier` | 16 configurations of the repository's tests; 1280 configurations of 3 actors that each send to anyone, receive, and then keep receiving; the 15 of `Audit` with panics and expectations; limit of 24 traces | 49 000 | `AgreesWithTests` (outcome, number of traces, and the traces themselves in their order, as the tests assert them), `EveryTraceIsASchedule`, `NeverExploredTwice`, `TreesHoldTheTrace`, `OnlyTheLastStepUnwinds` (a prefix that panics does so in its last step), `IncompleteAtTheLimit` |
| `Audit` | a receiving or echoing server with two clients of up to 3 operations each (450 configurations); 15 with panics and expectations | 61 000 | `CompleteCoversEverySchedule`, `CompleteMeansVerified`, `MinimalTraceReproduces` |
| `Interactive` | 4 configurations of 2 actors, any requests | 84 000 | `LocationLeadsBack` |
| `UdpRuntime` | 14 configurations of 2 actors, all faults, no copy or two of every datagram | 640 000 | `TakeTurns`, `PanicsArePropagated`, `ImplementsRuntime`, and `JoinReturns` under fairness |
| `SharedMemory` | 3 replicating servers with the client of `is_linearizable`, with one operation at each server (sequential, or two at a time), and with a write and a read at one server; 5 with two reads at once; 2 servers of `kv-buggy.rs`; one server with up to 2 operations in flight | 433 000 | `RequestsAreMatched`, `AnswersAreLinearizable`, `SequentialClientIsServed`, `CollectorsDoNotBlock`, `StaleReadIsDetected` |
| `FourSenders`, `PanicAtOnce`, `QueuedOffers`, `UdpSend`, `WriteTwice` | one or a few configurations | – | see *Disagreements* |

`DataTypes` puts data types that do not interact into one run: its initial states choose
which of them a behavior exercises, and the others stay in a state they start in.

### Bounds

- *Three actors, scripts of a few commands.* A race needs two senders and a receiver; the
  hazards of the search (a message queued behind another, a cause between two
  racing receives, a race with oneself) need a third message or a relay, and all
  of these occur in the scripts. `Verifier`
  takes every script of its alphabet, so configurations nobody thought of are among them.
- *24 traces* is above what every test that the run lists needs (at most 6) and below what some of the
  other configurations need, so that both ends of the search are met. The tests of `kv.rs`, which assert
  33, 71 and 32860 traces, are not among them.
- *Capacity 2.* `TakeTurns` shows that one place would be enough, so 2 is no different
  from the 64 of the code.
- *None or two copies of a datagram.* One of two copies that is never received
  is a single delivery.
- *Three deadlines, durations 0, 1, 3.* Dropping a deadline compares two; the third shows
  that one in between stays. The theorems lift these bounds.
- *Three threads, six calls.* Three overlapping operations, or two that are completed
  and two in flight; a history with a call out of turn is followed for four calls, after
  which both testers stay invalid by an early return.
- *Two values of a byte* make up 64 addresses and 256 identifiers, all of which are tried. The theorems are about any number of values.
- *Six nodes, four events deep, two events* let a tree branch at two levels and be walked
  again from its root after every reset.
- *Three servers* are the fewest with a quorum that leaves one out; three operations are a
  write that lags behind, one that overtakes it, and a read that tells them apart. A server
  coordinates one operation, or a write and then a read, because of `WriteTwice` and
  `ReadTwice`. *Five servers* are the fewest of which two can coordinate at a time and most never do; the run has
  two reads, which take one phase, and the theorem `CollectorsNeverBlock` both phases. That
  sequential clients are served, that coordinators do not block one another, and that answers find their
  requests, is proved for any number of servers and any script.

`CHECK_DEADLOCK FALSE` is set where the system really stops: `run` returns,
`join` returns, all actors end or wait, a panic ends the interactive fiber, the number of
calls or deadlines is bounded. In `Actors`, which can be reset at any time, deadlock is checked.

### Fairness

Only `UdpRuntime` has liveness. `FairSpec` assumes weak fairness of every behavior thread
and every I/O task (the operating system and tokio schedule them, and each has at most
one step to take), of the passing of time, and of `join`. Nothing is assumed of
the socket: `ReceiveFails` is outside of the fair actions, loss is a choice within one. That
a datagram under way is received at last is part of the fairness of the task that awaits it.
`JoinReturns` has as its premise that no actor waits for ever for a message (the code's own
FIXME, `udp.rs:43`), or for the answer to a `Send` (see `UdpSend`).

### Disagreements between code and documents

- `FourSenders`: with four clients racing for one server, `run` answers Complete after 22
  of 24 orders. `pick_next_representative_prefix` follows one reversal of a trace, and the
  ones it leaves are found again only if a later trace still shows them. The promise is
  at `verifier.rs:171-173`. `CompleteCoversEverySchedule` holds with two clients (`Audit`).
  `Configurations` has four more instances of the kind, to be given to
  `MCAudit` as `Program`: `TwoRecipients` (N = 4; the receive that blocks a reversal at
  line 395 may be another actor's), `TwoRaces` (N = 4; the tree of one actor does not tell
  the outcomes of the other's race apart), `DeadlineBetweenReceives` (N = 3; a reversal
  loses the other answer of a deadline before it) and `FirstOfTwo` (N = 3; a message that is
  never received races with nothing; here it is `CompleteMeansVerified` that is violated).
- `PanicAtOnce`: the last step of a prefix is the reversed receive, which may fail an
  assertion at once. It is outside of `catch_unwind`, so `run` unwinds and reports no
  minimal trace; the comment at `verifier.rs:504` says that a prefix is known not to panic. Of all
  other steps of a prefix the comment is right, and in the last one it is only the behavior that
  panics, never an assertion of `step`: `OnlyTheLastStepUnwinds`, which is proved.
- `DeadlinesBesideRace` of `Configurations` (N = 3, to be given to `MCVerifier` as `Program` with a limit of 30
  traces) violates `NeverExploredTwice`. A query that was answered *not elapsed* is answered *elapsed* in a prefix of
  its own, without a look at the trees (`verifier.rs:326-336`). The reversal of a race carries the
  query of one actor past the query of another and keeps its answer, so the other answer is tried once
  more: the sixth trace has the outcomes of the second. The comment at `verifier.rs:568-569` says that
  the prefix is "guaranteed to be disjoint from the previously visited equivalence classes". Nothing is
  missed by it, but the limit is spent faster than classes are found.
- `QueuedOffers`: interactive mode lists messages that are queued behind others as
  enabled; taking such a step panics. The scripts of `Interactive` never have two
  messages of one sender queued.
- `UdpSend`: a datagram that cannot be written is "ignored", and so is the behavior that
  waits for `SendOk`.
- `WriteTwice`: the responses of the replicated register name no operation, and
  `recv_responses` and `recv_response_count` take what is in the inbox. A server whose first
  write is complete with two of three answers has the third still coming; in its next
  operation the left-over `InternalGetOk` and `InternalPutOk` are counted as answers to the
  new questions, and the second write is acknowledged before a quorum has stored it. A client
  that writes 1, then 2, each time waiting for the answer, may then read 1 at another server.
  `kv.rs:1-2` promises a linearizable register; its test `is_linearizable` has two writes at one
  server but never reads. A read leaves answers behind as well: `ReadTwice` of `MCSharedMemory` (to be given to it
  as `Configuration`) reads at one server, writes at another, and then reads the
  old value at the first. The run `SharedMemory` shows the property to hold where a server
  coordinates one operation, or a write and then a read.
- `TwoServers` of `MCSharedMemory` (to be given to it as `Configuration`) violates
  `SequentialClientIsServed`: `abd_phase1` and `abd_phase2` send their question to all servers, the sender included, and
  then take responses only, so the server drops its own question unanswered, and the
  `len / 2 + 1` responses (`kv.rs:85`, `kv.rs:93`) all come from others. Of two servers, which are a quorum
  and both available, none ever answers a read; with 3 of 5 servers available, the example of `kv.rs:1-2`, a
  server hears of two and waits for a third. With a quorum of others every sequential client is
  served, which is proved (`SequentialClientsAreServed`).

## What is proved

For any number of actors, messages, durations, and any behaviors (`Program` and `Behave`
are arbitrary), from `NAssumption` (`N \in Nat \ {0}`), `DurationAssumption`
(`Duration \subseteq Nat`) and, in `Verifier`, `MaxTraceCountAssumption`
(`MaxTraceCount \in Nat \ {0}`; it is 1024 * 1024), and in `SharedMemory`
`ConfigurationAssumption` (there is a server, and the script invokes operations at servers and waits
for answers) and `ThreadIdAssumption` (`ThreadId \subseteq Nat \ {0}`, the indices of slots), and in
`ConsistencyAudit` `ThreadsAssumption` (`ThreadId` is finite) and `CallsAssumption` (what is invoked is an
operation of a `Register` or `Vec`, and what is returned is one of their answers):

- `ActorSystemProofs!ActorsAreWellTyped`: `ActorSpec => []ActorTypeOK`. The invariant is
  inductive. The proof goes along `step`: an offered event is well typed
  (`OffersAreTyped`), delivering it takes at most one message out of a queue
  (`PopInboxTypes`), and every command leaves the actor typed (`PerformTypes`).
- `ActorSystemProofs!ClocksAreCausal`: `ActorSpec => []CausalClocks`. `CausalClocks` speaks
  of recorded steps and is not inductive. `CausalInv` adds `SoundClocks`: every clock
  there is, of an actor, a record or a queued message, counts no more steps of an actor
  than that actor's own clock (`Known`) and is at least the clock of every recorded step
  it counts (`Closed`), and no recorded step counts one that was recorded later
  (`Fresh`). A step merges two such clocks and counts itself; `TickIsSound` and
  `StepIsSound` show that this preserves all three, `SoundIsCausal` that the property
  follows.
- `ActorSystemProofs!MessagesStayConserved`: `ActorSpec => []MessagesAreConserved`. The invariant
  `Conserved` says it of messages together with their clocks: what the records of the sender
  sent, each with the clock of its record, is what the records of the receiver received, each with
  its `event_clock`, followed by the queue. Both are subsequences of the trace, which grows at its end.
- `ActorSystemProofs!ClocksOrderCauses`: `ActorSpec => []ClockOrderIsHappensBefore`. `LinkedClocks`
  says that a clock counts the steps of another actor because of a chain: each record counts what the
  previous record of its actor did, and what the record of the matching send did, and no more.
  `Conserved` makes the n-th receive the match of the n-th send. That clock order
  contains happens-before is `CausalInv`; the converse goes by induction over the trace.
- `ActorSystemProofs` also makes a trace a *run*, which the theorems about the search and about locations
  need. An actor is a machine of its own: what it is after a step depends on what it was (`Local`),
  the event and the clock that came with it. A trace is a run (`Runs`) if each of its steps was offered by
  its actor in the state where the actor's earlier steps had left it, every message received being the
  next one sent; a step of a run is offered again, and does the same again, once the steps before it of
  its actor and the send it waits for were taken again (`StepIsServed`, `StepAgain`). `ActorInv` is the
  invariant of this: `OfferInv`, `CausalInv`, `LinkedClocks`, `Conserved`, `ShapedClocks` (clocks have the
  length of the actors) and `RunInv` (the trace is a run).
- `DataTypeProofs!TypeCorrect`, `VerifierAnticipatesAnswers`, `ElapsedStaysElapsed`:
  the three properties of `DeadlineAudit`. The inductive invariant `IInv` says
  that what the runtime swept is past, that what the verifier dropped is past, and
  that pending deadlines were created in the order of their numbers. The last is why
  `deadline_elapsed` is right to drop an earlier deadline of no longer duration: it was
  due no later (`CompletedAreDueEarlier`).
- `DataTypeProofs!AnswersReachEveryPeer` and `TransferKeepsExactlyWhatFits`, from `RadixAssumption`
  (`Radix \in Nat \ {0}`; it is 256): a number is the pair of what remains of it and its last
  byte, and of nothing else. An address comes back from its identifier byte by byte; an
  identifier comes back with its six last bytes, so exactly if nothing is above them.
- `DataTypeProofs!ComparisonIsPointwise` and `ComparisonsAgree`, from `MaxIndexAssumption`
  (`MaxIndex \in Nat`): `ClockSpec => []OrderIsPointwise` and `ClockSpec => []EqOrdAndHashAgree`. The loop of
  `partial_cmp` is a function defined by recursion: `PartialCmpIsDefined` says that it exists, and after `i`
  elements it has the pointwise order of the first `i` (`OneMoreElement`). `ShadowInv` says that a clock and the plain
  vector beside it stay equal. Equal clocks of different lengths hash alike because
  `hash` leaves the zeros at the end out (`HashKeyIsCut`).
- `DataTypeProofs!TreesImplementHistories` and `LookupsAreRight`, from `SpawnAssumption`
  (`Spawn \notin Event`) and `MaxDepthAssumption`: `TreeSpec => ImplementsHistories` and
  `TreeSpec => []LookupsFindTheHistories`. `TreeInv` says that the nodes are a tree, allocated parents
  first, of which siblings differ in their events and only the root has `Spawn` (`IsTree`), and that the
  cursor is in it. Siblings that differ make the search by first match complete: no two nodes
  stand for one history (`FiledApart`), so going down from the root ends at the node of the prefix, or the prefix
  was never visited (`ReachedFinds`). A new node leaves the histories of the others alone (`GrownFiles`).
- `DataTypeProofs!LinearizabilityIsDecidedAlways` and `SequentialConsistencyIsDecidedAlways`: `HistorySpec =>
  []LinearizabilityIsDecided` and the same of sequential consistency, for any threads, any history and any number of
  operations in flight. Two arguments meet in them.
  - *What the testers keep* is the invariant `HistoryInv` (`HistoryInvHolds`): a tester is valid exactly as long as
    the history is well-formed, and then there are the positions of each thread's invocations (`name`) and
    returns (`back`) such that both testers hold those operations with those answers (`Kept`). Of the linearizability tester it
    says also that the index kept of another thread is that of its last operation which returned before the
    invocation (`Remembered`), so the indices amount to real time.
  - *What the search finds* is stated of an abstract history `H`: operations by thread, answered or not, and the
    pairs that must keep their order. A call of `serialize` is good if it reflects what was taken of `H`
    in some legal order; the calls of a search (`IsSearch`) are those made by good calls, one for each
    operation that can be taken. The search is sound because each call takes one operation more in a legal order; it is
    complete because along any legal order of `H` there is a call for each beginning of it, by
    induction over its length, and no more calls can be nested than there are operations (`Depth`).
    The search of either tester is one of `H` with real time or program order.
- `DataLemmas!LeqIsPointwise` and the lemmas about `At` of every clock operation:
  comparing up to the longer length compares all elements, for all shapes.
- `VerifierProofs`, for any configuration and any `MaxTraceCount`:
  - `TracesAreSchedules`: `Spec => EveryTraceIsASchedule`, so `Verifier` implements `ActorSystem`. The hard
    part is the replay of a prefix that was never executed in this form. A set of steps that is closed
    under causes (`Kept`) can be run without the others, because clocks tell causes (`LinkedClocks`)
    and the queues hold what was sent and not yet received (`Conserved`). `ReplayInv` says that a prefix
    under way is what is left of such a plan: a run, the steps of it already taken, those still
    to take, and the reversed step at the end. `SearchInv` is `ActorInv` with `ReplayInv`.
  - `ReplayedStepsDoNotUnwind`: `Spec => []OnlyTheLastStepUnwinds`, from `SearchInv`.
  - `SearchIsWellTyped`, `TreesKnowTheTrace`: `Spec => []TypeOK` and `Spec => []TreesHoldTheTrace`. The
    local history that is cut out of the trace up to a record is the one that its actor had, so it is in the tree.
  - `ClassesAreExploredOnce`: `Spec /\ NeverQueried => []NeverExploredTwice`. `NeverQueried` says that no
    behavior asks whether a deadline has elapsed, as in the tests echo, calc, registry and kv; without it the theorem
    is false (`DeadlinesBesideRace`). `FreshInv`: the trees
    hold every maximal trace; the next prefix leads its last actor to a history that its tree lacks, so that no
    maximal trace went through it (`EndsUnseen`); and from the end of the replay on, the
    trace goes beyond it, so the next maximal trace is none of them.
  - `TheBoundIsSpent`: `Spec /\ NeverQueried => []IncompleteAtTheLimit`. `CountInv`: as many traces
    were started as there are classes, and one more within a trace.
  - `MinimalTracesReproduce`: `AuditSpec => []MinimalTraceReproduces`. The records below the clock of
    the last are closed under causes, so they are a run by the argument above. `AuditInv`
    follows the panicking step from the search (`Caught`) through the report
    (`Reproducible`) into its replay by new actors (`Reproducing`).
- `InteractiveProofs!LocationsLeadBack`: `Spec => LocationLeadsBack`. The invariant `FiberInv` says, until a
  panic ends the fiber: `ActorInv`; the kept location is all of a run, at whose end the actors were as they
  were kept (`Booked`); and what is left of a location under way is the rest of such a run, the beginning of which
  was taken again (`BackAt`). The last needs that an operator's step is one of the schedule or
  unwinds (`HandledStep`), though it may name a message in the middle of a queue. At the end
  each actor has the local state of the end of the run, and those determine the queues as well, which hold
  what was sent and not received (`RestoresOne`).
- `UdpRuntimeProofs`, for any `Capacity` above zero, any `Faults` and any `Copies`:
  - `RuntimeIsWellTyped` and `ThreadsTakeTurns`: `Spec => []TypeOK` and `Spec => []TakeTurns`.
    Neither is inductive: that a channel holds one entry at most depends on where the other
    side is. The invariant `TurnInv` adds `Turn`: the next move of an actor is in exactly
    one place (an event under way, the behavior about to step, a command under way, the task at
    work, or nowhere once a side has ended), and `NothingIsMadeUp`: a message in a datagram
    or an event was sent by its source.
  - `UdpImplementsRuntime`: `Spec => ImplementsRuntime`. The same invariant; the only step
    that changes `behavior` is `BehaviorSteps`, and `Turn` says that the event it
    takes answers the command the task took last.
  - `JoinTellsOfPanics`: `Spec => []PanicsArePropagated`. `JoinInv` says how far `join` has
    come by the tasks and threads it has waited for.
- `ActorSystemProofs!ActorsImplementRuntime`: `ActorSpec => ImplementsRuntime`. The invariant
  `OfferInv` says of an actor that is not unwound that all its iterator offers
  answers its last command (`Offers`), that its `TimeContext` knows the deadlines the
  behavior was given and has dropped those it was told of (`Knows`), and that every queued
  message was sent in this trace (`QueuedWereSent`).
- `SharedMemoryProofs`, for any number of servers, replicated or not, and any script:
  - `MemoryIsWellTyped`: `Spec => []TypeOK`.
  - `AnswersFindTheirRequests`: `Spec => []RequestsAreMatched`. The invariant `Inv` has three parts, and
    needs all of them: `Typed`; `ClientOK` (the slots in use hold different identifiers, all of them
    given out already, and are the threads the tester takes to be in flight); and `Matched` (every request
    has a slot, of an operation of its kind, and no two requests share an identifier). A step of a server does one of four
    things (`ServeSteps`): it keeps what it is about or drops a message, takes up a request,
    answers it, or answers at once. The requests of a server lie on a line: queued at 1, 2, ..., the
    one being served at 0, its answers that the client has not received before that. Each of the four moves every request to a
    place that no other moves to (`StepMoves`), so `Matched` is kept (`MovesKeepMatched`). `invoke` gives a new request a free slot
    (`InvokeGivesASlot`), `await_response` clears the slot of the answered one only
    (`AwaitClearsTheSlot`).
  - `SequentialClientsAreServed`: `Spec /\ OthersAreAQuorum => []SequentialClientIsServed`. The premise says that a quorum is
    left without the server that asks (three servers or more, if they replicate); without it the theorem is false (`TwoServers`). The invariant
    `ServedInv` says of a client that makes one call at a time, until something has panicked: its one request is
    at one server, queued, being served or answered, and no other server has any (`OneAtATime`); and whoever waits will
    hear of every other server: it has heard of it, or its question is still queued there, or the response is
    on its way (`AllWillRespond`). Dropped messages do no harm to this: the one server that waits drops
    questions of others, but those wait for nothing any more, and no server drops a response of the kind it
    waits for (`Pursues`). When all queues are empty, it has heard of all others.
  - `CollectorsNeverBlock`: `Spec => []CollectorsDoNotBlock`. Two servers that collect answers at the same time drop
    one another's questions; with three servers both may wait for ever, which the test
    `does_not_guarantee_client_response` of `kv.rs` expects. The theorem says that no
    server does as long as most servers are never asked by the client. `BlockInv` says that only
    servers that are asked have a request or are busy, and that whoever is busy will hear of all
    those that are not. It is a server that is busy whose request may be dropped, so it is
    said of servers and not of the client. Both this and `SequentialClientsAreServed` rest on
    `ServeKeepsHearing`: a server that is not busy answers what it is asked.
- `RuntimeProofs` holds what both refinements need of `Runtime`: what appending one event to
  one behavior changes about its last command, its deadlines, what it was told and what it
  has sent (`RemembersAfter`, `AnswerIsStep`).

`Increment`, `MergeIn`, `NewDeadline`, `Completed`, all of `step`, and all actions of the UDP
runtime occur in these proofs as the runs check them; no proof has a definition of its own for them.

Only model-checked, and why:

- `JoinReturns` is liveness.
- `AnswersAreLinearizable` is false in general (`WriteTwice`): it holds of the configurations of `SharedMemory`.
  `StaleReadIsDetected` is about one script; its other half, that what the tester rejects is not linearizable, is
  `LinearizabilityIsDecidedAlways`.
- `CompleteCoversEverySchedule` is false in general (`FourSenders`), and so is
  `CompleteMeansVerified` (`FirstOfTwo`): they hold of the configurations of `Audit`.
- `NeverExploredTwice` and `IncompleteAtTheLimit` where deadlines are queried are false in general too
  (`DeadlinesBesideRace`); the run `Verifier` has configurations of the tests that query them.
- `AgreesWithTests`, `ClocksPassTheTests` and `TestersPassTheTests` are about particular inputs.

## What is not modelled

- Text: `Display`, visitors that print, `FIBRIL_DEBUG`, serde (but for the address that stands
  for an identifier).
- The bytes of a datagram, its truncation at 256 bytes; IPv6 addresses, which are `unimplemented!`.
- The width of a clock's elements: `u32` counts the steps of an actor in one trace.
- The coroutine switch of `Fiber` (a generator crate).
- Actors spawned while others run, `port_fn`, errors while binding.
- A configuration whose actors never become quiescent: `run` does not return then, and
  nothing in the code bounds a trace.
- That a request identifier exhausts `usize`: it takes 2^64 / 100 operations of one client.
- The mains of the examples, which run fibers on sockets and standard input.

## Plan

Done, in this order: `VClock` and `ClockAlgebra`; `TimeContext` and `DeadlineAudit` with proofs;
`ActorSystem` with its type and causality theorems; `Verifier` and `VerifierAudit`;
`Interactive`; `UdpRuntime`; the testers; `Runtime` with both refinements and their proofs;
`ConsistencyClient` and `SharedMemory`; `TraceTree` and `VisitedHistories`; the tests of the
repository as expected traces; the theorems about `UdpRuntime`; `Ids` with its theorems; the causality and conservation
theorems of `ActorSystem`; the theorems about `Verifier` and the minimal trace; those about vector clocks and trace trees;
the one about the locations of interactive mode; those about the answers of `SharedMemory`; those about the two
consistency testers; that sequential clients of the register are served, and that its servers do not block one another. What is left to TLC, and why, is listed
under *What is proved*.

What could still be added:

1. Command::Panic under the two runtimes: the verifier ends the actor as if it exited, the
   UDP runtime panics. Both are modelled as they are; no document says which is meant.
2. Datagrams that are cut off at 256 bytes and still deserialize (`udp.rs:190`), once a message has
   a length.
3. The network of the verifier under the faults of the other: a configuration of which every
   trace passes may still fail on sockets, where messages are lost, copied and
   overtaken. `Runtime` allows all of it; a module between `Runtime` and
   `ActorSystem` would state the queues that the verifier keeps.
