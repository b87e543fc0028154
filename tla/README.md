# Motus, specified

Motus is a C++ messaging library: applications publish and consume byte
messages through one interface, `ITransport`, with interchangeable backends
below it and a poison-message policy above it. This directory holds a TLA+
model of the library, TLC configurations that check it on small instances,
and TLAPS proofs of what matters most.

## The system: an inventory

| Part | State | Operations | Talks to |
|---|---|---|---|
| Seam vocabulary (`ITransport.hpp`) | none | dispositions, topic options, forensic names, `routeMatches`, `checkTopicOptions` | everything |
| In-memory backend (`InMemoryTransport.cpp`) | process-wide `Broker`: topics, groups, sequence; per transport: subscription, outstanding, stats | ensureTopic, send, subscribe, pump, settle, purge, close | broker under one mutex; the handler runs outside it |
| AMQP-CPP backend (`AmqpCppTransport.cpp`) | connection, channel, what to restore, deferred tags, reconnect counters | connect, ensureTopic, topicDepth, purgeTopic, send, subscribe, pump, settle, close, reconnection | RabbitMQ through `AmqpConnection` |
| `AmqpConnection` | socket, `_ready`, `_closed` (latched), `_error`, read buffer | connect, pumpUntil, close, onData | TCP |
| SimpleAmqp backend | channel, what to restore, reconnect counters | as above, no deferral | RabbitMQ, blocking |
| `dispatch` (`Consumer.cpp`) | none | decide what happens to one body | the application's handler |
| `Consumer`, `SettlementQueue` | counters; pending settlements | start, poll; push from any thread | one transport |
| `Producer`, `MessagePublisher` | none beyond a transport | declareTopic, publish, flush | one transport |
| `ByteMessage` | one message | serialize, deserialize | - |
| Logger (`Logger.cpp`) | bounded queue, sink, drop counter | enqueue, flush, setSink, worker thread | any thread |
| Factory | none | backend by name | - |

What makes it hard:

* **Concurrency.** In-memory transports on different threads share the broker
  and interleave between its critical sections (`ensureTopic` and `close` take
  the lock more than once; handlers run outside it). Deferred work finishes on
  other threads and comes back through a queue. The logger has its own thread.
* **Failure.** A handler may throw; a connection may vanish at any moment and
  is discovered only by I/O; each attempt to restore it can fail in eight
  places; frames may be written into a dead socket.
* **Ordering and identity.** FIFO with returned messages; delivery tags that
  start again from 1 on every connection; a redelivered flag that is the whole
  retry state.
* **Declarations are conversations.** On AMQP a declaration is up to six
  requests, each sent when the one before it is answered. Several processes, on
  two backends, hold the same conversation about the same destination, and
  anything can stop between two requests.
* **Limits.** Bounded destinations with three overflow policies, a capped
  forensic destination, a log queue limited in lines and in bytes.

What makes each part correct: nothing is lost, duplicated or reordered by the
in-memory backend beyond what the seam allows; forensic destinations exist when
they are needed and keep the first failures; a retry happens once; a settlement
resolves the delivery it was made for; a lost connection is restored or its end
is reported; declarations from different processes agree, whatever is
interrupted, and what is sent to a declared topic arrives; the envelope gives
back what was put in and accepts no other version; the logger stays within its limits, accounts for each line, keeps
order and never strands a flush.

## Modules

| Module | Models |
|---|---|
| `Seam` | the vocabulary of `ITransport.hpp` that other modules share |
| `RouteMatch` | `routeMatches`, and a reference definition of it |
| `RouteMatch_proofs` | the theorems about it |
| `Envelope` | `ByteMessage::serialize` and `deserialize` |
| `ReconnectPolicy` | the backoff both AMQP backends compute |
| `MCSeam` | the enumeration of the inputs of these three, and what their results should be |
| `MCSeam_proofs` | the theorems about it |
| `InMemoryTransport` | `Broker` and `InMemoryTransport` |
| `DeliveryContract` | abstract: what the seam promises of one delivery |
| `InMemoryContract` | the refinement mapping from `InMemoryTransport` to `DeliveryContract` |
| `InMemoryTransport_proofs` | the theorems about both: types, forensic provisioning, order; conservation, the flag, the refinement; counters, forensic evidence, bounds, FIFO; one live copy |
| `MCInMemory` | instances of `InMemoryTransport` and `InMemoryContract` |
| `Consumer` | `dispatch` and the outcomes of handlers |
| `AmqpBroker` | external: the broker as one consuming process sees it |
| `AmqpBroker_proofs` | lemmas about the broker that both workers need |
| `AmqpCppTransport` | `AmqpCppTransport` and `AmqpConnection`, on `AmqpBroker` |
| `AmqpWorker` | composition: a `Consumer` with a `SettlementQueue` on an `AmqpCppTransport`, with properties |
| `AmqpWorker_proofs` | the theorems about it |
| `SimpleAmqpTransport` | `SimpleAmqpTransport`, on `AmqpBroker` |
| `SimpleAmqpWorker` | composition: a `Consumer` on a `SimpleAmqpTransport`, with properties |
| `SimpleAmqpWorker_proofs` | the theorems about it |
| `AmqpTopology` | composition: processes on both AMQP backends that declare, inspect, purge and send, and an external broker with exchanges and bindings |
| `AmqpTopology_proofs` | the theorems about it |
| `MCTopology`, `MCDepth` | instances of `AmqpTopology` |
| `AsyncLogSink` | the logger's hand-off |
| `AsyncLogSink_proofs` | the theorems about it |

Some definitions have a *variant* directly before them (marked as such): the
definition with a plausible mistake. They are used to see that a property
fails when the code is wrong, and by nothing else.

### InMemoryTransport

`topics`, `options`, `binding` and `groups` are the broker's two maps; `store`
bundles what changes together on every enqueue: the queues, `_sequence`, and
(history) what became of the messages that are gone. A destination name is a
sequence of words, a body is the sequence number of the publish that made it,
so that copies of one payload can be recognised.

An action is one critical section of the broker's mutex with the thread-local
steps around it. `ensureForensic`/`ensureSource` are the two locks of
`ensureTopic` for a topic that dead-letters, `ensurePlain` the other case;
`sendDirect` and `sendGrouped` are `send`; a grouped publish holds the mutex
while it loops, so `fanoutCopy` (one matching destination) and `fanoutDone`
exclude all other critical sections, through `fanout`. `take` is `pump` up to
the call of the handler, `handlerReturns`, `handlerDefers` and `handlerThrows`
how it ends. `close`, `returnOutstanding`, `finishClose` are `close()`, which
returns one outstanding delivery at a time. A handler may send and purge.

`handlerDefers` and `handlerThrows` differ only in the counter `abandoned`, as in
the code: `settle()` finds any outstanding delivery, also one nobody deferred,
although `ITransport.hpp:738` says it throws for those. That is what
`InMemorySettled.cfg` shows, and why `DeliveryContract` lets both end the same way.
`StatsBalance` shows that such a delivery is still resolved and counted once.

`declared`, `taken` and `uncounted` are history variables.

`DeliveryContract` has one variable, the `life` of each delivery: where it is
and whether it is flagged. A step of the backend may move several deliveries (a
purge, an eviction that dead-letters); each moves as the contract allows, and a
consumer holds one at a time. `LivesOf`, in `InMemoryContract`, is the refinement
mapping, for the messages numbered up to `MaxNumber`.

### AmqpCppTransport and AmqpWorker

The transport belongs to one thread; what interleaves is the broker, the
network, other workers and the pool that finishes deferred jobs. `socket`,
`ready` and `closed` are the state of `AmqpConnection`. `queue`, `unacked`,
`orphans`, `declaredAs`, `consuming` and `nextTag` are the broker (`AmqpBroker`), known only
through the protocol the code relies on: prefetch 1, tags counted per channel,
unacknowledged deliveries returned flagged to the head of the queue some time
after the connection is gone, a channel error for a conflicting declaration, a
missing queue or an unknown tag.

`pump` is `pumpBegins` (or `pumpOnDead`), any number of events while the slice
lasts (`deliver`, the end of a handler, `readEnds`, `readFails`,
`handshakeCompletes`), and `pumpEnds`. `Attempt` is one round of
`serviceReconnect`, with a `fault` for each place it can fail. A connection
attempt whose name does not resolve leaves a socket that was never opened: the
next read fails with an error `pumpOnce` does not expect, so `pump()` throws
(`readFails`) before the following one retries. `close` may be the first to find
the connection gone; the exception then leaves it half done (`closeThrows`), with
the subscription in place, and the next `pump()` reconnects if the policy says so.

`drain` is one round of the loop at the start of `poll()`: the entry is popped
first, and is gone when `settle()` throws. The loop has to be exhausted before
`pump()` is called (`Polls`); after an exception the caller calls `poll()` again,
and draining resumes.

`subscribe` whose answer comes too late leaves a consumer on the channel and
`_subscribed` false; the caller may call it again, and two consumers then
deliver on one channel (`consuming` is a sequence; `MaxConsumers`).

What is abstracted here: a declaration is one request (`AmqpTopology` takes it
apart), and deliveries that arrive while a request waits for its answer arrive
in the pump before it. `connect` is called when there is no channel. The branch
of `Consumer::start` that turns a requeue into a rejection on a backend that
cannot requeue is unreachable here.

### SimpleAmqpTransport and SimpleAmqpWorker

The same seam over a library whose calls are synchronous and throw. `link` is
the library's channel object: none, up, or down and not yet noticed. `pump` is
one action up to the call of the handler: `pumpNotReady`, `receiveFails`,
`pumpIdle` or `receive`; then `handlerReturns` or `handlerThrows`. An attempt to
reconnect is given by how far it came (`opened`, `alive`); where it ends decides
what is left behind, always with `_connected` false, so that the next `pump()`
tries again. That is the difference from the other backend, and
`RestoredOrReported`, which fails there, holds here.

### AmqpTopology

A call of `ensureTopic`, `topicDepth` or `purgeTopic` is a list of requests
(`declare`, `simpleEnsureTopic`, `TopicDepth`, `PurgeTopic`): the first is sent
at once, `performAwaited` sends the next when one is answered, `performLast`
ends the call and does what the code does after it (`_topic`, `_topicOptions`,
`_routes`; a `Producer` goes on to read the depth). A refused request ends the
call and, on AMQP-CPP, the channel. A request that timed out stays in flight and
is performed later (`performUnawaited`), like a message that was sent. Between
any two steps the connection, the process or the broker may go; the broker keeps
what is durable. `reconnect` declares again what was declared last.

`known`, `refusals` and `evaporated` are history variables: the durable topics
whose declaration returned to this process, what was refused, and messages that
were sent to a known topic without an override inside a group and did not reach
its queue. Queues are shared and not deleted when unused. `SimpleAmqpTransport`
has no passive declare: its `topicDepth` guesses what the queue was declared
with. `topology` lets it look only where the guess is meant to be right, at the
topic it declared last and at forensic queues (`InspectsGuessable`); the theorems
suppose it where they need it. Elsewhere it can create a queue that dead-letters
into nothing, or be refused, although the comment at `SimpleAmqpTransport.cpp:291`
says a depth read cannot conflict: `TopologyDepth.cfg` has a process that does that.

### RouteMatch, Envelope and ReconnectPolicy

`Matcher::at(i, j)` recurses over two indices; `matcherAt(p, k)[i]` is the set of
the `j` for which it returns true, so that the recursion is over one number.
`MatchedFrom` is its body.

A wire body is the presence of the magic and a sequence of characters: digits,
the separator and one other. The version is accumulated with the arithmetic of
an int (from `-IntLimit` to `IntLimit - 1`), whose guard leaves room for one more
digit as the code's does (`EnvelopeAssumption`); `readDigit` is one turn of that
loop. The backoff is a shift at the width of the count (`CountLimit`), capped
afterwards; `DelayFits` says where the shift is within the width, and
`BackoffDoubles` is about the delays for which it is.
For the default policy (250 ms, five attempts, 64 bits) that is all of them; from
attempt 57 on the delay would be negative, although `ITransport.hpp:551` says
without exception that it is doubled and capped (`BackoffOverflow.cfg`).

### AsyncLogSink

One action per critical section of `_queueMutex` or `_sinkMutex`. A thread
waiting on a condition variable continues only when notified: spurious wakeups
exist in C++, but a design that needs them is broken, and leaving them out
makes the liveness check sharper. `enqueueFails` is `push_back` throwing: the
byte counter has been raised then and stays raised, so that it covers the bytes
that wait without being equal to them (`BytesCovered`).

## Runs

Passing:

| Run | Instance | Shows |
|---|---|---|
| `seam_functions` | two literal words, up to 4 words each; bodies of up to 6 characters, a limit of 5; four delays, 10 attempts, 8 bits | the matcher equals the reference (`MatchesReference`), bodies of this version and no others are accepted (`AcceptsOwnVersionOnly`), payloads survive (`RoundTrips`), the backoff doubles up to its cap (`BackoffDoubles`) |
| `inmemory_core` | 2 threads, one topic declared in three ways (bounded with DropHead or RejectPublishDlx, unbounded without dead letters) and its forensic destination of length 1, 2 messages numbered by senders, 2 deliveries each | conservation (`AccountedFor`), the flag (`FlaggedIffTaken`), order (`FreshBehindReturned`), provisioning (`DeclaredIsProvisioned`), counters (`StatsBalance`), evidence (`ForensicEvidenceKept`), and that every message lives the life `DeliveryContract` allows (`KeepsContract`) |
| `inmemory_groups` | 1 thread, two destinations, one group of each routing kind, bounded and unbounded | conservation for copies (`AccountedFor`, `OneLiveCopy`), `SingleConsumerFifo`, and that a full destination applies its policy to whatever is published to it (`OverflowEnforced`) |
| `amqp_worker` | 1 topic declared in 2 ways, 2 messages (one malformed), 3 deliveries, 1 loss or close, 1 reconnection attempt in a row, all nine faults, up to 2 consumers | deferred tags are known to the broker and owned by somebody (`DeferredIsUnacked`, `DeferredIsOwned`), one retry (`RetriedOnce`), counters (`CountersAgree`, `CountedIfResolved`), no early report of death (`NotDeadWhileTrying`) |
| `simple_worker` | 2 topics declared in 2 ways, 2 messages (one malformed), 2 deliveries, 1 loss or close, 2 attempts in a row | what is acknowledged was finished (`AckedWasFinished`), `RetriedOnce`, `CountersAgree`, `NotDeadWhileTrying`, and, under fairness, `RestoredOrReported` |
| `topology` | a process on each AMQP backend, a plain topic with two candidate declarations and one in a routing group, 1 message, 1 fault | `ForensicsFirst`, `DeclaredTwiceAgrees`, `NothingEvaporates` |
| `async_log` | 2 threads, 4 lines of lengths 0, 1, 3, limits 2 lines and 3 bytes, one new sink | `WithinLimits`, `AllLinesCounted`, `SinkInOrder`, `NewLinesToNewSink`, `FlushWaitsForAll`, and `FlushReturns` under fairness |

Runs in which TLC finds a violation, each of a sentence in the repository:

| Run | Sentence | What happens |
|---|---|---|
| `inmemory_lost` | "The destination is provisioned alongside the source" (`InMemoryTransport.cpp:164`) | `send` creates an undeclared topic without a forensic destination; a rejection there throws and the message is gone |
| `inmemory_overfull` | "Maximum messages this destination retains" (`ITransport.hpp:303`) | a requeue does not look at the bound: what was taken comes back to a destination that has been filled again |
| `amqp_stale` | old tags "are never acknowledged" (`ITransport.hpp:537`) | a settlement from before a reconnection resolves the delivery that now has its tag |
| `amqp_wrong_topic` | "Restore exactly what was established before" (`AmqpCppTransport.cpp:150`) | after declaring another topic, reconnection consumes that one |
| `amqp_restored` | true "while it is still trying", false "once attempts are exhausted" (`ITransport.hpp:757`) | a request that times out during reconnection leaves an open connection without a consumer; nothing retries and `pump()` returns true |

Four smaller disagreements have a configuration each, with which TLC finds the
violation in seconds, and are not among the runs:

| Configuration | Module | Property | Sentence | What happens |
|---|---|---|---|---|
| `InMemoryRedeclared.cfg` | `MCInMemory` | `DeclarationsAgree` | "verify that an existing declaration agrees" (`InMemoryTransport.cpp:39`) | group and route are not compared |
| `InMemorySettled.cfg` | `MCInMemory` | `AbandonedIsNotSettled` | `settle` throws for what was "never deferred in the first place" (`ITransport.hpp:738`) | a delivery whose handler threw is settled |
| `BackoffOverflow.cfg` | `MCSeam` | `BackoffAlwaysDoubles` | "doubled per attempt, capped at maxDelay" (`ITransport.hpp:551`) | the cap comes after the shift, which has left the width of the count |
| `TopologyDepth.cfg` | `MCDepth` | `DepthNeverConflicts` | "a depth read cannot ... conflict with the queue it is inspecting" (`SimpleAmqpTransport.cpp:292`) | a topic declared with a bound, and no longer the last one declared, is declared again with the defaults |

### Bounds, and why they are enough

Every bound is a CONSTANT named in the module that has it. Bounded queues have
length 1 and the forensic cap is 1, so that every overflow policy acts after two
messages; a dead letter gets a number of its own, so two messages reach a full
forensic destination and are refused there. The groups run sends three. Two
transports are needed for two threads to interleave between locks and to compete
for a topic; two deliveries each for a return and a second attempt. `MaxNumber`
exceeds every number the bounded sender can cause. Both passing in-memory runs
take states that differ only in the counter `abandoned` for one (VIEW): no guard
reads it, and of their properties only `TypeOK` mentions it, as a number. In the
AMQP runs one loss is enough for every property about a connection and its
successor, and a third
delivery is what a stale settlement needs; a failed attempt exhausts
`maxAttempts = 1`, and a success resets it. `amqp_restored` has two attempts, so
that one is left when nothing retries, and so has the blocking backend. In
the topology run one process of each backend makes every pair of declarers that
can disagree on arguments, one message is enough for a route to be stale, and
one fault stops a declaration anywhere. (With two faults, 6.8 million states of
a larger search showed no violation; it was not finished.) In the envelope the guard
and the width are scaled down together, so that fields of four digits pass the
guard and would wrap without it. In the log runs the sizes reach each limit from
below, exactly and from above.

### Fairness

* `AsyncLogSink!Spec`: the worker and each thread inside a call are weakly fair.
  They are preemptively scheduled threads, and the mutexes are held for bounded
  work. A sink is assumed to return or throw. No fairness on calling anything.
* `AmqpWorker!FairSpec`: `poll()` is called again and again, handlers return,
  time passes. No fairness on the broker or the network.
* `SimpleAmqpWorker!Spec`: the same, as weak fairness of `Pump`, `Dispatch` and
  `delayElapses`. An attempt to reconnect is one step: it returns. A receive may
  time out on a connection that is gone (`pumpIdle`), but not for ever: weak
  fairness of `receiveFails`. The backend asks for no heartbeat, so that a peer
  that vanishes without a word is noticed as late as the operating system tells.
* The other specifications are safety only.

Deadlock is checked in all runs but `seam_functions`, which stops when its inputs
are enumerated.

## Proofs

The runs check small instances; the theorems hold for every value of the
constants that satisfies the ASSUMEs: any number of threads, processes, topics,
declarations, messages, losses and faults. The bounds of the models (`MaxSends`,
`MaxLines`, ...) are arbitrary natural numbers in them. The theorems are
listed in `PROJECT.json`; all but two, which are about the route matcher alone,
state a property some run checks, and every invariant and action property of a
passing run is stated by one. A theorem of
the form `Spec => []P` rests on an inductive invariant, given here with the
reason it is needed.

**The in-memory backend.** Assumed: finitely many transports, which are no
places of the delivery contract; an order on the names; a caller that declares a
forensic destination itself asks for none behind it.

* `TypeCorrect` (`TypeOK`) is inductive. `ForensicsProvisioned`
  (`DeclaredIsProvisioned`) is not: a thread between the two locks of
  `ensureTopic` has provisioned a destination nobody has declared yet, and a
  destination that does not exist has the options it will be created with.
  `ProvisioningInv` adds both. The core is `ProvisionedStable`: no declaration
  changes the properties of an existing destination.
* `ReturnedPrecedesFresh` (`FreshBehindReturned`): a publish appends a number,
  which must be larger than every number around, and `take` needs to know that a
  transport without a subscription holds nothing. `OrderInv` adds both.
* `EveryMessageAccountedFor` (`AccountedFor`) and `FlagMeansTaken`
  (`FlaggedIffTaken`) follow from `BooksInv`. `AccountedFor` alone does not
  survive a step: taking a message would not remove it from its queue if the
  queue held it twice. `Sound` says that every number given out is the number of
  one message at one position of one place; `Moved` relates the books before and
  after one operation of the broker. Each action is then shown to be one of four
  kinds (`BookStep`): it leaves alone what the transports hold, hands a message
  to one, ends a message, or returns it.
* `KeepsDeliveryContract` (`KeepsContract`): the initial state maps to the
  contract's, and each of the four kinds of step to a step of the contract or to
  a stutter, because `BooksInv` determines the place of every number.
* `CountersBalance` (`StatsBalance`): a transport holds at most one message, so
  one settlement moves one unit between two counters.
* `EvidenceIsKept` (`ForensicEvidenceKept`), an action property: `QueueStep`
  refines `BookStep` by what happens to each queue; `Admitted`, what `enqueue`
  may do to a queue, removes nothing from one that rejects what it has no room
  for, and the forensic destination is one.
* `LimitIsEnforced` (`OverflowEnforced`), an action property from the same
  description of the steps: `Enforced` is what a full queue may become, and
  whatever `Admitted` allows is one of those. The bound itself is not an
  invariant, since a requeue ignores it (`inmemory_overfull`).
* `OneConsumerFifo` (`SingleConsumerFifo`): `FifoInv` says of every
  destination that its queue, with the message in hand in front of it, is sorted
  by number, so that what is returned to the front belongs there.
* `OneCopyLives` (`OneLiveCopy`). Supposed: `ForensicsApart`, that is, callers keep
  forensic destinations out of their groups; otherwise one grouped publish reaches a
  source and the destination behind it, by design. `MCInMemory` evaluates it for
  every run. `deadLetterTopic` can be applied again to a forensic name that a
  caller declares, so a payload moves along chains of any length; `Kin` relates
  the names of one chain, without recursion: no set of names closed under the
  moves tells them apart. The property of one pair of names is not inductive.
  `CopyInv` says that along a whole chain no two live messages share a payload,
  that no payload is newer than the last number, and that a grouped publish that
  still holds the mutex has its payload nowhere on the chains it has yet to
  reach, which are pairwise different. The latter needs `GroupsInv`: no
  caller's group has a forensic member, and the members of the library's group
  are bound under the names of their sources, so that one route reaches one.
  Every step but a publish replaces a live message by at most one with the same
  payload on the same chain (`ChainStep`).

**The workers.** Assumed: `NoTopic` and `NoOptions` are no topic and no options,
and the bounds are natural numbers (`maxAttempts` may be 0). Nothing is assumed
of the network or of when a connection is lost.

* `WorkerTypeCorrect`, `SimpleWorkerTypeCorrect` (`TypeOK`).
* `WorkerRetriedOnce`, `SimpleRetriedOnce` (`RetriedOnce`). `dispatch` keeps no
  count; the bound rests on the flag. `Untried`, in `AmqpBroker_proofs`, says that
  a message waiting without the flag waits once, is not in the handler's hands,
  and has not been retried, and that one in the handler's hands without the flag
  has not been retried either. Whatever returns a message to a queue, a requeue
  or a lost connection, sets the flag.
* `DeferredTagsAreKnown` (`DeferredIsUnacked`): a tag means something on one
  channel only. `TagsInv` adds that the broker waits for nothing but on a
  channel that works, that without a channel nothing is held deferred, and that
  the delivery in a handler's hands is not held deferred yet.
  `DeferredTagsAreOwned` (`DeferredIsOwned`) needs `TagsInv` for the settlement
  that is dropped because its tag is no longer held.
* `WorkerCountersAgree`, `SimpleCountersAgree` (`CountersAgree`),
  `ResolvedIsCounted` (`CountedIfResolved`, by cardinality: one frame resolves at
  most one message), `SimpleAckedWasFinished` (`AckedWasFinished`).
* `WorkerNotDeadWhileTrying`, `SimpleNotDeadWhileTrying`: the action property
  `NotDeadWhileTrying`.

**Declarations on AMQP.** Assumed: topics have names other than the empty one,
queues are shared and not deleted when unused. Not assumed: any bound on faults.
What applications must see to is the hypothesis of the theorem that needs it, and
`MCTopology` evaluates it for the run. All but `TopologyTypeCorrect` suppose
`InspectsGuessable`: a process on SimpleAmqp inspects only forensic queues besides
what it declares.

* `ForensicsComeFirst` (`ForensicsFirst`). The property is about the broker; what
  keeps it true is the order of requests in flight and planned. `OrderInv` says
  that a request for a queue that dead-letters is in flight only when the
  exchange, the forensic queue and the binding are at the broker (`Careful`), and
  places every declaration in one of four stages (`Chain`): waiting for the
  exchange, the forensic queue, or the binding, with the rest planned in
  order; or past them. Other processes only add to the broker (`Grown`), and what
  a restart removes is never durable forensics. The run has declarations that
  agree; the theorem shows that forensics do not depend on it.
* `TopologyTypeCorrect` (`TypeOK`), with `TypeInv` for the shapes of requests,
  calls and plans. That no queue holds more messages than were sent needs
  `CountInv`: what waits and the publishes in flight together. A step maps the
  publishes in flight injectively into those before it.
* `WhatIsSentArrives` (`NothingEvaporates`). Supposed: `DurabilityAgrees`, that is,
  a topic that allows asymmetric declarations is declared durable by all or by
  none; for the others `checkTopicOptions` sees to it. Otherwise a restart takes
  the queue from under a process that declared it durable. `TopologyInv` follows
  a declaration from its planned requests to what the process remembers:
  a binding is asked for when its queue and exchange are there, a route is
  recorded when its binding is, and what is known, recorded or bound for a
  topic that is durable everywhere is durable at the broker (`BrokerSound`,
  `DriverSound`, `MemorySound`). It needs no hypothesis; `LossSound` says whose
  messages may be lost. That a topic in a pattern group receives what is sent
  with its own key is `RouteMatchesItself`.
* `DeclarationsNeverClash` (`DeclaredTwiceAgrees`). Supposed: `DeclarationsAgree`,
  that is, the same for all properties of a topic that allows asymmetry,
  groups with one kind of routing and durability, and nobody declaring the
  library's own names differently. From `TopologyInv` every queue and exchange
  at the broker has the arguments of an accepted declaration, and so has every
  request; the hypothesis makes them equal.

**The logger.** Assumed: at least one line fits; lengths are natural numbers.

* `LoggerTypeCorrect` (`TypeOK`) and `LoggerWithinLimits` (`WithinLimits`):
  `QueueInv`. The unsigned byte counter does not wrap because it covers the lines
  that wait, which is stated by a function that gives what remains from each
  line on, and not by a recursive sum.
* `LinesReachSinkInOrder` (`SinkInOrder`) and `FlushIsComplete` (the action
  property `FlushWaitsForAll`): `NumberInv` says that what was handed over, what
  the worker holds and what waits are, in this order, the lines accepted, without
  a gap. An empty queue with nothing in flight then means that all are handed
  over.
* `NoLineUncounted` (`AllLinesCounted`) and `TakenLinesToNewSink`
  (`NewLinesToNewSink`).

**The functions of the seam.** Assumed: the guard of the version leaves room for
one more digit within an int (`EnvelopeAssumption`), as 100000 does in 32 bits;
bodies consist of `Characters`. Lengths, delays, attempts and both widths are
arbitrary. The theorems are about `MCSeam`, whose constants then bound nothing
that matters: its invariant `Inputs` only says that an input is one.

The library's induction theorems take an operator the provers cannot instantiate.
What is needed instead is a set: `LeastElement` (a non-empty set of natural
numbers has a least element, from the well-foundedness of `<`), and with it
induction over a number, applied to the set of the numbers that satisfy a
condition (`UpTo`). That a recursive function has the value its definition says
rests on the existence of such a function: `Iterates` gives one for any loop whose
turns map a set into itself.

* `MatcherIsReference`, and `RoutesMatchByCutting` (`MatchesReference`): by
  induction over the words of the binding from its end, the rest of the route
  matches from `j` on if and only if it can be cut from there. "#" tries all
  continuations, and a cut says which one. `RouteMatchesItself` follows: the cut
  that gives each word one word.
* `OnlyOwnVersionAccepted` (`AcceptsOwnVersionOnly`): as long as the loop has not
  refused, the version equals the number the digits denote, because the guard
  keeps each turn from wrapping; what the guard refuses is larger than this
  build's version, and more digits do not make it smaller.
* `PayloadsComeBack` (`RoundTrips`): the first separator is the one `serialize`
  wrote. `BackoffDoublesToCap` (`BackoffDoubles`), where the shift fits.

**Only model-checked.** `FlushReturns` and `RestoredOrReported`: liveness under
fairness, which the prover does not do. The runs that find a violation are
checked by TLC only, by their nature.

## Not modelled

* Log formatting, `hexDump`, the level filter, the factory and the build: no
  state a property could be about. `forensicPressure` is one expression.
* `AmqpConnection`'s buffering of partial frames and its `_error`.
* `Producer`'s constructor checks and its counter; `publish` is `serialize` and
  `send`, which are modelled.
* Exclusive and auto-deleted queues; transient messages; publisher confirms,
  which no AMQP backend has.
* A `SimpleAmqpTransport` whose handshake hangs (`SimpleAmqpTransport.cpp:65`
  documents it): such a call makes no step. The value `purgeTopic` returns.
* `settle()` from inside a handler and `flush()` from inside a sink are uses the
  models do not make.

## Plan

1. *Done*: `Seam`, `RouteMatch`, `InMemoryTransport` with its contract,
   `Consumer`, `AmqpCppTransport`, `AmqpWorker`, `AsyncLogSink`; three theorems.
2. *Done*: the requests of the AMQP declarations and `send` with its recorded
   routes (`AmqpTopology`); a second subscription after a late answer;
   `SimpleAmqpTransport`; the capability check of declarations; the envelope and
   the backoff.
3. *Done*: the theorems above, for every component that keeps state: types,
   conservation, the refinement of `DeliveryContract`, order, limits and
   counters, the retry bound, tags, forensics first, the log queue.
4. *Done*: what applications must agree on, and with it that declarations
   never clash and nothing that is sent evaporates; one live copy along a chain of
   forensic destinations; the route matcher, the envelope and the backoff
   for every input.
