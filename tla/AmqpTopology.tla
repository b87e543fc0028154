---------------------------- MODULE AmqpTopology ----------------------------
(***************************************************************************)
(* Several processes declare the same destinations on one broker, in any   *)
(* order, through Producer and Consumer over either AMQP backend, and send *)
(* to them.                                                                *)
(*                                                                         *)
(* A declaration is not atomic: it is a sequence of requests, each sent    *)
(* when the one before it is answered.  A request can be refused, which    *)
(* ends the call; AMQP-CPP's can also time out, which ends the call and    *)
(* leaves the request in flight; the connection, the process or the broker *)
(* can go between any two of them.                                         *)
(*                                                                         *)
(* The broker (exchanges, queues, bindings, waiting) is external.  Queues  *)
(* are shared and not deleted when unused, messages are persistent.        *)
(***************************************************************************)
EXTENDS Seam, RouteMatch, FiniteSets

CONSTANTS
  Processes,
  Backend,        \* the backend each process was built with
  Topics,         \* the destinations
  Declarations,   \* the ways each may be declared
  Asymmetric,     \* the topics declared with allowAsymmetric
  Overrides,      \* SendOptions::route, EmptyString for none
  Inspects,       \* the names a process calls topicDepth and purgeTopic for
                  \* without declaring them first
  Absent,         \* what does not exist, is not declared or has no route
  MaxSends,       \* bound: messages
  MaxFaults       \* bound: timeouts, losses, crashes and restarts

ASSUME TopologyAssumption ==
  /\ Backend \in [Processes -> {"amqpcpp", "simpleamqp"}]
  /\ MaxSends \in Nat /\ MaxFaults \in Nat
  /\ \A t \in Topics : \A o \in Declarations[t] : o.shared /\ ~o.deleteWhenUnused

Names  == Topics \cup {deadLetterTopic(t) : t \in Topics}
Groups == {kDeadLetterExchange}
            \cup ({o.group : o \in UNION {Declarations[t] : t \in Topics}} \ {NoGroup})

(* A destination has a name: AMQP gives the empty one a meaning of its own. *)
ASSUME NamesAssumption ==
  /\ Topics \subseteq Name \ {EmptyString} /\ Overrides \subseteq Name
  /\ Declarations \in [Topics -> SUBSET TopicOptions]

ASSUME InspectsAssumption == Inspects \in [Processes -> SUBSET Names]

(* What a queue and an exchange are declared with.                         *)
QueueArguments ==
  [durable : BOOLEAN, exclusive : BOOLEAN, autodelete : BOOLEAN, deadLetter : BOOLEAN,
   bound : {<<>>} \cup (Nat \X OverflowPolicy)]
ExchangeArguments == [type : {"direct", "topic", "fanout"}, durable : BOOLEAN]

ASSUME AbsentAssumption ==
  Absent \notin QueueArguments \cup ExchangeArguments \cup Names

VARIABLES
  exchanges, queues, bindings, waiting,   \* the broker
  channel,        \* none, open, or broken (closed by the broker)
  inflight,       \* requests sent and not performed, in order
  plan,           \* requests the call in progress has yet to send
  call,           \* the call in progress: it waits for the last request in flight
  routes,         \* _routes
  remembered,     \* _topic and _topicOptions, once _topicDeclared
  known,          \* history: durable topics whose declaration returned
  refusals,       \* history: the requests that were refused
  evaporated,     \* history: sent to a known topic and not routed to it
  sends, faults

brokerVars  == <<exchanges, queues, bindings, waiting>>
processVars == <<channel, inflight, plan, call, routes, remembered, known>>
historyVars == <<refusals, evaporated>>
vars == <<brokerVars, processVars, historyVars, sends, faults>>

NoCall == [op |-> "none", topic |-> Absent, options |-> Absent]

Init ==
  /\ exchanges = [g \in Groups |-> Absent]
  /\ queues = [n \in Names |-> Absent]
  /\ bindings = {}
  /\ waiting = [n \in Names |-> 0]
  /\ channel = [p \in Processes |-> "none"]
  /\ inflight = [p \in Processes |-> <<>>]
  /\ plan = [p \in Processes |-> <<>>]
  /\ call = [p \in Processes |-> NoCall]
  /\ routes = [p \in Processes |-> [n \in Names |-> Absent]]
  /\ remembered = [p \in Processes |-> NoCall]
  /\ known = [p \in Processes |-> {}]
  /\ refusals = {}
  /\ evaporated = {}
  /\ sends = 0
  /\ faults = 0

-----------------------------------------------------------------------------
(* The requests a call makes.                                              *)

Exchange(group, type, durable) ==
  [kind |-> "exchange", group |-> group, exchange |-> [type |-> type, durable |-> durable]]
Queue(name, properties) == [kind |-> "queue", name |-> name, properties |-> properties]
Bind(group, name, key)  == [kind |-> "bind", group |-> group, name |-> name, key |-> key]
Passive(name)           == [kind |-> "passive", name |-> name]
Purge(name)             == [kind |-> "purge", name |-> name]

(* What both backends send as flags and arguments of a queue: what a       *)
(* second declaration is compared with.                                    *)
Bound(o) == IF o.maxLength > 0 THEN <<o.maxLength, o.overflow>> ELSE <<>>

cppArguments(o) ==
  [durable |-> o.durable, exclusive |-> ~o.shared, autodelete |-> o.deleteWhenUnused,
   deadLetter |-> o.deadLetter, bound |-> Bound(o)]

queueArguments(o) ==
  [durable |-> o.durable, exclusive |-> ~o.shared, autodelete |-> o.deleteWhenUnused,
   deadLetter |-> o.deadLetter, bound |-> Bound(o)]

amqpExchangeType(routing) ==
  CASE routing = "Exact" -> "direct" [] routing = "Pattern" -> "topic"
    [] routing = "Broadcast" -> "fanout"

KeyOf(t, o) == IF o.route = EmptyString THEN t ELSE o.route

(* AmqpCppTransport::declare for one destination: the group, the queue,    *)
(* the binding.                                                            *)
DeclareOne(t, o) ==
  IF o.group = NoGroup THEN <<Queue(t, cppArguments(o))>>
  ELSE <<Exchange(o.group, amqpExchangeType(o.routing), o.durable),
         Queue(t, cppArguments(o)),
         Bind(o.group, t, KeyOf(t, o))>>

(* Variant: the source first, what it dead-letters into after it. *)
declareSourceFirst(t, o) ==
  DeclareOne(t, o)
    \o IF o.deadLetter THEN DeclareOne(deadLetterTopic(t), forensicTopicOptions(t)) ELSE <<>>

(* ... and its forensic destination before it.  The recursion ends there:  *)
(* a forensic destination has no deadLetter of its own.                    *)
declare(t, o) ==
  (IF o.deadLetter THEN DeclareOne(deadLetterTopic(t), forensicTopicOptions(t)) ELSE <<>>)
    \o DeclareOne(t, o)

(* SimpleAmqpTransport::ensureTopic: it knows no groups. *)
simpleEnsureTopic(t, o) ==
  LET f == deadLetterTopic(t) IN
  (IF o.deadLetter
   THEN <<Exchange(kDeadLetterExchange, "direct", TRUE),
          Queue(f, queueArguments(forensicTopicOptions(t))),
          Bind(kDeadLetterExchange, f, t)>>
   ELSE <<>>)
    \o <<Queue(t, queueArguments(o))>>

EnsureTopic(p, t, o) ==
  IF Backend[p] = "amqpcpp" THEN declare(t, o) ELSE simpleEnsureTopic(t, o)

(* SimpleAmqpTransport::topicDepth guesses what the queue was declared as. *)
DepthOptions(n, last) ==
  IF \E t \in Topics : n = deadLetterTopic(t)
  THEN forensicTopicOptions(CHOOSE t \in Topics : n = deadLetterTopic(t))
  ELSE IF last.topic = n THEN last.options ELSE DefaultOptions

TopicDepth(p, n, last) ==
  IF Backend[p] = "amqpcpp" THEN <<Passive(n)>>
  ELSE <<Queue(n, queueArguments(DepthOptions(n, last)))>>

PurgeTopic(p, n) ==
  IF Backend[p] = "amqpcpp" THEN <<Purge(n)>>
  ELSE TopicDepth(p, n, remembered[p]) \o <<Purge(n)>>

-----------------------------------------------------------------------------
(* Connections.                                                            *)

(* The call in progress throws, and what is in flight is lost. *)
Dropped(p) ==
  /\ channel' = [channel EXCEPT ![p] = "none"]
  /\ inflight' = [inflight EXCEPT ![p] = <<>>]
  /\ plan' = [plan EXCEPT ![p] = <<>>]
  /\ call' = [call EXCEPT ![p] = NoCall]

Idle(p) == channel[p] = "open" /\ call[p] = NoCall

(* A call sends its first request and waits. *)
Begin(p, op, t, o, requests) ==
  /\ call' = [call EXCEPT ![p] = [op |-> op, topic |-> t, options |-> o]]
  /\ inflight' = [inflight EXCEPT ![p] = Append(@, Head(requests))]
  /\ plan' = [plan EXCEPT ![p] = Tail(requests)]

connect(p) ==
  /\ channel[p] = "none"
  /\ channel' = [channel EXCEPT ![p] = "open"]
  /\ UNCHANGED <<brokerVars, inflight, plan, call, routes, remembered, known,
                 historyVars, sends, faults>>

(* serviceReconnect: a new connection, on which the topic that was         *)
(* declared last is declared again.                                        *)
reconnect(p) ==
  /\ channel[p] = "none" /\ remembered[p] # NoCall
  /\ channel' = [channel EXCEPT ![p] = "open"]
  /\ LET r == remembered[p] IN
     Begin(p, "redeclare", r.topic, r.options, EnsureTopic(p, r.topic, r.options))
  /\ UNCHANGED <<brokerVars, routes, remembered, known, historyVars, sends, faults>>

close(p) ==
  /\ channel[p] # "none" /\ call[p] = NoCall
  /\ Dropped(p)
  /\ UNCHANGED <<brokerVars, routes, remembered, known, historyVars, sends, faults>>

connectionLost(p) ==
  /\ channel[p] # "none" /\ faults < MaxFaults
  /\ faults' = faults + 1
  /\ Dropped(p)
  /\ UNCHANGED <<brokerVars, routes, remembered, known, historyVars, sends>>

(* The process dies, and another takes its place. *)
crash(p) ==
  /\ channel[p] # "none" /\ faults < MaxFaults
  /\ faults' = faults + 1
  /\ Dropped(p)
  /\ routes' = [routes EXCEPT ![p] = [n \in Names |-> Absent]]
  /\ remembered' = [remembered EXCEPT ![p] = NoCall]
  /\ known' = [known EXCEPT ![p] = {}]
  /\ UNCHANGED <<brokerVars, historyVars, sends>>

(* What is not durable does not survive. *)
brokerRestarts ==
  /\ faults < MaxFaults
  /\ faults' = faults + 1
  /\ LET kept(n) == queues[n] # Absent /\ queues[n].durable
         keptGroup(g) == exchanges[g] # Absent /\ exchanges[g].durable
     IN  /\ exchanges' = [g \in Groups |-> IF keptGroup(g) THEN exchanges[g] ELSE Absent]
         /\ queues' = [n \in Names |-> IF kept(n) THEN queues[n] ELSE Absent]
         /\ bindings' = {b \in bindings : keptGroup(b.group) /\ kept(b.name)}
         /\ waiting' = [n \in Names |-> IF kept(n) THEN waiting[n] ELSE 0]
  /\ channel' = [p \in Processes |-> "none"]
  /\ inflight' = [p \in Processes |-> <<>>]
  /\ plan' = [p \in Processes |-> <<>>]
  /\ call' = [p \in Processes |-> NoCall]
  /\ UNCHANGED <<routes, remembered, known, historyVars, sends>>

-----------------------------------------------------------------------------
(* The calls.                                                              *)

(* Producer::declareTopic, and Consumer::start up to its subscribe(): the  *)
(* check first, then ensureTopic; a Producer then asks for the depth.      *)
declareTopic(p, t, o, op) ==
  /\ Idle(p)
  /\ checkTopicOptions(CapabilitiesOf(Backend[p]), o, t \in Asymmetric)
  /\ Begin(p, op, t, o, EnsureTopic(p, t, o))
  /\ UNCHANGED <<brokerVars, channel, routes, remembered, known, historyVars, sends, faults>>

topicDepth(p, n) ==
  /\ Idle(p)
  /\ Begin(p, "topicDepth", n, Absent, TopicDepth(p, n, remembered[p]))
  /\ UNCHANGED <<brokerVars, channel, routes, remembered, known, historyVars, sends, faults>>

purgeTopic(p, n) ==
  /\ Idle(p)
  /\ Begin(p, "purgeTopic", n, Absent, PurgeTopic(p, n))
  /\ UNCHANGED <<brokerVars, channel, routes, remembered, known, historyVars, sends, faults>>

(* Variant: the override is used outside a group too. *)
TargetAnywhere(p, t, override) ==
  LET key == IF routes[p][t] = Absent THEN t ELSE routes[p][t].key IN
  [group |-> IF routes[p][t] = Absent THEN NoGroup ELSE routes[p][t].group,
   key   |-> IF override = EmptyString THEN key ELSE override]

(* SimpleAmqpTransport::send: always the default exchange. *)
SimpleTarget(t) == [group |-> NoGroup, key |-> t]

(* Where send() publishes: through the group the topic was declared into,  *)
(* with the route the message asks for; through the default exchange, with *)
(* the name of the topic, if this process declared it into none.           *)
Target(p, t, override) ==
  IF Backend[p] = "simpleamqp" THEN SimpleTarget(t)
  ELSE IF routes[p][t] = Absent THEN [group |-> NoGroup, key |-> t]
  ELSE [group |-> routes[p][t].group,
        key |-> IF override = EmptyString THEN routes[p][t].key ELSE override]

send(p, t, override) ==
  /\ Idle(p) /\ sends < MaxSends
  /\ sends' = sends + 1
  /\ LET target == Target(p, t, override) IN
     inflight' = [inflight EXCEPT ![p] =
       Append(@, [kind |-> "publish", name |-> t, group |-> target.group, key |-> target.key,
                  expected |-> t \in known[p]
                               /\ (override = EmptyString \/ target.group = NoGroup)])]
  /\ UNCHANGED <<brokerVars, channel, plan, call, routes, remembered, known, historyVars,
                 faults>>

(* Variant: the call that gave up goes on when the answer comes. *)
timeoutGoesOn(p) ==
  /\ Backend[p] = "amqpcpp" /\ call[p] # NoCall /\ faults < MaxFaults
  /\ faults' = faults + 1
  /\ call' = [call EXCEPT ![p] = NoCall]
  /\ UNCHANGED <<brokerVars, channel, inflight, plan, routes, remembered, known, historyVars,
                 sends>>

(* pumpUntil gives up; only AMQP-CPP's calls have a timeout. *)
timeout(p) ==
  /\ Backend[p] = "amqpcpp" /\ call[p] # NoCall /\ faults < MaxFaults
  /\ faults' = faults + 1
  /\ plan' = [plan EXCEPT ![p] = <<>>]
  /\ call' = [call EXCEPT ![p] = NoCall]
  /\ UNCHANGED <<brokerVars, channel, inflight, routes, remembered, known, historyVars, sends>>

-----------------------------------------------------------------------------
(* The broker performs the requests of one connection in order.            *)

Matches(type, key, route) ==
  CASE type = "direct" -> key = route
    [] type = "topic"  -> routeMatches(key, route)
    [] type = "fanout" -> TRUE

(* The queues a message reaches. *)
RoutedTo(group, key) ==
  IF group = NoGroup THEN {n \in Names : n = key /\ queues[n] # Absent}
  ELSE {n \in Names : \E b \in bindings :
          b.group = group /\ b.name = n /\ Matches(exchanges[group].type, b.key, key)}

Missing(n) == queues[n] = Absent

(* 406 and 404. *)
Refuses(r) ==
  CASE r.kind = "exchange" -> exchanges[r.group] \notin {Absent, r.exchange}
    [] r.kind = "queue"    -> queues[r.name] \notin {Absent, r.properties}
    [] r.kind = "bind"     -> Missing(r.name) \/ exchanges[r.group] = Absent
    [] r.kind = "publish"  -> r.group # NoGroup /\ exchanges[r.group] = Absent
    [] OTHER               -> Missing(r.name)

Perform(r) ==
  /\ exchanges' = IF r.kind = "exchange" THEN [exchanges EXCEPT ![r.group] = r.exchange]
                  ELSE exchanges
  /\ queues' = IF r.kind = "queue" THEN [queues EXCEPT ![r.name] = r.properties] ELSE queues
  /\ bindings' = IF r.kind = "bind"
                 THEN bindings \cup {[group |-> r.group, name |-> r.name, key |-> r.key]}
                 ELSE bindings
  /\ waiting' = CASE r.kind = "purge"   -> [waiting EXCEPT ![r.name] = 0]
                  [] r.kind = "publish" ->
                       [n \in Names |-> IF n \in RoutedTo(r.group, r.key)
                                        THEN waiting[n] + 1 ELSE waiting[n]]
                  [] OTHER              -> waiting
  /\ evaporated' = IF /\ r.kind = "publish" /\ r.expected
                      /\ r.name \notin RoutedTo(r.group, r.key)
                   THEN evaporated \cup {r.name} ELSE evaporated

Awaited(p) == call[p] # NoCall /\ Len(inflight[p]) = 1

(* declare() remembers where a queue is bound once the broker said so. *)
RoutesAfter(p, r) ==
  IF Backend[p] = "amqpcpp" /\ r.kind = "bind"
  THEN [routes EXCEPT ![p][r.name] = [group |-> r.group, key |-> r.key]] ELSE routes

(* A request nobody waits for: sent by send(), or timed out. *)
performUnawaited(p) ==
  /\ inflight[p] # <<>> /\ ~Awaited(p)
  /\ ~Refuses(Head(inflight[p]))
  /\ Perform(Head(inflight[p]))
  /\ inflight' = [inflight EXCEPT ![p] = Tail(@)]
  /\ UNCHANGED <<channel, plan, call, routes, remembered, known, refusals, sends, faults>>

(* The answer the call waits for: the next request goes out. *)
performAwaited(p) ==
  /\ Awaited(p) /\ plan[p] # <<>>
  /\ LET r == Head(inflight[p]) IN
     /\ ~Refuses(r)
     /\ Perform(r)
     /\ routes' = RoutesAfter(p, r)
  /\ inflight' = [inflight EXCEPT ![p] = <<Head(plan[p])>>]
  /\ plan' = [plan EXCEPT ![p] = Tail(@)]
  /\ UNCHANGED <<channel, call, remembered, known, refusals, sends, faults>>

(* ... or it was the last one, and the call returns: ensureTopic remembers *)
(* what reconnection will need, and Producer::declareTopic goes on to the  *)
(* depth.                                                                  *)
performLast(p) ==
  /\ Awaited(p) /\ plan[p] = <<>>
  /\ LET r == Head(inflight[p])
         c == call[p]
         last == [op |-> "ensureTopic", topic |-> c.topic, options |-> c.options]
         ensured == c.op \in {"declareTopic", "ensureTopic"}
     IN
     /\ ~Refuses(r)
     /\ Perform(r)
     /\ routes' = RoutesAfter(p, r)
     /\ remembered' = IF ensured THEN [remembered EXCEPT ![p] = last] ELSE remembered
     /\ known' = IF ensured /\ c.options.durable
                 THEN [known EXCEPT ![p] = @ \cup {c.topic}] ELSE known
     /\ IF c.op = "declareTopic"
        THEN /\ call' = [call EXCEPT ![p] = [op |-> "topicDepth", topic |-> c.topic,
                                             options |-> Absent]]
             /\ inflight' = [inflight EXCEPT ![p] = TopicDepth(p, c.topic, last)]
        ELSE /\ call' = [call EXCEPT ![p] = NoCall]
             /\ inflight' = [inflight EXCEPT ![p] = <<>>]
  /\ UNCHANGED <<channel, plan, refusals, sends, faults>>

(* A channel error: the call that waits throws.  AMQP-CPP has one channel, *)
(* which is gone with all that is in flight on it; SimpleAmqpClient takes  *)
(* another one for the next request.                                       *)
refuse(p) ==
  /\ inflight[p] # <<>>
  /\ Refuses(Head(inflight[p]))
  /\ refusals' = refusals \cup {[kind |-> Head(inflight[p]).kind, op |-> call[p].op]}
  /\ channel' = IF Backend[p] = "amqpcpp" THEN [channel EXCEPT ![p] = "broken"] ELSE channel
  /\ inflight' = IF Backend[p] = "amqpcpp" THEN [inflight EXCEPT ![p] = <<>>]
                 ELSE [inflight EXCEPT ![p] = Tail(@)]
  /\ plan' = [plan EXCEPT ![p] = <<>>]
  /\ call' = [call EXCEPT ![p] = NoCall]
  /\ UNCHANGED <<brokerVars, routes, remembered, known, evaporated, sends, faults>>

Next ==
  \/ brokerRestarts
  \/ \E p \in Processes :
       \/ connect(p)
       \/ reconnect(p)
       \/ close(p)
       \/ connectionLost(p)
       \/ crash(p)
       \/ timeout(p)
       \/ performUnawaited(p)
       \/ performAwaited(p)
       \/ performLast(p)
       \/ refuse(p)
       \/ \E t \in Topics, op \in {"declareTopic", "ensureTopic"} :
            \E o \in Declarations[t] : declareTopic(p, t, o, op)
       \/ \E n \in Inspects[p] : topicDepth(p, n) \/ purgeTopic(p, n)
       \/ \E t \in Topics, override \in Overrides : send(p, t, override)

Spec == Init /\ [][Next]_vars

-----------------------------------------------------------------------------
(* What the library leaves to the applications.                            *)

(* SimpleAmqpClient has no passive declare: a process on that backend      *)
(* looks only at what it has just declared, or at a queue whose arguments  *)
(* it can guess, a forensic one.                                           *)
InspectsGuessable ==
  \A p \in Processes : Backend[p] = "simpleamqp" =>
    Inspects[p] \subseteq {deadLetterTopic(t) : t \in Topics}

(* The declarations of t that a call can make. *)
Accepted(t) ==
  {o \in Declarations[t] :
     \E p \in Processes : checkTopicOptions(CapabilitiesOf(Backend[p]), o, t \in Asymmetric)}

(* Whoever allows asymmetry declares a topic as durable everywhere or      *)
(* nowhere.                                                                *)
DurabilityAgrees ==
  \A t \in Topics \cap Asymmetric : \A o, q \in Accepted(t) : o.durable = q.durable

(* Whoever allows asymmetry declares a topic one way everywhere, a group   *)
(* has one kind of routing and is durable or not, and nobody declares what *)
(* the library keeps for itself otherwise than the library does.           *)
DeclarationsAgree ==
  /\ \A t \in Topics \cap Asymmetric : \A o, q \in Accepted(t) : SameProperties(o, q)
  /\ \A t, u \in Topics : \A o \in Accepted(t), q \in Accepted(u) :
       o.group # NoGroup /\ o.group = q.group => o.routing = q.routing /\ o.durable = q.durable
  /\ \A t \in Topics : \A o \in Accepted(t) :
       o.group = kDeadLetterExchange => o.routing = "Exact" /\ o.durable
  /\ \A t \in Topics : deadLetterTopic(t) \in Topics =>
       \A o \in Accepted(deadLetterTopic(t)) : SameProperties(o, forensicTopicOptions(t))

-----------------------------------------------------------------------------
(* Properties.                                                             *)

(* Every variable holds what the members and the broker can hold; a call   *)
(* waits on an open channel, and nothing is sent without one.              *)
TypeOK ==
  /\ \A g \in Groups : exchanges[g] = Absent \/ exchanges[g].type \in {"direct", "topic", "fanout"}
  /\ \A b \in bindings : b.group \in Groups /\ b.name \in Names
  /\ waiting \in [Names -> 0..MaxSends]
  /\ channel \in [Processes -> {"none", "open", "broken"}]
  /\ \A p \in Processes :
       /\ channel[p] # "open" => inflight[p] = <<>> /\ call[p] = NoCall
       /\ call[p] = NoCall => plan[p] = <<>>
       /\ call[p] # NoCall => inflight[p] # <<>>
       /\ known[p] \subseteq Topics
  /\ evaporated \subseteq Topics
  /\ sends \in 0..MaxSends /\ faults \in 0..MaxFaults

(* A rejected message leaves evidence: no queue that dead-letters exists   *)
(* without its forensic queue, bound under its name, wherever a process,   *)
(* a connection or the broker stopped in the middle of a declaration.      *)
ForensicsFirst ==
  \A t \in Topics : queues[t] # Absent /\ queues[t].deadLetter =>
    deadLetterTopic(t) \in RoutedTo(kDeadLetterExchange, t)

(* "Producer and Consumer both declare, on purpose, so either can start    *)
(* first": where the applications agree (DeclarationsAgree) and ask for no *)
(* depth they cannot guess (InspectsGuessable), whichever backend and      *)
(* order, no declaration that passes checkTopicOptions is refused with     *)
(* PRECONDITION_FAILED, not even half of it, and neither is the depth a    *)
(* Producer reads after it.                                                *)
DeclaredTwiceAgrees ==
  \A r \in refusals : r.kind \notin {"exchange", "queue", "bind"}

(* What a process sends to a topic it has declared durable arrives in that *)
(* topic's queue: no route is used before its binding exists, and no       *)
(* timeout, reconnection or restart of the broker makes one stale.         *)
NothingEvaporates == evaporated = {}

-----------------------------------------------------------------------------
(* What a comment of the repository says and the code does not do.  It is  *)
(* checked by TopologyDepth.cfg, whose processes need not guess right.     *)

(* SimpleAmqpTransport::topicDepth: "Reconstruct the declaration kind from *)
(* the reserved forensic prefix so a depth read cannot create a            *)
(* DLQ-of-a-DLQ or conflict with the queue it is inspecting."              *)
DepthNeverConflicts == [kind |-> "queue", op |-> "topicDepth"] \notin refusals

=============================================================================
