------------------------- MODULE AmqpTopology_proofs -------------------------
(***************************************************************************)
(* Proofs about processes that declare destinations on one broker, for     *)
(* every set of processes, backends, topics and declarations and any       *)
(* number of faults.  What the applications must agree on is a hypothesis  *)
(* of the theorem that needs it.                                           *)
(***************************************************************************)
EXTENDS AmqpTopology, RouteMatch_proofs, FiniteSetTheorems, SequenceTheorems, TLAPS

(* What a call asks of the broker, and what send() publishes. *)
Asked ==
  [kind : {"exchange"}, group : Groups, exchange : ExchangeArguments]
    \cup [kind : {"queue"}, name : Names, properties : QueueArguments]
    \cup [kind : {"bind"}, group : Groups, name : Names, key : Name]
    \cup [kind : {"passive", "purge"}, name : Names]

Messages ==
  [kind : {"publish"}, name : Topics, group : Groups \cup {NoGroup}, key : Name,
   expected : BOOLEAN]

Requests == Asked \cup Messages

Calls == [op : {"none", "declareTopic", "ensureTopic", "redeclare", "topicDepth", "purgeTopic"},
          topic : Names \cup {Absent}, options : TopicOptions \cup {Absent}]

Ensures(c) == c.op \in {"declareTopic", "ensureTopic", "redeclare"}

Declared(c) == c.topic \in Topics /\ c.options \in Declarations[c.topic]

-----------------------------------------------------------------------------
(* The requests.                                                           *)

LEMMA ForensicName ==
  ASSUME NEW t \in Topics
  PROVE  t \in Name /\ t \in Names /\ deadLetterTopic(t) \in Names
BY NamesAssumption DEF Names

LEMMA DefaultType == DefaultOptions \in TopicOptions
<1>1. EmptyString \in Name
  <2>1. "" \in Strings
    BY StringsAssumption
  <2>2. \A x \in Strings : <<x>> \in Seq(Strings)
    OBVIOUS
  <2> QED BY <2>1, <2>2, Zenon DEF EmptyString, Name
<1> QED
  BY <1>1, StringsAssumption DEF DefaultOptions, TopicOptions, OverflowPolicy, Routing, NoGroup

LEMMA ForensicOptions ==
  ASSUME NEW t \in Name
  PROVE  /\ forensicTopicOptions(t) \in TopicOptions
         /\ forensicTopicOptions(t).durable = TRUE
         /\ forensicTopicOptions(t).deadLetter = FALSE
         /\ forensicTopicOptions(t).group = kDeadLetterExchange
         /\ forensicTopicOptions(t).routing = "Exact"
<1>2. DefaultOptions \in TopicOptions
  BY DefaultType
<1>3. kDeadLetterExchange \in Strings /\ kForensicMaxLength \in Nat
  BY StringsAssumption, ForensicCapAssumption DEF kDeadLetterExchange
<1> QED BY <1>2, <1>3 DEF forensicTopicOptions, TopicOptions, DefaultOptions, OverflowPolicy,
                          Routing, kDeadLetterExchange

LEMMA ArgumentsType ==
  ASSUME NEW o \in TopicOptions
  PROVE  /\ queueArguments(o) \in QueueArguments
         /\ cppArguments(o) = queueArguments(o)
         /\ queueArguments(o).deadLetter = o.deadLetter
         /\ queueArguments(o).durable = o.durable
<1>1. Bound(o) \in {<<>>} \cup (Nat \X OverflowPolicy)
  BY DEF Bound, TopicOptions
<1>2. /\ queueArguments(o) = [durable |-> o.durable, exclusive |-> ~o.shared,
                              autodelete |-> o.deleteWhenUnused,
                              deadLetter |-> o.deadLetter, bound |-> Bound(o)]
      /\ cppArguments(o) = queueArguments(o)
  BY DEF queueArguments, cppArguments
<1>3. /\ o.durable \in BOOLEAN /\ (~o.shared) \in BOOLEAN /\ o.deleteWhenUnused \in BOOLEAN
      /\ o.deadLetter \in BOOLEAN
  BY DEF TopicOptions
<1> DEFINE b == Bound(o)
           e == ~o.shared
<1> HIDE DEF b, e
<1>4. [durable |-> o.durable, exclusive |-> e, autodelete |-> o.deleteWhenUnused,
       deadLetter |-> o.deadLetter, bound |-> b] \in QueueArguments
  BY <1>1, <1>3 DEF QueueArguments, b, e
<1> QED BY <1>2, <1>4 DEF b, e

LEMMA RoutingType ==
  ASSUME NEW r \in Routing
  PROVE  amqpExchangeType(r) \in {"direct", "topic", "fanout"}
BY DEF amqpExchangeType, Routing

LEMMA ExchangeType ==
  ASSUME NEW g \in Groups, NEW type \in {"direct", "topic", "fanout"}, NEW durable \in BOOLEAN
  PROVE  Exchange(g, type, durable) \in Asked
BY DEF Exchange, Asked, ExchangeArguments

LEMMA QueueType ==
  ASSUME NEW n \in Names, NEW a \in QueueArguments
  PROVE  Queue(n, a) \in Asked
BY DEF Queue, Asked

LEMMA BindType ==
  ASSUME NEW g \in Groups, NEW n \in Names, NEW k \in Name
  PROVE  Bind(g, n, k) \in Asked
BY DEF Bind, Asked

LEMMA InspectType ==
  ASSUME NEW n \in Names
  PROVE  Passive(n) \in Asked /\ Purge(n) \in Asked
BY DEF Passive, Purge, Asked

(* A declaration's group is one the broker knows of. *)
LEMMA DeclarationType ==
  ASSUME NEW t \in Topics, NEW o \in Declarations[t]
  PROVE  /\ o \in TopicOptions
         /\ o.group \in Groups \cup {NoGroup}
         /\ KeyOf(t, o) \in Name
<1>1. o \in TopicOptions
  BY NamesAssumption
<1>2. o.group \in Groups \cup {NoGroup}
  BY DEF Groups
<1>3. KeyOf(t, o) \in Name
  BY <1>1, NamesAssumption DEF KeyOf, TopicOptions
<1> QED BY <1>1, <1>2, <1>3

LEMMA DeclareOneType ==
  ASSUME NEW n \in Names, NEW o \in TopicOptions, o.group \in Groups \cup {NoGroup},
         KeyOf(n, o) \in Name
  PROVE  DeclareOne(n, o) \in Seq(Asked) /\ DeclareOne(n, o) # <<>>
<1>1. Queue(n, cppArguments(o)) \in Asked
  BY ArgumentsType, QueueType
<1>2. CASE o.group = NoGroup
  BY <1>1, <1>2 DEF DeclareOne
<1>3. CASE o.group # NoGroup
  <2>1. o.group \in Groups /\ o.routing \in Routing /\ o.durable \in BOOLEAN
    BY <1>3 DEF TopicOptions
  <2>2. Exchange(o.group, amqpExchangeType(o.routing), o.durable) \in Asked
    BY <2>1, RoutingType, ExchangeType
  <2>3. Bind(o.group, n, KeyOf(n, o)) \in Asked
    BY <2>1, BindType
  <2> QED BY <1>1, <1>3, <2>2, <2>3 DEF DeclareOne
<1> QED BY <1>2, <1>3

-----------------------------------------------------------------------------
(* The declaration of a topic that dead-letters begins with its forensic   *)
(* destination, on either backend.                                         *)

DeadLetters == [type |-> "direct", durable |-> TRUE]

ForensicArguments(t) == queueArguments(forensicTopicOptions(t))

ForensicExchange == Exchange(kDeadLetterExchange, "direct", TRUE)
ForensicQueue(t) == Queue(deadLetterTopic(t), ForensicArguments(t))
ForensicBind(t)  == Bind(kDeadLetterExchange, deadLetterTopic(t), t)

LEMMA ForensicTypes ==
  ASSUME NEW t \in Topics
  PROVE  /\ ForensicExchange \in Asked
         /\ ForensicQueue(t) \in Asked
         /\ ForensicBind(t) \in Asked
         /\ ForensicArguments(t) \in QueueArguments
         /\ ForensicArguments(t).durable = TRUE
         /\ ForensicArguments(t).deadLetter = FALSE
<1>1. kDeadLetterExchange \in Groups
  BY DEF Groups
<1>2. t \in Name /\ deadLetterTopic(t) \in Names
  BY ForensicName
<1>3. /\ ForensicArguments(t) \in QueueArguments
      /\ ForensicArguments(t).durable = TRUE
      /\ ForensicArguments(t).deadLetter = FALSE
  BY <1>2, ForensicOptions, ArgumentsType DEF ForensicArguments
<1>4. ForensicExchange \in Asked
  BY <1>1, ExchangeType DEF ForensicExchange
<1>5. ForensicQueue(t) \in Asked
  BY <1>2, <1>3, QueueType DEF ForensicQueue
<1>6. ForensicBind(t) \in Asked
  BY <1>1, <1>2, BindType DEF ForensicBind
<1> QED BY <1>3, <1>4, <1>5, <1>6

(* A request that puts a queue that dead-letters at the broker. *)
Source(r) == r.kind = "queue" /\ r.properties.deadLetter

(* From the one after the n-th, the requests of s put no queue that        *)
(* dead-letters at the broker but t's.                                     *)
OnlySource(s, n, t) ==
  \A k \in DOMAIN s : k > n /\ Source(s[k]) => s[k].name = t

LEMMA ForensicDeclaration ==
  ASSUME NEW t \in Topics
  PROVE  DeclareOne(deadLetterTopic(t), forensicTopicOptions(t))
           = <<ForensicExchange, ForensicQueue(t), ForensicBind(t)>>
<1> DEFINE f == deadLetterTopic(t)
           o == forensicTopicOptions(t)
<1>1. t \in Name /\ t # EmptyString
  BY NamesAssumption
<1>2. /\ o \in TopicOptions /\ o.durable = TRUE /\ o.group = kDeadLetterExchange
      /\ o.routing = "Exact"
  BY <1>1, ForensicOptions
<1>3. o.route = t
  BY DEF forensicTopicOptions, DefaultOptions
<1>4. amqpExchangeType("Exact") = "direct" /\ kDeadLetterExchange # NoGroup
  BY DEF amqpExchangeType, kDeadLetterExchange, NoGroup
<1>5. cppArguments(o) = ForensicArguments(t)
  BY <1>2, ArgumentsType DEF ForensicArguments
<1>6. KeyOf(f, o) = t
  BY <1>1, <1>3 DEF KeyOf
<1>7. DeclareOne(f, o) = <<Exchange(kDeadLetterExchange, "direct", TRUE),
                           Queue(f, ForensicArguments(t)), Bind(kDeadLetterExchange, f, t)>>
  BY <1>2, <1>4, <1>5, <1>6 DEF DeclareOne
<1> QED BY <1>7 DEF ForensicExchange, ForensicQueue, ForensicBind

(* The requests of the destination itself. *)
OwnRequests(p, t, o) ==
  IF Backend[p] = "amqpcpp" THEN DeclareOne(t, o) ELSE <<Queue(t, queueArguments(o))>>

LEMMA OwnType ==
  ASSUME NEW p \in Processes, NEW t \in Topics, NEW o \in Declarations[t]
  PROVE  /\ OwnRequests(p, t, o) \in Seq(Asked)
         /\ OwnRequests(p, t, o) # <<>>
         /\ \A k \in DOMAIN OwnRequests(p, t, o) :
              Source(OwnRequests(p, t, o)[k]) =>
                OwnRequests(p, t, o)[k].name = t /\ o.deadLetter
<1>1. t \in Names /\ o \in TopicOptions /\ o.group \in Groups \cup {NoGroup} /\ KeyOf(t, o) \in Name
  BY ForensicName, DeclarationType
<1> DEFINE q == Queue(t, queueArguments(o))
<1>2. /\ q \in Asked /\ q.name = t
      /\ Source(q) => o.deadLetter
      /\ Queue(t, cppArguments(o)) = q
  BY <1>1, ArgumentsType, QueueType DEF Queue, Source
<1>3. CASE Backend[p] # "amqpcpp"
  <2>1. OwnRequests(p, t, o) = <<q>>
    BY <1>3 DEF OwnRequests
  <2> HIDE DEF q
  <2> QED BY <1>2, <2>1
<1>4. CASE Backend[p] = "amqpcpp"
  <2>1. OwnRequests(p, t, o) = DeclareOne(t, o)
    BY <1>4 DEF OwnRequests
  <2>2. DeclareOne(t, o) \in Seq(Asked) /\ DeclareOne(t, o) # <<>>
    BY <1>1, DeclareOneType
  <2>3. CASE o.group = NoGroup
    <3>1. DeclareOne(t, o) = <<q>>
      BY <1>2, <2>3 DEF DeclareOne
    <3> HIDE DEF q
    <3> QED BY <1>2, <2>1, <3>1
  <2>4. CASE o.group # NoGroup
    <3> DEFINE e == Exchange(o.group, amqpExchangeType(o.routing), o.durable)
               b == Bind(o.group, t, KeyOf(t, o))
    <3>1. DeclareOne(t, o) = <<e, q, b>>
      BY <1>2, <2>4 DEF DeclareOne
    <3>2. ~Source(e) /\ ~Source(b)
      BY DEF Source, Exchange, Bind
    <3> HIDE DEF q, e, b
    <3> QED BY <1>2, <2>1, <2>2, <3>1, <3>2
  <2> QED BY <2>3, <2>4
<1> QED BY <1>3, <1>4

LEMMA EnsureShape ==
  ASSUME NEW p \in Processes, NEW t \in Topics, NEW o \in Declarations[t]
  PROVE  EnsureTopic(p, t, o) =
           (IF o.deadLetter THEN <<ForensicExchange, ForensicQueue(t), ForensicBind(t)>> ELSE <<>>)
             \o OwnRequests(p, t, o)
<1>1. CASE Backend[p] = "amqpcpp"
  BY <1>1, ForensicDeclaration DEF EnsureTopic, declare, OwnRequests
<1>2. CASE Backend[p] # "amqpcpp"
  BY <1>2 DEF EnsureTopic, simpleEnsureTopic, OwnRequests, ForensicExchange, ForensicQueue,
              ForensicBind, ForensicArguments
<1> QED BY <1>1, <1>2

(* What ensureTopic sends: for a topic that dead-letters the exchange, the *)
(* forensic queue and its binding, in this order, before anything that     *)
(* dead-letters.                                                           *)
LEMMA EnsureRequests ==
  ASSUME NEW p \in Processes, NEW t \in Topics, NEW o \in Declarations[t]
  PROVE  LET s == EnsureTopic(p, t, o) IN
         /\ s \in Seq(Asked) /\ s # <<>>
         /\ o.deadLetter => /\ Len(s) >= 4
                            /\ s[1] = ForensicExchange
                            /\ s[2] = ForensicQueue(t)
                            /\ s[3] = ForensicBind(t)
                            /\ OnlySource(s, 3, t)
         /\ ~o.deadLetter => \A k \in DOMAIN s : ~Source(s[k])
<1> DEFINE a == ForensicExchange
           b == ForensicQueue(t)
           c == ForensicBind(t)
           w == OwnRequests(p, t, o)
<1>1. /\ w \in Seq(Asked) /\ w # <<>>
      /\ \A k \in DOMAIN w : Source(w[k]) => w[k].name = t /\ o.deadLetter
  BY OwnType
<1>2. a \in Asked /\ b \in Asked /\ c \in Asked
  BY ForensicTypes
<1>3. EnsureTopic(p, t, o) = (IF o.deadLetter THEN <<a, b, c>> ELSE <<>>) \o w
  BY EnsureShape
<1> HIDE DEF a, b, c, w
<1>4. CASE ~o.deadLetter
  <2>1. EnsureTopic(p, t, o) = w
    BY <1>1, <1>3, <1>4
  <2> QED BY <1>1, <1>4, <2>1
<1>5. CASE o.deadLetter
  <2> DEFINE s == <<a, b, c>> \o w
  <2>1. s \in Seq(Asked) /\ Len(s) = Len(w) + 3 /\ Len(w) \in Nat \ {0}
    BY <1>1, <1>2
  <2>2. s[1] = a /\ s[2] = b /\ s[3] = c
    BY <1>1, <1>2
  <2>3. ASSUME NEW k \in DOMAIN s, k > 3 PROVE k - 3 \in DOMAIN w /\ s[k] = w[k - 3]
    BY <1>1, <1>2, <2>3
  <2> HIDE DEF s
  <2>4. OnlySource(s, 3, t)
    BY <1>1, <2>3 DEF OnlySource
  <2>5. EnsureTopic(p, t, o) = s
    BY <1>3, <1>5 DEF s
  <2>6. s # <<>> /\ Len(s) >= 4
    BY <2>1
  <2> QED BY <1>5, <2>1, <2>2, <2>4, <2>5, <2>6 DEF a, b, c
<1> QED BY <1>4, <1>5

(* What topicDepth sends: it dead-letters only if it is about a source     *)
(* queue, and if that was declared last, only if it was declared so.       *)
LEMMA DepthRequests ==
  ASSUME NEW p \in Processes, NEW n \in Names, NEW last \in Calls,
         last.topic = n => last.options \in TopicOptions
  PROVE  \E r \in Asked :
           /\ TopicDepth(p, n, last) = <<r>>
           /\ Source(r) => /\ r.name = n /\ (last.topic = n => last.options.deadLetter)
                           /\ Backend[p] = "simpleamqp"
                           /\ n \notin {deadLetterTopic(t) : t \in Topics}
<1>1. CASE Backend[p] = "amqpcpp"
  <2>1. TopicDepth(p, n, last) = <<Passive(n)>> /\ Passive(n) \in Asked
    BY <1>1, InspectType DEF TopicDepth
  <2>2. ~Source(Passive(n))
    BY DEF Source, Passive
  <2> QED BY <2>1, <2>2
<1>2. CASE Backend[p] # "amqpcpp"
  <2> DEFINE o == DepthOptions(n, last)
  <2>0. Backend[p] = "simpleamqp"
    BY <1>2, TopologyAssumption
  <2>1. TopicDepth(p, n, last) = <<Queue(n, queueArguments(o))>>
    BY <1>2 DEF TopicDepth
  <2>2. /\ o \in TopicOptions
        /\ o.deadLetter => /\ last.topic = n => last.options.deadLetter
                           /\ n \notin {deadLetterTopic(t) : t \in Topics}
    <3>1. CASE \E t \in Topics : n = deadLetterTopic(t)
      <4> DEFINE t == CHOOSE t \in Topics : n = deadLetterTopic(t)
      <4>1. t \in Topics
        BY <3>1
      <4>2. o = forensicTopicOptions(t) /\ t \in Name
        BY <3>1, <4>1, ForensicName DEF DepthOptions
      <4> HIDE DEF t, o
      <4> QED BY <4>2, ForensicOptions
    <3>2. CASE ~\E t \in Topics : n = deadLetterTopic(t)
      <4>1. o = IF last.topic = n THEN last.options ELSE DefaultOptions
        BY <3>2 DEF DepthOptions
      <4>2. DefaultOptions \in TopicOptions
        BY DefaultType
      <4>3. n \notin {deadLetterTopic(t) : t \in Topics}
        BY <3>2
      <4> HIDE DEF o
      <4> QED BY <4>1, <4>2, <4>3
    <3> QED BY <3>1, <3>2
  <2> HIDE DEF o
  <2>3. /\ queueArguments(o) \in QueueArguments
        /\ queueArguments(o).deadLetter = o.deadLetter
    BY <2>2, ArgumentsType
  <2> DEFINE r == Queue(n, queueArguments(o))
  <2>4. r \in Asked /\ r.name = n /\ (Source(r) => o.deadLetter)
    BY <2>3, QueueType DEF Queue, Source
  <2> HIDE DEF r
  <2>5. TopicDepth(p, n, last) = <<r>>
    BY <2>1 DEF r
  <2>6. Source(r) => /\ r.name = n /\ (last.topic = n => last.options.deadLetter)
                     /\ Backend[p] = "simpleamqp"
                     /\ n \notin {deadLetterTopic(t) : t \in Topics}
    BY <2>0, <2>2, <2>4
  <2> QED BY <2>4, <2>5, <2>6
<1> QED BY <1>1, <1>2

-----------------------------------------------------------------------------
(* Types.                                                                  *)

LEMMA RequestKinds ==
  ASSUME NEW r \in Requests
  PROVE  /\ r.kind \in {"exchange", "queue", "bind", "passive", "purge", "publish"}
         /\ r.kind = "exchange" => r.group \in Groups /\ r.exchange \in ExchangeArguments
         /\ r.kind = "queue" => r.name \in Names /\ r.properties \in QueueArguments
         /\ r.kind = "bind" => r.group \in Groups /\ r.name \in Names /\ r.key \in Name
         /\ r.kind \in {"passive", "purge"} => r.name \in Names
         /\ r.kind = "publish" => /\ r.name \in Topics /\ r.group \in Groups \cup {NoGroup}
                                  /\ r.key \in Name /\ r.expected \in BOOLEAN
BY DEF Requests, Asked, Messages

LEMMA AskedKinds ==
  /\ Asked \subseteq Requests
  /\ \A r \in Asked : r.kind # "publish"
BY DEF Requests, Asked

BrokerPart ==
  /\ exchanges \in [Groups -> ExchangeArguments \cup {Absent}]
  /\ queues \in [Names -> QueueArguments \cup {Absent}]
  /\ bindings \subseteq [group : Groups, name : Names, key : Name]
  /\ waiting \in [Names -> Nat]

Driven(ch, fl, pl, c) ==
  /\ ch \in {"none", "open", "broken"}
  /\ fl \in Seq(Requests) /\ pl \in Seq(Asked) /\ c \in Calls
  /\ ch # "open" => fl = <<>> /\ c = NoCall
  /\ c = NoCall => pl = <<>>
  /\ c # NoCall => fl # <<>>
  /\ Ensures(c) => Declared(c)

driverVars == <<channel, inflight, plan, call>>

DriverPart ==
  /\ channel = [p \in Processes |-> channel[p]]
  /\ inflight = [p \in Processes |-> inflight[p]]
  /\ plan = [p \in Processes |-> plan[p]]
  /\ call = [p \in Processes |-> call[p]]
  /\ \A p \in Processes : Driven(channel[p], inflight[p], plan[p], call[p])

Routes == [group : Groups, key : Name] \cup {Absent}

MemoryPart ==
  /\ routes \in [Processes -> [Names -> Routes]]
  /\ remembered \in [Processes -> Calls]
  /\ \A p \in Processes : remembered[p] # NoCall => Declared(remembered[p])
  /\ known \in [Processes -> SUBSET Topics]

BoundPart ==
  /\ evaporated \subseteq Topics
  /\ sends \in 0..MaxSends /\ faults \in 0..MaxFaults

TypeInv == BrokerPart /\ DriverPart /\ MemoryPart /\ BoundPart

LEMMA CallTypes ==
  /\ NoCall \in Calls
  /\ \A op \in {"declareTopic", "ensureTopic", "redeclare"} :
       \A t \in Topics : \A o \in Declarations[t] :
         LET c == [op |-> op, topic |-> t, options |-> o] IN
         c \in Calls /\ c # NoCall /\ Ensures(c) /\ Declared(c)
  /\ \A op \in {"topicDepth", "purgeTopic"} : \A n \in Names :
       LET c == [op |-> op, topic |-> n, options |-> Absent] IN
       c \in Calls /\ c # NoCall /\ ~Ensures(c)
<1>1. \A t \in Topics : t \in Names /\ \A o \in Declarations[t] : o \in TopicOptions
  BY ForensicName, DeclarationType
<1> QED BY <1>1 DEF Calls, NoCall, Ensures, Declared

(* One process goes on, the others stay where they are. *)
LEMMA DriverStep ==
  ASSUME DriverPart, NEW p \in Processes, NEW ch, NEW fl, NEW pl, NEW c,
         channel' = [channel EXCEPT ![p] = ch], inflight' = [inflight EXCEPT ![p] = fl],
         plan' = [plan EXCEPT ![p] = pl], call' = [call EXCEPT ![p] = c],
         Driven(ch, fl, pl, c)
  PROVE  DriverPart'
<1>1. /\ channel' = [q \in Processes |-> channel'[q]]
      /\ inflight' = [q \in Processes |-> inflight'[q]]
      /\ plan' = [q \in Processes |-> plan'[q]]
      /\ call' = [q \in Processes |-> call'[q]]
  BY DEF DriverPart
<1>2. ASSUME NEW q \in Processes PROVE Driven(channel'[q], inflight'[q], plan'[q], call'[q])
  <2>1. CASE q = p
    <3>1. channel'[q] = ch /\ inflight'[q] = fl /\ plan'[q] = pl /\ call'[q] = c
      BY <2>1 DEF DriverPart
    <3> QED BY <3>1
  <2>2. CASE q # p
    <3>1. /\ channel'[q] = channel[q] /\ inflight'[q] = inflight[q]
          /\ plan'[q] = plan[q] /\ call'[q] = call[q]
      BY <2>2 DEF DriverPart
    <3> QED BY <3>1 DEF DriverPart
  <2> QED BY <2>1, <2>2
<1> QED BY <1>1, <1>2 DEF DriverPart

(* A variable of the processes that does not change is updated with itself. *)
LEMMA SelfUpdate ==
  ASSUME DriverPart, NEW p \in Processes
  PROVE  /\ channel = [channel EXCEPT ![p] = channel[p]]
         /\ inflight = [inflight EXCEPT ![p] = inflight[p]]
         /\ plan = [plan EXCEPT ![p] = plan[p]]
         /\ call = [call EXCEPT ![p] = call[p]]
BY DEF DriverPart

LEMMA DrivenNow ==
  ASSUME DriverPart, NEW p \in Processes
  PROVE  Driven(channel[p], inflight[p], plan[p], call[p])
BY DEF DriverPart

(* The process drops all it was doing. *)
LEMMA DroppedTypes ==
  ASSUME DriverPart, NEW p \in Processes, Dropped(p)
  PROVE  DriverPart'
<1>1. Driven("none", <<>>, <<>>, NoCall)
  BY CallTypes DEF Driven, Ensures, NoCall
<1> QED BY <1>1, DriverStep DEF Dropped

LEMMA AppendType ==
  ASSUME NEW S, NEW q \in Seq(S), NEW x \in S
  PROVE  Append(q, x) \in Seq(S) /\ Append(q, x) # <<>>
<1>1. Append(q, x) \in Seq(S) /\ Len(Append(q, x)) = Len(q) + 1 /\ Len(q) \in Nat
  OBVIOUS
<1>2. Len(Append(q, x)) # 0
  BY <1>1
<1> QED BY <1>1, <1>2

LEMMA BeginTypes ==
  ASSUME DriverPart, NEW p \in Processes, NEW s \in Seq(Asked), s # <<>>,
         NEW c \in Calls, c # NoCall, Ensures(c) => Declared(c),
         channel' = [channel EXCEPT ![p] = "open"],
         call' = [call EXCEPT ![p] = c],
         inflight' = [inflight EXCEPT ![p] = Append(inflight[p], Head(s))],
         plan' = [plan EXCEPT ![p] = Tail(s)]
  PROVE  DriverPart'
<1>1. inflight[p] \in Seq(Requests) /\ Head(s) \in Requests /\ Tail(s) \in Seq(Asked)
  BY DrivenNow, AskedKinds DEF Driven
<1>2. Append(inflight[p], Head(s)) \in Seq(Requests) /\ Append(inflight[p], Head(s)) # <<>>
  BY <1>1, AppendType
<1>3. Driven("open", Append(inflight[p], Head(s)), Tail(s), c)
  BY <1>1, <1>2 DEF Driven
<1> QED BY <1>3, DriverStep

(* The broker performs a request. *)
LEMMA PerformTypes ==
  ASSUME BrokerPart, evaporated \subseteq Topics, NEW r \in Requests, Perform(r)
  PROVE  BrokerPart' /\ evaporated' \subseteq Topics
<1> USE RequestKinds
<1>1. exchanges' \in [Groups -> ExchangeArguments \cup {Absent}]
  BY DEF Perform, BrokerPart
<1>2. queues' \in [Names -> QueueArguments \cup {Absent}]
  BY DEF Perform, BrokerPart
<1>3. bindings' \subseteq [group : Groups, name : Names, key : Name]
  BY DEF Perform, BrokerPart
<1>4. waiting' \in [Names -> Nat]
  <2>1. CASE r.kind = "purge"
    BY <2>1 DEF Perform, BrokerPart
  <2>2. CASE r.kind = "publish"
    <3> DEFINE reached == RoutedTo(r.group, r.key)
    <3>1. waiting' = [n \in Names |-> IF n \in reached THEN waiting[n] + 1 ELSE waiting[n]]
      BY <2>2 DEF Perform
    <3> HIDE DEF reached
    <3> QED BY <3>1 DEF BrokerPart
  <2>3. CASE r.kind \notin {"purge", "publish"}
    BY <2>3 DEF Perform, BrokerPart
  <2> QED BY <2>1, <2>2, <2>3
<1>5. evaporated' \subseteq Topics
  BY DEF Perform
<1> QED BY <1>1, <1>2, <1>3, <1>4, <1>5 DEF BrokerPart

LEMMA RoutesTypes ==
  ASSUME routes \in [Processes -> [Names -> Routes]], NEW p \in Processes, NEW r \in Requests
  PROVE  RoutesAfter(p, r) \in [Processes -> [Names -> Routes]]
BY RequestKinds DEF RoutesAfter, Routes

LEMMA MemoryUnchanged ==
  ASSUME MemoryPart, UNCHANGED <<routes, remembered, known>>
  PROVE  MemoryPart'
BY DEF MemoryPart

LEMMA BrokerUnchanged ==
  ASSUME BrokerPart, UNCHANGED brokerVars
  PROVE  BrokerPart'
BY DEF BrokerPart, brokerVars

LEMMA OneFault ==
  ASSUME faults \in 0..MaxFaults, faults < MaxFaults
  PROVE  faults + 1 \in 0..MaxFaults
BY TopologyAssumption

LEMMA InitTypes ==
  ASSUME Init
  PROVE  TypeInv
<1>1. BrokerPart
  BY DEF Init, BrokerPart
<1>2. DriverPart
  BY CallTypes DEF Init, DriverPart, Driven, Ensures, NoCall
<1>3. MemoryPart
  BY CallTypes DEF Init, MemoryPart, Routes
<1>4. BoundPart
  BY TopologyAssumption DEF Init, BoundPart
<1> QED BY <1>1, <1>2, <1>3, <1>4 DEF TypeInv

LEMMA ConnectTypes ==
  ASSUME TypeInv, NEW p \in Processes, connect(p) \/ close(p) \/ connectionLost(p) \/ timeout(p)
  PROVE  TypeInv'
<1>1. BrokerPart'
  BY BrokerUnchanged DEF TypeInv, connect, close, connectionLost, timeout
<1>2. MemoryPart'
  BY MemoryUnchanged DEF TypeInv, connect, close, connectionLost, timeout
<1>3. BoundPart'
  BY OneFault DEF TypeInv, BoundPart, connect, close, connectionLost, timeout, historyVars
<1>4. DriverPart'
  <2>1. CASE connect(p)
    <3>1. Driven("open", inflight[p], plan[p], call[p])
      BY <2>1, DrivenNow DEF TypeInv, Driven, connect
    <3>2. /\ channel' = [channel EXCEPT ![p] = "open"]
          /\ inflight' = [inflight EXCEPT ![p] = inflight[p]]
          /\ plan' = [plan EXCEPT ![p] = plan[p]]
          /\ call' = [call EXCEPT ![p] = call[p]]
      BY <2>1, SelfUpdate DEF TypeInv, connect
    <3> QED BY <3>1, <3>2, DriverStep DEF TypeInv
  <2>2. CASE close(p) \/ connectionLost(p)
    BY <2>2, DroppedTypes DEF TypeInv, close, connectionLost
  <2>3. CASE timeout(p)
    <3>1. Driven(channel[p], inflight[p], plan[p], call[p])
      BY DrivenNow DEF TypeInv
    <3>2. Driven(channel[p], inflight[p], <<>>, NoCall)
      BY <3>1, CallTypes DEF Driven, Ensures, NoCall
    <3>3. /\ channel' = [channel EXCEPT ![p] = channel[p]]
          /\ inflight' = [inflight EXCEPT ![p] = inflight[p]]
          /\ plan' = [plan EXCEPT ![p] = <<>>]
          /\ call' = [call EXCEPT ![p] = NoCall]
      BY <2>3, SelfUpdate DEF TypeInv, timeout
    <3> QED BY <3>2, <3>3, DriverStep DEF TypeInv
  <2> QED BY <2>1, <2>2, <2>3
<1> QED BY <1>1, <1>2, <1>3, <1>4 DEF TypeInv

LEMMA CrashTypes ==
  ASSUME TypeInv, NEW p \in Processes, crash(p)
  PROVE  TypeInv'
<1>1. BrokerPart'
  BY BrokerUnchanged DEF TypeInv, crash
<1>2. MemoryPart'
  <2>1. routes' \in [Processes -> [Names -> Routes]]
    BY DEF TypeInv, MemoryPart, crash, Routes
  <2>2. /\ remembered' \in [Processes -> Calls]
        /\ \A q \in Processes : remembered'[q] # NoCall => Declared(remembered'[q])
    <3> DEFINE none == NoCall
    <3>1. none \in Calls /\ remembered' = [remembered EXCEPT ![p] = none]
      BY CallTypes DEF crash
    <3> HIDE DEF none
    <3>2. remembered' \in [Processes -> Calls]
      BY <3>1 DEF TypeInv, MemoryPart
    <3>3. ASSUME NEW q \in Processes, remembered'[q] # none PROVE Declared(remembered'[q])
      <4>1. remembered'[q] = remembered[q]
        BY <3>1, <3>3 DEF TypeInv, MemoryPart
      <4> QED BY <3>3, <4>1 DEF TypeInv, MemoryPart, none
    <3> QED BY <3>2, <3>3 DEF none
  <2>3. known' \in [Processes -> SUBSET Topics]
    BY DEF TypeInv, MemoryPart, crash
  <2> QED BY <2>1, <2>2, <2>3 DEF MemoryPart
<1>3. BoundPart'
  BY OneFault DEF TypeInv, BoundPart, crash, historyVars
<1>4. DriverPart'
  BY DroppedTypes DEF TypeInv, crash
<1> QED BY <1>1, <1>2, <1>3, <1>4 DEF TypeInv

LEMMA RestartTypes ==
  ASSUME TypeInv, brokerRestarts
  PROVE  TypeInv'
<1>1. BrokerPart'
  BY DEF TypeInv, BrokerPart, brokerRestarts
<1>2. MemoryPart'
  BY MemoryUnchanged DEF TypeInv, brokerRestarts
<1>3. BoundPart'
  BY OneFault DEF TypeInv, BoundPart, brokerRestarts, historyVars
<1>4. DriverPart'
  BY CallTypes DEF brokerRestarts, DriverPart, Driven, Ensures, NoCall
<1> QED BY <1>1, <1>2, <1>3, <1>4 DEF TypeInv

LEMMA PairSeq ==
  ASSUME NEW S, NEW x \in S, NEW y \in S
  PROVE  <<x>> \o <<y>> = <<x, y>>
<1> DEFINE u == <<x>> \o <<y>>
           v == <<x, y>>
<1>1. u \in Seq(S) /\ Len(u) = 2 /\ u[1] = x /\ u[2] = y
  OBVIOUS
<1>2. v \in Seq(S) /\ Len(v) = 2 /\ v[1] = x /\ v[2] = y
  OBVIOUS
<1> HIDE DEF u, v
<1>3. \A i \in 1..Len(u) : u[i] = v[i]
  <2>1. 1..Len(u) = {1, 2}
    BY <1>1
  <2> QED BY <1>1, <1>2, <2>1
<1>4. u = v
  BY <1>1, <1>2, <1>3, SeqEqual
<1> QED BY <1>4 DEF u, v

(* What topicDepth and purgeTopic send about a name the process inspects:  *)
(* nothing that dead-letters, if the process can guess it.                 *)
LEMMA InspectRequests ==
  ASSUME TypeInv, NEW p \in Processes, NEW n \in Inspects[p]
  PROVE  /\ n \in Names
         /\ \E r \in Asked : /\ TopicDepth(p, n, remembered[p]) = <<r>>
                             /\ InspectsGuessable => ~Source(r)
         /\ \E r \in Asked : /\ InspectsGuessable => ~Source(r)
                             /\ \/ PurgeTopic(p, n) = <<r>>
                                \/ PurgeTopic(p, n) = <<r, Purge(n)>>
<1>1. n \in Names
  BY InspectsAssumption
<1>2. InspectsGuessable =>
        (Backend[p] = "simpleamqp" => n \in {deadLetterTopic(t) : t \in Topics})
  BY DEF InspectsGuessable
<1>3. /\ remembered[p] \in Calls
      /\ remembered[p].topic = n => remembered[p].options \in TopicOptions
  <2>1. remembered[p] \in Calls /\ (remembered[p] # NoCall => Declared(remembered[p]))
    BY DEF TypeInv, MemoryPart
  <2>2. remembered[p] = NoCall => remembered[p].topic # n
    BY <1>1, AbsentAssumption DEF NoCall
  <2>3. Declared(remembered[p]) => remembered[p].options \in TopicOptions
    BY DeclarationType DEF Declared
  <2> QED BY <2>1, <2>2, <2>3
<1>4. PICK r \in Asked :
        /\ TopicDepth(p, n, remembered[p]) = <<r>>
        /\ Source(r) => /\ Backend[p] = "simpleamqp"
                        /\ n \notin {deadLetterTopic(t) : t \in Topics}
  BY <1>1, <1>3, DepthRequests
<1>5. CASE Backend[p] = "amqpcpp"
  <2>1. ~Source(Passive(n)) /\ ~Source(Purge(n))
    BY DEF Source, Passive, Purge
  <2>2. Passive(n) \in Asked /\ Purge(n) \in Asked
    BY <1>1, InspectType
  <2>3. TopicDepth(p, n, remembered[p]) = <<Passive(n)>> /\ PurgeTopic(p, n) = <<Purge(n)>>
    BY <1>5 DEF TopicDepth, PurgeTopic
  <2> QED BY <1>1, <2>1, <2>2, <2>3
<1>6. CASE Backend[p] # "amqpcpp"
  <2>1. Backend[p] = "simpleamqp"
    BY <1>6, TopologyAssumption
  <2>2. InspectsGuessable => ~Source(r)
    BY <1>2, <1>4, <2>1
  <2> DEFINE g == Purge(n)
  <2>3. PurgeTopic(p, n) = <<r>> \o <<g>>
    BY <1>4, <1>6 DEF PurgeTopic
  <2>4. <<r>> \o <<g>> = <<r, g>>
    <3>1. g \in Asked
      BY <1>1, InspectType
    <3> HIDE DEF g
    <3> QED BY <1>4, <3>1, PairSeq
  <2> QED BY <1>1, <1>4, <2>2, <2>3, <2>4
<1> QED BY <1>5, <1>6

LEMMA PurgeRequest ==
  ASSUME NEW n \in Names
  PROVE  Purge(n) \in Asked /\ ~Source(Purge(n))
BY InspectType DEF Purge, Source

LEMMA IdleOpen ==
  ASSUME DriverPart, NEW p \in Processes, Idle(p), channel' = channel
  PROVE  channel' = [channel EXCEPT ![p] = "open"]
BY DEF DriverPart, Idle

LEMMA CallsTypes ==
  ASSUME TypeInv, NEW p \in Processes,
         \/ reconnect(p)
         \/ \E t \in Topics, op \in {"declareTopic", "ensureTopic"} :
              \E o \in Declarations[t] : declareTopic(p, t, o, op)
         \/ \E n \in Inspects[p] : topicDepth(p, n) \/ purgeTopic(p, n)
  PROVE  TypeInv'
<1>1. BrokerPart'
  BY BrokerUnchanged DEF TypeInv, reconnect, declareTopic, topicDepth, purgeTopic
<1>2. MemoryPart'
  BY MemoryUnchanged DEF TypeInv, reconnect, declareTopic, topicDepth, purgeTopic
<1>3. BoundPart'
  BY DEF TypeInv, BoundPart, reconnect, declareTopic, topicDepth, purgeTopic, historyVars
<1>4. DriverPart
  BY DEF TypeInv
<1>5. CASE reconnect(p)
  <2> DEFINE t == remembered[p].topic
             o == remembered[p].options
             c == [op |-> "redeclare", topic |-> t, options |-> o]
             s == EnsureTopic(p, t, o)
  <2>1. t \in Topics /\ o \in Declarations[t]
    BY <1>5 DEF TypeInv, MemoryPart, Declared, reconnect
  <2>2. s \in Seq(Asked) /\ s # <<>>
    BY <2>1, EnsureRequests
  <2>3. c \in Calls /\ c # NoCall /\ Declared(c)
    BY <2>1, CallTypes
  <2>4. Begin(p, "redeclare", t, o, s) /\ channel' = [channel EXCEPT ![p] = "open"]
    BY <1>5 DEF reconnect
  <2>c. /\ call' = [call EXCEPT ![p] = c]
        /\ inflight' = [inflight EXCEPT ![p] = Append(inflight[p], Head(s))]
        /\ plan' = [plan EXCEPT ![p] = Tail(s)]
    BY <2>4 DEF Begin
  <2> HIDE DEF t, o, s, c
  <2>5. DriverPart'
    BY <1>4, <2>2, <2>3, <2>4, <2>c, BeginTypes
  <2> QED BY <1>1, <1>2, <1>3, <2>5 DEF TypeInv
<1>6. ASSUME NEW t \in Topics, NEW op \in {"declareTopic", "ensureTopic"},
             NEW o \in Declarations[t], declareTopic(p, t, o, op)
      PROVE  TypeInv'
  <2> DEFINE c == [op |-> op, topic |-> t, options |-> o]
             s == EnsureTopic(p, t, o)
  <2>2. s \in Seq(Asked) /\ s # <<>>
    BY EnsureRequests
  <2>3. c \in Calls /\ c # NoCall /\ Declared(c)
    BY CallTypes
  <2>4. Begin(p, op, t, o, s) /\ Idle(p) /\ channel' = channel
    BY <1>6 DEF declareTopic
  <2>5. channel' = [channel EXCEPT ![p] = "open"]
    BY <1>4, <2>4, IdleOpen
  <2>c. /\ call' = [call EXCEPT ![p] = c]
        /\ inflight' = [inflight EXCEPT ![p] = Append(inflight[p], Head(s))]
        /\ plan' = [plan EXCEPT ![p] = Tail(s)]
    BY <2>4 DEF Begin
  <2> HIDE DEF s, c
  <2>6. DriverPart'
    BY <1>4, <2>2, <2>3, <2>5, <2>c, BeginTypes
  <2> QED BY <1>1, <1>2, <1>3, <2>6 DEF TypeInv
<1>7. ASSUME NEW n \in Inspects[p], topicDepth(p, n)
      PROVE  TypeInv'
  <2> DEFINE c == [op |-> "topicDepth", topic |-> n, options |-> Absent]
             s == TopicDepth(p, n, remembered[p])
  <2>1. n \in Names /\ \E r \in Asked : s = <<r>>
    BY InspectRequests
  <2>2. s \in Seq(Asked) /\ s # <<>>
    BY <2>1
  <2>3. c \in Calls /\ c # NoCall /\ ~Ensures(c)
    BY <2>1, CallTypes
  <2>4. Begin(p, "topicDepth", n, Absent, s) /\ Idle(p) /\ channel' = channel
    BY <1>7 DEF topicDepth
  <2>5. channel' = [channel EXCEPT ![p] = "open"]
    BY <1>4, <2>4, IdleOpen
  <2>c. /\ call' = [call EXCEPT ![p] = c]
        /\ inflight' = [inflight EXCEPT ![p] = Append(inflight[p], Head(s))]
        /\ plan' = [plan EXCEPT ![p] = Tail(s)]
    BY <2>4 DEF Begin
  <2> HIDE DEF s, c
  <2>6. DriverPart'
    BY <1>4, <2>2, <2>3, <2>5, <2>c, BeginTypes
  <2> QED BY <1>1, <1>2, <1>3, <2>6 DEF TypeInv
<1>8. ASSUME NEW n \in Inspects[p], purgeTopic(p, n)
      PROVE  TypeInv'
  <2> DEFINE c == [op |-> "purgeTopic", topic |-> n, options |-> Absent]
             s == PurgeTopic(p, n)
             g == Purge(n)
  <2>1. n \in Names /\ \E r \in Asked : s = <<r>> \/ s = <<r, g>>
    BY InspectRequests
  <2>2. s \in Seq(Asked) /\ s # <<>>
    <3>1. g \in Asked
      BY <2>1, PurgeRequest
    <3> HIDE DEF s, g
    <3>2. PICK r \in Asked : s = <<r>> \/ s = <<r, g>>
      BY <2>1
    <3>3. CASE s = <<r>>
      BY <3>3
    <3>4. CASE s = <<r, g>>
      BY <3>1, <3>4
    <3> QED BY <3>2, <3>3, <3>4
  <2>3. c \in Calls /\ c # NoCall /\ ~Ensures(c)
    BY <2>1, CallTypes
  <2>4. Begin(p, "purgeTopic", n, Absent, s) /\ Idle(p) /\ channel' = channel
    BY <1>8 DEF purgeTopic
  <2>5. channel' = [channel EXCEPT ![p] = "open"]
    BY <1>4, <2>4, IdleOpen
  <2>c. /\ call' = [call EXCEPT ![p] = c]
        /\ inflight' = [inflight EXCEPT ![p] = Append(inflight[p], Head(s))]
        /\ plan' = [plan EXCEPT ![p] = Tail(s)]
    BY <2>4 DEF Begin
  <2> HIDE DEF s, c
  <2>6. DriverPart'
    BY <1>4, <2>2, <2>3, <2>5, <2>c, BeginTypes
  <2> QED BY <1>1, <1>2, <1>3, <2>6 DEF TypeInv
<1> QED BY <1>5, <1>6, <1>7, <1>8

(* The message send() publishes. *)
Message(p, t, override) ==
  LET target == Target(p, t, override) IN
  [kind |-> "publish", name |-> t, group |-> target.group, key |-> target.key,
   expected |-> t \in known[p] /\ (override = EmptyString \/ target.group = NoGroup)]

LEMMA MessageType ==
  ASSUME MemoryPart, NEW p \in Processes, NEW t \in Topics, NEW override \in Overrides
  PROVE  Message(p, t, override) \in Requests /\ ~Source(Message(p, t, override))
<1> DEFINE target == Target(p, t, override)
           e == t \in known[p] /\ (override = EmptyString \/ target.group = NoGroup)
<1>1. t \in Name /\ t \in Names /\ override \in Name
  BY ForensicName, NamesAssumption
<1>2. routes[p][t] \in Routes
  BY <1>1 DEF MemoryPart
<1>3. routes[p][t] # Absent => routes[p][t].group \in Groups /\ routes[p][t].key \in Name
  BY <1>2 DEF Routes
<1>4. target.group \in Groups \cup {NoGroup} /\ target.key \in Name
  BY <1>1, <1>3 DEF Target, SimpleTarget
<1>5. e \in BOOLEAN
  OBVIOUS
<1>6. Message(p, t, override) = [kind |-> "publish", name |-> t, group |-> target.group,
                                 key |-> target.key, expected |-> e]
  BY DEF Message
<1> HIDE DEF target, e
<1> QED BY <1>4, <1>5, <1>6 DEF Requests, Messages, Source

LEMMA SendTypes ==
  ASSUME TypeInv, NEW p \in Processes, NEW t \in Topics, NEW override \in Overrides,
         send(p, t, override)
  PROVE  TypeInv'
<1> DEFINE m == Message(p, t, override)
<1>1. m \in Requests
  BY MessageType DEF TypeInv
<1>2. inflight' = [inflight EXCEPT ![p] = Append(inflight[p], m)]
  BY DEF send, Message
<1>3. BrokerPart' /\ MemoryPart'
  BY BrokerUnchanged, MemoryUnchanged DEF TypeInv, send
<1>4. BoundPart'
  <2>1. sends \in 0..MaxSends /\ sends < MaxSends /\ sends' = sends + 1
    BY DEF TypeInv, BoundPart, send
  <2>2. sends' \in 0..MaxSends
    BY <2>1, TopologyAssumption
  <2> QED BY <2>2 DEF TypeInv, BoundPart, send, historyVars
<1> HIDE DEF m
<1>5. Driven(channel[p], inflight[p], plan[p], call[p]) /\ channel[p] = "open" /\ call[p] = NoCall
  BY DrivenNow DEF TypeInv, send, Idle
<1>6. Append(inflight[p], m) \in Seq(Requests) /\ Append(inflight[p], m) # <<>>
  BY <1>1, <1>5, AppendType DEF Driven
<1>7. Driven(channel[p], Append(inflight[p], m), plan[p], call[p])
  BY <1>5, <1>6 DEF Driven
<1>8. /\ channel' = [channel EXCEPT ![p] = channel[p]]
      /\ plan' = [plan EXCEPT ![p] = plan[p]]
      /\ call' = [call EXCEPT ![p] = call[p]]
  BY SelfUpdate DEF TypeInv, send
<1>9. DriverPart'
  BY <1>2, <1>7, <1>8, DriverStep DEF TypeInv
<1> QED BY <1>3, <1>4, <1>9 DEF TypeInv

LEMMA RefuseTypes ==
  ASSUME TypeInv, NEW p \in Processes, refuse(p)
  PROVE  TypeInv'
<1>1. BrokerPart' /\ MemoryPart'
  BY BrokerUnchanged, MemoryUnchanged DEF TypeInv, refuse
<1>2. BoundPart'
  BY DEF TypeInv, BoundPart, refuse
<1>3. Driven(channel[p], inflight[p], plan[p], call[p])
  BY DrivenNow DEF TypeInv
<1>4. inflight[p] # <<>> /\ channel[p] = "open" /\ Tail(inflight[p]) \in Seq(Requests)
  BY <1>3 DEF Driven, refuse
<1>5. plan' = [plan EXCEPT ![p] = <<>>] /\ call' = [call EXCEPT ![p] = NoCall]
  BY DEF refuse
<1>6. CASE Backend[p] = "amqpcpp"
  <2>1. Driven("broken", <<>>, <<>>, NoCall)
    BY CallTypes DEF Driven, Ensures, NoCall
  <2>2. /\ channel' = [channel EXCEPT ![p] = "broken"]
        /\ inflight' = [inflight EXCEPT ![p] = <<>>]
    BY <1>6 DEF refuse
  <2>3. DriverPart'
    BY <1>5, <2>1, <2>2, DriverStep DEF TypeInv
  <2> QED BY <1>1, <1>2, <2>3 DEF TypeInv
<1>7. CASE Backend[p] # "amqpcpp"
  <2>1. Driven(channel[p], Tail(inflight[p]), <<>>, NoCall)
    BY <1>4, CallTypes DEF Driven, Ensures, NoCall
  <2>2. /\ channel' = [channel EXCEPT ![p] = channel[p]]
        /\ inflight' = [inflight EXCEPT ![p] = Tail(inflight[p])]
    BY <1>7, SelfUpdate DEF refuse, TypeInv
  <2>3. DriverPart'
    BY <1>5, <2>1, <2>2, DriverStep DEF TypeInv
  <2> QED BY <1>1, <1>2, <2>3 DEF TypeInv
<1> QED BY <1>6, <1>7

LEMMA UnawaitedTypes ==
  ASSUME TypeInv, NEW p \in Processes, performUnawaited(p)
  PROVE  TypeInv'
<1>1. Driven(channel[p], inflight[p], plan[p], call[p])
  BY DrivenNow DEF TypeInv
<1>2. /\ inflight[p] \in Seq(Requests) /\ inflight[p] # <<>>
      /\ Head(inflight[p]) \in Requests /\ Tail(inflight[p]) \in Seq(Requests)
  BY <1>1 DEF Driven, performUnawaited
<1>3. BrokerPart' /\ evaporated' \subseteq Topics
  BY <1>2, PerformTypes DEF TypeInv, BoundPart, performUnawaited
<1>4. MemoryPart' /\ BoundPart'
  BY <1>3, MemoryUnchanged DEF TypeInv, BoundPart, performUnawaited
<1>5. call[p] # NoCall => Tail(inflight[p]) # <<>>
  <2> SUFFICES ASSUME call[p] # NoCall PROVE Tail(inflight[p]) # <<>>
    OBVIOUS
  <2>1. Len(inflight[p]) # 1
    BY DEF performUnawaited, Awaited
  <2>2. Len(inflight[p]) \in Nat \ {0} /\ Len(Tail(inflight[p])) = Len(inflight[p]) - 1
    BY <1>2
  <2>3. Len(Tail(inflight[p])) # 0
    BY <2>1, <2>2
  <2> QED BY <1>2, <2>3, EmptySeq
<1>6. channel[p] = "open"
  BY <1>1, <1>2 DEF Driven
<1>7. Driven(channel[p], Tail(inflight[p]), plan[p], call[p])
  BY <1>1, <1>2, <1>5, <1>6 DEF Driven
<1>8. /\ channel' = [channel EXCEPT ![p] = channel[p]]
      /\ inflight' = [inflight EXCEPT ![p] = Tail(inflight[p])]
      /\ plan' = [plan EXCEPT ![p] = plan[p]]
      /\ call' = [call EXCEPT ![p] = call[p]]
  BY SelfUpdate DEF TypeInv, performUnawaited
<1>9. DriverPart'
  BY <1>7, <1>8, DriverStep DEF TypeInv
<1> QED BY <1>3, <1>4, <1>9 DEF TypeInv

LEMMA AwaitedTypes ==
  ASSUME TypeInv, NEW p \in Processes, performAwaited(p)
  PROVE  TypeInv'
<1>1. Driven(channel[p], inflight[p], plan[p], call[p])
  BY DrivenNow DEF TypeInv
<1>2. /\ inflight[p] \in Seq(Requests) /\ inflight[p] # <<>> /\ Head(inflight[p]) \in Requests
      /\ plan[p] \in Seq(Asked) /\ Head(plan[p]) \in Requests /\ Tail(plan[p]) \in Seq(Asked)
  BY <1>1, AskedKinds DEF Driven, performAwaited, Awaited
<1>3. BrokerPart' /\ evaporated' \subseteq Topics
  BY <1>2, PerformTypes DEF TypeInv, BoundPart, performAwaited
<1>4. routes' \in [Processes -> [Names -> Routes]]
  BY <1>2, RoutesTypes DEF TypeInv, MemoryPart, performAwaited
<1>5. MemoryPart' /\ BoundPart'
  BY <1>3, <1>4 DEF TypeInv, BoundPart, MemoryPart, performAwaited
<1>6. channel[p] = "open" /\ call[p] # NoCall
  BY <1>1, <1>2 DEF Driven, performAwaited, Awaited
<1>7. <<Head(plan[p])>> \in Seq(Requests) /\ <<Head(plan[p])>> # <<>>
  BY <1>2
<1>8. Driven(channel[p], <<Head(plan[p])>>, Tail(plan[p]), call[p])
  BY <1>1, <1>2, <1>6, <1>7 DEF Driven
<1>9. /\ channel' = [channel EXCEPT ![p] = channel[p]]
      /\ inflight' = [inflight EXCEPT ![p] = <<Head(plan[p])>>]
      /\ plan' = [plan EXCEPT ![p] = Tail(plan[p])]
      /\ call' = [call EXCEPT ![p] = call[p]]
  BY SelfUpdate DEF TypeInv, performAwaited
<1>10. DriverPart'
  BY <1>8, <1>9, DriverStep DEF TypeInv
<1> QED BY <1>3, <1>5, <1>10 DEF TypeInv

(* A declaration that returned goes on to the depth of its topic. *)
LEMMA DepthAfter ==
  ASSUME NEW p \in Processes, NEW c \in Calls, Ensures(c), Declared(c), NEW last,
         last = [op |-> "ensureTopic", topic |-> c.topic, options |-> c.options]
  PROVE  /\ last \in Calls /\ last # NoCall /\ Declared(last)
         /\ \E r \in Asked :
              /\ TopicDepth(p, c.topic, last) = <<r>>
              /\ Source(r) => r.name = c.topic /\ c.options.deadLetter
<1>1. c.topic \in Topics /\ c.options \in Declarations[c.topic]
  BY DEF Declared
<1>2. last \in Calls /\ last # NoCall /\ Declared(last)
  BY <1>1, CallTypes
<1>3. c.topic \in Names /\ c.options \in TopicOptions
  BY <1>1, ForensicName, DeclarationType
<1>4. last.topic = c.topic /\ last.options = c.options
  OBVIOUS
<1>5. \E r \in Asked :
        /\ TopicDepth(p, c.topic, last) = <<r>>
        /\ Source(r) => r.name = c.topic /\ last.options.deadLetter
  BY <1>2, <1>3, <1>4, DepthRequests
<1> QED BY <1>2, <1>4, <1>5

LEMMA LastTypes ==
  ASSUME TypeInv, NEW p \in Processes, performLast(p)
  PROVE  TypeInv'
<1> DEFINE c == call[p]
           last == [op |-> "ensureTopic", topic |-> c.topic, options |-> c.options]
           ensured == c.op \in {"declareTopic", "ensureTopic"}
<1>1. Driven(channel[p], inflight[p], plan[p], call[p])
  BY DrivenNow DEF TypeInv
<1>2. /\ inflight[p] \in Seq(Requests) /\ inflight[p] # <<>> /\ Head(inflight[p]) \in Requests
      /\ plan[p] = <<>> /\ c \in Calls /\ c # NoCall /\ (Ensures(c) => Declared(c))
  BY <1>1 DEF Driven, performLast, Awaited
<1>3. BrokerPart' /\ evaporated' \subseteq Topics
  BY <1>2, PerformTypes DEF TypeInv, BoundPart, performLast
<1>4. BoundPart'
  BY <1>3 DEF TypeInv, BoundPart, performLast
<1>5. routes' \in [Processes -> [Names -> Routes]]
  BY <1>2, RoutesTypes DEF TypeInv, MemoryPart, performLast
<1>6. ensured => /\ Ensures(c) /\ c.topic \in Topics
                 /\ last \in Calls /\ last # NoCall /\ Declared(last)
  <2> SUFFICES ASSUME ensured
               PROVE  /\ Ensures(c) /\ c.topic \in Topics
                      /\ last \in Calls /\ last # NoCall /\ Declared(last)
    OBVIOUS
  <2>1. Ensures(c)
    BY DEF Ensures
  <2>2. Declared(c)
    BY <1>2, <2>1
  <2> HIDE DEF c
  <2> QED BY <1>2, <2>1, <2>2, DepthAfter DEF Declared
<1>7. /\ remembered' = IF ensured THEN [remembered EXCEPT ![p] = last] ELSE remembered
      /\ known' = IF ensured /\ c.options.durable
                  THEN [known EXCEPT ![p] = @ \cup {c.topic}] ELSE known
  BY DEF performLast
<1>8. MemoryPart'
  <2> HIDE DEF c, last, ensured
  <2>1. remembered' \in [Processes -> Calls]
    BY <1>6, <1>7 DEF TypeInv, MemoryPart
  <2>2. known' \in [Processes -> SUBSET Topics]
    BY <1>6, <1>7 DEF TypeInv, MemoryPart
  <2>3. ASSUME NEW q \in Processes, remembered'[q] # NoCall PROVE Declared(remembered'[q])
    <3>1. \/ remembered'[q] = remembered[q]
          \/ ensured /\ remembered'[q] = last
      BY <1>7 DEF TypeInv, MemoryPart
    <3>2. CASE remembered'[q] = remembered[q]
      BY <2>3, <3>2 DEF TypeInv, MemoryPart
    <3>3. CASE ensured /\ remembered'[q] = last
      BY <1>6, <3>3
    <3> QED BY <3>1, <3>2, <3>3
  <2> QED BY <1>5, <2>1, <2>2, <2>3 DEF MemoryPart
<1>9. channel[p] = "open"
  BY <1>1, <1>2 DEF Driven
<1>10. /\ channel' = [channel EXCEPT ![p] = channel[p]]
       /\ plan' = [plan EXCEPT ![p] = plan[p]]
  BY SelfUpdate DEF TypeInv, performLast
<1>11. CASE c.op = "declareTopic"
  <2> DEFINE s == TopicDepth(p, c.topic, last)
             d == [op |-> "topicDepth", topic |-> c.topic, options |-> Absent]
  <2>1. ensured
    BY <1>11
  <2>2. Ensures(c) /\ Declared(c)
    BY <1>2, <1>6, <2>1
  <2>3. \E r \in Asked : s = <<r>>
    <3> HIDE DEF c
    <3> QED BY <1>2, <2>2, DepthAfter
  <2>4. call' = [call EXCEPT ![p] = d] /\ inflight' = [inflight EXCEPT ![p] = s]
    BY <1>11 DEF performLast
  <2>5. d \in Calls /\ d # NoCall /\ ~Ensures(d)
    <3>1. c.topic \in Names
      BY <1>6, <2>1, ForensicName
    <3> QED BY <3>1, CallTypes
  <2>6. s \in Seq(Requests) /\ s # <<>>
    <3> HIDE DEF s
    <3> QED BY <2>3, AskedKinds
  <2> HIDE DEF s, d, c, last, ensured
  <2>7. Driven(channel[p], s, plan[p], d)
    BY <1>2, <1>9, <2>5, <2>6 DEF Driven
  <2>8. DriverPart'
    BY <1>10, <2>4, <2>7, DriverStep DEF TypeInv
  <2> QED BY <1>3, <1>4, <1>8, <2>8 DEF TypeInv
<1>12. CASE c.op # "declareTopic"
  <2>1. call' = [call EXCEPT ![p] = NoCall] /\ inflight' = [inflight EXCEPT ![p] = <<>>]
    BY <1>12 DEF performLast
  <2>2. Driven(channel[p], <<>>, plan[p], NoCall)
    BY <1>2, <1>9, CallTypes DEF Driven, Ensures, NoCall
  <2>3. DriverPart'
    BY <1>10, <2>1, <2>2, DriverStep DEF TypeInv
  <2> QED BY <1>3, <1>4, <1>8, <2>3 DEF TypeInv
<1> QED BY <1>11, <1>12

LEMMA TypesHold ==
  Spec => []TypeInv
<1>1. Init => TypeInv
  BY InitTypes
<1>2. TypeInv /\ [Next]_vars => TypeInv'
  <2> SUFFICES ASSUME TypeInv, [Next]_vars PROVE TypeInv'
    OBVIOUS
  <2>1. CASE UNCHANGED vars
    BY <2>1 DEF vars, brokerVars, processVars, historyVars, TypeInv, BrokerPart, DriverPart,
                MemoryPart, BoundPart
  <2>2. CASE brokerRestarts
    BY <2>2, RestartTypes
  <2>3. ASSUME NEW p \in Processes,
               connect(p) \/ close(p) \/ connectionLost(p) \/ timeout(p)
        PROVE  TypeInv'
    BY <2>3, ConnectTypes
  <2>4. ASSUME NEW p \in Processes, crash(p) PROVE TypeInv'
    BY <2>4, CrashTypes
  <2>5. ASSUME NEW p \in Processes,
               \/ reconnect(p)
               \/ \E t \in Topics, op \in {"declareTopic", "ensureTopic"} :
                    \E o \in Declarations[t] : declareTopic(p, t, o, op)
               \/ \E n \in Inspects[p] : topicDepth(p, n) \/ purgeTopic(p, n)
        PROVE  TypeInv'
    BY <2>5, CallsTypes
  <2>6. ASSUME NEW p \in Processes, NEW t \in Topics, NEW override \in Overrides,
               send(p, t, override)
        PROVE  TypeInv'
    BY <2>6, SendTypes
  <2>7. ASSUME NEW p \in Processes, refuse(p) PROVE TypeInv'
    BY <2>7, RefuseTypes
  <2>8. ASSUME NEW p \in Processes, performUnawaited(p) PROVE TypeInv'
    BY <2>8, UnawaitedTypes
  <2>9. ASSUME NEW p \in Processes, performAwaited(p) PROVE TypeInv'
    BY <2>9, AwaitedTypes
  <2>10. ASSUME NEW p \in Processes, performLast(p) PROVE TypeInv'
    BY <2>10, LastTypes
  <2> QED
    BY <2>1, <2>2, <2>3, <2>4, <2>5, <2>6, <2>7, <2>8, <2>9, <2>10, Zenon DEF Next
<1> QED BY <1>1, <1>2, PTL DEF Spec

-----------------------------------------------------------------------------
(* Forensics first.                                                        *)

(* What a topic that dead-letters needs is at the broker: the exchange,    *)
(* the forensic queue, and the binding of one to the other.                *)
Kept(ex, qs, bs, t) ==
  /\ ex[kDeadLetterExchange] = DeadLetters
  /\ qs[deadLetterTopic(t)] = ForensicArguments(t)
  /\ [group |-> kDeadLetterExchange, name |-> deadLetterTopic(t), key |-> t] \in bs

(* Nothing that dead-letters is on its way to the broker too early. *)
Careful(ex, qs, bs, fl) ==
  \A k \in DOMAIN fl : Source(fl[k]) => fl[k].name \in Topics /\ Kept(ex, qs, bs, fl[k].name)

(* How far the declaration of t is, x being the request it waits for and   *)
(* pl what it has yet to send: the forensic part is done, or x is its      *)
(* first, second or third request.                                         *)
Done(ex, qs, bs, pl, t) == Kept(ex, qs, bs, t) /\ OnlySource(pl, 0, t)

AtExchange(x, pl, t) ==
  /\ x = ForensicExchange
  /\ Len(pl) >= 3 /\ pl[1] = ForensicQueue(t) /\ pl[2] = ForensicBind(t)
  /\ OnlySource(pl, 2, t)

AtQueue(ex, x, pl, t) ==
  /\ x = ForensicQueue(t)
  /\ Len(pl) >= 2 /\ pl[1] = ForensicBind(t)
  /\ OnlySource(pl, 1, t)
  /\ ex[kDeadLetterExchange] = DeadLetters

AtBind(ex, qs, x, pl, t) ==
  /\ x = ForensicBind(t)
  /\ Len(pl) >= 1
  /\ OnlySource(pl, 0, t)
  /\ ex[kDeadLetterExchange] = DeadLetters
  /\ qs[deadLetterTopic(t)] = ForensicArguments(t)

NoSource(s) == \A k \in DOMAIN s : ~Source(s[k])

DeadLettering(c) == Ensures(c) /\ c.options.deadLetter

Chain(ex, qs, bs, x, pl, c) ==
  /\ ~DeadLettering(c) => NoSource(pl)
  /\ DeadLettering(c) => \/ Done(ex, qs, bs, pl, c.topic)
                         \/ AtExchange(x, pl, c.topic)
                         \/ AtQueue(ex, x, pl, c.topic)
                         \/ AtBind(ex, qs, x, pl, c.topic)

LastOf(s) == s[Len(s)]

OrderInv ==
  /\ \A t \in Topics : queues[t] # Absent /\ queues[t].deadLetter =>
       Kept(exchanges, queues, bindings, t)
  /\ \A p \in Processes :
       /\ Careful(exchanges, queues, bindings, inflight[p])
       /\ Chain(exchanges, queues, bindings, LastOf(inflight[p]), plan[p], call[p])

(* The broker only gets more, as long as it stays up. *)
Grown(ex, qs, bs, ex2, qs2, bs2) ==
  /\ \A g \in Groups : ex[g] # Absent => ex2[g] = ex[g]
  /\ \A n \in Names : qs[n] # Absent => qs2[n] = qs[n]
  /\ bs \subseteq bs2

LEMMA PerformGrows ==
  ASSUME BrokerPart, NEW r \in Requests, ~Refuses(r), Perform(r)
  PROVE  Grown(exchanges, queues, bindings, exchanges', queues', bindings')
<1> USE RequestKinds
<1>1. ASSUME NEW g \in Groups, exchanges[g] # Absent PROVE exchanges'[g] = exchanges[g]
  BY <1>1 DEF Perform, Refuses, BrokerPart
<1>2. ASSUME NEW n \in Names, queues[n] # Absent PROVE queues'[n] = queues[n]
  BY <1>2 DEF Perform, Refuses, BrokerPart
<1>3. bindings \subseteq bindings'
  BY DEF Perform
<1> QED BY <1>1, <1>2, <1>3 DEF Grown

LEMMA Present ==
  /\ DeadLetters # Absent /\ kDeadLetterExchange \in Groups
  /\ \A t \in Topics : ForensicArguments(t) # Absent
  /\ \A a \in QueueArguments : a # Absent
<1>1. DeadLetters \in ExchangeArguments
  BY DEF DeadLetters, ExchangeArguments
<1> QED BY <1>1, AbsentAssumption, ForensicTypes DEF Groups

LEMMA KeptGrows ==
  ASSUME NEW t \in Topics, NEW ex, NEW qs, NEW bs, NEW ex2, NEW qs2, NEW bs2,
         Grown(ex, qs, bs, ex2, qs2, bs2), Kept(ex, qs, bs, t)
  PROVE  Kept(ex2, qs2, bs2, t)
BY Present, ForensicName DEF Kept, Grown

LEMMA CarefulGrows ==
  ASSUME NEW fl, NEW ex, NEW qs, NEW bs, NEW ex2, NEW qs2, NEW bs2,
         Grown(ex, qs, bs, ex2, qs2, bs2), Careful(ex, qs, bs, fl)
  PROVE  Careful(ex2, qs2, bs2, fl)
BY KeptGrows DEF Careful

LEMMA ChainGrows ==
  ASSUME NEW x, NEW pl, NEW c, Ensures(c) => Declared(c),
         NEW ex, NEW qs, NEW bs, NEW ex2, NEW qs2, NEW bs2,
         Grown(ex, qs, bs, ex2, qs2, bs2), Chain(ex, qs, bs, x, pl, c)
  PROVE  Chain(ex2, qs2, bs2, x, pl, c)
<1> SUFFICES ASSUME DeadLettering(c) PROVE Chain(ex2, qs2, bs2, x, pl, c)
  BY DEF Chain
<1>1. c.topic \in Topics
  BY DEF DeadLettering, Declared
<1>2. ex[kDeadLetterExchange] = DeadLetters => ex2[kDeadLetterExchange] = DeadLetters
  BY Present DEF Grown
<1>3. qs[deadLetterTopic(c.topic)] = ForensicArguments(c.topic)
        => qs2[deadLetterTopic(c.topic)] = ForensicArguments(c.topic)
  BY <1>1, Present, ForensicName DEF Grown
<1>4. CASE Done(ex, qs, bs, pl, c.topic)
  BY <1>1, <1>4, KeptGrows DEF Done, Chain
<1>5. CASE AtExchange(x, pl, c.topic)
  BY <1>5 DEF Chain
<1>6. CASE AtQueue(ex, x, pl, c.topic)
  <2>1. AtQueue(ex2, x, pl, c.topic)
    BY <1>2, <1>6 DEF AtQueue
  <2> QED BY <2>1 DEF Chain
<1>7. CASE AtBind(ex, qs, x, pl, c.topic)
  <2>1. AtBind(ex2, qs2, x, pl, c.topic)
    BY <1>2, <1>3, <1>7 DEF AtBind
  <2> QED BY <2>1 DEF Chain
<1> QED BY <1>4, <1>5, <1>6, <1>7 DEF Chain

(* One process goes on while the broker only gets more. *)
LEMMA OrderStep ==
  ASSUME TypeInv, OrderInv, NEW p \in Processes, NEW fl, NEW pl, NEW c,
         inflight' = [inflight EXCEPT ![p] = fl], plan' = [plan EXCEPT ![p] = pl],
         call' = [call EXCEPT ![p] = c],
         Grown(exchanges, queues, bindings, exchanges', queues', bindings'),
         \A t \in Topics : queues'[t] # Absent /\ queues'[t].deadLetter =>
           Kept(exchanges', queues', bindings', t),
         Careful(exchanges', queues', bindings', fl),
         Chain(exchanges', queues', bindings', LastOf(fl), pl, c)
  PROVE  OrderInv'
<1>1. ASSUME NEW q \in Processes
      PROVE  /\ Careful(exchanges', queues', bindings', inflight'[q])
             /\ Chain(exchanges', queues', bindings', LastOf(inflight'[q]), plan'[q], call'[q])
  <2>1. CASE q = p
    <3>1. inflight'[q] = fl /\ plan'[q] = pl /\ call'[q] = c
      BY <2>1 DEF TypeInv, DriverPart
    <3> QED BY <3>1
  <2>2. CASE q # p
    <3>1. inflight'[q] = inflight[q] /\ plan'[q] = plan[q] /\ call'[q] = call[q]
      BY <2>2 DEF TypeInv, DriverPart
    <3>2. Ensures(call[q]) => Declared(call[q])
      BY DrivenNow DEF TypeInv, Driven
    <3>3. /\ Careful(exchanges, queues, bindings, inflight[q])
          /\ Chain(exchanges, queues, bindings, LastOf(inflight[q]), plan[q], call[q])
      BY DEF OrderInv
    <3>4. /\ Careful(exchanges', queues', bindings', inflight[q])
          /\ Chain(exchanges', queues', bindings', LastOf(inflight[q]), plan[q], call[q])
      BY <3>2, <3>3, CarefulGrows, ChainGrows
    <3> QED BY <3>1, <3>4
  <2> QED BY <2>1, <2>2
<1>2. \A t \in Topics : (queues[t] # Absent /\ queues[t].deadLetter)' =>
        Kept(exchanges', queues', bindings', t)
  OBVIOUS
<1> QED BY <1>1, <1>2 DEF OrderInv

(* ... and the broker does nothing. *)
LEMMA OrderLocal ==
  ASSUME TypeInv, OrderInv, NEW p \in Processes, NEW fl, NEW pl, NEW c,
         inflight' = [inflight EXCEPT ![p] = fl], plan' = [plan EXCEPT ![p] = pl],
         call' = [call EXCEPT ![p] = c], UNCHANGED brokerVars,
         Careful(exchanges, queues, bindings, fl),
         Chain(exchanges, queues, bindings, LastOf(fl), pl, c)
  PROVE  OrderInv'
<1>1. exchanges' = exchanges /\ queues' = queues /\ bindings' = bindings
  BY DEF brokerVars
<1>2. Grown(exchanges, queues, bindings, exchanges', queues', bindings')
  BY <1>1 DEF Grown
<1>3. \A t \in Topics : queues'[t] # Absent /\ queues'[t].deadLetter =>
        Kept(exchanges', queues', bindings', t)
  BY <1>1 DEF OrderInv
<1>4. /\ Careful(exchanges', queues', bindings', fl)
      /\ Chain(exchanges', queues', bindings', LastOf(fl), pl, c)
  BY <1>1
<1> QED BY <1>2, <1>3, <1>4, OrderStep

(* Performing a request that was not too early leaves no queue that        *)
(* dead-letters without its forensic one.                                  *)
LEMMA PerformKeeps ==
  ASSUME TypeInv, OrderInv, NEW p \in Processes, inflight[p] # <<>>,
         ~Refuses(Head(inflight[p])), Perform(Head(inflight[p]))
  PROVE  /\ Grown(exchanges, queues, bindings, exchanges', queues', bindings')
         /\ \A t \in Topics : queues'[t] # Absent /\ queues'[t].deadLetter =>
              Kept(exchanges', queues', bindings', t)
<1> DEFINE r == Head(inflight[p])
<1>1. inflight[p] \in Seq(Requests) /\ r \in Requests /\ r = inflight[p][1] /\ 1 \in DOMAIN inflight[p]
  BY DrivenNow DEF TypeInv, Driven
<1>2. ~Refuses(r) /\ Perform(r)
  OBVIOUS
<1>3. Source(r) => r.name \in Topics /\ Kept(exchanges, queues, bindings, r.name)
  BY <1>1 DEF OrderInv, Careful
<1> HIDE DEF r
<1>4. Grown(exchanges, queues, bindings, exchanges', queues', bindings')
  BY <1>1, <1>2, PerformGrows DEF TypeInv
<1>5. ASSUME NEW t \in Topics, queues'[t] # Absent, queues'[t].deadLetter
      PROVE  Kept(exchanges', queues', bindings', t)
  <2>1. t \in Names
    BY ForensicName
  <2>2. CASE queues'[t] = queues[t]
    <3>1. Kept(exchanges, queues, bindings, t)
      BY <1>5, <2>2 DEF OrderInv
    <3> QED BY <1>4, <3>1, KeptGrows
  <2>3. CASE queues'[t] # queues[t]
    <3>1. r.kind = "queue" /\ r.name = t /\ queues'[t] = r.properties
      BY <1>1, <1>2, <2>1, <2>3, RequestKinds DEF Perform, TypeInv, BrokerPart
    <3>2. Source(r)
      BY <1>5, <3>1 DEF Source
    <3>3. Kept(exchanges, queues, bindings, t)
      BY <1>3, <3>1, <3>2
    <3> QED BY <1>4, <3>3, KeptGrows
  <2> QED BY <2>2, <2>3
<1> QED BY <1>4, <1>5

LEMMA TailFacts ==
  ASSUME NEW S, NEW s \in Seq(S), s # <<>>
  PROVE  /\ DOMAIN s = 1..Len(s) /\ Len(s) \in Nat \ {0}
         /\ Head(s) = s[1] /\ 1 \in DOMAIN s /\ s[1] \in S
         /\ Tail(s) \in Seq(S) /\ Len(Tail(s)) = Len(s) - 1
         /\ \A k \in DOMAIN Tail(s) : k \in Nat \ {0} /\ k + 1 \in DOMAIN s /\ Tail(s)[k] = s[k + 1]
OBVIOUS

LEMMA OnlySourceTail ==
  ASSUME NEW s \in Seq(Asked), s # <<>>, NEW t, NEW n \in Nat, NEW m \in Nat, n <= m + 1,
         OnlySource(s, n, t)
  PROVE  OnlySource(Tail(s), m, t)
<1> SUFFICES ASSUME NEW k \in DOMAIN Tail(s), k > m, Source(Tail(s)[k])
             PROVE  Tail(s)[k].name = t
  BY DEF OnlySource
<1>1. k \in Nat /\ k + 1 \in DOMAIN s /\ Tail(s)[k] = s[k + 1]
  BY TailFacts
<1>2. k + 1 > n
  BY <1>1
<1> QED BY <1>1, <1>2 DEF OnlySource

LEMMA CarefulTail ==
  ASSUME NEW s \in Seq(Requests), s # <<>>, NEW ex, NEW qs, NEW bs, Careful(ex, qs, bs, s)
  PROVE  Careful(ex, qs, bs, Tail(s))
BY TailFacts DEF Careful

LEMMA CarefulEmpty ==
  ASSUME NEW ex, NEW qs, NEW bs, NEW x
  PROVE  /\ Careful(ex, qs, bs, <<>>)
         /\ Chain(ex, qs, bs, x, <<>>, NoCall)
<1>1. DOMAIN <<>> = {}
  OBVIOUS
<1>2. ~DeadLettering(NoCall)
  BY DEF DeadLettering, Ensures, NoCall
<1> QED BY <1>1, <1>2 DEF Careful, Chain, NoSource

LEMMA CarefulOne ==
  ASSUME NEW ex, NEW qs, NEW bs, NEW r,
         Source(r) => r.name \in Topics /\ Kept(ex, qs, bs, r.name)
  PROVE  Careful(ex, qs, bs, <<r>>) /\ LastOf(<<r>>) = r
<1>1. DOMAIN <<r>> = {1} /\ <<r>>[1] = r /\ Len(<<r>>) = 1
  OBVIOUS
<1> QED BY <1>1 DEF Careful, LastOf

LEMMA CarefulAppend ==
  ASSUME NEW s \in Seq(Requests), NEW r \in Requests, NEW ex, NEW qs, NEW bs,
         Careful(ex, qs, bs, s), ~Source(r)
  PROVE  Careful(ex, qs, bs, Append(s, r)) /\ LastOf(Append(s, r)) = r
<1>1. /\ Len(Append(s, r)) = Len(s) + 1 /\ Append(s, r)[Len(s) + 1] = r
      /\ DOMAIN Append(s, r) = 1..(Len(s) + 1) /\ Len(s) \in Nat /\ DOMAIN s = 1..Len(s)
  OBVIOUS
<1>2. \A k \in 1..Len(s) : Append(s, r)[k] = s[k]
  OBVIOUS
<1>3. ASSUME NEW k \in DOMAIN Append(s, r), Source(Append(s, r)[k])
      PROVE  Append(s, r)[k].name \in Topics /\ Kept(ex, qs, bs, Append(s, r)[k].name)
  <2>1. k # Len(s) + 1
    BY <1>1, <1>3
  <2>2. k \in 1..Len(s)
    BY <1>1, <2>1
  <2> QED BY <1>1, <1>2, <1>3, <2>2 DEF Careful
<1> QED BY <1>1, <1>3 DEF Careful, LastOf

(* The declaration goes on to its next request. *)
LEMMA ChainStep ==
  ASSUME TypeInv, NEW x \in Requests, ~Refuses(x), Perform(x),
         NEW pl \in Seq(Asked), pl # <<>>, NEW c, Ensures(c) => Declared(c),
         Chain(exchanges, queues, bindings, x, pl, c)
  PROVE  /\ Chain(exchanges', queues', bindings', Head(pl), Tail(pl), c)
         /\ Careful(exchanges', queues', bindings', <<Head(pl)>>)
<1> DEFINE t == c.topic
           f == deadLetterTopic(t)
<1>1. Grown(exchanges, queues, bindings, exchanges', queues', bindings')
  BY PerformGrows DEF TypeInv
<1>2. Chain(exchanges', queues', bindings', x, pl, c)
  BY <1>1, ChainGrows
<1>3. /\ DOMAIN pl = 1..Len(pl) /\ Len(pl) \in Nat \ {0} /\ Head(pl) = pl[1] /\ 1 \in DOMAIN pl
      /\ Tail(pl) \in Seq(Asked) /\ Len(Tail(pl)) = Len(pl) - 1
      /\ \A k \in DOMAIN Tail(pl) : k \in Nat \ {0} /\ k + 1 \in DOMAIN pl /\ Tail(pl)[k] = pl[k + 1]
  BY TailFacts
<1>4. ~Source(ForensicQueue(t)) \/ ~DeadLettering(c)
  <2> SUFFICES ASSUME DeadLettering(c) PROVE ~Source(ForensicQueue(t))
    OBVIOUS
  <2>1. t \in Topics
    BY DEF DeadLettering, Declared
  <2> QED BY <2>1, ForensicTypes DEF Source, ForensicQueue, Queue
<1>5. CASE ~DeadLettering(c)
  <2>1. NoSource(Tail(pl)) /\ ~Source(Head(pl))
    BY <1>2, <1>3, <1>5 DEF Chain, NoSource
  <2> QED BY <1>5, <2>1, CarefulOne DEF Chain
<1>6. CASE DeadLettering(c)
  <2>1. t \in Topics /\ f \in Names
    BY <1>6, ForensicName DEF DeadLettering, Declared
  <2>2. ASSUME Kept(exchanges', queues', bindings', t), OnlySource(pl, 0, t)
        PROVE  /\ Chain(exchanges', queues', bindings', Head(pl), Tail(pl), c)
               /\ Careful(exchanges', queues', bindings', <<Head(pl)>>)
    <3>1. OnlySource(Tail(pl), 0, t)
      BY <2>2, OnlySourceTail
    <3>2. Source(Head(pl)) => Head(pl).name = t
      BY <1>3, <2>2 DEF OnlySource
    <3>3. Careful(exchanges', queues', bindings', <<Head(pl)>>)
      BY <2>1, <2>2, <3>2, CarefulOne
    <3> QED BY <1>6, <2>2, <3>1, <3>3 DEF Chain, Done
  <2>3. CASE Done(exchanges', queues', bindings', pl, t)
    BY <2>2, <2>3 DEF Done
  <2>4. CASE AtExchange(x, pl, t)
    <3>1. exchanges'[kDeadLetterExchange] = DeadLetters
      BY <2>4, Present DEF AtExchange, Perform, ForensicExchange, Exchange, DeadLetters,
                           TypeInv, BrokerPart
    <3>2. Head(pl) = ForensicQueue(t)
      BY <1>3, <2>4 DEF AtExchange
    <3>3. Tail(pl)[1] = ForensicBind(t) /\ Len(Tail(pl)) >= 2
      BY <1>3, <2>4 DEF AtExchange
    <3>4. OnlySource(Tail(pl), 1, t)
      BY <2>4, OnlySourceTail DEF AtExchange
    <3>5. AtQueue(exchanges', Head(pl), Tail(pl), t)
      BY <3>1, <3>2, <3>3, <3>4 DEF AtQueue
    <3>6. Careful(exchanges', queues', bindings', <<Head(pl)>>)
      BY <1>4, <1>6, <3>2, CarefulOne
    <3> QED BY <1>6, <3>5, <3>6 DEF Chain
  <2>5. CASE AtQueue(exchanges', x, pl, t)
    <3>1. queues'[f] = ForensicArguments(t)
      BY <2>1, <2>5 DEF AtQueue, Perform, ForensicQueue, Queue, TypeInv, BrokerPart
    <3>2. Head(pl) = ForensicBind(t)
      BY <1>3, <2>5 DEF AtQueue
    <3>3. Len(Tail(pl)) >= 1
      BY <1>3, <2>5 DEF AtQueue
    <3>4. OnlySource(Tail(pl), 0, t)
      BY <2>5, OnlySourceTail DEF AtQueue
    <3>5. AtBind(exchanges', queues', Head(pl), Tail(pl), t)
      BY <2>5, <3>1, <3>2, <3>3, <3>4 DEF AtBind, AtQueue
    <3>6. ~Source(Head(pl))
      BY <3>2 DEF Source, ForensicBind, Bind
    <3>7. Careful(exchanges', queues', bindings', <<Head(pl)>>)
      BY <3>6, CarefulOne
    <3> QED BY <1>6, <3>5, <3>7 DEF Chain
  <2>6. CASE AtBind(exchanges', queues', x, pl, t)
    <3>1. [group |-> kDeadLetterExchange, name |-> f, key |-> t] \in bindings'
      BY <2>6 DEF AtBind, Perform, ForensicBind, Bind
    <3>2. Kept(exchanges', queues', bindings', t) /\ OnlySource(pl, 0, t)
      BY <2>6, <3>1 DEF AtBind, Kept
    <3> QED BY <2>2, <3>2
  <2> QED BY <1>2, <1>6, <2>3, <2>4, <2>5, <2>6 DEF Chain
<1> QED BY <1>5, <1>6

LEMMA OrderNow ==
  ASSUME TypeInv, OrderInv, NEW p \in Processes
  PROVE  /\ Driven(channel[p], inflight[p], plan[p], call[p])
         /\ inflight[p] \in Seq(Requests)
         /\ Careful(exchanges, queues, bindings, inflight[p])
         /\ Chain(exchanges, queues, bindings, LastOf(inflight[p]), plan[p], call[p])
BY DrivenNow DEF TypeInv, OrderInv, Driven

LEMMA RestartOrder ==
  ASSUME TypeInv, OrderInv, brokerRestarts
  PROVE  OrderInv'
<1>1. ASSUME NEW t \in Topics, queues'[t] # Absent, queues'[t].deadLetter
      PROVE  Kept(exchanges', queues', bindings', t)
  <2> DEFINE f == deadLetterTopic(t)
             g == kDeadLetterExchange
             b == [group |-> g, name |-> f, key |-> t]
  <2>1. t \in Names /\ f \in Names /\ g \in Groups
    BY ForensicName, Present
  <2>2. queues'[t] = queues[t]
    BY <1>1, <2>1 DEF brokerRestarts
  <2>3. Kept(exchanges, queues, bindings, t)
    BY <1>1, <2>2 DEF OrderInv
  <2>4. exchanges[g] # Absent /\ exchanges[g].durable
    BY <2>3, Present DEF Kept, DeadLetters
  <2>5. queues[f] # Absent /\ queues[f].durable
    BY <2>3, Present, ForensicTypes DEF Kept
  <2>6. exchanges'[g] = exchanges[g]
    BY <2>1, <2>4 DEF brokerRestarts
  <2>7. queues'[f] = queues[f]
    BY <2>1, <2>5 DEF brokerRestarts
  <2>8. b \in bindings /\ b.group = g /\ b.name = f
    BY <2>3 DEF Kept
  <2>9. b \in bindings'
    <3> HIDE DEF b, f, g
    <3> QED BY <2>4, <2>5, <2>8 DEF brokerRestarts
  <2> QED BY <2>3, <2>6, <2>7, <2>9 DEF Kept
<1>2. ASSUME NEW p \in Processes
      PROVE  /\ Careful(exchanges', queues', bindings', inflight'[p])
             /\ Chain(exchanges', queues', bindings', LastOf(inflight'[p]), plan'[p], call'[p])
  <2>1. inflight'[p] = <<>> /\ plan'[p] = <<>> /\ call'[p] = NoCall
    BY DEF brokerRestarts
  <2> QED BY <2>1, CarefulEmpty
<1>3. \A t \in Topics : (queues[t] # Absent /\ queues[t].deadLetter)' =>
        Kept(exchanges', queues', bindings', t)
  BY <1>1
<1> QED BY <1>2, <1>3 DEF OrderInv

(* The call ends, and what was in flight is lost or goes on. *)
LEMMA EndOrder ==
  ASSUME TypeInv, OrderInv, NEW p \in Processes,
         close(p) \/ connectionLost(p) \/ crash(p) \/ timeout(p) \/ refuse(p) \/ connect(p)
  PROVE  OrderInv'
<1>1. UNCHANGED brokerVars
  BY DEF close, connectionLost, crash, timeout, refuse, connect
<1>2. CASE Dropped(p)
  <2>1. /\ inflight' = [inflight EXCEPT ![p] = <<>>] /\ plan' = [plan EXCEPT ![p] = <<>>]
        /\ call' = [call EXCEPT ![p] = NoCall]
    BY <1>2 DEF Dropped
  <2> QED BY <1>1, <2>1, CarefulEmpty, OrderLocal
<1>3. CASE timeout(p)
  <2>1. /\ inflight' = [inflight EXCEPT ![p] = inflight[p]] /\ plan' = [plan EXCEPT ![p] = <<>>]
        /\ call' = [call EXCEPT ![p] = NoCall]
    BY <1>3, SelfUpdate DEF TypeInv, timeout
  <2>2. /\ Careful(exchanges, queues, bindings, inflight[p])
        /\ Chain(exchanges, queues, bindings, LastOf(inflight[p]), <<>>, NoCall)
    BY OrderNow, CarefulEmpty
  <2> QED BY <1>1, <2>1, <2>2, OrderLocal
<1>4. CASE refuse(p)
  <2>1. plan' = [plan EXCEPT ![p] = <<>>] /\ call' = [call EXCEPT ![p] = NoCall]
    BY <1>4 DEF refuse
  <2>2. CASE Backend[p] = "amqpcpp"
    <3>1. inflight' = [inflight EXCEPT ![p] = <<>>]
      BY <1>4, <2>2 DEF refuse
    <3> QED BY <1>1, <2>1, <3>1, CarefulEmpty, OrderLocal
  <2>3. CASE Backend[p] # "amqpcpp"
    <3>1. inflight' = [inflight EXCEPT ![p] = Tail(inflight[p])] /\ inflight[p] # <<>>
      BY <1>4, <2>3 DEF refuse
    <3>2. Careful(exchanges, queues, bindings, Tail(inflight[p]))
      BY <3>1, OrderNow, CarefulTail
    <3>3. Chain(exchanges, queues, bindings, LastOf(Tail(inflight[p])), <<>>, NoCall)
      BY CarefulEmpty
    <3> QED BY <1>1, <2>1, <3>1, <3>2, <3>3, OrderLocal
  <2> QED BY <2>2, <2>3
<1>5. CASE connect(p)
  <2>1. /\ inflight' = [inflight EXCEPT ![p] = inflight[p]]
        /\ plan' = [plan EXCEPT ![p] = plan[p]] /\ call' = [call EXCEPT ![p] = call[p]]
    BY <1>5, SelfUpdate DEF TypeInv, connect
  <2> QED BY <1>1, <2>1, OrderNow, OrderLocal
<1> QED BY <1>2, <1>3, <1>4, <1>5 DEF close, connectionLost, crash

(* A call begins. *)
LEMMA BeginOrder ==
  ASSUME TypeInv, OrderInv, NEW p \in Processes, NEW s \in Seq(Asked), s # <<>>, NEW c,
         call' = [call EXCEPT ![p] = c],
         inflight' = [inflight EXCEPT ![p] = Append(inflight[p], Head(s))],
         plan' = [plan EXCEPT ![p] = Tail(s)],
         UNCHANGED brokerVars, ~Source(Head(s)),
         Chain(exchanges, queues, bindings, Head(s), Tail(s), c)
  PROVE  OrderInv'
<1>1. inflight[p] \in Seq(Requests) /\ Head(s) \in Requests
  BY OrderNow, AskedKinds
<1>2. /\ Careful(exchanges, queues, bindings, Append(inflight[p], Head(s)))
      /\ LastOf(Append(inflight[p], Head(s))) = Head(s)
  BY <1>1, OrderNow, CarefulAppend
<1>3. Chain(exchanges, queues, bindings, LastOf(Append(inflight[p], Head(s))), Tail(s), c)
  BY <1>2
<1> QED BY <1>2, <1>3, OrderLocal

(* A declaration begins with its forensic part. *)
LEMMA EnsureBegins ==
  ASSUME NEW p \in Processes, NEW t \in Topics, NEW o \in Declarations[t], NEW op,
         NEW c, c = [op |-> op, topic |-> t, options |-> o], Ensures(c), NEW s,
         s = EnsureTopic(p, t, o), NEW ex, NEW qs, NEW bs
  PROVE  /\ s \in Seq(Asked) /\ s # <<>> /\ ~Source(Head(s))
         /\ Chain(ex, qs, bs, Head(s), Tail(s), c)
<1>1. /\ s \in Seq(Asked) /\ s # <<>>
      /\ o.deadLetter => /\ Len(s) >= 4
                         /\ s[1] = ForensicExchange
                         /\ s[2] = ForensicQueue(t)
                         /\ s[3] = ForensicBind(t)
                         /\ OnlySource(s, 3, t)
      /\ ~o.deadLetter => \A k \in DOMAIN s : ~Source(s[k])
  BY EnsureRequests
<1>2. /\ DOMAIN s = 1..Len(s) /\ Len(s) \in Nat \ {0}
      /\ Head(s) = s[1] /\ 1 \in DOMAIN s
      /\ Tail(s) \in Seq(Asked) /\ Len(Tail(s)) = Len(s) - 1
      /\ \A k \in DOMAIN Tail(s) : k \in Nat \ {0} /\ k + 1 \in DOMAIN s /\ Tail(s)[k] = s[k + 1]
  BY <1>1, TailFacts
<1>3. c.topic = t /\ c.options = o
  OBVIOUS
<1>4. CASE ~o.deadLetter
  <2>1. ~DeadLettering(c)
    BY <1>3, <1>4 DEF DeadLettering
  <2>2. ~Source(Head(s)) /\ NoSource(Tail(s))
    BY <1>1, <1>2, <1>4 DEF NoSource
  <2> QED BY <1>1, <2>1, <2>2 DEF Chain
<1>5. CASE o.deadLetter
  <2>1. Head(s) = ForensicExchange /\ OnlySource(s, 3, t) /\ Len(s) >= 4
    BY <1>1, <1>2, <1>5
  <2>2. ~Source(Head(s))
    BY <2>1 DEF Source, ForensicExchange, Exchange
  <2>3. OnlySource(Tail(s), 2, t)
    BY <1>1, <2>1, OnlySourceTail
  <2>4. Tail(s)[1] = ForensicQueue(t) /\ Tail(s)[2] = ForensicBind(t) /\ Len(Tail(s)) >= 3
    <3>1. Len(Tail(s)) >= 3
      BY <1>2, <2>1
    <3>2. DOMAIN Tail(s) = 1..Len(Tail(s)) /\ Len(Tail(s)) \in Nat
      BY <1>2
    <3>3. 1 \in DOMAIN Tail(s) /\ 2 \in DOMAIN Tail(s)
      BY <3>1, <3>2
    <3>4. Tail(s)[1] = s[2] /\ Tail(s)[2] = s[3]
      BY <1>2, <3>3
    <3> QED BY <1>1, <1>5, <3>1, <3>4
  <2>5. AtExchange(Head(s), Tail(s), c.topic)
    BY <1>3, <2>1, <2>3, <2>4 DEF AtExchange
  <2>6. DeadLettering(c)
    BY <1>3, <1>5 DEF DeadLettering
  <2> QED BY <1>1, <2>2, <2>5, <2>6 DEF Chain
<1> QED BY <1>4, <1>5

LEMMA CallsOrder ==
  ASSUME InspectsGuessable, TypeInv, OrderInv, NEW p \in Processes,
         \/ reconnect(p)
         \/ \E t \in Topics, op \in {"declareTopic", "ensureTopic"} :
              \E o \in Declarations[t] : declareTopic(p, t, o, op)
         \/ \E n \in Inspects[p] : topicDepth(p, n) \/ purgeTopic(p, n)
  PROVE  OrderInv'
<1>1. UNCHANGED brokerVars
  BY DEF reconnect, declareTopic, topicDepth, purgeTopic
<1>2. ASSUME NEW t \in Topics, NEW o \in Declarations[t],
             NEW op \in {"declareTopic", "ensureTopic", "redeclare"},
             Begin(p, op, t, o, EnsureTopic(p, t, o))
      PROVE  OrderInv'
  <2> DEFINE c == [op |-> op, topic |-> t, options |-> o]
             s == EnsureTopic(p, t, o)
  <2>1. Ensures(c)
    BY DEF Ensures
  <2>2. /\ s \in Seq(Asked) /\ s # <<>> /\ ~Source(Head(s))
        /\ Chain(exchanges, queues, bindings, Head(s), Tail(s), c)
    <3> HIDE DEF s
    <3> QED BY <2>1, EnsureBegins DEF s
  <2>3. /\ call' = [call EXCEPT ![p] = c]
        /\ inflight' = [inflight EXCEPT ![p] = Append(inflight[p], Head(s))]
        /\ plan' = [plan EXCEPT ![p] = Tail(s)]
    BY <1>2 DEF Begin
  <2> HIDE DEF s, c
  <2> QED BY <1>1, <2>2, <2>3, BeginOrder
<1>3. CASE reconnect(p)
  <2>1. remembered[p].topic \in Topics /\ remembered[p].options \in Declarations[remembered[p].topic]
    BY <1>3 DEF TypeInv, MemoryPart, Declared, reconnect
  <2>2. Begin(p, "redeclare", remembered[p].topic, remembered[p].options,
              EnsureTopic(p, remembered[p].topic, remembered[p].options))
    BY <1>3 DEF reconnect
  <2> QED BY <1>2, <2>1, <2>2
<1>4. ASSUME NEW t \in Topics, NEW op \in {"declareTopic", "ensureTopic"},
             NEW o \in Declarations[t], declareTopic(p, t, o, op)
      PROVE  OrderInv'
  BY <1>2, <1>4 DEF declareTopic
<1>5. ASSUME NEW n \in Inspects[p], topicDepth(p, n)
      PROVE  OrderInv'
  <2> DEFINE c == [op |-> "topicDepth", topic |-> n, options |-> Absent]
             s == TopicDepth(p, n, remembered[p])
  <2>1. n \in Names /\ \E r \in Asked : s = <<r>> /\ ~Source(r)
    BY InspectRequests
  <2>2. s \in Seq(Asked) /\ s # <<>> /\ Tail(s) = <<>> /\ ~Source(Head(s))
    <3> HIDE DEF s
    <3>1. PICK r \in Asked : s = <<r>> /\ ~Source(r)
      BY <2>1
    <3>2. Tail(<<r>>) = <<>> /\ Head(<<r>>) = r
      OBVIOUS
    <3> QED BY <3>1, <3>2
  <2>3. ~DeadLettering(c)
    BY <2>1, CallTypes DEF DeadLettering
  <2>4. Chain(exchanges, queues, bindings, Head(s), Tail(s), c)
    <3>1. DOMAIN <<>> = {}
      OBVIOUS
    <3> HIDE DEF s, c
    <3> QED BY <2>2, <2>3, <3>1 DEF Chain, NoSource
  <2>5. /\ call' = [call EXCEPT ![p] = c]
        /\ inflight' = [inflight EXCEPT ![p] = Append(inflight[p], Head(s))]
        /\ plan' = [plan EXCEPT ![p] = Tail(s)]
    BY <1>5 DEF topicDepth, Begin
  <2> HIDE DEF s, c
  <2> QED BY <1>1, <2>2, <2>4, <2>5, BeginOrder
<1>6. ASSUME NEW n \in Inspects[p], purgeTopic(p, n)
      PROVE  OrderInv'
  <2> DEFINE c == [op |-> "purgeTopic", topic |-> n, options |-> Absent]
             s == PurgeTopic(p, n)
             g == Purge(n)
  <2>1. n \in Names /\ \E r \in Asked : ~Source(r) /\ (s = <<r>> \/ s = <<r, g>>)
    BY InspectRequests
  <2>2. g \in Asked /\ ~Source(g)
    BY <2>1, PurgeRequest
  <2>3. s \in Seq(Asked) /\ s # <<>> /\ ~Source(Head(s)) /\ NoSource(Tail(s))
    <3> HIDE DEF s, g
    <3>1. PICK r \in Asked : ~Source(r) /\ (s = <<r>> \/ s = <<r, g>>)
      BY <2>1
    <3>2. CASE s = <<r>>
      <4>1. Head(s) = r /\ Tail(s) = <<>> /\ DOMAIN <<>> = {}
        BY <3>2
      <4> QED BY <3>1, <3>2, <4>1 DEF NoSource
    <3>3. CASE s = <<r, g>>
      <4>1. Head(s) = r /\ Tail(s) = <<g>> /\ DOMAIN <<g>> = {1} /\ <<g>>[1] = g
        BY <3>3
      <4> QED BY <2>2, <3>1, <3>3, <4>1 DEF NoSource
    <3> QED BY <3>1, <3>2, <3>3
  <2>4. ~DeadLettering(c)
    BY <2>1, CallTypes DEF DeadLettering
  <2>5. /\ call' = [call EXCEPT ![p] = c]
        /\ inflight' = [inflight EXCEPT ![p] = Append(inflight[p], Head(s))]
        /\ plan' = [plan EXCEPT ![p] = Tail(s)]
    BY <1>6 DEF purgeTopic, Begin
  <2> HIDE DEF s, c
  <2>6. Chain(exchanges, queues, bindings, Head(s), Tail(s), c)
    BY <2>3, <2>4 DEF Chain
  <2> QED BY <1>1, <2>3, <2>5, <2>6, BeginOrder
<1> QED BY <1>3, <1>4, <1>5, <1>6

LEMMA SendOrder ==
  ASSUME TypeInv, OrderInv, NEW p \in Processes, NEW t \in Topics, NEW override \in Overrides,
         send(p, t, override)
  PROVE  OrderInv'
<1> DEFINE m == Message(p, t, override)
<1>1. m \in Requests /\ ~Source(m)
  BY MessageType DEF TypeInv
<1>2. /\ inflight' = [inflight EXCEPT ![p] = Append(inflight[p], m)]
      /\ call[p] = NoCall /\ UNCHANGED brokerVars
  BY DEF send, Message, Idle
<1> HIDE DEF m
<1>3. plan[p] = <<>>
  BY <1>2, OrderNow DEF Driven
<1>4. plan' = [plan EXCEPT ![p] = <<>>] /\ call' = [call EXCEPT ![p] = NoCall]
  BY <1>2, <1>3, SelfUpdate DEF TypeInv, send
<1>5. Careful(exchanges, queues, bindings, Append(inflight[p], m))
  BY <1>1, OrderNow, CarefulAppend
<1>6. Chain(exchanges, queues, bindings, LastOf(Append(inflight[p], m)), <<>>, NoCall)
  BY CarefulEmpty
<1> QED BY <1>2, <1>4, <1>5, <1>6, OrderLocal

LEMMA UnawaitedOrder ==
  ASSUME TypeInv, OrderInv, NEW p \in Processes, performUnawaited(p)
  PROVE  OrderInv'
<1> DEFINE fl == inflight[p]
<1>1. /\ Driven(channel[p], fl, plan[p], call[p]) /\ fl \in Seq(Requests)
      /\ Careful(exchanges, queues, bindings, fl)
      /\ Chain(exchanges, queues, bindings, LastOf(fl), plan[p], call[p])
  BY OrderNow
<1>2. fl # <<>> /\ ~Refuses(Head(fl)) /\ Perform(Head(fl)) /\ ~Awaited(p)
  BY DEF performUnawaited
<1>3. /\ Grown(exchanges, queues, bindings, exchanges', queues', bindings')
      /\ \A t \in Topics : queues'[t] # Absent /\ queues'[t].deadLetter =>
           Kept(exchanges', queues', bindings', t)
  BY <1>2, PerformKeeps
<1>4. /\ inflight' = [inflight EXCEPT ![p] = Tail(fl)]
      /\ plan' = [plan EXCEPT ![p] = plan[p]] /\ call' = [call EXCEPT ![p] = call[p]]
  BY SelfUpdate DEF TypeInv, performUnawaited
<1>5. call[p] = NoCall \/ Len(fl) # 1
  BY <1>2 DEF Awaited
<1> HIDE DEF fl
<1>6. Careful(exchanges', queues', bindings', Tail(fl))
  BY <1>1, <1>2, <1>3, CarefulTail, CarefulGrows
<1>7. Chain(exchanges', queues', bindings', LastOf(Tail(fl)), plan[p], call[p])
  <2>1. CASE call[p] = NoCall
    <3>1. plan[p] = <<>>
      BY <1>1, <2>1 DEF Driven
    <3> QED BY <2>1, <3>1, CarefulEmpty
  <2>2. CASE Len(fl) # 1
    <3>1. /\ Len(fl) \in Nat \ {0} /\ Len(Tail(fl)) = Len(fl) - 1 /\ Tail(fl) \in Seq(Requests)
          /\ \A k \in DOMAIN Tail(fl) : Tail(fl)[k] = fl[k + 1]
      BY <1>1, <1>2, TailFacts
    <3>2. DOMAIN Tail(fl) = 1..Len(Tail(fl))
      BY <3>1
    <3>3. Len(Tail(fl)) \in 1..Len(Tail(fl)) /\ Len(Tail(fl)) + 1 = Len(fl)
      BY <2>2, <3>1
    <3>4. LastOf(Tail(fl)) = LastOf(fl)
      BY <3>1, <3>2, <3>3 DEF LastOf
    <3>5. Chain(exchanges', queues', bindings', LastOf(fl), plan[p], call[p])
      BY <1>1, <1>3, ChainGrows DEF Driven
    <3> QED BY <3>4, <3>5
  <2> QED BY <1>5, <2>1, <2>2
<1> QED BY <1>3, <1>4, <1>6, <1>7, OrderStep

LEMMA AwaitedOrder ==
  ASSUME TypeInv, OrderInv, NEW p \in Processes, performAwaited(p)
  PROVE  OrderInv'
<1> DEFINE fl == inflight[p]
           pl == plan[p]
           x == Head(fl)
<1>1. /\ Driven(channel[p], fl, pl, call[p]) /\ fl \in Seq(Requests)
      /\ Chain(exchanges, queues, bindings, LastOf(fl), pl, call[p])
  BY OrderNow
<1>2. pl \in Seq(Asked) /\ (Ensures(call[p]) => Declared(call[p]))
  BY <1>1 DEF Driven
<1>3. pl # <<>> /\ Len(fl) = 1 /\ ~Refuses(x) /\ Perform(x)
  BY DEF performAwaited, Awaited
<1>4. /\ inflight' = [inflight EXCEPT ![p] = <<Head(pl)>>]
      /\ plan' = [plan EXCEPT ![p] = Tail(pl)] /\ call' = [call EXCEPT ![p] = call[p]]
  BY SelfUpdate DEF TypeInv, performAwaited
<1>5. fl # <<>> /\ x \in Requests /\ LastOf(fl) = x
  <2> HIDE DEF fl
  <2>1. fl # <<>>
    BY <1>3
  <2> QED BY <1>1, <1>3, <2>1, TailFacts DEF LastOf
<1>6. /\ Grown(exchanges, queues, bindings, exchanges', queues', bindings')
      /\ \A t \in Topics : queues'[t] # Absent /\ queues'[t].deadLetter =>
           Kept(exchanges', queues', bindings', t)
  BY <1>3, <1>5, PerformKeeps
<1> HIDE DEF fl, pl, x
<1>7. /\ Chain(exchanges', queues', bindings', Head(pl), Tail(pl), call[p])
      /\ Careful(exchanges', queues', bindings', <<Head(pl)>>)
  BY <1>1, <1>2, <1>3, <1>5, ChainStep
<1>8. LastOf(<<Head(pl)>>) = Head(pl)
  BY DEF LastOf
<1>9. Chain(exchanges', queues', bindings', LastOf(<<Head(pl)>>), Tail(pl), call[p])
  BY <1>7, <1>8
<1> QED BY <1>4, <1>6, <1>7, <1>9, OrderStep

(* A declaration returns when nothing is left of it: its forensic part is  *)
(* at the broker, whatever else the caller asks for.                       *)
LEMMA LastOrder ==
  ASSUME TypeInv, OrderInv, NEW p \in Processes, performLast(p)
  PROVE  OrderInv'
<1> DEFINE c == call[p]
           last == [op |-> "ensureTopic", topic |-> c.topic, options |-> c.options]
<1>1. /\ Driven(channel[p], inflight[p], plan[p], c) /\ inflight[p] \in Seq(Requests)
      /\ Chain(exchanges, queues, bindings, LastOf(inflight[p]), plan[p], c)
  BY OrderNow
<1>2. c \in Calls /\ (Ensures(c) => Declared(c))
  BY <1>1 DEF Driven
<1>3. /\ plan[p] = <<>> /\ Len(inflight[p]) = 1
      /\ ~Refuses(Head(inflight[p])) /\ Perform(Head(inflight[p]))
  BY DEF performLast, Awaited
<1>4. inflight[p] # <<>>
  BY <1>3
<1>5. /\ Grown(exchanges, queues, bindings, exchanges', queues', bindings')
      /\ \A t \in Topics : queues'[t] # Absent /\ queues'[t].deadLetter =>
           Kept(exchanges', queues', bindings', t)
  BY <1>3, <1>4, PerformKeeps
<1>6. plan' = [plan EXCEPT ![p] = <<>>]
  BY <1>3, SelfUpdate DEF TypeInv, performLast
<1>7. CASE c.op = "declareTopic"
  <2> DEFINE s == TopicDepth(p, c.topic, last)
             d == [op |-> "topicDepth", topic |-> c.topic, options |-> Absent]
  <2>1. call' = [call EXCEPT ![p] = d] /\ inflight' = [inflight EXCEPT ![p] = s]
    BY <1>7 DEF performLast
  <2>2. Ensures(c)
    BY <1>7 DEF Ensures
  <2>3. Declared(c) /\ c.topic \in Topics
    BY <1>2, <2>2 DEF Declared
  <2>4. PICK r \in Asked : s = <<r>> /\ (Source(r) => r.name = c.topic /\ c.options.deadLetter)
    <3> HIDE DEF c
    <3> QED BY <1>2, <2>2, <2>3, DepthAfter
  <2> HIDE DEF s, c
  <2>5. c.options.deadLetter => Kept(exchanges', queues', bindings', c.topic)
    <3> SUFFICES ASSUME c.options.deadLetter PROVE Kept(exchanges', queues', bindings', c.topic)
      OBVIOUS
    <3>1. Len(plan[p]) = 0
      BY <1>3
    <3>2. Done(exchanges, queues, bindings, plan[p], c.topic)
      BY <1>1, <2>2, <3>1 DEF Chain, DeadLettering, AtExchange, AtQueue, AtBind
    <3> QED BY <1>5, <2>3, <3>2, KeptGrows DEF Done
  <2>6. Careful(exchanges', queues', bindings', s)
    BY <2>3, <2>4, <2>5, CarefulOne
  <2>7. Chain(exchanges', queues', bindings', LastOf(s), <<>>, d)
    <3>1. ~DeadLettering(d)
      BY DEF DeadLettering, Ensures
    <3>2. DOMAIN <<>> = {}
      OBVIOUS
    <3> HIDE DEF d
    <3> QED BY <3>1, <3>2 DEF Chain, NoSource
  <2> HIDE DEF d
  <2> QED BY <1>5, <1>6, <2>1, <2>6, <2>7, OrderStep
<1>8. CASE c.op # "declareTopic"
  <2>1. call' = [call EXCEPT ![p] = NoCall] /\ inflight' = [inflight EXCEPT ![p] = <<>>]
    BY <1>8 DEF performLast
  <2>2. /\ Careful(exchanges', queues', bindings', <<>>)
        /\ Chain(exchanges', queues', bindings', LastOf(<<>>), <<>>, NoCall)
    BY CarefulEmpty
  <2> QED BY <1>5, <1>6, <2>1, <2>2, OrderStep
<1> QED BY <1>7, <1>8

LEMMA OrderHolds ==
  ASSUME InspectsGuessable
  PROVE  Spec => []OrderInv
<1>1. Init => OrderInv
  <2> SUFFICES ASSUME Init PROVE OrderInv
    OBVIOUS
  <2>1. \A t \in Topics : queues[t] = Absent
    BY ForensicName DEF Init
  <2>2. ASSUME NEW p \in Processes
        PROVE  /\ Careful(exchanges, queues, bindings, inflight[p])
               /\ Chain(exchanges, queues, bindings, LastOf(inflight[p]), plan[p], call[p])
    <3>1. inflight[p] = <<>> /\ plan[p] = <<>> /\ call[p] = NoCall
      BY DEF Init
    <3> QED BY <3>1, CarefulEmpty
  <2> QED BY <2>1, <2>2 DEF OrderInv
<1>2. TypeInv /\ OrderInv /\ [Next]_vars => OrderInv'
  <2> SUFFICES ASSUME TypeInv, OrderInv, [Next]_vars PROVE OrderInv'
    OBVIOUS
  <2>1. CASE UNCHANGED vars
    BY <2>1 DEF vars, brokerVars, processVars, OrderInv
  <2>2. CASE brokerRestarts
    BY <2>2, RestartOrder
  <2>3. ASSUME NEW p \in Processes,
               close(p) \/ connectionLost(p) \/ crash(p) \/ timeout(p) \/ refuse(p) \/ connect(p)
        PROVE  OrderInv'
    BY <2>3, EndOrder
  <2>4. ASSUME NEW p \in Processes,
               \/ reconnect(p)
               \/ \E t \in Topics, op \in {"declareTopic", "ensureTopic"} :
                    \E o \in Declarations[t] : declareTopic(p, t, o, op)
               \/ \E n \in Inspects[p] : topicDepth(p, n) \/ purgeTopic(p, n)
        PROVE  OrderInv'
    BY <2>4, CallsOrder
  <2>5. ASSUME NEW p \in Processes, NEW t \in Topics, NEW override \in Overrides,
               send(p, t, override)
        PROVE  OrderInv'
    BY <2>5, SendOrder
  <2>6. ASSUME NEW p \in Processes, performUnawaited(p) PROVE OrderInv'
    BY <2>6, UnawaitedOrder
  <2>7. ASSUME NEW p \in Processes, performAwaited(p) PROVE OrderInv'
    BY <2>7, AwaitedOrder
  <2>8. ASSUME NEW p \in Processes, performLast(p) PROVE OrderInv'
    BY <2>8, LastOrder
  <2> QED
    BY <2>1, <2>2, <2>3, <2>4, <2>5, <2>6, <2>7, <2>8, Zenon DEF Next
<1> QED BY <1>1, <1>2, TypesHold, PTL DEF Spec

(* Theorem: whatever the processes are, in whatever order they declare and *)
(* wherever a call, a connection, a process or the broker stops, and even  *)
(* if two of them disagree on a declaration, no queue that dead-letters is *)
(* at the broker without its forensic queue bound under its name: what     *)
(* declare() and ensureTopic() do first is there before what needs it.     *)
(* Only topicDepth() of the blocking backend could create such a queue, so *)
(* it must not be asked for what it cannot guess.                          *)
THEOREM ForensicsComeFirst ==
  ASSUME InspectsGuessable
  PROVE  Spec => []ForensicsFirst
<1>1. OrderInv => ForensicsFirst
  <2> SUFFICES ASSUME OrderInv, NEW t \in Topics, queues[t] # Absent, queues[t].deadLetter
               PROVE  deadLetterTopic(t) \in RoutedTo(kDeadLetterExchange, t)
    BY DEF ForensicsFirst
  <2> DEFINE b == [group |-> kDeadLetterExchange, name |-> deadLetterTopic(t), key |-> t]
  <2>1. Kept(exchanges, queues, bindings, t)
    BY DEF OrderInv
  <2>2. /\ b \in bindings /\ b.group = kDeadLetterExchange /\ b.name = deadLetterTopic(t)
        /\ b.key = t
    BY <2>1 DEF Kept
  <2>3. Matches(exchanges[kDeadLetterExchange].type, t, t)
    BY <2>1 DEF Kept, DeadLetters, Matches
  <2>4. deadLetterTopic(t) \in Names /\ kDeadLetterExchange # NoGroup
    BY ForensicName DEF kDeadLetterExchange, NoGroup
  <2> HIDE DEF b
  <2> QED BY <2>2, <2>3, <2>4 DEF RoutedTo
<1> QED BY <1>1, OrderHolds, PTL

-----------------------------------------------------------------------------
(* Counting messages.                                                      *)

(* The places where a message is in flight. *)
Pending(fls) ==
  {x \in Processes \X Nat :
     x[2] \in DOMAIN fls[x[1]] /\ fls[x[1]][x[2]].kind = "publish"}

(* A queue holds at most one copy of each message that arrived. *)
CountInv ==
  /\ IsFiniteSet(Pending(inflight))
  /\ \A n \in Names : waiting[n] + Cardinality(Pending(inflight)) <= sends

LEMMA Injected ==
  ASSUME NEW A, NEW B, IsFiniteSet(B), NEW f \in [A -> B],
         \A x, y \in A : f[x] = f[y] => x = y
  PROVE  IsFiniteSet(A) /\ Cardinality(A) <= Cardinality(B)
BY FS_Injection DEF Injection, IsInjective

(* Process p has fl in flight instead, which publishes nothing new. *)
LEMMA PendingShrinks ==
  ASSUME DriverPart, NEW p \in Processes, NEW fl,
         \A k \in DOMAIN fl : fl[k].kind = "publish" =>
           k \in DOMAIN inflight[p] /\ inflight[p][k].kind = "publish"
  PROVE  Pending([inflight EXCEPT ![p] = fl]) \subseteq Pending(inflight)
<1> DEFINE fls == [inflight EXCEPT ![p] = fl]
<1> SUFFICES ASSUME NEW x \in Processes \X Nat, x[2] \in DOMAIN fls[x[1]],
                    fls[x[1]][x[2]].kind = "publish"
             PROVE  x[2] \in DOMAIN inflight[x[1]] /\ inflight[x[1]][x[2]].kind = "publish"
  BY DEF Pending
<1>1. x[1] \in Processes
  OBVIOUS
<1>2. CASE x[1] = p
  <2>1. fls[x[1]] = fl
    BY <1>2 DEF DriverPart
  <2> QED BY <1>2, <2>1
<1>3. CASE x[1] # p
  <2>1. fls[x[1]] = inflight[x[1]]
    BY <1>1, <1>3 DEF DriverPart
  <2> QED BY <2>1
<1> QED BY <1>2, <1>3

(* ... has one message more in flight. *)
LEMMA PendingGrows ==
  ASSUME DriverPart, NEW p \in Processes, NEW r \in Requests
  PROVE  Pending([inflight EXCEPT ![p] = Append(inflight[p], r)])
           \subseteq Pending(inflight) \cup {<<p, Len(inflight[p]) + 1>>}
<1> DEFINE fl == Append(inflight[p], r)
           fls == [inflight EXCEPT ![p] = fl]
           m == Len(inflight[p])
<1>1. inflight[p] \in Seq(Requests)
  BY DrivenNow DEF Driven
<1>2. /\ DOMAIN fl = 1..(m + 1) /\ m \in Nat /\ DOMAIN inflight[p] = 1..m
      /\ \A k \in 1..m : fl[k] = inflight[p][k]
  BY <1>1
<1> SUFFICES ASSUME NEW x \in Processes \X Nat, x[2] \in DOMAIN fls[x[1]],
                    fls[x[1]][x[2]].kind = "publish", x # <<p, m + 1>>
             PROVE  x[2] \in DOMAIN inflight[x[1]] /\ inflight[x[1]][x[2]].kind = "publish"
  BY DEF Pending
<1>3. x[1] \in Processes
  OBVIOUS
<1> HIDE DEF fl, m
<1>4. CASE x[1] = p
  <2>1. fls[x[1]] = fl
    BY <1>4 DEF DriverPart
  <2>2. x[2] \in 1..(m + 1) /\ x[2] # m + 1
    BY <1>2, <1>4, <2>1
  <2>3. x[2] \in 1..m
    BY <1>2, <2>2
  <2> QED BY <1>2, <1>4, <2>1, <2>3
<1>5. CASE x[1] # p
  <2>1. fls[x[1]] = inflight[x[1]]
    BY <1>3, <1>5 DEF DriverPart
  <2> QED BY <2>1
<1> QED BY <1>4, <1>5

(* ... has its first request performed. *)
LEMMA PendingTail ==
  ASSUME DriverPart, NEW p \in Processes, inflight[p] # <<>>, IsFiniteSet(Pending(inflight)),
         NEW A, A = Pending([inflight EXCEPT ![p] = Tail(inflight[p])]),
         NEW B, B = Pending(inflight) \ {<<p, 1>>}
  PROVE  IsFiniteSet(A) /\ Cardinality(A) <= Cardinality(B)
<1> DEFINE fl == inflight[p]
           fls == [inflight EXCEPT ![p] = Tail(fl)]
           f == [x \in A |-> IF x[1] = p THEN <<p, x[2] + 1>> ELSE x]
<1>1. fl \in Seq(Requests)
  BY DrivenNow DEF Driven
<1>2. \A k \in DOMAIN Tail(fl) : k \in Nat \ {0} /\ k + 1 \in DOMAIN fl /\ Tail(fl)[k] = fl[k + 1]
  BY <1>1, TailFacts
<1> HIDE DEF fl
<1>3. fls[p] = Tail(fl) /\ \A q \in Processes : q # p => fls[q] = inflight[q]
  BY DEF DriverPart
<1>4. ASSUME NEW x \in A
      PROVE  /\ x \in Processes \X Nat /\ x[2] \in DOMAIN fls[x[1]]
             /\ fls[x[1]][x[2]].kind = "publish"
  BY DEF Pending, fl
<1> HIDE DEF fls
<1>5. ASSUME NEW x \in A PROVE f[x] \in B
  <2>1. CASE x[1] = p
    <3>1. f[x] = <<p, x[2] + 1>> /\ x[2] \in Nat
      BY <1>4, <2>1
    <3>2. x[2] \in DOMAIN Tail(fl) /\ Tail(fl)[x[2]].kind = "publish"
      BY <1>3, <1>4, <2>1
    <3>3. x[2] \in Nat \ {0} /\ x[2] + 1 \in DOMAIN fl /\ fl[x[2] + 1].kind = "publish"
      BY <1>2, <3>2
    <3>4. <<p, x[2] + 1>> \in Pending(inflight)
      BY <3>3 DEF Pending, fl
    <3>5. <<p, x[2] + 1>> # <<p, 1>>
      BY <3>3
    <3> QED BY <3>1, <3>4, <3>5
  <2>2. CASE x[1] # p
    <3>1. f[x] = x /\ x[1] \in Processes
      BY <1>4, <2>2
    <3>2. x \in Pending(inflight)
      BY <1>3, <1>4, <2>2, <3>1 DEF Pending
    <3>3. x # <<p, 1>>
      BY <2>2
    <3> QED BY <3>1, <3>2, <3>3
  <2> QED BY <2>1, <2>2
<1>6. ASSUME NEW x \in A, NEW y \in A, f[x] = f[y] PROVE x = y
  <2>1. x \in Processes \X Nat /\ y \in Processes \X Nat
    BY <1>4
  <2>2. x = <<x[1], x[2]>> /\ y = <<y[1], y[2]>> /\ x[2] \in Nat /\ y[2] \in Nat
    BY <2>1
  <2>3. f[x] = (IF x[1] = p THEN <<p, x[2] + 1>> ELSE x) /\ f[y] = (IF y[1] = p THEN <<p, y[2] + 1>> ELSE y)
    OBVIOUS
  <2> HIDE DEF f
  <2>4. CASE x[1] = p /\ y[1] = p
    <3>0. <<p, x[2] + 1>> = <<p, y[2] + 1>>
      BY <1>6, <2>3, <2>4
    <3>1. x[2] + 1 = y[2] + 1
      BY <3>0
    <3>2. x[2] = y[2]
      BY <2>2, <3>1
    <3> QED BY <2>2, <2>4, <3>2
  <2>5. CASE x[1] # p /\ y[1] # p
    BY <1>6, <2>3, <2>5
  <2>6. CASE x[1] = p /\ y[1] # p
    <3>1. y = <<p, x[2] + 1>>
      BY <1>6, <2>3, <2>6
    <3>2. y[1] = p
      BY <3>1
    <3> QED BY <2>6, <3>2
  <2>7. CASE x[1] # p /\ y[1] = p
    <3>1. x = <<p, y[2] + 1>>
      BY <1>6, <2>3, <2>7
    <3>2. x[1] = p
      BY <3>1
    <3> QED BY <2>7, <3>2
  <2> QED BY <2>4, <2>5, <2>6, <2>7
<1>7. f \in [A -> B]
  BY <1>5
<1>8. IsFiniteSet(B)
  BY FS_RemoveElement
<1> HIDE DEF f
<1> QED BY <1>6, <1>7, <1>8, Injected

(* Nothing is published, and nothing arrives. *)
LEMMA CountLocal ==
  ASSUME TypeInv, CountInv, NEW p \in Processes, NEW fl,
         inflight' = [inflight EXCEPT ![p] = fl], waiting' = waiting, sends' = sends,
         \A k \in DOMAIN fl : fl[k].kind = "publish" =>
           k \in DOMAIN inflight[p] /\ inflight[p][k].kind = "publish"
  PROVE  CountInv'
<1> DEFINE A == Pending(inflight')
           B == Pending(inflight)
<1>1. A \subseteq B
  BY PendingShrinks DEF TypeInv
<1>2. IsFiniteSet(B)
  BY DEF CountInv
<1> HIDE DEF A, B
<1>3. IsFiniteSet(A) /\ Cardinality(A) <= Cardinality(B)
  BY <1>1, <1>2, FS_Subset
<1>4. Cardinality(A) \in Nat /\ Cardinality(B) \in Nat
  BY <1>2, <1>3, FS_CardinalityType
<1>5. ASSUME NEW n \in Names PROVE waiting'[n] + Cardinality(A) <= sends'
  <2>1. waiting[n] + Cardinality(B) <= sends /\ waiting[n] \in Nat /\ sends \in Nat
    BY DEF CountInv, TypeInv, BrokerPart, BoundPart, B
  <2> QED BY <1>3, <1>4, <2>1
<1> QED BY <1>3, <1>5 DEF CountInv, A

(* A request arrives. *)
LEMMA CountPerform ==
  ASSUME TypeInv, CountInv, NEW p \in Processes, inflight[p] # <<>>, NEW fl,
         Perform(Head(inflight[p])),
         inflight' = [inflight EXCEPT ![p] = fl], sends' = sends,
         fl = Tail(inflight[p]) \/ \A k \in DOMAIN fl : fl[k].kind # "publish"
  PROVE  CountInv'
<1> DEFINE A == Pending(inflight')
           B == Pending(inflight)
           r == Head(inflight[p])
<1>1. /\ inflight[p] \in Seq(Requests) /\ r \in Requests /\ r = inflight[p][1]
      /\ 1 \in DOMAIN inflight[p]
  BY DrivenNow DEF TypeInv, Driven
<1>2. IsFiniteSet(B) /\ IsFiniteSet(B \ {<<p, 1>>})
  BY FS_RemoveElement DEF CountInv
<1>3. IsFiniteSet(A) /\ Cardinality(A) <= Cardinality(B \ {<<p, 1>>})
  <2>1. CASE fl = Tail(inflight[p])
    <3>1. A = Pending([inflight EXCEPT ![p] = Tail(inflight[p])])
      BY <2>1
    <3> HIDE DEF A
    <3> QED BY <1>2, <3>1, PendingTail DEF TypeInv
  <2>2. CASE \A k \in DOMAIN fl : fl[k].kind # "publish"
    <3>1. A \subseteq B
      BY <2>2, PendingShrinks DEF TypeInv
    <3>2. <<p, 1>> \notin A
      <4>1. inflight'[p] = fl
        BY DEF TypeInv, DriverPart
      <4>2. <<p, 1>>[1] = p /\ <<p, 1>>[2] = 1
        OBVIOUS
      <4> QED BY <2>2, <4>1, <4>2 DEF Pending
    <3>3. A \in SUBSET (B \ {<<p, 1>>})
      BY <3>1, <3>2
    <3> HIDE DEF A, B
    <3> QED BY <1>2, <3>3, FS_Subset
  <2> QED BY <2>1, <2>2
<1>4. r.kind = "publish" => <<p, 1>> \in B
  BY <1>1 DEF Pending
<1> DEFINE a == Cardinality(A)
           b == Cardinality(B)
           e == Cardinality(B \ {<<p, 1>>})
<1>6. a \in Nat /\ b \in Nat /\ e \in Nat
  BY <1>2, <1>3, FS_CardinalityType
<1>7. e = IF <<p, 1>> \in B THEN b - 1 ELSE b
  <2> HIDE DEF B
  <2> QED BY <1>2, FS_RemoveElement
<1>8. ASSUME NEW n \in Names PROVE waiting'[n] + a <= sends'
  <2>1. waiting[n] + b <= sends /\ waiting[n] \in Nat /\ sends \in Nat
    BY DEF CountInv, TypeInv, BrokerPart, BoundPart
  <2>2. waiting'[n] \in Nat
    BY <1>1, PerformTypes DEF TypeInv, BoundPart, BrokerPart
  <2>3. CASE r.kind = "publish"
    <3> DEFINE reached == RoutedTo(r.group, r.key)
    <3>1. waiting' = [i \in Names |-> IF i \in reached THEN waiting[i] + 1 ELSE waiting[i]]
      BY <2>3 DEF Perform
    <3> HIDE DEF reached, a, b, e, A, B, r
    <3>2. waiting'[n] <= waiting[n] + 1
      BY <2>1, <3>1
    <3>3. a <= b - 1
      BY <1>3, <1>4, <1>7, <2>3 DEF a, e
    <3> QED BY <1>6, <2>1, <2>2, <3>2, <3>3
  <2>4. CASE r.kind # "publish"
    <3>1. waiting'[n] <= waiting[n]
      <4>1. CASE r.kind = "purge"
        <5>1. waiting' = [waiting EXCEPT ![r.name] = 0]
          BY <4>1 DEF Perform
        <5> HIDE DEF r
        <5> QED BY <2>1, <5>1 DEF TypeInv, BrokerPart
      <4>2. CASE r.kind # "purge"
        <5>1. waiting' = waiting
          BY <2>4, <4>2 DEF Perform
        <5> QED BY <2>1, <5>1
      <4> QED BY <4>1, <4>2
    <3> HIDE DEF a, b, e, A, B, r
    <3>2. a <= b
      BY <1>3, <1>6, <1>7 DEF a, e
    <3> QED BY <1>6, <2>1, <2>2, <3>1, <3>2
  <2> QED BY <2>3, <2>4
<1> QED BY <1>3, <1>8 DEF CountInv

LEMMA CountSend ==
  ASSUME TypeInv, CountInv, NEW p \in Processes, NEW t \in Topics, NEW override \in Overrides,
         send(p, t, override)
  PROVE  CountInv'
<1> DEFINE m == Message(p, t, override)
           x == <<p, Len(inflight[p]) + 1>>
           A == Pending(inflight')
           B == Pending(inflight)
           C == B \cup {x}
<1>1. m \in Requests
  BY MessageType DEF TypeInv
<1>2. /\ inflight' = [inflight EXCEPT ![p] = Append(inflight[p], m)]
      /\ waiting' = waiting /\ sends' = sends + 1
  BY DEF send, Message, brokerVars
<1>3. A \subseteq C
  <2> HIDE DEF m
  <2> QED BY <1>1, <1>2, PendingGrows DEF TypeInv
<1>4. IsFiniteSet(B)
  BY DEF CountInv
<1> HIDE DEF m, x, A, B
<1>5. /\ IsFiniteSet(C) /\ Cardinality(B) \in Nat
      /\ Cardinality(C) = IF x \in B THEN Cardinality(B) ELSE Cardinality(B) + 1
  BY <1>4, FS_AddElement, FS_CardinalityType
<1> HIDE DEF C
<1>6. IsFiniteSet(A) /\ Cardinality(A) <= Cardinality(C)
  BY <1>3, <1>5, FS_Subset
<1>7. Cardinality(A) \in Nat
  BY <1>6, FS_CardinalityType
<1>8. ASSUME NEW n \in Names PROVE waiting'[n] + Cardinality(A) <= sends'
  <2>1. waiting[n] + Cardinality(B) <= sends /\ waiting[n] \in Nat /\ sends \in Nat
    BY DEF CountInv, TypeInv, BrokerPart, BoundPart, B
  <2> QED BY <1>2, <1>5, <1>6, <1>7, <2>1
<1> QED BY <1>6, <1>8 DEF CountInv, A

LEMMA CountRestart ==
  ASSUME TypeInv, CountInv, brokerRestarts
  PROVE  CountInv'
<1>1. Pending(inflight') = {}
  BY DEF Pending, brokerRestarts
<1>2. IsFiniteSet(Pending(inflight')) /\ Cardinality(Pending(inflight')) = 0
  BY <1>1, FS_EmptySet
<1>3. Cardinality(Pending(inflight)) \in Nat
  BY FS_CardinalityType DEF CountInv
<1>4. ASSUME NEW n \in Names PROVE waiting'[n] + Cardinality(Pending(inflight')) <= sends'
  <2>1. /\ waiting[n] + Cardinality(Pending(inflight)) <= sends /\ waiting[n] \in Nat
        /\ sends \in Nat
    BY DEF CountInv, TypeInv, BrokerPart, BoundPart
  <2>2. sends' = sends /\ waiting'[n] \in {waiting[n], 0}
    BY DEF brokerRestarts
  <2> HIDE DEF Pending
  <2> QED BY <1>2, <1>3, <2>1, <2>2
<1> QED BY <1>2, <1>4 DEF CountInv

(* A call begins. *)
LEMMA CountBegin ==
  ASSUME TypeInv, CountInv, NEW p \in Processes, NEW s \in Seq(Asked), s # <<>>,
         inflight' = [inflight EXCEPT ![p] = Append(inflight[p], Head(s))],
         waiting' = waiting, sends' = sends
  PROVE  CountInv'
<1> DEFINE fl == Append(inflight[p], Head(s))
           m == Len(inflight[p])
<1>1. inflight[p] \in Seq(Requests) /\ Head(s) \in Asked
  BY DrivenNow DEF TypeInv, Driven
<1>2. Head(s).kind # "publish"
  BY <1>1, AskedKinds
<1>3. /\ DOMAIN fl = 1..(m + 1) /\ m \in Nat /\ DOMAIN inflight[p] = 1..m
      /\ \A k \in 1..m : fl[k] = inflight[p][k]
      /\ fl[m + 1] = Head(s)
  BY <1>1, AskedKinds
<1> HIDE DEF fl, m
<1>4. ASSUME NEW k \in DOMAIN fl, fl[k].kind = "publish"
      PROVE  k \in DOMAIN inflight[p] /\ inflight[p][k].kind = "publish"
  <2>1. k # m + 1
    BY <1>2, <1>3, <1>4
  <2>2. k \in 1..m
    BY <1>3, <2>1
  <2> QED BY <1>3, <1>4, <2>2
<1> QED BY <1>4, CountLocal DEF fl

LEMMA CountCalls ==
  ASSUME TypeInv, CountInv, NEW p \in Processes,
         \/ reconnect(p)
         \/ \E t \in Topics, op \in {"declareTopic", "ensureTopic"} :
              \E o \in Declarations[t] : declareTopic(p, t, o, op)
         \/ \E n \in Inspects[p] : topicDepth(p, n) \/ purgeTopic(p, n)
  PROVE  CountInv'
<1>1. waiting' = waiting /\ sends' = sends
  BY DEF reconnect, declareTopic, topicDepth, purgeTopic, brokerVars
<1>2. \E s \in Seq(Asked) :
        s # <<>> /\ inflight' = [inflight EXCEPT ![p] = Append(inflight[p], Head(s))]
  <2>1. CASE reconnect(p)
    <3> DEFINE s == EnsureTopic(p, remembered[p].topic, remembered[p].options)
    <3>1. remembered[p].topic \in Topics /\ remembered[p].options \in Declarations[remembered[p].topic]
      BY <2>1 DEF TypeInv, MemoryPart, Declared, reconnect
    <3>2. s \in Seq(Asked) /\ s # <<>>
      BY <3>1, EnsureRequests
    <3>3. inflight' = [inflight EXCEPT ![p] = Append(inflight[p], Head(s))]
      BY <2>1 DEF reconnect, Begin
    <3> HIDE DEF s
    <3> QED BY <3>2, <3>3
  <2>2. ASSUME NEW t \in Topics, NEW op \in {"declareTopic", "ensureTopic"},
               NEW o \in Declarations[t], declareTopic(p, t, o, op)
        PROVE  \E s \in Seq(Asked) :
                 s # <<>> /\ inflight' = [inflight EXCEPT ![p] = Append(inflight[p], Head(s))]
    <3> DEFINE s == EnsureTopic(p, t, o)
    <3>2. s \in Seq(Asked) /\ s # <<>>
      BY EnsureRequests
    <3>3. inflight' = [inflight EXCEPT ![p] = Append(inflight[p], Head(s))]
      BY <2>2 DEF declareTopic, Begin
    <3> HIDE DEF s
    <3> QED BY <3>2, <3>3
  <2>3. ASSUME NEW n \in Inspects[p], topicDepth(p, n)
        PROVE  \E s \in Seq(Asked) :
                 s # <<>> /\ inflight' = [inflight EXCEPT ![p] = Append(inflight[p], Head(s))]
    <3> DEFINE s == TopicDepth(p, n, remembered[p])
    <3>1. \E r \in Asked : s = <<r>>
      BY InspectRequests
    <3>3. inflight' = [inflight EXCEPT ![p] = Append(inflight[p], Head(s))]
      BY <2>3 DEF topicDepth, Begin
    <3> HIDE DEF s
    <3>4. s \in Seq(Asked) /\ s # <<>>
      BY <3>1
    <3> QED BY <3>3, <3>4
  <2>4. ASSUME NEW n \in Inspects[p], purgeTopic(p, n)
        PROVE  \E s \in Seq(Asked) :
                 s # <<>> /\ inflight' = [inflight EXCEPT ![p] = Append(inflight[p], Head(s))]
    <3> DEFINE s == PurgeTopic(p, n)
               g == Purge(n)
    <3>1. n \in Names /\ \E r \in Asked : s = <<r>> \/ s = <<r, g>>
      BY InspectRequests
    <3>2. g \in Asked
      BY <3>1, PurgeRequest
    <3>3. inflight' = [inflight EXCEPT ![p] = Append(inflight[p], Head(s))]
      BY <2>4 DEF purgeTopic, Begin
    <3> HIDE DEF s, g
    <3>4. PICK r \in Asked : s = <<r>> \/ s = <<r, g>>
      BY <3>1
    <3>5. CASE s = <<r>>
      <4>1. s \in Seq(Asked) /\ s # <<>>
        BY <3>5
      <4> QED BY <3>3, <4>1
    <3>6. CASE s = <<r, g>>
      <4>1. s \in Seq(Asked) /\ s # <<>>
        BY <3>2, <3>6
      <4> QED BY <3>3, <4>1
    <3> QED BY <3>4, <3>5, <3>6
  <2> QED BY <2>1, <2>2, <2>3, <2>4
<1> QED BY <1>1, <1>2, CountBegin

LEMMA CountEnds ==
  ASSUME TypeInv, CountInv, NEW p \in Processes,
         close(p) \/ connectionLost(p) \/ crash(p) \/ timeout(p) \/ connect(p)
  PROVE  CountInv'
<1>1. waiting' = waiting /\ sends' = sends
  BY DEF close, connectionLost, crash, timeout, connect, brokerVars
<1>2. CASE Dropped(p)
  <2>1. inflight' = [inflight EXCEPT ![p] = <<>>] /\ DOMAIN <<>> = {}
    BY <1>2 DEF Dropped
  <2> QED BY <1>1, <2>1, CountLocal
<1>3. CASE timeout(p) \/ connect(p)
  <2>1. inflight' = [inflight EXCEPT ![p] = inflight[p]]
    BY <1>3, SelfUpdate DEF TypeInv, timeout, connect
  <2> QED BY <1>1, <2>1, CountLocal
<1> QED BY <1>2, <1>3 DEF close, connectionLost, crash

LEMMA CountPerforms ==
  ASSUME TypeInv, CountInv, NEW p \in Processes,
         performUnawaited(p) \/ performAwaited(p) \/ performLast(p)
  PROVE  CountInv'
<1>0. Driven(channel[p], inflight[p], plan[p], call[p])
  BY DrivenNow DEF TypeInv
<1>1. inflight[p] # <<>> /\ Perform(Head(inflight[p])) /\ sends' = sends
  <2>1. Awaited(p) => inflight[p] # <<>>
    BY <1>0 DEF Driven, Awaited
  <2> QED BY <2>1 DEF performUnawaited, performAwaited, performLast
<1>2. CASE performUnawaited(p)
  <2>1. inflight' = [inflight EXCEPT ![p] = Tail(inflight[p])]
    BY <1>2 DEF performUnawaited
  <2> QED BY <1>1, <2>1, CountPerform
<1>3. CASE performAwaited(p)
  <2> DEFINE r == Head(plan[p])
  <2>1. inflight' = [inflight EXCEPT ![p] = <<r>>] /\ plan[p] # <<>>
    BY <1>3 DEF performAwaited
  <2>2. r \in Asked
    BY <1>0, <2>1 DEF Driven
  <2> HIDE DEF r
  <2>3. r.kind # "publish" /\ DOMAIN <<r>> = {1} /\ <<r>>[1] = r
    BY <2>2, AskedKinds
  <2> QED BY <1>1, <2>1, <2>3, CountPerform
<1>4. CASE performLast(p) /\ call[p].op # "declareTopic"
  <2>1. inflight' = [inflight EXCEPT ![p] = <<>>] /\ DOMAIN <<>> = {}
    BY <1>4 DEF performLast
  <2> QED BY <1>1, <2>1, CountPerform
<1>5. CASE performLast(p) /\ call[p].op = "declareTopic"
  <2> DEFINE c == call[p]
             last == [op |-> "ensureTopic", topic |-> c.topic, options |-> c.options]
             s == TopicDepth(p, c.topic, last)
  <2>1. inflight' = [inflight EXCEPT ![p] = s]
    BY <1>5 DEF performLast
  <2>2. c \in Calls /\ Ensures(c) /\ Declared(c)
    BY <1>0, <1>5 DEF Driven, Ensures
  <2> HIDE DEF c
  <2>3. PICK r \in Asked : s = <<r>>
    BY <2>2, DepthAfter
  <2> HIDE DEF s
  <2>4. r.kind # "publish" /\ DOMAIN s = {1} /\ s[1] = r
    BY <2>3, AskedKinds
  <2> QED BY <1>1, <2>1, <2>4, CountPerform
<1> QED BY <1>2, <1>3, <1>4, <1>5

LEMMA CountRefuse ==
  ASSUME TypeInv, CountInv, NEW p \in Processes, refuse(p)
  PROVE  CountInv'
<1>1. waiting' = waiting /\ sends' = sends
  BY DEF refuse, brokerVars
<1>2. CASE Backend[p] = "amqpcpp"
  <2>1. inflight' = [inflight EXCEPT ![p] = <<>>] /\ DOMAIN <<>> = {}
    BY <1>2 DEF refuse
  <2> QED BY <1>1, <2>1, CountLocal
<1>3. CASE Backend[p] # "amqpcpp"
  <2> DEFINE A == Pending(inflight')
             B == Pending(inflight) \ {<<p, 1>>}
  <2>1. inflight' = [inflight EXCEPT ![p] = Tail(inflight[p])] /\ inflight[p] # <<>>
    BY <1>3 DEF refuse
  <2>2. A = Pending([inflight EXCEPT ![p] = Tail(inflight[p])])
    BY <2>1
  <2>3. IsFiniteSet(Pending(inflight))
    BY DEF CountInv
  <2>4. IsFiniteSet(B) /\ Cardinality(B) <= Cardinality(Pending(inflight))
    BY <2>3, FS_Subset
  <2> HIDE DEF A
  <2>5. IsFiniteSet(A) /\ Cardinality(A) <= Cardinality(B)
    BY <2>1, <2>2, <2>3, PendingTail DEF TypeInv
  <2>6. Cardinality(A) \in Nat /\ Cardinality(B) \in Nat /\ Cardinality(Pending(inflight)) \in Nat
    BY <2>3, <2>4, <2>5, FS_CardinalityType
  <2>7. ASSUME NEW n \in Names PROVE waiting'[n] + Cardinality(A) <= sends'
    <3>1. /\ waiting[n] + Cardinality(Pending(inflight)) <= sends
          /\ waiting[n] \in Nat /\ sends \in Nat
      BY DEF CountInv, TypeInv, BrokerPart, BoundPart
    <3> HIDE DEF B
    <3> QED BY <1>1, <2>4, <2>5, <2>6, <3>1
  <2> QED BY <2>5, <2>7 DEF CountInv, A
<1> QED BY <1>2, <1>3

LEMMA CountHolds ==
  Spec => []CountInv
<1>1. Init => CountInv
  <2> SUFFICES ASSUME Init PROVE CountInv
    OBVIOUS
  <2>1. Pending(inflight) = {}
    BY DEF Pending, Init
  <2>2. IsFiniteSet(Pending(inflight)) /\ Cardinality(Pending(inflight)) = 0
    BY <2>1, FS_EmptySet
  <2>3. sends = 0 /\ \A n \in Names : waiting[n] = 0
    BY DEF Init
  <2> HIDE DEF Pending
  <2> QED BY <2>2, <2>3 DEF CountInv
<1>2. TypeInv /\ CountInv /\ [Next]_vars => CountInv'
  <2> SUFFICES ASSUME TypeInv, CountInv, [Next]_vars PROVE CountInv'
    OBVIOUS
  <2>1. CASE UNCHANGED vars
    <3>1. inflight' = inflight /\ waiting' = waiting /\ sends' = sends
      BY <2>1 DEF vars, brokerVars, processVars
    <3> QED BY <3>1 DEF CountInv
  <2>2. CASE brokerRestarts
    BY <2>2, CountRestart
  <2>3. ASSUME NEW p \in Processes,
               close(p) \/ connectionLost(p) \/ crash(p) \/ timeout(p) \/ connect(p)
        PROVE  CountInv'
    BY <2>3, CountEnds
  <2>4. ASSUME NEW p \in Processes,
               \/ reconnect(p)
               \/ \E t \in Topics, op \in {"declareTopic", "ensureTopic"} :
                    \E o \in Declarations[t] : declareTopic(p, t, o, op)
               \/ \E n \in Inspects[p] : topicDepth(p, n) \/ purgeTopic(p, n)
        PROVE  CountInv'
    BY <2>4, CountCalls
  <2>5. ASSUME NEW p \in Processes, NEW t \in Topics, NEW override \in Overrides,
               send(p, t, override)
        PROVE  CountInv'
    BY <2>5, CountSend
  <2>6. ASSUME NEW p \in Processes,
               performUnawaited(p) \/ performAwaited(p) \/ performLast(p)
        PROVE  CountInv'
    BY <2>6, CountPerforms
  <2>7. ASSUME NEW p \in Processes, refuse(p) PROVE CountInv'
    BY <2>7, CountRefuse
  <2> QED
    BY <2>1, <2>2, <2>3, <2>4, <2>5, <2>6, <2>7, Zenon DEF Next
<1> QED BY <1>1, <1>2, TypesHold, PTL DEF Spec

(* Theorem: types, for every set of processes.  A call waits on an open    *)
(* channel for a request in flight, nothing is in flight without one, and  *)
(* no queue holds more copies than there were send() calls: each publish   *)
(* in flight is counted once, however declarations and messages queue up.  *)
THEOREM TopologyTypeCorrect ==
  Spec => []TypeOK
<1>1. TypeInv /\ CountInv => TypeOK
  <2> SUFFICES ASSUME TypeInv, CountInv PROVE TypeOK
    OBVIOUS
  <2>1. \A g \in Groups : exchanges[g] = Absent \/ exchanges[g].type \in {"direct", "topic", "fanout"}
    BY DEF TypeInv, BrokerPart, ExchangeArguments
  <2>2. \A b \in bindings : b.group \in Groups /\ b.name \in Names
    BY DEF TypeInv, BrokerPart
  <2>3. waiting \in [Names -> 0..MaxSends]
    <3>1. ASSUME NEW n \in Names PROVE waiting[n] \in 0..MaxSends
      <4> DEFINE a == Cardinality(Pending(inflight))
      <4>1. a \in Nat
        BY FS_CardinalityType DEF CountInv
      <4>2. waiting[n] \in Nat /\ waiting[n] + a <= sends
        BY DEF TypeInv, BrokerPart, CountInv
      <4>3. sends \in 0..MaxSends /\ MaxSends \in Nat
        BY TopologyAssumption DEF TypeInv, BoundPart
      <4> HIDE DEF a
      <4> QED BY <4>1, <4>2, <4>3
    <3> QED BY <3>1 DEF TypeInv, BrokerPart
  <2>4. channel \in [Processes -> {"none", "open", "broken"}]
    BY DEF TypeInv, DriverPart, Driven
  <2>5. ASSUME NEW p \in Processes
        PROVE  /\ channel[p] # "open" => inflight[p] = <<>> /\ call[p] = NoCall
               /\ call[p] = NoCall => plan[p] = <<>>
               /\ call[p] # NoCall => inflight[p] # <<>>
               /\ known[p] \subseteq Topics
    BY DrivenNow DEF TypeInv, Driven, MemoryPart
  <2>6. evaporated \subseteq Topics /\ sends \in 0..MaxSends /\ faults \in 0..MaxFaults
    BY DEF TypeInv, BoundPart
  <2> QED BY <2>1, <2>2, <2>3, <2>4, <2>5, <2>6 DEF TypeOK
<1> QED BY <1>1, TypesHold, CountHolds, PTL

-----------------------------------------------------------------------------
(* Declarations that agree are never refused, and what is sent to a        *)
(* durable topic arrives.                                                  *)
(*                                                                         *)
(* What is at the broker, and what is in flight to it, comes from a        *)
(* declaration that passed the check, or is the library's own; a binding   *)
(* is asked for when its queue and its group are there.  The invariant     *)
(* needs no agreement: it says what holds of the topics that no            *)
(* declaration makes transient.                                            *)

LegitExchange(g, x) ==
  \/ g = kDeadLetterExchange /\ x = DeadLetters
  \/ \E t \in Topics : \E o \in Accepted(t) :
       /\ o.group # NoGroup /\ o.group = g
       /\ x = [type |-> amqpExchangeType(o.routing), durable |-> o.durable]

LegitQueue(n, a) ==
  \/ \E t \in Topics : n = deadLetterTopic(t) /\ a = ForensicArguments(t)
  \/ n \in Topics /\ \E o \in Accepted(n) : a = queueArguments(o)

Legit(r) ==
  /\ r.kind = "exchange" => LegitExchange(r.group, r.exchange)
  /\ r.kind = "queue" => LegitQueue(r.name, r.properties)

AlwaysDurable(n) == n \in Topics => \A o \in Accepted(n) : o.durable
EverDurable(t)   == \E o \in Accepted(t) : o.durable

(* The k-th request of s is one a declaration may make, and if it is a     *)
(* binding, its group and its queue were asked for just before.            *)
FineAt(s, k) ==
  /\ Legit(s[k])
  /\ s[k].kind = "bind" =>
       /\ k - 2 \in 1..Len(s) /\ k - 1 \in 1..Len(s)
       /\ s[k - 2].kind = "exchange" /\ s[k - 2].group = s[k].group
       /\ s[k - 1].kind = "queue" /\ s[k - 1].name = s[k].name
       /\ AlwaysDurable(s[k].name) => s[k - 2].exchange.durable /\ s[k - 1].properties.durable

Fine(s) == \A k \in 1..Len(s) : FineAt(s, k)

LEMMA AcceptedType ==
  ASSUME NEW t \in Topics, NEW o \in Accepted(t)
  PROVE  o \in Declarations[t] /\ o \in TopicOptions
BY DeclarationType DEF Accepted

LEMMA FineConcat ==
  ASSUME NEW a \in Seq(Asked), NEW b \in Seq(Asked), Fine(a), Fine(b)
  PROVE  Fine(a \o b)
<1> DEFINE s == a \o b
<1>1. /\ Len(s) = Len(a) + Len(b) /\ Len(a) \in Nat /\ Len(b) \in Nat
      /\ \A k \in 1..Len(a) : s[k] = a[k]
      /\ \A k \in 1..Len(b) : s[Len(a) + k] = b[k]
  OBVIOUS
<1> HIDE DEF s
<1>2. ASSUME NEW k \in 1..Len(a) PROVE FineAt(s, k)
  <2>1. FineAt(a, k) /\ s[k] = a[k]
    BY <1>1 DEF Fine
  <2>2. \A i \in 1..Len(a) : i \in 1..Len(s) /\ s[i] = a[i]
    BY <1>1
  <2> QED BY <2>1, <2>2 DEF FineAt
<1>3. ASSUME NEW k \in 1..Len(b) PROVE FineAt(s, Len(a) + k)
  <2>1. FineAt(b, k) /\ s[Len(a) + k] = b[k]
    BY <1>1 DEF Fine
  <2>2. \A i \in 1..Len(b) : Len(a) + i \in 1..Len(s) /\ s[Len(a) + i] = b[i]
    BY <1>1
  <2>3. Len(a) + k - 2 = Len(a) + (k - 2) /\ Len(a) + k - 1 = Len(a) + (k - 1)
    BY <1>1
  <2>4. s[Len(a) + k].kind = "bind" =>
          /\ k - 2 \in 1..Len(b) /\ k - 1 \in 1..Len(b)
          /\ Len(a) + k - 2 \in 1..Len(s) /\ Len(a) + k - 1 \in 1..Len(s)
          /\ s[Len(a) + k - 2] = b[k - 2] /\ s[Len(a) + k - 1] = b[k - 1]
    <3> SUFFICES ASSUME s[Len(a) + k].kind = "bind"
                 PROVE  /\ k - 2 \in 1..Len(b) /\ k - 1 \in 1..Len(b)
                        /\ Len(a) + k - 2 \in 1..Len(s) /\ Len(a) + k - 1 \in 1..Len(s)
                        /\ s[Len(a) + k - 2] = b[k - 2] /\ s[Len(a) + k - 1] = b[k - 1]
      OBVIOUS
    <3>1. k - 2 \in 1..Len(b) /\ k - 1 \in 1..Len(b)
      BY <2>1 DEF FineAt
    <3>2. /\ Len(a) + (k - 2) \in 1..Len(s) /\ Len(a) + (k - 1) \in 1..Len(s)
          /\ s[Len(a) + (k - 2)] = b[k - 2] /\ s[Len(a) + (k - 1)] = b[k - 1]
      BY <2>2, <3>1
    <3> QED BY <2>3, <3>1, <3>2
  <2>5. Legit(s[Len(a) + k])
    BY <2>1 DEF FineAt
  <2> QED BY <2>1, <2>4, <2>5 DEF FineAt
<1>4. ASSUME NEW k \in 1..Len(s) PROVE FineAt(s, k)
  <2>1. CASE k <= Len(a)
    <3>1. k \in 1..Len(a)
      BY <1>1, <2>1
    <3> QED BY <1>2, <3>1
  <2>2. CASE k > Len(a)
    <3>1. k - Len(a) \in 1..Len(b) /\ Len(a) + (k - Len(a)) = k
      BY <1>1, <2>2
    <3> QED BY <1>3, <3>1
  <2> QED BY <1>1, <2>1, <2>2
<1> QED BY <1>4 DEF Fine, s

LEMMA FineOne ==
  ASSUME NEW r, Legit(r), r.kind # "bind"
  PROVE  Fine(<<r>>)
<1>1. Len(<<r>>) = 1 /\ <<r>>[1] = r
  OBVIOUS
<1>2. FineAt(<<r>>, 1)
  BY <1>1 DEF FineAt
<1>3. 1..Len(<<r>>) = {1}
  BY <1>1
<1> QED BY <1>2, <1>3 DEF Fine

LEMMA FineTriple ==
  ASSUME NEW g \in Groups, NEW x \in ExchangeArguments, NEW n \in Names,
         NEW a \in QueueArguments, NEW k \in Name,
         LegitExchange(g, x), LegitQueue(n, a),
         AlwaysDurable(n) => x.durable /\ a.durable,
         NEW e, e = [kind |-> "exchange", group |-> g, exchange |-> x]
  PROVE  Fine(<<e, Queue(n, a), Bind(g, n, k)>>)
<1> DEFINE q == Queue(n, a)
           b == Bind(g, n, k)
           s == <<e, q, b>>
<1>1. e.kind = "exchange" /\ e.group = g /\ e.exchange = x
  OBVIOUS
<1>2. q.kind = "queue" /\ q.name = n /\ q.properties = a
  BY DEF Queue
<1>3. b.kind = "bind" /\ b.group = g /\ b.name = n
  BY DEF Bind
<1> HIDE DEF q, b
<1>4. Len(s) = 3 /\ s[1] = e /\ s[2] = q /\ s[3] = b
  OBVIOUS
<1> HIDE DEF s
<1>5. FineAt(s, 1)
  BY <1>1, <1>4 DEF FineAt, Legit
<1>6. FineAt(s, 2)
  BY <1>2, <1>4 DEF FineAt, Legit
<1>7. FineAt(s, 3)
  <2>1. 3 - 2 \in 1..Len(s) /\ 3 - 1 \in 1..Len(s) /\ 3 - 2 = 1 /\ 3 - 1 = 2
    BY <1>4
  <2>2. s[3].kind = "bind" /\ Legit(s[3])
    BY <1>3, <1>4 DEF Legit
  <2> QED BY <1>1, <1>2, <1>3, <1>4, <2>1, <2>2 DEF FineAt
<1>8. 1..Len(s) = {1, 2, 3}
  BY <1>4
<1> QED BY <1>5, <1>6, <1>7, <1>8 DEF Fine, s, q, b

LEMMA EnsureFine ==
  ASSUME NEW p \in Processes, NEW t \in Topics, NEW o \in Accepted(t)
  PROVE  LET s == EnsureTopic(p, t, o) IN
         /\ s \in Seq(Asked) /\ s # <<>> /\ Fine(s)
         /\ \E k \in 1..Len(s) : s[k] = Queue(t, queueArguments(o))
<1> DEFINE q == Queue(t, queueArguments(o))
           own == OwnRequests(p, t, o)
           forensic == <<ForensicExchange, ForensicQueue(t), ForensicBind(t)>>
<1>1. o \in Declarations[t] /\ o \in TopicOptions
  BY AcceptedType
<1>2. t \in Names /\ t \in Name /\ deadLetterTopic(t) \in Names
  BY ForensicName
<1>3. own \in Seq(Asked) /\ own # <<>>
  BY <1>1, OwnType
<1>4. LegitQueue(t, queueArguments(o)) /\ queueArguments(o) \in QueueArguments
      /\ cppArguments(o) = queueArguments(o) /\ queueArguments(o).durable = o.durable
  BY <1>1, ArgumentsType DEF LegitQueue
<1>5. Fine(own) /\ \E k \in 1..Len(own) : own[k] = q
  <2>1. CASE own = <<q>>
    <3>1. Legit(q) /\ q.kind # "bind"
      BY <1>4 DEF Legit, Queue
    <3> HIDE DEF q, own
    <3>2. Fine(own)
      BY <2>1, <3>1, FineOne
    <3>3. 1 \in 1..Len(own) /\ own[1] = q
      BY <2>1
    <3> QED BY <3>2, <3>3
  <2>2. CASE Backend[p] = "amqpcpp" /\ o.group # NoGroup
    <3> DEFINE x == [type |-> amqpExchangeType(o.routing), durable |-> o.durable]
               e == [kind |-> "exchange", group |-> o.group, exchange |-> x]
               b == Bind(o.group, t, KeyOf(t, o))
    <3>1. o.group \in Groups /\ KeyOf(t, o) \in Name
      BY <1>1, <2>2, DeclarationType
    <3>2. x \in ExchangeArguments
      <4>1. o.routing \in Routing /\ o.durable \in BOOLEAN
        BY <1>1 DEF TopicOptions
      <4> QED BY <4>1, RoutingType DEF ExchangeArguments
    <3>3. LegitExchange(o.group, x)
      BY <2>2 DEF LegitExchange
    <3>4. x.durable = o.durable /\ (AlwaysDurable(t) => o.durable)
      BY DEF AlwaysDurable
    <3>5. own = <<e, q, b>>
      BY <1>4, <2>2 DEF OwnRequests, DeclareOne, Exchange
    <3> HIDE DEF x
    <3>6. Fine(<<e, q, b>>)
      BY <1>2, <1>4, <3>1, <3>2, <3>3, <3>4, FineTriple
    <3> HIDE DEF q, e, b, own
    <3>7. 2 \in 1..Len(own) /\ own[2] = q
      BY <3>5
    <3> QED BY <3>5, <3>6, <3>7
  <2>3. own = <<q>> \/ (Backend[p] = "amqpcpp" /\ o.group # NoGroup)
    BY <1>4 DEF OwnRequests, DeclareOne
  <2> QED BY <2>1, <2>2, <2>3
<1>6. forensic \in Seq(Asked) /\ Fine(forensic)
  <2>1. forensic \in Seq(Asked)
    <3>1. \A x, y, z \in Asked : <<x, y, z>> \in Seq(Asked)
      OBVIOUS
    <3> QED BY <3>1, ForensicTypes
  <2>2. LegitExchange(kDeadLetterExchange, DeadLetters)
    BY DEF LegitExchange
  <2>3. LegitQueue(deadLetterTopic(t), ForensicArguments(t))
    BY DEF LegitQueue
  <2>4. DeadLetters \in ExchangeArguments /\ DeadLetters.durable
    BY DEF DeadLetters, ExchangeArguments
  <2>5. ForensicArguments(t) \in QueueArguments /\ ForensicArguments(t).durable
    BY ForensicTypes
  <2>6. ForensicExchange = [kind |-> "exchange", group |-> kDeadLetterExchange,
                            exchange |-> DeadLetters]
    BY DEF ForensicExchange, Exchange, DeadLetters
  <2>7. kDeadLetterExchange \in Groups
    BY Present
  <2>8. Fine(<<ForensicExchange, Queue(deadLetterTopic(t), ForensicArguments(t)),
               Bind(kDeadLetterExchange, deadLetterTopic(t), t)>>)
    BY <1>2, <2>2, <2>3, <2>4, <2>5, <2>6, <2>7, FineTriple
  <2> QED BY <2>1, <2>8 DEF ForensicQueue, ForensicBind
<1>7. EnsureTopic(p, t, o) = (IF o.deadLetter THEN forensic ELSE <<>>) \o own
  BY <1>1, EnsureShape
<1> HIDE DEF own, forensic, q
<1>8. CASE ~o.deadLetter
  <2>1. EnsureTopic(p, t, o) = own
    BY <1>3, <1>7, <1>8
  <2> QED BY <1>3, <1>5, <2>1 DEF q
<1>9. CASE o.deadLetter
  <2> DEFINE s == forensic \o own
  <2>1. s \in Seq(Asked) /\ s # <<>> /\ Len(s) = Len(forensic) + Len(own)
        /\ \A k \in 1..Len(own) : Len(forensic) + k \in 1..Len(s) /\ s[Len(forensic) + k] = own[k]
    BY <1>3, <1>6
  <2>2. Fine(s)
    BY <1>3, <1>5, <1>6, FineConcat
  <2>3. EnsureTopic(p, t, o) = s
    BY <1>7, <1>9
  <2> HIDE DEF s
  <2>4. \E k \in 1..Len(s) : s[k] = q
    BY <1>5, <2>1
  <2> QED BY <2>1, <2>2, <2>3, <2>4 DEF q
<1> QED BY <1>8, <1>9

(* What a binding, or a request for one, can rely on. *)
Backed(ex, qs, g, n) ==
  /\ ex[g] # Absent /\ qs[n] # Absent
  /\ AlwaysDurable(n) => ex[g].durable /\ qs[n].durable

Reaches(qs, bs, r) ==
  IF r.group = NoGroup THEN r.key = r.name /\ qs[r.name] # Absent
  ELSE [group |-> r.group, name |-> r.name, key |-> r.key] \in bs

(* A request in flight. *)
Sound(ex, qs, bs, r) ==
  /\ Legit(r)
  /\ r.kind = "bind" => Backed(ex, qs, r.group, r.name)
  /\ r.kind = "publish" /\ r.expected =>
       EverDurable(r.name) /\ (AlwaysDurable(r.name) => Reaches(qs, bs, r))

AllSound(ex, qs, bs, fl) == \A k \in DOMAIN fl : Sound(ex, qs, bs, fl[k])

(* A request that was performed. *)
There(ex, qs, bs, r) ==
  /\ r.kind = "exchange" => ex[r.group] = r.exchange
  /\ r.kind = "queue" => qs[r.name] = r.properties
  /\ r.kind = "bind" => [group |-> r.group, name |-> r.name, key |-> r.key] \in bs

(* Of the requests s of a call, k - 1 were performed, the k-th is x and    *)
(* the others are still to be sent.                                        *)
Reached(ex, qs, bs, x, pl, s, k) ==
  /\ s[k] = x
  /\ Len(pl) = Len(s) - k /\ \A i \in 1..Len(pl) : pl[i] = s[k + i]
  /\ \A i \in 1..k - 1 : There(ex, qs, bs, s[i])

Passed(c) == c.topic \in Topics /\ c.options \in Accepted(c.topic)

Progress(p, ex, qs, bs, x, pl, c) ==
  IF Ensures(c)
  THEN /\ Passed(c)
       /\ \E k \in 1..Len(EnsureTopic(p, c.topic, c.options)) :
            Reached(ex, qs, bs, x, pl, EnsureTopic(p, c.topic, c.options), k)
  ELSE \A k \in DOMAIN pl : pl[k].kind = "purge"

BrokerSound ==
  /\ \A g \in Groups : exchanges[g] # Absent => LegitExchange(g, exchanges[g])
  /\ \A n \in Names : queues[n] # Absent => LegitQueue(n, queues[n])
  /\ \A b \in bindings : Backed(exchanges, queues, b.group, b.name)

DriverSound ==
  \A p \in Processes :
    /\ AllSound(exchanges, queues, bindings, inflight[p])
    /\ Progress(p, exchanges, queues, bindings, LastOf(inflight[p]), plan[p], call[p])

(* What the process keeps of its declarations, between connections. *)
Recalled(qs, bs, last, rs, ts) ==
  /\ last # NoCall => Passed(last)
  /\ \A n \in Names : rs[n] # Absent /\ AlwaysDurable(n) =>
       [group |-> rs[n].group, name |-> n, key |-> rs[n].key] \in bs
  /\ \A t \in ts : EverDurable(t) /\ (AlwaysDurable(t) => qs[t] # Absent /\ qs[t].durable)

MemorySound ==
  \A p \in Processes : Recalled(queues, bindings, remembered[p], routes[p], known[p])

LossSound == \A t \in evaporated : EverDurable(t) /\ ~AlwaysDurable(t)

TopologyInv == BrokerSound /\ DriverSound /\ MemorySound /\ LossSound

LEMMA BackedGrows ==
  ASSUME NEW g \in Groups, NEW n \in Names, NEW ex, NEW qs, NEW bs, NEW ex2, NEW qs2, NEW bs2,
         Grown(ex, qs, bs, ex2, qs2, bs2), Backed(ex, qs, g, n)
  PROVE  Backed(ex2, qs2, g, n)
BY DEF Backed, Grown

LEMMA SoundGrows ==
  ASSUME NEW r \in Requests, NEW ex, NEW qs, NEW bs, NEW ex2, NEW qs2, NEW bs2,
         Grown(ex, qs, bs, ex2, qs2, bs2), Sound(ex, qs, bs, r)
  PROVE  Sound(ex2, qs2, bs2, r)
<1>1. r.kind = "bind" => Backed(ex2, qs2, r.group, r.name)
  BY RequestKinds, BackedGrows DEF Sound
<1>2. ASSUME r.kind = "publish", Reaches(qs, bs, r) PROVE Reaches(qs2, bs2, r)
  <2>1. r.name \in Names
    BY <1>2, RequestKinds, ForensicName
  <2> QED BY <1>2, <2>1 DEF Reaches, Grown
<1> QED BY <1>1, <1>2 DEF Sound

LEMMA AllSoundGrows ==
  ASSUME NEW fl \in Seq(Requests), NEW ex, NEW qs, NEW bs, NEW ex2, NEW qs2, NEW bs2,
         Grown(ex, qs, bs, ex2, qs2, bs2), AllSound(ex, qs, bs, fl)
  PROVE  AllSound(ex2, qs2, bs2, fl)
<1>1. \A k \in DOMAIN fl : fl[k] \in Requests
  OBVIOUS
<1> QED BY <1>1, SoundGrows DEF AllSound

LEMMA ThereGrows ==
  ASSUME NEW r \in Asked, NEW ex, NEW qs, NEW bs, NEW ex2, NEW qs2, NEW bs2,
         Grown(ex, qs, bs, ex2, qs2, bs2), There(ex, qs, bs, r)
  PROVE  There(ex2, qs2, bs2, r)
<1>1. r \in Requests
  BY AskedKinds
<1>2. /\ r.kind = "exchange" => r.group \in Groups /\ r.exchange # Absent
      /\ r.kind = "queue" => r.name \in Names /\ r.properties # Absent
  BY <1>1, RequestKinds, AbsentAssumption
<1> QED BY <1>2 DEF There, Grown

LEMMA ReachedGrows ==
  ASSUME NEW s \in Seq(Asked), NEW k \in 1..Len(s), NEW x, NEW pl,
         NEW ex, NEW qs, NEW bs, NEW ex2, NEW qs2, NEW bs2,
         Grown(ex, qs, bs, ex2, qs2, bs2), Reached(ex, qs, bs, x, pl, s, k)
  PROVE  Reached(ex2, qs2, bs2, x, pl, s, k)
<1>1. \A i \in 1..k - 1 : s[i] \in Asked
  <2>1. \A i \in 1..k - 1 : i \in 1..Len(s)
    OBVIOUS
  <2> QED BY <2>1
<1>2. \A i \in 1..k - 1 : There(ex2, qs2, bs2, s[i])
  BY <1>1, ThereGrows DEF Reached
<1> QED BY <1>2 DEF Reached

LEMMA ProgressGrows ==
  ASSUME NEW p \in Processes, NEW x, NEW pl, NEW c,
         NEW ex, NEW qs, NEW bs, NEW ex2, NEW qs2, NEW bs2,
         Grown(ex, qs, bs, ex2, qs2, bs2), Progress(p, ex, qs, bs, x, pl, c)
  PROVE  Progress(p, ex2, qs2, bs2, x, pl, c)
<1>1. CASE Ensures(c)
  <2> DEFINE s == EnsureTopic(p, c.topic, c.options)
  <2>1. Passed(c) /\ \E k \in 1..Len(s) : Reached(ex, qs, bs, x, pl, s, k)
    BY <1>1 DEF Progress
  <2>2. s \in Seq(Asked)
    BY <2>1, EnsureFine DEF Passed
  <2>3. \E k \in 1..Len(s) : Reached(ex2, qs2, bs2, x, pl, s, k)
    <3> HIDE DEF s
    <3> QED BY <2>1, <2>2, ReachedGrows
  <2> QED BY <1>1, <2>1, <2>3 DEF Progress
<1>2. CASE ~Ensures(c)
  BY <1>2 DEF Progress
<1> QED BY <1>1, <1>2

LEMMA RecalledGrows ==
  ASSUME NEW last, NEW rs, NEW ts \in SUBSET Topics,
         NEW ex, NEW qs, NEW bs, NEW ex2, NEW qs2, NEW bs2,
         Grown(ex, qs, bs, ex2, qs2, bs2), Recalled(qs, bs, last, rs, ts)
  PROVE  Recalled(qs2, bs2, last, rs, ts)
<1>1. \A t \in ts : t \in Names
  BY ForensicName
<1> QED BY <1>1 DEF Recalled, Grown

(* What the broker performed is there. *)
LEMMA PerformThere ==
  ASSUME BrokerPart, NEW r \in Requests, Perform(r)
  PROVE  There(exchanges', queues', bindings', r)
<1> USE RequestKinds
<1>1. r.kind = "exchange" => exchanges'[r.group] = r.exchange
  BY DEF Perform, BrokerPart
<1>2. r.kind = "queue" => queues'[r.name] = r.properties
  BY DEF Perform, BrokerPart
<1>3. r.kind = "bind" => [group |-> r.group, name |-> r.name, key |-> r.key] \in bindings'
  BY DEF Perform
<1> QED BY <1>1, <1>2, <1>3 DEF There

(* A published message that reaches its topic does not evaporate. *)
LEMMA ReachesRoutes ==
  ASSUME BrokerPart, BrokerSound, NEW r \in Requests, r.kind = "publish",
         Reaches(queues, bindings, r)
  PROVE  r.name \in RoutedTo(r.group, r.key)
<1>1. r.name \in Names /\ r.key \in Name
  BY RequestKinds, ForensicName
<1>2. CASE r.group = NoGroup
  BY <1>1, <1>2 DEF Reaches, RoutedTo
<1>3. CASE r.group # NoGroup
  <2> DEFINE b == [group |-> r.group, name |-> r.name, key |-> r.key]
  <2>1. b \in bindings /\ b.group = r.group /\ b.name = r.name /\ b.key = r.key
    BY <1>3 DEF Reaches
  <2> HIDE DEF b
  <2>2. r.group \in Groups /\ exchanges[r.group] # Absent
    BY <1>3, <2>1, RequestKinds DEF BrokerSound, Backed
  <2>3. exchanges[r.group].type \in {"direct", "topic", "fanout"}
    BY <2>2 DEF BrokerPart, ExchangeArguments
  <2>4. routeMatches(r.key, r.key)
    BY <1>1, RouteMatchesItself DEF Name
  <2>5. Matches(exchanges[r.group].type, r.key, r.key)
    BY <2>3, <2>4 DEF Matches
  <2> QED BY <1>1, <1>3, <2>1, <2>5 DEF RoutedTo
<1> QED BY <1>2, <1>3

LEMMA PerformSound ==
  ASSUME BrokerPart, BrokerSound, LossSound, NEW r \in Requests,
         ~Refuses(r), Perform(r), Sound(exchanges, queues, bindings, r)
  PROVE  BrokerSound' /\ LossSound'
<1> USE RequestKinds
<1>1. Grown(exchanges, queues, bindings, exchanges', queues', bindings')
  BY PerformGrows
<1>2. ASSUME NEW g \in Groups, exchanges'[g] # Absent PROVE LegitExchange(g, exchanges'[g])
  <2>1. \/ exchanges'[g] = exchanges[g]
        \/ r.kind = "exchange" /\ r.group = g /\ exchanges'[g] = r.exchange
    BY DEF Perform, BrokerPart
  <2> QED BY <1>2, <2>1 DEF BrokerSound, Sound, Legit
<1>3. ASSUME NEW n \in Names, queues'[n] # Absent PROVE LegitQueue(n, queues'[n])
  <2>1. \/ queues'[n] = queues[n]
        \/ r.kind = "queue" /\ r.name = n /\ queues'[n] = r.properties
    BY DEF Perform, BrokerPart
  <2> QED BY <1>3, <2>1 DEF BrokerSound, Sound, Legit
<1>4. ASSUME NEW b \in bindings' PROVE Backed(exchanges', queues', b.group, b.name)
  <2>1. \/ b \in bindings
        \/ r.kind = "bind" /\ b.group = r.group /\ b.name = r.name
    BY DEF Perform
  <2>2. Backed(exchanges, queues, b.group, b.name) /\ b.group \in Groups /\ b.name \in Names
    BY <2>1 DEF BrokerSound, BrokerPart, Sound
  <2> QED BY <1>1, <2>2, BackedGrows
<1>5. ASSUME NEW t \in evaporated' PROVE EverDurable(t) /\ ~AlwaysDurable(t)
  <2>1. \/ t \in evaporated
        \/ /\ r.kind = "publish" /\ r.expected /\ t = r.name
           /\ r.name \notin RoutedTo(r.group, r.key)
    BY DEF Perform
  <2>2. CASE t \in evaporated
    BY <2>2 DEF LossSound
  <2>3. CASE /\ r.kind = "publish" /\ r.expected /\ t = r.name
             /\ r.name \notin RoutedTo(r.group, r.key)
    <3>1. ~Reaches(queues, bindings, r)
      BY <2>3, ReachesRoutes
    <3> QED BY <2>3, <3>1 DEF Sound
  <2> QED BY <2>1, <2>2, <2>3
<1>6. \A g \in Groups : (exchanges[g] # Absent)' => LegitExchange(g, exchanges'[g])
  BY <1>2
<1>7. \A n \in Names : (queues[n] # Absent)' => LegitQueue(n, queues'[n])
  BY <1>3
<1>8. BrokerSound'
  BY <1>4, <1>6, <1>7 DEF BrokerSound
<1> QED BY <1>5, <1>8 DEF LossSound

(* One process goes on while the broker only gets more. *)
LEMMA SoundStep ==
  ASSUME TypeInv, DriverSound, NEW p \in Processes, NEW fl, NEW pl, NEW c,
         inflight' = [inflight EXCEPT ![p] = fl], plan' = [plan EXCEPT ![p] = pl],
         call' = [call EXCEPT ![p] = c],
         Grown(exchanges, queues, bindings, exchanges', queues', bindings'),
         AllSound(exchanges', queues', bindings', fl),
         Progress(p, exchanges', queues', bindings', LastOf(fl), pl, c)
  PROVE  DriverSound'
<1>1. ASSUME NEW q \in Processes
      PROVE  /\ AllSound(exchanges', queues', bindings', inflight'[q])
             /\ Progress(q, exchanges', queues', bindings', LastOf(inflight'[q]), plan'[q], call'[q])
  <2>1. CASE q = p
    <3>1. inflight'[q] = fl /\ plan'[q] = pl /\ call'[q] = c
      BY <2>1 DEF TypeInv, DriverPart
    <3> QED BY <2>1, <3>1
  <2>2. CASE q # p
    <3>1. inflight'[q] = inflight[q] /\ plan'[q] = plan[q] /\ call'[q] = call[q]
      BY <2>2 DEF TypeInv, DriverPart
    <3>2. inflight[q] \in Seq(Requests)
      BY DrivenNow DEF TypeInv, Driven
    <3>3. /\ AllSound(exchanges, queues, bindings, inflight[q])
          /\ Progress(q, exchanges, queues, bindings, LastOf(inflight[q]), plan[q], call[q])
      BY DEF DriverSound
    <3>4. /\ AllSound(exchanges', queues', bindings', inflight[q])
          /\ Progress(q, exchanges', queues', bindings', LastOf(inflight[q]), plan[q], call[q])
      BY <3>2, <3>3, AllSoundGrows, ProgressGrows
    <3> QED BY <3>1, <3>4
  <2> QED BY <2>1, <2>2
<1> QED BY <1>1 DEF DriverSound

(* ... and the broker does nothing. *)
LEMMA SoundLocal ==
  ASSUME TypeInv, TopologyInv, NEW p \in Processes, NEW fl, NEW pl, NEW c,
         inflight' = [inflight EXCEPT ![p] = fl], plan' = [plan EXCEPT ![p] = pl],
         call' = [call EXCEPT ![p] = c], UNCHANGED <<brokerVars, evaporated>>,
         AllSound(exchanges, queues, bindings, fl),
         Progress(p, exchanges, queues, bindings, LastOf(fl), pl, c)
  PROVE  BrokerSound' /\ DriverSound' /\ LossSound'
<1>1. exchanges' = exchanges /\ queues' = queues /\ bindings' = bindings /\ evaporated' = evaporated
  BY DEF brokerVars
<1>2. Grown(exchanges, queues, bindings, exchanges', queues', bindings')
  BY <1>1 DEF Grown
<1>3. BrokerSound' /\ LossSound'
  BY <1>1 DEF TopologyInv, BrokerSound, LossSound
<1>4. /\ AllSound(exchanges', queues', bindings', fl)
      /\ Progress(p, exchanges', queues', bindings', LastOf(fl), pl, c)
  BY <1>1
<1>5. DriverSound'
  BY <1>2, <1>4, SoundStep DEF TopologyInv
<1> QED BY <1>3, <1>5

LEMMA MemoryStays ==
  ASSUME TypeInv, MemorySound, UNCHANGED <<remembered, routes, known>>,
         Grown(exchanges, queues, bindings, exchanges', queues', bindings')
  PROVE  MemorySound'
<1>1. ASSUME NEW p \in Processes
      PROVE  Recalled(queues', bindings', remembered'[p], routes'[p], known'[p])
  <2>1. known[p] \in SUBSET Topics
    BY DEF TypeInv, MemoryPart
  <2>2. Recalled(queues, bindings, remembered[p], routes[p], known[p])
    BY DEF MemorySound
  <2> QED BY <2>1, <2>2, RecalledGrows
<1> QED BY <1>1 DEF MemorySound

LEMMA SameGrown ==
  ASSUME UNCHANGED brokerVars
  PROVE  Grown(exchanges, queues, bindings, exchanges', queues', bindings')
BY DEF brokerVars, Grown

LEMMA SoundNow ==
  ASSUME TypeInv, TopologyInv, NEW p \in Processes
  PROVE  /\ Driven(channel[p], inflight[p], plan[p], call[p])
         /\ inflight[p] \in Seq(Requests)
         /\ AllSound(exchanges, queues, bindings, inflight[p])
         /\ Progress(p, exchanges, queues, bindings, LastOf(inflight[p]), plan[p], call[p])
         /\ Recalled(queues, bindings, remembered[p], routes[p], known[p])
BY DrivenNow DEF TypeInv, TopologyInv, DriverSound, MemorySound, Driven

LEMMA SoundEmpty ==
  ASSUME NEW p \in Processes, NEW ex, NEW qs, NEW bs, NEW x
  PROVE  /\ AllSound(ex, qs, bs, <<>>)
         /\ Progress(p, ex, qs, bs, x, <<>>, NoCall)
<1>1. DOMAIN <<>> = {}
  OBVIOUS
<1>2. ~Ensures(NoCall)
  BY DEF Ensures, NoCall
<1> QED BY <1>1, <1>2 DEF AllSound, Progress

LEMMA SoundTail ==
  ASSUME NEW s \in Seq(Requests), s # <<>>, NEW ex, NEW qs, NEW bs, AllSound(ex, qs, bs, s)
  PROVE  AllSound(ex, qs, bs, Tail(s)) /\ Sound(ex, qs, bs, Head(s)) /\ Head(s) \in Requests
BY TailFacts DEF AllSound

LEMMA SoundOne ==
  ASSUME NEW ex, NEW qs, NEW bs, NEW r, Sound(ex, qs, bs, r)
  PROVE  AllSound(ex, qs, bs, <<r>>) /\ LastOf(<<r>>) = r
<1>1. DOMAIN <<r>> = {1} /\ <<r>>[1] = r /\ Len(<<r>>) = 1
  OBVIOUS
<1> QED BY <1>1 DEF AllSound, LastOf

LEMMA SoundAppend ==
  ASSUME NEW s \in Seq(Requests), NEW r \in Requests, NEW ex, NEW qs, NEW bs,
         AllSound(ex, qs, bs, s), Sound(ex, qs, bs, r)
  PROVE  AllSound(ex, qs, bs, Append(s, r)) /\ LastOf(Append(s, r)) = r
<1>1. /\ Len(Append(s, r)) = Len(s) + 1 /\ Append(s, r)[Len(s) + 1] = r
      /\ DOMAIN Append(s, r) = 1..(Len(s) + 1) /\ Len(s) \in Nat /\ DOMAIN s = 1..Len(s)
  OBVIOUS
<1>2. \A k \in 1..Len(s) : Append(s, r)[k] = s[k]
  OBVIOUS
<1>3. ASSUME NEW k \in DOMAIN Append(s, r) PROVE Sound(ex, qs, bs, Append(s, r)[k])
  <2>1. CASE k = Len(s) + 1
    BY <1>1, <2>1
  <2>2. CASE k # Len(s) + 1
    <3>1. k \in 1..Len(s)
      BY <1>1, <2>2
    <3> QED BY <1>1, <1>2, <3>1 DEF AllSound
  <2> QED BY <2>1, <2>2
<1> QED BY <1>1, <1>3 DEF AllSound, LastOf

(* Only what is durable is left, and it includes all that the topics no    *)
(* declaration makes transient rely on.                                    *)
LEMMA RestartSound ==
  ASSUME TypeInv, TopologyInv, brokerRestarts
  PROVE  TopologyInv'
<1> DEFINE kept(n) == queues[n] # Absent /\ queues[n].durable
           keptGroup(g) == exchanges[g] # Absent /\ exchanges[g].durable
<1>1. /\ exchanges' = [g \in Groups |-> IF keptGroup(g) THEN exchanges[g] ELSE Absent]
      /\ queues' = [n \in Names |-> IF kept(n) THEN queues[n] ELSE Absent]
      /\ bindings' = {b \in bindings : keptGroup(b.group) /\ kept(b.name)}
  BY DEF brokerRestarts
<1>2. /\ \A g \in Groups : keptGroup(g) => exchanges'[g] = exchanges[g]
      /\ \A g \in Groups : exchanges'[g] # Absent => exchanges'[g] = exchanges[g]
      /\ \A n \in Names : kept(n) => queues'[n] = queues[n]
      /\ \A n \in Names : queues'[n] # Absent => queues'[n] = queues[n]
      /\ bindings' \subseteq bindings
  BY <1>1
<1>3. \A b \in bindings : b.group \in Groups /\ b.name \in Names
  BY DEF TypeInv, BrokerPart
<1>4. ASSUME NEW b \in bindings, AlwaysDurable(b.name) PROVE b \in bindings'
  <2>1. Backed(exchanges, queues, b.group, b.name)
    BY DEF TopologyInv, BrokerSound
  <2>2. keptGroup(b.group) /\ kept(b.name)
    BY <1>4, <2>1 DEF Backed
  <2> QED BY <1>1, <2>2
<1>5. BrokerSound'
  <2>1. \A g \in Groups : (exchanges[g] # Absent)' => LegitExchange(g, exchanges'[g])
    <3>1. ASSUME NEW g \in Groups, exchanges'[g] # Absent PROVE LegitExchange(g, exchanges'[g])
      <4>1. exchanges'[g] = exchanges[g]
        BY <1>2, <3>1
      <4> QED BY <3>1, <4>1 DEF TopologyInv, BrokerSound
    <3> QED BY <3>1
  <2>2. \A n \in Names : (queues[n] # Absent)' => LegitQueue(n, queues'[n])
    <3>1. ASSUME NEW n \in Names, queues'[n] # Absent PROVE LegitQueue(n, queues'[n])
      <4>1. queues'[n] = queues[n]
        BY <1>2, <3>1
      <4> QED BY <3>1, <4>1 DEF TopologyInv, BrokerSound
    <3> QED BY <3>1
  <2>3. ASSUME NEW b \in bindings' PROVE Backed(exchanges', queues', b.group, b.name)
    <3>1. /\ b \in bindings /\ keptGroup(b.group) /\ kept(b.name)
          /\ b.group \in Groups /\ b.name \in Names
      BY <1>1, <1>3
    <3>2. exchanges'[b.group] = exchanges[b.group] /\ queues'[b.name] = queues[b.name]
      BY <1>2, <3>1
    <3>3. Backed(exchanges, queues, b.group, b.name)
      BY <3>1 DEF TopologyInv, BrokerSound
    <3> QED BY <3>2, <3>3 DEF Backed
  <2> QED BY <2>1, <2>2, <2>3 DEF BrokerSound
<1>6. DriverSound'
  <2>1. ASSUME NEW p \in Processes
        PROVE  /\ AllSound(exchanges', queues', bindings', inflight'[p])
               /\ Progress(p, exchanges', queues', bindings', LastOf(inflight'[p]), plan'[p], call'[p])
    <3>1. inflight'[p] = <<>> /\ plan'[p] = <<>> /\ call'[p] = NoCall
      BY DEF brokerRestarts
    <3> QED BY <3>1, SoundEmpty
  <2> QED BY <2>1 DEF DriverSound
<1>7. MemorySound'
  <2>1. ASSUME NEW p \in Processes
        PROVE  Recalled(queues', bindings', remembered'[p], routes'[p], known'[p])
    <3>1. remembered' = remembered /\ routes' = routes /\ known' = known
      BY DEF brokerRestarts
    <3>2. Recalled(queues, bindings, remembered[p], routes[p], known[p])
      BY SoundNow
    <3>3. ASSUME NEW n \in Names, routes[p][n] # Absent, AlwaysDurable(n)
          PROVE  [group |-> routes[p][n].group, name |-> n, key |-> routes[p][n].key] \in bindings'
      <4> DEFINE b == [group |-> routes[p][n].group, name |-> n, key |-> routes[p][n].key]
      <4>1. b \in bindings /\ b.name = n
        BY <3>2, <3>3 DEF Recalled
      <4> HIDE DEF b
      <4>2. b \in bindings'
        BY <1>4, <3>3, <4>1
      <4> QED BY <4>2 DEF b
    <3>4. ASSUME NEW t \in known[p], AlwaysDurable(t) PROVE queues'[t] # Absent /\ queues'[t].durable
      <4>1. kept(t)
        BY <3>2, <3>4 DEF Recalled
      <4>2. t \in Names
        BY ForensicName DEF TypeInv, MemoryPart
      <4> QED BY <1>2, <4>1, <4>2
    <3> QED BY <3>1, <3>2, <3>3, <3>4 DEF Recalled
  <2> QED BY <2>1 DEF MemorySound
<1>8. LossSound'
  BY DEF TopologyInv, LossSound, brokerRestarts, historyVars
<1> QED BY <1>5, <1>6, <1>7, <1>8 DEF TopologyInv

LEMMA EndSound ==
  ASSUME TypeInv, TopologyInv, NEW p \in Processes,
         close(p) \/ connectionLost(p) \/ crash(p) \/ timeout(p) \/ refuse(p) \/ connect(p)
  PROVE  TopologyInv'
<1>1. UNCHANGED <<brokerVars, evaporated>>
  BY DEF close, connectionLost, crash, timeout, refuse, connect, historyVars
<1>2. BrokerSound' /\ DriverSound' /\ LossSound'
  <2>1. CASE Dropped(p)
    <3>1. /\ inflight' = [inflight EXCEPT ![p] = <<>>] /\ plan' = [plan EXCEPT ![p] = <<>>]
          /\ call' = [call EXCEPT ![p] = NoCall]
      BY <2>1 DEF Dropped
    <3> QED BY <1>1, <3>1, SoundEmpty, SoundLocal
  <2>2. CASE timeout(p)
    <3>1. /\ inflight' = [inflight EXCEPT ![p] = inflight[p]] /\ plan' = [plan EXCEPT ![p] = <<>>]
          /\ call' = [call EXCEPT ![p] = NoCall]
      BY <2>2, SelfUpdate DEF TypeInv, timeout
    <3>2. /\ AllSound(exchanges, queues, bindings, inflight[p])
          /\ Progress(p, exchanges, queues, bindings, LastOf(inflight[p]), <<>>, NoCall)
      BY SoundNow, SoundEmpty
    <3> QED BY <1>1, <3>1, <3>2, SoundLocal
  <2>3. CASE refuse(p)
    <3>1. plan' = [plan EXCEPT ![p] = <<>>] /\ call' = [call EXCEPT ![p] = NoCall]
      BY <2>3 DEF refuse
    <3>2. CASE Backend[p] = "amqpcpp"
      <4>1. inflight' = [inflight EXCEPT ![p] = <<>>]
        BY <2>3, <3>2 DEF refuse
      <4> QED BY <1>1, <3>1, <4>1, SoundEmpty, SoundLocal
    <3>3. CASE Backend[p] # "amqpcpp"
      <4>1. inflight' = [inflight EXCEPT ![p] = Tail(inflight[p])] /\ inflight[p] # <<>>
        BY <2>3, <3>3 DEF refuse
      <4>2. AllSound(exchanges, queues, bindings, Tail(inflight[p]))
        BY <4>1, SoundNow, SoundTail
      <4>3. Progress(p, exchanges, queues, bindings, LastOf(Tail(inflight[p])), <<>>, NoCall)
        BY SoundEmpty
      <4> QED BY <1>1, <3>1, <4>1, <4>2, <4>3, SoundLocal
    <3> QED BY <3>2, <3>3
  <2>4. CASE connect(p)
    <3>1. /\ inflight' = [inflight EXCEPT ![p] = inflight[p]]
          /\ plan' = [plan EXCEPT ![p] = plan[p]] /\ call' = [call EXCEPT ![p] = call[p]]
      BY <2>4, SelfUpdate DEF TypeInv, connect
    <3> QED BY <1>1, <3>1, SoundNow, SoundLocal
  <2> QED BY <2>1, <2>2, <2>3, <2>4 DEF close, connectionLost, crash
<1>3. MemorySound'
  <2>1. CASE ~crash(p)
    <3>1. UNCHANGED <<remembered, routes, known>>
      BY <2>1 DEF close, connectionLost, timeout, refuse, connect
    <3> QED BY <1>1, <3>1, SameGrown, MemoryStays DEF TopologyInv
  <2>2. CASE crash(p)
    <3>1. ASSUME NEW q \in Processes
          PROVE  Recalled(queues', bindings', remembered'[q], routes'[q], known'[q])
      <4>1. queues' = queues /\ bindings' = bindings
        BY <1>1 DEF brokerVars
      <4>2. CASE q = p
        <5>1. remembered'[q] = NoCall /\ routes'[q] = [n \in Names |-> Absent] /\ known'[q] = {}
          BY <2>2, <4>2 DEF crash, TypeInv, MemoryPart
        <5> QED BY <5>1 DEF Recalled
      <4>3. CASE q # p
        <5>1. remembered'[q] = remembered[q] /\ routes'[q] = routes[q] /\ known'[q] = known[q]
          BY <2>2, <4>3 DEF crash, TypeInv, MemoryPart
        <5> QED BY <4>1, <5>1, SoundNow
      <4> QED BY <4>2, <4>3
    <3> QED BY <3>1 DEF MemorySound
  <2> QED BY <2>1, <2>2
<1> QED BY <1>2, <1>3 DEF TopologyInv

(* A call begins. *)
LEMMA BeginSound ==
  ASSUME TypeInv, TopologyInv, NEW p \in Processes, NEW s \in Seq(Asked), s # <<>>, NEW c,
         call' = [call EXCEPT ![p] = c],
         inflight' = [inflight EXCEPT ![p] = Append(inflight[p], Head(s))],
         plan' = [plan EXCEPT ![p] = Tail(s)],
         UNCHANGED <<brokerVars, evaporated, remembered, routes, known>>,
         Sound(exchanges, queues, bindings, Head(s)),
         Progress(p, exchanges, queues, bindings, Head(s), Tail(s), c)
  PROVE  TopologyInv'
<1>1. inflight[p] \in Seq(Requests) /\ Head(s) \in Requests
  BY SoundNow, AskedKinds
<1>2. /\ AllSound(exchanges, queues, bindings, Append(inflight[p], Head(s)))
      /\ LastOf(Append(inflight[p], Head(s))) = Head(s)
  BY <1>1, SoundNow, SoundAppend
<1>3. Progress(p, exchanges, queues, bindings, LastOf(Append(inflight[p], Head(s))), Tail(s), c)
  BY <1>2
<1>4. BrokerSound' /\ DriverSound' /\ LossSound'
  BY <1>2, <1>3, SoundLocal
<1>5. MemorySound'
  BY SameGrown, MemoryStays DEF TopologyInv
<1> QED BY <1>4, <1>5 DEF TopologyInv

(* A declaration begins with its first request, which is no binding. *)
LEMMA EnsureStarts ==
  ASSUME NEW p \in Processes, NEW t \in Topics, NEW o \in Accepted(t), NEW s,
         s = EnsureTopic(p, t, o), NEW ex, NEW qs, NEW bs
  PROVE  /\ s \in Seq(Asked) /\ s # <<>> /\ 1 \in 1..Len(s)
         /\ Sound(ex, qs, bs, Head(s))
         /\ Reached(ex, qs, bs, Head(s), Tail(s), s, 1)
<1>1. s \in Seq(Asked) /\ s # <<>> /\ Fine(s)
  BY EnsureFine
<1>2. /\ Head(s) = s[1] /\ s[1] \in Asked /\ Len(s) \in Nat \ {0} /\ Len(Tail(s)) = Len(s) - 1
      /\ \A k \in 1..Len(Tail(s)) : Tail(s)[k] = s[1 + k]
  BY <1>1
<1>3. 1 \in 1..Len(s) /\ 1 - 2 \notin 1..Len(s)
  BY <1>2
<1>4. Legit(s[1]) /\ s[1].kind # "bind"
  BY <1>1, <1>3 DEF Fine, FineAt
<1>5. s[1].kind # "publish"
  BY <1>2, AskedKinds
<1>6. 1..1 - 1 = {}
  OBVIOUS
<1> QED BY <1>1, <1>2, <1>3, <1>4, <1>5, <1>6 DEF Sound, Reached

(* The depth is asked of a forensic queue, or of the topic that was        *)
(* declared last, as it was declared.                                      *)
LEMMA DepthLegit ==
  ASSUME NEW p \in Processes, NEW n \in Names, NEW last,
         Backend[p] = "simpleamqp" =>
           n \in {deadLetterTopic(t) : t \in Topics} \/ (last.topic = n /\ Passed(last))
  PROVE  \E r \in Asked : /\ TopicDepth(p, n, last) = <<r>>
                          /\ Legit(r) /\ r.kind # "bind" /\ r.kind # "publish"
<1>1. CASE Backend[p] = "amqpcpp"
  <2>1. TopicDepth(p, n, last) = <<Passive(n)>> /\ Passive(n) \in Asked
    BY <1>1, InspectType DEF TopicDepth
  <2>2. Legit(Passive(n)) /\ Passive(n).kind # "bind" /\ Passive(n).kind # "publish"
    BY DEF Legit, Passive
  <2> QED BY <2>1, <2>2
<1>2. CASE Backend[p] # "amqpcpp"
  <2> DEFINE a == queueArguments(DepthOptions(n, last))
             r == Queue(n, a)
  <2>1. Backend[p] = "simpleamqp" /\ TopicDepth(p, n, last) = <<r>>
    BY <1>2, TopologyAssumption DEF TopicDepth
  <2>2. a \in QueueArguments /\ LegitQueue(n, a)
    <3>1. CASE \E t \in Topics : n = deadLetterTopic(t)
      <4> DEFINE t == CHOOSE t \in Topics : n = deadLetterTopic(t)
      <4>1. t \in Topics /\ n = deadLetterTopic(t)
        BY <3>1
      <4>2. a = ForensicArguments(t)
        BY <3>1 DEF DepthOptions, ForensicArguments
      <4> HIDE DEF t, a
      <4> QED BY <4>1, <4>2, ForensicTypes DEF LegitQueue
    <3>2. CASE ~\E t \in Topics : n = deadLetterTopic(t)
      <4>1. last.topic = n /\ n \in Topics /\ last.options \in Accepted(n)
        BY <2>1, <3>2 DEF Passed
      <4>2. a = queueArguments(last.options)
        BY <3>2, <4>1 DEF DepthOptions
      <4>3. last.options \in TopicOptions
        BY <4>1, AcceptedType
      <4> HIDE DEF a
      <4> QED BY <4>1, <4>2, <4>3, ArgumentsType DEF LegitQueue
    <3> QED BY <3>1, <3>2
  <2> HIDE DEF a
  <2>3. r \in Asked
    BY <2>2, QueueType
  <2>4. Legit(r) /\ r.kind # "bind" /\ r.kind # "publish"
    BY <2>2 DEF Legit, Queue
  <2> QED BY <2>1, <2>3, <2>4
<1> QED BY <1>1, <1>2

LEMMA PurgeLegit ==
  ASSUME NEW n \in Names
  PROVE  Purge(n) \in Asked /\ Purge(n).kind = "purge" /\ Legit(Purge(n))
BY InspectType DEF Purge, Legit

LEMMA InspectLegit ==
  ASSUME InspectsGuessable, NEW p \in Processes, NEW n \in Inspects[p]
  PROVE  /\ n \in Names
         /\ \E r \in Asked : /\ TopicDepth(p, n, remembered[p]) = <<r>>
                             /\ Legit(r) /\ r.kind # "bind" /\ r.kind # "publish"
         /\ \E r \in Asked : /\ Legit(r) /\ r.kind # "bind" /\ r.kind # "publish"
                             /\ \/ PurgeTopic(p, n) = <<r>>
                                \/ PurgeTopic(p, n) = <<r, Purge(n)>>
<1>1. n \in Names
  BY InspectsAssumption
<1>2. Backend[p] = "simpleamqp" => n \in {deadLetterTopic(t) : t \in Topics}
  BY DEF InspectsGuessable
<1>3. PICK r \in Asked : /\ TopicDepth(p, n, remembered[p]) = <<r>>
                         /\ Legit(r) /\ r.kind # "bind" /\ r.kind # "publish"
  BY <1>1, <1>2, DepthLegit
<1> DEFINE g == Purge(n)
<1>4. g \in Asked /\ Legit(g) /\ g.kind # "bind" /\ g.kind # "publish"
  BY <1>1, PurgeLegit
<1>5. PurgeTopic(p, n) = <<g>> \/ PurgeTopic(p, n) = <<r>> \o <<g>>
  BY <1>3 DEF PurgeTopic
<1> HIDE DEF g
<1>6. <<r>> \o <<g>> = <<r, g>>
  BY <1>3, <1>4, PairSeq
<1>7. \E x \in Asked : /\ Legit(x) /\ x.kind # "bind" /\ x.kind # "publish"
                       /\ PurgeTopic(p, n) = <<x>> \/ PurgeTopic(p, n) = <<x, g>>
  BY <1>3, <1>4, <1>5, <1>6
<1> QED BY <1>1, <1>3, <1>7 DEF g

LEMMA CallsSound ==
  ASSUME InspectsGuessable, TypeInv, TopologyInv, NEW p \in Processes,
         \/ reconnect(p)
         \/ \E t \in Topics, op \in {"declareTopic", "ensureTopic"} :
              \E o \in Declarations[t] : declareTopic(p, t, o, op)
         \/ \E n \in Inspects[p] : topicDepth(p, n) \/ purgeTopic(p, n)
  PROVE  TopologyInv'
<1>1. UNCHANGED <<brokerVars, evaporated, remembered, routes, known>>
  BY DEF reconnect, declareTopic, topicDepth, purgeTopic, historyVars
<1>2. ASSUME NEW t \in Topics, NEW o \in Accepted(t),
             NEW op \in {"declareTopic", "ensureTopic", "redeclare"},
             Begin(p, op, t, o, EnsureTopic(p, t, o))
      PROVE  TopologyInv'
  <2> DEFINE c == [op |-> op, topic |-> t, options |-> o]
             s == EnsureTopic(p, t, o)
  <2>1. Ensures(c) /\ c.topic = t /\ c.options = o /\ Passed(c)
    BY DEF Ensures, Passed
  <2>2. /\ call' = [call EXCEPT ![p] = c]
        /\ inflight' = [inflight EXCEPT ![p] = Append(inflight[p], Head(s))]
        /\ plan' = [plan EXCEPT ![p] = Tail(s)]
    BY <1>2 DEF Begin
  <2> HIDE DEF s, c
  <2>3. /\ s \in Seq(Asked) /\ s # <<>> /\ 1 \in 1..Len(s)
        /\ Sound(exchanges, queues, bindings, Head(s))
        /\ Reached(exchanges, queues, bindings, Head(s), Tail(s), s, 1)
    BY EnsureStarts DEF s
  <2>4. \E k \in 1..Len(s) : Reached(exchanges, queues, bindings, Head(s), Tail(s), s, k)
    BY <2>3
  <2>5. s = EnsureTopic(p, c.topic, c.options)
    BY <2>1 DEF s
  <2>6. Progress(p, exchanges, queues, bindings, Head(s), Tail(s), c)
    BY <2>1, <2>4, <2>5 DEF Progress
  <2> QED BY <1>1, <2>2, <2>3, <2>6, BeginSound
<1>3. CASE reconnect(p)
  <2>1. remembered[p].topic \in Topics /\ remembered[p].options \in Accepted(remembered[p].topic)
    BY <1>3, SoundNow DEF Recalled, Passed, reconnect
  <2>2. Begin(p, "redeclare", remembered[p].topic, remembered[p].options,
              EnsureTopic(p, remembered[p].topic, remembered[p].options))
    BY <1>3 DEF reconnect
  <2> QED BY <1>2, <2>1, <2>2
<1>4. ASSUME NEW t \in Topics, NEW op \in {"declareTopic", "ensureTopic"},
             NEW o \in Declarations[t], declareTopic(p, t, o, op)
      PROVE  TopologyInv'
  <2>1. o \in Accepted(t)
    BY <1>4 DEF declareTopic, Accepted
  <2>2. Begin(p, op, t, o, EnsureTopic(p, t, o))
    BY <1>4 DEF declareTopic
  <2> QED BY <1>2, <2>1, <2>2
<1>5. ASSUME NEW n \in Inspects[p], topicDepth(p, n)
      PROVE  TopologyInv'
  <2> DEFINE c == [op |-> "topicDepth", topic |-> n, options |-> Absent]
             s == TopicDepth(p, n, remembered[p])
  <2>1. PICK r \in Asked : s = <<r>> /\ Legit(r) /\ r.kind # "bind" /\ r.kind # "publish"
    BY InspectLegit
  <2>2. ~Ensures(c)
    BY DEF Ensures
  <2>3. /\ call' = [call EXCEPT ![p] = c]
        /\ inflight' = [inflight EXCEPT ![p] = Append(inflight[p], Head(s))]
        /\ plan' = [plan EXCEPT ![p] = Tail(s)]
    BY <1>5 DEF topicDepth, Begin
  <2> HIDE DEF s, c
  <2>4. s \in Seq(Asked) /\ s # <<>> /\ Head(s) = r /\ Tail(s) = <<>> /\ DOMAIN <<>> = {}
    <3>1. Head(<<r>>) = r /\ Tail(<<r>>) = <<>> /\ <<r>> \in Seq(Asked) /\ <<r>> # <<>>
      OBVIOUS
    <3> QED BY <2>1, <3>1
  <2>5. Sound(exchanges, queues, bindings, Head(s))
    BY <2>1, <2>4 DEF Sound
  <2>6. Progress(p, exchanges, queues, bindings, Head(s), Tail(s), c)
    BY <2>2, <2>4 DEF Progress
  <2> QED BY <1>1, <2>3, <2>4, <2>5, <2>6, BeginSound
<1>6. ASSUME NEW n \in Inspects[p], purgeTopic(p, n)
      PROVE  TopologyInv'
  <2> DEFINE c == [op |-> "purgeTopic", topic |-> n, options |-> Absent]
             s == PurgeTopic(p, n)
             g == Purge(n)
  <2>1. PICK r \in Asked : /\ Legit(r) /\ r.kind # "bind" /\ r.kind # "publish"
                           /\ s = <<r>> \/ s = <<r, g>>
    BY InspectLegit
  <2>2. ~Ensures(c)
    BY DEF Ensures
  <2>3. /\ call' = [call EXCEPT ![p] = c]
        /\ inflight' = [inflight EXCEPT ![p] = Append(inflight[p], Head(s))]
        /\ plan' = [plan EXCEPT ![p] = Tail(s)]
    BY <1>6 DEF purgeTopic, Begin
  <2>4. g \in Asked /\ g.kind = "purge"
    BY InspectLegit, PurgeLegit
  <2> HIDE DEF s, c, g
  <2>5. /\ s \in Seq(Asked) /\ s # <<>> /\ Head(s) = r
        /\ \A k \in DOMAIN Tail(s) : Tail(s)[k].kind = "purge"
    <3>1. CASE s = <<r>>
      <4>1. Head(s) = r /\ Tail(s) = <<>> /\ DOMAIN <<>> = {}
        BY <3>1
      <4> QED BY <2>1, <3>1, <4>1
    <3>2. CASE s = <<r, g>>
      <4>1. Head(s) = r /\ Tail(s) = <<g>> /\ DOMAIN <<g>> = {1} /\ <<g>>[1] = g
        BY <3>2
      <4>2. <<r, g>> \in Seq(Asked) /\ <<r, g>> # <<>>
        BY <2>1, <2>4
      <4> QED BY <2>4, <3>2, <4>1, <4>2
    <3> QED BY <2>1, <3>1, <3>2
  <2>6. Sound(exchanges, queues, bindings, Head(s))
    BY <2>1, <2>5 DEF Sound
  <2>7. Progress(p, exchanges, queues, bindings, Head(s), Tail(s), c)
    BY <2>2, <2>5 DEF Progress
  <2> QED BY <1>1, <2>3, <2>5, <2>6, <2>7, BeginSound
<1> QED BY <1>3, <1>4, <1>5, <1>6

(* A message goes to a route whose binding is there, or to the queue       *)
(* itself, if the topic is one that is always durable.                     *)
LEMMA SendSound ==
  ASSUME TypeInv, TopologyInv, NEW p \in Processes, NEW t \in Topics, NEW override \in Overrides,
         send(p, t, override)
  PROVE  TopologyInv'
<1> DEFINE m == Message(p, t, override)
           target == Target(p, t, override)
<1>1. m \in Requests
  BY MessageType DEF TypeInv
<1>2. /\ inflight' = [inflight EXCEPT ![p] = Append(inflight[p], m)]
      /\ call[p] = NoCall /\ UNCHANGED <<brokerVars, evaporated, remembered, routes, known>>
  BY DEF send, Message, Idle, historyVars
<1>3. plan[p] = <<>>
  BY <1>2, SoundNow DEF Driven
<1>4. plan' = [plan EXCEPT ![p] = <<>>] /\ call' = [call EXCEPT ![p] = NoCall]
  BY <1>2, <1>3, SelfUpdate DEF TypeInv, send
<1>5. Recalled(queues, bindings, remembered[p], routes[p], known[p])
  BY SoundNow
<1>6. /\ m.kind = "publish" /\ m.name = t /\ m.group = target.group /\ m.key = target.key
      /\ m.expected => t \in known[p] /\ (override = EmptyString \/ target.group = NoGroup)
  <2>1. m = [kind |-> "publish", name |-> t, group |-> target.group, key |-> target.key,
             expected |-> t \in known[p] /\ (override = EmptyString \/ target.group = NoGroup)]
    BY DEF Message
  <2> HIDE DEF m, target
  <2> QED BY <2>1
<1>7. ASSUME m.expected, AlwaysDurable(t) PROVE Reaches(queues, bindings, m)
  <2>1. t \in known[p] /\ (override = EmptyString \/ target.group = NoGroup)
    BY <1>6, <1>7
  <2>2. queues[t] # Absent
    BY <1>5, <1>7, <2>1 DEF Recalled
  <2>3. t \in Names /\ routes[p][t] \in Routes
    BY ForensicName DEF TypeInv, MemoryPart
  <2>4. CASE target = [group |-> NoGroup, key |-> t]
    BY <1>6, <2>2, <2>4 DEF Reaches
  <2>5. CASE /\ routes[p][t] # Absent
             /\ target = [group |-> routes[p][t].group,
                          key |-> IF override = EmptyString THEN routes[p][t].key ELSE override]
    <3>1. routes[p][t].group # NoGroup
      BY <2>3, <2>5 DEF Routes, Groups, kDeadLetterExchange, NoGroup
    <3>2. target.group = routes[p][t].group /\ target.key = routes[p][t].key
      BY <2>1, <2>5, <3>1
    <3>3. [group |-> routes[p][t].group, name |-> t, key |-> routes[p][t].key] \in bindings
      BY <1>5, <1>7, <2>3, <2>5 DEF Recalled
    <3> HIDE DEF m, target
    <3> QED BY <1>6, <3>1, <3>2, <3>3 DEF Reaches
  <2> QED BY <2>4, <2>5 DEF Target, SimpleTarget
<1> HIDE DEF m, target
<1>8. Sound(exchanges, queues, bindings, m)
  <2>1. Legit(m) /\ m.kind # "bind"
    BY <1>6 DEF Legit
  <2>2. m.expected => EverDurable(m.name)
    BY <1>5, <1>6 DEF Recalled
  <2> QED BY <1>6, <1>7, <2>1, <2>2 DEF Sound
<1>9. AllSound(exchanges, queues, bindings, Append(inflight[p], m))
  BY <1>1, <1>8, SoundNow, SoundAppend
<1>10. Progress(p, exchanges, queues, bindings, LastOf(Append(inflight[p], m)), <<>>, NoCall)
  BY SoundEmpty
<1>11. BrokerSound' /\ DriverSound' /\ LossSound'
  BY <1>2, <1>4, <1>9, <1>10, SoundLocal
<1>12. MemorySound'
  BY <1>2, SameGrown, MemoryStays DEF TopologyInv
<1> QED BY <1>11, <1>12 DEF TopologyInv

(* The next request of a declaration goes out when the one before it was   *)
(* performed: a binding, when its group and its queue are there.           *)
LEMMA NextSound ==
  ASSUME NEW p \in Processes, NEW x, NEW pl \in Seq(Asked), pl # <<>>, NEW c,
         NEW ex, NEW qs, NEW bs, NEW ex2, NEW qs2, NEW bs2,
         Grown(ex, qs, bs, ex2, qs2, bs2), There(ex2, qs2, bs2, x),
         Progress(p, ex, qs, bs, x, pl, c)
  PROVE  /\ Progress(p, ex2, qs2, bs2, Head(pl), Tail(pl), c)
         /\ Sound(ex2, qs2, bs2, Head(pl))
<1>1. /\ DOMAIN pl = 1..Len(pl) /\ Len(pl) \in Nat \ {0} /\ Head(pl) = pl[1] /\ pl[1] \in Asked
      /\ Tail(pl) \in Seq(Asked) /\ Len(Tail(pl)) = Len(pl) - 1
      /\ \A k \in DOMAIN Tail(pl) : k + 1 \in DOMAIN pl /\ Tail(pl)[k] = pl[k + 1]
  BY TailFacts
<1>2. DOMAIN Tail(pl) = 1..Len(Tail(pl)) /\ 1 \in DOMAIN pl
  BY <1>1
<1>3. CASE ~Ensures(c)
  <2>1. \A k \in DOMAIN pl : pl[k].kind = "purge"
    BY <1>3 DEF Progress
  <2>2. Head(pl).kind = "purge" /\ \A k \in DOMAIN Tail(pl) : Tail(pl)[k].kind = "purge"
    BY <1>1, <1>2, <2>1
  <2> QED BY <1>3, <2>2 DEF Progress, Sound, Legit
<1>4. CASE Ensures(c)
  <2> DEFINE s == EnsureTopic(p, c.topic, c.options)
  <2>1. Passed(c) /\ \E k \in 1..Len(s) : Reached(ex, qs, bs, x, pl, s, k)
    BY <1>4 DEF Progress
  <2>2. s \in Seq(Asked) /\ Fine(s)
    BY <2>1, EnsureFine DEF Passed
  <2>3. PICK k \in 1..Len(s) : Reached(ex, qs, bs, x, pl, s, k)
    BY <2>1
  <2> HIDE DEF s
  <2>4. /\ k \in Nat \ {0} /\ Len(s) \in Nat /\ Len(pl) = Len(s) - k /\ s[k] = x
        /\ \A i \in 1..Len(pl) : pl[i] = s[k + i]
        /\ \A i \in 1..k - 1 : There(ex, qs, bs, s[i])
    BY <2>2, <2>3 DEF Reached
  <2>5. k + 1 \in 1..Len(s) /\ s[k + 1] = Head(pl)
    BY <1>1, <1>2, <2>4
  <2>6. ASSUME NEW i \in 1..k PROVE There(ex2, qs2, bs2, s[i]) /\ s[i] \in Asked
    <3>1. i \in 1..Len(s)
      BY <2>4
    <3>2. s[i] \in Asked
      BY <2>2, <3>1
    <3>3. CASE i = k
      BY <2>4, <3>2, <3>3
    <3>4. CASE i # k
      <4>1. i \in 1..k - 1
        BY <2>4, <3>4
      <4> QED BY <2>4, <3>2, <4>1, ThereGrows
    <3> QED BY <3>3, <3>4
  <2>7. Reached(ex2, qs2, bs2, Head(pl), Tail(pl), s, k + 1)
    <3>1. Len(Tail(pl)) = Len(s) - (k + 1)
      BY <1>1, <2>4
    <3>2. ASSUME NEW i \in 1..Len(Tail(pl)) PROVE Tail(pl)[i] = s[k + 1 + i]
      <4>1. i + 1 \in 1..Len(pl) /\ Tail(pl)[i] = pl[i + 1]
        BY <1>1, <1>2
      <4>2. k + (i + 1) = k + 1 + i
        BY <2>4
      <4> QED BY <2>4, <4>1, <4>2
    <3>3. k + 1 - 1 = k
      BY <2>4
    <3>4. \A i \in 1..k + 1 - 1 : There(ex2, qs2, bs2, s[i])
      BY <2>6, <3>3
    <3> QED BY <2>5, <3>1, <3>2, <3>4 DEF Reached
  <2>8. \E j \in 1..Len(s) : Reached(ex2, qs2, bs2, Head(pl), Tail(pl), s, j)
    BY <2>5, <2>7
  <2>9. Progress(p, ex2, qs2, bs2, Head(pl), Tail(pl), c)
    BY <1>4, <2>1, <2>8 DEF Progress, s
  <2>10. FineAt(s, k + 1)
    BY <2>2, <2>5 DEF Fine
  <2>11. Legit(Head(pl)) /\ Head(pl).kind # "publish"
    BY <1>1, <2>5, <2>10, AskedKinds DEF FineAt
  <2>12. ASSUME Head(pl).kind = "bind" PROVE Backed(ex2, qs2, Head(pl).group, Head(pl).name)
    <3>1. k + 1 - 2 = k - 1 /\ k + 1 - 1 = k
      BY <2>4
    <3>2. /\ k - 1 \in 1..Len(s)
          /\ s[k - 1].kind = "exchange" /\ s[k - 1].group = Head(pl).group
          /\ s[k].kind = "queue" /\ s[k].name = Head(pl).name
          /\ AlwaysDurable(Head(pl).name) => s[k - 1].exchange.durable /\ s[k].properties.durable
      BY <2>5, <2>10, <2>12, <3>1 DEF FineAt
    <3>3. k - 1 \in 1..k /\ k \in 1..k
      BY <2>4, <3>2
    <3>4. /\ ex2[Head(pl).group] = s[k - 1].exchange /\ qs2[Head(pl).name] = s[k].properties
          /\ s[k - 1] \in Asked /\ s[k] \in Asked
      BY <2>6, <3>2, <3>3 DEF There
    <3>5. s[k - 1].exchange # Absent /\ s[k].properties # Absent
      BY <3>2, <3>4, AskedKinds, RequestKinds, AbsentAssumption
    <3> QED BY <3>2, <3>4, <3>5 DEF Backed
  <2> QED BY <2>9, <2>11, <2>12 DEF Sound
<1> QED BY <1>3, <1>4

(* The last request of a declaration was performed: the queue is there. *)
LEMMA EnsuredThere ==
  ASSUME NEW p \in Processes, NEW x, NEW c, Ensures(c),
         NEW ex, NEW qs, NEW bs, NEW ex2, NEW qs2, NEW bs2,
         Grown(ex, qs, bs, ex2, qs2, bs2), There(ex2, qs2, bs2, x),
         Progress(p, ex, qs, bs, x, <<>>, c)
  PROVE  Passed(c) /\ qs2[c.topic] = queueArguments(c.options)
<1> DEFINE s == EnsureTopic(p, c.topic, c.options)
           q == Queue(c.topic, queueArguments(c.options))
<1>1. Passed(c) /\ \E k \in 1..Len(s) : Reached(ex, qs, bs, x, <<>>, s, k)
  BY DEF Progress
<1>2. s \in Seq(Asked) /\ \E i \in 1..Len(s) : s[i] = q
  BY <1>1, EnsureFine DEF Passed
<1>3. PICK k \in 1..Len(s) : Reached(ex, qs, bs, x, <<>>, s, k)
  BY <1>1
<1>4. PICK i \in 1..Len(s) : s[i] = q
  BY <1>2
<1>5. q.kind = "queue" /\ q.name = c.topic /\ q.properties = queueArguments(c.options)
  BY DEF Queue
<1> HIDE DEF s, q
<1>6. /\ Len(<<>>) = 0 /\ Len(s) \in Nat /\ Len(<<>>) = Len(s) - k /\ s[k] = x
      /\ \A j \in 1..k - 1 : There(ex, qs, bs, s[j])
  BY <1>2, <1>3 DEF Reached
<1>7. There(ex2, qs2, bs2, q)
  <2>1. CASE i = k
    BY <1>4, <1>6, <2>1
  <2>2. CASE i # k
    <3>1. i \in 1..k - 1
      BY <1>6, <2>2
    <3>2. There(ex, qs, bs, q) /\ q \in Asked
      BY <1>2, <1>4, <1>6, <3>1
    <3> QED BY <3>2, ThereGrows
  <2> QED BY <2>1, <2>2
<1> QED BY <1>1, <1>5, <1>7 DEF There

(* A process remembers a route when its binding is there. *)
LEMMA RoutesSound ==
  ASSUME TypeInv, MemorySound, NEW p \in Processes, NEW r \in Requests,
         Grown(exchanges, queues, bindings, exchanges', queues', bindings'),
         There(exchanges', queues', bindings', r), routes' = RoutesAfter(p, r),
         NEW q \in Processes, NEW n \in Names, routes'[q][n] # Absent, AlwaysDurable(n)
  PROVE  [group |-> routes'[q][n].group, name |-> n, key |-> routes'[q][n].key] \in bindings'
<1>1. \/ routes'[q][n] = routes[q][n]
      \/ r.kind = "bind" /\ r.name = n /\ routes'[q][n] = [group |-> r.group, key |-> r.key]
  BY RequestKinds DEF RoutesAfter, TypeInv, MemoryPart
<1>2. CASE routes'[q][n] = routes[q][n]
  <2>1. [group |-> routes[q][n].group, name |-> n, key |-> routes[q][n].key] \in bindings
    BY <1>2 DEF MemorySound, Recalled
  <2> QED BY <1>2, <2>1 DEF Grown
<1>3. CASE r.kind = "bind" /\ r.name = n /\ routes'[q][n] = [group |-> r.group, key |-> r.key]
  BY <1>3 DEF There
<1> QED BY <1>1, <1>2, <1>3

(* The broker performs the first request in flight of p. *)
LEMMA PerformFirst ==
  ASSUME TypeInv, TopologyInv, NEW p \in Processes, inflight[p] # <<>>,
         ~Refuses(Head(inflight[p])), Perform(Head(inflight[p]))
  PROVE  /\ Head(inflight[p]) \in Requests
         /\ Grown(exchanges, queues, bindings, exchanges', queues', bindings')
         /\ There(exchanges', queues', bindings', Head(inflight[p]))
         /\ BrokerSound' /\ LossSound'
<1> DEFINE r == Head(inflight[p])
<1>1. r \in Requests /\ Sound(exchanges, queues, bindings, r)
  BY SoundNow, SoundTail
<1>2. ~Refuses(r) /\ Perform(r)
  OBVIOUS
<1> HIDE DEF r
<1>3. BrokerSound' /\ LossSound'
  BY <1>1, <1>2, PerformSound DEF TypeInv, TopologyInv
<1>4. There(exchanges', queues', bindings', r)
  BY <1>1, <1>2, PerformThere DEF TypeInv
<1>5. Grown(exchanges, queues, bindings, exchanges', queues', bindings')
  BY <1>1, <1>2, PerformGrows DEF TypeInv
<1> QED BY <1>1, <1>3, <1>4, <1>5 DEF r

LEMMA UnawaitedSound ==
  ASSUME TypeInv, TopologyInv, NEW p \in Processes, performUnawaited(p)
  PROVE  TopologyInv'
<1> DEFINE fl == inflight[p]
<1>1. /\ Driven(channel[p], fl, plan[p], call[p]) /\ fl \in Seq(Requests)
      /\ AllSound(exchanges, queues, bindings, fl)
      /\ Progress(p, exchanges, queues, bindings, LastOf(fl), plan[p], call[p])
  BY SoundNow
<1>2. fl # <<>> /\ ~Refuses(Head(fl)) /\ Perform(Head(fl)) /\ ~Awaited(p)
  BY DEF performUnawaited
<1>3. /\ Grown(exchanges, queues, bindings, exchanges', queues', bindings')
      /\ BrokerSound' /\ LossSound'
  BY <1>2, PerformFirst
<1>4. /\ inflight' = [inflight EXCEPT ![p] = Tail(fl)]
      /\ plan' = [plan EXCEPT ![p] = plan[p]] /\ call' = [call EXCEPT ![p] = call[p]]
  BY SelfUpdate DEF TypeInv, performUnawaited
<1>5. call[p] = NoCall \/ Len(fl) # 1
  BY <1>2 DEF Awaited
<1> HIDE DEF fl
<1>6. AllSound(exchanges', queues', bindings', Tail(fl))
  <2>1. AllSound(exchanges, queues, bindings, Tail(fl)) /\ Tail(fl) \in Seq(Requests)
    BY <1>1, <1>2, SoundTail, TailFacts
  <2> QED BY <1>3, <2>1, AllSoundGrows
<1>7. Progress(p, exchanges', queues', bindings', LastOf(Tail(fl)), plan[p], call[p])
  <2>1. CASE call[p] = NoCall
    <3>1. plan[p] = <<>>
      BY <1>1, <2>1 DEF Driven
    <3> QED BY <2>1, <3>1, SoundEmpty
  <2>2. CASE Len(fl) # 1
    <3>1. /\ Len(fl) \in Nat \ {0} /\ Len(Tail(fl)) = Len(fl) - 1 /\ Tail(fl) \in Seq(Requests)
          /\ \A k \in DOMAIN Tail(fl) : Tail(fl)[k] = fl[k + 1]
      BY <1>1, <1>2, TailFacts
    <3>2. DOMAIN Tail(fl) = 1..Len(Tail(fl))
      BY <3>1
    <3>3. Len(Tail(fl)) \in 1..Len(Tail(fl)) /\ Len(Tail(fl)) + 1 = Len(fl)
      BY <2>2, <3>1
    <3>4. LastOf(Tail(fl)) = LastOf(fl)
      BY <3>1, <3>2, <3>3 DEF LastOf
    <3>5. Progress(p, exchanges', queues', bindings', LastOf(fl), plan[p], call[p])
      BY <1>1, <1>3, ProgressGrows
    <3> QED BY <3>4, <3>5
  <2> QED BY <1>5, <2>1, <2>2
<1>8. DriverSound'
  BY <1>3, <1>4, <1>6, <1>7, SoundStep DEF TopologyInv
<1>9. MemorySound'
  BY <1>3, MemoryStays DEF TopologyInv, performUnawaited
<1> QED BY <1>3, <1>8, <1>9 DEF TopologyInv

LEMMA AwaitedSound ==
  ASSUME TypeInv, TopologyInv, NEW p \in Processes, performAwaited(p)
  PROVE  TopologyInv'
<1> DEFINE fl == inflight[p]
           pl == plan[p]
           x == Head(fl)
<1>1. /\ Driven(channel[p], fl, pl, call[p]) /\ fl \in Seq(Requests)
      /\ Progress(p, exchanges, queues, bindings, LastOf(fl), pl, call[p])
  BY SoundNow
<1>2. pl \in Seq(Asked)
  BY <1>1 DEF Driven
<1>3. pl # <<>> /\ Len(fl) = 1 /\ ~Refuses(x) /\ Perform(x) /\ routes' = RoutesAfter(p, x)
  BY DEF performAwaited, Awaited
<1>4. /\ inflight' = [inflight EXCEPT ![p] = <<Head(pl)>>]
      /\ plan' = [plan EXCEPT ![p] = Tail(pl)] /\ call' = [call EXCEPT ![p] = call[p]]
  BY SelfUpdate DEF TypeInv, performAwaited
<1>5. fl # <<>> /\ LastOf(fl) = x
  <2> HIDE DEF fl
  <2>1. fl # <<>>
    BY <1>3
  <2> QED BY <1>1, <1>3, <2>1, TailFacts DEF LastOf
<1>6. /\ x \in Requests
      /\ Grown(exchanges, queues, bindings, exchanges', queues', bindings')
      /\ There(exchanges', queues', bindings', x)
      /\ BrokerSound' /\ LossSound'
  BY <1>3, <1>5, PerformFirst
<1> HIDE DEF fl, pl, x
<1>7. /\ Progress(p, exchanges', queues', bindings', Head(pl), Tail(pl), call[p])
      /\ Sound(exchanges', queues', bindings', Head(pl))
  BY <1>1, <1>2, <1>3, <1>5, <1>6, NextSound
<1>8. /\ AllSound(exchanges', queues', bindings', <<Head(pl)>>)
      /\ Progress(p, exchanges', queues', bindings', LastOf(<<Head(pl)>>), Tail(pl), call[p])
  BY <1>7, SoundOne
<1>9. DriverSound'
  BY <1>4, <1>6, <1>8, SoundStep DEF TopologyInv
<1>10. MemorySound'
  <2>1. remembered' = remembered /\ known' = known
    BY DEF performAwaited
  <2>2. ASSUME NEW q \in Processes
        PROVE  Recalled(queues', bindings', remembered'[q], routes'[q], known'[q])
    <3>1. Recalled(queues, bindings, remembered[q], routes[q], known[q]) /\ known[q] \in SUBSET Topics
      BY SoundNow DEF TypeInv, MemoryPart
    <3>2. Recalled(queues', bindings', remembered[q], routes[q], known[q])
      BY <1>6, <3>1, RecalledGrows
    <3>3. \A n \in Names : routes'[q][n] # Absent /\ AlwaysDurable(n) =>
            [group |-> routes'[q][n].group, name |-> n, key |-> routes'[q][n].key] \in bindings'
      BY <1>3, <1>6, RoutesSound DEF TopologyInv
    <3> QED BY <2>1, <3>2, <3>3 DEF Recalled
  <2> QED BY <2>2 DEF MemorySound
<1> QED BY <1>6, <1>9, <1>10 DEF TopologyInv

(* The call returns: the declaration is remembered, and its queue is there. *)
LEMMA LastSound ==
  ASSUME TypeInv, TopologyInv, NEW p \in Processes, performLast(p)
  PROVE  TopologyInv'
<1> DEFINE c == call[p]
           last == [op |-> "ensureTopic", topic |-> c.topic, options |-> c.options]
           ensured == c.op \in {"declareTopic", "ensureTopic"}
           x == Head(inflight[p])
<1>1. /\ inflight[p] \in Seq(Requests)
      /\ Progress(p, exchanges, queues, bindings, LastOf(inflight[p]), plan[p], c)
  BY SoundNow
<1>2. plan[p] = <<>> /\ Len(inflight[p]) = 1 /\ ~Refuses(x) /\ Perform(x) /\ routes' = RoutesAfter(p, x)
  BY DEF performLast, Awaited
<1>3. inflight[p] # <<>>
  BY <1>2
<1>4. LastOf(inflight[p]) = x
  BY <1>1, <1>2, <1>3, TailFacts DEF LastOf
<1>5. /\ x \in Requests
      /\ Grown(exchanges, queues, bindings, exchanges', queues', bindings')
      /\ There(exchanges', queues', bindings', x)
      /\ BrokerSound' /\ LossSound'
  BY <1>2, <1>3, PerformFirst
<1>6. /\ remembered' = IF ensured THEN [remembered EXCEPT ![p] = last] ELSE remembered
      /\ known' = IF ensured /\ c.options.durable
                  THEN [known EXCEPT ![p] = @ \cup {c.topic}] ELSE known
  BY DEF performLast
<1>7. plan' = [plan EXCEPT ![p] = <<>>]
  BY <1>2, SelfUpdate DEF TypeInv, performLast
<1>8. last.topic = c.topic /\ last.options = c.options
  OBVIOUS
<1>9. ensured => /\ Passed(c) /\ Passed(last) /\ queues'[c.topic] = queueArguments(c.options)
  <2> SUFFICES ASSUME ensured
               PROVE  Passed(c) /\ Passed(last) /\ queues'[c.topic] = queueArguments(c.options)
    OBVIOUS
  <2>1. Ensures(c)
    BY DEF Ensures
  <2> HIDE DEF c, last, x
  <2>2. Passed(c) /\ queues'[c.topic] = queueArguments(c.options)
    BY <1>1, <1>2, <1>4, <1>5, <2>1, EnsuredThere
  <2> QED BY <1>8, <2>2 DEF Passed
<1>10. DriverSound'
  <2>1. CASE c.op = "declareTopic"
    <3> DEFINE s == TopicDepth(p, c.topic, last)
               d == [op |-> "topicDepth", topic |-> c.topic, options |-> Absent]
    <3>1. call' = [call EXCEPT ![p] = d] /\ inflight' = [inflight EXCEPT ![p] = s]
      BY <2>1 DEF performLast
    <3>2. ensured
      BY <2>1
    <3>3. c.topic \in Names
      BY <1>9, <3>2, ForensicName DEF Passed
    <3>4. PICK r \in Asked : s = <<r>> /\ Legit(r) /\ r.kind # "bind" /\ r.kind # "publish"
      <4> HIDE DEF c, last, ensured
      <4> QED BY <1>8, <1>9, <3>2, <3>3, DepthLegit
    <3>5. ~Ensures(d) /\ DOMAIN <<>> = {}
      BY DEF Ensures
    <3> HIDE DEF s, d, c, last, x, ensured
    <3>6. Sound(exchanges', queues', bindings', r)
      BY <3>4 DEF Sound
    <3>7. AllSound(exchanges', queues', bindings', s)
      BY <3>4, <3>6, SoundOne
    <3>8. Progress(p, exchanges', queues', bindings', LastOf(s), <<>>, d)
      BY <3>5 DEF Progress
    <3> QED BY <1>5, <1>7, <3>1, <3>7, <3>8, SoundStep DEF TopologyInv
  <2>2. CASE c.op # "declareTopic"
    <3>1. call' = [call EXCEPT ![p] = NoCall] /\ inflight' = [inflight EXCEPT ![p] = <<>>]
      BY <2>2 DEF performLast
    <3>2. /\ AllSound(exchanges', queues', bindings', <<>>)
          /\ Progress(p, exchanges', queues', bindings', LastOf(<<>>), <<>>, NoCall)
      BY SoundEmpty
    <3> QED BY <1>5, <1>7, <3>1, <3>2, SoundStep DEF TopologyInv
  <2> QED BY <2>1, <2>2
<1> HIDE DEF c, last, ensured, x
<1>11. MemorySound'
  <2>1. ASSUME NEW q \in Processes
        PROVE  Recalled(queues', bindings', remembered'[q], routes'[q], known'[q])
    <3>1. Recalled(queues, bindings, remembered[q], routes[q], known[q]) /\ known[q] \in SUBSET Topics
      BY SoundNow DEF TypeInv, MemoryPart
    <3>2. Recalled(queues', bindings', remembered[q], routes[q], known[q])
      BY <1>5, <3>1, RecalledGrows
    <3>3. \A n \in Names : routes'[q][n] # Absent /\ AlwaysDurable(n) =>
            [group |-> routes'[q][n].group, name |-> n, key |-> routes'[q][n].key] \in bindings'
      BY <1>2, <1>5, RoutesSound DEF TopologyInv
    <3>4. remembered'[q] # NoCall => Passed(remembered'[q])
      <4>1. remembered'[q] = remembered[q] \/ (ensured /\ remembered'[q] = last)
        BY <1>6 DEF TypeInv, MemoryPart
      <4> QED BY <1>9, <3>2, <4>1 DEF Recalled
    <3>5. ASSUME NEW t \in known'[q]
          PROVE  EverDurable(t) /\ (AlwaysDurable(t) => queues'[t] # Absent /\ queues'[t].durable)
      <4>1. t \in known[q] \/ (ensured /\ c.options.durable /\ t = c.topic)
        BY <1>6 DEF TypeInv, MemoryPart
      <4>2. CASE t \in known[q]
        BY <3>2, <4>2 DEF Recalled
      <4>3. CASE ensured /\ c.options.durable /\ t = c.topic
        <5>1. t \in Topics /\ c.options \in Accepted(t) /\ queues'[t] = queueArguments(c.options)
          BY <1>9, <4>3 DEF Passed
        <5>2. c.options \in TopicOptions
          BY <5>1, AcceptedType
        <5>3. queues'[t] \in QueueArguments /\ queues'[t].durable = c.options.durable
          BY <5>1, <5>2, ArgumentsType
        <5>4. queues'[t] # Absent
          BY <5>3, AbsentAssumption
        <5> QED BY <4>3, <5>1, <5>3, <5>4 DEF EverDurable
      <4> QED BY <4>1, <4>2, <4>3
    <3> QED BY <3>3, <3>4, <3>5 DEF Recalled
  <2> QED BY <2>1 DEF MemorySound
<1> QED BY <1>5, <1>10, <1>11 DEF TopologyInv

LEMMA TopologyHolds ==
  ASSUME InspectsGuessable
  PROVE  Spec => []TopologyInv
<1>1. Init => TopologyInv
  <2> SUFFICES ASSUME Init PROVE TopologyInv
    OBVIOUS
  <2>1. BrokerSound
    BY DEF Init, BrokerSound
  <2>2. ASSUME NEW p \in Processes
        PROVE  /\ AllSound(exchanges, queues, bindings, inflight[p])
               /\ Progress(p, exchanges, queues, bindings, LastOf(inflight[p]), plan[p], call[p])
    <3>1. inflight[p] = <<>> /\ plan[p] = <<>> /\ call[p] = NoCall
      BY DEF Init
    <3> QED BY <3>1, SoundEmpty
  <2>3. MemorySound /\ LossSound
    BY DEF Init, MemorySound, Recalled, LossSound
  <2> QED BY <2>1, <2>2, <2>3 DEF TopologyInv, DriverSound
<1>2. TypeInv /\ TopologyInv /\ [Next]_vars => TopologyInv'
  <2> SUFFICES ASSUME TypeInv, TopologyInv, [Next]_vars PROVE TopologyInv'
    OBVIOUS
  <2>1. CASE UNCHANGED vars
    BY <2>1 DEF vars, brokerVars, processVars, historyVars, TopologyInv, BrokerSound, DriverSound,
                MemorySound, LossSound
  <2>2. CASE brokerRestarts
    BY <2>2, RestartSound
  <2>3. ASSUME NEW p \in Processes,
               close(p) \/ connectionLost(p) \/ crash(p) \/ timeout(p) \/ refuse(p) \/ connect(p)
        PROVE  TopologyInv'
    BY <2>3, EndSound
  <2>4. ASSUME NEW p \in Processes,
               \/ reconnect(p)
               \/ \E t \in Topics, op \in {"declareTopic", "ensureTopic"} :
                    \E o \in Declarations[t] : declareTopic(p, t, o, op)
               \/ \E n \in Inspects[p] : topicDepth(p, n) \/ purgeTopic(p, n)
        PROVE  TopologyInv'
    BY <2>4, CallsSound
  <2>5. ASSUME NEW p \in Processes, NEW t \in Topics, NEW override \in Overrides,
               send(p, t, override)
        PROVE  TopologyInv'
    BY <2>5, SendSound
  <2>6. ASSUME NEW p \in Processes, performUnawaited(p) PROVE TopologyInv'
    BY <2>6, UnawaitedSound
  <2>7. ASSUME NEW p \in Processes, performAwaited(p) PROVE TopologyInv'
    BY <2>7, AwaitedSound
  <2>8. ASSUME NEW p \in Processes, performLast(p) PROVE TopologyInv'
    BY <2>8, LastSound
  <2> QED
    BY <2>1, <2>2, <2>3, <2>4, <2>5, <2>6, <2>7, <2>8, Zenon DEF Next
<1> QED BY <1>1, <1>2, TypesHold, PTL DEF Spec

-----------------------------------------------------------------------------
(* What the agreement of the applications adds.                            *)

(* The declarations of one topic agree on how durable it is: by the check, *)
(* or because whoever switched it off takes care.                          *)
LEMMA SameDurability ==
  ASSUME DurabilityAgrees, NEW t \in Topics, NEW o \in Accepted(t), NEW q \in Accepted(t)
  PROVE  o.durable = q.durable
<1>1. CASE t \in Asymmetric
  BY <1>1 DEF DurabilityAgrees
<1>2. CASE t \notin Asymmetric
  BY <1>2 DEF Accepted, checkTopicOptions, SameProperties
<1> QED BY <1>1, <1>2

LEMMA NoLoss ==
  ASSUME DurabilityAgrees, TypeInv, TopologyInv
  PROVE  NothingEvaporates
<1>1. ASSUME NEW t \in evaporated PROVE FALSE
  <2>1. t \in Topics
    BY DEF TypeInv, BoundPart
  <2>2. EverDurable(t) /\ ~AlwaysDurable(t)
    BY DEF TopologyInv, LossSound
  <2>3. PICK o \in Accepted(t) : o.durable
    BY <2>2 DEF EverDurable
  <2>4. PICK q \in Accepted(t) : ~q.durable
    BY <2>1, <2>2 DEF AlwaysDurable
  <2> QED BY <2>1, <2>3, <2>4, SameDurability
<1> QED BY <1>1 DEF NothingEvaporates

(* Theorem: what a process sends to a topic it has declared durable        *)
(* arrives in that topic's queue, with its own route or with none, for     *)
(* every set of processes and topics and any number of faults, if nobody   *)
(* else may declare that topic transient, by a wrong guess either: a route *)
(* is remembered only when its binding is there, and what a durable        *)
(* topic's binding needs survives the broker.                              *)
THEOREM WhatIsSentArrives ==
  ASSUME DurabilityAgrees, InspectsGuessable
  PROVE  Spec => []NothingEvaporates
<1>1. TypeInv /\ TopologyInv => NothingEvaporates
  BY NoLoss
<1> QED BY <1>1, TypesHold, TopologyHolds, PTL

(* Two declarations of one queue or one exchange carry the same arguments. *)
LEMMA SameArguments ==
  ASSUME NEW o \in TopicOptions, NEW q \in TopicOptions, SameProperties(o, q)
  PROVE  queueArguments(o) = queueArguments(q)
BY DEF SameProperties, queueArguments, Bound

LEMMA SameQueue ==
  ASSUME DeclarationsAgree, NEW n \in Names, NEW a, NEW b, LegitQueue(n, a), LegitQueue(n, b)
  PROVE  a = b
<1>1. \A t, u \in Topics : ForensicArguments(t) = ForensicArguments(u)
  BY DEF ForensicArguments, queueArguments, Bound, forensicTopicOptions, DefaultOptions
<1>2. ASSUME n \in Topics, NEW o \in Accepted(n), NEW q \in Accepted(n)
      PROVE  queueArguments(o) = queueArguments(q)
  <2>1. o \in TopicOptions /\ q \in TopicOptions
    BY <1>2, AcceptedType
  <2>2. SameProperties(o, q)
    <3>1. CASE n \in Asymmetric
      BY <1>2, <3>1 DEF DeclarationsAgree
    <3>2. CASE n \notin Asymmetric
      BY <1>2, <3>2 DEF Accepted, checkTopicOptions, SameProperties
    <3> QED BY <3>1, <3>2
  <2> QED BY <2>1, <2>2, SameArguments
<1>3. ASSUME n \in Topics, NEW o \in Accepted(n), NEW t \in Topics, n = deadLetterTopic(t)
      PROVE  queueArguments(o) = ForensicArguments(t)
  <2>1. SameProperties(o, forensicTopicOptions(t))
    BY <1>3 DEF DeclarationsAgree
  <2>2. o \in TopicOptions /\ forensicTopicOptions(t) \in TopicOptions
    BY <1>3, AcceptedType, ForensicName, ForensicOptions
  <2> QED BY <2>1, <2>2, SameArguments DEF ForensicArguments
<1> QED BY <1>1, <1>2, <1>3 DEF LegitQueue

LEMMA SameExchange ==
  ASSUME DeclarationsAgree, NEW g \in Groups, NEW x, NEW y,
         LegitExchange(g, x), LegitExchange(g, y)
  PROVE  x = y
<1> DEFINE Args(o) == [type |-> amqpExchangeType(o.routing), durable |-> o.durable]
<1>1. ASSUME NEW t \in Topics, NEW o \in Accepted(t), NEW u \in Topics, NEW q \in Accepted(u),
             o.group # NoGroup, o.group = q.group
      PROVE  Args(o) = Args(q)
  BY <1>1 DEF DeclarationsAgree
<1>2. ASSUME NEW t \in Topics, NEW o \in Accepted(t), o.group = kDeadLetterExchange
      PROVE  Args(o) = DeadLetters
  <2>1. o.routing = "Exact" /\ o.durable
    BY <1>2 DEF DeclarationsAgree
  <2>2. o.durable = TRUE
    BY <2>1, AcceptedType DEF TopicOptions
  <2>3. amqpExchangeType("Exact") = "direct"
    BY DEF amqpExchangeType
  <2> QED BY <2>1, <2>2, <2>3 DEF DeadLetters
<1>3. /\ (g = kDeadLetterExchange /\ x = DeadLetters)
           \/ \E t \in Topics : \E o \in Accepted(t) :
                o.group # NoGroup /\ o.group = g /\ x = Args(o)
      /\ (g = kDeadLetterExchange /\ y = DeadLetters)
           \/ \E t \in Topics : \E o \in Accepted(t) :
                o.group # NoGroup /\ o.group = g /\ y = Args(o)
  BY DEF LegitExchange
<1> HIDE DEF Args
<1> QED BY <1>1, <1>2, <1>3

LEMMA NeverRefused ==
  ASSUME DeclarationsAgree, TypeInv, TopologyInv, NEW p \in Processes, inflight[p] # <<>>,
         Refuses(Head(inflight[p]))
  PROVE  Head(inflight[p]).kind \notin {"exchange", "queue", "bind"}
<1> DEFINE r == Head(inflight[p])
<1>1. r \in Requests /\ Sound(exchanges, queues, bindings, r) /\ Refuses(r)
  BY SoundNow, SoundTail
<1> HIDE DEF r
<1>2. ASSUME r.kind = "exchange" PROVE FALSE
  <2>1. r.group \in Groups /\ exchanges[r.group] \notin {Absent, r.exchange}
    BY <1>1, <1>2, RequestKinds DEF Refuses
  <2>2. LegitExchange(r.group, exchanges[r.group]) /\ LegitExchange(r.group, r.exchange)
    BY <1>1, <1>2, <2>1 DEF TopologyInv, BrokerSound, Sound, Legit
  <2> QED BY <2>1, <2>2, SameExchange
<1>3. ASSUME r.kind = "queue" PROVE FALSE
  <2>1. r.name \in Names /\ queues[r.name] \notin {Absent, r.properties}
    BY <1>1, <1>3, RequestKinds DEF Refuses
  <2>2. LegitQueue(r.name, queues[r.name]) /\ LegitQueue(r.name, r.properties)
    BY <1>1, <1>3, <2>1 DEF TopologyInv, BrokerSound, Sound, Legit
  <2> QED BY <2>1, <2>2, SameQueue
<1>4. ASSUME r.kind = "bind" PROVE FALSE
  BY <1>1, <1>4 DEF Refuses, Missing, Sound, Backed
<1> QED BY <1>2, <1>3, <1>4 DEF r

(* Theorem: if the applications agree where checkTopicOptions does not     *)
(* make them (a topic that allows asymmetry, a shared group, a name of the *)
(* library's own), and nobody asks the blocking backend for a depth it     *)
(* must guess wrongly, no declaration is refused, whoever comes first, on  *)
(* whichever backend, and wherever an earlier one stopped: every queue and *)
(* every exchange is declared with the same arguments by all, and a        *)
(* binding never before what it binds.                                     *)
THEOREM DeclarationsNeverClash ==
  ASSUME DeclarationsAgree, InspectsGuessable
  PROVE  Spec => []DeclaredTwiceAgrees
<1>1. Init => DeclaredTwiceAgrees
  BY DEF Init, DeclaredTwiceAgrees
<1>2. TypeInv /\ TopologyInv /\ DeclaredTwiceAgrees /\ [Next]_vars => DeclaredTwiceAgrees'
  <2> SUFFICES ASSUME TypeInv, TopologyInv, DeclaredTwiceAgrees, [Next]_vars
               PROVE  DeclaredTwiceAgrees'
    OBVIOUS
  <2>1. ASSUME NEW p \in Processes, refuse(p) PROVE DeclaredTwiceAgrees'
    <3>1. /\ inflight[p] # <<>> /\ Refuses(Head(inflight[p]))
          /\ refusals' = refusals \cup {[kind |-> Head(inflight[p]).kind, op |-> call[p].op]}
      BY <2>1 DEF refuse
    <3>2. Head(inflight[p]).kind \notin {"exchange", "queue", "bind"}
      BY <3>1, NeverRefused
    <3> QED BY <3>1, <3>2 DEF DeclaredTwiceAgrees
  <2>2. CASE refusals' = refusals
    BY <2>2 DEF DeclaredTwiceAgrees
  <2>3. CASE UNCHANGED vars
    BY <2>2, <2>3 DEF vars, historyVars
  <2>4. CASE brokerRestarts
    BY <2>2, <2>4 DEF brokerRestarts, historyVars
  <2>5. ASSUME NEW p \in Processes,
               \/ close(p) \/ connectionLost(p) \/ crash(p) \/ timeout(p) \/ connect(p)
               \/ performUnawaited(p) \/ performAwaited(p) \/ performLast(p)
        PROVE  DeclaredTwiceAgrees'
    <3>1. refusals' = refusals
      BY <2>5 DEF close, connectionLost, crash, timeout, connect, performUnawaited,
                  performAwaited, performLast, historyVars
    <3> QED BY <2>2, <3>1
  <2>6. ASSUME NEW p \in Processes,
               \/ reconnect(p)
               \/ \E t \in Topics, op \in {"declareTopic", "ensureTopic"} :
                    \E o \in Declarations[t] : declareTopic(p, t, o, op)
               \/ \E n \in Inspects[p] : topicDepth(p, n) \/ purgeTopic(p, n)
               \/ \E t \in Topics, override \in Overrides : send(p, t, override)
        PROVE  DeclaredTwiceAgrees'
    <3>1. refusals' = refusals
      BY <2>6 DEF reconnect, declareTopic, topicDepth, purgeTopic, send, historyVars
    <3> QED BY <2>2, <3>1
  <2> QED BY <2>1, <2>3, <2>4, <2>5, <2>6, Zenon DEF Next
<1> QED BY <1>1, <1>2, TypesHold, TopologyHolds, PTL DEF Spec

=============================================================================
