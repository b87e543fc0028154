----------------------- MODULE InMemoryTransport_proofs -----------------------
(***************************************************************************)
(* Theorems about InMemoryTransport, for every set of transports, topics,  *)
(* groups, routes and declarations: the monitor protocol; the conservation *)
(* of messages (no message is lost from the books, duplicated or brought   *)
(* back from where it ended, the redelivered flag is the retry bound       *)
(* consumers take it for, and each message lives the life DeliveryContract *)
(* allows it); the counters of the transports; the limits and the order of *)
(* the destinations; that dead-lettering moves a payload and never copies  *)
(* it.                                                                     *)
(***************************************************************************)
EXTENDS InMemoryContract, FiniteSetTheorems, TLAPS

-----------------------------------------------------------------------------
(* What the broker's operations return.                                    *)

(* Recording a fate keeps a store a store. *)
LEMMA GoneType ==
  ASSUME NEW b \in Stores, NEW f \in Fates, NEW m \in Held
  PROVE  Gone(b, f, m) \in Stores
BY DEF Gone, Stores

(* push_back keeps a store a store. *)
LEMMA PushBackType ==
  ASSUME NEW b \in Stores, NEW t \in Names, NEW m \in Held
  PROVE  PushBack(b, t, m) \in Stores
<1>1. Append(b.messages[t], m) \in Seq(Held)
  BY DEF Stores
<1>2. [b.messages EXCEPT ![t] = Append(b.messages[t], m)] \in [Names -> Seq(Held)]
  BY <1>1 DEF Stores
<1> QED BY <1>2 DEF PushBack, Stores

(* pop_front of a queue that holds a message yields that message and a     *)
(* store.                                                                  *)
LEMMA PopFrontType ==
  ASSUME NEW b \in Stores, NEW t \in Names, b.messages[t] # <<>>
  PROVE  /\ PopFront(b, t) \in Stores
         /\ Head(b.messages[t]) \in Held
<1>1. b.messages[t] \in Seq(Held)
  BY DEF Stores
<1>2. Tail(b.messages[t]) \in Seq(Held) /\ Head(b.messages[t]) \in Held
  BY <1>1
<1>3. [b.messages EXCEPT ![t] = Tail(b.messages[t])] \in [Names -> Seq(Held)]
  BY <1>2 DEF Stores
<1> QED BY <1>2, <1>3 DEF PopFront, Stores

(* push_front of a flagged message keeps a store a store. *)
LEMMA RequeueType ==
  ASSUME NEW b \in Stores, NEW t, NEW m \in Held
  PROVE  requeue(b, t, m) \in Stores
<1>1. [m EXCEPT !.redelivered = TRUE] \in Held
  BY DEF Held
<1>2. CASE t \in Names
  <2>1. <<[m EXCEPT !.redelivered = TRUE]>> \o b.messages[t] \in Seq(Held)
    BY <1>1, <1>2 DEF Stores
  <2> QED BY <2>1, <1>2 DEF requeue, Stores
<1>3. CASE t \notin Names
  BY <1>3 DEF requeue, Stores
<1> QED BY <1>2, <1>3

(* Emptying a queue keeps a store a store. *)
LEMMA PurgeType ==
  ASSUME NEW b \in Stores, NEW t \in Names
  PROVE  purge(b, t) \in Stores
<1>1. b.messages[t] \in Seq(Held)
  BY DEF Stores
<1>2. {b.messages[t][i] : i \in DOMAIN b.messages[t]} \subseteq Held
  BY <1>1
<1>3. [b.messages EXCEPT ![t] = <<>>] \in [Names -> Seq(Held)]
  BY DEF Stores
<1>4. [b.gone EXCEPT !["purged"] =
          @ \cup {b.messages[t][i] : i \in DOMAIN b.messages[t]}]
        \in [Fates -> SUBSET Held]
  BY <1>2 DEF Stores, Fates
<1> QED BY <1>3, <1>4 DEF purge, Stores

(* A full destination has a bound, hence a first message. *)
LEMMA FullHasHead ==
  ASSUME NEW b \in Stores, NEW t \in Names, TypeOK, Full(b, t)
  PROVE  b.messages[t] # <<>>
<1>1. options[t].maxLength \in Nat
  BY DEF TypeOK, TopicOptions
<1> QED BY <1>1 DEF Full, Stores

(* Enqueueing at a forensic destination keeps a store a store. *)
LEMMA EnqueueForensicType ==
  ASSUME NEW b \in Stores, NEW t \in Names, NEW m \in Held, TypeOK
  PROVE  enqueueForensic(b, t, m) \in Stores
<1>0. options[t].overflow \in OverflowPolicy
  BY DEF TypeOK, TopicOptions
<1>1. CASE ~Full(b, t)
  BY <1>1, PushBackType DEF enqueueForensic, EnqueueWith
<1>2. CASE Full(b, t)
  <2>1. /\ PopFront(b, t) \in Stores
        /\ Head(b.messages[t]) \in Held
    BY <1>2, FullHasHead, PopFrontType
  <2>2. \A c \in Stores, v \in Held, f \in Fates : Gone(c, f, v) \in Stores
    BY GoneType
  <2>3. \A c \in Stores : PushBack(c, t, m) \in Stores
    BY PushBackType
  <2> QED BY <1>0, <1>2, <2>1, <2>2, <2>3
          DEF enqueueForensic, EnqueueWith, Discard, OverflowPolicy, Fates
<1> QED BY <1>1, <1>2

(* Dead-lettering keeps a store a store. *)
LEMMA DeadLetterType ==
  ASSUME NEW b \in Stores, NEW t, NEW m \in Held, TypeOK
  PROVE  deadLetterLocked(b, t, m) \in Stores
<1> DEFINE n == b.sequence + 1
           c == [Gone(b, "dead", m) EXCEPT !.sequence = n]
           v == [m EXCEPT !.sequence = n, !.redelivered = FALSE]
<1>1. CASE t \notin topics \/ ~options[t].deadLetter \/ Unprovisioned(t)
  BY <1>1, GoneType DEF deadLetterLocked, Fates
<1>2. CASE ~(t \notin topics \/ ~options[t].deadLetter \/ Unprovisioned(t))
  <2>1. deadLetterTopic(t) \in Names
    BY <1>2 DEF Unprovisioned, TypeOK
  <2>2. Gone(b, "dead", m) \in Stores /\ n \in Nat
    BY GoneType DEF Fates, Stores
  <2>3. c \in Stores
    BY <2>2 DEF Stores
  <2>4. v \in Held
    BY <2>2 DEF Held
  <2>5. enqueueForensic(c, deadLetterTopic(t), v) \in Stores
    BY <2>1, <2>3, <2>4, EnqueueForensicType
  <2> QED BY <1>2, <2>5 DEF deadLetterLocked
<1> QED BY <1>1, <1>2

(* Enqueueing at any destination keeps a store a store. *)
LEMMA EnqueueType ==
  ASSUME NEW b \in Stores, NEW t \in Names, NEW m \in Held, TypeOK
  PROVE  enqueueLocked(b, t, m) \in Stores
<1>0. options[t].overflow \in OverflowPolicy
  BY DEF TypeOK, TopicOptions
<1>1. CASE ~Full(b, t)
  BY <1>1, PushBackType DEF enqueueLocked, EnqueueWith
<1>2. CASE Full(b, t)
  <2>1. /\ PopFront(b, t) \in Stores
        /\ Head(b.messages[t]) \in Held
    BY <1>2, FullHasHead, PopFrontType
  <2>2. \A c \in Stores, v \in Held, f \in Fates : Gone(c, f, v) \in Stores
    BY GoneType
  <2>3. \A c \in Stores : PushBack(c, t, m) \in Stores
    BY PushBackType
  <2>4. \A c \in Stores, v \in Held : deadLetterLocked(c, t, v) \in Stores
    BY DeadLetterType
  <2> QED BY <1>0, <1>2, <2>1, <2>2, <2>3, <2>4
          DEF enqueueLocked, EnqueueWith, OverflowPolicy, Fates
<1> QED BY <1>1, <1>2

(* So does publishing under a new number. *)
LEMMA EnqueueNewType ==
  ASSUME NEW b \in Stores, NEW t \in Names, NEW body \in Nat, TypeOK
  PROVE  EnqueueNew(b, t, body) \in Stores
<1> DEFINE n == b.sequence + 1
<1>1. n \in Nat /\ [b EXCEPT !.sequence = n] \in Stores
  <2>1. n \in Nat
    BY DEF Stores
  <2>2. [b EXCEPT !.sequence = n] \in Stores
    <3> HIDE DEF n
    <3> QED BY <2>1 DEF Stores
  <2> QED BY <2>1, <2>2
<1>2. [sequence |-> n, body |-> body, redelivered |-> FALSE] \in Held
  BY <1>1 DEF Held
<1> QED BY <1>1, <1>2, EnqueueType DEF EnqueueNew
-----------------------------------------------------------------------------
(* The type invariant.                                                     *)

(* Sequences of one or two words are names. *)
LEMMA WordsMakeNames ==
  ASSUME NEW x \in Strings, NEW y \in Strings
  PROVE  <<x>> \in Name /\ <<x, y>> \in Name
BY DEF Name

(* A topic name and the name of its forensic destination are names. *)
LEMMA NamesAreNames ==
  /\ Names \subseteq Name
  /\ \A t \in Topics : t \in Names /\ t \in Name /\ deadLetterTopic(t) \in Names
<1>1. \A t \in Topics : t \in Name
  BY NamesAssumption
<1>2. ASSUME NEW t \in Name PROVE deadLetterTopic(t) \in Name
  <2>0. "motus" \in Strings /\ "dead-letter" \in Strings
    BY StringsAssumption
  <2>1. <<"motus", "dead-letter">> \in Seq(Strings)
    BY <2>0, WordsMakeNames DEF Name
  <2>2. t \in Seq(Strings)
    BY DEF Name
  <2> QED BY <2>1, <2>2 DEF Name, deadLetterTopic
<1> QED BY <1>1, <1>2 DEF Names

(* The options the library itself uses are options. *)
LEMMA OptionsAreOptions ==
  /\ DefaultOptions \in TopicOptions
  /\ \A t \in Topics : forensicTopicOptions(t) \in TopicOptions
<1>0. "" \in Strings
  BY StringsAssumption
<1>1. EmptyString \in Name
  BY <1>0, WordsMakeNames DEF EmptyString
<1>2. DefaultOptions \in TopicOptions
  BY <1>1, StringsAssumption DEF DefaultOptions, TopicOptions, OverflowPolicy, Routing, NoGroup
<1>3. ASSUME NEW t \in Topics PROVE forensicTopicOptions(t) \in TopicOptions
  BY <1>2, NamesAreNames, ForensicCapAssumption, StringsAssumption
     DEF forensicTopicOptions, DefaultOptions, TopicOptions, OverflowPolicy, Routing,
         kDeadLetterExchange
<1> QED BY <1>2, <1>3

(* The types of the broker's configuration after Broker::ensureTopic, and  *)
(* that no topic disappears.                                               *)
LEMMA EnsureTopicType ==
  ASSUME TypeOK, NEW t \in Names, NEW o \in TopicOptions,
         o.group \in GroupNames \cup {NoGroup}, BrokerEnsureTopic(t, o)
  PROVE  /\ topics' \subseteq Names
         /\ topics \subseteq topics'
         /\ options' \in [Names -> TopicOptions]
         /\ binding' \in [Names -> Name]
         /\ groups' \in [GroupNames -> Routing \cup {Undeclared}]
         /\ store' = store /\ fanout' = fanout
<1>1. o.routing \in Routing /\ o.route \in Name /\ t \in Name
  BY NamesAreNames DEF TopicOptions
<1>2. groups' \in [GroupNames -> Routing \cup {Undeclared}]
  BY <1>1 DEF BrokerEnsureTopic, TypeOK
<1>3. options' \in [Names -> TopicOptions]
  BY DEF BrokerEnsureTopic, TypeOK
<1>4. binding' \in [Names -> Name]
  BY <1>1 DEF BrokerEnsureTopic, TypeOK
<1> QED BY <1>2, <1>3, <1>4 DEF BrokerEnsureTopic, TypeOK

(* The declarations callers make name a topic, a group and options the     *)
(* model knows.                                                            *)
LEMMA DeclarationType ==
  ASSUME NEW t \in Topics, NEW o \in Declarations[t]
  PROVE  o \in TopicOptions /\ o.group \in GroupNames \cup {NoGroup}
BY DeclarationsAssumption DEF GroupNames

(* A counter that counts stays a counter. *)
LEMMA CountType ==
  ASSUME TypeOK, NEW p \in Transports, NEW c \in Counters, Count(p, c)
  PROVE  stats' \in [Transports -> [Counters -> Nat]]
<1>1. [stats[p] EXCEPT ![c] = @ + 1] \in [Counters -> Nat]
  BY DEF TypeOK
<1> QED BY <1>1 DEF Count, TypeOK

(* A fresh process: no destination, nobody connected. *)
LEMMA InitType == Init => TypeOK
<1> SUFFICES ASSUME Init PROVE TypeOK
  OBVIOUS
<1>1. EmptyString \in Name
  BY StringsAssumption, WordsMakeNames DEF EmptyString
<1>2. store \in Stores
  <2>1. <<>> \in Seq(Held)
    OBVIOUS
  <2> QED BY <2>1 DEF Init, EmptyStore, Stores
<1> QED BY <1>1, <1>2, OptionsAreOptions DEF Init, TypeOK, NoRequest
(* What the switch at the end of pump() and settle() does to the types. *)
LEMMA ResolveType ==
  ASSUME TypeOK, NEW p \in Transports, NEW m \in outstanding[p], NEW d,
         Resolve(p, m, d)
  PROVE  /\ store' \in Stores
         /\ outstanding' \in [Transports -> SUBSET Held]
         /\ stats' \in [Transports -> [Counters -> Nat]]
         /\ uncounted' \in [Transports -> Nat]
         /\ UNCHANGED <<topics, options, binding, groups, fanout, connected, subscription,
                        request, taken, declared>>
<1>0. m \in Held /\ store \in Stores
  BY DEF TypeOK
<1>1. /\ outstanding' \in [Transports -> SUBSET Held]
      /\ UNCHANGED <<topics, options, binding, groups, fanout, connected, subscription,
                     request, taken, declared>>
  BY DEF Resolve, TypeOK
<1>2. CASE d = "Ack" /\ store' = Gone(store, "acked", m)
                     /\ Count(p, "acks") /\ UNCHANGED uncounted
  BY <1>0, <1>1, <1>2, GoneType, CountType DEF Fates, Counters, TypeOK
<1>3. CASE d = "Requeue" /\ store' = requeue(store, subscription[p], m)
                         /\ Count(p, "requeues") /\ UNCHANGED uncounted
  BY <1>0, <1>1, <1>3, RequeueType, CountType DEF Counters, TypeOK
<1>4. CASE d = "Reject" /\ store' = deadLetterLocked(store, subscription[p], m)
                        /\ IF Unprovisioned(subscription[p])
                           THEN Uncounted(p) /\ UNCHANGED stats
                           ELSE Count(p, "rejects") /\ UNCHANGED uncounted
  <2>1. store' \in Stores
    BY <1>0, <1>4, DeadLetterType
  <2>2. /\ stats' \in [Transports -> [Counters -> Nat]]
        /\ uncounted' \in [Transports -> Nat]
    <3>1. CASE Unprovisioned(subscription[p])
      <4>1. Uncounted(p) /\ UNCHANGED stats
        BY <1>4, <3>1
      <4>2. uncounted \in [Transports -> Nat] /\ stats \in [Transports -> [Counters -> Nat]]
        BY DEF TypeOK
      <4> QED BY <4>1, <4>2 DEF Uncounted
    <3>2. CASE ~Unprovisioned(subscription[p])
      <4>1. Count(p, "rejects") /\ UNCHANGED uncounted
        BY <1>4, <3>2
      <4> QED BY <4>1, CountType DEF Counters, TypeOK
    <3> QED BY <3>1, <3>2
  <2> QED BY <1>1, <2>1, <2>2
<1> QED BY <1>2, <1>3, <1>4 DEF Resolve

(* Every operation keeps the types. *)
LEMMA NextType == TypeOK /\ [Next]_vars => TypeOK'
<1> SUFFICES ASSUME TypeOK, [Next]_vars PROVE TypeOK'
  OBVIOUS
<1>0. /\ store \in Stores
      /\ store.sequence + 1 \in Nat
  BY DEF TypeOK, Stores
<1>1. ASSUME NEW p \in Transports, connect(p) PROVE TypeOK'
  BY <1>1 DEF connect, TypeOK, brokerVars, historyVars
<1>2. ASSUME NEW p \in Transports, NEW t \in Topics, NEW o \in Declarations[t],
             ensureForensic(p, t, o)
      PROVE  TypeOK'
  <2>1. o \in TopicOptions
    BY DeclarationType
  <2>2. deadLetterTopic(t) \in Names /\ forensicTopicOptions(t) \in TopicOptions
    BY NamesAreNames, OptionsAreOptions
  <2>3. forensicTopicOptions(t).group \in GroupNames
    BY DEF forensicTopicOptions, DefaultOptions, GroupNames
  <2>4. BrokerEnsureTopic(deadLetterTopic(t), forensicTopicOptions(t))
    BY <1>2 DEF ensureForensic
  <2>5. /\ topics' \subseteq Names /\ topics \subseteq topics'
        /\ options' \in [Names -> TopicOptions]
        /\ binding' \in [Names -> Name]
        /\ groups' \in [GroupNames -> Routing \cup {Undeclared}]
        /\ store' = store /\ fanout' = fanout
    BY <2>2, <2>3, <2>4, EnsureTopicType
  <2>6. fanout' = NoFanout
    BY <1>2, <2>5 DEF ensureForensic, Unlocked
  <2>7. CASE Refused(deadLetterTopic(t), forensicTopicOptions(t))
    BY <1>2, <2>5, <2>6, <2>7 DEF ensureForensic, TypeOK, historyVars
  <2>8. CASE ~Refused(deadLetterTopic(t), forensicTopicOptions(t))
    <3>1. /\ pc' = [pc EXCEPT ![p] = "declaring"]
          /\ request' = [request EXCEPT ![p] = [topic |-> t, options |-> o]]
          /\ UNCHANGED <<connected, subscription, outstanding, stats, historyVars>>
      BY <1>2, <2>8 DEF ensureForensic
    <3>2. [topic |-> t, options |-> o]
             \in [topic : Topics \cup {NoTopic}, options : TopicOptions]
      BY <2>1
    <3>3. /\ pc' \in [Transports -> {"idle", "handling", "declaring", "closing"}]
          /\ request' \in [Transports -> [topic : Topics \cup {NoTopic},
                                          options : TopicOptions]]
      BY <3>1, <3>2 DEF TypeOK
    <3>4. ASSUME NEW q \in Transports, pc'[q] = "declaring"
          PROVE  /\ request'[q].topic \in Topics
                 /\ request'[q].options \in Declarations[request'[q].topic]
      BY <3>1, <3>4 DEF TypeOK
    <3> QED BY <2>5, <2>6, <3>1, <3>3, <3>4 DEF TypeOK, historyVars
  <2> QED BY <2>7, <2>8
<1>3. ASSUME NEW p \in Transports, ensureSource(p) PROVE TypeOK'
  <2> DEFINE t == request[p].topic
             o == request[p].options
  <2>1. t \in Topics /\ o \in Declarations[t] /\ t \in Names
    BY <1>3, NamesAreNames DEF ensureSource, TypeOK
  <2>2. o \in TopicOptions /\ o.group \in GroupNames \cup {NoGroup}
    BY <2>1, DeclarationType
  <2>3. BrokerEnsureTopic(t, o)
    BY <1>3 DEF ensureSource, Declare
  <2>4. /\ topics' \subseteq Names /\ topics \subseteq topics'
        /\ options' \in [Names -> TopicOptions]
        /\ binding' \in [Names -> Name]
        /\ groups' \in [GroupNames -> Routing \cup {Undeclared}]
        /\ store' = store /\ fanout' = fanout
    BY <2>1, <2>2, <2>3, EnsureTopicType
  <2>5. fanout' = NoFanout
    BY <1>3, <2>4 DEF ensureSource, Unlocked
  <2>6. declared' \subseteq [topic : Topics, options : TopicOptions]
    BY <1>3, <2>1, <2>2 DEF ensureSource, Declare, TypeOK
  <2>7. NoRequest \in [topic : Topics \cup {NoTopic}, options : TopicOptions]
    BY OptionsAreOptions DEF NoRequest
  <2> QED BY <1>3, <2>4, <2>5, <2>6, <2>7 DEF ensureSource, Declare, TypeOK
<1>4. ASSUME NEW p \in Transports, NEW t \in Topics, NEW o \in Declarations[t],
             ensurePlain(p, t, o)
      PROVE  TypeOK'
  <2>1. o \in TopicOptions /\ o.group \in GroupNames \cup {NoGroup} /\ t \in Names
    BY DeclarationType, NamesAreNames
  <2>2. BrokerEnsureTopic(t, o)
    BY <1>4 DEF ensurePlain, Declare
  <2>3. /\ topics' \subseteq Names /\ topics \subseteq topics'
        /\ options' \in [Names -> TopicOptions]
        /\ binding' \in [Names -> Name]
        /\ groups' \in [GroupNames -> Routing \cup {Undeclared}]
        /\ store' = store /\ fanout' = fanout
    BY <2>1, <2>2, EnsureTopicType
  <2>4. fanout' = NoFanout
    BY <1>4, <2>3 DEF ensurePlain, Unlocked
  <2>5. declared' \subseteq [topic : Topics, options : TopicOptions]
    BY <1>4, <2>1 DEF ensurePlain, Declare, TypeOK
  <2> QED BY <1>4, <2>3, <2>4, <2>5 DEF ensurePlain, Declare, TypeOK, transportVars
<1>5. ASSUME NEW p \in Transports, NEW t \in Topics, sendDirect(p, t) PROVE TypeOK'
  <2>1. t \in Names
    BY NamesAreNames
  <2>2. store' \in Stores
    BY <1>0, <1>5, <2>1, EnqueueNewType DEF sendDirect
  <2>3. topics' \subseteq Names /\ fanout' = NoFanout
    BY <1>5, <2>1 DEF sendDirect, Unlocked, TypeOK
  <2> QED BY <1>5, <2>2, <2>3 DEF sendDirect, TypeOK, transportVars, historyVars
<1>6. ASSUME NEW p \in Transports, NEW t \in Topics, NEW r, sendGrouped(p, t, r)
      PROVE  TypeOK'
  <2> DEFINE key == IF r = EmptyString THEN binding[t] ELSE r
  <2>1. Matching(options[t].group, key) \subseteq topics
    BY DEF Matching
  <2>2. fanout' \in [by : Transports, body : Nat, pending : SUBSET topics]
    BY <1>0, <1>6, <2>1 DEF sendGrouped
  <2> QED BY <1>6, <2>2 DEF sendGrouped, TypeOK, transportVars, historyVars
<1>7. ASSUME NEW t \in Names, fanoutCopy(t) PROVE TypeOK'
  <2>1. fanout \in [by : Transports, body : Nat, pending : SUBSET topics]
    BY <1>7 DEF fanoutCopy, Unlocked, TypeOK
  <2>2. fanout' \in [by : Transports, body : Nat, pending : SUBSET topics]
    BY <1>7, <2>1 DEF fanoutCopy
  <2>3. store' \in Stores
    BY <1>0, <1>7, <2>1, EnqueueNewType DEF fanoutCopy
  <2> QED BY <1>7, <2>2, <2>3 DEF fanoutCopy, TypeOK, transportVars, historyVars
<1>8. ASSUME fanoutDone PROVE TypeOK'
  BY <1>8 DEF fanoutDone, TypeOK, transportVars, historyVars
<1>9. ASSUME NEW p \in Transports, NEW t \in Topics, subscribe(p, t) PROVE TypeOK'
  BY <1>9 DEF subscribe, TypeOK, brokerVars, historyVars
<1>10. ASSUME NEW p \in Transports, take(p) PROVE TypeOK'
  <2> DEFINE t == subscription[p]
  <2>1. t \in Names /\ store.messages[t] # <<>>
    BY <1>10 DEF take, TypeOK
  <2>2. PopFront(store, t) \in Stores /\ Head(store.messages[t]) \in Held
    BY <1>0, <2>1, PopFrontType
  <2>3. Head(store.messages[t]).sequence \in Nat
    BY <2>2 DEF Held
  <2>4. stats' \in [Transports -> [Counters -> Nat]]
    BY <1>10, CountType DEF take, Counters
  <2>5. outstanding' \in [Transports -> SUBSET Held]
    BY <1>10, <2>2 DEF take, TypeOK
  <2>6. taken' \subseteq Nat
    BY <1>10, <2>3 DEF take, TypeOK
  <2> QED BY <1>10, <2>2, <2>4, <2>5, <2>6 DEF take, TypeOK
<1>11. ASSUME NEW p \in Transports, NEW d, handlerReturns(p, d) PROVE TypeOK'
  <2>1. PICK m \in outstanding[p] : Resolve(p, m, d)
    BY <1>11 DEF handlerReturns
  <2> QED BY <1>11, <2>1, ResolveType DEF handlerReturns, TypeOK
<1>12. ASSUME NEW p \in Transports, handlerDefers(p) PROVE TypeOK'
  BY <1>12 DEF handlerDefers, TypeOK, brokerVars, historyVars
<1>13. ASSUME NEW p \in Transports, handlerThrows(p) PROVE TypeOK'
  <2>1. stats' \in [Transports -> [Counters -> Nat]]
    BY <1>13 DEF handlerThrows, Count, TypeOK, Counters
  <2> QED BY <1>13, <2>1 DEF handlerThrows, TypeOK, brokerVars, historyVars
<1>14. ASSUME NEW p \in Transports, NEW s, NEW d, settle(p, s, d) PROVE TypeOK'
  <2>1. PICK m \in outstanding[p] : Resolve(p, m, d)
    BY <1>14 DEF settle
  <2> QED BY <1>14, <2>1, ResolveType DEF settle, TypeOK
<1>15. ASSUME NEW p \in Transports, NEW t \in Topics, purgeTopic(p, t) PROVE TypeOK'
  <2>1. store' \in Stores
    BY <1>0, <1>15, PurgeType, NamesAreNames DEF purgeTopic
  <2> QED BY <1>15, <2>1 DEF purgeTopic, TypeOK, transportVars, historyVars
<1>16. ASSUME NEW p \in Transports, close(p) PROVE TypeOK'
  BY <1>16 DEF close, TypeOK, brokerVars, historyVars
<1>17. ASSUME NEW p \in Transports, returnOutstanding(p) PROVE TypeOK'
  <2>1. PICK m \in outstanding[p] :
          /\ store' = requeue(store, subscription[p], m)
          /\ outstanding' = [outstanding EXCEPT ![p] = @ \ {m}]
    BY <1>17 DEF returnOutstanding
  <2>2. m \in Held
    BY DEF TypeOK
  <2>3. store' \in Stores
    BY <1>0, <2>1, <2>2, RequeueType
  <2>4. outstanding' \in [Transports -> SUBSET Held]
    BY <2>1 DEF TypeOK
  <2> QED BY <1>17, <2>3, <2>4 DEF returnOutstanding, Uncounted, TypeOK
<1>18. ASSUME NEW p \in Transports, finishClose(p) PROVE TypeOK'
  BY <1>18 DEF finishClose, TypeOK, brokerVars, historyVars
<1>19. ASSUME UNCHANGED vars PROVE TypeOK'
  BY <1>19 DEF TypeOK, vars, brokerVars, transportVars, historyVars
<1> QED
  BY <1>1, <1>2, <1>3, <1>4, <1>5, <1>6, <1>7, <1>8, <1>9, <1>10, <1>11, <1>12, <1>13,
     <1>14, <1>15, <1>16, <1>17, <1>18, <1>19
  DEF Next

(* The type invariant of the reference backend, for every instance. *)
THEOREM TypeCorrect == Spec => []TypeOK
BY InitType, NextType, PTL DEF Spec
-----------------------------------------------------------------------------
(* Provisioning: DeclaredIsProvisioned, strengthened by what a thread      *)
(* between the two locks of ensureTopic already knows, and by what a       *)
(* destination is that nobody has created.                                 *)

ProvisioningInv ==
  /\ TypeOK
  /\ DeclaredIsProvisioned
  /\ \A p \in Transports : pc[p] = "declaring" => Provisioned(request[p].topic)
  /\ \A t \in Names : t \notin topics => options[t] = DefaultOptions

(* A name that exists keeps its options, so a forensic destination once    *)
(* provisioned stays so.                                                   *)
LEMMA EnsureTopicFrame ==
  ASSUME ProvisioningInv, NEW t \in Names, NEW o \in TopicOptions,
         BrokerEnsureTopic(t, o)
  PROVE  /\ topics \subseteq topics' /\ topics' \subseteq topics \cup {t}
         /\ \A u \in topics : options'[u] = options[u]
         /\ \A u \in Names : u \notin topics' => options'[u] = DefaultOptions
         /\ ~Refused(t, o) => t \in topics' /\ SameProperties(options'[t], o)
         /\ t \notin topics /\ t \in topics' => options'[t] = o
<1>1. options \in [Names -> TopicOptions] /\ topics \subseteq Names
  BY DEF ProvisioningInv, TypeOK
<1>2. CASE GroupConflict(o) \/ t \in topics
  BY <1>1, <1>2 DEF BrokerEnsureTopic, ProvisioningInv, Refused
<1>3. CASE ~(GroupConflict(o) \/ t \in topics)
  BY <1>1, <1>3 DEF BrokerEnsureTopic, ProvisioningInv, SameProperties
<1> QED BY <1>2, <1>3

(* Provisioned survives any step that adds names and keeps the options of  *)
(* the names that were there.                                              *)
LEMMA ProvisionedStable ==
  ASSUME topics \subseteq topics', \A u \in topics : options'[u] = options[u],
         NEW t, Provisioned(t)
  PROVE  Provisioned(t)'
BY DEF Provisioned, SameProperties

(* The options of forensic destinations ask for no forensic destination.   *)
LEMMA ForensicOptions ==
  \A t : forensicTopicOptions(t).deadLetter = FALSE
BY DEF forensicTopicOptions, DefaultOptions

(* The broker's configuration is unchanged by everything else. *)
LEMMA ProvisioningFrame ==
  ASSUME ProvisioningInv, TypeOK', UNCHANGED <<topics, options, declared>>,
         \A p \in Transports : pc'[p] = "declaring" =>
            pc[p] = "declaring" /\ request'[p] = request[p]
  PROVE  ProvisioningInv'
BY DEF ProvisioningInv, DeclaredIsProvisioned, Provisioned

(* In a fresh process nothing is declared, so nothing lacks its forensic    *)
(* destination.                                                            *)
LEMMA ProvisioningInit == Init => ProvisioningInv
<1> SUFFICES ASSUME Init PROVE ProvisioningInv
  OBVIOUS
<1>1. TypeOK
  BY InitType
<1> QED BY <1>1 DEF Init, ProvisioningInv, DeclaredIsProvisioned

(* Every operation keeps forensic destinations provisioned. *)
LEMMA ProvisioningNext == ProvisioningInv /\ [Next]_vars => ProvisioningInv'
<1> SUFFICES ASSUME ProvisioningInv, [Next]_vars PROVE ProvisioningInv'
  OBVIOUS
<1>0. TypeOK /\ TypeOK'
  BY NextType DEF ProvisioningInv
<1>1. ASSUME NEW p \in Transports, NEW t \in Topics, NEW o \in Declarations[t],
             ensureForensic(p, t, o)
      PROVE  ProvisioningInv'
  <2> DEFINE f == deadLetterTopic(t)
             g == forensicTopicOptions(t)
  <2>1. f \in Names /\ g \in TopicOptions /\ BrokerEnsureTopic(f, g)
    BY <1>1, NamesAreNames, OptionsAreOptions DEF ensureForensic
  <2>2. /\ topics \subseteq topics' /\ topics' \subseteq topics \cup {f}
        /\ \A u \in topics : options'[u] = options[u]
        /\ \A u \in Names : u \notin topics' => options'[u] = DefaultOptions
        /\ ~Refused(f, g) => f \in topics' /\ SameProperties(options'[f], g)
        /\ f \notin topics /\ f \in topics' => options'[f] = g
    BY <2>1, EnsureTopicFrame
  <2>3. \A u : Provisioned(u) => Provisioned(u)'
    BY <2>2, ProvisionedStable
  <2>4. declared' = declared
    BY <1>1 DEF ensureForensic, historyVars
  <2>5. \A u \in topics' : options'[u].deadLetter /\ options'[u].maxLength > 0
                           => Provisioned(u)'
    BY <2>2, <2>3, ForensicOptions DEF ProvisioningInv, DeclaredIsProvisioned
  <2>6. ASSUME NEW q \in Transports, pc'[q] = "declaring"
        PROVE  Provisioned(request[q].topic)'
    <3>1. CASE pc[q] = "declaring" /\ request'[q] = request[q]
      BY <2>3, <3>1 DEF ProvisioningInv
    <3>2. CASE q = p /\ ~Refused(f, g)
      <4>1. request'[q].topic = t
        BY <1>0, <1>1, <3>2 DEF ensureForensic, TypeOK
      <4>2. Provisioned(t)'
        BY <2>2, <3>2 DEF Provisioned
      <4> QED BY <4>1, <4>2
    <3> QED BY <1>0, <1>1, <2>6, <3>1, <3>2 DEF ensureForensic, Idle, TypeOK
  <2> QED BY <1>0, <2>2, <2>3, <2>4, <2>5, <2>6 DEF ProvisioningInv, DeclaredIsProvisioned
<1>2. ASSUME NEW p \in Transports, ensureSource(p) PROVE ProvisioningInv'
  <2> DEFINE t == request[p].topic
             o == request[p].options
  <2>1. /\ t \in Names /\ o \in TopicOptions
        /\ BrokerEnsureTopic(t, o) /\ Provisioned(t)
    BY <1>0, <1>2, NamesAreNames DEF ensureSource, Declare, ProvisioningInv, TypeOK
  <2>2. /\ topics \subseteq topics' /\ topics' \subseteq topics \cup {t}
        /\ \A u \in topics : options'[u] = options[u]
        /\ \A u \in Names : u \notin topics' => options'[u] = DefaultOptions
    BY <2>1, EnsureTopicFrame
  <2>3. \A u : Provisioned(u) => Provisioned(u)'
    BY <2>2, ProvisionedStable
  <2>4. \A d \in declared' : d.options.deadLetter => Provisioned(d.topic)'
    BY <1>2, <2>1, <2>3
       DEF ensureSource, Declare, ProvisioningInv, DeclaredIsProvisioned
  <2>5. \A u \in topics' : options'[u].deadLetter /\ options'[u].maxLength > 0
                           => Provisioned(u)'
    BY <2>1, <2>2, <2>3 DEF ProvisioningInv, DeclaredIsProvisioned
  <2>6. \A q \in Transports : pc'[q] = "declaring" =>
          pc[q] = "declaring" /\ request'[q] = request[q]
    BY <1>0, <1>2 DEF ensureSource, TypeOK
  <2> QED BY <1>0, <2>2, <2>3, <2>4, <2>5, <2>6 DEF ProvisioningInv, DeclaredIsProvisioned
<1>3. ASSUME NEW p \in Transports, NEW t \in Topics, NEW o \in Declarations[t],
             ensurePlain(p, t, o)
      PROVE  ProvisioningInv'
  <2>1. /\ t \in Names /\ o \in TopicOptions
        /\ BrokerEnsureTopic(t, o) /\ ~o.deadLetter
    BY <1>3, NamesAreNames, DeclarationType DEF ensurePlain, Declare
  <2>2. /\ topics \subseteq topics' /\ topics' \subseteq topics \cup {t}
        /\ \A u \in topics : options'[u] = options[u]
        /\ \A u \in Names : u \notin topics' => options'[u] = DefaultOptions
        /\ t \notin topics /\ t \in topics' => options'[t] = o
    BY <2>1, EnsureTopicFrame
  <2>3. \A u : Provisioned(u) => Provisioned(u)'
    BY <2>2, ProvisionedStable
  <2>4. \A d \in declared' : d.options.deadLetter => Provisioned(d.topic)'
    BY <1>3, <2>1, <2>3
       DEF ensurePlain, Declare, ProvisioningInv, DeclaredIsProvisioned
  <2>5. \A u \in topics' : options'[u].deadLetter /\ options'[u].maxLength > 0
                           => Provisioned(u)'
    BY <2>1, <2>2, <2>3 DEF ProvisioningInv, DeclaredIsProvisioned
  <2>6. UNCHANGED <<pc, request>>
    BY <1>3 DEF ensurePlain, transportVars
  <2> QED BY <1>0, <2>2, <2>3, <2>4, <2>5, <2>6 DEF ProvisioningInv, DeclaredIsProvisioned
<1>4. ASSUME NEW p \in Transports, NEW t \in Topics, sendDirect(p, t)
      PROVE  ProvisioningInv'
  <2>1. /\ t \in Names /\ topics' = topics \cup {t}
        /\ UNCHANGED <<options, declared, pc, request>>
    BY <1>4, NamesAreNames DEF sendDirect, transportVars, historyVars
  <2>2. \A u : Provisioned(u) => Provisioned(u)'
    BY <2>1, ProvisionedStable
  <2>3. t \notin topics => options[t].maxLength = 0
    BY <2>1 DEF ProvisioningInv, DefaultOptions
  <2>4. \A u \in topics' : options'[u].deadLetter /\ options'[u].maxLength > 0
                           => Provisioned(u)'
    BY <2>1, <2>2, <2>3 DEF ProvisioningInv, DeclaredIsProvisioned
  <2> QED BY <1>0, <2>1, <2>2, <2>4 DEF ProvisioningInv, DeclaredIsProvisioned
<1>5. ASSUME UNCHANGED <<topics, options, declared, request>>,
             NEW p \in Transports, NEW s \in {"idle", "handling", "closing"},
             pc' = [pc EXCEPT ![p] = s] \/ pc' = pc
      PROVE  ProvisioningInv'
  BY <1>0, <1>5, ProvisioningFrame DEF TypeOK
<1>6. ASSUME UNCHANGED <<topics, options, declared, request, pc>>
      PROVE  ProvisioningInv'
  BY <1>0, <1>6, ProvisioningFrame
<1>7. ASSUME NEW p \in Transports,
             \/ connect(p) \/ take(p) \/ handlerDefers(p) \/ handlerThrows(p)
             \/ close(p) \/ returnOutstanding(p) \/ finishClose(p)
      PROVE  ProvisioningInv'
  BY <1>5, <1>6, <1>7
     DEF connect, take, handlerDefers, handlerThrows, close, returnOutstanding,
         finishClose, brokerVars, transportVars, historyVars
<1>8. ASSUME NEW p \in Transports, NEW d, handlerReturns(p, d) PROVE ProvisioningInv'
  BY <1>5, <1>8 DEF handlerReturns, Resolve
<1>9. ASSUME NEW p \in Transports, NEW s, NEW d, settle(p, s, d) PROVE ProvisioningInv'
  BY <1>6, <1>9 DEF settle, Resolve
<1>10. ASSUME NEW p \in Transports, NEW t \in Topics,
              \/ subscribe(p, t) \/ purgeTopic(p, t)
              \/ \E r \in Routes \cup {EmptyString} : sendGrouped(p, t, r)
       PROVE  ProvisioningInv'
  BY <1>6, <1>10
     DEF subscribe, purgeTopic, sendGrouped, brokerVars, transportVars, historyVars
<1>11. ASSUME fanoutDone \/ \E t \in Names : fanoutCopy(t) PROVE ProvisioningInv'
  BY <1>6, <1>11 DEF fanoutDone, fanoutCopy, transportVars, historyVars
<1>12. ASSUME UNCHANGED vars PROVE ProvisioningInv'
  BY <1>6, <1>12 DEF vars, brokerVars, transportVars, historyVars
<1> QED
  BY <1>1, <1>2, <1>3, <1>4, <1>7, <1>8, <1>9, <1>10, <1>11, <1>12 DEF Next

(* Whatever other threads declare or send between the two locks of         *)
(* ensureTopic, a destination it declared with deadLetter has its forensic *)
(* destination behind it, and so has every bounded one.                    *)
THEOREM ForensicsProvisioned == Spec => []DeclaredIsProvisioned
<1>1. ProvisioningInv => DeclaredIsProvisioned
  BY DEF ProvisioningInv
<1> QED BY <1>1, ProvisioningInit, ProvisioningNext, PTL DEF Spec
-----------------------------------------------------------------------------
(* Order: FreshBehindReturned, strengthened by the bound every number      *)
(* respects and by what an unsubscribed transport holds.                   *)

(* One queue q, the messages hs held from it, and the last number n. *)
Ordered(q, hs, n) ==
  /\ \A i, j \in DOMAIN q : i < j /\ ~q[j].redelivered => q[i].sequence < q[j].sequence
  /\ \A i, j \in DOMAIN q : i < j /\ q[j].redelivered => q[i].redelivered
  /\ \A m \in hs, j \in DOMAIN q : ~q[j].redelivered => m.sequence < q[j].sequence
  /\ \A i \in DOMAIN q : q[i].sequence <= n
  /\ \A m \in hs : m.sequence <= n

(* What a publish or a dead letter does to one queue: nothing, lose the    *)
(* head, gain a fresh message numbered in lo+1..hi, or both.               *)
Grown(q, r, lo, hi) ==
  \/ r = q
  \/ q # <<>> /\ r = Tail(q)
  \/ \E v \in Held :
       /\ ~v.redelivered /\ lo < v.sequence /\ v.sequence <= hi
       /\ r = Append(q, v) \/ (q # <<>> /\ r = Append(Tail(q), v))

(* A destination is not its own forensic destination. *)
LEMMA ForensicIsAnother ==
  ASSUME NEW t \in Name
  PROVE  deadLetterTopic(t) # t
<1>0. "motus" \in Strings /\ "dead-letter" \in Strings
  BY StringsAssumption
<1>1. <<"motus", "dead-letter">> \in Seq(Strings) /\ t \in Seq(Strings)
  BY <1>0, WordsMakeNames DEF Name
<1>2. Len(<<"motus", "dead-letter">> \o t) = 2 + Len(t)
  BY <1>1
<1> QED BY <1>1, <1>2 DEF deadLetterTopic

(* The numbers of messages are numbers. *)
LEMMA NumbersAreNumbers ==
  ASSUME NEW q \in Seq(Held)
  PROVE  \A i \in DOMAIN q : q[i] \in Held /\ q[i].sequence \in Nat
<1>1. \A i \in DOMAIN q : q[i] \in Held
  OBVIOUS
<1> QED BY <1>1 DEF Held

(* Holding less keeps the order. *)
LEMMA OrderedForFewer ==
  ASSUME NEW q, NEW hs, NEW few \in SUBSET hs, NEW n, Ordered(q, hs, n)
  PROVE  Ordered(q, few, n)
BY DEF Ordered

(* Removing the head keeps the order. *)
LEMMA OrderedTail ==
  ASSUME NEW q \in Seq(Held), NEW hs \in SUBSET Held, NEW n \in Nat,
         Ordered(q, hs, n), q # <<>>
  PROVE  Ordered(Tail(q), hs, n)
<1>1. /\ DOMAIN Tail(q) = 1..(Len(q) - 1) /\ DOMAIN q = 1..Len(q) /\ Len(q) \in Nat \ {0}
      /\ \A i \in DOMAIN Tail(q) : i + 1 \in DOMAIN q /\ Tail(q)[i] = q[i + 1]
  OBVIOUS
<1> QED BY <1>1 DEF Ordered

(* Taking the head keeps the order, with the head among what is held. *)
LEMMA OrderedTake ==
  ASSUME NEW q \in Seq(Held), NEW hs \in SUBSET Held, NEW n \in Nat,
         Ordered(q, hs, n), q # <<>>
  PROVE  Ordered(Tail(q), hs \cup {Head(q)}, n)
<1>1. /\ DOMAIN Tail(q) = 1..(Len(q) - 1) /\ DOMAIN q = 1..Len(q) /\ Len(q) \in Nat \ {0}
      /\ \A i \in DOMAIN Tail(q) : i + 1 \in DOMAIN q /\ Tail(q)[i] = q[i + 1]
      /\ Head(q) = q[1] /\ 1 \in DOMAIN q
  OBVIOUS
<1>2. Ordered(Tail(q), hs, n)
  BY OrderedTail
<1>3. \A j \in DOMAIN Tail(q) :
        ~Tail(q)[j].redelivered => Head(q).sequence < Tail(q)[j].sequence
  BY <1>1 DEF Ordered
<1>4. Head(q).sequence <= n
  BY <1>1 DEF Ordered
<1> QED BY <1>2, <1>3, <1>4 DEF Ordered

(* Appending a fresh message with a new number keeps the order. *)
LEMMA OrderedAppend ==
  ASSUME NEW q \in Seq(Held), NEW hs \in SUBSET Held, NEW n \in Nat, NEW k \in Nat,
         NEW v \in Held, Ordered(q, hs, n),
         ~v.redelivered, n < v.sequence, v.sequence <= k
  PROVE  Ordered(Append(q, v), hs, k)
<1> DEFINE r == Append(q, v)
<1>1. /\ Len(q) \in Nat /\ DOMAIN q = 1..Len(q) /\ DOMAIN r = 1..(Len(q) + 1)
      /\ \A i \in DOMAIN q : r[i] = q[i]
      /\ r[Len(q) + 1] = v
  OBVIOUS
<1>2. /\ \A i \in DOMAIN q : q[i].sequence \in Nat
      /\ v.sequence \in Nat
      /\ \A m \in hs : m.sequence \in Nat
  BY NumbersAreNumbers DEF Held
<1>3. ASSUME NEW i \in DOMAIN r PROVE i \in DOMAIN q \/ i = Len(q) + 1
  BY <1>1
<1>4. \A i, j \in DOMAIN r : i < j /\ ~r[j].redelivered => r[i].sequence < r[j].sequence
  BY <1>1, <1>2, <1>3 DEF Ordered
<1>5. \A i, j \in DOMAIN r : i < j /\ r[j].redelivered => r[i].redelivered
  BY <1>1, <1>3 DEF Ordered
<1>6. \A m \in hs, j \in DOMAIN r : ~r[j].redelivered => m.sequence < r[j].sequence
  BY <1>1, <1>2, <1>3 DEF Ordered
<1>7. /\ \A i \in DOMAIN r : r[i].sequence <= k
      /\ \A m \in hs : m.sequence <= k
  BY <1>1, <1>2, <1>3 DEF Ordered
<1> QED BY <1>4, <1>5, <1>6, <1>7 DEF Ordered

(* Putting a held message back in front, flagged, keeps the order. *)
LEMMA OrderedRequeue ==
  ASSUME NEW q \in Seq(Held), NEW hs \in SUBSET Held, NEW n \in Nat,
         NEW m \in hs, Ordered(q, hs, n)
  PROVE  Ordered(<<[m EXCEPT !.redelivered = TRUE]>> \o q, hs, n)
<1> DEFINE v == [m EXCEPT !.redelivered = TRUE]
           r == <<v>> \o q
<1>0. v \in Held /\ v.sequence = m.sequence /\ v.redelivered = TRUE
  BY DEF Held
<1>1. /\ Len(q) \in Nat /\ DOMAIN q = 1..Len(q) /\ DOMAIN r = 1..(Len(q) + 1)
      /\ \A i \in DOMAIN q : r[i + 1] = q[i]
      /\ r[1] = v
  BY <1>0
<1>2. \A i \in DOMAIN r : i = 1 \/ (i - 1 \in DOMAIN q /\ r[i] = q[i - 1])
  BY <1>1
<1> HIDE DEF v, r
<1>3. ASSUME NEW i \in DOMAIN r, NEW j \in DOMAIN r, i < j, ~r[j].redelivered
      PROVE  r[i].sequence < r[j].sequence
  <2>1. j # 1 /\ j - 1 \in DOMAIN q /\ r[j] = q[j - 1]
    BY <1>1, <1>2, <1>3
  <2>2. CASE i = 1
    BY <1>0, <1>1, <1>3, <2>1, <2>2 DEF Ordered
  <2>3. CASE i # 1
    <3>1. i - 1 \in DOMAIN q /\ r[i] = q[i - 1] /\ i - 1 < j - 1
      BY <1>1, <1>2, <1>3, <2>3
    <3> QED BY <1>3, <2>1, <3>1 DEF Ordered
  <2> QED BY <2>2, <2>3
<1>4. \A i, j \in DOMAIN r : i < j /\ r[j].redelivered => r[i].redelivered
  BY <1>0, <1>1, <1>2 DEF Ordered
<1>5. \A x \in hs, j \in DOMAIN r : ~r[j].redelivered => x.sequence < r[j].sequence
  BY <1>0, <1>1, <1>2 DEF Ordered
<1>6. \A i \in DOMAIN r : r[i].sequence <= n
  BY <1>0, <1>1, <1>2 DEF Ordered
<1>7. \A x \in hs : x.sequence <= n
  BY DEF Ordered
<1>8. Ordered(r, hs, n)
  BY <1>3, <1>4, <1>5, <1>6, <1>7 DEF Ordered
<1> QED BY <1>8 DEF r, v

(* Growing keeps the order. *)
LEMMA OrderedGrown ==
  ASSUME NEW q \in Seq(Held), NEW r, NEW hs \in SUBSET Held,
         NEW lo \in Nat, NEW hi \in Nat, lo <= hi,
         Ordered(q, hs, lo), Grown(q, r, lo, hi)
  PROVE  Ordered(r, hs, hi)
<1>0. /\ \A i \in DOMAIN q : q[i].sequence \in Nat
      /\ \A m \in hs : m.sequence \in Nat
  BY NumbersAreNumbers DEF Held
<1>1. Ordered(q, hs, hi)
  BY <1>0 DEF Ordered
<1>2. CASE r = q
  BY <1>1, <1>2
<1>3. CASE q # <<>> /\ r = Tail(q)
  BY <1>1, <1>3, OrderedTail
<1>4. ASSUME NEW v \in Held, ~v.redelivered, lo < v.sequence, v.sequence <= hi,
             r = Append(q, v)
      PROVE  Ordered(r, hs, hi)
  BY <1>4, OrderedAppend
<1>5. ASSUME NEW v \in Held, ~v.redelivered, lo < v.sequence, v.sequence <= hi,
             q # <<>>, r = Append(Tail(q), v)
      PROVE  Ordered(r, hs, hi)
  <2>1. Tail(q) \in Seq(Held) /\ Ordered(Tail(q), hs, lo)
    BY <1>5, OrderedTail
  <2> QED BY <1>5, <2>1, OrderedAppend
<1> QED BY <1>2, <1>3, <1>4, <1>5 DEF Grown
(* The queues and the last number of a store after one operation on it. *)
LEMMA GoneShape ==
  ASSUME NEW b \in Stores, NEW m \in Held, NEW f \in Fates
  PROVE  Gone(b, f, m).messages = b.messages /\ Gone(b, f, m).sequence = b.sequence
BY DEF Gone, Stores

(* push_back changes one queue. *)
LEMMA PushBackShape ==
  ASSUME NEW b \in Stores, NEW t \in Names, NEW m \in Held
  PROVE  /\ PushBack(b, t, m).sequence = b.sequence
         /\ PushBack(b, t, m).messages[t] = Append(b.messages[t], m)
         /\ \A u \in Names : u # t => PushBack(b, t, m).messages[u] = b.messages[u]
BY DEF PushBack, Stores

(* pop_front changes one queue. *)
LEMMA PopFrontShape ==
  ASSUME NEW b \in Stores, NEW t \in Names
  PROVE  /\ PopFront(b, t).sequence = b.sequence
         /\ PopFront(b, t).messages[t] = Tail(b.messages[t])
         /\ \A u \in Names : u # t => PopFront(b, t).messages[u] = b.messages[u]
BY DEF PopFront, Stores

ForensicStep(b, c, t, v) ==
  /\ c.sequence = b.sequence
  /\ \A u \in Names : u # t => c.messages[u] = b.messages[u]
  /\ \/ c.messages[t] = b.messages[t]
     \/ c.messages[t] = Append(b.messages[t], v)
     \/ b.messages[t] # <<>> /\ c.messages[t] = Tail(b.messages[t])
     \/ b.messages[t] # <<>> /\ c.messages[t] = Append(Tail(b.messages[t]), v)

(* The queues and the last number of c are those of b grown. *)
AllGrown(b, c) ==
  /\ c.sequence \in Nat /\ b.sequence <= c.sequence
  /\ \A u \in Names : Grown(b.messages[u], c.messages[u], b.sequence, c.sequence)

(* What enqueueing v at a forensic destination t makes of the queues. *)
LEMMA ForensicShape ==
  ASSUME NEW b \in Stores, NEW t \in Names, NEW v \in Held, TypeOK
  PROVE  ForensicStep(b, enqueueForensic(b, t, v), t, v)
<1> DEFINE c == enqueueForensic(b, t, v)
           q == b.messages[t]
<1> SUFFICES ForensicStep(b, c, t, v)
  OBVIOUS
<1>0. options[t].overflow \in OverflowPolicy /\ b.messages \in [Names -> Seq(Held)]
  BY DEF TypeOK, TopicOptions, Stores
<1>1. CASE ~Full(b, t)
  <2>1. c = PushBack(b, t, v)
    BY <1>1 DEF enqueueForensic, EnqueueWith
  <2> HIDE DEF c
  <2> QED BY <1>0, <2>1, PushBackShape DEF ForensicStep
<1>2. CASE Full(b, t)
  <2> DEFINE h == Head(q)
             d == PopFront(b, t)
             e == Gone(d, "dropped", h)
  <2>1. q # <<>> /\ d \in Stores /\ h \in Held
    BY <1>2, FullHasHead, PopFrontType
  <2>2. e \in Stores
    BY <2>1, GoneType DEF Fates
  <2>3. \/ c = Gone(b, "refused", v)
        \/ c = Gone(b, "dropped", v)
        \/ c = Gone(e, "lost", v)
        \/ c = PushBack(e, t, v)
    BY <1>0, <1>2 DEF enqueueForensic, EnqueueWith, Discard, OverflowPolicy
  <2>4. /\ e.sequence = b.sequence
        /\ e.messages[t] = Tail(q)
        /\ \A u \in Names : u # t => e.messages[u] = b.messages[u]
    BY <2>1, GoneShape, PopFrontShape DEF Fates
  <2> HIDE DEF c, d, e, h
  <2>5. CASE c = Gone(b, "refused", v) \/ c = Gone(b, "dropped", v)
    BY <2>5, GoneShape DEF Fates, ForensicStep
  <2>6. CASE c = Gone(e, "lost", v)
    <3>1. c.messages = e.messages /\ c.sequence = e.sequence
      BY <2>2, <2>6, GoneShape DEF Fates
    <3> QED BY <1>0, <2>1, <2>4, <3>1 DEF ForensicStep
  <2>7. CASE c = PushBack(e, t, v)
    <3>1. /\ c.messages[t] = Append(e.messages[t], v)
          /\ c.sequence = e.sequence
          /\ \A u \in Names : u # t => c.messages[u] = e.messages[u]
      BY <2>2, <2>7, PushBackShape
    <3> QED BY <1>0, <2>1, <2>4, <3>1 DEF ForensicStep
  <2> QED BY <2>3, <2>5, <2>6, <2>7
<1> QED BY <1>1, <1>2

(* What dead-lettering a message of t makes of the queues: only the        *)
(* forensic destination grows, by a message with a new number.             *)
LEMMA DeadLetterShape ==
  ASSUME NEW b \in Stores, NEW t, NEW m \in Held, TypeOK
  PROVE  /\ AllGrown(b, deadLetterLocked(b, t, m))
         /\ \A u \in Names : u # deadLetterTopic(t) =>
              deadLetterLocked(b, t, m).messages[u] = b.messages[u]
<1> DEFINE n == b.sequence + 1
           d == Gone(b, "dead", m)
           a == [d EXCEPT !.sequence = n]
           v == [m EXCEPT !.sequence = n, !.redelivered = FALSE]
           c == deadLetterLocked(b, t, m)
           f == deadLetterTopic(t)
<1> SUFFICES /\ AllGrown(b, c)
             /\ \A u \in Names : u # f => c.messages[u] = b.messages[u]
  OBVIOUS
<1>0. b.sequence \in Nat
  BY DEF Stores
<1>1. CASE t \notin topics \/ ~options[t].deadLetter \/ Unprovisioned(t)
  <2>1. c = Gone(b, "dropped", m) \/ c = Gone(b, "lost", m)
    BY <1>1 DEF deadLetterLocked
  <2>2. c.messages = b.messages /\ c.sequence = b.sequence
    BY <2>1, GoneShape DEF Fates
  <2> HIDE DEF c, f
  <2> QED BY <1>0, <2>2 DEF AllGrown, Grown
<1>2. CASE ~(t \notin topics \/ ~options[t].deadLetter \/ Unprovisioned(t))
  <2>1. f \in Names
    BY <1>2 DEF Unprovisioned, TypeOK
  <2>2. d \in Stores /\ d.messages = b.messages
    BY GoneType, GoneShape DEF Fates
  <2>9. n \in Nat
    BY <1>0
  <2>3. v \in Held /\ v.sequence = n /\ v.redelivered = FALSE
    <3>1. v \in Held
      BY <2>9 DEF Held
    <3>2. v.sequence = n /\ v.redelivered = FALSE
      BY DEF Held
    <3> QED BY <3>1, <3>2
  <2>8. a \in Stores /\ a.messages = b.messages /\ a.sequence = n
    <3> HIDE DEF d
    <3> QED BY <1>0, <2>2 DEF Stores
  <2>4. c = enqueueForensic(a, f, v)
    BY <1>2 DEF deadLetterLocked
  <2> HIDE DEF a, c, v, f
  <2>5. /\ c.sequence = n
        /\ \A u \in Names : u # f => c.messages[u] = b.messages[u]
        /\ \/ c.messages[f] = b.messages[f]
           \/ c.messages[f] = Append(b.messages[f], v)
           \/ b.messages[f] # <<>> /\ c.messages[f] = Tail(b.messages[f])
           \/ b.messages[f] # <<>> /\ c.messages[f] = Append(Tail(b.messages[f]), v)
    <3>1. ForensicStep(a, c, f, v)
      BY <2>1, <2>3, <2>4, <2>8, ForensicShape
    <3> QED BY <2>8, <3>1 DEF ForensicStep
  <2>6. Grown(b.messages[f], c.messages[f], b.sequence, c.sequence)
    BY <1>0, <2>3, <2>5 DEF Grown
  <2>7. \A u \in Names : Grown(b.messages[u], c.messages[u], b.sequence, c.sequence)
    BY <2>5, <2>6 DEF Grown
  <2> QED BY <1>0, <2>5, <2>7 DEF AllGrown
<1> QED BY <1>1, <1>2

(* What grew with numbers above n grew with numbers above less than n. *)
LEMMA GrownFromBelow ==
  ASSUME NEW lo \in Nat, NEW hi \in Nat, NEW q, NEW r, Grown(q, r, lo + 1, hi)
  PROVE  Grown(q, r, lo, hi)
<1>1. \A v \in Held : v.sequence \in Nat
  BY DEF Held
<1> QED BY <1>1 DEF Grown

(* What a publish to t makes of the queues. *)
LEMMA PublishShape ==
  ASSUME NEW b \in Stores, NEW t \in Names, NEW body \in Nat, TypeOK
  PROVE  AllGrown(b, EnqueueNew(b, t, body))
<1> DEFINE n == b.sequence + 1
           a == [b EXCEPT !.sequence = n]
           m == [sequence |-> n, body |-> body, redelivered |-> FALSE]
           c == EnqueueNew(b, t, body)
           q == b.messages[t]
<1> SUFFICES AllGrown(b, c)
  OBVIOUS
<1>4. /\ b.sequence \in Nat /\ b.messages \in [Names -> Seq(Held)]
      /\ a \in Stores /\ a.messages = b.messages /\ a.sequence = n
  BY DEF Stores
<1>5. m \in Held /\ m.sequence = n /\ m.redelivered = FALSE
  BY <1>4 DEF Held
<1>6. options[t].overflow \in OverflowPolicy
  BY DEF TypeOK, TopicOptions
<1>0. /\ b.sequence \in Nat /\ b.messages \in [Names -> Seq(Held)]
      /\ a \in Stores /\ a.messages = b.messages /\ a.sequence = n
      /\ m \in Held /\ m.sequence = n /\ m.redelivered = FALSE
      /\ options[t].overflow \in OverflowPolicy
  BY <1>4, <1>5, <1>6
<1>1. c = EnqueueWith(deadLetterLocked, a, t, m)
  BY DEF EnqueueNew, enqueueLocked
<1> HIDE DEF a, m, c
<1>2. CASE ~Full(a, t)
  <2>1. c = PushBack(a, t, m)
    BY <1>1, <1>2 DEF EnqueueWith
  <2>2. /\ c.sequence = n
        /\ c.messages[t] = Append(q, m)
        /\ \A u \in Names : u # t => c.messages[u] = b.messages[u]
    BY <1>0, <2>1, PushBackShape
  <2>3. Grown(q, c.messages[t], b.sequence, c.sequence)
    BY <1>0, <2>2 DEF Grown
  <2>4. \A u \in Names : u # t => Grown(b.messages[u], c.messages[u], b.sequence, c.sequence)
    BY <2>2 DEF Grown
  <2>5. \A u \in Names : Grown(b.messages[u], c.messages[u], b.sequence, c.sequence)
    BY <2>3, <2>4
  <2>6. c.sequence \in Nat /\ b.sequence <= c.sequence
    BY <1>0, <2>2
  <2> QED BY <2>5, <2>6 DEF AllGrown
<1>3. CASE Full(a, t)
  <2> DEFINE h == Head(q)
             p == PopFront(a, t)
  <2>1. q # <<>> /\ p \in Stores /\ h \in Held
    BY <1>0, <1>3, FullHasHead, PopFrontType
  <2>2. /\ p.sequence = n /\ p.messages[t] = Tail(q)
        /\ \A u \in Names : u # t => p.messages[u] = b.messages[u]
    BY <1>0, PopFrontShape
  <2>3. PICK e \in {deadLetterLocked(p, t, h), Gone(p, "dropped", h)} :
          \/ c = Gone(a, "refused", m)
          \/ c = deadLetterLocked(a, t, m)
          \/ c = Gone(e, "lost", m)
          \/ c = PushBack(e, t, m)
    BY <1>0, <1>1, <1>3 DEF EnqueueWith, OverflowPolicy
  <2>4. CASE c = Gone(a, "refused", m)
    <3>1. c.messages = b.messages /\ c.sequence = n
      BY <1>0, <2>4, GoneShape DEF Fates
    <3> QED BY <1>0, <3>1 DEF AllGrown, Grown
  <2>5. CASE c = deadLetterLocked(a, t, m)
    <3>1. /\ c.sequence \in Nat /\ n <= c.sequence
          /\ \A u \in Names : Grown(b.messages[u], c.messages[u], n, c.sequence)
      BY <1>0, <2>5, DeadLetterShape DEF AllGrown
    <3> QED BY <1>0, <3>1, GrownFromBelow DEF AllGrown
  <2>6. /\ e \in Stores /\ e.sequence \in Nat /\ n <= e.sequence
        /\ e.messages[t] = Tail(q)
        /\ \A u \in Names : u # t => Grown(b.messages[u], e.messages[u], n, e.sequence)
    <3>1. CASE e = Gone(p, "dropped", h)
      <4>1. e \in Stores /\ e.messages = p.messages /\ e.sequence = n
        BY <2>1, <2>2, <3>1, GoneType, GoneShape DEF Fates
      <4> QED BY <1>0, <2>2, <4>1 DEF Grown
    <3>2. CASE e = deadLetterLocked(p, t, h)
      <4>1. e \in Stores
        BY <2>1, <3>2, DeadLetterType
      <4>2. /\ e.sequence \in Nat /\ n <= e.sequence
            /\ \A u \in Names : Grown(p.messages[u], e.messages[u], n, e.sequence)
            /\ t # deadLetterTopic(t) => e.messages[t] = p.messages[t]
        BY <2>1, <2>2, <3>2, DeadLetterShape DEF AllGrown
      <4>3. t # deadLetterTopic(t)
        BY ForensicIsAnother, NamesAreNames
      <4> QED BY <1>0, <2>2, <4>1, <4>2, <4>3
    <3> QED BY <2>3, <3>1, <3>2
  <2>7. CASE c = Gone(e, "lost", m)
    <3>1. c.messages = e.messages /\ c.sequence = e.sequence
      BY <1>0, <2>6, <2>7, GoneShape DEF Fates
    <3>2. Grown(q, c.messages[t], b.sequence, c.sequence)
      BY <2>1, <2>6, <3>1 DEF Grown
    <3>3. \A u \in Names : u # t => Grown(b.messages[u], c.messages[u], b.sequence, c.sequence)
      BY <1>0, <2>6, <3>1, GrownFromBelow
    <3> QED BY <1>0, <2>6, <3>1, <3>2, <3>3 DEF AllGrown
  <2>8. CASE c = PushBack(e, t, m)
    <3>1. /\ c.sequence = e.sequence
          /\ c.messages[t] = Append(e.messages[t], m)
          /\ \A u \in Names : u # t => c.messages[u] = e.messages[u]
      BY <1>0, <2>6, <2>8, PushBackShape
    <3>3. c.messages[t] = Append(Tail(q), m)
      BY <2>6, <3>1
    <3>4. Grown(q, c.messages[t], b.sequence, c.sequence)
      BY <1>0, <2>1, <2>6, <3>1, <3>3 DEF Grown
    <3>5. \A u \in Names : u # t => Grown(b.messages[u], c.messages[u], b.sequence, c.sequence)
      BY <1>0, <2>6, <3>1, GrownFromBelow
    <3>6. \A u \in Names : Grown(b.messages[u], c.messages[u], b.sequence, c.sequence)
      BY <3>4, <3>5
    <3>7. c.sequence \in Nat /\ b.sequence <= c.sequence
      BY <1>0, <2>6, <3>1
    <3> QED BY <3>6, <3>7 DEF AllGrown
  <2> QED BY <2>3, <2>4, <2>5, <2>7, <2>8
<1> QED BY <1>2, <1>3
HeldFrom(t) == UNION {outstanding[p] : p \in {q \in Transports : subscription[q] = t}}

OrderInv ==
  /\ TypeOK
  /\ \A t \in Names : Ordered(store.messages[t], HeldFrom(t), store.sequence)
  /\ \A p \in Transports : subscription[p] = NoTopic => outstanding[p] = {}

(* The facts about types the order proof needs. *)
LEMMA OrderTypes ==
  ASSUME TypeOK
  PROVE  /\ store \in Stores /\ store.sequence \in Nat
         /\ store.messages \in [Names -> Seq(Held)]
         /\ \A t \in Names : store.messages[t] \in Seq(Held)
         /\ \A t : HeldFrom(t) \in SUBSET Held
BY DEF TypeOK, Stores, HeldFrom

(* A step after which the transports hold no more than before. *)
LEMMA OrderFrame ==
  ASSUME OrderInv, TypeOK',
         \A p \in Transports :
           /\ outstanding'[p] \subseteq outstanding[p]
           /\ subscription'[p] = subscription[p] \/ outstanding'[p] = {},
         \A t \in Names : Ordered(store'.messages[t], HeldFrom(t), store'.sequence)
  PROVE  OrderInv'
<1>1. ASSUME NEW t PROVE HeldFrom(t)' \subseteq HeldFrom(t)
  BY DEF HeldFrom
<1>2. ASSUME NEW t \in Names
      PROVE  Ordered(store'.messages[t], HeldFrom(t)', store'.sequence)
  BY <1>1, OrderedForFewer
<1>3. \A p \in Transports : subscription'[p] = NoTopic => outstanding'[p] = {}
  BY DEF OrderInv
<1> QED BY <1>2, <1>3 DEF OrderInv

(* A publish or a dead letter while the transports hold no more. *)
LEMMA OrderGrown ==
  ASSUME OrderInv, AllGrown(store, store')
  PROVE  \A t \in Names : Ordered(store'.messages[t], HeldFrom(t), store'.sequence)
<1>1. TypeOK /\ store'.sequence \in Nat /\ store.sequence <= store'.sequence
  BY DEF OrderInv, AllGrown
<1>2. ASSUME NEW t \in Names
      PROVE  Ordered(store'.messages[t], HeldFrom(t), store'.sequence)
  <2>1. /\ store.messages[t] \in Seq(Held) /\ HeldFrom(t) \in SUBSET Held
        /\ store.sequence \in Nat
    BY <1>1, OrderTypes
  <2>2. /\ Ordered(store.messages[t], HeldFrom(t), store.sequence)
        /\ Grown(store.messages[t], store'.messages[t], store.sequence, store'.sequence)
    BY DEF OrderInv, AllGrown
  <2> QED BY <1>1, <2>1, <2>2, OrderedGrown
<1> QED BY <1>2

(* A held message returned to the front of its destination. *)
LEMMA OrderReturned ==
  ASSUME OrderInv, NEW p \in Transports, NEW m \in outstanding[p],
         store' = requeue(store, subscription[p], m)
  PROVE  \A t \in Names : Ordered(store'.messages[t], HeldFrom(t), store'.sequence)
<1> DEFINE s == subscription[p]
           v == [m EXCEPT !.redelivered = TRUE]
<1>1. /\ TypeOK /\ store.sequence \in Nat /\ store.messages \in [Names -> Seq(Held)]
      /\ \A t : HeldFrom(t) \in SUBSET Held
  BY OrderTypes DEF OrderInv
<1>2. /\ store'.sequence = store.sequence
      /\ store'.messages = [store.messages EXCEPT ![s] = <<v>> \o @]
  BY <1>1, OrderTypes DEF requeue, Stores
<1>3. ASSUME NEW t \in Names
      PROVE  Ordered(store'.messages[t], HeldFrom(t), store'.sequence)
  <2>1. CASE t # s
    BY <1>1, <1>2, <2>1 DEF OrderInv
  <2>2. CASE t = s
    <3>1. store'.messages[t] = <<v>> \o store.messages[t]
      BY <1>1, <1>2, <2>2
    <3>2. m \in HeldFrom(t)
      BY <2>2 DEF HeldFrom
    <3>3. Ordered(store.messages[t], HeldFrom(t), store.sequence)
      BY DEF OrderInv
    <3>4. Ordered(<<v>> \o store.messages[t], HeldFrom(t), store.sequence)
      BY <1>1, <3>2, <3>3, OrderedRequeue
    <3> QED BY <1>2, <3>1, <3>4
  <2> QED BY <2>1, <2>2
<1> QED BY <1>3

(* The switch at the end of pump() and settle(). *)
LEMMA OrderResolve ==
  ASSUME OrderInv, TypeOK', NEW p \in Transports, NEW m \in outstanding[p], NEW d,
         Resolve(p, m, d)
  PROVE  OrderInv'
<1>0. TypeOK /\ m \in Held /\ store \in Stores
  BY OrderTypes DEF OrderInv, TypeOK
<1>1. /\ outstanding' = [outstanding EXCEPT ![p] = @ \ {m}]
      /\ subscription' = subscription
  BY DEF Resolve
<1>2. \A q \in Transports : outstanding'[q] \subseteq outstanding[q]
  BY <1>0, <1>1 DEF TypeOK
<1>3. CASE store' = Gone(store, "acked", m)
  <2>1. store'.messages = store.messages /\ store'.sequence = store.sequence
    BY <1>0, <1>3, GoneShape DEF Fates
  <2>2. \A t \in Names : Ordered(store'.messages[t], HeldFrom(t), store'.sequence)
    BY <2>1 DEF OrderInv
  <2> QED BY <1>1, <1>2, <2>2, OrderFrame
<1>4. CASE store' = requeue(store, subscription[p], m)
  BY <1>1, <1>2, <1>4, OrderReturned, OrderFrame
<1>5. CASE store' = deadLetterLocked(store, subscription[p], m)
  <2>1. AllGrown(store, store')
    BY <1>0, <1>5, DeadLetterShape
  <2>2. \A t \in Names : Ordered(store'.messages[t], HeldFrom(t), store'.sequence)
    BY <2>1, OrderGrown
  <2> QED BY <1>1, <1>2, <2>2, OrderFrame
<1> QED BY <1>3, <1>4, <1>5 DEF Resolve

(* In a fresh process the queues are empty, hence ordered. *)
LEMMA OrderInit == Init => OrderInv
<1> SUFFICES ASSUME Init PROVE OrderInv
  OBVIOUS
<1>1. TypeOK
  BY InitType
<1>2. \A t \in Names : Ordered(store.messages[t], HeldFrom(t), store.sequence)
  BY DEF Init, EmptyStore, HeldFrom, Ordered
<1> QED BY <1>1, <1>2 DEF Init, OrderInv

(* Every operation keeps the order. *)
LEMMA OrderNext == OrderInv /\ [Next]_vars => OrderInv'
<1> SUFFICES ASSUME OrderInv, [Next]_vars PROVE OrderInv'
  OBVIOUS
<1>0. TypeOK /\ TypeOK'
  BY NextType DEF OrderInv
<1>1. /\ store \in Stores /\ store.sequence \in Nat /\ store.sequence + 1 \in Nat
      /\ store.messages \in [Names -> Seq(Held)]
      /\ \A t : HeldFrom(t) \in SUBSET Held
  BY <1>0, OrderTypes
<1>2. ASSUME UNCHANGED <<store, outstanding, subscription>> PROVE OrderInv'
  BY <1>0, <1>2, OrderFrame DEF OrderInv
<1>3. ASSUME AllGrown(store, store'), UNCHANGED <<outstanding, subscription>>
      PROVE  OrderInv'
  BY <1>0, <1>3, OrderGrown, OrderFrame
<1>4. ASSUME NEW p \in Transports, NEW t \in Topics, sendDirect(p, t) PROVE OrderInv'
  <2>1. AllGrown(store, store')
    BY <1>0, <1>1, <1>4, PublishShape, NamesAreNames DEF sendDirect
  <2> QED BY <1>3, <1>4, <2>1 DEF sendDirect, transportVars
<1>5. ASSUME NEW t \in Names, fanoutCopy(t) PROVE OrderInv'
  <2>1. fanout.body \in Nat
    BY <1>0, <1>5 DEF fanoutCopy, Unlocked, TypeOK
  <2>2. AllGrown(store, store')
    BY <1>0, <1>1, <1>5, <2>1, PublishShape DEF fanoutCopy
  <2> QED BY <1>3, <1>5, <2>2 DEF fanoutCopy, transportVars
<1>6. ASSUME NEW p \in Transports, take(p) PROVE OrderInv'
  <2> DEFINE t == subscription[p]
             q == store.messages[t]
  <2>1. /\ t \in Names /\ q # <<>> /\ q \in Seq(Held) /\ outstanding[p] = {}
        /\ store' = PopFront(store, t) /\ subscription' = subscription
        /\ outstanding' = [outstanding EXCEPT ![p] = {Head(q)}]
    BY <1>0, <1>1, <1>6 DEF take, TypeOK
  <2>2. /\ store'.sequence = store.sequence /\ store'.messages[t] = Tail(q)
        /\ \A u \in Names : u # t => store'.messages[u] = store.messages[u]
    BY <1>1, <2>1, PopFrontShape
  <2>4. \A u : u # t => HeldFrom(u)' \subseteq HeldFrom(u)
    BY <1>0, <2>1 DEF HeldFrom, TypeOK
  <2>5. Ordered(Tail(q), HeldFrom(t) \cup {Head(q)}, store.sequence)
    BY <1>1, <2>1, OrderedTake DEF OrderInv
  <2>6. ASSUME NEW u \in Names
        PROVE  Ordered(store'.messages[u], HeldFrom(u)', store'.sequence)
    <3>1. CASE u = t
      <4>1. HeldFrom(u)' \subseteq HeldFrom(t) \cup {Head(q)}
        BY <1>0, <2>1, <3>1 DEF HeldFrom, TypeOK
      <4>2. Ordered(Tail(q), HeldFrom(u)', store.sequence)
        BY <2>5, <4>1, OrderedForFewer
      <4>3. store'.messages[u] = Tail(q) /\ store'.sequence = store.sequence
        BY <2>2, <3>1
      <4> QED BY <4>2, <4>3
    <3>2. CASE u # t
      <4>1. Ordered(store.messages[u], HeldFrom(u), store.sequence)
        BY DEF OrderInv
      <4> QED BY <2>2, <2>4, <3>2, <4>1, OrderedForFewer
    <3> QED BY <3>1, <3>2
  <2>7. \A r \in Transports : subscription'[r] = NoTopic => outstanding'[r] = {}
    BY <1>0, <2>1, NamesAssumption DEF OrderInv, TypeOK
  <2> QED BY <1>0, <2>6, <2>7 DEF OrderInv
<1>7. ASSUME NEW p \in Transports, NEW d, handlerReturns(p, d) PROVE OrderInv'
  BY <1>0, <1>7, OrderResolve DEF handlerReturns
<1>8. ASSUME NEW p \in Transports, NEW s, NEW d, settle(p, s, d) PROVE OrderInv'
  BY <1>0, <1>8, OrderResolve DEF settle
<1>9. ASSUME NEW p \in Transports, NEW t \in Topics, subscribe(p, t) PROVE OrderInv'
  <2>1. /\ outstanding[p] = {} /\ UNCHANGED <<store, outstanding>>
        /\ subscription' = [subscription EXCEPT ![p] = t]
    BY <1>9 DEF subscribe, brokerVars, OrderInv
  <2>2. \A r \in Transports : subscription'[r] = subscription[r] \/ outstanding'[r] = {}
    BY <1>0, <2>1 DEF TypeOK
  <2> QED BY <1>0, <2>1, <2>2, OrderFrame DEF OrderInv
<1>10. ASSUME NEW p \in Transports, NEW t \in Topics, purgeTopic(p, t) PROVE OrderInv'
  <2>1. /\ UNCHANGED <<outstanding, subscription>>
        /\ store' = purge(store, t) /\ t \in Names
    BY <1>10, NamesAreNames DEF purgeTopic, transportVars
  <2>2. /\ store'.sequence = store.sequence
        /\ store'.messages = [store.messages EXCEPT ![t] = <<>>]
    BY <1>1, <2>1 DEF purge, Stores
  <2>3. ASSUME NEW u \in Names
        PROVE  Ordered(store'.messages[u], HeldFrom(u), store'.sequence)
    <3>1. Ordered(store.messages[u], HeldFrom(u), store.sequence)
      BY DEF OrderInv
    <3>2. store'.messages[u] = store.messages[u] \/ store'.messages[u] = <<>>
      BY <1>1, <2>2
    <3> QED BY <2>2, <3>1, <3>2 DEF Ordered
  <2> QED BY <1>0, <2>1, <2>3, OrderFrame
<1>11. ASSUME NEW p \in Transports, returnOutstanding(p) PROVE OrderInv'
  <2>1. PICK m \in outstanding[p] :
          /\ store' = requeue(store, subscription[p], m)
          /\ outstanding' = [outstanding EXCEPT ![p] = @ \ {m}]
    BY <1>11 DEF returnOutstanding
  <2>2. subscription' = subscription
    BY <1>11 DEF returnOutstanding
  <2>3. \A r \in Transports : outstanding'[r] \subseteq outstanding[r]
    BY <1>0, <2>1 DEF TypeOK
  <2> QED BY <1>0, <2>1, <2>2, <2>3, OrderReturned, OrderFrame
<1>12. ASSUME NEW p \in Transports, finishClose(p) PROVE OrderInv'
  <2>1. /\ UNCHANGED <<store, outstanding>> /\ outstanding[p] = {}
        /\ subscription' = [subscription EXCEPT ![p] = NoTopic]
    BY <1>12 DEF finishClose, brokerVars
  <2>2. \A r \in Transports : subscription'[r] = subscription[r] \/ outstanding'[r] = {}
    BY <1>0, <2>1 DEF TypeOK
  <2> QED BY <1>0, <2>1, <2>2, OrderFrame DEF OrderInv
<1>13. ASSUME NEW p \in Transports,
              connect(p) \/ ensureSource(p) \/ handlerDefers(p) \/ handlerThrows(p) \/ close(p)
       PROVE  OrderInv'
  BY <1>2, <1>13
     DEF connect, ensureSource, Declare, BrokerEnsureTopic, handlerDefers, handlerThrows,
         close, brokerVars
<1>14. ASSUME NEW p \in Transports, NEW t \in Topics, NEW o,
              ensureForensic(p, t, o) \/ ensurePlain(p, t, o)
       PROVE  OrderInv'
  BY <1>2, <1>14
     DEF ensureForensic, ensurePlain, Declare, BrokerEnsureTopic, transportVars
<1>15. ASSUME fanoutDone \/ \E p \in Transports, t \in Topics, r \in Routes \cup {EmptyString} :
                              sendGrouped(p, t, r)
       PROVE  OrderInv'
  BY <1>2, <1>15 DEF fanoutDone, sendGrouped, transportVars
<1>16. ASSUME UNCHANGED vars PROVE OrderInv'
  BY <1>2, <1>16 DEF vars, brokerVars, transportVars
<1> QED
  BY <1>4, <1>5, <1>6, <1>7, <1>8, <1>9, <1>10, <1>11, <1>12, <1>13, <1>14, <1>15, <1>16
  DEF Next

(* With any number of competing consumers, throws, requeues, deferrals,    *)
(* evictions and restarts, what was returned precedes what is fresh, and   *)
(* what is fresh is in publish order behind everything taken before it.    *)
THEOREM ReturnedPrecedesFresh == Spec => []FreshBehindReturned
<1>1. OrderInv => FreshBehindReturned
  BY DEF OrderInv, FreshBehindReturned, Ordered, HeldFrom
<1> QED BY <1>1, OrderInit, OrderNext, PTL DEF Spec

-----------------------------------------------------------------------------
(* The books of the broker: where the messages of a store b are when the   *)
(* threads have the messages hs in hand.                                   *)

ContentsOf(q) == {q[i] : i \in DOMAIN q}

At(b, t)     == ContentsOf(b.messages[t])
WaitingIn(b) == UNION {At(b, t) : t \in Names}
GoneIn(b)    == UNION {b.gone[f] : f \in Fates}
Entries(b, hs) == WaitingIn(b) \cup GoneIn(b) \cup hs

(* No number at two positions of the queues. *)
Distinct(b) ==
  \A t, u \in Names : \A i \in DOMAIN b.messages[t], j \in DOMAIN b.messages[u] :
    b.messages[t][i].sequence = b.messages[u][j].sequence => t = u /\ i = j

(* Every number given out is the number of exactly one message, in exactly *)
(* one of the three places.                                                *)
Sound(b, hs) ==
  /\ b \in Stores
  /\ hs \in SUBSET Held
  /\ Distinct(b)
  /\ \A m, n \in Entries(b, hs) : m.sequence = n.sequence => m = n
  /\ \A m \in WaitingIn(b) : m \notin GoneIn(b) /\ m \notin hs
  /\ \A m \in GoneIn(b) : m \notin hs
  /\ \A m \in Entries(b, hs) : m.sequence \in 1..b.sequence
  /\ \A s \in 1..b.sequence : \E m \in Entries(b, hs) : m.sequence = s

(* A message waits exactly when it is at some position of some queue. *)
LEMMA WaitingMember ==
  ASSUME NEW b, NEW m
  PROVE  m \in WaitingIn(b) <=> \E t \in Names : m \in At(b, t)
BY DEF WaitingIn

(* The places after recording a fate. *)
LEMMA GonePlaces ==
  ASSUME NEW b \in Stores, NEW f \in Fates, NEW m \in Held
  PROVE  /\ WaitingIn(Gone(b, f, m)) = WaitingIn(b)
         /\ GoneIn(Gone(b, f, m)) = GoneIn(b) \cup {m}
<1> DEFINE c == Gone(b, f, m)
<1>1. c.messages = b.messages
  BY GoneShape
<1>2. c.gone = [b.gone EXCEPT ![f] = @ \cup {m}] /\ b.gone \in [Fates -> SUBSET Held]
  BY DEF Gone, Stores
<1> HIDE DEF c
<1>3. GoneIn(c) = GoneIn(b) \cup {m}
  BY <1>2 DEF GoneIn
<1>4. WaitingIn(c) = WaitingIn(b)
  BY <1>1 DEF WaitingIn, At
<1> QED BY <1>3, <1>4 DEF c

(* The contents of a queue after push_back. *)
LEMMA AppendContents ==
  ASSUME NEW q \in Seq(Held), NEW m \in Held
  PROVE  ContentsOf(Append(q, m)) = ContentsOf(q) \cup {m}
<1>1. /\ Len(q) \in Nat /\ DOMAIN q = 1..Len(q)
      /\ DOMAIN Append(q, m) = 1..(Len(q) + 1)
      /\ \A i \in DOMAIN q : Append(q, m)[i] = q[i]
      /\ Append(q, m)[Len(q) + 1] = m
  OBVIOUS
<1>2. /\ Len(q) + 1 \in DOMAIN Append(q, m)
      /\ \A i \in DOMAIN q : i \in DOMAIN Append(q, m)
      /\ \A i \in DOMAIN Append(q, m) : i \in DOMAIN q \/ i = Len(q) + 1
  BY <1>1
<1> QED BY <1>1, <1>2 DEF ContentsOf

(* The contents of a queue after pop_front. *)
LEMMA TailContents ==
  ASSUME NEW q \in Seq(Held), q # <<>>
  PROVE  ContentsOf(q) = ContentsOf(Tail(q)) \cup {Head(q)}
<1>1. /\ Len(q) \in Nat \ {0} /\ DOMAIN q = 1..Len(q)
      /\ DOMAIN Tail(q) = 1..(Len(q) - 1)
      /\ \A i \in DOMAIN Tail(q) : Tail(q)[i] = q[i + 1]
      /\ Head(q) = q[1]
  OBVIOUS
<1>2. /\ 1 \in DOMAIN q
      /\ \A i \in DOMAIN Tail(q) : i + 1 \in DOMAIN q
      /\ \A i \in DOMAIN q : i = 1 \/ (i - 1 \in DOMAIN Tail(q) /\ q[i] = Tail(q)[i - 1])
  <2>1. \A i \in DOMAIN q : i # 1 => i - 1 \in DOMAIN Tail(q) /\ (i - 1) + 1 = i
    BY <1>1
  <2> QED BY <1>1, <2>1
<1> DEFINE r == Tail(q)
           h == Head(q)
<1>3. /\ 1 \in DOMAIN q /\ q[1] = h
      /\ \A i \in DOMAIN r : i + 1 \in DOMAIN q /\ r[i] = q[i + 1]
      /\ \A i \in DOMAIN q : i = 1 \/ (i - 1 \in DOMAIN r /\ q[i] = r[i - 1])
  BY <1>1, <1>2
<1> HIDE DEF r, h
<1>4. ContentsOf(q) = ContentsOf(r) \cup {h}
  BY <1>3 DEF ContentsOf
<1> QED BY <1>4 DEF r, h

(* The contents of a queue after push_front. *)
LEMMA ConsContents ==
  ASSUME NEW q \in Seq(Held), NEW m \in Held
  PROVE  ContentsOf(<<m>> \o q) = ContentsOf(q) \cup {m}
<1> DEFINE r == <<m>> \o q
<1>1. /\ Len(q) \in Nat /\ DOMAIN q = 1..Len(q) /\ DOMAIN r = 1..(Len(q) + 1)
      /\ \A i \in DOMAIN q : r[i + 1] = q[i]
      /\ r[1] = m
  OBVIOUS
<1>2. /\ 1 \in DOMAIN r
      /\ \A i \in DOMAIN q : i + 1 \in DOMAIN r
      /\ \A i \in DOMAIN r : i = 1 \/ (i - 1 \in DOMAIN q /\ r[i] = q[i - 1])
  <2> HIDE DEF r
  <2>1. \A i \in DOMAIN r : i # 1 => i - 1 \in DOMAIN q /\ (i - 1) + 1 = i
    BY <1>1
  <2> QED BY <1>1, <2>1
<1> HIDE DEF r
<1>3. ContentsOf(r) = ContentsOf(q) \cup {m}
  BY <1>1, <1>2 DEF ContentsOf
<1> QED BY <1>3 DEF r

(* The places after push_back. *)
LEMMA PushBackPlaces ==
  ASSUME NEW b \in Stores, NEW t \in Names, NEW m \in Held
  PROVE  /\ WaitingIn(PushBack(b, t, m)) = WaitingIn(b) \cup {m}
         /\ GoneIn(PushBack(b, t, m)) = GoneIn(b)
<1> DEFINE c == PushBack(b, t, m)
<1>1. b.messages[t] \in Seq(Held)
  BY DEF Stores
<1>2. /\ c.gone = b.gone
      /\ c.messages[t] = Append(b.messages[t], m)
      /\ \A u \in Names : u # t => c.messages[u] = b.messages[u]
  BY PushBackShape DEF PushBack, Stores
<1> HIDE DEF c
<1>3. At(c, t) = At(b, t) \cup {m}
  BY <1>1, <1>2, AppendContents DEF At
<1>4. GoneIn(c) = GoneIn(b)
  BY <1>2 DEF GoneIn
<1>7. \A u \in Names : u # t => At(c, u) = At(b, u)
  BY <1>2 DEF At
<1>5. WaitingIn(c) = WaitingIn(b) \cup {m}
  BY <1>3, <1>7, WaitingMember
<1> QED BY <1>4, <1>5 DEF c

(* The places after pop_front. *)
LEMMA PopFrontPlaces ==
  ASSUME NEW b \in Stores, NEW t \in Names, b.messages[t] # <<>>
  PROVE  /\ WaitingIn(b) = WaitingIn(PopFront(b, t)) \cup {Head(b.messages[t])}
         /\ GoneIn(PopFront(b, t)) = GoneIn(b)
<1> DEFINE c == PopFront(b, t)
           h == Head(b.messages[t])
<1>1. b.messages[t] \in Seq(Held)
  BY DEF Stores
<1>2. /\ c.gone = b.gone
      /\ c.messages[t] = Tail(b.messages[t])
      /\ \A u \in Names : u # t => b.messages[u] = c.messages[u]
  BY PopFrontShape DEF PopFront, Stores
<1>6. At(b, t) = ContentsOf(Tail(b.messages[t])) \cup {h}
  BY <1>1, TailContents DEF At
<1> HIDE DEF c, h
<1>3. At(b, t) = At(c, t) \cup {h}
  BY <1>2, <1>6 DEF At
<1>4. GoneIn(c) = GoneIn(b)
  BY <1>2 DEF GoneIn
<1>7. \A u \in Names : u # t => At(c, u) = At(b, u)
  BY <1>2 DEF At
<1>5. WaitingIn(b) = WaitingIn(c) \cup {h}
  BY <1>3, <1>7, WaitingMember
<1> QED BY <1>4, <1>5 DEF c, h

(* The queues after push_front. *)
LEMMA RequeueShape ==
  ASSUME NEW b \in Stores, NEW t \in Names, NEW m \in Held
  PROVE  LET v == [m EXCEPT !.redelivered = TRUE]
             c == requeue(b, t, m)
         IN  /\ c.sequence = b.sequence /\ c.gone = b.gone
             /\ c.messages[t] = <<v>> \o b.messages[t]
             /\ \A u \in Names : u # t => c.messages[u] = b.messages[u]
BY DEF requeue, Stores

(* The places after push_front. *)
LEMMA RequeuePlaces ==
  ASSUME NEW b \in Stores, NEW t \in Names, NEW m \in Held
  PROVE  /\ WaitingIn(requeue(b, t, m)) = WaitingIn(b) \cup {[m EXCEPT !.redelivered = TRUE]}
         /\ GoneIn(requeue(b, t, m)) = GoneIn(b)
<1> DEFINE v == [m EXCEPT !.redelivered = TRUE]
           c == requeue(b, t, m)
<1>1. b.messages[t] \in Seq(Held) /\ v \in Held
  BY DEF Stores, Held
<1>2. /\ c.gone = b.gone /\ c.messages[t] = <<v>> \o b.messages[t]
      /\ \A u \in Names : u # t => c.messages[u] = b.messages[u]
  BY RequeueShape
<1> HIDE DEF c, v
<1>3. At(c, t) = At(b, t) \cup {v}
  BY <1>1, <1>2, ConsContents DEF At
<1>4. GoneIn(c) = GoneIn(b)
  BY <1>2 DEF GoneIn
<1>7. \A u \in Names : u # t => At(c, u) = At(b, u)
  BY <1>2 DEF At
<1>5. WaitingIn(c) = WaitingIn(b) \cup {v}
  BY <1>3, <1>7, WaitingMember
<1> QED BY <1>4, <1>5 DEF c, v

(* What is at a position waits. *)
LEMMA PositionWaits ==
  ASSUME NEW b, NEW t \in Names, NEW i \in DOMAIN b.messages[t]
  PROVE  b.messages[t][i] \in WaitingIn(b)
<1>1. b.messages[t][i] \in At(b, t)
  BY DEF At, ContentsOf
<1> QED BY <1>1, WaitingMember

(* push_back of a message whose number waits nowhere. *)
LEMMA DistinctPushBack ==
  ASSUME NEW b \in Stores, NEW t \in Names, NEW m \in Held, Distinct(b),
         \A w \in WaitingIn(b) : w.sequence # m.sequence
  PROVE  Distinct(PushBack(b, t, m))
<1> DEFINE c == PushBack(b, t, m)
           q == b.messages[t]
<1>1. /\ q \in Seq(Held) /\ c.messages[t] = Append(q, m)
      /\ \A u \in Names : u # t => c.messages[u] = b.messages[u]
  BY PushBackShape DEF Stores
<1>2. /\ Len(q) \in Nat /\ DOMAIN q = 1..Len(q) /\ DOMAIN Append(q, m) = 1..(Len(q) + 1)
      /\ \A i \in DOMAIN q : Append(q, m)[i] = q[i]
      /\ Append(q, m)[Len(q) + 1] = m
  BY <1>1
<1> HIDE DEF c
<1>3. ASSUME NEW u \in Names, NEW i \in DOMAIN c.messages[u]
      PROVE  \/ u = t /\ i = Len(q) + 1 /\ c.messages[u][i] = m
             \/ /\ i \in DOMAIN b.messages[u] /\ c.messages[u][i] = b.messages[u][i]
                /\ c.messages[u][i].sequence # m.sequence
  <2>1. \/ u = t /\ i = Len(q) + 1 /\ c.messages[u][i] = m
        \/ i \in DOMAIN b.messages[u] /\ c.messages[u][i] = b.messages[u][i]
    BY <1>1, <1>2
  <2> QED BY <2>1, PositionWaits
<1>4. Distinct(c)
  BY <1>3 DEF Distinct
<1> QED BY <1>4 DEF c

(* push_front of a message whose number waits nowhere. *)
LEMMA DistinctRequeue ==
  ASSUME NEW b \in Stores, NEW t \in Names, NEW m \in Held, Distinct(b),
         \A w \in WaitingIn(b) : w.sequence # m.sequence
  PROVE  Distinct(requeue(b, t, m))
<1> DEFINE c == requeue(b, t, m)
           q == b.messages[t]
           v == [m EXCEPT !.redelivered = TRUE]
           r == <<v>> \o q
<1>0. v \in Held /\ v.sequence = m.sequence
  BY DEF Held
<1>1. /\ q \in Seq(Held) /\ c.messages[t] = r
      /\ \A u \in Names : u # t => c.messages[u] = b.messages[u]
  BY RequeueShape DEF Stores
<1> HIDE DEF c, v
<1>2. /\ Len(q) \in Nat /\ DOMAIN q = 1..Len(q) /\ DOMAIN r = 1..(Len(q) + 1)
      /\ \A i \in DOMAIN q : r[i + 1] = q[i]
      /\ r[1] = v
  BY <1>0, <1>1
<1> HIDE DEF r
<1>5. \A i \in DOMAIN r : i # 1 => i - 1 \in DOMAIN q /\ r[i] = q[i - 1]
  BY <1>2
<1>3. ASSUME NEW u \in Names, NEW i \in DOMAIN c.messages[u]
      PROVE  \/ u = t /\ i = 1 /\ c.messages[u][i].sequence = m.sequence
             \/ /\ u = t /\ i \in Nat /\ i - 1 \in DOMAIN b.messages[u]
                /\ c.messages[u][i] = b.messages[u][i - 1]
                /\ c.messages[u][i].sequence # m.sequence
             \/ /\ u # t /\ i \in DOMAIN b.messages[u]
                /\ c.messages[u][i] = b.messages[u][i]
                /\ c.messages[u][i].sequence # m.sequence
  <2>1. CASE u = t /\ i = 1
    BY <1>0, <1>1, <1>2, <2>1
  <2>2. CASE u = t /\ i # 1
    <3>1. i \in Nat /\ i - 1 \in DOMAIN b.messages[u] /\ c.messages[u][i] = b.messages[u][i - 1]
      BY <1>1, <1>2, <1>5, <2>2
    <3> QED BY <2>2, <3>1, PositionWaits
  <2>3. CASE u # t
    BY <1>1, <2>3, PositionWaits
  <2> QED BY <2>1, <2>2, <2>3
<1>4. Distinct(c)
  BY <1>3 DEF Distinct
<1> QED BY <1>4 DEF c

(* pop_front leaves the numbers distinct, and the head's nowhere. *)
LEMMA DistinctPopFront ==
  ASSUME NEW b \in Stores, NEW t \in Names, Distinct(b), b.messages[t] # <<>>
  PROVE  /\ Distinct(PopFront(b, t))
         /\ \A w \in WaitingIn(PopFront(b, t)) : w.sequence # Head(b.messages[t]).sequence
<1> DEFINE c == PopFront(b, t)
           q == b.messages[t]
           r == Tail(q)
<1>1. /\ q \in Seq(Held) /\ c.messages[t] = r
      /\ \A u \in Names : u # t => c.messages[u] = b.messages[u]
  BY PopFrontShape DEF Stores
<1>2. /\ Len(q) \in Nat \ {0} /\ DOMAIN q = 1..Len(q) /\ DOMAIN r = 1..(Len(q) - 1)
      /\ \A i \in DOMAIN r : r[i] = q[i + 1] /\ i + 1 \in DOMAIN q
      /\ Head(q) = q[1] /\ 1 \in DOMAIN q
  BY <1>1
<1> HIDE DEF c, r
<1>3. ASSUME NEW u \in Names, NEW i \in DOMAIN c.messages[u]
      PROVE  \/ /\ u = t /\ i \in Nat \ {0} /\ i + 1 \in DOMAIN b.messages[u]
                /\ c.messages[u][i] = b.messages[u][i + 1]
             \/ /\ u # t /\ i \in DOMAIN b.messages[u]
                /\ c.messages[u][i] = b.messages[u][i]
  <2>1. CASE u = t
    <3>1. i \in DOMAIN r /\ c.messages[u][i] = r[i] /\ q = b.messages[u]
      BY <1>1, <2>1
    <3>2. i \in Nat \ {0} /\ i + 1 \in DOMAIN q /\ r[i] = q[i + 1]
      BY <1>2, <3>1
    <3> QED BY <2>1, <3>1, <3>2
  <2>2. CASE u # t
    BY <1>1, <2>2
  <2> QED BY <2>1, <2>2
<1>4. Distinct(c)
  <2> SUFFICES ASSUME NEW u \in Names, NEW x \in Names,
                      NEW i \in DOMAIN c.messages[u], NEW j \in DOMAIN c.messages[x],
                      c.messages[u][i].sequence = c.messages[x][j].sequence
               PROVE  u = x /\ i = j
    BY DEF Distinct
  <2>1. CASE u = t /\ x = t
    <3>1. /\ i \in Nat /\ j \in Nat /\ i + 1 \in DOMAIN b.messages[t]
          /\ j + 1 \in DOMAIN b.messages[t]
          /\ b.messages[t][i + 1].sequence = b.messages[t][j + 1].sequence
      BY <1>3, <2>1
    <3>2. i + 1 = j + 1
      BY <3>1 DEF Distinct
    <3> QED BY <2>1, <3>1, <3>2
  <2>2. CASE ~(u = t /\ x = t)
    BY <1>3, <2>2 DEF Distinct
  <2> QED BY <2>1, <2>2
<1>5. ASSUME NEW u \in Names, NEW i \in DOMAIN c.messages[u]
      PROVE  c.messages[u][i].sequence # Head(q).sequence
  <2>1. CASE u = t
    <3>1. /\ i \in Nat \ {0} /\ i + 1 # 1 /\ i + 1 \in DOMAIN b.messages[t]
          /\ c.messages[u][i] = b.messages[t][i + 1]
      BY <1>3, <2>1
    <3> QED BY <1>2, <3>1 DEF Distinct
  <2>2. CASE u # t
    BY <1>2, <1>3, <2>2 DEF Distinct
  <2> QED BY <2>1, <2>2
<1>6. \A w \in WaitingIn(c) : w.sequence # Head(q).sequence
  BY <1>5, WaitingMember DEF At, ContentsOf
<1> QED BY <1>4, <1>6 DEF c

-----------------------------------------------------------------------------
(* What an operation on the books may do: from b with hs in hand to c with *)
(* is in hand.  No entry disappears or changes, what has ended stays so,   *)
(* and what gets a new number is not flagged.                              *)

Moved(b, hs, c, is) ==
  /\ Sound(c, is)
  /\ b.sequence <= c.sequence
  /\ Entries(b, hs) \subseteq Entries(c, is)
  /\ GoneIn(b) \subseteq GoneIn(c)
  /\ \A m \in Entries(c, is) : m.sequence > b.sequence => ~m.redelivered

(* What the books hold are messages, with numbers. *)
LEMMA EntriesHeld ==
  ASSUME NEW b, NEW hs, Sound(b, hs)
  PROVE  /\ b \in Stores /\ b.sequence \in Nat
         /\ \A m \in Entries(b, hs) : m \in Held /\ m.sequence \in Nat
         /\ WaitingIn(b) \subseteq Entries(b, hs)
         /\ GoneIn(b) \subseteq Entries(b, hs)
         /\ hs \subseteq Entries(b, hs)
<1>1. b \in Stores /\ hs \in SUBSET Held
  BY DEF Sound
<1>2. b.messages \in [Names -> Seq(Held)] /\ b.gone \in [Fates -> SUBSET Held]
  BY <1>1 DEF Stores
<1>3. \A t \in Names : At(b, t) \subseteq Held
  BY <1>2, NumbersAreNumbers DEF At, ContentsOf
<1>4. WaitingIn(b) \subseteq Held
  BY <1>3, WaitingMember
<1>5. GoneIn(b) \subseteq Held
  BY <1>2 DEF GoneIn
<1>6. \A m \in Held : m.sequence \in Nat
  BY DEF Held
<1> QED BY <1>1, <1>4, <1>5, <1>6 DEF Entries, Stores

(* A number in hand is neither waiting nor gone, and in hand once. *)
LEMMA InHandOnly ==
  ASSUME NEW b, NEW hs, Sound(b, hs), NEW m \in hs
  PROVE  /\ m \in Held
         /\ \A w \in WaitingIn(b) \cup GoneIn(b) \cup (hs \ {m}) : w.sequence # m.sequence
BY EntriesHeld DEF Sound, Entries

(* Two operations in a row. *)
LEMMA MovedTwice ==
  ASSUME NEW b, NEW hs, NEW c, NEW is, NEW d, NEW js,
         Sound(b, hs), Moved(b, hs, c, is), Moved(c, is, d, js)
  PROVE  Moved(b, hs, d, js)
<1>1. /\ b.sequence \in Nat /\ c.sequence \in Nat /\ d.sequence \in Nat
      /\ Sound(c, is) /\ Sound(d, js)
  BY EntriesHeld DEF Moved
<1>2. ASSUME NEW m \in Entries(d, js), m.sequence > b.sequence
      PROVE  ~m.redelivered
  <2>1. CASE m.sequence > c.sequence
    BY <2>1 DEF Moved
  <2>2. CASE ~(m.sequence > c.sequence)
    <3>1. m.sequence \in 1..c.sequence
      BY <1>1, <2>2, EntriesHeld DEF Sound
    <3>2. PICK k \in Entries(c, is) : k.sequence = m.sequence
      BY <1>1, <3>1 DEF Sound
    <3>3. k = m
      BY <1>1, <3>2 DEF Moved, Sound
    <3> QED BY <1>2, <3>2, <3>3 DEF Moved
  <2> QED BY <2>1, <2>2
<1> QED BY <1>1, <1>2 DEF Moved

(* Nothing in hand changes places by doing nothing. *)
LEMMA MovedSame ==
  ASSUME NEW b, NEW hs, Sound(b, hs)
  PROVE  Moved(b, hs, b, hs)
<1>1. b.sequence \in Nat /\ \A m \in Entries(b, hs) : m.sequence \in 1..b.sequence
  BY EntriesHeld DEF Sound
<1> QED BY <1>1 DEF Moved

(* An operation that moves entries between the places and nothing else. *)
LEMMA MovedAround ==
  ASSUME NEW b, NEW hs, NEW c \in Stores, NEW is \in SUBSET Held, Sound(b, hs),
         c.sequence = b.sequence,
         Distinct(c),
         Entries(c, is) = Entries(b, hs),
         GoneIn(b) \subseteq GoneIn(c),
         \A m \in WaitingIn(c) : m \notin GoneIn(c) /\ m \notin is,
         \A m \in GoneIn(c) : m \notin is
  PROVE  Moved(b, hs, c, is)
<1>1. /\ b.sequence \in Nat
      /\ \A m \in Entries(b, hs) : m.sequence \in 1..b.sequence
      /\ \A s \in 1..b.sequence : \E m \in Entries(b, hs) : m.sequence = s
      /\ \A m, n \in Entries(b, hs) : m.sequence = n.sequence => m = n
  BY EntriesHeld DEF Sound
<1>2. Sound(c, is)
  BY <1>1 DEF Sound
<1> QED BY <1>1, <1>2 DEF Moved

(* A message in hand meets its fate. *)
LEMMA MovedGone ==
  ASSUME NEW b, NEW hs, Sound(b, hs), NEW m \in hs, NEW f \in Fates
  PROVE  Moved(b, hs, Gone(b, f, m), hs \ {m})
<1> DEFINE c == Gone(b, f, m)
<1>1. b \in Stores /\ m \in Held /\ hs \in SUBSET Held
  BY EntriesHeld, InHandOnly DEF Sound
<1>2. c \in Stores /\ c.messages = b.messages /\ c.sequence = b.sequence
  BY <1>1, GoneType, GoneShape
<1>3. WaitingIn(c) = WaitingIn(b) /\ GoneIn(c) = GoneIn(b) \cup {m}
  BY <1>1, GonePlaces
<1> HIDE DEF c
<1>4. Distinct(c)
  BY <1>2 DEF Sound, Distinct
<1>5. Entries(c, hs \ {m}) = Entries(b, hs)
  BY <1>3 DEF Entries
<1>6. /\ \A w \in WaitingIn(c) : w \notin GoneIn(c) /\ w \notin (hs \ {m})
      /\ \A w \in GoneIn(c) : w \notin (hs \ {m})
  BY <1>3 DEF Sound
<1>7. Moved(b, hs, c, hs \ {m})
  BY <1>1, <1>2, <1>3, <1>4, <1>5, <1>6, MovedAround
<1> QED BY <1>7 DEF c

(* A message in hand is pushed to the back of a queue. *)
LEMMA MovedPushBack ==
  ASSUME NEW b, NEW hs, Sound(b, hs), NEW m \in hs, NEW t \in Names
  PROVE  Moved(b, hs, PushBack(b, t, m), hs \ {m})
<1> DEFINE c == PushBack(b, t, m)
<1>1. b \in Stores /\ m \in Held /\ hs \in SUBSET Held
  BY EntriesHeld, InHandOnly DEF Sound
<1>2. c \in Stores /\ c.sequence = b.sequence
  BY <1>1, PushBackType, PushBackShape
<1>3. WaitingIn(c) = WaitingIn(b) \cup {m} /\ GoneIn(c) = GoneIn(b)
  BY <1>1, PushBackPlaces
<1>4. Distinct(c)
  BY <1>1, InHandOnly, DistinctPushBack DEF Sound
<1> HIDE DEF c
<1>5. Entries(c, hs \ {m}) = Entries(b, hs)
  BY <1>3 DEF Entries
<1>6. /\ \A w \in WaitingIn(c) : w \notin GoneIn(c) /\ w \notin (hs \ {m})
      /\ \A w \in GoneIn(c) : w \notin (hs \ {m})
  BY <1>3 DEF Sound
<1>7. Moved(b, hs, c, hs \ {m})
  BY <1>1, <1>2, <1>3, <1>4, <1>5, <1>6, MovedAround
<1> QED BY <1>7 DEF c

(* The head of a queue is taken in hand. *)
LEMMA MovedPopFront ==
  ASSUME NEW b, NEW hs, Sound(b, hs), NEW t \in Names, b.messages[t] # <<>>
  PROVE  /\ Moved(b, hs, PopFront(b, t), hs \cup {Head(b.messages[t])})
         /\ Head(b.messages[t]) \in WaitingIn(b)
         /\ Head(b.messages[t]) \notin hs
<1> DEFINE c == PopFront(b, t)
           h == Head(b.messages[t])
<1>1. b \in Stores /\ hs \in SUBSET Held /\ Distinct(b)
  BY DEF Sound
<1>2. c \in Stores /\ c.sequence = b.sequence /\ h \in Held
  BY <1>1, PopFrontType, PopFrontShape
<1>3. WaitingIn(b) = WaitingIn(c) \cup {h} /\ GoneIn(c) = GoneIn(b)
  BY <1>1, PopFrontPlaces
<1>4. Distinct(c) /\ \A w \in WaitingIn(c) : w.sequence # h.sequence
  BY <1>1, DistinctPopFront
<1> HIDE DEF c, h
<1>5. Entries(c, hs \cup {h}) = Entries(b, hs)
  BY <1>3 DEF Entries
<1>6. /\ \A w \in WaitingIn(c) : w \notin GoneIn(c) /\ w \notin (hs \cup {h})
      /\ \A w \in GoneIn(c) : w \notin (hs \cup {h})
  BY <1>3, <1>4 DEF Sound
<1>7. Moved(b, hs, c, hs \cup {h})
  BY <1>1, <1>2, <1>3, <1>4, <1>5, <1>6, MovedAround
<1>8. h \in WaitingIn(b) /\ h \notin hs
  BY <1>3 DEF Sound
<1> QED BY <1>7, <1>8 DEF c, h

(* A new number is given to a message in hand. *)
LEMMA MovedNumber ==
  ASSUME NEW b, NEW hs, Sound(b, hs), NEW m \in Held,
         m.sequence = b.sequence + 1, ~m.redelivered
  PROVE  /\ Moved(b, hs, [b EXCEPT !.sequence = b.sequence + 1], hs \cup {m})
         /\ m \notin hs
<1> DEFINE n == b.sequence + 1
           c == [b EXCEPT !.sequence = n]
<1>1. b \in Stores /\ hs \in SUBSET Held /\ b.sequence \in Nat /\ n \in Nat
  BY EntriesHeld DEF Sound
<1>2. c \in Stores /\ c.sequence = n /\ c.messages = b.messages /\ c.gone = b.gone
  <2> HIDE DEF n
  <2> QED BY <1>1 DEF Stores
<1> HIDE DEF c
<1>3. WaitingIn(c) = WaitingIn(b) /\ GoneIn(c) = GoneIn(b)
  BY <1>2 DEF WaitingIn, At, GoneIn
<1>4. Distinct(c)
  BY <1>2 DEF Sound, Distinct
<1>5. Entries(c, hs \cup {m}) = Entries(b, hs) \cup {m}
  BY <1>3 DEF Entries
<1>6. \A w \in Entries(b, hs) : w.sequence \in Nat /\ w.sequence <= b.sequence /\ 1 <= w.sequence
  BY <1>1 DEF Sound
<1>7. \A w \in Entries(b, hs) : w.sequence # m.sequence /\ w # m
  BY <1>1, <1>6
<1>8. /\ \A w \in WaitingIn(c) : w \notin GoneIn(c) /\ w \notin (hs \cup {m})
      /\ \A w \in GoneIn(c) : w \notin (hs \cup {m})
      /\ m \notin hs
  BY <1>3, <1>7, EntriesHeld DEF Sound
<1>9. \A w \in Entries(c, hs \cup {m}) : w.sequence \in 1..c.sequence
  BY <1>1, <1>2, <1>5, <1>6
<1>10. \A s \in 1..c.sequence : \E w \in Entries(c, hs \cup {m}) : w.sequence = s
  <2>1. ASSUME NEW s \in 1..c.sequence PROVE s \in 1..b.sequence \/ s = m.sequence
    BY <1>1, <1>2, <2>1
  <2>2. \A s \in 1..b.sequence : \E w \in Entries(b, hs) : w.sequence = s
    BY DEF Sound
  <2> QED BY <1>5, <2>1, <2>2
<1>11. \A w, x \in Entries(c, hs \cup {m}) : w.sequence = x.sequence => w = x
  BY <1>5, <1>7 DEF Sound
<1>12. Sound(c, hs \cup {m})
  BY <1>1, <1>2, <1>4, <1>8, <1>9, <1>10, <1>11 DEF Sound
<1>13. \A w \in Entries(c, hs \cup {m}) : w.sequence > b.sequence => ~w.redelivered
  BY <1>1, <1>5, <1>6
<1>14. Moved(b, hs, c, hs \cup {m})
  <2>1. b.sequence <= c.sequence
    BY <1>1, <1>2
  <2> QED BY <1>3, <1>5, <1>12, <1>13, <2>1 DEF Moved
<1> QED BY <1>8, <1>14 DEF c

-----------------------------------------------------------------------------
(* The broker's operations keep the books.                                 *)

(* Enqueueing at a forensic destination. *)
LEMMA MovedForensic ==
  ASSUME TypeOK, NEW b, NEW hs, Sound(b, hs), NEW m \in hs, NEW t \in Names
  PROVE  Moved(b, hs, enqueueForensic(b, t, m), hs \ {m})
<1> DEFINE c == enqueueForensic(b, t, m)
           h == Head(b.messages[t])
           d == PopFront(b, t)
           e == Gone(d, "dropped", h)
<1>0. b \in Stores /\ m \in Held /\ options[t].overflow \in OverflowPolicy
  BY EntriesHeld, InHandOnly DEF TypeOK, TopicOptions
<1>1. \/ c = PushBack(b, t, m)
      \/ c = Gone(b, "refused", m)
      \/ c = Gone(b, "dropped", m)
      \/ Full(b, t) /\ c \in {Gone(e, "lost", m), PushBack(e, t, m)}
  BY <1>0 DEF enqueueForensic, EnqueueWith, Discard, OverflowPolicy
<1>2. ASSUME Full(b, t) PROVE Moved(b, hs, e, hs) /\ Sound(e, hs)
  <2>1. b.messages[t] # <<>>
    BY <1>0, <1>2, FullHasHead
  <2>2. Moved(b, hs, d, hs \cup {h}) /\ h \notin hs
    BY <2>1, MovedPopFront
  <2>3. Sound(d, hs \cup {h})
    BY <2>2 DEF Moved
  <2>4. Moved(d, hs \cup {h}, e, (hs \cup {h}) \ {h})
    BY <2>3, MovedGone DEF Fates
  <2>5. (hs \cup {h}) \ {h} = hs
    BY <2>2
  <2> HIDE DEF d, e, h
  <2>6. Moved(d, hs \cup {h}, e, hs)
    BY <2>4, <2>5
  <2>7. Moved(b, hs, e, hs)
    BY <2>2, <2>6, MovedTwice
  <2> QED BY <2>7 DEF Moved
<1> HIDE DEF c, d, e, h
<1>3. CASE c = PushBack(b, t, m)
  BY <1>3, MovedPushBack DEF c
<1>4. CASE c = Gone(b, "refused", m) \/ c = Gone(b, "dropped", m)
  BY <1>4, MovedGone DEF c, Fates
<1>5. CASE Full(b, t) /\ c \in {Gone(e, "lost", m), PushBack(e, t, m)}
  <2>1. Moved(e, hs, c, hs \ {m})
    BY <1>2, <1>5, MovedGone, MovedPushBack DEF Fates
  <2> QED BY <1>2, <1>5, <2>1, MovedTwice DEF c
<1> QED BY <1>1, <1>3, <1>4, <1>5

(* Dead-lettering: the message ends, and what replaces it is new. *)
LEMMA MovedDeadLetter ==
  ASSUME TypeOK, NEW b, NEW hs, Sound(b, hs), NEW m \in hs, NEW t
  PROVE  /\ Moved(b, hs, deadLetterLocked(b, t, m), hs \ {m})
         /\ m \in GoneIn(deadLetterLocked(b, t, m))
<1> DEFINE n == b.sequence + 1
           d == Gone(b, "dead", m)
           a == [d EXCEPT !.sequence = n]
           v == [m EXCEPT !.sequence = n, !.redelivered = FALSE]
           c == deadLetterLocked(b, t, m)
           f == deadLetterTopic(t)
<1>0. b \in Stores /\ m \in Held /\ b.sequence \in Nat /\ n \in Nat
  BY EntriesHeld, InHandOnly
<1>1. CASE t \notin topics \/ ~options[t].deadLetter \/ Unprovisioned(t)
  <2>1. c = Gone(b, "dropped", m) \/ c = Gone(b, "lost", m)
    BY <1>1 DEF deadLetterLocked
  <2> HIDE DEF c
  <2>2. Moved(b, hs, c, hs \ {m}) /\ m \in GoneIn(c)
    BY <1>0, <2>1, MovedGone, GonePlaces DEF Fates
  <2> QED BY <2>2 DEF c
<1>2. CASE ~(t \notin topics \/ ~options[t].deadLetter \/ Unprovisioned(t))
  <2>1. f \in Names
    BY <1>2 DEF Unprovisioned, TypeOK
  <2>2. c = enqueueForensic(a, f, v)
    BY <1>2 DEF deadLetterLocked
  <2>3. Moved(b, hs, d, hs \ {m}) /\ m \in GoneIn(d) /\ d.sequence = b.sequence
    BY <1>0, MovedGone, GonePlaces, GoneShape DEF Fates
  <2>4. v \in Held /\ v.sequence = n /\ v.redelivered = FALSE
    <3>1. v \in Held
      BY <1>0 DEF Held
    <3>2. v.sequence = n /\ v.redelivered = FALSE
      BY <1>0 DEF Held
    <3> QED BY <3>1, <3>2
  <2> HIDE DEF d, c, f, v
  <2>5. Sound(d, hs \ {m}) /\ v.sequence = d.sequence + 1 /\ ~v.redelivered
    BY <2>3, <2>4 DEF Moved
  <2>6. /\ Moved(d, hs \ {m}, a, (hs \ {m}) \cup {v})
        /\ v \notin hs \ {m}
    BY <2>3, <2>4, <2>5, MovedNumber
  <2> HIDE DEF a
  <2>7. Sound(a, (hs \ {m}) \cup {v})
    BY <2>6 DEF Moved
  <2>8. Moved(a, (hs \ {m}) \cup {v}, c, ((hs \ {m}) \cup {v}) \ {v})
    BY <2>1, <2>2, <2>7, MovedForensic
  <2>9. ((hs \ {m}) \cup {v}) \ {v} = hs \ {m}
    BY <2>6
  <2>10. Moved(a, (hs \ {m}) \cup {v}, c, hs \ {m})
    BY <2>8, <2>9
  <2>11. Moved(d, hs \ {m}, c, hs \ {m})
    BY <2>5, <2>6, <2>10, MovedTwice
  <2>12. Moved(b, hs, c, hs \ {m})
    BY <2>3, <2>11, MovedTwice
  <2>13. m \in GoneIn(c)
    BY <2>3, <2>11 DEF Moved
  <2> QED BY <2>12, <2>13 DEF c
<1> QED BY <1>1, <1>2

(* Enqueueing at any destination. *)
LEMMA MovedEnqueue ==
  ASSUME TypeOK, NEW b, NEW hs, Sound(b, hs), NEW m \in hs, NEW t \in Names
  PROVE  Moved(b, hs, enqueueLocked(b, t, m), hs \ {m})
<1> DEFINE c == enqueueLocked(b, t, m)
           h == Head(b.messages[t])
           d == PopFront(b, t)
<1>0. b \in Stores /\ m \in Held /\ options[t].overflow \in OverflowPolicy
  BY EntriesHeld, InHandOnly DEF TypeOK, TopicOptions
<1>1. \/ c = PushBack(b, t, m)
      \/ c = Gone(b, "refused", m)
      \/ c = deadLetterLocked(b, t, m)
      \/ /\ Full(b, t)
         /\ \E e \in {deadLetterLocked(d, t, h), Gone(d, "dropped", h)} :
              c \in {Gone(e, "lost", m), PushBack(e, t, m)}
  BY <1>0 DEF enqueueLocked, EnqueueWith, OverflowPolicy
<1>2. ASSUME Full(b, t),
             NEW e \in {deadLetterLocked(d, t, h), Gone(d, "dropped", h)}
      PROVE  Moved(b, hs, e, hs) /\ Sound(e, hs)
  <2>1. b.messages[t] # <<>>
    BY <1>0, <1>2, FullHasHead
  <2>2. Moved(b, hs, d, hs \cup {h}) /\ h \notin hs
    BY <2>1, MovedPopFront
  <2>3. Sound(d, hs \cup {h})
    BY <2>2 DEF Moved
  <2> HIDE DEF d, h
  <2>4. Moved(d, hs \cup {h}, e, (hs \cup {h}) \ {h})
    BY <1>2, <2>3, MovedGone, MovedDeadLetter DEF Fates
  <2>5. (hs \cup {h}) \ {h} = hs
    BY <2>2
  <2>6. Moved(d, hs \cup {h}, e, hs)
    BY <2>4, <2>5
  <2>7. Moved(b, hs, e, hs)
    BY <2>2, <2>6, MovedTwice
  <2> QED BY <2>7 DEF Moved
<1> HIDE DEF c, d, h
<1>3. CASE c = PushBack(b, t, m)
  BY <1>3, MovedPushBack DEF c
<1>4. CASE c = Gone(b, "refused", m) \/ c = deadLetterLocked(b, t, m)
  BY <1>4, MovedGone, MovedDeadLetter DEF c, Fates
<1>5. ASSUME Full(b, t), NEW e \in {deadLetterLocked(d, t, h), Gone(d, "dropped", h)},
             c \in {Gone(e, "lost", m), PushBack(e, t, m)}
      PROVE  Moved(b, hs, c, hs \ {m})
  <2>1. Moved(b, hs, e, hs) /\ Sound(e, hs)
    BY <1>2, <1>5
  <2>2. Moved(e, hs, c, hs \ {m})
    BY <1>5, <2>1, MovedGone, MovedPushBack DEF Fates
  <2> QED BY <2>1, <2>2, MovedTwice
<1>6. Moved(b, hs, c, hs \ {m})
  BY <1>1, <1>3, <1>4, <1>5 DEF c
<1> QED BY <1>6 DEF c

(* A publish: nothing leaves the hands, and what is new is not in them. *)
LEMMA MovedPublish ==
  ASSUME TypeOK, NEW b, NEW hs, Sound(b, hs), NEW t \in Names, NEW body \in Nat
  PROVE  Moved(b, hs, EnqueueNew(b, t, body), hs)
<1> DEFINE n == b.sequence + 1
           a == [b EXCEPT !.sequence = n]
           m == [sequence |-> n, body |-> body, redelivered |-> FALSE]
           c == EnqueueNew(b, t, body)
<1>0. b.sequence \in Nat /\ n \in Nat
  BY EntriesHeld
<1>1. m \in Held /\ m.sequence = n /\ ~m.redelivered
  <2> HIDE DEF n
  <2> QED BY <1>0 DEF Held
<1>2. c = enqueueLocked(a, t, m)
  BY DEF EnqueueNew
<1> HIDE DEF m, c
<1>3. Moved(b, hs, a, hs \cup {m}) /\ m \notin hs
  BY <1>1, MovedNumber
<1> HIDE DEF a
<1>4. Sound(a, hs \cup {m})
  BY <1>3 DEF Moved
<1>5. Moved(a, hs \cup {m}, c, (hs \cup {m}) \ {m})
  BY <1>2, <1>4, MovedEnqueue
<1>6. (hs \cup {m}) \ {m} = hs
  BY <1>3
<1>7. Moved(a, hs \cup {m}, c, hs)
  BY <1>5, <1>6
<1>8. Moved(b, hs, c, hs)
  BY <1>3, <1>7, MovedTwice
<1> QED BY <1>8 DEF c

(* Emptying a queue: what waited there has ended. *)
LEMMA MovedPurge ==
  ASSUME NEW b, NEW hs, Sound(b, hs), NEW t \in Names
  PROVE  Moved(b, hs, purge(b, t), hs)
<1> DEFINE c == purge(b, t)
<1>1. b \in Stores /\ hs \in SUBSET Held
  BY DEF Sound
<1>2. /\ c \in Stores /\ c.sequence = b.sequence
      /\ c.messages = [b.messages EXCEPT ![t] = <<>>]
      /\ c.gone = [b.gone EXCEPT !["purged"] = @ \cup At(b, t)]
      /\ b.messages \in [Names -> Seq(Held)] /\ b.gone \in [Fates -> SUBSET Held]
  <2>1. c \in Stores
    BY <1>1, PurgeType
  <2> QED BY <1>1, <2>1 DEF purge, Stores, At, ContentsOf
<1> HIDE DEF c
<1>3. At(c, t) = {} /\ \A u \in Names : u # t => At(c, u) = At(b, u)
  BY <1>2 DEF At, ContentsOf
<1>4. GoneIn(c) = GoneIn(b) \cup At(b, t)
  BY <1>2 DEF GoneIn, Fates
<1>5. \A u \in Names : u # t => \A m \in At(b, u) : m \notin At(b, t)
  BY DEF Sound, Distinct, At, ContentsOf
<1>6. \A m : m \in WaitingIn(c) <=> m \in WaitingIn(b) /\ m \notin At(b, t)
  BY <1>3, <1>5, WaitingMember
<1>7. \A m \in At(b, t) : m \in WaitingIn(b)
  BY WaitingMember
<1>8. Distinct(c)
  <2>1. DOMAIN c.messages[t] = {} /\ \A u \in Names : u # t => c.messages[u] = b.messages[u]
    BY <1>2
  <2> QED BY <2>1 DEF Sound, Distinct
<1>9. Entries(c, hs) = Entries(b, hs)
  BY <1>4, <1>6, <1>7 DEF Entries
<1>10. /\ \A m \in WaitingIn(c) : m \notin GoneIn(c) /\ m \notin hs
       /\ \A m \in GoneIn(c) : m \notin hs
  BY <1>4, <1>6, <1>7 DEF Sound
<1>11. Moved(b, hs, c, hs)
  BY <1>1, <1>2, <1>4, <1>8, <1>9, <1>10, MovedAround
<1> QED BY <1>11 DEF c

(* A message in hand is put back in front of a queue, flagged. *)
LEMMA SoundRequeue ==
  ASSUME NEW b, NEW hs, Sound(b, hs), NEW m \in hs, NEW t \in Names
  PROVE  Sound(requeue(b, t, m), hs \ {m})
<1> DEFINE c == requeue(b, t, m)
           v == [m EXCEPT !.redelivered = TRUE]
<1>1. /\ b \in Stores /\ m \in Held /\ hs \in SUBSET Held
      /\ \A w \in WaitingIn(b) \cup GoneIn(b) \cup (hs \ {m}) : w.sequence # m.sequence
  BY EntriesHeld, InHandOnly DEF Sound
<1>2. c \in Stores /\ c.sequence = b.sequence
  BY <1>1, RequeueType, RequeueShape
<1>3. WaitingIn(c) = WaitingIn(b) \cup {v} /\ GoneIn(c) = GoneIn(b)
  BY <1>1, RequeuePlaces
<1>4. Distinct(c)
  BY <1>1, DistinctRequeue DEF Sound
<1>5. v.sequence = m.sequence
  BY <1>1 DEF Held
<1> HIDE DEF c, v
<1>6. \A w : w \in Entries(c, hs \ {m}) <=> w = v \/ (w \in Entries(b, hs) /\ w # m)
  <2>1. m \notin WaitingIn(b) \cup GoneIn(b)
    BY <1>1
  <2> QED BY <1>3, <2>1 DEF Entries
<1>7. /\ m \in Entries(b, hs)
      /\ \A w \in Entries(b, hs) : w # m => w.sequence # v.sequence
  BY <1>1, <1>5 DEF Entries
<1>8. \A w, x \in Entries(c, hs \ {m}) : w.sequence = x.sequence => w = x
  BY <1>6, <1>7 DEF Sound
<1>9. /\ \A w \in WaitingIn(c) : w \notin GoneIn(c) /\ w \notin (hs \ {m})
      /\ \A w \in GoneIn(c) : w \notin (hs \ {m})
  BY <1>1, <1>3, <1>5 DEF Sound
<1>10. \A w \in Entries(c, hs \ {m}) : w.sequence \in 1..c.sequence
  BY <1>2, <1>5, <1>6, <1>7 DEF Sound
<1>11. ASSUME NEW s \in 1..c.sequence
       PROVE  \E w \in Entries(c, hs \ {m}) : w.sequence = s
  <2>1. PICK w \in Entries(b, hs) : w.sequence = s
    BY <1>2 DEF Sound
  <2> QED BY <1>5, <1>6, <2>1
<1>12. Sound(c, hs \ {m})
  BY <1>1, <1>2, <1>4, <1>8, <1>9, <1>10, <1>11 DEF Sound
<1> QED BY <1>12 DEF c

-----------------------------------------------------------------------------
(* The inductive invariant: the books are sound, a transport holds at most *)
(* one message, no two transports hold the same one, and the flag and the  *)
(* history of what handlers were given agree.                              *)

BooksInv ==
  /\ OrderInv
  /\ Sound(store, HeldNow)
  /\ \A p \in Transports : \A m, n \in outstanding[p] : m = n
  /\ \A p, q \in Transports : \A m \in outstanding[p], n \in outstanding[q] :
       m.sequence = n.sequence => p = q
  /\ \A s \in taken : s <= store.sequence
  /\ \A m \in WaitingIn(store) : m.redelivered <=> m.sequence \in taken
  /\ \A m \in HeldNow : m.sequence \in taken

(* What the operations do to the books, all of them. *)

Settled == /\ Moved(store, HeldNow, store', HeldNow)
           /\ UNCHANGED <<outstanding, taken>>

Handed(p, t) ==
  /\ outstanding[p] = {}
  /\ store.messages[t] # <<>>
  /\ store' = PopFront(store, t)
  /\ outstanding' = [outstanding EXCEPT ![p] = {Head(store.messages[t])}]
  /\ taken' = taken \cup {Head(store.messages[t]).sequence}

Ended(p, m) ==
  /\ Moved(store, HeldNow, store', HeldNow \ {m})
  /\ m \in GoneIn(store')
  /\ outstanding' = [outstanding EXCEPT ![p] = @ \ {m}]
  /\ taken' = taken

Returned(p, m, t) ==
  /\ store' = requeue(store, t, m)
  /\ outstanding' = [outstanding EXCEPT ![p] = @ \ {m}]
  /\ taken' = taken

BookStep ==
  \/ Settled
  \/ \E p \in Transports, t \in Names : Handed(p, t)
  \/ \E p \in Transports : \E m \in outstanding[p] :
       Ended(p, m) \/ \E t \in Names : Returned(p, m, t)

(* What a transport holds was taken from a destination. *)
LEMMA HoldersSubscribe ==
  ASSUME BooksInv, NEW p \in Transports, NEW m \in outstanding[p]
  PROVE  /\ subscription[p] \in Names /\ m \in HeldNow /\ m \in Held
         /\ TypeOK /\ store \in Stores
<1>1. TypeOK /\ (subscription[p] = NoTopic => outstanding[p] = {})
  BY DEF BooksInv, OrderInv
<1>2. subscription[p] \in Topics \cup {NoTopic} /\ m \in Held /\ store \in Stores
  BY <1>1 DEF TypeOK
<1>3. m \in HeldNow
  BY DEF HeldNow
<1> QED BY <1>1, <1>2, <1>3, NamesAreNames

(* The switch at the end of pump() and settle(). *)
LEMMA ResolveBooks ==
  ASSUME BooksInv, NEW p \in Transports, NEW m \in outstanding[p], NEW d, Resolve(p, m, d)
  PROVE  Ended(p, m) \/ \E t \in Names : Returned(p, m, t)
<1>1. /\ subscription[p] \in Names /\ m \in HeldNow /\ m \in Held
      /\ TypeOK /\ store \in Stores /\ Sound(store, HeldNow)
  BY HoldersSubscribe DEF BooksInv
<1>2. outstanding' = [outstanding EXCEPT ![p] = @ \ {m}] /\ taken' = taken
  BY DEF Resolve
<1>3. CASE store' = Gone(store, "acked", m)
  <2>1. Moved(store, HeldNow, store', HeldNow \ {m})
    BY <1>1, <1>3, MovedGone DEF Fates
  <2>2. m \in GoneIn(store')
    BY <1>1, <1>3, GonePlaces DEF Fates
  <2> QED BY <1>2, <2>1, <2>2 DEF Ended
<1>4. CASE store' = requeue(store, subscription[p], m)
  BY <1>1, <1>2, <1>4 DEF Returned
<1>5. CASE store' = deadLetterLocked(store, subscription[p], m)
  <2>1. Moved(store, HeldNow, store', HeldNow \ {m}) /\ m \in GoneIn(store')
    BY <1>1, <1>5, MovedDeadLetter
  <2> QED BY <1>2, <2>1 DEF Ended
<1> QED BY <1>3, <1>4, <1>5 DEF Resolve

(* Every operation is one of the four kinds of step. *)
LEMMA NextBooks ==
  ASSUME BooksInv, [Next]_vars
  PROVE  BookStep
<1>0. TypeOK /\ store \in Stores /\ Sound(store, HeldNow)
  BY DEF BooksInv, OrderInv, TypeOK
<1>1. ASSUME UNCHANGED <<store, outstanding, taken>> PROVE BookStep
  BY <1>0, <1>1, MovedSame DEF BookStep, Settled
<1>2. ASSUME NEW p \in Transports, NEW t \in Topics, sendDirect(p, t) PROVE BookStep
  <2>1. store' = EnqueueNew(store, t, store.sequence + 1) /\ store.sequence + 1 \in Nat
    BY <1>0, <1>2 DEF sendDirect, Stores
  <2>2. Moved(store, HeldNow, store', HeldNow)
    BY <1>0, <2>1, MovedPublish, NamesAreNames
  <2> QED BY <1>2, <2>2 DEF sendDirect, transportVars, historyVars, BookStep, Settled
<1>3. ASSUME NEW t \in Names, fanoutCopy(t) PROVE BookStep
  <2>1. store' = EnqueueNew(store, t, fanout.body) /\ fanout.body \in Nat
    BY <1>0, <1>3 DEF fanoutCopy, Unlocked, TypeOK
  <2>2. Moved(store, HeldNow, store', HeldNow)
    BY <1>0, <2>1, MovedPublish
  <2> QED BY <1>3, <2>2 DEF fanoutCopy, transportVars, historyVars, BookStep, Settled
<1>4. ASSUME NEW p \in Transports, take(p) PROVE BookStep
  <2>1. Handed(p, subscription[p]) /\ subscription[p] \in Names
    BY <1>0, <1>4 DEF take, Handed, TypeOK
  <2> QED BY <2>1 DEF BookStep
<1>5. ASSUME NEW p \in Transports, NEW d, handlerReturns(p, d) PROVE BookStep
  <2>1. PICK m \in outstanding[p] : Resolve(p, m, d)
    BY <1>5 DEF handlerReturns
  <2> QED BY <2>1, ResolveBooks DEF BookStep
<1>6. ASSUME NEW p \in Transports, NEW s, NEW d, settle(p, s, d) PROVE BookStep
  <2>1. PICK m \in outstanding[p] : Resolve(p, m, d)
    BY <1>6 DEF settle
  <2> QED BY <2>1, ResolveBooks DEF BookStep
<1>7. ASSUME NEW p \in Transports, NEW t \in Topics, purgeTopic(p, t) PROVE BookStep
  <2>1. Moved(store, HeldNow, store', HeldNow)
    BY <1>0, <1>7, MovedPurge, NamesAreNames DEF purgeTopic
  <2> QED BY <1>7, <2>1 DEF purgeTopic, transportVars, historyVars, BookStep, Settled
<1>8. ASSUME NEW p \in Transports, returnOutstanding(p) PROVE BookStep
  <2>1. PICK m \in outstanding[p] :
          /\ store' = requeue(store, subscription[p], m)
          /\ outstanding' = [outstanding EXCEPT ![p] = @ \ {m}]
    BY <1>8 DEF returnOutstanding
  <2>2. Returned(p, m, subscription[p]) /\ subscription[p] \in Names
    BY <1>8, <2>1, HoldersSubscribe DEF returnOutstanding, Returned
  <2> QED BY <2>2 DEF BookStep
<1>9. ASSUME NEW p \in Transports,
             \/ connect(p) \/ ensureSource(p) \/ handlerDefers(p) \/ handlerThrows(p)
             \/ close(p) \/ finishClose(p)
      PROVE  BookStep
  BY <1>1, <1>9
     DEF connect, ensureSource, Declare, BrokerEnsureTopic, handlerDefers, handlerThrows,
         close, finishClose, brokerVars, historyVars
<1>10. ASSUME NEW p \in Transports, NEW t \in Topics, NEW o,
              ensureForensic(p, t, o) \/ ensurePlain(p, t, o) \/ subscribe(p, t)
       PROVE  BookStep
  BY <1>1, <1>10
     DEF ensureForensic, ensurePlain, Declare, BrokerEnsureTopic, subscribe, brokerVars,
         transportVars, historyVars
<1>11. ASSUME fanoutDone \/ \E p \in Transports, t \in Topics, r \in Routes \cup {EmptyString} :
                              sendGrouped(p, t, r)
       PROVE  BookStep
  BY <1>1, <1>11 DEF fanoutDone, sendGrouped, transportVars, historyVars
<1>12. ASSUME UNCHANGED vars PROVE BookStep
  BY <1>1, <1>12 DEF vars, brokerVars, transportVars, historyVars
<1> QED
  BY <1>2, <1>3, <1>4, <1>5, <1>6, <1>7, <1>8, <1>9, <1>10, <1>11, <1>12 DEF Next

(* An old entry of the books after an operation was an entry before it. *)
LEMMA OldEntries ==
  ASSUME NEW b, NEW hs, NEW c, NEW is, Sound(b, hs), Moved(b, hs, c, is),
         NEW m \in Entries(c, is), m.sequence <= b.sequence
  PROVE  /\ m \in Entries(b, hs)
         /\ m \in WaitingIn(c) => m \in WaitingIn(b) \cup hs
<1>1. Sound(c, is) /\ m.sequence \in 1..c.sequence /\ b.sequence \in Nat
  BY EntriesHeld DEF Moved, Sound
<1>2. m.sequence \in 1..b.sequence
  BY <1>1
<1>3. PICK k \in Entries(b, hs) : k.sequence = m.sequence
  BY <1>2 DEF Sound
<1>4. k = m
  BY <1>1, <1>3 DEF Moved, Sound
<1>5. m \in WaitingIn(c) => m \notin GoneIn(b)
  BY <1>1 DEF Moved, Sound
<1> QED BY <1>3, <1>4, <1>5 DEF Entries

(* What is held after a transport gave one message away. *)
LEMMA HeldLess ==
  ASSUME BooksInv, NEW p \in Transports, NEW m \in outstanding[p],
         outstanding' = [outstanding EXCEPT ![p] = @ \ {m}]
  PROVE  /\ HeldNow' = HeldNow \ {m}
         /\ outstanding'[p] = {}
         /\ \A q \in Transports : outstanding'[q] \subseteq outstanding[q]
         /\ \A q \in Transports : q # p => outstanding'[q] = outstanding[q]
<1>1. outstanding \in [Transports -> SUBSET Held]
  BY DEF BooksInv, OrderInv, TypeOK
<1>2. /\ outstanding'[p] = outstanding[p] \ {m}
      /\ \A q \in Transports : q # p => outstanding'[q] = outstanding[q]
  BY <1>1
<1>3. \A q \in Transports : q # p => m \notin outstanding[q]
  BY DEF BooksInv
<1>4. \A n \in outstanding[p] : n = m
  BY DEF BooksInv
<1>5. HeldNow' = HeldNow \ {m}
  BY <1>2, <1>3 DEF HeldNow
<1> QED BY <1>2, <1>4, <1>5

(* What is held after a transport was handed a message. *)
LEMMA HeldMore ==
  ASSUME BooksInv, NEW p \in Transports, NEW h, outstanding[p] = {},
         outstanding' = [outstanding EXCEPT ![p] = {h}]
  PROVE  /\ HeldNow' = HeldNow \cup {h}
         /\ outstanding'[p] = {h}
         /\ \A q \in Transports : q # p => outstanding'[q] = outstanding[q]
<1>1. outstanding \in [Transports -> SUBSET Held]
  BY DEF BooksInv, OrderInv, TypeOK
<1>2. /\ outstanding'[p] = {h}
      /\ \A q \in Transports : q # p => outstanding'[q] = outstanding[q]
  BY <1>1
<1>3. HeldNow' = HeldNow \cup {h}
  BY <1>2 DEF HeldNow
<1> QED BY <1>2, <1>3

(* A fresh process has empty books. *)
LEMMA BooksInit == Init => BooksInv
<1> SUFFICES ASSUME Init PROVE BooksInv
  OBVIOUS
<1>1. OrderInv
  BY OrderInit
<1>2. store \in Stores /\ store = EmptyStore
  BY <1>1 DEF OrderInv, TypeOK, Init
<1>3. /\ store.messages = [t \in Names |-> <<>>] /\ store.sequence = 0
      /\ store.gone = [f \in Fates |-> {}]
  BY <1>2 DEF EmptyStore
<1>4. WaitingIn(store) = {} /\ GoneIn(store) = {}
  BY <1>3 DEF WaitingIn, At, ContentsOf, GoneIn
<1>5. HeldNow = {} /\ \A p \in Transports : outstanding[p] = {}
  BY DEF Init, HeldNow
<1>6. Distinct(store)
  BY <1>3 DEF Distinct
<1>7. Entries(store, HeldNow) = {}
  BY <1>4, <1>5 DEF Entries
<1>8. Sound(store, HeldNow)
  BY <1>2, <1>3, <1>4, <1>5, <1>6, <1>7 DEF Sound
<1>9. taken = {}
  BY DEF Init
<1> QED BY <1>1, <1>4, <1>5, <1>8, <1>9 DEF BooksInv

(* The books stay sound. *)
LEMMA BooksStep ==
  ASSUME BooksInv, OrderInv', BookStep
  PROVE  BooksInv'
<1>0. /\ Sound(store, HeldNow) /\ store \in Stores /\ store.sequence \in Nat
      /\ \A m \in Entries(store, HeldNow) : m \in Held /\ m.sequence \in Nat
      /\ \A s \in taken : s <= store.sequence
      /\ taken \subseteq Nat
  BY EntriesHeld DEF BooksInv, OrderInv, TypeOK
<1>1. ASSUME NEW hs, hs \subseteq HeldNow, Moved(store, HeldNow, store', hs),
             HeldNow' = hs, \A m \in HeldNow \ hs : m \in GoneIn(store'),
             \A p \in Transports : outstanding'[p] \subseteq outstanding[p],
             taken' = taken
      PROVE  BooksInv'
  <2>1. Sound(store', HeldNow') /\ store.sequence <= store'.sequence /\ store'.sequence \in Nat
    BY <1>1, EntriesHeld DEF Moved
  <2>2. ASSUME NEW m \in WaitingIn(store') PROVE m.redelivered <=> m.sequence \in taken
    <3>1. m \in Entries(store', hs) /\ m.sequence \in Nat
      BY <1>1, <2>1, EntriesHeld
    <3>2. CASE m.sequence <= store.sequence
      <4>1. m \in WaitingIn(store) \cup HeldNow
        BY <1>0, <1>1, <3>1, <3>2, OldEntries
      <4>2. m \notin HeldNow
        BY <1>1, <2>1 DEF Sound
      <4> QED BY <4>1, <4>2 DEF BooksInv
    <3>3. CASE m.sequence > store.sequence
      <4>1. ~m.redelivered
        BY <1>1, <3>1, <3>3 DEF Moved
      <4>2. m.sequence \notin taken
        BY <1>0, <3>1, <3>3
      <4> QED BY <4>1, <4>2
    <3> QED BY <1>0, <3>1, <3>2, <3>3
  <2>3. \A s \in taken' : s <= store'.sequence
    BY <1>0, <1>1, <2>1
  <2>4. \A m \in HeldNow' : m.sequence \in taken'
    BY <1>1 DEF BooksInv
  <2>5. /\ \A p \in Transports : \A m, n \in outstanding'[p] : m = n
        /\ \A p, q \in Transports : \A m \in outstanding'[p], n \in outstanding'[q] :
             m.sequence = n.sequence => p = q
    BY <1>1 DEF BooksInv
  <2> QED BY <1>1, <2>1, <2>2, <2>3, <2>4, <2>5 DEF BooksInv
<1>2. CASE Settled
  <2>1. HeldNow' = HeldNow
    BY <1>2 DEF Settled, HeldNow
  <2> QED BY <1>1, <1>2, <2>1 DEF Settled
<1>3. ASSUME NEW p \in Transports, NEW m \in outstanding[p], Ended(p, m) PROVE BooksInv'
  <2>1. /\ HeldNow' = HeldNow \ {m}
        /\ \A q \in Transports : outstanding'[q] \subseteq outstanding[q]
    BY <1>3, HeldLess DEF Ended
  <2>2. \A n \in HeldNow \ (HeldNow \ {m}) : n \in GoneIn(store')
    BY <1>3 DEF Ended
  <2> QED BY <1>1, <1>3, <2>1, <2>2 DEF Ended
<1>4. ASSUME NEW p \in Transports, NEW m \in outstanding[p], NEW t \in Names,
             Returned(p, m, t)
      PROVE  BooksInv'
  <2> DEFINE v == [m EXCEPT !.redelivered = TRUE]
  <2>1. /\ HeldNow' = HeldNow \ {m} /\ m \in HeldNow /\ m \in Held
        /\ \A q \in Transports : outstanding'[q] \subseteq outstanding[q]
    BY <1>4, HeldLess, HoldersSubscribe DEF Returned
  <2>2. Sound(store', HeldNow')
    BY <1>0, <1>4, <2>1, SoundRequeue DEF Returned
  <2>3. WaitingIn(store') = WaitingIn(store) \cup {v} /\ store'.sequence = store.sequence
    BY <1>0, <1>4, <2>1, RequeuePlaces, RequeueShape DEF Returned
  <2>4. v.redelivered = TRUE /\ v.sequence = m.sequence /\ m.sequence \in taken
    BY <2>1 DEF Held, BooksInv
  <2> HIDE DEF v
  <2>5. \A w \in WaitingIn(store') : w.redelivered <=> w.sequence \in taken
    BY <2>3, <2>4 DEF BooksInv
  <2>6. /\ \A q \in Transports : \A x, y \in outstanding'[q] : x = y
        /\ \A q, r \in Transports : \A x \in outstanding'[q], y \in outstanding'[r] :
             x.sequence = y.sequence => q = r
    BY <2>1 DEF BooksInv
  <2>7. \A x \in HeldNow' : x.sequence \in taken
    BY <2>1 DEF BooksInv
  <2> QED BY <1>0, <1>4, <2>2, <2>3, <2>5, <2>6, <2>7 DEF Returned, BooksInv
<1>5. ASSUME NEW p \in Transports, NEW t \in Names, Handed(p, t) PROVE BooksInv'
  <2> DEFINE h == Head(store.messages[t])
  <2>1. /\ Moved(store, HeldNow, store', HeldNow \cup {h})
        /\ h \in WaitingIn(store) /\ h \notin HeldNow
    BY <1>0, <1>5, MovedPopFront DEF Handed
  <2>2. /\ HeldNow' = HeldNow \cup {h} /\ outstanding'[p] = {h}
        /\ \A q \in Transports : q # p => outstanding'[q] = outstanding[q]
    BY <1>5, HeldMore DEF Handed
  <2>3. /\ taken' = taken \cup {h.sequence}
        /\ store'.sequence = store.sequence
    BY <1>0, <1>5, PopFrontShape DEF Handed
  <2> HIDE DEF h
  <2>4. Sound(store', HeldNow') /\ h \in HeldNow'
    BY <2>1, <2>2 DEF Moved
  <2>5. ASSUME NEW m \in WaitingIn(store') PROVE m.redelivered <=> m.sequence \in taken'
    <3> DEFINE hs == HeldNow \cup {h}
    <3>0. Sound(store', hs) /\ h \in hs
      BY <2>1 DEF Moved
    <3>1. m.sequence # h.sequence /\ m \notin HeldNow
      <4>1. m.sequence # h.sequence
        <5> HIDE DEF hs
        <5> QED BY <3>0, InHandOnly
      <4>2. m \notin HeldNow
        BY <3>0 DEF Sound
      <4> QED BY <4>1, <4>2
    <3>2. m \in Entries(store', hs) /\ m.sequence <= store.sequence
      <4> HIDE DEF hs
      <4>1. m \in Entries(store', hs)
        BY <3>0, EntriesHeld
      <4>2. m.sequence \in 1..store'.sequence
        BY <3>0, <4>1 DEF Sound
      <4> QED BY <1>0, <2>3, <4>1, <4>2
    <3>3. m \in WaitingIn(store)
      BY <1>0, <2>1, <3>1, <3>2, OldEntries
    <3> QED BY <2>3, <3>1, <3>3 DEF BooksInv
  <2>6. \A s \in taken' : s <= store'.sequence
    <3>1. h.sequence <= store.sequence
      BY <1>0, <2>1, EntriesHeld DEF Sound
    <3> QED BY <1>0, <2>3, <3>1
  <2>7. \A m \in HeldNow' : m.sequence \in taken'
    BY <2>2, <2>3 DEF BooksInv
  <2>8. \A q \in Transports : \A x, y \in outstanding'[q] : x = y
    BY <2>2 DEF BooksInv
  <2>9. ASSUME NEW q \in Transports, NEW r \in Transports,
               NEW x \in outstanding'[q], NEW y \in outstanding'[r], x.sequence = y.sequence
        PROVE  q = r
    <3>1. \A z \in HeldNow : z.sequence # h.sequence
      BY <1>0, <2>1, InHandOnly, EntriesHeld DEF Sound, Entries
    <3>2. \A u \in Transports : outstanding[u] \subseteq HeldNow
      BY DEF HeldNow
    <3>3. CASE q = p /\ r # p
      BY <2>2, <2>9, <3>1, <3>2, <3>3
    <3>4. CASE q # p /\ r = p
      BY <2>2, <2>9, <3>1, <3>2, <3>4
    <3>5. CASE q # p /\ r # p
      BY <2>2, <2>9, <3>5 DEF BooksInv
    <3> QED BY <3>3, <3>4, <3>5
  <2> QED BY <2>4, <2>5, <2>6, <2>7, <2>8, <2>9 DEF BooksInv
<1> QED BY <1>2, <1>3, <1>4, <1>5 DEF BookStep

LEMMA BooksNext == BooksInv /\ [Next]_vars => BooksInv'
<1> SUFFICES ASSUME BooksInv, [Next]_vars PROVE BooksInv'
  OBVIOUS
<1>1. OrderInv'
  BY OrderNext DEF BooksInv
<1> QED BY <1>1, NextBooks, BooksStep

(* The names the model and the books use for what waits and what is gone. *)
LEMMA SamePlaces == /\ Waiting = WaitingIn(store)
                    /\ GoneFor = GoneIn(store)
                    /\ \A t : WaitingAt(t) = At(store, t)
BY DEF Waiting, WaitingAt, WaitingIn, At, ContentsOf, GoneFor, GoneIn

(* For any number of transports, topics and messages, and whatever         *)
(* handlers throw, threads interleave, destinations evict and transports   *)
(* close: every number the broker gave out is waiting, held or has met its *)
(* fate, and is so in exactly one place.                                   *)
THEOREM EveryMessageAccountedFor == Spec => []AccountedFor
<1>1. BooksInv => AccountedFor
  <2> SUFFICES ASSUME BooksInv PROVE AccountedFor
    OBVIOUS
  <2>0. Sound(store, HeldNow) /\ Waiting = WaitingIn(store) /\ GoneFor = GoneIn(store)
    BY SamePlaces DEF BooksInv
  <2>1. \A t, u \in Names :
          \A i \in DOMAIN store.messages[t], j \in DOMAIN store.messages[u] :
            store.messages[t][i].sequence = store.messages[u][j].sequence => t = u /\ i = j
    BY <2>0 DEF Sound, Distinct
  <2>2. \A p, q \in Transports : \A m \in outstanding[p], n \in outstanding[q] :
          m.sequence = n.sequence => p = q /\ m = n
    BY DEF BooksInv
  <2>3. SequencesOf(Waiting) \cap SequencesOf(HeldNow) = {}
    BY <2>0 DEF Sound, Entries, SequencesOf
  <2>4. SequencesOf(Waiting \cup HeldNow) \cap SequencesOf(GoneFor) = {}
    BY <2>0 DEF Sound, Entries, SequencesOf
  <2>5. SequencesOf(Waiting \cup HeldNow \cup GoneFor) = 1..store.sequence
    BY <2>0 DEF Sound, Entries, SequencesOf
  <2> QED BY <2>1, <2>2, <2>3, <2>4, <2>5 DEF AccountedFor, NowhereTwice
<1> QED BY <1>1, BooksInit, BooksNext, PTL DEF Spec

(* A waiting message is flagged exactly when some handler was given it     *)
(* before, which is what bounds the retries of Consumer::dispatch, for any *)
(* number of consumers and restarts.                                       *)
THEOREM FlagMeansTaken == Spec => []FlaggedIffTaken
<1>1. BooksInv => FlaggedIffTaken
  BY SamePlaces, WaitingMember DEF BooksInv, FlaggedIffTaken
<1> QED BY <1>1, BooksInit, BooksNext, PTL DEF Spec

-----------------------------------------------------------------------------
(* The refinement of DeliveryContract.                                     *)

(* The abstract life of a message is read off the books. *)
Lived ==
  /\ \A s \in Nat : s > store.sequence => PlaceOf(s) = "unborn" /\ s \notin FlaggedNumbers
  /\ \A m \in WaitingIn(store) :
       /\ PlaceOf(m.sequence) = "waiting"
       /\ m.sequence \in FlaggedNumbers <=> m.redelivered
  /\ \A p \in Transports : \A m \in outstanding[p] :
       /\ PlaceOf(m.sequence) = p
       /\ m.sequence \in FlaggedNumbers <=> m.redelivered
  /\ \A m \in GoneIn(store) :
       /\ PlaceOf(m.sequence) = "gone"
       /\ m.sequence \in FlaggedNumbers <=> m.redelivered

LEMMA BooksGiveLives == BooksInv => Lived
<1> SUFFICES ASSUME BooksInv PROVE Lived
  OBVIOUS
<1>0. Sound(store, HeldNow) /\ Waiting = WaitingIn(store) /\ GoneFor = GoneIn(store)
  BY SamePlaces DEF BooksInv
<1>1. /\ store.sequence \in Nat
      /\ \A m \in Entries(store, HeldNow) :
           m.sequence \in Nat /\ ~(m.sequence > store.sequence)
      /\ WaitingIn(store) \subseteq Entries(store, HeldNow)
      /\ GoneIn(store) \subseteq Entries(store, HeldNow)
      /\ HeldNow \subseteq Entries(store, HeldNow)
  BY <1>0, EntriesHeld DEF Sound
<1>2. \A s : s \in FlaggedNumbers <=>
               \E m \in Entries(store, HeldNow) : m.sequence = s /\ m.redelivered
  BY <1>0 DEF FlaggedNumbers, SequencesOf, Entries
<1>3. \A m, n \in Entries(store, HeldNow) : m.sequence = n.sequence => m = n
  BY <1>0 DEF Sound
<1>4. \A m \in Entries(store, HeldNow) : m.sequence \in FlaggedNumbers <=> m.redelivered
  BY <1>2, <1>3
<1>5. /\ \A s : s \in SequencesOf(Waiting) <=> \E m \in WaitingIn(store) : m.sequence = s
      /\ \A s : s \in SequencesOf(GoneFor) <=> \E m \in GoneIn(store) : m.sequence = s
      /\ \A s : \A p : p \in HoldersOf(s) <=>
           p \in Transports /\ \E m \in outstanding[p] : m.sequence = s
  BY <1>0 DEF SequencesOf, HoldersOf
<1>11. /\ \A m \in WaitingIn(store), n \in GoneIn(store) : m.sequence # n.sequence
       /\ \A p \in Transports : \A m \in outstanding[p], n \in WaitingIn(store) \cup GoneIn(store) :
            m.sequence # n.sequence
  <2>1. \A m \in WaitingIn(store), n \in GoneIn(store) : m.sequence # n.sequence
    BY <1>0, <1>1, <1>3 DEF Sound
  <2>2. \A m \in HeldNow, n \in WaitingIn(store) \cup GoneIn(store) : m.sequence # n.sequence
    BY <1>0, InHandOnly
  <2>3. \A p \in Transports : outstanding[p] \subseteq HeldNow
    BY DEF HeldNow
  <2> QED BY <2>1, <2>2, <2>3
<1>12. \A p \in Transports : \A m \in outstanding[p] : ~(m.sequence > store.sequence)
  BY <1>1 DEF HeldNow
<1>6. ASSUME NEW s \in Nat, s > store.sequence
      PROVE  PlaceOf(s) = "unborn" /\ s \notin FlaggedNumbers
  <2>1. s \notin SequencesOf(Waiting) /\ s \notin SequencesOf(GoneFor) /\ s \notin FlaggedNumbers
    BY <1>1, <1>2, <1>5, <1>6
  <2>2. HoldersOf(s) = {}
    BY <1>5, <1>6, <1>12
  <2> QED BY <1>6, <2>1, <2>2 DEF PlaceOf
<1>7. ASSUME NEW m \in WaitingIn(store) PROVE PlaceOf(m.sequence) = "waiting"
  <2>1. /\ ~(m.sequence > store.sequence) /\ m.sequence \in SequencesOf(Waiting)
        /\ m.sequence \notin SequencesOf(GoneFor)
    BY <1>1, <1>5, <1>11
  <2>2. HoldersOf(m.sequence) = {}
    BY <1>5, <1>11
  <2> QED BY <2>1, <2>2 DEF PlaceOf
<1>8. ASSUME NEW p \in Transports, NEW m \in outstanding[p]
      PROVE  PlaceOf(m.sequence) = p
  <2>1. /\ ~(m.sequence > store.sequence) /\ m.sequence \notin SequencesOf(Waiting)
        /\ m.sequence \notin SequencesOf(GoneFor)
    BY <1>5, <1>11, <1>12
  <2>2. \A q : q \in HoldersOf(m.sequence) <=> q = p
    BY <1>5 DEF BooksInv
  <2>3. HoldersOf(m.sequence) = {p} /\ HoldersOf(m.sequence) # {}
    BY <2>2
  <2>4. PlaceOf(m.sequence) = CHOOSE q \in HoldersOf(m.sequence) : TRUE
    BY <2>1, <2>3 DEF PlaceOf
  <2> QED BY <2>3, <2>4
<1>9. ASSUME NEW m \in GoneIn(store) PROVE PlaceOf(m.sequence) = "gone"
  <2>1. /\ ~(m.sequence > store.sequence) /\ m.sequence \notin SequencesOf(Waiting)
        /\ m.sequence \in SequencesOf(GoneFor)
    BY <1>1, <1>5, <1>11
  <2>2. HoldersOf(m.sequence) = {}
    BY <1>5, <1>11
  <2> QED BY <2>1, <2>2 DEF PlaceOf
<1>10. \A p \in Transports : \A m \in outstanding[p] : m \in Entries(store, HeldNow)
  BY <1>1 DEF HeldNow
<1> QED BY <1>1, <1>4, <1>6, <1>7, <1>8, <1>9, <1>10 DEF Lived

(* Every number is unborn or that of an entry. *)
NumberedAll ==
  \A s \in Nat \ {0} :
    \/ s > store.sequence
    \/ \E m \in WaitingIn(store) : m.sequence = s
    \/ \E p \in Transports : \E m \in outstanding[p] : m.sequence = s
    \/ \E m \in GoneIn(store) : m.sequence = s

LEMMA BooksNumberAll == BooksInv => NumberedAll
<1> SUFFICES ASSUME BooksInv, NEW s \in Nat \ {0}
             PROVE  \/ s > store.sequence
                    \/ \E m \in WaitingIn(store) : m.sequence = s
                    \/ \E p \in Transports : \E m \in outstanding[p] : m.sequence = s
                    \/ \E m \in GoneIn(store) : m.sequence = s
  BY DEF NumberedAll
<1>1. Sound(store, HeldNow) /\ store.sequence \in Nat
  BY EntriesHeld DEF BooksInv
<1>2. CASE s \in 1..store.sequence
  <2>1. PICK m \in Entries(store, HeldNow) : m.sequence = s
    BY <1>1, <1>2 DEF Sound
  <2> QED BY <2>1 DEF Entries, HeldNow
<1> QED BY <1>1, <1>2

(* In numbers: what the steps of the books amount to. *)
Outlived ==
  /\ store.sequence <= store'.sequence
  /\ GoneIn(store) \subseteq GoneIn(store')
  /\ \A m \in WaitingIn(store) :
       \/ m \in WaitingIn(store') \/ m \in GoneIn(store')
       \/ \E p \in Transports : m \in outstanding'[p]
  /\ \A p \in Transports : \A m \in outstanding[p] :
       \/ m \in outstanding'[p] \/ m \in GoneIn(store')
       \/ \E v \in WaitingIn(store') : v.sequence = m.sequence /\ v.redelivered
  /\ \A m \in WaitingIn(store') \cup GoneIn(store') :
       m.sequence > store.sequence => ~m.redelivered
  /\ \A p \in Transports : \A m \in outstanding'[p] : m.sequence <= store.sequence

LEMMA BooksOutlive ==
  ASSUME BooksInv, BooksInv', BookStep
  PROVE  Outlived
<1>0. /\ Sound(store, HeldNow) /\ store \in Stores /\ store.sequence \in Nat
      /\ \A m \in Entries(store, HeldNow) : m.sequence <= store.sequence
      /\ HeldNow \subseteq Entries(store, HeldNow)
      /\ WaitingIn(store) \subseteq Entries(store, HeldNow)
  BY EntriesHeld DEF BooksInv, Sound
<1>1. \A p \in Transports : \A m \in outstanding[p] : m \in HeldNow /\ m.sequence <= store.sequence
  BY <1>0 DEF HeldNow
<1>2. ASSUME NEW hs, Moved(store, HeldNow, store', hs)
      PROVE  /\ store.sequence <= store'.sequence
             /\ GoneIn(store) \subseteq GoneIn(store')
             /\ \A m \in WaitingIn(store) :
                  m \in WaitingIn(store') \/ m \in GoneIn(store') \/ m \in hs
             /\ \A m \in WaitingIn(store') \cup GoneIn(store') :
                  m.sequence > store.sequence => ~m.redelivered
  BY <1>0, <1>2 DEF Moved, Entries
<1>3. CASE Settled
  <2>1. Moved(store, HeldNow, store', HeldNow) /\ outstanding' = outstanding
    BY <1>3 DEF Settled
  <2>2. \A m \in HeldNow : \E p \in Transports : m \in outstanding'[p]
    BY <2>1 DEF HeldNow
  <2> QED BY <1>1, <1>2, <2>1, <2>2 DEF Outlived
<1>4. ASSUME NEW p \in Transports, NEW t \in Names, Handed(p, t) PROVE Outlived
  <2> DEFINE h == Head(store.messages[t])
  <2>1. /\ Moved(store, HeldNow, store', HeldNow \cup {h})
        /\ h \in WaitingIn(store)
        /\ HeldNow' = HeldNow \cup {h} /\ outstanding'[p] = {h} /\ outstanding[p] = {}
        /\ \A q \in Transports : q # p => outstanding'[q] = outstanding[q]
    BY <1>0, <1>4, MovedPopFront, HeldMore DEF Handed
  <2> HIDE DEF h
  <2>2. \A m \in HeldNow \cup {h} : \E q \in Transports : m \in outstanding'[q]
    BY <2>1 DEF HeldNow
  <2>3. \A q \in Transports : \A m \in outstanding[q] : m \in outstanding'[q]
    BY <2>1
  <2>4. \A q \in Transports : \A m \in outstanding'[q] : m.sequence <= store.sequence
    BY <1>0, <1>1, <2>1
  <2> QED BY <1>2, <2>1, <2>2, <2>3, <2>4 DEF Outlived
<1>5. ASSUME NEW p \in Transports, NEW m \in outstanding[p], Ended(p, m) PROVE Outlived
  <2>1. /\ Moved(store, HeldNow, store', HeldNow \ {m}) /\ m \in GoneIn(store')
        /\ HeldNow' = HeldNow \ {m}
        /\ \A q \in Transports : q # p => outstanding'[q] = outstanding[q]
        /\ \A q \in Transports : outstanding'[q] \subseteq outstanding[q]
    BY <1>5, HeldLess DEF Ended
  <2>2. \A n \in outstanding[p] : n = m
    BY DEF BooksInv
  <2>3. \A n \in HeldNow \ {m} : \E q \in Transports : n \in outstanding'[q]
    BY <2>1 DEF HeldNow
  <2>4. \A q \in Transports : \A n \in outstanding[q] :
          n \in outstanding'[q] \/ n \in GoneIn(store')
    BY <2>1, <2>2
  <2> QED BY <1>1, <1>2, <2>1, <2>3, <2>4 DEF Outlived
<1>6. ASSUME NEW p \in Transports, NEW m \in outstanding[p], NEW t \in Names,
             Returned(p, m, t)
      PROVE  Outlived
  <2> DEFINE v == [m EXCEPT !.redelivered = TRUE]
  <2>1. /\ \A q \in Transports : q # p => outstanding'[q] = outstanding[q]
        /\ \A q \in Transports : outstanding'[q] \subseteq outstanding[q]
        /\ m \in Held
    BY <1>6, HeldLess, HoldersSubscribe DEF Returned
  <2>2. /\ WaitingIn(store') = WaitingIn(store) \cup {v} /\ GoneIn(store') = GoneIn(store)
        /\ store'.sequence = store.sequence
    BY <1>0, <1>6, <2>1, RequeuePlaces, RequeueShape DEF Returned
  <2>3. v.sequence = m.sequence /\ v.redelivered = TRUE
    BY <2>1 DEF Held
  <2> HIDE DEF v
  <2>4. \A n \in outstanding[p] : n = m
    BY DEF BooksInv
  <2>5. \A q \in Transports : \A n \in outstanding[q] :
          \/ n \in outstanding'[q]
          \/ \E w \in WaitingIn(store') : w.sequence = n.sequence /\ w.redelivered
    BY <2>1, <2>2, <2>3, <2>4
  <2>6. \A w \in WaitingIn(store') \cup GoneIn(store') : ~(w.sequence > store.sequence)
    <3>1. \A w \in WaitingIn(store) \cup GoneIn(store) : w.sequence \in 1..store.sequence
      BY <1>0 DEF Sound, Entries
    <3>2. v.sequence \in 1..store.sequence
      BY <1>0, <1>1, <1>6, <2>3 DEF Sound
    <3> QED BY <1>0, <2>2, <3>1, <3>2
  <2>7. \A w \in WaitingIn(store) : w \in WaitingIn(store')
    BY <2>2
  <2>8. store.sequence <= store'.sequence /\ GoneIn(store) \subseteq GoneIn(store')
    BY <1>0, <2>2
  <2>9. \A q \in Transports : \A n \in outstanding'[q] : n.sequence <= store.sequence
    BY <1>1, <2>1
  <2> QED BY <2>5, <2>6, <2>7, <2>8, <2>9 DEF Outlived
<1> QED BY <1>3, <1>4, <1>5, <1>6 DEF BookStep

(* No transport is one of the places of the delivery contract. *)
LEMMA PlacesAreNoTransports ==
  \A p \in Transports : p # "unborn" /\ p # "waiting" /\ p # "gone"
BY TransportsAssumption

(* One number, one step of its life. *)
LEMMA OneLife ==
  ASSUME BooksInv, BooksInv', Lived, Lived', NumberedAll, NumberedAll', Outlived,
         NEW s \in Nat \ {0}
  PROVE  \/ PlaceOf(s)' = PlaceOf(s) /\ (s \in FlaggedNumbers' <=> s \in FlaggedNumbers)
         \/ /\ PlaceOf(s) = "unborn" /\ PlaceOf(s)' \in {"waiting", "gone"}
            /\ s \notin FlaggedNumbers'
         \/ /\ PlaceOf(s) = "waiting" /\ PlaceOf(s)' \in Transports
            /\ s \in FlaggedNumbers' <=> s \in FlaggedNumbers
         \/ /\ PlaceOf(s) \in Transports /\ PlaceOf(s)' = "waiting"
            /\ s \in FlaggedNumbers'
         \/ /\ PlaceOf(s) \in Transports \cup {"waiting"} /\ PlaceOf(s)' = "gone"
            /\ s \in FlaggedNumbers' <=> s \in FlaggedNumbers
<1>1. CASE s > store.sequence
  <2>1. PlaceOf(s) = "unborn" /\ s \notin FlaggedNumbers
    BY <1>1 DEF Lived
  <2>2. \/ s > store'.sequence
        \/ \E m \in WaitingIn(store') : m.sequence = s
        \/ \E p \in Transports : \E m \in outstanding'[p] : m.sequence = s
        \/ \E m \in GoneIn(store') : m.sequence = s
    BY DEF NumberedAll
  <2>3. CASE s > store'.sequence
    BY <2>1, <2>3 DEF Lived
  <2>4. ASSUME NEW m \in WaitingIn(store') \cup GoneIn(store'), m.sequence = s
        PROVE  PlaceOf(s)' \in {"waiting", "gone"} /\ s \notin FlaggedNumbers'
    BY <1>1, <2>4 DEF Lived, Outlived
  <2>5. ASSUME NEW p \in Transports, NEW m \in outstanding'[p] PROVE m.sequence # s
    <3>1. m.sequence <= store.sequence /\ m.sequence \in Nat /\ store.sequence \in Nat
      BY DEF Outlived, BooksInv, OrderInv, TypeOK, Held, Stores
    <3> QED BY <1>1, <3>1
  <2> QED BY <2>1, <2>2, <2>3, <2>4, <2>5
<1>2. ASSUME NEW m \in WaitingIn(store), m.sequence = s
      PROVE  /\ PlaceOf(s) = "waiting" /\ PlaceOf(s)' \in Transports \cup {"waiting", "gone"}
             /\ s \in FlaggedNumbers' <=> s \in FlaggedNumbers
  BY <1>2 DEF Lived, Outlived
<1>3. ASSUME NEW p \in Transports, NEW m \in outstanding[p], m.sequence = s
      PROVE  /\ PlaceOf(s) = p
             /\ \/ /\ PlaceOf(s)' \in {p, "gone"}
                   /\ s \in FlaggedNumbers' <=> s \in FlaggedNumbers
                \/ PlaceOf(s)' = "waiting" /\ s \in FlaggedNumbers'
  BY <1>3 DEF Lived, Outlived
<1>4. ASSUME NEW m \in GoneIn(store), m.sequence = s
      PROVE  /\ PlaceOf(s) = "gone" /\ PlaceOf(s)' = "gone"
             /\ s \in FlaggedNumbers' <=> s \in FlaggedNumbers
  BY <1>4 DEF Lived, Outlived
<1> QED BY <1>1, <1>2, <1>3, <1>4 DEF NumberedAll

(* Every number has a place of the contract. *)
LEMMA LivesTyped == Lived /\ NumberedAll => \A s \in Nat \ {0} : PlaceOf(s) \in Contract!Places
<1> SUFFICES ASSUME Lived, NumberedAll, NEW s \in Nat \ {0} PROVE PlaceOf(s) \in Contract!Places
  OBVIOUS
<1>1. PlaceOf(s) \in {"unborn", "waiting", "gone"} \cup Transports
  BY DEF Lived, NumberedAll
<1> QED BY <1>1 DEF Contract!Places

(* Prefetch: a transport is the place of one number at most. *)
OneNumberEach ==
  \A p \in Transports : \A s, r \in Nat \ {0} : PlaceOf(s) = p /\ PlaceOf(r) = p => s = r

LEMMA BooksOneNumberEach == BooksInv => OneNumberEach
<1> SUFFICES ASSUME BooksInv, Lived, NumberedAll, NEW p \in Transports,
                    NEW s \in Nat \ {0}, NEW r \in Nat \ {0},
                    PlaceOf(s) = p, PlaceOf(r) = p
             PROVE  s = r
  BY BooksGiveLives, BooksNumberAll DEF OneNumberEach
<1>1. ASSUME NEW x \in Nat \ {0}, PlaceOf(x) = p
      PROVE  \E m \in outstanding[p] : m.sequence = x
  BY <1>1, PlacesAreNoTransports DEF Lived, NumberedAll
<1>2. PICK m \in outstanding[p], n \in outstanding[p] : m.sequence = s /\ n.sequence = r
  BY <1>1
<1>3. m = n
  BY DEF BooksInv
<1> QED BY <1>2, <1>3

(* The first state of the process is the first state of the contract. *)
LEMMA ContractInit == Init => Contract!Init
<1> SUFFICES ASSUME Init PROVE Contract!Init
  OBVIOUS
<1>1. Lived /\ store.sequence = 0
  BY BooksInit, BooksGiveLives DEF Init, EmptyStore
<1>2. \A s \in 1..MaxNumber : s \in Nat /\ s > store.sequence
  BY <1>1, MaxNumberAssumption
<1>3. \A s \in 1..MaxNumber : PlaceOf(s) = "unborn" /\ (s \in FlaggedNumbers) = FALSE
  BY <1>1, <1>2 DEF Lived
<1>4. LivesOf(MaxNumber) = [s \in 1..MaxNumber |-> [place |-> "unborn", flagged |-> FALSE]]
  BY <1>3 DEF LivesOf
<1> QED BY <1>4 DEF Contract!Init

(* Every operation is a step of the contract. *)
LEMMA ContractNext ==
  ASSUME BooksInv, BooksInv', BookStep
  PROVE  Contract!Next
<1> DEFINE was == LivesOf(MaxNumber)
           is  == LivesOf(MaxNumber)'
<1>1. /\ Lived /\ NumberedAll /\ Outlived
  BY BooksGiveLives, BooksNumberAll, BooksOutlive
<1>2. Lived' /\ NumberedAll'
  <2>1. BooksInv' => Lived'
    BY BooksGiveLives, PTL
  <2>2. BooksInv' => NumberedAll'
    BY BooksNumberAll, PTL
  <2> QED BY <2>1, <2>2
<1>3. \A s \in 1..MaxNumber : s \in Nat \ {0}
  BY MaxNumberAssumption
<1>4. /\ was = [s \in 1..MaxNumber |-> [place |-> PlaceOf(s), flagged |-> s \in FlaggedNumbers]]
      /\ is = [s \in 1..MaxNumber |-> [place |-> PlaceOf(s)', flagged |-> s \in FlaggedNumbers']]
  BY DEF LivesOf
<1>5. was \in [1..MaxNumber -> Contract!Lives] /\ is \in [1..MaxNumber -> Contract!Lives]
  <2>1. \A s \in Nat \ {0} : PlaceOf(s) \in Contract!Places
    BY <1>1, LivesTyped
  <2>2. \A s \in Nat \ {0} : PlaceOf(s)' \in Contract!Places
    BY <1>2 DEF Lived, NumberedAll, Contract!Places
  <2> HIDE DEF was, is
  <2> QED BY <1>3, <1>4, <2>1, <2>2 DEF Contract!Lives
<1>6. Contract!Moves(was, is)
  <2> SUFFICES ASSUME NEW s \in 1..MaxNumber
               PROVE  \/ is[s] = was[s]
                      \/ Contract!Publish(was[s], is[s]) \/ Contract!Deliver(was[s], is[s])
                      \/ Contract!Return(was[s], is[s]) \/ Contract!End(was[s], is[s])
    BY DEF Contract!Moves
  <2> HIDE DEF was, is
  <2>1. /\ was[s].place = PlaceOf(s) /\ was[s].flagged = (s \in FlaggedNumbers)
        /\ is[s].place = PlaceOf(s)' /\ is[s].flagged = (s \in FlaggedNumbers')
        /\ was[s] = [place |-> PlaceOf(s), flagged |-> s \in FlaggedNumbers]
        /\ is[s] = [place |-> PlaceOf(s)', flagged |-> s \in FlaggedNumbers']
    BY <1>4
  <2>2. CASE PlaceOf(s)' = PlaceOf(s) /\ (s \in FlaggedNumbers' <=> s \in FlaggedNumbers)
    BY <2>1, <2>2
  <2>3. CASE /\ PlaceOf(s) = "unborn" /\ PlaceOf(s)' \in {"waiting", "gone"}
             /\ s \notin FlaggedNumbers'
    BY <2>1, <2>3 DEF Contract!Publish
  <2>4. CASE /\ PlaceOf(s) = "waiting" /\ PlaceOf(s)' \in Transports
             /\ s \in FlaggedNumbers' <=> s \in FlaggedNumbers
    BY <2>1, <2>4 DEF Contract!Deliver
  <2>5. CASE /\ PlaceOf(s) \in Transports /\ PlaceOf(s)' = "waiting"
             /\ s \in FlaggedNumbers'
    BY <2>1, <2>5 DEF Contract!Return
  <2>6. CASE /\ PlaceOf(s) \in Transports \cup {"waiting"} /\ PlaceOf(s)' = "gone"
             /\ s \in FlaggedNumbers' <=> s \in FlaggedNumbers
    BY <2>1, <2>6 DEF Contract!End
  <2> QED BY <1>1, <1>2, <1>3, <2>2, <2>3, <2>4, <2>5, <2>6, OneLife
<1>7. Contract!OneEach(is)
  <2> HIDE DEF was, is
  <2>1. OneNumberEach'
    BY BooksOneNumberEach, PTL
  <2> QED BY <1>3, <1>4, <2>1 DEF OneNumberEach, Contract!OneEach
<1> HIDE DEF was, is
<1>8. /\ was \in {LivesOf(MaxNumber)} /\ is \in {LivesOf(MaxNumber)'}
  BY DEF was, is
<1> QED BY <1>5, <1>6, <1>7, <1>8 DEF Contract!Next

(* The reference backend implements the delivery contract of ITransport:   *)
(* each message waits, is with one consumer at a time and ends; it comes   *)
(* back from a consumer flagged and from its end never.                    *)
THEOREM KeepsDeliveryContract == Spec => KeepsContract
<1>1. BooksInv /\ [Next]_vars => [Contract!Next]_(LivesOf(MaxNumber))
  <2> SUFFICES ASSUME BooksInv, [Next]_vars PROVE Contract!Next
    OBVIOUS
  <2>1. BooksInv' /\ BookStep
    BY BooksNext, NextBooks
  <2> QED BY <2>1, ContractNext
<1> QED BY <1>1, BooksInit, BooksNext, ContractInit, PTL DEF Spec, KeepsContract, Contract!Spec

-----------------------------------------------------------------------------
(* The counters.                                                           *)

(* The number of elements of a set with at most one. *)
LEMMA AtMostOne ==
  ASSUME NEW S, \A m, n \in S : m = n
  PROVE  /\ S = {} => Cardinality(S) = 0
         /\ S # {} => Cardinality(S) = 1
         /\ Cardinality(S) \in Nat
<1>1. CASE S = {}
  BY <1>1, FS_EmptySet
<1>2. CASE S # {}
  <2>1. PICK m \in S : S = {m}
    BY <1>2
  <2>2. Cardinality({m}) = 1
    BY FS_Singleton
  <2> QED BY <1>2, <2>1, <2>2
<1> QED BY <1>1, <1>2

(* What a transport's counters and history say of its deliveries. *)
Balanced(st, un, held) ==
  st["received"] = st["acks"] + st["rejects"] + st["requeues"] + un + Cardinality(held)

(* The step of one transport at a time. *)
LEMMA BalanceStep ==
  ASSUME TypeOK, TypeOK', NEW p \in Transports, StatsBalance,
         \A q \in Transports : q # p => /\ stats'[q] = stats[q]
                                        /\ uncounted'[q] = uncounted[q]
                                        /\ outstanding'[q] = outstanding[q],
         Balanced(stats'[p], uncounted'[p], outstanding'[p])
  PROVE  StatsBalance'
BY DEF StatsBalance, Balanced

(* Every delivery that leaves a transport moves one counter. *)
LEMMA LeavingBalances ==
  ASSUME BooksInv, BooksInv', StatsBalance, NEW p \in Transports, NEW m \in outstanding[p],
         outstanding' = [outstanding EXCEPT ![p] = @ \ {m}],
         \/ \E c \in {"acks", "rejects", "requeues"} : Count(p, c) /\ uncounted' = uncounted
         \/ Uncounted(p) /\ stats' = stats
  PROVE  StatsBalance'
<1>1. TypeOK /\ TypeOK'
  BY DEF BooksInv, OrderInv
<1>2. /\ outstanding'[p] = {} /\ outstanding[p] # {}
      /\ \A q \in Transports : q # p => outstanding'[q] = outstanding[q]
  BY HeldLess
<1>3. Cardinality(outstanding'[p]) = 0 /\ Cardinality(outstanding[p]) = 1
  BY <1>2, AtMostOne DEF BooksInv
<1>4. /\ stats \in [Transports -> [Counters -> Nat]] /\ uncounted \in [Transports -> Nat]
      /\ stats[p] \in [Counters -> Nat] /\ uncounted[p] \in Nat
      /\ \A c \in Counters : stats[p][c] \in Nat
  BY <1>1 DEF TypeOK
<1>5. stats[p]["received"] = stats[p]["acks"] + stats[p]["rejects"] + stats[p]["requeues"]
                               + uncounted[p] + 1
  BY <1>3 DEF StatsBalance
<1>6. ASSUME NEW c \in {"acks", "rejects", "requeues"}, Count(p, c), uncounted' = uncounted
      PROVE  StatsBalance'
  <2>1. /\ stats'[p] = [stats[p] EXCEPT ![c] = @ + 1]
        /\ \A q \in Transports : q # p => stats'[q] = stats[q]
    BY <1>4, <1>6 DEF Count
  <2>2. Balanced(stats'[p], uncounted'[p], outstanding'[p])
    BY <1>3, <1>4, <1>5, <1>6, <2>1 DEF Balanced, Counters
  <2> QED BY <1>1, <1>2, <1>6, <2>1, <2>2, BalanceStep
<1>7. ASSUME Uncounted(p), stats' = stats PROVE StatsBalance'
  <2>1. /\ uncounted'[p] = uncounted[p] + 1
        /\ \A q \in Transports : q # p => uncounted'[q] = uncounted[q]
    BY <1>4, <1>7 DEF Uncounted
  <2>2. Balanced(stats'[p], uncounted'[p], outstanding'[p])
    BY <1>3, <1>4, <1>5, <1>7, <2>1 DEF Balanced, Counters
  <2> QED BY <1>1, <1>2, <1>7, <2>1, <2>2, BalanceStep
<1> QED BY <1>6, <1>7

(* The switch at the end of pump() and settle(). *)
LEMMA ResolveBalances ==
  ASSUME BooksInv, BooksInv', StatsBalance, NEW p \in Transports, NEW m \in outstanding[p],
         NEW d, Resolve(p, m, d)
  PROVE  StatsBalance'
<1>1. outstanding' = [outstanding EXCEPT ![p] = @ \ {m}]
  BY DEF Resolve
<1>2. \/ \E c \in {"acks", "rejects", "requeues"} : Count(p, c) /\ uncounted' = uncounted
      \/ Uncounted(p) /\ stats' = stats
  <2>1. CASE Count(p, "acks") /\ uncounted' = uncounted
    BY <2>1
  <2>2. CASE Count(p, "requeues") /\ uncounted' = uncounted
    BY <2>2
  <2>3. CASE IF Unprovisioned(subscription[p])
             THEN Uncounted(p) /\ UNCHANGED stats
             ELSE Count(p, "rejects") /\ UNCHANGED uncounted
    BY <2>3
  <2> QED BY <2>1, <2>2, <2>3 DEF Resolve
<1> QED BY <1>1, <1>2, LeavingBalances

LEMMA BalanceNext == BooksInv /\ BooksInv' /\ StatsBalance /\ [Next]_vars => StatsBalance'
<1> SUFFICES ASSUME BooksInv, BooksInv', StatsBalance, [Next]_vars PROVE StatsBalance'
  OBVIOUS
<1>0. TypeOK /\ TypeOK'
  BY DEF BooksInv, OrderInv
<1>1. ASSUME UNCHANGED <<stats, uncounted, outstanding>> PROVE StatsBalance'
  BY <1>1 DEF StatsBalance
<1>2. ASSUME NEW p \in Transports, take(p) PROVE StatsBalance'
  <2> DEFINE h == Head(store.messages[subscription[p]])
  <2>1. /\ outstanding[p] = {} /\ outstanding' = [outstanding EXCEPT ![p] = {h}]
        /\ Count(p, "received") /\ uncounted' = uncounted
    BY <1>2 DEF take
  <2>2. /\ outstanding'[p] = {h} /\ outstanding'[p] # {}
        /\ \A q \in Transports : q # p => outstanding'[q] = outstanding[q]
    BY <2>1, HeldMore
  <2>3. Cardinality(outstanding[p]) = 0 /\ Cardinality(outstanding'[p]) = 1
    BY <2>1, <2>2, AtMostOne DEF BooksInv
  <2>4. /\ stats \in [Transports -> [Counters -> Nat]] /\ uncounted \in [Transports -> Nat]
        /\ stats[p] \in [Counters -> Nat] /\ uncounted[p] \in Nat
        /\ \A c \in Counters : stats[p][c] \in Nat
    BY <1>0 DEF TypeOK
  <2>5. stats[p]["received"] = stats[p]["acks"] + stats[p]["rejects"] + stats[p]["requeues"]
                                 + uncounted[p] + 0
    BY <2>3 DEF StatsBalance
  <2>6. /\ stats'[p] = [stats[p] EXCEPT !["received"] = @ + 1]
        /\ \A q \in Transports : q # p => stats'[q] = stats[q]
    BY <2>1, <2>4 DEF Count
  <2>7. Balanced(stats'[p], uncounted'[p], outstanding'[p])
    BY <2>1, <2>3, <2>4, <2>5, <2>6 DEF Balanced, Counters
  <2> QED BY <1>0, <2>1, <2>2, <2>6, <2>7, BalanceStep
<1>3. ASSUME NEW p \in Transports, NEW d, handlerReturns(p, d) PROVE StatsBalance'
  BY <1>3, ResolveBalances DEF handlerReturns
<1>4. ASSUME NEW p \in Transports, NEW s, NEW d, settle(p, s, d) PROVE StatsBalance'
  BY <1>4, ResolveBalances DEF settle
<1>5. ASSUME NEW p \in Transports, returnOutstanding(p) PROVE StatsBalance'
  <2>1. PICK m \in outstanding[p] : outstanding' = [outstanding EXCEPT ![p] = @ \ {m}]
    BY <1>5 DEF returnOutstanding
  <2> QED BY <1>5, <2>1, LeavingBalances DEF returnOutstanding
<1>6. ASSUME NEW p \in Transports,
             \/ connect(p) \/ ensureSource(p) \/ handlerDefers(p) \/ close(p)
             \/ finishClose(p)
      PROVE  StatsBalance'
  BY <1>1, <1>6
     DEF connect, ensureSource, Declare, handlerDefers, close, finishClose, historyVars
<1>10. ASSUME NEW p \in Transports, handlerThrows(p) PROVE StatsBalance'
  <2>1. Count(p, "abandoned") /\ uncounted' = uncounted /\ outstanding' = outstanding
    BY <1>10 DEF handlerThrows, historyVars
  <2>2. stats \in [Transports -> [Counters -> Nat]]
    BY <1>0 DEF TypeOK
  <2>3. /\ stats'[p] = [stats[p] EXCEPT !["abandoned"] = @ + 1] /\ stats[p] \in [Counters -> Nat]
        /\ \A q \in Transports : q # p => stats'[q] = stats[q]
    BY <2>1, <2>2 DEF Count
  <2>4. \A c \in Counters : c # "abandoned" => stats'[p][c] = stats[p][c]
    BY <2>3
  <2>5. Balanced(stats[p], uncounted[p], outstanding[p])
    BY DEF StatsBalance, Balanced
  <2>6. Balanced(stats'[p], uncounted'[p], outstanding'[p])
    BY <2>1, <2>4, <2>5 DEF Balanced, Counters
  <2> QED BY <1>0, <2>1, <2>3, <2>6, BalanceStep
<1>7. ASSUME NEW p \in Transports, NEW t \in Topics, NEW o,
             \/ ensureForensic(p, t, o) \/ ensurePlain(p, t, o) \/ subscribe(p, t)
             \/ sendDirect(p, t) \/ purgeTopic(p, t) \/ sendGrouped(p, t, o)
      PROVE  StatsBalance'
  BY <1>1, <1>7
     DEF ensureForensic, ensurePlain, Declare, subscribe, sendDirect, purgeTopic, sendGrouped,
         transportVars, historyVars
<1>8. ASSUME fanoutDone \/ \E t \in Names : fanoutCopy(t) PROVE StatsBalance'
  BY <1>1, <1>8 DEF fanoutDone, fanoutCopy, transportVars, historyVars
<1>9. ASSUME UNCHANGED vars PROVE StatsBalance'
  BY <1>1, <1>9 DEF vars, transportVars, historyVars
<1> QED BY <1>2, <1>3, <1>4, <1>5, <1>6, <1>7, <1>8, <1>9, <1>10 DEF Next

(* The counters of every transport account for every delivery it was ever  *)
(* given, through handlers that throw, settlements out of turn and         *)
(* restarts.                                                               *)
THEOREM CountersBalance == Spec => []StatsBalance
<1>1. Init => StatsBalance
  <2> SUFFICES ASSUME Init, NEW p \in Transports
               PROVE  Balanced(stats[p], uncounted[p], outstanding[p])
    BY DEF StatsBalance, Balanced
  <2>1. /\ outstanding[p] = {} /\ uncounted[p] = 0
        /\ stats[p] = [c \in Counters |-> 0]
    BY DEF Init
  <2>2. Cardinality(outstanding[p]) = 0
    BY <2>1, FS_EmptySet
  <2> QED BY <2>1, <2>2 DEF Balanced, Counters
<1> QED BY <1>1, BooksInit, BooksNext, BalanceNext, PTL DEF Spec

-----------------------------------------------------------------------------
(* What the limits let in.                                                 *)

(* From the queue q of u to r: nothing was added, or the oldest made room. *)
Displaced(q, r, u) ==
  \/ r = q
  \/ r = Tail(q)
  \/ options[u].overflow = "DropHead" /\ \E m \in Held : r = Append(Tail(q), m)

(* From b to c, a queue at its limit has let nothing in beside what it     *)
(* held, and a destination that refuses what is too much has lost nothing. *)
Admitted(b, c) ==
  \A u \in Names :
    /\ Full(b, u) => Displaced(b.messages[u], c.messages[u], u)
    /\ options[u].overflow = "RejectPublish" => At(b, u) \subseteq At(c, u)

(* Admitted depends on the queues only. *)
LEMMA AdmittedQueues ==
  ASSUME NEW a, NEW b, NEW c, a.messages = b.messages, Admitted(a, c)
  PROVE  Admitted(b, c)
BY DEF Admitted, Full, At

(* The lengths of the queues of a store are numbers. *)
LEMMA QueuesHaveLengths ==
  ASSUME NEW b \in Stores
  PROVE  \A u \in Names : b.messages[u] \in Seq(Held) /\ Len(b.messages[u]) \in Nat
<1>1. b.messages \in [Names -> Seq(Held)]
  BY DEF Stores
<1> QED BY <1>1

(* A step that leaves the queues alone. *)
LEMMA AdmittedSame ==
  ASSUME NEW b, NEW c, c.messages = b.messages
  PROVE  Admitted(b, c)
BY DEF Admitted, Displaced, At

(* push_back below the bound. *)
LEMMA AdmittedPushBack ==
  ASSUME NEW b \in Stores, NEW t \in Names, NEW m \in Held, ~Full(b, t)
  PROVE  Admitted(b, PushBack(b, t, m))
<1> DEFINE c == PushBack(b, t, m)
           q == b.messages[t]
<1>1. /\ q \in Seq(Held) /\ c.messages[t] = Append(q, m)
      /\ \A u \in Names : u # t => c.messages[u] = b.messages[u]
  BY PushBackShape, QueuesHaveLengths
<1>2. At(b, t) \subseteq At(c, t)
  BY <1>1, AppendContents DEF At
<1> HIDE DEF c, q
<1>3. \A u \in Names : u # t => /\ Displaced(b.messages[u], c.messages[u], u)
                                /\ At(b, u) \subseteq At(c, u)
  BY <1>1 DEF Displaced, At
<1>4. Admitted(b, c)
  BY <1>2, <1>3 DEF Admitted
<1> QED BY <1>4 DEF c

(* Enqueueing at a forensic destination. *)
LEMMA AdmittedForensic ==
  ASSUME NEW b \in Stores, NEW t \in Names, NEW m \in Held, TypeOK
  PROVE  Admitted(b, enqueueForensic(b, t, m))
<1> DEFINE c == enqueueForensic(b, t, m)
           q == b.messages[t]
           h == Head(q)
           d == PopFront(b, t)
           e == Gone(d, "dropped", h)
<1>0. options[t].overflow \in OverflowPolicy /\ q \in Seq(Held)
  BY QueuesHaveLengths DEF TypeOK, TopicOptions
<1>1. \/ c = PushBack(b, t, m) /\ ~Full(b, t)
      \/ c = Gone(b, "refused", m)
      \/ c = Gone(b, "dropped", m)
      \/ /\ Full(b, t) /\ options[t].overflow = "DropHead"
         /\ c \in {Gone(e, "lost", m), PushBack(e, t, m)}
  BY <1>0 DEF enqueueForensic, EnqueueWith, Discard, OverflowPolicy
<1>2. CASE c = PushBack(b, t, m) /\ ~Full(b, t)
  <2> HIDE DEF c
  <2>1. Admitted(b, c)
    BY <1>2, AdmittedPushBack
  <2> QED BY <2>1 DEF c
<1>3. CASE c = Gone(b, "refused", m) \/ c = Gone(b, "dropped", m)
  <2> HIDE DEF c
  <2>1. c.messages = b.messages
    BY <1>3, GoneShape DEF Fates
  <2>2. Admitted(b, c)
    BY <2>1, AdmittedSame
  <2> QED BY <2>2 DEF c
<1>4. CASE /\ Full(b, t) /\ options[t].overflow = "DropHead"
           /\ c \in {Gone(e, "lost", m), PushBack(e, t, m)}
  <2>1. q # <<>> /\ d \in Stores /\ h \in Held
    BY <1>4, FullHasHead, PopFrontType
  <2>2. e \in Stores /\ e.messages = d.messages
    BY <2>1, GoneType, GoneShape DEF Fates
  <2>3. /\ d.messages[t] = Tail(q)
        /\ \A u \in Names : u # t => d.messages[u] = b.messages[u]
    BY PopFrontShape
  <2> HIDE DEF c, d, e, h
  <2>4. /\ c.messages[t] \in {Tail(q), Append(Tail(q), m)}
        /\ \A u \in Names : u # t => c.messages[u] = b.messages[u]
    <3>1. CASE c = Gone(e, "lost", m)
      <4>1. c.messages = e.messages
        BY <2>2, <3>1, GoneShape DEF Fates
      <4> QED BY <2>2, <2>3, <4>1
    <3>2. CASE c = PushBack(e, t, m)
      <4>1. /\ c.messages[t] = Append(e.messages[t], m)
            /\ \A u \in Names : u # t => c.messages[u] = e.messages[u]
        BY <2>2, <3>2, PushBackShape
      <4>2. e.messages[t] = Tail(q)
        BY <2>2, <2>3
      <4>3. c.messages[t] = Append(Tail(q), m)
        BY <4>1, <4>2
      <4> QED BY <2>2, <2>3, <4>1, <4>3
    <3> QED BY <1>4, <3>1, <3>2
  <2>5. Displaced(q, c.messages[t], t)
    BY <1>4, <2>4 DEF Displaced
  <2>6. \A u \in Names : u # t => /\ Displaced(b.messages[u], c.messages[u], u)
                                  /\ At(b, u) \subseteq At(c, u)
    BY <2>4 DEF Displaced, At
  <2>7. options[t].overflow # "RejectPublish"
    BY <1>4
  <2>8. Admitted(b, c)
    BY <2>5, <2>6, <2>7 DEF Admitted
  <2> QED BY <2>8 DEF c
<1> QED BY <1>1, <1>2, <1>3, <1>4

(* Dead-lettering respects the limit of the forensic destination. *)
LEMMA AdmittedDeadLetter ==
  ASSUME NEW b \in Stores, NEW t, NEW m \in Held, TypeOK
  PROVE  Admitted(b, deadLetterLocked(b, t, m))
<1> DEFINE n == b.sequence + 1
           d == Gone(b, "dead", m)
           a == [d EXCEPT !.sequence = n]
           v == [m EXCEPT !.sequence = n, !.redelivered = FALSE]
           c == deadLetterLocked(b, t, m)
           f == deadLetterTopic(t)
<1>1. CASE t \notin topics \/ ~options[t].deadLetter \/ Unprovisioned(t)
  <2>1. c = Gone(b, "dropped", m) \/ c = Gone(b, "lost", m)
    BY <1>1 DEF deadLetterLocked
  <2> HIDE DEF c
  <2>2. c.messages = b.messages
    BY <2>1, GoneShape DEF Fates
  <2>3. Admitted(b, c)
    BY <2>2, AdmittedSame
  <2> QED BY <2>3 DEF c
<1>2. CASE ~(t \notin topics \/ ~options[t].deadLetter \/ Unprovisioned(t))
  <2>1. f \in Names /\ f \in topics
    BY <1>2 DEF Unprovisioned, TypeOK
  <2>2. d \in Stores /\ d.messages = b.messages
    BY GoneType, GoneShape DEF Fates
  <2>3. n \in Nat
    BY DEF Stores
  <2>4. v \in Held
    BY <2>3 DEF Held
  <2>5. a \in Stores /\ a.messages = b.messages
    <3> HIDE DEF d, n
    <3> QED BY <2>2, <2>3 DEF Stores
  <2>6. c = enqueueForensic(a, f, v)
    BY <1>2 DEF deadLetterLocked
  <2> HIDE DEF a, c, v, f
  <2>7. Admitted(a, c)
    BY <2>1, <2>4, <2>5, <2>6, AdmittedForensic
  <2>8. Admitted(b, c)
    BY <2>5, <2>7, AdmittedQueues
  <2> QED BY <2>8 DEF c
<1> QED BY <1>1, <1>2

(* A publish to t. *)
LEMMA AdmittedPublish ==
  ASSUME NEW b \in Stores, NEW t \in Names, NEW body \in Nat, TypeOK
  PROVE  Admitted(b, EnqueueNew(b, t, body))
<1> DEFINE n == b.sequence + 1
           a == [b EXCEPT !.sequence = n]
           m == [sequence |-> n, body |-> body, redelivered |-> FALSE]
           c == EnqueueNew(b, t, body)
           q == b.messages[t]
           h == Head(q)
           p == PopFront(a, t)
<1>1. n \in Nat
  BY DEF Stores
<1>2. a \in Stores /\ a.messages = b.messages /\ m \in Held
  <2> HIDE DEF n
  <2> QED BY <1>1 DEF Stores, Held
<1>3. options[t].overflow \in OverflowPolicy /\ q \in Seq(Held)
  BY QueuesHaveLengths DEF TypeOK, TopicOptions
<1>4. c = EnqueueWith(deadLetterLocked, a, t, m)
  BY DEF EnqueueNew, enqueueLocked
<1> SUFFICES Admitted(b, c)
  OBVIOUS
<1> HIDE DEF a, m, c
<1>5. \/ c = PushBack(a, t, m) /\ ~Full(a, t)
      \/ c = Gone(a, "refused", m)
      \/ c = deadLetterLocked(a, t, m) /\ options[t].overflow = "RejectPublishDlx"
      \/ /\ Full(a, t) /\ options[t].overflow = "DropHead"
         /\ \E e \in {deadLetterLocked(p, t, h), Gone(p, "dropped", h)} :
              c \in {Gone(e, "lost", m), PushBack(e, t, m)}
  BY <1>2, <1>3, <1>4 DEF EnqueueWith, OverflowPolicy
<1>6. ASSUME Admitted(a, c) PROVE Admitted(b, c)
  BY <1>2, <1>6, AdmittedQueues
<1>7. CASE c = PushBack(a, t, m) /\ ~Full(a, t)
  BY <1>2, <1>6, <1>7, AdmittedPushBack
<1>8. CASE c = Gone(a, "refused", m)
  <2>1. c.messages = a.messages
    BY <1>2, <1>8, GoneShape DEF Fates
  <2> QED BY <1>6, <2>1, AdmittedSame
<1>9. CASE c = deadLetterLocked(a, t, m)
  BY <1>2, <1>6, <1>9, AdmittedDeadLetter
<1>10. ASSUME Full(a, t), options[t].overflow = "DropHead",
              NEW e \in {deadLetterLocked(p, t, h), Gone(p, "dropped", h)},
              c \in {Gone(e, "lost", m), PushBack(e, t, m)}
       PROVE  Admitted(b, c)
  <2>1. q # <<>> /\ p \in Stores /\ h \in Held
    BY <1>2, <1>10, FullHasHead, PopFrontType
  <2>2. /\ p.messages[t] = Tail(q)
        /\ \A u \in Names : u # t => p.messages[u] = b.messages[u]
    BY <1>2, PopFrontShape
  <2> HIDE DEF p, h
  <2>3. /\ e \in Stores /\ e.messages[t] = Tail(q)
        /\ Admitted(p, e)
    <3>1. CASE e = Gone(p, "dropped", h)
      <4>1. e \in Stores /\ e.messages = p.messages
        BY <2>1, <3>1, GoneType, GoneShape DEF Fates
      <4> QED BY <2>1, <2>2, <4>1, AdmittedSame
    <3>2. CASE e = deadLetterLocked(p, t, h)
      <4>1. e \in Stores /\ t # deadLetterTopic(t)
        BY <2>1, <3>2, DeadLetterType, ForensicIsAnother, NamesAreNames
      <4>2. e.messages[t] = Tail(q)
        BY <2>1, <2>2, <3>2, <4>1, DeadLetterShape
      <4> QED BY <2>1, <3>2, <4>1, <4>2, AdmittedDeadLetter
    <3> QED BY <1>10, <3>1, <3>2
  <2>4. /\ c.messages[t] \in {Tail(q), Append(Tail(q), m)}
        /\ \A u \in Names : u # t => c.messages[u] = e.messages[u]
    <3>1. CASE c = Gone(e, "lost", m)
      <4>1. c.messages = e.messages
        BY <1>2, <2>3, <3>1, GoneShape DEF Fates
      <4> QED BY <2>3, <4>1
    <3>2. CASE c = PushBack(e, t, m)
      <4>1. /\ c.messages[t] = Append(e.messages[t], m)
            /\ \A u \in Names : u # t => c.messages[u] = e.messages[u]
        BY <1>2, <2>3, <3>2, PushBackShape
      <4>2. e.messages[t] = Tail(q)
        BY <2>3
      <4>3. c.messages[t] = Append(Tail(q), m)
        BY <4>1, <4>2
      <4> QED BY <4>1, <4>3
    <3> QED BY <1>10, <3>1, <3>2
  <2>5. Displaced(q, c.messages[t], t)
    BY <1>2, <1>10, <2>4 DEF Displaced
  <2>6. options[t].overflow # "RejectPublish"
    BY <1>10
  <2>7. ASSUME NEW u \in Names, u # t
        PROVE  /\ Full(b, u) => Displaced(b.messages[u], c.messages[u], u)
               /\ options[u].overflow = "RejectPublish" => At(b, u) \subseteq At(c, u)
    <3>1. c.messages[u] = e.messages[u] /\ p.messages[u] = b.messages[u]
      BY <2>2, <2>4, <2>7
    <3>2. Full(b, u) => Full(p, u)
      BY <3>1 DEF Full
    <3> QED BY <2>3, <3>1, <3>2 DEF Admitted, At
  <2> QED BY <2>5, <2>6, <2>7 DEF Admitted
<1> QED BY <1>5, <1>7, <1>8, <1>9, <1>10

-----------------------------------------------------------------------------
(* What the operations do to the queues, all of them.  A step that leaves  *)
(* the queues and the deliveries alone may declare new destinations and    *)
(* subscribe or unsubscribe a transport that holds nothing.                *)

Quiet ==
  /\ UNCHANGED <<store, outstanding, taken>>
  /\ topics \subseteq topics'
  /\ \A t \in topics : options'[t] = options[t]
  /\ \A p \in Transports : outstanding[p] # {} => subscription'[p] = subscription[p]

Published(t) ==
  /\ AllGrown(store, store') /\ Admitted(store, store')
  /\ topics' = topics \cup {t}
  /\ UNCHANGED <<options, outstanding, subscription, taken>>

Taken(p) ==
  /\ subscription[p] \in topics
  /\ Handed(p, subscription[p])
  /\ UNCHANGED <<topics, options, subscription>>

LetGo(p, m) ==
  /\ AllGrown(store, store')
  /\ Admitted(store, store')
  /\ outstanding' = [outstanding EXCEPT ![p] = @ \ {m}]
  /\ UNCHANGED <<topics, options, subscription, taken>>

GaveBack(p, m) ==
  /\ Returned(p, m, subscription[p])
  /\ UNCHANGED <<topics, options, subscription>>

Purged(t) ==
  /\ store' = purge(store, t)
  /\ UNCHANGED <<topics, options, outstanding, subscription, taken>>

QueueStep ==
  \/ Quiet
  \/ \E t \in Names : Published(t) \/ Purged(t)
  \/ \E p \in Transports : Taken(p) \/ \E m \in outstanding[p] : LetGo(p, m) \/ GaveBack(p, m)

(* The switch at the end of pump() and settle(). *)
LEMMA ResolveQueues ==
  ASSUME BooksInv, NEW p \in Transports, NEW m \in outstanding[p], NEW d, Resolve(p, m, d)
  PROVE  LetGo(p, m) \/ GaveBack(p, m)
<1>1. /\ subscription[p] \in Names /\ m \in Held /\ TypeOK /\ store \in Stores
  BY HoldersSubscribe
<1>2. /\ outstanding' = [outstanding EXCEPT ![p] = @ \ {m}] /\ taken' = taken
      /\ UNCHANGED <<topics, options, subscription>>
  BY DEF Resolve
<1>3. CASE store' = Gone(store, "acked", m)
  <2>1. store'.messages = store.messages /\ store'.sequence = store.sequence
    BY <1>1, <1>3, GoneShape DEF Fates
  <2>2. Admitted(store, store')
    BY <2>1, AdmittedSame
  <2>3. AllGrown(store, store')
    BY <1>1, <2>1 DEF AllGrown, Grown, Stores
  <2> QED BY <1>2, <2>2, <2>3 DEF LetGo
<1>4. CASE store' = requeue(store, subscription[p], m)
  BY <1>2, <1>4 DEF GaveBack, Returned
<1>5. CASE store' = deadLetterLocked(store, subscription[p], m)
  BY <1>1, <1>2, <1>5, DeadLetterShape, AdmittedDeadLetter DEF LetGo
<1> QED BY <1>3, <1>4, <1>5 DEF Resolve

LEMMA NextQueues ==
  ASSUME BooksInv, [Next]_vars
  PROVE  QueueStep
<1>0. TypeOK /\ store \in Stores /\ topics \subseteq Names
  BY DEF BooksInv, OrderInv, TypeOK
<1>1. ASSUME UNCHANGED <<store, outstanding, taken, topics, options, subscription>>
      PROVE  QueueStep
  BY <1>1 DEF QueueStep, Quiet
<1>2. ASSUME NEW p \in Transports, NEW t \in Topics, sendDirect(p, t) PROVE QueueStep
  <2>1. store' = EnqueueNew(store, t, store.sequence + 1) /\ store.sequence + 1 \in Nat
    BY <1>0, <1>2 DEF sendDirect, Stores
  <2>2. AllGrown(store, store') /\ Admitted(store, store') /\ t \in Names
    BY <1>0, <2>1, PublishShape, AdmittedPublish, NamesAreNames
  <2>3. Published(t)
    BY <1>2, <2>2 DEF sendDirect, transportVars, historyVars, Published
  <2> QED BY <2>2, <2>3 DEF QueueStep
<1>3. ASSUME NEW t \in Names, fanoutCopy(t) PROVE QueueStep
  <2>1. /\ store' = EnqueueNew(store, t, fanout.body) /\ fanout.body \in Nat /\ t \in topics
    BY <1>0, <1>3 DEF fanoutCopy, Unlocked, TypeOK
  <2>2. AllGrown(store, store') /\ Admitted(store, store')
    BY <1>0, <2>1, PublishShape, AdmittedPublish
  <2>3. Published(t)
    BY <1>3, <2>1, <2>2 DEF fanoutCopy, transportVars, historyVars, Published
  <2> QED BY <2>3 DEF QueueStep
<1>4. ASSUME NEW p \in Transports, take(p) PROVE QueueStep
  <2>1. Taken(p)
    BY <1>4 DEF take, Taken, Handed
  <2> QED BY <2>1 DEF QueueStep
<1>5. ASSUME NEW p \in Transports, NEW d, handlerReturns(p, d) PROVE QueueStep
  BY <1>5, ResolveQueues DEF handlerReturns, QueueStep
<1>6. ASSUME NEW p \in Transports, NEW s, NEW d, settle(p, s, d) PROVE QueueStep
  BY <1>6, ResolveQueues DEF settle, QueueStep
<1>7. ASSUME NEW p \in Transports, NEW t \in Topics, purgeTopic(p, t) PROVE QueueStep
  <2>1. Purged(t) /\ t \in Names
    BY <1>7, NamesAreNames DEF purgeTopic, Purged, transportVars, historyVars
  <2> QED BY <2>1 DEF QueueStep
<1>8. ASSUME NEW p \in Transports, returnOutstanding(p) PROVE QueueStep
  <2>1. \E m \in outstanding[p] : GaveBack(p, m)
    BY <1>8 DEF returnOutstanding, GaveBack, Returned
  <2> QED BY <2>1 DEF QueueStep
<1>9. ASSUME NEW p \in Transports,
             connect(p) \/ handlerDefers(p) \/ handlerThrows(p) \/ close(p)
      PROVE  QueueStep
  BY <1>1, <1>9 DEF connect, handlerDefers, handlerThrows, close, brokerVars, historyVars
<1>10. ASSUME NEW p \in Transports, finishClose(p) PROVE QueueStep
  <2>1. Quiet
    BY <1>0, <1>10 DEF finishClose, Quiet, brokerVars, historyVars, TypeOK
  <2> QED BY <2>1 DEF QueueStep
<1>11. ASSUME NEW p \in Transports, NEW t \in Topics, subscribe(p, t) PROVE QueueStep
  <2>1. outstanding[p] = {}
    BY <1>11 DEF subscribe, BooksInv, OrderInv
  <2>2. Quiet
    BY <1>0, <1>11, <2>1 DEF subscribe, Quiet, brokerVars, historyVars, TypeOK
  <2> QED BY <2>2 DEF QueueStep
<1>12. ASSUME NEW t, NEW o, BrokerEnsureTopic(t, o),
              UNCHANGED <<outstanding, taken, subscription>>
       PROVE  QueueStep
  <2>1. Quiet
    BY <1>0, <1>12 DEF BrokerEnsureTopic, Quiet, TypeOK
  <2> QED BY <2>1 DEF QueueStep
<1>13. ASSUME NEW p \in Transports, NEW t \in Topics, NEW o,
              ensureForensic(p, t, o) \/ ensurePlain(p, t, o)
       PROVE  QueueStep
  BY <1>12, <1>13 DEF ensureForensic, ensurePlain, Declare, transportVars, historyVars
<1>14. ASSUME NEW p \in Transports, ensureSource(p) PROVE QueueStep
  BY <1>12, <1>14 DEF ensureSource, Declare
<1>15. ASSUME fanoutDone \/ \E p \in Transports, t \in Topics, r \in Routes \cup {EmptyString} :
                              sendGrouped(p, t, r)
       PROVE  QueueStep
  BY <1>1, <1>15 DEF fanoutDone, sendGrouped, transportVars, historyVars
<1>16. ASSUME UNCHANGED vars PROVE QueueStep
  BY <1>1, <1>16 DEF vars, brokerVars, transportVars, historyVars
<1> QED
  BY <1>2, <1>3, <1>4, <1>5, <1>6, <1>7, <1>8, <1>9, <1>10, <1>11, <1>13, <1>14, <1>15, <1>16
  DEF Next

(* No dead letter is pushed out of a provisioned forensic destination by   *)
(* another: what leaves it was taken by a consumer or purged.              *)
THEOREM EvidenceIsKept == Spec => ForensicEvidenceKept
<1> DEFINE Kept == \A t \in Topics : Provisioned(t) =>
                     LET f == deadLetterTopic(t) IN
                     \A m \in WaitingAt(f) \ WaitingAt(f)' :
                       m.sequence \in taken' \/ m \in store'.gone["purged"]
<1>1. BooksInv /\ [Next]_vars => Kept
  <2> SUFFICES ASSUME BooksInv, [Next]_vars, NEW t \in Topics, Provisioned(t),
                      NEW m \in At(store, deadLetterTopic(t)),
                      m \notin At(store', deadLetterTopic(t))
               PROVE  m.sequence \in taken' \/ m \in store'.gone["purged"]
    BY DEF WaitingAt, At, ContentsOf
  <2> DEFINE f == deadLetterTopic(t)
  <2>0. store \in Stores /\ f \in Names /\ f \in topics
    BY NamesAreNames DEF BooksInv, OrderInv, TypeOK, Provisioned
  <2>1. options[f].overflow = "RejectPublish"
    BY DEF Provisioned, SameProperties, forensicTopicOptions, DefaultOptions
  <2> HIDE DEF f
  <2>2. m \in At(store, f) /\ m \notin At(store', f)
    BY DEF f
  <2>3. CASE Quiet
    BY <2>2, <2>3 DEF Quiet, At
  <2>4. ASSUME Admitted(store, store') PROVE FALSE
    BY <2>0, <2>1, <2>2, <2>4 DEF Admitted
  <2>5. ASSUME NEW u \in Names, Published(u) PROVE FALSE
    BY <2>4, <2>5 DEF Published
  <2>6. ASSUME NEW p \in Transports, NEW n \in outstanding[p], LetGo(p, n) PROVE FALSE
    BY <2>0, <2>4, <2>6 DEF LetGo
  <2>7. ASSUME NEW u \in Names, Purged(u) PROVE m \in store'.gone["purged"]
    <3>1. store' = purge(store, u)
      BY <2>7 DEF Purged
    <3>2. CASE u # f
      BY <2>0, <2>2, <3>1, <3>2 DEF purge, Stores, At
    <3>3. CASE u = f
      BY <2>0, <2>2, <3>1, <3>3 DEF purge, Stores, At, ContentsOf, Fates
    <3> QED BY <3>2, <3>3
  <2>8. ASSUME NEW p \in Transports, Taken(p) PROVE m.sequence \in taken'
    <3> DEFINE s == subscription[p]
               h == Head(store.messages[s])
    <3>1. /\ store' = PopFront(store, s) /\ taken' = taken \cup {h.sequence}
          /\ store.messages[s] # <<>> /\ s \in Names
      BY <2>8 DEF Taken, Handed, BooksInv, OrderInv, TypeOK
    <3>2. /\ store'.messages[s] = Tail(store.messages[s])
          /\ \A u \in Names : u # s => store'.messages[u] = store.messages[u]
      BY <2>0, <3>1, PopFrontShape
    <3>3. At(store, s) = At(store', s) \cup {h}
      BY <2>0, <3>1, <3>2, QueuesHaveLengths, TailContents DEF At
    <3> HIDE DEF s, h
    <3>4. s = f
      BY <2>0, <2>2, <3>2 DEF At
    <3> QED BY <2>2, <3>1, <3>3, <3>4
  <2>9. ASSUME NEW p \in Transports, NEW n \in outstanding[p], GaveBack(p, n) PROVE FALSE
    <3> DEFINE s == subscription[p]
               v == [n EXCEPT !.redelivered = TRUE]
    <3>1. store' = requeue(store, s, n) /\ s \in Names /\ n \in Held /\ v \in Held
      BY <2>9, HoldersSubscribe DEF GaveBack, Returned, Held
    <3>2. /\ store'.messages[s] = <<v>> \o store.messages[s]
          /\ \A u \in Names : u # s => store'.messages[u] = store.messages[u]
      BY <2>0, <3>1, RequeueShape
    <3> HIDE DEF s, v
    <3>3. At(store', s) = At(store, s) \cup {v}
      BY <2>0, <3>1, <3>2, QueuesHaveLengths, ConsContents DEF At
    <3> QED BY <2>0, <2>2, <3>2, <3>3 DEF At
  <2>10. QueueStep
    BY NextQueues
  <2> QED BY <2>3, <2>5, <2>6, <2>7, <2>8, <2>9, <2>10 DEF QueueStep
<1> QED BY <1>1, BooksInit, BooksNext, PTL DEF Spec, ForensicEvidenceKept

-----------------------------------------------------------------------------
(* A destination at its limit.                                             *)

(* What OverflowEnforced asks of one destination. *)
Enforced(t) ==
  LET q == store.messages[t]
      r == store'.messages[t]
  IN  \/ r \in {q, Tail(q), <<>>}
      \/ /\ options[t].overflow = "DropHead"
         /\ Len(r) = Len(q)
         /\ r = Append(Tail(q), r[Len(q)])
      \/ \E p \in Transports : \E m \in outstanding[p] \ outstanding'[p] :
           /\ subscription[p] = t
           /\ r = <<[m EXCEPT !.redelivered = TRUE]>> \o q

(* Making room leaves the length as it was. *)
LEMMA DisplacedLength ==
  ASSUME NEW q \in Seq(Held), q # <<>>, NEW m \in Held, NEW r, r = Append(Tail(q), m)
  PROVE  Len(r) = Len(q) /\ r = Append(Tail(q), r[Len(q)])
<1>1. Tail(q) \in Seq(Held) /\ Len(Tail(q)) = Len(q) - 1 /\ Len(q) \in Nat
  OBVIOUS
<1>2. Len(r) = Len(Tail(q)) + 1 /\ r[Len(Tail(q)) + 1] = m
  BY <1>1
<1>3. Len(r) = Len(q) /\ r[Len(q)] = m
  BY <1>1, <1>2
<1> QED BY <1>3

(* Whoever publishes, copies, dead-letters, takes, purges or gives back: a *)
(* destination at its limit takes in a new message only in the place of    *)
(* its oldest one, and only if its policy is to drop that.                 *)
THEOREM LimitIsEnforced == Spec => OverflowEnforced
<1> DEFINE All == \A t \in Names : AtLimit(t) => Enforced(t)
<1>1. BooksInv /\ [Next]_vars => All
  <2> SUFFICES ASSUME BooksInv, [Next]_vars, NEW t \in Names, AtLimit(t) PROVE Enforced(t)
    OBVIOUS
  <2> DEFINE q == store.messages[t]
             r == store'.messages[t]
  <2>0. TypeOK /\ store \in Stores /\ q \in Seq(Held) /\ Full(store, t) /\ q # <<>>
    <3>1. TypeOK /\ store \in Stores /\ Full(store, t)
      BY DEF BooksInv, OrderInv, TypeOK, AtLimit, Full
    <3> QED BY <3>1, QueuesHaveLengths, FullHasHead
  <2> HIDE DEF q, r
  <2>1. ASSUME r \in {q, Tail(q), <<>>} PROVE Enforced(t)
    BY <2>1 DEF Enforced, q, r
  <2>2. ASSUME Admitted(store, store') PROVE Enforced(t)
    <3>1. Displaced(q, r, t)
      BY <2>0, <2>2 DEF Admitted, q, r
    <3>2. ASSUME options[t].overflow = "DropHead", NEW m \in Held, r = Append(Tail(q), m)
          PROVE  Enforced(t)
      <4>1. Len(r) = Len(q) /\ r = Append(Tail(q), r[Len(q)])
        BY <2>0, <3>2, DisplacedLength
      <4> QED BY <3>2, <4>1 DEF Enforced, q, r
    <3> QED BY <2>1, <3>1, <3>2 DEF Displaced
  <2>3. CASE Quiet
    BY <2>1, <2>3 DEF Quiet, q, r
  <2>4. ASSUME NEW u \in Names, Published(u) PROVE Enforced(t)
    BY <2>2, <2>4 DEF Published
  <2>5. ASSUME NEW p \in Transports, NEW m \in outstanding[p], LetGo(p, m) PROVE Enforced(t)
    BY <2>2, <2>5 DEF LetGo
  <2>6. ASSUME NEW u \in Names, Purged(u) PROVE Enforced(t)
    <3>1. store'.messages = [store.messages EXCEPT ![u] = <<>>] /\ DOMAIN store.messages = Names
      BY <2>0, <2>6 DEF Purged, purge, Stores
    <3> QED BY <2>1, <3>1 DEF q, r
  <2>7. ASSUME NEW p \in Transports, Taken(p) PROVE Enforced(t)
    <3> DEFINE s == subscription[p]
    <3>1. store' = PopFront(store, s) /\ s \in Names
      BY <2>0, <2>7 DEF Taken, Handed, TypeOK
    <3>2. /\ store'.messages[s] = Tail(store.messages[s])
          /\ \A u \in Names : u # s => store'.messages[u] = store.messages[u]
      BY <2>0, <3>1, PopFrontShape
    <3> HIDE DEF s
    <3> QED BY <2>1, <3>2 DEF q, r
  <2>8. ASSUME NEW p \in Transports, NEW m \in outstanding[p], GaveBack(p, m)
        PROVE  Enforced(t)
    <3> DEFINE s == subscription[p]
               v == [m EXCEPT !.redelivered = TRUE]
    <3>1. /\ store' = requeue(store, s, m) /\ s \in Names /\ m \in Held
          /\ outstanding' = [outstanding EXCEPT ![p] = @ \ {m}]
      BY <2>8, HoldersSubscribe DEF GaveBack, Returned
    <3>2. /\ store'.messages[s] = <<v>> \o store.messages[s]
          /\ \A u \in Names : u # s => store'.messages[u] = store.messages[u]
      BY <2>0, <3>1, RequeueShape
    <3>3. m \in outstanding[p] \ outstanding'[p]
      BY <2>0, <3>1 DEF TypeOK
    <3>4. CASE t = s
      <4>1. /\ subscription[p] = t
            /\ r = <<[m EXCEPT !.redelivered = TRUE]>> \o q
        BY <3>2, <3>4 DEF q, r
      <4> QED BY <3>3, <4>1 DEF Enforced, q, r
    <3>5. CASE t # s
      BY <2>1, <3>2, <3>5 DEF q, r
    <3> QED BY <3>4, <3>5
  <2>9. QueueStep
    BY NextQueues
  <2> QED BY <2>3, <2>4, <2>5, <2>6, <2>7, <2>8, <2>9 DEF QueueStep
<1>2. BooksInv /\ [Next]_vars => [All]_vars
  BY <1>1
<1>3. OverflowEnforced <=> [][All]_vars
  BY DEF OverflowEnforced, Enforced
<1> HIDE DEF All
<1> QED BY <1>2, <1>3, BooksInit, BooksNext, PTL DEF Spec

-----------------------------------------------------------------------------
(* One consumer.                                                           *)

(* A queue in publish order, behind what is held from it. *)
Sorted(q, hs) ==
  /\ \A i, j \in DOMAIN q : i < j => q[i].sequence < q[j].sequence
  /\ \A m \in hs, j \in DOMAIN q : m.sequence < q[j].sequence

LEMMA SortedTail ==
  ASSUME NEW q \in Seq(Held), NEW hs \in SUBSET Held, Sorted(q, hs), q # <<>>
  PROVE  Sorted(Tail(q), hs) /\ Sorted(Tail(q), {Head(q)})
<1>1. /\ DOMAIN Tail(q) = 1..(Len(q) - 1) /\ DOMAIN q = 1..Len(q) /\ Len(q) \in Nat \ {0}
      /\ \A i \in DOMAIN Tail(q) : i + 1 \in DOMAIN q /\ 1 < i + 1 /\ Tail(q)[i] = q[i + 1]
      /\ Head(q) = q[1] /\ 1 \in DOMAIN q
  OBVIOUS
<1>2. \A i, j \in DOMAIN Tail(q) : i < j => Tail(q)[i].sequence < Tail(q)[j].sequence
  BY <1>1 DEF Sorted
<1>3. \A j \in DOMAIN Tail(q) : Head(q).sequence < Tail(q)[j].sequence
  BY <1>1 DEF Sorted
<1>4. \A m \in hs, j \in DOMAIN Tail(q) : m.sequence < Tail(q)[j].sequence
  BY <1>1 DEF Sorted
<1> QED BY <1>2, <1>3, <1>4 DEF Sorted

LEMMA SortedAppend ==
  ASSUME NEW q \in Seq(Held), NEW hs \in SUBSET Held, NEW v \in Held, NEW n \in Nat,
         Sorted(q, hs), Ordered(q, hs, n), n < v.sequence
  PROVE  Sorted(Append(q, v), hs)
<1> DEFINE r == Append(q, v)
<1>1. /\ Len(q) \in Nat /\ DOMAIN q = 1..Len(q) /\ DOMAIN r = 1..(Len(q) + 1)
      /\ \A i \in DOMAIN q : r[i] = q[i]
      /\ r[Len(q) + 1] = v
  OBVIOUS
<1>2. /\ \A i \in DOMAIN q : q[i].sequence \in Nat /\ q[i].sequence < v.sequence
      /\ \A m \in hs : m.sequence \in Nat /\ m.sequence < v.sequence
      /\ v.sequence \in Nat
  <2>1. /\ \A i \in DOMAIN q : q[i].sequence \in Nat
        /\ \A m \in hs : m.sequence \in Nat
        /\ v.sequence \in Nat
    BY NumbersAreNumbers DEF Held
  <2> QED BY <2>1 DEF Ordered
<1>3. \A i \in DOMAIN r : i \in DOMAIN q \/ i = Len(q) + 1
  BY <1>1
<1> HIDE DEF r
<1>4. \A i, j \in DOMAIN r : i < j => r[i].sequence < r[j].sequence
  BY <1>1, <1>2, <1>3 DEF Sorted
<1>5. \A m \in hs, j \in DOMAIN r : m.sequence < r[j].sequence
  BY <1>1, <1>2, <1>3 DEF Sorted
<1>6. Sorted(r, hs)
  BY <1>4, <1>5 DEF Sorted
<1> QED BY <1>6 DEF r

LEMMA SortedGrown ==
  ASSUME NEW q \in Seq(Held), NEW r, NEW hs \in SUBSET Held, NEW lo \in Nat, NEW hi \in Nat,
         Sorted(q, hs), Ordered(q, hs, lo), Grown(q, r, lo, hi)
  PROVE  Sorted(r, hs)
<1>1. CASE r = q
  BY <1>1
<1>2. CASE q # <<>> /\ r = Tail(q)
  BY <1>2, SortedTail
<1>3. ASSUME NEW v \in Held, lo < v.sequence, r = Append(q, v) PROVE Sorted(r, hs)
  BY <1>3, SortedAppend
<1>4. ASSUME NEW v \in Held, lo < v.sequence, q # <<>>, r = Append(Tail(q), v)
      PROVE  Sorted(r, hs)
  <2>1. Tail(q) \in Seq(Held)
    BY <1>4
  <2>2. Sorted(Tail(q), hs)
    BY <1>4, SortedTail
  <2>3. Ordered(Tail(q), hs, lo)
    BY <1>4, OrderedTail
  <2> QED BY <1>4, <2>1, <2>2, <2>3, SortedAppend
<1> QED BY <1>1, <1>2, <1>3, <1>4 DEF Grown

LEMMA SortedRequeue ==
  ASSUME NEW q \in Seq(Held), NEW hs \in SUBSET Held, NEW m \in hs, Sorted(q, hs)
  PROVE  Sorted(<<[m EXCEPT !.redelivered = TRUE]>> \o q, {})
<1> DEFINE v == [m EXCEPT !.redelivered = TRUE]
           r == <<v>> \o q
<1>0. v \in Held /\ v.sequence = m.sequence
  BY DEF Held
<1>1. /\ Len(q) \in Nat /\ DOMAIN q = 1..Len(q) /\ DOMAIN r = 1..(Len(q) + 1)
      /\ \A i \in DOMAIN q : r[i + 1] = q[i]
      /\ r[1] = v
  BY <1>0
<1>2. \A i \in DOMAIN r : i = 1 \/ (i - 1 \in DOMAIN q /\ r[i] = q[i - 1])
  BY <1>1
<1> HIDE DEF v, r
<1>3. ASSUME NEW i \in DOMAIN r, NEW j \in DOMAIN r, i < j
      PROVE  r[i].sequence < r[j].sequence
  <2>1. j - 1 \in DOMAIN q /\ r[j] = q[j - 1]
    BY <1>1, <1>2, <1>3
  <2>2. CASE i = 1
    BY <1>0, <1>1, <2>1, <2>2 DEF Sorted
  <2>3. CASE i # 1
    <3>1. i - 1 \in DOMAIN q /\ r[i] = q[i - 1] /\ i - 1 < j - 1
      BY <1>1, <1>2, <1>3, <2>3
    <3> QED BY <2>1, <3>1 DEF Sorted
  <2> QED BY <2>2, <2>3
<1>4. Sorted(r, {})
  BY <1>3 DEF Sorted
<1> QED BY <1>4 DEF r, v

FifoInv == \A t \in Names : Sorted(store.messages[t], HeldFrom(t))

(* With one transport, what it does keeps every queue in publish order. *)
LEMMA FifoNext ==
  ASSUME BooksInv, QueueStep, FifoInv, NEW c, Transports = {c}
  PROVE  FifoInv'
<1>0. /\ TypeOK /\ store \in Stores /\ store.sequence \in Nat
      /\ outstanding \in [Transports -> SUBSET Held]
      /\ \A u \in Names : store.messages[u] \in Seq(Held)
      /\ \A u : HeldFrom(u) \in SUBSET Held
      /\ \A u \in Names : Ordered(store.messages[u], HeldFrom(u), store.sequence)
  BY OrderTypes DEF BooksInv, OrderInv, TypeOK
<1>1. ASSUME NEW q, NEW hs, Sorted(q, hs), NEW few \in SUBSET hs PROVE Sorted(q, few)
  BY <1>1 DEF Sorted
<1>2. CASE Quiet
  <2>1. \A u \in Names : store'.messages[u] = store.messages[u] /\ HeldFrom(u)' = HeldFrom(u)
    BY <1>2 DEF Quiet, HeldFrom
  <2> QED BY <2>1 DEF FifoInv
<1>3. ASSUME AllGrown(store, store'), subscription' = subscription,
             \A p \in Transports : outstanding'[p] \subseteq outstanding[p]
      PROVE  FifoInv'
  <2>1. ASSUME NEW u \in Names PROVE Sorted(store'.messages[u], HeldFrom(u)')
    <3>1. Sorted(store'.messages[u], HeldFrom(u))
      BY <1>0, <1>3, SortedGrown DEF AllGrown, FifoInv
    <3>2. HeldFrom(u)' \in SUBSET HeldFrom(u)
      BY <1>3 DEF HeldFrom
    <3> QED BY <1>1, <3>1, <3>2
  <2> QED BY <2>1 DEF FifoInv
<1>4. ASSUME NEW t \in Names, Published(t) PROVE FifoInv'
  BY <1>3, <1>4 DEF Published
<1>5. ASSUME NEW p \in Transports, NEW m \in outstanding[p], LetGo(p, m) PROVE FifoInv'
  <2>1. \A q \in Transports : outstanding'[q] \subseteq outstanding[q]
    BY <1>5, HeldLess DEF LetGo
  <2> QED BY <1>3, <1>5, <2>1 DEF LetGo
<1>6. ASSUME NEW t \in Names, Purged(t) PROVE FifoInv'
  <2>1. store'.messages = [store.messages EXCEPT ![t] = <<>>]
    BY <1>0, <1>6 DEF Purged, purge, Stores
  <2>2. store.messages \in [Names -> Seq(Held)]
    BY <1>0 DEF Stores
  <2>3. \A u \in Names : HeldFrom(u)' = HeldFrom(u)
    BY <1>6 DEF Purged, HeldFrom
  <2>4. ASSUME NEW u \in Names PROVE Sorted(store'.messages[u], HeldFrom(u)')
    <3>1. CASE u = t
      <4>1. store'.messages[u] = <<>>
        BY <2>1, <2>2, <3>1
      <4> QED BY <4>1 DEF Sorted
    <3>2. CASE u # t
      BY <2>1, <2>2, <2>3, <3>2 DEF FifoInv
    <3> QED BY <3>1, <3>2
  <2> QED BY <2>4 DEF FifoInv
<1>7. ASSUME NEW p \in Transports, Taken(p) PROVE FifoInv'
  <2> DEFINE t == subscription[p]
             q == store.messages[t]
  <2>1. /\ t \in Names /\ q # <<>> /\ store' = PopFront(store, t)
        /\ outstanding[p] = {} /\ outstanding' = [outstanding EXCEPT ![p] = {Head(q)}]
        /\ subscription' = subscription
    BY <1>0, <1>7 DEF Taken, Handed, TypeOK
  <2>2. /\ store'.messages[t] = Tail(q)
        /\ \A u \in Names : u # t => store'.messages[u] = store.messages[u]
    BY <1>0, <2>1, PopFrontShape
  <2>3. outstanding'[p] = {Head(q)} /\ p = c
    BY <1>0, <2>1
  <2>4. Sorted(Tail(q), {Head(q)})
    BY <1>0, <2>1, SortedTail DEF FifoInv
  <2>5. ASSUME NEW u \in Names PROVE Sorted(store'.messages[u], HeldFrom(u)')
    <3>1. CASE u = t
      <4>1. HeldFrom(u)' \in SUBSET {Head(q)}
        BY <2>1, <2>3, <3>1 DEF HeldFrom
      <4>2. Sorted(Tail(q), HeldFrom(u)')
        BY <1>1, <2>4, <4>1
      <4>3. store'.messages[u] = Tail(q)
        BY <2>2, <3>1
      <4> QED BY <4>2, <4>3
    <3>2. CASE u # t
      <4>1. HeldFrom(u)' = {}
        BY <2>1, <2>3, <3>2 DEF HeldFrom
      <4>2. Sorted(store.messages[u], {})
        BY <1>1 DEF FifoInv
      <4> QED BY <2>2, <3>2, <4>1, <4>2
    <3> QED BY <3>1, <3>2
  <2> QED BY <2>5 DEF FifoInv
<1>8. ASSUME NEW p \in Transports, NEW m \in outstanding[p], GaveBack(p, m) PROVE FifoInv'
  <2> DEFINE t == subscription[p]
             v == [m EXCEPT !.redelivered = TRUE]
  <2>1. /\ t \in Names /\ store' = requeue(store, t, m) /\ m \in Held
        /\ outstanding' = [outstanding EXCEPT ![p] = @ \ {m}]
        /\ subscription' = subscription
    BY <1>8, HoldersSubscribe DEF GaveBack, Returned
  <2>2. /\ store'.messages[t] = <<v>> \o store.messages[t]
        /\ \A u \in Names : u # t => store'.messages[u] = store.messages[u]
    BY <1>0, <2>1, RequeueShape
  <2>3. outstanding'[p] = {} /\ p = c
    BY <2>1, HeldLess
  <2>4. \A u : HeldFrom(u)' = {}
    BY <2>3 DEF HeldFrom
  <2>5. m \in HeldFrom(t)
    BY DEF HeldFrom
  <2>6. Sorted(<<v>> \o store.messages[t], {})
    BY <1>0, <2>1, <2>5, SortedRequeue DEF FifoInv
  <2> HIDE DEF v
  <2>7. ASSUME NEW u \in Names PROVE Sorted(store'.messages[u], {})
    <3>1. CASE u = t
      BY <2>2, <2>6, <3>1
    <3>2. CASE u # t
      <4>1. Sorted(store.messages[u], {})
        BY <1>1 DEF FifoInv
      <4> QED BY <2>2, <3>2, <4>1
    <3> QED BY <3>1, <3>2
  <2> QED BY <2>4, <2>7 DEF FifoInv
<1> QED BY <1>2, <1>4, <1>5, <1>6, <1>7, <1>8 DEF QueueStep

(* With one consumer every destination is a FIFO from publish to delivery, *)
(* whatever is requeued, deferred, thrown or restarted                     *)
(* (Capabilities::fifoPerTopic).                                           *)
THEOREM OneConsumerFifo == Spec => []SingleConsumerFifo
<1> DEFINE Fifo == Cardinality(Transports) = 1 => FifoInv
<1>1. Init => Fifo
  <2> SUFFICES ASSUME Init PROVE FifoInv
    OBVIOUS
  <2>1. \A t \in Names : store.messages[t] = <<>>
    BY DEF Init, EmptyStore
  <2> QED BY <2>1 DEF FifoInv, Sorted
<1>2. BooksInv /\ Fifo /\ [Next]_vars => Fifo'
  <2> SUFFICES ASSUME BooksInv, FifoInv, [Next]_vars, Cardinality(Transports) = 1
               PROVE  FifoInv'
    OBVIOUS
  <2>1. PICK c : Transports = {c}
    BY TransportsAssumption, FS_Singleton
  <2>2. QueueStep
    BY NextQueues
  <2> QED BY <2>1, <2>2, FifoNext
<1>3. Fifo => SingleConsumerFifo
  BY DEF FifoInv, SingleConsumerFifo, Sorted, HeldFrom
<1> QED BY <1>1, <1>2, <1>3, BooksInit, BooksNext, PTL DEF Spec

-----------------------------------------------------------------------------
(* One live copy.                                                          *)

(* Dead-lettering moves a payload along a chain of names, from t to        *)
(* deadLetterTopic(t); two names are kin when a chain links them: no set   *)
(* closed under the moves, in both directions, tells them apart.           *)
Kin(t, u) ==
  \A C \in SUBSET Names :
    (\A x \in Topics : x \in C <=> deadLetterTopic(x) \in C) => (t \in C <=> u \in C)

(* Below, L[t] is the set of the messages live at t. *)

Alone(L) ==
  \A t, u \in Names : \A m \in L[t], n \in L[u] :
    m.body = n.body /\ Kin(t, u) => t = u /\ m = n

Absent(L, t, body) ==
  \A u \in Names : Kin(t, u) => \A m \in L[u] : m.body # body

(* From L to M, some message left, or was replaced by one with its body at *)
(* a name of the same chain.                                               *)
Swaps(L, M, t, v, u, w) ==
  \A x \in Names : \A z \in M[x] :
    (z \in L[x] /\ ~(x = t /\ z = v)) \/ (x = u /\ z = w)

Swapped(L, M) ==
  \/ \A x \in Names : M[x] \subseteq L[x]
  \/ \E t, u \in Names : \E v \in L[t], w \in Held :
       Kin(t, u) /\ w.body = v.body /\ Swaps(L, M, t, v, u, w)

Gains(M, K, u, m) ==
  \A x \in Names : \A z \in K[x] : z \in M[x] \/ (x = u /\ z = m)

LEMMA KinIsEquivalence ==
  /\ \A t : Kin(t, t)
  /\ \A t, u : Kin(t, u) => Kin(u, t)
  /\ \A t, u, x : Kin(t, u) /\ Kin(u, x) => Kin(t, x)
  /\ \A t \in Topics : Kin(t, deadLetterTopic(t))
<1>1. \A t : Kin(t, t)
  BY DEF Kin
<1>2. \A t, u : Kin(t, u) => Kin(u, t)
  BY DEF Kin
<1>3. \A t, u, x : Kin(t, u) /\ Kin(u, x) => Kin(t, x)
  BY DEF Kin
<1>4. \A t \in Topics : Kin(t, deadLetterTopic(t))
  BY DEF Kin
<1> QED BY <1>1, <1>2, <1>3, <1>4

LEMMA AfterPrefix ==
  ASSUME NEW t \in Name
  PROVE  /\ t \in Seq(Strings) /\ Len(t) \in Nat /\ Len(deadLetterTopic(t)) = 2 + Len(t)
         /\ \A i \in 1..Len(t) : deadLetterTopic(t)[i + 2] = t[i]
<1>1. "motus" \in Strings /\ "dead-letter" \in Strings
  BY StringsAssumption
<1>2. <<"motus", "dead-letter">> \in Seq(Strings) /\ t \in Seq(Strings)
  BY <1>1, WordsMakeNames DEF Name
<1>3. Len(t) \in Nat /\ Len(<<"motus", "dead-letter">> \o t) = 2 + Len(t)
  BY <1>2
<1>4. \A i \in 1..Len(t) : (<<"motus", "dead-letter">> \o t)[i + 2] = t[i]
  BY <1>2
<1> QED BY <1>2, <1>3, <1>4 DEF deadLetterTopic

LEMMA ForensicNamesDiffer ==
  ASSUME NEW t \in Name, NEW u \in Name, deadLetterTopic(t) = deadLetterTopic(u)
  PROVE  t = u
<1> DEFINE a == deadLetterTopic(t)
           b == deadLetterTopic(u)
<1>1. /\ t \in Seq(Strings) /\ Len(t) \in Nat /\ Len(a) = 2 + Len(t)
      /\ \A i \in 1..Len(t) : a[i + 2] = t[i]
  BY AfterPrefix
<1>2. /\ u \in Seq(Strings) /\ Len(u) \in Nat /\ Len(b) = 2 + Len(u)
      /\ \A i \in 1..Len(u) : b[i + 2] = u[i]
  BY AfterPrefix
<1>3. a = b
  OBVIOUS
<1> HIDE DEF a, b
<1>4. Len(t) = Len(u)
  BY <1>1, <1>2, <1>3
<1>5. \A i \in 1..Len(t) : t[i] = u[i]
  BY <1>1, <1>2, <1>3, <1>4
<1> QED BY <1>1, <1>2, <1>4, <1>5

(* No chain links two destinations neither of which is forensic. *)
LEMMA SourcesAreNoKin ==
  ASSUME NEW t \in Names, NEW u \in Names, ~IsForensicName(t), ~IsForensicName(u), Kin(t, u)
  PROVE  t = u
<1> DEFINE F(x) == deadLetterTopic(x)
           Closed(C) == t \in C /\ \A x \in Topics : x \in C => F(x) \in C
           D == {x \in Names : \A C \in SUBSET Names : Closed(C) => x \in C}
<1>1. \A x \in Topics : x \in Names /\ x \in Name /\ F(x) \in Names
  BY NamesAreNames
<1>2. D \in SUBSET Names /\ t \in D /\ Closed(D)
  BY <1>1
<1>3. \A C \in SUBSET Names : Closed(C) => D \subseteq C
  OBVIOUS
<1>4. \A x \in Topics : F(x) # t /\ F(x) # u
  BY DEF IsForensicName
<1>5. ASSUME NEW x \in Topics, F(x) \in D PROVE x \in D
  <2> SUFFICES ASSUME x \notin D PROVE FALSE
    OBVIOUS
  <2> DEFINE C == D \ {F(x)}
  <2>1. \A y \in Topics : y \in D /\ F(y) = F(x) => FALSE
    BY <1>1, ForensicNamesDiffer
  <2>2. Closed(C)
    BY <1>2, <1>4, <2>1
  <2>3. C \in SUBSET Names
    BY <1>2
  <2> HIDE DEF D, Closed
  <2>4. D \subseteq C
    BY <1>3, <2>2, <2>3
  <2> QED BY <1>5, <2>4
<1>6. \A x \in Topics : x \in D <=> F(x) \in D
  BY <1>2, <1>5
<1>7. u \in D
  <2> HIDE DEF D
  <2> QED BY <1>2, <1>6 DEF Kin
<1>8. SUFFICES ASSUME t # u PROVE FALSE
  OBVIOUS
<1> DEFINE E == D \ {u}
<1>9. E \in SUBSET Names /\ Closed(E)
  BY <1>2, <1>4, <1>8
<1> HIDE DEF D, Closed
<1>10. D \subseteq E
  BY <1>3, <1>9
<1> QED BY <1>7, <1>10

LEMMA OriginIsKin ==
  ASSUME NEW t \in Names, NEW u \in Names, Origin(t) = Origin(u)
  PROVE  Kin(t, u)
<1>1. ASSUME NEW x \in Names PROVE Kin(x, Origin(x))
  <2>1. CASE IsForensicName(x)
    <3>1. Origin(x) \in Topics /\ x = deadLetterTopic(Origin(x))
      BY <2>1 DEF IsForensicName, Origin
    <3> QED BY <3>1, KinIsEquivalence
  <2>2. CASE ~IsForensicName(x)
    BY <2>2, KinIsEquivalence DEF Origin
  <2> QED BY <2>1, <2>2
<1>2. Kin(t, Origin(t)) /\ Kin(u, Origin(t))
  BY <1>1
<1> QED BY <1>2, KinIsEquivalence

(* Leaving and being replaced keep a payload alone in its chain, and       *)
(* absent where it was absent.                                             *)
LEMMA SwappedAlone ==
  ASSUME NEW L, NEW M, Swapped(L, M), Alone(L)
  PROVE  Alone(M)
<1>1. CASE \A x \in Names : M[x] \subseteq L[x]
  BY <1>1 DEF Alone
<1>2. ASSUME NEW t \in Names, NEW u \in Names, NEW v \in L[t], NEW w \in Held,
             Kin(t, u), w.body = v.body, Swaps(L, M, t, v, u, w)
      PROVE  Alone(M)
  <2> SUFFICES ASSUME NEW x \in Names, NEW y \in Names, NEW m \in M[x], NEW n \in M[y],
                      m.body = n.body, Kin(x, y)
               PROVE  x = y /\ m = n
    BY DEF Alone
  <2>1. (m \in L[x] /\ ~(x = t /\ m = v)) \/ (x = u /\ m = w)
    BY <1>2 DEF Swaps
  <2>2. (n \in L[y] /\ ~(y = t /\ n = v)) \/ (y = u /\ n = w)
    BY <1>2 DEF Swaps
  <2>3. CASE m \in L[x] /\ n \in L[y]
    BY <2>3 DEF Alone
  <2>4. CASE x = u /\ m = w /\ y = u /\ n = w
    BY <2>4
  <2>5. CASE x = u /\ m = w /\ n \in L[y] /\ ~(y = t /\ n = v)
    <3>1. Kin(t, y) /\ v.body = n.body
      BY <1>2, <2>5, KinIsEquivalence
    <3>2. t = y /\ v = n
      BY <2>5, <3>1 DEF Alone
    <3> QED BY <2>5, <3>2
  <2>6. CASE y = u /\ n = w /\ m \in L[x] /\ ~(x = t /\ m = v)
    <3>1. Kin(t, x) /\ v.body = m.body
      BY <1>2, <2>6, KinIsEquivalence
    <3>2. t = x /\ v = m
      BY <2>6, <3>1 DEF Alone
    <3> QED BY <2>6, <3>2
  <2> QED BY <2>1, <2>2, <2>3, <2>4, <2>5, <2>6
<1> QED BY <1>1, <1>2 DEF Swapped

LEMMA SwappedBodies ==
  ASSUME NEW L, NEW M, Swapped(L, M)
  PROVE  /\ \A x \in Names : \A z \in M[x] :
              \E y \in Names : Kin(x, y) /\ \E v \in L[y] : v.body = z.body
         /\ \A x \in Names : \A body : Absent(L, x, body) => Absent(M, x, body)
<1>1. ASSUME NEW x \in Names, NEW z \in M[x]
      PROVE  \E y \in Names : Kin(x, y) /\ \E v \in L[y] : v.body = z.body
  <2>1. CASE \A y \in Names : M[y] \subseteq L[y]
    BY <2>1, KinIsEquivalence
  <2>2. ASSUME NEW t \in Names, NEW u \in Names, NEW v \in L[t], NEW w \in Held,
               Kin(t, u), w.body = v.body, Swaps(L, M, t, v, u, w)
        PROVE  \E y \in Names : Kin(x, y) /\ \E n \in L[y] : n.body = z.body
    <3>1. z \in L[x] \/ (x = u /\ z = w)
      BY <2>2 DEF Swaps
    <3>2. CASE z \in L[x]
      BY <3>2, KinIsEquivalence
    <3>3. CASE x = u /\ z = w
      <4>1. Kin(x, t)
        BY <2>2, <3>3, KinIsEquivalence
      <4> QED BY <2>2, <3>3, <4>1
    <3> QED BY <3>1, <3>2, <3>3
  <2> QED BY <2>1, <2>2 DEF Swapped
<1>2. ASSUME NEW x \in Names, NEW body, Absent(L, x, body) PROVE Absent(M, x, body)
  <2> SUFFICES ASSUME NEW u \in Names, Kin(x, u), NEW m \in M[u], m.body = body PROVE FALSE
    BY DEF Absent
  <2>1. PICK y \in Names : Kin(u, y) /\ \E v \in L[y] : v.body = m.body
    BY <1>1
  <2>2. Kin(x, y)
    BY <2>1, KinIsEquivalence
  <2> QED BY <1>2, <2>1, <2>2 DEF Absent
<1> QED BY <1>1, <1>2

(* So does gaining a message whose payload is nowhere in the chain. *)
LEMMA GainedAlone ==
  ASSUME NEW M, NEW K, NEW t \in Names, NEW m, Gains(M, K, t, m), Alone(M), Absent(M, t, m.body)
  PROVE  Alone(K)
<1> SUFFICES ASSUME NEW x \in Names, NEW y \in Names, NEW a \in K[x], NEW b \in K[y],
                    a.body = b.body, Kin(x, y)
             PROVE  x = y /\ a = b
  BY DEF Alone
<1>1. (a \in M[x] \/ (x = t /\ a = m)) /\ (b \in M[y] \/ (y = t /\ b = m))
  BY DEF Gains
<1>2. CASE a \in M[x] /\ b \in M[y]
  BY <1>2 DEF Alone
<1>3. CASE x = t /\ a = m /\ y = t /\ b = m
  BY <1>3
<1>4. CASE x = t /\ a = m /\ b \in M[y]
  BY <1>4 DEF Absent
<1>5. CASE y = t /\ b = m /\ a \in M[x]
  <2>1. Kin(t, x)
    BY <1>5, KinIsEquivalence
  <2> QED BY <1>5, <2>1 DEF Absent
<1> QED BY <1>1, <1>2, <1>3, <1>4, <1>5

(* What the declarations make of the groups: only callers' destinations    *)
(* dead-letter, no forensic destination is in a caller's group, and those  *)
(* of the library are bound to their sources.                              *)
GroupsInv ==
  /\ \A t \in topics : t \notin Topics => ~options[t].deadLetter
  /\ \A t \in Names : options[t].group \notin {NoGroup, kDeadLetterExchange} =>
                        ~IsForensicName(t)
  /\ \A t \in Names : options[t].group = kDeadLetterExchange =>
                        groups[kDeadLetterExchange] = "Exact" /\ t = deadLetterTopic(binding[t])

LEMMA GroupsInit == Init => GroupsInv
<1> SUFFICES ASSUME Init PROVE GroupsInv
  OBVIOUS
<1>1. topics = {} /\ \A t \in Names : options[t] = DefaultOptions
  BY DEF Init
<1>2. DefaultOptions.group = NoGroup /\ NoGroup # kDeadLetterExchange
  BY DEF DefaultOptions, NoGroup, kDeadLetterExchange
<1> QED BY <1>1, <1>2 DEF GroupsInv

LEMMA GroupsFrame ==
  ASSUME GroupsInv, UNCHANGED <<options, binding, groups>>,
         \A t \in topics' : t \in topics \/ t \in Topics
  PROVE  GroupsInv'
BY DEF GroupsInv

(* Broker::ensureTopic with a declaration of the library or of a caller. *)
LEMMA GroupsEnsure ==
  ASSUME TypeOK, GroupsInv, NEW t \in Names, NEW o \in TopicOptions, BrokerEnsureTopic(t, o),
         t \notin Topics => ~o.deadLetter,
         o.group \notin {NoGroup, kDeadLetterExchange} => ~IsForensicName(t),
         o.group = kDeadLetterExchange =>
           o.routing = "Exact" /\ o.route # EmptyString /\ t = deadLetterTopic(o.route)
  PROVE  GroupsInv'
<1>0. /\ options \in [Names -> TopicOptions] /\ binding \in [Names -> Name]
      /\ groups \in [GroupNames -> Routing \cup {Undeclared}] /\ topics \subseteq Names
      /\ kDeadLetterExchange \in GroupNames /\ NoGroup # kDeadLetterExchange
  BY DEF TypeOK, GroupNames, NoGroup, kDeadLetterExchange
<1>1. groups[kDeadLetterExchange] = "Exact" => groups'[kDeadLetterExchange] = "Exact"
  <2>1. CASE o.group = kDeadLetterExchange
    BY <1>0, <2>1 DEF BrokerEnsureTopic
  <2>2. CASE o.group # kDeadLetterExchange
    BY <1>0, <2>2 DEF BrokerEnsureTopic
  <2> QED BY <2>1, <2>2
<1>2. CASE GroupConflict(o) \/ t \in topics
  <2>1. UNCHANGED <<topics, options, binding>>
    BY <1>2 DEF BrokerEnsureTopic
  <2> QED BY <1>1, <2>1 DEF GroupsInv
<1>3. CASE ~(GroupConflict(o) \/ t \in topics)
  <2>1. /\ topics' = topics \cup {t} /\ options' = [options EXCEPT ![t] = o]
        /\ binding' = [binding EXCEPT ![t] = IF o.route = EmptyString THEN t ELSE o.route]
        /\ groups' = IF o.group = NoGroup THEN groups
                     ELSE [groups EXCEPT ![o.group] = o.routing]
    BY <1>3 DEF BrokerEnsureTopic
  <2>2. /\ options'[t] = o /\ \A u \in Names : u # t => options'[u] = options[u]
        /\ \A u \in Names : u # t => binding'[u] = binding[u]
    BY <1>0, <2>1
  <2>3. o.group = kDeadLetterExchange =>
          groups'[kDeadLetterExchange] = "Exact" /\ t = deadLetterTopic(binding'[t])
    BY <1>0, <2>1
  <2>4. \A u \in topics' : u \notin Topics => ~options'[u].deadLetter
    BY <1>0, <2>1, <2>2 DEF GroupsInv
  <2>5. \A u \in Names : options'[u].group \notin {NoGroup, kDeadLetterExchange} =>
                           ~IsForensicName(u)
    BY <2>2 DEF GroupsInv
  <2>6. \A u \in Names : options'[u].group = kDeadLetterExchange =>
          groups'[kDeadLetterExchange] = "Exact" /\ u = deadLetterTopic(binding'[u])
    BY <1>1, <2>2, <2>3 DEF GroupsInv
  <2> QED BY <2>4, <2>5, <2>6 DEF GroupsInv
<1> QED BY <1>2, <1>3

LEMMA GroupsNext ==
  ASSUME ForensicsApart
  PROVE  TypeOK /\ GroupsInv /\ [Next]_vars => GroupsInv'
<1> SUFFICES ASSUME TypeOK, GroupsInv, [Next]_vars PROVE GroupsInv'
  OBVIOUS
<1>1. ASSUME NEW t \in Topics, NEW o \in Declarations[t], BrokerEnsureTopic(t, o)
      PROVE  GroupsInv'
  <2>1. t \in Names /\ o \in TopicOptions
    BY NamesAreNames, DeclarationType
  <2>2. o.group # kDeadLetterExchange /\ (IsForensicName(t) => o.group = NoGroup)
    BY DEF ForensicsApart
  <2> QED BY <1>1, <2>1, <2>2, GroupsEnsure
<1>2. ASSUME NEW t \in Topics, BrokerEnsureTopic(deadLetterTopic(t), forensicTopicOptions(t))
      PROVE  GroupsInv'
  <2> DEFINE f == deadLetterTopic(t)
             o == forensicTopicOptions(t)
  <2>1. f \in Names /\ o \in TopicOptions
    BY NamesAreNames, OptionsAreOptions
  <2>2. /\ o.deadLetter = FALSE /\ o.group = kDeadLetterExchange
        /\ o.routing = "Exact" /\ o.route = t
    BY DEF forensicTopicOptions, DefaultOptions
  <2>3. t # EmptyString
    BY DEF ForensicsApart
  <2>4. f = deadLetterTopic(o.route)
    BY <2>2
  <2> HIDE DEF f, o
  <2>5. BrokerEnsureTopic(f, o)
    BY <1>2 DEF f, o
  <2> QED BY <2>1, <2>2, <2>3, <2>4, <2>5, GroupsEnsure
<1>3. ASSUME NEW p \in Transports, ensureSource(p) PROVE GroupsInv'
  <2>1. request[p].topic \in Topics /\ request[p].options \in Declarations[request[p].topic]
    BY <1>3 DEF ensureSource, TypeOK
  <2> QED BY <1>1, <1>3, <2>1 DEF ensureSource, Declare
<1>4. ASSUME NEW p \in Transports, NEW t \in Topics, NEW o \in Declarations[t],
             ensureForensic(p, t, o) \/ ensurePlain(p, t, o)
      PROVE  GroupsInv'
  BY <1>1, <1>2, <1>4 DEF ensureForensic, ensurePlain, Declare
<1>5. ASSUME NEW p \in Transports, NEW t \in Topics, sendDirect(p, t) PROVE GroupsInv'
  BY <1>5, GroupsFrame DEF sendDirect
<1>6. ASSUME UNCHANGED <<topics, options, binding, groups>> PROVE GroupsInv'
  BY <1>6, GroupsFrame
<1>7. ASSUME NEW p \in Transports,
             \/ connect(p) \/ take(p) \/ handlerDefers(p) \/ handlerThrows(p)
             \/ close(p) \/ returnOutstanding(p) \/ finishClose(p)
      PROVE  GroupsInv'
  BY <1>6, <1>7
     DEF connect, take, handlerDefers, handlerThrows, close, returnOutstanding, finishClose,
         brokerVars
<1>8. ASSUME NEW p \in Transports, NEW s, NEW d, handlerReturns(p, d) \/ settle(p, s, d)
      PROVE  GroupsInv'
  BY <1>6, <1>8 DEF handlerReturns, settle, Resolve
<1>9. ASSUME NEW p \in Transports, NEW t \in Topics,
             \/ subscribe(p, t) \/ purgeTopic(p, t)
             \/ \E r \in Routes \cup {EmptyString} : sendGrouped(p, t, r)
      PROVE  GroupsInv'
  BY <1>6, <1>9 DEF subscribe, purgeTopic, sendGrouped, brokerVars
<1>10. ASSUME fanoutDone \/ \E t \in Names : fanoutCopy(t) PROVE GroupsInv'
  BY <1>6, <1>10 DEF fanoutDone, fanoutCopy
<1>11. ASSUME UNCHANGED vars PROVE GroupsInv'
  BY <1>6, <1>11 DEF vars, brokerVars
<1> QED BY <1>3, <1>4, <1>5, <1>7, <1>8, <1>9, <1>10, <1>11 DEF Next

(* A grouped publish reaches no two names of one chain. *)
LEMMA MatchesAreNoKin ==
  ASSUME TypeOK, GroupsInv, NEW g, g # NoGroup, NEW key,
         NEW t \in Matching(g, key), NEW u \in Matching(g, key), Kin(t, u)
  PROVE  t = u
<1>1. t \in Names /\ u \in Names /\ options[t].group = g /\ options[u].group = g
  BY DEF Matching, TypeOK
<1>2. CASE g = kDeadLetterExchange
  <2>1. groups[g] = "Exact" /\ t = deadLetterTopic(binding[t]) /\ u = deadLetterTopic(binding[u])
    BY <1>1, <1>2 DEF GroupsInv
  <2>2. binding[t] = key /\ binding[u] = key
    BY <2>1 DEF Matching
  <2> QED BY <2>1, <2>2
<1>3. CASE g # kDeadLetterExchange
  <2>1. ~IsForensicName(t) /\ ~IsForensicName(u)
    BY <1>1, <1>3 DEF GroupsInv
  <2> QED BY <1>1, <2>1, SourcesAreNoKin
<1> QED BY <1>2, <1>3

(* The live messages: what waits in b and what is in hand, by destination. *)
LiveOf(b, hs) == [t \in Names |-> At(b, t) \cup hs[t]]

LEMMA ForensicGains ==
  ASSUME NEW b \in Stores, NEW t \in Names, NEW v \in Held, TypeOK
  PROVE  LET c == enqueueForensic(b, t, v) IN
         \A x \in Names : \A z \in At(c, x) : z \in At(b, x) \/ (x = t /\ z = v)
<1> DEFINE c == enqueueForensic(b, t, v)
           q == b.messages[t]
<1>1. ForensicStep(b, c, t, v)
  BY ForensicShape
<1> HIDE DEF c
<1>2. q \in Seq(Held)
  BY DEF Stores
<1>3. ASSUME NEW z \in At(c, t) PROVE z \in At(b, t) \/ z = v
  <2>1. CASE c.messages[t] = q
    BY <1>3, <2>1 DEF At
  <2>2. CASE c.messages[t] = Append(q, v)
    BY <1>2, <1>3, <2>2, AppendContents DEF At
  <2>3. CASE q # <<>> /\ c.messages[t] = Tail(q)
    BY <1>2, <1>3, <2>3, TailContents DEF At
  <2>4. CASE q # <<>> /\ c.messages[t] = Append(Tail(q), v)
    <3>1. Tail(q) \in Seq(Held)
      BY <1>2, <2>4
    <3>2. z \in ContentsOf(Tail(q)) \cup {v}
      BY <1>3, <2>4, <3>1, AppendContents DEF At
    <3>3. ContentsOf(q) = ContentsOf(Tail(q)) \cup {Head(q)}
      BY <1>2, <2>4, TailContents
    <3> QED BY <3>2, <3>3 DEF At
  <2> QED BY <1>1, <2>1, <2>2, <2>3, <2>4 DEF ForensicStep
<1>4. \A x \in Names : x # t => At(c, x) = At(b, x)
  BY <1>1 DEF ForensicStep, At
<1>5. \A x \in Names : \A z \in At(c, x) : z \in At(b, x) \/ (x = t /\ z = v)
  BY <1>3, <1>4
<1> QED BY <1>5 DEF c

(* deadLetterLocked puts the payload at the end of the chain, or nowhere. *)
LEMMA DeadLetterGains ==
  ASSUME NEW b \in Stores, NEW t, NEW m \in Held, TypeOK, GroupsInv
  PROVE  LET c == deadLetterLocked(b, t, m) IN
         \/ c.messages = b.messages
         \/ /\ t \in Topics
            /\ \E w \in Held :
                 /\ w.body = m.body
                 /\ \A x \in Names : \A z \in At(c, x) :
                      z \in At(b, x) \/ (x = deadLetterTopic(t) /\ z = w)
<1> DEFINE n == b.sequence + 1
           d == Gone(b, "dead", m)
           a == [d EXCEPT !.sequence = n]
           v == [m EXCEPT !.sequence = n, !.redelivered = FALSE]
           c == deadLetterLocked(b, t, m)
           f == deadLetterTopic(t)
<1>1. CASE t \notin topics \/ ~options[t].deadLetter \/ Unprovisioned(t)
  <2>1. c = Gone(b, "dropped", m) \/ c = Gone(b, "lost", m)
    BY <1>1 DEF deadLetterLocked
  <2>2. c.messages = b.messages
    BY <2>1, GoneShape DEF Fates
  <2> QED BY <2>2
<1>2. CASE ~(t \notin topics \/ ~options[t].deadLetter \/ Unprovisioned(t))
  <2>1. f \in Names /\ t \in Topics
    BY <1>2 DEF Unprovisioned, TypeOK, GroupsInv
  <2>2. d \in Stores /\ d.messages = b.messages
    BY GoneType, GoneShape DEF Fates
  <2>3. n \in Nat
    BY DEF Stores
  <2>4. v \in Held /\ v.body = m.body
    <3>1. v \in Held
      BY <2>3 DEF Held
    <3>2. v.body = m.body
      BY DEF Held
    <3> QED BY <3>1, <3>2
  <2>5. a \in Stores /\ a.messages = b.messages
    <3> HIDE DEF d, n
    <3> QED BY <2>2, <2>3 DEF Stores
  <2>6. c = enqueueForensic(a, f, v)
    BY <1>2 DEF deadLetterLocked
  <2> HIDE DEF a, v, c, f
  <2>7. \A x \in Names : \A z \in At(c, x) : z \in At(a, x) \/ (x = f /\ z = v)
    BY <2>1, <2>4, <2>5, <2>6, ForensicGains
  <2>8. \A x : At(a, x) = At(b, x)
    BY <2>5 DEF At
  <2>9. \A x \in Names : \A z \in At(c, x) : z \in At(b, x) \/ (x = f /\ z = v)
    BY <2>7, <2>8
  <2>10. \E w \in Held : /\ w.body = m.body
                         /\ \A x \in Names : \A z \in At(c, x) : z \in At(b, x) \/ (x = f /\ z = w)
    BY <2>4, <2>9
  <2> QED BY <2>1, <2>10 DEF c, f
<1> QED BY <1>1, <1>2

(* A publish to t: one message may be replaced along its chain, and then a *)
(* message with the new body is gained in the chain of t.                  *)
LEMMA PublishGains ==
  ASSUME NEW b \in Stores, Distinct(b), NEW t \in Names, NEW body \in Nat, TypeOK, GroupsInv,
         NEW hs \in [Names -> SUBSET Held],
         \A x \in Names : \A m \in hs[x] : m \notin WaitingIn(b)
  PROVE  LET c == EnqueueNew(b, t, body) IN
         /\ c.sequence \in Nat /\ b.sequence + 1 <= c.sequence
         /\ \E M : /\ Swapped(LiveOf(b, hs), M)
                   /\ \E u \in Names, w \in Held :
                        Kin(t, u) /\ w.body = body /\ Gains(M, LiveOf(c, hs), u, w)
<1> DEFINE n == b.sequence + 1
           a == [b EXCEPT !.sequence = n]
           m == [sequence |-> n, body |-> body, redelivered |-> FALSE]
           c == EnqueueNew(b, t, body)
           q == b.messages[t]
           f == deadLetterTopic(t)
           L == LiveOf(b, hs)
           K == LiveOf(c, hs)
           Goal == \E M : /\ Swapped(L, M)
                          /\ \E u \in Names, w \in Held :
                               Kin(t, u) /\ w.body = body /\ Gains(M, K, u, w)
<1>1. b.sequence \in Nat /\ n \in Nat /\ q \in Seq(Held)
  BY DEF Stores
<1>2. a \in Stores /\ a.messages = b.messages /\ a.sequence = n
  <2> HIDE DEF n
  <2> QED BY <1>1 DEF Stores
<1>3. m \in Held /\ m.body = body
  BY <1>1 DEF Held
<1>4. options[t].overflow \in OverflowPolicy
  BY DEF TypeOK, TopicOptions
<1>5. c = EnqueueWith(deadLetterLocked, a, t, m)
  BY DEF EnqueueNew, enqueueLocked
<1>6. \A x : At(a, x) = At(b, x)
  BY <1>2 DEF At
<1>7. Swapped(L, L) /\ Kin(t, t)
  BY KinIsEquivalence DEF Swapped
<1> HIDE DEF a, m, c, n, f
<1>8. ASSUME \A x \in Names : \A z \in At(c, x) : z \in At(b, x) \/ (x = t /\ z = m)
      PROVE  Goal
  <2>1. Gains(L, K, t, m)
    BY <1>8 DEF Gains, LiveOf
  <2>2. \E u \in Names, w \in Held : Kin(t, u) /\ w.body = body /\ Gains(L, K, u, w)
    <3> HIDE DEF L, K
    <3> QED BY <1>3, <1>7, <2>1
  <2> HIDE DEF L, K
  <2> QED BY <1>7, <2>2
<1>9. CASE ~Full(a, t)
  <2>1. c = PushBack(a, t, m)
    BY <1>5, <1>9 DEF EnqueueWith
  <2>2. /\ c.sequence = n /\ c.messages[t] = Append(q, m)
        /\ \A x \in Names : x # t => c.messages[x] = b.messages[x]
    <3>1. /\ c.sequence = a.sequence /\ c.messages[t] = Append(a.messages[t], m)
          /\ \A x \in Names : x # t => c.messages[x] = a.messages[x]
      BY <1>2, <1>3, <2>1, PushBackShape
    <3> QED BY <1>2, <3>1
  <2>3. At(c, t) = At(b, t) \cup {m} /\ \A x \in Names : x # t => At(c, x) = At(b, x)
    BY <1>1, <1>3, <2>2, AppendContents DEF At
  <2>4. Goal
    BY <1>8, <2>3
  <2> HIDE DEF Goal
  <2>5. c.sequence \in Nat /\ b.sequence + 1 <= c.sequence
    BY <1>1, <2>2 DEF n
  <2> QED BY <2>4, <2>5 DEF Goal, c
<1>10. CASE Full(a, t)
  <2> DEFINE h == Head(q)
             p == PopFront(a, t)
  <2>1. q # <<>> /\ p \in Stores /\ h \in Held
    BY <1>2, <1>10, FullHasHead, PopFrontType
  <2>2. /\ p.sequence = n /\ p.messages[t] = Tail(q)
        /\ \A x \in Names : x # t => p.messages[x] = b.messages[x]
    BY <1>2, PopFrontShape
  <2>3. PICK e \in {deadLetterLocked(p, t, h), Gone(p, "dropped", h)} :
          \/ c = Gone(a, "refused", m)
          \/ c = deadLetterLocked(a, t, m)
          \/ c = Gone(e, "lost", m)
          \/ c = PushBack(e, t, m)
    BY <1>2, <1>4, <1>5, <1>10 DEF EnqueueWith, OverflowPolicy
  <2>4. CASE c = Gone(a, "refused", m)
    <3>1. c.messages = b.messages /\ c.sequence = n
      BY <1>2, <1>3, <2>4, GoneShape DEF Fates
    <3>2. \A x : At(c, x) = At(b, x)
      BY <3>1 DEF At
    <3>3. Goal
      BY <1>8, <3>2
    <3> HIDE DEF Goal
    <3>4. c.sequence \in Nat /\ b.sequence + 1 <= c.sequence
      BY <1>1, <3>1 DEF n
    <3> QED BY <3>3, <3>4 DEF Goal, c
  <2>5. CASE c = deadLetterLocked(a, t, m)
    <3>1. c.sequence \in Nat /\ n <= c.sequence
      BY <1>2, <1>3, <2>5, DeadLetterShape DEF AllGrown
    <3>2. ASSUME c.messages = a.messages PROVE Goal
      <4>1. \A x : At(c, x) = At(b, x)
        BY <1>2, <3>2 DEF At
      <4> QED BY <1>8, <4>1
    <3>3. ASSUME t \in Topics, NEW w \in Held, w.body = m.body,
                 \A x \in Names : \A z \in At(c, x) : z \in At(a, x) \/ (x = f /\ z = w)
          PROVE  Goal
      <4>1. f \in Names /\ Kin(t, f)
        BY <3>3, NamesAreNames, KinIsEquivalence DEF f
      <4>2. Gains(L, K, f, w)
        BY <1>6, <3>3 DEF Gains, LiveOf
      <4>3. w.body = body
        BY <1>3, <3>3
      <4> HIDE DEF L, K
      <4>4. \E u \in Names, y \in Held : Kin(t, u) /\ y.body = body /\ Gains(L, K, u, y)
        BY <4>1, <4>2, <4>3
      <4> QED BY <1>7, <4>4
    <3>4. Goal
      <4> HIDE DEF Goal
      <4>1. \/ c.messages = a.messages
            \/ /\ t \in Topics
               /\ \E w \in Held :
                    /\ w.body = m.body
                    /\ \A x \in Names : \A z \in At(c, x) : z \in At(a, x) \/ (x = f /\ z = w)
        BY <1>2, <1>3, <2>5, DeadLetterGains DEF f
      <4> QED BY <3>2, <3>3, <4>1
    <3> HIDE DEF Goal
    <3>5. b.sequence + 1 <= c.sequence
      BY <3>1 DEF n
    <3> QED BY <3>1, <3>4, <3>5 DEF Goal, c
  <2>6. e \in Stores /\ e.sequence \in Nat /\ n <= e.sequence
    <3>1. CASE e = Gone(p, "dropped", h)
      <4>1. e \in Stores /\ e.sequence = n
        BY <2>1, <2>2, <3>1, GoneType, GoneShape DEF Fates
      <4> QED BY <1>1, <4>1
    <3>2. CASE e = deadLetterLocked(p, t, h)
      <4>1. e \in Stores
        BY <2>1, <3>2, DeadLetterType
      <4> QED BY <2>1, <2>2, <3>2, <4>1, DeadLetterShape DEF AllGrown
    <3> QED BY <2>3, <3>1, <3>2
  <2>7. /\ h \in At(b, t) /\ h \in L[t]
        /\ \A x \in Names : \A z \in At(p, x) : z \in At(b, x) /\ ~(x = t /\ z = h)
    <3>1. At(b, t) = At(p, t) \cup {h} /\ \A x \in Names : x # t => At(p, x) = At(b, x)
      BY <1>1, <2>1, <2>2, TailContents DEF At
    <3>2. h \notin At(p, t)
      <4>1. /\ 1 \in DOMAIN q /\ h = q[1]
            /\ \A i \in DOMAIN Tail(q) : i + 1 \in DOMAIN q /\ Tail(q)[i] = q[i + 1] /\ i + 1 # 1
        BY <1>1, <2>1
      <4>2. \A i, j \in DOMAIN q : q[i].sequence = q[j].sequence => i = j
        BY DEF Distinct
      <4> HIDE DEF h, q
      <4>3. \A i \in DOMAIN Tail(q) : Tail(q)[i] # h
        BY <4>1, <4>2
      <4> QED BY <2>2, <4>3 DEF At, ContentsOf
    <3> HIDE DEF p, h
    <3>3. h \in L[t]
      BY <3>1 DEF LiveOf
    <3> QED BY <3>1, <3>2, <3>3
  <2> DEFINE M == LiveOf(e, hs)
  <2>8. \A x \in Names : ~(x = t /\ h \in hs[x])
    BY <2>7, WaitingMember
  <2>9. Swapped(L, M)
    <3>1. CASE \A x \in Names : At(e, x) = At(p, x)
      <4>1. \A x \in Names : M[x] \subseteq L[x]
        BY <2>7, <3>1 DEF LiveOf
      <4> HIDE DEF L, M
      <4> QED BY <4>1 DEF Swapped
    <3>2. ASSUME t \in Topics, NEW w \in Held, w.body = h.body,
                 \A x \in Names : \A z \in At(e, x) : z \in At(p, x) \/ (x = f /\ z = w)
          PROVE  Swapped(L, M)
      <4>1. f \in Names /\ Kin(t, f)
        BY <3>2, NamesAreNames, KinIsEquivalence DEF f
      <4>2. Swaps(L, M, t, h, f, w)
        <5> HIDE DEF h, p
        <5> QED BY <2>7, <2>8, <3>2 DEF Swaps, LiveOf
      <4> HIDE DEF L, M, h
      <4> QED BY <2>7, <3>2, <4>1, <4>2 DEF Swapped
    <3>3. CASE e = Gone(p, "dropped", h)
      <4>1. e.messages = p.messages
        BY <2>1, <3>3, GoneShape DEF Fates
      <4> QED BY <3>1, <4>1 DEF At
    <3>4. CASE e = deadLetterLocked(p, t, h)
      <4> HIDE DEF p, h, M, L
      <4>1. \/ e.messages = p.messages
            \/ /\ t \in Topics
               /\ \E w \in Held :
                    /\ w.body = h.body
                    /\ \A x \in Names : \A z \in At(e, x) : z \in At(p, x) \/ (x = f /\ z = w)
        BY <2>1, <3>4, DeadLetterGains DEF f
      <4>2. e.messages = p.messages => \A x \in Names : At(e, x) = At(p, x)
        BY DEF At
      <4> QED BY <3>1, <3>2, <4>1, <4>2
    <3> QED BY <2>3, <3>3, <3>4
  <2>10. CASE c = Gone(e, "lost", m) \/ c = PushBack(e, t, m)
    <3>1. c.sequence = e.sequence /\ \A x \in Names : \A z \in At(c, x) : z \in At(e, x) \/ (x = t /\ z = m)
      <4>1. CASE c = Gone(e, "lost", m)
        BY <1>3, <2>6, <4>1, GoneShape DEF Fates, At
      <4>2. CASE c = PushBack(e, t, m)
        <5>1. /\ c.sequence = e.sequence /\ c.messages[t] = Append(e.messages[t], m)
              /\ \A x \in Names : x # t => c.messages[x] = e.messages[x]
          BY <1>3, <2>6, <4>2, PushBackShape
        <5>2. e.messages[t] \in Seq(Held)
          BY <2>6 DEF Stores
        <5>3. At(c, t) = At(e, t) \cup {m} /\ \A x \in Names : x # t => At(c, x) = At(e, x)
          BY <1>3, <5>1, <5>2, AppendContents DEF At
        <5> QED BY <5>1, <5>3
      <4> QED BY <2>10, <4>1, <4>2
    <3>2. Gains(M, K, t, m)
      BY <3>1 DEF Gains, LiveOf
    <3> HIDE DEF L, M, K
    <3>3. \E u \in Names, w \in Held : Kin(t, u) /\ w.body = body /\ Gains(M, K, u, w)
      BY <1>3, <1>7, <3>2
    <3>4. Goal
      BY <2>9, <3>3
    <3>5. c.sequence \in Nat /\ b.sequence + 1 <= c.sequence
      BY <1>1, <2>6, <3>1 DEF n
    <3> QED BY <3>4, <3>5 DEF L, K, c
  <2> QED BY <2>3, <2>4, <2>5, <2>10
<1> QED BY <1>9, <1>10

-----------------------------------------------------------------------------
(* The inductive invariant: a payload is alone in its chain, no body is    *)
(* newer than the last number, and the payload of a grouped publish that   *)
(* still holds the mutex is absent from the chains it has yet to reach,    *)
(* which are chains of their own.                                          *)

CopySound(L, n, f) ==
  /\ Alone(L)
  /\ \A t \in Names : \A m \in L[t] : m.body <= n
  /\ f # NoFanout => /\ f.body <= n + 1
                     /\ \A t, u \in f.pending : Kin(t, u) => t = u
                     /\ \A t \in f.pending : Absent(L, t, f.body)

HeldAt == [t \in Names |-> HeldFrom(t)]

CopyInv == BooksInv /\ GroupsInv /\ CopySound(LiveOf(store, HeldAt), store.sequence, fanout)

LEMMA CopyTypes ==
  ASSUME BooksInv
  PROVE  /\ TypeOK /\ store \in Stores /\ store.sequence \in Nat /\ Distinct(store)
         /\ HeldAt \in [Names -> SUBSET Held]
         /\ \A x \in Names : \A m \in HeldAt[x] : m \in HeldNow /\ m \notin WaitingIn(store)
         /\ \A x \in Names : LiveOf(store, HeldAt)[x] \subseteq Held
<1>1. TypeOK /\ Sound(store, HeldNow) /\ Distinct(store)
  BY DEF BooksInv, OrderInv, Sound
<1>2. store \in Stores /\ store.sequence \in Nat /\ \A t : HeldFrom(t) \in SUBSET Held
  BY <1>1, OrderTypes
<1>3. HeldAt \in [Names -> SUBSET Held] /\ \A x \in Names : HeldAt[x] = HeldFrom(x)
  BY <1>2 DEF HeldAt
<1>4. \A x \in Names : \A m \in HeldFrom(x) : m \in HeldNow
  BY DEF HeldFrom, HeldNow
<1>5. \A m \in HeldNow : m \notin WaitingIn(store)
  BY <1>1 DEF Sound
<1>6. \A x \in Names : At(store, x) \subseteq Held
  <2>1. \A x \in Names : store.messages[x] \in Seq(Held)
    BY <1>2 DEF Stores
  <2> QED BY <2>1 DEF At, ContentsOf
<1>7. \A x \in Names : LiveOf(store, HeldAt)[x] \subseteq Held
  BY <1>2, <1>3, <1>6 DEF LiveOf
<1> QED BY <1>1, <1>2, <1>3, <1>4, <1>5, <1>7

LEMMA SwappedSound ==
  ASSUME NEW L, NEW M, NEW n \in Nat, NEW k \in Nat, n <= k, NEW f,
         CopySound(L, n, f), Swapped(L, M), \A x \in Names : L[x] \subseteq Held,
         f = NoFanout \/ (f.body \in Nat /\ f.pending \subseteq Names)
  PROVE  CopySound(M, k, f) /\ CopySound(M, k, NoFanout)
<1>1. Alone(M)
  BY SwappedAlone DEF CopySound
<1>2. ASSUME NEW t \in Names, NEW m \in M[t] PROVE m.body <= k
  <2>1. PICK y \in Names : \E v \in L[y] : v.body = m.body
    BY SwappedBodies
  <2>2. PICK v \in L[y] : v.body = m.body
    BY <2>1
  <2>3. v.body \in Nat /\ v.body <= n
    BY DEF CopySound, Held
  <2> QED BY <2>2, <2>3
<1>3. CopySound(M, k, NoFanout)
  BY <1>1, <1>2 DEF CopySound
<1>4. ASSUME f # NoFanout
      PROVE  /\ f.body <= k + 1
             /\ \A t, u \in f.pending : Kin(t, u) => t = u
             /\ \A t \in f.pending : Absent(M, t, f.body)
  <2>1. f.body <= n + 1 /\ f.body \in Nat
    BY <1>4 DEF CopySound
  <2>2. \A t, u \in f.pending : Kin(t, u) => t = u
    BY <1>4 DEF CopySound
  <2>3. \A t \in f.pending : t \in Names /\ Absent(L, t, f.body)
    BY <1>4 DEF CopySound
  <2>4. \A t \in f.pending : Absent(M, t, f.body)
    BY <2>3, SwappedBodies
  <2>5. f.body <= k + 1
    BY <2>1
  <2> QED BY <2>2, <2>4, <2>5
<1> QED BY <1>1, <1>2, <1>3, <1>4 DEF CopySound

(* One copy of a publish: sendDirect, or a turn of the loop over the       *)
(* destinations of a group.                                                *)
LEMMA PublishSound ==
  ASSUME BooksInv, GroupsInv, NEW t \in Names, NEW body \in Nat, body <= store.sequence + 1,
         CopySound(LiveOf(store, HeldAt), store.sequence, NoFanout),
         Absent(LiveOf(store, HeldAt), t, body),
         store' = EnqueueNew(store, t, body), HeldAt' = HeldAt
  PROVE  /\ CopySound(LiveOf(store, HeldAt)', store'.sequence, NoFanout)
         /\ store'.sequence \in Nat /\ store.sequence + 1 <= store'.sequence
         /\ \A x \in Names : Absent(LiveOf(store, HeldAt), x, body) /\ ~Kin(t, x)
                               => Absent(LiveOf(store, HeldAt)', x, body)
<1> DEFINE hs == HeldAt
           c == EnqueueNew(store, t, body)
           L == LiveOf(store, hs)
           K == LiveOf(c, hs)
           n == store.sequence
<1>1. /\ TypeOK /\ store \in Stores /\ n \in Nat /\ Distinct(store)
      /\ hs \in [Names -> SUBSET Held]
      /\ \A x \in Names : \A m \in hs[x] : m \notin WaitingIn(store)
      /\ \A x \in Names : L[x] \subseteq Held
  BY CopyTypes
<1>2. CopySound(L, n, NoFanout) /\ Absent(L, t, body)
  OBVIOUS
<1>3. LiveOf(store, HeldAt)' = K /\ store' = c
  BY DEF LiveOf
<1> HIDE DEF hs
<1>4. /\ c.sequence \in Nat /\ n + 1 <= c.sequence
      /\ \E M : /\ Swapped(L, M)
                /\ \E u \in Names, w \in Held :
                     Kin(t, u) /\ w.body = body /\ Gains(M, K, u, w)
  BY <1>1, PublishGains
<1> HIDE DEF c, L, K, n
<1>5. PICK M : /\ Swapped(L, M)
               /\ \E u \in Names, w \in Held :
                    Kin(t, u) /\ w.body = body /\ Gains(M, K, u, w)
  BY <1>4
<1>6. PICK u \in Names, w \in Held : Kin(t, u) /\ w.body = body /\ Gains(M, K, u, w)
  BY <1>5
<1>7. CopySound(M, n, NoFanout)
  BY <1>1, <1>2, <1>5, SwappedSound
<1>8. Absent(M, t, body)
  BY <1>2, <1>5, SwappedBodies
<1>9. Absent(M, u, w.body)
  <2>1. \A x : Kin(u, x) => Kin(t, x)
    BY <1>6, KinIsEquivalence
  <2> QED BY <1>6, <1>8, <2>1 DEF Absent
<1>10. Alone(K)
  BY <1>6, <1>7, <1>9, GainedAlone DEF CopySound
<1>11. ASSUME NEW x \in Names, NEW z \in K[x] PROVE z.body <= c.sequence
  <2>1. z \in M[x] \/ z = w
    BY <1>6 DEF Gains
  <2>2. CASE z = w
    <3>1. body <= n + 1
      BY DEF n
    <3> QED BY <1>1, <1>4, <1>6, <2>2, <3>1
  <2>3. CASE z \in M[x]
    <3>1. PICK y \in Names : \E v \in L[y] : v.body = z.body
      BY <1>5, <2>3, SwappedBodies
    <3>2. z.body \in Nat
      BY <1>1, <3>1 DEF Held
    <3>3. z.body <= n
      BY <1>7, <2>3 DEF CopySound
    <3> QED BY <1>1, <1>4, <3>2, <3>3
  <2> QED BY <2>1, <2>2, <2>3
<1>12. CopySound(K, c.sequence, NoFanout)
  BY <1>10, <1>11 DEF CopySound
<1>13. ASSUME NEW x \in Names, Absent(L, x, body), ~Kin(t, x) PROVE Absent(K, x, body)
  <2>1. Absent(M, x, body)
    BY <1>5, <1>13, SwappedBodies
  <2>2. ~Kin(x, u)
    BY <1>6, <1>13, KinIsEquivalence
  <2>3. ASSUME NEW y \in Names, Kin(x, y), NEW z \in K[y] PROVE z.body # body
    <3>1. y # u
      BY <2>2, <2>3
    <3>2. z \in M[y]
      BY <1>6, <3>1 DEF Gains
    <3> QED BY <2>1, <2>3, <3>2 DEF Absent
  <2> QED BY <2>3 DEF Absent
<1> QED BY <1>3, <1>4, <1>12, <1>13 DEF L, n, hs

(* Every step but a publish. *)
ChainStep ==
  /\ Swapped(LiveOf(store, HeldAt), LiveOf(store, HeldAt)')
  /\ store'.sequence \in Nat /\ store.sequence <= store'.sequence

LEMMA ChainSound ==
  ASSUME CopyInv, BooksInv', GroupsInv', ChainStep, fanout' = fanout \/ fanout' = NoFanout
  PROVE  CopyInv'
<1> DEFINE L == LiveOf(store, HeldAt)
           K == LiveOf(store, HeldAt)'
<1>1. /\ TypeOK /\ store.sequence \in Nat /\ \A x \in Names : L[x] \subseteq Held
  BY CopyTypes DEF CopyInv
<1>2. fanout = NoFanout \/ (fanout.body \in Nat /\ fanout.pending \subseteq Names)
  BY <1>1 DEF TypeOK
<1>3. CopySound(L, store.sequence, fanout) /\ Swapped(L, K)
  BY DEF CopyInv, ChainStep
<1>4. store'.sequence \in Nat /\ store.sequence <= store'.sequence
  BY DEF ChainStep
<1> HIDE DEF L, K
<1>5. CopySound(K, store'.sequence, fanout) /\ CopySound(K, store'.sequence, NoFanout)
  BY <1>1, <1>2, <1>3, <1>4, SwappedSound
<1>6. CopySound(K, store'.sequence, fanout')
  BY <1>5
<1> QED BY <1>6 DEF CopyInv, K

(* Holding no more than before. *)
LEMMA HeldFewer ==
  ASSUME \A p \in Transports :
           /\ outstanding'[p] \subseteq outstanding[p]
           /\ subscription'[p] = subscription[p] \/ outstanding'[p] = {}
  PROVE  \A x \in Names : HeldAt'[x] \subseteq HeldAt[x]
<1>1. \A x \in Names : HeldFrom(x)' \subseteq HeldFrom(x)
  BY DEF HeldFrom
<1>2. \A x \in Names : HeldAt[x] = HeldFrom(x) /\ HeldAt'[x] = HeldFrom(x)'
  BY DEF HeldAt
<1> QED BY <1>1, <1>2

(* Fewer waiting and fewer held. *)
LEMMA ChainFewer ==
  ASSUME BooksInv, BooksInv', \A x \in Names : At(store', x) \subseteq At(store, x),
         \A x \in Names : HeldAt'[x] \subseteq HeldAt[x],
         store.sequence <= store'.sequence
  PROVE  ChainStep
<1>1. store'.sequence \in Nat
  BY DEF BooksInv, OrderInv, TypeOK, Stores
<1>2. \A x \in Names : LiveOf(store, HeldAt)'[x] \subseteq LiveOf(store, HeldAt)[x]
  <2>1. \A x \in Names : LiveOf(store, HeldAt)'[x] = At(store', x) \cup HeldAt'[x]
    BY DEF LiveOf, At
  <2>2. \A x \in Names : LiveOf(store, HeldAt)[x] = At(store, x) \cup HeldAt[x]
    BY DEF LiveOf
  <2> QED BY <2>1, <2>2
<1> QED BY <1>1, <1>2 DEF ChainStep, Swapped

(* Transport p lets go of m, and nothing is new in the store but w at u. *)
LetsGo(p, m) ==
  /\ outstanding' = [outstanding EXCEPT ![p] = @ \ {m}]
  /\ subscription' = subscription

OnlyNew(u, w) ==
  /\ \A x \in Names : \A z \in At(store', x) : z \in At(store, x) \/ (x = u /\ z = w)
  /\ store.sequence <= store'.sequence

(* What transport p holds becomes w, waiting at u, of the same chain. *)
LEMMA ChainSwap ==
  ASSUME BooksInv, BooksInv', NEW p \in Transports, NEW m \in outstanding[p], LetsGo(p, m),
         NEW u \in Names, NEW w \in Held, w.body = m.body, Kin(subscription[p], u),
         OnlyNew(u, w)
  PROVE  ChainStep
<1> DEFINE t == subscription[p]
           L == LiveOf(store, HeldAt)
           K == LiveOf(store, HeldAt)'
<1>0. /\ outstanding' = [outstanding EXCEPT ![p] = @ \ {m}] /\ subscription' = subscription
      /\ \A x \in Names : \A z \in At(store', x) : z \in At(store, x) \/ (x = u /\ z = w)
      /\ store.sequence <= store'.sequence
  BY DEF LetsGo, OnlyNew
<1>1. /\ t \in Names /\ m \in HeldNow /\ m \in Held
      /\ \A x \in Names : \A n \in HeldAt[x] : n \in HeldNow /\ n \notin WaitingIn(store)
  BY HoldersSubscribe, CopyTypes
<1>2. m \in HeldAt[t]
  BY <1>1 DEF HeldAt, HeldFrom
<1>3. /\ HeldNow' = HeldNow \ {m}
      /\ \A q \in Transports : outstanding'[q] \subseteq outstanding[q]
  BY <1>0, HeldLess
<1>4. \A x \in Names : \A z \in HeldAt'[x] : z \in HeldAt[x] /\ z # m
  <2>1. \A x \in Names : HeldAt'[x] \subseteq HeldAt[x]
    BY <1>0, <1>3, HeldFewer
  <2>2. \A x \in Names : \A z \in HeldAt'[x] : z \in HeldNow'
    BY <1>0, CopyTypes DEF HeldAt, HeldFrom, HeldNow
  <2> QED BY <1>3, <2>1, <2>2
<1>5. \A x \in Names : \A z \in At(store, x) : z # m
  BY <1>1, <1>2, WaitingMember
<1>6. \A x \in Names : K[x] = At(store', x) \cup HeldAt'[x]
  BY DEF LiveOf, At
<1>7. \A x \in Names : L[x] = At(store, x) \cup HeldAt[x]
  BY DEF LiveOf
<1> HIDE DEF L, K, t
<1>8. Swaps(L, K, t, m, u, w) /\ m \in L[t]
  BY <1>0, <1>1, <1>2, <1>4, <1>5, <1>6, <1>7 DEF Swaps
<1>9. Swapped(L, K)
  <2>1. Kin(t, u)
    BY DEF t
  <2> QED BY <1>1, <1>8, <2>1 DEF Swapped
<1>10. store'.sequence \in Nat
  BY DEF BooksInv, OrderInv, TypeOK, Stores
<1> QED BY <1>0, <1>9, <1>10 DEF ChainStep, L, K

(* A delivery given back. *)
LEMMA ChainReturned ==
  ASSUME BooksInv, BooksInv', NEW p \in Transports, NEW m \in outstanding[p],
         outstanding' = [outstanding EXCEPT ![p] = @ \ {m}], subscription' = subscription,
         store' = requeue(store, subscription[p], m)
  PROVE  ChainStep
<1> DEFINE t == subscription[p]
           v == [m EXCEPT !.redelivered = TRUE]
<1>1. t \in Names /\ m \in Held /\ store \in Stores
  BY HoldersSubscribe
<1>2. v \in Held /\ v.body = m.body
  BY <1>1 DEF Held
<1>3. /\ store'.sequence = store.sequence
      /\ store'.messages[t] = <<v>> \o store.messages[t]
      /\ \A x \in Names : x # t => store'.messages[x] = store.messages[x]
  BY <1>1, RequeueShape
<1>4. store.messages[t] \in Seq(Held) /\ store.sequence \in Nat
  BY <1>1 DEF Stores
<1> HIDE DEF v
<1>5. At(store', t) = At(store, t) \cup {v}
  BY <1>2, <1>3, <1>4, ConsContents DEF At
<1>6. \A x \in Names : x # t => At(store', x) = At(store, x)
  BY <1>3 DEF At
<1>7. \A x \in Names : \A z \in At(store', x) : z \in At(store, x) \/ (x = t /\ z = v)
  BY <1>5, <1>6
<1>8. Kin(t, t) /\ store.sequence <= store'.sequence
  BY <1>3, <1>4, KinIsEquivalence
<1>9. LetsGo(p, m) /\ OnlyNew(t, v) /\ Kin(subscription[p], t)
  BY <1>7, <1>8 DEF LetsGo, OnlyNew
<1> HIDE DEF t
<1> QED BY <1>1, <1>2, <1>9, ChainSwap

(* The switch at the end of pump() and settle(). *)
LEMMA ResolveChain ==
  ASSUME BooksInv, BooksInv', GroupsInv, NEW p \in Transports, NEW m \in outstanding[p], NEW d,
         Resolve(p, m, d)
  PROVE  ChainStep
<1> DEFINE t == subscription[p]
<1>1. t \in Names /\ m \in Held /\ TypeOK /\ store \in Stores /\ store.sequence \in Nat
  BY HoldersSubscribe, CopyTypes
<1>2. outstanding' = [outstanding EXCEPT ![p] = @ \ {m}] /\ subscription' = subscription
  BY DEF Resolve
<1>3. \A x \in Names : HeldAt'[x] \subseteq HeldAt[x]
  <2>1. \A q \in Transports : outstanding'[q] \subseteq outstanding[q]
    BY <1>2, HeldLess
  <2> QED BY <1>2, <2>1, HeldFewer
<1>4. ASSUME store'.messages = store.messages, store.sequence <= store'.sequence PROVE ChainStep
  BY <1>3, <1>4, ChainFewer DEF At
<1>5. CASE store' = Gone(store, "acked", m)
  <2>1. store'.messages = store.messages /\ store'.sequence = store.sequence
    BY <1>1, <1>5, GoneShape DEF Fates
  <2> QED BY <1>1, <1>4, <2>1
<1>6. CASE store' = requeue(store, t, m)
  BY <1>2, <1>6, ChainReturned
<1>7. CASE store' = deadLetterLocked(store, t, m)
  <2>1. store.sequence <= store'.sequence
    BY <1>1, <1>7, DeadLetterShape DEF AllGrown
  <2>2. \/ store'.messages = store.messages
        \/ /\ t \in Topics
           /\ \E w \in Held :
                /\ w.body = m.body
                /\ \A x \in Names : \A z \in At(store', x) :
                     z \in At(store, x) \/ (x = deadLetterTopic(t) /\ z = w)
    BY <1>1, <1>7, DeadLetterGains
  <2>3. ASSUME t \in Topics, NEW w \in Held, w.body = m.body,
               \A x \in Names : \A z \in At(store', x) :
                 z \in At(store, x) \/ (x = deadLetterTopic(t) /\ z = w)
        PROVE  ChainStep
    <3>1. deadLetterTopic(t) \in Names /\ Kin(t, deadLetterTopic(t))
      BY <2>3, NamesAreNames, KinIsEquivalence
    <3> DEFINE u == deadLetterTopic(t)
    <3>2. LetsGo(p, m) /\ OnlyNew(u, w) /\ Kin(subscription[p], u) /\ u \in Names
      BY <1>2, <2>1, <2>3, <3>1 DEF LetsGo, OnlyNew
    <3> HIDE DEF u
    <3> QED BY <2>3, <3>2, ChainSwap
  <2> QED BY <1>4, <2>1, <2>2, <2>3
<1> QED BY <1>5, <1>6, <1>7 DEF Resolve

LEMMA TakeChain ==
  ASSUME BooksInv, BooksInv', NEW p \in Transports, take(p)
  PROVE  ChainStep
<1> DEFINE t == subscription[p]
           q == store.messages[t]
           h == Head(q)
<1>1. /\ TypeOK /\ store \in Stores /\ store.sequence \in Nat
  BY CopyTypes
<1>2. t \in Names /\ q # <<>> /\ q \in Seq(Held)
  BY <1>1 DEF take, TypeOK, Stores
<1>3. /\ store' = PopFront(store, t) /\ subscription' = subscription
      /\ outstanding' = [outstanding EXCEPT ![p] = {h}] /\ outstanding[p] = {}
  BY DEF take
<1>4. /\ store'.sequence = store.sequence /\ store'.messages[t] = Tail(q)
      /\ \A x \in Names : x # t => store'.messages[x] = store.messages[x]
  BY <1>1, <1>2, <1>3, PopFrontShape
<1>5. /\ At(store, t) = At(store', t) \cup {h}
      /\ \A x \in Names : x # t => At(store', x) = At(store, x)
  BY <1>2, <1>4, TailContents DEF At
<1>6. outstanding'[p] = {h} /\ \A r \in Transports : r # p => outstanding'[r] = outstanding[r]
  BY <1>3, HeldMore
<1>7. \A x \in Names : \A z \in HeldFrom(x)' : z \in HeldFrom(x) \/ (x = t /\ z = h)
  BY <1>3, <1>6 DEF HeldFrom
<1> DEFINE L == LiveOf(store, HeldAt)
           K == LiveOf(store, HeldAt)'
<1>8. \A x \in Names : K[x] = At(store', x) \cup HeldFrom(x)'
  BY DEF LiveOf, At, HeldAt
<1>9. \A x \in Names : L[x] = At(store, x) \cup HeldFrom(x)
  BY DEF LiveOf, HeldAt
<1> HIDE DEF L, K, h
<1>10. \A x \in Names : K[x] \subseteq L[x]
  BY <1>5, <1>7, <1>8, <1>9
<1>11. Swapped(L, K)
  BY <1>10 DEF Swapped
<1> QED BY <1>1, <1>4, <1>11 DEF ChainStep, L, K

LEMMA CopyInit == Init => CopyInv
<1> SUFFICES ASSUME Init PROVE CopyInv
  OBVIOUS
<1>1. BooksInv /\ GroupsInv /\ fanout = NoFanout
  BY BooksInit, GroupsInit DEF Init
<1>2. \A x \in Names : At(store, x) = {}
  BY DEF Init, EmptyStore, At, ContentsOf
<1>3. \A x \in Names : HeldAt[x] = {}
  BY DEF Init, HeldAt, HeldFrom
<1>4. \A x \in Names : LiveOf(store, HeldAt)[x] = {}
  BY <1>2, <1>3 DEF LiveOf
<1>5. CopySound(LiveOf(store, HeldAt), store.sequence, fanout)
  BY <1>1, <1>4 DEF CopySound, Alone
<1> QED BY <1>1, <1>5 DEF CopyInv

LEMMA CopyNext ==
  ASSUME ForensicsApart
  PROVE  CopyInv /\ [Next]_vars => CopyInv'
<1> SUFFICES ASSUME CopyInv, [Next]_vars PROVE CopyInv'
  OBVIOUS
<1> DEFINE L == LiveOf(store, HeldAt)
<1>0. /\ BooksInv /\ BooksInv' /\ GroupsInv /\ TypeOK /\ store \in Stores
      /\ store.sequence \in Nat /\ CopySound(L, store.sequence, fanout)
      /\ \A x \in Names : L[x] \subseteq Held
  BY BooksNext, CopyTypes DEF CopyInv
<1>1. GroupsInv'
  BY <1>0, GroupsNext
<1>2. ASSUME ChainStep, fanout' = fanout \/ fanout' = NoFanout PROVE CopyInv'
  BY <1>0, <1>1, <1>2, ChainSound
<1>3. ASSUME UNCHANGED <<store, outstanding>>, fanout' = fanout \/ fanout' = NoFanout,
             \A p \in Transports : subscription'[p] = subscription[p] \/ outstanding[p] = {}
      PROVE  CopyInv'
  <2>1. \A x \in Names : HeldAt'[x] \subseteq HeldAt[x]
    BY <1>3, HeldFewer
  <2>2. ChainStep
    BY <1>0, <1>3, <2>1, ChainFewer DEF At
  <2> QED BY <1>2, <1>3, <2>2
<1>4. ASSUME NEW p \in Transports,
             connect(p) \/ handlerDefers(p) \/ handlerThrows(p) \/ close(p)
      PROVE  CopyInv'
  BY <1>3, <1>4 DEF connect, handlerDefers, handlerThrows, close, brokerVars
<1>5. ASSUME NEW p \in Transports, finishClose(p) PROVE CopyInv'
  BY <1>0, <1>3, <1>5 DEF finishClose, brokerVars, TypeOK
<1>6. ASSUME NEW p \in Transports, NEW t \in Topics, subscribe(p, t) PROVE CopyInv'
  <2>1. outstanding[p] = {}
    BY <1>0, <1>6 DEF subscribe, BooksInv, OrderInv
  <2> QED BY <1>0, <1>3, <1>6, <2>1 DEF subscribe, brokerVars, TypeOK
<1>7. ASSUME NEW t, NEW o, BrokerEnsureTopic(t, o), UNCHANGED <<outstanding, subscription>>
      PROVE  CopyInv'
  BY <1>3, <1>7 DEF BrokerEnsureTopic
<1>8. ASSUME NEW p \in Transports, NEW t \in Topics, NEW o,
             ensureForensic(p, t, o) \/ ensurePlain(p, t, o)
      PROVE  CopyInv'
  BY <1>7, <1>8 DEF ensureForensic, ensurePlain, Declare, transportVars
<1>8a. ASSUME NEW p \in Transports, ensureSource(p) PROVE CopyInv'
  BY <1>7, <1>8a DEF ensureSource, Declare, transportVars
<1>9. ASSUME NEW p \in Transports, take(p) PROVE CopyInv'
  BY <1>0, <1>2, <1>9, TakeChain DEF take
<1>10. ASSUME NEW p \in Transports, NEW s, NEW d, handlerReturns(p, d) \/ settle(p, s, d)
       PROVE  CopyInv'
  <2>1. PICK m \in outstanding[p] : Resolve(p, m, d)
    BY <1>10 DEF handlerReturns, settle
  <2>2. fanout' = fanout
    BY <2>1 DEF Resolve
  <2> QED BY <1>0, <1>2, <2>1, <2>2, ResolveChain
<1>11. ASSUME NEW p \in Transports, returnOutstanding(p) PROVE CopyInv'
  <2>1. PICK m \in outstanding[p] :
          /\ store' = requeue(store, subscription[p], m)
          /\ outstanding' = [outstanding EXCEPT ![p] = @ \ {m}]
    BY <1>11 DEF returnOutstanding
  <2>2. subscription' = subscription /\ fanout' = fanout
    BY <1>11 DEF returnOutstanding
  <2> QED BY <1>0, <1>2, <2>1, <2>2, ChainReturned
<1>12. ASSUME NEW p \in Transports, NEW t \in Topics, purgeTopic(p, t) PROVE CopyInv'
  <2>1. /\ store' = purge(store, t) /\ UNCHANGED <<outstanding, subscription, fanout>> /\ t \in Names
    BY <1>12, NamesAreNames DEF purgeTopic, transportVars
  <2>2. /\ store'.sequence = store.sequence /\ store'.messages[t] = <<>>
        /\ \A x \in Names : x # t => store'.messages[x] = store.messages[x]
    BY <1>0, <2>1 DEF purge, Stores
  <2>3. \A x \in Names : At(store', x) \subseteq At(store, x)
    BY <2>2 DEF At, ContentsOf
  <2>4. \A x \in Names : HeldAt'[x] \subseteq HeldAt[x]
    BY <2>1, HeldFewer
  <2>5. ChainStep
    BY <1>0, <2>2, <2>3, <2>4, ChainFewer
  <2> QED BY <1>2, <2>1, <2>5
<1>13. ASSUME UNCHANGED <<outstanding, subscription>> PROVE HeldAt' = HeldAt
  BY <1>13 DEF HeldAt, HeldFrom
<1>14. ASSUME NEW p \in Transports, NEW t \in Topics, sendDirect(p, t) PROVE CopyInv'
  <2> DEFINE body == store.sequence + 1
  <2>1. /\ store' = EnqueueNew(store, t, body) /\ UNCHANGED <<outstanding, subscription, fanout>>
        /\ fanout = NoFanout /\ t \in Names
    BY <1>14, NamesAreNames DEF sendDirect, transportVars, Unlocked
  <2>2. body \in Nat /\ body <= store.sequence + 1
    BY <1>0
  <2>3. Absent(L, t, body)
    <3>1. \A x \in Names : \A m \in L[x] : m.body \in Nat /\ m.body <= store.sequence
      BY <1>0 DEF CopySound, Held
    <3> QED BY <1>0, <3>1 DEF Absent
  <2> HIDE DEF body
  <2>4. CopySound(LiveOf(store, HeldAt)', store'.sequence, NoFanout)
    BY <1>0, <1>13, <2>1, <2>2, <2>3, PublishSound
  <2> QED BY <1>0, <1>1, <2>1, <2>4 DEF CopyInv
<1>15. ASSUME NEW t \in Names, fanoutCopy(t) PROVE CopyInv'
  <2> DEFINE body == fanout.body
  <2>1. /\ store' = EnqueueNew(store, t, body) /\ UNCHANGED <<outstanding, subscription>>
        /\ fanout # NoFanout /\ t \in fanout.pending
        /\ fanout' = [fanout EXCEPT !.pending = @ \ {t}]
    BY <1>15 DEF fanoutCopy, transportVars, Unlocked
  <2>2. fanout \in [by : Transports, body : Nat, pending : SUBSET topics] /\ topics \subseteq Names
    BY <1>0, <2>1 DEF TypeOK
  <2>3. /\ body \in Nat /\ fanout'.body = body /\ fanout'.pending = fanout.pending \ {t}
        /\ fanout.pending \subseteq Names
    BY <2>1, <2>2
  <2>4. /\ body <= store.sequence + 1 /\ \A x, y \in fanout.pending : Kin(x, y) => x = y
        /\ \A x \in fanout.pending : Absent(L, x, body)
    BY <1>0, <2>1 DEF CopySound
  <2>5. CopySound(L, store.sequence, NoFanout)
    BY <1>0 DEF CopySound
  <2> HIDE DEF body
  <2>6. /\ CopySound(LiveOf(store, HeldAt)', store'.sequence, NoFanout)
        /\ store'.sequence \in Nat /\ store.sequence + 1 <= store'.sequence
        /\ \A x \in Names : Absent(L, x, body) /\ ~Kin(t, x) => Absent(LiveOf(store, HeldAt)', x, body)
    BY <1>0, <1>13, <2>1, <2>3, <2>4, <2>5, PublishSound
  <2>7. \A x \in fanout'.pending : Absent(LiveOf(store, HeldAt)', x, body)
    BY <2>1, <2>3, <2>4, <2>6
  <2>8. body <= store'.sequence + 1
    BY <1>0, <2>3, <2>4, <2>6
  <2>9. CopySound(LiveOf(store, HeldAt)', store'.sequence, fanout')
    BY <2>3, <2>4, <2>6, <2>7, <2>8 DEF CopySound
  <2> QED BY <1>0, <1>1, <2>9 DEF CopyInv
<1>16. ASSUME NEW p \in Transports, NEW t \in Topics, NEW r, sendGrouped(p, t, r) PROVE CopyInv'
  <2> DEFINE key == IF r = EmptyString THEN binding[t] ELSE r
             g == options[t].group
  <2>1. /\ UNCHANGED <<store, outstanding, subscription>> /\ g # NoGroup
        /\ fanout' = [by |-> p, body |-> store.sequence + 1, pending |-> Matching(g, key)]
    BY <1>16 DEF sendGrouped, transportVars
  <2>2. LiveOf(store, HeldAt)' = L
    BY <1>13, <2>1 DEF LiveOf, At
  <2>3. \A x, y \in Matching(g, key) : Kin(x, y) => x = y
    <3> HIDE DEF g, key
    <3> QED BY <1>0, <2>1, MatchesAreNoKin
  <2>4. \A x : Absent(L, x, store.sequence + 1)
    <3>1. \A x \in Names : \A m \in L[x] : m.body \in Nat /\ m.body <= store.sequence
      BY <1>0 DEF CopySound, Held
    <3> QED BY <1>0, <3>1 DEF Absent
  <2>5. fanout'.body = store.sequence + 1 /\ fanout'.pending = Matching(g, key)
    BY <2>1
  <2> HIDE DEF L
  <2>6. CopySound(L, store'.sequence, fanout')
    BY <1>0, <2>1, <2>3, <2>4, <2>5 DEF CopySound
  <2> QED BY <1>0, <1>1, <2>2, <2>6 DEF CopyInv
<1>17. ASSUME fanoutDone PROVE CopyInv'
  BY <1>3, <1>17 DEF fanoutDone, transportVars
<1>18. ASSUME UNCHANGED vars PROVE CopyInv'
  BY <1>3, <1>18 DEF vars, brokerVars, transportVars
<1> QED BY <1>4, <1>5, <1>6, <1>8, <1>9, <1>10, <1>11, <1>12, <1>14, <1>15, <1>16, <1>17, <1>18,
        <1>8a DEF Next

(* No payload is live twice along one chain of forensic destinations: not  *)
(* at its source and behind it, not twice behind it, whatever is rejected, *)
(* evicted, refused, returned or published to groups in between.  What     *)
(* ForensicsApart excludes is a group that holds a source together with a  *)
(* forensic destination behind it, which is published to twice by design.  *)
THEOREM OneCopyLives ==
  ASSUME ForensicsApart
  PROVE  Spec => []OneLiveCopy
<1>1. CopyInv => OneLiveCopy
  <2> SUFFICES ASSUME CopyInv, NEW t \in Names, NEW u \in Names,
                      NEW m \in LiveAt(t), NEW n \in LiveAt(u),
                      m.body = n.body, Origin(t) = Origin(u)
               PROVE  t = u /\ m = n
    BY DEF OneLiveCopy
  <2> DEFINE L == LiveOf(store, HeldAt)
  <2>1. \A x \in Names : LiveAt(x) = L[x]
    BY SamePlaces DEF LiveAt, LiveOf, HeldAt, HeldFrom
  <2>2. Alone(L)
    BY DEF CopyInv, CopySound
  <2>3. Kin(t, u)
    BY OriginIsKin
  <2> HIDE DEF L
  <2>4. m \in L[t] /\ n \in L[u]
    BY <2>1
  <2> QED BY <2>2, <2>3, <2>4 DEF Alone
<1>2. CopyInv /\ [Next]_vars => CopyInv'
  BY CopyNext
<1> QED BY <1>1, <1>2, CopyInit, PTL DEF Spec

=============================================================================
