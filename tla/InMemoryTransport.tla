-------------------------- MODULE InMemoryTransport --------------------------
(***************************************************************************)
(* The reference backend: src/transport/InMemoryTransport.cpp.             *)
(*                                                                         *)
(* One process-wide Broker, guarded by one mutex, and any number of        *)
(* InMemoryTransport objects, each owned by one thread.  A transport's     *)
(* members are touched by its own thread only, so an action is one         *)
(* critical section of the broker together with the thread-local steps     *)
(* around it.  Where the code takes the mutex twice (ensureTopic, close)   *)
(* there are two actions; where it loops with the mutex held (a grouped    *)
(* publish) there is one action per iteration and `fanout' is the mutex.   *)
(*                                                                         *)
(* A subscription's handler is the application: it runs while other        *)
(* threads do, may send and purge from inside, and returns any Disposition *)
(* or throws.                                                              *)
(***************************************************************************)
EXTENDS Seam, RouteMatch, FiniteSets

CONSTANTS
  Transports,      \* the transport objects, one thread each
  Topics,          \* the names callers use
  Groups,          \* the routing groups callers declare
  Routes,          \* the per-message routes (SendOptions::route) callers use
  Declarations,    \* Declarations[t]: the options callers declare t with
  Rank,            \* the order std::map visits the names in
  NoTopic,         \* no subscription
  NoFanout,        \* the mutex is free
  MaxSequence,     \* bound: no send() once this many messages are numbered
  MaxReceived      \* bound: deliveries per transport

(* Every name a destination can get: deadLetterTopic is applied to callers' *)
(* names only, because a forensic destination has no forensic destination. *)
Names == Topics \cup {deadLetterTopic(t) : t \in Topics}

IsForensicName(t) == \E u \in Topics : t = deadLetterTopic(u)

ASSUME NamesAssumption ==
  /\ Topics \subseteq Name
  /\ Rank \in [Names -> Nat]
  /\ NoTopic \notin Names
  /\ Routes \subseteq Name

ASSUME GroupsAssumption == Groups \subseteq Strings \ {NoGroup}

(* A caller that declares a forensic destination itself, to read it, asks  *)
(* for no second forensic destination behind it.                           *)
ASSUME DeclarationsAssumption ==
  /\ Declarations \in [Topics -> SUBSET TopicOptions]
  /\ \A t \in Topics : \A o \in Declarations[t] :
       /\ o.group \in Groups \cup {NoGroup, kDeadLetterExchange}
       /\ IsForensicName(t) => ~o.deadLetter

ASSUME BoundsAssumption == MaxSequence \in Nat /\ MaxReceived \in Nat

(* A transport is an object of its own, no place of the delivery contract. *)
ASSUME TransportsAssumption ==
  /\ IsFiniteSet(Transports)
  /\ Transports \cap {"unborn", "waiting", "gone"} = {}

GroupNames == Groups \cup {kDeadLetterExchange}
Undeclared == "undeclared"

(* One message as the broker keeps it.  A body is the identity of the      *)
(* payload: the number of the publish that brought it in.                  *)
Held == [sequence : Nat, body : Nat, redelivered : BOOLEAN]

(* Where a message ends.  "dead": replaced by a new number in the  *)
(* forensic destination; "lost": an exception left it in no place at all.  *)
Fates == {"acked", "dead", "dropped", "refused", "purged", "lost"}

Stores == [messages : [Names -> Seq(Held)], sequence : Nat,
           gone : [Fates -> SUBSET Held]]

(* The counters of Stats a delivery moves.  sent and the byte counts, which *)
(* nothing reads back, are left out.                                       *)
Counters == {"received", "acks", "rejects", "requeues", "abandoned"}

VARIABLES
  topics,        \* keys of Broker::_topics
  options,       \* TopicState::options
  binding,       \* TopicState::binding
  groups,        \* Broker::_groups
  store,         \* TopicState::messages of every topic, Broker::_sequence, and
                 \* (history) the messages that met each fate
  fanout,        \* the grouped publish that holds the mutex, or NoFanout
  connected,     \* _connected
  subscription,  \* _topic, _handler and _subscribed
  outstanding,   \* the messages of _outstanding
  pc,            \* where the transport's thread is
  request,       \* the arguments of ensureTopic between its two locks
  stats,         \* _stats
  taken,         \* history: sequence numbers ever handed to a handler
  uncounted,     \* history: deliveries that left _outstanding with no counter
  declared       \* history: the successful ensureTopic calls

brokerVars    == <<topics, options, binding, groups, store, fanout>>
transportVars == <<connected, subscription, outstanding, pc, request, stats>>
historyVars   == <<taken, uncounted, declared>>
vars == <<brokerVars, transportVars, historyVars>>

-----------------------------------------------------------------------------
(* Broker operations, on a value b of `store'.                             *)

Gone(b, fate, m) == [b EXCEPT !.gone[fate] = @ \cup {m}]

PushBack(b, t, m)  == [b EXCEPT !.messages[t] = Append(@, m)]

(* Variant: front() without pop_front(). *)
PopFrontPeeks(b, t) == b

PopFront(b, t) == [b EXCEPT !.messages[t] = Tail(@)]

(* Variant: one too many. *)
FullTooLate(b, t) == /\ options[t].maxLength > 0
                     /\ Len(b.messages[t]) > options[t].maxLength

Full(b, t) == /\ options[t].maxLength > 0
              /\ Len(b.messages[t]) >= options[t].maxLength

(* deadLetterLocked throws: the source's forensic destination is missing.  *)
Unprovisioned(t) == /\ t \in topics
                    /\ options[t].deadLetter
                    /\ deadLetterTopic(t) \notin topics

(* enqueueLocked, given what becomes of a message it evicts or refuses     *)
(* from a destination that dead-letters.  A throw from there leaves before *)
(* push_back.                                                              *)
EnqueueWith(DeadLetter(_, _, _), b, t, m) ==
  LET Sacrifice(c, v, fate) == IF options[t].deadLetter
                               THEN DeadLetter(c, t, v)
                               ELSE Gone(c, fate, v)
  IN  IF ~Full(b, t) THEN PushBack(b, t, m)
      ELSE CASE options[t].overflow = "DropHead" ->
                  LET c == Sacrifice(PopFront(b, t), Head(b.messages[t]), "dropped")
                  IN  IF Unprovisioned(t) THEN Gone(c, "lost", m)
                                          ELSE PushBack(c, t, m)
             [] options[t].overflow = "RejectPublish" ->
                  Gone(b, "refused", m)
             [] options[t].overflow = "RejectPublishDlx" ->
                  Sacrifice(b, m, "refused")

(* A forensic destination has no forensic destination of its own           *)
(* (DeclarationsAssumption), so what it dead-letters would go nowhere.     *)
Discard(b, t, m) == Gone(b, "dropped", m)

enqueueForensic(b, t, m) == EnqueueWith(Discard, b, t, m)

deadLetterLocked(b, source, m) ==
  IF source \notin topics \/ ~options[source].deadLetter
  THEN Gone(b, "dropped", m)
  ELSE IF Unprovisioned(source) THEN Gone(b, "lost", m)
  ELSE LET n == b.sequence + 1
       IN  enqueueForensic([Gone(b, "dead", m) EXCEPT !.sequence = n],
                           deadLetterTopic(source),
                           [m EXCEPT !.sequence = n, !.redelivered = FALSE])

enqueueLocked(b, t, m) == EnqueueWith(deadLetterLocked, b, t, m)

(* Variant: _sequence++ where ++_sequence is meant, on a copy. *)
EnqueueSameNumber(b, t, body) ==
  enqueueLocked(b, t, [sequence |-> b.sequence, body |-> body, redelivered |-> FALSE])

(* Held{++_sequence, body, false} enqueued at t. *)
EnqueueNew(b, t, body) ==
  LET n == b.sequence + 1
  IN  enqueueLocked([b EXCEPT !.sequence = n], t,
                    [sequence |-> n, body |-> body, redelivered |-> FALSE])

(* Variants: the flag forgotten, and push_back for push_front. *)
RequeueUnflagged(b, t, m) == [b EXCEPT !.messages[t] = <<m>> \o @]
RequeueAtBack(b, t, m) ==
  [b EXCEPT !.messages[t] = Append(@, [m EXCEPT !.redelivered = TRUE])]

requeue(b, t, m) ==
  [b EXCEPT !.messages[t] = <<[m EXCEPT !.redelivered = TRUE]>> \o @]

purge(b, t) ==
  [b EXCEPT !.messages[t] = <<>>,
            !.gone["purged"] = @ \cup {b.messages[t][i] : i \in DOMAIN b.messages[t]}]

-----------------------------------------------------------------------------
(* Threads and the mutex.                                                  *)

Unlocked      == fanout = NoFanout
Running(p)    == IF Unlocked THEN TRUE ELSE fanout.by # p
Idle(p)       == pc[p] = "idle" /\ Running(p)
\* The thread may call into the transport: between calls, or from a handler.
MayCall(p)    == pc[p] \in {"idle", "handling"} /\ Running(p) /\ connected[p]

Count(p, counter) == stats' = [stats EXCEPT ![p][counter] = @ + 1]
Uncounted(p)      == uncounted' = [uncounted EXCEPT ![p] = @ + 1]

EmptyStore == [messages |-> [t \in Names |-> <<>>],
               sequence |-> 0,
               gone     |-> [f \in Fates |-> {}]]

NoRequest == [topic |-> NoTopic, options |-> DefaultOptions]

(* An absent key of _topics has, in the model, the value _topics[t] gives  *)
(* it on first use: no message, TopicOptions{} and an empty binding.       *)
Init ==
  /\ topics = {}
  /\ options = [t \in Names |-> DefaultOptions]
  /\ binding = [t \in Names |-> EmptyString]
  /\ groups = [g \in GroupNames |-> Undeclared]
  /\ store = EmptyStore
  /\ fanout = NoFanout
  /\ connected = [p \in Transports |-> FALSE]
  /\ subscription = [p \in Transports |-> NoTopic]
  /\ outstanding = [p \in Transports |-> {}]
  /\ pc = [p \in Transports |-> "idle"]
  /\ request = [p \in Transports |-> NoRequest]
  /\ stats = [p \in Transports |-> [c \in Counters |-> 0]]
  /\ taken = {}
  /\ uncounted = [p \in Transports |-> 0]
  /\ declared = {}

connect(p) ==
  /\ Idle(p)
  /\ connected' = [connected EXCEPT ![p] = TRUE]
  /\ UNCHANGED <<brokerVars, subscription, outstanding, pc, request, stats, historyVars>>

-----------------------------------------------------------------------------
(* ensureTopic.                                                            *)

GroupConflict(o) ==
  o.group # NoGroup /\ groups[o.group] \notin {Undeclared, o.routing}

Refused(t, o) ==
  GroupConflict(o) \/ (t \in topics /\ ~SameProperties(options[t], o))

(* Broker::ensureTopic: the group is registered before the topic is looked *)
(* at, and stays when the topic is then refused.                           *)
BrokerEnsureTopic(t, o) ==
  /\ groups' = IF o.group = NoGroup \/ GroupConflict(o) THEN groups
               ELSE [groups EXCEPT ![o.group] = o.routing]
  /\ IF GroupConflict(o) \/ t \in topics
     THEN UNCHANGED <<topics, options, binding>>
     ELSE /\ topics' = topics \cup {t}
          /\ options' = [options EXCEPT ![t] = o]
          /\ binding' = [binding EXCEPT ![t] = IF o.route = EmptyString THEN t ELSE o.route]
  /\ UNCHANGED <<store, fanout>>

(* Variant: the arguments are not kept across the two locks. *)
ensureForensicForgets(p, t, o) ==
  /\ Idle(p) /\ connected[p] /\ Unlocked
  /\ o.deadLetter
  /\ BrokerEnsureTopic(deadLetterTopic(t), forensicTopicOptions(t))
  /\ pc' = [pc EXCEPT ![p] = "declaring"]
  /\ UNCHANGED <<connected, subscription, outstanding, request, stats, historyVars>>

(* The first lock of ensureTopic: the forensic destination.  A refusal     *)
(* throws and the source is never declared.                                *)
ensureForensic(p, t, o) ==
  LET forensic == forensicTopicOptions(t) IN
  /\ Idle(p) /\ connected[p] /\ Unlocked
  /\ o.deadLetter
  /\ BrokerEnsureTopic(deadLetterTopic(t), forensic)
  /\ IF Refused(deadLetterTopic(t), forensic)
     THEN UNCHANGED <<pc, request>>
     ELSE /\ pc' = [pc EXCEPT ![p] = "declaring"]
          /\ request' = [request EXCEPT ![p] = [topic |-> t, options |-> o]]
  /\ UNCHANGED <<connected, subscription, outstanding, stats, historyVars>>

Declare(t, o) ==
  /\ BrokerEnsureTopic(t, o)
  /\ declared' = IF Refused(t, o) THEN declared
                 ELSE declared \cup {[topic |-> t, options |-> o]}
  /\ UNCHANGED <<taken, uncounted>>

(* The second lock: the destination itself. *)
ensureSource(p) ==
  /\ pc[p] = "declaring" /\ Unlocked
  /\ Declare(request[p].topic, request[p].options)
  /\ pc' = [pc EXCEPT ![p] = "idle"]
  /\ request' = [request EXCEPT ![p] = NoRequest]
  /\ UNCHANGED <<connected, subscription, outstanding, stats>>

(* Variant: the forensic destination is left to somebody else. *)
ensureUnprovisioned(p, t, o) ==
  /\ Idle(p) /\ connected[p] /\ Unlocked
  /\ Declare(t, o)
  /\ UNCHANGED transportVars

(* ensureTopic without a forensic destination takes the lock once. *)
ensurePlain(p, t, o) ==
  /\ Idle(p) /\ connected[p] /\ Unlocked
  /\ ~o.deadLetter
  /\ Declare(t, o)
  /\ UNCHANGED transportVars

-----------------------------------------------------------------------------
(* send and Broker::publish.                                               *)

(* No group: straight to the named destination, created on first use.      *)
sendDirect(p, t) ==
  /\ MayCall(p) /\ Unlocked
  /\ store.sequence < MaxSequence
  /\ options[t].group = NoGroup
  /\ topics' = topics \cup {t}
  /\ store' = EnqueueNew(store, t, store.sequence + 1)
  /\ UNCHANGED <<options, binding, groups, fanout, transportVars, historyVars>>

Matching(group, key) ==
  {u \in topics : /\ options[u].group = group
                  /\ CASE groups[group] = "Broadcast" -> TRUE
                       [] groups[group] = "Exact"     -> binding[u] = key
                       [] OTHER                       -> routeMatches(binding[u], key)}

(* A group: the mutex is taken, and every matching destination gets a copy. *)
sendGrouped(p, t, route) ==
  LET key == IF route = EmptyString THEN binding[t] ELSE route IN
  /\ MayCall(p) /\ Unlocked
  /\ store.sequence < MaxSequence
  /\ options[t].group # NoGroup
  /\ fanout' = [by |-> p, body |-> store.sequence + 1,
                pending |-> Matching(options[t].group, key)]
  /\ UNCHANGED <<topics, options, binding, groups, store, transportVars, historyVars>>

(* One iteration.  A throw of deadLetterLocked would end the loop early,   *)
(* but only an eviction calls it here, and the forensic destination of a   *)
(* bounded topic exists (DeclaredIsProvisioned).                           *)
fanoutCopy(t) ==
  /\ ~Unlocked
  /\ t \in fanout.pending
  /\ \A u \in fanout.pending : Rank[t] <= Rank[u]
  /\ store' = EnqueueNew(store, t, fanout.body)
  /\ fanout' = [fanout EXCEPT !.pending = @ \ {t}]
  /\ UNCHANGED <<topics, options, binding, groups, transportVars, historyVars>>

(* The loop is over, however many destinations it reached: the mutex is    *)
(* released.                                                               *)
fanoutDone ==
  /\ ~Unlocked
  /\ fanout.pending = {}
  /\ fanout' = NoFanout
  /\ UNCHANGED <<topics, options, binding, groups, store, transportVars, historyVars>>

-----------------------------------------------------------------------------
(* subscribe, pump, settle, purgeTopic.                                    *)

subscribe(p, t) ==
  /\ Idle(p) /\ connected[p]
  /\ subscription[p] = NoTopic
  /\ subscription' = [subscription EXCEPT ![p] = t]
  /\ UNCHANGED <<brokerVars, connected, outstanding, pc, request, stats, historyVars>>

(* Variant: prefetch is not 1. *)
takeMore(p) ==
  LET t == subscription[p] IN
  /\ Idle(p) /\ connected[p] /\ Unlocked
  /\ t # NoTopic
  /\ t \in topics /\ store.messages[t] # <<>>
  /\ stats[p]["received"] < MaxReceived
  /\ store' = PopFront(store, t)
  /\ outstanding' = [outstanding EXCEPT ![p] = @ \cup {Head(store.messages[t])}]
  /\ taken' = taken \cup {Head(store.messages[t]).sequence}
  /\ pc' = [pc EXCEPT ![p] = "handling"]
  /\ Count(p, "received")
  /\ UNCHANGED <<topics, options, binding, groups, fanout, connected, subscription,
                 request, uncounted, declared>>

(* pump() up to the call of the handler. *)
take(p) ==
  LET t == subscription[p] IN
  /\ Idle(p) /\ connected[p] /\ Unlocked
  /\ t # NoTopic
  /\ outstanding[p] = {}
  /\ t \in topics /\ store.messages[t] # <<>>
  /\ stats[p]["received"] < MaxReceived
  /\ store' = PopFront(store, t)
  /\ outstanding' = [outstanding EXCEPT ![p] = {Head(store.messages[t])}]
  /\ taken' = taken \cup {Head(store.messages[t]).sequence}
  /\ pc' = [pc EXCEPT ![p] = "handling"]
  /\ Count(p, "received")
  /\ UNCHANGED <<topics, options, binding, groups, fanout, connected, subscription,
                 request, uncounted, declared>>

(* The switch that ends pump() and settle().  deadLetter may throw, after  *)
(* the message has left _outstanding and before the counter moves.         *)
Resolve(p, m, disposition) ==
  LET t == subscription[p] IN
  /\ outstanding' = [outstanding EXCEPT ![p] = @ \ {m}]
  /\ \/ /\ disposition = "Ack"
        /\ store' = Gone(store, "acked", m)
        /\ Count(p, "acks") /\ UNCHANGED uncounted
     \/ /\ disposition = "Requeue" /\ Unlocked
        /\ store' = requeue(store, t, m)
        /\ Count(p, "requeues") /\ UNCHANGED uncounted
     \/ /\ disposition = "Reject" /\ Unlocked
        /\ store' = deadLetterLocked(store, t, m)
        /\ IF Unprovisioned(t)
           THEN Uncounted(p) /\ UNCHANGED stats
           ELSE Count(p, "rejects") /\ UNCHANGED uncounted
  /\ UNCHANGED <<topics, options, binding, groups, fanout, connected, subscription,
                 request, taken, declared>>

(* The handler returns: the rest of pump(). *)
handlerReturns(p, disposition) ==
  /\ pc[p] = "handling" /\ Running(p)
  /\ \E m \in outstanding[p] : Resolve(p, m, disposition)
  /\ pc' = [pc EXCEPT ![p] = "idle"]

(* Disposition::Deferred: nothing is resolved, pump() returns. *)
handlerDefers(p) ==
  /\ pc[p] = "handling" /\ Running(p)
  /\ pc' = [pc EXCEPT ![p] = "idle"]
  /\ UNCHANGED <<brokerVars, connected, subscription, outstanding, request, stats,
                 historyVars>>

(* Variant: a delivery whose handler threw is forgotten. *)
handlerThrowsForgets(p) ==
  /\ pc[p] = "handling" /\ Running(p)
  /\ pc' = [pc EXCEPT ![p] = "idle"]
  /\ outstanding' = [outstanding EXCEPT ![p] = {}]
  /\ Count(p, "abandoned")
  /\ UNCHANGED <<brokerVars, connected, subscription, request, historyVars>>

(* The handler throws through pump(): the delivery stays outstanding and   *)
(* is counted as abandoned.                                                *)
handlerThrows(p) ==
  /\ pc[p] = "handling" /\ Running(p)
  /\ pc' = [pc EXCEPT ![p] = "idle"]
  /\ Count(p, "abandoned")
  /\ UNCHANGED <<brokerVars, connected, subscription, outstanding, request, historyVars>>

(* settle(tag, disposition): _outstanding.find(tag) is the only test, and  *)
(* a delivery its handler threw on passes it (see AbandonedIsNotSettled).  *)
settle(p, tag, disposition) ==
  /\ Idle(p) /\ connected[p]
  /\ \E m \in outstanding[p] : m.sequence = tag /\ Resolve(p, m, disposition)
  /\ UNCHANGED pc

purgeTopic(p, t) ==
  /\ MayCall(p) /\ Unlocked
  /\ t \in topics
  /\ store' = purge(store, t)
  /\ UNCHANGED <<topics, options, binding, groups, fanout, transportVars, historyVars>>

-----------------------------------------------------------------------------
(* close(), which the destructor of a dying worker amounts to as well:     *)
(* returnOutstanding takes the mutex once per delivery, newest first.      *)

close(p) ==
  /\ Idle(p)
  /\ pc' = [pc EXCEPT ![p] = "closing"]
  /\ UNCHANGED <<brokerVars, connected, subscription, outstanding, request, stats, historyVars>>

(* Variant: close() clears _outstanding and returns nothing. *)
returnNothing(p) ==
  /\ pc[p] = "closing" /\ Unlocked
  /\ outstanding[p] # {}
  /\ outstanding' = [outstanding EXCEPT ![p] = {}]
  /\ Uncounted(p)
  /\ UNCHANGED <<brokerVars, connected, subscription, pc, request, stats, taken, declared>>

returnOutstanding(p) ==
  /\ pc[p] = "closing" /\ Unlocked
  /\ \E m \in outstanding[p] :
       /\ \A n \in outstanding[p] : n.sequence <= m.sequence
       /\ store' = requeue(store, subscription[p], m)
       /\ outstanding' = [outstanding EXCEPT ![p] = @ \ {m}]
  /\ Uncounted(p)
  /\ UNCHANGED <<topics, options, binding, groups, fanout, connected, subscription, pc,
                 request, stats, taken, declared>>

finishClose(p) ==
  /\ pc[p] = "closing"
  /\ outstanding[p] = {}
  /\ connected' = [connected EXCEPT ![p] = FALSE]
  /\ subscription' = [subscription EXCEPT ![p] = NoTopic]
  /\ pc' = [pc EXCEPT ![p] = "idle"]
  /\ UNCHANGED <<brokerVars, outstanding, request, stats, historyVars>>

-----------------------------------------------------------------------------

Next ==
  \/ \E p \in Transports :
       \/ connect(p)
       \/ ensureSource(p)
       \/ take(p)
       \/ handlerDefers(p)
       \/ handlerThrows(p)
       \/ close(p)
       \/ returnOutstanding(p)
       \/ finishClose(p)
       \/ \E d \in Disposition \ {"Deferred"} :
            handlerReturns(p, d) \/ \E s \in 1..store.sequence : settle(p, s, d)
       \/ \E t \in Topics :
            \/ sendDirect(p, t)
            \/ \E r \in Routes \cup {EmptyString} : sendGrouped(p, t, r)
            \/ subscribe(p, t)
            \/ purgeTopic(p, t)
            \/ \E o \in Declarations[t] : ensureForensic(p, t, o) \/ ensurePlain(p, t, o)
  \/ \E t \in Names : fanoutCopy(t)
  \/ fanoutDone

Spec == Init /\ [][Next]_vars

-----------------------------------------------------------------------------
(* Properties.                                                             *)

(* Every variable holds what the C++ member it models can hold; a thread   *)
(* between the two locks of ensureTopic remembers its arguments.           *)
TypeOK ==
  /\ topics \subseteq Names
  /\ options \in [Names -> TopicOptions]
  /\ binding \in [Names -> Name]
  /\ groups \in [GroupNames -> Routing \cup {Undeclared}]
  /\ store \in Stores
  /\ \/ fanout = NoFanout
     \/ fanout \in [by : Transports, body : Nat, pending : SUBSET topics]
  /\ connected \in [Transports -> BOOLEAN]
  /\ subscription \in [Transports -> Topics \cup {NoTopic}]
  /\ outstanding \in [Transports -> SUBSET Held]
  /\ pc \in [Transports -> {"idle", "handling", "declaring", "closing"}]
  /\ request \in [Transports -> [topic : Topics \cup {NoTopic}, options : TopicOptions]]
  /\ \A p \in Transports : pc[p] = "declaring" =>
       request[p].topic \in Topics /\ request[p].options \in Declarations[request[p].topic]
  /\ stats \in [Transports -> [Counters -> Nat]]
  /\ taken \subseteq Nat
  /\ uncounted \in [Transports -> Nat]
  /\ declared \subseteq [topic : Topics, options : TopicOptions]

WaitingAt(t) == {store.messages[t][i] : i \in DOMAIN store.messages[t]}
Waiting == UNION {WaitingAt(t) : t \in Names}
HeldNow == UNION {outstanding[p] : p \in Transports}
GoneFor == UNION {store.gone[f] : f \in Fates}
SequencesOf(messages) == {m.sequence : m \in messages}

(* No sequence number is in two places: not twice in the queues, not with  *)
(* two transports, not both waiting and held, and never again after it was *)
(* acknowledged, dead-lettered, dropped, refused or purged.                *)
NowhereTwice ==
  /\ \A t, u \in Names :
       \A i \in DOMAIN store.messages[t], j \in DOMAIN store.messages[u] :
         store.messages[t][i].sequence = store.messages[u][j].sequence => t = u /\ i = j
  /\ \A p, q \in Transports : \A m \in outstanding[p], n \in outstanding[q] :
       m.sequence = n.sequence => p = q /\ m = n
  /\ SequencesOf(Waiting) \cap SequencesOf(HeldNow) = {}
  /\ SequencesOf(Waiting \cup HeldNow) \cap SequencesOf(GoneFor) = {}

(* Conservation: every message the broker ever numbered is waiting at one  *)
(* destination, held by one transport, or has met one fate, whatever       *)
(* handlers throw, threads interleave and transports close.                *)
AccountedFor ==
  /\ NowhereTwice
  /\ SequencesOf(Waiting \cup HeldNow \cup GoneFor) = 1..store.sequence

Origin(t) == IF IsForensicName(t) THEN CHOOSE u \in Topics : t = deadLetterTopic(u) ELSE t

(* What OneLiveCopy takes for granted of the declarations: every           *)
(* destination has a name, callers leave the library's own group to the    *)
(* library, and a forensic destination declared by hand joins no group, so *)
(* that no grouped publish reaches a source and what lies behind it.       *)
ForensicsApart ==
  /\ EmptyString \notin Topics
  /\ \A t \in Topics : \A o \in Declarations[t] :
       /\ o.group # kDeadLetterExchange
       /\ IsForensicName(t) => o.group = NoGroup

(* A payload that was dead-lettered is not also still at its source: two   *)
(* live messages with one body are copies of one grouped publish, in       *)
(* destinations whose sources differ.                                      *)
LiveAt(t) == WaitingAt(t) \cup UNION {outstanding[p] : p \in {q \in Transports : subscription[q] = t}}

OneLiveCopy ==
  \A t, u \in Names : \A m \in LiveAt(t), n \in LiveAt(u) :
    m.body = n.body /\ Origin(t) = Origin(u) => t = u /\ m = n

(* The redelivered flag is the retry bound every consumer relies on        *)
(* (Consumer::dispatch): a waiting message carries it exactly when some    *)
(* handler has already been given it.                                      *)
FlaggedIffTaken ==
  \A t \in Names : \A m \in WaitingAt(t) : m.redelivered <=> m.sequence \in taken

(* What came back is ahead of what never left, and what never left is in   *)
(* publish order and younger than everything taken from the destination:   *)
(* the FIFO that requeue's push_front keeps with any number of consumers.  *)
FreshBehindReturned ==
  \A t \in Names :
    LET q == store.messages[t] IN
    /\ \A i, j \in DOMAIN q : i < j /\ ~q[j].redelivered => q[i].sequence < q[j].sequence
    /\ \A i, j \in DOMAIN q : i < j /\ q[j].redelivered => q[i].redelivered
    /\ \A p \in Transports : subscription[p] = t =>
         \A m \in outstanding[p], j \in DOMAIN q :
           ~q[j].redelivered => m.sequence < q[j].sequence

(* With one consumer the whole queue is in publish order and the held      *)
(* message precedes it, across throws, requeues, deferrals and restarts    *)
(* (Capabilities::fifoPerTopic).                                           *)
SingleConsumerFifo ==
  Cardinality(Transports) = 1 =>
    \A t \in Names :
      LET q == store.messages[t] IN
      /\ \A i, j \in DOMAIN q : i < j => q[i].sequence < q[j].sequence
      /\ \A p \in Transports : subscription[p] = t =>
           \A m \in outstanding[p], j \in DOMAIN q : m.sequence < q[j].sequence

(* The forensic destination of a topic that dead-letters exists, with the  *)
(* library's own properties, as soon as one ensureTopic call for the topic *)
(* has succeeded or the topic is bounded, whatever other threads declared  *)
(* or sent in between: a topic without one was created by send() alone.    *)
Provisioned(t) == /\ deadLetterTopic(t) \in topics
                  /\ SameProperties(options[deadLetterTopic(t)], forensicTopicOptions(t))

DeclaredIsProvisioned ==
  /\ \A d \in declared : d.options.deadLetter => Provisioned(d.topic)
  /\ \A t \in topics : options[t].deadLetter /\ options[t].maxLength > 0 => Provisioned(t)

(* The transport's counters reflect what it did: every delivery it was     *)
(* given is acknowledged, rejected, requeued, still held, given back by    *)
(* close() or (see NothingLost) lost to an exception, exactly once.        *)
StatsBalance ==
  \A p \in Transports :
    stats[p]["received"] = stats[p]["acks"] + stats[p]["rejects"] + stats[p]["requeues"]
                             + uncounted[p] + Cardinality(outstanding[p])

(* The first failures are the ones worth keeping: a message that leaves a  *)
(* provisioned forensic destination was taken or purged, never pushed out  *)
(* by a later dead letter.                                                 *)
ForensicEvidenceKept ==
  [][\A t \in Topics : Provisioned(t) =>
       LET f == deadLetterTopic(t) IN
       \A m \in WaitingAt(f) \ WaitingAt(f)' :
         m.sequence \in taken' \/ m \in store'.gone["purged"]]_vars

AtLimit(t) == /\ options[t].maxLength > 0
              /\ Len(store.messages[t]) >= options[t].maxLength

(* Once maxLength messages are waiting the destination's policy decides    *)
(* (Capabilities::boundedTopics), whoever publishes and by whatever path,  *)
(* a grouped publish and a dead letter included: no step adds a message,   *)
(* except in the place of the oldest under DropHead; and no other message  *)
(* moves, except that a delivery given back goes to the front.             *)
OverflowEnforced ==
  [][\A t \in Names : AtLimit(t) =>
       LET q == store.messages[t]
           r == store'.messages[t]
       IN  \/ r \in {q, Tail(q), <<>>}
           \/ /\ options[t].overflow = "DropHead"
              /\ Len(r) = Len(q)
              /\ r = Append(Tail(q), r[Len(q)])
           \/ \E p \in Transports : \E m \in outstanding[p] \ outstanding'[p] :
                /\ subscription[p] = t
                /\ r = <<[m EXCEPT !.redelivered = TRUE]>> \o q]_vars

-----------------------------------------------------------------------------
(* What the repository's comments say of this backend and the code does    *)
(* not do.  Each has a configuration of its own.                           *)

(* Broker::deadLetter: "The destination is provisioned alongside the       *)
(* source, so finding it missing is an invariant violation."               *)
NothingLost == store.gone["lost"] = {}

(* Broker::ensureTopic: "Declare a topic, or verify that an existing       *)
(* declaration agrees."                                                    *)
DeclarationsAgree ==
  \A d \in declared : options[d.topic].group = d.options.group

(* TopicOptions::maxLength: "Maximum messages this destination retains".   *)
BoundRetained ==
  \A t \in Names : options[t].maxLength > 0 =>
    Len(store.messages[t]) <= options[t].maxLength

(* ITransport::settle "Throws std::logic_error ... if `tag` does not name  *)
(* a delivery this transport is currently holding deferred (already        *)
(* settled, or never deferred in the first place)": what a handler threw   *)
(* on is counted as abandoned, and not as settled as well.                 *)
AbandonedIsNotSettled ==
  \A p \in Transports :
    stats[p]["acks"] + stats[p]["rejects"] + stats[p]["requeues"] + stats[p]["abandoned"]
      <= stats[p]["received"]

=============================================================================
