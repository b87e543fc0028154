-------------------------- MODULE AmqpBroker_proofs --------------------------
(***************************************************************************)
(* What the proofs about both AMQP workers need to know of the broker:     *)
(* the types of what its steps produce, and the argument for the bound on  *)
(* retries.                                                                *)
(*                                                                         *)
(* dispatch() requeues a transient failure only when the delivery carries  *)
(* no redelivered flag, and keeps no count.  That bounds the retries       *)
(* because the broker never makes a fresh copy: the flag is FALSE only on  *)
(* what waits since the start, one copy of each message, and whatever      *)
(* comes back to a queue, by a requeue or from a lost connection, comes    *)
(* back with the flag set.  Untried says so of a queue state, the fresh    *)
(* deliveries in a handler's hands and the retries counted so far.         *)
(***************************************************************************)
EXTENDS AmqpBroker, TLAPS

Deliveries == [tag : Nat, topic : Topics, id : Ids, redelivered : BOOLEAN, consumer : Nat]

FreshAt(q, t, k) == t \in Topics /\ k \in DOMAIN q[t] /\ ~q[t][k].redelivered

FreshOnce(q) ==
  \A t, u \in Topics : \A k \in DOMAIN q[t], j \in DOMAIN q[u] :
    FreshAt(q, t, k) /\ FreshAt(q, u, j) /\ q[t][k].id = q[u][j].id => t = u /\ k = j

FreshUntried(q, held, retries) ==
  \A t \in Topics : \A k \in DOMAIN q[t] :
    FreshAt(q, t, k) => retries[q[t][k].id] = 0 /\ q[t][k].id \notin held

Untried(q, held, retries) ==
  /\ FreshOnce(q)
  /\ FreshUntried(q, held, retries)
  /\ \A i \in held : retries[i] = 0
  /\ \A i \in Ids : retries[i] <= 1

(* The fresh delivery a handler has in its hands, if it is one. *)
FreshIn(handling, d) == IF handling /\ ~d.redelivered THEN {d.id} ELSE {}

-----------------------------------------------------------------------------
(* Types.                                                                  *)

(* The head of a queue is a message and its tail a queue (BasicConsume).   *)
LEMMA TakenTypes ==
  ASSUME NEW q \in [Topics -> Seq(Messages)], NEW t \in Topics, q[t] # <<>>
  PROVE  /\ Head(q[t]) \in Messages
         /\ [q EXCEPT ![t] = Tail(@)] \in [Topics -> Seq(Messages)]
<1>1. q[t] \in Seq(Messages)
  OBVIOUS
<1>2. Head(q[t]) \in Messages /\ Tail(q[t]) \in Seq(Messages)
  BY <1>1
<1> QED BY <1>2

(* What returns to its queue keeps the queue a sequence of messages. *)
LEMMA ReturnTypes ==
  ASSUME NEW q \in [Topics -> Seq(Messages)], NEW m, m.topic \in Topics, m.id \in Ids
  PROVE  ReturnTo(q, m) \in [Topics -> Seq(Messages)]
<1> DEFINE x == [id |-> m.id, redelivered |-> TRUE]
<1>1. x \in Messages
  BY DEF Messages
<1> HIDE DEF x
<1>2. q[m.topic] \in Seq(Messages) /\ <<x>> \in Seq(Messages)
  BY <1>1
<1>3. <<x>> \o q[m.topic] \in Seq(Messages)
  BY <1>2
<1> QED BY <1>3 DEF ReturnTo, x

LEMMA OrphanTypes ==
  ASSUME NEW s \in SUBSET Deliveries
  PROVE  OrphansOf(s) \in SUBSET [id : Ids, topic : Topics]
BY DEF OrphansOf, Deliveries

LEMMA BacklogType == Backlog \in Seq(Messages)
<1>1. MaxMessages \in Nat /\ Ids = 1..MaxMessages
  BY AttemptsAssumption DEF Ids
<1>2. \A i \in 1..MaxMessages : Backlog[i] \in Messages
  BY <1>1 DEF Backlog, Messages
<1>3. Backlog = [i \in 1..MaxMessages |-> Backlog[i]]
  BY <1>1 DEF Backlog
<1> QED BY <1>1, <1>2, <1>3

LEMMA BrokerInitTypes == ASSUME BrokerInit PROVE BrokerTypeOK
<1>1. queue \in [Topics -> Seq(Messages)]
  BY BacklogType DEF BrokerInit
<1>2. fate \in [Ids -> {"none", "acked", "dead", "other"}]
  BY DEF BrokerInit
<1>3. losses \in 0..MaxLosses /\ nextTag \in Nat \ {0}
  BY AttemptsAssumption DEF BrokerInit
<1>4. consuming \in Seq(Topics) /\ unacked = {} /\ orphans = {}
  BY DEF BrokerInit
<1> QED BY <1>1, <1>2, <1>3, <1>4 DEF BrokerInit, BrokerTypeOK

(* The next delivery for a consumer of the channel. *)
LEMMA DeliveryType ==
  ASSUME BrokerTypeOK, NEW c \in DOMAIN consuming, queue[consuming[c]] # <<>>
  PROVE  /\ NextDelivery(c) \in Deliveries
         /\ consuming[c] \in Topics
         /\ NextDelivery(c).tag = nextTag
         /\ NextDelivery(c).id = Head(queue[consuming[c]]).id
         /\ NextDelivery(c).redelivered = Head(queue[consuming[c]]).redelivered
<1>1. consuming[c] \in Topics /\ c \in Nat
  BY DEF BrokerTypeOK
<1>2. Head(queue[consuming[c]]) \in Messages
  BY <1>1, TakenTypes DEF BrokerTypeOK
<1> DEFINE m == Head(queue[consuming[c]])
<1>3. m.id \in Ids /\ m.redelivered \in BOOLEAN
  BY <1>2 DEF Messages
<1>4. NextDelivery(c) = [tag |-> nextTag, topic |-> consuming[c], id |-> m.id,
                         redelivered |-> m.redelivered, consumer |-> c]
  BY DEF NextDelivery
<1>5. nextTag \in Nat
  BY DEF BrokerTypeOK
<1> HIDE DEF m
<1>6. NextDelivery(c) \in Deliveries
  BY <1>1, <1>3, <1>4, <1>5 DEF Deliveries
<1>7. /\ NextDelivery(c).tag = nextTag
      /\ NextDelivery(c).id = m.id
      /\ NextDelivery(c).redelivered = m.redelivered
  BY <1>4
<1> QED BY <1>1, <1>6, <1>7 DEF m

-----------------------------------------------------------------------------
(* What the steps of the broker do to the types.                           *)

LEMMA BrokerKept ==
  ASSUME BrokerTypeOK, UNCHANGED brokerVars PROVE BrokerTypeOK'
BY DEF BrokerTypeOK, brokerVars

LEMMA ClosesTypes ==
  ASSUME BrokerTypeOK, BrokerClosesChannel,
         UNCHANGED <<queue, fate, declaredAs>>, nextTag' \in Nat \ {0},
         losses' \in 0..MaxLosses
  PROVE  BrokerTypeOK'
<1>1. orphans' \subseteq [id : Ids, topic : Topics]
  BY OrphanTypes DEF BrokerTypeOK, BrokerClosesChannel, Deliveries
<1> QED BY <1>1 DEF BrokerTypeOK, BrokerClosesChannel

LEMMA EndsTypes ==
  ASSUME BrokerTypeOK, ConnectionEnds PROVE BrokerTypeOK'
<1>1. losses' \in 0..MaxLosses
  BY AttemptsAssumption DEF BrokerTypeOK, ConnectionEnds
<1> QED BY <1>1, ClosesTypes DEF ConnectionEnds, BrokerTypeOK

LEMMA ResolvesTypes ==
  ASSUME BrokerTypeOK, NEW u \in Deliveries, NEW d \in Live, BrokerResolves(u, d),
         UNCHANGED <<declaredAs, nextTag, losses>>
  PROVE  BrokerTypeOK'
<1>1. u.topic \in Topics /\ u.id \in Ids
  BY DEF Deliveries
<1>2. queue' \in [Topics -> Seq(Messages)]
  BY <1>1, ReturnTypes DEF BrokerResolves, BrokerTypeOK
<1>3. fate' \in [Ids -> {"none", "acked", "dead", "other"}]
  BY <1>1 DEF BrokerResolves, BrokerTypeOK, Live
<1> QED BY <1>2, <1>3 DEF BrokerResolves, BrokerTypeOK

LEMMA DeliversTypes ==
  ASSUME BrokerTypeOK, NEW c \in DOMAIN consuming, BrokerDelivers(c) PROVE BrokerTypeOK'
<1>1. consuming[c] \in Topics /\ NextDelivery(c) \in Deliveries
  BY DeliveryType DEF BrokerDelivers
<1>2. queue' \in [Topics -> Seq(Messages)]
  BY <1>1, TakenTypes DEF BrokerDelivers, BrokerTypeOK
<1>3. unacked' \subseteq Deliveries
  BY <1>1 DEF BrokerDelivers, BrokerTypeOK, Deliveries
<1>4. nextTag' \in Nat \ {0}
  BY DEF BrokerDelivers, BrokerTypeOK
<1> QED BY <1>2, <1>3, <1>4 DEF BrokerDelivers, BrokerTypeOK, Deliveries

LEMMA TakesTypes ==
  ASSUME BrokerTypeOK, NEW t \in Topics, OtherWorkerTakes(t) PROVE BrokerTypeOK'
<1>1. Head(queue[t]) \in Messages /\ queue' \in [Topics -> Seq(Messages)]
  BY TakenTypes DEF OtherWorkerTakes, BrokerTypeOK
<1>2. fate' \in [Ids -> {"none", "acked", "dead", "other"}]
  BY <1>1 DEF OtherWorkerTakes, BrokerTypeOK, Messages
<1> QED BY <1>1, <1>2 DEF OtherWorkerTakes, BrokerTypeOK

LEMMA OrphanReturnsTypes ==
  ASSUME BrokerTypeOK, NEW m \in orphans, OrphanReturns(m) PROVE BrokerTypeOK'
<1>1. m.topic \in Topics /\ m.id \in Ids
  BY DEF BrokerTypeOK
<1>2. queue' \in [Topics -> Seq(Messages)]
  BY <1>1, ReturnTypes DEF OrphanReturns, BrokerTypeOK
<1> QED BY <1>2 DEF OrphanReturns, BrokerTypeOK

-----------------------------------------------------------------------------
(* The argument for the bound on retries.                                  *)

LEMMA UntriedInit ==
  ASSUME BrokerInit
  PROVE  Untried(queue, {}, [i \in Ids |-> 0])
<1>1. PICK s \in Topics : queue = [u \in Topics |-> IF u = s THEN Backlog ELSE <<>>]
  BY DEF BrokerInit
<1>2. ASSUME NEW t \in Topics, NEW k \in DOMAIN queue[t]
      PROVE  t = s /\ k \in Ids /\ queue[t][k].id = k
  BY <1>1, <1>2 DEF Backlog
<1>3. FreshOnce(queue)
  BY <1>2 DEF FreshOnce
<1>4. FreshUntried(queue, {}, [i \in Ids |-> 0])
  BY <1>2 DEF FreshUntried
<1> QED BY <1>3, <1>4 DEF Untried

(* Letting go of what was held fresh. *)
LEMMA UntriedLess ==
  ASSUME NEW q, NEW held, NEW less \in SUBSET held, NEW retries, Untried(q, held, retries)
  PROVE  Untried(q, less, retries)
BY DEF Untried, FreshUntried

(* A message leaves a queue, for a handler of ours if it is fresh. *)
LEMMA UntriedTaken ==
  ASSUME NEW q \in [Topics -> Seq(Messages)], NEW t \in Topics, q[t] # <<>>,
         NEW retries \in [Ids -> Nat], NEW held, Untried(q, held, retries),
         NEW more \in SUBSET {Head(q[t]).id}, more # {} => ~Head(q[t]).redelivered
  PROVE  Untried([q EXCEPT ![t] = Tail(@)], held \cup more, retries)
<1> DEFINE r == [q EXCEPT ![t] = Tail(@)]
<1>1. /\ q[t] \in Seq(Messages)
      /\ Len(q[t]) \in Nat \ {0} /\ DOMAIN q[t] = 1..Len(q[t]) /\ q[t][1] = Head(q[t])
      /\ DOMAIN Tail(q[t]) = 1..(Len(q[t]) - 1)
      /\ \A k \in DOMAIN Tail(q[t]) : Tail(q[t])[k] = q[t][k + 1]
  OBVIOUS
<1>2. r[t] = Tail(q[t]) /\ \A u \in Topics : u # t => r[u] = q[u]
  OBVIOUS
<1> DEFINE Was(u, k) == IF u = t THEN k + 1 ELSE k
<1> HIDE DEF r
<1>3. ASSUME NEW u \in Topics, NEW k \in DOMAIN r[u]
      PROVE  /\ Was(u, k) \in DOMAIN q[u] /\ r[u][k] = q[u][Was(u, k)]
             /\ u = t => Was(u, k) # 1 /\ k = Was(u, k) - 1
             /\ u # t => k = Was(u, k)
  <2>1. CASE u = t
    <3>1. k \in 1..(Len(q[t]) - 1) /\ r[u][k] = q[t][k + 1] /\ Was(u, k) = k + 1
      BY <1>1, <1>2, <1>3, <2>1
    <3> QED BY <1>1, <2>1, <3>1
  <2>2. CASE u # t
    BY <1>2, <1>3, <2>2
  <2> QED BY <2>1, <2>2
<1> HIDE DEF Was
<1>4. FreshOnce(r)
  <2> SUFFICES ASSUME NEW u \in Topics, NEW w \in Topics,
                      NEW k \in DOMAIN r[u], NEW j \in DOMAIN r[w],
                      ~r[u][k].redelivered, ~r[w][j].redelivered, r[u][k].id = r[w][j].id
               PROVE  u = w /\ k = j
    BY DEF FreshOnce, FreshAt
  <2>1. u = w /\ Was(u, k) = Was(w, j)
    BY <1>3 DEF Untried, FreshOnce, FreshAt
  <2> QED BY <1>3, <2>1
<1>5. FreshUntried(r, held \cup more, retries)
  <2> SUFFICES ASSUME NEW u \in Topics, NEW k \in DOMAIN r[u], ~r[u][k].redelivered
               PROVE  retries[r[u][k].id] = 0 /\ r[u][k].id \notin held \cup more
    BY DEF FreshUntried, FreshAt
  <2>1. retries[r[u][k].id] = 0 /\ r[u][k].id \notin held
    BY <1>3 DEF Untried, FreshUntried, FreshAt
  <2>2. r[u][k].id \notin more
    <3> SUFFICES ASSUME r[u][k].id \in more PROVE FALSE
      OBVIOUS
    <3>1. ~q[t][1].redelivered /\ 1 \in DOMAIN q[t] /\ r[u][k].id = q[t][1].id
      BY <1>1
    <3>2. u = t /\ Was(u, k) = 1
      BY <1>3, <3>1 DEF Untried, FreshOnce, FreshAt
    <3> QED BY <1>3, <3>2
  <2> QED BY <2>1, <2>2
<1>6. \A i \in held \cup more : retries[i] = 0
  <2>1. \A i \in held : retries[i] = 0
    BY DEF Untried
  <2>2. ASSUME NEW i \in more PROVE retries[i] = 0
    <3>1. ~q[t][1].redelivered /\ 1 \in DOMAIN q[t] /\ i = q[t][1].id
      BY <1>1
    <3> QED BY <3>1 DEF Untried, FreshUntried, FreshAt
  <2> QED BY <2>1, <2>2
<1> QED BY <1>4, <1>5, <1>6 DEF Untried, r

(* A message comes back, with the flag set. *)
LEMMA UntriedReturn ==
  ASSUME NEW q \in [Topics -> Seq(Messages)], NEW m, m.topic \in Topics, m.id \in Ids,
         NEW retries, NEW held, Untried(q, held, retries)
  PROVE  Untried(ReturnTo(q, m), held, retries)
<1> DEFINE x == [id |-> m.id, redelivered |-> TRUE]
           t == m.topic
           s == <<x>> \o q[t]
           r == [q EXCEPT ![t] = s]
<1>0. ReturnTo(q, m) = r
  BY DEF ReturnTo
<1>1. /\ q[t] \in Seq(Messages) /\ Len(q[t]) \in Nat /\ DOMAIN q[t] = 1..Len(q[t])
      /\ DOMAIN s = 1..(Len(q[t]) + 1)
      /\ s[1] = x
      /\ \A k \in DOMAIN s : k # 1 => k - 1 \in DOMAIN q[t] /\ s[k] = q[t][k - 1]
  OBVIOUS
<1>2. r[t] = s /\ \A u \in Topics : u # t => r[u] = q[u]
  OBVIOUS
<1>x. x.redelivered = TRUE
  OBVIOUS
<1> DEFINE Was(u, k) == IF u = t THEN k - 1 ELSE k
<1> HIDE DEF r, s, x
<1>3. ASSUME NEW u \in Topics, NEW k \in DOMAIN r[u], ~r[u][k].redelivered
      PROVE  /\ Was(u, k) \in DOMAIN q[u] /\ r[u][k] = q[u][Was(u, k)]
             /\ u = t => k = Was(u, k) + 1
             /\ u # t => k = Was(u, k)
  BY <1>1, <1>2, <1>3, <1>x
<1> HIDE DEF Was
<1>4. FreshOnce(r)
  <2> SUFFICES ASSUME NEW u \in Topics, NEW w \in Topics,
                      NEW k \in DOMAIN r[u], NEW j \in DOMAIN r[w],
                      ~r[u][k].redelivered, ~r[w][j].redelivered, r[u][k].id = r[w][j].id
               PROVE  u = w /\ k = j
    BY DEF FreshOnce, FreshAt
  <2>1. u = w /\ Was(u, k) = Was(w, j)
    BY <1>3 DEF Untried, FreshOnce, FreshAt
  <2> QED BY <1>3, <2>1
<1>5. FreshUntried(r, held, retries)
  BY <1>3 DEF Untried, FreshUntried, FreshAt
<1> QED BY <1>0, <1>4, <1>5 DEF Untried

(* dispatch() requeues the fresh delivery it has in its hands. *)
LEMMA UntriedRetry ==
  ASSUME NEW q \in [Topics -> Seq(Messages)], NEW retries \in [Ids -> Nat], NEW i \in Ids,
         Untried(q, {i}, retries)
  PROVE  Untried(q, {}, [retries EXCEPT ![i] = @ + 1])
<1> DEFINE r == [retries EXCEPT ![i] = @ + 1]
<1>1. r[i] = 1 /\ \A j \in Ids : j # i => r[j] = retries[j]
  BY DEF Untried
<1> HIDE DEF r
<1>2. \A j \in Ids : r[j] <= 1
  BY <1>1 DEF Untried
<1>3. FreshUntried(q, {}, r)
  <2> SUFFICES ASSUME NEW t \in Topics, NEW k \in DOMAIN q[t], ~q[t][k].redelivered
               PROVE  r[q[t][k].id] = 0
    BY DEF FreshUntried, FreshAt
  <2>1. q[t][k] \in Messages
    OBVIOUS
  <2>2. q[t][k].id \in Ids
    BY <2>1 DEF Messages
  <2>3. retries[q[t][k].id] = 0 /\ q[t][k].id # i
    BY DEF Untried, FreshUntried, FreshAt
  <2> QED BY <1>1, <2>2, <2>3
<1> QED BY <1>2, <1>3 DEF Untried, r

=============================================================================
