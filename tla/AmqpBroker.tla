----------------------------- MODULE AmqpBroker -----------------------------
(***************************************************************************)
(* The broker as one consuming process sees it, modelled from the protocol *)
(* both AMQP backends rely on and external to the repository: queues with  *)
(* the properties they were declared with, the consumers on our channel,   *)
(* what they were given and have not resolved (prefetch 1 each), and what  *)
(* was held on a connection that is gone.                                  *)
(*                                                                         *)
(* The operators here say what becomes of the broker; the transports that  *)
(* extend this module add their own side of each step.                     *)
(***************************************************************************)
EXTENDS Integers, Sequences, FiniteSets

CONSTANTS
  Topics, Options,        \* names and ways of declaring them
  NoOptions, NoTopic, NoDelivery,
  maxAttempts,            \* ReconnectPolicy::maxAttempts
  MaxMessages,            \* bound: messages waiting at the start
  MaxReceived,            \* bound: deliveries
  MaxLosses               \* bound: connections lost or closed

ASSUME TopicsAssumption == NoTopic \notin Topics /\ NoOptions \notin Options
ASSUME AttemptsAssumption ==
  /\ maxAttempts \in Nat
  /\ MaxMessages \in Nat /\ MaxReceived \in Nat /\ MaxLosses \in Nat

Ids      == 1..MaxMessages
Messages == [id : Ids, redelivered : BOOLEAN]
Live     == {"Ack", "Reject", "Requeue"}

VARIABLES
  queue,          \* messages waiting at each topic
  fate,           \* what became of each message
  declaredAs,     \* the properties each queue was declared with
  consuming,      \* the topics of the consumers on our channel
  unacked,        \* delivered on our channel and not resolved
  orphans,        \* delivered on a dead channel, not yet returned
  nextTag,        \* the next delivery tag of our channel
  losses          \* connections lost or closed so far

brokerVars == <<queue, fate, declaredAs, consuming, unacked, orphans, nextTag, losses>>

(* The work that waits, at one of the topics, when the process starts. *)
Backlog == [i \in Ids |-> [id |-> i, redelivered |-> FALSE]]

BrokerInit ==
  /\ \E t \in Topics : queue = [u \in Topics |-> IF u = t THEN Backlog ELSE <<>>]
  /\ fate = [i \in Ids |-> "none"]
  /\ declaredAs \in [Topics -> Options \cup {NoOptions}]    \* by other processes
  /\ consuming = <<>>
  /\ unacked = {}
  /\ orphans = {}
  /\ nextTag = 1
  /\ losses = 0

BrokerTypeOK ==
  /\ queue \in [Topics -> Seq(Messages)]
  /\ fate \in [Ids -> {"none", "acked", "dead", "other"}]
  /\ declaredAs \in [Topics -> Options \cup {NoOptions}]
  /\ consuming \in Seq(Topics)
  /\ unacked \subseteq [tag : Nat, topic : Topics, id : Ids, redelivered : BOOLEAN,
                        consumer : Nat]
  /\ orphans \subseteq [id : Ids, topic : Topics]
  /\ nextTag \in Nat \ {0}
  /\ losses \in 0..MaxLosses

-----------------------------------------------------------------------------

(* Whether a declaration is accepted. *)
Agrees(t, o) == declaredAs[t] \in {NoOptions, o}

Exists(t) == declaredAs[t] # NoOptions

ReturnTo(q, m) == [q EXCEPT ![m.topic] =
                     <<[id |-> m.id, redelivered |-> TRUE]>> \o @]

OrphansOf(u) == {[id |-> d.id, topic |-> d.topic] : d \in u}
TagsOf(u) == {d.tag : d \in u}

(* Another worker consumes and acknowledges the next message. *)
OtherWorkerTakes(t) ==
  /\ queue[t] # <<>>
  /\ queue' = [queue EXCEPT ![t] = Tail(@)]
  /\ fate' = [fate EXCEPT ![Head(queue[t]).id] = "other"]
  /\ UNCHANGED <<declaredAs, consuming, unacked, orphans, nextTag, losses>>

(* The broker notices the end of a channel and returns what it held. *)
OrphanReturns(m) ==
  /\ m \in orphans
  /\ orphans' = orphans \ {m}
  /\ queue' = ReturnTo(queue, m)
  /\ UNCHANGED <<fate, declaredAs, consuming, unacked, nextTag, losses>>

(* The end of our channel: a channel error (406, 404, an unknown delivery  *)
(* tag), the loss of the connection, or close().                           *)
BrokerClosesChannel ==
  /\ consuming' = <<>>
  /\ orphans' = orphans \cup OrphansOf(unacked)
  /\ unacked' = {}

ConnectionEnds ==
  /\ losses < MaxLosses
  /\ losses' = losses + 1
  /\ BrokerClosesChannel
  /\ UNCHANGED <<queue, fate, declaredAs, nextTag>>

(* The next message of the queue, for the consumer number c. *)
NextDelivery(c) ==
  LET m == Head(queue[consuming[c]]) IN
  [tag |-> nextTag, topic |-> consuming[c], id |-> m.id,
   redelivered |-> m.redelivered, consumer |-> c]

BrokerDelivers(c) ==
  /\ queue[consuming[c]] # <<>>
  /\ ~\E d \in unacked : d.consumer = c        \* prefetch 1
  /\ unacked' = unacked \cup {NextDelivery(c)}
  /\ queue' = [queue EXCEPT ![consuming[c]] = Tail(@)]
  /\ nextTag' = nextTag + 1
  /\ UNCHANGED <<fate, declaredAs, consuming, orphans, losses>>

(* The broker resolves the delivery u as the frame it received asks.       *)
BrokerResolves(u, disposition) ==
  /\ unacked' = unacked \ {u}
  /\ queue' = IF disposition = "Requeue" THEN ReturnTo(queue, u) ELSE queue
  /\ fate' = CASE disposition = "Ack"    -> [fate EXCEPT ![u.id] = "acked"]
               [] disposition = "Reject" -> [fate EXCEPT ![u.id] = "dead"]
               [] OTHER                  -> fate
  /\ UNCHANGED <<consuming, orphans>>

=============================================================================
