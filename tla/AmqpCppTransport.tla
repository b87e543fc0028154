-------------------------- MODULE AmqpCppTransport --------------------------
(***************************************************************************)
(* The production backend, AmqpCppTransport over AmqpConnection, and the   *)
(* broker as one connection sees it: connecting, declaring, consuming with *)
(* prefetch 1, resolving, deferring, losing the connection and restoring   *)
(* it under a ReconnectPolicy.                                             *)
(*                                                                         *)
(* The transport is driven by one thread; what interleaves with it is the  *)
(* broker (AmqpBroker).  `socket', `ready' and `closed' are                *)
(* AmqpConnection's socket, _ready and _closed.  Deliveries that arrive    *)
(* while a declaration waits for its answer are taken to arrive in the     *)
(* pump() before it.                                                       *)
(***************************************************************************)
EXTENDS AmqpBroker

CONSTANTS
  Faults,                 \* what can go wrong while (re)connecting or closing
  MaxConsumers            \* bound: consumers that late answers add to a channel

(* Where an attempt fails: the name does not resolve, TCP refuses, the     *)
(* handshake times out or is rejected, the connection is lost or silent    *)
(* while the topic is declared, the consume request is never answered or   *)
(* answered too late.  And close() may be the one to find the loss.        *)
OpenFaults    == {"unresolved", "unreachable", "handshakeTimeout", "rejected"}
RestoreFaults == {"lostDeclaring", "declareTimeout", "consumeTimeout", "consumeLate"}
CloseFaults   == {"lostClosing"}
NoFault       == "none"

ASSUME FaultsAssumption == Faults \subseteq OpenFaults \cup RestoreFaults \cup CloseFaults
ASSUME ConsumersAssumption == MaxConsumers \in Nat \ {0}

VARIABLES
  socket,         \* none (no AmqpConnection), unopened, unconnected, up, down
  ready, closed,  \* AmqpConnection::_ready, _closed
  channel,        \* _channel: none, open, or broken (closed by the broker)
  topic, topicOptions, topicDeclared, subscribed,
  outstandingDeferred,
  handlerFailure, \* _handlerFailure is set
  enabled,        \* _policy.enabled
  failedAttempts,
  backingOff,     \* now < _nextAttempt
  stats,          \* acksPerformed, rejectsPerformed, requeuesPerformed, received
  pc,             \* idle, pumping, handling
  delivery,       \* the delivery whose handler is running
  answer,         \* how the last pump() ended: true, false or an exception
  wanted          \* history: the topic subscribe() was called for

connectionVars == <<socket, ready, closed, channel>>
declaredVars   == <<topic, topicOptions, topicDeclared, subscribed, wanted>>
reconnectVars  == <<enabled, failedAttempts, backingOff>>
pumpVars       == <<outstandingDeferred, handlerFailure, stats, pc, delivery, answer>>
amqpVars == <<brokerVars, connectionVars, declaredVars, reconnectVars, pumpVars>>

AmqpInit ==
  /\ BrokerInit
  /\ socket = "none" /\ ready = FALSE /\ closed = FALSE
  /\ channel = "none"
  /\ topic = NoTopic /\ topicOptions = NoOptions
  /\ topicDeclared = FALSE /\ subscribed = FALSE /\ wanted = NoTopic
  /\ outstandingDeferred = {}
  /\ handlerFailure = FALSE
  /\ enabled = FALSE /\ failedAttempts = 0 /\ backingOff = FALSE
  /\ stats = [c \in {"received", "Ack", "Reject", "Requeue"} |-> 0]
  /\ pc = "idle"
  /\ delivery = NoDelivery
  /\ answer = "true"

-----------------------------------------------------------------------------
(* The broker and the network.                                             *)

otherWorker(t) ==
  /\ OtherWorkerTakes(t)
  /\ UNCHANGED <<connectionVars, declaredVars, reconnectVars, pumpVars>>

(* The connection goes away; the transport finds out when it next does I/O, *)
(* and the broker returns what was unacknowledged when it finds out.        *)
connectionLost ==
  /\ socket = "up"
  /\ ConnectionEnds
  /\ socket' = "down"
  /\ UNCHANGED <<ready, closed, channel, declaredVars, reconnectVars, pumpVars>>

brokerReturns(m) ==
  /\ OrphanReturns(m)
  /\ UNCHANGED <<connectionVars, declaredVars, reconnectVars, pumpVars>>

delayElapses ==
  /\ backingOff
  /\ backingOff' = FALSE
  /\ UNCHANGED <<brokerVars, connectionVars, declaredVars, enabled, failedAttempts,
                 pumpVars>>

-----------------------------------------------------------------------------
(* Connecting, declaring, subscribing, closing.                            *)

Opened(fault) == fault \notin OpenFaults

(* openConnection: a new AmqpConnection, and a channel once it is ready.   *)
(* A connection that timed out is neither ready nor closed.                *)
OpenConnection(fault) ==
  /\ socket' = CASE fault = "unresolved"                     -> "unopened"
                 [] fault = "unreachable"                    -> "unconnected"
                 [] fault \in {"rejected", "lostDeclaring"}  -> "down"
                 [] OTHER                                    -> "up"
  /\ ready' = Opened(fault)
  /\ closed' \in CASE fault = "rejected"      -> BOOLEAN
                   [] fault = "lostDeclaring" -> {TRUE}
                   [] OTHER                   -> {FALSE}
  /\ nextTag' = 1

connect(fault) ==
  /\ pc = "idle" /\ channel = "none"
  /\ OpenConnection(fault)
  /\ channel' = IF Opened(fault) THEN "open" ELSE "none"
  /\ UNCHANGED <<queue, fate, declaredAs, consuming, unacked, orphans, losses,
                 declaredVars, reconnectVars, pumpVars>>

setReconnectPolicy ==
  /\ pc = "idle" /\ ~enabled
  /\ enabled' = TRUE /\ failedAttempts' = 0 /\ backingOff' = FALSE
  /\ UNCHANGED <<brokerVars, connectionVars, declaredVars, pumpVars>>

(* A request whose answer never comes because the peer is gone: pumpUntil  *)
(* reads the end of the connection, and the call throws.                   *)
RequestOnDeadConnection ==
  /\ socket = "down"
  /\ closed' = TRUE
  /\ UNCHANGED <<brokerVars, socket, ready, channel, topicOptions, topicDeclared,
                 subscribed, wanted>>

(* ensureTopic: what reconnection will need is remembered only on success. *)
ensureTopic(t, o, fault) ==
  /\ pc = "idle" /\ channel = "open"
  /\ \/ /\ RequestOnDeadConnection
        /\ UNCHANGED topic
     \/ /\ socket = "up" /\ ~Agrees(t, o)
        /\ BrokerClosesChannel
        /\ channel' = "broken"
        /\ UNCHANGED <<queue, fate, declaredAs, nextTag, losses, socket, ready,
                       closed, declaredVars>>
     \/ /\ socket = "up" /\ Agrees(t, o)
        /\ declaredAs' = [declaredAs EXCEPT ![t] = o]
        /\ IF fault = "declareTimeout" THEN UNCHANGED <<topic, topicOptions, topicDeclared>>
           ELSE topic' = t /\ topicOptions' = o /\ topicDeclared' = TRUE
        /\ UNCHANGED <<queue, fate, consuming, unacked, orphans, nextTag, losses,
                       connectionVars, subscribed, wanted>>
  /\ UNCHANGED <<reconnectVars, pumpVars>>

(* subscribe: _topic is set before the request is made.  An answer that    *)
(* comes too late leaves a consumer behind, and a second call adds one.    *)
subscribe(t, fault) ==
  /\ pc = "idle" /\ channel = "open" /\ ~subscribed
  /\ Len(consuming) < MaxConsumers
  /\ topic' = t
  /\ \/ RequestOnDeadConnection
     \/ /\ socket = "up" /\ ~Exists(t)
        /\ BrokerClosesChannel
        /\ channel' = "broken"
        /\ UNCHANGED <<queue, fate, declaredAs, nextTag, losses, socket, ready,
                       closed, topicOptions, topicDeclared, subscribed, wanted>>
     \/ /\ socket = "up" /\ Exists(t)
        /\ consuming' = IF fault = "consumeTimeout" THEN consuming ELSE Append(consuming, t)
        /\ subscribed' = (fault = NoFault)
        /\ wanted' = IF fault = NoFault THEN t ELSE wanted
        /\ UNCHANGED <<queue, fate, declaredAs, unacked, orphans, nextTag, losses,
                       connectionVars, topicOptions, topicDeclared>>
  /\ UNCHANGED <<reconnectVars, pumpVars>>

(* close: the handshake may go unanswered, and then _closed stays false.   *)
close ==
  /\ pc = "idle" /\ socket # "none"
  /\ ConnectionEnds
  /\ outstandingDeferred' = {}
  /\ channel' = "none"
  /\ subscribed' = FALSE /\ wanted' = NoTopic
  /\ closed' \in CASE socket = "up"   -> {closed, TRUE}
                   [] socket = "down" -> {TRUE}
                   [] OTHER           -> {closed}
  /\ socket' = "unopened"
  /\ UNCHANGED <<ready, topic, topicOptions, topicDeclared, reconnectVars,
                 handlerFailure, stats, pc, delivery, answer>>

(* ... or its frame is the first I/O on a connection that is gone, and the *)
(* exception leaves close() before the socket and the subscription are     *)
(* given up: a policy that is enabled then reconnects.                     *)
closeThrows ==
  /\ CloseFaults \subseteq Faults
  /\ pc = "idle" /\ socket = "down" /\ ~closed
  /\ outstandingDeferred' = {}
  /\ channel' = "none"
  /\ closed' = TRUE
  /\ UNCHANGED <<brokerVars, socket, ready, declaredVars, reconnectVars,
                 handlerFailure, stats, pc, delivery, answer>>

-----------------------------------------------------------------------------
(* Resolving a delivery.                                                   *)

Count(counter) == stats' = [stats EXCEPT ![counter] = @ + 1]

(* _channel->ack or reject: the frame reaches the broker, or goes into a   *)
(* socket nobody reads, or onto a channel the broker has closed.  A tag    *)
(* the broker does not know is a channel error.                            *)
FrameSent(tag, disposition) ==
  /\ IF channel = "open" /\ socket = "up"
     THEN IF tag \in TagsOf(unacked)
          THEN /\ \E u \in unacked : u.tag = tag /\ BrokerResolves(u, disposition)
               /\ UNCHANGED channel
          ELSE /\ BrokerClosesChannel
               /\ channel' = "broken"
               /\ UNCHANGED <<queue, fate>>
     ELSE UNCHANGED <<queue, fate, consuming, unacked, orphans, channel>>
  /\ UNCHANGED <<declaredAs, nextTag, losses, socket, ready, closed>>

(* The write fails on a connection believed to be alive: onData throws. *)
FrameFails ==
  /\ channel = "open" /\ socket = "down" /\ ~closed
  /\ closed' = TRUE
  /\ UNCHANGED <<brokerVars, socket, ready, channel>>

(* Variant: settled, and not counted. *)
settleUncounted(tag, disposition) ==
  /\ pc = "idle" /\ channel # "none"
  /\ tag \in outstandingDeferred
  /\ outstandingDeferred' = outstandingDeferred \ {tag}
  /\ FrameSent(tag, disposition)
  /\ UNCHANGED <<declaredVars, reconnectVars, handlerFailure, stats, pc, delivery, answer>>

settle(tag, disposition) ==
  /\ pc = "idle" /\ channel # "none"
  /\ tag \in outstandingDeferred
  /\ outstandingDeferred' = outstandingDeferred \ {tag}
  /\ \/ FrameSent(tag, disposition) /\ Count(disposition)
     \/ FrameFails /\ UNCHANGED stats
  /\ UNCHANGED <<declaredVars, reconnectVars, handlerFailure, pc, delivery, answer>>

-----------------------------------------------------------------------------
(* pump.                                                                   *)

(* One attempt: open, redeclare, consume again.  Whatever throws leaves    *)
(* the new connection as it is and schedules the next attempt.             *)
Restore(fault) ==
  LET redeclared == /\ Opened(fault)
                    /\ topicDeclared => /\ fault \notin {"lostDeclaring", "declareTimeout"}
                                        /\ Agrees(topic, topicOptions)
      exists     == topicDeclared \/ Exists(topic)
      restored   == redeclared /\ (subscribed => fault = NoFault /\ exists)
  IN
  /\ fault \in {"lostDeclaring", "declareTimeout"} => topicDeclared
  /\ fault \in {"consumeTimeout", "consumeLate"} => subscribed
  /\ OpenConnection(fault)
  /\ channel' = IF ~Opened(fault) THEN "none"
                ELSE IF \/ topicDeclared /\ ~Agrees(topic, topicOptions)
                        \/ redeclared /\ subscribed /\ ~exists
                     THEN "broken" ELSE "open"
  /\ declaredAs' = IF topicDeclared /\ redeclared
                   THEN [declaredAs EXCEPT ![topic] = topicOptions] ELSE declaredAs
  /\ consuming' = IF redeclared /\ subscribed /\ exists /\ fault # "consumeTimeout"
                  THEN <<topic>> ELSE <<>>
  /\ failedAttempts' = IF restored THEN 0 ELSE failedAttempts + 1
  /\ backingOff' = ~restored
  /\ UNCHANGED <<queue, fate, unacked, orphans, losses, declaredVars, enabled,
                 handlerFailure, stats, delivery>>

(* Variant: tags of the dead connection are kept. *)
AttemptKeepsTags(fault) == Restore(fault) /\ UNCHANGED outstandingDeferred

Attempt(fault) == Restore(fault) /\ outstandingDeferred' = {}

(* Variant: one attempt too many. *)
ExhaustedLate == failedAttempts > maxAttempts

Exhausted == failedAttempts >= maxAttempts

(* serviceReconnect: at most one attempt per pump(), none once they are    *)
(* exhausted, none before the backoff is over.                             *)
serviceReconnect(fault) ==
  /\ pc' = "idle"
  /\ answer' = IF Exhausted THEN "false" ELSE "true"
  /\ IF Exhausted \/ backingOff
     THEN UNCHANGED <<brokerVars, connectionVars, declaredVars, reconnectVars,
                      outstandingDeferred, handlerFailure, stats, delivery>>
     ELSE Attempt(fault)

Gone == socket = "none" \/ closed

pumpBegins ==
  /\ pc = "idle" /\ ~Gone
  /\ pc' = "pumping"
  /\ UNCHANGED <<brokerVars, connectionVars, declaredVars, reconnectVars,
                 outstandingDeferred, handlerFailure, stats, delivery, answer>>

pumpOnDead(fault) ==
  /\ pc = "idle" /\ Gone
  /\ IF enabled THEN serviceReconnect(fault)
     ELSE /\ answer' = "false"
          /\ UNCHANGED <<brokerVars, connectionVars, declaredVars, reconnectVars,
                         outstandingDeferred, handlerFailure, stats, pc, delivery>>

(* pumpOnce reads the end of the connection, in one of the ways it expects. *)
readEnds ==
  /\ pc = "pumping" /\ ~closed
  /\ socket \in {"down", "unconnected"}
  /\ closed' = TRUE
  /\ UNCHANGED <<brokerVars, socket, ready, channel, declaredVars, reconnectVars, pumpVars>>

(* ... or in another way, and throws through pump(): a socket that was     *)
(* never opened, any other error.                                          *)
readFails ==
  /\ pc = "pumping" /\ ~closed
  /\ socket \in {"down", "unopened"}
  /\ closed' = TRUE
  /\ pc' = "idle" /\ answer' = "threw"
  /\ UNCHANGED <<brokerVars, socket, ready, channel, declaredVars, reconnectVars,
                 outstandingDeferred, handlerFailure, stats, delivery>>

(* A handshake that timed out can still complete. *)
handshakeCompletes ==
  /\ pc = "pumping" /\ socket = "up" /\ ~ready
  /\ ready' = TRUE
  /\ UNCHANGED <<brokerVars, socket, closed, channel, declaredVars, reconnectVars, pumpVars>>

(* onReceived up to the call of the handler. *)
deliver(c) ==
  /\ pc = "pumping" /\ socket = "up"
  /\ stats["received"] < MaxReceived
  /\ BrokerDelivers(c)
  /\ delivery' = NextDelivery(c)
  /\ Count("received")
  /\ pc' = "handling"
  /\ UNCHANGED <<connectionVars, declaredVars, reconnectVars, outstandingDeferred,
                 handlerFailure, answer>>

(* Variant: counted before it is performed. *)
handlerReturnsCounted(disposition) ==
  /\ pc = "handling"
  /\ Count(disposition)
  /\ \/ FrameSent(delivery.tag, disposition) /\ pc' = "pumping" /\ UNCHANGED answer
     \/ FrameFails /\ pc' = "idle" /\ answer' = "threw"
  /\ delivery' = NoDelivery
  /\ UNCHANGED <<declaredVars, reconnectVars, outstandingDeferred, handlerFailure>>

handlerReturns(disposition) ==
  /\ pc = "handling"
  /\ \/ /\ FrameSent(delivery.tag, disposition)
        /\ Count(disposition)
        /\ pc' = "pumping" /\ UNCHANGED answer
     \/ /\ FrameFails
        /\ pc' = "idle" /\ answer' = "threw" /\ UNCHANGED stats
  /\ delivery' = NoDelivery
  /\ UNCHANGED <<declaredVars, reconnectVars, outstandingDeferred, handlerFailure>>

handlerDefers ==
  /\ pc = "handling"
  /\ outstandingDeferred' = outstandingDeferred \cup {delivery.tag}
  /\ pc' = "pumping" /\ delivery' = NoDelivery
  /\ UNCHANGED <<brokerVars, connectionVars, declaredVars, reconnectVars, handlerFailure,
                 stats, answer>>

(* Variant: what was not acknowledged is kept for settle(). *)
handlerThrowsHeld ==
  /\ pc = "handling"
  /\ handlerFailure' = TRUE
  /\ outstandingDeferred' = outstandingDeferred \cup {delivery.tag}
  /\ pc' = "pumping" /\ delivery' = NoDelivery
  /\ UNCHANGED <<brokerVars, connectionVars, declaredVars, reconnectVars, stats, answer>>

handlerThrows ==
  /\ pc = "handling"
  /\ handlerFailure' = TRUE
  /\ pc' = "pumping" /\ delivery' = NoDelivery
  /\ UNCHANGED <<brokerVars, connectionVars, declaredVars, reconnectVars,
                 outstandingDeferred, stats, answer>>

(* Variant: the loss this pump noticed is reported at once. *)
pumpEndsDead(fault) ==
  /\ pc = "pumping"
  /\ closed \/ socket = "up"
  /\ handlerFailure' = FALSE /\ pc' = "idle"
  /\ answer' = IF handlerFailure THEN "threw" ELSE IF closed THEN "false" ELSE "true"
  /\ UNCHANGED <<brokerVars, connectionVars, declaredVars, reconnectVars,
                 outstandingDeferred, stats, delivery>>

(* The slice is over, with no end of the connection left unread: a handler *)
(* failure is rethrown first, then a loss noticed by this very pump is     *)
(* serviced.                                                               *)
pumpEnds(fault) ==
  /\ pc = "pumping"
  /\ closed \/ socket = "up"
  /\ IF handlerFailure
     THEN /\ handlerFailure' = FALSE /\ answer' = "threw" /\ pc' = "idle"
          /\ UNCHANGED <<brokerVars, connectionVars, declaredVars, reconnectVars,
                         outstandingDeferred, stats, delivery>>
     ELSE IF closed /\ enabled THEN serviceReconnect(fault)
     ELSE /\ answer' = IF closed THEN "false" ELSE "true"
          /\ pc' = "idle"
          /\ UNCHANGED <<brokerVars, connectionVars, declaredVars, reconnectVars,
                         outstandingDeferred, handlerFailure, stats, delivery>>

=============================================================================
