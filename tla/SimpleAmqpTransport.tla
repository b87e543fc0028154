------------------------- MODULE SimpleAmqpTransport ------------------------
(***************************************************************************)
(* The alternative backend, SimpleAmqpTransport over SimpleAmqpClient: the *)
(* library's calls are synchronous and throw, deliveries are fetched one   *)
(* at a time by pump(), nothing can be deferred.                           *)
(*                                                                         *)
(* `link' is the AmqpClient::Channel: none (no object), up, or down (the   *)
(* peer is gone and the library has not said so yet).  The library gives   *)
(* each request a channel of the connection; whether a refused request     *)
(* takes the consumer's channel with it is left open.                      *)
(***************************************************************************)
EXTENDS AmqpBroker

VARIABLES
  link, connected,        \* _channel, _connected
  topic, topicOptions, topicDeclared, subscribed,
  enabled,                \* _policy.enabled
  failedAttempts,
  backingOff,             \* now < _nextAttempt
  stats,                  \* acksPerformed, rejectsPerformed, requeuesPerformed,
                          \* received, abandoned
  pc,                     \* idle, handling
  delivery,               \* the delivery whose handler is running
  answer                  \* how the last pump() ended: true, false or an exception

linkVars      == <<link, connected>>
declaredVars  == <<topic, topicOptions, topicDeclared, subscribed>>
reconnectVars == <<enabled, failedAttempts, backingOff>>
pumpVars      == <<stats, pc, delivery, answer>>
simpleVars == <<brokerVars, linkVars, declaredVars, reconnectVars, pumpVars>>

SimpleInit ==
  /\ BrokerInit
  /\ link = "none" /\ connected = FALSE
  /\ topic = NoTopic /\ topicOptions = NoOptions
  /\ topicDeclared = FALSE /\ subscribed = FALSE
  /\ enabled = FALSE /\ failedAttempts = 0 /\ backingOff = FALSE
  /\ stats = [c \in Live \cup {"received", "abandoned"} |-> 0]
  /\ pc = "idle"
  /\ delivery = NoDelivery
  /\ answer = "true"

ready == connected /\ link # "none"

-----------------------------------------------------------------------------
(* The broker, the network and time.                                       *)

otherWorker(t) ==
  /\ OtherWorkerTakes(t)
  /\ UNCHANGED <<linkVars, declaredVars, reconnectVars, pumpVars>>

connectionLost ==
  /\ link = "up"
  /\ ConnectionEnds
  /\ link' = "down"
  /\ UNCHANGED <<connected, declaredVars, reconnectVars, pumpVars>>

brokerReturns(m) ==
  /\ OrphanReturns(m)
  /\ UNCHANGED <<linkVars, declaredVars, reconnectVars, pumpVars>>

delayElapses ==
  /\ backingOff
  /\ backingOff' = FALSE
  /\ UNCHANGED <<brokerVars, linkVars, declaredVars, enabled, failedAttempts, pumpVars>>

-----------------------------------------------------------------------------
(* Connecting, declaring, subscribing, closing.  A call that throws before *)
(* it changed anything is no step.                                         *)

(* connect: openChannel probes the endpoint and opens the channel. *)
connect ==
  /\ pc = "idle" /\ link = "none"
  /\ link' = "up" /\ connected' = TRUE
  /\ nextTag' = 1
  /\ UNCHANGED <<queue, fate, declaredAs, consuming, unacked, orphans, losses,
                 declaredVars, reconnectVars, pumpVars>>

setReconnectPolicy ==
  /\ pc = "idle" /\ ~enabled
  /\ enabled' = TRUE /\ failedAttempts' = 0 /\ backingOff' = FALSE
  /\ UNCHANGED <<brokerVars, linkVars, declaredVars, pumpVars>>

(* A request the broker refuses with a channel error. *)
RequestRefused ==
  /\ BrokerClosesChannel \/ UNCHANGED <<consuming, orphans, unacked>>
  /\ UNCHANGED <<queue, fate, declaredAs, nextTag, losses>>

ensureTopic(t, o) ==
  /\ pc = "idle" /\ link = "up"
  /\ IF Agrees(t, o)
     THEN /\ declaredAs' = [declaredAs EXCEPT ![t] = o]
          /\ topic' = t /\ topicOptions' = o /\ topicDeclared' = TRUE
          /\ UNCHANGED <<queue, fate, consuming, unacked, orphans, nextTag, losses,
                         subscribed>>
     ELSE RequestRefused /\ UNCHANGED declaredVars
  /\ UNCHANGED <<linkVars, reconnectVars, pumpVars>>

(* subscribe: _topic is set before the request is made, whatever comes of it. *)
subscribe(t) ==
  /\ pc = "idle" /\ link # "none" /\ ~subscribed
  /\ topic' = t
  /\ \/ /\ link = "up" /\ Exists(t)
        /\ consuming' = <<t>>
        /\ subscribed' = TRUE
        /\ UNCHANGED <<queue, fate, declaredAs, unacked, orphans, nextTag, losses>>
     \/ /\ link = "up" /\ ~Exists(t)
        /\ RequestRefused
        /\ UNCHANGED subscribed
     \/ /\ link = "down"
        /\ UNCHANGED <<brokerVars, subscribed>>
  /\ UNCHANGED <<linkVars, topicOptions, topicDeclared, reconnectVars, pumpVars>>

(* close: best effort throughout; what is unacknowledged goes back. *)
close ==
  /\ pc = "idle" /\ link # "none"
  /\ ConnectionEnds
  /\ link' = "none" /\ connected' = FALSE
  /\ subscribed' = FALSE
  /\ UNCHANGED <<topic, topicOptions, topicDeclared, reconnectVars, pumpVars>>

-----------------------------------------------------------------------------
(* pump.                                                                   *)

(* Variant: the subscription is forgotten. *)
ConsumersForgotten(restored) == <<>>

ConsumersAfter(restored) == IF restored /\ subscribed THEN <<topic>> ELSE <<>>

(* One attempt: reset the channel, open a new one, redeclare, consume      *)
(* again.  `opened' and `alive' say whether the broker was reached and     *)
(* stayed until the end.  A failure leaves what was opened behind, marked  *)
(* as not connected.                                                       *)
Attempt(opened, alive) ==
  LET redeclared == topicDeclared => Agrees(topic, topicOptions)
      exists     == topicDeclared \/ Exists(topic)
      restored   == opened /\ alive /\ redeclared /\ (subscribed => exists)
      performed  == IF topicDeclared /\ redeclared
                    THEN [declaredAs EXCEPT ![topic] = topicOptions] ELSE declaredAs
  IN
  /\ alive => opened
  /\ link' = IF ~opened THEN "none" ELSE IF alive THEN "up" ELSE "down"
  /\ connected' = restored
  /\ declaredAs' \in CASE ~opened -> {declaredAs}
                       [] alive   -> {performed}
                       [] OTHER   -> {declaredAs, performed}
  /\ consuming' = ConsumersAfter(restored)
  /\ orphans' = orphans \cup OrphansOf(unacked)
  /\ unacked' = {}
  /\ nextTag' = 1
  /\ failedAttempts' = IF restored THEN 0 ELSE failedAttempts + 1
  /\ backingOff' = ~restored
  /\ UNCHANGED <<queue, fate, losses, enabled>>

(* Variant: one attempt too few. *)
ExhaustedEarly == failedAttempts + 1 >= maxAttempts

(* Variant: one attempt too many. *)
ExhaustedLate == failedAttempts > maxAttempts

Exhausted == failedAttempts >= maxAttempts

(* serviceReconnect: at most one attempt per pump(), none once they are    *)
(* exhausted, none before the backoff is over.                             *)
serviceReconnect ==
  /\ answer' = IF Exhausted THEN "false" ELSE "true"
  /\ IF Exhausted \/ backingOff
     THEN connected' = FALSE /\ UNCHANGED <<brokerVars, link, reconnectVars>>
     ELSE \E opened, alive \in BOOLEAN : Attempt(opened, alive)
  /\ UNCHANGED <<declaredVars, stats, pc, delivery>>

GivesUp ==
  /\ answer' = "false" /\ connected' = FALSE
  /\ UNCHANGED <<brokerVars, link, declaredVars, reconnectVars, stats, pc, delivery>>

Lost == IF enabled THEN serviceReconnect ELSE GivesUp

pumpNotReady == pc = "idle" /\ ~ready /\ Lost

(* The receive throws: the peer is gone, or the library does not know the  *)
(* consumer tag.                                                           *)
receiveFails ==
  /\ pc = "idle" /\ ready /\ subscribed
  /\ link = "down" \/ consuming = <<>>
  /\ Lost

(* Nothing is subscribed, or nothing arrives within the slice, be it that  *)
(* the peer is gone and this end has not been told.                        *)
pumpIdle ==
  /\ pc = "idle" /\ ready
  /\ subscribed => link = "down" \/ consuming # <<>>
  /\ answer' = "true"
  /\ UNCHANGED <<brokerVars, linkVars, declaredVars, reconnectVars, stats, pc, delivery>>

Count(counter) == stats' = [stats EXCEPT ![counter] = @ + 1]

(* Variant: consumed with no_ack, the library's default: acknowledged by   *)
(* its delivery.                                                           *)
receiveAutoAcked ==
  /\ pc = "idle" /\ ready /\ subscribed
  /\ link = "up" /\ consuming # <<>>
  /\ stats["received"] < MaxReceived
  /\ queue[topic] # <<>>
  /\ queue' = [queue EXCEPT ![topic] = Tail(@)]
  /\ fate' = [fate EXCEPT ![Head(queue[topic]).id] = "acked"]
  /\ delivery' = NextDelivery(1)
  /\ Count("received")
  /\ pc' = "handling"
  /\ UNCHANGED <<declaredAs, consuming, unacked, orphans, nextTag, losses, linkVars,
                 declaredVars, reconnectVars, answer>>

(* BasicConsumeMessage returns a delivery, and the handler is called. *)
receive ==
  /\ pc = "idle" /\ ready /\ subscribed
  /\ link = "up" /\ consuming # <<>>
  /\ stats["received"] < MaxReceived
  /\ BrokerDelivers(1)
  /\ delivery' = NextDelivery(1)
  /\ Count("received")
  /\ pc' = "handling"
  /\ UNCHANGED <<linkVars, declaredVars, reconnectVars, answer>>

(* BasicAck and BasicReject: the frame reaches the broker, or goes into a  *)
(* socket nobody reads.                                                    *)
FrameSent(u, disposition) ==
  /\ IF link = "up" THEN BrokerResolves(u, disposition)
     ELSE UNCHANGED <<queue, fate, consuming, unacked, orphans>>
  /\ UNCHANGED <<declaredAs, nextTag, losses>>

(* Variant: counted before it is performed. *)
handlerReturnsCounted(disposition) ==
  /\ pc = "handling"
  /\ pc' = "idle" /\ delivery' = NoDelivery
  /\ Count(disposition)
  /\ \/ FrameSent(delivery, disposition) /\ answer' = "true"
     \/ link = "down" /\ answer' = "threw" /\ UNCHANGED brokerVars
  /\ UNCHANGED <<linkVars, declaredVars, reconnectVars>>

(* The handler returns; performing its disposition throws if the library   *)
(* finds the peer gone, and _connected is left as it is.                   *)
handlerReturns(disposition) ==
  /\ pc = "handling"
  /\ pc' = "idle" /\ delivery' = NoDelivery
  /\ \/ FrameSent(delivery, disposition) /\ Count(disposition) /\ answer' = "true"
     \/ link = "down" /\ answer' = "threw" /\ UNCHANGED <<brokerVars, stats>>
  /\ UNCHANGED <<linkVars, declaredVars, reconnectVars>>

(* ... or throws: nothing is resolved, and the exception goes on. *)
handlerThrows ==
  /\ pc = "handling"
  /\ pc' = "idle" /\ delivery' = NoDelivery
  /\ Count("abandoned")
  /\ answer' = "threw"
  /\ UNCHANGED <<brokerVars, linkVars, declaredVars, reconnectVars>>

=============================================================================
