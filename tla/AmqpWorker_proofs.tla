-------------------------- MODULE AmqpWorker_proofs --------------------------
(***************************************************************************)
(* Proofs about a worker on AmqpCppTransport, for every number of topics,  *)
(* messages, deliveries, losses, reconnection attempts and consumers, for  *)
(* both shapes of handler and whatever faults an attempt can meet.         *)
(***************************************************************************)
EXTENDS AmqpWorker, AmqpBroker_proofs, FiniteSetTheorems

ConnectionPart ==
  /\ socket \in {"none", "unopened", "unconnected", "up", "down"}
  /\ ready \in BOOLEAN /\ closed \in BOOLEAN
  /\ channel \in {"none", "open", "broken"}

DeclaredPart ==
  /\ topic \in Topics \cup {NoTopic}
  /\ topicOptions \in Options \cup {NoOptions}
  /\ topicDeclared \in BOOLEAN /\ subscribed \in BOOLEAN
  /\ topicDeclared => topic \in Topics /\ topicOptions \in Options
  /\ subscribed => topic \in Topics
  /\ wanted \in Topics \cup {NoTopic}

ReconnectPart ==
  /\ enabled \in BOOLEAN /\ backingOff \in BOOLEAN
  /\ failedAttempts \in 0..maxAttempts

Counters == {"received", "Ack", "Reject", "Requeue"}

StatsPart == stats \in [Counters -> Nat]

HandlerPart ==
  /\ outstandingDeferred \subseteq Nat
  /\ handlerFailure \in BOOLEAN
  /\ pc \in {"idle", "pumping", "handling"}
  /\ IF pc = "handling" THEN delivery \in Deliveries ELSE delivery = NoDelivery
  /\ answer \in {"true", "false", "threw"}

WorkerPart ==
  /\ settlements \in Seq(Nat \X Live)
  /\ jobs \subseteq [tag : Nat, id : Ids, nth : Nat]
  /\ decided \in [Live -> Nat]
  /\ retried \in [Ids -> Nat]
  /\ finished \subseteq Ids
  /\ unsent \in [Live -> Nat]

LEMMA TypeParts ==
  TypeOK <=> /\ BrokerTypeOK /\ ConnectionPart /\ DeclaredPart /\ ReconnectPart
             /\ StatsPart /\ HandlerPart /\ WorkerPart
BY DEF TypeOK, ConnectionPart, DeclaredPart, ReconnectPart, StatsPart, HandlerPart,
       WorkerPart, Counters, Deliveries

LEMMA TypePartsPrimed ==
  TypeOK' <=> /\ BrokerTypeOK' /\ ConnectionPart' /\ DeclaredPart' /\ ReconnectPart'
              /\ StatsPart' /\ HandlerPart' /\ WorkerPart'
BY TypeParts, PTL

-----------------------------------------------------------------------------
(* Types.                                                                  *)

(* The disposition dispatch() computes for an outcome that has one, and    *)
(* what is retried never came back before.                                 *)
LEMMA DispatchRetry ==
  ASSUME NEW body, NEW outcome, NEW redelivered,
         dispatch(body, outcome, redelivered) = "Requeue", outcome = "TransientFailure"
  PROVE  ~redelivered
BY DEF dispatch, classifyTransient

(* A frame resolves one delivery, costs the channel, or reaches nobody. *)
LEMMA FrameEffect ==
  ASSUME NEW tag, NEW d, FrameSent(tag, d)
  PROVE  /\ \/ /\ channel = "open" /\ socket = "up" /\ UNCHANGED channel
               /\ \E u \in unacked : u.tag = tag /\ BrokerResolves(u, d)
            \/ BrokerClosesChannel /\ channel' = "broken" /\ UNCHANGED <<queue, fate>>
            \/ /\ ~(channel = "open" /\ socket = "up")
               /\ UNCHANGED <<queue, fate, consuming, unacked, orphans, channel>>
         /\ UNCHANGED <<declaredAs, nextTag, losses, socket, ready, closed>>
BY DEF FrameSent

LEMMA FrameTypes ==
  ASSUME BrokerTypeOK, ConnectionPart, NEW tag, NEW d \in Live, FrameSent(tag, d)
  PROVE  BrokerTypeOK' /\ ConnectionPart'
<1>1. UNCHANGED <<declaredAs, nextTag, losses, socket, ready, closed>>
  BY FrameEffect
<1>2. ASSUME NEW u \in unacked, BrokerResolves(u, d), UNCHANGED channel
      PROVE  BrokerTypeOK' /\ ConnectionPart'
  <2>1. u \in Deliveries
    BY DEF BrokerTypeOK, Deliveries
  <2>2. BrokerTypeOK'
    BY <1>1, <1>2, <2>1, ResolvesTypes
  <2> QED BY <1>1, <1>2, <2>2 DEF ConnectionPart
<1>3. ASSUME BrokerClosesChannel, channel' = "broken", UNCHANGED <<queue, fate>>
      PROVE  BrokerTypeOK' /\ ConnectionPart'
  <2>1. BrokerTypeOK'
    BY <1>1, <1>3, ClosesTypes DEF BrokerTypeOK
  <2> QED BY <1>1, <1>3, <2>1 DEF ConnectionPart
<1>4. ASSUME UNCHANGED <<queue, fate, consuming, unacked, orphans, channel>>
      PROVE  BrokerTypeOK' /\ ConnectionPart'
  BY <1>1, <1>4 DEF BrokerTypeOK, ConnectionPart
<1> QED BY <1>2, <1>3, <1>4, FrameEffect

LEMMA FailsTypes ==
  ASSUME BrokerTypeOK, ConnectionPart, FrameFails
  PROVE  BrokerTypeOK' /\ ConnectionPart'
BY BrokerKept DEF FrameFails, ConnectionPart

(* What openConnection leaves, whatever went wrong. *)
LEMMA OpenEffect ==
  ASSUME NEW fault, OpenConnection(fault)
  PROVE  /\ socket' \in {"unopened", "unconnected", "up", "down"}
         /\ ready' \in BOOLEAN /\ closed' \in BOOLEAN
         /\ closed' => socket' # "up"
         /\ nextTag' = 1
         /\ Opened(fault) /\ fault # "lostDeclaring" => socket' = "up"
<1>1. nextTag' = 1 /\ ready' \in BOOLEAN
  BY DEF OpenConnection, Opened
<1>2. CASE fault \in {"unresolved", "unreachable", "rejected", "lostDeclaring"}
  BY <1>1, <1>2 DEF OpenConnection, Opened, OpenFaults
<1>3. CASE fault \notin {"unresolved", "unreachable", "rejected", "lostDeclaring"}
  BY <1>1, <1>3 DEF OpenConnection
<1> QED BY <1>2, <1>3

(* What an attempt to restore the connection leaves. *)
LEMMA AttemptEffect ==
  ASSUME TypeOK, NEW fault, Attempt(fault), ~Exhausted
  PROVE  /\ socket' \in {"unopened", "unconnected", "up", "down"}
         /\ ready' \in BOOLEAN /\ closed' \in BOOLEAN /\ (closed' => socket' # "up")
         /\ channel' \in {"none", "open", "broken"}
         /\ declaredAs' \in [Topics -> Options \cup {NoOptions}]
         /\ consuming' \in Seq(Topics)
         /\ consuming' # <<>> => socket' = "up" /\ channel' = "open"
         /\ outstandingDeferred' = {} /\ nextTag' = 1
         /\ ReconnectPart'
         /\ UNCHANGED <<queue, fate, unacked, orphans, losses, declaredVars, enabled,
                        handlerFailure, stats, delivery>>
<1> USE TypeParts
<1> DEFINE redeclared == /\ Opened(fault)
                         /\ topicDeclared => /\ fault \notin {"lostDeclaring", "declareTimeout"}
                                             /\ Agrees(topic, topicOptions)
           exists     == topicDeclared \/ Exists(topic)
           restored   == redeclared /\ (subscribed => fault = NoFault /\ exists)
<1>1. /\ fault \in {"lostDeclaring", "declareTimeout"} => topicDeclared
      /\ OpenConnection(fault)
      /\ channel' = IF ~Opened(fault) THEN "none"
                    ELSE IF \/ topicDeclared /\ ~Agrees(topic, topicOptions)
                            \/ redeclared /\ subscribed /\ ~exists
                         THEN "broken" ELSE "open"
      /\ declaredAs' = IF topicDeclared /\ redeclared
                       THEN [declaredAs EXCEPT ![topic] = topicOptions] ELSE declaredAs
      /\ consuming' = IF redeclared /\ subscribed /\ exists /\ fault # "consumeTimeout"
                      THEN <<topic>> ELSE <<>>
      /\ failedAttempts' = IF restored THEN 0 ELSE failedAttempts + 1
      /\ backingOff' = ~restored
      /\ outstandingDeferred' = {}
      /\ UNCHANGED <<queue, fate, unacked, orphans, losses, declaredVars, enabled,
                     handlerFailure, stats, delivery>>
  BY DEF Attempt, Restore
<1>2. channel' \in {"none", "open", "broken"}
  BY <1>1
<1>3. declaredAs' \in [Topics -> Options \cup {NoOptions}]
  <2>1. declaredAs \in [Topics -> Options \cup {NoOptions}]
    BY DEF BrokerTypeOK
  <2> HIDE DEF redeclared
  <2> QED BY <1>1, <2>1 DEF DeclaredPart
<1>4. consuming' \in Seq(Topics)
  <2> HIDE DEF redeclared, exists
  <2>1. CASE subscribed
    <3>1. <<topic>> \in Seq(Topics)
      BY <2>1 DEF DeclaredPart
    <3> QED BY <1>1, <3>1
  <2>2. CASE ~subscribed
    BY <1>1, <2>2
  <2> QED BY <2>1, <2>2
<1>5. ASSUME consuming' # <<>> PROVE socket' = "up" /\ channel' = "open"
  <2>1. redeclared /\ subscribed /\ exists
    BY <1>1, <1>5
  <2>2. Opened(fault) /\ fault # "lostDeclaring"
    BY <1>1, <2>1
  <2>3. channel' = "open"
    BY <1>1, <2>1, <2>2
  <2> QED BY <1>1, <2>2, <2>3, OpenEffect
<1>6. ReconnectPart'
  <2>1. restored \in BOOLEAN
    OBVIOUS
  <2> HIDE DEF restored
  <2>2. failedAttempts' \in 0..maxAttempts
    BY <1>1, <2>1, AttemptsAssumption DEF ReconnectPart, Exhausted
  <2> QED BY <1>1, <2>1, <2>2 DEF ReconnectPart
<1> QED BY <1>1, <1>2, <1>3, <1>4, <1>5, <1>6, OpenEffect

LEMMA ServiceTypes ==
  ASSUME TypeOK, NEW fault, serviceReconnect(fault), pc # "handling", Quiet
  PROVE  TypeOK'
<1> USE TypeParts
<1>1. WorkerPart'
  BY DEF Quiet, workerVars, WorkerPart
<1>2. pc' = "idle" /\ answer' \in {"true", "false"}
  BY DEF serviceReconnect
<1>3. CASE Exhausted \/ backingOff
  <2>1. UNCHANGED <<brokerVars, connectionVars, declaredVars, reconnectVars,
                    outstandingDeferred, handlerFailure, stats, delivery>>
    BY <1>3 DEF serviceReconnect
  <2>2. BrokerTypeOK'
    BY <2>1, BrokerKept
  <2>3. ConnectionPart' /\ DeclaredPart' /\ ReconnectPart' /\ StatsPart'
    BY <2>1 DEF connectionVars, declaredVars, reconnectVars, ConnectionPart, DeclaredPart,
                ReconnectPart, StatsPart
  <2>4. HandlerPart'
    BY <1>2, <2>1 DEF HandlerPart
  <2> QED BY <1>1, <2>2, <2>3, <2>4, TypePartsPrimed
<1>4. CASE ~(Exhausted \/ backingOff)
  <2>1. Attempt(fault) /\ ~Exhausted
    BY <1>4 DEF serviceReconnect
  <2>2. BrokerTypeOK'
    BY <2>1, AttemptEffect DEF BrokerTypeOK
  <2>3. ConnectionPart' /\ ReconnectPart'
    BY <2>1, AttemptEffect DEF ConnectionPart
  <2>4. UNCHANGED <<declaredVars, handlerFailure, stats, delivery>> /\ outstandingDeferred' = {}
    BY <2>1, AttemptEffect
  <2>5. DeclaredPart' /\ StatsPart'
    BY <2>4 DEF declaredVars, DeclaredPart, StatsPart
  <2>6. HandlerPart'
    BY <1>2, <2>4 DEF HandlerPart
  <2> QED BY <1>1, <2>2, <2>3, <2>5, <2>6, TypePartsPrimed
<1> QED BY <1>3, <1>4

LEMMA InitTypes == Init => TypeOK
<1> SUFFICES ASSUME Init PROVE TypeOK
  OBVIOUS
<1>1. BrokerTypeOK
  BY BrokerInitTypes DEF Init, AmqpInit
<1>2. ConnectionPart /\ DeclaredPart /\ HandlerPart
  BY DEF Init, AmqpInit, ConnectionPart, DeclaredPart, HandlerPart
<1>3. failedAttempts \in 0..maxAttempts
  BY AttemptsAssumption DEF Init, AmqpInit
<1>4. ReconnectPart
  BY <1>3 DEF Init, AmqpInit, ReconnectPart
<1>5. StatsPart /\ WorkerPart
  BY DEF Init, AmqpInit, StatsPart, WorkerPart, Counters
<1> QED BY <1>1, <1>2, <1>4, <1>5, TypeParts

LEMMA TypeStep == TypeOK /\ [Next]_vars => TypeOK'
<1> SUFFICES ASSUME TypeOK, [Next]_vars PROVE TypeOK'
  OBVIOUS
<1> USE TypeParts
<1>a. ASSUME UNCHANGED connectionVars PROVE ConnectionPart'
  BY <1>a DEF connectionVars, ConnectionPart
<1>b. ASSUME UNCHANGED declaredVars PROVE DeclaredPart'
  BY <1>b DEF declaredVars, DeclaredPart
<1>c. ASSUME UNCHANGED reconnectVars PROVE ReconnectPart'
  BY <1>c DEF reconnectVars, ReconnectPart
<1>d. ASSUME UNCHANGED pumpVars PROVE StatsPart' /\ HandlerPart'
  BY <1>d DEF pumpVars, StatsPart, HandlerPart
<1>e. ASSUME Quiet PROVE WorkerPart'
  BY <1>e DEF Quiet, workerVars, WorkerPart
<1>1. ASSUME NEW t \in Topics, otherWorker(t), Quiet PROVE TypeOK'
  BY <1>1, <1>a, <1>b, <1>c, <1>d, <1>e, TakesTypes, TypePartsPrimed DEF otherWorker
<1>2. ASSUME connectionLost, Quiet PROVE TypeOK'
  <2>1. ConnectionPart'
    BY <1>2 DEF connectionLost, ConnectionPart
  <2> QED BY <1>2, <1>b, <1>c, <1>d, <1>e, <2>1, EndsTypes, TypePartsPrimed DEF connectionLost
<1>3. ASSUME NEW m \in orphans, brokerReturns(m), Quiet PROVE TypeOK'
  BY <1>3, <1>a, <1>b, <1>c, <1>d, <1>e, OrphanReturnsTypes, TypePartsPrimed DEF brokerReturns
<1>4. ASSUME delayElapses, Quiet PROVE TypeOK'
  <2>1. ReconnectPart'
    BY <1>4 DEF delayElapses, ReconnectPart
  <2> QED BY <1>4, <1>a, <1>b, <1>d, <1>e, <2>1, BrokerKept, TypePartsPrimed DEF delayElapses
<1>5. ASSUME setReconnectPolicy, Quiet PROVE TypeOK'
  <2>1. failedAttempts' \in 0..maxAttempts
    BY <1>5, AttemptsAssumption DEF setReconnectPolicy
  <2>2. ReconnectPart'
    BY <1>5, <2>1 DEF setReconnectPolicy, ReconnectPart
  <2> QED BY <1>5, <1>a, <1>b, <1>d, <1>e, <2>2, BrokerKept, TypePartsPrimed
          DEF setReconnectPolicy
<1>6. ASSUME close, Quiet PROVE TypeOK'
  <2>1. DeclaredPart' /\ StatsPart' /\ HandlerPart'
    BY <1>6 DEF close, DeclaredPart, StatsPart, HandlerPart
  <2>2. closed' \in BOOLEAN
    BY <1>6 DEF close, ConnectionPart
  <2>3. ConnectionPart'
    BY <1>6, <2>2 DEF close, ConnectionPart
  <2> QED BY <1>6, <1>c, <1>e, <2>1, <2>3, EndsTypes, TypePartsPrimed DEF close
<1>23. ASSUME closeThrows, Quiet PROVE TypeOK'
  <2>1. ConnectionPart' /\ StatsPart' /\ HandlerPart'
    BY <1>23 DEF closeThrows, ConnectionPart, StatsPart, HandlerPart
  <2> QED BY <1>23, <1>b, <1>c, <1>e, <2>1, BrokerKept, TypePartsPrimed DEF closeThrows
<1>7. ASSUME NEW f, connect(f), Quiet PROVE TypeOK'
  <2>1. ConnectionPart' /\ nextTag' = 1
    BY <1>7, OpenEffect DEF connect, ConnectionPart
  <2>2. BrokerTypeOK'
    BY <1>7, <2>1 DEF connect, BrokerTypeOK
  <2> QED BY <1>7, <1>b, <1>c, <1>d, <1>e, <2>1, <2>2, TypePartsPrimed DEF connect
<1>8. ASSUME NEW t \in Topics, NEW o \in Options, NEW f, ensureTopic(t, o, f), Quiet
      PROVE  TypeOK'
  <2>1. UNCHANGED <<reconnectVars, pumpVars>>
    BY <1>8 DEF ensureTopic
  <2>2. CASE RequestOnDeadConnection /\ UNCHANGED topic
    <3>1. ConnectionPart' /\ DeclaredPart' /\ BrokerTypeOK'
      BY <2>2, BrokerKept DEF RequestOnDeadConnection, ConnectionPart, DeclaredPart
    <3> QED BY <1>8, <1>c, <1>d, <1>e, <2>1, <3>1, TypePartsPrimed
  <2>3. CASE /\ BrokerClosesChannel /\ channel' = "broken"
             /\ UNCHANGED <<queue, fate, declaredAs, nextTag, losses, socket, ready, closed,
                            declaredVars>>
    <3>1. BrokerTypeOK'
      BY <2>3, ClosesTypes DEF BrokerTypeOK
    <3>2. ConnectionPart'
      BY <2>3 DEF ConnectionPart
    <3> QED BY <1>8, <1>b, <1>c, <1>d, <1>e, <2>1, <2>3, <3>1, <3>2, TypePartsPrimed
  <2>4. CASE /\ declaredAs' = [declaredAs EXCEPT ![t] = o]
             /\ IF f = "declareTimeout" THEN UNCHANGED <<topic, topicOptions, topicDeclared>>
                ELSE topic' = t /\ topicOptions' = o /\ topicDeclared' = TRUE
             /\ UNCHANGED <<queue, fate, consuming, unacked, orphans, nextTag, losses,
                            connectionVars, subscribed, wanted>>
    <3>1. BrokerTypeOK'
      BY <2>4 DEF BrokerTypeOK
    <3>2. DeclaredPart'
      BY <2>4 DEF DeclaredPart
    <3> QED BY <1>8, <1>a, <1>c, <1>d, <1>e, <2>1, <2>4, <3>1, <3>2, TypePartsPrimed
  <2> QED BY <1>8, <2>2, <2>3, <2>4 DEF ensureTopic
<1>9. ASSUME NEW t \in Topics, NEW f, subscribe(t, f), Quiet PROVE TypeOK'
  <2>1. UNCHANGED <<reconnectVars, pumpVars>> /\ topic' = t
    BY <1>9 DEF subscribe
  <2>2. CASE RequestOnDeadConnection
    <3>1. ConnectionPart' /\ DeclaredPart' /\ BrokerTypeOK'
      BY <2>1, <2>2, BrokerKept DEF RequestOnDeadConnection, ConnectionPart, DeclaredPart
    <3> QED BY <1>9, <1>c, <1>d, <1>e, <2>1, <3>1, TypePartsPrimed
  <2>3. CASE /\ BrokerClosesChannel /\ channel' = "broken"
             /\ UNCHANGED <<queue, fate, declaredAs, nextTag, losses, socket, ready, closed,
                            topicOptions, topicDeclared, subscribed, wanted>>
    <3>1. BrokerTypeOK'
      BY <2>3, ClosesTypes DEF BrokerTypeOK
    <3>2. ConnectionPart' /\ DeclaredPart'
      BY <2>1, <2>3 DEF ConnectionPart, DeclaredPart
    <3> QED BY <1>9, <1>c, <1>d, <1>e, <2>1, <3>1, <3>2, TypePartsPrimed
  <2>4. CASE /\ consuming' = IF f = "consumeTimeout" THEN consuming ELSE Append(consuming, t)
             /\ subscribed' = (f = NoFault)
             /\ wanted' = IF f = NoFault THEN t ELSE wanted
             /\ UNCHANGED <<queue, fate, declaredAs, unacked, orphans, nextTag, losses,
                            connectionVars, topicOptions, topicDeclared>>
    <3>1. consuming' \in Seq(Topics)
      BY <2>4 DEF BrokerTypeOK
    <3>2. BrokerTypeOK'
      BY <2>4, <3>1 DEF BrokerTypeOK
    <3>3. subscribed' \in BOOLEAN
      BY <2>4
    <3>4. DeclaredPart'
      BY <2>1, <2>4, <3>3 DEF DeclaredPart
    <3> QED BY <1>9, <1>a, <1>c, <1>d, <1>e, <2>1, <2>4, <3>2, <3>4, TypePartsPrimed
  <2> QED BY <1>9, <2>2, <2>3, <2>4 DEF subscribe
<1>10. ASSUME NEW f, pumpOnDead(f) \/ pumpEnds(f), Quiet PROVE TypeOK'
  <2>1. CASE serviceReconnect(f)
    BY <1>10, <2>1, ServiceTypes DEF pumpOnDead, pumpEnds
  <2>2. CASE /\ pc # "handling" /\ pc' = "idle" /\ handlerFailure' \in BOOLEAN
             /\ answer' \in {"true", "false", "threw"}
             /\ UNCHANGED <<brokerVars, connectionVars, declaredVars, reconnectVars,
                            outstandingDeferred, stats, delivery>>
    <3>1. StatsPart' /\ HandlerPart'
      BY <2>2 DEF StatsPart, HandlerPart
    <3> QED BY <1>10, <1>a, <1>b, <1>c, <1>e, <2>2, <3>1, BrokerKept, TypePartsPrimed
  <2> QED BY <1>10, <2>1, <2>2 DEF pumpOnDead, pumpEnds, HandlerPart
<1>11. ASSUME pumpBegins \/ readEnds \/ readFails \/ handshakeCompletes, Quiet PROVE TypeOK'
  <2>1. UNCHANGED <<brokerVars, declaredVars, reconnectVars>>
    BY <1>11 DEF pumpBegins, readEnds, readFails, handshakeCompletes
  <2>2. ConnectionPart'
    BY <1>11 DEF pumpBegins, readEnds, readFails, handshakeCompletes, ConnectionPart,
                 connectionVars
  <2>3. StatsPart' /\ HandlerPart'
    BY <1>11 DEF pumpBegins, readEnds, readFails, handshakeCompletes, StatsPart, HandlerPart,
                 pumpVars
  <2> QED BY <1>11, <1>b, <1>c, <1>e, <2>1, <2>2, <2>3, BrokerKept, TypePartsPrimed
<1>12. ASSUME NEW c \in DOMAIN consuming, deliver(c), Quiet PROVE TypeOK'
  <2>1. BrokerTypeOK' /\ NextDelivery(c) \in Deliveries
    BY <1>12, DeliversTypes, DeliveryType DEF deliver, BrokerDelivers
  <2>2. StatsPart' /\ HandlerPart'
    BY <1>12, <2>1 DEF deliver, Count, StatsPart, HandlerPart, Counters
  <2> QED BY <1>12, <1>a, <1>b, <1>c, <1>e, <2>1, <2>2, TypePartsPrimed DEF deliver
<1>13. ASSUME NEW outcome, dispatched(outcome) PROVE TypeOK'
  <2> DEFINE d == dispatch(delivery.id, outcome, delivery.redelivered)
  <2>1. /\ pc = "handling" /\ d \in Live /\ handlerReturns(d)
        /\ decided' = [decided EXCEPT ![d] = @ + 1]
        /\ retried' = IF d = "Requeue" /\ outcome = "TransientFailure"
                      THEN [retried EXCEPT ![delivery.id] = @ + 1] ELSE retried
        /\ finished' = IF d = "Ack" THEN finished \cup {delivery.id} ELSE finished
        /\ unsent' = IF pc' = "idle" THEN [unsent EXCEPT ![d] = @ + 1] ELSE unsent
        /\ UNCHANGED <<settlements, jobs>>
    BY <1>13 DEF dispatched, Decide
  <2> HIDE DEF d
  <2>2. delivery.id \in Ids
    BY <2>1 DEF HandlerPart, Deliveries
  <2>3. WorkerPart'
    BY <2>1, <2>2 DEF WorkerPart
  <2>4. BrokerTypeOK' /\ ConnectionPart'
    BY <2>1, FrameTypes, FailsTypes DEF handlerReturns
  <2>5. StatsPart'
    BY <2>1 DEF handlerReturns, Count, StatsPart, Counters, Live
  <2>6. HandlerPart'
    BY <2>1 DEF handlerReturns, HandlerPart
  <2> QED BY <1>b, <1>c, <2>1, <2>3, <2>4, <2>5, <2>6, TypePartsPrimed DEF handlerReturns
<1>14. ASSUME dispatchDeferred PROVE TypeOK'
  <2>1. delivery \in Deliveries /\ pc = "handling"
    BY <1>14 DEF dispatchDeferred, HandlerPart
  <2>2. delivery.tag \in Nat /\ delivery.id \in Ids /\ stats["received"] \in Nat
    BY <2>1 DEF Deliveries, StatsPart, Counters
  <2>3. WorkerPart'
    BY <1>14, <2>2 DEF dispatchDeferred, WorkerPart
  <2>4. StatsPart' /\ HandlerPart'
    BY <1>14, <2>2 DEF dispatchDeferred, handlerDefers, StatsPart, HandlerPart
  <2> QED BY <1>14, <1>a, <1>b, <1>c, <2>3, <2>4, BrokerKept, TypePartsPrimed
          DEF dispatchDeferred, handlerDefers
<1>15. ASSUME dispatchEscapes PROVE TypeOK'
  <2>1. StatsPart' /\ HandlerPart'
    BY <1>15 DEF dispatchEscapes, handlerThrows, StatsPart, HandlerPart
  <2> QED BY <1>15, <1>a, <1>b, <1>c, <1>e, <2>1, BrokerKept, TypePartsPrimed
          DEF dispatchEscapes, handlerThrows, Quiet
<1>16. ASSUME NEW job \in jobs, NEW d \in Live, push(job, d) PROVE TypeOK'
  <2>1. job.tag \in Nat /\ job.id \in Ids
    BY DEF WorkerPart
  <2>2. settlements' \in Seq(Nat \X Live)
    BY <1>16, <2>1 DEF push, WorkerPart
  <2>3. WorkerPart'
    BY <1>16, <2>1, <2>2 DEF push, WorkerPart
  <2> QED BY <1>16, <1>a, <1>b, <1>c, <1>d, <2>3, BrokerKept, TypePartsPrimed
          DEF push, amqpVars
<1>17. ASSUME drain PROVE TypeOK'
  <2> DEFINE tag == Head(settlements)[1]
             d   == Head(settlements)[2]
  <2>1. settlements \in Seq(Nat \X Live) /\ settlements # <<>>
    BY <1>17 DEF drain, WorkerPart
  <2>2. Head(settlements) \in Nat \X Live /\ Tail(settlements) \in Seq(Nat \X Live)
    BY <2>1
  <2>3. d \in Live
    BY <2>2
  <2>4. /\ settlements' = Tail(settlements)
        /\ UNCHANGED <<jobs, retried, finished, unsent>>
        /\ \/ settle(tag, d) /\ (UNCHANGED decided \/ Decide(d))
           \/ UNCHANGED <<amqpVars, decided>>
    BY <1>17 DEF drain
  <2> HIDE DEF tag, d
  <2>5. decided' \in [Live -> Nat]
    <3>1. decided' = decided \/ decided' = [decided EXCEPT ![d] = @ + 1]
      BY <2>4 DEF Decide
    <3>2. decided \in [Live -> Nat]
      BY DEF WorkerPart
    <3>3. [decided EXCEPT ![d] = @ + 1] \in [Live -> Nat]
      BY <2>3, <3>2
    <3> QED BY <3>1, <3>2, <3>3
  <2>6. WorkerPart'
    BY <2>2, <2>4, <2>5 DEF WorkerPart
  <2>7. CASE UNCHANGED amqpVars
    BY <1>a, <1>b, <1>c, <1>d, <2>6, <2>7, BrokerKept, TypePartsPrimed DEF amqpVars
  <2>8. CASE settle(tag, d)
    <3>1. BrokerTypeOK' /\ ConnectionPart'
      BY <2>3, <2>8, FrameTypes, FailsTypes DEF settle
    <3>2. StatsPart'
      BY <2>3, <2>8 DEF settle, Count, StatsPart, Counters, Live
    <3>3. HandlerPart'
      BY <2>8 DEF settle, HandlerPart
    <3> QED BY <1>b, <1>c, <2>6, <2>8, <3>1, <3>2, <3>3, TypePartsPrimed DEF settle
  <2> QED BY <2>4, <2>7, <2>8
<1>18. CASE UNCHANGED vars
  BY <1>18, <1>a, <1>b, <1>c, <1>d, <1>e, BrokerKept, TypePartsPrimed DEF vars, amqpVars, Quiet
<1>19. CASE Pump
  BY <1>10, <1>11, <1>12, <1>19 DEF Pump
<1>20. CASE Dispatch
  BY <1>13, <1>20 DEF Dispatch
<1> QED BY <1>1, <1>2, <1>3, <1>4, <1>5, <1>6, <1>7, <1>8, <1>9, <1>14, <1>15, <1>16, <1>17,
           <1>18, <1>19, <1>20, <1>23 DEF Next

(* Every member of the transport, of the connection and of the Consumer    *)
(* holds what its declaration allows in every reachable state.             *)
THEOREM WorkerTypeCorrect == Spec => []TypeOK
BY InitTypes, TypeStep, PTL DEF Spec

-----------------------------------------------------------------------------
(* Deferred deliveries and the channel they belong to.                     *)

(* Delivery tags mean something on one channel only.  DeferredIsUnacked is *)
(* inductive with: the broker waits for nothing, and consumes nothing, but *)
(* on a channel that works; a connection known to be closed is not up;     *)
(* without a channel nothing is held deferred; the tags of a channel are   *)
(* below the next; and a handler runs on a channel, on which, as long as   *)
(* it works, its delivery is waited for and not held deferred yet.         *)
Working == channel = "open" /\ socket = "up"

TagsInv ==
  /\ unacked # {} \/ consuming # <<>> => Working
  /\ closed => socket # "up"
  /\ channel = "none" => outstandingDeferred = {}
  /\ \A u \in unacked : u.tag < nextTag
  /\ DeferredIsUnacked
  /\ pc = "handling" => channel # "none"
  /\ pc = "handling" /\ Working => /\ delivery \in unacked
                                   /\ delivery.tag \notin outstandingDeferred

(* The variables TagsInv speaks of. *)
tagVars == <<unacked, consuming, socket, channel, closed, outstandingDeferred, nextTag, pc,
             delivery>>

LEMMA TagsEnded ==
  ASSUME TagsInv, unacked' = {}, consuming' = <<>>, closed' => socket' # "up",
         channel' = "none" => outstandingDeferred' = {} /\ pc' # "handling", ~Working'
  PROVE  TagsInv'
BY DEF TagsInv, Working, DeferredIsUnacked

LEMMA TagsKept ==
  ASSUME TagsInv, UNCHANGED <<unacked, consuming, socket, channel, outstandingDeferred, nextTag>>,
         closed' => socket # "up", pc' = "handling" => UNCHANGED <<pc, delivery>>
  PROVE  TagsInv'
BY DEF TagsInv, Working, DeferredIsUnacked, TagsOf

(* A frame about a delivery that is not, or no longer, held deferred. *)
LEMMA TagsFrame ==
  ASSUME TagsInv, NEW tag, NEW d, FrameSent(tag, d), pc' # "handling",
         outstandingDeferred' \subseteq outstandingDeferred,
         Working => tag \notin outstandingDeferred'
  PROVE  TagsInv'
<1>1. UNCHANGED <<nextTag, socket, closed>>
  BY FrameEffect
<1>2. ASSUME NEW u \in unacked, u.tag = tag, BrokerResolves(u, d), Working, UNCHANGED channel
      PROVE  TagsInv'
  <2>1. unacked' = unacked \ {u} /\ UNCHANGED consuming
    BY <1>2 DEF BrokerResolves
  <2>2. \A x \in outstandingDeferred' : \E v \in unacked' : v.tag = x
    <3> SUFFICES ASSUME NEW x \in outstandingDeferred' PROVE \E v \in unacked' : v.tag = x
      OBVIOUS
    <3>1. PICK v \in unacked : v.tag = x
      BY <1>2 DEF TagsInv, DeferredIsUnacked, Working, TagsOf
    <3>2. v # u
      BY <1>2, <3>1
    <3> QED BY <2>1, <3>1, <3>2
  <2>3. DeferredIsUnacked'
    BY <2>2 DEF DeferredIsUnacked, TagsOf
  <2> QED BY <1>1, <1>2, <2>1, <2>3 DEF TagsInv, Working
<1>3. ASSUME BrokerClosesChannel, channel' = "broken" PROVE TagsInv'
  BY <1>1, <1>3, TagsEnded DEF BrokerClosesChannel, TagsInv, Working
<1>4. ASSUME ~Working, UNCHANGED <<consuming, unacked, channel>> PROVE TagsInv'
  BY <1>1, <1>4 DEF TagsInv, Working, DeferredIsUnacked
<1> QED BY <1>2, <1>3, <1>4, FrameEffect DEF Working

(* A frame that could not be written: the connection is known to be gone. *)
LEMMA TagsFails ==
  ASSUME TagsInv, FrameFails, pc' # "handling",
         outstandingDeferred' \subseteq outstandingDeferred
  PROVE  TagsInv'
BY DEF FrameFails, TagsInv, Working, DeferredIsUnacked, brokerVars

LEMMA TagsService ==
  ASSUME TypeOK, TagsInv, NEW fault, serviceReconnect(fault), Gone
  PROVE  TagsInv'
<1>1. pc' = "idle"
  BY DEF serviceReconnect
<1>2. CASE Exhausted \/ backingOff
  BY <1>1, <1>2, TagsKept DEF serviceReconnect, brokerVars, connectionVars, TagsInv
<1>3. CASE ~(Exhausted \/ backingOff)
  <2>1. Attempt(fault) /\ ~Exhausted
    BY <1>3 DEF serviceReconnect
  <2>2. unacked = {}
    BY DEF TagsInv, Gone, Working
  <2>3. /\ unacked' = {} /\ outstandingDeferred' = {} /\ (closed' => socket' # "up")
        /\ consuming' # <<>> => socket' = "up" /\ channel' = "open"
    BY <2>1, <2>2, AttemptEffect
  <2> QED BY <1>1, <2>3 DEF TagsInv, Working, DeferredIsUnacked
<1> QED BY <1>2, <1>3

LEMMA TagsStep ==
  ASSUME TypeOK, TagsInv, [Next]_vars PROVE TagsInv'
<1> USE TypeParts
<1>0. ASSUME UNCHANGED tagVars PROVE TagsInv'
  BY <1>0, TagsKept DEF tagVars, TagsInv
<1> USE DEF brokerVars, connectionVars, pumpVars
<1>1. ASSUME NEW t \in Topics, otherWorker(t), Quiet PROVE TagsInv'
  BY <1>0, <1>1 DEF otherWorker, OtherWorkerTakes, tagVars
<1>2. ASSUME connectionLost PROVE TagsInv'
  <2>1. /\ unacked' = {} /\ consuming' = <<>> /\ socket' = "down"
        /\ UNCHANGED <<channel, outstandingDeferred, pc>>
    BY <1>2 DEF connectionLost, ConnectionEnds, BrokerClosesChannel
  <2> QED BY <2>1, TagsEnded DEF TagsInv, Working
<1>3. ASSUME NEW m \in orphans, brokerReturns(m) PROVE TagsInv'
  BY <1>0, <1>3 DEF brokerReturns, OrphanReturns, tagVars
<1>4. ASSUME delayElapses \/ setReconnectPolicy PROVE TagsInv'
  BY <1>0, <1>4 DEF delayElapses, setReconnectPolicy, tagVars
<1>5. ASSUME close PROVE TagsInv'
  <2>1. /\ unacked' = {} /\ consuming' = <<>> /\ socket' = "unopened"
        /\ outstandingDeferred' = {} /\ pc' = "idle"
    BY <1>5 DEF close, ConnectionEnds, BrokerClosesChannel
  <2> QED BY <2>1, TagsEnded DEF Working
<1>23. ASSUME closeThrows PROVE TagsInv'
  <2>1. unacked = {} /\ consuming = <<>>
    BY <1>23 DEF closeThrows, TagsInv, Working
  <2> QED BY <1>23, <2>1, TagsEnded DEF closeThrows, Working, brokerVars
<1>6. ASSUME NEW f, connect(f) PROVE TagsInv'
  <2>1. pc = "idle" /\ channel = "none" /\ UNCHANGED <<unacked, consuming, outstandingDeferred, pc>>
    BY <1>6 DEF connect
  <2>2. unacked = {} /\ consuming = <<>> /\ outstandingDeferred = {}
    BY <2>1 DEF TagsInv, Working
  <2>3. closed' => socket' # "up"
    BY <1>6, OpenEffect DEF connect
  <2> QED BY <2>1, <2>2, <2>3 DEF TagsInv, DeferredIsUnacked
<1>7. ASSUME RequestOnDeadConnection, pc = "idle", UNCHANGED pumpVars PROVE TagsInv'
  BY <1>7, TagsKept DEF RequestOnDeadConnection
<1>8. ASSUME BrokerClosesChannel, channel' = "broken", UNCHANGED <<socket, closed>>
      PROVE  TagsInv'
  BY <1>8, TagsEnded DEF BrokerClosesChannel, TagsInv, Working
<1>9. ASSUME NEW t, NEW o, NEW f, ensureTopic(t, o, f) PROVE TagsInv'
  <2>1. CASE UNCHANGED tagVars
    BY <1>0, <2>1
  <2> QED BY <1>7, <1>8, <1>9, <2>1 DEF ensureTopic, tagVars
<1>10. ASSUME NEW t \in Topics, NEW f, subscribe(t, f) PROVE TagsInv'
  <2>1. CASE /\ channel = "open" /\ socket = "up" /\ pc = "idle"
             /\ UNCHANGED <<unacked, nextTag, connectionVars, pumpVars>>
    BY <2>1 DEF TagsInv, Working, DeferredIsUnacked, TagsOf
  <2> QED BY <1>7, <1>8, <1>10, <2>1 DEF subscribe
<1>11. ASSUME NEW f, pumpOnDead(f) \/ pumpEnds(f) PROVE TagsInv'
  <2>1. CASE serviceReconnect(f) /\ Gone
    BY <2>1, TagsService
  <2>2. CASE /\ pc' = "idle"
             /\ UNCHANGED <<brokerVars, connectionVars, outstandingDeferred>>
    BY <2>2, TagsKept DEF TagsInv
  <2> QED BY <1>11, <2>1, <2>2 DEF pumpOnDead, pumpEnds, Gone
<1>12. ASSUME pumpBegins \/ readEnds \/ readFails \/ handshakeCompletes PROVE TagsInv'
  <2>1. /\ UNCHANGED <<unacked, consuming, socket, channel, outstandingDeferred, nextTag>>
        /\ closed' = closed \/ socket # "up"
        /\ pc' # "handling"
    BY <1>12 DEF pumpBegins, readEnds, readFails, handshakeCompletes
  <2> QED BY <2>1, TagsKept DEF TagsInv
<1>13. ASSUME NEW c \in DOMAIN consuming, deliver(c) PROVE TagsInv'
  <2> DEFINE x == NextDelivery(c)
  <2>1. /\ x.tag = nextTag /\ unacked' = unacked \cup {x} /\ nextTag' = nextTag + 1
        /\ delivery' = x
        /\ UNCHANGED <<consuming, socket, channel, closed, outstandingDeferred>>
    BY <1>13, DeliveryType DEF deliver, BrokerDelivers
  <2>2. consuming # <<>>
    BY DEF BrokerTypeOK
  <2>3. Working
    BY <2>2 DEF TagsInv
  <2>4. nextTag \in Nat /\ \A u \in unacked : u.tag \in Nat /\ u.tag < nextTag
    BY DEF BrokerTypeOK, TagsInv
  <2> HIDE DEF x
  <2>5. nextTag \notin outstandingDeferred
    BY <2>3, <2>4 DEF TagsInv, DeferredIsUnacked, Working, TagsOf
  <2>6. DeferredIsUnacked'
    BY <2>1, <2>3 DEF TagsInv, DeferredIsUnacked, Working, TagsOf
  <2>7. \A u \in unacked' : u.tag < nextTag'
    BY <2>1, <2>4
  <2> QED BY <2>1, <2>3, <2>5, <2>6, <2>7 DEF TagsInv, Working
<1>14. ASSUME NEW outcome, dispatched(outcome) PROVE TagsInv'
  <2>1. PICK d : /\ pc = "handling" /\ pc' # "handling" /\ UNCHANGED outstandingDeferred
                 /\ FrameSent(delivery.tag, d) \/ FrameFails
    BY <1>14 DEF dispatched, handlerReturns
  <2>2. Working => delivery.tag \notin outstandingDeferred
    BY <2>1 DEF TagsInv
  <2> QED BY <2>1, <2>2, TagsFrame, TagsFails
<1>15. ASSUME dispatchDeferred PROVE TagsInv'
  <2>1. /\ pc = "handling" /\ pc' = "pumping"
        /\ outstandingDeferred' = outstandingDeferred \cup {delivery.tag}
        /\ UNCHANGED <<brokerVars, connectionVars>>
    BY <1>15 DEF dispatchDeferred, handlerDefers
  <2>2. channel # "none"
    BY <2>1 DEF TagsInv
  <2>3. DeferredIsUnacked'
    BY <2>1 DEF TagsInv, DeferredIsUnacked, Working, TagsOf
  <2> QED BY <2>1, <2>2, <2>3 DEF TagsInv, Working
<1>16. ASSUME dispatchEscapes PROVE TagsInv'
  BY <1>16, TagsKept DEF dispatchEscapes, handlerThrows, TagsInv
<1>17. ASSUME NEW job, NEW d, push(job, d) PROVE TagsInv'
  BY <1>0, <1>17 DEF push, amqpVars, tagVars
<1>18. ASSUME NEW tag, NEW d, settle(tag, d) PROVE TagsInv'
  <2>1. /\ pc' # "handling" /\ outstandingDeferred' = outstandingDeferred \ {tag}
        /\ FrameSent(tag, d) \/ FrameFails
    BY <1>18 DEF settle
  <2> QED BY <2>1, TagsFrame, TagsFails
<1>19. ASSUME drain PROVE TagsInv'
  BY <1>0, <1>18, <1>19 DEF drain, amqpVars, tagVars
<1>20. CASE UNCHANGED vars
  BY <1>0, <1>20 DEF vars, amqpVars, tagVars
<1>21. CASE Pump
  BY <1>11, <1>12, <1>13, <1>21 DEF Pump
<1>22. CASE Dispatch
  BY <1>14, <1>22 DEF Dispatch
<1> QED BY <1>1, <1>2, <1>3, <1>4, <1>5, <1>6, <1>9, <1>10, <1>15, <1>16, <1>17, <1>19, <1>20,
           <1>21, <1>22, <1>23 DEF Next

LEMMA TagsInit == Init => TagsInv
BY DEF Init, AmqpInit, BrokerInit, TagsInv, DeferredIsUnacked, Working

LEMMA TagsHold == Spec => []TagsInv
<1>1. TypeOK /\ TagsInv /\ [Next]_vars => TagsInv'
  BY TagsStep
<1> QED BY <1>1, TagsInit, WorkerTypeCorrect, PTL DEF Spec

(* settle() never answers the broker with a tag it does not know: while    *)
(* the channel works, every tag held deferred is one the broker waits for  *)
(* on that very channel, whatever was lost, closed or restored before.     *)
THEOREM DeferredTagsAreKnown == Spec => []DeferredIsUnacked
<1>1. TagsInv => DeferredIsUnacked
  BY DEF TagsInv
<1> QED BY <1>1, TagsHold, PTL

LEMMA OwnedStep ==
  ASSUME TypeOK, TagsInv, DeferredIsOwned, [Next]_vars PROVE DeferredIsOwned'
<1> USE TypeParts DEF Quiet, workerVars, pumpVars
<1>1. ASSUME outstandingDeferred' \subseteq outstandingDeferred, UNCHANGED <<settlements, jobs>>
      PROVE  DeferredIsOwned'
  BY <1>1 DEF DeferredIsOwned
<1>2. ASSUME dispatchDeferred PROVE DeferredIsOwned'
  <2> DEFINE job == [tag |-> delivery.tag, id |-> delivery.id, nth |-> stats["received"]]
  <2>1. /\ outstandingDeferred' = outstandingDeferred \cup {delivery.tag}
        /\ jobs' = jobs \cup {job} /\ settlements' = settlements
    BY <1>2 DEF dispatchDeferred, handlerDefers
  <2>2. job.tag = delivery.tag /\ job \in jobs'
    BY <2>1
  <2> HIDE DEF job
  <2> QED BY <2>1, <2>2 DEF DeferredIsOwned
<1>3. ASSUME NEW job \in jobs, NEW d \in Live, push(job, d) PROVE DeferredIsOwned'
  <2>1. /\ settlements' = Append(settlements, <<job.tag, d>>) /\ jobs' = jobs \ {job}
        /\ UNCHANGED outstandingDeferred
    BY <1>3 DEF push, amqpVars
  <2>2. settlements \in Seq(Nat \X Live) /\ job.tag \in Nat
    BY DEF WorkerPart
  <2>3. /\ \A i \in DOMAIN settlements : i \in DOMAIN settlements' /\ settlements'[i] = settlements[i]
        /\ Len(settlements) + 1 \in DOMAIN settlements'
        /\ settlements'[Len(settlements) + 1][1] = job.tag
    BY <2>1, <2>2
  <2> SUFFICES ASSUME NEW tag \in outstandingDeferred
               PROVE  \/ \E j \in jobs' : j.tag = tag
                      \/ \E i \in DOMAIN settlements' : settlements'[i][1] = tag
    BY <2>1 DEF DeferredIsOwned
  <2>4. CASE \E i \in DOMAIN settlements : settlements[i][1] = tag
    BY <2>3, <2>4
  <2>5. ASSUME NEW j \in jobs, j.tag = tag, j # job PROVE j \in jobs'
    BY <2>1, <2>5
  <2>6. CASE job.tag = tag
    BY <2>3, <2>6
  <2> QED BY <2>4, <2>5, <2>6 DEF DeferredIsOwned
<1>4. ASSUME drain PROVE DeferredIsOwned'
  <2> DEFINE tag == Head(settlements)[1]
             d   == Head(settlements)[2]
  <2>1. /\ settlements # <<>> /\ settlements' = Tail(settlements) /\ UNCHANGED jobs
        /\ IF channel # "none" /\ tag \in outstandingDeferred
           THEN settle(tag, d) ELSE UNCHANGED <<amqpVars, decided>>
    BY <1>4 DEF drain
  <2>2. outstandingDeferred' \subseteq outstandingDeferred \ {tag}
    <3>1. CASE channel # "none" /\ tag \in outstandingDeferred
      BY <2>1, <3>1 DEF settle
    <3>2. CASE ~(channel # "none" /\ tag \in outstandingDeferred)
      BY <2>1, <3>2 DEF amqpVars, TagsInv
    <3> QED BY <3>1, <3>2
  <2>3. /\ Len(settlements) \in Nat \ {0} /\ DOMAIN settlements = 1..Len(settlements)
        /\ DOMAIN settlements' = 1..(Len(settlements) - 1)
        /\ \A i \in 1..(Len(settlements) - 1) : settlements'[i] = settlements[i + 1]
        /\ settlements[1][1] = tag
    BY <2>1 DEF WorkerPart
  <2> HIDE DEF tag, d
  <2>4. ASSUME NEW i \in DOMAIN settlements, settlements[i][1] # tag
        PROVE  i - 1 \in DOMAIN settlements' /\ settlements'[i - 1] = settlements[i]
    <3>1. i # 1
      BY <2>3, <2>4
    <3>2. i - 1 \in 1..(Len(settlements) - 1) /\ (i - 1) + 1 = i
      BY <2>3, <3>1
    <3> QED BY <2>3, <3>2
  <2> SUFFICES ASSUME NEW x \in outstandingDeferred, x # tag
               PROVE  \/ \E j \in jobs' : j.tag = x
                      \/ \E i \in DOMAIN settlements' : settlements'[i][1] = x
    BY <2>2 DEF DeferredIsOwned
  <2> QED BY <2>1, <2>4 DEF DeferredIsOwned
<1>5. ASSUME Next, ~dispatchDeferred, ~drain, ~\E job \in jobs, d \in Live : push(job, d)
      PROVE  DeferredIsOwned'
  <2>1. CASE \E t \in Topics : otherWorker(t) /\ Quiet
    BY <1>1, <2>1 DEF otherWorker
  <2>2. CASE \E m \in orphans : brokerReturns(m) /\ Quiet
    BY <1>1, <2>2 DEF brokerReturns
  <2>3. CASE (connectionLost \/ delayElapses \/ setReconnectPolicy \/ close \/ closeThrows)
           /\ Quiet
    BY <1>1, <2>3 DEF connectionLost, delayElapses, setReconnectPolicy, close,
          closeThrows
  <2>4. ASSUME NEW f, connect(f), Quiet PROVE DeferredIsOwned'
    BY <1>1, <2>4 DEF connect
  <2>5. ASSUME NEW t, NEW o, NEW f, ensureTopic(t, o, f), Quiet PROVE DeferredIsOwned'
    BY <1>1, <2>5 DEF ensureTopic
  <2>6. ASSUME NEW t, NEW f, subscribe(t, f), Quiet PROVE DeferredIsOwned'
    BY <1>1, <2>6 DEF subscribe
  <2>7. ASSUME NEW f, pumpOnDead(f) \/ pumpEnds(f), Quiet PROVE DeferredIsOwned'
    BY <1>1, <2>7 DEF pumpOnDead, pumpEnds, serviceReconnect, Attempt
  <2>8. ASSUME pumpBegins \/ readEnds \/ readFails \/ handshakeCompletes, Quiet
        PROVE  DeferredIsOwned'
    BY <1>1, <2>8 DEF pumpBegins, readEnds, readFails, handshakeCompletes
  <2>9. ASSUME NEW c, deliver(c), Quiet PROVE DeferredIsOwned'
    BY <1>1, <2>9 DEF deliver
  <2>10. CASE Pump
    BY <2>7, <2>8, <2>9, <2>10 DEF Pump
  <2>11. CASE Dispatch \/ dispatchEscapes
    BY <1>1, <2>11 DEF Dispatch, dispatched, handlerReturns, dispatchEscapes, handlerThrows
  <2> QED BY <1>5, <2>1, <2>2, <2>3, <2>4, <2>5, <2>6, <2>10, <2>11 DEF Next
<1>6. CASE UNCHANGED vars
  BY <1>1, <1>6 DEF vars, amqpVars
<1> QED BY <1>2, <1>3, <1>4, <1>5, <1>6

(* Nothing is held deferred that nobody will settle: no settlement is      *)
(* dropped while the transport still waits for it.                         *)
THEOREM DeferredTagsAreOwned == Spec => []DeferredIsOwned
<1>1. Init => DeferredIsOwned
  BY DEF Init, AmqpInit, DeferredIsOwned
<1>2. TypeOK /\ TagsInv /\ DeferredIsOwned /\ [Next]_vars => DeferredIsOwned'
  BY OwnedStep
<1> QED BY <1>1, <1>2, TagsHold, WorkerTypeCorrect, PTL DEF Spec

-----------------------------------------------------------------------------
(* Counting and retrying.                                                  *)

(* A step of neither the handler, the settlements, another worker nor a    *)
(* delivery going out or coming back changes no queue, no fate and no      *)
(* counter, and starts no handler.                                         *)
Plain ==
  /\ UNCHANGED <<queue, fate, stats, workerVars>>
  /\ pc = "handling" <=> pc' = "handling"
  /\ pc = "handling" => UNCHANGED delivery

LEMMA PlainSteps ==
  ASSUME [Next]_vars,
         ~\E t \in Topics : otherWorker(t) /\ Quiet,
         ~\E m \in orphans : brokerReturns(m) /\ Quiet,
         ~\E c \in DOMAIN consuming : deliver(c) /\ Quiet,
         ~Dispatch, ~dispatchDeferred, ~dispatchEscapes, ~drain,
         ~\E job \in jobs, d \in Live : push(job, d)
  PROVE  Plain
<1> USE DEF Quiet, pumpVars, brokerVars
<1>1. ASSUME UNCHANGED <<queue, fate, stats, workerVars, pc, delivery>> PROVE Plain
  BY <1>1 DEF Plain
<1>2. CASE UNCHANGED vars
  BY <1>1, <1>2 DEF vars, amqpVars
<1>3. CASE (connectionLost \/ delayElapses \/ setReconnectPolicy \/ close \/ closeThrows)
           /\ Quiet
  BY <1>1, <1>3 DEF connectionLost, delayElapses, setReconnectPolicy, close, closeThrows,
                      ConnectionEnds
<1>4. ASSUME NEW f, connect(f), Quiet PROVE Plain
  BY <1>1, <1>4 DEF connect
<1>5. ASSUME NEW t, NEW o, NEW f, ensureTopic(t, o, f), Quiet PROVE Plain
  BY <1>1, <1>5 DEF ensureTopic, RequestOnDeadConnection
<1>6. ASSUME NEW t, NEW f, subscribe(t, f), Quiet PROVE Plain
  BY <1>1, <1>6 DEF subscribe, RequestOnDeadConnection
<1>7. ASSUME UNCHANGED <<queue, fate, stats, workerVars>>, pc # "handling", pc' # "handling"
      PROVE  Plain
  BY <1>7 DEF Plain
<1>8. ASSUME NEW f, pumpOnDead(f) \/ pumpEnds(f), Quiet PROVE Plain
  BY <1>7, <1>8 DEF pumpOnDead, pumpEnds, serviceReconnect, Attempt, Restore
<1>9. ASSUME pumpBegins \/ readEnds \/ readFails \/ handshakeCompletes, Quiet PROVE Plain
  BY <1>7, <1>9 DEF pumpBegins, readEnds, readFails, handshakeCompletes
<1>10. CASE Pump
  BY <1>8, <1>9, <1>10 DEF Pump
<1> QED BY <1>2, <1>3, <1>4, <1>5, <1>6, <1>10 DEF Next

(* The two ways a disposition is performed: by the handler's return, and   *)
(* by settle().                                                            *)
LEMMA CountersStep ==
  ASSUME TypeOK, CountersAgree, [Next]_vars PROVE CountersAgree'
<1> USE TypeParts DEF Quiet, workerVars, pumpVars
<1>0. /\ stats \in [Counters -> Nat] /\ decided \in [Live -> Nat] /\ unsent \in [Live -> Nat]
      /\ \A e \in Live : e \in Counters /\ decided[e] = stats[e] + unsent[e]
  BY DEF StatsPart, WorkerPart, CountersAgree, Counters, Live
<1>1. ASSUME NEW d \in Live, decided' = [decided EXCEPT ![d] = @ + 1],
             \/ stats' = [stats EXCEPT ![d] = @ + 1] /\ unsent' = unsent
             \/ stats' = stats /\ unsent' = [unsent EXCEPT ![d] = @ + 1]
      PROVE  CountersAgree'
  <2> SUFFICES ASSUME NEW e \in Live PROVE decided'[e] = stats'[e] + unsent'[e]
    BY DEF CountersAgree
  <2> QED BY <1>0, <1>1
<1>2. ASSUME UNCHANGED <<decided, stats, unsent>> PROVE CountersAgree'
  BY <1>2 DEF CountersAgree
<1>3. ASSUME NEW outcome, dispatched(outcome) PROVE CountersAgree'
  <2> DEFINE d == dispatch(delivery.id, outcome, delivery.redelivered)
  <2>1. /\ d \in Live /\ handlerReturns(d) /\ Decide(d)
        /\ unsent' = IF pc' = "idle" THEN [unsent EXCEPT ![d] = @ + 1] ELSE unsent
    BY <1>3 DEF dispatched
  <2> HIDE DEF d
  <2>2. \/ stats' = [stats EXCEPT ![d] = @ + 1] /\ unsent' = unsent
        \/ stats' = stats /\ unsent' = [unsent EXCEPT ![d] = @ + 1]
    BY <2>1 DEF handlerReturns, Count
  <2> QED BY <1>1, <2>1, <2>2 DEF Decide
<1>4. ASSUME drain PROVE CountersAgree'
  <2> DEFINE tag == Head(settlements)[1]
             d   == Head(settlements)[2]
  <2>1. Head(settlements) \in Nat \X Live
    BY <1>4 DEF drain, WorkerPart
  <2>2. d \in Live
    BY <2>1
  <2>3. UNCHANGED unsent
    BY <1>4 DEF drain
  <2>4. CASE channel # "none" /\ tag \in outstandingDeferred
    <3>1. settle(tag, d) /\ (IF stats' = stats THEN UNCHANGED decided ELSE Decide(d))
      BY <1>4, <2>4 DEF drain
    <3> HIDE DEF tag, d
    <3>2. stats' = stats \/ stats' = [stats EXCEPT ![d] = @ + 1]
      BY <3>1 DEF settle, Count
    <3>3. CASE stats' = stats
      BY <1>2, <2>3, <3>1, <3>3
    <3>4. CASE stats' # stats
      BY <1>1, <2>2, <2>3, <3>1, <3>2, <3>4 DEF Decide
    <3> QED BY <3>3, <3>4
  <2>5. CASE ~(channel # "none" /\ tag \in outstandingDeferred)
    BY <1>2, <1>4, <2>3, <2>5 DEF drain, amqpVars
  <2> QED BY <2>4, <2>5
<1>5. ASSUME NEW c, deliver(c), Quiet PROVE CountersAgree'
  <2>1. stats' = [stats EXCEPT !["received"] = @ + 1] /\ UNCHANGED <<decided, unsent>>
    BY <1>5 DEF deliver, Count
  <2>2. \A e \in Live : stats'[e] = stats[e]
    BY <1>0, <2>1 DEF Live, Counters
  <2> QED BY <2>1, <2>2 DEF CountersAgree
<1>6. CASE \E t \in Topics : otherWorker(t) /\ Quiet
  BY <1>2, <1>6 DEF otherWorker
<1>7. CASE \E m \in orphans : brokerReturns(m) /\ Quiet
  BY <1>2, <1>7 DEF brokerReturns
<1>8. CASE dispatchDeferred \/ dispatchEscapes
  BY <1>2, <1>8 DEF dispatchDeferred, handlerDefers, dispatchEscapes, handlerThrows
<1>9. CASE \E job \in jobs, d \in Live : push(job, d)
  BY <1>2, <1>9 DEF push, amqpVars
<1>10. CASE Plain
  BY <1>2, <1>10 DEF Plain
<1>11. CASE Dispatch
  BY <1>3, <1>11 DEF Dispatch
<1> QED BY <1>4, <1>5, <1>6, <1>7, <1>8, <1>9, <1>10, <1>11, PlainSteps

(* The Consumer's counters and the transport's differ by exactly the       *)
(* dispositions whose frame threw on its way out.                          *)
THEOREM WorkerCountersAgree == Spec => []CountersAgree
<1>1. Init => CountersAgree
  BY DEF Init, AmqpInit, CountersAgree, Live
<1>2. TypeOK /\ CountersAgree /\ [Next]_vars => CountersAgree'
  BY CountersStep
<1> QED BY <1>1, <1>2, WorkerTypeCorrect, PTL DEF Spec

UntriedInv == Untried(queue, FreshIn(pc = "handling", delivery), retried)

LEMMA UntriedStep ==
  ASSUME TypeOK, UntriedInv, [Next]_vars PROVE UntriedInv'
<1> USE TypeParts
<1> DEFINE held == FreshIn(pc = "handling", delivery)
<1>0. queue \in [Topics -> Seq(Messages)] /\ retried \in [Ids -> Nat]
  BY DEF BrokerTypeOK, WorkerPart
<1> USE DEF Quiet, workerVars, pumpVars
<1>1. ASSUME NEW t \in Topics, otherWorker(t), Quiet PROVE UntriedInv'
  <2>1. queue[t] # <<>> /\ queue' = [queue EXCEPT ![t] = Tail(@)]
    BY <1>1 DEF otherWorker, OtherWorkerTakes
  <2>2. UNCHANGED <<pc, delivery, retried>>
    BY <1>1 DEF otherWorker
  <2>3. Untried([queue EXCEPT ![t] = Tail(@)], held \cup {}, retried)
    BY <1>0, <2>1, UntriedTaken DEF UntriedInv
  <2>4. held \cup {} = held
    OBVIOUS
  <2> QED BY <2>1, <2>2, <2>3, <2>4 DEF UntriedInv
<1>2. ASSUME NEW m \in orphans, brokerReturns(m), Quiet PROVE UntriedInv'
  <2>1. queue' = ReturnTo(queue, m) /\ UNCHANGED <<pc, delivery, retried>>
    BY <1>2 DEF brokerReturns, OrphanReturns
  <2>2. m.topic \in Topics /\ m.id \in Ids
    BY DEF BrokerTypeOK
  <2>3. Untried(ReturnTo(queue, m), held, retried)
    BY <1>0, <2>2, UntriedReturn DEF UntriedInv
  <2> QED BY <2>1, <2>3 DEF UntriedInv
<1>3. ASSUME NEW c \in DOMAIN consuming, deliver(c), Quiet PROVE UntriedInv'
  <2> DEFINE t == consuming[c]
  <2>2. /\ t \in Topics /\ NextDelivery(c).id = Head(queue[t]).id
        /\ NextDelivery(c).redelivered = Head(queue[t]).redelivered
    BY <1>3, DeliveryType DEF deliver, BrokerDelivers
  <2>3. /\ pc = "pumping" /\ pc' = "handling" /\ delivery' = NextDelivery(c)
        /\ queue[t] # <<>> /\ queue' = [queue EXCEPT ![t] = Tail(@)] /\ retried' = retried
    BY <1>3 DEF deliver, BrokerDelivers
  <2> HIDE DEF t
  <2>4. Untried(queue, {}, retried)
    BY <2>3 DEF UntriedInv, FreshIn
  <2>5. CASE Head(queue[t]).redelivered
    <3>1. Untried([queue EXCEPT ![t] = Tail(@)], {} \cup {}, retried)
      BY <1>0, <2>2, <2>3, <2>4, UntriedTaken
    <3>2. FreshIn(TRUE, NextDelivery(c)) = {} \cup {}
      BY <2>2, <2>5 DEF FreshIn
    <3> QED BY <2>3, <3>1, <3>2 DEF UntriedInv
  <2>6. CASE ~Head(queue[t]).redelivered
    <3> DEFINE more == {Head(queue[t]).id}
    <3>1. Untried([queue EXCEPT ![t] = Tail(@)], {} \cup more, retried)
      BY <1>0, <2>2, <2>3, <2>4, <2>6, UntriedTaken
    <3>2. FreshIn(TRUE, NextDelivery(c)) = {} \cup more
      BY <2>2, <2>6 DEF FreshIn
    <3> QED BY <2>3, <3>1, <3>2 DEF UntriedInv
  <2> QED BY <2>5, <2>6
<1>4. ASSUME NEW tag, NEW d, FrameSent(tag, d) \/ FrameFails, pc' # "handling",
             Untried(queue, {}, retried')
      PROVE  UntriedInv'
  <2>1. queue' = queue \/ \E u \in unacked : queue' = ReturnTo(queue, u)
    BY <1>4, FrameEffect DEF FrameFails, BrokerResolves, brokerVars
  <2>2. ASSUME NEW u \in unacked PROVE u.topic \in Topics /\ u.id \in Ids
    BY DEF BrokerTypeOK
  <2>3. Untried(queue', {}, retried')
    BY <1>0, <1>4, <2>1, <2>2, UntriedReturn
  <2> QED BY <1>4, <2>3 DEF UntriedInv, FreshIn
<1>5. ASSUME NEW outcome, dispatched(outcome) PROVE UntriedInv'
  <2> DEFINE d == dispatch(delivery.id, outcome, delivery.redelivered)
             again == d = "Requeue" /\ outcome = "TransientFailure"
  <2>1. again => ~delivery.redelivered
    BY DispatchRetry
  <2>2. /\ pc = "handling" /\ pc' # "handling"
        /\ FrameSent(delivery.tag, d) \/ FrameFails
        /\ retried' = IF again THEN [retried EXCEPT ![delivery.id] = @ + 1] ELSE retried
    BY <1>5 DEF dispatched, handlerReturns
  <2>3. delivery.id \in Ids
    BY <2>2 DEF HandlerPart, Deliveries
  <2> HIDE DEF again, d
  <2>4. Untried(queue, {}, retried')
    <3>1. CASE again
      <4>1. Untried(queue, {delivery.id}, retried)
        BY <2>1, <2>2, <3>1 DEF UntriedInv, FreshIn
      <4> QED BY <1>0, <2>2, <2>3, <3>1, <4>1, UntriedRetry
    <3>2. CASE ~again
      BY <2>2, <3>2, UntriedLess DEF UntriedInv
    <3> QED BY <3>1, <3>2
  <2> QED BY <1>4, <2>2, <2>4
<1>6. ASSUME UNCHANGED <<queue, retried>>, pc' # "handling" PROVE UntriedInv'
  <2>1. Untried(queue, {}, retried)
    BY UntriedLess DEF UntriedInv
  <2> QED BY <1>6, <2>1 DEF UntriedInv, FreshIn
<1>7. ASSUME drain PROVE UntriedInv'
  <2>1. pc' # "handling" /\ UNCHANGED retried
    BY <1>7 DEF drain, settle, amqpVars
  <2>2. Untried(queue, {}, retried')
    BY <2>1, UntriedLess DEF UntriedInv
  <2>3. CASE UNCHANGED amqpVars
    BY <1>6, <2>1, <2>3 DEF amqpVars, brokerVars
  <2>4. ASSUME NEW tag, NEW d, settle(tag, d) PROVE UntriedInv'
    BY <1>4, <2>1, <2>2, <2>4 DEF settle
  <2> QED BY <1>7, <2>3, <2>4 DEF drain
<1>8. CASE dispatchDeferred \/ dispatchEscapes
  BY <1>6, <1>8 DEF dispatchDeferred, handlerDefers, dispatchEscapes, handlerThrows, brokerVars
<1>9. CASE \E job \in jobs, d \in Live : push(job, d)
  BY <1>9 DEF push, amqpVars, brokerVars, UntriedInv
<1>10. CASE Plain
  BY <1>10 DEF Plain, UntriedInv, FreshIn
<1>11. CASE Dispatch
  BY <1>5, <1>11 DEF Dispatch
<1> QED BY <1>1, <1>2, <1>3, <1>7, <1>8, <1>9, <1>10, <1>11, PlainSteps

(* dispatch() retries each message at most once, with nothing to go by but *)
(* the redelivered flag: across losses, reconnections, deferred answers    *)
(* and frames that never arrived.                                          *)
THEOREM WorkerRetriedOnce == Spec => []RetriedOnce
<1>1. Init => UntriedInv
  <2> SUFFICES ASSUME Init PROVE UntriedInv
    OBVIOUS
  <2>1. retried = [i \in Ids |-> 0] /\ FreshIn(pc = "handling", delivery) = {}
    BY DEF Init, AmqpInit, FreshIn
  <2>2. Untried(queue, {}, [i \in Ids |-> 0])
    BY UntriedInit DEF Init, AmqpInit
  <2> QED BY <2>1, <2>2 DEF UntriedInv
<1>2. TypeOK /\ UntriedInv /\ [Next]_vars => UntriedInv'
  BY UntriedStep
<1>3. UntriedInv => RetriedOnce
  BY DEF UntriedInv, Untried, RetriedOnce
<1> QED BY <1>1, <1>2, <1>3, WorkerTypeCorrect, PTL DEF Spec

-----------------------------------------------------------------------------
(* What the broker resolved.                                               *)

Resolved(f, x) == {i \in Ids : f[i] = x}

LEMMA ResolvedFinite ==
  ASSUME NEW f, NEW x
  PROVE  IsFiniteSet(Resolved(f, x)) /\ Cardinality(Resolved(f, x)) \in Nat
<1>1. IsFiniteSet(Ids)
  BY FS_Interval, AttemptsAssumption DEF Ids
<1>2. Resolved(f, x) \subseteq Ids
  BY DEF Resolved
<1> QED BY <1>1, <1>2, FS_Subset, FS_CardinalityType

(* One message more has met its fate, if its fate is x; otherwise none. *)
LEMMA ResolvedGrows ==
  ASSUME NEW f, NEW g, NEW x, NEW i, Resolved(g, x) \subseteq Resolved(f, x) \cup {i}
  PROVE  Cardinality(Resolved(g, x)) <= Cardinality(Resolved(f, x)) + 1
<1> DEFINE F == Resolved(f, x)
           G == Resolved(g, x)
<1>1. /\ IsFiniteSet(F) /\ Cardinality(F) \in Nat
      /\ IsFiniteSet(G) /\ Cardinality(G) \in Nat
  BY ResolvedFinite
<1> HIDE DEF F, G
<1>2. /\ IsFiniteSet(F \cup {i})
      /\ Cardinality(F \cup {i}) = Cardinality(F) \/ Cardinality(F \cup {i}) = Cardinality(F) + 1
  BY <1>1, FS_AddElement
<1>3. G \subseteq F \cup {i}
  BY DEF F, G
<1>4. Cardinality(G) <= Cardinality(F \cup {i})
  BY <1>2, <1>3, FS_Subset
<1> QED BY <1>1, <1>2, <1>4 DEF F, G

LEMMA ResolvedShrinks ==
  ASSUME NEW f, NEW g, NEW x, Resolved(g, x) \subseteq Resolved(f, x)
  PROVE  Cardinality(Resolved(g, x)) <= Cardinality(Resolved(f, x))
BY ResolvedFinite, FS_Subset

LEMMA CountedStep ==
  ASSUME TypeOK, CountedIfResolved, [Next]_vars PROVE CountedIfResolved'
<1> USE TypeParts DEF Quiet, workerVars, pumpVars
<1> DEFINE Acked == Cardinality(Resolved(fate, "acked"))
           Dead  == Cardinality(Resolved(fate, "dead"))
<1>0. /\ stats \in [Counters -> Nat] /\ fate \in [Ids -> {"none", "acked", "dead", "other"}]
      /\ stats["Ack"] \in Nat /\ stats["Reject"] \in Nat
      /\ Acked \in Nat /\ Dead \in Nat
  BY ResolvedFinite DEF StatsPart, BrokerTypeOK, Counters
<1>1. Acked <= stats["Ack"] /\ Dead <= stats["Reject"]
  BY DEF CountedIfResolved, Resolved
<1>2. SUFFICES /\ Cardinality(Resolved(fate', "acked")) <= stats'["Ack"]
               /\ Cardinality(Resolved(fate', "dead")) <= stats'["Reject"]
  BY DEF CountedIfResolved, Resolved
<1> DEFINE Goal == /\ Cardinality(Resolved(fate', "acked")) <= stats'["Ack"]
                   /\ Cardinality(Resolved(fate', "dead")) <= stats'["Reject"]
<1>x. Cardinality(Resolved(fate', "acked")) \in Nat /\ Cardinality(Resolved(fate', "dead")) \in Nat
  BY ResolvedFinite
<1>3. ASSUME stats'["Ack"] = stats["Ack"], stats'["Reject"] = stats["Reject"], fate' = fate
      PROVE  Goal
  BY <1>1, <1>3
<1>4. ASSUME NEW t \in Topics, otherWorker(t) PROVE Goal
  <2>1. fate' = [fate EXCEPT ![Head(queue[t]).id] = "other"] /\ stats' = stats
    BY <1>4 DEF otherWorker, OtherWorkerTakes
  <2>2. /\ Resolved(fate', "acked") \subseteq Resolved(fate, "acked")
        /\ Resolved(fate', "dead") \subseteq Resolved(fate, "dead")
    BY <1>0, <2>1 DEF Resolved
  <2>3. /\ Cardinality(Resolved(fate', "acked")) <= Acked
        /\ Cardinality(Resolved(fate', "dead")) <= Dead
    BY <2>2, ResolvedShrinks
  <2> HIDE DEF Acked, Dead
  <2> QED BY <1>0, <1>1, <1>x, <2>1, <2>3
<1>5. ASSUME NEW tag, NEW d \in Live, FrameSent(tag, d), Count(d) PROVE Goal
  <2>0. stats' = [stats EXCEPT ![d] = @ + 1]
    BY <1>5 DEF Count
  <2>1. /\ stats'["Ack"] = IF d = "Ack" THEN stats["Ack"] + 1 ELSE stats["Ack"]
        /\ stats'["Reject"] = IF d = "Reject" THEN stats["Reject"] + 1 ELSE stats["Reject"]
    BY <1>0, <2>0 DEF Counters
  <2>2. \/ fate' = fate
        \/ \E u \in unacked : BrokerResolves(u, d)
    BY <1>5, FrameEffect
  <2>3. CASE fate' = fate
    <3> HIDE DEF Acked, Dead
    <3>1. Cardinality(Resolved(fate', "acked")) = Acked /\ Cardinality(Resolved(fate', "dead")) = Dead
      BY <2>3 DEF Acked, Dead
    <3> QED BY <1>0, <1>1, <2>1, <3>1
  <2>4. ASSUME NEW u \in unacked, BrokerResolves(u, d) PROVE Goal
    <3>1. CASE d = "Ack"
      <4>1. fate' = [fate EXCEPT ![u.id] = "acked"]
        BY <2>4, <3>1 DEF BrokerResolves
      <4>2. /\ Resolved(fate', "acked") \subseteq Resolved(fate, "acked") \cup {u.id}
            /\ Resolved(fate', "dead") \subseteq Resolved(fate, "dead")
        BY <1>0, <4>1 DEF Resolved
      <4>3. /\ Cardinality(Resolved(fate', "acked")) <= Acked + 1
            /\ Cardinality(Resolved(fate', "dead")) <= Dead
        BY <4>2, ResolvedGrows, ResolvedShrinks
      <4> HIDE DEF Acked, Dead
      <4> QED BY <1>0, <1>1, <1>x, <2>1, <3>1, <4>3
    <3>2. CASE d = "Reject"
      <4>1. fate' = [fate EXCEPT ![u.id] = "dead"]
        BY <2>4, <3>2 DEF BrokerResolves
      <4>2. /\ Resolved(fate', "dead") \subseteq Resolved(fate, "dead") \cup {u.id}
            /\ Resolved(fate', "acked") \subseteq Resolved(fate, "acked")
        BY <1>0, <4>1 DEF Resolved
      <4>3. /\ Cardinality(Resolved(fate', "dead")) <= Dead + 1
            /\ Cardinality(Resolved(fate', "acked")) <= Acked
        BY <4>2, ResolvedGrows, ResolvedShrinks
      <4> HIDE DEF Acked, Dead
      <4> QED BY <1>0, <1>1, <1>x, <2>1, <3>2, <4>3
    <3>3. CASE d = "Requeue"
      <4>1. fate' = fate
        BY <2>4, <3>3 DEF BrokerResolves
      <4> QED BY <2>3, <4>1
    <3> QED BY <3>1, <3>2, <3>3 DEF Live
  <2> QED BY <2>2, <2>3, <2>4
<1> HIDE DEF Goal
<1>6. ASSUME NEW outcome, dispatched(outcome) PROVE Goal
  <2>1. PICK d \in Live : handlerReturns(d)
    BY <1>6 DEF dispatched
  <2>2. CASE FrameFails /\ UNCHANGED stats
    BY <1>3, <2>2 DEF FrameFails, brokerVars
  <2> QED BY <1>5, <2>1, <2>2 DEF handlerReturns
<1>7. ASSUME drain PROVE Goal
  <2> DEFINE tag == Head(settlements)[1]
             d   == Head(settlements)[2]
  <2>1. Head(settlements) \in Nat \X Live
    BY <1>7 DEF drain, WorkerPart
  <2>2. d \in Live
    BY <2>1
  <2>3. settle(tag, d) \/ UNCHANGED amqpVars
    BY <1>7 DEF drain
  <2> HIDE DEF tag, d
  <2>4. CASE UNCHANGED amqpVars
    BY <1>3, <2>4 DEF amqpVars, brokerVars
  <2>5. CASE FrameFails /\ UNCHANGED stats
    BY <1>3, <2>5 DEF FrameFails, brokerVars
  <2> QED BY <1>5, <2>2, <2>3, <2>4, <2>5 DEF settle
<1>8. ASSUME NEW c, deliver(c) PROVE Goal
  <2>1. stats' = [stats EXCEPT !["received"] = @ + 1] /\ UNCHANGED fate
    BY <1>8 DEF deliver, Count, BrokerDelivers
  <2>2. stats'["Ack"] = stats["Ack"] /\ stats'["Reject"] = stats["Reject"]
    BY <1>0, <2>1 DEF Counters
  <2> QED BY <1>3, <2>1, <2>2
<1>9. ASSUME \E m \in orphans : brokerReturns(m) /\ Quiet PROVE Goal
  BY <1>3, <1>9 DEF brokerReturns, OrphanReturns
<1>10. ASSUME dispatchDeferred \/ dispatchEscapes PROVE Goal
  BY <1>3, <1>10 DEF dispatchDeferred, handlerDefers, dispatchEscapes, handlerThrows, brokerVars
<1>11. ASSUME \E job \in jobs, d \in Live : push(job, d) PROVE Goal
  BY <1>3, <1>11 DEF push, amqpVars, brokerVars
<1>12. ASSUME Plain PROVE Goal
  BY <1>3, <1>12 DEF Plain
<1>13. ASSUME Dispatch PROVE Goal
  BY <1>6, <1>13 DEF Dispatch
<1>14. Goal
  BY <1>4, <1>7, <1>8, <1>9, <1>10, <1>11, <1>12, <1>13, PlainSteps
<1> QED BY <1>14 DEF Goal

(* The transport's counters never claim less than the broker resolved, for *)
(* any number of messages, losses and late settlements.                    *)
THEOREM ResolvedIsCounted == Spec => []CountedIfResolved
<1>1. Init => CountedIfResolved
  <2> SUFFICES ASSUME Init PROVE CountedIfResolved
    OBVIOUS
  <2>1. {i \in Ids : fate[i] = "acked"} = {} /\ {i \in Ids : fate[i] = "dead"} = {}
    BY DEF Init, AmqpInit, BrokerInit
  <2>2. stats["Ack"] = 0 /\ stats["Reject"] = 0
    BY DEF Init, AmqpInit
  <2>3. Cardinality({}) = 0
    BY FS_EmptySet
  <2>4. /\ Cardinality({i \in Ids : fate[i] = "acked"}) = 0
        /\ Cardinality({i \in Ids : fate[i] = "dead"}) = 0
    BY <2>1, <2>3
  <2> QED BY <2>2, <2>4 DEF CountedIfResolved
<1>2. TypeOK /\ CountedIfResolved /\ [Next]_vars => CountedIfResolved'
  BY CountedStep
<1> QED BY <1>1, <1>2, WorkerTypeCorrect, PTL DEF Spec

-----------------------------------------------------------------------------
(* Reporting.                                                              *)

(* With a reconnection policy enabled pump() turns its answer to false     *)
(* only in a call that finds every attempt made: not in the call that      *)
(* notices the loss, and not between two attempts.                         *)
THEOREM WorkerNotDeadWhileTrying == Spec => NotDeadWhileTrying
<1>1. ASSUME [Next]_vars, enabled, answer # "false", answer' = "false"
      PROVE  failedAttempts >= maxAttempts
  <2> USE <1>1 DEF pumpVars
  <2>1. CASE UNCHANGED vars
    BY <2>1 DEF vars, amqpVars
  <2>2. CASE \E t \in Topics : otherWorker(t) /\ Quiet
    BY <2>2 DEF otherWorker
  <2>3. CASE \E m \in orphans : brokerReturns(m) /\ Quiet
    BY <2>3 DEF brokerReturns
  <2>4. CASE connectionLost \/ delayElapses \/ setReconnectPolicy \/ close \/ closeThrows
    BY <2>4 DEF connectionLost, delayElapses, setReconnectPolicy, close,
          closeThrows
  <2>5. ASSUME NEW t, NEW o, NEW f, ensureTopic(t, o, f) \/ subscribe(t, f) \/ connect(f)
        PROVE  FALSE
    BY <2>5 DEF ensureTopic, subscribe, connect
  <2>6. ASSUME NEW f, pumpOnDead(f) \/ pumpEnds(f) PROVE Exhausted
    BY <2>6 DEF pumpOnDead, pumpEnds, serviceReconnect
  <2>7. CASE Pump
    <3>1. ASSUME NEW c, deliver(c) PROVE FALSE
      BY <3>1 DEF deliver
    <3> QED BY <2>6, <2>7, <3>1 DEF Pump, pumpBegins, readEnds, readFails, handshakeCompletes,
                                    Exhausted
  <2>8. CASE Dispatch
    <3>1. PICK outcome : dispatched(outcome)
      BY <2>8 DEF Dispatch
    <3>2. answer' \in {answer, "threw"}
      BY <3>1 DEF dispatched, handlerReturns
    <3> QED BY <3>2
  <2>9. CASE dispatchDeferred \/ dispatchEscapes
    BY <2>9 DEF dispatchDeferred, handlerDefers, dispatchEscapes, handlerThrows
  <2>10. CASE \E job \in jobs, d \in Live : push(job, d)
    BY <2>10 DEF push, amqpVars
  <2>11. CASE drain
    BY <2>11 DEF drain, settle, amqpVars
  <2>12. CASE \E t \in Topics, o \in Options, f \in (Faults \cap {"declareTimeout"}) \cup {NoFault} :
                ensureTopic(t, o, f) /\ Quiet
    BY <2>5, <2>12
  <2> QED BY <2>1, <2>2, <2>3, <2>4, <2>5, <2>7, <2>8, <2>9, <2>10, <2>11, <2>12 DEF Next
<1>2. [Next]_vars =>
        [enabled /\ answer # "false" /\ answer' = "false" => failedAttempts >= maxAttempts]_vars
  BY <1>1
<1> QED BY <1>2, PTL DEF Spec, NotDeadWhileTrying

=============================================================================
