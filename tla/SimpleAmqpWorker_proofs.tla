----------------------- MODULE SimpleAmqpWorker_proofs -----------------------
(***************************************************************************)
(* Proofs about a worker on SimpleAmqpTransport, for every number of       *)
(* topics, ways of declaring them, messages, deliveries, losses and        *)
(* reconnection attempts.                                                  *)
(***************************************************************************)
EXTENDS SimpleAmqpWorker, AmqpBroker_proofs

LinkPart ==
  /\ link \in {"none", "up", "down"}
  /\ connected \in BOOLEAN /\ (connected => link # "none")

DeclaredPart ==
  /\ topic \in Topics \cup {NoTopic}
  /\ topicOptions \in Options \cup {NoOptions}
  /\ topicDeclared \in BOOLEAN /\ subscribed \in BOOLEAN
  /\ topicDeclared => topic \in Topics /\ topicOptions \in Options
  /\ subscribed => topic \in Topics

ReconnectPart ==
  /\ enabled \in BOOLEAN /\ backingOff \in BOOLEAN
  /\ failedAttempts \in 0..maxAttempts

Counters == Live \cup {"received", "abandoned"}

HandlerPart ==
  /\ pc \in {"idle", "handling"}
  /\ IF pc = "handling" THEN delivery \in Deliveries ELSE delivery = NoDelivery
  /\ answer \in {"true", "false", "threw"}

WorkerPart ==
  /\ decided \in [Live -> Nat]
  /\ retried \in [Ids -> Nat]
  /\ finished \subseteq Ids
  /\ unsent \in [Live -> Nat]

StatsPart == stats \in [Counters -> Nat]

LEMMA TypeParts ==
  TypeOK <=> /\ BrokerTypeOK /\ LinkPart /\ DeclaredPart /\ ReconnectPart
             /\ StatsPart /\ HandlerPart /\ WorkerPart
BY DEF TypeOK, LinkPart, DeclaredPart, ReconnectPart, StatsPart, HandlerPart, WorkerPart,
       Counters, Deliveries

LEMMA TypePartsPrimed ==
  TypeOK' <=> /\ BrokerTypeOK' /\ LinkPart' /\ DeclaredPart' /\ ReconnectPart'
              /\ StatsPart' /\ HandlerPart' /\ WorkerPart'
BY TypeParts, PTL

-----------------------------------------------------------------------------
(* Types.                                                                  *)

LEMMA RefusedTypes ==
  ASSUME BrokerTypeOK, RequestRefused PROVE BrokerTypeOK'
<1>1. CASE BrokerClosesChannel
  BY <1>1, ClosesTypes DEF RequestRefused, BrokerTypeOK
<1>2. CASE UNCHANGED <<consuming, orphans, unacked>>
  BY <1>2 DEF RequestRefused, BrokerTypeOK
<1> QED BY <1>1, <1>2 DEF RequestRefused

(* The disposition dispatch() computes is one the transport can perform,   *)
(* and only what never came back is requeued.                              *)
LEMMA DispatchLive ==
  ASSUME NEW body, NEW outcome \in OutcomesOf("onMessage") \ {"escapes"}, NEW redelivered
  PROVE  /\ dispatch(body, outcome, redelivered) \in Live
         /\ dispatch(body, outcome, redelivered) = "Requeue" => ~redelivered
BY DEF dispatch, classifyTransient, OutcomesOf, Live

LEMMA FrameTypes ==
  ASSUME BrokerTypeOK, NEW u \in Deliveries, NEW d \in Live, FrameSent(u, d)
  PROVE  BrokerTypeOK'
<1>1. CASE link = "up"
  BY <1>1, ResolvesTypes DEF FrameSent
<1>2. CASE link # "up"
  BY <1>2 DEF FrameSent, BrokerTypeOK
<1> QED BY <1>1, <1>2

LEMMA AttemptTypes ==
  ASSUME TypeOK, NEW opened \in BOOLEAN, NEW alive \in BOOLEAN, Attempt(opened, alive),
         ~Exhausted, declaredVars' = declaredVars
  PROVE  BrokerTypeOK' /\ LinkPart' /\ ReconnectPart'
<1> USE TypeParts
<1> DEFINE redeclared == topicDeclared => Agrees(topic, topicOptions)
           exists     == topicDeclared \/ Exists(topic)
           restored   == opened /\ alive /\ redeclared /\ (subscribed => exists)
           performed  == IF topicDeclared /\ redeclared
                         THEN [declaredAs EXCEPT ![topic] = topicOptions] ELSE declaredAs
<1>1. /\ link' = IF ~opened THEN "none" ELSE IF alive THEN "up" ELSE "down"
      /\ connected' = restored
      /\ declaredAs' \in {declaredAs, performed}
      /\ consuming' = ConsumersAfter(restored)
      /\ orphans' = orphans \cup OrphansOf(unacked)
      /\ unacked' = {}
      /\ nextTag' = 1
      /\ failedAttempts' = IF restored THEN 0 ELSE failedAttempts + 1
      /\ backingOff' = ~restored
      /\ UNCHANGED <<queue, fate, losses, enabled>>
  BY DEF Attempt
<1>2. restored \in BOOLEAN /\ (restored => opened)
  OBVIOUS
<1>3. declaredAs' \in [Topics -> Options \cup {NoOptions}]
  <2>1. declaredAs \in [Topics -> Options \cup {NoOptions}]
    BY DEF BrokerTypeOK
  <2>2. performed \in [Topics -> Options \cup {NoOptions}]
    BY <2>1 DEF DeclaredPart
  <2> HIDE DEF performed
  <2> QED BY <1>1, <2>1, <2>2
<1> HIDE DEF restored, performed, redeclared
<1>4. consuming' \in Seq(Topics)
  BY <1>1 DEF ConsumersAfter, DeclaredPart
<1>5. orphans' \subseteq [id : Ids, topic : Topics]
  BY <1>1, OrphanTypes DEF BrokerTypeOK, Deliveries
<1>6. BrokerTypeOK'
  BY <1>1, <1>3, <1>4, <1>5 DEF BrokerTypeOK
<1>7. LinkPart'
  BY <1>1, <1>2 DEF LinkPart
<1>8. failedAttempts' \in 0..maxAttempts
  BY <1>1, AttemptsAssumption DEF ReconnectPart, Exhausted
<1>9. ReconnectPart'
  BY <1>1, <1>2, <1>8 DEF ReconnectPart
<1> QED BY <1>6, <1>7, <1>9

(* What pump() does about a connection that is lost. *)
LEMMA LostTypes ==
  ASSUME TypeOK, Lost, UNCHANGED workerVars
  PROVE  TypeOK'
<1> USE TypeParts
<1>1. UNCHANGED <<declaredVars, stats, pc, delivery>> /\ answer' \in {"true", "false"}
  BY DEF Lost, serviceReconnect, GivesUp
<1>2. DeclaredPart' /\ StatsPart' /\ HandlerPart' /\ WorkerPart'
  BY <1>1 DEF DeclaredPart, StatsPart, HandlerPart, WorkerPart, declaredVars, workerVars
<1>3. BrokerTypeOK' /\ LinkPart' /\ ReconnectPart'
  <2>1. CASE enabled /\ ~(Exhausted \/ backingOff)
    <3>1. PICK opened \in BOOLEAN, alive \in BOOLEAN : Attempt(opened, alive)
      BY <2>1 DEF Lost, serviceReconnect
    <3> QED BY <1>1, <2>1, <3>1, AttemptTypes
  <2>2. CASE ~enabled \/ Exhausted \/ backingOff
    <3>1. UNCHANGED <<brokerVars, link, reconnectVars>> /\ connected' = FALSE
      BY <2>2 DEF Lost, serviceReconnect, GivesUp
    <3>2. BrokerTypeOK'
      BY <3>1, BrokerKept
    <3> QED BY <3>1, <3>2 DEF LinkPart, ReconnectPart, reconnectVars
  <2> QED BY <2>1, <2>2
<1> QED BY <1>2, <1>3, TypePartsPrimed

LEMMA HandlerTypes ==
  ASSUME TypeOK, NEW d \in Live, handlerReturns(d)
  PROVE  /\ BrokerTypeOK' /\ LinkPart' /\ DeclaredPart' /\ ReconnectPart' /\ StatsPart'
         /\ HandlerPart'
<1> USE TypeParts
<1>1. delivery \in Deliveries
  BY DEF HandlerPart, handlerReturns
<1>2. BrokerTypeOK'
  BY <1>1, FrameTypes, BrokerKept DEF handlerReturns
<1>3. StatsPart'
  BY DEF StatsPart, handlerReturns, Count, Counters
<1>4. LinkPart' /\ DeclaredPart' /\ ReconnectPart'
  BY DEF LinkPart, DeclaredPart, ReconnectPart, handlerReturns, linkVars, declaredVars,
         reconnectVars
<1>5. HandlerPart'
  BY DEF HandlerPart, handlerReturns
<1> QED BY <1>2, <1>3, <1>4, <1>5

LEMMA DispatchTypes ==
  ASSUME TypeOK, NEW outcome \in OutcomesOf("onMessage") \ {"escapes"}, dispatched(outcome)
  PROVE  TypeOK'
<1> USE TypeParts
<1> DEFINE d == dispatch(delivery.id, outcome, delivery.redelivered)
<1>1. d \in Live
  BY DispatchLive
<1>2. /\ pc = "handling" /\ handlerReturns(d)
      /\ decided' = [decided EXCEPT ![d] = @ + 1]
      /\ retried' = IF d = "Requeue" THEN [retried EXCEPT ![delivery.id] = @ + 1] ELSE retried
      /\ finished' = IF d = "Ack" THEN finished \cup {delivery.id} ELSE finished
      /\ unsent' = IF answer' = "threw" THEN [unsent EXCEPT ![d] = @ + 1] ELSE unsent
  BY DEF dispatched
<1> HIDE DEF d
<1>3. delivery.id \in Ids
  BY <1>2 DEF HandlerPart, Deliveries
<1>4. WorkerPart'
  BY <1>1, <1>2, <1>3 DEF WorkerPart
<1> QED BY <1>1, <1>2, <1>4, HandlerTypes, TypePartsPrimed

LEMMA InitTypes == Init => TypeOK
<1> SUFFICES ASSUME Init PROVE TypeOK
  OBVIOUS
<1>1. BrokerTypeOK
  BY BrokerInitTypes DEF Init, SimpleInit
<1>2. LinkPart /\ DeclaredPart /\ HandlerPart
  BY DEF Init, SimpleInit, LinkPart, DeclaredPart, HandlerPart
<1>3. ReconnectPart
  <2>1. failedAttempts \in 0..maxAttempts
    BY AttemptsAssumption DEF Init, SimpleInit
  <2> QED BY <2>1 DEF Init, SimpleInit, ReconnectPart
<1>4. StatsPart /\ WorkerPart
  BY DEF Init, SimpleInit, StatsPart, WorkerPart, Counters
<1> QED BY <1>1, <1>2, <1>3, <1>4, TypeParts

LEMMA TypeStep == TypeOK /\ [Next]_vars => TypeOK'
<1> SUFFICES ASSUME TypeOK, [Next]_vars PROVE TypeOK'
  OBVIOUS
<1> USE TypeParts
<1>a. ASSUME UNCHANGED linkVars PROVE LinkPart'
  BY <1>a DEF linkVars, LinkPart
<1>b. ASSUME UNCHANGED declaredVars PROVE DeclaredPart'
  BY <1>b DEF declaredVars, DeclaredPart
<1>c. ASSUME UNCHANGED reconnectVars PROVE ReconnectPart'
  BY <1>c DEF reconnectVars, ReconnectPart
<1>d. ASSUME UNCHANGED pumpVars PROVE StatsPart' /\ HandlerPart'
  BY <1>d DEF pumpVars, StatsPart, HandlerPart
<1>e. ASSUME Quiet PROVE WorkerPart'
  BY <1>e DEF Quiet, workerVars, WorkerPart
<1>1. ASSUME NEW t \in Topics, otherWorker(t), Quiet PROVE TypeOK'
  BY <1>1, <1>a, <1>b, <1>c, <1>d, <1>e, TakesTypes, TypePartsPrimed DEF otherWorker
<1>2. ASSUME connectionLost, Quiet PROVE TypeOK'
  <2>1. LinkPart'
    BY <1>2 DEF connectionLost, LinkPart
  <2> QED BY <1>2, <1>b, <1>c, <1>d, <1>e, <2>1, EndsTypes, TypePartsPrimed DEF connectionLost
<1>3. ASSUME NEW m \in orphans, brokerReturns(m), Quiet PROVE TypeOK'
  BY <1>3, <1>a, <1>b, <1>c, <1>d, <1>e, OrphanReturnsTypes, TypePartsPrimed DEF brokerReturns
<1>4. ASSUME delayElapses, Quiet PROVE TypeOK'
  <2>1. ReconnectPart'
    BY <1>4 DEF delayElapses, ReconnectPart
  <2> QED BY <1>4, <1>a, <1>b, <1>d, <1>e, <2>1, BrokerKept, TypePartsPrimed DEF delayElapses
<1>5. ASSUME setReconnectPolicy, Quiet PROVE TypeOK'
  <2>1. ReconnectPart'
    <3>1. failedAttempts' \in 0..maxAttempts
      BY <1>5, AttemptsAssumption DEF setReconnectPolicy
    <3> QED BY <1>5, <3>1 DEF setReconnectPolicy, ReconnectPart
  <2> QED BY <1>5, <1>a, <1>b, <1>d, <1>e, <2>1, BrokerKept, TypePartsPrimed
          DEF setReconnectPolicy
<1>6. ASSUME close, Quiet PROVE TypeOK'
  <2>1. LinkPart' /\ DeclaredPart'
    BY <1>6 DEF close, LinkPart, DeclaredPart
  <2> QED BY <1>6, <1>c, <1>d, <1>e, <2>1, EndsTypes, TypePartsPrimed DEF close
<1>7. ASSUME connect, Quiet PROVE TypeOK'
  <2>1. LinkPart'
    BY <1>7 DEF connect, LinkPart
  <2>2. BrokerTypeOK'
    BY <1>7 DEF connect, BrokerTypeOK
  <2> QED BY <1>7, <1>b, <1>c, <1>d, <1>e, <2>1, <2>2, TypePartsPrimed DEF connect
<1>8. ASSUME NEW t \in Topics, NEW o \in Options, ensureTopic(t, o), Quiet PROVE TypeOK'
  <2>1. CASE Agrees(t, o)
    <3>1. BrokerTypeOK'
      BY <1>8, <2>1 DEF ensureTopic, BrokerTypeOK
    <3>2. DeclaredPart'
      BY <1>8, <2>1 DEF ensureTopic, DeclaredPart
    <3> QED BY <1>8, <1>a, <1>c, <1>d, <1>e, <3>1, <3>2, TypePartsPrimed DEF ensureTopic
  <2>2. CASE ~Agrees(t, o)
    BY <1>8, <1>a, <1>b, <1>c, <1>d, <1>e, <2>2, RefusedTypes, TypePartsPrimed DEF ensureTopic
  <2> QED BY <2>1, <2>2
<1>9. ASSUME NEW t \in Topics, subscribe(t), Quiet PROVE TypeOK'
  <2>1. DeclaredPart'
    BY <1>9 DEF subscribe, DeclaredPart
  <2>2. BrokerTypeOK'
    <3>1. CASE link = "up" /\ Exists(t)
      <4>1. consuming' = <<t>> /\ <<t>> \in Seq(Topics)
        BY <1>9, <3>1 DEF subscribe
      <4>2. UNCHANGED <<queue, fate, declaredAs, unacked, orphans, nextTag, losses>>
        BY <1>9, <3>1 DEF subscribe
      <4> QED BY <4>1, <4>2 DEF BrokerTypeOK
    <3>2. CASE link = "up" /\ ~Exists(t)
      BY <1>9, <3>2, RefusedTypes DEF subscribe
    <3>3. CASE link # "up"
      BY <1>9, <3>3, BrokerKept DEF subscribe
    <3> QED BY <3>1, <3>2, <3>3
  <2> QED BY <1>9, <1>a, <1>c, <1>d, <1>e, <2>1, <2>2, TypePartsPrimed DEF subscribe
<1>10. ASSUME Pump PROVE TypeOK'
  <2>1. CASE Lost
    BY <1>10, <2>1, LostTypes DEF Pump, Quiet
  <2>2. CASE pumpIdle
    <3>1. StatsPart' /\ HandlerPart'
      BY <2>2 DEF pumpIdle, StatsPart, HandlerPart
    <3> QED BY <1>10, <1>a, <1>b, <1>c, <1>e, <2>2, <3>1, BrokerKept, TypePartsPrimed
            DEF pumpIdle, Pump
  <2>3. CASE receive
    <3>1. 1 \in DOMAIN consuming
      BY <2>3 DEF receive, BrokerTypeOK
    <3>2. BrokerTypeOK' /\ NextDelivery(1) \in Deliveries
      BY <2>3, <3>1, DeliversTypes, DeliveryType DEF receive, BrokerDelivers
    <3>3. StatsPart' /\ HandlerPart'
      BY <2>3, <3>2 DEF receive, Count, StatsPart, HandlerPart, Counters
    <3> QED BY <1>10, <1>a, <1>b, <1>c, <1>e, <2>3, <3>2, <3>3, TypePartsPrimed
            DEF receive, Pump
  <2> QED BY <1>10, <2>1, <2>2, <2>3 DEF Pump, pumpNotReady, receiveFails
<1>11. ASSUME Dispatch PROVE TypeOK'
  BY <1>11, DispatchTypes DEF Dispatch
<1>12. ASSUME dispatchEscapes PROVE TypeOK'
  <2>1. StatsPart' /\ HandlerPart'
    BY <1>12 DEF dispatchEscapes, handlerThrows, Count, StatsPart, HandlerPart, Counters
  <2> QED BY <1>12, <1>a, <1>b, <1>c, <1>e, <2>1, BrokerKept, TypePartsPrimed
          DEF dispatchEscapes, handlerThrows
<1>13. CASE UNCHANGED vars
  BY <1>13, <1>a, <1>b, <1>c, <1>d, <1>e, BrokerKept, TypePartsPrimed
     DEF vars, simpleVars, Quiet
<1> QED BY <1>1, <1>2, <1>3, <1>4, <1>5, <1>6, <1>7, <1>8, <1>9, <1>10, <1>11, <1>12, <1>13
        DEF Next

(* Every member of the transport and of the Consumer holds what its        *)
(* declaration allows in every reachable state, and the transport never    *)
(* believes in a connection without a channel.                             *)
THEOREM SimpleWorkerTypeCorrect == Spec => []TypeOK
BY InitTypes, TypeStep, PTL DEF Spec

-----------------------------------------------------------------------------
(* Counting.                                                               *)

(* What a step other than the Consumer's leaves of the counters: pump()    *)
(* counts a delivery as it calls the handler.                              *)
LEMMA CountersKept ==
  ASSUME TypeOK, Next, ~Dispatch, ~dispatchEscapes, ~(receive /\ Quiet)
  PROVE  UNCHANGED <<stats, pc, workerVars>>
<1> USE DEF Quiet, pumpVars
<1>1. CASE \E t \in Topics : otherWorker(t) /\ Quiet
  BY <1>1 DEF otherWorker
<1>2. CASE \E m \in orphans : brokerReturns(m) /\ Quiet
  BY <1>2 DEF brokerReturns
<1>3. CASE (connectionLost \/ delayElapses \/ setReconnectPolicy \/ close \/ connect) /\ Quiet
  BY <1>3 DEF connectionLost, delayElapses, setReconnectPolicy, close, connect
<1>4. CASE \E t \in Topics, o \in Options : ensureTopic(t, o) /\ Quiet
  BY <1>4 DEF ensureTopic
<1>5. CASE \E t \in Topics : subscribe(t) /\ Quiet
  BY <1>5 DEF subscribe
<1>6. CASE Pump
  BY <1>6 DEF Pump, pumpNotReady, receiveFails, Lost, serviceReconnect, GivesUp, pumpIdle
<1> QED BY <1>1, <1>2, <1>3, <1>4, <1>5, <1>6 DEF Next

LEMMA CountersStep ==
  ASSUME TypeOK, CountersAgree, [Next]_vars PROVE CountersAgree'
<1> USE TypeParts
<1>0. stats \in [Counters -> Nat] /\ decided \in [Live -> Nat] /\ unsent \in [Live -> Nat]
  BY DEF StatsPart, WorkerPart
<1>1. ASSUME NEW outcome \in OutcomesOf("onMessage") \ {"escapes"}, dispatched(outcome)
      PROVE  CountersAgree'
  <2> DEFINE d == dispatch(delivery.id, outcome, delivery.redelivered)
  <2>1. d \in Live
    BY DispatchLive
  <2>2. /\ pc = "handling" /\ pc' = "idle" /\ handlerReturns(d)
        /\ decided' = [decided EXCEPT ![d] = @ + 1]
        /\ unsent' = IF answer' = "threw" THEN [unsent EXCEPT ![d] = @ + 1] ELSE unsent
    BY <1>1 DEF dispatched, handlerReturns
  <2> HIDE DEF d
  <2>3. \/ stats' = [stats EXCEPT ![d] = @ + 1] /\ unsent' = unsent
        \/ stats' = stats /\ unsent' = [unsent EXCEPT ![d] = @ + 1]
    BY <2>2 DEF handlerReturns, Count
  <2>4. \A e \in Live : decided'[e] = stats'[e] + unsent'[e]
    BY <1>0, <2>1, <2>2, <2>3 DEF CountersAgree, Counters
  <2>5. /\ stats'["received"] = stats["received"]
        /\ stats'["abandoned"] = stats["abandoned"]
    BY <1>0, <2>1, <2>3 DEF Counters, Live
  <2>6. decided'["Ack"] + decided'["Reject"] + decided'["Requeue"]
          = decided["Ack"] + decided["Reject"] + decided["Requeue"] + 1
    BY <1>0, <2>1, <2>2 DEF Live
  <2>7. /\ stats["abandoned"] \in Nat
        /\ decided["Ack"] \in Nat /\ decided["Reject"] \in Nat /\ decided["Requeue"] \in Nat
        /\ decided'["Ack"] \in Nat /\ decided'["Reject"] \in Nat /\ decided'["Requeue"] \in Nat
    BY <1>0, <2>1, <2>2 DEF Counters, Live
  <2>8. stats'["received"] = decided'["Ack"] + decided'["Reject"] + decided'["Requeue"]
                               + stats'["abandoned"] + 0
    BY <2>2, <2>5, <2>6, <2>7 DEF CountersAgree
  <2> QED BY <2>2, <2>4, <2>8 DEF CountersAgree
<1>2. ASSUME dispatchEscapes PROVE CountersAgree'
  BY <1>0, <1>2 DEF dispatchEscapes, handlerThrows, Count, Quiet, workerVars, CountersAgree,
                    Counters, Live
<1>3. ASSUME receive, Quiet PROVE CountersAgree'
  <2>1. /\ pc = "idle" /\ pc' = "handling" /\ decided' = decided /\ unsent' = unsent
        /\ stats' = [stats EXCEPT !["received"] = @ + 1]
    BY <1>3 DEF receive, Count, Quiet, workerVars
  <2>2. \A e \in Live : stats'[e] = stats[e]
    BY <1>0, <2>1 DEF Counters, Live
  <2>3. /\ stats'["received"] = stats["received"] + 1
        /\ stats'["abandoned"] = stats["abandoned"]
        /\ stats["abandoned"] \in Nat
        /\ decided["Ack"] \in Nat /\ decided["Reject"] \in Nat /\ decided["Requeue"] \in Nat
    BY <1>0, <2>1 DEF Counters, Live
  <2> QED BY <2>1, <2>2, <2>3 DEF CountersAgree
<1>4. ASSUME UNCHANGED <<stats, pc, workerVars>> PROVE CountersAgree'
  BY <1>4 DEF workerVars, CountersAgree
<1>5. CASE UNCHANGED vars
  BY <1>4, <1>5 DEF vars, simpleVars, pumpVars
<1>6. CASE Next
  BY <1>1, <1>2, <1>3, <1>4, <1>6, CountersKept DEF Dispatch
<1> QED BY <1>5, <1>6

(* What the Consumer decided and what the transport performed differ by    *)
(* exactly the dispositions whose call threw, and no delivery goes         *)
(* uncounted, however often the connection is lost.                        *)
THEOREM SimpleCountersAgree == Spec => []CountersAgree
<1>1. Init => CountersAgree
  BY DEF Init, SimpleInit, CountersAgree, Live
<1>2. TypeOK /\ CountersAgree /\ [Next]_vars => CountersAgree'
  BY CountersStep
<1> QED BY <1>1, <1>2, SimpleWorkerTypeCorrect, PTL DEF Spec

-----------------------------------------------------------------------------
(* Acknowledging.                                                          *)

LEMMA AckedStep ==
  ASSUME TypeOK, AckedWasFinished, [Next]_vars PROVE AckedWasFinished'
<1> USE TypeParts
<1>0. fate \in [Ids -> {"none", "acked", "dead", "other"}]
  BY DEF BrokerTypeOK
<1> USE DEF brokerVars, Quiet, workerVars, AckedWasFinished
<1>1. ASSUME NEW outcome \in OutcomesOf("onMessage") \ {"escapes"}, dispatched(outcome)
      PROVE  AckedWasFinished'
  <2> DEFINE d == dispatch(delivery.id, outcome, delivery.redelivered)
  <2>1. d \in Live
    BY DispatchLive
  <2>2. /\ handlerReturns(d)
        /\ finished' = IF d = "Ack" THEN finished \cup {delivery.id} ELSE finished
    BY <1>1 DEF dispatched
  <2> HIDE DEF d
  <2>3. \/ fate' = fate
        \/ BrokerResolves(delivery, d)
    BY <2>2 DEF handlerReturns, FrameSent
  <2>4. CASE fate' = fate
    BY <2>2, <2>4
  <2>5. CASE BrokerResolves(delivery, d)
    <3>1. CASE d = "Ack"
      BY <1>0, <2>2, <2>5, <3>1 DEF BrokerResolves
    <3>2. CASE d # "Ack"
      BY <1>0, <2>1, <2>2, <2>5, <3>2 DEF BrokerResolves, Live
    <3> QED BY <3>1, <3>2
  <2> QED BY <2>3, <2>4, <2>5
<1>2. ASSUME NEW t \in Topics, otherWorker(t), Quiet PROVE AckedWasFinished'
  BY <1>0, <1>2 DEF otherWorker, OtherWorkerTakes
<1>3. ASSUME UNCHANGED <<fate, finished>> PROVE AckedWasFinished'
  BY <1>3
<1>4. ASSUME Next, ~Dispatch, ~\E t \in Topics : otherWorker(t) /\ Quiet
      PROVE  UNCHANGED <<fate, finished>>
  <2>1. CASE \E m \in orphans : brokerReturns(m) /\ Quiet
    BY <2>1 DEF brokerReturns, OrphanReturns
  <2>2. CASE (connectionLost \/ delayElapses \/ setReconnectPolicy \/ close \/ connect) /\ Quiet
    BY <2>2 DEF connectionLost, delayElapses, setReconnectPolicy, close, connect, ConnectionEnds
  <2>3. CASE \E t \in Topics, o \in Options : ensureTopic(t, o) /\ Quiet
    BY <2>3 DEF ensureTopic, RequestRefused
  <2>4. CASE \E t \in Topics : subscribe(t) /\ Quiet
    BY <2>4 DEF subscribe, RequestRefused
  <2>5. CASE Pump
    <3>1. CASE Lost
      BY <2>5, <3>1 DEF Pump, Lost, serviceReconnect, GivesUp, Attempt
    <3>2. CASE pumpIdle \/ receive
      BY <2>5, <3>2 DEF Pump, pumpIdle, receive, BrokerDelivers
    <3> QED BY <2>5, <3>1, <3>2 DEF Pump, pumpNotReady, receiveFails
  <2>6. CASE dispatchEscapes
    BY <2>6 DEF dispatchEscapes, handlerThrows
  <2> QED BY <1>4, <2>1, <2>2, <2>3, <2>4, <2>5, <2>6 DEF Next
<1>5. CASE UNCHANGED vars
  BY <1>3, <1>5 DEF vars, simpleVars
<1>6. CASE Next
  BY <1>1, <1>2, <1>3, <1>4, <1>6 DEF Dispatch
<1> QED BY <1>5, <1>6

(* Nothing is acknowledged to the broker but what a handler finished: not  *)
(* by being delivered, not by a handler that threw, and not across a       *)
(* reconnection.                                                           *)
THEOREM SimpleAckedWasFinished == Spec => []AckedWasFinished
<1>1. Init => AckedWasFinished
  BY DEF Init, SimpleInit, BrokerInit, AckedWasFinished
<1>2. TypeOK /\ AckedWasFinished /\ [Next]_vars => AckedWasFinished'
  BY AckedStep
<1> QED BY <1>1, <1>2, SimpleWorkerTypeCorrect, PTL DEF Spec

-----------------------------------------------------------------------------
(* Retrying.                                                               *)

UntriedInv == Untried(queue, FreshIn(pc = "handling", delivery), retried)

LEMMA UntriedStep ==
  ASSUME TypeOK, UntriedInv, [Next]_vars PROVE UntriedInv'
<1> USE TypeParts
<1> DEFINE held == FreshIn(pc = "handling", delivery)
<1>0. queue \in [Topics -> Seq(Messages)] /\ retried \in [Ids -> Nat]
  BY DEF BrokerTypeOK, WorkerPart
<1> USE DEF Quiet, workerVars, pumpVars
<1>1. ASSUME NEW t \in Topics, otherWorker(t), Quiet PROVE UntriedInv'
  <2>1. queue[t] # <<>> /\ queue' = [queue EXCEPT ![t] = Tail(@)]
    BY <1>1 DEF otherWorker, OtherWorkerTakes
  <2>2. UNCHANGED <<pc, delivery, retried>>
    BY <1>1 DEF otherWorker
  <2>3. Untried([queue EXCEPT ![t] = Tail(@)], held \cup {}, retried)
    BY <1>0, <2>1, UntriedTaken DEF UntriedInv
  <2>4. held \cup {} = held
    OBVIOUS
  <2> QED BY <2>1, <2>2, <2>3, <2>4 DEF UntriedInv
<1>2. ASSUME NEW m \in orphans, brokerReturns(m), Quiet PROVE UntriedInv'
  <2>1. queue' = ReturnTo(queue, m) /\ UNCHANGED <<pc, delivery, retried>>
    BY <1>2 DEF brokerReturns, OrphanReturns
  <2>2. m.topic \in Topics /\ m.id \in Ids
    BY DEF BrokerTypeOK
  <2>3. Untried(ReturnTo(queue, m), held, retried)
    BY <1>0, <2>2, UntriedReturn DEF UntriedInv
  <2> QED BY <2>1, <2>3 DEF UntriedInv
<1>3. ASSUME receive, Quiet PROVE UntriedInv'
  <2> DEFINE t == consuming[1]
  <2>1. 1 \in DOMAIN consuming
    BY <1>3 DEF receive, BrokerTypeOK
  <2>2. /\ t \in Topics /\ NextDelivery(1).id = Head(queue[t]).id
        /\ NextDelivery(1).redelivered = Head(queue[t]).redelivered
    BY <1>3, <2>1, DeliveryType DEF receive, BrokerDelivers
  <2>3. /\ pc = "idle" /\ pc' = "handling" /\ delivery' = NextDelivery(1)
        /\ queue[t] # <<>> /\ queue' = [queue EXCEPT ![t] = Tail(@)] /\ retried' = retried
    BY <1>3 DEF receive, BrokerDelivers
  <2> HIDE DEF t
  <2>4. Untried(queue, {}, retried)
    BY <2>3 DEF UntriedInv, FreshIn
  <2>5. CASE Head(queue[t]).redelivered
    <3>1. Untried([queue EXCEPT ![t] = Tail(@)], {} \cup {}, retried)
      BY <1>0, <2>2, <2>3, <2>4, UntriedTaken
    <3>2. FreshIn(TRUE, NextDelivery(1)) = {} \cup {}
      BY <2>2, <2>5 DEF FreshIn
    <3> QED BY <2>3, <3>1, <3>2 DEF UntriedInv
  <2>6. CASE ~Head(queue[t]).redelivered
    <3> DEFINE more == {Head(queue[t]).id}
    <3>1. Untried([queue EXCEPT ![t] = Tail(@)], {} \cup more, retried)
      BY <1>0, <2>2, <2>3, <2>4, <2>6, UntriedTaken
    <3>2. FreshIn(TRUE, NextDelivery(1)) = {} \cup more
      BY <2>2, <2>6 DEF FreshIn
    <3> QED BY <2>3, <3>1, <3>2 DEF UntriedInv
  <2> QED BY <2>5, <2>6
<1>4. ASSUME NEW outcome \in OutcomesOf("onMessage") \ {"escapes"}, dispatched(outcome)
      PROVE  UntriedInv'
  <2> DEFINE d == dispatch(delivery.id, outcome, delivery.redelivered)
  <2>1. d \in Live /\ (d = "Requeue" => ~delivery.redelivered)
    BY DispatchLive
  <2>2. /\ pc = "handling" /\ pc' = "idle" /\ handlerReturns(d)
        /\ retried' = IF d = "Requeue" THEN [retried EXCEPT ![delivery.id] = @ + 1] ELSE retried
    BY <1>4 DEF dispatched, handlerReturns
  <2> HIDE DEF d
  <2>3. delivery \in Deliveries
    BY <2>2 DEF HandlerPart
  <2>4. delivery.topic \in Topics /\ delivery.id \in Ids
    BY <2>3 DEF Deliveries
  <2>5. queue' = queue \/ queue' = ReturnTo(queue, delivery)
    BY <2>2 DEF handlerReturns, FrameSent, BrokerResolves, brokerVars
  <2>6. Untried(queue, {}, retried')
    <3>1. CASE d = "Requeue"
      <4>1. Untried(queue, {delivery.id}, retried)
        BY <2>1, <2>2, <3>1 DEF UntriedInv, FreshIn
      <4> QED BY <1>0, <2>2, <2>4, <3>1, <4>1, UntriedRetry
    <3>2. CASE d # "Requeue"
      BY <2>2, <3>2, UntriedLess DEF UntriedInv
    <3> QED BY <3>1, <3>2
  <2>7. Untried(queue', {}, retried')
    BY <1>0, <2>4, <2>5, <2>6, UntriedReturn
  <2>8. FreshIn(pc = "handling", delivery)' = {}
    BY <2>2 DEF FreshIn
  <2> QED BY <2>7, <2>8 DEF UntriedInv
<1>5. ASSUME dispatchEscapes PROVE UntriedInv'
  <2>1. UNCHANGED <<queue, retried>> /\ pc' = "idle"
    BY <1>5 DEF dispatchEscapes, handlerThrows, brokerVars
  <2>2. Untried(queue, {}, retried)
    BY UntriedLess DEF UntriedInv
  <2> QED BY <2>1, <2>2 DEF UntriedInv, FreshIn
<1>6. ASSUME UNCHANGED <<queue, pc, delivery, retried>> PROVE UntriedInv'
  BY <1>6 DEF UntriedInv
<1>7. CASE (connectionLost \/ delayElapses \/ setReconnectPolicy \/ close \/ connect) /\ Quiet
  BY <1>6, <1>7 DEF connectionLost, delayElapses, setReconnectPolicy, close, connect,
                    ConnectionEnds, brokerVars
<1>8. CASE \E t \in Topics, o \in Options : ensureTopic(t, o) /\ Quiet
  BY <1>6, <1>8 DEF ensureTopic, RequestRefused
<1>9. CASE \E t \in Topics : subscribe(t) /\ Quiet
  BY <1>6, <1>9 DEF subscribe, RequestRefused, brokerVars
<1>10. CASE Pump /\ ~receive
  BY <1>6, <1>10 DEF Pump, pumpNotReady, receiveFails, Lost, serviceReconnect, GivesUp,
                     Attempt, pumpIdle, brokerVars
<1>11. CASE UNCHANGED vars
  BY <1>6, <1>11 DEF vars, simpleVars, brokerVars
<1>12. CASE Pump /\ receive
  BY <1>3, <1>12 DEF Pump
<1> QED BY <1>1, <1>2, <1>4, <1>5, <1>7, <1>8, <1>9, <1>10, <1>11, <1>12 DEF Next, Dispatch

(* dispatch() requeues each message at most once, with nothing to go by    *)
(* but the redelivered flag: across losses, reconnections and frames that  *)
(* never arrived.                                                          *)
THEOREM SimpleRetriedOnce == Spec => []RetriedOnce
<1>1. Init => UntriedInv
  <2> SUFFICES ASSUME Init PROVE UntriedInv
    OBVIOUS
  <2>1. retried = [i \in Ids |-> 0] /\ FreshIn(pc = "handling", delivery) = {}
    BY DEF Init, SimpleInit, FreshIn
  <2>2. Untried(queue, {}, [i \in Ids |-> 0])
    BY UntriedInit DEF Init, SimpleInit
  <2> QED BY <2>1, <2>2 DEF UntriedInv
<1>2. TypeOK /\ UntriedInv /\ [Next]_vars => UntriedInv'
  BY UntriedStep
<1>3. UntriedInv => RetriedOnce
  BY DEF UntriedInv, Untried, RetriedOnce
<1> QED BY <1>1, <1>2, <1>3, SimpleWorkerTypeCorrect, PTL DEF Spec

-----------------------------------------------------------------------------
(* Reporting.                                                              *)

(* With a reconnection policy enabled pump() turns its answer to false     *)
(* only in a call that finds every attempt made.                           *)
THEOREM SimpleNotDeadWhileTrying == Spec => NotDeadWhileTrying
<1>1. ASSUME [Next]_vars, enabled, answer # "false", answer' = "false"
      PROVE  failedAttempts >= maxAttempts
  <2> USE <1>1 DEF pumpVars
  <2>1. CASE UNCHANGED vars
    BY <2>1 DEF vars, simpleVars
  <2>2. CASE \E t \in Topics : otherWorker(t) /\ Quiet
    BY <2>2 DEF otherWorker
  <2>3. CASE \E m \in orphans : brokerReturns(m) /\ Quiet
    BY <2>3 DEF brokerReturns
  <2>4. CASE connectionLost \/ delayElapses \/ setReconnectPolicy \/ close \/ connect
    BY <2>4 DEF connectionLost, delayElapses, setReconnectPolicy, close, connect
  <2>5. CASE \E t \in Topics, o \in Options : ensureTopic(t, o) /\ Quiet
    BY <2>5 DEF ensureTopic
  <2>6. CASE \E t \in Topics : subscribe(t) /\ Quiet
    BY <2>6 DEF subscribe
  <2>7. CASE Pump
    BY <2>7 DEF Pump, pumpNotReady, receiveFails, Lost, serviceReconnect, Exhausted, pumpIdle,
                receive
  <2>8. CASE Dispatch
    <3>1. PICK outcome : dispatched(outcome)
      BY <2>8 DEF Dispatch
    <3>2. answer' \in {"true", "threw"}
      BY <3>1 DEF dispatched, handlerReturns
    <3> QED BY <3>2
  <2>9. CASE dispatchEscapes
    BY <2>9 DEF dispatchEscapes, handlerThrows
  <2> QED BY <2>1, <2>2, <2>3, <2>4, <2>5, <2>6, <2>7, <2>8, <2>9 DEF Next
<1>2. [Next]_vars =>
        [enabled /\ answer # "false" /\ answer' = "false" => failedAttempts >= maxAttempts]_vars
  BY <1>1
<1> QED BY <1>2, PTL DEF Spec, NotDeadWhileTrying

=============================================================================
