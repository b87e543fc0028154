-------------------------- MODULE SimpleAmqpWorker --------------------------
(***************************************************************************)
(* A worker process: one Consumer with an onMessage handler, the only kind *)
(* its constructor allows on this backend, on one SimpleAmqpTransport.     *)
(***************************************************************************)
EXTENDS SimpleAmqpTransport, Consumer

VARIABLES
  decided,      \* Consumer::_acked, _rejected, _requeued
  retried,      \* history: the messages dispatch() requeued, as often as it did
  finished,     \* history: the messages a handler finished
  unsent        \* history: dispositions whose frame could not be written

workerVars == <<decided, retried, finished, unsent>>
vars == <<simpleVars, workerVars>>

Init ==
  /\ SimpleInit
  /\ decided = [d \in Live |-> 0]
  /\ retried = [i \in Ids |-> 0]
  /\ finished = {}
  /\ unsent = [d \in Live |-> 0]

Quiet == UNCHANGED workerVars

(* The handler Consumer::start subscribed. *)
dispatched(outcome) ==
  /\ pc = "handling"
  /\ LET d == dispatch(delivery.id, outcome, delivery.redelivered) IN
     /\ handlerReturns(d)
     /\ decided' = [decided EXCEPT ![d] = @ + 1]
     /\ retried' = IF d = "Requeue" THEN [retried EXCEPT ![delivery.id] = @ + 1] ELSE retried
     /\ finished' = IF d = "Ack" THEN finished \cup {delivery.id} ELSE finished
     /\ unsent' = IF answer' = "threw" THEN [unsent EXCEPT ![d] = @ + 1] ELSE unsent

Dispatch == \E outcome \in OutcomesOf("onMessage") \ {"escapes"} : dispatched(outcome)

dispatchEscapes ==
  /\ pc = "handling" /\ decode(delivery.id)
  /\ handlerThrows
  /\ Quiet

Pump == /\ \/ pumpNotReady
           \/ receiveFails
           \/ pumpIdle
           \/ receive
        /\ Quiet

Next ==
  \/ \E t \in Topics : otherWorker(t) /\ Quiet
  \/ connectionLost /\ Quiet
  \/ \E m \in orphans : brokerReturns(m) /\ Quiet
  \/ delayElapses /\ Quiet
  \/ setReconnectPolicy /\ Quiet
  \/ close /\ Quiet
  \/ connect /\ Quiet
  \/ \E t \in Topics, o \in Options : ensureTopic(t, o) /\ Quiet
  \/ \E t \in Topics : subscribe(t) /\ Quiet
  \/ Pump
  \/ Dispatch
  \/ dispatchEscapes

(* poll() is called again and again, handlers return, time passes, and a   *)
(* receive on a connection that is gone fails in the end.                  *)
Spec == /\ Init /\ [][Next]_vars
        /\ WF_vars(Pump)
        /\ WF_vars(receiveFails /\ Quiet)
        /\ WF_vars(Dispatch)
        /\ WF_vars(delayElapses /\ Quiet)

-----------------------------------------------------------------------------
(* Properties.                                                             *)

(* Every variable holds what the member or the broker can hold, and a      *)
(* transport without a channel never believes it is connected.             *)
TypeOK ==
  /\ BrokerTypeOK
  /\ link \in {"none", "up", "down"}
  /\ connected \in BOOLEAN /\ (connected => link # "none")
  /\ topic \in Topics \cup {NoTopic}
  /\ topicOptions \in Options \cup {NoOptions}
  /\ topicDeclared \in BOOLEAN /\ subscribed \in BOOLEAN
  /\ topicDeclared => topic \in Topics /\ topicOptions \in Options
  /\ subscribed => topic \in Topics
  /\ enabled \in BOOLEAN /\ backingOff \in BOOLEAN
  /\ failedAttempts \in 0..maxAttempts
  /\ stats \in [Live \cup {"received", "abandoned"} -> Nat]
  /\ pc \in {"idle", "handling"}
  /\ IF pc = "handling"
     THEN delivery \in [tag : Nat, topic : Topics, id : Ids, redelivered : BOOLEAN,
                        consumer : Nat]
     ELSE delivery = NoDelivery
  /\ answer \in {"true", "false", "threw"}
  /\ decided \in [Live -> Nat]
  /\ retried \in [Ids -> Nat]
  /\ finished \subseteq Ids
  /\ unsent \in [Live -> Nat]

(* What the broker dropped as acknowledged is what a handler finished: no  *)
(* delivery is acknowledged by being delivered, and none whose handler     *)
(* threw, whatever is lost or reconnected in between.                      *)
AckedWasFinished == \A i \in Ids : fate[i] = "acked" => i \in finished

(* dispatch() requeues a transient failure at most once per message, with  *)
(* nothing but the broker's redelivered flag to go by.                     *)
RetriedOnce == \A i \in Ids : retried[i] <= 1

(* What the Consumer decided and what the transport says it performed      *)
(* differ by exactly the dispositions whose call threw; every delivery was *)
(* decided, abandoned, or is being handled.                                *)
CountersAgree ==
  /\ \A d \in Live : decided[d] = stats[d] + unsent[d]
  /\ stats["received"] = decided["Ack"] + decided["Reject"] + decided["Requeue"]
                           + stats["abandoned"] + (IF pc = "handling" THEN 1 ELSE 0)

(* With a policy enabled, pump() reports the end only when every attempt   *)
(* was made: not on the call that notices the loss, and not between two    *)
(* attempts.                                                               *)
NotDeadWhileTrying ==
  [][enabled /\ answer # "false" /\ answer' = "false" => failedAttempts >= maxAttempts]_vars

(* "returns TRUE while it is still trying ... and false only once attempts *)
(* are exhausted": whatever is lost and wherever an attempt fails, a       *)
(* subscribed transport ends up consuming, or pump() reports the end.      *)
RestoredOrReported ==
  (subscribed /\ enabled) ~> (consuming # <<>> \/ answer = "false" \/ ~subscribed)

=============================================================================
