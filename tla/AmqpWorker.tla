----------------------------- MODULE AmqpWorker -----------------------------
(***************************************************************************)
(* A worker process: one Consumer on one AmqpCppTransport, driven by one   *)
(* thread through poll(), whose deferred deliveries are finished by other  *)
(* threads and come back through a SettlementQueue.  The application may   *)
(* also declare further topics on the same transport (Producer does).      *)
(***************************************************************************)
EXTENDS AmqpCppTransport, Consumer

CONSTANT shape    \* which of Handlers::onMessage and onDeferred is configured

ASSUME ShapeAssumption == shape \in HandlerShapes

VARIABLES
  settlements,  \* SettlementQueue::_pending
  jobs,         \* deferred work the pool has accepted and not finished
  decided,      \* Consumer::_acked, _rejected, _requeued
  retried,      \* history: the messages dispatch() requeued, as often as it did
  finished,     \* history: the messages a job or a handler finished with Ack
  unsent        \* history: dispositions whose frame could not be written

workerVars == <<settlements, jobs, decided, retried, finished, unsent>>
vars == <<amqpVars, workerVars>>

Init ==
  /\ AmqpInit
  /\ settlements = <<>>
  /\ jobs = {}
  /\ decided = [d \in Live |-> 0]
  /\ retried = [i \in Ids |-> 0]
  /\ finished = {}
  /\ unsent = [d \in Live |-> 0]

Decide(disposition) == decided' = [decided EXCEPT ![disposition] = @ + 1]

(* The handler Consumer::start subscribed, given how the application's     *)
(* handler ends: the decision is counted before the transport performs it. *)
dispatched(outcome) ==
  /\ pc = "handling"
  /\ LET d == dispatch(delivery.id, outcome, delivery.redelivered) IN
     /\ d \in Live
     /\ handlerReturns(d)
     /\ Decide(d)
     /\ retried' = IF d = "Requeue" /\ outcome = "TransientFailure"
                   THEN [retried EXCEPT ![delivery.id] = @ + 1] ELSE retried
     /\ finished' = IF d = "Ack" THEN finished \cup {delivery.id} ELSE finished
     /\ unsent' = IF pc' = "idle" THEN [unsent EXCEPT ![d] = @ + 1] ELSE unsent
  /\ UNCHANGED <<settlements, jobs>>

dispatchDeferred ==
  /\ pc = "handling" /\ shape = "onDeferred" /\ decode(delivery.id)
  /\ handlerDefers
  /\ jobs' = jobs \cup {[tag |-> delivery.tag, id |-> delivery.id, nth |-> stats["received"]]}
  /\ UNCHANGED <<settlements, decided, retried, finished, unsent>>

dispatchEscapes ==
  /\ pc = "handling" /\ decode(delivery.id)
  /\ handlerThrows
  /\ UNCHANGED workerVars

(* SettlementQueue::push, from a pool thread. *)
push(job, disposition) ==
  /\ job \in jobs
  /\ jobs' = jobs \ {job}
  /\ settlements' = Append(settlements, <<job.tag, disposition>>)
  /\ finished' = IF disposition = "Ack" THEN finished \cup {job.id} ELSE finished
  /\ UNCHANGED <<amqpVars, decided, retried, unsent>>

(* One round of the loop poll() starts with.  What settle() refuses throws *)
(* out of poll(), and the entry it was called for is gone.                 *)
drain ==
  /\ pc = "idle" /\ settlements # <<>>
  /\ settlements' = Tail(settlements)
  /\ LET tag == Head(settlements)[1]
         d   == Head(settlements)[2]
     IN  IF channel # "none" /\ tag \in outstandingDeferred
         THEN /\ settle(tag, d)
              /\ IF stats' = stats THEN UNCHANGED decided ELSE Decide(d)
         ELSE UNCHANGED <<amqpVars, decided>>
  /\ UNCHANGED <<jobs, retried, finished, unsent>>

Polls == settlements = <<>>     \* poll() pumps when nothing is left to settle

Quiet == UNCHANGED workerVars

Pump ==
  \/ Polls /\ pumpBegins /\ Quiet
  \/ Polls /\ Quiet /\ \E f \in (Faults \ CloseFaults) \cup {NoFault} : pumpOnDead(f)
  \/ readEnds /\ Quiet
  \/ readFails /\ Quiet
  \/ handshakeCompletes /\ Quiet
  \/ Quiet /\ \E c \in DOMAIN consuming : deliver(c)
  \/ Quiet /\ \E f \in (Faults \ CloseFaults) \cup {NoFault} : pumpEnds(f)

Dispatch == \E outcome \in OutcomesOf(shape) \ {"Deferred", "escapes"} : dispatched(outcome)

Next ==
  \/ \E t \in Topics : otherWorker(t) /\ Quiet
  \/ connectionLost /\ Quiet
  \/ \E m \in orphans : brokerReturns(m) /\ Quiet
  \/ delayElapses /\ Quiet
  \/ setReconnectPolicy /\ Quiet
  \/ close /\ Quiet
  \/ closeThrows /\ Quiet
  \/ \E f \in (Faults \cap OpenFaults) \cup {NoFault} : connect(f) /\ Quiet
  \/ \E t \in Topics, o \in Options, f \in (Faults \cap {"declareTimeout"}) \cup {NoFault} :
       ensureTopic(t, o, f) /\ Quiet
  \/ \E t \in Topics, f \in (Faults \cap {"consumeTimeout", "consumeLate"}) \cup {NoFault} :
       subscribe(t, f) /\ Quiet
  \/ Pump
  \/ Dispatch
  \/ dispatchDeferred
  \/ dispatchEscapes
  \/ \E job \in jobs, d \in Live : push(job, d)
  \/ drain

Spec == Init /\ [][Next]_vars

(* poll() is called again and again, handlers return, and time passes.     *)
FairSpec == /\ Spec
            /\ WF_vars(Pump)
            /\ WF_vars(Dispatch)
            /\ WF_vars(drain)
            /\ WF_vars(delayElapses /\ Quiet)

-----------------------------------------------------------------------------
(* Properties.                                                             *)

(* Every variable holds what the member or the broker can hold. *)
TypeOK ==
  /\ BrokerTypeOK
  /\ socket \in {"none", "unopened", "unconnected", "up", "down"}
  /\ ready \in BOOLEAN /\ closed \in BOOLEAN
  /\ channel \in {"none", "open", "broken"}
  /\ topic \in Topics \cup {NoTopic}
  /\ topicOptions \in Options \cup {NoOptions}
  /\ topicDeclared \in BOOLEAN /\ subscribed \in BOOLEAN
  /\ topicDeclared => topic \in Topics /\ topicOptions \in Options
  /\ subscribed => topic \in Topics
  /\ wanted \in Topics \cup {NoTopic}
  /\ outstandingDeferred \subseteq Nat
  /\ handlerFailure \in BOOLEAN /\ enabled \in BOOLEAN /\ backingOff \in BOOLEAN
  /\ failedAttempts \in 0..maxAttempts
  /\ stats \in [{"received", "Ack", "Reject", "Requeue"} -> Nat]
  /\ pc \in {"idle", "pumping", "handling"}
  /\ IF pc = "handling"
     THEN delivery \in [tag : Nat, topic : Topics, id : Ids, redelivered : BOOLEAN,
                        consumer : Nat]
     ELSE delivery = NoDelivery
  /\ answer \in {"true", "false", "threw"}
  /\ settlements \in Seq(Nat \X Live)
  /\ jobs \subseteq [tag : Nat, id : Ids, nth : Nat]
  /\ decided \in [Live -> Nat]
  /\ retried \in [Ids -> Nat]
  /\ finished \subseteq Ids
  /\ unsent \in [Live -> Nat]

(* settle() never sends the broker a tag it does not know, which would     *)
(* cost the channel: while the channel works, every tag held deferred is   *)
(* one the broker is waiting for on this very channel, however many        *)
(* connections came and went.                                              *)
DeferredIsUnacked ==
  channel = "open" /\ socket = "up" => outstandingDeferred \subseteq TagsOf(unacked)

(* Nothing is held deferred that nobody will settle: behind every such tag *)
(* there is unfinished work or a settlement on its way.                    *)
DeferredIsOwned ==
  \A tag \in outstandingDeferred :
    \/ \E job \in jobs : job.tag = tag
    \/ \E i \in DOMAIN settlements : settlements[i][1] = tag

(* dispatch() requeues a transient failure at most once per message: the   *)
(* broker's redelivered flag is all the state the retry bound needs.       *)
RetriedOnce == \A i \in Ids : retried[i] <= 1

(* What the Consumer decided and what the transport says it performed      *)
(* differ by exactly the dispositions whose frame threw on its way out.    *)
CountersAgree == \A d \in Live : decided[d] = stats[d] + unsent[d]

(* The broker has resolved no more than the transport counted: the         *)
(* counters may claim too much after a loss, never too little.             *)
CountedIfResolved ==
  /\ Cardinality({i \in Ids : fate[i] = "acked"}) <= stats["Ack"]
  /\ Cardinality({i \in Ids : fate[i] = "dead"}) <= stats["Reject"]

(* With a policy enabled, pump() reports the end only when every attempt   *)
(* was made: not on the call that notices the loss, and not between two    *)
(* attempts.                                                               *)
NotDeadWhileTrying ==
  [][enabled /\ answer # "false" /\ answer' = "false" => failedAttempts >= maxAttempts]_vars

-----------------------------------------------------------------------------
(* What the repository's comments say and the code does not do.            *)

(* ReconnectPolicy: "the old delivery tags are meaningless on the new      *)
(* connection and are never acknowledged": a message acknowledged through  *)
(* settle() is one whose own work was finished.                            *)
AckedWasFinished == \A i \in Ids : fate[i] = "acked" => i \in finished

(* serviceReconnect: "Restore exactly what was established before, not a   *)
(* guess": a subscribed transport consumes the topic it subscribed to.     *)
ConsumesWhatWasSubscribed ==
  subscribed => \A c \in DOMAIN consuming : consuming[c] = wanted

(* pump: with a policy enabled, "returns TRUE while it is still trying ... *)
(* and false only once attempts are exhausted": a subscribed transport     *)
(* ends up consuming, or pump() reports that it gave up.                   *)
RestoredOrReported ==
  (subscribed /\ enabled) ~> (consuming # <<>> \/ answer = "false" \/ ~subscribed)

=============================================================================
