-------------------------- MODULE DeliveryContract --------------------------
(***************************************************************************)
(* What ITransport promises about one delivery, whatever the backend:      *)
(* (ITransport.hpp: Disposition, Delivery, DeliveryHandler and pump).      *)
(*                                                                         *)
(* A message waits, is held by one consumer at a time, and ends.  A        *)
(* consumer that goes away or asks for it gives its message back, flagged; *)
(* nothing passes from one consumer to another without being returned      *)
(* first, and nothing comes back from where it ended.  A consumer holds at *)
(* most one message (prefetch 1).                                          *)
(***************************************************************************)
CONSTANTS Deliveries, Consumers

VARIABLE life       \* where each delivery is, and Delivery::redelivered

Places == {"unborn", "waiting", "gone"} \cup Consumers
Lives  == [place : Places, flagged : BOOLEAN]

Init == life = [d \in Deliveries |-> [place |-> "unborn", flagged |-> FALSE]]

(* Enqueued, or refused at the bound of a destination. *)
Publish(was, is) == /\ was.place = "unborn"
                    /\ is.place \in {"waiting", "gone"}
                    /\ ~is.flagged

(* Handed to a consumer with the flag it has. *)
Deliver(was, is) == /\ was.place = "waiting"
                    /\ is.place \in Consumers
                    /\ is.flagged = was.flagged

(* Returned by its consumer, or by the death of its consumer. *)
Return(was, is) == /\ was.place \in Consumers
                   /\ is.place = "waiting"
                   /\ is.flagged

(* Acknowledged or rejected by its consumer, or evicted or purged while it *)
(* waits.                                                                  *)
End(was, is) == /\ was.place \in Consumers \cup {"waiting"}
                /\ is.place = "gone"
                /\ is.flagged = was.flagged

(* One step of a backend may move several deliveries: a purge, or a        *)
(* publish that evicts the oldest message and dead-letters it.             *)
Moves(before, after) ==
  \A d \in Deliveries :
    LET was == before[d]
        is  == after[d]
    IN  \/ is = was
        \/ Publish(was, is) \/ Deliver(was, is)
        \/ Return(was, is) \/ End(was, is)

(* Prefetch 1. *)
OneEach(after) ==
  \A c \in Consumers : \A d, e \in Deliveries :
    after[d].place = c /\ after[e].place = c => d = e

Next == \E before \in {life}, after \in {life'} :
          /\ before \in [Deliveries -> Lives]
          /\ after \in [Deliveries -> Lives]
          /\ Moves(before, after)
          /\ OneEach(after)

Spec == Init /\ [][Next]_life

=============================================================================
