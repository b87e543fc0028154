-------------------------- MODULE InMemoryContract --------------------------
(***************************************************************************)
(* The reference backend implements DeliveryContract.                      *)
(***************************************************************************)
EXTENDS InMemoryTransport

CONSTANT MaxNumber     \* the contract is about the messages numbered up to it

ASSUME MaxNumberAssumption == MaxNumber \in Nat

(* The abstract state of DeliveryContract: where a number is, whether its  *)
(* message is flagged, and the life of the first n messages.               *)
HoldersOf(s) == {p \in Transports : s \in SequencesOf(outstanding[p])}

PlaceOf(s) == CASE s > store.sequence           -> "unborn"
                [] s \in SequencesOf(Waiting)   -> "waiting"
                [] HoldersOf(s) # {}            -> CHOOSE p \in HoldersOf(s) : TRUE
                [] s \in SequencesOf(GoneFor)   -> "gone"
                [] OTHER                        -> "nowhere"

FlaggedNumbers == SequencesOf({m \in Waiting \cup HeldNow \cup GoneFor : m.redelivered})

LivesOf(n) ==
  LET flagged == FlaggedNumbers
  IN  [s \in 1..n |-> [place |-> PlaceOf(s), flagged |-> s \in flagged]]

Contract == INSTANCE DeliveryContract
  WITH Deliveries <- 1..MaxNumber, Consumers <- Transports,
       life <- LivesOf(MaxNumber)

(* Each message of the broker lives the life DeliveryContract allows it,   *)
(* for every interleaving of senders, consumers, settlements and closes.   *)
KeepsContract == Contract!Spec

=============================================================================
