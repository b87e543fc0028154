-------------------------------- MODULE Seam --------------------------------
(***************************************************************************)
(* The middleware-neutral vocabulary every backend shares:                 *)
(* include/motus/transport/ITransport.hpp.                                 *)
(*                                                                         *)
(* A std::string that names a topic, a route or a binding is modelled by   *)
(* the sequence of its dot-separated words, the only structure the code    *)
(* looks at (routeMatches splits on '.', deadLetterTopic prepends two      *)
(* words).  The empty string has one, empty, word.                         *)
(***************************************************************************)
EXTENDS Integers, Sequences

CONSTANTS kForensicMaxLength,    \* 2000 in the code; small in the models
          Strings                \* the words and group names in use

ASSUME ForensicCapAssumption == kForensicMaxLength \in Nat \ {0}

ASSUME StringsAssumption ==
  {"", "motus", "dead-letter", "motus.dead-letter"} \subseteq Strings

Disposition    == {"Ack", "Reject", "Requeue", "Deferred"}
Routing        == {"Exact", "Pattern", "Broadcast"}
OverflowPolicy == {"DropHead", "RejectPublish", "RejectPublishDlx"}

Name        == Seq(Strings)
EmptyString == <<"">>
NoGroup     == ""

(* The fields of one declaration of a destination.                         *)
TopicOptions ==
  [durable : BOOLEAN, shared : BOOLEAN, deleteWhenUnused : BOOLEAN,
   deadLetter : BOOLEAN, maxLength : Nat, overflow : OverflowPolicy,
   group : Strings, route : Name, routing : Routing]

(* TopicOptions{}: what a destination gets that nobody declared.           *)
DefaultOptions ==
  [durable |-> TRUE, shared |-> TRUE, deleteWhenUnused |-> FALSE,
   deadLetter |-> TRUE, maxLength |-> 0, overflow |-> "DropHead",
   group |-> NoGroup, route |-> EmptyString, routing |-> "Pattern"]

(* The properties two declarations of one destination must agree on.       *)
(* group, route and routing are not among them.                            *)
SameProperties(a, b) ==
  /\ a.durable = b.durable
  /\ a.shared = b.shared
  /\ a.deleteWhenUnused = b.deleteWhenUnused
  /\ a.deadLetter = b.deadLetter
  /\ a.maxLength = b.maxLength
  /\ a.overflow = b.overflow

kDeadLetterExchange == "motus.dead-letter"

deadLetterTopic(source) == <<"motus", "dead-letter">> \o source

(* Variant: the compatibility default, which keeps the last failures. *)
forensicDropHead(source) ==
  [DefaultOptions EXCEPT !.group      = kDeadLetterExchange,
                         !.route      = source,
                         !.routing    = "Exact",
                         !.deadLetter = FALSE,
                         !.maxLength  = kForensicMaxLength]

forensicTopicOptions(source) ==
  [DefaultOptions EXCEPT !.group      = kDeadLetterExchange,
                         !.route      = source,
                         !.routing    = "Exact",
                         !.deadLetter = FALSE,
                         !.maxLength  = kForensicMaxLength,
                         !.overflow   = "RejectPublish"]

(* The capabilities a declaration is checked against. *)
CapabilitiesOf(backend) ==
  [deadLetter |-> TRUE, boundedQueue |-> TRUE, routingGroups |-> backend # "simpleamqp"]

(* Variant: the bound was added to TopicOptions and forgotten here. *)
checkIgnoresBound(caps, options, allowAsymmetric) ==
  /\ options.deadLetter => caps.deadLetter
  /\ options.group # NoGroup => caps.routingGroups
  /\ options.maxLength > 0 => caps.boundedQueue
  /\ ~allowAsymmetric => SameProperties([options EXCEPT !.maxLength = 0], DefaultOptions)

(* checkTopicOptions returns: the backend can honour the declaration, and  *)
(* what must match across processes is what every process gets by default. *)
checkTopicOptions(caps, options, allowAsymmetric) ==
  /\ options.deadLetter => caps.deadLetter
  /\ options.group # NoGroup => caps.routingGroups
  /\ options.maxLength > 0 => caps.boundedQueue
  /\ ~allowAsymmetric => SameProperties(options, DefaultOptions)

=============================================================================
