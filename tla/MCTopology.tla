----------------------------- MODULE MCTopology -----------------------------
(***************************************************************************)
(* Model values for the runs of AmqpTopology: a plain destination that     *)
(* everybody declares, and one in a routing group.                         *)
(***************************************************************************)
EXTENDS AmqpTopology, TLC

CONSTANTS cpp, simple      \* one process of each backend

MCStrings == {"", "motus", "dead-letter", "motus.dead-letter", "a", "b", "g", "x", "y", "*"}

A == <<"a">>
B == <<"b">>

MCBackend == [p \in Processes |-> IF p = simple THEN "simpleamqp" ELSE "amqpcpp"]

MCTopics == {A, B}

Bounded == [DefaultOptions EXCEPT !.maxLength = 1]
Grouped(durable) ==
  [DefaultOptions EXCEPT !.group = "g", !.route = <<"x", "*">>, !.routing = "Pattern",
                         !.deadLetter = FALSE, !.durable = durable]

(* B is declared one way only, as allowAsymmetric asks. *)
MCDeclarations == (A :> {DefaultOptions, Bounded}) @@ (B :> {Grouped(TRUE)})
AsymmetricTopics == {B}
MCOverrides    == {EmptyString, <<"x", "y">>, B}

(* AMQP-CPP's depth is passive.  SimpleAmqpClient has no passive declare:  *)
(* that backend can look without declaring only at what it can guess, a    *)
(* forensic queue.                                                         *)
MCInspects == [p \in Processes |-> IF p = simple THEN {deadLetterTopic(A)} ELSE {A}]

(* What the theorems about ForensicsFirst, DeclaredTwiceAgrees and         *)
(* NothingEvaporates suppose of the applications.                          *)
ASSUME MCAgreementAssumption == DeclarationsAgree /\ DurabilityAgrees /\ InspectsGuessable

=============================================================================
