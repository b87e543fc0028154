------------------------------ MODULE MCDepth -------------------------------
(***************************************************************************)
(* Model values for a process on the blocking backend that declares two    *)
(* destinations and asks for the depth of the one it declared first.       *)
(***************************************************************************)
EXTENDS AmqpTopology, TLC

CONSTANT simple      \* the process

MCStrings == {"", "motus", "dead-letter", "motus.dead-letter", "a", "b"}

A == <<"a">>
B == <<"b">>

MCBackend == simple :> "simpleamqp"
MCTopics  == {A, B}

(* A is bounded, which only allowAsymmetric permits. *)
MCDeclarations ==
  (A :> {[DefaultOptions EXCEPT !.maxLength = 1]}) @@ (B :> {DefaultOptions})
AsymmetricTopics == {A}
MCInspects == simple :> {A}

=============================================================================
