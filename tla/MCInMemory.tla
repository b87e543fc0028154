----------------------------- MODULE MCInMemory -----------------------------
(***************************************************************************)
(* Model values for the runs of InMemoryTransport and InMemoryContract.    *)
(***************************************************************************)
EXTENDS InMemoryContract, TLC

MCStrings == {"", "motus", "dead-letter", "motus.dead-letter",
              "a", "b", "g", "x", "y", "z", "*", "#"}

A  == <<"a">>
B  == <<"b">>
FA == deadLetterTopic(A)
FB == deadLetterTopic(B)

(* A bounded source and the forensic destination behind it: the policies   *)
(* that evict and that dead-letter what they refuse, against a declaration *)
(* of the same name without a forensic destination.                        *)
BoundedTopics == {A}
Bounded(policy) == [DefaultOptions EXCEPT !.maxLength = 1, !.overflow = policy]
BoundedDeclarations ==
  A :> {Bounded("DropHead"), Bounded("RejectPublishDlx"),
        [DefaultOptions EXCEPT !.deadLetter = FALSE]}

(* Two destinations of one group, one of them bounded, and a third name    *)
(* that is never declared.                                                 *)
GroupTopics == {A, B}
Grouped(route, routing) ==
  [DefaultOptions EXCEPT !.group = "g", !.route = route, !.routing = routing]
GroupDeclarations ==
  (A :> {Grouped(<<"x", "*">>, "Pattern"),
         [Bounded("DropHead") EXCEPT !.group = "g", !.routing = "Broadcast"]})
    @@ (B :> {Grouped(<<"#", "y">>, "Pattern"),
              Grouped(EmptyString, "Exact"),
              [Grouped(EmptyString, "Broadcast")
                 EXCEPT !.deadLetter = FALSE, !.maxLength = 1,
                        !.overflow = "RejectPublish"]})
GroupRoutes == {<<"x", "y">>, <<"z", "z">>}

(* One destination declared twice, with a group and without. *)
TwoDeclarations == A :> {DefaultOptions, Grouped(EmptyString, "Pattern")}

(* Every run's declarations keep forensic destinations out of the callers'   *)
(* groups.                                                                 *)
ASSUME MCForensicsAssumption == ForensicsApart

TransportSymmetry == Permutations(Transports)

(* Nothing in the passing runs depends on how many deliveries were          *)
(* abandoned: states that differ only in that counter are one.             *)
ApartFromAbandoned ==
  <<brokerVars, connected, subscription, outstanding, pc, request, historyVars,
    [p \in Transports |-> [c \in Counters \ {"abandoned"} |-> stats[p][c]]]>>

(* std::map visits its keys in the order of std::string. *)
NameRank == [n \in Names |-> CASE n = A -> 1 [] n = B -> 2 [] n = FA -> 3 [] n = FB -> 4]

=============================================================================
