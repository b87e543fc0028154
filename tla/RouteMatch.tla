----------------------------- MODULE RouteMatch -----------------------------
(***************************************************************************)
(* routeMatches (ITransport.hpp): what Routing::Pattern means.  A binding  *)
(* and a route are sequences of words; "*" stands for exactly one word and *)
(* "#" for zero or more.                                                   *)
(***************************************************************************)
EXTENDS Integers, Sequences

(* Variant: the cheap "#" that takes all that is left. *)
GreedyHash(p, k, i, later) ==
  {j \in 1..Len(k) + 1 :
     IF i = Len(p) + 1 THEN j = Len(k) + 1
     ELSE IF p[i] = "#" THEN Len(k) + 1 \in later
     ELSE IF j = Len(k) + 1 THEN FALSE
     ELSE (p[i] = "*" \/ p[i] = k[j]) /\ j + 1 \in later}

(* Matcher::at(i, j): the j for which it returns true, that is, the words  *)
(* of the route from which on it matches the rest of the binding, from     *)
(* word i.  It asks the same of the next word of the binding; later is the *)
(* answer.  The indices count from 1 here and from 0 in the code.          *)
MatchedFrom(p, k, i, later) ==
  {j \in 1..Len(k) + 1 :
     IF i = Len(p) + 1 THEN j = Len(k) + 1
     ELSE IF p[i] = "#" THEN \E n \in j..Len(k) + 1 : n \in later
     ELSE IF j = Len(k) + 1 THEN FALSE
     ELSE (p[i] = "*" \/ p[i] = k[j]) /\ j + 1 \in later}

matcherAt(p, k) ==
  LET at[i \in 1..Len(p) + 1] == MatchedFrom(p, k, i, at[i + 1])
  IN  at

routeMatches(binding, route) == 1 \in matcherAt(binding, route)[1]

(* The reference: the route can be cut into one piece per word of the      *)
(* binding, where cut[i] is the number of route words the first i words of *)
(* the binding account for.                                                *)
MatchesByCutting(p, k) ==
  \E cut \in [0..Len(p) -> 0..Len(k)] :
    /\ cut[0] = 0
    /\ cut[Len(p)] = Len(k)
    /\ \A i \in 1..Len(p) :
         IF p[i] = "#" THEN cut[i] >= cut[i - 1]
         ELSE /\ cut[i] = cut[i - 1] + 1
              /\ p[i] # "*" => p[i] = k[cut[i]]

=============================================================================
