------------------------------- MODULE MCSeam -------------------------------
(***************************************************************************)
(* The functions of the seam, each compared with a reference definition on *)
(* every input up to a bound: an input grows word by word, byte by byte,   *)
(* attempt by attempt.                                                     *)
(***************************************************************************)
EXTENDS RouteMatch, Envelope, ReconnectPolicy

CONSTANTS Words, MaxWords,    \* literal words; words of a binding and a route
          Bytes, MaxRest,     \* characters; bytes after the magic
          Delays, MaxTries    \* initial and maximal delays; failed attempts

ASSUME InputAssumption ==
  /\ Words # {} /\ Delays \subseteq Nat
  /\ Bytes \subseteq Characters

VARIABLES binding, route, wire, initialDelay, maxDelay, tries

routeVars   == <<binding, route>>
backoffVars == <<initialDelay, maxDelay, tries>>
vars == <<routeVars, wire, backoffVars>>

(* What an input starts from while the inputs of another function grow.    *)
AtRest(subject) ==
  /\ subject # "route" => binding = <<"*">> /\ route = <<CHOOSE w \in Words : TRUE>>
  /\ subject # "wire"  => wire = [magic |-> TRUE, rest |-> <<>>]
  /\ subject # "tries" => initialDelay = 0 /\ maxDelay = 0 /\ tries = 1

Init ==
  \/ /\ binding \in [1..1 -> Words \cup {"*", "#"}] /\ route \in [1..1 -> Words]
     /\ AtRest("route")
  \/ wire \in [magic : BOOLEAN, rest : {<<>>}] /\ AtRest("wire")
  \/ initialDelay \in Delays /\ maxDelay \in Delays /\ tries = 1 /\ AtRest("tries")

GrowBinding == /\ AtRest("route") /\ Len(binding) < MaxWords
               /\ \E w \in Words \cup {"*", "#"} : binding' = Append(binding, w)
               /\ UNCHANGED <<route, wire, backoffVars>>

GrowRoute == /\ AtRest("route") /\ Len(route) < MaxWords
             /\ \E w \in Words : route' = Append(route, w)
             /\ UNCHANGED <<binding, wire, backoffVars>>

GrowWire == /\ AtRest("wire") /\ Len(wire.rest) < MaxRest
            /\ \E c \in Bytes : wire' = [wire EXCEPT !.rest = Append(@, c)]
            /\ UNCHANGED <<routeVars, backoffVars>>

GrowTries == /\ AtRest("tries") /\ tries < MaxTries
             /\ tries' = tries + 1
             /\ UNCHANGED <<routeVars, wire, initialDelay, maxDelay>>

Next == GrowBinding \/ GrowRoute \/ GrowWire \/ GrowTries
Spec == Init /\ [][Next]_vars

-----------------------------------------------------------------------------
(* The backtracking matcher of routeMatches accepts exactly the routes     *)
(* that can be cut along the binding, for every binding and route: "#" in  *)
(* the middle, several "#", "#" for no word at all, "*" at either end.     *)
MatchesReference ==
  routeMatches(binding, route) = MatchesByCutting(binding, route)

(* The number a field of digits denotes, however long it is. *)
Denoted(field) ==
  LET number[i \in 0..Len(field)] ==
        IF i = 0 THEN 0 ELSE 10 * number[i - 1] + ValueOf(field[i])
  IN  number[Len(field)]

(* deserialize accepts a body exactly when it is an envelope whose version *)
(* field denotes this build's version: no field is so long that it wraps   *)
(* around to a version it is not.                                          *)
AcceptsOwnVersionOnly ==
  (deserialize(wire) # Refused) <=>
    /\ wire.magic /\ Len(wire.rest) <= MaxBytes
    /\ \E n \in 2..Len(wire.rest) :
         LET field == SubSeq(wire.rest, 1, n - 1) IN
         /\ wire.rest[n] = ":"
         /\ \A i \in DOMAIN field : IsDigit(field[i])
         /\ Denoted(field) = FORMAT_VERSION

(* What serialize lets through, deserialize gives back unchanged, also     *)
(* when the payload holds separators and digits of its own, and right up   *)
(* to the size limit.                                                      *)
RoundTrips ==
  LET payload == wire.rest IN
  serialize(payload) # NotSent => deserialize(serialize(payload)) = payload

(* Each delay is twice the one before it, or the cap. *)
DoubledOrCapped ==
  Delay(initialDelay, maxDelay, tries) =
    LET before == IF tries = 1 THEN initialDelay
                  ELSE 2 * Delay(initialDelay, maxDelay, tries - 1)
    IN  IF before < maxDelay THEN before ELSE maxDelay

(* The backoff of reconnection doubles up to its cap as long as the shift  *)
(* fits the count the build uses: the cap, applied after the shift, comes  *)
(* in time.                                                                *)
BackoffDoubles == DelayFits(initialDelay, tries) => DoubledOrCapped

(* What ReconnectPolicy's comment says and the code does not do, checked   *)
(* by BackoffOverflow.cfg: "Exponential backoff: initialDelay, doubled per *)
(* attempt, capped at maxDelay", with no limit on maxAttempts.             *)
BackoffAlwaysDoubles == DoubledOrCapped

=============================================================================
