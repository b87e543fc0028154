-------------------------- MODULE RouteMatch_proofs --------------------------
(***************************************************************************)
(* What the matcher of Routing::Pattern computes, for every binding and    *)
(* every route, however long.                                              *)
(*                                                                         *)
(* The matcher recurses over the words of the binding, so the proofs are   *)
(* inductions over a number.  They are written as arguments about the      *)
(* least counterexample, a fact about sets.                                *)
(***************************************************************************)
EXTENDS RouteMatch, WellFoundedInduction, TLAPS

(* A set of natural numbers that is not empty has a least element. *)
LEMMA LeastElement ==
  ASSUME NEW T \in SUBSET Nat, T # {}
  PROVE  \E n \in T : \A m \in T : n <= m
<1> DEFINE R == OpToRel(<, Nat)
<1>1. IsWellFoundedOn(R, Nat)
  BY NatLessThanWellFounded
<1>2. \A m, n \in Nat : <<m, n>> \in R <=> m < n
  BY DEF OpToRel
<1> HIDE DEF R
<1>3. PICK n \in T : \A m \in T : ~(<<m, n>> \in R)
  BY <1>1, WFMin
<1>4. \A m \in T : ~(m < n)
  BY <1>2, <1>3
<1>5. n \in Nat /\ \A m \in T : m \in Nat
  OBVIOUS
<1>6. \A m \in T : n <= m
  BY <1>4, <1>5
<1> QED BY <1>6

-----------------------------------------------------------------------------
(* The recursion.                                                          *)

Places(k) == 1..Len(k) + 1

(* Past the last word of the binding only the end of the route is left. *)
LEMMA LastWord ==
  ASSUME NEW S, NEW p \in Seq(S), NEW k \in Seq(S), NEW later
  PROVE  MatchedFrom(p, k, Len(p) + 1, later) = {Len(k) + 1}
BY DEF MatchedFrom

LEMMA MatchedPlaces ==
  ASSUME NEW S, NEW p \in Seq(S), NEW k \in Seq(S), NEW i, NEW later
  PROVE  MatchedFrom(p, k, i, later) \in SUBSET Places(k)
BY DEF MatchedFrom, Places

(* A function g solves the recursion for the last d + 1 words. *)
SolvedBy(p, k, d, g) ==
  /\ g \in [1..Len(p) + 1 -> SUBSET Places(k)]
  /\ \A i \in 1..Len(p) + 1 : i >= Len(p) + 1 - d => g[i] = MatchedFrom(p, k, i, g[i + 1])

(* One word more. *)
LEMMA SolveOneMore ==
  ASSUME NEW S, NEW p \in Seq(S), NEW k \in Seq(S), NEW d \in Nat, d > 0, d <= Len(p),
         NEW g, SolvedBy(p, k, d - 1, g)
  PROVE  \E h : SolvedBy(p, k, d, h)
<1> DEFINE n == Len(p) + 1
           m == MatchedFrom(p, k, n - d, g[n - d + 1])
           h == [g EXCEPT ![n - d] = m]
<1>1. Len(p) \in Nat /\ n \in Nat /\ n - d \in 1..n /\ n - d # n
  OBVIOUS
<1>2. m \in SUBSET Places(k)
  BY MatchedPlaces
<1>3. g \in [1..n -> SUBSET Places(k)]
  BY DEF SolvedBy
<1> HIDE DEF m
<1>4. /\ h \in [1..n -> SUBSET Places(k)]
      /\ h[n - d] = m
      /\ \A i \in 1..n : i # n - d => h[i] = g[i]
  BY <1>1, <1>2, <1>3
<1> HIDE DEF h
<1>5. ASSUME NEW i \in 1..n, i >= n - d PROVE h[i] = MatchedFrom(p, k, i, h[i + 1])
  <2>1. CASE i = n
    <3>1. g[i] = MatchedFrom(p, k, i, g[i + 1])
      BY <1>1, <2>1 DEF SolvedBy
    <3>2. h[i] = g[i]
      BY <1>1, <1>4, <2>1
    <3>3. \A later : MatchedFrom(p, k, n, later) = {Len(k) + 1}
      BY LastWord
    <3> HIDE DEF n
    <3> QED BY <2>1, <3>1, <3>2, <3>3
  <2>2. CASE i # n /\ i # n - d
    <3>1. i + 1 \in 1..n /\ i + 1 # n - d /\ i >= n - (d - 1)
      BY <1>1, <1>5, <2>2
    <3>2. g[i] = MatchedFrom(p, k, i, g[i + 1])
      BY <3>1 DEF SolvedBy
    <3>3. h[i] = g[i] /\ h[i + 1] = g[i + 1]
      BY <1>4, <2>2, <3>1
    <3> QED BY <3>2, <3>3
  <2>3. CASE i = n - d
    <3>1. i + 1 \in 1..n /\ i + 1 # n - d /\ i + 1 = n - d + 1
      BY <1>1, <2>3
    <3>2. h[i + 1] = g[n - d + 1]
      BY <1>4, <3>1
    <3>3. h[i] = m
      BY <1>4, <2>3
    <3> QED BY <2>3, <3>2, <3>3 DEF m
  <2> QED BY <2>1, <2>2, <2>3
<1>6. SolvedBy(p, k, d, h)
  BY <1>4, <1>5 DEF SolvedBy
<1> QED BY <1>6

LEMMA Solvable ==
  ASSUME NEW S, NEW p \in Seq(S), NEW k \in Seq(S)
  PROVE  \E g : SolvedBy(p, k, Len(p), g)
<1> DEFINE T == {d \in Nat : d <= Len(p) /\ ~\E g : SolvedBy(p, k, d, g)}
<1>1. SUFFICES ASSUME T # {} PROVE FALSE
  OBVIOUS
<1>2. PICK d \in T : \A e \in T : d <= e
  <2>1. T \in SUBSET Nat
    OBVIOUS
  <2> HIDE DEF T
  <2> QED BY <1>1, <2>1, LeastElement
<1>3. d \in Nat /\ d <= Len(p) /\ ~\E g : SolvedBy(p, k, d, g)
  OBVIOUS
<1>4. CASE d = 0
  <2> DEFINE g == [i \in 1..Len(p) + 1 |-> {Len(k) + 1}]
  <2>1. g \in [1..Len(p) + 1 -> SUBSET Places(k)]
    BY DEF Places
  <2>2. \A i \in 1..Len(p) + 1 : i >= Len(p) + 1 - 0 => i = Len(p) + 1
    OBVIOUS
  <2>3. g[Len(p) + 1] = {Len(k) + 1}
    OBVIOUS
  <2> HIDE DEF g
  <2>4. \A later : MatchedFrom(p, k, Len(p) + 1, later) = g[Len(p) + 1]
    BY <2>3, LastWord
  <2>5. \A i \in 1..Len(p) + 1 : i >= Len(p) + 1 - 0 => g[i] = MatchedFrom(p, k, i, g[i + 1])
    BY <2>2, <2>4
  <2>6. SolvedBy(p, k, 0, g)
    BY <2>1, <2>5 DEF SolvedBy
  <2> QED BY <1>3, <1>4, <2>6
<1>5. CASE d > 0
  <2>0. d - 1 \in Nat /\ d - 1 <= Len(p) /\ ~(d <= d - 1)
    BY <1>3, <1>5
  <2>1. d - 1 \notin T
    <3> HIDE DEF T
    <3> QED BY <1>2, <2>0
  <2>2. PICK g : SolvedBy(p, k, d - 1, g)
    BY <2>0, <2>1
  <2>3. \E h : SolvedBy(p, k, d, h)
    BY <1>3, <1>5, <2>2, SolveOneMore
  <2> QED BY <1>3, <2>3
<1> QED BY <1>3, <1>4, <1>5

(* matcherAt is what its definition says it is. *)
LEMMA MatcherEquation ==
  ASSUME NEW S, NEW p \in Seq(S), NEW k \in Seq(S)
  PROVE  matcherAt(p, k) =
           [i \in 1..Len(p) + 1 |-> MatchedFrom(p, k, i, matcherAt(p, k)[i + 1])]
<1> DEFINE Solves(g) == g = [i \in 1..Len(p) + 1 |-> MatchedFrom(p, k, i, g[i + 1])]
<1>1. PICK g : SolvedBy(p, k, Len(p), g)
  BY Solvable
<1>2. \A i \in 1..Len(p) + 1 : g[i] = MatchedFrom(p, k, i, g[i + 1])
  BY <1>1 DEF SolvedBy
<1>3. g \in [1..Len(p) + 1 -> SUBSET Places(k)]
  BY <1>1 DEF SolvedBy
<1>4. Solves(g)
  BY <1>2, <1>3
<1>5. matcherAt(p, k) = CHOOSE h : Solves(h)
  BY DEF matcherAt
<1> HIDE DEF Solves
<1>6. Solves(matcherAt(p, k))
  BY <1>4, <1>5
<1> QED BY <1>6 DEF Solves

LEMMA MatcherRow ==
  ASSUME NEW S, NEW p \in Seq(S), NEW k \in Seq(S), NEW i \in 1..Len(p) + 1
  PROVE  matcherAt(p, k)[i] = MatchedFrom(p, k, i, matcherAt(p, k)[i + 1])
<1> DEFINE g == matcherAt(p, k)
<1>1. g = [a \in 1..Len(p) + 1 |-> MatchedFrom(p, k, a, g[a + 1])]
  BY MatcherEquation
<1> HIDE DEF g
<1>2. g[i] = MatchedFrom(p, k, i, g[i + 1])
  BY <1>1
<1> QED BY <1>2 DEF g

-----------------------------------------------------------------------------
(* The reference.                                                          *)

(* What MatchesByCutting asks of the a-th word. *)
CutAt(p, k, cut, a) ==
  IF p[a] = "#" THEN cut[a] >= cut[a - 1]
  ELSE /\ cut[a] = cut[a - 1] + 1
       /\ p[a] # "*" => p[a] = k[cut[a]]

(* The rest of the route, from word j, can be cut along the rest of the    *)
(* binding, from word i.                                                   *)
CutFrom(p, k, i, j) ==
  \E cut \in [i - 1..Len(p) -> 0..Len(k)] :
    /\ cut[i - 1] = j - 1
    /\ cut[Len(p)] = Len(k)
    /\ \A a \in i..Len(p) : CutAt(p, k, cut, a)

LEMMA CutWhole ==
  ASSUME NEW p, NEW k
  PROVE  MatchesByCutting(p, k) <=> CutFrom(p, k, 1, 1)
BY DEF MatchesByCutting, CutFrom, CutAt

LEMMA CutNothing ==
  ASSUME NEW S, NEW p \in Seq(S), NEW k \in Seq(S), NEW j \in Places(k)
  PROVE  CutFrom(p, k, Len(p) + 1, j) <=> j = Len(k) + 1
<1> DEFINE n == Len(p)
           cut == [a \in n + 1 - 1..n |-> Len(k)]
<1>1. n \in Nat /\ Len(k) \in Nat /\ n + 1 - 1 = n /\ j \in Nat
  BY DEF Places
<1>2. ASSUME j = Len(k) + 1 PROVE CutFrom(p, k, n + 1, j)
  <2>1. cut \in [n + 1 - 1..n -> 0..Len(k)] /\ cut[n + 1 - 1] = j - 1 /\ cut[n] = Len(k)
    BY <1>1, <1>2
  <2>2. \A a \in n + 1..n : FALSE
    BY <1>1
  <2> HIDE DEF cut, n
  <2>3. n = Len(p)
    BY DEF n
  <2> QED BY <2>1, <2>2, <2>3 DEF CutFrom
<1>3. ASSUME CutFrom(p, k, n + 1, j) PROVE j = Len(k) + 1
  BY <1>1, <1>3 DEF CutFrom
<1> QED BY <1>2, <1>3

(* One word more in front. *)
LEMMA CutOneMore ==
  ASSUME NEW S, NEW p \in Seq(S), NEW k \in Seq(S), NEW i \in 1..Len(p), NEW j \in Places(k),
         NEW m \in Places(k), CutFrom(p, k, i + 1, m),
         IF p[i] = "#" THEN m >= j
         ELSE m = j + 1 /\ (p[i] # "*" => p[i] = k[j])
  PROVE  CutFrom(p, k, i, j)
<1> DEFINE n == Len(p)
<1>0. n \in Nat /\ Len(k) \in Nat /\ j \in Nat /\ m \in Nat /\ i \in Nat /\ i + 1 - 1 = i
      /\ j - 1 \in 0..Len(k) /\ 1 <= i /\ i <= n
  BY DEF Places
<1>1. PICK cut \in [i..n -> 0..Len(k)] :
        /\ cut[i] = m - 1
        /\ cut[n] = Len(k)
        /\ \A a \in i + 1..n : CutAt(p, k, cut, a)
  BY <1>0 DEF CutFrom
<1> DEFINE new == [a \in i - 1..n |-> IF a = i - 1 THEN j - 1 ELSE cut[a]]
<1>2. /\ new \in [i - 1..n -> 0..Len(k)]
      /\ new[i - 1] = j - 1
      /\ \A a \in i..n : new[a] = cut[a]
  BY <1>0
<1> HIDE DEF new
<1>3. new[n] = Len(k) /\ new[i] = m - 1
  BY <1>0, <1>1, <1>2
<1>4. CutAt(p, k, new, i)
  <2>1. CASE p[i] = "#"
    BY <1>0, <1>2, <1>3, <2>1 DEF CutAt
  <2>2. CASE p[i] # "#"
    <3>1. m - 1 = j /\ new[i] = new[i - 1] + 1
      BY <1>0, <1>2, <1>3, <2>2
    <3> QED BY <1>3, <2>2, <3>1 DEF CutAt
  <2> QED BY <2>1, <2>2
<1>5. ASSUME NEW a \in i + 1..n PROVE CutAt(p, k, new, a)
  <2>1. a \in i..n /\ a - 1 \in i..n
    BY <1>0
  <2>2. new[a] = cut[a] /\ new[a - 1] = cut[a - 1]
    BY <1>2, <2>1
  <2>3. CutAt(p, k, cut, a)
    BY <1>1
  <2> QED BY <2>2, <2>3 DEF CutAt
<1>6. \A a \in i..n : a = i \/ a \in i + 1..n
  BY <1>0
<1>7. \A a \in i..n : CutAt(p, k, new, a)
  BY <1>4, <1>5, <1>6
<1> QED BY <1>2, <1>3, <1>7 DEF CutFrom

(* One word less. *)
LEMMA CutOneLess ==
  ASSUME NEW S, NEW p \in Seq(S), NEW k \in Seq(S), NEW i \in 1..Len(p), NEW j \in Places(k),
         CutFrom(p, k, i, j)
  PROVE  \E m \in Places(k) :
           /\ CutFrom(p, k, i + 1, m)
           /\ IF p[i] = "#" THEN m >= j
              ELSE m = j + 1 /\ (p[i] # "*" => p[i] = k[j])
<1> DEFINE n == Len(p)
<1>0. n \in Nat /\ Len(k) \in Nat /\ j \in Nat /\ i \in Nat /\ i + 1 - 1 = i
      /\ 1 <= i /\ i <= n
  BY DEF Places
<1>1. PICK cut \in [i - 1..n -> 0..Len(k)] :
        /\ cut[i - 1] = j - 1
        /\ cut[n] = Len(k)
        /\ \A a \in i..n : CutAt(p, k, cut, a)
  BY DEF CutFrom
<1> DEFINE rest == [a \in i..n |-> cut[a]]
           m    == cut[i] + 1
<1>2. cut[i] \in 0..Len(k) /\ m \in Places(k) /\ m - 1 = cut[i] /\ cut[i] \in Nat
  <2>1. i \in i - 1..n
    BY <1>0
  <2>2. cut[i] \in 0..Len(k)
    BY <1>1, <2>1
  <2> QED BY <1>0, <2>2 DEF Places
<1>3. rest \in [i..n -> 0..Len(k)] /\ \A a \in i..n : rest[a] = cut[a]
  BY <1>0, <1>1
<1> HIDE DEF rest
<1>4. ASSUME NEW a \in i + 1..n PROVE CutAt(p, k, rest, a)
  <2>1. a \in i..n /\ a - 1 \in i..n
    BY <1>0
  <2>2. rest[a] = cut[a] /\ rest[a - 1] = cut[a - 1]
    BY <1>3, <2>1
  <2>3. CutAt(p, k, cut, a)
    BY <1>1, <2>1
  <2> QED BY <2>2, <2>3 DEF CutAt
<1>5. rest[i] = m - 1 /\ rest[n] = Len(k)
  BY <1>0, <1>1, <1>2, <1>3
<1>6. CutFrom(p, k, i + 1, m)
  <2> HIDE DEF m
  <2> QED BY <1>0, <1>3, <1>4, <1>5 DEF CutFrom
<1>7. CutAt(p, k, cut, i)
  BY <1>0, <1>1
<1>8. IF p[i] = "#" THEN m >= j ELSE m = j + 1 /\ (p[i] # "*" => p[i] = k[j])
  <2>1. CASE p[i] = "#"
    BY <1>0, <1>1, <1>2, <1>7, <2>1 DEF CutAt
  <2>2. CASE p[i] # "#"
    <3>1. cut[i] = j /\ (p[i] # "*" => p[i] = k[cut[i]])
      BY <1>0, <1>1, <1>7, <2>2 DEF CutAt
    <3> QED BY <2>2, <3>1
  <2> QED BY <2>1, <2>2
<1> HIDE DEF m
<1> QED BY <1>2, <1>6, <1>8

LEMMA MatcherStep ==
  ASSUME NEW S, NEW p \in Seq(S), NEW k \in Seq(S), NEW i \in 1..Len(p), NEW later,
         \A m \in Places(k) : m \in later <=> CutFrom(p, k, i + 1, m)
  PROVE  \A j \in Places(k) : j \in MatchedFrom(p, k, i, later) <=> CutFrom(p, k, i, j)
<1> SUFFICES ASSUME NEW j \in Places(k)
             PROVE  j \in MatchedFrom(p, k, i, later) <=> CutFrom(p, k, i, j)
  OBVIOUS
<1>0. Len(p) \in Nat /\ Len(k) \in Nat /\ j \in 1..Len(k) + 1 /\ i # Len(p) + 1
  BY DEF Places
<1>1. ASSUME j \in MatchedFrom(p, k, i, later) PROVE CutFrom(p, k, i, j)
  <2>1. CASE p[i] = "#"
    <3>1. PICK m \in j..Len(k) + 1 : m \in later
      BY <1>0, <1>1, <2>1 DEF MatchedFrom
    <3>2. m \in Places(k) /\ m >= j
      BY <1>0 DEF Places
    <3> QED BY <2>1, <3>1, <3>2, CutOneMore
  <2>2. CASE p[i] # "#"
    <3>1. j # Len(k) + 1 /\ (p[i] # "*" => p[i] = k[j]) /\ j + 1 \in later
      BY <1>0, <1>1, <2>2 DEF MatchedFrom
    <3>2. j + 1 \in Places(k)
      BY <1>0, <3>1 DEF Places
    <3>3. CutFrom(p, k, i + 1, j + 1)
      BY <3>1, <3>2
    <3> QED BY <2>2, <3>1, <3>2, <3>3, CutOneMore
  <2> QED BY <2>1, <2>2
<1>2. ASSUME CutFrom(p, k, i, j) PROVE j \in MatchedFrom(p, k, i, later)
  <2>1. PICK m \in Places(k) :
          /\ CutFrom(p, k, i + 1, m)
          /\ IF p[i] = "#" THEN m >= j ELSE m = j + 1 /\ (p[i] # "*" => p[i] = k[j])
    BY <1>2, CutOneLess
  <2>2. m \in later /\ m \in 1..Len(k) + 1
    BY <2>1 DEF Places
  <2>3. CASE p[i] = "#"
    <3>1. m \in j..Len(k) + 1
      BY <1>0, <2>1, <2>2, <2>3
    <3> QED BY <1>0, <2>2, <2>3, <3>1 DEF MatchedFrom
  <2>4. CASE p[i] # "#"
    <3>1. j # Len(k) + 1 /\ m = j + 1
      BY <1>0, <2>1, <2>2, <2>4
    <3> QED BY <1>0, <2>1, <2>2, <2>4, <3>1 DEF MatchedFrom
  <2> QED BY <2>3, <2>4
<1> QED BY <1>1, <1>2

LEMMA MatcherCuts ==
  ASSUME NEW S, NEW p \in Seq(S), NEW k \in Seq(S)
  PROVE  \A j \in Places(k) : j \in matcherAt(p, k)[1] <=> CutFrom(p, k, 1, j)
<1> DEFINE n == Len(p) + 1
           Right(i) == \A j \in Places(k) : j \in matcherAt(p, k)[i] <=> CutFrom(p, k, i, j)
           T == {d \in Nat : d <= Len(p) /\ ~Right(n - d)}
<1>1. Len(p) \in Nat
  OBVIOUS
<1>2. Right(n)
  <2>1. matcherAt(p, k)[n] = {Len(k) + 1}
    BY <1>1, MatcherRow, LastWord
  <2> QED BY <2>1, CutNothing
<1>3. ASSUME NEW i \in 1..Len(p), Right(i + 1) PROVE Right(i)
  <2>1. matcherAt(p, k)[i] = MatchedFrom(p, k, i, matcherAt(p, k)[i + 1])
    BY <1>1, MatcherRow
  <2> QED BY <1>3, <2>1, MatcherStep
<1> HIDE DEF Right
<1>4. SUFFICES ASSUME T # {} PROVE FALSE
  <2>1. Len(p) \notin T /\ n - Len(p) = 1
    BY <1>1
  <2>2. Right(1)
    BY <1>1, <2>1
  <2> QED BY <2>2 DEF Right
<1>5. PICK d \in T : \A e \in T : d <= e
  <2>1. T \in SUBSET Nat
    OBVIOUS
  <2> HIDE DEF T
  <2> QED BY <1>4, <2>1, LeastElement
<1>6. d \in Nat /\ d <= Len(p) /\ ~Right(n - d)
  OBVIOUS
<1>7. d # 0
  BY <1>1, <1>2, <1>6
<1>8. d - 1 \in Nat /\ d - 1 <= Len(p) /\ ~(d <= d - 1) /\ n - d \in 1..Len(p)
      /\ n - (d - 1) = (n - d) + 1
  BY <1>1, <1>6, <1>7
<1>9. d - 1 \notin T
  <2> HIDE DEF T
  <2> QED BY <1>5, <1>8
<1>10. Right((n - d) + 1)
  BY <1>8, <1>9
<1> QED BY <1>3, <1>6, <1>8, <1>10

(* Theorem: the backtracking matcher of routeMatches accepts exactly the   *)
(* routes that can be cut along the binding, one piece for each of its     *)
(* words, for every binding and every route.                               *)
THEOREM MatcherIsReference ==
  ASSUME NEW S, NEW binding \in Seq(S), NEW route \in Seq(S)
  PROVE  routeMatches(binding, route) <=> MatchesByCutting(binding, route)
<1>1. 1 \in Places(route)
  BY DEF Places
<1> QED BY <1>1, MatcherCuts, CutWhole DEF routeMatches

(* What is published with the key of a binding reaches it, wildcards in    *)
(* the key or not: "*" and "#" match themselves.                           *)
THEOREM RouteMatchesItself ==
  ASSUME NEW S, NEW p \in Seq(S)
  PROVE  routeMatches(p, p)
<1> DEFINE cut == [a \in 0..Len(p) |-> a]
<1>1. cut \in [0..Len(p) -> 0..Len(p)] /\ \A a \in 0..Len(p) : cut[a] = a
  OBVIOUS
<1>2. \A a \in 1..Len(p) : cut[a] = a /\ cut[a - 1] = a - 1 /\ a - 1 + 1 = a /\ a >= a - 1
  OBVIOUS
<1> HIDE DEF cut
<1>3. MatchesByCutting(p, p)
  BY <1>1, <1>2 DEF MatchesByCutting
<1> QED BY <1>3, MatcherIsReference

=============================================================================
