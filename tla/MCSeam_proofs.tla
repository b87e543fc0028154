---------------------------- MODULE MCSeam_proofs ----------------------------
(***************************************************************************)
(* The functions of the seam, compared with their reference definitions on *)
(* every input, however long.                                              *)
(*                                                                         *)
(* The loops of the code are recursive functions.  That such a function    *)
(* exists, and what it computes, is an induction over a number, stated for *)
(* sets and functions so that one lemma serves all of them.                *)
(***************************************************************************)
EXTENDS MCSeam, RouteMatch_proofs, SequenceTheorems, TLAPS

-----------------------------------------------------------------------------
(* Loops.                                                                  *)

LEMMA UpTo ==
  ASSUME NEW n \in Nat, NEW T, 0 \in T, \A m \in 1..n : m - 1 \in T => m \in T
  PROVE  \A m \in 0..n : m \in T
<1> DEFINE U == {m \in Nat : m <= n /\ m \notin T}
<1>1. SUFFICES ASSUME U # {} PROVE FALSE
  OBVIOUS
<1>2. PICK m \in U : \A k \in U : m <= k
  <2>1. U \in SUBSET Nat
    OBVIOUS
  <2> HIDE DEF U
  <2> QED BY <1>1, <2>1, LeastElement
<1>3. m \in Nat /\ m <= n /\ m \notin T
  OBVIOUS
<1>4. m # 0
  BY <1>3
<1>5. m \in 1..n /\ m - 1 \in Nat /\ m - 1 <= n /\ ~(m <= m - 1)
  BY <1>3, <1>4
<1>6. m - 1 \notin U
  <2> HIDE DEF U
  <2> QED BY <1>2, <1>5
<1>7. m - 1 \in T
  BY <1>5, <1>6
<1> QED BY <1>3, <1>5, <1>7

(* n turns of a loop from x on, in which turn k makes step[k][v] of v. *)
Turns(S, x, n, step) ==
  \E g \in [0..n -> S] : g[0] = x /\ \A k \in 1..n : g[k] = step[k][g[k - 1]]

(* A loop that turns a value of S into a value of S runs n times. *)
LEMMA Iterates ==
  ASSUME NEW S, NEW x \in S, NEW n \in Nat, NEW step \in [1..n -> [S -> S]]
  PROVE  Turns(S, x, n, step)
<1> DEFINE Runs(g, m) == g[0] = x /\ \A k \in 1..m : g[k] = step[k][g[k - 1]]
           T == {m \in 0..n : \E g \in [0..n -> S] : Runs(g, m)}
<1>1. 0 \in T
  <2> DEFINE g == [i \in 0..n |-> x]
  <2>1. g \in [0..n -> S] /\ g[0] = x /\ 1..0 = {}
    OBVIOUS
  <2> HIDE DEF g
  <2>2. Runs(g, 0)
    BY <2>1
  <2> HIDE DEF Runs
  <2> QED BY <2>1, <2>2
<1>2. ASSUME NEW m \in 1..n, m - 1 \in T PROVE m \in T
  <2>1. PICK g \in [0..n -> S] : Runs(g, m - 1)
    BY <1>2
  <2> DEFINE h == [g EXCEPT ![m] = step[m][g[m - 1]]]
  <2>2. m \in 0..n /\ m - 1 \in 0..n /\ m # 0 /\ 0 \in 0..n
    OBVIOUS
  <2>3. g[m - 1] \in S /\ step[m][g[m - 1]] \in S
    BY <2>1, <2>2
  <2>4. /\ h \in [0..n -> S] /\ h[m] = step[m][g[m - 1]]
        /\ \A i \in 0..n : i # m => h[i] = g[i]
    BY <2>1, <2>2, <2>3
  <2> HIDE DEF h
  <2>5. h[0] = x
    BY <2>1, <2>2, <2>4
  <2>6. ASSUME NEW k \in 1..m PROVE h[k] = step[k][h[k - 1]]
    <3>1. k - 1 \in 0..n /\ k - 1 # m /\ h[k - 1] = g[k - 1]
      BY <2>4
    <3>2. CASE k = m
      BY <2>4, <3>1, <3>2
    <3>3. CASE k # m
      <4>1. k \in 1..m - 1 /\ k \in 0..n
        BY <3>3
      <4> QED BY <2>1, <2>4, <3>1, <3>3, <4>1
    <3> QED BY <3>2, <3>3
  <2>7. Runs(h, m)
    BY <2>5, <2>6
  <2> HIDE DEF Runs
  <2> QED BY <2>2, <2>4, <2>7
<1> HIDE DEF T
<1>3. n \in T
  <2>1. \A m \in 1..n : m - 1 \in T => m \in T
    BY <1>2
  <2>2. \A m \in 0..n : m \in T
    BY <1>1, <2>1, UpTo
  <2> QED BY <2>2
<1> QED BY <1>3 DEF T, Turns

(* Arithmetic modulo 2 * limit leaves alone what is within the limit. *)
LEMMA WithinLimit ==
  ASSUME NEW limit \in Nat \ {0}, NEW n \in Int
  PROVE  /\ ((n + limit) % (2 * limit)) - limit \in Int
         /\ -limit <= n /\ n < limit => ((n + limit) % (2 * limit)) - limit = n
<1> DEFINE m == 2 * limit
           k == n + limit
<1>1. m \in Nat \ {0} /\ k \in Int
  OBVIOUS
<1> HIDE DEF m, k
<1>2. k % m \in Int /\ (0 <= k /\ k < m => k % m = k)
  BY <1>1
<1> QED BY <1>2 DEF m, k

-----------------------------------------------------------------------------
(* The backoff.                                                            *)

(* g[k] is n shifted by k places. *)
Doubles(g, n, places) ==
  /\ g \in [0..places -> Nat] /\ g[0] = n
  /\ \A k \in 1..places : g[k] = 2 * g[k - 1]

LEMMA DoublesExists ==
  ASSUME NEW n \in Nat, NEW places \in Nat
  PROVE  \E g : Doubles(g, n, places)
<1> DEFINE S == Nat
           step == [k \in 1..places |-> [v \in S |-> 2 * v]]
<1>1. n \in S /\ step \in [1..places -> [S -> S]]
  OBVIOUS
<1>2. \A k \in 1..places : \A v \in S : step[k][v] = 2 * v
  OBVIOUS
<1>3. S = Nat
  OBVIOUS
<1> HIDE DEF step, S
<1>4. PICK g \in [0..places -> S] : g[0] = n /\ \A k \in 1..places : g[k] = step[k][g[k - 1]]
  <2>1. Turns(S, n, places, step)
    BY <1>1, Iterates
  <2> QED BY <2>1 DEF Turns
<1>5. \A k \in 1..places : k - 1 \in 0..places
  OBVIOUS
<1>6. \A k \in 1..places : g[k] = 2 * g[k - 1]
  BY <1>2, <1>4, <1>5
<1> QED BY <1>3, <1>4, <1>6 DEF Doubles

LEMMA DoublesOnce ==
  ASSUME NEW n \in Nat, NEW places \in Nat, NEW g, NEW h,
         Doubles(g, n, places), Doubles(h, n, places)
  PROVE  g[places] = h[places]
<1> DEFINE T == {k \in Nat : g[k] = h[k]}
<1>1. 0 \in T
  BY DEF Doubles
<1>2. \A k \in 1..places : k - 1 \in T => k \in T
  BY DEF Doubles
<1>3. places \in T
  <2> HIDE DEF T
  <2>1. \A m \in 0..places : m \in T
    BY <1>1, <1>2, UpTo
  <2> QED BY <2>1
<1> QED BY <1>3

LEMMA ShiftIs ==
  ASSUME NEW n \in Nat, NEW places \in Nat, NEW g, Doubles(g, n, places)
  PROVE  ShiftLeft(n, places) = g[places]
<1> DEFINE Solves(h) == h = [i \in 0..places |-> IF i = 0 THEN n ELSE 2 * h[i - 1]]
           f == CHOOSE h : Solves(h)
<1>1. ShiftLeft(n, places) = f[places]
  BY DEF ShiftLeft
<1>2. Solves(g)
  <2>1. g \in [0..places -> Nat] /\ \A i \in 0..places : g[i] = IF i = 0 THEN n ELSE 2 * g[i - 1]
    <3>1. \A i \in 0..places : i = 0 \/ i \in 1..places
      OBVIOUS
    <3> QED BY <3>1 DEF Doubles
  <2> QED BY <2>1
<1> HIDE DEF Solves
<1>3. Solves(f)
  BY <1>2
<1> HIDE DEF f
<1>4. DOMAIN f = 0..places /\ \A i \in 0..places : f[i] = IF i = 0 THEN n ELSE 2 * f[i - 1]
  BY <1>3 DEF Solves
<1> DEFINE T == {k \in Nat : f[k] = g[k]}
<1>5. 0 \in T
  BY <1>4 DEF Doubles
<1>6. \A k \in 1..places : k - 1 \in T => k \in T
  <2>1. \A k \in 1..places : k \in 0..places /\ k # 0
    OBVIOUS
  <2> QED BY <1>4, <2>1 DEF Doubles
<1>7. places \in T
  <2> HIDE DEF T
  <2>1. \A m \in 0..places : m \in T
    BY <1>5, <1>6, UpTo
  <2> QED BY <2>1
<1> QED BY <1>1, <1>7

LEMMA ShiftDoubles ==
  ASSUME NEW n \in Nat, NEW places \in Nat
  PROVE  /\ ShiftLeft(n, places) \in Nat
         /\ places = 0 => ShiftLeft(n, places) = n
         /\ places # 0 => ShiftLeft(n, places) = 2 * ShiftLeft(n, places - 1)
<1>1. PICK g : Doubles(g, n, places)
  BY DoublesExists
<1>2. ShiftLeft(n, places) = g[places]
  BY <1>1, ShiftIs
<1>3. places \in 0..places
  OBVIOUS
<1>4. g[places] \in Nat /\ (places = 0 => g[places] = n)
  BY <1>1, <1>3 DEF Doubles
<1>5. CASE places = 0
  BY <1>2, <1>4, <1>5
<1>6. CASE places # 0
  <2> DEFINE h == [k \in 0..places - 1 |-> g[k]]
  <2>1. places - 1 \in Nat /\ places - 1 \in 0..places - 1 /\ places \in 1..places
    BY <1>6
  <2>2. \A k \in 0..places - 1 : k \in 0..places /\ h[k] = g[k]
    BY <2>1
  <2>3. h \in [0..places - 1 -> Nat]
    BY <1>1, <2>2 DEF Doubles
  <2>4. h[0] = n
    BY <1>1, <2>1, <2>2 DEF Doubles
  <2>5. \A k \in 1..places - 1 : k \in 1..places /\ k \in 0..places - 1 /\ k - 1 \in 0..places - 1
    BY <2>1
  <2> HIDE DEF h
  <2>6. \A k \in 1..places - 1 : h[k] = 2 * h[k - 1]
    BY <1>1, <2>2, <2>5 DEF Doubles
  <2>7. Doubles(h, n, places - 1)
    BY <2>3, <2>4, <2>6 DEF Doubles
  <2>8. ShiftLeft(n, places - 1) = h[places - 1]
    BY <2>1, <2>7, ShiftIs
  <2>9. g[places] = 2 * g[places - 1]
    BY <1>1, <2>1 DEF Doubles
  <2>10. ShiftLeft(n, places) = 2 * ShiftLeft(n, places - 1)
    BY <1>2, <2>1, <2>2, <2>8, <2>9
  <2> QED BY <1>2, <1>4, <1>6, <2>10
<1> QED BY <1>5, <1>6

(* The delay within the count is what its definition would be without it. *)
LEMMA DelayWithin ==
  ASSUME NEW i \in Nat, NEW m \in Nat, NEW k \in Nat \ {0}, DelayFits(i, k)
  PROVE  Delay(i, m, k) =
           IF ShiftLeft(i, k - 1) < m THEN ShiftLeft(i, k - 1) ELSE m
<1> DEFINE s == ShiftLeft(i, k - 1)
<1>1. s \in Nat
  <2>1. k - 1 \in Nat
    OBVIOUS
  <2> QED BY <2>1, ShiftDoubles
<1>2. s < CountLimit
  BY DEF DelayFits
<1>3. WrappedCount(s) = s
  <2>1. CountLimit \in Nat \ {0}
    BY CountAssumption
  <2> HIDE DEF s
  <2>2. s \in Int /\ -CountLimit <= s /\ s < CountLimit
    BY <1>1, <1>2, <2>1
  <2> QED BY <2>1, <2>2, WithinLimit DEF WrappedCount
<1> QED BY <1>3 DEF Delay

LEMMA DoublesUpToCap ==
  ASSUME NEW i \in Nat, NEW m \in Nat, NEW k \in Nat \ {0}, DelayFits(i, k)
  PROVE  Delay(i, m, k) =
           LET before == IF k = 1 THEN i ELSE 2 * Delay(i, m, k - 1)
           IN  IF before < m THEN before ELSE m
<1> DEFINE s == ShiftLeft(i, k - 1)
<1>1. k - 1 \in Nat
  OBVIOUS
<1>2. /\ s \in Nat /\ (k - 1 = 0 => s = i)
      /\ k - 1 # 0 => s = 2 * ShiftLeft(i, k - 1 - 1)
  BY <1>1, ShiftDoubles
<1>3. Delay(i, m, k) = IF s < m THEN s ELSE m
  BY DelayWithin
<1>4. CASE k = 1
  BY <1>2, <1>3, <1>4
<1>5. CASE k # 1
  <2> DEFINE r == ShiftLeft(i, k - 1 - 1)
  <2>1. k - 1 \in Nat \ {0} /\ k - 1 - 1 \in Nat
    BY <1>5
  <2>2. r \in Nat /\ s = 2 * r
    BY <1>2, <2>1, ShiftDoubles
  <2>3. DelayFits(i, k - 1)
    BY <2>2, CountAssumption DEF DelayFits
  <2>4. Delay(i, m, k - 1) = IF r < m THEN r ELSE m
    BY <2>1, <2>3, DelayWithin
  <2> DEFINE d == Delay(i, m, k - 1)
             e == Delay(i, m, k)
  <2> HIDE DEF r, s, d, e
  <2>5. d = (IF r < m THEN r ELSE m) /\ e = (IF s < m THEN s ELSE m)
    BY <1>3, <2>4 DEF d, e
  <2>6. e = IF 2 * d < m THEN 2 * d ELSE m
    BY <2>2, <2>5
  <2> QED BY <1>5, <2>6 DEF d, e
<1> QED BY <1>4, <1>5

-----------------------------------------------------------------------------
(* The version field.                                                      *)

LEMMA DigitValues ==
  ASSUME NEW c, IsDigit(c)
  PROVE  ValueOf(c) \in 0..9
<1>1. DOMAIN Digits = 1..10
  BY DEF Digits
<1>2. (CHOOSE i \in DOMAIN Digits : Digits[i] = c) \in DOMAIN Digits
  BY DEF IsDigit
<1> QED BY <1>1, <1>2 DEF ValueOf

LEMMA ValueOfOne == IsDigit("1") /\ ValueOf("1") = 1
<1>1. DOMAIN Digits = 1..10
  BY DEF Digits
<1>2. \A i \in 1..10 : Digits[i] = "1" <=> i = 2
  BY DEF Digits
<1>3. IsDigit("1")
  BY <1>1, <1>2 DEF IsDigit
<1>4. (CHOOSE i \in DOMAIN Digits : Digits[i] = "1") = 2
  BY <1>1, <1>2
<1> QED BY <1>3, <1>4 DEF ValueOf

LEMMA ColonIsNoDigit == ~IsDigit(":") /\ "refused" \notin Characters
BY DEF IsDigit, Digits, Characters

LEMMA IntWidths ==
  /\ IntLimit \in Nat \ {0} /\ VersionGuard \in Nat /\ 10 * VersionGuard + 9 < IntLimit
  /\ NoVersion \in Int /\ NoVersion < 0
BY EnvelopeAssumption DEF NoVersion

(* One turn of the loop. *)
LEMMA DigitRead ==
  ASSUME NEW v \in Int, NEW c
  PROVE  /\ readDigit(v, c) \in Int
         /\ ~IsDigit(c) \/ v = NoVersion \/ v > VersionGuard => readDigit(v, c) = NoVersion
         /\ IsDigit(c) /\ v \in 0..VersionGuard => readDigit(v, c) = 10 * v + ValueOf(c)
<1>1. CASE ~IsDigit(c) \/ v = NoVersion \/ v > VersionGuard
  <2>1. readDigit(v, c) = NoVersion
    BY <1>1 DEF readDigit
  <2>2. ~(IsDigit(c) /\ v \in 0..VersionGuard)
    BY <1>1, IntWidths
  <2> QED BY <2>1, <2>2, IntWidths
<1>2. CASE IsDigit(c) /\ v # NoVersion /\ ~(v > VersionGuard)
  <2> DEFINE n == 10 * v + ValueOf(c)
  <2>1. ValueOf(c) \in 0..9
    BY <1>2, DigitValues
  <2>2. n \in Int
    BY <2>1
  <2>3. readDigit(v, c) = Wrapped(n)
    BY <1>2 DEF readDigit
  <2>4. v \in 0..VersionGuard => -IntLimit <= n /\ n < IntLimit
    BY <2>1, IntWidths
  <2> HIDE DEF n
  <2>5. Wrapped(n) \in Int /\ (-IntLimit <= n /\ n < IntLimit => Wrapped(n) = n)
    BY <2>2, IntWidths, WithinLimit DEF Wrapped
  <2> QED BY <1>2, <2>3, <2>4, <2>5 DEF n
<1> QED BY <1>1, <1>2

(* v[i] is the version after i characters of the field. *)
Reads(v, field) ==
  /\ v \in [0..Len(field) -> Int] /\ v[0] = 0
  /\ \A k \in 1..Len(field) : v[k] = readDigit(v[k - 1], field[k])

LEMMA ReadsExists ==
  ASSUME NEW S, NEW field \in Seq(S)
  PROVE  \E v : Reads(v, field)
<1> DEFINE I == Int
           n == Len(field)
           step == [k \in 1..n |-> [v \in I |-> readDigit(v, field[k])]]
<1>1. 0 \in I /\ n \in Nat
  OBVIOUS
<1>2. \A k \in 1..n : \A v \in I : readDigit(v, field[k]) \in I
  BY DigitRead
<1>3. I = Int /\ n = Len(field)
  OBVIOUS
<1>4. step \in [1..n -> [I -> I]]
  <2> HIDE DEF I, n
  <2> QED BY <1>2
<1>5. \A k \in 1..n : \A v \in I : step[k][v] = readDigit(v, field[k])
  <2> HIDE DEF I, n
  <2> QED OBVIOUS
<1> HIDE DEF step, I, n
<1>6. PICK g \in [0..n -> I] : g[0] = 0 /\ \A k \in 1..n : g[k] = step[k][g[k - 1]]
  <2>1. Turns(I, 0, n, step)
    BY <1>1, <1>4, Iterates
  <2> QED BY <2>1 DEF Turns
<1>7. \A k \in 1..n : k - 1 \in 0..n
  BY <1>1
<1>8. \A k \in 1..n : g[k] = readDigit(g[k - 1], field[k])
  BY <1>5, <1>6, <1>7
<1>9. Reads(g, field)
  BY <1>3, <1>6, <1>8 DEF Reads
<1> QED BY <1>9

LEMMA ParseReads ==
  ASSUME NEW S, NEW field \in Seq(S), NEW v, Reads(v, field)
  PROVE  parseVersion(field) = v[Len(field)]
<1> DEFINE n == Len(field)
           Solves(h) == h = [i \in 0..n |-> IF i = 0 THEN 0 ELSE readDigit(h[i - 1], field[i])]
           f == CHOOSE h : Solves(h)
<1>1. parseVersion(field) = f[n]
  BY DEF parseVersion
<1>2. n \in Nat /\ n = Len(field)
  OBVIOUS
<1> HIDE DEF n
<1>3. Solves(v)
  <2>1. v \in [0..n -> Int] /\ \A i \in 0..n : v[i] = IF i = 0 THEN 0 ELSE readDigit(v[i - 1], field[i])
    <3>1. \A i \in 0..n : i = 0 \/ i \in 1..n
      BY <1>2
    <3> QED BY <1>2, <3>1 DEF Reads
  <2> QED BY <2>1
<1> HIDE DEF Solves
<1>4. Solves(f)
  BY <1>3
<1> HIDE DEF f
<1>5. \A i \in 0..n : f[i] = IF i = 0 THEN 0 ELSE readDigit(f[i - 1], field[i])
  BY <1>4 DEF Solves
<1> DEFINE T == {k \in Nat : f[k] = v[k]}
<1>6. 0 \in T
  BY <1>2, <1>5 DEF Reads
<1>7. \A k \in 1..n : k - 1 \in T => k \in T
  <2>1. \A k \in 1..n : k \in 0..n /\ k # 0 /\ k \in Nat
    BY <1>2
  <2> QED BY <1>2, <1>5, <2>1 DEF Reads
<1>8. n \in T
  <2> HIDE DEF T
  <2>1. \A m \in 0..n : m \in T
    BY <1>2, <1>6, <1>7, UpTo
  <2> QED BY <1>2, <2>1
<1> QED BY <1>1, <1>2, <1>8

(* d[i] is the number the first i characters of a field of digits denote. *)
Denotes(d, field) ==
  /\ d \in [0..Len(field) -> Nat] /\ d[0] = 0
  /\ \A k \in 1..Len(field) : d[k] = 10 * d[k - 1] + ValueOf(field[k])

AllDigits(field) == \A i \in DOMAIN field : IsDigit(field[i])

LEMMA DenotesExists ==
  ASSUME NEW S, NEW field \in Seq(S), AllDigits(field)
  PROVE  \E d : Denotes(d, field)
<1> DEFINE I == Nat
           n == Len(field)
           step == [k \in 1..n |-> [v \in I |-> 10 * v + ValueOf(field[k])]]
<1>1. 0 \in I /\ n \in Nat
  OBVIOUS
<1>2. \A k \in 1..n : \A v \in I : 10 * v + ValueOf(field[k]) \in I
  <2> SUFFICES ASSUME NEW k \in 1..n, NEW v \in Nat PROVE 10 * v + ValueOf(field[k]) \in Nat
    OBVIOUS
  <2>1. IsDigit(field[k])
    BY DEF AllDigits
  <2>2. ValueOf(field[k]) \in 0..9
    BY <2>1, DigitValues
  <2> QED BY <2>2
<1>3. I = Nat /\ n = Len(field)
  OBVIOUS
<1>4. step \in [1..n -> [I -> I]]
  <2> HIDE DEF I, n
  <2> QED BY <1>2
<1>5. \A k \in 1..n : \A v \in I : step[k][v] = 10 * v + ValueOf(field[k])
  <2> HIDE DEF I, n
  <2> QED OBVIOUS
<1> HIDE DEF step, I, n
<1>6. PICK g \in [0..n -> I] : g[0] = 0 /\ \A k \in 1..n : g[k] = step[k][g[k - 1]]
  <2>1. Turns(I, 0, n, step)
    BY <1>1, <1>4, Iterates
  <2> QED BY <2>1 DEF Turns
<1>7. \A k \in 1..n : k - 1 \in 0..n
  BY <1>1
<1>8. \A k \in 1..n : g[k] = 10 * g[k - 1] + ValueOf(field[k])
  BY <1>5, <1>6, <1>7
<1>9. Denotes(g, field)
  BY <1>3, <1>6, <1>8 DEF Denotes
<1> QED BY <1>9

LEMMA DenotedIs ==
  ASSUME NEW S, NEW field \in Seq(S), NEW d, Denotes(d, field)
  PROVE  Denoted(field) = d[Len(field)]
<1> DEFINE n == Len(field)
           Solves(h) == h = [i \in 0..n |-> IF i = 0 THEN 0 ELSE 10 * h[i - 1] + ValueOf(field[i])]
           f == CHOOSE h : Solves(h)
<1>1. Denoted(field) = f[n]
  BY DEF Denoted
<1>2. n \in Nat /\ n = Len(field)
  OBVIOUS
<1> HIDE DEF n
<1>3. Solves(d)
  <2>1. d \in [0..n -> Nat] /\ \A i \in 0..n : d[i] = IF i = 0 THEN 0 ELSE 10 * d[i - 1] + ValueOf(field[i])
    <3>1. \A i \in 0..n : i = 0 \/ i \in 1..n
      BY <1>2
    <3> QED BY <1>2, <3>1 DEF Denotes
  <2> QED BY <2>1
<1> HIDE DEF Solves
<1>4. Solves(f)
  BY <1>3
<1> HIDE DEF f
<1>5. \A i \in 0..n : f[i] = IF i = 0 THEN 0 ELSE 10 * f[i - 1] + ValueOf(field[i])
  BY <1>4 DEF Solves
<1> DEFINE T == {k \in Nat : f[k] = d[k]}
<1>6. 0 \in T
  BY <1>2, <1>5 DEF Denotes
<1>7. \A k \in 1..n : k - 1 \in T => k \in T
  <2>1. \A k \in 1..n : k \in 0..n /\ k # 0 /\ k \in Nat
    BY <1>2
  <2> QED BY <1>2, <1>5, <2>1 DEF Denotes
<1>8. n \in T
  <2> HIDE DEF T
  <2>1. \A m \in 0..n : m \in T
    BY <1>2, <1>6, <1>7, UpTo
  <2> QED BY <1>2, <2>1
<1> QED BY <1>1, <1>2, <1>8

(* While the field is read, the version is the number read so far, or the  *)
(* field has been given up, and then the number is 10 or more for good.    *)
LEMMA DigitsParse ==
  ASSUME NEW S, NEW field \in Seq(S), AllDigits(field)
  PROVE  parseVersion(field) = FORMAT_VERSION <=> Denoted(field) = FORMAT_VERSION
<1> DEFINE n == Len(field)
<1>1. PICK v : Reads(v, field)
  BY ReadsExists
<1>2. PICK d : Denotes(d, field)
  BY DenotesExists
<1>3. parseVersion(field) = v[n] /\ Denoted(field) = d[n]
  BY <1>1, <1>2, ParseReads, DenotedIs
<1>4. n \in Nat /\ \A k \in 1..n : IsDigit(field[k])
  BY DEF AllDigits
<1>5. /\ v[0] = 0 /\ d[0] = 0
      /\ \A k \in 0..n : v[k] \in Int /\ d[k] \in Nat
      /\ \A k \in 1..n : v[k] = readDigit(v[k - 1], field[k])
      /\ \A k \in 1..n : d[k] = 10 * d[k - 1] + ValueOf(field[k])
  BY <1>1, <1>2 DEF Reads, Denotes
<1> HIDE DEF n
<1> DEFINE T == {k \in Nat : v[k] = d[k] \/ (v[k] = NoVersion /\ d[k] >= 10)}
<1>6. 0 \in T
  BY <1>5
<1>7. ASSUME NEW k \in 1..n, k - 1 \in T PROVE k \in T
  <2> DEFINE a == v[k - 1]
             b == d[k - 1]
             c == field[k]
  <2>1. k - 1 \in 0..n /\ k \in 0..n /\ k \in Nat
    BY <1>4
  <2>2. a \in Int /\ b \in Nat /\ v[k] = readDigit(a, c) /\ d[k] = 10 * b + ValueOf(c)
    BY <1>5, <2>1
  <2>3. a = b \/ (a = NoVersion /\ b >= 10)
    BY <1>7
  <2>4. IsDigit(c) /\ ValueOf(c) \in 0..9
    BY <1>4, DigitValues
  <2> HIDE DEF a, b, c
  <2>5. CASE a = NoVersion \/ a > VersionGuard
    <3>1. v[k] = NoVersion
      BY <2>2, <2>5, DigitRead
    <3>2. b >= 1
      BY <2>2, <2>3, <2>5, IntWidths
    <3>3. 10 * b + ValueOf(c) >= 10
      BY <2>2, <2>4, <3>2
    <3> QED BY <2>1, <2>2, <3>1, <3>3
  <2>6. CASE a # NoVersion /\ ~(a > VersionGuard)
    <3>1. a = b /\ a \in 0..VersionGuard
      BY <2>2, <2>3, <2>6, IntWidths
    <3>2. v[k] = d[k]
      BY <2>2, <2>4, <3>1, DigitRead
    <3> QED BY <2>1, <3>2
  <2> QED BY <2>5, <2>6
<1>8. v[n] = d[n] \/ (v[n] = NoVersion /\ d[n] >= 10)
  <2>1. \A k \in 1..n : k - 1 \in T => k \in T
    BY <1>7
  <2> HIDE DEF T
  <2>2. n \in T
    <3>1. \A m \in 0..n : m \in T
      BY <1>4, <1>6, <2>1, UpTo
    <3> QED BY <1>4, <3>1
  <2> QED BY <2>2 DEF T
<1>9. d[n] \in Nat
  BY <1>4, <1>5
<1> QED BY <1>3, <1>8, <1>9, IntWidths DEF FORMAT_VERSION

(* A character that is no digit gives the field up. *)
LEMMA NoDigitNoVersion ==
  ASSUME NEW S, NEW field \in Seq(S), ~AllDigits(field)
  PROVE  parseVersion(field) # FORMAT_VERSION
<1> DEFINE n == Len(field)
<1>1. PICK v : Reads(v, field)
  BY ReadsExists
<1>2. parseVersion(field) = v[n]
  BY <1>1, ParseReads
<1>3. n \in Nat
  OBVIOUS
<1>4. PICK j \in 1..n : ~IsDigit(field[j])
  BY DEF AllDigits
<1>5. /\ \A k \in 0..n : v[k] \in Int
      /\ \A k \in 1..n : v[k] = readDigit(v[k - 1], field[k])
  BY <1>1 DEF Reads
<1> HIDE DEF n
<1> DEFINE T == {k \in Nat : k >= j => v[k] = NoVersion}
<1>6. 0 \in T
  OBVIOUS
<1>7. ASSUME NEW k \in 1..n, k - 1 \in T PROVE k \in T
  <2> DEFINE a == v[k - 1]
             c == field[k]
  <2>1. k - 1 \in 0..n /\ k \in Nat /\ (k >= j => k = j \/ k - 1 >= j)
    BY <1>3
  <2>2. a \in Int /\ v[k] = readDigit(a, c) /\ (k - 1 >= j => a = NoVersion)
    BY <1>5, <1>7, <2>1
  <2>3. k = j => ~IsDigit(c)
    BY <1>4
  <2> HIDE DEF a, c
  <2>4. k >= j => v[k] = NoVersion
    BY <2>1, <2>2, <2>3, DigitRead
  <2> QED BY <2>1, <2>4
<1>8. v[n] = NoVersion
  <2>1. \A k \in 1..n : k - 1 \in T => k \in T
    BY <1>7
  <2> HIDE DEF T
  <2>2. n \in T
    <3>1. \A m \in 0..n : m \in T
      BY <1>3, <1>6, <2>1, UpTo
    <3> QED BY <1>3, <3>1
  <2> QED BY <1>3, <2>2 DEF T
<1> QED BY <1>2, <1>8, IntWidths DEF FORMAT_VERSION

-----------------------------------------------------------------------------
(* The envelope.                                                           *)

LEMMA FirstColon ==
  ASSUME NEW S, NEW rest \in Seq(S), Colons(rest) # {}
  PROVE  /\ findColon(rest) \in 1..Len(rest) /\ rest[findColon(rest)] = ":"
         /\ \A j \in 1..Len(rest) : rest[j] = ":" => findColon(rest) <= j
<1>1. DOMAIN rest = 1..Len(rest) /\ Len(rest) \in Nat
  OBVIOUS
<1>2. Colons(rest) \in SUBSET Nat
  BY <1>1 DEF Colons
<1>3. \E i \in Colons(rest) : \A j \in Colons(rest) : i <= j
  BY <1>2, LeastElement
<1>4. findColon(rest) \in Colons(rest) /\ \A j \in Colons(rest) : findColon(rest) <= j
  BY <1>3 DEF findColon
<1> QED BY <1>1, <1>4 DEF Colons

LEMMA Pieces ==
  ASSUME NEW S, NEW rest \in Seq(S), NEW n \in 1..Len(rest)
  PROVE  /\ SubSeq(rest, 1, n - 1) \in Seq(S)
         /\ DOMAIN SubSeq(rest, 1, n - 1) = 1..n - 1
         /\ \A i \in 1..n - 1 : SubSeq(rest, 1, n - 1)[i] = rest[i]
         /\ SubSeq(rest, n + 1, Len(rest)) \in Seq(S)
<1>1. Len(rest) \in Nat /\ \A i \in 1..Len(rest) : rest[i] \in S
  OBVIOUS
<1>2. SubSeq(rest, 1, n - 1) = [i \in 1..n - 1 |-> rest[i]]
  BY <1>1
<1>3. \A i \in 1..n - 1 : rest[i] \in S
  BY <1>1
<1>4. n - 1 \in Nat
  BY <1>1
<1>5. SubSeq(rest, n + 1, Len(rest)) \in Seq(S)
  BY <1>1
<1> QED BY <1>2, <1>3, <1>4, <1>5

(* Refused is no payload. *)
LEMMA RefusedIsNoPayload == Refused \notin Seq(Characters)
<1> SUFFICES ASSUME Refused \in Seq(Characters) PROVE FALSE
  OBVIOUS
<1>1. Len(Refused) = 1 /\ Refused[1] = "refused"
  BY DEF Refused
<1>2. Refused[1] \in Characters
  BY <1>1
<1> QED BY <1>1, <1>2, ColonIsNoDigit

LEMMA AcceptedVersions ==
  ASSUME NEW w, w \in [magic : BOOLEAN, rest : Seq(Characters)]
  PROVE  (deserialize(w) # Refused) <=>
           /\ w.magic /\ Len(w.rest) <= MaxBytes
           /\ \E n \in 2..Len(w.rest) :
                /\ w.rest[n] = ":"
                /\ AllDigits(SubSeq(w.rest, 1, n - 1))
                /\ Denoted(SubSeq(w.rest, 1, n - 1)) = FORMAT_VERSION
<1> DEFINE r == w.rest
           c == findColon(r)
           Field(n) == SubSeq(r, 1, n - 1)
           Rejects == Len(r) > MaxBytes \/ ~w.magic \/ Colons(r) = {} \/ c = 1
           Owns(n) == r[n] = ":" /\ AllDigits(Field(n)) /\ Denoted(Field(n)) = FORMAT_VERSION
<1>1. r \in Seq(Characters) /\ w.magic \in BOOLEAN /\ Len(r) \in Nat /\ MaxBytes \in Nat
  BY EnvelopeAssumption
<1>2. deserialize(w) =
        IF Rejects THEN Refused
        ELSE IF parseVersion(Field(c)) # FORMAT_VERSION THEN Refused
        ELSE SubSeq(r, c + 1, Len(r))
  BY DEF deserialize
<1>3. DOMAIN r = 1..Len(r)
  BY <1>1
<1> HIDE DEF r
<1>4. ASSUME NEW n \in 2..Len(r), Owns(n) PROVE Colons(r) # {} /\ c = n
  <2>1. n \in 1..Len(r) /\ r[n] = ":"
    BY <1>1, <1>4
  <2>2. n \in Colons(r)
    BY <1>3, <2>1 DEF Colons
  <2>3. c \in 1..Len(r) /\ r[c] = ":" /\ c <= n
    BY <1>1, <2>1, <2>2, FirstColon
  <2> HIDE DEF c
  <2>4. c \notin 1..n - 1
    <3> SUFFICES ASSUME c \in 1..n - 1 PROVE FALSE
      OBVIOUS
    <3>1. DOMAIN Field(n) = 1..n - 1 /\ Field(n)[c] = r[c]
      BY <1>1, <2>1, Pieces
    <3>2. IsDigit(Field(n)[c])
      BY <1>4, <3>1 DEF AllDigits
    <3> QED BY <2>3, <3>1, <3>2, ColonIsNoDigit
  <2> QED BY <1>1, <2>1, <2>2, <2>3, <2>4
<1>5. ASSUME ~Rejects
      PROVE  /\ c \in 2..Len(r) /\ r[c] = ":"
             /\ parseVersion(Field(c)) = FORMAT_VERSION <=> Owns(c)
             /\ SubSeq(r, c + 1, Len(r)) # Refused
  <2>1. c \in 1..Len(r) /\ r[c] = ":" /\ c # 1
    BY <1>1, <1>5, FirstColon
  <2> HIDE DEF c
  <2>2. Field(c) \in Seq(Characters) /\ SubSeq(r, c + 1, Len(r)) \in Seq(Characters)
    BY <1>1, <2>1, Pieces
  <2>3. SubSeq(r, c + 1, Len(r)) # Refused
    BY <2>2, RefusedIsNoPayload
  <2> HIDE DEF Field
  <2>4. parseVersion(Field(c)) = FORMAT_VERSION <=>
          AllDigits(Field(c)) /\ Denoted(Field(c)) = FORMAT_VERSION
    BY <2>2, DigitsParse, NoDigitNoVersion
  <2> QED BY <1>1, <2>1, <2>3, <2>4
<1>6. Rejects \/ ~Rejects
  OBVIOUS
<1>7. (deserialize(w) # Refused) <=> w.magic /\ Len(r) <= MaxBytes /\ \E n \in 2..Len(r) : Owns(n)
  <2>1. ASSUME deserialize(w) # Refused
        PROVE  w.magic /\ Len(r) <= MaxBytes /\ \E n \in 2..Len(r) : Owns(n)
    <3>1. ~Rejects /\ parseVersion(Field(c)) = FORMAT_VERSION
      BY <1>2, <2>1
    <3>2. c \in 2..Len(r) /\ Owns(c)
      BY <1>5, <3>1
    <3>3. w.magic /\ Len(r) <= MaxBytes
      BY <1>1, <3>1
    <3> HIDE DEF c, Owns
    <3> QED BY <3>2, <3>3
  <2>2. ASSUME w.magic, Len(r) <= MaxBytes, NEW n \in 2..Len(r), Owns(n)
        PROVE  deserialize(w) # Refused
    <3>1. Colons(r) # {} /\ c = n
      BY <1>4, <2>2
    <3>2. ~Rejects /\ Owns(c)
      BY <1>1, <2>2, <3>1
    <3>3. parseVersion(Field(c)) = FORMAT_VERSION /\ SubSeq(r, c + 1, Len(r)) # Refused
      BY <1>5, <3>2
    <3> HIDE DEF c, Owns, Rejects, Field
    <3> QED BY <1>2, <3>2, <3>3
  <2> QED BY <2>1, <2>2
<1> QED BY <1>7 DEF r

LEMMA OwnVersionParses ==
  ASSUME NEW S, NEW field \in Seq(S), Len(field) = 1, field[1] = "1"
  PROVE  parseVersion(field) = FORMAT_VERSION
<1>1. PICK v : Reads(v, field)
  BY ReadsExists
<1>2. parseVersion(field) = v[1]
  BY <1>1, ParseReads
<1>3. 1 \in 1..1 /\ 1 - 1 = 0
  OBVIOUS
<1>4. v[1] = readDigit(0, "1")
  BY <1>1, <1>3 DEF Reads
<1>5. 0 \in 0..VersionGuard
  BY IntWidths
<1>6. readDigit(0, "1") = 10 * 0 + ValueOf("1")
  BY <1>5, ValueOfOne, DigitRead
<1> QED BY <1>2, <1>4, <1>6, ValueOfOne DEF FORMAT_VERSION

LEMMA SerializedComesBack ==
  ASSUME NEW payload \in Seq(Characters), serialize(payload) # NotSent
  PROVE  deserialize(serialize(payload)) = payload
<1> DEFINE head == <<"1", ":">>
           r == head \o payload
           w == [magic |-> TRUE, rest |-> r]
<1>1. Digits[FORMAT_VERSION + 1] = "1"
  BY DEF Digits, FORMAT_VERSION
<1>2. ~(Len(r) > MaxBytes) /\ serialize(payload) = w
  BY <1>1 DEF serialize
<1>3. "1" \in Characters /\ ":" \in Characters
  BY DEF Characters, Digits
<1>4. head \in Seq(Characters)
  BY <1>3
<1>5. /\ r \in Seq(Characters) /\ Len(r) = Len(payload) + 2 /\ r[1] = "1" /\ r[2] = ":"
      /\ \A i \in 1..Len(payload) : r[i + 2] = payload[i]
  BY <1>4
<1>6. w.magic = TRUE /\ w.rest = r
  OBVIOUS
<1> HIDE DEF head, r, w
<1>7. Len(payload) \in Nat
  OBVIOUS
<1>8. Colons(r) # {} /\ findColon(r) = 2
  <2>1. 2 \in 1..Len(r) /\ DOMAIN r = 1..Len(r)
    BY <1>5, <1>7
  <2>2. 2 \in Colons(r)
    BY <1>5, <2>1 DEF Colons
  <2>3. findColon(r) \in 1..Len(r) /\ r[findColon(r)] = ":" /\ findColon(r) <= 2
    BY <1>5, <2>1, <2>2, FirstColon
  <2>4. findColon(r) # 1
    BY <1>5, <2>3
  <2> QED BY <2>2, <2>3, <2>4
<1>9. parseVersion(SubSeq(r, 1, 2 - 1)) = FORMAT_VERSION
  <2> DEFINE f == SubSeq(r, 1, 2 - 1)
  <2>1. 2 \in 1..Len(r) /\ 2 - 1 = 1 /\ 1 \in 1..1
    BY <1>5, <1>7
  <2>2. f \in Seq(Characters) /\ DOMAIN f = 1..1 /\ f[1] = r[1]
    BY <1>5, <2>1, Pieces
  <2> HIDE DEF f
  <2>3. Len(f) = 1
    BY <2>2
  <2>4. parseVersion(f) = FORMAT_VERSION
    BY <1>5, <2>2, <2>3, OwnVersionParses
  <2> QED BY <2>4 DEF f
<1>10. SubSeq(r, 2 + 1, Len(r)) = payload
  <2> DEFINE s == SubSeq(r, 2 + 1, Len(r))
  <2>1. s \in Seq(Characters) /\ Len(s) = Len(payload)
    BY <1>5, <1>7
  <2>2. \A i \in 1..Len(payload) : s[i] = payload[i]
    <3>1. \A i \in 1..Len(payload) : s[i] = r[i + 2]
      BY <1>5, <1>7
    <3> QED BY <1>5, <3>1
  <2> HIDE DEF s
  <2>3. s = payload
    BY <2>1, <2>2, SeqEqual
  <2> QED BY <2>3 DEF s
<1>11. deserialize(w) = payload
  BY <1>2, <1>6, <1>8, <1>9, <1>10 DEF deserialize
<1> QED BY <1>2, <1>11

-----------------------------------------------------------------------------
(* The inputs.                                                             *)

(* What the functions are called with. *)
Inputs ==
  /\ binding \in Seq(Words \cup {"*", "#"}) /\ route \in Seq(Words \cup {"*", "#"})
  /\ wire \in [magic : BOOLEAN, rest : Seq(Characters)]
  /\ initialDelay \in Nat /\ maxDelay \in Nat /\ tries \in Nat \ {0}

LEMMA InputsHold == Spec => []Inputs
<1> DEFINE W == Words \cup {"*", "#"}
<1>1. ASSUME NEW subject, AtRest(subject)
      PROVE  /\ subject # "route" => binding \in Seq(W) /\ route \in Seq(W)
             /\ subject # "wire" => wire \in [magic : BOOLEAN, rest : Seq(Characters)]
             /\ subject # "tries" => initialDelay \in Nat /\ maxDelay \in Nat /\ tries \in Nat \ {0}
  <2>1. (CHOOSE w \in Words : TRUE) \in W /\ "*" \in W
    BY InputAssumption
  <2>2. <<CHOOSE w \in Words : TRUE>> \in Seq(W) /\ <<"*">> \in Seq(W)
    BY <2>1
  <2>3. <<>> \in Seq(Characters)
    OBVIOUS
  <2>4. subject # "route" => binding \in Seq(W) /\ route \in Seq(W)
    BY <1>1, <2>2 DEF AtRest
  <2>5. subject # "wire" => wire \in [magic : BOOLEAN, rest : Seq(Characters)]
    <3> DEFINE Q == Seq(Characters)
    <3>1. <<>> \in Q
      BY <2>3
    <3> HIDE DEF Q
    <3>2. [magic |-> TRUE, rest |-> <<>>] \in [magic : BOOLEAN, rest : Q]
      BY <3>1
    <3>3. subject # "wire" => wire = [magic |-> TRUE, rest |-> <<>>]
      BY <1>1 DEF AtRest
    <3> QED BY <3>2, <3>3 DEF Q
  <2>6. subject # "tries" => initialDelay \in Nat /\ maxDelay \in Nat /\ tries \in Nat \ {0}
    BY <1>1 DEF AtRest
  <2> QED BY <2>4, <2>5, <2>6
<1>2. Init => Inputs
  <2>1. CASE /\ binding \in [1..1 -> Words \cup {"*", "#"}] /\ route \in [1..1 -> Words]
             /\ AtRest("route")
    <3>1. \A f \in [1..1 -> W] : f \in Seq(W)
      <4> HIDE DEF W
      <4>1. 1 \in Nat
        OBVIOUS
      <4> QED BY <4>1, SeqDef
    <3>2. binding \in [1..1 -> W] /\ route \in [1..1 -> W]
      BY <2>1
    <3>3. binding \in Seq(W) /\ route \in Seq(W)
      BY <3>1, <3>2
    <3> QED BY <1>1, <2>1, <3>3 DEF Inputs
  <2>2. CASE wire \in [magic : BOOLEAN, rest : {<<>>}] /\ AtRest("wire")
    <3>1. wire \in [magic : BOOLEAN, rest : Seq(Characters)]
      <4> DEFINE Q == Seq(Characters)
      <4>1. {<<>>} \subseteq Q
        OBVIOUS
      <4> HIDE DEF Q
      <4>2. wire \in [magic : BOOLEAN, rest : Q]
        BY <2>2, <4>1
      <4> QED BY <4>2 DEF Q
    <3> QED BY <1>1, <2>2, <3>1 DEF Inputs
  <2>3. CASE initialDelay \in Delays /\ maxDelay \in Delays /\ tries = 1 /\ AtRest("tries")
    <3>1. initialDelay \in Nat /\ maxDelay \in Nat /\ tries \in Nat \ {0}
      BY <2>3, InputAssumption
    <3> QED BY <1>1, <2>3, <3>1 DEF Inputs
  <2> QED BY <2>1, <2>2, <2>3 DEF Init
<1>3. Inputs /\ [Next]_vars => Inputs'
  <2> SUFFICES ASSUME Inputs, [Next]_vars PROVE Inputs'
    OBVIOUS
  <2>1. CASE GrowBinding
    <3>1. binding' \in Seq(W)
      BY <2>1 DEF GrowBinding, Inputs
    <3> QED BY <2>1, <3>1 DEF GrowBinding, backoffVars, Inputs
  <2>2. CASE GrowRoute
    <3>1. route' \in Seq(W)
      BY <2>2 DEF GrowRoute, Inputs
    <3> QED BY <2>2, <3>1 DEF GrowRoute, backoffVars, Inputs
  <2>3. CASE GrowWire
    <3>1. PICK c \in Bytes : wire' = [wire EXCEPT !.rest = Append(@, c)]
      BY <2>3 DEF GrowWire
    <3>2. c \in Characters
      BY InputAssumption
    <3>3. wire \in [magic : BOOLEAN, rest : Seq(Characters)]
      BY DEF Inputs
    <3>4. Append(wire.rest, c) \in Seq(Characters)
      BY <3>2, <3>3
    <3>5. wire' \in [magic : BOOLEAN, rest : Seq(Characters)]
      BY <3>1, <3>3, <3>4
    <3> QED BY <2>3, <3>5 DEF GrowWire, routeVars, backoffVars, Inputs
  <2>4. CASE GrowTries
    <3>1. tries' \in Nat \ {0}
      BY <2>4 DEF GrowTries, Inputs
    <3> QED BY <2>4, <3>1 DEF GrowTries, routeVars, Inputs
  <2>5. CASE UNCHANGED vars
    BY <2>5 DEF vars, routeVars, backoffVars, Inputs
  <2> QED BY <2>1, <2>2, <2>3, <2>4, <2>5 DEF Next
<1> QED BY <1>2, <1>3, PTL DEF Spec

-----------------------------------------------------------------------------
(* The theorems.                                                           *)

(* routeMatches agrees with the reference on every binding and every       *)
(* route, of any number of words and with "#" anywhere and as often as one *)
(* likes: the backtracking of Matcher::at misses no way to match.          *)
THEOREM RoutesMatchByCutting == Spec => []MatchesReference
<1>1. Inputs => MatchesReference
  <2> SUFFICES ASSUME Inputs PROVE MatchesReference
    OBVIOUS
  <2> DEFINE W == Words \cup {"*", "#"}
  <2>1. binding \in Seq(W) /\ route \in Seq(W)
    BY DEF Inputs
  <2> HIDE DEF W
  <2>2. routeMatches(binding, route) <=> MatchesByCutting(binding, route)
    BY <2>1, MatcherIsReference
  <2>3. routeMatches(binding, route) \in BOOLEAN /\ MatchesByCutting(binding, route) \in BOOLEAN
    BY DEF routeMatches, MatchesByCutting
  <2> QED BY <2>2, <2>3 DEF MatchesReference
<1> QED BY <1>1, InputsHold, PTL

(* ByteMessage::deserialize accepts exactly the envelopes of this build's  *)
(* version, for every body: the guard in the loop stops every version      *)
(* field before it can wrap around, whatever the width of an int, as long  *)
(* as the guard is within it.                                              *)
THEOREM OnlyOwnVersionAccepted == Spec => []AcceptsOwnVersionOnly
<1>1. Inputs => AcceptsOwnVersionOnly
  BY AcceptedVersions DEF Inputs, AcceptsOwnVersionOnly, AllDigits
<1> QED BY <1>1, InputsHold, PTL

(* Every payload that ByteMessage::serialize does not refuse for its size  *)
(* comes back from deserialize byte for byte, separators, digits and all.  *)
THEOREM PayloadsComeBack == Spec => []RoundTrips
<1>1. Inputs => RoundTrips
  <2> SUFFICES ASSUME Inputs PROVE RoundTrips
    OBVIOUS
  <2>1. wire.rest \in Seq(Characters)
    BY DEF Inputs
  <2> QED BY <2>1, SerializedComesBack DEF RoundTrips
<1> QED BY <1>1, InputsHold, PTL

(* The delay after a failed connection attempt is the first delay, doubled *)
(* per attempt and capped, for every policy and every attempt up to the    *)
(* one whose shift leaves the count.                                       *)
THEOREM BackoffDoublesToCap == Spec => []BackoffDoubles
<1>1. Inputs => BackoffDoubles
  BY DoublesUpToCap DEF Inputs, BackoffDoubles, DoubledOrCapped
<1> QED BY <1>1, InputsHold, PTL

=============================================================================
