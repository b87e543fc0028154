-------------------------- MODULE AsyncLogSink_proofs --------------------------
(***************************************************************************)
(* Theorems about AsyncLogSink, for every number of threads, every line    *)
(* length and every pair of limits.                                        *)
(***************************************************************************)
EXTENDS AsyncLogSink, TLAPS

Records == [n : Nat, size : Sizes]

(* The line run() has taken and the sink has not been given yet. *)
Busy == IF worker \in {"picked", "writing"} THEN 1 ELSE 0

-----------------------------------------------------------------------------
(* Bytes, for any queue q and any counter b: left[i] is what line i and    *)
(* the lines behind it hold, hence never less than what the lines further  *)
(* behind hold.                                                            *)

Leaves(left, q, b) ==
  /\ left \in [1..Len(q) + 1 -> Nat]
  /\ left[Len(q) + 1] = 0
  /\ \A i \in DOMAIN q : left[i] = q[i].size + left[i + 1]
  /\ \A i, j \in 1..Len(q) + 1 : i <= j => left[j] <= left[i]
  /\ left[1] <= b

Covered(q, b) == \E left : Leaves(left, q, b)

(* The sizes of lines are numbers. *)
LEMMA SizesAreNumbers ==
  ASSUME NEW q \in Seq(Records)
  PROVE  /\ \A r \in Records : r.size \in Nat
         /\ \A i \in DOMAIN q : q[i].size \in Nat
<1>1. \A i \in DOMAIN q : q[i] \in Records
  OBVIOUS
<1> QED BY <1>1, LimitsAssumption DEF Records

(* Nothing waits: any counter covers it. *)
LEMMA CoveredEmpty ==
  ASSUME NEW b \in Nat
  PROVE  Covered(<<>>, b)
<1> DEFINE left == [i \in 1..1 |-> 0]
<1>1. Len(<<>>) + 1 = 1 /\ DOMAIN <<>> = {}
  OBVIOUS
<1>2. left \in [1..1 -> Nat] /\ \A i \in 1..1 : left[i] = 0
  OBVIOUS
<1> HIDE DEF left
<1>3. Leaves(left, <<>>, b)
  BY <1>1, <1>2 DEF Leaves
<1> QED BY <1>3 DEF Covered

(* push_back with its size added to the counter. *)
LEMMA CoveredAppend ==
  ASSUME NEW q \in Seq(Records), NEW b \in Nat, NEW r \in Records, Covered(q, b)
  PROVE  Covered(Append(q, r), b + r.size)
<1>0. r.size \in Nat
  BY SizesAreNumbers
<1>1. PICK left : Leaves(left, q, b)
  BY DEF Covered
<1> DEFINE p == Append(q, r)
           more == [i \in 1..Len(q) + 2 |->
                      IF i = Len(q) + 2 THEN 0 ELSE left[i] + r.size]
<1>2. /\ Len(q) \in Nat /\ Len(p) = Len(q) + 1 /\ DOMAIN p = 1..Len(q) + 1
      /\ DOMAIN q = 1..Len(q)
      /\ \A i \in DOMAIN q : p[i] = q[i]
      /\ p[Len(q) + 1] = r
  OBVIOUS
<1>3. /\ more \in [1..Len(p) + 1 -> Nat]
      /\ more[Len(p) + 1] = 0
      /\ \A i \in 1..Len(q) + 1 : more[i] = left[i] + r.size
  BY <1>0, <1>1, <1>2 DEF Leaves
<1> HIDE DEF p, more
<1>4. ASSUME NEW i \in DOMAIN p PROVE more[i] = p[i].size + more[i + 1]
  <2>1. CASE i = Len(q) + 1
    BY <1>0, <1>1, <1>2, <1>3, <2>1 DEF Leaves
  <2>2. CASE i \in DOMAIN q
    <3>1. left[i] = q[i].size + left[i + 1] /\ q[i].size \in Nat
      BY <1>1, <2>2, SizesAreNumbers DEF Leaves
    <3>2. i \in 1..Len(q) + 1 /\ i + 1 \in 1..Len(q) + 1
      BY <1>2, <2>2
    <3>3. left[i + 1] \in Nat
      BY <1>1, <3>2 DEF Leaves
    <3>4. more[i] = left[i] + r.size /\ more[i + 1] = left[i + 1] + r.size /\ p[i] = q[i]
      BY <1>2, <1>3, <2>2, <3>2
    <3> QED BY <1>0, <3>1, <3>3, <3>4
  <2> QED BY <1>2, <2>1, <2>2
<1>5. ASSUME NEW i \in 1..Len(p) + 1, NEW j \in 1..Len(p) + 1, i <= j
      PROVE  more[j] <= more[i]
  <2>1. CASE j = Len(p) + 1
    BY <1>3, <2>1
  <2>2. CASE j # Len(p) + 1
    <3>1. i \in 1..Len(q) + 1 /\ j \in 1..Len(q) + 1
      BY <1>2, <1>5, <2>2
    <3>2. left[j] <= left[i] /\ left[i] \in Nat /\ left[j] \in Nat
      BY <1>1, <1>5, <3>1 DEF Leaves
    <3>3. more[i] = left[i] + r.size /\ more[j] = left[j] + r.size
      BY <1>3, <3>1
    <3> QED BY <1>0, <3>2, <3>3
  <2> QED BY <2>1, <2>2
<1>6. more[1] <= b + r.size
  BY <1>0, <1>1, <1>2, <1>3 DEF Leaves
<1>7. Leaves(more, p, b + r.size)
  BY <1>3, <1>4, <1>5, <1>6 DEF Leaves
<1> QED BY <1>7 DEF p, Covered

(* pop_front with its size taken from the counter, which cannot go below   *)
(* zero.                                                                   *)
LEMMA CoveredTail ==
  ASSUME NEW q \in Seq(Records), NEW b \in Nat, q # <<>>, Covered(q, b)
  PROVE  b - Head(q).size \in Nat /\ Covered(Tail(q), b - Head(q).size)
<1>1. PICK left : Leaves(left, q, b)
  BY DEF Covered
<1> DEFINE p == Tail(q)
           less == [i \in 1..Len(q) |-> left[i + 1]]
<1>2. /\ Len(q) \in Nat \ {0} /\ Len(p) = Len(q) - 1 /\ DOMAIN p = 1..Len(q) - 1
      /\ DOMAIN q = 1..Len(q)
      /\ \A i \in DOMAIN p : p[i] = q[i + 1]
      /\ Head(q) = q[1]
  OBVIOUS
<1>3. q[1].size \in Nat
  BY <1>2, SizesAreNumbers
<1>4. left[1] = q[1].size + left[2] /\ left[1] \in Nat /\ left[2] \in Nat /\ left[1] <= b
  BY <1>1, <1>2 DEF Leaves
<1>5. b - Head(q).size \in Nat /\ left[2] <= b - Head(q).size
  BY <1>2, <1>3, <1>4
<1>6. /\ less \in [1..Len(p) + 1 -> Nat]
      /\ \A i \in 1..Len(q) : less[i] = left[i + 1]
  BY <1>1, <1>2 DEF Leaves
<1> HIDE DEF p, less
<1>7. less[Len(p) + 1] = 0 /\ less[1] <= b - Head(q).size
  BY <1>1, <1>2, <1>5, <1>6 DEF Leaves
<1>8. ASSUME NEW i \in DOMAIN p PROVE less[i] = p[i].size + less[i + 1]
  <2>1. i \in 1..Len(q) /\ i + 1 \in 1..Len(q)
    BY <1>2
  <2>2. left[i + 1] = q[i + 1].size + left[i + 2]
    BY <1>1, <1>2, <2>1 DEF Leaves
  <2> QED BY <1>2, <1>6, <2>1, <2>2
<1>9. \A i, j \in 1..Len(p) + 1 : i <= j => less[j] <= less[i]
  BY <1>1, <1>2, <1>6 DEF Leaves
<1>10. Leaves(less, p, b - Head(q).size)
  BY <1>6, <1>7, <1>8, <1>9 DEF Leaves
<1> QED BY <1>5, <1>10 DEF p, Covered

(* A larger counter covers as much. *)
LEMMA CoveredByMore ==
  ASSUME NEW q \in Seq(Records), NEW b \in Nat, NEW c \in Nat, b <= c, Covered(q, b)
  PROVE  Covered(q, c)
<1>1. PICK left : Leaves(left, q, b)
  BY DEF Covered
<1>2. left[1] \in Nat
  BY <1>1 DEF Leaves
<1>3. Leaves(left, q, c)
  BY <1>1, <1>2 DEF Leaves
<1> QED BY <1>3 DEF Covered

(* What the property says follows. *)
LEMMA CoveredIsBytesCovered ==
  ASSUME pending \in Seq(Records), pendingBytes \in Nat, Covered(pending, pendingBytes)
  PROVE  BytesCovered
<1>1. PICK left : Leaves(left, pending, pendingBytes)
  BY DEF Covered
<1>2. Len(pending) \in Nat /\ DOMAIN left = 1..Len(pending) + 1
  BY <1>1 DEF Leaves
<1>3. ASSUME NEW i \in 1..Len(pending) + 1 PROVE left[i] \in 0..pendingBytes
  <2>1. left[i] \in Nat /\ left[1] \in Nat /\ left[i] <= left[1] /\ left[1] <= pendingBytes
    BY <1>1, <1>2 DEF Leaves
  <2> QED BY <2>1
<1>4. left \in [1..Len(pending) + 1 -> 0..pendingBytes]
  BY <1>1, <1>2, <1>3 DEF Leaves
<1> QED BY <1>1, <1>4 DEF Leaves, BytesCovered

-----------------------------------------------------------------------------
(* Types and limits.  TypeOK is not inductive: the counter of bytes stays  *)
(* above zero because it covers what waits, and the record run() holds is  *)
(* a record because it holds one exactly while _inFlight says so.          *)

QueueInv ==
  /\ TypeOK
  /\ accepted \in Nat /\ handled \in Seq(Nat) /\ failed \in Nat /\ pickedAt \in Nat
  /\ before \in [Threads -> Nat]
  /\ Len(pending) <= kMaxPendingLines
  /\ pendingBytes <= kMaxPendingBytes
  /\ Covered(pending, pendingBytes)
  /\ inFlight <=> worker \in {"picked", "writing", "finishing"}
  /\ inFlight => record \in Records

(* Nothing has been logged. *)
LEMMA QueueInit == Init => QueueInv
<1> SUFFICES ASSUME Init PROVE QueueInv
  OBVIOUS
<1>1. Covered(pending, pendingBytes)
  BY CoveredEmpty DEF Init
<1>2. pending \in Seq([n : Nat, size : Sizes]) /\ handled \in Seq(Nat)
  BY DEF Init
<1>3. Len(pending) <= kMaxPendingLines /\ pendingBytes <= kMaxPendingBytes
  BY LimitsAssumption DEF Init
<1>4. inFlight = FALSE /\ worker = "checking"
  BY DEF Init
<1>5. TypeOK
  <2>1. /\ pc \in [Threads -> {"idle", "notifying", "waiting", "woken", "flushed"}]
        /\ worker \in {"checking", "asleep", "picked", "writing", "finishing"}
    BY DEF Init
  <2>2. logged \in 0..MaxLines /\ pendingBytes \in Nat /\ dropped \in Nat
        /\ sink \in Nat /\ snapshot \in Nat
    <3>1. MaxLines \in Nat
      BY LimitsAssumption
    <3> QED BY <3>1 DEF Init
  <2>3. record \in [n : Nat, size : Sizes] \cup {NoRecord}
    BY DEF Init
  <2> QED BY <1>2, <1>4, <2>1, <2>2, <2>3 DEF TypeOK
<1>6. accepted \in Nat /\ failed \in Nat /\ pickedAt \in Nat /\ before \in [Threads -> Nat]
  BY DEF Init
<1> QED BY <1>1, <1>2, <1>3, <1>4, <1>5, <1>6 DEF QueueInv

(* A line that is not too much fits within both limits. *)
LEMMA FitsIfNotTooMuch ==
  ASSUME QueueInv, NEW size \in Sizes, ~TooMuch(size)
  PROVE  /\ size \in Nat
         /\ Len(pending) + 1 <= kMaxPendingLines
         /\ pendingBytes + size <= kMaxPendingBytes
<1>1. /\ size \in Nat /\ kMaxPendingLines \in Nat /\ kMaxPendingBytes \in Nat
      /\ pendingBytes \in Nat /\ Len(pending) \in Nat
      /\ pendingBytes <= kMaxPendingBytes
  BY LimitsAssumption DEF QueueInv, TypeOK
<1> QED BY <1>1 DEF TooMuch

(* The worker's steps outside the queue's lock, and the threads' steps     *)
(* that leave the queue alone.                                             *)
LEMMA QueueFrame ==
  ASSUME QueueInv, TypeOK', UNCHANGED <<pending, pendingBytes, accepted, before>>,
         handled' \in Seq(Nat), failed' \in Nat, pickedAt' \in Nat,
         inFlight' <=> worker' \in {"picked", "writing", "finishing"},
         inFlight' => record' \in Records
  PROVE  QueueInv'
BY DEF QueueInv

(* Every step of every thread keeps the types and the limits. *)
LEMMA QueueNext == QueueInv /\ [Next]_vars => QueueInv'
<1> SUFFICES ASSUME QueueInv, [Next]_vars PROVE QueueInv'
  OBVIOUS
<1>0. /\ TypeOK /\ pending \in Seq(Records) /\ pendingBytes \in Nat
      /\ Covered(pending, pendingBytes)
  BY DEF QueueInv, TypeOK, Records
<1>1. ASSUME NEW t \in Threads, NEW size \in Sizes, enqueue(t, size) PROVE QueueInv'
  <2>1. CASE TooMuch(size)
    BY <1>1, <2>1, LimitsAssumption DEF enqueue, QueueInv, TypeOK, workerVars
  <2>2. CASE ~TooMuch(size)
    <3> DEFINE r == [n |-> accepted + 1, size |-> size]
    <3>1. /\ pending' = Append(pending, r) /\ pendingBytes' = pendingBytes + size
          /\ accepted' = accepted + 1
          /\ pc' = [pc EXCEPT ![t] = "notifying"]
          /\ logged' = logged + 1 /\ logged < MaxLines
          /\ UNCHANGED <<dropped, inFlight, sink, worker, record, snapshot, handled,
                         failed, pickedAt, before>>
      BY <1>1, <2>2 DEF enqueue, workerVars
    <3>2. r \in Records /\ r.size = size
      BY DEF Records, QueueInv
    <3>3. /\ size \in Nat
          /\ Len(pending) + 1 <= kMaxPendingLines
          /\ pendingBytes + size <= kMaxPendingBytes
      BY <2>2, FitsIfNotTooMuch
    <3> HIDE DEF r
    <3>4. Covered(pending', pendingBytes')
      BY <1>0, <3>1, <3>2, CoveredAppend
    <3>5. pending' \in Seq(Records) /\ Len(pending') = Len(pending) + 1
      BY <1>0, <3>1, <3>2
    <3>6. pendingBytes' \in Nat /\ pendingBytes' <= kMaxPendingBytes
      BY <1>0, <3>1, <3>3
    <3>7. logged' \in 0..MaxLines /\ accepted' \in Nat
      BY <3>1, LimitsAssumption DEF QueueInv, TypeOK
    <3>8. pc' \in [Threads -> {"idle", "notifying", "waiting", "woken", "flushed"}]
      BY <3>1 DEF QueueInv, TypeOK
    <3>9. TypeOK'
      BY <3>1, <3>5, <3>6, <3>7, <3>8 DEF QueueInv, TypeOK, Records
    <3> QED BY <3>1, <3>3, <3>4, <3>5, <3>6, <3>7, <3>9 DEF QueueInv
  <2> QED BY <2>1, <2>2
<1>2. ASSUME NEW t \in Threads, NEW size \in Sizes, enqueueFails(t, size) PROVE QueueInv'
  <2>1. /\ pendingBytes' = pendingBytes + size
        /\ logged' = logged + 1 /\ logged < MaxLines /\ dropped' = dropped + 1
        /\ UNCHANGED <<pending, inFlight, sink, worker, record, snapshot, pc,
                       accepted, handled, failed, pickedAt, before>>
    BY <1>2 DEF enqueueFails, workerVars, historyVars
  <2>2. size \in Nat /\ pendingBytes + size <= kMaxPendingBytes
    BY <1>2, FitsIfNotTooMuch DEF enqueueFails
  <2>3. /\ pendingBytes' \in Nat /\ pendingBytes <= pendingBytes'
        /\ pendingBytes' <= kMaxPendingBytes
    BY <1>0, <2>1, <2>2
  <2>4. Covered(pending', pendingBytes')
    BY <1>0, <2>1, <2>3, CoveredByMore
  <2>5. logged' \in 0..MaxLines /\ dropped' \in Nat
    BY <2>1, LimitsAssumption DEF QueueInv, TypeOK
  <2>6. TypeOK'
    BY <2>1, <2>3, <2>5 DEF QueueInv, TypeOK
  <2> QED BY <2>1, <2>3, <2>4, <2>6 DEF QueueInv
<1>3. ASSUME NEW t \in Threads, notify(t) PROVE QueueInv'
  <2>1. TypeOK'
    BY <1>0, <1>3 DEF notify, TypeOK, queueVars, historyVars
  <2> QED BY <1>3, <2>1, QueueFrame DEF notify, QueueInv, queueVars, historyVars
<1>4. ASSUME NEW t \in Threads, flush(t) PROVE QueueInv'
  BY <1>0, <1>4 DEF flush, QueueInv, TypeOK, queueVars, workerVars
<1>5. ASSUME NEW t \in Threads, flushWakes(t) \/ flushReturns(t) PROVE QueueInv'
  <2>1. TypeOK'
    BY <1>0, <1>5 DEF flushWakes, flushReturns, TypeOK, queueVars, workerVars, historyVars
  <2> QED BY <1>5, <2>1, QueueFrame
          DEF flushWakes, flushReturns, QueueInv, queueVars, workerVars, historyVars
<1>6. ASSUME NEW t \in Threads, setSink(t) PROVE QueueInv'
  <2>1. TypeOK'
    BY <1>0, <1>6 DEF setSink, TypeOK, queueVars, workerVars, historyVars
  <2> QED BY <1>6, <2>1, QueueFrame DEF setSink, QueueInv, queueVars, workerVars, historyVars
<1>7. ASSUME waitForWork PROVE QueueInv'
  <2>1. TypeOK'
    BY <1>0, <1>7 DEF waitForWork, TypeOK, queueVars, workerVars, historyVars
  <2> QED BY <1>7, <2>1, QueueFrame DEF waitForWork, QueueInv, queueVars, historyVars
<1>8. ASSUME takeRecord PROVE QueueInv'
  <2>1. /\ pending # <<>> /\ record' = Head(pending) /\ pending' = Tail(pending)
        /\ pendingBytes' = pendingBytes - Head(pending).size
        /\ inFlight' = TRUE /\ worker' = "picked" /\ pickedAt' = sink
        /\ UNCHANGED <<dropped, sink, snapshot, pc, logged, accepted, handled, failed, before>>
    BY <1>8 DEF takeRecord
  <2>2. pendingBytes' \in Nat /\ Covered(pending', pendingBytes')
    BY <1>0, <2>1, CoveredTail
  <2>3. /\ pending' \in Seq(Records) /\ record' \in Records
        /\ Len(pending') <= kMaxPendingLines
    BY <1>0, <2>1, LimitsAssumption DEF QueueInv
  <2>4. pendingBytes' <= kMaxPendingBytes
    <3>1. Head(pending).size \in Nat
      BY <1>0, <2>1, SizesAreNumbers
    <3> QED BY <1>0, <2>1, <3>1, LimitsAssumption DEF QueueInv
  <2>5. TypeOK'
    BY <2>1, <2>2, <2>3 DEF QueueInv, TypeOK, Records
  <2>6. pickedAt' \in Nat
    BY <1>0, <2>1 DEF TypeOK
  <2> QED BY <2>1, <2>2, <2>3, <2>4, <2>5, <2>6 DEF QueueInv
<1>9. ASSUME sinkSnapshot PROVE QueueInv'
  <2>1. TypeOK'
    BY <1>0, <1>9 DEF sinkSnapshot, TypeOK, queueVars, historyVars
  <2> QED BY <1>9, <2>1, QueueFrame DEF sinkSnapshot, QueueInv, queueVars, historyVars
<1>10. ASSUME sinkReturns \/ sinkThrows PROVE QueueInv'
  <2>1. /\ worker = "writing" /\ worker' = "finishing"
        /\ handled' = Append(handled, record.n)
        /\ UNCHANGED <<pending, pendingBytes, inFlight, sink, record, snapshot, pc, logged,
                       accepted, pickedAt, before>>
        /\ failed' \in {failed, failed + 1} /\ dropped' \in {dropped, dropped + 1}
    BY <1>10 DEF sinkReturns, sinkThrows, queueVars
  <2>2. record.n \in Nat
    BY <2>1 DEF QueueInv, Records
  <2>3. handled' \in Seq(Nat) /\ failed' \in Nat /\ dropped' \in Nat
    BY <2>1, <2>2 DEF QueueInv, TypeOK
  <2>4. TypeOK'
    BY <2>1, <2>3 DEF QueueInv, TypeOK
  <2> QED BY <2>1, <2>3, <2>4, QueueFrame DEF QueueInv
<1>11. ASSUME finish PROVE QueueInv'
  <2>1. pc' \in [Threads -> {"idle", "notifying", "waiting", "woken", "flushed"}]
    BY <1>11 DEF finish, NotifyAll, QueueInv, TypeOK
  <2>2. TypeOK'
    BY <1>0, <1>11, <2>1 DEF finish, TypeOK, historyVars
  <2> QED BY <1>11, <2>2, QueueFrame DEF finish, QueueInv, historyVars
<1>12. ASSUME UNCHANGED vars PROVE QueueInv'
  BY <1>12 DEF vars, queueVars, workerVars, historyVars, QueueInv, TypeOK
<1> QED BY <1>1, <1>2, <1>3, <1>4, <1>5, <1>6, <1>7, <1>8, <1>9, <1>10, <1>11, <1>12
        DEF Next, Thread, run

(* The members of the logger hold what their types allow: in particular    *)
(* the count of pending bytes, a size_t, never wraps below zero.           *)
THEOREM LoggerTypeCorrect == Spec => []TypeOK
<1>1. QueueInv => TypeOK
  BY DEF QueueInv
<1> QED BY <1>1, QueueInit, QueueNext, PTL DEF Spec

(* The queue stays within its line limit and its byte limit, and the byte  *)
(* counter covers what waits, for any limits and lines of any length,      *)
(* also after an allocation failed in enqueue.                             *)
THEOREM LoggerWithinLimits == Spec => []WithinLimits
<1>1. QueueInv => WithinLimits
  BY CoveredIsBytesCovered DEF QueueInv, WithinLimits, TypeOK, Records
<1> QED BY <1>1, QueueInit, QueueNext, PTL DEF Spec

-----------------------------------------------------------------------------
(* Numbers: what was handed to the sink, what run() holds and what waits   *)
(* are, in this order, the lines accepted, without a gap.                  *)

NumberInv ==
  /\ QueueInv
  /\ SinkInOrder
  /\ Busy = 1 => record.n = Len(handled) + 1
  /\ \A i \in DOMAIN pending : pending[i].n = Len(handled) + Busy + i
  /\ accepted = Len(handled) + Busy + Len(pending)
  /\ \A t \in Threads : before[t] <= accepted

(* Nothing has been logged. *)
LEMMA NumberInit == Init => NumberInv
<1> SUFFICES ASSUME Init PROVE NumberInv
  OBVIOUS
<1>1. Busy = 0
  BY DEF Init, Busy
<1>2. /\ Len(pending) = 0 /\ DOMAIN pending = {} /\ Len(handled) = 0
      /\ accepted = 0 /\ \A t \in Threads : before[t] <= accepted
  BY DEF Init
<1>3. SinkInOrder
  BY DEF Init, SinkInOrder
<1> QED BY <1>1, <1>2, <1>3, QueueInit DEF NumberInv

(* Appending the next number keeps the numbers in order. *)
LEMMA NextInOrder ==
  ASSUME SinkInOrder, handled \in Seq(Nat), handled' = Append(handled, Len(handled) + 1)
  PROVE  SinkInOrder' /\ Len(handled') = Len(handled) + 1
<1>1. /\ Len(handled) \in Nat /\ Len(handled') = Len(handled) + 1
      /\ DOMAIN handled' = 1..Len(handled) + 1 /\ handled' \in Seq(Nat)
  OBVIOUS
<1>2. ASSUME NEW i \in 1..Len(handled') PROVE handled'[i] = i
  <2>1. CASE i = Len(handled) + 1
    BY <1>1, <2>1
  <2>2. CASE i \in 1..Len(handled)
    <3>1. handled'[i] = handled[i]
      BY <2>2
    <3>2. handled[i] = i
      BY <2>2 DEF SinkInOrder
    <3> QED BY <3>1, <3>2
  <2> QED BY <1>1, <2>1, <2>2
<1>3. handled' = [i \in 1..Len(handled') |-> i]
  BY <1>1, <1>2
<1> QED BY <1>1, <1>3 DEF SinkInOrder

(* A step that leaves the lines where they are. *)
LEMMA NumberFrame ==
  ASSUME NumberInv, QueueInv', UNCHANGED <<pending, handled, accepted>>, Busy' = Busy,
         Busy = 1 => record' = record,
         \A t \in Threads : before'[t] \in {before[t], accepted}
  PROVE  NumberInv'
<1>1. accepted \in Nat
  BY DEF NumberInv, QueueInv
<1> QED BY <1>1 DEF NumberInv, SinkInOrder

(* Every step keeps the numbers without a gap. *)
LEMMA NumberNext == NumberInv /\ [Next]_vars => NumberInv'
<1> SUFFICES ASSUME NumberInv, [Next]_vars PROVE NumberInv'
  OBVIOUS
<1>0. /\ QueueInv /\ QueueInv' /\ pending \in Seq(Records) /\ Len(pending) \in Nat
      /\ handled \in Seq(Nat) /\ Len(handled) \in Nat /\ accepted \in Nat
      /\ before \in [Threads -> Nat] /\ DOMAIN pending = 1..Len(pending)
  <2>1. QueueInv /\ QueueInv'
    BY QueueNext DEF NumberInv
  <2>2. /\ pending \in Seq(Records) /\ handled \in Seq(Nat) /\ accepted \in Nat
        /\ before \in [Threads -> Nat]
    BY <2>1 DEF QueueInv, TypeOK, Records
  <2> QED BY <2>1, <2>2
<1>1. ASSUME NEW t \in Threads, NEW size \in Sizes, enqueue(t, size) PROVE NumberInv'
  <2>0. Busy' = Busy /\ UNCHANGED <<worker, record, handled, before>>
    BY <1>1 DEF enqueue, workerVars, Busy
  <2>1. CASE TooMuch(size)
    BY <1>0, <1>1, <2>0, <2>1, NumberFrame DEF enqueue
  <2>2. CASE ~TooMuch(size)
    <3> DEFINE r == [n |-> accepted + 1, size |-> size]
    <3>1. pending' = Append(pending, r) /\ accepted' = accepted + 1
      BY <1>1, <2>2 DEF enqueue
    <3>2. r \in Records /\ r.n = accepted + 1
      BY <1>0 DEF Records
    <3> HIDE DEF r
    <3>3. /\ DOMAIN pending' = 1..Len(pending) + 1 /\ Len(pending') = Len(pending) + 1
          /\ pending'[Len(pending) + 1] = r
          /\ \A i \in DOMAIN pending : pending'[i] = pending[i]
      BY <1>0, <3>1, <3>2
    <3>4. Busy \in Nat
      BY DEF Busy
    <3>5. accepted' = Len(handled)' + Busy' + Len(pending)'
      BY <1>0, <2>0, <3>1, <3>3, <3>4 DEF NumberInv
    <3>6. ASSUME NEW i \in DOMAIN pending' PROVE pending'[i].n = Len(handled)' + Busy' + i
      <4>1. CASE i = Len(pending) + 1
        <5>1. pending'[i].n = accepted + 1 /\ accepted = Len(handled) + Busy + Len(pending)
          BY <3>2, <3>3, <4>1 DEF NumberInv
        <5> QED BY <1>0, <2>0, <3>4, <4>1, <5>1
      <4>2. CASE i \in DOMAIN pending
        BY <2>0, <3>3, <4>2 DEF NumberInv
      <4> QED BY <1>0, <3>3, <4>1, <4>2
    <3>7. \A u \in Threads : before'[u] <= accepted'
      BY <1>0, <2>0, <3>1 DEF NumberInv
    <3> QED BY <1>0, <2>0, <3>5, <3>6, <3>7 DEF NumberInv, SinkInOrder
  <2> QED BY <2>1, <2>2
<1>2. ASSUME NEW t \in Threads, NEW size \in Sizes, enqueueFails(t, size) PROVE NumberInv'
  BY <1>0, <1>2, NumberFrame DEF enqueueFails, workerVars, historyVars, Busy
<1>3. ASSUME NEW t \in Threads, notify(t) PROVE NumberInv'
  BY <1>0, <1>3, NumberFrame DEF notify, queueVars, historyVars, Busy
<1>4. ASSUME NEW t \in Threads, flush(t) PROVE NumberInv'
  <2>1. Busy' = Busy /\ UNCHANGED <<pending, handled, accepted, record>>
    BY <1>4 DEF flush, queueVars, workerVars, Busy
  <2>2. \A u \in Threads : before'[u] \in {before[u], accepted}
    BY <1>0, <1>4 DEF flush
  <2> QED BY <1>0, <2>1, <2>2, NumberFrame
<1>5. ASSUME NEW t \in Threads, flushWakes(t) \/ flushReturns(t) \/ setSink(t)
      PROVE  NumberInv'
  BY <1>0, <1>5, NumberFrame
     DEF flushWakes, flushReturns, setSink, queueVars, workerVars, historyVars, Busy
<1>6. ASSUME waitForWork \/ sinkSnapshot PROVE NumberInv'
  BY <1>0, <1>6, NumberFrame DEF waitForWork, sinkSnapshot, queueVars, historyVars, Busy
<1>7. ASSUME takeRecord PROVE NumberInv'
  <2>1. /\ pending # <<>> /\ record' = Head(pending) /\ pending' = Tail(pending)
        /\ UNCHANGED <<accepted, handled, before>> /\ Busy = 0 /\ Busy' = 1
    BY <1>7 DEF takeRecord, Busy
  <2>2. /\ Len(pending) \in Nat \ {0} /\ Len(pending') = Len(pending) - 1
        /\ DOMAIN pending' = 1..Len(pending) - 1
        /\ \A i \in DOMAIN pending' : pending'[i] = pending[i + 1] /\ i + 1 \in DOMAIN pending
        /\ record' = pending[1] /\ 1 \in DOMAIN pending
    BY <1>0, <2>1
  <2>3. record'.n = Len(handled)' + 1
    BY <1>0, <2>1, <2>2 DEF NumberInv
  <2>4. \A i \in DOMAIN pending' : pending'[i].n = Len(handled)' + Busy' + i
    BY <1>0, <2>1, <2>2 DEF NumberInv
  <2>5. accepted' = Len(handled)' + Busy' + Len(pending)'
    BY <1>0, <2>1, <2>2 DEF NumberInv
  <2> QED BY <1>0, <2>1, <2>3, <2>4, <2>5 DEF NumberInv, SinkInOrder
<1>8. ASSUME sinkReturns \/ sinkThrows PROVE NumberInv'
  <2>1. /\ handled' = Append(handled, record.n) /\ Busy = 1 /\ Busy' = 0
        /\ UNCHANGED <<pending, accepted, before>>
    BY <1>8 DEF sinkReturns, sinkThrows, queueVars, Busy
  <2>2. record.n = Len(handled) + 1
    BY <2>1 DEF NumberInv
  <2>3. SinkInOrder' /\ Len(handled') = Len(handled) + 1
    BY <1>0, <2>1, <2>2, NextInOrder DEF NumberInv
  <2>4. \A i \in DOMAIN pending' : pending'[i].n = Len(handled)' + Busy' + i
    BY <1>0, <2>1, <2>3 DEF NumberInv
  <2>5. accepted' = Len(handled)' + Busy' + Len(pending)'
    BY <1>0, <2>1, <2>3 DEF NumberInv
  <2> QED BY <1>0, <2>1, <2>3, <2>4, <2>5 DEF NumberInv
<1>9. ASSUME finish PROVE NumberInv'
  <2>1. Busy = 0 /\ Busy' = 0 /\ UNCHANGED <<pending, handled, accepted, before>>
    BY <1>9 DEF finish, historyVars, Busy
  <2> QED BY <1>0, <2>1, NumberFrame
<1>10. ASSUME UNCHANGED vars PROVE NumberInv'
  BY <1>0, <1>10, NumberFrame DEF vars, queueVars, workerVars, historyVars, Busy
<1> QED BY <1>1, <1>2, <1>3, <1>4, <1>5, <1>6, <1>7, <1>8, <1>9, <1>10
        DEF Next, Thread, run

(* However many threads log, the sink gets the lines in the order in which *)
(* they were accepted, none twice and none left out.                       *)
THEOREM LinesReachSinkInOrder == Spec => []SinkInOrder
<1>1. NumberInv => SinkInOrder
  BY DEF NumberInv
<1> QED BY <1>1, NumberInit, NumberNext, PTL DEF Spec

(* A flush() that returns has seen every line accepted before it through   *)
(* the sink, however many threads log and flush meanwhile.                 *)
THEOREM FlushIsComplete == Spec => FlushWaitsForAll
<1>1. ASSUME NumberInv, [Next]_vars
      PROVE  [\A t \in Threads : pc'[t] = "flushed" /\ pc[t] # "flushed" =>
                Len(handled) >= before'[t]]_vars
  <2> SUFFICES ASSUME Next, NEW t \in Threads, pc'[t] = "flushed", pc[t] # "flushed"
               PROVE  Len(handled) >= before'[t]
    BY <1>1
  <2>0. /\ QueueInv /\ TypeOK /\ Len(handled) \in Nat /\ accepted \in Nat /\ before[t] \in Nat
        /\ before[t] <= accepted /\ before \in [Threads -> Nat]
    BY <1>1 DEF NumberInv, QueueInv
  <2>1. ASSUME Drained PROVE accepted = Len(handled)
    <3>1. Len(pending) = 0 /\ worker \notin {"picked", "writing"}
      BY <2>0, <2>1 DEF Drained, QueueInv
    <3> QED BY <1>1, <2>0, <3>1 DEF NumberInv, Busy
  <2>2. ASSUME NEW u \in Threads, flush(u) PROVE Len(handled) >= before'[t]
    <3>1. u = t /\ Drained /\ before'[t] = accepted
      BY <2>0, <2>2 DEF flush, TypeOK
    <3> QED BY <2>0, <2>1, <3>1
  <2>3. ASSUME NEW u \in Threads, flushWakes(u) PROVE Len(handled) >= before'[t]
    <3>1. u = t /\ Drained /\ before' = before
      BY <2>0, <2>3 DEF flushWakes, TypeOK, historyVars
    <3> QED BY <2>0, <2>1, <3>1
  <2>4. ASSUME NEW u \in Threads,
               \/ notify(u) \/ flushReturns(u) \/ setSink(u)
               \/ \E size \in Sizes : enqueue(u, size) \/ enqueueFails(u, size)
        PROVE  FALSE
    <3>1. pc' = pc \/ pc' = [pc EXCEPT ![u] = "idle"] \/ pc' = [pc EXCEPT ![u] = "notifying"]
      BY <2>4 DEF notify, flushReturns, setSink, enqueue, enqueueFails
    <3> QED BY <2>0, <3>1 DEF TypeOK
  <2>5. ASSUME run PROVE FALSE
    <3>1. pc' = pc \/ NotifyAll
      BY <2>5 DEF run, waitForWork, takeRecord, sinkSnapshot, sinkReturns, sinkThrows, finish
    <3> QED BY <2>0, <3>1 DEF NotifyAll, TypeOK
  <2> QED BY <2>2, <2>3, <2>4, <2>5 DEF Next, Thread
<1> QED BY <1>1, NumberInit, NumberNext, PTL DEF Spec, FlushWaitsForAll

-----------------------------------------------------------------------------
(* Counting: what is logged is somewhere.                                  *)

CountInv == QueueInv /\ AllLinesCounted

(* Every step accounts for each line. *)
LEMMA CountNext == CountInv /\ [Next]_vars => CountInv'
<1> SUFFICES ASSUME CountInv, [Next]_vars PROVE CountInv'
  OBVIOUS
<1>0. /\ QueueInv /\ QueueInv' /\ pending \in Seq(Records) /\ Len(pending) \in Nat
      /\ handled \in Seq(Nat) /\ Len(handled) \in Nat /\ failed \in Nat
      /\ dropped \in Nat /\ logged \in Nat
  BY QueueNext DEF CountInv, QueueInv, TypeOK, Records
<1>1. /\ Busy \in {0, 1}
      /\ logged = (Len(handled) - failed) + dropped + Len(pending) + Busy
  BY DEF CountInv, AllLinesCounted, Busy
<1>2. SUFFICES logged' = (Len(handled') - failed') + dropped' + Len(pending') + Busy'
  BY <1>0 DEF CountInv, AllLinesCounted, Busy
<1>3. ASSUME UNCHANGED <<logged, handled, failed, dropped, pending>>, Busy' = Busy
      PROVE  logged' = (Len(handled') - failed') + dropped' + Len(pending') + Busy'
  <2>1. Len(handled') = Len(handled) /\ Len(pending') = Len(pending)
    BY <1>3
  <2> QED BY <1>1, <1>3, <2>1
<1>4. CASE \E t \in Threads, size \in Sizes : enqueue(t, size)
  <2>1. PICK t \in Threads, size \in Sizes : enqueue(t, size)
    BY <1>4
  <2>2. /\ logged' = logged + 1 /\ UNCHANGED <<handled, failed>> /\ Busy' = Busy
        /\ \/ dropped' = dropped + 1 /\ UNCHANGED pending
           \/ pending' = Append(pending, [n |-> accepted + 1, size |-> size])
              /\ UNCHANGED dropped
    BY <2>1 DEF enqueue, workerVars, Busy
  <2>3. /\ logged' = logged + 1 /\ Len(handled') = Len(handled) /\ failed' = failed
        /\ Busy' = Busy
        /\ \/ dropped' = dropped + 1 /\ Len(pending') = Len(pending)
           \/ dropped' = dropped /\ Len(pending') = Len(pending) + 1
    BY <1>0, <2>2
  <2> QED BY <1>0, <1>1, <2>3
<1>5. CASE \E t \in Threads, size \in Sizes : enqueueFails(t, size)
  <2>1. /\ logged' = logged + 1 /\ dropped' = dropped + 1
        /\ UNCHANGED <<handled, failed, pending>> /\ Busy' = Busy
    BY <1>5 DEF enqueueFails, workerVars, historyVars, Busy
  <2>2. Len(handled') = Len(handled) /\ Len(pending') = Len(pending)
    BY <2>1
  <2> QED BY <1>0, <1>1, <2>1, <2>2
<1>6. CASE takeRecord
  <2>1. /\ pending # <<>> /\ pending' = Tail(pending) /\ Busy = 0 /\ Busy' = 1
        /\ UNCHANGED <<logged, handled, failed, dropped>>
    BY <1>6 DEF takeRecord, Busy
  <2>2. Len(pending') = Len(pending) - 1
    BY <1>0, <2>1
  <2> QED BY <1>0, <1>1, <2>1, <2>2
<1>7. CASE sinkReturns \/ sinkThrows
  <2>1. /\ handled' = Append(handled, record.n) /\ Busy = 1 /\ Busy' = 0
        /\ UNCHANGED <<logged, pending>>
        /\ \/ UNCHANGED <<failed, dropped>>
           \/ failed' = failed + 1 /\ dropped' = dropped + 1
    BY <1>7 DEF sinkReturns, sinkThrows, queueVars, Busy
  <2>2. /\ logged' = logged /\ Len(handled') = Len(handled) + 1 /\ Len(pending') = Len(pending)
        /\ Busy = 1 /\ Busy' = 0
        /\ \/ failed' = failed /\ dropped' = dropped
           \/ failed' = failed + 1 /\ dropped' = dropped + 1
    BY <1>0, <2>1
  <2> QED BY <1>0, <1>1, <2>2
<1>8. CASE finish \/ waitForWork \/ sinkSnapshot
  BY <1>3, <1>8 DEF finish, waitForWork, sinkSnapshot, queueVars, historyVars, Busy
<1>9. CASE \E t \in Threads : Thread(t) \/ flush(t) \/ setSink(t)
  BY <1>3, <1>9
     DEF Thread, notify, flush, flushWakes, flushReturns, setSink, queueVars, workerVars,
         historyVars, Busy
<1>10. CASE UNCHANGED vars
  BY <1>3, <1>10 DEF vars, queueVars, workerVars, historyVars, Busy
<1> QED BY <1>4, <1>5, <1>6, <1>7, <1>8, <1>9, <1>10 DEF Next, run

(* No line disappears without being counted by dropped(), whatever is too  *)
(* much, fails to allocate or makes the sink throw.                        *)
THEOREM NoLineUncounted == Spec => []AllLinesCounted
<1>1. Init => CountInv
  BY QueueInit DEF Init, CountInv, AllLinesCounted
<1>2. CountInv => AllLinesCounted
  BY DEF CountInv
<1> QED BY <1>1, <1>2, CountNext, PTL DEF Spec

-----------------------------------------------------------------------------
(* Sinks.                                                                  *)

SinkInv ==
  /\ QueueInv
  /\ pickedAt <= sink
  /\ NewLinesToNewSink

(* A sink replaced stays replaced, and the copy run() takes is the newest. *)
LEMMA SinkNext == SinkInv /\ [Next]_vars => SinkInv'
<1> SUFFICES ASSUME SinkInv, [Next]_vars PROVE SinkInv'
  OBVIOUS
<1>0. QueueInv /\ QueueInv' /\ sink \in Nat /\ pickedAt \in Nat /\ snapshot \in Nat
  BY QueueNext DEF SinkInv, QueueInv, TypeOK
<1>1. ASSUME UNCHANGED <<sink, pickedAt, snapshot>>, worker' = "writing" => worker = "writing"
      PROVE  SinkInv'
  BY <1>0, <1>1 DEF SinkInv, NewLinesToNewSink
<1>2. CASE \E t \in Threads : setSink(t)
  BY <1>0, <1>2 DEF setSink, workerVars, historyVars, SinkInv, NewLinesToNewSink
<1>3. CASE takeRecord
  BY <1>0, <1>3 DEF takeRecord, SinkInv, NewLinesToNewSink
<1>4. CASE sinkSnapshot
  BY <1>0, <1>4 DEF sinkSnapshot, historyVars, SinkInv, NewLinesToNewSink
<1>5. CASE sinkReturns \/ sinkThrows \/ finish \/ waitForWork
  BY <1>1, <1>5 DEF sinkReturns, sinkThrows, finish, waitForWork, historyVars
<1>6. CASE \E t \in Threads : Thread(t) \/ flush(t)
  BY <1>1, <1>6 DEF Thread, notify, flush, flushWakes, flushReturns, workerVars, historyVars
<1>7. CASE \E t \in Threads, size \in Sizes : enqueue(t, size) \/ enqueueFails(t, size)
  BY <1>1, <1>7 DEF enqueue, enqueueFails, workerVars, historyVars
<1>8. CASE UNCHANGED vars
  BY <1>1, <1>8 DEF vars, workerVars, historyVars
<1> QED BY <1>2, <1>3, <1>4, <1>5, <1>6, <1>7, <1>8 DEF Next, run

(* A line taken after setSink() returned goes to the sink it installed or  *)
(* to a newer one.                                                         *)
THEOREM TakenLinesToNewSink == Spec => []NewLinesToNewSink
<1>1. Init => SinkInv
  BY QueueInit DEF Init, SinkInv, NewLinesToNewSink
<1>2. SinkInv => NewLinesToNewSink
  BY DEF SinkInv
<1> QED BY <1>1, <1>2, SinkNext, PTL DEF Spec

=============================================================================
