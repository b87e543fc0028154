---------------------------- MODULE AsyncLogSink ----------------------------
(***************************************************************************)
(* The bounded hand-off of diagnostics in src/Logger.cpp: any thread calls *)
(* enqueue, flush and setSink; one detached worker runs run().             *)
(*                                                                         *)
(* An action is one critical section of _queueMutex or _sinkMutex, or one  *)
(* step outside them.  A thread in condition_variable::wait is "asleep"    *)
(* until a notify; wakeups without one are left out, so that a missing     *)
(* notify cannot hide behind them.                                         *)
(***************************************************************************)
EXTENDS Integers, Sequences, FiniteSets, SequencesExt

CONSTANTS
  Threads,             \* the threads that log
  Sizes,               \* the lengths of their lines
  kMaxPendingLines,    \* 1024 in the code
  kMaxPendingBytes,    \* 1 MiB in the code
  NoRecord,
  MaxLines,            \* bound: lines logged
  MaxSinks             \* bound: calls of setSink

ASSUME LimitsAssumption ==
  /\ kMaxPendingLines \in Nat \ {0} /\ kMaxPendingBytes \in Nat
  /\ Sizes \subseteq Nat
  /\ MaxLines \in Nat /\ MaxSinks \in Nat

VARIABLES
  pending,        \* _pending: records, numbered in the order of acceptance
  pendingBytes,   \* _pendingBytes
  inFlight,       \* _inFlight
  dropped,        \* _dropped
  sink,           \* _sink: how many times it was replaced
  worker,         \* where run() is
  record,         \* the record run() holds
  snapshot,       \* the sink run() is about to call
  pc,             \* where each thread is
  logged,         \* lines logged so far
  accepted,       \* history: lines accepted
  handled,        \* history: numbers the sink was given, in order
  failed,         \* history: calls of the sink that threw
  pickedAt,       \* history: value of sink when run() took its record
  before          \* history: lines accepted when each thread called flush()

queueVars   == <<pending, pendingBytes, inFlight>>
workerVars  == <<worker, record, snapshot>>
historyVars == <<accepted, handled, failed, pickedAt, before>>
vars == <<queueVars, dropped, sink, workerVars, pc, logged, historyVars>>

Init ==
  /\ pending = <<>> /\ pendingBytes = 0 /\ inFlight = FALSE
  /\ dropped = 0
  /\ sink = 0
  /\ worker = "checking" /\ record = NoRecord /\ snapshot = 0
  /\ pc = [t \in Threads |-> "idle"]
  /\ logged = 0
  /\ accepted = 0 /\ handled = <<>> /\ failed = 0 /\ pickedAt = 0
  /\ before = [t \in Threads |-> 0]

-----------------------------------------------------------------------------
(* The threads that log.                                                   *)

(* Variant: the bytes already waiting are not counted. *)
TooMuchAlone(size) ==
  \/ Len(pending) >= kMaxPendingLines
  \/ size > kMaxPendingBytes

TooMuch(size) ==
  \/ Len(pending) >= kMaxPendingLines
  \/ size > kMaxPendingBytes - (IF pendingBytes < kMaxPendingBytes THEN pendingBytes
                                ELSE kMaxPendingBytes)

(* Variant: the bytes are given back but never counted. *)
enqueueUncounted(t, size) ==
  /\ pc[t] = "idle" /\ logged < MaxLines
  /\ logged' = logged + 1
  /\ IF TooMuch(size)
     THEN /\ dropped' = dropped + 1
          /\ UNCHANGED <<pending, pc, accepted>>
     ELSE /\ pending' = Append(pending, [n |-> accepted + 1, size |-> size])
          /\ accepted' = accepted + 1
          /\ pc' = [pc EXCEPT ![t] = "notifying"]
          /\ UNCHANGED dropped
  /\ UNCHANGED <<pendingBytes, inFlight, sink, workerVars, handled, failed, pickedAt, before>>

(* enqueue: the notify comes after the lock is released. *)
enqueue(t, size) ==
  /\ pc[t] = "idle" /\ logged < MaxLines
  /\ logged' = logged + 1
  /\ IF TooMuch(size)
     THEN /\ dropped' = dropped + 1
          /\ UNCHANGED <<pending, pendingBytes, pc, accepted>>
     ELSE /\ pendingBytes' = pendingBytes + size
          /\ pending' = Append(pending, [n |-> accepted + 1, size |-> size])
          /\ accepted' = accepted + 1
          /\ pc' = [pc EXCEPT ![t] = "notifying"]
          /\ UNCHANGED dropped
  /\ UNCHANGED <<inFlight, sink, workerVars, handled, failed, pickedAt, before>>

(* push_back throws (no memory): the bytes are counted and stay counted.   *)
enqueueFails(t, size) ==
  /\ pc[t] = "idle" /\ logged < MaxLines
  /\ ~TooMuch(size)
  /\ logged' = logged + 1
  /\ pendingBytes' = pendingBytes + size
  /\ dropped' = dropped + 1
  /\ UNCHANGED <<pending, inFlight, sink, workerVars, pc, historyVars>>

notify(t) ==
  /\ pc[t] = "notifying"
  /\ pc' = [pc EXCEPT ![t] = "idle"]
  /\ worker' = IF worker = "asleep" THEN "checking" ELSE worker
  /\ UNCHANGED <<queueVars, dropped, sink, record, snapshot, logged, historyVars>>

(* Variant: the record in the worker's hands is forgotten. *)
DrainedQueue == pending = <<>>

Drained == pending = <<>> /\ ~inFlight

(* flush, up to the first test of its predicate. *)
flush(t) ==
  /\ pc[t] = "idle"
  /\ before' = [before EXCEPT ![t] = accepted]
  /\ pc' = [pc EXCEPT ![t] = IF Drained THEN "flushed" ELSE "waiting"]
  /\ UNCHANGED <<queueVars, dropped, sink, workerVars, logged, accepted, handled, failed,
                 pickedAt>>

flushWakes(t) ==
  /\ pc[t] = "woken"
  /\ pc' = [pc EXCEPT ![t] = IF Drained THEN "flushed" ELSE "waiting"]
  /\ UNCHANGED <<queueVars, dropped, sink, workerVars, logged, historyVars>>

flushReturns(t) ==
  /\ pc[t] = "flushed"
  /\ pc' = [pc EXCEPT ![t] = "idle"]
  /\ UNCHANGED <<queueVars, dropped, sink, workerVars, logged, historyVars>>

setSink(t) ==
  /\ pc[t] = "idle" /\ sink < MaxSinks
  /\ sink' = sink + 1
  /\ UNCHANGED <<queueVars, dropped, workerVars, pc, logged, historyVars>>

-----------------------------------------------------------------------------
(* The worker.                                                             *)

waitForWork ==
  /\ worker = "checking" /\ pending = <<>>
  /\ worker' = "asleep"
  /\ UNCHANGED <<queueVars, dropped, sink, record, snapshot, pc, logged, historyVars>>

(* Variant: the newest line first. *)
takeNewest ==
  /\ worker = "checking" /\ pending # <<>>
  /\ record' = Last(pending)
  /\ pending' = Front(pending)
  /\ pendingBytes' = pendingBytes - Last(pending).size
  /\ inFlight' = TRUE
  /\ worker' = "picked"
  /\ pickedAt' = sink
  /\ UNCHANGED <<dropped, sink, snapshot, pc, logged, accepted, handled, failed, before>>

takeRecord ==
  /\ worker = "checking" /\ pending # <<>>
  /\ record' = Head(pending)
  /\ pending' = Tail(pending)
  /\ pendingBytes' = pendingBytes - Head(pending).size
  /\ inFlight' = TRUE
  /\ worker' = "picked"
  /\ pickedAt' = sink
  /\ UNCHANGED <<dropped, sink, snapshot, pc, logged, accepted, handled, failed, before>>

(* Variant: the sink is copied once, when the worker starts. *)
sinkSnapshotOnce ==
  /\ worker = "picked"
  /\ worker' = "writing"
  /\ UNCHANGED <<queueVars, dropped, sink, record, snapshot, pc, logged, historyVars>>

sinkSnapshot ==
  /\ worker = "picked"
  /\ snapshot' = sink
  /\ worker' = "writing"
  /\ UNCHANGED <<queueVars, dropped, sink, record, pc, logged, historyVars>>

sinkReturns ==
  /\ worker = "writing"
  /\ handled' = Append(handled, record.n)
  /\ worker' = "finishing"
  /\ UNCHANGED <<queueVars, dropped, sink, record, snapshot, pc, logged, accepted, failed,
                 pickedAt, before>>

(* Variant: the failure is swallowed without a trace. *)
sinkThrowsQuietly ==
  /\ worker = "writing"
  /\ handled' = Append(handled, record.n)
  /\ failed' = failed + 1
  /\ worker' = "finishing"
  /\ UNCHANGED <<queueVars, dropped, sink, record, snapshot, pc, logged, accepted, pickedAt,
                 before>>

sinkThrows ==
  /\ worker = "writing"
  /\ handled' = Append(handled, record.n)
  /\ failed' = failed + 1
  /\ dropped' = dropped + 1
  /\ worker' = "finishing"
  /\ UNCHANGED <<queueVars, sink, record, snapshot, pc, logged, accepted, pickedAt, before>>

NotifyAll == pc' = [t \in Threads |-> IF pc[t] = "waiting" THEN "woken" ELSE pc[t]]

(* Variant: notify_one. *)
finishNotifiesOne ==
  /\ worker = "finishing"
  /\ inFlight' = FALSE
  /\ worker' = "checking" /\ record' = NoRecord
  /\ IF pending = <<>> /\ \E t \in Threads : pc[t] = "waiting"
     THEN pc' = [pc EXCEPT ![CHOOSE t \in Threads : pc[t] = "waiting"] = "woken"]
     ELSE UNCHANGED pc
  /\ UNCHANGED <<pending, pendingBytes, dropped, sink, snapshot, logged, historyVars>>

finish ==
  /\ worker = "finishing"
  /\ inFlight' = FALSE
  /\ worker' = "checking" /\ record' = NoRecord
  /\ IF pending = <<>> THEN NotifyAll ELSE UNCHANGED pc
  /\ UNCHANGED <<pending, pendingBytes, dropped, sink, snapshot, logged, historyVars>>

run == waitForWork \/ takeRecord \/ sinkSnapshot \/ sinkReturns \/ sinkThrows \/ finish

Thread(t) == notify(t) \/ flushWakes(t) \/ flushReturns(t)

Next ==
  \/ \E t \in Threads :
       \/ Thread(t)
       \/ \E size \in Sizes : enqueue(t, size) \/ enqueueFails(t, size)
       \/ flush(t)
       \/ setSink(t)
  \/ run

(* A thread inside a call is scheduled again, and a sink returns or throws. *)
Spec == /\ Init /\ [][Next]_vars
        /\ WF_vars(run)
        /\ \A t \in Threads : WF_vars(Thread(t))

-----------------------------------------------------------------------------
(* Properties.                                                             *)

(* Every variable holds what the member it models can hold; _pendingBytes, *)
(* a size_t, in particular never goes below zero.                          *)
TypeOK ==
  /\ pending \in Seq([n : Nat, size : Sizes])
  /\ pendingBytes \in Nat
  /\ inFlight \in BOOLEAN
  /\ dropped \in Nat /\ sink \in Nat
  /\ worker \in {"checking", "asleep", "picked", "writing", "finishing"}
  /\ record \in [n : Nat, size : Sizes] \cup {NoRecord}
  /\ snapshot \in Nat
  /\ pc \in [Threads -> {"idle", "notifying", "waiting", "woken", "flushed"}]
  /\ logged \in 0..MaxLines

(* The counter covers the lines that wait: left[i] is the number of bytes  *)
(* from line i on.                                                         *)
BytesCovered ==
  \E left \in [1..Len(pending) + 1 -> 0..pendingBytes] :
    /\ left[Len(pending) + 1] = 0
    /\ \A i \in DOMAIN pending : left[i] = pending[i].size + left[i + 1]

(* The queue stays within both of its limits, for lines of every length,   *)
(* and the byte counter covers what waits even when an allocation failed.  *)
WithinLimits ==
  /\ Len(pending) <= kMaxPendingLines
  /\ pendingBytes <= kMaxPendingBytes
  /\ BytesCovered

(* No line disappears: each one logged was handed to the sink, is with the *)
(* worker, waits, or was counted by dropped().                             *)
AllLinesCounted ==
  logged = (Len(handled) - failed) + dropped + Len(pending)
             + (IF worker \in {"picked", "writing"} THEN 1 ELSE 0)

(* The sink gets the lines in the order in which they were accepted, none  *)
(* twice and none left out.                                                *)
SinkInOrder == handled = [i \in 1..Len(handled) |-> i]

(* flush() returns only when every line accepted before it was called has  *)
(* been through the sink, whoever logs or flushes meanwhile.               *)
FlushWaitsForAll ==
  [][\A t \in Threads : pc'[t] = "flushed" /\ pc[t] # "flushed" =>
       Len(handled) >= before'[t]]_vars

(* A line the worker takes after setSink has returned goes to the new      *)
(* sink: only the one already in its hands can still reach the old one.    *)
NewLinesToNewSink == worker = "writing" => snapshot >= pickedAt

(* Once the logging pauses, every flush() returns: no wakeup is lost.      *)
FlushReturns == \A t \in Threads : pc[t] = "waiting" ~> pc[t] = "flushed"

=============================================================================
