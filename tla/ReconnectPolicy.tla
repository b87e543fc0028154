-------------------------- MODULE ReconnectPolicy ---------------------------
(***************************************************************************)
(* ReconnectPolicy (ITransport.hpp) and the delay both AMQP backends       *)
(* compute from it after a failed attempt.                                 *)
(***************************************************************************)
EXTENDS Integers

CONSTANT CountLimit      \* 2^63: std::chrono::milliseconds::rep counts from
                         \* -CountLimit to CountLimit - 1

ASSUME CountAssumption == CountLimit \in Nat \ {0}

WrappedCount(n) == ((n + CountLimit) % (2 * CountLimit)) - CountLimit

(* n << places, before the width of the count cuts it. *)
ShiftLeft(n, places) ==
  LET shifted[i \in 0..places] == IF i = 0 THEN n ELSE 2 * shifted[i - 1]
  IN  shifted[places]

(* Variant: the shift counts the attempt it follows too. *)
DelayShiftedOnceMore(initialDelay, maxDelay, failedAttempts) ==
  LET shifted == WrappedCount(ShiftLeft(initialDelay, failedAttempts))
  IN  IF shifted < maxDelay THEN shifted ELSE maxDelay

(* min(maxDelay, initialDelay << (failedAttempts - 1)), at the width of    *)
(* the count.                                                              *)
Delay(initialDelay, maxDelay, failedAttempts) ==
  LET shifted == WrappedCount(ShiftLeft(initialDelay, failedAttempts - 1))
  IN  IF shifted < maxDelay THEN shifted ELSE maxDelay

(* Whether the shift is within the count: beyond it the delay is whatever  *)
(* is left of the bits, 0 included.                                        *)
DelayFits(initialDelay, failedAttempts) ==
  ShiftLeft(initialDelay, failedAttempts - 1) < CountLimit

=============================================================================
