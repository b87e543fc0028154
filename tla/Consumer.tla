------------------------------ MODULE Consumer ------------------------------
(***************************************************************************)
(* The poison-message policy of motus::dispatch and the handler Consumer   *)
(* subscribes (src/Consumer.cpp), above the seam and shared by every       *)
(* backend.                                                                *)
(*                                                                         *)
(* A body is Malformed or it is not: oversized, without an envelope, with  *)
(* an unknown format_version.  What the application's handler does with a  *)
(* body is an outcome.  "escapes" is an exception that is not a            *)
(* std::exception: no catch clause of dispatch() sees it.                  *)
(***************************************************************************)
CONSTANT Malformed      \* the messages decode() refuses

HandlerShapes == {"onMessage", "onDeferred"}

(* How a call of the configured handler can end. *)
OutcomesOf(shape) ==
  {"TransientFailure", "exception", "escapes"}
    \cup IF shape = "onMessage" THEN {"returns"}
         ELSE {"Ack", "Reject", "Requeue", "Deferred"}

decode(body) == body \notin Malformed

(* Variant: the flag is not looked at. *)
classifyAlwaysRetry(redelivered) == "Requeue"

classifyTransient(redelivered) == IF redelivered THEN "Reject" ELSE "Requeue"

(* The disposition of one body.  An outcome that escapes has none.         *)
dispatch(body, outcome, redelivered) ==
  CASE ~decode(body)                  -> "Reject"
    [] outcome = "TransientFailure"   -> classifyTransient(redelivered)
    [] outcome = "exception"          -> "Reject"
    [] outcome = "returns"            -> "Ack"
    [] OTHER                          -> outcome

=============================================================================
