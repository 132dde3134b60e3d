------------------------------ MODULE SerialBatch ------------------------------
(***************************************************************************)
(* Relay._process_messages_serial: the messages of a batch are published   *)
(* one after the other by the main thread (--publish-concurrency 1).       *)
(***************************************************************************)
EXTENDS RelayBatch

VARIABLE pc   \* "next" at the head of the loop, "sending", "done"

vars == <<batchVars, pc>>

Init == BatchInit /\ pc = "next"

\* The deadline is passed between two messages: the rest is not started.
Abort ==
    /\ pc = "next"
    /\ Remaining # {}
    /\ deadline = "passed"
    /\ groups' = AppendAll(groups, "aborted", Remaining)
    /\ pc' = "done"
    /\ UNCHANGED <<retries, next, tried, policy, shutdown>>

PreExceeded ==
    /\ pc = "next"
    /\ Remaining # {}
    /\ deadline # "passed"
    /\ Exhausted(next)
    /\ groups' = Append1(groups, "exceeded", next)
    /\ next' = next + 1
    /\ UNCHANGED <<retries, tried, policy, shutdown, pc>>

Publish ==
    /\ pc = "next"
    /\ Remaining # {}
    /\ deadline # "passed"
    /\ ~Exhausted(next)
    /\ tried' = tried \cup {next}
    /\ pc' = "sending"
    /\ UNCHANGED <<retries, next, groups, policy, shutdown>>

\* RelayPublisher.publish returns, or raises, and the loop goes on.
PublishReturns ==
    /\ pc = "sending"
    /\ RecordSuccess(next) \/ RecordFailure(next)
    /\ next' = next + 1
    /\ pc' = "next"
    /\ UNCHANGED <<retries, tried, shutdown>>

\* An outage defers the message; if it opens the breaker, the loop is left with
\* the remaining messages deferred or exceeded.
PublishMeetsOutage ==
    /\ pc = "sending"
    /\ RecordOutage
    /\ LET deferred == Append1(groups, "deferred", next)
       IN  groups' = IF Opens(streak) THEN ClassifyRemaining(deferred, (next + 1)..Size)
                     ELSE deferred
    /\ next' = next + 1
    /\ pc' = IF Opens(streak) THEN "done" ELSE "next"
    /\ UNCHANGED <<retries, tried, shutdown>>

Return ==
    /\ pc = "next"
    /\ Remaining = {}
    /\ pc' = "done"
    /\ UNCHANGED batchVars

Relay == Abort \/ PreExceeded \/ Publish \/ PublishReturns \/ PublishMeetsOutage \/ Return

Environment == /\ pc # "done"
               /\ Signal \/ DeadlinePasses
               /\ UNCHANGED <<retries, next, groups, tried, policy, pc>>

Next == Relay \/ Environment

Spec == Init /\ [][Next]_vars
===============================================================================
