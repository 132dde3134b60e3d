----------------------------- MODULE ParallelBatch -----------------------------
(***************************************************************************)
(* Relay._process_messages_parallel: the main thread keeps a window of at   *)
(* most Concurrency publishes in flight on worker threads, and classifies   *)
(* each when it has come back.                                              *)
(*                                                                         *)
(* The main thread goes round: "loop" looks at the deadline, "fill" refills *)
(* the window, "await" takes one finished future, "poll" lists the others   *)
(* that are finished by now and "sweep" takes them.                         *)
(***************************************************************************)
EXTENDS RelayBatch

CONSTANTS Concurrency   \* --publish-concurrency, more than one

ASSUME ConcurrencyAssumption == Concurrency \in Nat \ {0, 1}

VARIABLES
    pc,        \* where the main thread is
    future,    \* message -> "none", "running", or how its publish ended
    pending,   \* futures the main thread has not taken back
    finished,  \* those of them "poll" found done
    stop,      \* stop_reason: "none", "shutdown" or "breaker"
    wait       \* wait_for_inflight_after_outage

vars == <<batchVars, pc, future, pending, finished, stop, wait>>

Endings == {"ok", "error", "outage", "fatal"}

Init ==
    /\ BatchInit
    /\ pc = "loop"
    /\ future = [m \in Messages |-> "none"]
    /\ pending = {}
    /\ finished = {}
    /\ stop = "none"
    /\ wait = FALSE

\* The head of the loop: the deadline may stop the batch.
Loop ==
    /\ pc = "loop"
    /\ IF pending = {} /\ Remaining = {}
       THEN pc' = "over" /\ UNCHANGED stop
       ELSE /\ pc' = "fill"
            /\ stop' = IF stop = "none" /\ deadline = "passed" THEN "shutdown" ELSE stop
    /\ UNCHANGED <<batchVars, future, pending, finished, wait>>

\* Mutant of MayRefill: the breaker does not keep the window from refilling.
MayRefillUnstopped == ~wait /\ Remaining # {} /\ Cardinality(pending) < Concurrency

\* _fill_parallel_window goes on while the window has room and nothing stops it.
MayRefill == /\ ~wait
             /\ Remaining # {}
             /\ Cardinality(pending) < Concurrency
             /\ stop = "none"

\* _fill_parallel_window takes up one more message: it finds the deadline
\* passed, finds the retries used up, cannot prepare the publish (which counts
\* as a publish that failed), or submits it.
Refill ==
    /\ pc = "fill"
    /\ MayRefill
    /\ UNCHANGED <<retries, shutdown, finished, wait>>
    /\ \/ /\ deadline = "passed"
          /\ stop' = "shutdown"
          /\ UNCHANGED <<next, groups, tried, policy, pc, future, pending>>
       \/ /\ deadline # "passed"
          /\ next' = next + 1
          /\ UNCHANGED pc
          /\ \/ /\ Exhausted(next)
                /\ groups' = Append1(groups, "exceeded", next)
                /\ UNCHANGED <<tried, policy, future, pending, stop>>
             \/ /\ ~Exhausted(next)
                /\ tried' = tried \cup {next}
                /\ \/ /\ RecordFailure(next)
                      /\ UNCHANGED <<future, pending, stop>>
                   \/ /\ RecordOutage
                      /\ groups' = Append1(groups, "deferred", next)
                      /\ stop' = IF Opens(streak) THEN "breaker" ELSE stop
                      /\ UNCHANGED <<future, pending>>
                   \/ /\ future' = [future EXCEPT ![next] = "running"]
                      /\ pending' = pending \cup {next}
                      /\ UNCHANGED <<groups, policy, stop>>

\* Mutant of DoneRefilling: the loop is left although publishes are in flight.
DoneRefillingEarly == IF pending = {} \/ stop # "none" THEN "over" ELSE "await"

\* Where the main thread goes from a full, or stopped, window.
DoneRefilling == IF pending = {} THEN "over" ELSE "await"

Refilled ==
    /\ pc = "fill"
    /\ ~MayRefill
    /\ pc' = DoneRefilling
    /\ wait' = IF pending = {} THEN wait ELSE FALSE   \* _drain begins with no wait
    /\ UNCHANGED <<batchVars, future, pending, finished, stop>>

\* A worker's Celery.send_task returns or raises.
WorkerEnds(m) ==
    /\ future[m] = "running"
    /\ \E e \in Endings : future' = [future EXCEPT ![m] = e]
    /\ UNCHANGED <<batchVars, pc, pending, finished, stop, wait>>

\* _consume_parallel_future classifies a finished future.  What is no Exception
\* is raised in the main thread, after the pool has waited for its workers.
Consume(m) ==
    /\ future[m] \in Endings
    /\ pending' = pending \ {m}
    /\ \/ future[m] = "ok" /\ RecordSuccess(m) /\ UNCHANGED <<stop, wait>>
       \/ future[m] = "error" /\ RecordFailure(m) /\ UNCHANGED <<stop, wait>>
       \/ /\ future[m] = "outage"
          /\ RecordOutage
          /\ groups' = Append1(groups, "deferred", m)
          /\ stop' = IF Opens(streak) /\ stop # "shutdown" THEN "breaker" ELSE stop
          /\ wait' = (wait \/ (pending' # {} /\ ~(Opens(streak) /\ stop = "shutdown")))
    /\ UNCHANGED <<retries, next, tried, shutdown, future>>

\* as_completed yields any one finished future first.
Await(m) ==
    /\ pc = "await"
    /\ m \in pending
    /\ Consume(m)
    /\ pc' = "poll"
    /\ UNCHANGED finished

Poll ==
    /\ pc = "poll"
    /\ finished' = {m \in pending : future[m] \in Endings}
    /\ pc' = "sweep"
    /\ UNCHANGED <<batchVars, future, pending, stop, wait>>

\* The others are taken in the order they were submitted.
Sweep ==
    /\ pc = "sweep"
    /\ \E m \in finished : /\ \A l \in finished : m <= l
                           /\ Consume(m)
                           /\ finished' = finished \ {m}
    /\ UNCHANGED pc

Swept ==
    /\ pc = "sweep"
    /\ finished = {}
    /\ pc' = "loop"
    /\ UNCHANGED <<batchVars, future, pending, finished, stop, wait>>

Raise ==
    /\ \/ pc = "await" /\ \E m \in pending : future[m] = "fatal"
       \/ pc = "sweep" /\ \E m \in finished : /\ \A l \in finished : m <= l
                                              /\ future[m] = "fatal"
    /\ \A m \in Messages : future[m] # "running"
    /\ pc' = "raised"
    /\ UNCHANGED <<batchVars, future, pending, finished, stop, wait>>

\* After the loop: what was not taken up is aborted, or settled by the breaker.
Return ==
    /\ pc = "over"
    /\ groups' = CASE stop = "shutdown" -> AppendAll(groups, "aborted", Remaining)
                   [] stop = "breaker"  -> ClassifyRemaining(groups, Remaining)
                   [] stop = "none"     -> groups
    /\ pc' = "done"
    /\ UNCHANGED <<retries, next, tried, policy, shutdown, future, pending,
                   finished, stop, wait>>

MainThread == \/ Loop \/ Refill \/ Refilled \/ Poll \/ Sweep \/ Swept \/ Raise \/ Return
              \/ \E m \in Messages : Await(m)

Environment == /\ pc \notin {"done", "raised"}
               /\ Signal \/ DeadlinePasses
               /\ UNCHANGED <<retries, next, groups, tried, policy, pc, future,
                              pending, finished, stop, wait>>

Next == MainThread \/ (\E m \in Messages : WorkerEnds(m)) \/ Environment

Spec == Init /\ [][Next]_vars

-------------------------------------------------------------------------------
TypeOK ==
    /\ BatchTypeOK
    /\ pc \in {"loop", "fill", "await", "poll", "sweep", "over", "done", "raised"}
    /\ future \in [Messages -> {"none", "running"} \cup Endings]
    /\ pending \subseteq Messages
    /\ Cardinality(pending) <= Concurrency
    /\ finished \subseteq pending
    /\ stop \in {"none", "shutdown", "breaker"}
    /\ wait \in BOOLEAN

\* A message whose publish was begun is classified from how it ended, whatever
\* stopped the batch meanwhile: a send the broker took is never rescheduled,
\* aborted or forgotten (_process_messages_parallel, _consume_parallel_future).
OutcomesKept ==
    pc = "done" =>
        \A m \in Messages :
            /\ future[m] = "ok" => m \in groups["published"]
            /\ future[m] = "outage" => m \in groups["deferred"]
            /\ future[m] = "error" => m \in groups["failed"] \cup groups["exceeded"]
            /\ m \in tried => m \in Grouped \ groups["aborted"]

\* "No new futures start after deadline", nor "after breaker open" (the design of
\* the parallel mode): once the batch has a reason to stop, or the breaker is
\* open, no further publish begins, although others are still in flight.
NoPublishAfterStop == [][stop # "none" \/ tripped => tried' = tried]_vars

-------------------------------------------------------------------------------
\* Statements of the documentation that the code does not keep.

\* docs/superpowers/specs, parallel publish mode: "Parallel publish must still end
\* the batch with the same logical groups", that is, every message is in one.
EveryMessageGrouped == pc = "done" => Grouped = Messages
===============================================================================
