----------------------------- MODULE BatchContract -----------------------------
(***************************************************************************)
(* What Relay._process_messages promises of one batch, however it schedules *)
(* the sends: each message is put into at most one group, and into one its  *)
(* retries permit; an outage that opens the breaker settles all messages    *)
(* that are left; and a batch may end with some messages in no group, whose *)
(* rows stay stamped until they are stale.  These are the steps the module  *)
(* Outbox takes between a relay's two transactions.                         *)
(***************************************************************************)
EXTENDS Naturals

CONSTANTS Messages, MaxRetries

VARIABLES retries, group, over

vars == <<retries, group, over>>

Init ==
    /\ retries \in [Messages -> Nat]
    /\ group = [m \in Messages |-> "none"]
    /\ over = FALSE

Left == {m \in Messages : group[m] = "none"}

Permitted(m, g) ==
    CASE g \in {"published", "deferred"} -> retries[m] < MaxRetries
      [] g = "failed"                    -> retries[m] < MaxRetries - 1
      [] g = "exceeded"                  -> retries[m] >= MaxRetries - 1

Settle(m, g) ==
    /\ ~over
    /\ m \in Left
    /\ Permitted(m, g)
    /\ group' = [group EXCEPT ![m] = g]
    /\ UNCHANGED <<retries, over>>

\* The breaker opens; at least one message met the outage that opened it.
Trip ==
    /\ ~over
    /\ group' = [m \in Messages |->
         IF m \notin Left THEN group[m]
         ELSE IF retries[m] < MaxRetries THEN "deferred" ELSE "exceeded"]
    /\ \E m \in Messages : group'[m] = "deferred"
    /\ over' \in BOOLEAN
    /\ UNCHANGED retries

\* The batch is over, with or without messages left.
End ==
    /\ ~over
    /\ over' = TRUE
    /\ UNCHANGED <<retries, group>>

Next == \/ \E m \in Messages, g \in {"published", "failed", "exceeded", "deferred"} :
             Settle(m, g)
        \/ Trip
        \/ End

Spec == Init /\ [][Next]_vars

\* Every batch comes to an end.
FairSpec == Spec /\ WF_vars(End)
===============================================================================
