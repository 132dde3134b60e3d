--------------------------- MODULE DeliveryContract ---------------------------
(***************************************************************************)
(* What the outbox promises a producer about each task, without tables,    *)
(* relays, transactions or retries.  A committed task is queued until the  *)
(* broker has it or it is dead-lettered.  A dead task can be replayed or   *)
(* purged.  No task ever goes back to not being known, and a task is gone  *)
(* undelivered only from the dead-letter table.                            *)
(***************************************************************************)
CONSTANTS Tasks, Sendable

VARIABLE status

Statuses == {"unknown", "queued", "dead", "purged", "delivered"}

\* The changes a task may go through.  The last two are a relay that was
\* overtaken: it still holds a message another relay has dead-lettered, and
\* sends it or dead-letters it a second time after an operator purged the first
\* entry.
Moves == {<<"unknown", "queued">>,
          <<"queued", "dead">>, <<"queued", "delivered">>,
          <<"dead", "queued">>, <<"dead", "purged">>,
          <<"dead", "delivered">>, <<"purged", "delivered">>,
          <<"purged", "dead">>}

Init == status = [t \in Tasks |-> "unknown"]

\* Some tasks move, all by permitted moves; a transaction moves several.
Move == /\ status' \in [Tasks -> Statuses]
        /\ \A t \in Tasks : \/ status'[t] = status[t]
                            \/ <<status[t], status'[t]>> \in Moves

Spec == Init /\ [][Move]_status

Leaves(t) == status[t] = "queued" /\ Move /\ status'[t] # "queued"

FairSpec == Spec /\ \A t \in Sendable : WF_status(Leaves(t))
===============================================================================
