------------------------------- MODULE BatchModes ------------------------------
(***************************************************************************)
(* Relay._process_messages: a batch is published in the calling thread or   *)
(* by worker threads, as --publish-concurrency says, and either way keeps   *)
(* the same contract.                                                       *)
(***************************************************************************)
EXTENDS ParallelBatch

VARIABLE concurrency   \* --publish-concurrency: 1, or Concurrency

window == <<future, pending, finished, stop, wait>>
modeVars == <<vars, concurrency>>

Serial == INSTANCE SerialBatch

\* _process_messages.
ModeInit ==
    \/ concurrency = 1 /\ Serial!Init
       /\ future = [m \in Messages |-> "none"]
       /\ pending = {} /\ finished = {} /\ stop = "none" /\ wait = FALSE
    \/ concurrency = Concurrency /\ Init

SerialStep == concurrency = 1 /\ Serial!Relay /\ UNCHANGED window

ParallelStep == concurrency > 1 /\ MainThread

Process == (SerialStep \/ ParallelStep) /\ UNCHANGED concurrency

WorkerStep(m) == WorkerEnds(m) /\ UNCHANGED concurrency

\* Signals and time do not tell the modes apart.
ModeNext == \/ Process
            \/ \E m \in Messages : WorkerStep(m)
            \/ Environment /\ UNCHANGED concurrency

\* A publish ends within --send-timeout; the main thread goes on.
ModeSpec == /\ ModeInit /\ [][ModeNext]_modeVars
            /\ WF_modeVars(Process)
            /\ \A m \in Messages : WF_modeVars(WorkerStep(m))

-------------------------------------------------------------------------------
\* At the end of a batch every message is in a group, and in "aborted" only if the
\* shutdown deadline passed.  A parallel batch promises it if the deadline or the
\* breaker stopped it, also when publishes still in flight meet other outages or
\* the deadline after that (_process_messages_serial, _process_messages_parallel).
NothingLeftOut ==
    /\ pc = "done" /\ (concurrency = 1 \/ stop # "none") => Grouped = Messages
    /\ groups["aborted"] # {} => deadline # "none"

Contract == INSTANCE BatchContract
    WITH group <- [m \in Messages |->
                     IF \E g \in GroupNames \ {"aborted"} : m \in groups[g]
                     THEN CHOOSE g \in GroupNames \ {"aborted"} : m \in groups[g]
                     ELSE "none"],
         over <- pc \in {"done", "raised"}

\* In both modes the batch keeps the contract Outbox assumes of it, and comes to an
\* end: the main thread never waits for a future nobody completes.
KeepsContract == Contract!FairSpec
===============================================================================
