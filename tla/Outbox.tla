-------------------------------- MODULE Outbox --------------------------------
(***************************************************************************)
(* The outbox and dead-letter tables and the processes that write them:    *)
(* producers that commit rows, relay processes that claim, publish and     *)
(* settle them, and the operators' replay, purge and reset commands.       *)
(*                                                                         *)
(* A relay works in two transactions.  The first selects pending rows with *)
(* FOR UPDATE SKIP LOCKED and stamps them; the second, after the batch was *)
(* sent to the broker, deletes, reschedules or dead-letters them.  Between *)
(* the two no row is locked.  How the relay orders the sends of one batch, *)
(* and when its breaker and its shutdown deadline cut the batch short, is  *)
(* the subject of SerialBatch and ParallelBatch; here any order and any    *)
(* cut is possible.                                                        *)
(*                                                                         *)
(* Timestamps are kept as distances from the present: "age" is how long    *)
(* ago updated_at lies (it stops counting at StaleTimeout, where the code  *)
(* stops telling ages apart) and "wait" how far ahead retry_after lies (0  *)
(* when it has passed).  Tick moves all of them at once.                   *)
(***************************************************************************)
EXTENDS Naturals, FiniteSets

CONSTANTS
    Relays,        \* relay processes that share the database
    Tasks,         \* send_task calls, each with a task_id of its own
    Supported,     \* the tasks whose schema_version this release can send
    NULL,          \* SQL NULL, and "no such row"
    BatchSize,     \* --batch-size
    MaxRetries,    \* --max-retries
    StaleTimeout,  \* --stale-timeout-seconds, in ticks
    BackoffTime,   \* --backoff-time, in ticks
    MaxBackoff,    \* --max-backoff, in ticks
    Jitters,       \* what random.uniform may add to a delay, in ticks
    Cooldown,      \* --broker-outage-cooldown, in ticks
    MaxRows,       \* bound: the outbox rows ever inserted
    MaxFaults      \* bound: crashes, failed iterations, outages, cut batches
                   \* and resets by an operator, all together

ASSUME ParametersAssumption ==
    /\ Supported \subseteq Tasks
    /\ BatchSize \in Nat \ {0}
    /\ MaxRetries \in Nat \ {0}
    /\ StaleTimeout \in Nat \ {0}
    /\ BackoffTime \in Nat \ {0}
    /\ MaxBackoff \in Nat \ {0}
    /\ Cooldown \in Nat \ {0}
    /\ Jitters \subseteq Nat
    /\ MaxRows \in Nat
    /\ MaxFaults \in Nat

RowIds == 1..MaxRows
Later == 0..MaxBackoff \cup 0..Cooldown    \* distances to a retry_after
Groups == {"none", "published", "failed", "exceeded", "deferred"}

\* A row of celery_outbox: what the relay's decisions read of it.
Row == [task    : Tasks,
        retries : Nat,
        age     : 0..StaleTimeout \cup {NULL},   \* updated_at
        wait    : Later \cup {NULL}]             \* retry_after

\* A message: the row as the relay's selecting query read it, and the group
\* the batch has put it in so far.
Message == [task : Tasks, retries : Nat, wait : Later \cup {NULL}, group : Groups]

\* A row of celery_outbox_dead_letter.  "row" and "by" name the outbox row it
\* was made of and the relay that made it, and tell two such rows apart.
DeadLetter == [row : RowIds, by : Relays, task : Tasks, retries : Nat]

ASSUME NullAssumption == NULL \notin Nat \cup Row \cup Message

VARIABLES
    rows,       \* the outbox table: row id -> row, NULL where there is none
    nextId,     \* the next value of the table's id sequence
    dead,       \* the dead-letter table
    pc,         \* relay -> where its loop is
    batch,      \* relay -> row id -> message it holds in memory, or NULL
    held,       \* relay -> ticks since it stamped its batch (history)
    committed,  \* tasks whose row a producer committed (history)
    delivered,  \* task -> copies the broker accepted, 2 for "several" (history)
    attempts,   \* row id -> sends that failed without an outage (history)
    purged,     \* tasks an operator's purge removed (history)
    announced,  \* row ids named by outbox_message_dead_lettered (history)
    reset,      \* row ids reset while a relay held them (history)
    excused,    \* tasks that may be delivered twice, see Excuse (history)
    faults      \* faults so far, of MaxFaults

tables == <<rows, nextId, dead>>
history == <<committed, delivered, attempts, purged, announced, reset, excused>>
vars == <<tables, pc, batch, held, history, faults>>

-------------------------------------------------------------------------------
\* Reading the state.

Lesser(a, b) == IF a < b THEN a ELSE b

Present == {i \in RowIds : rows[i] # NULL}

\* Mutants of Pending: without the stale clause, and without the retry clause.
PendingNeverStale(i) ==
    /\ rows[i] # NULL
    /\ rows[i].task \in Supported
    /\ rows[i].age = NULL \/ rows[i].wait = 0

PendingNeverDue(i) ==
    /\ rows[i] # NULL
    /\ rows[i].task \in Supported
    /\ rows[i].age = NULL \/ (rows[i].age = StaleTimeout /\ rows[i].wait = NULL)

\* get_pending_filter: never claimed, due for a retry, or claimed so long ago
\* that the relay that claimed it is taken for dead; supported versions only.
Pending(i) ==
    /\ rows[i] # NULL
    /\ rows[i].task \in Supported
    /\ \/ rows[i].age = NULL
       \/ rows[i].wait = 0
       \/ rows[i].age = StaleTimeout /\ rows[i].wait = NULL

Holds(r, i) == batch[r][i] # NULL
Batch(r) == {i \in RowIds : Holds(r, i)}
Group(r, g) == {i \in Batch(r) : batch[r][i].group = g}
NoBatch == [i \in RowIds |-> NULL]

\* The rows an open transaction of relay r has locked: those its select
\* returned, or those its second transaction updates and deletes.
Locks(r) == CASE pc[r] = "claiming"  -> Batch(r)
              [] pc[r] = "recording" -> Batch(r) \cap Present
              [] OTHER               -> {}

LockedByOthers(r) == UNION {Locks(s) : s \in Relays \ {r}}
Locked == UNION {Locks(s) : s \in Relays}

\* Mutant of RetryDelay: the delay is not capped at max_backoff.
RetryDelayUncapped(k, jitter) == BackoffTime * 2^k + jitter

\* The delay of update_failed: backoff_time * 2^retries + jitter, at most
\* max_backoff.
RetryDelay(k, jitter) ==
    LET raw == BackoffTime * 2^k + jitter
    IN  IF raw \in 0..MaxBackoff THEN raw ELSE MaxBackoff

FaultPossible == faults < MaxFaults
Fault == FaultPossible /\ faults' = faults + 1

\* History: task t may from now on reach the broker twice.
Excuse(ts) == excused' = excused \cup ts
TasksOf(r, ids) == {batch[r][i].task : i \in ids}

Delivered(t) == delivered' = [delivered EXCEPT ![t] = Lesser(@ + 1, 2)]

-------------------------------------------------------------------------------
Init ==
    /\ rows = [i \in RowIds |-> NULL]
    /\ nextId = 1
    /\ dead = {}
    /\ pc = [r \in Relays |-> "ready"]
    /\ batch = [r \in Relays |-> NoBatch]
    /\ held = [r \in Relays |-> 0]
    /\ committed = {}
    /\ delivered = [t \in Tasks |-> 0]
    /\ attempts = [i \in RowIds |-> 0]
    /\ purged = {}
    /\ announced = {}
    /\ reset = {}
    /\ excused = {}
    /\ faults = 0

NewRow(t) == [task |-> t, retries |-> 0, age |-> NULL, wait |-> NULL]

\* The transaction a producer called send_task in commits.
Enqueue(t) ==
    /\ t \notin committed
    /\ nextId \in RowIds
    /\ rows' = [rows EXCEPT ![nextId] = NewRow(t)]
    /\ nextId' = nextId + 1
    /\ committed' = committed \cup {t}
    /\ UNCHANGED <<dead, pc, batch, held, delivered, attempts, purged, announced,
                   reset, excused, faults>>

\* Mutant of Candidates: the select takes no locks into account.
CandidatesIgnoringLocks(r) == {i \in RowIds : Pending(i)}

\* The candidates of the selecting query: SKIP LOCKED passes over the rows
\* another open transaction holds.
Candidates(r) == {i \in RowIds : Pending(i)} \ LockedByOthers(r)

\* ORDER BY id LIMIT batch_size.
FirstOf(ids) == {i \in ids : Cardinality({j \in ids : j < i}) < BatchSize}

\* MessageSelector._select opens the first transaction and locks the rows.
Select(r) ==
    /\ pc[r] = "ready"
    /\ Candidates(r) # {}
    /\ LET chosen == FirstOf(Candidates(r))
       IN  /\ batch' = [batch EXCEPT ![r] =
                 [i \in RowIds |->
                    IF i \in chosen
                    THEN [task |-> rows[i].task, retries |-> rows[i].retries,
                          wait |-> rows[i].wait, group |-> "none"]
                    ELSE NULL]]
           \* a row some other relay still works on is about to be sent twice
           /\ Excuse({rows[i].task : i \in
                        {j \in chosen : \E s \in Relays : Holds(s, j)}})
    /\ pc' = [pc EXCEPT ![r] = "claiming"]
    /\ UNCHANGED <<tables, held, committed, delivered, attempts, purged, announced,
                   reset, faults>>

\* MessageSelector._mark_in_flight stamps updated_at, and nothing else; the
\* first transaction commits and the locks are gone.
MarkInFlight(r) ==
    /\ pc[r] = "claiming"
    /\ rows' = [i \in RowIds |->
                  IF i \in Batch(r) THEN [rows[i] EXCEPT !.age = 0] ELSE rows[i]]
    /\ pc' = [pc EXCEPT ![r] = "publishing"]
    /\ held' = [held EXCEPT ![r] = 0]
    /\ UNCHANGED <<nextId, dead, batch, history, faults>>

Unclassified(r) == Group(r, "none")

Put(r, i, g) == batch' = [batch EXCEPT ![r][i].group = g]

Publishing(r, i) ==
    /\ pc[r] = "publishing"
    /\ i \in Unclassified(r)
    /\ UNCHANGED <<tables, pc, held, committed, purged, announced, reset>>

\* _record_pre_exceeded: the message's retries are used up before any send.
PreExceeded(r, i) ==
    /\ Publishing(r, i)
    /\ batch[r][i].retries >= MaxRetries
    /\ Put(r, i, "exceeded")
    /\ UNCHANGED <<delivered, attempts, excused, faults>>

\* The broker takes the message and the send returns.
PublishSucceeds(r, i) ==
    /\ Publishing(r, i)
    /\ batch[r][i].retries < MaxRetries
    /\ Delivered(batch[r][i].task)
    /\ Put(r, i, "published")
    /\ UNCHANGED <<attempts, excused, faults>>

\* A send that raised may still have reached the broker: the answer was lost.
AmbiguousSend(t) == \/ UNCHANGED <<delivered, excused>>
                    \/ Delivered(t) /\ Excuse({t})

\* Mutant of LastAttempt: one attempt too early.
LastAttemptEarly(m) == m.retries + 1 >= MaxRetries - 1

\* The attempt under way is the last one max_retries permits.
LastAttempt(m) == m.retries >= MaxRetries - 1

\* _record_non_outage_failure: the last permitted attempt exceeds, an earlier
\* one is scheduled again.
PublishFails(r, i) ==
    /\ Publishing(r, i)
    /\ batch[r][i].retries < MaxRetries
    /\ AmbiguousSend(batch[r][i].task)
    /\ attempts' = [attempts EXCEPT ![i] = Lesser(@ + 1, MaxRetries)]
    /\ Put(r, i, IF LastAttempt(batch[r][i]) THEN "exceeded" ELSE "failed")
    /\ UNCHANGED faults

\* Mutant of OutageGroup: the outage is counted as the last attempt.
OutageGroupCounting(m) == IF m.retries >= MaxRetries - 1 THEN "exceeded" ELSE "deferred"

\* The group of a message an outage leaves unsent.
OutageGroup(m) == IF m.retries >= MaxRetries THEN "exceeded" ELSE "deferred"

\* A broker outage defers the message.  If it is the one that opens the
\* breaker, _classify_breaker_remaining_messages settles the rest unsent.
PublishMeetsOutage(r, i, trips) ==
    /\ Publishing(r, i)
    /\ batch[r][i].retries < MaxRetries
    /\ AmbiguousSend(batch[r][i].task)
    /\ Fault
    /\ batch' = [batch EXCEPT ![r] = [j \in RowIds |->
         IF j = i \/ (trips /\ j \in Unclassified(r))
         THEN [batch[r][j] EXCEPT !.group = OutageGroup(batch[r][j])]
         ELSE batch[r][j]]]
    /\ UNCHANGED attempts

\* The shutdown deadline passes, or the parallel window stops refilling: the
\* rest of the batch is in no group, its rows stay stamped in the table.
CutBatch(r) ==
    /\ pc[r] = "publishing"
    /\ Unclassified(r) # {}
    /\ Fault
    /\ batch' = [batch EXCEPT ![r] =
                   [i \in RowIds |-> IF i \in Unclassified(r) THEN NULL
                                     ELSE batch[r][i]]]
    /\ UNCHANGED <<tables, pc, held, history>>

\* Mutant of Record: only messages whose last attempt was made in this batch are
\* announced.
RecordQuietly(r) ==
    /\ pc[r] = "publishing"
    /\ Unclassified(r) = {}
    /\ Batch(r) \cap LockedByOthers(r) = {}
    /\ pc' = [pc EXCEPT ![r] = "recording"]
    /\ announced' = announced \cup
                      {i \in Group(r, "exceeded") : batch[r][i].retries < MaxRetries}
    /\ UNCHANGED <<tables, batch, held, committed, delivered, attempts, purged,
                   reset, excused, faults>>

\* The second transaction runs its statements, takes their row locks, and
\* announces the dead letters; nothing is visible to others yet.
Record(r) ==
    /\ pc[r] = "publishing"
    /\ Unclassified(r) = {}
    /\ Batch(r) \cap LockedByOthers(r) = {}
    /\ pc' = [pc EXCEPT ![r] = "recording"]
    /\ announced' = announced \cup Group(r, "exceeded")
    /\ UNCHANGED <<tables, batch, held, committed, delivered, attempts, purged,
                   reset, excused, faults>>

\* Mutants of Deleted: the whole batch, and only what was dead-lettered.
DeletedBatch(r) == Batch(r)
DeletedExceeded(r) == Group(r, "exceeded")

\* The rows the second transaction deletes.
Deleted(r) == Group(r, "published") \cup Group(r, "exceeded")

\* Mutant of DeadLettersOf: nothing is inserted.
DeadLettersOfNone(r) == {d \in dead : d.by = r}

\* The dead letters it inserts, made of the messages in memory.
DeadLettersOf(r) == {[row |-> i, by |-> r, task |-> batch[r][i].task,
                      retries |-> batch[r][i].retries] : i \in Group(r, "exceeded")}

\* The second transaction commits: update_failed (retries counted up from the
\* table's value, the delay from the message's), delete_published,
\* move_exceeded_to_dead_letter and defer_due_to_outage.  Rows that are gone by
\* now are not touched; the dead letters are inserted all the same.
Settle(r, jitter) ==
    /\ rows' = [i \in RowIds |->
         CASE i \in Deleted(r) -> NULL
           [] i \in Group(r, "failed") \cap Present ->
                [rows[i] EXCEPT !.retries = @ + 1, !.age = 0,
                                !.wait = RetryDelay(batch[r][i].retries, jitter[i])]
           [] i \in Group(r, "deferred") \cap Present ->
                [rows[i] EXCEPT !.age = 0, !.wait = Cooldown]
           [] OTHER -> rows[i]]
    /\ dead' = dead \cup DeadLettersOf(r)

Commit(r) ==
    /\ pc[r] = "recording"
    /\ \E jitter \in [Group(r, "failed") -> Jitters] : Settle(r, jitter)
    /\ pc' = [pc EXCEPT ![r] = "ready"]
    /\ batch' = [batch EXCEPT ![r] = NoBatch]
    /\ held' = [held EXCEPT ![r] = 0]
    /\ UNCHANGED <<nextId, history, faults>>

\* What is lost when a relay's memory is lost before its second transaction
\* commits: the rows it sent are still in the table.
Forget(r) ==
    /\ batch' = [batch EXCEPT ![r] = NoBatch]
    /\ held' = [held EXCEPT ![r] = 0]
    /\ Excuse(TasksOf(r, Group(r, "published")))
    /\ Fault
    /\ UNCHANGED <<tables, committed, delivered, attempts, purged, announced, reset>>

\* An exception in _processing: the open transaction rolls back, start() logs
\* it and goes on with the next iteration.
IterationFails(r) ==
    /\ pc[r] \in {"claiming", "publishing", "recording"}
    /\ pc' = [pc EXCEPT ![r] = "ready"]
    /\ Forget(r)

Crash(r) ==
    /\ pc[r] # "down"
    /\ pc' = [pc EXCEPT ![r] = "down"]
    /\ Forget(r)

Restart(r) ==
    /\ pc[r] = "down"
    /\ pc' = [pc EXCEPT ![r] = "ready"]
    /\ UNCHANGED <<tables, batch, held, history, faults>>

\* The admin action reset_retries on selected rows; it waits for their locks.
ResetRetries(ids) ==
    /\ ids # {}
    /\ ids \cap Locked = {}
    /\ Fault
    /\ rows' = [i \in RowIds |->
                  IF i \in ids THEN [rows[i] EXCEPT !.retries = 0, !.age = NULL, !.wait = NULL]
                  ELSE rows[i]]
    /\ reset' = reset \cup {i \in ids : \E r \in Relays : Holds(r, i)}
    /\ UNCHANGED <<nextId, dead, pc, batch, held, committed, delivered, attempts,
                   purged, announced, excused>>

\* replay_dead_letters: one transaction inserts an outbox row for each dead
\* letter and deletes the dead letters.
Replay(entries) ==
    /\ LET n   == Cardinality(entries)
           new == nextId..(nextId + n - 1)
       IN  /\ n \in 1..(MaxRows + 1 - nextId)
           /\ \E source \in [new -> entries] :
                /\ \A d \in entries : \E i \in new : source[i] = d
                /\ rows' = [i \in RowIds |-> IF i \in new THEN NewRow(source[i].task)
                                             ELSE rows[i]]
           /\ nextId' = nextId + n
    /\ dead' = dead \ entries
    /\ Excuse({d.task : d \in entries})
    /\ UNCHANGED <<pc, batch, held, committed, delivered, attempts, purged, announced,
                   reset, faults>>

\* One chunk of purge_dead_letter.
Purge(entries) ==
    /\ entries # {}
    /\ dead' = dead \ entries
    /\ purged' = purged \cup {d.task : d \in entries}
    /\ UNCHANGED <<rows, nextId, pc, batch, held, committed, delivered, attempts,
                   announced, reset, excused, faults>>

\* The clock advances by one tick everywhere.
Older(age) == IF age = NULL THEN NULL ELSE Lesser(age + 1, StaleTimeout)
Sooner(wait) == IF wait = NULL THEN NULL ELSE IF wait = 0 THEN 0 ELSE wait - 1

Tick ==
    /\ rows' = [i \in RowIds |->
                  IF rows[i] = NULL THEN NULL
                  ELSE [rows[i] EXCEPT !.age = Older(@), !.wait = Sooner(@)]]
    /\ held' = [r \in Relays |-> IF pc[r] \in {"publishing", "recording"}
                                 THEN Lesser(held[r] + 1, StaleTimeout) ELSE held[r]]
    /\ UNCHANGED <<nextId, dead, pc, batch, history, faults>>

-------------------------------------------------------------------------------
Process(r) == \E i \in RowIds : \/ PreExceeded(r, i)
                                \/ PublishSucceeds(r, i)
                                \/ PublishFails(r, i)
                                \/ \E trips \in BOOLEAN : PublishMeetsOutage(r, i, trips)

\* What a relay's loop does of its own accord.
RelayStep(r) == Select(r) \/ MarkInFlight(r) \/ Process(r) \/ Record(r) \/ Commit(r)

Disturbance(r) == CutBatch(r) \/ IterationFails(r) \/ Crash(r)

Operator == \/ \E ids \in SUBSET Present : ResetRetries(ids)
            \/ \E entries \in SUBSET dead : Replay(entries) \/ Purge(entries)

Next == \/ \E t \in Tasks : Enqueue(t)
        \/ \E r \in Relays : RelayStep(r) \/ Disturbance(r) \/ Restart(r)
        \/ Operator
        \/ Tick

Spec == Init /\ [][Next]_vars

\* The loop runs until it is stopped and a supervisor restarts it; the
\* database clock goes on; faults are finitely many (MaxFaults).
FairSpec == /\ Spec
            /\ \A r \in Relays : WF_vars(RelayStep(r)) /\ WF_vars(Restart(r))
            /\ WF_vars(Tick)

-------------------------------------------------------------------------------
\* The values of the variables stay in their types; of a row, that no retry_after lies
\* further off than max_backoff, or the cooldown, allows (RelayMutations.update_failed,
\* defer_due_to_outage).
TypeOK ==
    /\ rows \in [RowIds -> Row \cup {NULL}]
    /\ nextId \in 1..(MaxRows + 1)
    /\ dead \subseteq DeadLetter
    /\ pc \in [Relays -> {"ready", "claiming", "publishing", "recording", "down"}]
    /\ batch \in [Relays -> [RowIds -> Message \cup {NULL}]]
    /\ held \in [Relays -> 0..StaleTimeout]
    /\ committed \subseteq Tasks
    /\ delivered \in [Tasks -> 0..2]
    /\ attempts \in [RowIds -> 0..MaxRetries]
    /\ purged \subseteq Tasks
    /\ announced \subseteq RowIds
    /\ reset \subseteq RowIds
    /\ excused \subseteq Tasks
    /\ faults \in 0..MaxFaults

Queued(t) == \E i \in Present : rows[i].task = t
Dead(t) == \E d \in dead : d.task = t

\* At-least-once delivery: a task a producer committed is in the outbox or in
\* the dead-letter table until the broker has it, unless an operator purged
\* it.  No crash, rollback, second claim, replay or reset in between loses it
\* (relay/_relay.py, relay/_mutations.py, replay.py).
NoTaskLost ==
    \A t \in committed : Queued(t) \/ Dead(t) \/ delivered[t] > 0 \/ t \in purged

\* A row that was not waiting for a retry belongs to the relay that stamped it
\* until the stale timeout: if two relays hold it, one of them has held it that
\* long, or an operator reset it meanwhile (message_selector, _pending).
FirstClaimExclusive ==
    \A r, s \in Relays : \A i \in RowIds :
        /\ r # s
        /\ Holds(r, i) /\ Holds(s, i)
        /\ batch[r][i].wait = NULL /\ batch[s][i].wait = NULL
        => \/ held[r] = StaleTimeout \/ held[s] = StaleTimeout
           \/ i \in reset

\* A message is dead-lettered only after max_retries sends of its row really
\* failed: neither outages, nor crashes, nor a cut batch use up the budget,
\* whichever relays the attempts were made by (_record_non_outage_failure,
\* _record_pre_exceeded, update_failed, defer_due_to_outage).
DeadOnlyAfterBudget == \A d \in dead : attempts[d.row] = MaxRetries

\* The broker gets a task twice only if a batch was lost after a send, a relay
\* claimed a row another one was working on, a send failed although the broker
\* took it, or an operator replayed it.  A deferred, cut or rescheduled batch
\* alone never duplicates (relay/_relay.py).
DuplicatesExplained == \A t \in Tasks : delivered[t] > 1 => t \in excused

\* Receivers of outbox_message_dead_lettered have been told of every dead letter:
\* the signal is sent before the commit, for attempts used up in this batch and
\* before it, so a crash can make an announcement untrue but none missing
\* (Relay._processing).
DeadIsAnnounced == \A d \in dead : d.row \in announced

\* Every row leaves the outbox, published or dead-lettered, if its version is
\* supported: no sequence of retries, deferrals, restarts and reclaims goes on
\* for ever once faults stop (Relay.start, get_pending_filter).
EveryRowLeaves ==
    \A i \in RowIds : (rows[i] # NULL /\ rows[i].task \in Supported) ~> (rows[i] = NULL)

-------------------------------------------------------------------------------
\* The implementation of the contract.

\* Where a task stands.  "lost" is no status of the contract.
Status(t) == CASE delivered[t] > 0   -> "delivered"
               [] delivered[t] = 0 /\ Queued(t) -> "queued"
               [] delivered[t] = 0 /\ ~Queued(t) /\ Dead(t) -> "dead"
               [] delivered[t] = 0 /\ ~Queued(t) /\ ~Dead(t) /\ t \in purged -> "purged"
               [] delivered[t] = 0 /\ ~Queued(t) /\ ~Dead(t) /\ t \notin purged
                    -> IF t \in committed THEN "lost" ELSE "unknown"

Contract == INSTANCE DeliveryContract
    WITH status <- [t \in Tasks |-> Status(t)], Sendable <- Supported

\* Every behaviour of the tables and relays is one the contract permits: a task
\* moves between the outbox, the dead-letter table and the broker only in the
\* permitted ways, whatever crashes, is retried or is claimed twice.
KeepsContract == Contract!Spec

\* The same with the contract's progress: a queued task gets out of the queue.
KeepsContractFairly == Contract!FairSpec

-------------------------------------------------------------------------------
\* Statements of the documentation that the code does not keep.

\* docs/architecture.md: the claim "prevents simultaneous claims on the same
\* row while it stays locked or within the stale-timeout window".  As
\* FirstClaimExclusive, for every row and not only for those without a retry.
ClaimExclusive ==
    \A r, s \in Relays : \A i \in RowIds :
        r # s /\ Holds(r, i) /\ Holds(s, i)
        => held[r] = StaleTimeout \/ held[s] = StaleTimeout \/ i \in reset
===============================================================================
