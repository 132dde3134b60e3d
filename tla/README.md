# Verification of django-celery-outbox

TLA+ models of `src/django_celery_outbox`, TLC runs over small instances of
them, and TLAPS proofs for every value of their constants. `PROJECT.json` lists
the runs, the theorems, the mutants that show that each property can fail, the
lines of code each definition models, the hazards and the findings.

    tlc -config MCOutbox_race.cfg MCOutbox      # any run: its cfg and module
    tlapm OutboxProofs.tla                      # any of the eight proof modules

## 1. The system

The package stores Celery tasks in a database table in the transaction of the
caller, and a relay process publishes them later.

| component | state | operations | correct when |
|---|---|---|---|
| tables (`models.py`, `_pending.py`) | `celery_outbox`: `retries`, `updated_at`, `retry_after`, version; `celery_outbox_dead_letter` | insert, stamp, reschedule, delete, move, replay, purge | a committed task is in one of them until the broker has it |
| producer (`app.py`, `serialization.py`) | the caller's transaction, its `on_commit` callbacks, the cache of redactors | `send_task`, excluded tasks, redaction | only committed calls are sent and counted; options keep their meaning; rows are redacted as the setting says |
| claiming (`relay/_message_selector.py`) | row locks of the first transaction | `SELECT ... FOR UPDATE SKIP LOCKED`, stamp `updated_at` | two relays do not work on one row before the stale timeout |
| batch (`relay/_relay.py`) | the groups of a batch, a window of futures | publish serially or in a thread pool, classify | every outcome is recorded once, and truly |
| policy (`relay/_policy.py`) | outage streak, breaker, shutdown deadline | record, open, skip, signal | no work while open; the process ends in time |
| settling (`relay/_mutations.py`) | the second transaction | delete, reschedule, dead-letter, defer | consistent with the batch, whatever others did meanwhile |
| loop (`relay/_relay.py`) | `_running`, liveness file, cached queue snapshot | iterate, drain, sleep, sample, survive failures | goes on until told to stop, then ends; file and gauges are recent |
| dead-letter operations (`replay.py`, `purge.py`, `admin.py`, `tasks.py`, commands) | row locks, admin log, retention policy | replay, retry, purge, dry run, reset | a letter leaves once, all that remain are moved, only what was asked for is purged, all of it ends |
| configuration and checks (`relay/_config.py`, `_settings.py`, `checks.py`, the relay command) | settings, applied migrations, options | check, migrate, start, refuse | a clean check suffices to start but for what it does not read; checks never block what they ask for |
| test support (`fixtures.py`, `_fixture_support.py`) | rows and caches that outlive a test, recorded calls, the drain loop | reset, record, drain | tests are isolated; the recorder is true; a drain ends |
| publisher (`relay/_publisher.py`) | none | deserialise, `Celery.send_task` | |
| statistics, metrics, logging, migrations' content | none that the others depend on | count, emit | see section 8 |

How they interact: producers, relays and operators share only the two tables;
relays never talk to one another. Within a relay the main thread, its worker
threads and its signal handler share the policy and the batch. What is hard:

- a row is locked in each of a relay's two transactions but not between them,
  where the broker is called; only a time stamp protects it there;
- crashes, rollbacks and lost broker answers between the two transactions;
- operators change rows a relay holds a copy of;
- the parallel window: outages, the deadline and fatal errors arriving while
  sends are in flight;
- sleeps, sends and cooldowns against the shutdown deadline, and what goes stale
  in the meantime;
- statements that lock the same rows in different orders, and purges in chunks
  while rows come and go;
- savepoints that roll back a part of the caller's work, and callbacks that raise after the commit;
- settings, schema and release that change between a check and a start;
- caches keyed by the address of an object.

Each is a hazard in `PROJECT.json`, at its line.

## 2. The modules

| module | models | extends / uses |
|---|---|---|
| `DeliveryContract` | abstract: what a producer is promised about each task | |
| `Outbox`, `MCOutbox` | tables, producers, several relays, operators | implements `DeliveryContract` |
| `OutboxProofs` | theorems about `Outbox` | uses `BatchContract` |
| `BatchContract` | abstract: what one batch promises | |
| `RelayBatch` | groups, budget and policy common to both modes | |
| `SerialBatch`, `ParallelBatch` | the two ways to publish a batch | extend `RelayBatch` |
| `BatchModes` | `_process_messages`: the choice between them | composes both, implements `BatchContract` |
| `BatchProofs` | theorems about `BatchModes` | |
| `RelayDaemon` | one relay's loop in time, and its sampler | |
| `DaemonProofs` | theorems about `RelayDaemon` | |
| `DeadLetterOps` | replay, admin retry and purge, by statement | |
| `DeadLetterProofs` | theorems about `DeadLetterOps` | |
| `Retention`, `MCRetention` | which letters a purge deletes and what it reports | |
| `RetentionProofs` | theorems about `Retention` | |
| `Producer`, `MCProducer` | `send_task` in nested transactions; options | |
| `ProducerProofs` | theorems about `Producer` | |
| `Startup`, `MCStartup` | checks, migrate, start of the relay, growth of the retry delay | |
| `StartupProofs` | theorems about `Startup` | |
| `TestSession`, `MCTestSession` | the pytest fixtures, the redactor cache, `drain_outbox` | |
| `TestSessionProofs` | theorems about `TestSession` | |

The split follows the grain of atomicity. `Outbox` sees a relay as select,
stamp, one message at a time in any order, record, commit. `BatchContract` (settle
one, trip, end with some left) joins it to `BatchModes`, the real code: a batch keeps
the contract, serial or parallel, and the batches of `Outbox` follow the same contract
with `PreExceeded`, `PublishSucceeds`, `PublishFails`, `PublishMeetsOutage`, `CutBatch`
and `Record`. Both are proved (section 5). `DeadLetterOps` shows why `Outbox` and `Retention` may take
`Replay` and a purge's chunk as atomic, and `Producer` why `Outbox` may take
`Enqueue` as atomic.

### Outbox

`rows` and `dead` are the tables, `batch` the messages in a relay's memory with
the group they are in, `pc` where its loop is. Locks are derived from `pc`: the
selected rows while "claiming", the rows still present while "recording".

| action | code |
|---|---|
| `Enqueue` | the commit of a transaction that called `send_task` |
| `Select`, `MarkInFlight` | `MessageSelector._select`, `_mark_in_flight`; the first transaction |
| `PreExceeded`, `PublishSucceeds`, `PublishFails`, `PublishMeetsOutage` | `_process_messages` and the `_record_*` helpers |
| `CutBatch` | shutdown deadline, or the window that is not refilled |
| `Record`, `Commit` | the second transaction, signals of dead letters inside it |
| `IterationFails`, `Crash`, `Restart` | an exception in `_processing`; loss and restart of the process |
| `ResetRetries`, `Replay`, `Purge` | operators |
| `Tick` | time |

Time stamps are distances from the present, so that the state space is finite
with no bound on the clock; `age` stops at the stale timeout, where the code
stops telling ages apart, and a retry is at most the longest delay or cooldown away. A send that raises may have reached the broker. The
variables marked "(history)" record what happened and no action's guard reads
them (`committed` alone limits `Enqueue` to one call per task).

The database is taken to run at READ COMMITTED with row locks: PostgreSQL's own
default and Django's on MySQL. One without `SKIP LOCKED` is refused by the system
check `celery_outbox.E001` (`Startup`).

### Batches

A batch starts with any `retries` for each message, also more than `MaxRetries`
(three relays that hold a row at once may each count a failure, and the limit may be
lowered), any position of the shutdown deadline and a streak of zero or one outage left
by earlier batches. In
`ParallelBatch` a worker ends at any time in success, failure, outage or a
fatal `BaseException`; `poll` takes the snapshot of finished futures on which
the sweep works, so that a future may finish in between. `answers` keeps what the batch
told the policy, after the outage that ended the one before: it is history, and what
`OpensOnTwoInARow`, a part of `Accounting`, compares the breaker with. `BatchModes` adds the
variable `concurrency`, and gives the serial mode an idle window.

### RelayDaemon

The time left of every sleep, send, cooldown and deadline, moved by `Tick`.
Python resumes `time.sleep` after a signal handler, so a signal shortens no
sleep under way. Database errors may strike in either transaction, in the
snapshot after them, and in the two queries outside of the `try`. `sampledAgo` is
when the sampler last asked for statistics, `statsAge` how old its answer is.

### DeadLetterOps

Each statement takes its snapshot, then reaches rows one by one: `Reach` locks a
row or waits, `WaitEnds` goes on and passes over a row that is gone. A replay
reaches rows by primary key, a DELETE in any order; a circle of waits makes one
transaction fail (`Victim`). `retry_selected` lists, replays in a savepoint,
looks up what remains, logs and commits. Both tables and the admin log are in
one database; with two, its transaction and the inner one are unrelated (a
hazard without a model).

### Retention

A run has a request (options of the command line, settings, dry or not), its
start, from which both cutoffs follow, its chunk and what it has counted.
`Policy` is the precedence of `Command.handle` and `purge_dead_letter_task`,
`Refused` what either rejects, `Head` the order and size of a chunk. Reading and
deleting a chunk are two steps: letters are buried and replayed between them.
Durations are numbers of ticks, a malformed one is `Junk`, one that `datetime`
cannot subtract `Endless`.

### Producer

`stack` is the caller's open atomic blocks, each with its rows and its callbacks in
the order they were registered; a row and its callback belong to the innermost. The
caller may register a callback of its own that raises (`OWN`, once in the open blocks;
callbacks that do not raise change nothing here). After the outermost commit the
callbacks run one by one (`due`): an increment that raises is swallowed and counts
nothing (`failed`), a raising callback of the caller's discards those after it
(`behind`), and the process may die in between (`lost`). A request that is excluded is
kept as it was asked (`SendExcluded`): what Celery then makes of it is Celery's, and
nothing is claimed of it. An option of the others is followed from the call through the JSON column to the
message, on an absolute clock.

### Startup

A deployment's settings, backend, release and schema; `Errors` is what the
checks report, with the databases a command selects, and `migrate` exempt from
E005 and E006. `StartRelay` is the command from its checks to the constructor of
`Relay`, which raises for a backend without `SKIP LOCKED`, for a stale timeout that no
timedelta holds, and perhaps where the database does not answer (MySQL is asked for its
version). `FailingBatch` is what then happens to a message the broker refuses each
time, with the delay that a float or a timedelta may not hold.

### TestSession

One Python process that runs tests: the tables, the redactor cache with its
least recently used order, and the recorder of `fake_relay` are what may leak from
one test into the next. `Pass` is one iteration of the real relay within
`drain_outbox` with any mix of failed, deferred and sent rows, and a receiver that
may add a row; `PassRaises` one whose second transaction fails. Rows and recorded
calls are sets of records, a row with its id, a call with its place in the record.

## 3. The runs

| run | states | question and bounds |
|---|---|---|
| `outbox_race` | 438 242 | two relays, one task, two rows ever, two faults: can interleaving, crash, reset, replay or purge lose a task, spend its budget, duplicate it without cause, or break the contract? A second row is needed for a replay, two faults for a crash after a reset or an outage |
| `outbox_live` | 143 597 | one relay, batch of one, three tasks, one unsupported: does every supported row leave, starvation included? |
| `outbox_double_claim` | violation | the claim does not exclude a second one for a row that waited for a retry |
| `batch` | 436 456 | three messages, serial or with a window of two (one message is left when it is full), retries below, at and above the limit, every mix of outcomes and moments of the deadline: is each outcome kept, does the breaker open on two outages in a row only, is none begun after a stop, none left out that may not be? |
| `parallel_grouped` | violation | messages that end in no group |
| `daemon` | 206 674 | cooldown longer than shutdown timeout, two signals, two errors, endless arrivals: does the loop end, in time, and go on otherwise; how old do its file and gauges get? |
| `dead_letters` | 626 854 | a command, an admin action and a purge over three letters, chunks of two: two actors that wait in a circle and a third that interferes |
| `dead_letters_log` | violation | the admin log names letters it did not move |
| `retention` | 2 237 267 | two purges over two letters of two tasks, one of which may be dry, three instants: is only what was asked for deleted, foretold and reported? |
| `producer` | 782 867 | two calls, two nested blocks, a callback of the caller and increments that may raise, every kind of option, excluded or not, three instants |
| `startup` | 17 852 | settings with any one thing wrong, two releases, two changes or failures, options and stale timeouts on both sides of each limit |
| `fixtures` | 479 608 | two tests, two rows, two redactors (one works in place), a cache of one entry |

Why the bounds are enough: relays interact only through one row at a time, so
two relays and one row reach each race over a row, and a third relay only repeats
what the second does after a stale timeout; one batch interacts with itself only
through the limit and the breaker, for which two rows suffice. `MaxRetries` is 2
so that a first failure, a last one and an exhausted row differ. Times are one to
three ticks where only their order matters, and in `RelayDaemon` chosen so that
the two candidates for the worst case (send and idle sleep; rest of a cooldown)
differ. Retries have no bound of their own: the budget limits them. An instance of
`Outbox` with two messages per batch is not run: what it would ask
(no loss, the budget) is proved for every batch size, and what happens within a
batch is the subject of `batch`. In `Retention` a chunk holds one letter, so that
two letters make a loop. In `Startup` 2^1024 is scaled down to 2^3, the longest
timedelta to 5 and the longest age of a row to 4, on both sides of which there are
options. In `Producer` one callback of the caller's own at a time is enough: what is
behind the first that raises is lost already. In `outbox_race` the
first delay is as long as `MaxBackoff`, so that its jitter takes it beyond the cap. In `TestSession` one entry of cache makes
every second redactor evict the first.

The proofs of section 5 remove the bounds from the safety properties of all passing
runs.

Symmetry exchanges relays in `outbox_race`; relays are named only in history
that is compared by equality, and the one temporal property checked there is a
safety property.

Deadlock checking is off where the process really ends (batches, the daemon
after its exit, commands that are done, calls that are all made, runs that are
over, tests that are over).

## 4. Fairness

- `Outbox`: weak fairness of each relay's own steps and its restart (`start()` runs
  until told to stop, a supervisor restarts it) and of `Tick`. Faults are finite
  (`MaxFaults`); nothing is assumed of the broker, which may refuse every send.
- `BatchModes`: weak fairness of the main thread and of each worker, which
  `--send-timeout` bounds.
- `RelayDaemon`: weak fairness of the loop, and strong fairness of `Tick`: the
  process does not run for ever in no time. Ticks are enabled only in sleeps and
  sends, which alternate with untimed steps; each of these takes real time.
- `DeadLetterOps`: one weak fairness for all actors together: while some
  statement can go on, or a deadlock be resolved, one is. No fairness between
  actors is assumed.
- `Startup`: weak fairness of the database's return, of migrate (operators run it
  until it is through) and of the relay's batches, these only as long as the database
  can compute the age of a stale row: beyond that PostgreSQL refuses every selection.
  Nobody has to run a check.
- `TestSession`: weak fairness of `Pass` alone, the loop of `drain_outbox`. Nothing
  is assumed of the tests.

## 5. What is proved

| module | theorem | statement |
|---|---|---|
| `OutboxProofs` | `Invariance` | `Spec => []Inv` |
| | `TypesHold` | `Spec => []TypeOK` |
| | `NothingIsLost` | `Spec => []NoTaskLost` |
| | `ContractIsKept` | `Spec => KeepsContract` |
| | `DuplicatesAreExplained` | `Spec => []DuplicatesExplained` |
| | `AllAnnounced` | `Spec => []DeadIsAnnounced` |
| | `ClaimsExclude` | `Spec => []FirstClaimExclusive` |
| | `BudgetIsKept` | `Spec => []DeadOnlyAfterBudget` |
| | `BatchesFollowContract` | `Spec => BatchesKeepContract`, the batch of each relay and `BatchContract` |
| `BatchProofs` | `BatchInvariance` | `ModeSpec => []BatchInv` |
| | `GroupsAccountedFor` | `ModeSpec => []Accounting` |
| | `BreakerOpensOnTwoInARow` | `ModeSpec => []OpensOnTwoInARow` |
| | `OutcomesAreKept` | `ModeSpec => []OutcomesKept` |
| | `StoppedBatchIsWhole` | `ModeSpec => []NothingLeftOut` |
| | `NothingBeginsAfterStop` | `ModeSpec => NoPublishAfterStop` |
| | `EitherModeKeepsContract` | `ModeSpec => Contract!Spec` |
| `DaemonProofs` | `TypesAlways` | `Spec => []TypeOK` |
| | `OvertimeIsBounded` | `Spec => []BoundedOvertime` |
| | `OpenBreakerSelectsNothing` | `Spec => NoSelectWhileOpen` |
| | `LivenessFileIsRecent` | `Spec => []TouchedInTime` |
| | `GaugesAreRecent` | `Spec => []GaugesRecent` |
| `DeadLetterProofs` | `LocksAlways` | `Spec => []Base` (types, places, locks) |
| | `ReplaysDoNotDeadlock` | `Spec => []ReplaysNeverDeadlock` |
| | `LettersLeaveOnce` | `Spec => []LeavesOnce` |
| | `RemainingAreRequeued` | `Spec => []RemainingRequeued` |
| | `WhatMovedIsLogged` | `Spec => []MovedIsLogged` |
| | `PurgeIsComplete` | `Spec => []PurgeComplete` |
| `RetentionProofs` | `RetentionTypes` | `Spec => []TypeOK` |
| | `PurgesDeleteWhatWasAsked` | `Spec => []OnlyWhatWasAsked` |
| | `ReportsAreExplained` | `Spec => []ReportExplained` |
| | `ForecastsHold` | `Spec => []ForecastHolds` |
| `ProducerProofs` | `OnlyCommittedIsSent` | `Spec => []OnlyCommittedSent` |
| | `OnlyCommittedAreCounted` | `Spec => []CountedAreCommitted` |
| | `CallsAreSentAsMeant` | `Spec => []SentAsMeant` |
| `StartupProofs` | `CleanStays` | `Spec => []CleanInv` |
| | `CleanCheckIsEnough` | `Spec => CleanCheckSuffices` |
| `TestSessionProofs` | `SessionInvariance` | `Spec => []SessionInv` |
| | `TestsAreIsolated` | `Spec => []Isolated` |
| | `RecorderIsTrue` | `Spec => []RecordedAsGiven` |
| | `RowsAreRedacted` | `Spec => RedactedAsSet` |
| | `GivesUpWithCause` | `Spec => GivesUpForCause` |

Each for every value of the constants, under the assumptions their module names
(`ParametersAssumption` and `NullAssumption` of `Outbox`, `BatchAssumption` and
`ConcurrencyAssumption`, `DaemonAssumption`, `OpsAssumption`, `RetentionAssumption`,
`ProducerAssumption`, `StartupAssumption`, `SessionAssumption`).

### Outbox

`NoTaskLost` is not inductive: a relay deletes by id what it has in memory. The
invariant adds what makes that safe.

- `FreshIds`: an id the sequence has not reached is in no table and no batch, so
  an insert overwrites nothing;
- `SameTask`: a message and the row of its id are about the same task;
- `PublishedReached`: a message in the group "published" reached the broker, so
  that its deletion loses nothing;
- `ClaimedPresent`, `LocksDisjoint`: rows under a lock stay where they are until
  the stamp, and no row is locked twice. The lock that makes `MarkInFlight` stamp
  an existing row is the reason they are needed.

The contract is then proved step by step: `Known` says that only committed tasks
are anywhere, `StepOf` what one step may do to the places a task is in, and
`StatusMoves` turns that into a permitted move.

`DuplicatesExplained` needs more than a count of deliveries. `OneCopy` says of a task
that is not excused that at most one row is about it, at most one relay holds that
row, no relay holds a message without its row, and once the broker has the task the
row is in a relay's "published" group, where nothing sends it again. Each step that
could make a second copy (a claim of a held row, a replay, a lost batch, a lost
answer) excuses the task in the same step, so `OneCopy` has only to survive the
others; in `Commit` it does because a sent message's row is what it deletes.

`DeadIsAnnounced` needs only that a relay whose second transaction is open has
announced its "exceeded" group.

`FirstClaimExclusive` rests on `StampStands`: as long as a row that did not wait
for a retry still has none, its stamp is not older than the time the relay has
held it, since others can only stamp it anew. `SelectedIsFree` draws the
conclusion: whoever selects such a row finds the stamp stale, so the earlier
holder has held it that long. The argument needs `wait = NULL`, which is where the
claim of `ClaimExclusive` breaks down for retried rows.

`DeadOnlyAfterBudget` needs a count over relays. Two of them may hold one row and
both fail to send it, and both will add one to its retries; so the invariant is
that the row's retries *plus the number of relays that have yet to count a failure*
are at most the sends that failed (`RowsPaid`), and the retries any relay has
read are too (`MessagesPaid`).

`BatchesFollowContract` ties `Outbox` to the batch modules. `BatchOf` is an instance of
`BatchContract` for the rows a relay stamped and the retries it read: when the first
transaction commits that batch is in the contract's initial state (`ClaimedUnsent`:
nothing is in a group before the stamp), and every step of the whole system, as long as
the relay's memory is not lost, is a step of the contract or leaves the batch alone. So
what the two modes of `BatchModes` implement is what the batches of `Outbox` abide by.
An earlier form of the contract allowed no more than `MaxRetries` retries at the start;
that is not so with three relays on one row, and the batch modules and their proofs now
take any number.

### Batches

`BatchInv` follows a message through the window: `Types`; which message may be in
which place for each position of the main thread; that a future which is neither
pending nor finished has had its outcome recorded; and that a stop reason, once
there, lets nothing be submitted. `NothingLeftOut` needs that whatever stops the
batch moves the rest of it into a group in the same step, and that the futures still
in flight are drained afterwards. `OpensOnTwoInARow` is a statement about the whole
history of a batch, and inductive once `Counted` adds what the streak stands for: it is
zero exactly if the last answer is no outage, so that the next outage makes two in a row
exactly if it finds the streak at one. The refinement maps a message to the group it is
in; since a message is in one group at most, that is well defined, and each step
of either mode moves one message, trips, ends, or stutters.

### RelayDaemon

The bounds on `overtime` and `untouched` are shown with the time that is left of the
pause, sleep or send under way: for each `pc`, `Punctual` and `Touched` say how large
value and remainder together may be, the latter after a number of publishes and of
failed iterations. The gauges follow from the file: `Sampled` says that a sample that
is due is taken anew before the file is touched. For `NoSelectWhileOpen` the open
breaker's time and the time since it opened add up to the cooldown (`Paired`).

### DeadLetterOps

`Locks`: a lock is held by one open transaction, on a letter that is there. From
it `LeavesOnce` follows with one more fact (a letter that is gone is in exactly
one actor's `taken`). `Ordered`: what a replay has locked lies before the row it
waits for, and that before all it has not reached. So the rows at which the members
of a circle wait would grow along the circle; the member that waits at the
greatest one has nobody to wait for. A purge's rows are in no order, and there the
argument ends. `Asked`: what a replay was asked for and is still there is locked,
or to be reached, or the limit is used up. `Purged`: a purge that ends has just
found no letter that matches, and letters that arrive later do not count.

### Retention

A purge deletes in a later step what it read in an earlier one. `RunOK` carries what
the reading established to the deletion, and to the end: each letter a run has counted
met the run's policy at its start, and letters do not change; what it counted and is
still there is in its current chunk. So a purge that ends, with no chunk, has left
none of what it counted. That it left none of what an earlier dry run counted
either needs two more facts. A letter once old enough stays so (`MeetsLater`), which
holds because the ages of a policy that was not refused are numbers (`PolicyAges`). And
a query that matches something returns something (`HeadNotEmpty`): the loop of
`_delete_in_chunks` ends on an empty chunk, and the smallest of the matching letters, by
age and then key, is in every chunk.

### Producer

`StackOK`: a callback is in the block of its row, and a row in one block only. With
it a rollback, a join with the block around, or a commit moves both together, and a
row is pending, committed or undone, never two of these (`Separate`). A committed call
that is not counted has its callback still to run, or its increment raised, or the
process died, or it is `behind` a callback of the caller's own. For the last,
`HooksInOrder` carries the order of registration through releases and rollbacks of
blocks: whatever comes after such a callback, in its block or in one within, was made
behind it. `SentAsMeant` asks only about calls that went through the outbox; it follows
from what the column says while the row is there (`Stored`), from the clock
not running backwards, and from what `SignatureList` leaves of a list
(`SignatureListIs`): counting the kept members before each one numbers them from zero
in their order (`EarlierNumbers`), so that each place of the result has exactly one of
them.

### Startup

`CleanCheckSuffices` relates a start to a check that may lie long before it.
`CleanInv` carries the check's findings along: as long as no edit or deployment has
followed, which make the check void, what it looked at holds, and the schema only
grows. The checks that run when the relay starts are among those of `check --database`. What
no check looks at is a hypothesis of the property: the options, the length of the stale
timeout, and that the database answers.

### TestSession

The statements lean on one another, so that one invariant has them all.
`Numbered`: ids are given once and a row is in one table; with it a pass moves
rows between the tables and the recorder without losing or doubling any
(`RecordedAsGiven`), and a row that a test wrote is its own (`Isolated`), since the
fixture leaves nothing behind. `Listed`: the places of the recorder's list are taken
once, also when a pass adds several. `Cached`: two objects that are alive do not share
an address, and the cache keeps its callables alive (`Held`); so the entry found under
the address of the setting was made for it (`RedactedAsSet`), whatever was evicted or
freed meanwhile. `Draining`: a pass starts from the count of the rows there are. If it
leaves only rows that are due, and none was added, all it took have left the table;
since one of those due is always taken (`BatchTakesOne`), fewer are left, and the
drain does not give up (`GivesUpForCause`).

### Only model-checked

Every safety property of the passing runs, invariant or action property, is proved.
Out of the prover's reach, and left to TLC: liveness under fairness and anything with
ENABLED (`EveryRowLeaves`, `KeepsContractFairly`, the termination in `KeepsContract` of
`BatchModes`, `AllEnd`, `EndsWhenTold`, `BacklogTaken`, `SchemaCompletes`,
`FailingMessageDies`, `DrainEnds`), and induction over data: no theorem says what a
recursive definition computes, and none of the modules above has one. The three
statements of section 6 that fail have counterexamples and no proofs.

## 6. Where code and documents disagree

Shown by a run: `outbox_double_claim`, `parallel_grouped`,
`dead_letters_log`; see "findings" in `PROJECT.json`.

Seen while modelling, and part of the models without a run of their own:

- Dead letters are announced by a signal before their transaction commits
  (`relay/_relay.py:239`); `ARCHITECTURE.md:544` speaks of persisted ones. The
  property `DeadIsAnnounced` states the direction that holds.
- A dead letter's `retries` is one less than its attempts where the last attempt
  was made in the same batch (`docs/operations/dead-letter.md:43`).
- After an outage the parallel window is drained before it is refilled
  (`docs/relay/overview.md:64`).
- A second signal moves the shutdown deadline (`docs/relay/overview.md:49`);
  `EndsWhenTold` holds because signals are finitely many.
- A relay that drains dies when the database fails in the loop's condition
  (`CHANGELOG.md:101`); `BacklogTaken` is limited to a relay not told to stop.
- A breaker that opened before a signal keeps the process for the rest of its
  cooldown: the grace period of `docs/deployment/kubernetes.md:85`, shutdown
  timeout plus send timeout plus a margin, is too short where the cooldown is
  longer. `BoundedOvertime` has the bound that holds, and it is proved.
- `expires` in seconds counts from the publish, `countdown` from the call
  (`docs/usage/task-options.md:11`); `SentAsMeant` asks only that it is no earlier.
- `RelayConfig` accepts retries and backoffs whose delays overflow a float or a
  timedelta; `FailingMessageDies` needs the condition `Fits`. The checks do not
  read the stale timeout, and `RelayConfig` only asks that it is positive: one that is
  no positive number, or that no timedelta holds (`relay/_relay.py:74`), refuses the
  relay after a clean check.
- `fake_relay` patches `Celery.send_task` with a mock that is not bound to its app
  (`_fixture_support.py:161`): within it, `app.send_task()` of an excluded task,
  or of a plain Celery app, raises a TypeError, although
  `docs/usage/testing-with-pytest.md:108` lets other apps pass through.
- `outbox_message_created` fires before the caller's transaction commits, which
  `docs/architecture.md:258` says too: receivers may act on what is rolled back.

## 7. Plan

Done: all components that keep state, as listed in section 1; the contracts of
delivery and of a batch; the theorems of section 5.

1. Two databases in `DeadLetterOps`: the admin log on the default one.
2. The counts of `get_queue_stats` and the admin pages over the rows of `Outbox`;
   of the options, chords, groups and the legacy schema.

## 8. What is not modelled, and why

- The content of payloads: which arguments and options a redactor is shown
  (`_redact_options_for_inspection`), Sentry and structlog columns. Data that no
  decision reads; that the payload is kept and the redacted copy shown is in
  `TestSession`. Of the options, keys that pass through unchanged, chords and
  groups, and the legacy schema.
- Statistics: the numbers themselves are read-only queries; when they are taken is
  in `RelayDaemon`.
- Metrics, logging, Sentry spans and Django signals: output that changes no state.
  Two of them are modelled where they must agree with a transaction
  (`announced`, `counted`).
- `factories.py`: makes rows for tests of applications and keeps no state.
- Migrations: their content is declarative; that they are applied one by one, may
  stop half-way and are asked for by checks is in `Startup`.
- Celery, kombu and the database: external, as the code uses them.
