------------------------------ MODULE RelayDaemon ------------------------------
(***************************************************************************)
(* Relay.start in time: the loop of one relay process (serial mode), its    *)
(* breaker, its sleeps, the signals that end it and the failures it goes    *)
(* on after.  Database work takes no time here; publishes and sleeps do.    *)
(*                                                                         *)
(* Instants are kept as the time left until them, and Tick moves them all.  *)
(* The backlog is a number: what becomes of the rows is the subject of      *)
(* Outbox.  Signals interrupt no sleep and no publish: the handler returns, *)
(* and Python resumes the call that was under way.                          *)
(***************************************************************************)
EXTENDS Naturals

CONSTANTS
    NULL,             \* None
    BatchSize,        \* --batch-size
    IdleTime,         \* --idle-time, in ticks like the other times
    SendTimeout,      \* --send-timeout
    ShutdownTimeout,  \* --shutdown-timeout
    Cooldown,         \* --broker-outage-cooldown
    Refresh,          \* --queue-snapshot-refresh-seconds
    MaxBacklog,       \* bound: pending rows at a time
    MaxSignals,       \* bound: SIGTERM or SIGINT received
    MaxErrors         \* bound: database operations that raise

ASSUME DaemonAssumption ==
    /\ NULL \notin Nat
    /\ BatchSize \in Nat \ {0}
    /\ IdleTime \in Nat
    /\ SendTimeout \in Nat \ {0}
    /\ ShutdownTimeout \in Nat \ {0}
    /\ Cooldown \in Nat \ {0}
    /\ Refresh \in Nat \ {0}
    /\ MaxBacklog \in Nat
    /\ MaxSignals \in Nat
    /\ MaxErrors \in Nat

VARIABLES
    pc,          \* where the main thread is
    timer,       \* what is left of the sleep or publish under way
    running,     \* Relay._running
    deadlineIn,  \* until RelayPolicy._shutdown_deadline, or NULL
    breakerIn,   \* until RelayPolicy._breaker_open_until, or NULL
    streak,      \* RelayPolicy._outage_streak
    size,        \* messages selected for the batch
    left,        \* of these, not yet taken up
    backlog,     \* pending rows in the outbox
    sampledAgo,  \* time since the sampler's _last_sampled_at, up to Refresh, or NULL
    statsAge,    \* true age of its _last_stats, or NULL (history)
    untouched,   \* time since the liveness file was touched (history)
    failedSince, \* iterations failed since then (history)
    sinceTrip,   \* time since the breaker was opened, up to Cooldown (history)
    overtime,    \* time spent after the deadline (history)
    signals,     \* signals so far, of MaxSignals
    errors       \* errors so far, of MaxErrors

policy == <<deadlineIn, breakerIn, streak>>
work == <<size, left, backlog>>
sampler == <<sampledAgo, statsAge>>
watches == <<untouched, failedSince, sinceTrip, overtime>>
vars == <<pc, timer, running, policy, work, sampler, watches, signals, errors>>

Larger(a, b) == IF a > b THEN a ELSE b
Lesser(a, b) == IF a < b THEN a ELSE b

Init ==
    /\ pc = "head"
    /\ timer = 0
    /\ running = TRUE
    /\ deadlineIn = NULL /\ breakerIn = NULL /\ streak = 0
    /\ size = 0 /\ left = 0
    /\ backlog \in 0..MaxBacklog
    /\ sampledAgo = NULL /\ statsAge = NULL
    /\ untouched = 0 /\ failedSince = 0
    /\ sinceTrip = Cooldown
    /\ overtime = 0
    /\ signals = 0 /\ errors = 0

Over == pc \in {"exited", "died"}

-------------------------------------------------------------------------------
\* Mutant of Draining: the deadline does not end the draining.
DrainingForEver == deadlineIn # NULL /\ backlog > 0

\* _should_continue_draining, when its query succeeds.
Draining == deadlineIn \notin {NULL, 0} /\ backlog > 0

\* _should_continue_draining reaches its query.
Queries == deadlineIn \notin {NULL, 0}

Error == errors < MaxErrors /\ errors' = errors + 1

\* The condition of the loop.
Head ==
    /\ pc = "head"
    /\ pc' = IF running \/ Draining THEN "iterate" ELSE "exited"
    /\ UNCHANGED <<timer, running, policy, work, sampler, watches, signals, errors>>

\* Its query raises, outside of the try: the process ends with a traceback.
HeadRaises ==
    /\ pc = "head"
    /\ ~running /\ Queries
    /\ Error
    /\ pc' = "died"
    /\ UNCHANGED <<timer, running, policy, work, sampler, watches, signals>>

\* Mutants of BreakerClosed: the breaker stays open, or is ignored in draining.
BreakerClosedNever == breakerIn = NULL
BreakerClosedInDraining == breakerIn \in {NULL, 0} \/ ~running

\* not should_skip_batch
BreakerClosed == breakerIn \in {NULL, 0}

\* Mutant of PauseTime: not shortened when the relay is shutting down.
PauseTimeUnclamped == breakerIn

PauseTime == IF deadlineIn = NULL THEN breakerIn ELSE Lesser(breakerIn, deadlineIn)

\* The breaker is open: sleep; sample and touch the liveness file after it.
Pause ==
    /\ pc = "iterate"
    /\ ~BreakerClosed
    /\ timer' = PauseTime
    /\ pc' = "paused"
    /\ UNCHANGED <<running, policy, work, sampler, watches, signals, errors>>

\* QueueSnapshotSampler.get takes new statistics.
SampleDue == sampledAgo \in {NULL, Refresh}

Sample == IF SampleDue THEN sampledAgo' = 0 /\ statsAge' = 0 ELSE UNCHANGED sampler

\* Mutant of SampleFails: the time of the sample is taken before the query.
SampleFailsStamped == sampledAgo' = 0 /\ UNCHANGED statsAge

SampleFails == UNCHANGED sampler

Touch == untouched' = 0 /\ failedSince' = 0

\* Mutant of TouchAfterPause: a pause is no sign of life.
NoTouch == UNCHANGED <<untouched, failedSince>>

TouchAfterPause == Touch

Resume ==
    /\ pc = "paused" /\ timer = 0
    /\ pc' = "head"
    /\ Sample
    /\ TouchAfterPause
    /\ UNCHANGED <<timer, running, policy, work, sinceTrip, overtime, signals,
                   errors>>

\* should_skip_batch closes a breaker whose time is over; rows are selected.
Select ==
    /\ pc = "iterate"
    /\ BreakerClosed
    /\ breakerIn' = NULL
    /\ streak' = IF breakerIn = NULL THEN streak ELSE 0
    /\ size' = Lesser(backlog, BatchSize)
    /\ left' = size'
    /\ backlog' = backlog - size'
    /\ pc' = "batch"
    /\ UNCHANGED <<timer, running, deadlineIn, sampler, watches, signals, errors>>

\* The next message.  One whose retries are used up counts here as a publish that
\* takes no time and does not touch the streak.
Take ==
    /\ pc = "batch"
    /\ left > 0
    /\ deadlineIn # 0
    /\ left' = left - 1
    /\ pc' = "sending"
    /\ timer' = SendTimeout
    /\ UNCHANGED <<running, policy, size, backlog, sampler, watches, signals, errors>>

\* The publish returns or raises, not later than its timeout.
Publish ==
    /\ pc = "sending"
    /\ timer' = 0
    /\ \/ streak' = 0 /\ pc' = "batch" /\ UNCHANGED <<breakerIn, left, sinceTrip>>
       \/ pc' = "batch" /\ UNCHANGED <<streak, breakerIn, left, sinceTrip>>
       \/ /\ streak' = streak + 1
          /\ IF streak + 1 >= 2
             THEN breakerIn' = Cooldown /\ left' = 0 /\ sinceTrip' = 0
             ELSE UNCHANGED <<breakerIn, left, sinceTrip>>
          /\ pc' = "batch"
    /\ UNCHANGED <<running, deadlineIn, size, backlog, sampler, untouched, failedSince, overtime,
                   signals, errors>>

\* The batch is through, or cut by the deadline: the second transaction, the
\* queue snapshot and the liveness file, and a sleep if the batch was short.
Finish ==
    /\ pc = "batch"
    /\ left = 0 \/ deadlineIn = 0
    /\ left' = 0
    /\ Sample
    /\ Touch
    /\ IF size < BatchSize
       THEN pc' = "sleeping" /\ timer' = IdleTime
       ELSE pc' = "head" /\ UNCHANGED timer
    /\ UNCHANGED <<running, policy, size, backlog, sinceTrip, overtime, signals,
                   errors>>

\* A database operation of _processing raises: one of the transactions, or the
\* snapshot after them; start() logs it.
IterationFails ==
    /\ \/ pc = "iterate" /\ BreakerClosed /\ UNCHANGED sampler
       \/ pc = "batch" /\ (left = 0 \/ deadlineIn = 0) /\ UNCHANGED sampler
       \/ /\ \/ pc = "batch" /\ (left = 0 \/ deadlineIn = 0)
             \/ pc = "paused" /\ timer = 0
          /\ SampleDue
          /\ SampleFails
    /\ Error
    /\ failedSince' = failedSince + 1
    /\ left' = 0
    /\ IF pc = "iterate"   \* should_skip_batch was evaluated before
       THEN breakerIn' = NULL /\ streak' = IF breakerIn = NULL THEN streak ELSE 0
       ELSE UNCHANGED <<breakerIn, streak>>
    /\ pc' = "failed"
    /\ UNCHANGED <<timer, running, deadlineIn, size, backlog, untouched, sinceTrip,
                   overtime, signals>>

\* After a failure the loop sleeps if it is to go on.
Handle ==
    /\ pc = "failed"
    /\ IF running \/ Draining
       THEN pc' = "sleeping" /\ timer' = IdleTime
       ELSE pc' = "head" /\ UNCHANGED timer
    /\ UNCHANGED <<running, policy, work, sampler, watches, signals, errors>>

\* The except clause asks the database whether there is more to drain.
HandlerQueries == ~running /\ Queries

HandleRaises ==
    /\ pc = "failed"
    /\ HandlerQueries
    /\ Error
    /\ pc' = "died"
    /\ UNCHANGED <<timer, running, policy, work, sampler, watches, signals>>

Wake ==
    /\ pc = "sleeping" /\ timer = 0
    /\ pc' = "head"
    /\ UNCHANGED <<timer, running, policy, work, sampler, watches, signals, errors>>

\* _handle_signal: every signal sets the deadline anew.
Signal ==
    /\ ~Over
    /\ signals < MaxSignals
    /\ signals' = signals + 1
    /\ running' = FALSE
    /\ deadlineIn' = ShutdownTimeout
    /\ overtime' = 0
    /\ UNCHANGED <<pc, timer, breakerIn, streak, work, sampler, untouched, failedSince,
                   sinceTrip, errors>>

\* A producer commits a row, or a row becomes due again.
Arrive ==
    /\ ~Over
    /\ backlog < MaxBacklog
    /\ backlog' = backlog + 1
    /\ UNCHANGED <<pc, timer, running, policy, size, left, sampler, watches, signals, errors>>

\* seconds_until_shutdown_deadline, seconds_until_batch_retry: never below zero.
Nearer(t) == IF t \in {NULL, 0} THEN t ELSE t - 1

\* Time passes only while the process sleeps or waits for the broker.
Tick ==
    /\ pc \in {"paused", "sending", "sleeping"}
    /\ timer > 0
    /\ timer' = timer - 1
    /\ deadlineIn' = Nearer(deadlineIn)
    /\ breakerIn' = Nearer(breakerIn)
    /\ sampledAgo' = IF sampledAgo = NULL THEN NULL ELSE Lesser(sampledAgo + 1, Refresh)
    /\ statsAge' = IF statsAge = NULL THEN NULL ELSE statsAge + 1
    /\ untouched' = untouched + 1
    /\ sinceTrip' = Lesser(sinceTrip + 1, Cooldown)
    /\ overtime' = IF deadlineIn = 0 THEN overtime + 1 ELSE overtime
    /\ UNCHANGED <<pc, running, streak, work, failedSince, signals, errors>>

Relay == \/ Head \/ Pause \/ Resume \/ Select \/ Take \/ Publish \/ Finish
         \/ Handle \/ Wake

Next == Relay \/ HeadRaises \/ IterationFails \/ HandleRaises \/ Signal \/ Arrive \/ Tick

Spec == Init /\ [][Next]_vars

\* The process goes on, and does not go on for ever in no time; signals and errors
\* are finitely many.
FairSpec == Spec /\ WF_vars(Relay) /\ SF_vars(Tick)

-------------------------------------------------------------------------------
Deadlines == 0..ShutdownTimeout \cup {NULL}

TypeOK ==
    /\ pc \in {"head", "iterate", "paused", "batch", "sending", "failed", "sleeping",
               "exited", "died"}
    /\ timer \in Nat
    /\ running \in BOOLEAN
    /\ deadlineIn \in Deadlines
    /\ running <=> deadlineIn = NULL
    /\ breakerIn \in 0..Cooldown \cup {NULL}
    /\ streak \in Nat
    /\ size \in 0..BatchSize
    /\ left \in 0..size
    /\ backlog \in Nat
    /\ sampledAgo \in 0..Refresh \cup {NULL}
    /\ statsAge \in Nat \cup {NULL}
    /\ untouched \in Nat
    /\ failedSince \in Nat
    /\ sinceTrip \in 0..Cooldown
    /\ overtime \in Nat
    /\ signals \in Nat
    /\ errors \in Nat

\* Once its shutdown deadline has passed, the process is gone after one publish
\* and one idle sleep at most, or after what is left of a breaker's cooldown that
\* began before the signal: no drain, retry or failure keeps it up (Relay.start,
\* _should_continue_draining).
BoundedOvertime ==
    overtime <= Larger(SendTimeout + IdleTime,
                       IF Cooldown > ShutdownTimeout THEN Cooldown - ShutdownTimeout ELSE 0)

\* The liveness file is not older than one idle sleep and one batch, or one
\* cooldown, for every iteration that failed and one that did not: what a probe's
\* max_age_seconds must allow for (_touch_liveness, also called after a pause).
TouchedInTime ==
    untouched <= (failedSince + 1) * (IdleTime + Larger(Cooldown, BatchSize * SendTimeout))

\* What the gauges of depth, dead letters and oldest age show was true not longer
\* ago than the refresh interval and the time the loop may take between two of its
\* samples: a failing query is not taken for a sample (QueueSnapshotSampler.get).
GaugesRecent ==
    statsAge # NULL =>
        statsAge < Refresh + (failedSince + 1)
                             * (IdleTime + Larger(Cooldown, BatchSize * SendTimeout))

\* No row is selected, and so none stamped, within the cooldown of a breaker that
\* opened, whatever is signalled or fails meanwhile (should_skip_batch).
NoSelectWhileOpen == [][pc = "iterate" /\ pc' = "batch" => sinceTrip = Cooldown]_vars

\* Told to stop, the process ends, although rows keep arriving.
EndsWhenTold == ~running ~> Over

\* A backlog is taken up in the end, whatever breakers open and iterations fail: no
\* failure ends the process unless it is told to stop (Relay.start).
BacklogTaken == backlog > 0 ~> (pc = "batch" \/ ~running)

===============================================================================
