-------------------------------- MODULE Startup --------------------------------
(***************************************************************************)
(* From settings and schema to a relay at work: the system checks, migrate, *)
(* the start of the relay command, and the retries the relay then counts on *)
(* a message the broker keeps refusing.                                    *)
(*                                                                         *)
(* A setting is valid or not, except for the stale timeout, which is a      *)
(* number; the schema is the number of this package's migrations that were  *)
(* applied, in their order.  Django runs the checks of a command before the *)
(* command, with the databases it selects.                                 *)
(***************************************************************************)
EXTENDS Integers

CONSTANTS
    NULL,
    Configurations,  \* settings a deployment may have, see Valid
    Options,         \* options the relay may be started with, see Accepts
    Releases,        \* releases: the number of migrations each has on disk
    FloatLimit,      \* the least power of two no float holds: 2^1024
    SpanLimit,       \* the longest timedelta
    AgeLimit,        \* the longest span the database can take from its clock
    MaxChanges       \* bound: edits, deployments, outages of the database and failures

ASSUME StartupAssumption ==
    /\ Releases \subseteq Nat \ {0}
    /\ FloatLimit \in Nat
    /\ SpanLimit \in Nat
    /\ AgeLimit \in Nat
    /\ MaxChanges \in Nat

VARIABLES
    settings,    \* of the deployment
    supported,   \* the backend has SKIP LOCKED
    reachable,   \* the database answers
    expected,    \* migrations the installed release has
    applied,     \* migrations of this package in django_migrations
    migrating,   \* migrate is past its checks
    clean,       \* "check --database" found nothing, and nothing was changed since
    relay,       \* "down", "refused" or "up"
    options,     \* it was started with, or NULL
    retries,     \* of a message that fails each time; NULL when it is dead
    changes      \* so far, of MaxChanges

database == <<supported, reachable, applied>>
vars == <<settings, database, expected, migrating, clean, relay, options, retries, changes>>

-------------------------------------------------------------------------------
\* The system checks.

\* load_celery_app_setting returns an app.
AppLoads == settings.app = "loads"

\* check_celery_outbox_app_setting
AppErrors == IF AppLoads THEN {} ELSE IF settings.app = "unset" THEN {"E002"} ELSE {"E003"}

\* ... exclude_tasks, redactor and dlq_retention: the loader raises.
OtherErrors ==
    {e \in {"E004", "E007", "E008"} :
        CASE e = "E004" -> ~settings.exclude
          [] e = "E007" -> ~settings.redactor
          [] e = "E008" -> ~settings.retention}

\* Mutant of BackendErrors: the backend is not looked at.
BackendErrorsNone(selected) == {}

\* check_database_supports_skip_locked.
BackendErrors(selected) == IF selected /\ ~supported THEN {"E001"} ELSE {}

\* Mutant of SchemaErrors: migrate is checked like any other command.
SchemaErrorsAlways(selected, migrate) ==
    IF ~selected \/ (reachable /\ applied >= expected) THEN {}
    ELSE IF reachable /\ applied > 0 THEN {"E005"} ELSE {"E006"}

\* check_outbox_migrations_applied.  The first migration creates both tables.
SchemaErrors(selected, migrate) ==
    IF ~selected \/ migrate \/ (reachable /\ applied >= expected) THEN {}
    ELSE IF reachable /\ applied > 0 THEN {"E005"} ELSE {"E006"}

\* The checks of a command; selected: the alias of the outbox is among its databases.
Errors(selected, migrate) ==
    AppErrors \cup OtherErrors \cup BackendErrors(selected) \cup SchemaErrors(selected, migrate)

-------------------------------------------------------------------------------
Init ==
    /\ settings \in Configurations
    /\ supported \in BOOLEAN
    /\ reachable = TRUE
    /\ expected \in Releases
    /\ applied = 0
    /\ migrating = FALSE
    /\ clean = FALSE
    /\ relay = "down"
    /\ options = NULL
    /\ retries = 0
    /\ changes = 0

Change == changes < MaxChanges /\ changes' = changes + 1

Edit(s) ==
    /\ Change
    /\ settings' = s
    /\ clean' = FALSE
    /\ relay' = "down"
    /\ UNCHANGED <<database, expected, migrating, options, retries>>

\* Another release, newer or older, is installed, and the processes restarted.
Deploy(n) ==
    /\ Change
    /\ expected' = n
    /\ clean' = FALSE
    /\ migrating' = FALSE
    /\ relay' = "down"
    /\ UNCHANGED <<settings, database, options, retries>>

DatabaseFails ==
    /\ reachable
    /\ Change
    /\ reachable' = FALSE
    /\ migrating' = FALSE
    /\ UNCHANGED <<settings, supported, expected, applied, clean, relay, options, retries>>

DatabaseReturns ==
    /\ ~reachable
    /\ reachable' = TRUE
    /\ UNCHANGED <<settings, supported, expected, applied, migrating, clean, relay, options,
                   retries, changes>>

\* manage.py check --database <alias>
Check ==
    /\ clean' = (Errors(TRUE, FALSE) = {})
    /\ UNCHANGED <<settings, database, expected, migrating, relay, options, retries, changes>>

BeginMigrate ==
    /\ ~migrating
    /\ applied < expected
    /\ Errors(TRUE, TRUE) = {}
    /\ reachable
    /\ migrating' = TRUE
    /\ UNCHANGED <<settings, database, expected, clean, relay, options, retries, changes>>

\* One migration, in a transaction of its own, unless the process dies.
Migrate ==
    /\ migrating
    /\ \/ applied' = applied + 1 /\ UNCHANGED changes
       \/ Change /\ UNCHANGED applied
    /\ migrating' = (applied' = applied + 1 /\ applied' < expected)
    /\ UNCHANGED <<settings, supported, reachable, expected, clean, relay, options, retries>>

-------------------------------------------------------------------------------
\* The relay command.

\* RelayConfig.init; the options left out are checked the same way.
Accepts(o) == /\ o.maxRetries > 0
              /\ o.backoff > 0
              /\ o.maxBackoff > 0
              /\ o.stale # NULL => o.stale > 0

\* Command.handle: the setting where the option is left out.
Window(o) == IF o.stale = NULL THEN settings.stale ELSE o.stale

\* load_stale_timeout_seconds_setting, where it is called, does not raise.
StaleTimeoutLoads(o) == o.stale = NULL => settings.stale > 0

\* Relay.__init__ does not raise: the backend, and the timedelta of the stale timeout.
Constructs(o) == supported /\ Window(o) <= SpanLimit

\* The checks of the command, which selects no database, and Command.handle.
Starts(o) == /\ Errors(FALSE, FALSE) = {}
             /\ StaleTimeoutLoads(o)
             /\ AppLoads
             /\ Accepts(o)
             /\ Constructs(o)

\* MySQL has to be asked for its features: the constructor raises where it cannot be.
StartRelay(o) ==
    /\ relay # "up"
    /\ \/ Starts(o) /\ relay' = "up"
       \/ (Starts(o) => ~reachable) /\ relay' = "refused"
    /\ options' = o
    /\ UNCHANGED <<settings, database, expected, migrating, clean, retries, changes>>

Lesser(a, b) == IF a < b THEN a ELSE b

\* Mutant of DelayOverflows: the delay is doubled once too often.
DelayOverflowsSoon(o, r) == \/ o.backoff * 2^(r + 1) >= FloatLimit
                            \/ Lesser(o.backoff * 2^(r + 1), o.maxBackoff) > SpanLimit

\* update_failed: the jitter makes a float of backoff_time * 2**retries before the
\* minimum is taken; timedelta gets the minimum.
DelayOverflows(o, r) == \/ o.backoff * 2^r >= FloatLimit
                        \/ Lesser(o.backoff * 2^r, o.maxBackoff) > SpanLimit

\* A batch with the message, which fails again.  What raises in it, the delay or
\* a database without the schema, rolls the transaction back.
FailingBatch ==
    /\ relay = "up"
    /\ retries # NULL
    /\ reachable /\ applied >= expected
    /\ retries' = IF retries >= options.maxRetries - 1 THEN NULL
                  ELSE IF DelayOverflows(options, retries) THEN retries
                  ELSE retries + 1
    /\ UNCHANGED <<settings, database, expected, migrating, clean, relay, options, changes>>

Next ==
    \/ \E s \in Configurations : Edit(s)
    \/ \E n \in Releases : Deploy(n)
    \/ DatabaseFails \/ DatabaseReturns
    \/ Check \/ BeginMigrate \/ Migrate
    \/ \E o \in Options : StartRelay(o)
    \/ FailingBatch

\* The operators run migrate until it is through, databases come back, and the
\* loop of the relay goes on.  Where the age of a stale row cannot be computed,
\* PostgreSQL refuses every selection and MySQL finds no row stale: a batch may or
\* may not be.
Spec == /\ Init /\ [][Next]_vars
        /\ WF_vars(DatabaseReturns) /\ WF_vars(BeginMigrate) /\ WF_vars(Migrate)
        /\ WF_vars(FailingBatch /\ Window(options) <= AgeLimit)

-------------------------------------------------------------------------------
Sound == /\ AppLoads
         /\ settings.exclude /\ settings.redactor /\ settings.retention

\* docs/configuration.md: invalid values "fail `python manage.py check` and runtime
\* startup".  After a clean check the relay is refused only for an option, for a stale
\* timeout, which no check reads, that is no positive number or too long for a
\* timedelta, or by a database that does not answer; and its schema is the release's.
CleanCheckSuffices ==
    [][\A o \in Options :
          /\ clean /\ relay' # relay /\ options' = o
          /\ Accepts(o) /\ StaleTimeoutLoads(o) /\ Window(o) <= SpanLimit
          => /\ relay' = "refused" => ~reachable
             /\ applied >= expected]_vars

\* docs/configuration.md: "migrate runs E001 and skips E005/E006".  The checks never
\* wait for the schema that migrate would complete: with sound settings an empty
\* or outdated schema is completed, and a check is clean in the end.
SchemaCompletes ==
    <>[](Sound /\ supported) => <>[](applied >= expected /\ Errors(TRUE, FALSE) = {})

\* The largest delay asked for is one that a float, and a timedelta, can hold.
Fits(o) == LET top == o.backoff * 2^(o.maxRetries - 2)
           IN  o.maxRetries > 1 => top < FloatLimit /\ Lesser(top, o.maxBackoff) <= SpanLimit

\* docs/configuration.md: --max-retries is "Retries before dead letter".  A relay
\* that stays up dead-letters a message that always fails, if the delays of all its
\* retries and the age of a stale row can be computed; RelayConfig accepts options
\* with which they cannot.
FailingMessageDies ==
    \A o \in Options :
        Fits(o) => (<>[](/\ relay = "up" /\ options = o /\ applied >= expected
                         /\ Window(o) <= AgeLimit)
                        => <>(retries = NULL))
===============================================================================
