------------------------------ MODULE TestSession ------------------------------
(***************************************************************************)
(* A pytest session of an application, as the package's plugin serves it:   *)
(* tests, one after the other in one process, with and without the outbox   *)
(* and fake_relay fixtures; the cache of redactors, which all of them use;  *)
(* and drain_outbox, which runs passes of the real relay.                   *)
(*                                                                         *)
(* A payload is RAW, or the redactor that changed it.  Celery.send_task is  *)
(* called with the app as first argument, as the relay does: the patch does *)
(* not bind it, and app.send_task() of an excluded task or of a plain       *)
(* Celery app is refused with a TypeError while fake_relay is in use.       *)
(***************************************************************************)
EXTENDS Naturals, Sequences, FiniteSets

CONSTANTS
    NULL, RAW,
    Fixtures,     \* what tests may use: <<outbox, fake_relay>>
    Redactors,    \* redaction functions
    Mutating,     \* those that change what they are given in place
    Path,         \* a dotted path to one of them
    Addresses,    \* of unhashable callables
    CacheSize,    \* maxsize of _get_redactor
    BatchSize,    \* of RelayConfig.init
    MaxRetries,   \* of RelayConfig.init
    MaxTests, MaxRows, MaxChanges, MaxSends
                  \* bounds: tests, rows, changes of the redactor; direct sends of a test

\* A running test: the number of its first row, the fixtures it uses, and whether a
\* pass raised in it.
Tests == [number : Nat, first : Nat, outbox : BOOLEAN, fake : BOOLEAN, failed : BOOLEAN]

\* A redactor that is no hashable value is an object that lives at an address.
Objects == [redactor : Redactors, address : Addresses]

ASSUME SessionAssumption ==
    /\ Fixtures \subseteq BOOLEAN \X BOOLEAN
    /\ Mutating \subseteq Redactors
    /\ CacheSize \in Nat \ {0}
    /\ BatchSize \in Nat \ {0}
    /\ MaxRetries \in Nat \ {0}
    /\ NULL \notin Redactors \cup Addresses \cup Objects \cup Tests
    /\ Path \notin Addresses \cup Objects \cup {NULL}

\* CELERY_OUTBOX_PII_REDACTOR
Values == {NULL, Path} \cup Objects

VARIABLES
    test,      \* the running one of Tests, or NULL
    tests,     \* tests begun
    setting,   \* the value of the setting
    target,    \* the redactor Path leads to now
    repointed, \* Path leads elsewhere since it was cached (history)
    cache,     \* entries of _get_redactor, least recently used first
    rows,      \* the outbox; no two rows have the same id
    dead,      \* dead letters
    made,      \* rows the session has made
    changes,   \* of the redactor so far, of MaxChanges
    calls,     \* recorded by fake_relay, each with its place in the list
    drain      \* state of drain_outbox: pc, and before_count

vars == <<test, tests, setting, target, repointed, cache, rows, dead, made, changes, calls,
          drain>>

-------------------------------------------------------------------------------
\* The redactor.

\* _get_redactor_cache_key
Key(s) == IF s \in Objects THEN s.address ELSE s

\* load_pii_redactor_setting
Named(s) == CASE s = NULL -> NULL
              [] s = Path -> target
              [] OTHER    -> s.redactor

Entry(s) == [key |-> Key(s), value |-> s, redactor |-> Named(s)]

\* _get_redactor: the cache after a call for s; what it returns comes last.
Looked(s) ==
    LET hits == {i \in 1..Len(cache) : cache[i].key = Key(s)}
        hit == CHOOSE i \in hits : TRUE
        kept == IF hits # {} THEN SubSeq(cache, 1, hit - 1) \o SubSeq(cache, hit + 1, Len(cache))
                ELSE IF Len(cache) = CacheSize THEN Tail(cache)
                ELSE cache
    IN  Append(kept, IF hits # {} THEN cache[hit] ELSE Entry(s))

Found(s) == Looked(s)[Len(Looked(s))].redactor

\* Mutant of Held: the cache does not keep the objects alive.
HeldWeakly == {}

\* Objects the cache refers to.
Held == {cache[i].value : i \in 1..Len(cache)} \cap Objects

\* Mutant of Payload: the redactor is given the call's own lists.
PayloadShared(r) ==
    IF r \in Mutating THEN [args |-> r, redacted |-> NULL] ELSE [args |-> RAW, redacted |-> r]

\* _build_redacted_payloads: the redactor works on a copy.
Payload(r) == [args |-> RAW, redacted |-> r]

\* inspection_args
Shown(p) == IF p.redacted # NULL THEN p.redacted ELSE p.args

-------------------------------------------------------------------------------
\* Tests and their fixtures.

NoDrain == [pc |-> "idle", before |-> 0, added |-> FALSE]

Init ==
    /\ test = NULL
    /\ tests = 0
    /\ setting \in Values
    /\ target \in Redactors
    /\ repointed = FALSE
    /\ cache = <<>>
    /\ rows = {}
    /\ dead = {}
    /\ made = 0
    /\ changes = 0
    /\ calls = {}
    /\ drain = NoDrain

\* Mutant of Wiped: the tables are left to the test's transaction.
WipedNot == [rows |-> rows, dead |-> dead]

\* Both tables, after reset_fixture_state.
Wiped == [rows |-> {}, dead |-> {}]

\* reset_fixture_state: clear_redactor_cache, and both tables.
Reset ==
    /\ cache' = <<>>
    /\ repointed' = FALSE
    /\ rows' = Wiped.rows
    /\ dead' = Wiped.dead

Idle == test # NULL /\ drain.pc # "pass"

\* The fixtures of a test are set up: drain_outbox needs outbox.
BeginTest(outbox, fake) ==
    /\ test = NULL
    /\ tests < MaxTests
    /\ tests' = tests + 1
    /\ test' = [number |-> tests + 1, first |-> made + 1, outbox |-> outbox, fake |-> fake,
                failed |-> FALSE]
    /\ IF outbox THEN Reset ELSE UNCHANGED <<repointed, cache, rows, dead>>
    /\ UNCHANGED <<setting, target, made, changes, calls, drain>>

\* Without the fixture, rows may outlive a test.
EndTest ==
    /\ Idle
    /\ test' = NULL
    /\ IF test.outbox THEN Reset ELSE UNCHANGED <<repointed, cache, rows, dead>>
    /\ calls' = {}
    /\ drain' = NoDrain
    /\ UNCHANGED <<tests, setting, target, made, changes>>

\* override_settings, with an object that exists or is put where no other one is.
Set(s) ==
    /\ Idle
    /\ changes < MaxChanges /\ changes' = changes + 1
    /\ s # setting
    /\ s \in Objects => \A o \in Held \cup ({setting} \cap Objects) : o.address = s.address => o = s
    /\ setting' = s
    /\ UNCHANGED <<test, tests, target, repointed, cache, rows, dead, made, calls, drain>>

Repoint(r) ==
    /\ Idle
    /\ changes < MaxChanges /\ changes' = changes + 1
    /\ target' = r
    /\ repointed' = (repointed \/ \E i \in 1..Len(cache) : cache[i].key = Path)
    /\ UNCHANGED <<test, tests, setting, cache, rows, dead, made, calls, drain>>

\* The n rows send_task adds.
NewRows(n) ==
    {[id |-> made + i, test |-> test.number, payload |-> Payload(Found(setting)),
      retries |-> 0, state |-> "due"] : i \in 1..n}

SendTask ==
    /\ Idle
    /\ made < MaxRows
    /\ rows' = rows \cup NewRows(1)
    /\ made' = made + 1
    /\ cache' = Looked(setting)
    /\ UNCHANGED <<test, tests, setting, target, repointed, dead, changes, calls, drain>>

\* The test gives a row a later schema version, or the time of its retry passes.
SetRow(row, state) ==
    /\ Idle
    /\ row.state = IF state = "due" THEN "waiting" ELSE "due"
    /\ rows' = (rows \ {row}) \cup {[row EXCEPT !.state = state]}
    /\ UNCHANGED <<test, tests, setting, target, repointed, cache, dead, made, changes, calls,
                   drain>>

\* _record: another app's call goes to the original send_task.
Recorded(app) == app = "relay"

CallSendTask(app) ==
    /\ Idle
    /\ test.fake
    /\ Cardinality(calls) < MaxSends
    /\ calls' = IF Recorded(app)
                THEN calls \cup {[at |-> Cardinality(calls), app |-> app, id |-> 0, args |-> RAW]}
                ELSE calls
    /\ UNCHANGED <<test, tests, setting, target, repointed, cache, rows, dead, made, changes,
                   drain>>

-------------------------------------------------------------------------------
\* drain_outbox

DrainOutbox ==
    /\ Idle
    /\ test.outbox
    /\ rows # {}
    /\ drain' = [pc |-> "pass", before |-> Cardinality(rows), added |-> FALSE]
    /\ UNCHANGED <<test, tests, setting, target, repointed, cache, rows, dead, made, changes,
                   calls>>

\* The rows a pass selects.
Batch ==
    LET due == {row \in rows : row.state = "due"}
    IN  {row \in due : Cardinality({other \in due : other.id < row.id}) < BatchSize}

Exhausted(row) == row.retries + 1 >= MaxRetries

\* What the relay leaves of the outbox, when the sends of some rows failed and an
\* outage put others off.
Left(failed, deferred) ==
    (rows \ Batch)
    \cup {[row EXCEPT !.state = "waiting", !.retries = @ + 1] :
             row \in {f \in failed : ~Exhausted(f)}}
    \cup {[row EXCEPT !.state = "waiting"] : row \in deferred}

\* Calls of fake_relay for these rows, in the order of their ids.
CallsFor(sent) ==
    {[at |-> Cardinality(calls) + Cardinality({other \in sent : other.id < row.id}),
      app |-> "relay", id |-> row.id, args |-> row.payload.args] : row \in sent}

\* Mutants of Progress: a pass must do it all; one that does nothing will do.
ProgressWhole(before, after) == after = 0
ProgressNone(before, after) == after <= before

Progress(before, after) == after < before

\* Rows that receivers of the relay's signals, one for each of these rows, may add.
FollowUps(signalled) == {0} \cup (IF signalled # {} /\ made < MaxRows THEN {1} ELSE {})

\* run_drain_outbox_once with a relay of its own, and the counts around it.
PassWith(failed, deferred, added) ==
    /\ drain.pc = "pass"
    /\ rows' = Left(failed, deferred) \cup NewRows(added)
    /\ made' = made + added
    /\ cache' = IF added = 0 THEN cache ELSE Looked(setting)
    /\ dead' = dead \cup {f \in failed : Exhausted(f)}
    /\ calls' = IF test.fake THEN calls \cup CallsFor(Batch \ (failed \cup deferred)) ELSE calls
    /\ drain' = IF rows' = {} THEN NoDrain
                ELSE IF ~Progress(drain.before, Cardinality(rows'))
                     THEN [NoDrain EXCEPT !.pc = "gaveup"]
                ELSE [pc |-> "pass", before |-> Cardinality(rows'),
                      added |-> drain.added \/ added > 0]
    /\ UNCHANGED <<test, tests, setting, target, repointed, changes>>

Pass ==
    \E failed \in SUBSET Batch : \E deferred \in SUBSET (Batch \ failed) :
    \E added \in FollowUps(Batch \ deferred) : PassWith(failed, deferred, added)

\* The relay's second transaction fails: its error is the test's, what was sent is
\* sent, and the rows it stamped are in flight.  Bound: once in a test.
PassRaises ==
    /\ drain.pc = "pass"
    /\ ~test.failed
    /\ \E sent \in SUBSET Batch :
          calls' = IF test.fake THEN calls \cup CallsFor(sent) ELSE calls
    /\ \E added \in FollowUps(Batch) :
          /\ rows' = Left({}, Batch) \cup NewRows(added)
          /\ made' = made + added
          /\ cache' = IF added = 0 THEN cache ELSE Looked(setting)
    /\ test' = [test EXCEPT !.failed = TRUE]
    /\ drain' = NoDrain
    /\ UNCHANGED <<tests, setting, target, repointed, dead, changes>>

Next ==
    \/ \E f \in Fixtures : BeginTest(f[1], f[2])
    \/ EndTest
    \/ \E s \in Values : Set(s)
    \/ \E r \in Redactors : Repoint(r)
    \/ SendTask
    \/ \E row \in rows, state \in {"due", "unsupported"} : SetRow(row, state)
    \/ \E app \in {"relay", "other"} : CallSendTask(app)
    \/ DrainOutbox \/ Pass \/ PassRaises

\* drain_outbox goes on until it returns or raises.
Spec == Init /\ [][Next]_vars /\ WF_vars(Pass)

-------------------------------------------------------------------------------
\* Rows of the two tables.
Stored == rows \cup dead

\* docs/usage/testing-with-pytest.md, outbox: before each test it "clears pending
\* outbox rows", dead letters and "cached redaction state": what a test with the
\* fixture finds is its own (reset_fixture_state).
Isolated == test # NULL /\ test.outbox => \A row \in Stored : row.test = test.number

\* A row shows the payload its setting's redactor made of it, not one of an earlier
\* value at the same address and not one of an earlier test; only when a path was
\* made to lead elsewhere after it was cached may the earlier redactor be used
\* (_get_redactor, keyed by id() for what cannot be hashed).
RedactedAsSet ==
    [][\A row \in rows' :
          row.id > made /\ ~(setting = Path /\ repointed) =>
              Shown(row.payload) = IF setting = NULL THEN RAW ELSE Named(setting)]_vars

\* docs/usage/testing-with-pytest.md, fake_relay: what the recorder holds is what the
\* relay published and direct sends of its app, with the payload as it was given
\* (docs/configuration.md: "the relay still publishes the original payload").  No row
\* of the test vanishes; and unless a pass raised, one that is recorded is recorded
\* once, and gone from the tables.
RecordedAsGiven ==
    test # NULL /\ test.outbox /\ test.fake =>
        LET Ids == {call.id : call \in calls}
        IN  /\ \A call \in calls : call.app = "relay" /\ call.args = RAW
            /\ test.first..made \subseteq Ids \cup {row.id : row \in Stored}
            /\ ~test.failed =>
                  /\ \A call, other \in calls : call.at # other.at /\ call.id = other.id
                                                 => call.id = 0
                  /\ \A row \in Stored : row.id \notin Ids

\* "if the queue drains completely, it returns", "if a relay pass makes no progress,
\* it raises": drain_outbox gives up only on rows that failed, wait or are of another
\* schema version, or when receivers kept adding rows.
GivesUpForCause ==
    [][drain.pc = "pass" /\ drain'.pc = "gaveup" =>
          drain.added \/ made' > made \/ \E row \in rows' : row.state # "due"]_vars

\* However rows fail, wait and multiply, a drain returns or raises.
DrainEnds == (drain.pc = "pass") ~> (drain.pc # "pass")
===============================================================================
