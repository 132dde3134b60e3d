------------------------------- MODULE Retention -------------------------------
(***************************************************************************)
(* Which dead letters a purge deletes and what it reports of them: the      *)
(* command with its options, the shared task, and the dry run, on the       *)
(* retention policy of the settings.  Relays bury further letters and       *)
(* operators replay some while a purge is under way; row locks are the      *)
(* subject of DeadLetterOps.                                               *)
(*                                                                         *)
(* A duration is a number of ticks; Junk stands for what parse_duration     *)
(* rejects, Endless for a duration it accepts and datetime cannot subtract. *)
(* A glob is the set of the task names it matches.                         *)
(***************************************************************************)
EXTENDS Naturals, FiniteSets

CONSTANTS
    NULL, Junk, Endless,
    Letters,    \* primary keys of dead letters, numbers
    NameOf,     \* letter -> name of its task
    Requests,   \* purges that may be run: options is what the command line gave, all
                \* NULL for the shared task; settings is CELERY_OUTBOX_DLQ_RETENTION,
                \* NULL where it is not set, Junk where it is no dict
    Runs,       \* purges, each run at most once
    ChunkSize,  \* _DELETE_CHUNK_SIZE
    MaxTime     \* bound: the clock

Times == 0..MaxTime

\* An age, and what the command line or the settings say of which letters to purge.
Ages == Nat \cup {NULL, Junk, Endless}
Policies == [dead : Ages, created : Ages,
             name : SUBSET {NameOf[l] : l \in Letters} \cup {NULL, Junk}]

Letter == [created : Nat, dead : Nat]

Run == [request : Requests, start : Nat, chunk : SUBSET Letters, counted : SUBSET Letters,
        pc : {"read", "delete", "done", "failed"}, earlier : SUBSET Runs]

ASSUME RetentionAssumption ==
    /\ Letters \subseteq Nat
    /\ MaxTime \in Nat
    /\ ChunkSize \in Nat \ {0}
    /\ Requests \subseteq [dry : BOOLEAN, options : Policies,
                           settings : Policies \cup {NULL, Junk}]
    /\ NULL \notin Letter \cup Run
    /\ Runs \cap {"kept", "replayed"} = {}

VARIABLES
    now,      \* the clock
    letter,   \* letter -> when it was created and buried, or NULL
    fate,     \* letter -> "kept", "replayed", or the run that deleted it (history)
    run       \* run -> its state, or NULL

vars == <<now, letter, fate, run>>

Kept == {l \in Letters : letter[l] # NULL /\ fate[l] = "kept"}

-------------------------------------------------------------------------------
\* The policy of a run.

HasAge(policy) == policy.dead # NULL \/ policy.created # NULL

\* load_dlq_retention_setting raises.
LoadFails(settings) ==
    /\ settings # NULL
    /\ \/ settings = Junk
       \/ ~HasAge(settings)
       \/ Junk \in {settings.dead, settings.created, settings.name}

\* Mutant of Policy: the glob of the command line needs an age beside it.
PolicyWithoutGlob(q) == IF HasAge(q.options) THEN q.options ELSE q.settings

\* _get_duration, _get_task_name_pattern: an age on the command line replaces the
\* settings as a whole, a glob alone only theirs.
Policy(q) ==
    IF HasAge(q.options) THEN q.options
    ELSE [q.settings EXCEPT !.name = IF q.options.name # NULL THEN q.options.name ELSE @]

\* Command.handle and purge_dead_letter_task: no policy, or one that is not valid.
Refused(q) ==
    IF HasAge(q.options) THEN Junk \in {q.options.dead, q.options.created}
    ELSE q.settings = NULL \/ LoadFails(q.settings)

\* parse_duration, or now - older_than, raises OverflowError.
Overflows(q) == Endless \in {Policy(q).dead, Policy(q).created}

\* since < now - age
Older(since, age, start) == age # NULL => since + age < start

\* The filters purge_dead_letter puts on the query; the cutoffs are fixed at its start.
Meets(l, p, start) ==
    /\ Older(letter[l].dead, p.dead, start)
    /\ Older(letter[l].created, p.created, start)
    /\ p.name # NULL => NameOf[l] \in p.name

Matching(r) == {l \in Kept : Meets(l, Policy(run[r].request), run[r].start)}

\* _chunk_ordering: by the age that was given, dead_at first, then by key.
Before(k, l, p) ==
    LET since(x) == IF p.dead # NULL THEN letter[x].dead ELSE letter[x].created
    IN  since(k) < since(l) \/ (since(k) = since(l) /\ k < l)

\* The first rows of a query, up to ChunkSize of them.
Head(set, p) == {l \in set : Cardinality({k \in set : Before(k, l, p)}) < ChunkSize}

\* Mutant of Rows: "if" for "while".
RowsOnce(r) == IF run[r].counted = {} THEN Head(Matching(r), Policy(run[r].request)) ELSE {}

Rows(r) == Head(Matching(r), Policy(run[r].request))

-------------------------------------------------------------------------------
Init ==
    /\ now = 0
    /\ letter = [l \in Letters |-> NULL]
    /\ fate = [l \in Letters |-> "kept"]
    /\ run = [r \in Runs |-> NULL]

\* A relay dead-letters a message created at some time before.
Bury(l) ==
    /\ letter[l] = NULL
    /\ \A k \in Letters : k < l => letter[k] # NULL
    /\ \E c \in 0..now : letter' = [letter EXCEPT ![l] = [created |-> c, dead |-> now]]
    /\ UNCHANGED <<now, fate, run>>

Replay(l) ==
    /\ l \in Kept
    /\ fate' = [fate EXCEPT ![l] = "replayed"]
    /\ UNCHANGED <<now, letter, run>>

Finished(r) == run[r] # NULL /\ run[r].pc = "done"

\* earlier: the runs that were over when this one began (history).
Start(r, q) ==
    /\ run[r] = NULL
    /\ run' = [run EXCEPT ![r] =
         [request |-> q, start |-> now, chunk |-> {}, counted |-> {},
          pc |-> IF Refused(q) \/ Overflows(q) THEN "failed" ELSE "read",
          earlier |-> {e \in Runs : Finished(e)}]]
    /\ UNCHANGED <<now, letter, fate>>

At(r, pc) == run[r] # NULL /\ run[r].pc = pc

\* The dry run counts in one query what matches.
DryRun(r) ==
    /\ At(r, "read")
    /\ run[r].request.dry
    /\ run' = [run EXCEPT ![r].pc = "done", ![r].counted = Matching(r)]
    /\ UNCHANGED <<now, letter, fate>>

\* Mutant of AddUp: the last chunk only.
AddUpLast(r, rows) == rows

\* deleted_count and task_names: the rows that were read, before they are deleted.
AddUp(r, rows) == run[r].counted \cup rows

ReadChunk(r) ==
    /\ At(r, "read")
    /\ ~run[r].request.dry
    /\ run' = IF Rows(r) = {} THEN [run EXCEPT ![r].pc = "done"]
              ELSE [run EXCEPT ![r].pc = "delete", ![r].chunk = Rows(r),
                               ![r].counted = AddUp(r, Rows(r))]
    /\ UNCHANGED <<now, letter, fate>>

DeleteChunk(r) ==
    /\ At(r, "delete")
    /\ fate' = [l \in Letters |-> IF l \in run[r].chunk \cap Kept THEN r ELSE fate[l]]
    /\ run' = [run EXCEPT ![r].pc = "read", ![r].chunk = {}]
    /\ UNCHANGED <<now, letter>>

\* The process dies, or the database fails: what was deleted stays deleted.
Fail(r) ==
    /\ At(r, "read") \/ At(r, "delete")
    /\ run' = [run EXCEPT ![r].pc = "failed", ![r].chunk = {}]
    /\ UNCHANGED <<now, letter, fate>>

Tick ==
    /\ now < MaxTime
    /\ now' = now + 1
    /\ UNCHANGED <<letter, fate, run>>

Next ==
    \/ Tick
    \/ \E l \in Letters : Bury(l) \/ Replay(l)
    \/ \E r \in Runs : \/ \E q \in Requests : Start(r, q)
                       \/ DryRun(r) \/ ReadChunk(r) \/ DeleteChunk(r) \/ Fail(r)

Spec == Init /\ [][Next]_vars

-------------------------------------------------------------------------------
TypeOK ==
    /\ now \in Times
    /\ letter \in [Letters -> Letter \cup {NULL}]
    /\ fate \in [Letters -> {"kept", "replayed"} \cup Runs]
    /\ run \in [Runs -> Run \cup {NULL}]
    /\ \A r \in Runs : run[r] # NULL => run[r].start <= now

\* A purge deletes no letter that does not meet everything it was asked for: each
\* criterion of the command line; where that gave no age, each age of the settings;
\* where it gave nothing, the glob of the settings too.  Without an age it deletes
\* nothing, and a dry run never does (Command.handle, purge_dead_letter).
OnlyWhatWasAsked ==
    \A l \in Letters : fate[l] \notin {"kept", "replayed"} =>
        LET r == run[fate[l]]
            o == r.request.options
            s == r.request.settings
            OlderThan(p) == /\ HasAge(p)
                            /\ p.dead # NULL => letter[l].dead + p.dead < r.start
                            /\ p.created # NULL => letter[l].created + p.created < r.start
        IN  /\ ~r.request.dry
            /\ OlderThan(IF HasAge(o) THEN o ELSE s)
            /\ o.name # NULL => NameOf[l] \in o.name
            /\ ~HasAge(o) /\ o.name = NULL /\ s.name # NULL => NameOf[l] \in s.name

\* docs/relay/command-reference.md, --dry-run: "Show what would be deleted".  A
\* letter a dry run listed is gone once a purge that was started after it, with the
\* same options and settings, has ended; a replay may have been faster, and nothing
\* that happens meanwhile keeps one back.
ForecastHolds ==
    \A d, r \in Runs :
        /\ Finished(r) /\ ~run[r].request.dry
        /\ d \in run[r].earlier /\ run[d].request.dry
        /\ run[r].request = [run[d].request EXCEPT !.dry = FALSE]
        => run[d].counted \cap Kept = {}

\* The number a purge reports covers all it deleted, and what else it covers was
\* taken by somebody else since it began (_delete_in_chunks counts before DELETE).
ReportExplained ==
    \A r \in Runs : Finished(r) =>
        /\ {l \in Letters : fate[l] = r} \subseteq run[r].counted
        /\ ~run[r].request.dry => run[r].counted \cap Kept = {}
===============================================================================
