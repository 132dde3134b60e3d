----------------------------- MODULE DeadLetterOps -----------------------------
(***************************************************************************)
(* What operators do to the dead-letter table at the same time: the replay *)
(* command, the admin action retry_selected and the purge, statement by    *)
(* statement, with the row locks their statements take.  In Outbox each of *)
(* them is one atomic step; here is why that is fair.                      *)
(*                                                                         *)
(* A statement that locks rows takes its snapshot when it starts, reaches  *)
(* the rows one after the other, waits where another transaction holds the *)
(* lock and passes over a row that is gone when the wait ends.  A replay   *)
(* reaches them by primary key (ORDER BY pk), the purge's DELETE in        *)
(* whatever order its plan has.  Where transactions wait in a circle the   *)
(* database makes one of them fail.                                        *)
(*                                                                         *)
(* Letters are numbered in the order they died.  A dry run changes nothing *)
(* and is left out.                                                        *)
(***************************************************************************)
EXTENDS Naturals, FiniteSets

CONSTANTS
    Commands,    \* runs of celery_outbox_replay_dead_letter
    Admins,      \* runs of retry_selected
    Purgers,     \* runs of purge_dead_letter
    NULL,        \* no limit, no row
    ChunkSize,   \* _DELETE_CHUNK_SIZE
    Limits,      \* what --limit may be
    Old,         \* letters whose row was created before a purge's created_at cutoff
    Initial,     \* bound: the dead letters there are at first
    MaxLetters,  \* bound: the dead letters there ever are
    MaxFailures  \* bound: actors that fail other than by a deadlock

Replayers == Commands \cup Admins
Actors == Replayers \cup Purgers
Ids == 1..MaxLetters

ASSUME OpsAssumption ==
    /\ ChunkSize \in Nat \ {0}
    /\ MaxLetters \in Nat
    /\ MaxFailures \in Nat
    /\ Limits \subseteq Nat \ {0}
    /\ Old \subseteq Ids
    /\ Initial \in 0..MaxLetters
    /\ NULL \notin Nat
    /\ Commands \cap Admins = {}
    /\ Purgers \cap Replayers = {}

VARIABLES
    nextId,    \* the next value of the dead-letter table's id sequence
    present,   \* the committed letters
    pc,        \* actor -> where it is
    asked,     \* replayer -> the ids it is to replay
    limit,     \* replayer -> --limit, or NULL
    cut,       \* purger -> the first letter too young for older_than_dead
    onlyOld,   \* purger -> whether older_than_created is given
    began,     \* purger -> nextId when it began (history)
    todo,      \* actor -> rows its statement has not reached
    at,        \* actor -> the row it is at, or NULL
    mine,      \* actor -> rows its transaction has locked
    log,       \* admin -> letters its LogEntry rows call "moved back to outbox"
    taken      \* actor -> letters it moved to the outbox, or purged (history)

table == <<nextId, present>>
arguments == <<asked, limit, cut, onlyOld, began>>
statement == <<todo, at, mine>>
vars == <<table, pc, arguments, statement, log, taken>>

Least(ids) == CHOOSE i \in ids : \A j \in ids : i <= j

Known == 1..(nextId - 1)
Ended == {"done", "failed"}

-------------------------------------------------------------------------------
Init ==
    /\ nextId = Initial + 1
    /\ present = Known
    /\ pc = [a \in Actors |-> "idle"]
    /\ asked = [a \in Replayers |-> {}]
    /\ limit = [a \in Replayers |-> NULL]
    /\ cut = [a \in Purgers |-> 1]
    /\ onlyOld = [a \in Purgers |-> FALSE]
    /\ began = [a \in Purgers |-> 1]
    /\ todo = [a \in Actors |-> {}]
    /\ at = [a \in Actors |-> NULL]
    /\ mine = [a \in Actors |-> {}]
    /\ log = [a \in Admins |-> {}]
    /\ taken = [a \in Actors |-> {}]

\* A relay commits a dead letter.
Dies ==
    /\ nextId \in Ids
    /\ nextId' = nextId + 1
    /\ present' = present \cup {nextId}
    /\ UNCHANGED <<pc, arguments, statement, log, taken>>

Goto(a, label) == pc' = [pc EXCEPT ![a] = label]

-------------------------------------------------------------------------------
\* Replay.

\* SELECT ... WHERE pk IN (ids) ORDER BY pk [LIMIT n] FOR UPDATE begins.
SelectForUpdate(a, ids) ==
    /\ todo' = [todo EXCEPT ![a] = ids \cap present]
    /\ Goto(a, "locking")

\* The command line names letters the operator has seen, some perhaps gone.
CommandStarts(a) ==
    /\ pc[a] = "idle"
    /\ \E ids \in (SUBSET Known) \ {{}}, n \in {NULL} \cup Limits :
          /\ asked' = [asked EXCEPT ![a] = ids]
          /\ limit' = [limit EXCEPT ![a] = n]
          /\ SelectForUpdate(a, ids)
    /\ UNCHANGED <<table, cut, onlyOld, began, at, mine, log, taken>>

\* retry_selected lists the selected letters before its transaction begins.
AdminLists(a) ==
    /\ pc[a] = "idle"
    /\ \E ids \in (SUBSET present) \ {{}} : asked' = [asked EXCEPT ![a] = ids]
    /\ Goto(a, "listed")
    /\ UNCHANGED <<table, limit, cut, onlyOld, began, statement, log, taken>>

AdminReplays(a) ==
    /\ pc[a] = "listed"
    /\ SelectForUpdate(a, asked[a])
    /\ UNCHANGED <<table, arguments, at, mine, log, taken>>

Enough(a) == a \in Replayers /\ limit[a] # NULL /\ Cardinality(mine[a]) = limit[a]

\* Mutant of NextRows: the replay without its ORDER BY.
NextRowsUnordered(a) == todo[a]

NextRows(a) == IF a \in Replayers THEN {Least(todo[a])} ELSE todo[a]

Locking(a) == pc[a] \in {"locking", "deleting"}

\* Mutant of MayLock: statements take no row locks.
MayLockAlways(a, i) == TRUE

MayLock(a, i) == \A b \in Actors \ {a} : i \notin mine[b]

\* A row that is gone by now is passed over.
LockRow(a, i) == mine' = [mine EXCEPT ![a] = @ \cup ({i} \cap present)]

\* Mutant of Meet: a locked row is passed over, as by SKIP LOCKED.
MeetSkipping(a, i) ==
    /\ IF MayLock(a, i) THEN LockRow(a, i) ELSE UNCHANGED mine
    /\ UNCHANGED at

Meet(a, i) == IF MayLock(a, i) THEN LockRow(a, i) /\ UNCHANGED at
                               ELSE at' = [at EXCEPT ![a] = i] /\ UNCHANGED mine

\* The statement comes to its next row: it locks it, or has to wait for it.
Reach(a) ==
    /\ Locking(a)
    /\ at[a] = NULL
    /\ todo[a] # {}
    /\ ~Enough(a)
    /\ \E i \in NextRows(a) :
          /\ Meet(a, i)
          /\ todo' = [todo EXCEPT ![a] = @ \ {i}]
    /\ UNCHANGED <<table, pc, arguments, log, taken>>

\* The row it waited for is free.
WaitEnds(a) ==
    /\ at[a] # NULL
    /\ MayLock(a, at[a])
    /\ LockRow(a, at[a])
    /\ at' = [at EXCEPT ![a] = NULL]
    /\ UNCHANGED <<table, pc, arguments, todo, log, taken>>

AllLocked(a) == at[a] = NULL /\ (todo[a] = {} \/ Enough(a))

\* The transaction that locked "mine" commits their deletion.
TakeMine(a) ==
    /\ present' = present \ mine[a]
    /\ taken' = [taken EXCEPT ![a] = @ \cup mine[a]]
    /\ mine' = [mine EXCEPT ![a] = {}]
    /\ todo' = [todo EXCEPT ![a] = {}]
    /\ UNCHANGED <<nextId, at>>

\* bulk_create, the delete, and the end of the command's transaction.  With no
\* row to move it returns 0, which is the same with "mine" empty.
ReplayCommits(a) ==
    /\ pc[a] = "locking"
    /\ AllLocked(a)
    /\ TakeMine(a)
    /\ Goto(a, "done")
    /\ UNCHANGED <<arguments, log>>

\* Within retry_selected the transaction stays open, with its locks.
ReplayReturns(a) ==
    /\ pc[a] = "locking"
    /\ AllLocked(a)
    /\ Goto(a, "replayed")
    /\ UNCHANGED <<table, arguments, statement, log, taken>>

\* Mutant of Remaining: the letters are looked up as if before the replay.
RemainingUnmoved(a) == asked[a] \cap present

\* remaining_ids: its own deletions and those others committed are seen.
Remaining(a) == asked[a] \cap (present \ mine[a])

\* A LogEntry for every listed letter that is not there any more.
WriteLog(a) ==
    /\ pc[a] = "replayed"
    /\ log' = [log EXCEPT ![a] = asked[a] \ Remaining(a)]
    /\ Goto(a, "logged")
    /\ UNCHANGED <<table, arguments, statement, taken>>

AdminCommits(a) ==
    /\ pc[a] = "logged"
    /\ TakeMine(a)
    /\ Goto(a, "done")
    /\ UNCHANGED <<arguments, log>>

-------------------------------------------------------------------------------
\* Purge.

\* older_than_dead, older_than_created or both; the cutoffs are computed once.
PurgeStarts(p) ==
    /\ pc[p] = "idle"
    /\ \/ \E c \in 1..nextId, b \in BOOLEAN :
             /\ cut' = [cut EXCEPT ![p] = c]
             /\ onlyOld' = [onlyOld EXCEPT ![p] = b]
       \/ /\ cut' = [cut EXCEPT ![p] = MaxLetters + 1]
          /\ onlyOld' = [onlyOld EXCEPT ![p] = TRUE]
    /\ began' = [began EXCEPT ![p] = nextId]
    /\ Goto(p, "reading")
    /\ UNCHANGED <<table, asked, limit, statement, log, taken>>

Matches(p, i) == i < cut[p] /\ (onlyOld[p] => i \in Old)

\* A chunk is the first of the matching letters: by dead_at where older_than_dead
\* is given, otherwise by created_at, of which only the cutoff is modelled.
Chunks(p, ids) ==
    {s \in SUBSET ids :
        /\ Cardinality(s) = ChunkSize \/ (s = ids /\ Cardinality(s) < ChunkSize)
        /\ cut[p] \in Ids => \A i \in s, j \in ids \ s : i < j}

\* The loop of _delete_in_chunks reads a chunk of ids, outside a transaction.
ReadChunk(p) ==
    /\ pc[p] = "reading"
    /\ \E chunk \in Chunks(p, {i \in present : Matches(p, i)}) :
          /\ todo' = [todo EXCEPT ![p] = chunk]
          /\ Goto(p, IF chunk = {} THEN "done" ELSE "deleting")
    /\ UNCHANGED <<table, arguments, at, mine, log, taken>>

\* Mutant of AfterChunk: there is no loop.
AfterChunkOnce == "done"

AfterChunk == "reading"

\* Mutant of DeleteChunk: the chunk is counted but not deleted.
DeleteChunkCounting(p) ==
    /\ pc[p] = "deleting"
    /\ AllLocked(p)
    /\ mine' = [mine EXCEPT ![p] = {}]
    /\ Goto(p, AfterChunk)
    /\ UNCHANGED <<table, arguments, todo, at, log, taken>>

\* DELETE ... WHERE pk IN (chunk), a transaction of its own.
DeleteChunk(p) ==
    /\ pc[p] = "deleting"
    /\ AllLocked(p)
    /\ TakeMine(p)
    /\ Goto(p, AfterChunk)
    /\ UNCHANGED <<arguments, log>>

-------------------------------------------------------------------------------
\* Failures.

\* What is not committed is undone.
Abort(a) ==
    /\ pc[a] \notin {"idle"} \cup Ended
    /\ Goto(a, "failed")
    /\ todo' = [todo EXCEPT ![a] = {}]
    /\ at' = [at EXCEPT ![a] = NULL]
    /\ mine' = [mine EXCEPT ![a] = {}]
    /\ log' = [b \in Admins |-> IF b = a THEN {} ELSE log[b]]
    /\ UNCHANGED <<table, arguments, taken>>

\* A statement fails, or the process dies.
Fails(a) ==
    /\ Cardinality({b \in Actors : pc[b] = "failed"}) < MaxFailures
    /\ Abort(a)

WaitsFor(a, b) == a # b /\ at[a] # NULL /\ at[a] \in mine[b]

\* The members of group that wait for one another in a circle: every set of
\* which each member waits for another member.
Circle(group) ==
    UNION {s \in SUBSET {a \in group : at[a] # NULL} :
             \A a \in s : \E b \in s : WaitsFor(a, b)}

\* The database finds the circle and makes one of its transactions fail.
Victim == \E a \in Circle(Actors) : Abort(a)

-------------------------------------------------------------------------------
StatementStep(a) == Reach(a) \/ WaitEnds(a)

AdminStep(a) == AdminReplays(a) \/ ReplayReturns(a) \/ WriteLog(a) \/ AdminCommits(a)

PurgeStep(p) == ReadChunk(p) \/ DeleteChunk(p)

Step(a) == \/ StatementStep(a)
           \/ a \in Commands /\ ReplayCommits(a)
           \/ a \in Admins /\ AdminStep(a)
           \/ a \in Purgers /\ PurgeStep(a)

Starts == \/ \E a \in Commands : CommandStarts(a)
          \/ \E a \in Admins : AdminLists(a)
          \/ \E p \in Purgers : PurgeStarts(p)

Next == \/ Dies
        \/ Starts
        \/ \E a \in Actors : Step(a) \/ Fails(a)
        \/ Victim

Spec == Init /\ [][Next]_vars

\* While some statement can go on, or a deadlock be resolved, one is: nothing more
\* is asked of the database's scheduling.
FairSpec == Spec /\ WF_vars((\E a \in Actors : Step(a)) \/ Victim)

-------------------------------------------------------------------------------
TypeOK ==
    /\ nextId \in 1..(MaxLetters + 1)
    /\ present \subseteq Known
    /\ pc \in [Actors -> {"idle", "listed", "locking", "replayed", "logged",
                          "reading", "deleting"} \cup Ended]
    /\ asked \in [Replayers -> SUBSET Ids]
    /\ limit \in [Replayers -> Limits \cup {NULL}]
    /\ cut \in [Purgers -> 1..(MaxLetters + 1)]
    /\ onlyOld \in [Purgers -> BOOLEAN]
    /\ began \in [Purgers -> 1..(MaxLetters + 1)]
    /\ todo \in [Actors -> SUBSET Ids]
    /\ at \in [Actors -> Ids \cup {NULL}]
    /\ mine \in [Actors -> SUBSET Ids]
    /\ log \in [Admins -> SUBSET Ids]
    /\ taken \in [Actors -> SUBSET Ids]

\* Every letter that left the table left it once: moved to the outbox by one
\* replay or removed by one purge, never both, and never twice however the
\* statements interleave (replay.py, purge.py).
LeavesOnce ==
    \A i \in Known :
        Cardinality({a \in Actors : i \in taken[a]}) = IF i \in present THEN 0 ELSE 1

\* "If some selected IDs were already replayed or deleted by another operator,
\* the command requeues only the remaining matches": none of them is left when
\* it returns, unless --limit was reached.  A row that was locked by someone who
\* then failed is waited for and moved (replay_dead_letters).
RemainingRequeued ==
    \A a \in Replayers :
        pc[a] = "done" /\ asked[a] \cap present # {} => Cardinality(taken[a]) = limit[a]

\* Two replays never wait for one another in a circle: they lock by primary key.
\* Only with a purge can a replay meet a deadlock (replay_dead_letters).
ReplaysNeverDeadlock == Circle(Replayers) = {}

\* Whatever retry_selected moved is in the admin log when its transaction ends,
\* and nothing of it when it fails (retry_selected).
MovedIsLogged ==
    \A a \in Admins : /\ pc[a] = "done" => taken[a] \subseteq log[a]
                      /\ pc[a] = "failed" => taken[a] = {} /\ log[a] = {}

\* A purge that returns has left no letter that matched when it began, those
\* included that a replay had locked and gave back (_delete_in_chunks).
PurgeComplete ==
    \A p \in Purgers : pc[p] = "done" =>
        \A i \in present : i < began[p] => ~Matches(p, i)

\* Again and again nothing is under way: every replay and purge that was started
\* ends, also when they wait for one another and while new letters arrive.
AllEnd == []<>(\A a \in Actors : pc[a] \in {"idle"} \cup Ended)

-------------------------------------------------------------------------------
\* A statement of the tests that the code does not keep.

\* admin_tests.py, "retry_selected logs only rows actually replayed".
LogsOnlyReplayed == \A a \in Admins : pc[a] = "done" => log[a] \subseteq taken[a]
===============================================================================
