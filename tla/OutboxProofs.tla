----------------------------- MODULE OutboxProofs -----------------------------
(***************************************************************************)
(* Proofs about Outbox for every set of relays and tasks and every value   *)
(* of the settings: first the inductive invariant, with types and the loss *)
(* of tasks; then the delivery contract and the copies of a task; then     *)
(* what the dead letters have gone through and who holds the rows; then    *)
(* that a relay's batch follows BatchContract.                             *)
(***************************************************************************)
EXTENDS Outbox, FiniteSetTheorems, TLAPS

\* A row id the sequence has not reached is nobody's.
FreshIds == \A i \in RowIds : nextId <= i =>
                rows[i] = NULL /\ \A r \in Relays : batch[r][i] = NULL

\* A relay that is between its select and its stamp still finds its rows.
ClaimedPresent == \A r \in Relays : \A i \in RowIds :
                      pc[r] = "claiming" /\ batch[r][i] # NULL => rows[i] # NULL

\* No row is locked twice.
LockedBy(r, i) == /\ batch[r][i] # NULL
                  /\ pc[r] = "claiming" \/ (pc[r] = "recording" /\ rows[i] # NULL)

LocksDisjoint == \A r, s \in Relays : \A i \in RowIds :
                     LockedBy(r, i) /\ LockedBy(s, i) => r = s

\* A message in memory is about the same task as the row of its id.
SameTask == \A r \in Relays : \A i \in RowIds :
                batch[r][i] # NULL /\ rows[i] # NULL => rows[i].task = batch[r][i].task

\* A message counted as published did reach the broker.
PublishedReached == \A r \in Relays : \A i \in RowIds :
                        batch[r][i] # NULL /\ batch[r][i].group = "published"
                        => delivered[batch[r][i].task] > 0

\* What makes NoTaskLost inductive.
Inv == /\ TypeOK
       /\ FreshIds
       /\ ClaimedPresent
       /\ LocksDisjoint
       /\ SameTask
       /\ PublishedReached
       /\ NoTaskLost

-------------------------------------------------------------------------------
(* Facts about the operators. *)

\* A delay lies in the domain of waits, however large 2^retries is.
LEMMA DelayType ==
    ASSUME NEW k, NEW jitter
    PROVE  RetryDelay(k, jitter) \in Later
BY ParametersAssumption DEF RetryDelay, Later

LEMMA SoonerType ==
    ASSUME NEW w \in Later \cup {NULL}
    PROVE  Sooner(w) \in Later \cup {NULL}
BY ParametersAssumption, NullAssumption DEF Sooner, Later

LEMMA OlderType ==
    ASSUME NEW a \in 0..StaleTimeout \cup {NULL}
    PROVE  Older(a) \in 0..StaleTimeout \cup {NULL}
BY ParametersAssumption, NullAssumption DEF Older, Lesser

\* The updates the actions make of a row give a row.
LEMMA RowUpdate ==
    ASSUME NEW row \in Row, NEW k \in Nat,
           NEW a \in 0..StaleTimeout \cup {NULL}, NEW w \in Later \cup {NULL}
    PROVE  [row EXCEPT !.retries = k, !.age = a, !.wait = w] \in Row
BY DEF Row

LEMMA RowRetry ==
    ASSUME NEW row \in Row, NEW w \in Later
    PROVE  [row EXCEPT !.retries = @ + 1, !.age = 0, !.wait = w] \in Row
<1>1. row.retries + 1 \in Nat
  BY DEF Row
<1>2. 0 \in 0..StaleTimeout \cup {NULL} /\ w \in Later \cup {NULL}
  BY ParametersAssumption
<1> QED
  BY <1>1, <1>2, RowUpdate

LEMMA RowDefer ==
    ASSUME NEW row \in Row, NEW w \in Later
    PROVE  [row EXCEPT !.age = 0, !.wait = w] \in Row
<1>1. row.task \in Tasks /\ row.retries \in Nat
  BY DEF Row
<1>2. 0 \in 0..StaleTimeout \cup {NULL} /\ w \in Later \cup {NULL}
  BY ParametersAssumption
<1> QED
  BY <1>1, <1>2 DEF Row

LEMMA RowStamp ==
    ASSUME NEW row \in Row
    PROVE  [row EXCEPT !.age = 0] \in Row
BY ParametersAssumption DEF Row

LEMMA RowReset ==
    ASSUME NEW row \in Row
    PROVE  [row EXCEPT !.retries = 0, !.age = NULL, !.wait = NULL] \in Row
BY DEF Row

LEMMA RowOlder ==
    ASSUME NEW row \in Row
    PROVE  [row EXCEPT !.age = Older(@), !.wait = Sooner(@)] \in Row
<1>1. row.age \in 0..StaleTimeout \cup {NULL} /\ row.wait \in Later \cup {NULL}
  BY DEF Row
<1>2. /\ Older(row.age) \in 0..StaleTimeout \cup {NULL}
      /\ Sooner(row.wait) \in Later \cup {NULL}
  BY <1>1, OlderType, SoonerType
<1> QED
  BY <1>2 DEF Row

LEMMA MessageUpdate ==
    ASSUME NEW m \in Message, NEW g \in Groups
    PROVE  [m EXCEPT !.group = g] \in Message
BY DEF Message

LEMMA NewRowType == ASSUME NEW t \in Tasks PROVE NewRow(t) \in Row
BY DEF NewRow, Row

LEMMA SendType ==
    ASSUME NEW t \in Tasks, delivered \in [Tasks -> 0..2], excused \subseteq Tasks
    PROVE  /\ Delivered(t) => delivered' \in [Tasks -> 0..2]
           /\ AmbiguousSend(t) => delivered' \in [Tasks -> 0..2] /\ excused' \subseteq Tasks
<1>1. Delivered(t) => delivered' \in [Tasks -> 0..2]
  BY DEF Delivered, Lesser
<1> QED
  BY <1>1 DEF AmbiguousSend, Excuse

-------------------------------------------------------------------------------
(* Types. *)

LEMMA InitType == Init => TypeOK
BY ParametersAssumption DEF Init, TypeOK, NoBatch

\* Every action keeps the types; only the stamp needs more than the types, that
\* the rows it stamps are there.
LEMMA NextType ==
    ASSUME TypeOK, ClaimedPresent, [Next]_vars
    PROVE  TypeOK'
<1> USE ParametersAssumption, NullAssumption DEF TypeOK, tables, history
<1>1. ASSUME NEW t \in Tasks, Enqueue(t) PROVE TypeOK'
  BY <1>1, NewRowType DEF Enqueue, RowIds
<1>2. ASSUME NEW r \in Relays, Select(r) PROVE TypeOK'
  <2> DEFINE chosen == FirstOf(Candidates(r))
             copy == [i \in RowIds |->
                        IF i \in chosen
                        THEN [task |-> rows[i].task, retries |-> rows[i].retries,
                              wait |-> rows[i].wait, group |-> "none"]
                        ELSE NULL]
  <2>1. \A i \in chosen : i \in RowIds /\ rows[i] \in Row
    BY DEF FirstOf, Candidates, Pending
  <2>2. copy \in [RowIds -> Message \cup {NULL}]
    BY <2>1 DEF Row, Message, Groups
  <2>3. batch' = [batch EXCEPT ![r] = copy]
    BY <1>2 DEF Select
  <2>4. excused' \subseteq Tasks
    BY <1>2, <2>1 DEF Select, Excuse, Row
  <2> QED
    BY <1>2, <2>2, <2>3, <2>4 DEF Select
<1>3. ASSUME NEW r \in Relays, MarkInFlight(r) PROVE TypeOK'
  <2>1. \A i \in Batch(r) : [rows[i] EXCEPT !.age = 0] \in Row
    <3> SUFFICES ASSUME NEW i \in Batch(r) PROVE [rows[i] EXCEPT !.age = 0] \in Row
      OBVIOUS
    <3>1. rows[i] \in Row
      BY <1>3 DEF MarkInFlight, ClaimedPresent, Batch, Holds
    <3> QED
      BY <3>1, RowStamp
  <2> QED
    BY <1>3, <2>1 DEF MarkInFlight
<1>4. ASSUME NEW r \in Relays, NEW i \in RowIds, PreExceeded(r, i) PROVE TypeOK'
  <2>1. batch[r][i] \in Message
    BY <1>4 DEF PreExceeded, Publishing, Unclassified, Group, Batch, Holds
  <2>2. [batch[r][i] EXCEPT !.group = "exceeded"] \in Message
    BY <2>1 DEF Message, Groups
  <2> QED
    BY <1>4, <2>2 DEF PreExceeded, Publishing, Put
<1>5. ASSUME NEW r \in Relays, NEW i \in RowIds, PublishSucceeds(r, i) PROVE TypeOK'
  <2>1. batch[r][i] \in Message
    BY <1>5 DEF PublishSucceeds, Publishing, Unclassified, Group, Batch, Holds
  <2>2. [batch[r][i] EXCEPT !.group = "published"] \in Message
    BY <2>1 DEF Message, Groups
  <2>3. delivered' \in [Tasks -> 0..2]
    BY <1>5, <2>1, SendType DEF PublishSucceeds, Message
  <2> QED
    BY <1>5, <2>2, <2>3 DEF PublishSucceeds, Publishing, Put
<1>6. ASSUME NEW r \in Relays, NEW i \in RowIds, PublishFails(r, i) PROVE TypeOK'
  <2> DEFINE g == IF LastAttempt(batch[r][i]) THEN "exceeded" ELSE "failed"
  <2>1. batch[r][i] \in Message
    BY <1>6 DEF PublishFails, Publishing, Unclassified, Group, Batch, Holds
  <2>2. [batch[r][i] EXCEPT !.group = g] \in Message
    BY <2>1 DEF Message, Groups
  <2>3. delivered' \in [Tasks -> 0..2] /\ excused' \subseteq Tasks
    BY <1>6, <2>1, SendType DEF PublishFails, Message
  <2>4. attempts' \in [RowIds -> 0..MaxRetries]
    BY <1>6 DEF PublishFails, Lesser
  <2>5. batch' = [batch EXCEPT ![r][i].group = g]
    BY <1>6 DEF PublishFails, Put
  <2> QED
    BY <1>6, <2>2, <2>3, <2>4, <2>5 DEF PublishFails, Publishing
<1>7. ASSUME NEW r \in Relays, NEW i \in RowIds, NEW trips \in BOOLEAN,
             PublishMeetsOutage(r, i, trips)
      PROVE  TypeOK'
  <2>1. batch[r][i] \in Message
    BY <1>7 DEF PublishMeetsOutage, Publishing, Unclassified, Group, Batch, Holds
  <2>2. \A j \in RowIds : j = i \/ j \in Unclassified(r) =>
          [batch[r][j] EXCEPT !.group = OutageGroup(batch[r][j])] \in Message
    <3> SUFFICES ASSUME NEW j \in RowIds, j = i \/ j \in Unclassified(r)
                 PROVE  [batch[r][j] EXCEPT !.group = OutageGroup(batch[r][j])] \in Message
      OBVIOUS
    <3>1. batch[r][j] \in Message
      BY <2>1 DEF Unclassified, Group, Batch, Holds
    <3>2. OutageGroup(batch[r][j]) \in Groups
      BY DEF OutageGroup, Groups
    <3> QED
      BY <3>1, <3>2, MessageUpdate
  <2>3. delivered' \in [Tasks -> 0..2] /\ excused' \subseteq Tasks
    BY <1>7, <2>1, SendType DEF PublishMeetsOutage, Message
  <2>4. batch' \in [Relays -> [RowIds -> Message \cup {NULL}]]
    BY <1>7, <2>2 DEF PublishMeetsOutage
  <2> QED
    BY <1>7, <2>3, <2>4 DEF PublishMeetsOutage, Publishing, Fault, FaultPossible
<1>8. ASSUME NEW r \in Relays, CutBatch(r) PROVE TypeOK'
  BY <1>8 DEF CutBatch, Fault, FaultPossible
<1>9. ASSUME NEW r \in Relays, Record(r) PROVE TypeOK'
  BY <1>9 DEF Record, Group, Batch
<1>10. ASSUME NEW r \in Relays, Commit(r) PROVE TypeOK'
  <2>1. PICK jitter \in [Group(r, "failed") -> Jitters] : Settle(r, jitter)
    BY <1>10 DEF Commit
  <2>2. \A i \in RowIds : \A w \in Later : rows[i] # NULL =>
          /\ [rows[i] EXCEPT !.retries = @ + 1, !.age = 0, !.wait = w] \in Row
          /\ [rows[i] EXCEPT !.age = 0, !.wait = w] \in Row
    <3> SUFFICES ASSUME NEW i \in RowIds, NEW w \in Later, rows[i] # NULL
                 PROVE  /\ [rows[i] EXCEPT !.retries = @ + 1, !.age = 0, !.wait = w] \in Row
                        /\ [rows[i] EXCEPT !.age = 0, !.wait = w] \in Row
      OBVIOUS
    <3>1. rows[i] \in Row
      OBVIOUS
    <3> QED
      BY <3>1, RowRetry, RowDefer
  <2>3. Cooldown \in Later
    BY DEF Later
  <2>4. rows' \in [RowIds -> Row \cup {NULL}]
    BY <2>1, <2>2, <2>3, DelayType DEF Settle, Present
  <2>5. dead' \subseteq DeadLetter
    <3>1. \A i \in Group(r, "exceeded") : i \in RowIds /\ batch[r][i] \in Message
      BY DEF Group, Batch, Holds
    <3>2. DeadLettersOf(r) \subseteq DeadLetter
      BY <3>1 DEF DeadLettersOf, DeadLetter, Message
    <3> QED
      BY <2>1, <3>2 DEF Settle
  <2>6. NoBatch \in [RowIds -> Message \cup {NULL}]
    BY DEF NoBatch
  <2> QED
    BY <1>10, <2>4, <2>5, <2>6 DEF Commit
<1>11. ASSUME NEW r \in Relays, Forget(r),
              pc' \in [Relays -> {"ready", "claiming", "publishing", "recording", "down"}]
       PROVE  TypeOK'
  <2>1. excused' \subseteq Tasks
    BY <1>11 DEF Forget, Excuse, TasksOf, Group, Batch, Holds, Message
  <2>2. NoBatch \in [RowIds -> Message \cup {NULL}]
    BY DEF NoBatch
  <2> QED
    BY <1>11, <2>1, <2>2 DEF Forget, Fault, FaultPossible
<1>12. ASSUME NEW r \in Relays, IterationFails(r) PROVE TypeOK'
  BY <1>11, <1>12 DEF IterationFails
<1>13. ASSUME NEW r \in Relays, Crash(r) PROVE TypeOK'
  BY <1>11, <1>13 DEF Crash
<1>14. ASSUME NEW r \in Relays, Restart(r) PROVE TypeOK'
  BY <1>14 DEF Restart
<1>15. ASSUME NEW ids \in SUBSET Present, ResetRetries(ids) PROVE TypeOK'
  <2>1. \A i \in ids : [rows[i] EXCEPT !.retries = 0, !.age = NULL, !.wait = NULL] \in Row
    BY RowReset DEF Present
  <2>2. rows' \in [RowIds -> Row \cup {NULL}]
    BY <1>15, <2>1 DEF ResetRetries
  <2> QED
    <3>0. Fault
      BY <1>15 DEF ResetRetries
    <3>1. faults' \in 0..MaxFaults
      BY <3>0 DEF Fault, FaultPossible
    <3>2. reset' \subseteq RowIds
      BY <1>15 DEF ResetRetries, Present
    <3> QED
      BY <1>15, <2>2, <3>1, <3>2 DEF ResetRetries
<1>16. ASSUME NEW entries \in SUBSET dead, Replay(entries) PROVE TypeOK'
  <2> DEFINE n == Cardinality(entries)
             new == nextId..(nextId + n - 1)
  <2>1. n \in 1..(MaxRows + 1 - nextId)
    BY <1>16 DEF Replay
  <2>2. PICK source \in [new -> entries] :
          rows' = [i \in RowIds |-> IF i \in new THEN NewRow(source[i].task) ELSE rows[i]]
    BY <1>16 DEF Replay
  <2>3. \A i \in new : NewRow(source[i].task) \in Row
    <3> HIDE DEF n, new
    <3>1. SUFFICES ASSUME NEW i \in new PROVE NewRow(source[i].task) \in Row
      OBVIOUS
    <3>2. source[i] \in DeadLetter
      OBVIOUS
    <3>3. source[i].task \in Tasks
      BY <3>2 DEF DeadLetter
    <3> QED
      BY <3>3, NewRowType
  <2>4. rows' \in [RowIds -> Row \cup {NULL}]
    BY <2>2, <2>3
  <2>5. nextId' \in 1..(MaxRows + 1)
    BY <1>16, <2>1 DEF Replay
  <2>6. excused' \subseteq Tasks
    BY <1>16 DEF Replay, Excuse, DeadLetter
  <2> QED
    BY <1>16, <2>4, <2>5, <2>6 DEF Replay
<1>17. ASSUME NEW entries \in SUBSET dead, Purge(entries) PROVE TypeOK'
  BY <1>17 DEF Purge, DeadLetter
<1>18. ASSUME Tick PROVE TypeOK'
  <2>1. \A i \in RowIds : rows[i] # NULL =>
          [rows[i] EXCEPT !.age = Older(@), !.wait = Sooner(@)] \in Row
    BY RowOlder
  <2>2. held' \in [Relays -> 0..StaleTimeout]
    <3>1. \A r \in Relays : Lesser(held[r] + 1, StaleTimeout) \in 0..StaleTimeout
      BY DEF Lesser
    <3> QED
      BY <1>18, <3>1 DEF Tick
  <2>3. rows' \in [RowIds -> Row \cup {NULL}]
    BY <1>18, <2>1 DEF Tick
  <2> QED
    BY <1>18, <2>2, <2>3 DEF Tick
<1>19. CASE UNCHANGED vars
  BY <1>19 DEF vars
<1> QED
  BY <1>1, <1>2, <1>3, <1>4, <1>5, <1>6, <1>7, <1>8, <1>9, <1>10, <1>12, <1>13, <1>14,
     <1>15, <1>16, <1>17, <1>18, <1>19
  DEF Next, RelayStep, Disturbance, Operator, Process

-------------------------------------------------------------------------------
(* What the actions do to the rows. *)

\* No row comes or goes, and none changes its task.
RowsKept == \A i \in RowIds : /\ rows'[i] = NULL <=> rows[i] = NULL
                              /\ rows[i] # NULL => rows'[i].task = rows[i].task

LEMMA MarkKeepsRows ==
    ASSUME TypeOK, ClaimedPresent, NEW r \in Relays, MarkInFlight(r)
    PROVE  RowsKept
<1> SUFFICES ASSUME NEW i \in RowIds
             PROVE  /\ rows'[i] = NULL <=> rows[i] = NULL
                    /\ rows[i] # NULL => rows'[i].task = rows[i].task
  BY DEF RowsKept
<1>1. CASE i \notin Batch(r)
  BY <1>1 DEF MarkInFlight
<1>2. CASE i \in Batch(r)
  <2>1. rows[i] \in Row
    BY <1>2 DEF MarkInFlight, Batch, Holds, ClaimedPresent, TypeOK
  <2>2. rows'[i] = [rows[i] EXCEPT !.age = 0]
    BY <1>2 DEF MarkInFlight
  <2>3. rows'[i] \in Row
    BY <2>1, <2>2, RowStamp
  <2> QED
    BY <2>1, <2>2, <2>3, NullAssumption DEF Row
<1> QED
  BY <1>1, <1>2

LEMMA ResetKeepsRows ==
    ASSUME TypeOK, NEW ids \in SUBSET Present, ResetRetries(ids)
    PROVE  RowsKept
<1> SUFFICES ASSUME NEW i \in RowIds
             PROVE  /\ rows'[i] = NULL <=> rows[i] = NULL
                    /\ rows[i] # NULL => rows'[i].task = rows[i].task
  BY DEF RowsKept
<1>1. CASE i \notin ids
  BY <1>1 DEF ResetRetries
<1>2. CASE i \in ids
  <2>1. rows[i] \in Row
    BY <1>2 DEF Present, TypeOK
  <2>2. rows'[i] = [rows[i] EXCEPT !.retries = 0, !.age = NULL, !.wait = NULL]
    BY <1>2 DEF ResetRetries
  <2>3. rows'[i] \in Row
    BY <2>1, <2>2, RowReset
  <2> QED
    BY <2>1, <2>2, <2>3, NullAssumption DEF Row
<1> QED
  BY <1>1, <1>2

LEMMA TickKeepsRows == ASSUME TypeOK, Tick PROVE RowsKept
<1> SUFFICES ASSUME NEW i \in RowIds, rows[i] # NULL
             PROVE  rows'[i] # NULL /\ rows'[i].task = rows[i].task
  BY DEF RowsKept, Tick
<1>1. rows[i] \in Row
  BY DEF TypeOK
<1>2. rows'[i] = [rows[i] EXCEPT !.age = Older(@), !.wait = Sooner(@)]
  BY DEF Tick
<1>3. rows'[i] \in Row
  BY <1>1, <1>2, RowOlder
<1> QED
  BY <1>1, <1>2, <1>3, NullAssumption DEF Row

\* The second transaction deletes the rows of Deleted and no others.
LEMMA SettleRows ==
    ASSUME TypeOK, NEW r \in Relays, NEW jitter, Settle(r, jitter), NEW i \in RowIds
    PROVE  /\ rows'[i] # NULL => /\ rows[i] # NULL
                                /\ rows'[i].task = rows[i].task
                                /\ i \notin Deleted(r)
           /\ rows[i] # NULL /\ i \notin Deleted(r) => rows'[i] # NULL
<1>1. CASE i \in Deleted(r)
  BY <1>1 DEF Settle, Deleted, Group
<1>2. CASE i \in Group(r, "failed") \cap Present
  <2> DEFINE w == RetryDelay(batch[r][i].retries, jitter[i])
  <2>1. rows[i] \in Row /\ rows[i] # NULL /\ i \notin Deleted(r)
    BY <1>2 DEF Present, TypeOK, Deleted, Group
  <2>2. rows'[i] = [rows[i] EXCEPT !.retries = @ + 1, !.age = 0, !.wait = w]
    BY <1>2, <2>1 DEF Settle, Group
  <2>3. w \in Later
    BY DelayType
  <2>4. rows'[i] \in Row
    BY <2>1, <2>2, <2>3, RowRetry
  <2> QED
    BY <2>1, <2>2, <2>4, NullAssumption DEF Row
<1>3. CASE i \in Group(r, "deferred") \cap Present
  <2>1. rows[i] \in Row /\ rows[i] # NULL /\ i \notin Deleted(r)
    BY <1>3 DEF Present, TypeOK, Deleted, Group
  <2>2. rows'[i] = [rows[i] EXCEPT !.age = 0, !.wait = Cooldown]
    BY <1>3, <2>1 DEF Settle, Group
  <2>3. Cooldown \in Later
    BY ParametersAssumption DEF Later
  <2>4. rows'[i] \in Row
    BY <2>1, <2>2, <2>3, RowDefer
  <2> QED
    BY <2>1, <2>2, <2>4, NullAssumption DEF Row
<1>4. CASE /\ i \notin Deleted(r)
           /\ i \notin Group(r, "failed") \cap Present
           /\ i \notin Group(r, "deferred") \cap Present
  BY <1>4 DEF Settle
<1> QED
  BY <1>1, <1>2, <1>3, <1>4

\* Putting a message in a group leaves it about the same task.
LEMMA ProcessKeepsMessages ==
    ASSUME TypeOK, NEW r \in Relays, Process(r)
    PROVE  \A s \in Relays, j \in RowIds : batch'[s][j] # NULL =>
              batch[s][j] # NULL /\ batch'[s][j].task = batch[s][j].task
<1> DEFINE Kept == \A s \in Relays, j \in RowIds : batch'[s][j] # NULL =>
                      batch[s][j] # NULL /\ batch'[s][j].task = batch[s][j].task
<1>1. ASSUME NEW i \in RowIds, NEW g \in Groups, Publishing(r, i), Put(r, i, g)
      PROVE  Kept
  <2>1. batch[r][i] \in Message
    BY <1>1 DEF Publishing, Unclassified, Group, Batch, Holds, TypeOK
  <2>2. batch'[r][i] = [batch[r][i] EXCEPT !.group = g]
    BY <1>1 DEF Put, TypeOK
  <2>3. \A j \in RowIds \ {i} : batch'[r][j] = batch[r][j]
    BY <1>1 DEF Put, TypeOK
  <2>4. \A s \in Relays \ {r} : batch'[s] = batch[s]
    BY <1>1 DEF Put, TypeOK
  <2>5. batch[r][i] # NULL /\ batch'[r][i].task = batch[r][i].task
    BY <2>1, <2>2, NullAssumption DEF Message
  <2> QED
    BY <2>3, <2>4, <2>5
<1>2. ASSUME NEW i \in RowIds, PreExceeded(r, i) PROVE Kept
  BY <1>1, <1>2 DEF PreExceeded, Groups
<1>3. ASSUME NEW i \in RowIds, PublishSucceeds(r, i) PROVE Kept
  BY <1>1, <1>3 DEF PublishSucceeds, Groups
<1>4. ASSUME NEW i \in RowIds, PublishFails(r, i) PROVE Kept
  BY <1>1, <1>4 DEF PublishFails, Groups
<1>5. ASSUME NEW i \in RowIds, NEW trips \in BOOLEAN, PublishMeetsOutage(r, i, trips)
      PROVE  Kept
  <2>1. \A j \in RowIds : j = i \/ j \in Unclassified(r) => batch[r][j] \in Message
    BY <1>5 DEF PublishMeetsOutage, Publishing, Unclassified, Group, Batch, Holds, TypeOK
  <2>2. \A j \in RowIds : batch'[r][j] =
          IF j = i \/ (trips /\ j \in Unclassified(r))
          THEN [batch[r][j] EXCEPT !.group = OutageGroup(batch[r][j])]
          ELSE batch[r][j]
    BY <1>5 DEF PublishMeetsOutage, TypeOK
  <2>3. \A j \in RowIds : batch'[r][j] # NULL =>
          batch[r][j] # NULL /\ batch'[r][j].task = batch[r][j].task
    BY <2>1, <2>2, NullAssumption DEF Message
  <2>4. \A s \in Relays \ {r} : batch'[s] = batch[s]
    BY <1>5 DEF PublishMeetsOutage, TypeOK
  <2> QED
    BY <2>3, <2>4
<1> QED
  BY <1>2, <1>3, <1>4, <1>5 DEF Process

-------------------------------------------------------------------------------
(* Ids, locks and what a relay holds in memory. *)

Structure == FreshIds /\ ClaimedPresent /\ LocksDisjoint /\ SameTask

LEMMA InitStructure == Init => Structure
BY DEF Init, Structure, FreshIds, ClaimedPresent, LocksDisjoint, SameTask, LockedBy, NoBatch

\* A transaction's locks are those LockedBy names.
LEMMA LocksAre ==
    ASSUME NEW s \in Relays, NEW i \in RowIds
    PROVE  i \in Locks(s) <=> LockedBy(s, i)
BY DEF Locks, LockedBy, Batch, Holds, Present

\* A step that neither inserts nor deletes a row nor changes its task, and only
\* lets go of messages, without a transaction beginning, keeps the structure.
LEMMA QuietStructure ==
    ASSUME TypeOK, TypeOK', Structure,
           nextId' = nextId,
           RowsKept,
           \A s \in Relays, i \in RowIds :
              batch'[s][i] # NULL => /\ batch[s][i] # NULL
                                     /\ batch'[s][i].task = batch[s][i].task,
           \A s \in Relays : \/ pc'[s] = pc[s]
                             \/ pc'[s] \in {"ready", "publishing", "down"}
    PROVE  Structure'
<1> USE DEF RowsKept
<1>1. FreshIds'
  BY DEF Structure, FreshIds, TypeOK
<1>2. ClaimedPresent'
  BY DEF Structure, ClaimedPresent
<1>3. LocksDisjoint'
  BY DEF Structure, LocksDisjoint, LockedBy
<1>4. SameTask'
  BY DEF Structure, SameTask
<1> QED
  BY <1>1, <1>2, <1>3, <1>4 DEF Structure

\* Inserting rows at fresh ids only keeps the structure: nobody holds a message
\* of such an id.
LEMMA InsertStructure ==
    ASSUME TypeOK, Structure, pc' = pc, batch' = batch,
           NEW new, \A i \in new : nextId <= i /\ i < nextId',
           nextId' \in Nat, nextId <= nextId',
           \A i \in RowIds \ new : rows'[i] = rows[i]
    PROVE  Structure'
<1> USE DEF Structure
<1>1. FreshIds'
  BY DEF FreshIds, TypeOK, RowIds
<1>2. \A s \in Relays, i \in RowIds : batch[s][i] # NULL => rows'[i] = rows[i]
  BY DEF FreshIds
<1>3. ClaimedPresent' /\ LocksDisjoint' /\ SameTask'
  BY <1>2 DEF ClaimedPresent, LocksDisjoint, LockedBy, SameTask
<1> QED
  BY <1>1, <1>3

LEMMA NextStructure ==
    ASSUME TypeOK, TypeOK', Structure, [Next]_vars
    PROVE  Structure'
<1> USE DEF tables, history
<1>1. ASSUME NEW t \in Tasks, Enqueue(t) PROVE Structure'
  <2> DEFINE new == {nextId}
  <2>1. \A i \in RowIds \ new : rows'[i] = rows[i]
    BY <1>1 DEF Enqueue, TypeOK
  <2>2. nextId' \in Nat /\ nextId <= nextId' /\ pc' = pc /\ batch' = batch
    BY <1>1 DEF Enqueue, TypeOK
  <2>3. \A i \in new : nextId <= i /\ i < nextId'
    BY <1>1 DEF Enqueue, TypeOK
  <2> HIDE DEF new
  <2> QED
    BY <2>1, <2>2, <2>3, InsertStructure
<1>2. ASSUME NEW r \in Relays, Select(r) PROVE Structure'
  <2> DEFINE chosen == FirstOf(Candidates(r))
  <2>1. \A i \in chosen : /\ i \in RowIds /\ rows[i] # NULL
                          /\ \A s \in Relays \ {r} : ~LockedBy(s, i)
    BY LocksAre DEF FirstOf, Candidates, Pending, LockedByOthers
  <2>2. \A i \in RowIds :
          IF i \in chosen THEN batch'[r][i].task = rows[i].task
          ELSE batch'[r][i] = NULL
    BY <1>2 DEF Select, TypeOK
  <2>3. \A s \in Relays \ {r} : batch'[s] = batch[s] /\ pc'[s] = pc[s]
    BY <1>2 DEF Select, TypeOK
  <2>4. pc'[r] = "claiming" /\ rows' = rows /\ nextId' = nextId
    BY <1>2 DEF Select, TypeOK
  <2>5. FreshIds'
    BY <2>1, <2>2, <2>3, <2>4 DEF FreshIds, Structure
  <2>6. ClaimedPresent'
    BY <2>1, <2>2, <2>3, <2>4 DEF ClaimedPresent, Structure
  <2>7. LocksDisjoint'
    BY <2>1, <2>2, <2>3, <2>4 DEF LocksDisjoint, LockedBy, Structure
  <2>8. SameTask'
    BY <2>1, <2>2, <2>3, <2>4 DEF SameTask, Structure
  <2> QED
    BY <2>5, <2>6, <2>7, <2>8 DEF Structure
<1>3. ASSUME NEW r \in Relays, MarkInFlight(r) PROVE Structure'
  <2>1. RowsKept
    BY <1>3, MarkKeepsRows DEF Structure
  <2>2. nextId' = nextId /\ batch' = batch
    BY <1>3 DEF MarkInFlight
  <2>3. \A s \in Relays : pc'[s] = pc[s] \/ pc'[s] = "publishing"
    BY <1>3 DEF MarkInFlight, TypeOK
  <2> QED
    BY <2>1, <2>2, <2>3, QuietStructure
<1>4. ASSUME NEW r \in Relays, Process(r) PROVE Structure'
  <2>1. rows' = rows /\ nextId' = nextId /\ pc' = pc
    BY <1>4 DEF Process, PreExceeded, PublishSucceeds, PublishFails, PublishMeetsOutage,
                Publishing
  <2> QED
    BY <1>4, <2>1, QuietStructure, ProcessKeepsMessages DEF RowsKept
<1>5. ASSUME NEW r \in Relays, CutBatch(r) PROVE Structure'
  <2>1. \A s \in Relays, j \in RowIds : batch'[s][j] # NULL =>
          /\ batch[s][j] # NULL
          /\ batch'[s][j].task = batch[s][j].task
    BY <1>5 DEF CutBatch, TypeOK
  <2>2. rows' = rows /\ nextId' = nextId /\ pc' = pc
    BY <1>5 DEF CutBatch
  <2> QED
    BY <2>1, <2>2, QuietStructure DEF RowsKept
<1>6. ASSUME NEW r \in Relays, Record(r) PROVE Structure'
  <2>1. rows' = rows /\ nextId' = nextId /\ batch' = batch
    BY <1>6 DEF Record
  <2>2. pc'[r] = "recording" /\ \A s \in Relays \ {r} : pc'[s] = pc[s]
    BY <1>6 DEF Record, TypeOK
  <2>3. \A i \in RowIds, s \in Relays \ {r} : batch[r][i] # NULL => ~LockedBy(s, i)
    BY <1>6, LocksAre DEF Record, Batch, Holds, LockedByOthers
  <2>4. FreshIds' /\ SameTask'
    BY <2>1 DEF FreshIds, SameTask, Structure
  <2>5. ClaimedPresent'
    BY <2>1, <2>2 DEF ClaimedPresent, Structure
  <2>6. LocksDisjoint'
    BY <2>1, <2>2, <2>3 DEF LocksDisjoint, LockedBy, Structure
  <2> QED
    BY <2>4, <2>5, <2>6 DEF Structure
<1>7. ASSUME NEW r \in Relays, Commit(r) PROVE Structure'
  <2>1. PICK jitter : Settle(r, jitter)
    BY <1>7 DEF Commit
  <2>2. \A i \in RowIds : rows'[i] # NULL =>
          /\ rows[i] # NULL
          /\ rows'[i].task = rows[i].task
    BY <2>1, SettleRows
  <2>3. \A i \in RowIds : rows[i] # NULL /\ batch[r][i] = NULL => rows'[i] # NULL
    BY <2>1, SettleRows DEF Deleted, Group, Batch, Holds
  <2>4. nextId' = nextId /\ \A s \in Relays \ {r} : batch'[s] = batch[s] /\ pc'[s] = pc[s]
    BY <1>7 DEF Commit, TypeOK
  <2>5. pc[r] = "recording" /\ pc'[r] = "ready" /\ \A i \in RowIds : batch'[r][i] = NULL
    BY <1>7 DEF Commit, TypeOK, NoBatch
  <2>6. FreshIds'
    BY <2>2, <2>4, <2>5 DEF FreshIds, Structure
  <2>7. ClaimedPresent'
    <3> SUFFICES ASSUME NEW s \in Relays, NEW i \in RowIds,
                        pc'[s] = "claiming", batch'[s][i] # NULL
                 PROVE  rows'[i] # NULL
      BY DEF ClaimedPresent
    <3>1. s # r /\ pc[s] = "claiming" /\ batch[s][i] # NULL
      BY <2>4, <2>5
    <3>2. rows[i] # NULL
      BY <3>1 DEF ClaimedPresent, Structure
    <3>3. batch[r][i] = NULL
      BY <2>5, <3>1, <3>2 DEF LocksDisjoint, LockedBy, Structure
    <3> QED
      BY <2>3, <3>2, <3>3
  <2>8. LocksDisjoint'
    BY <2>2, <2>4, <2>5 DEF LocksDisjoint, LockedBy, Structure
  <2>9. SameTask'
    BY <2>2, <2>4, <2>5 DEF SameTask, Structure
  <2> QED
    BY <2>6, <2>7, <2>8, <2>9 DEF Structure
<1>8. ASSUME NEW r \in Relays, Forget(r),
              \A s \in Relays : pc'[s] = pc[s] \/ pc'[s] \in {"ready", "down"}
       PROVE  Structure'
  <2>1. \A s \in Relays, i \in RowIds : batch'[s][i] # NULL =>
          /\ batch[s][i] # NULL
          /\ batch'[s][i].task = batch[s][i].task
    BY <1>8 DEF Forget, NoBatch, TypeOK
  <2>2. rows' = rows /\ nextId' = nextId
    BY <1>8 DEF Forget
  <2> QED
    BY <1>8, <2>1, <2>2, QuietStructure DEF RowsKept
<1>9. ASSUME NEW r \in Relays, IterationFails(r) \/ Crash(r) PROVE Structure'
  BY <1>8, <1>9 DEF IterationFails, Crash, TypeOK
<1>10. ASSUME NEW r \in Relays, Restart(r) PROVE Structure'
  BY <1>10, QuietStructure DEF RowsKept, Restart, TypeOK
<1>11. ASSUME NEW ids \in SUBSET Present, ResetRetries(ids) PROVE Structure'
  <2>1. RowsKept
    BY <1>11, ResetKeepsRows
  <2> QED
    BY <1>11, <2>1, QuietStructure DEF ResetRetries
<1>12. ASSUME NEW entries \in SUBSET dead, Replay(entries) PROVE Structure'
  <2> DEFINE n == Cardinality(entries)
             new == nextId..(nextId + n - 1)
  <2>1. n \in 1..(MaxRows + 1 - nextId) /\ nextId' = nextId + n
    BY <1>12 DEF Replay
  <2>2. pc' = pc /\ batch' = batch /\ \A i \in RowIds \ new : rows'[i] = rows[i]
    BY <1>12 DEF Replay
  <2>3. /\ nextId' \in Nat /\ nextId <= nextId'
        /\ \A i \in new : nextId <= i /\ i < nextId'
    BY <2>1, ParametersAssumption DEF TypeOK
  <2> HIDE DEF new
  <2> QED
    BY <2>2, <2>3, InsertStructure
<1>13. ASSUME NEW entries \in SUBSET dead, Purge(entries) PROVE Structure'
  BY <1>13, QuietStructure DEF RowsKept, Purge
<1>14. ASSUME Tick PROVE Structure'
  <2>1. RowsKept
    BY <1>14, TickKeepsRows
  <2> QED
    BY <1>14, <2>1, QuietStructure DEF Tick
<1>15. CASE UNCHANGED vars
  BY <1>15, QuietStructure DEF RowsKept, vars
<1> QED
  BY <1>1, <1>2, <1>3, <1>4, <1>5, <1>6, <1>7, <1>9, <1>10, <1>11, <1>12, <1>13, <1>14,
     <1>15
  DEF Next, RelayStep, Disturbance, Operator

-------------------------------------------------------------------------------
(* What the broker has. *)

\* The broker never gives a task back.
LEMMA DeliveredGrows ==
    ASSUME TypeOK, [Next]_vars
    PROVE  \A t \in Tasks : delivered[t] > 0 => delivered'[t] > 0
<1> USE DEF TypeOK, history
<1>1. ASSUME NEW u \in Tasks, Delivered(u)
      PROVE  \A t \in Tasks : delivered[t] > 0 => delivered'[t] > 0
  BY <1>1 DEF Delivered, Lesser
<1>2. ASSUME NEW u \in Tasks, AmbiguousSend(u)
      PROVE  \A t \in Tasks : delivered[t] > 0 => delivered'[t] > 0
  BY <1>1, <1>2 DEF AmbiguousSend
<1>3. ASSUME NEW r \in Relays, NEW i \in RowIds, Publishing(r, i)
      PROVE  batch[r][i].task \in Tasks
  BY <1>3 DEF Publishing, Unclassified, Group, Batch, Holds, Message
<1>4. ASSUME NEW r \in Relays, Process(r)
      PROVE  \A t \in Tasks : delivered[t] > 0 => delivered'[t] > 0
  BY <1>1, <1>2, <1>3, <1>4
  DEF Process, PreExceeded, PublishSucceeds, PublishFails, PublishMeetsOutage
<1>5. CASE delivered' = delivered
  BY <1>5
<1> QED
  BY <1>4, <1>5
  DEF Next, Enqueue, RelayStep, Select, MarkInFlight, Record, Commit, Disturbance, CutBatch,
      IterationFails, Crash, Forget, Restart, Operator, ResetRetries, Replay, Purge, Tick, vars

\* A message only gets into the group "published" when the broker takes it.
LEMMA NextReached ==
    ASSUME TypeOK, PublishedReached, [Next]_vars
    PROVE  PublishedReached'
<1> DEFINE Step == \A r \in Relays, i \in RowIds :
                      batch'[r][i] # NULL /\ batch'[r][i].group = "published" =>
                        \/ delivered'[batch'[r][i].task] > 0
                        \/ /\ batch[r][i] # NULL /\ batch[r][i].group = "published"
                           /\ batch'[r][i].task = batch[r][i].task
<1>1. ASSUME NEW r \in Relays, Select(r) PROVE Step
  BY <1>1 DEF Select, TypeOK
<1>2. ASSUME NEW r \in Relays, NEW i \in RowIds, NEW g \in Groups \ {"published"},
             Publishing(r, i), Put(r, i, g)
      PROVE  Step
  <2>1. batch[r][i] \in Message
    BY <1>2 DEF Publishing, Unclassified, Group, Batch, Holds, TypeOK
  <2>2. batch'[r][i].group = g
    BY <1>2, <2>1 DEF Put, TypeOK, Message
  <2> QED
    BY <1>2, <2>2 DEF Put, TypeOK
<1>3. ASSUME NEW r \in Relays, NEW i \in RowIds, PublishSucceeds(r, i) PROVE Step
  <2>1. batch[r][i] \in Message
    BY <1>3 DEF PublishSucceeds, Publishing, Unclassified, Group, Batch, Holds, TypeOK
  <2>2. batch'[r][i].task = batch[r][i].task /\ batch[r][i].task \in Tasks
    BY <1>3, <2>1 DEF PublishSucceeds, Put, TypeOK, Message
  <2>3. delivered'[batch[r][i].task] > 0
    BY <1>3, <2>2 DEF PublishSucceeds, Delivered, Lesser, TypeOK
  <2> QED
    BY <1>3, <2>2, <2>3 DEF PublishSucceeds, Put, TypeOK
<1>4. ASSUME NEW r \in Relays, NEW i \in RowIds, NEW trips \in BOOLEAN,
             PublishMeetsOutage(r, i, trips)
      PROVE  Step
  <2>1. \A j \in RowIds : j = i \/ j \in Unclassified(r) => batch[r][j] \in Message
    BY <1>4 DEF PublishMeetsOutage, Publishing, Unclassified, Group, Batch, Holds, TypeOK
  <2>2. \A j \in RowIds : batch'[r][j] =
          IF j = i \/ (trips /\ j \in Unclassified(r))
          THEN [batch[r][j] EXCEPT !.group = OutageGroup(batch[r][j])]
          ELSE batch[r][j]
    BY <1>4 DEF PublishMeetsOutage, TypeOK
  <2>3. \A s \in Relays \ {r} : batch'[s] = batch[s]
    BY <1>4 DEF PublishMeetsOutage, TypeOK
  <2> QED
    BY <2>1, <2>2, <2>3 DEF OutageGroup, Message
<1>5. ASSUME NEW r \in Relays, CutBatch(r) \/ Forget(r) \/ Commit(r) PROVE Step
  BY <1>5 DEF CutBatch, Forget, Commit, NoBatch, TypeOK
<1>6. ASSUME NEW r \in Relays, NEW i \in RowIds, PreExceeded(r, i) PROVE Step
  BY <1>2, <1>6 DEF PreExceeded, Groups
<1>7. ASSUME NEW r \in Relays, NEW i \in RowIds, PublishFails(r, i) PROVE Step
  BY <1>2, <1>7 DEF PublishFails, Groups
<1>8. ASSUME batch' = batch PROVE Step
  BY <1>8
<1>9. Step
  BY <1>1, <1>3, <1>4, <1>5, <1>6, <1>7, <1>8
  DEF Next, Enqueue, RelayStep, Process, MarkInFlight, Record, Disturbance,
      IterationFails, Crash, Restart, Operator, ResetRetries, Replay, Purge, Tick, vars
<1>10. \A r \in Relays, i \in RowIds : batch[r][i] # NULL => batch[r][i].task \in Tasks
  BY DEF TypeOK, Message
<1> HIDE DEF Step
<1> QED
  BY <1>9, <1>10, DeliveredGrows DEF Step, PublishedReached

-------------------------------------------------------------------------------
(* No task is lost. *)

\* Where a committed task is accounted for.
Accounted(t) == Queued(t) \/ Dead(t) \/ delivered[t] > 0 \/ t \in purged

\* A step that keeps every row, dead letter and purge record keeps the account.
LEMMA StillAccounted ==
    ASSUME TypeOK, [Next]_vars, committed' = committed, NoTaskLost,
           dead \subseteq dead', purged \subseteq purged',
           \A i \in RowIds : rows[i] # NULL => /\ rows'[i] # NULL
                                              /\ rows'[i].task = rows[i].task
    PROVE  NoTaskLost'
<1> SUFFICES ASSUME NEW t \in committed PROVE Accounted(t)'
  BY DEF NoTaskLost, Accounted
<1>1. Accounted(t) /\ t \in Tasks
  BY DEF NoTaskLost, Accounted, TypeOK
<1>2. Queued(t) => Queued(t)'
  BY DEF Queued, Present
<1>3. Dead(t) => Dead(t)'
  BY DEF Dead
<1> QED
  BY <1>1, <1>2, <1>3, DeliveredGrows DEF Accounted

LEMMA NextNoTaskLost ==
    ASSUME TypeOK, Structure, PublishedReached, NoTaskLost, [Next]_vars
    PROVE  NoTaskLost'
<1> USE DEF tables, history
<1>1. ASSUME NEW u \in Tasks, Enqueue(u) PROVE NoTaskLost'
  <2>1. nextId \in RowIds /\ rows[nextId] = NULL
    BY <1>1 DEF Enqueue, Structure, FreshIds, TypeOK
  <2>2. \A i \in RowIds : rows'[i] = IF i = nextId THEN NewRow(u) ELSE rows[i]
    BY <1>1 DEF Enqueue, TypeOK
  <2>3. NewRow(u) # NULL /\ NewRow(u).task = u
    BY NewRowType, NullAssumption DEF NewRow
  <2>4. Queued(u)'
    BY <2>1, <2>2, <2>3 DEF Queued, Present
  <2>5. \A t \in committed : Accounted(t) => Accounted(t)'
    BY <1>1, <2>1, <2>2 DEF Enqueue, Accounted, Queued, Present, Dead
  <2> QED
    BY <1>1, <2>4, <2>5 DEF Enqueue, NoTaskLost, Accounted
<1>2. ASSUME RowsKept, committed' = committed, dead' = dead, purged' = purged PROVE NoTaskLost'
  BY <1>2, StillAccounted DEF RowsKept
<1>3. ASSUME NEW r \in Relays, MarkInFlight(r) PROVE NoTaskLost'
  BY <1>2, <1>3, MarkKeepsRows DEF MarkInFlight, Structure
<1>4. ASSUME NEW ids \in SUBSET Present, ResetRetries(ids) PROVE NoTaskLost'
  BY <1>2, <1>4, ResetKeepsRows DEF ResetRetries
<1>5. ASSUME Tick PROVE NoTaskLost'
  BY <1>2, <1>5, TickKeepsRows DEF Tick
<1>6. ASSUME rows' = rows, dead' = dead, committed' = committed, purged' = purged
      PROVE  NoTaskLost'
  BY <1>2, <1>6 DEF RowsKept
<1>7. ASSUME NEW r \in Relays, Select(r) \/ Record(r) \/ Disturbance(r) \/ Restart(r)
      PROVE  NoTaskLost'
  BY <1>6, <1>7 DEF Select, Record, Disturbance, CutBatch, IterationFails, Crash, Forget, Restart
<1>8. ASSUME NEW r \in Relays, Process(r) PROVE NoTaskLost'
  BY <1>6, <1>8
  DEF Process, PreExceeded, PublishSucceeds, PublishFails, PublishMeetsOutage, Publishing
<1>9. ASSUME NEW r \in Relays, Commit(r) PROVE NoTaskLost'
  <2>1. PICK jitter : Settle(r, jitter)
    BY <1>9 DEF Commit
  <2>2. /\ committed' = committed /\ purged' = purged /\ delivered' = delivered
        /\ dead' = dead \cup DeadLettersOf(r)
    BY <1>9, <2>1 DEF Commit, Settle
  <2> SUFFICES ASSUME NEW t \in committed PROVE Accounted(t)'
    BY <2>2 DEF NoTaskLost, Accounted
  <2>3. CASE \E i \in Present : rows[i].task = t
    <3>1. PICK i \in Present : rows[i].task = t
      BY <2>3
    <3>2. CASE i \notin Deleted(r)
      BY <2>1, <3>1, <3>2, SettleRows DEF Accounted, Queued, Present
    <3>3. CASE i \in Group(r, "published")
      <4>1. batch[r][i].task = t /\ delivered[batch[r][i].task] > 0
        BY <3>1, <3>3 DEF Group, Batch, Holds, Present, PublishedReached, Structure, SameTask
      <4> QED
        BY <2>2, <4>1 DEF Accounted
    <3>4. CASE i \in Group(r, "exceeded")
      <4>1. batch[r][i].task = t
        BY <3>1, <3>4 DEF Group, Batch, Holds, Present, Structure, SameTask
      <4> DEFINE d == [row |-> i, by |-> r, task |-> batch[r][i].task,
                       retries |-> batch[r][i].retries]
      <4>2. d \in DeadLettersOf(r) /\ d.task = t
        BY <3>4, <4>1 DEF DeadLettersOf
      <4> QED
        BY <2>2, <4>2 DEF Accounted, Dead
    <3> QED
      BY <3>2, <3>3, <3>4 DEF Deleted
  <2>4. CASE Dead(t) \/ delivered[t] > 0 \/ t \in purged
    BY <2>2, <2>4 DEF Accounted, Dead
  <2> QED
    BY <2>3, <2>4 DEF NoTaskLost, Queued
<1>10. ASSUME NEW entries \in SUBSET dead, Replay(entries) PROVE NoTaskLost'
  <2> DEFINE n == Cardinality(entries)
             new == nextId..(nextId + n - 1)
  <2>1. n \in 1..(MaxRows + 1 - nextId)
    BY <1>10 DEF Replay
  <2>2. PICK source \in [new -> entries] :
          /\ \A d \in entries : \E i \in new : source[i] = d
          /\ rows' = [i \in RowIds |-> IF i \in new THEN NewRow(source[i].task) ELSE rows[i]]
    BY <1>10 DEF Replay
  <2>3. /\ committed' = committed /\ purged' = purged /\ delivered' = delivered
        /\ dead' = dead \ entries
    BY <1>10 DEF Replay
  <2>4. \A i \in new : i \in RowIds /\ rows[i] = NULL
    BY <2>1, ParametersAssumption DEF RowIds, TypeOK, Structure, FreshIds
  <2>5. \A d \in entries : Queued(d.task)'
    <3> SUFFICES ASSUME NEW d \in entries PROVE Queued(d.task)'
      OBVIOUS
    <3>1. PICK i \in new : source[i] = d
      BY <2>2
    <3>2. rows'[i] = NewRow(d.task) /\ i \in RowIds /\ d.task \in Tasks
      BY <2>2, <2>4, <3>1 DEF TypeOK, DeadLetter
    <3>3. rows'[i] # NULL /\ rows'[i].task = d.task
      BY <3>2, NewRowType, NullAssumption DEF NewRow
    <3> QED
      BY <3>2, <3>3 DEF Queued, Present
  <2> SUFFICES ASSUME NEW t \in committed, Accounted(t) PROVE Accounted(t)'
    BY <2>3 DEF NoTaskLost, Accounted
  <2>6. Queued(t) => Queued(t)'
    BY <2>2, <2>4 DEF Queued, Present
  <2>7. Dead(t) => Dead(t)' \/ Queued(t)'
    BY <2>3, <2>5 DEF Dead
  <2> QED
    BY <2>3, <2>6, <2>7 DEF Accounted
<1>11. ASSUME NEW entries \in SUBSET dead, Purge(entries) PROVE NoTaskLost'
  BY <1>11 DEF Purge, NoTaskLost, Queued, Present, Dead
<1>12. CASE UNCHANGED vars
  BY <1>6, <1>12 DEF vars
<1> QED
  BY <1>1, <1>3, <1>4, <1>5, <1>7, <1>8, <1>9, <1>10, <1>11, <1>12
  DEF Next, RelayStep, Operator

-------------------------------------------------------------------------------
(* The theorems. *)

LEMMA InitInv == Init => Inv
BY InitType, InitStructure
DEF Inv, Structure, Init, PublishedReached, NoTaskLost, NoBatch

LEMMA NextInv == Inv /\ [Next]_vars => Inv'
BY NextType, NextStructure, NextReached, NextNoTaskLost DEF Inv, Structure

THEOREM Invariance == Spec => []Inv
<1>1. Init => Inv
  BY InitInv
<1>2. Inv /\ [Next]_vars => Inv'
  BY NextInv
<1> QED
  BY <1>1, <1>2, PTL DEF Spec

\* The variables stay in their types, for any number of relays and rows.
THEOREM TypesHold == Spec => []TypeOK
<1>1. Inv => TypeOK
  BY DEF Inv
<1> QED
  BY <1>1, Invariance, PTL

\* At-least-once delivery: whatever number of relays share the tables, in
\* whatever way their transactions interleave with crashes, rollbacks, second
\* claims, resets, replays and purges, a committed task is queued, dead,
\* delivered or purged.
THEOREM NothingIsLost == Spec => []NoTaskLost
<1>1. Inv => NoTaskLost
  BY DEF Inv
<1> QED
  BY <1>1, Invariance, PTL

-------------------------------------------------------------------------------
(***************************************************************************)
(* The tables and relays implement the delivery contract: under the map    *)
(* Status every step of Outbox is a step of DeliveryContract or changes    *)
(* no task's status.  And the copies of a task: only one that is excused    *)
(* may have two.                                                           *)
(***************************************************************************)

\* Nothing in the tables, in a relay's memory or in the purge record is about a
\* task no producer committed.
Known == /\ \A i \in RowIds : rows[i] # NULL => rows[i].task \in committed
         /\ \A r \in Relays, i \in RowIds :
               batch[r][i] # NULL => batch[r][i].task \in committed
         /\ \A d \in dead : d.task \in committed
         /\ purged \subseteq committed

\* What one step may do to a task's places.
StepOf(t) ==
    /\ Queued(t) /\ ~Queued(t)' => Dead(t)' \/ delivered'[t] > 0
    /\ ~Queued(t) /\ Queued(t)' => Dead(t) \/ t \notin committed
    /\ delivered[t] = 0 /\ delivered'[t] > 0 => t \in committed
    /\ Dead(t)' => Dead(t) \/ t \in committed
    /\ t \in purged' => t \in purged \/ Dead(t)
    /\ t \in purged => t \in purged'
    /\ t \in committed => t \in committed'
    /\ t \in committed' => t \in committed \/ Queued(t)'

\* A step that leaves the rows in place and adds no dead letter.
LEMMA QuietSteps ==
    ASSUME TypeOK, Known, RowsKept, dead' = dead, committed' = committed, purged' = purged,
           \A t \in Tasks : delivered'[t] > 0 => delivered[t] > 0 \/ t \in committed,
           NEW t \in Tasks
    PROVE  StepOf(t)
<1>1. Queued(t)' <=> Queued(t)
  BY DEF RowsKept, Queued, Present, TypeOK
<1>2. Dead(t)' <=> Dead(t)
  BY DEF Dead
<1>3. delivered[t] \in Nat
  BY DEF TypeOK
<1> QED
  BY <1>1, <1>2, <1>3 DEF StepOf

\* Such a step keeps Known if the messages it leaves in memory were there.
LEMMA QuietKnown ==
    ASSUME TypeOK, Known, RowsKept, dead' = dead, committed' = committed, purged' = purged,
           \A r \in Relays, i \in RowIds :
              batch'[r][i] # NULL => batch'[r][i].task \in committed
    PROVE  Known'
BY DEF Known, RowsKept

-------------------------------------------------------------------------------
LEMMA NextKnown ==
    ASSUME TypeOK, Structure, PublishedReached, Known, [Next]_vars
    PROVE  Known' /\ \A t \in Tasks : StepOf(t)
<1> DEFINE Goal == Known' /\ \A t \in Tasks : StepOf(t)
<1> USE DEF tables, history
<1>1. ASSUME NEW u \in Tasks, Enqueue(u) PROVE Goal
  <2>1. nextId \in RowIds /\ rows[nextId] = NULL
    BY <1>1 DEF Enqueue, Structure, FreshIds, TypeOK
  <2>2. \A i \in RowIds : rows'[i] = IF i = nextId THEN NewRow(u) ELSE rows[i]
    BY <1>1 DEF Enqueue, TypeOK
  <2>3. NewRow(u) # NULL /\ NewRow(u).task = u
    BY NewRowType, NullAssumption DEF NewRow
  <2>4. /\ committed' = committed \cup {u} /\ u \notin committed
        /\ batch' = batch /\ dead' = dead /\ purged' = purged /\ delivered' = delivered
    BY <1>1 DEF Enqueue
  <2>5. Known'
    BY <2>1, <2>2, <2>3, <2>4 DEF Known
  <2>6. Queued(u)' /\ \A t \in Tasks \ {u} : Queued(t)' <=> Queued(t)
    BY <2>1, <2>2, <2>3 DEF Queued, Present
  <2>7. \A t \in Tasks : Dead(t)' <=> Dead(t)
    BY <2>4 DEF Dead
  <2> QED
    BY <2>4, <2>5, <2>6, <2>7 DEF StepOf
<1>2. ASSUME NEW r \in Relays, Select(r) PROVE Goal
  <2>1. \A i \in FirstOf(Candidates(r)) : i \in RowIds /\ rows[i] # NULL
    BY DEF FirstOf, Candidates, Pending
  <2>2. \A s \in Relays, i \in RowIds :
          batch'[s][i] # NULL => batch'[s][i].task \in committed
    BY <1>2, <2>1 DEF Select, Known, TypeOK
  <2>3. /\ RowsKept /\ dead' = dead /\ committed' = committed /\ purged' = purged
        /\ delivered' = delivered
    BY <1>2 DEF Select, RowsKept
  <2> QED
    BY <2>2, <2>3, QuietKnown, QuietSteps
<1>3. ASSUME NEW r \in Relays, MarkInFlight(r) PROVE Goal
  BY <1>3, MarkKeepsRows, QuietKnown, QuietSteps DEF MarkInFlight, Structure, Known
<1>4. ASSUME NEW r \in Relays, Process(r) PROVE Goal
  <2>1. PICK i \in RowIds : \/ PreExceeded(r, i) \/ PublishSucceeds(r, i) \/ PublishFails(r, i)
                            \/ \E trips \in BOOLEAN : PublishMeetsOutage(r, i, trips)
    BY <1>4 DEF Process
  <2>2. Publishing(r, i)
    BY <2>1 DEF PreExceeded, PublishSucceeds, PublishFails, PublishMeetsOutage
  <2>3. /\ \A j \in RowIds : j = i \/ j \in Unclassified(r) =>
              batch[r][j] # NULL /\ batch[r][j] \in Message
        /\ batch[r][i].task \in committed /\ batch[r][i].task \in Tasks
    BY <2>2 DEF Publishing, Unclassified, Group, Batch, Holds, TypeOK, Known, Message
  <2>4. \A t \in Tasks : delivered'[t] > 0 => delivered[t] > 0 \/ t \in committed
    BY <2>1, <2>3
    DEF PreExceeded, PublishSucceeds, PublishFails, PublishMeetsOutage, AmbiguousSend,
        Delivered, TypeOK
  <2>5. \A s \in Relays, j \in RowIds :
          batch'[s][j] # NULL => batch'[s][j].task \in committed
    BY <1>4, ProcessKeepsMessages DEF Known
  <2>6. /\ RowsKept /\ dead' = dead /\ committed' = committed /\ purged' = purged
    BY <2>2 DEF Publishing, RowsKept
  <2> QED
    BY <2>4, <2>5, <2>6, QuietKnown, QuietSteps
<1>5. ASSUME NEW r \in Relays, CutBatch(r) \/ Forget(r) PROVE Goal
  <2>1. \A s \in Relays, j \in RowIds :
          batch'[s][j] # NULL => batch'[s][j].task \in committed
    BY <1>5 DEF CutBatch, Forget, NoBatch, Known, TypeOK
  <2>2. /\ RowsKept /\ dead' = dead /\ committed' = committed /\ purged' = purged
        /\ delivered' = delivered
    BY <1>5 DEF CutBatch, Forget, RowsKept
  <2> QED
    BY <2>1, <2>2, QuietKnown, QuietSteps
<1>6. ASSUME NEW r \in Relays, Record(r) \/ Restart(r) PROVE Goal
  BY <1>6, QuietKnown, QuietSteps DEF Record, Restart, RowsKept, Known
<1>7. ASSUME NEW ids \in SUBSET Present, ResetRetries(ids) PROVE Goal
  BY <1>7, ResetKeepsRows, QuietKnown, QuietSteps DEF ResetRetries, Known
<1>8. ASSUME Tick PROVE Goal
  BY <1>8, TickKeepsRows, QuietKnown, QuietSteps DEF Tick, Known
<1>9. CASE UNCHANGED vars
  BY <1>9, QuietKnown, QuietSteps DEF vars, RowsKept, Known
<1>10. ASSUME NEW r \in Relays, Commit(r) PROVE Goal
  <2>1. PICK jitter : Settle(r, jitter)
    BY <1>10 DEF Commit
  <2>2. /\ committed' = committed /\ purged' = purged /\ delivered' = delivered
        /\ dead' = dead \cup DeadLettersOf(r)
    BY <1>10, <2>1 DEF Commit, Settle
  <2>3. \A d \in DeadLettersOf(r) : d.task \in committed
    BY DEF DeadLettersOf, Group, Batch, Holds, Known
  <2>4. Known'
    BY <1>10, <2>1, <2>2, <2>3, SettleRows DEF Known, Commit, NoBatch, TypeOK
  <2>5. ASSUME NEW t \in Tasks PROVE StepOf(t)
    <3>1. ~Queued(t) => ~Queued(t)'
      BY <2>1, SettleRows DEF Queued, Present
    <3>2. Queued(t) /\ ~Queued(t)' => Dead(t)' \/ delivered'[t] > 0
      <4> SUFFICES ASSUME Queued(t), ~Queued(t)' PROVE Dead(t)' \/ delivered'[t] > 0
        OBVIOUS
      <4>1. PICK i \in Present : rows[i].task = t
        BY DEF Queued
      <4>2. i \in Deleted(r) /\ i \in RowIds
        BY <2>1, <4>1, SettleRows DEF Queued, Present
      <4>3. batch[r][i].task = t
        BY <4>1, <4>2 DEF Deleted, Group, Batch, Holds, Present, Structure, SameTask
      <4>4. CASE i \in Group(r, "published")
        BY <2>2, <4>3, <4>4 DEF PublishedReached, Group, Batch, Holds
      <4>5. CASE i \in Group(r, "exceeded")
        <5> DEFINE d == [row |-> i, by |-> r, task |-> batch[r][i].task,
                         retries |-> batch[r][i].retries]
        <5>1. d \in DeadLettersOf(r) /\ d.task = t
          BY <4>3, <4>5 DEF DeadLettersOf
        <5> QED
          BY <2>2, <5>1 DEF Dead
      <4> QED
        BY <4>2, <4>4, <4>5 DEF Deleted
    <3>3. Dead(t)' => Dead(t) \/ t \in committed
      BY <2>2, <2>3 DEF Dead
    <3> QED
      BY <2>2, <3>1, <3>2, <3>3 DEF StepOf
  <2> QED
    BY <2>4, <2>5
<1>11. ASSUME NEW entries \in SUBSET dead, Replay(entries) PROVE Goal
  <2> DEFINE n == Cardinality(entries)
             new == nextId..(nextId + n - 1)
  <2>1. n \in 1..(MaxRows + 1 - nextId)
    BY <1>11 DEF Replay
  <2>2. PICK source \in [new -> entries] :
          rows' = [i \in RowIds |-> IF i \in new THEN NewRow(source[i].task) ELSE rows[i]]
    BY <1>11 DEF Replay
  <2>3. /\ committed' = committed /\ purged' = purged /\ delivered' = delivered
        /\ dead' = dead \ entries /\ batch' = batch
    BY <1>11 DEF Replay
  <2>4. \A i \in new : i \in RowIds /\ rows[i] = NULL
    BY <2>1, ParametersAssumption DEF RowIds, TypeOK, Structure, FreshIds
  <2>5. \A i \in new : source[i] \in dead /\ NewRow(source[i].task).task = source[i].task
    BY DEF NewRow
  <2>6. Known'
    BY <2>2, <2>3, <2>5 DEF Known
  <2>7. ASSUME NEW t \in Tasks PROVE StepOf(t)
    <3>1. Queued(t) => Queued(t)'
      BY <2>2, <2>4 DEF Queued, Present
    <3>2. Queued(t)' => Queued(t) \/ Dead(t)
      BY <2>2, <2>5 DEF Queued, Present, Dead
    <3>3. Dead(t)' => Dead(t)
      BY <2>3 DEF Dead
    <3> QED
      BY <2>3, <3>1, <3>2, <3>3 DEF StepOf
  <2> QED
    BY <2>6, <2>7
<1>12. ASSUME NEW entries \in SUBSET dead, Purge(entries) PROVE Goal
  <2>1. /\ rows' = rows /\ batch' = batch /\ committed' = committed /\ delivered' = delivered
        /\ dead' = dead \ entries /\ purged' = purged \cup {d.task : d \in entries}
    BY <1>12 DEF Purge
  <2>2. Known'
    BY <2>1 DEF Known
  <2>3. \A t \in Tasks : Queued(t)' <=> Queued(t)
    BY <2>1 DEF Queued, Present
  <2>4. \A t \in Tasks : /\ Dead(t)' => Dead(t)
                         /\ t \in purged' => t \in purged \/ Dead(t)
    BY <2>1 DEF Dead
  <2> QED
    BY <2>1, <2>2, <2>3, <2>4 DEF StepOf
<1> QED
  BY <1>1, <1>2, <1>3, <1>4, <1>5, <1>6, <1>7, <1>8, <1>9, <1>10, <1>11, <1>12
  DEF Next, RelayStep, Disturbance, IterationFails, Crash, Operator

-------------------------------------------------------------------------------
(* From steps of the tables to moves of the contract. *)

LEMMA StatusMoves ==
    ASSUME TypeOK, TypeOK', Known, NoTaskLost, NoTaskLost', NEW t \in Tasks, StepOf(t),
           delivered[t] > 0 => delivered'[t] > 0
    PROVE  /\ Status(t)' \in Contract!Statuses
           /\ Status(t)' = Status(t) \/ <<Status(t), Status(t)'>> \in Contract!Moves
<1>1. delivered[t] \in Nat /\ delivered'[t] \in Nat
  <2>1. delivered \in [Tasks -> 0..2] /\ delivered' \in [Tasks -> 0..2]
    BY DEF TypeOK
  <2> QED
    BY <2>1
<1> USE DEF Contract!Statuses, Contract!Moves
<1>2. /\ Dead(t) => t \in committed
      /\ Queued(t) => t \in committed
      /\ t \in purged => t \in committed
  BY DEF Known, Dead, Queued, Present
<1>3. t \in committed' => Queued(t)' \/ Dead(t)' \/ delivered'[t] > 0 \/ t \in purged'
  BY DEF NoTaskLost
<1>4. Status(t)' \in Contract!Statuses
  BY <1>1, <1>3 DEF Status
<1>5. CASE delivered[t] > 0
  BY <1>1, <1>5 DEF Status
<1>6. CASE delivered[t] = 0 /\ Queued(t)
  BY <1>1, <1>2, <1>3, <1>6 DEF Status, StepOf
<1>7. CASE delivered[t] = 0 /\ ~Queued(t) /\ Dead(t)
  BY <1>1, <1>2, <1>3, <1>7 DEF Status, StepOf
<1>8. CASE delivered[t] = 0 /\ ~Queued(t) /\ ~Dead(t) /\ t \in purged
  BY <1>1, <1>2, <1>3, <1>8 DEF Status, StepOf
<1>9. CASE delivered[t] = 0 /\ ~Queued(t) /\ ~Dead(t) /\ t \notin purged /\ t \notin committed
  BY <1>1, <1>2, <1>3, <1>9 DEF Status, StepOf
<1>10. CASE delivered[t] = 0 /\ ~Queued(t) /\ ~Dead(t) /\ t \notin purged /\ t \in committed
  BY <1>1, <1>10 DEF NoTaskLost
<1> QED
  BY <1>1, <1>4, <1>5, <1>6, <1>7, <1>8, <1>9, <1>10

KnownInv == Inv /\ Known

LEMMA KnownInvariance == Spec => []KnownInv
<1>1. Init => KnownInv
  BY InitInv DEF Init, KnownInv, Known, NoBatch
<1>2. KnownInv /\ [Next]_vars => KnownInv'
  BY NextInv, NextKnown DEF KnownInv, Inv, Structure
<1> QED
  BY <1>1, <1>2, PTL DEF Spec

LEMMA InitContract == Init => Contract!Init
BY DEF Init, Contract!Init, Status, Queued, Present, Dead

LEMMA NextContract ==
    KnownInv /\ KnownInv' /\ [Next]_vars
    => [Contract!Move]_([t \in Tasks |-> Status(t)])
<1> SUFFICES ASSUME KnownInv, KnownInv', [Next]_vars PROVE Contract!Move
  OBVIOUS
<1>1. \A t \in Tasks : StepOf(t) /\ (delivered[t] > 0 => delivered'[t] > 0)
  BY NextKnown, DeliveredGrows DEF KnownInv, Inv, Structure
<1>2. \A t \in Tasks :
         /\ Status(t)' \in Contract!Statuses
         /\ Status(t)' = Status(t) \/ <<Status(t), Status(t)'>> \in Contract!Moves
  BY <1>1, StatusMoves DEF KnownInv, Inv
<1> QED
  BY <1>2 DEF Contract!Move

\* The tables and relays implement the delivery contract: from any number of
\* relays, restarts and operator commands a producer sees only the permitted
\* moves of its task between outbox, dead-letter table and broker.
THEOREM ContractIsKept == Spec => KeepsContract
<1>1. Init => Contract!Init
  BY InitContract
<1>2. KnownInv /\ KnownInv' /\ [Next]_vars
      => [Contract!Move]_([t \in Tasks |-> Status(t)])
  BY NextContract
<1> QED
  BY <1>1, <1>2, KnownInvariance, PTL DEF Spec, KeepsContract, Contract!Spec
-------------------------------------------------------------------------------
(* Copies of a task. *)

RowOf(t, i) == rows[i] # NULL /\ rows[i].task = t

MessageOf(t, r, i) == batch[r][i] # NULL /\ batch[r][i].task = t

Published(t, r, i) == MessageOf(t, r, i) /\ batch[r][i].group = "published"

\* A task that is not excused has one row at most, which is held by one relay at
\* most; and once the broker has the task, the row is waiting for its deletion.
OneCopy(t) ==
    /\ \A i, j \in RowIds : RowOf(t, i) /\ RowOf(t, j) => i = j
    /\ \A r \in Relays, i \in RowIds : MessageOf(t, r, i) => RowOf(t, i)
    /\ \A r, s \in Relays, i \in RowIds : MessageOf(t, r, i) /\ MessageOf(t, s, i) => r = s
    /\ delivered[t] > 0 => t \in committed
    /\ delivered[t] <= 1
    /\ delivered[t] = 1 =>
          \A i \in RowIds : RowOf(t, i) => \E r \in Relays : Published(t, r, i)

IdleHoldNothing == \A r \in Relays : pc[r] \in {"ready", "down"} => \A i \in RowIds : batch[r][i] = NULL

\* What makes DuplicatesExplained inductive.
CopiesInv == IdleHoldNothing /\ \A t \in Tasks : t \notin excused => OneCopy(t)

LEMMA NextIdle ==
    ASSUME TypeOK, IdleHoldNothing, [Next]_vars
    PROVE  IdleHoldNothing'
<1> USE DEF IdleHoldNothing
<1>1. ASSUME NEW r \in Relays, Select(r) \/ MarkInFlight(r) \/ Record(r) PROVE IdleHoldNothing'
  BY <1>1 DEF Select, MarkInFlight, Record, TypeOK
<1>2. ASSUME NEW r \in Relays, Process(r) PROVE IdleHoldNothing'
  <2>1. pc' = pc
    BY <1>2 DEF Process, PreExceeded, PublishSucceeds, PublishFails, PublishMeetsOutage, Publishing
  <2> QED
    BY <1>2, <2>1, ProcessKeepsMessages
<1>3. ASSUME NEW r \in Relays, CutBatch(r) PROVE IdleHoldNothing'
  BY <1>3 DEF CutBatch, TypeOK
<1>4. ASSUME NEW r \in Relays, batch' = [batch EXCEPT ![r] = NoBatch],
             \E l \in {"ready", "down"} : pc' = [pc EXCEPT ![r] = l]
      PROVE  IdleHoldNothing'
  BY <1>4 DEF TypeOK, NoBatch
<1>5. ASSUME NEW r \in Relays, Commit(r) \/ IterationFails(r) \/ Crash(r) PROVE IdleHoldNothing'
  BY <1>4, <1>5 DEF Commit, IterationFails, Crash, Forget
<1>6. ASSUME NEW r \in Relays, Restart(r) PROVE IdleHoldNothing'
  BY <1>6 DEF Restart, TypeOK
<1>7. ASSUME UNCHANGED <<pc, batch>> PROVE IdleHoldNothing'
  BY <1>7
<1> QED
  BY <1>1, <1>2, <1>3, <1>5, <1>6, <1>7
  DEF Next, RelayStep, Disturbance, Operator, Enqueue, ResetRetries, Replay, Purge, Tick, vars

\* A step that makes no row and no message of a task, lets no row go that is held,
\* and no message that is published, unless its row goes too.
LEMMA QuietCopies ==
    ASSUME TypeOK, NEW t \in Tasks, OneCopy(t),
           delivered'[t] = delivered[t], committed \subseteq committed',
           \A i \in RowIds : RowOf(t, i)' => RowOf(t, i),
           \A r \in Relays, i \in RowIds :
              MessageOf(t, r, i)' => MessageOf(t, r, i) /\ RowOf(t, i)',
           \A r \in Relays, i \in RowIds :
              Published(t, r, i) /\ RowOf(t, i)' => Published(t, r, i)'
    PROVE  OneCopy(t)'
<1> USE DEF OneCopy
<1>1. delivered[t] \in Nat
  BY DEF TypeOK
<1>2. \A i, j \in RowIds : RowOf(t, i)' /\ RowOf(t, j)' => i = j
  OBVIOUS
<1>3. \A r, s \in Relays, i \in RowIds : MessageOf(t, r, i)' /\ MessageOf(t, s, i)' => r = s
  OBVIOUS
<1>4. delivered'[t] = 1 =>
          \A i \in RowIds : RowOf(t, i)' => \E r \in Relays : Published(t, r, i)'
  OBVIOUS
<1> QED
  BY <1>1, <1>2, <1>3, <1>4

\* What is published stays so until the second transaction.
LEMMA ProcessKeepsPublished ==
    ASSUME TypeOK, NEW r \in Relays, Process(r)
    PROVE  \A s \in Relays, j \in RowIds :
              batch[s][j] # NULL /\ batch[s][j].group = "published" => batch'[s][j] = batch[s][j]
<1> DEFINE Kept == \A s \in Relays, j \in RowIds :
                      batch[s][j] # NULL /\ batch[s][j].group = "published"
                      => batch'[s][j] = batch[s][j]
<1>1. ASSUME NEW i \in RowIds, NEW g, Publishing(r, i), Put(r, i, g)
      PROVE  Kept
  BY <1>1 DEF Publishing, Unclassified, Group, Put, TypeOK
<1>2. ASSUME NEW i \in RowIds, PreExceeded(r, i) \/ PublishSucceeds(r, i) \/ PublishFails(r, i)
      PROVE  Kept
  BY <1>1, <1>2 DEF PreExceeded, PublishSucceeds, PublishFails
<1>3. ASSUME NEW i \in RowIds, NEW trips \in BOOLEAN, PublishMeetsOutage(r, i, trips)
      PROVE  Kept
  BY <1>3 DEF PublishMeetsOutage, Publishing, Unclassified, Group, TypeOK
<1> QED
  BY <1>2, <1>3 DEF Process

LEMMA NextCopies ==
    ASSUME TypeOK, TypeOK', Structure, Known, CopiesInv, [Next]_vars,
           NEW t \in Tasks, t \notin excused'
    PROVE  OneCopy(t)'
<1> USE DEF tables, history
<1>a. t \notin excused => OneCopy(t)
  BY DEF CopiesInv
<1>b. \A r \in Relays, i \in RowIds : MessageOf(t, r, i) => t \in committed
  BY DEF Known, MessageOf
<1>c. \A i \in RowIds : RowOf(t, i) => t \in committed
  BY DEF Known, RowOf
<1>1. ASSUME RowsKept, batch' = batch, UNCHANGED <<delivered, committed, excused>>
      PROVE  OneCopy(t)'
  <2>1. \A i \in RowIds : RowOf(t, i)' <=> RowOf(t, i)
    BY <1>1 DEF RowsKept, RowOf
  <2>2. \A r \in Relays, i \in RowIds : /\ MessageOf(t, r, i)' <=> MessageOf(t, r, i)
                                        /\ Published(t, r, i)' <=> Published(t, r, i)
    BY <1>1 DEF MessageOf, Published
  <2>3. \A r \in Relays, i \in RowIds : MessageOf(t, r, i) => RowOf(t, i)
    BY <1>1, <1>a DEF OneCopy
  <2> QED
    BY <1>1, <1>a, <2>1, <2>2, <2>3, QuietCopies
<1>2. ASSUME NEW u \in Tasks, Enqueue(u) PROVE OneCopy(t)'
  <2>1. nextId \in RowIds /\ rows[nextId] = NULL
    BY <1>2 DEF Enqueue, Structure, FreshIds, TypeOK
  <2>2. \A i \in RowIds : rows'[i] = IF i = nextId THEN NewRow(u) ELSE rows[i]
    BY <1>2 DEF Enqueue, TypeOK
  <2>3. NewRow(u) # NULL /\ NewRow(u).task = u
    BY NewRowType, NullAssumption DEF NewRow
  <2>4. /\ committed' = committed \cup {u} /\ u \notin committed
        /\ UNCHANGED <<batch, delivered, excused>>
    BY <1>2 DEF Enqueue
  <2>5. OneCopy(t)
    BY <1>a, <2>4
  <2>6. \A r \in Relays, i \in RowIds : /\ MessageOf(t, r, i)' <=> MessageOf(t, r, i)
                                        /\ Published(t, r, i)' <=> Published(t, r, i)
    BY <2>4 DEF MessageOf, Published
  <2>7. \A i \in RowIds : RowOf(t, i)' <=> RowOf(t, i) \/ (t = u /\ i = nextId)
    BY <2>1, <2>2, <2>3 DEF RowOf
  <2>8. CASE t # u
    <3>1. \A r \in Relays, i \in RowIds : MessageOf(t, r, i)' => MessageOf(t, r, i) /\ RowOf(t, i)'
      BY <2>5, <2>6, <2>7 DEF OneCopy
    <3> QED
      BY <2>4, <2>5, <2>6, <2>7, <2>8, <3>1, QuietCopies
  <2>9. CASE t = u
    <3>1. /\ \A i \in RowIds : RowOf(t, i)' <=> i = nextId
          /\ \A r \in Relays, i \in RowIds : ~MessageOf(t, r, i)'
      BY <1>b, <1>c, <2>4, <2>6, <2>7, <2>9
    <3>2. delivered'[t] = 0
      BY <2>4, <2>5, <2>9 DEF OneCopy, TypeOK
    <3> QED
      BY <3>1, <3>2 DEF OneCopy
  <2> QED
    BY <2>8, <2>9
<1>3. ASSUME NEW r \in Relays, Select(r) PROVE OneCopy(t)'
  <2> DEFINE chosen == FirstOf(Candidates(r))
  <2>1. \A i \in chosen : i \in RowIds /\ rows[i] # NULL
    BY DEF FirstOf, Candidates, Pending
  <2>2. \A i \in RowIds : batch'[r][i] = IF i \in chosen
                            THEN [task |-> rows[i].task, retries |-> rows[i].retries,
                                  wait |-> rows[i].wait, group |-> "none"]
                            ELSE NULL
    BY <1>3 DEF Select, TypeOK
  <2>3. /\ \A s \in Relays \ {r} : batch'[s] = batch[s]
        /\ \A i \in RowIds : batch[r][i] = NULL
        /\ UNCHANGED <<rows, delivered, committed>>
    BY <1>3 DEF Select, TypeOK, CopiesInv, IdleHoldNothing
  <2>4. \A i \in chosen : RowOf(t, i) => \A s \in Relays : batch[s][i] = NULL
    <3>1. \A i \in chosen : (\E s \in Relays : Holds(s, i)) => rows[i].task \in excused'
      BY <1>3 DEF Select, Excuse
    <3> QED
      BY <3>1 DEF RowOf, Holds
  <2>5. OneCopy(t)
    BY <1>3, <1>a DEF Select, Excuse
  <2>6. \A i \in RowIds : RowOf(t, i)' <=> RowOf(t, i)
    BY <2>3 DEF RowOf
  <2>7. \A s \in Relays, i \in RowIds : MessageOf(t, s, i)' <=>
            MessageOf(t, s, i) \/ (s = r /\ i \in chosen /\ RowOf(t, i))
    <3>1. ASSUME NEW i \in RowIds PROVE MessageOf(t, r, i)' <=> i \in chosen /\ RowOf(t, i)
      <4>1. CASE i \in chosen
        <5>1. batch'[r][i] = [task |-> rows[i].task, retries |-> rows[i].retries,
                              wait |-> rows[i].wait, group |-> "none"]
          BY <2>2, <4>1
        <5>2. batch'[r][i].task = rows[i].task
          BY <5>1
        <5>3. batch'[r][i] \in Message
          BY <2>1, <4>1, <5>1 DEF Message, TypeOK, Row, Groups
        <5>4. batch'[r][i] # NULL
          BY <5>3, NullAssumption
        <5> QED
          BY <2>1, <4>1, <5>2, <5>4 DEF MessageOf, RowOf
      <4>2. CASE i \notin chosen
        BY <2>2, <4>2 DEF MessageOf
      <4> QED
        BY <4>1, <4>2
    <3>2. \A i \in RowIds : ~MessageOf(t, r, i)
      BY <2>3 DEF MessageOf
    <3>3. \A s \in Relays \ {r}, i \in RowIds : MessageOf(t, s, i)' <=> MessageOf(t, s, i)
      BY <2>3 DEF MessageOf
    <3> QED
      BY <3>1, <3>2, <3>3
  <2>8. \A s \in Relays, i \in RowIds : Published(t, s, i) => Published(t, s, i)'
    BY <2>3 DEF Published, MessageOf
  <2>9. \A s, q \in Relays, i \in RowIds : MessageOf(t, s, i)' /\ MessageOf(t, q, i)' => s = q
    BY <2>4, <2>5, <2>7 DEF OneCopy, MessageOf
  <2>10. \A s \in Relays, i \in RowIds : MessageOf(t, s, i)' => RowOf(t, i)'
    BY <2>5, <2>6, <2>7 DEF OneCopy
  <2> QED
    BY <2>3, <2>5, <2>6, <2>8, <2>9, <2>10 DEF OneCopy
<1>4. ASSUME NEW r \in Relays, MarkInFlight(r) PROVE OneCopy(t)'
  BY <1>1, <1>4, MarkKeepsRows DEF MarkInFlight, Structure
<1>5. ASSUME NEW r \in Relays, Process(r) PROVE OneCopy(t)'
  <2>1. PICK i \in RowIds : \/ PreExceeded(r, i) \/ PublishSucceeds(r, i) \/ PublishFails(r, i)
                            \/ \E trips \in BOOLEAN : PublishMeetsOutage(r, i, trips)
    BY <1>5 DEF Process
  <2>2. Publishing(r, i) /\ batch[r][i] # NULL /\ batch[r][i].group = "none"
        /\ batch[r][i].task \in Tasks
    BY <2>1 DEF PreExceeded, PublishSucceeds, PublishFails, PublishMeetsOutage, Publishing,
                Unclassified, Group, Batch, Holds, TypeOK, Message
  <2>3. UNCHANGED <<rows, committed>> /\ excused \subseteq excused'
    BY <2>1, <2>2 DEF Publishing, PreExceeded, PublishSucceeds, PublishFails, PublishMeetsOutage,
                AmbiguousSend, Excuse
  <2>4. OneCopy(t)
    BY <1>a, <2>3
  <2>5. \A j \in RowIds : RowOf(t, j)' <=> RowOf(t, j)
    BY <2>3 DEF RowOf
  <2>6. \A s \in Relays, j \in RowIds : /\ MessageOf(t, s, j)' => MessageOf(t, s, j)
                                        /\ Published(t, s, j) => Published(t, s, j)'
    BY <1>5, ProcessKeepsMessages, ProcessKeepsPublished DEF MessageOf, Published
  <2>7. \A s \in Relays, j \in RowIds : MessageOf(t, s, j)' => RowOf(t, j)'
    BY <2>4, <2>5, <2>6 DEF OneCopy
  <2>8. CASE delivered'[t] = delivered[t]
    BY <2>3, <2>4, <2>5, <2>6, <2>7, <2>8, QuietCopies
  <2>9. CASE delivered'[t] # delivered[t]
    <3>1. PublishSucceeds(r, i) /\ t = batch[r][i].task
      BY <2>1, <2>2, <2>9 DEF PreExceeded, PublishSucceeds, PublishFails, PublishMeetsOutage,
                AmbiguousSend, Excuse, Delivered, TypeOK
    <3>2. MessageOf(t, r, i) /\ ~Published(t, r, i)
      BY <2>2, <3>1 DEF MessageOf, Published
    <3>3. delivered[t] = 0
      <4>1. delivered[t] # 1
        BY <2>4, <3>2 DEF OneCopy, Published
      <4> QED
        BY <2>4, <4>1 DEF OneCopy, TypeOK
    <3>4. delivered'[t] = 1
      BY <3>1, <3>3 DEF PublishSucceeds, Delivered, TypeOK, Lesser
    <3>5. Published(t, r, i)'
      <4>1. batch[r][i] \in Message
        BY <2>2 DEF TypeOK
      <4>2. batch'[r][i] = [batch[r][i] EXCEPT !.group = "published"]
        BY <3>1 DEF PublishSucceeds, Put, TypeOK
      <4>3. batch'[r][i].task = t /\ batch'[r][i].group = "published"
        BY <3>1, <4>1, <4>2 DEF Message
      <4>4. batch'[r][i] \in Message
        BY <4>1, <4>2 DEF Message, Groups
      <4> QED
        BY <4>3, <4>4, NullAssumption DEF Published, MessageOf
    <3>6. \A j \in RowIds : RowOf(t, j)' => j = i
      BY <2>4, <2>5, <3>2 DEF OneCopy
    <3>7. t \in committed
      BY <1>b, <3>2
    <3> QED
      BY <2>3, <2>4, <2>5, <2>6, <2>7, <3>4, <3>5, <3>6, <3>7 DEF OneCopy
  <2> QED
    BY <2>8, <2>9
<1>6. ASSUME NEW r \in Relays, CutBatch(r) PROVE OneCopy(t)'
  <2>1. UNCHANGED <<rows, committed, delivered, excused>>
    BY <1>6 DEF CutBatch
  <2>2. \A s \in Relays, j \in RowIds : /\ batch'[s][j] # NULL => batch'[s][j] = batch[s][j]
                                        /\ batch'[s][j] # batch[s][j] => batch[s][j].group = "none"
    BY <1>6 DEF CutBatch, Unclassified, Group, TypeOK
  <2>3. \A s \in Relays, j \in RowIds : /\ MessageOf(t, s, j)' => MessageOf(t, s, j)
                                        /\ Published(t, s, j) => Published(t, s, j)'
    BY <2>2 DEF MessageOf, Published
  <2>4. \A j \in RowIds : RowOf(t, j)' <=> RowOf(t, j)
    BY <2>1 DEF RowOf
  <2>5. \A s \in Relays, j \in RowIds : MessageOf(t, s, j)' => RowOf(t, j)'
    BY <1>a, <2>1, <2>3, <2>4 DEF OneCopy
  <2> QED
    BY <1>a, <2>1, <2>3, <2>4, <2>5, QuietCopies
<1>7. ASSUME NEW r \in Relays, Record(r) PROVE OneCopy(t)'
  BY <1>1, <1>7 DEF Record, RowsKept
<1>8. ASSUME NEW r \in Relays, Commit(r) PROVE OneCopy(t)'
  <2>1. PICK jitter : Settle(r, jitter)
    BY <1>8 DEF Commit
  <2>2. /\ UNCHANGED <<committed, delivered, excused>>
        /\ \A s \in Relays \ {r} : batch'[s] = batch[s]
        /\ \A i \in RowIds : batch'[r][i] = NULL
    BY <1>8 DEF Commit, NoBatch, TypeOK
  <2>3. OneCopy(t)
    BY <1>a, <2>2
  <2>4. \A i \in RowIds : /\ RowOf(t, i)' => RowOf(t, i) /\ i \notin Deleted(r)
                          /\ RowOf(t, i) /\ i \notin Deleted(r) => RowOf(t, i)'
    BY <2>1, SettleRows DEF RowOf
  <2>5. \A s \in Relays, i \in RowIds : /\ MessageOf(t, s, i)' => MessageOf(t, s, i) /\ s # r
                                        /\ s # r /\ Published(t, s, i) => Published(t, s, i)'
    BY <2>2 DEF MessageOf, Published
  <2>6. \A i \in Deleted(r) : i \in RowIds /\ (RowOf(t, i) => MessageOf(t, r, i))
    BY DEF Deleted, Group, Batch, Holds, RowOf, MessageOf, Structure, SameTask
  <2>7. \A s \in Relays, i \in RowIds : MessageOf(t, s, i)' => RowOf(t, i)'
    BY <2>3, <2>4, <2>5, <2>6 DEF OneCopy
  <2>8. \A i \in RowIds : Published(t, r, i) => i \in Deleted(r)
    BY DEF Published, MessageOf, Deleted, Group, Batch, Holds
  <2>9. \A s \in Relays, i \in RowIds : Published(t, s, i) /\ RowOf(t, i)' => Published(t, s, i)'
    BY <2>4, <2>5, <2>8
  <2> QED
    BY <2>2, <2>3, <2>4, <2>5, <2>7, <2>9, QuietCopies
<1>9. ASSUME NEW r \in Relays, Forget(r) PROVE OneCopy(t)'
  <2>1. /\ UNCHANGED <<rows, committed, delivered>>
        /\ \A s \in Relays \ {r} : batch'[s] = batch[s]
        /\ \A i \in RowIds : batch'[r][i] = NULL
        /\ excused' = excused \cup TasksOf(r, Group(r, "published"))
    BY <1>9 DEF Forget, NoBatch, Excuse, TypeOK
  <2>2. OneCopy(t)
    BY <1>a, <2>1
  <2>3. \A i \in RowIds : ~Published(t, r, i)
    BY <2>1 DEF TasksOf, Group, Batch, Holds, Published, MessageOf
  <2>4. \A i \in RowIds : RowOf(t, i)' <=> RowOf(t, i)
    BY <2>1 DEF RowOf
  <2>5. \A s \in Relays, i \in RowIds : /\ MessageOf(t, s, i)' => MessageOf(t, s, i)
                                        /\ Published(t, s, i) => Published(t, s, i)'
    BY <2>1, <2>3 DEF MessageOf, Published
  <2>6. \A s \in Relays, i \in RowIds : MessageOf(t, s, i)' => RowOf(t, i)'
    BY <2>2, <2>4, <2>5 DEF OneCopy
  <2> QED
    BY <2>1, <2>2, <2>4, <2>5, <2>6, QuietCopies
<1>10. ASSUME NEW r \in Relays, Restart(r) PROVE OneCopy(t)'
  BY <1>1, <1>10 DEF Restart, RowsKept
<1>11. ASSUME NEW ids \in SUBSET Present, ResetRetries(ids) PROVE OneCopy(t)'
  BY <1>1, <1>11, ResetKeepsRows DEF ResetRetries
<1>12. ASSUME NEW entries \in SUBSET dead, Replay(entries) PROVE OneCopy(t)'
  <2> DEFINE n == Cardinality(entries)
             new == nextId..(nextId + n - 1)
  <2>1. n \in 1..(MaxRows + 1 - nextId)
    BY <1>12 DEF Replay
  <2>2. PICK source \in [new -> entries] :
          rows' = [i \in RowIds |-> IF i \in new THEN NewRow(source[i].task) ELSE rows[i]]
    BY <1>12 DEF Replay
  <2>3. /\ UNCHANGED <<committed, delivered, batch>>
        /\ excused' = excused \cup {d.task : d \in entries}
    BY <1>12 DEF Replay, Excuse
  <2>4. \A i \in new : i \in RowIds /\ rows[i] = NULL
    <3>1. nextId \in Nat /\ MaxRows \in Nat /\ n \in Nat
      BY <2>1, ParametersAssumption DEF TypeOK
    <3>2. \A i \in new : i \in 1..MaxRows /\ i >= nextId
      BY <2>1, <3>1 DEF TypeOK
    <3> QED
      BY <3>2 DEF RowIds, Structure, FreshIds
  <2>5. \A i \in new : NewRow(source[i].task).task # t
    BY <2>3 DEF NewRow
  <2>6. OneCopy(t)
    BY <1>a, <2>3
  <2>7. \A i \in RowIds : RowOf(t, i)' <=> RowOf(t, i)
    BY <2>2, <2>4, <2>5 DEF RowOf
  <2>8. \A s \in Relays, i \in RowIds : /\ MessageOf(t, s, i)' <=> MessageOf(t, s, i)
                                        /\ Published(t, s, i)' <=> Published(t, s, i)
    BY <2>3 DEF MessageOf, Published
  <2>9. \A s \in Relays, i \in RowIds : MessageOf(t, s, i)' => RowOf(t, i)'
    BY <2>6, <2>7, <2>8 DEF OneCopy
  <2> QED
    BY <2>3, <2>6, <2>7, <2>8, <2>9, QuietCopies
<1>13. ASSUME NEW entries \in SUBSET dead, Purge(entries) PROVE OneCopy(t)'
  BY <1>1, <1>13 DEF Purge, RowsKept
<1>14. ASSUME Tick PROVE OneCopy(t)'
  BY <1>1, <1>14, TickKeepsRows DEF Tick
<1>15. CASE UNCHANGED vars
  BY <1>1, <1>15 DEF vars, RowsKept
<1> QED
  BY <1>2, <1>3, <1>4, <1>5, <1>6, <1>7, <1>8, <1>9, <1>10, <1>11, <1>12, <1>13, <1>14, <1>15
  DEF Next, RelayStep, Disturbance, IterationFails, Crash, Operator

\* For any number of relays, rows, crashes and operators: the broker gets a task twice
\* only where a batch was lost after a send, a held row was claimed again, a send's
\* answer was lost, or the task was replayed.
THEOREM DuplicatesAreExplained == Spec => []DuplicatesExplained
<1>1. Init => CopiesInv
  BY DEF Init, CopiesInv, IdleHoldNothing, OneCopy, RowOf, MessageOf, NoBatch
<1>2. KnownInv /\ KnownInv' /\ CopiesInv /\ [Next]_vars => CopiesInv'
  BY NextIdle, NextCopies DEF CopiesInv, KnownInv, Inv, Structure
<1>3. KnownInv /\ CopiesInv => DuplicatesExplained
  <2> SUFFICES ASSUME KnownInv, CopiesInv, NEW t \in Tasks, delivered[t] > 1, t \notin excused
               PROVE  FALSE
    BY DEF DuplicatesExplained
  <2>1. OneCopy(t) /\ delivered[t] \in Nat
    BY DEF CopiesInv, KnownInv, Inv, TypeOK
  <2> QED
    BY <2>1 DEF OneCopy
<1> QED
  BY <1>1, <1>2, <1>3, KnownInvariance, PTL DEF Spec

-------------------------------------------------------------------------------
(***************************************************************************)
(* Who has been told of the dead letters, who holds the rows, and what      *)
(* their retries have been spent on.                                       *)
(***************************************************************************)

\* A relay whose second transaction is open has announced what it dead-letters.
AnnouncedFirst == \A r \in Relays : pc[r] = "recording" => Group(r, "exceeded") \subseteq announced

\* What makes DeadIsAnnounced inductive.
AnnounceInv == AnnouncedFirst /\ DeadIsAnnounced

\* A relay's own steps before its commit touch no dead letter, and no batch of a
\* relay that is recording.
LEMMA QuietAnnounce ==
    ASSUME AnnounceInv, dead' \subseteq dead, announced \subseteq announced',
           \A s \in Relays : pc'[s] = "recording" => pc[s] = "recording" /\ batch'[s] = batch[s]
    PROVE  AnnounceInv'
<1>1. DeadIsAnnounced'
  BY DEF AnnounceInv, DeadIsAnnounced
<1>2. AnnouncedFirst'
  BY DEF AnnounceInv, AnnouncedFirst, Group, Batch, Holds
<1> QED
  BY <1>1, <1>2 DEF AnnounceInv

LEMMA InitAnnounce == Init => AnnounceInv
BY DEF Init, AnnounceInv, AnnouncedFirst, DeadIsAnnounced

LEMMA NextAnnounce ==
    ASSUME TypeOK, AnnounceInv, [Next]_vars
    PROVE  AnnounceInv'
<1> USE DEF tables, history
<1> DEFINE Quiet == /\ dead' \subseteq dead
                    /\ announced \subseteq announced'
                    /\ \A s \in Relays : pc'[s] = "recording" =>
                          pc[s] = "recording" /\ batch'[s] = batch[s]
<1>0. Quiet => AnnounceInv'
  BY QuietAnnounce
<1>1. ASSUME NEW t \in Tasks, Enqueue(t) PROVE Quiet
  BY <1>1 DEF Enqueue
<1>2. ASSUME NEW r \in Relays, Select(r) PROVE Quiet
  BY <1>2 DEF Select, TypeOK
<1>3. ASSUME NEW r \in Relays, MarkInFlight(r) PROVE Quiet
  BY <1>3 DEF MarkInFlight, TypeOK
<1>4. ASSUME NEW r \in Relays, Process(r) PROVE Quiet
  <2>1. /\ pc[r] = "publishing"
        /\ UNCHANGED <<pc, dead, announced>>
        /\ \A s \in Relays \ {r} : batch'[s] = batch[s]
    BY <1>4 DEF Process, PreExceeded, PublishSucceeds, PublishFails, PublishMeetsOutage,
                Publishing, Put, TypeOK
  <2> QED
    BY <2>1
<1>5. ASSUME NEW r \in Relays, CutBatch(r) PROVE Quiet
  BY <1>5 DEF CutBatch, TypeOK
<1>6. ASSUME NEW r \in Relays, Record(r) PROVE AnnounceInv'
  <2>1. /\ dead' = dead /\ batch' = batch
        /\ announced' = announced \cup Group(r, "exceeded")
        /\ \A s \in Relays \ {r} : pc'[s] = pc[s]
    BY <1>6 DEF Record, TypeOK
  <2>2. \A s \in Relays : Group(s, "exceeded")' = Group(s, "exceeded")
    BY <2>1 DEF Group, Batch, Holds
  <2>3. AnnouncedFirst'
    BY <2>1, <2>2 DEF AnnounceInv, AnnouncedFirst
  <2>4. DeadIsAnnounced'
    BY <2>1 DEF AnnounceInv, DeadIsAnnounced
  <2> QED
    BY <2>3, <2>4 DEF AnnounceInv
<1>7. ASSUME NEW r \in Relays, Commit(r) PROVE AnnounceInv'
  <2>1. /\ pc[r] = "recording" /\ pc'[r] = "ready"
        /\ \A s \in Relays \ {r} : pc'[s] = pc[s] /\ batch'[s] = batch[s]
        /\ announced' = announced
        /\ dead' = dead \cup DeadLettersOf(r)
    BY <1>7 DEF Commit, Settle, TypeOK
  <2>2. \A d \in DeadLettersOf(r) : d.row \in announced
    BY <2>1 DEF AnnounceInv, AnnouncedFirst, DeadLettersOf
  <2>3. DeadIsAnnounced'
    BY <2>1, <2>2 DEF AnnounceInv, DeadIsAnnounced
  <2>4. AnnouncedFirst'
    <3> SUFFICES ASSUME NEW s \in Relays, pc'[s] = "recording"
                 PROVE  Group(s, "exceeded")' \subseteq announced'
      BY DEF AnnouncedFirst
    <3>1. s # r /\ pc[s] = "recording" /\ batch'[s] = batch[s]
      BY <2>1
    <3> QED
      BY <2>1, <3>1 DEF AnnounceInv, AnnouncedFirst, Group, Batch, Holds
  <2> QED
    BY <2>3, <2>4 DEF AnnounceInv
<1>8. ASSUME NEW r \in Relays, IterationFails(r) \/ Crash(r) PROVE Quiet
  BY <1>8 DEF IterationFails, Crash, Forget, TypeOK
<1>9. ASSUME NEW r \in Relays, Restart(r) PROVE Quiet
  BY <1>9 DEF Restart, TypeOK
<1>10. ASSUME NEW ids \in SUBSET Present, ResetRetries(ids) PROVE Quiet
  BY <1>10 DEF ResetRetries
<1>11. ASSUME NEW entries \in SUBSET dead, Replay(entries) \/ Purge(entries) PROVE Quiet
  BY <1>11 DEF Replay, Purge
<1>12. ASSUME Tick PROVE Quiet
  BY <1>12 DEF Tick
<1>13. CASE UNCHANGED vars
  BY <1>0, <1>13 DEF vars
<1> QED
  BY <1>0, <1>1, <1>2, <1>3, <1>4, <1>5, <1>6, <1>7, <1>8, <1>9, <1>10, <1>11, <1>12, <1>13
  DEF Next, RelayStep, Disturbance, Operator

\* Receivers of outbox_message_dead_lettered have been told of every dead letter,
\* whichever relay wrote it and whatever crashed or rolled back before.
THEOREM AllAnnounced == Spec => []DeadIsAnnounced
<1>1. Init => AnnounceInv
  BY InitAnnounce
<1>2. TypeOK /\ AnnounceInv /\ [Next]_vars => AnnounceInv'
  BY NextAnnounce
<1>3. AnnounceInv => DeadIsAnnounced
  BY DEF AnnounceInv
<1> QED
  BY <1>1, <1>2, <1>3, TypesHold, PTL DEF Spec

-------------------------------------------------------------------------------
(* Claims. *)

\* Between a relay's two transactions, and in the second.
Sending == {"publishing", "recording"}

\* A relay that holds nothing has not waited with it.
IdleHoldsNothing ==
    \A r \in Relays :
        /\ pc[r] \notin Sending => held[r] = 0
        /\ pc[r] \in {"ready", "down"} => \A i \in RowIds : batch[r][i] = NULL

\* The stamp of a relay on a row that did not wait for a retry stands until the
\* relay has held the row for that long, or somebody reschedules or resets it:
\* other relays only stamp it anew.
StampStands ==
    \A r \in Relays, i \in RowIds :
        /\ pc[r] \in Sending
        /\ batch[r][i] # NULL /\ batch[r][i].wait = NULL
        /\ rows[i] # NULL /\ rows[i].wait = NULL
        /\ i \notin reset
        => rows[i].age # NULL /\ rows[i].age <= held[r]

\* What makes FirstClaimExclusive inductive.
ClaimInv == IdleHoldsNothing /\ StampStands /\ FirstClaimExclusive

\* A row that somebody holds keeps its stamp, is stamped anew, is scheduled for a
\* retry, or is reset.
StampsKept ==
    \A i \in RowIds : rows'[i] # NULL =>
        \/ \A r \in Relays : batch'[r][i] = NULL
        \/ i \in reset'
        \/ rows'[i].wait # NULL
        \/ rows'[i].age = 0
        \/ rows[i] # NULL /\ rows'[i].wait = rows[i].wait /\ rows'[i].age = rows[i].age

\* No relay takes up a message.
NothingTaken ==
    \A r \in Relays, i \in RowIds : batch'[r][i] # NULL =>
        /\ batch[r][i] # NULL /\ batch'[r][i].wait = batch[r][i].wait
        /\ held'[r] = held[r]

\* A relay is sending what it was sending, or has just stamped it.
SendingKept ==
    \A r \in Relays, i \in RowIds :
        pc'[r] \in Sending /\ batch'[r][i] # NULL /\ rows'[i] # NULL =>
            \/ /\ pc[r] \in Sending /\ batch[r][i] # NULL
               /\ batch'[r][i].wait = batch[r][i].wait
               /\ held'[r] = held[r]
            \/ rows'[i].age = 0

LEMMA QuietStamps ==
    ASSUME TypeOK, TypeOK', StampStands, StampsKept, SendingKept, reset \subseteq reset'
    PROVE  StampStands'
<1> SUFFICES ASSUME NEW r \in Relays, NEW i \in RowIds,
                    pc'[r] \in Sending,
                    batch'[r][i] # NULL, batch'[r][i].wait = NULL,
                    rows'[i] # NULL, rows'[i].wait = NULL,
                    i \notin reset'
             PROVE  rows'[i].age # NULL /\ rows'[i].age <= held'[r]
  BY DEF StampStands, Sending
<1>1. held'[r] \in Nat /\ 0 # NULL
  BY NullAssumption DEF TypeOK
<1>2. CASE rows'[i].age = 0
  BY <1>1, <1>2
<1>3. CASE rows'[i].age # 0
  <2>1. /\ pc[r] \in Sending /\ batch[r][i] # NULL
        /\ batch[r][i].wait = NULL /\ held'[r] = held[r]
    BY <1>3 DEF SendingKept
  <2>2. rows[i] # NULL /\ rows'[i].wait = rows[i].wait /\ rows'[i].age = rows[i].age
    BY <1>3 DEF StampsKept
  <2> QED
    BY <2>1, <2>2 DEF StampStands
<1> QED
  BY <1>2, <1>3

LEMMA QuietClaims ==
    ASSUME FirstClaimExclusive, NothingTaken, reset \subseteq reset'
    PROVE  FirstClaimExclusive'
BY DEF FirstClaimExclusive, NothingTaken, Holds

\* Putting a message in a group leaves what the selecting query read.
LEMMA ProcessKeepsWaits ==
    ASSUME TypeOK, NEW r \in Relays, Process(r)
    PROVE  \A s \in Relays, j \in RowIds : batch'[s][j] # NULL =>
              batch[s][j] # NULL /\ batch'[s][j].wait = batch[s][j].wait
<1> DEFINE Kept == \A s \in Relays, j \in RowIds : batch'[s][j] # NULL =>
                      batch[s][j] # NULL /\ batch'[s][j].wait = batch[s][j].wait
<1>1. ASSUME NEW i \in RowIds, NEW g \in Groups, Publishing(r, i), Put(r, i, g)
      PROVE  Kept
  <2>1. batch[r][i] \in Message
    BY <1>1 DEF Publishing, Unclassified, Group, Batch, Holds, TypeOK
  <2>2. /\ batch'[r][i] = [batch[r][i] EXCEPT !.group = g]
        /\ \A j \in RowIds \ {i} : batch'[r][j] = batch[r][j]
        /\ \A s \in Relays \ {r} : batch'[s] = batch[s]
    BY <1>1 DEF Put, TypeOK
  <2>3. batch[r][i] # NULL /\ batch'[r][i].wait = batch[r][i].wait
    BY <2>1, <2>2, NullAssumption DEF Message
  <2> QED
    BY <2>2, <2>3
<1>2. ASSUME NEW i \in RowIds, PreExceeded(r, i) PROVE Kept
  BY <1>1, <1>2 DEF PreExceeded, Groups
<1>3. ASSUME NEW i \in RowIds, PublishSucceeds(r, i) PROVE Kept
  BY <1>1, <1>3 DEF PublishSucceeds, Groups
<1>4. ASSUME NEW i \in RowIds, PublishFails(r, i) PROVE Kept
  BY <1>1, <1>4 DEF PublishFails, Groups
<1>5. ASSUME NEW i \in RowIds, NEW trips \in BOOLEAN, PublishMeetsOutage(r, i, trips)
      PROVE  Kept
  <2>1. \A j \in RowIds : j = i \/ j \in Unclassified(r) => batch[r][j] \in Message
    BY <1>5 DEF PublishMeetsOutage, Publishing, Unclassified, Group, Batch, Holds, TypeOK
  <2>2. \A j \in RowIds : batch'[r][j] =
          IF j = i \/ (trips /\ j \in Unclassified(r))
          THEN [batch[r][j] EXCEPT !.group = OutageGroup(batch[r][j])]
          ELSE batch[r][j]
    BY <1>5 DEF PublishMeetsOutage, TypeOK
  <2>3. \A j \in RowIds : batch'[r][j] # NULL =>
          batch[r][j] # NULL /\ batch'[r][j].wait = batch[r][j].wait
    BY <2>1, <2>2, NullAssumption DEF Message
  <2>4. \A s \in Relays \ {r} : batch'[s] = batch[s]
    BY <1>5 DEF PublishMeetsOutage, TypeOK
  <2> QED
    BY <2>3, <2>4
<1> QED
  BY <1>2, <1>3, <1>4, <1>5 DEF Process

\* A row that is selected is held by no relay that may still rely on its stamp.
LEMMA SelectedIsFree ==
    ASSUME TypeOK, ClaimInv, NEW r \in Relays, NEW i \in Candidates(r),
           rows[i].wait = NULL,
           NEW s \in Relays \ {r}, batch[s][i] # NULL, batch[s][i].wait = NULL
    PROVE  held[s] = StaleTimeout \/ i \in reset
<1>1. i \in RowIds /\ rows[i] # NULL /\ i \notin LockedByOthers(r)
  BY DEF Candidates, Pending
<1>2. i \notin Locks(s)
  BY <1>1 DEF LockedByOthers
<1>3. pc[s] \in Sending
  BY <1>1, <1>2 DEF ClaimInv, IdleHoldsNothing, Locks, Batch, Holds, TypeOK, Sending
<1>4. rows[i].age = NULL \/ rows[i].age = StaleTimeout
  BY NullAssumption DEF Candidates, Pending
<1>5. i \notin reset => rows[i].age # NULL /\ rows[i].age <= held[s]
  BY <1>1, <1>3 DEF ClaimInv, StampStands
<1>6. held[s] \in 0..StaleTimeout
  BY DEF TypeOK
<1> QED
  BY <1>4, <1>5, <1>6, ParametersAssumption

LEMMA SelectClaims ==
    ASSUME TypeOK, TypeOK', ClaimInv, NEW r \in Relays, Select(r)
    PROVE  ClaimInv'
<1>1. /\ pc[r] = "ready" /\ pc'[r] = "claiming"
      /\ \A s \in Relays \ {r} : pc'[s] = pc[s] /\ batch'[s] = batch[s]
      /\ rows' = rows /\ held' = held /\ reset' = reset
      /\ \A i \in RowIds : batch'[r][i] # NULL =>
            i \in Candidates(r) /\ batch'[r][i].wait = rows[i].wait
  BY DEF Select, FirstOf, TypeOK, tables
<1>2. IdleHoldsNothing'
  <2> SUFFICES ASSUME NEW s \in Relays
               PROVE  /\ pc'[s] \notin Sending => held'[s] = 0
                      /\ pc'[s] \in {"ready", "down"} => \A i \in RowIds : batch'[s][i] = NULL
    BY DEF IdleHoldsNothing, Sending
  <2>1. CASE s = r
    BY <1>1, <2>1 DEF ClaimInv, IdleHoldsNothing, Sending
  <2>2. CASE s # r
    BY <1>1, <2>2 DEF ClaimInv, IdleHoldsNothing
  <2> QED
    BY <2>1, <2>2
<1>3. StampStands'
  <2>1. SendingKept
    <3> SUFFICES ASSUME NEW s \in Relays, NEW i \in RowIds, pc'[s] \in Sending,
                        batch'[s][i] # NULL
                 PROVE  /\ pc[s] \in Sending /\ batch[s][i] # NULL
                        /\ batch'[s][i].wait = batch[s][i].wait
                        /\ held'[s] = held[s]
      BY DEF SendingKept
    <3>1. s # r
      BY <1>1 DEF Sending
    <3> QED
      BY <1>1, <3>1
  <2>2. StampsKept
    BY <1>1 DEF StampsKept
  <2> QED
    BY <1>1, <2>1, <2>2, QuietStamps DEF ClaimInv
<1>4. ASSUME NEW s \in Relays \ {r}, NEW i \in RowIds,
             batch'[r][i] # NULL, batch'[r][i].wait = NULL,
             batch'[s][i] # NULL, batch'[s][i].wait = NULL
      PROVE  held[s] = StaleTimeout \/ i \in reset
  BY <1>1, <1>4, SelectedIsFree
<1>5. FirstClaimExclusive'
  <2> SUFFICES ASSUME NEW q \in Relays, NEW s \in Relays, NEW i \in RowIds, q # s,
                      batch'[q][i] # NULL, batch'[s][i] # NULL,
                      batch'[q][i].wait = NULL, batch'[s][i].wait = NULL
               PROVE  held[q] = StaleTimeout \/ held[s] = StaleTimeout \/ i \in reset
    BY <1>1 DEF FirstClaimExclusive, Holds
  <2>1. CASE q = r
    BY <1>4, <2>1
  <2>2. CASE s = r
    BY <1>4, <2>2
  <2>3. CASE q # r /\ s # r
    BY <1>1, <2>3 DEF ClaimInv, FirstClaimExclusive, Holds
  <2> QED
    BY <2>1, <2>2, <2>3
<1> QED
  BY <1>2, <1>3, <1>5 DEF ClaimInv

LEMMA MarkClaims ==
    ASSUME TypeOK, TypeOK', ClaimedPresent, ClaimInv, NEW r \in Relays, MarkInFlight(r)
    PROVE  ClaimInv'
<1>1. /\ pc[r] = "claiming" /\ pc'[r] = "publishing"
      /\ \A s \in Relays \ {r} : pc'[s] = pc[s] /\ held'[s] = held[s]
      /\ held'[r] = 0 /\ batch' = batch /\ reset' = reset
  BY DEF MarkInFlight, TypeOK, history
<1>2. held[r] = 0
  BY <1>1 DEF ClaimInv, IdleHoldsNothing, Sending
<1>3. \A i \in RowIds : IF batch[r][i] # NULL THEN rows'[i].age = 0 ELSE rows'[i] = rows[i]
  <2> SUFFICES ASSUME NEW i \in RowIds
               PROVE  IF batch[r][i] # NULL THEN rows'[i].age = 0 ELSE rows'[i] = rows[i]
    OBVIOUS
  <2>1. CASE batch[r][i] # NULL
    <3>1. rows[i] \in Row
      BY <1>1, <2>1 DEF ClaimedPresent, TypeOK
    <3> QED
      BY <2>1, <3>1 DEF MarkInFlight, Batch, Holds, Row
  <2>2. CASE batch[r][i] = NULL
    BY <2>2 DEF MarkInFlight, Batch, Holds
  <2> QED
    BY <2>1, <2>2
<1>4. IdleHoldsNothing'
  <2> SUFFICES ASSUME NEW s \in Relays
               PROVE  /\ pc'[s] \notin Sending => held'[s] = 0
                      /\ pc'[s] \in {"ready", "down"} => \A i \in RowIds : batch'[s][i] = NULL
    BY DEF IdleHoldsNothing, Sending
  <2>1. CASE s = r
    BY <1>1, <2>1 DEF Sending
  <2>2. CASE s # r
    BY <1>1, <2>2 DEF ClaimInv, IdleHoldsNothing
  <2> QED
    BY <2>1, <2>2
<1>5. SendingKept
  <2> SUFFICES ASSUME NEW s \in Relays, NEW i \in RowIds,
                      pc'[s] \in Sending, batch'[s][i] # NULL
               PROVE  \/ /\ pc[s] \in Sending /\ batch[s][i] # NULL
                         /\ batch'[s][i].wait = batch[s][i].wait
                         /\ held'[s] = held[s]
                      \/ rows'[i].age = 0
    BY DEF SendingKept
  <2>1. CASE s = r
    BY <1>1, <1>3, <2>1
  <2>2. CASE s # r
    BY <1>1, <2>2
  <2> QED
    BY <2>1, <2>2
<1>6. StampsKept
  BY <1>3 DEF StampsKept
<1>7. NothingTaken
  BY <1>1, <1>2 DEF NothingTaken
<1>8. StampStands' /\ FirstClaimExclusive'
  BY <1>1, <1>5, <1>6, <1>7, QuietStamps, QuietClaims DEF ClaimInv
<1> QED
  BY <1>4, <1>8 DEF ClaimInv

\* A row that the second transaction leaves is scheduled for a retry or untouched.
LEMMA SettleWaits ==
    ASSUME TypeOK, NEW r \in Relays, NEW jitter, Settle(r, jitter), NEW i \in RowIds,
           rows'[i] # NULL
    PROVE  rows[i] # NULL /\ (rows'[i].wait # NULL \/ rows'[i] = rows[i])
<1>1. rows[i] # NULL /\ rows[i] \in Row /\ i \notin Deleted(r) /\ i \in Present
  BY SettleRows DEF TypeOK, Present
<1>2. CASE i \in Group(r, "failed")
  <2> DEFINE w == RetryDelay(batch[r][i].retries, jitter[i])
  <2>1. rows'[i] = [rows[i] EXCEPT !.retries = @ + 1, !.age = 0, !.wait = w]
    BY <1>1, <1>2 DEF Settle, Group
  <2>2. w # NULL
    BY DelayType, NullAssumption, ParametersAssumption DEF Later
  <2> QED
    BY <1>1, <2>1, <2>2 DEF Row
<1>3. CASE i \notin Group(r, "failed") /\ i \in Group(r, "deferred")
  <2>1. rows'[i] = [rows[i] EXCEPT !.age = 0, !.wait = Cooldown]
    BY <1>1, <1>3 DEF Settle
  <2>2. Cooldown # NULL
    BY NullAssumption, ParametersAssumption
  <2> QED
    BY <1>1, <2>1, <2>2 DEF Row
<1>4. CASE i \notin Group(r, "failed") /\ i \notin Group(r, "deferred")
  BY <1>1, <1>4 DEF Settle
<1> QED
  BY <1>1, <1>2, <1>3, <1>4

\* A relay's batch is gone, by its commit or with its memory.
LEMMA ReleaseClaims ==
    ASSUME TypeOK, TypeOK', ClaimInv, NEW r \in Relays,
           pc'[r] \in {"ready", "down"}, held'[r] = 0, \A i \in RowIds : batch'[r][i] = NULL,
           \A s \in Relays \ {r} : pc'[s] = pc[s] /\ held'[s] = held[s] /\ batch'[s] = batch[s],
           reset' = reset,
           \A i \in RowIds : rows'[i] # NULL =>
              rows[i] # NULL /\ (rows'[i].wait # NULL \/ rows'[i] = rows[i])
    PROVE  ClaimInv'
<1>1. IdleHoldsNothing'
  <2> SUFFICES ASSUME NEW s \in Relays
               PROVE  /\ pc'[s] \notin Sending => held'[s] = 0
                      /\ pc'[s] \in {"ready", "down"} => \A i \in RowIds : batch'[s][i] = NULL
    BY DEF IdleHoldsNothing, Sending
  <2>1. CASE s = r
    BY <2>1
  <2>2. CASE s # r
    BY <2>2 DEF ClaimInv, IdleHoldsNothing
  <2> QED
    BY <2>1, <2>2
<1>2. SendingKept
  BY DEF SendingKept, Sending
<1>3. StampsKept
  BY DEF StampsKept
<1>4. NothingTaken
  BY DEF NothingTaken
<1>5. StampStands' /\ FirstClaimExclusive'
  BY <1>2, <1>3, <1>4, QuietStamps, QuietClaims DEF ClaimInv
<1> QED
  BY <1>1, <1>5 DEF ClaimInv

\* A step within a relay's sending, or none of a relay's at all.
LEMMA SteadyClaims ==
    ASSUME TypeOK, TypeOK', ClaimInv, StampsKept, held' = held, reset \subseteq reset',
           \A s \in Relays : pc'[s] = pc[s] \/ (pc[s] = "publishing" /\ pc'[s] = "recording")
                                          \/ (pc[s] = "down" /\ pc'[s] = "ready"),
           \A s \in Relays, i \in RowIds : batch'[s][i] # NULL =>
              batch[s][i] # NULL /\ batch'[s][i].wait = batch[s][i].wait
    PROVE  ClaimInv'
<1>1. IdleHoldsNothing'
  BY DEF ClaimInv, IdleHoldsNothing, Sending
<1>2. SendingKept
  BY DEF SendingKept, Sending
<1>3. NothingTaken
  BY DEF NothingTaken
<1>4. StampStands' /\ FirstClaimExclusive'
  BY <1>2, <1>3, QuietStamps, QuietClaims DEF ClaimInv
<1> QED
  BY <1>1, <1>4 DEF ClaimInv

LEMMA TickClaims ==
    ASSUME TypeOK, TypeOK', ClaimInv, Tick
    PROVE  ClaimInv'
<1>1. /\ pc' = pc /\ batch' = batch /\ reset' = reset
      /\ \A r \in Relays : held'[r] = IF pc[r] \in Sending THEN Lesser(held[r] + 1, StaleTimeout)
                                      ELSE held[r]
  BY DEF Tick, history, Sending
<1>2. IdleHoldsNothing'
  BY <1>1 DEF ClaimInv, IdleHoldsNothing, Sending
<1>3. StampStands'
  <2> SUFFICES ASSUME NEW r \in Relays, NEW i \in RowIds, pc[r] \in Sending,
                      batch[r][i] # NULL, batch[r][i].wait = NULL,
                      rows'[i] # NULL, rows'[i].wait = NULL, i \notin reset
               PROVE  rows'[i].age # NULL /\ rows'[i].age <= held'[r]
    BY <1>1 DEF StampStands, Sending
  <2>1. rows[i] # NULL /\ rows[i] \in Row
    BY DEF Tick, TypeOK
  <2>2. rows'[i] = [rows[i] EXCEPT !.age = Older(@), !.wait = Sooner(@)]
    BY <2>1 DEF Tick
  <2>3. rows'[i].age = Older(rows[i].age) /\ rows'[i].wait = Sooner(rows[i].wait)
    BY <2>1, <2>2 DEF Row
  <2>4. rows[i].wait = NULL
    <3>1. rows[i].wait \in Later \cup {NULL}
      BY <2>1 DEF Row
    <3>2. rows[i].wait \in Nat => Sooner(rows[i].wait) \in Nat
      BY NullAssumption DEF Sooner
    <3>3. Later \subseteq Nat
      BY ParametersAssumption DEF Later
    <3> QED
      BY <2>3, <3>1, <3>2, <3>3, NullAssumption
  <2>5. rows[i].age # NULL /\ rows[i].age <= held[r]
    BY <2>1, <2>4 DEF ClaimInv, StampStands
  <2>6. rows[i].age \in 0..StaleTimeout /\ held[r] \in 0..StaleTimeout
    BY <2>1, <2>5 DEF Row, TypeOK
  <2>7. Older(rows[i].age) = Lesser(rows[i].age + 1, StaleTimeout)
    BY <2>5 DEF Older
  <2> QED
    BY <1>1, <2>3, <2>5, <2>6, <2>7, ParametersAssumption, NullAssumption DEF Lesser
<1>4. FirstClaimExclusive'
  <2>1. \A r \in Relays : held[r] = StaleTimeout => held'[r] = StaleTimeout
    BY <1>1, ParametersAssumption DEF Lesser
  <2> QED
    BY <1>1, <2>1 DEF ClaimInv, FirstClaimExclusive, Holds
<1> QED
  BY <1>2, <1>3, <1>4 DEF ClaimInv

LEMMA InitClaims == Init => ClaimInv
BY DEF Init, NoBatch, ClaimInv, IdleHoldsNothing, StampStands, FirstClaimExclusive, Holds, Sending

LEMMA NextClaims ==
    ASSUME TypeOK, TypeOK', FreshIds, ClaimedPresent, ClaimInv, [Next]_vars
    PROVE  ClaimInv'
<1> USE DEF tables, history
<1>0. ASSUME rows' = rows PROVE StampsKept
  BY <1>0 DEF StampsKept
<1>1. ASSUME NEW t \in Tasks, Enqueue(t) PROVE ClaimInv'
  <2>1. nextId \in RowIds /\ \A i \in RowIds : i # nextId => rows'[i] = rows[i]
    BY <1>1 DEF Enqueue, TypeOK
  <2>2. \A r \in Relays : batch'[r][nextId] = NULL
    BY <1>1, <2>1 DEF Enqueue, FreshIds, RowIds
  <2>3. StampsKept
    BY <2>1, <2>2 DEF StampsKept
  <2> QED
    BY <1>1, <2>3, SteadyClaims DEF Enqueue
<1>2. ASSUME NEW r \in Relays, Select(r) PROVE ClaimInv'
  BY <1>2, SelectClaims
<1>3. ASSUME NEW r \in Relays, MarkInFlight(r) PROVE ClaimInv'
  BY <1>3, MarkClaims
<1>4. ASSUME NEW r \in Relays, Process(r) PROVE ClaimInv'
  <2>1. UNCHANGED <<rows, pc, held, reset>>
    BY <1>4 DEF Process, PreExceeded, PublishSucceeds, PublishFails, PublishMeetsOutage,
                Publishing
  <2> QED
    BY <1>0, <1>4, <2>1, ProcessKeepsWaits, SteadyClaims
<1>5. ASSUME NEW r \in Relays, CutBatch(r) PROVE ClaimInv'
  <2>1. \A s \in Relays, i \in RowIds : batch'[s][i] # NULL => batch'[s][i] = batch[s][i]
    BY <1>5 DEF CutBatch, TypeOK
  <2> QED
    BY <1>0, <1>5, <2>1, SteadyClaims DEF CutBatch
<1>6. ASSUME NEW r \in Relays, Record(r) PROVE ClaimInv'
  <2>1. \A s \in Relays : pc'[s] = pc[s] \/ (pc[s] = "publishing" /\ pc'[s] = "recording")
    BY <1>6 DEF Record, TypeOK
  <2> QED
    BY <1>0, <1>6, <2>1, SteadyClaims DEF Record
<1>7. ASSUME NEW r \in Relays, Commit(r) PROVE ClaimInv'
  <2>1. PICK jitter \in [Group(r, "failed") -> Jitters] : Settle(r, jitter)
    BY <1>7 DEF Commit
  <2>2. \A i \in RowIds : rows'[i] # NULL =>
          rows[i] # NULL /\ (rows'[i].wait # NULL \/ rows'[i] = rows[i])
    BY <2>1, SettleWaits
  <2>3. /\ pc'[r] = "ready" /\ held'[r] = 0 /\ \A i \in RowIds : batch'[r][i] = NULL
        /\ \A s \in Relays \ {r} :
              pc'[s] = pc[s] /\ held'[s] = held[s] /\ batch'[s] = batch[s]
        /\ reset' = reset
    BY <1>7 DEF Commit, NoBatch, TypeOK
  <2> QED
    BY <2>2, <2>3, ReleaseClaims
<1>8. ASSUME NEW r \in Relays, IterationFails(r) \/ Crash(r) PROVE ClaimInv'
  <2>1. /\ pc'[r] \in {"ready", "down"}
        /\ held'[r] = 0 /\ \A i \in RowIds : batch'[r][i] = NULL
        /\ \A s \in Relays \ {r} :
              pc'[s] = pc[s] /\ held'[s] = held[s] /\ batch'[s] = batch[s]
        /\ reset' = reset /\ rows' = rows
    BY <1>8 DEF IterationFails, Crash, Forget, NoBatch, TypeOK
  <2> QED
    BY <2>1, ReleaseClaims
<1>9. ASSUME NEW r \in Relays, Restart(r) PROVE ClaimInv'
  <2>1. \A s \in Relays : pc'[s] = pc[s] \/ (pc[s] = "down" /\ pc'[s] = "ready")
    BY <1>9 DEF Restart, TypeOK
  <2> QED
    BY <1>0, <1>9, <2>1, SteadyClaims DEF Restart
<1>10. ASSUME NEW ids \in SUBSET Present, ResetRetries(ids) PROVE ClaimInv'
  <2>1. \A i \in RowIds : i \notin ids => rows'[i] = rows[i]
    BY <1>10 DEF ResetRetries
  <2>2. \A i \in ids : i \in reset' \/ \A r \in Relays : batch'[r][i] = NULL
    BY <1>10 DEF ResetRetries, Holds
  <2>3. StampsKept
    BY <2>1, <2>2 DEF StampsKept
  <2> QED
    BY <1>10, <2>3, SteadyClaims DEF ResetRetries
<1>11. ASSUME NEW entries \in SUBSET dead, Replay(entries) PROVE ClaimInv'
  <2> DEFINE new == nextId..(nextId + Cardinality(entries) - 1)
  <2>1. \A i \in RowIds : i \notin new => rows'[i] = rows[i]
    BY <1>11 DEF Replay
  <2>2. \A i \in RowIds : i \in new => \A r \in Relays : batch'[r][i] = NULL
    <3>1. \A i \in new : nextId <= i
      OBVIOUS
    <3>2. batch' = batch
      BY <1>11 DEF Replay
    <3> QED
      BY <3>1, <3>2 DEF FreshIds
  <2>3. StampsKept
    BY <2>1, <2>2 DEF StampsKept
  <2> QED
    BY <1>11, <2>3, SteadyClaims DEF Replay
<1>12. ASSUME NEW entries \in SUBSET dead, Purge(entries) PROVE ClaimInv'
  BY <1>0, <1>12, SteadyClaims DEF Purge
<1>13. ASSUME Tick PROVE ClaimInv'
  BY <1>13, TickClaims
<1>14. CASE UNCHANGED vars
  BY <1>0, <1>14, SteadyClaims DEF vars
<1> QED
  BY <1>1, <1>2, <1>3, <1>4, <1>5, <1>6, <1>7, <1>8, <1>9, <1>10, <1>11, <1>12, <1>13, <1>14
  DEF Next, RelayStep, Disturbance, Operator

\* A row that was not waiting for a retry belongs to the relay that stamped it
\* until the stale timeout, for any number of relays and any batch size.
THEOREM ClaimsExclude == Spec => []FirstClaimExclusive
<1>1. Init => ClaimInv
  BY InitClaims
<1>2. Inv /\ Inv' /\ ClaimInv /\ [Next]_vars => ClaimInv'
  BY NextClaims DEF Inv
<1>3. ClaimInv => FirstClaimExclusive
  BY DEF ClaimInv
<1> QED
  BY <1>1, <1>2, <1>3, Invariance, PTL DEF Spec

-------------------------------------------------------------------------------
(* The retry budget: what retries counts, in the table and in the memories *)
(* of all relays together, was really attempted.                           *)

\* The relays that will count one failed send of row i when they commit.
Failing(i) == {r \in Relays : Holds(r, i) /\ batch[r][i].group = "failed"}

\* The history variable counts no further.
Spent(i) == attempts[i] = MaxRetries

\* A row's retries, with those still to be counted, are not more than its sends.
\* Two relays may hold the row at once, so it takes the number of them.
RowsPaid ==
    \A i \in RowIds :
        /\ IsFiniteSet(Failing(i))
        /\ rows[i] # NULL =>
              Spent(i) \/ rows[i].retries + Cardinality(Failing(i)) <= attempts[i]

\* Nor are those a relay read, however long ago; and what a relay will dead-letter
\* has had all its sends.
MessagesPaid ==
    \A r \in Relays, i \in RowIds : Holds(r, i) =>
        /\ Spent(i) \/ batch[r][i].retries <= attempts[i]
        /\ batch[r][i].group = "exceeded" => Spent(i)

\* What makes DeadOnlyAfterBudget inductive.
BudgetInv == RowsPaid /\ MessagesPaid /\ DeadOnlyAfterBudget

-------------------------------------------------------------------------------
(* Steps that count no send. *)

\* Rows keep or lower their retries, or are new.
RowsSmaller ==
    \A i \in RowIds : rows'[i] # NULL =>
        \/ rows[i] # NULL /\ rows'[i].retries <= rows[i].retries
        \/ rows'[i].retries = 0 /\ Failing(i)' = {}

\* Messages are kept, with a group that is no failure, or are read from a row.
MessagesKept ==
    \A r \in Relays, i \in RowIds : batch'[r][i] # NULL =>
        \/ /\ batch[r][i] # NULL
           /\ batch'[r][i].retries = batch[r][i].retries
           /\ batch'[r][i].group = "failed" => batch[r][i].group = "failed"
           /\ batch'[r][i].group = "exceeded" =>
                 batch[r][i].group = "exceeded" \/ batch[r][i].retries >= MaxRetries
        \/ /\ rows[i] # NULL
           /\ batch'[r][i].retries = rows[i].retries
           /\ batch'[r][i].group = "none"

LEMMA QuietBudget ==
    ASSUME TypeOK, TypeOK', BudgetInv, RowsSmaller, MessagesKept,
           attempts' = attempts, dead' \subseteq dead
    PROVE  BudgetInv'
<1>1. ASSUME NEW i \in RowIds PROVE Failing(i)' \subseteq Failing(i)
  BY DEF Failing, Holds, MessagesKept
<1>2. ASSUME NEW i \in RowIds
      PROVE  /\ IsFiniteSet(Failing(i)) /\ Cardinality(Failing(i)) \in Nat
             /\ IsFiniteSet(Failing(i)') /\ Cardinality(Failing(i)') \in Nat
             /\ Cardinality(Failing(i)') <= Cardinality(Failing(i))
             /\ Failing(i)' = {} => Cardinality(Failing(i)') = 0
  <2>1. IsFiniteSet(Failing(i))
    BY DEF BudgetInv, RowsPaid
  <2>2. IsFiniteSet(Failing(i)') /\ Cardinality(Failing(i)') <= Cardinality(Failing(i))
    BY <1>1, <2>1, FS_Subset
  <2> QED
    BY <2>1, <2>2, FS_CardinalityType, FS_EmptySet
<1>3. RowsPaid'
  <2> SUFFICES ASSUME NEW i \in RowIds
               PROVE  /\ IsFiniteSet(Failing(i)')
                      /\ rows'[i] # NULL =>
                            Spent(i)' \/ rows'[i].retries + Cardinality(Failing(i)') <= attempts'[i]
    BY DEF RowsPaid
  <2>1. CASE rows'[i] # NULL /\ rows[i] # NULL /\ rows'[i].retries <= rows[i].retries
    <3>1. rows[i].retries \in Nat /\ rows'[i].retries \in Nat /\ attempts[i] \in Nat
      BY <2>1 DEF TypeOK, Row
    <3>2. Spent(i) \/ rows[i].retries + Cardinality(Failing(i)) <= attempts[i]
      BY <2>1 DEF BudgetInv, RowsPaid
    <3> QED
      BY <1>2, <2>1, <3>1, <3>2 DEF Spent
  <2>2. CASE rows'[i] # NULL /\ rows'[i].retries = 0 /\ Failing(i)' = {}
    <3>1. attempts'[i] \in Nat
      BY DEF TypeOK
    <3> QED
      BY <1>2, <2>2, <3>1
  <2>3. CASE rows'[i] = NULL
    BY <1>2, <2>3
  <2> QED
    BY <2>1, <2>2, <2>3 DEF RowsSmaller
<1>4. MessagesPaid'
  <2> SUFFICES ASSUME NEW r \in Relays, NEW i \in RowIds, batch'[r][i] # NULL
               PROVE  /\ Spent(i) \/ batch'[r][i].retries <= attempts[i]
                      /\ batch'[r][i].group = "exceeded" => Spent(i)
    BY DEF MessagesPaid, Holds, Spent
  <2>1. CASE /\ batch[r][i] # NULL
             /\ batch'[r][i].retries = batch[r][i].retries
             /\ batch'[r][i].group = "exceeded" =>
                   batch[r][i].group = "exceeded" \/ batch[r][i].retries >= MaxRetries
    <3>1. /\ Spent(i) \/ batch[r][i].retries <= attempts[i]
          /\ batch[r][i].group = "exceeded" => Spent(i)
      BY <2>1 DEF BudgetInv, MessagesPaid, Holds
    <3>2. batch[r][i].retries \in Nat /\ attempts[i] \in 0..MaxRetries
      BY <2>1 DEF TypeOK, Message
    <3> QED
      BY <2>1, <3>1, <3>2, ParametersAssumption DEF Spent
  <2>2. CASE rows[i] # NULL /\ batch'[r][i].retries = rows[i].retries
             /\ batch'[r][i].group = "none"
    <3>1. Spent(i) \/ rows[i].retries + Cardinality(Failing(i)) <= attempts[i]
      BY <2>2 DEF BudgetInv, RowsPaid
    <3>2. rows[i].retries \in Nat /\ attempts[i] \in Nat
      BY <2>2 DEF TypeOK, Row
    <3> QED
      BY <1>2, <2>2, <3>1, <3>2
  <2> QED
    BY <2>1, <2>2 DEF MessagesKept
<1>5. DeadOnlyAfterBudget'
  BY DEF BudgetInv, DeadOnlyAfterBudget
<1> QED
  BY <1>3, <1>4, <1>5 DEF BudgetInv

-------------------------------------------------------------------------------
(* A send that fails, and the commit that counts it. *)

LEMMA FailureBudget ==
    ASSUME TypeOK, TypeOK', BudgetInv, NEW r \in Relays, NEW i \in RowIds, PublishFails(r, i)
    PROVE  BudgetInv'
<1> DEFINE m == batch[r][i]
           g == IF LastAttempt(m) THEN "exceeded" ELSE "failed"
<1>1. /\ m \in Message /\ m.group = "none" /\ m.retries < MaxRetries
      /\ rows' = rows /\ dead' = dead
      /\ attempts' = [attempts EXCEPT ![i] = Lesser(@ + 1, MaxRetries)]
      /\ batch' = [batch EXCEPT ![r][i].group = g]
  BY DEF PublishFails, Publishing, Put, Unclassified, Group, Batch, Holds, TypeOK, tables
<1>2. /\ attempts[i] \in 0..MaxRetries
      /\ attempts'[i] = Lesser(attempts[i] + 1, MaxRetries)
      /\ \A j \in RowIds \ {i} : attempts'[j] = attempts[j]
  BY <1>1 DEF TypeOK
<1>3. /\ batch'[r][i] = [m EXCEPT !.group = g]
      /\ \A j \in RowIds \ {i} : batch'[r][j] = batch[r][j]
      /\ \A s \in Relays \ {r} : batch'[s] = batch[s]
  BY <1>1 DEF TypeOK
<1>4. batch'[r][i] # NULL /\ batch'[r][i].group = g /\ batch'[r][i].retries = m.retries
  <2>1. g \in Groups
    BY DEF Groups
  <2>2. batch'[r][i] \in Message
    BY <1>1, <1>3, <2>1, MessageUpdate
  <2> QED
    BY <1>1, <1>3, <2>2, NullAssumption DEF Message
<1>5. /\ Spent(i) => Spent(i)'
      /\ \A k \in Nat : k <= attempts[i] => Spent(i)' \/ k + 1 <= attempts'[i]
  BY <1>2, ParametersAssumption DEF Spent, Lesser
<1>6. Spent(i) \/ m.retries <= attempts[i]
  BY <1>1, NullAssumption DEF BudgetInv, MessagesPaid, Holds
<1>7. LastAttempt(m) => Spent(i)'
  BY <1>1, <1>2, <1>6, ParametersAssumption DEF LastAttempt, Spent, Lesser, Message
<1>8. RowsPaid'
  <2> SUFFICES ASSUME NEW j \in RowIds
               PROVE  /\ IsFiniteSet(Failing(j)')
                      /\ rows'[j] # NULL =>
                            Spent(j)' \/ rows'[j].retries + Cardinality(Failing(j)') <= attempts'[j]
    BY DEF RowsPaid
  <2>1. /\ IsFiniteSet(Failing(j)) /\ Cardinality(Failing(j)) \in Nat
        /\ rows[j] # NULL => Spent(j) \/ rows[j].retries + Cardinality(Failing(j)) <= attempts[j]
    BY FS_CardinalityType DEF BudgetInv, RowsPaid
  <2>2. CASE j # i
    <3>1. Failing(j)' = Failing(j)
      BY <1>3, <2>2 DEF Failing, Holds
    <3> QED
      BY <1>1, <1>2, <2>1, <2>2, <3>1 DEF Spent
  <2>3. CASE j = i /\ LastAttempt(m)
    <3>1. Failing(i)' = Failing(i)
      BY <1>1, <1>3, <1>4, <2>3 DEF Failing, Holds
    <3> QED
      BY <1>7, <2>1, <2>3, <3>1
  <2>4. CASE j = i /\ ~LastAttempt(m)
    <3>1. Failing(i)' = Failing(i) \cup {r} /\ r \notin Failing(i)
      BY <1>1, <1>3, <1>4, <2>4 DEF Failing, Holds
    <3>2. /\ IsFiniteSet(Failing(i)')
          /\ Cardinality(Failing(i)') = Cardinality(Failing(i)) + 1
      BY <2>1, <2>4, <3>1, FS_AddElement
    <3>3. ASSUME rows[i] # NULL
          PROVE  Spent(i)' \/ rows[i].retries + Cardinality(Failing(i)) + 1 <= attempts'[i]
      <4>1. rows[i].retries + Cardinality(Failing(i)) \in Nat
        BY <2>1, <2>4, <3>3 DEF TypeOK, Row
      <4> QED
        BY <1>5, <2>1, <2>4, <3>3, <4>1
    <3>4. rows[i] # NULL => rows[i].retries \in Nat
      BY DEF TypeOK, Row
    <3> QED
      BY <1>1, <2>1, <2>4, <3>2, <3>3, <3>4
  <2> QED
    BY <2>2, <2>3, <2>4
<1>9. MessagesPaid'
  <2> SUFFICES ASSUME NEW s \in Relays, NEW j \in RowIds, batch'[s][j] # NULL
               PROVE  /\ Spent(j)' \/ batch'[s][j].retries <= attempts'[j]
                      /\ batch'[s][j].group = "exceeded" => Spent(j)'
    BY DEF MessagesPaid, Holds
  <2>1. CASE s = r /\ j = i
    <3>1. m.retries \in Nat /\ attempts'[i] \in Nat
      BY <1>1 DEF Message, TypeOK
    <3>2. Spent(i)' \/ m.retries <= attempts'[i]
      BY <1>5, <1>6, <3>1
    <3> QED
      BY <1>4, <1>7, <2>1, <3>2
  <2>2. CASE ~(s = r /\ j = i)
    <3>1. batch'[s][j] = batch[s][j]
      BY <1>3, <2>2
    <3>2. /\ Spent(j) \/ batch[s][j].retries <= attempts[j]
          /\ batch[s][j].group = "exceeded" => Spent(j)
      BY <3>1 DEF BudgetInv, MessagesPaid, Holds
    <3>3. batch[s][j].retries \in Nat /\ attempts[j] \in Nat /\ attempts'[j] \in Nat
      BY <3>1 DEF TypeOK, Message
    <3>4. CASE j = i
      BY <1>5, <3>1, <3>2, <3>3, <3>4
    <3>5. CASE j # i
      BY <1>2, <3>1, <3>2, <3>5 DEF Spent
    <3> QED
      BY <3>4, <3>5
  <2> QED
    BY <2>1, <2>2
<1>10. DeadOnlyAfterBudget'
  <2> SUFFICES ASSUME NEW d \in dead PROVE attempts'[d.row] = MaxRetries
    BY <1>1 DEF DeadOnlyAfterBudget
  <2>1. d.row \in RowIds /\ attempts[d.row] = MaxRetries
    BY DEF BudgetInv, DeadOnlyAfterBudget, TypeOK, DeadLetter
  <2> QED
    BY <1>2, <1>5, <2>1 DEF Spent
<1> QED
  BY <1>8, <1>9, <1>10 DEF BudgetInv

\* What the second transaction makes of the retries of a row that stays.
LEMMA SettleRetries ==
    ASSUME TypeOK, NEW r \in Relays, NEW jitter, Settle(r, jitter), NEW i \in RowIds,
           rows'[i] # NULL
    PROVE  /\ rows[i] # NULL
           /\ rows'[i].retries =
                 IF i \in Group(r, "failed") THEN rows[i].retries + 1 ELSE rows[i].retries
<1>1. rows[i] # NULL /\ rows[i] \in Row /\ i \notin Deleted(r) /\ i \in Present
  BY SettleRows DEF TypeOK, Present
<1>2. CASE i \in Group(r, "failed")
  <2> DEFINE w == RetryDelay(batch[r][i].retries, jitter[i])
  <2>1. rows'[i] = [rows[i] EXCEPT !.retries = @ + 1, !.age = 0, !.wait = w]
    BY <1>1, <1>2 DEF Settle, Group
  <2> QED
    BY <1>1, <1>2, <2>1 DEF Row
<1>3. CASE i \notin Group(r, "failed") /\ i \in Group(r, "deferred")
  <2>1. rows'[i] = [rows[i] EXCEPT !.age = 0, !.wait = Cooldown]
    BY <1>1, <1>3 DEF Settle
  <2> QED
    BY <1>1, <1>3, <2>1 DEF Row
<1>4. CASE i \notin Group(r, "failed") /\ i \notin Group(r, "deferred")
  BY <1>1, <1>4 DEF Settle
<1> QED
  BY <1>1, <1>2, <1>3, <1>4

LEMMA CommitBudget ==
    ASSUME TypeOK, TypeOK', BudgetInv, NEW r \in Relays, Commit(r)
    PROVE  BudgetInv'
<1>1. PICK jitter \in [Group(r, "failed") -> Jitters] : Settle(r, jitter)
  BY DEF Commit
<1>2. /\ attempts' = attempts
      /\ \A i \in RowIds : batch'[r][i] = NULL
      /\ \A s \in Relays \ {r} : batch'[s] = batch[s]
  BY DEF Commit, NoBatch, TypeOK, history
<1>3. RowsPaid'
  <2> SUFFICES ASSUME NEW i \in RowIds
               PROVE  /\ IsFiniteSet(Failing(i)')
                      /\ rows'[i] # NULL =>
                            Spent(i) \/ rows'[i].retries + Cardinality(Failing(i)') <= attempts[i]
    BY <1>2 DEF RowsPaid, Spent
  <2>1. IsFiniteSet(Failing(i)) /\ Cardinality(Failing(i)) \in Nat
    BY FS_CardinalityType DEF BudgetInv, RowsPaid
  <2>2. Failing(i)' = Failing(i) \ {r}
    BY <1>2 DEF Failing, Holds
  <2>3. r \in Failing(i) <=> i \in Group(r, "failed")
    BY DEF Failing, Group, Batch
  <2>4. /\ IsFiniteSet(Failing(i)')
        /\ Cardinality(Failing(i)') =
              IF i \in Group(r, "failed") THEN Cardinality(Failing(i)) - 1
              ELSE Cardinality(Failing(i))
    BY <2>1, <2>2, <2>3, FS_RemoveElement
  <2>5. ASSUME rows'[i] # NULL
        PROVE  Spent(i) \/ rows'[i].retries + Cardinality(Failing(i)') <= attempts[i]
    <3>1. /\ rows[i] # NULL
          /\ rows'[i].retries =
                IF i \in Group(r, "failed") THEN rows[i].retries + 1 ELSE rows[i].retries
      BY <1>1, <2>5, SettleRetries
    <3>2. Spent(i) \/ rows[i].retries + Cardinality(Failing(i)) <= attempts[i]
      BY <3>1 DEF BudgetInv, RowsPaid
    <3>3. rows[i].retries \in Nat /\ attempts[i] \in Nat
      BY <3>1 DEF TypeOK, Row
    <3> QED
      BY <2>1, <2>4, <3>1, <3>2, <3>3
  <2> QED
    BY <2>4, <2>5
<1>4. MessagesPaid'
  <2> SUFFICES ASSUME NEW s \in Relays, NEW i \in RowIds, batch'[s][i] # NULL
               PROVE  /\ Spent(i) \/ batch'[s][i].retries <= attempts[i]
                      /\ batch'[s][i].group = "exceeded" => Spent(i)
    BY <1>2 DEF MessagesPaid, Holds, Spent
  <2>1. batch'[s][i] = batch[s][i]
    BY <1>2
  <2> QED
    BY <2>1 DEF BudgetInv, MessagesPaid, Holds
<1>5. DeadOnlyAfterBudget'
  <2>1. \A i \in Group(r, "exceeded") : attempts[i] = MaxRetries
    BY DEF BudgetInv, MessagesPaid, Group, Batch, Spent
  <2>2. dead' = dead \cup DeadLettersOf(r)
    BY <1>1 DEF Settle
  <2> QED
    BY <1>2, <2>1, <2>2 DEF BudgetInv, DeadOnlyAfterBudget, DeadLettersOf
<1> QED
  BY <1>3, <1>4, <1>5 DEF BudgetInv

-------------------------------------------------------------------------------
(* All steps. *)

LEMMA InitBudget == Init => BudgetInv
<1> SUFFICES ASSUME Init PROVE BudgetInv
  OBVIOUS
<1>1. \A i \in RowIds : Failing(i) = {}
  BY DEF Init, Failing, Holds, NoBatch
<1> QED
  BY <1>1, FS_EmptySet
  DEF Init, NoBatch, BudgetInv, RowsPaid, MessagesPaid, DeadOnlyAfterBudget, Holds

\* Steps that leave the batches alone.
LEMMA RowsBudget ==
    ASSUME TypeOK, TypeOK', BudgetInv, RowsSmaller, batch' = batch, attempts' = attempts,
           dead' \subseteq dead
    PROVE  BudgetInv'
<1>1. MessagesKept
  BY DEF MessagesKept
<1> QED
  BY <1>1, QuietBudget

\* Steps that leave the rows and the dead letters alone.
LEMMA BatchBudget ==
    ASSUME TypeOK, TypeOK', BudgetInv, MessagesKept, rows' = rows, dead' = dead,
           attempts' = attempts
    PROVE  BudgetInv'
<1>1. RowsSmaller
  BY DEF RowsSmaller, TypeOK, Row
<1> QED
  BY <1>1, QuietBudget

\* A new row has an id nobody has used.
LEMMA InsertBudget ==
    ASSUME TypeOK, TypeOK', FreshIds, BudgetInv, batch' = batch, attempts' = attempts,
           dead' \subseteq dead,
           \A i \in RowIds : rows'[i] = rows[i] \/ (nextId <= i /\ rows'[i].retries = 0)
    PROVE  BudgetInv'
<1>1. RowsSmaller
  <2> SUFFICES ASSUME NEW i \in RowIds, rows'[i] # NULL
               PROVE  \/ rows[i] # NULL /\ rows'[i].retries <= rows[i].retries
                      \/ rows'[i].retries = 0 /\ Failing(i)' = {}
    BY DEF RowsSmaller
  <2>1. CASE rows'[i] = rows[i]
    BY <2>1 DEF TypeOK, Row
  <2>2. CASE nextId <= i /\ rows'[i].retries = 0
    BY <2>2 DEF FreshIds, Failing, Holds
  <2> QED
    BY <2>1, <2>2
<1> QED
  BY <1>1, RowsBudget

\* Putting messages in a group that counts no send.
LEMMA ProcessBudget ==
    ASSUME TypeOK, TypeOK', BudgetInv, NEW r \in Relays, NEW i \in RowIds,
           \/ PreExceeded(r, i)
           \/ PublishSucceeds(r, i)
           \/ \E trips \in BOOLEAN : PublishMeetsOutage(r, i, trips)
    PROVE  BudgetInv'
<1>1. ASSUME NEW g \in Groups \ {"failed"}, Publishing(r, i), Put(r, i, g),
             g = "exceeded" => batch[r][i].retries >= MaxRetries, attempts' = attempts
      PROVE  BudgetInv'
  <2>1. batch[r][i] \in Message
    BY <1>1 DEF Publishing, Unclassified, Group, Batch, Holds, TypeOK
  <2>2. /\ batch'[r][i] = [batch[r][i] EXCEPT !.group = g]
        /\ \A j \in RowIds \ {i} : batch'[r][j] = batch[r][j]
        /\ \A s \in Relays \ {r} : batch'[s] = batch[s]
    BY <1>1 DEF Put, TypeOK
  <2>3. /\ batch[r][i] # NULL
        /\ batch'[r][i].group = g /\ batch'[r][i].retries = batch[r][i].retries
    BY <2>1, <2>2, NullAssumption DEF Message
  <2>4. MessagesKept
    BY <1>1, <2>2, <2>3 DEF MessagesKept
  <2> QED
    BY <1>1, <2>4, BatchBudget DEF Publishing, tables
<1>2. CASE PreExceeded(r, i)
  BY <1>1, <1>2 DEF PreExceeded, Groups
<1>3. CASE PublishSucceeds(r, i)
  BY <1>1, <1>3 DEF PublishSucceeds, Groups
<1>4. ASSUME NEW trips \in BOOLEAN, PublishMeetsOutage(r, i, trips) PROVE BudgetInv'
  <2>1. \A j \in RowIds : j = i \/ j \in Unclassified(r) => batch[r][j] \in Message
    BY <1>4 DEF PublishMeetsOutage, Publishing, Unclassified, Group, Batch, Holds, TypeOK
  <2>2. \A j \in RowIds : batch'[r][j] =
          IF j = i \/ (trips /\ j \in Unclassified(r))
          THEN [batch[r][j] EXCEPT !.group = OutageGroup(batch[r][j])]
          ELSE batch[r][j]
    BY <1>4 DEF PublishMeetsOutage, TypeOK
  <2>3. \A s \in Relays \ {r} : batch'[s] = batch[s]
    BY <1>4 DEF PublishMeetsOutage, TypeOK
  <2>4. ASSUME NEW j \in RowIds, batch'[r][j] # NULL
        PROVE  /\ batch[r][j] # NULL
               /\ batch'[r][j].retries = batch[r][j].retries
               /\ batch'[r][j].group = "failed" => batch[r][j].group = "failed"
               /\ batch'[r][j].group = "exceeded" =>
                     batch[r][j].group = "exceeded" \/ batch[r][j].retries >= MaxRetries
    <3>1. CASE j = i \/ (trips /\ j \in Unclassified(r))
      <4>1. batch[r][j] \in Message
        BY <2>1, <3>1
      <4>2. batch'[r][j] = [batch[r][j] EXCEPT !.group = OutageGroup(batch[r][j])]
        BY <2>2, <3>1
      <4> QED
        BY <4>1, <4>2, NullAssumption DEF Message, OutageGroup
    <3>2. CASE ~(j = i \/ (trips /\ j \in Unclassified(r)))
      BY <2>2, <2>4, <3>2
    <3> QED
      BY <3>1, <3>2
  <2>5. MessagesKept
    BY <2>3, <2>4 DEF MessagesKept
  <2> QED
    BY <1>4, <2>5, BatchBudget DEF PublishMeetsOutage, Publishing, tables
<1> QED
  BY <1>2, <1>3, <1>4

LEMMA NextBudget ==
    ASSUME TypeOK, TypeOK', FreshIds, ClaimedPresent, BudgetInv, [Next]_vars
    PROVE  BudgetInv'
<1> USE DEF tables, history
<1>1. ASSUME NEW t \in Tasks, Enqueue(t) PROVE BudgetInv'
  <2>1. \A i \in RowIds : rows'[i] = rows[i] \/ (nextId <= i /\ rows'[i].retries = 0)
    BY <1>1 DEF Enqueue, NewRow, TypeOK
  <2> QED
    BY <1>1, <2>1, InsertBudget DEF Enqueue
<1>2. ASSUME NEW r \in Relays, Select(r) PROVE BudgetInv'
  <2>1. \A i \in FirstOf(Candidates(r)) : rows[i] # NULL
    BY DEF FirstOf, Candidates, Pending
  <2>2. \A i \in RowIds : batch'[r][i] # NULL =>
          /\ rows[i] # NULL
          /\ batch'[r][i].retries = rows[i].retries
          /\ batch'[r][i].group = "none"
    BY <1>2, <2>1 DEF Select, TypeOK
  <2>3. \A s \in Relays \ {r} : batch'[s] = batch[s]
    BY <1>2 DEF Select, TypeOK
  <2>4. MessagesKept
    BY <2>2, <2>3 DEF MessagesKept
  <2> QED
    BY <1>2, <2>4, BatchBudget DEF Select
<1>3. ASSUME NEW r \in Relays, MarkInFlight(r) PROVE BudgetInv'
  <2>1. \A i \in RowIds : rows'[i] # NULL =>
          rows[i] # NULL /\ rows'[i].retries = rows[i].retries
    <3> SUFFICES ASSUME NEW i \in RowIds, rows'[i] # NULL
                 PROVE  rows[i] # NULL /\ rows'[i].retries = rows[i].retries
      OBVIOUS
    <3>1. rows[i] # NULL
      BY <1>3, MarkKeepsRows DEF RowsKept
    <3>2. rows[i] \in Row
      BY <3>1 DEF TypeOK
    <3> QED
      BY <1>3, <3>1, <3>2 DEF MarkInFlight, Row
  <2>2. RowsSmaller
    BY <2>1 DEF RowsSmaller, TypeOK, Row
  <2> QED
    BY <1>3, <2>2, RowsBudget DEF MarkInFlight
<1>4. ASSUME NEW r \in Relays, Process(r) PROVE BudgetInv'
  BY <1>4, ProcessBudget, FailureBudget DEF Process
<1>5. ASSUME NEW r \in Relays, CutBatch(r) PROVE BudgetInv'
  <2>1. MessagesKept
    BY <1>5 DEF CutBatch, MessagesKept, TypeOK
  <2> QED
    BY <1>5, <2>1, BatchBudget DEF CutBatch
<1>6. ASSUME NEW r \in Relays, Record(r) PROVE BudgetInv'
  <2>1. MessagesKept
    BY <1>6 DEF Record, MessagesKept
  <2> QED
    BY <1>6, <2>1, BatchBudget DEF Record
<1>7. ASSUME NEW r \in Relays, Commit(r) PROVE BudgetInv'
  BY <1>7, CommitBudget
<1>8. ASSUME NEW r \in Relays, IterationFails(r) \/ Crash(r) PROVE BudgetInv'
  <2>1. Forget(r)
    BY <1>8 DEF IterationFails, Crash
  <2>2. MessagesKept
    BY <2>1 DEF Forget, NoBatch, MessagesKept, TypeOK
  <2> QED
    BY <2>1, <2>2, BatchBudget DEF Forget
<1>9. ASSUME NEW r \in Relays, Restart(r) PROVE BudgetInv'
  <2>1. MessagesKept
    BY <1>9 DEF Restart, MessagesKept
  <2> QED
    BY <1>9, <2>1, BatchBudget DEF Restart
<1>10. ASSUME NEW ids \in SUBSET Present, ResetRetries(ids) PROVE BudgetInv'
  <2>1. \A i \in RowIds : rows'[i] # NULL =>
          rows[i] # NULL /\ rows'[i].retries \in {0, rows[i].retries}
    <3> SUFFICES ASSUME NEW i \in RowIds, rows'[i] # NULL
                 PROVE  rows[i] # NULL /\ rows'[i].retries \in {0, rows[i].retries}
      OBVIOUS
    <3>1. rows[i] # NULL
      BY <1>10, ResetKeepsRows DEF RowsKept
    <3>2. rows[i] \in Row
      BY <3>1 DEF TypeOK
    <3> QED
      BY <1>10, <3>1, <3>2 DEF ResetRetries, Row
  <2>2. RowsSmaller
    BY <2>1 DEF RowsSmaller, TypeOK, Row
  <2> QED
    BY <1>10, <2>2, RowsBudget DEF ResetRetries
<1>11. ASSUME NEW entries \in SUBSET dead, Replay(entries) PROVE BudgetInv'
  <2> DEFINE new == nextId..(nextId + Cardinality(entries) - 1)
  <2>1. PICK source \in [new -> entries] :
          rows' = [i \in RowIds |-> IF i \in new THEN NewRow(source[i].task) ELSE rows[i]]
    BY <1>11 DEF Replay
  <2>2. \A i \in new : nextId <= i
    OBVIOUS
  <2>3. \A i \in RowIds : rows'[i] = rows[i] \/ (nextId <= i /\ rows'[i].retries = 0)
    BY <2>1, <2>2 DEF NewRow
  <2> QED
    BY <1>11, <2>3, InsertBudget DEF Replay
<1>12. ASSUME NEW entries \in SUBSET dead, Purge(entries) PROVE BudgetInv'
  <2>1. RowsSmaller
    BY <1>12 DEF Purge, RowsSmaller, TypeOK, Row
  <2> QED
    BY <1>12, <2>1, RowsBudget DEF Purge
<1>13. ASSUME Tick PROVE BudgetInv'
  <2>1. \A i \in RowIds : rows'[i] # NULL =>
          rows[i] # NULL /\ rows'[i].retries = rows[i].retries
    <3> SUFFICES ASSUME NEW i \in RowIds, rows'[i] # NULL
                 PROVE  rows[i] # NULL /\ rows'[i].retries = rows[i].retries
      OBVIOUS
    <3>1. rows[i] # NULL /\ rows'[i] = [rows[i] EXCEPT !.age = Older(@), !.wait = Sooner(@)]
      BY <1>13 DEF Tick
    <3>2. rows[i] \in Row
      BY <3>1 DEF TypeOK
    <3> QED
      BY <3>1, <3>2 DEF Row
  <2>2. RowsSmaller
    BY <2>1 DEF RowsSmaller, TypeOK, Row
  <2> QED
    BY <1>13, <2>2, RowsBudget DEF Tick
<1>14. CASE UNCHANGED vars
  <2>1. MessagesKept
    BY <1>14 DEF vars, MessagesKept
  <2> QED
    BY <1>14, <2>1, BatchBudget DEF vars
<1> QED
  BY <1>1, <1>2, <1>3, <1>4, <1>5, <1>6, <1>7, <1>8, <1>9, <1>10, <1>11, <1>12, <1>13, <1>14
  DEF Next, RelayStep, Disturbance, Operator

-------------------------------------------------------------------------------
\* No message is dead-lettered before max_retries sends of its row failed, for any
\* number of relays that hold it at once, in whatever way their transactions, the
\* crashes between them, outages, resets and replays interleave.
THEOREM BudgetIsKept == Spec => []DeadOnlyAfterBudget
<1>1. Init => BudgetInv
  BY InitBudget
<1>2. Inv /\ Inv' /\ BudgetInv /\ [Next]_vars => BudgetInv'
  BY NextBudget DEF Inv
<1>3. BudgetInv => DeadOnlyAfterBudget
  BY DEF BudgetInv
<1> QED
  BY <1>1, <1>2, <1>3, Invariance, PTL DEF Spec

-------------------------------------------------------------------------------
(* Between its two transactions a relay takes steps of BatchContract, the  *)
(* contract that both ways of publishing a batch keep (BatchProofs).       *)

\* The rows M that relay r stamped, with the retries R it had read, as one batch of
\* the contract.  A message the relay has dropped is in no group.  The batch is over
\* when the relay no longer publishes, or has dropped some.
GroupIn(r, M) == [m \in M |-> IF batch[r][m] = NULL THEN "none" ELSE batch[r][m].group]

BatchOf(r, M, R) == INSTANCE BatchContract
    WITH Messages <- M, retries <- R, group <- GroupIn(r, M),
         over <- (pc[r] # "publishing" \/ Batch(r) # M)

\* Relay r publishes the batch M.
Publishes(r, M, R) == /\ pc[r] = "publishing"
                      /\ Batch(r) = M
                      /\ \A i \in M : batch[r][i].retries = R[i]

\* The memory of the relay is lost, and the batch with it.
Abandons(r) == IterationFails(r) \/ Crash(r)

\* When the first transaction commits, a batch begins as the contract says; and as
\* long as its relay lives, every step of the whole system is one of the contract, or
\* none of that batch.
BatchesKeepContract ==
    [][\A r \in Relays : \A M \in SUBSET RowIds : \A R \in [M -> Nat] :
          /\ MarkInFlight(r) /\ Publishes(r, M, R)' => BatchOf(r, M, R)!Init'
          /\ Publishes(r, M, R) /\ ~Abandons(r)
             => BatchOf(r, M, R)!Next \/ UNCHANGED BatchOf(r, M, R)!vars]_vars

\* Nothing is sent before the stamp.
ClaimedUnsent ==
    \A r \in Relays, i \in RowIds :
        pc[r] = "claiming" /\ batch[r][i] # NULL => batch[r][i].group = "none"

\* A relay's place and memory change in its own steps only.
LEMMA OwnSteps ==
    ASSUME TypeOK, NEW r \in Relays, [Next]_vars
    PROVE  \/ RelayStep(r) \/ Disturbance(r) \/ Restart(r)
           \/ batch'[r] = batch[r] /\ pc'[r] = pc[r]
<1> DEFINE Same == batch'[r] = batch[r] /\ pc'[r] = pc[r]
<1>1. ASSUME NEW s \in Relays \ {r}, RelayStep(s) PROVE Same
  <2>1. CASE Select(s)
    BY <2>1 DEF Select, TypeOK
  <2>2. CASE MarkInFlight(s)
    BY <2>2 DEF MarkInFlight, TypeOK
  <2>3. ASSUME NEW i \in RowIds, Publishing(s, i), NEW g, Put(s, i, g) PROVE Same
    BY <2>3 DEF Publishing, Put, TypeOK
  <2>4. CASE Process(s)
    <3>1. ASSUME NEW i \in RowIds, NEW trips \in BOOLEAN, PublishMeetsOutage(s, i, trips)
          PROVE  Same
      BY <3>1 DEF PublishMeetsOutage, Publishing, TypeOK
    <3> QED
      BY <2>3, <2>4, <3>1 DEF Process, PreExceeded, PublishSucceeds, PublishFails
  <2>5. CASE Record(s)
    BY <2>5 DEF Record, TypeOK
  <2>6. CASE Commit(s)
    BY <2>6 DEF Commit, TypeOK
  <2> QED
    BY <1>1, <2>1, <2>2, <2>4, <2>5, <2>6 DEF RelayStep
<1>2. ASSUME NEW s \in Relays \ {r}, Disturbance(s) \/ Restart(s) PROVE Same
  BY <1>2 DEF Disturbance, Restart, CutBatch, IterationFails, Crash, Forget, TypeOK
<1>3. ASSUME NEW t \in Tasks, Enqueue(t) PROVE Same
  BY <1>3 DEF Enqueue
<1>4. CASE Operator
  BY <1>4 DEF Operator, ResetRetries, Replay, Purge
<1>5. CASE Tick \/ UNCHANGED vars
  BY <1>5 DEF Tick, vars
<1> QED
  BY <1>1, <1>2, <1>3, <1>4, <1>5 DEF Next

LEMMA NextUnsent ==
    ASSUME TypeOK, ClaimedUnsent, [Next]_vars
    PROVE  ClaimedUnsent'
<1> SUFFICES ASSUME NEW r \in Relays, NEW i \in RowIds, pc'[r] = "claiming", batch'[r][i] # NULL
             PROVE  batch'[r][i].group = "none"
  BY DEF ClaimedUnsent
<1>1. CASE Select(r)
  BY <1>1 DEF Select, TypeOK
<1>2. CASE batch'[r] = batch[r] /\ pc'[r] = pc[r]
  BY <1>2 DEF ClaimedUnsent
<1>3. CASE MarkInFlight(r) \/ Record(r) \/ Commit(r) \/ IterationFails(r) \/ Crash(r) \/ Restart(r)
  BY <1>3 DEF MarkInFlight, Record, Commit, IterationFails, Crash, Restart, TypeOK
<1>4. CASE Process(r) \/ CutBatch(r)
  BY <1>4 DEF Process, PreExceeded, PublishSucceeds, PublishFails, PublishMeetsOutage, Publishing,
              CutBatch, TypeOK
<1> QED
  BY <1>1, <1>2, <1>3, <1>4, OwnSteps DEF RelayStep, Disturbance

LEMMA BatchBegins ==
    ASSUME TypeOK, ClaimedUnsent, NEW r \in Relays, NEW M \in SUBSET RowIds, NEW R \in [M -> Nat],
           MarkInFlight(r), Publishes(r, M, R)'
    PROVE  BatchOf(r, M, R)!Init'
<1>1. /\ pc[r] = "claiming" /\ batch' = batch /\ pc'[r] = "publishing" /\ Batch(r)' = M
      /\ \A i \in M : batch[r][i] # NULL
  BY DEF MarkInFlight, Publishes, Batch, Holds, TypeOK
<1>2. GroupIn(r, M)' = [m \in M |-> "none"]
  BY <1>1 DEF GroupIn, ClaimedUnsent
<1> QED
  BY <1>1, <1>2 DEF BatchOf!Init

\* A message is put into a group its retries permit.
LEMMA PutSettles ==
    ASSUME TypeOK, NEW r \in Relays, NEW M \in SUBSET RowIds, NEW R \in [M -> Nat],
           Publishes(r, M, R), NEW i \in RowIds, Publishing(r, i),
           NEW g \in {"published", "failed", "exceeded", "deferred"}, Put(r, i, g),
           BatchOf(r, M, R)!Permitted(i, g)
    PROVE  BatchOf(r, M, R)!Next
<1>1. /\ i \in M /\ batch[r][i] # NULL /\ batch[r][i].group = "none" /\ batch[r][i] \in Message
      /\ pc[r] = "publishing" /\ pc' = pc
      /\ \A j \in RowIds : j \in M <=> batch[r][j] # NULL
  BY DEF Publishing, Unclassified, Group, Batch, Holds, Publishes, TypeOK
<1>2. /\ batch'[r][i] = [batch[r][i] EXCEPT !.group = g]
      /\ \A j \in RowIds \ {i} : batch'[r][j] = batch[r][j]
  BY DEF Put, TypeOK
<1>3. batch'[r][i] # NULL /\ batch'[r][i].group = g
  BY <1>1, <1>2, NullAssumption DEF Message, Groups
<1>4. Batch(r)' = M
  BY <1>1, <1>2, <1>3 DEF Batch, Holds
<1>5. GroupIn(r, M)' = [GroupIn(r, M) EXCEPT ![i] = g]
  BY <1>1, <1>2, <1>3 DEF GroupIn
<1>6. GroupIn(r, M)[i] = "none"
  BY <1>1 DEF GroupIn
<1>7. BatchOf(r, M, R)!Settle(i, g)
  BY <1>1, <1>4, <1>5, <1>6 DEF BatchOf!Settle, BatchOf!Left, Publishes
<1> QED
  BY <1>1, <1>7 DEF BatchOf!Next

LEMMA OutageSettles ==
    ASSUME TypeOK, NEW r \in Relays, NEW M \in SUBSET RowIds, NEW R \in [M -> Nat],
           Publishes(r, M, R), NEW i \in RowIds, NEW trips \in BOOLEAN,
           PublishMeetsOutage(r, i, trips)
    PROVE  BatchOf(r, M, R)!Next
<1>1. /\ i \in M /\ batch[r][i] # NULL /\ batch[r][i].group = "none"
      /\ \A j \in M : batch[r][j] \in Message /\ batch[r][j] # NULL
      /\ pc[r] = "publishing" /\ pc' = pc
      /\ \A j \in RowIds : j \in M <=> batch[r][j] # NULL
      /\ R[i] < MaxRetries /\ batch[r][i].retries < MaxRetries
  BY DEF PublishMeetsOutage, Publishing, Unclassified, Group, Batch, Holds, Publishes, TypeOK
<1>2. \A j \in RowIds : j \in Unclassified(r) <=> j \in M /\ batch[r][j].group = "none"
  BY <1>1 DEF Unclassified, Group, Batch, Holds
<1>3. \A j \in RowIds : batch'[r][j] =
         IF j = i \/ (trips /\ j \in Unclassified(r))
         THEN [batch[r][j] EXCEPT !.group = OutageGroup(batch[r][j])]
         ELSE batch[r][j]
  BY DEF PublishMeetsOutage, TypeOK
<1>4. \A j \in M : OutageGroup(batch[r][j]) = IF R[j] < MaxRetries THEN "deferred" ELSE "exceeded"
  <2>1. \A j \in M : batch[r][j].retries = R[j] /\ R[j] \in Nat
    BY DEF Publishes
  <2> QED
    BY <2>1, ParametersAssumption DEF OutageGroup
<1>5. \A j \in RowIds : j = i \/ (trips /\ j \in Unclassified(r)) =>
         /\ batch'[r][j] # NULL
         /\ batch'[r][j].group = IF R[j] < MaxRetries THEN "deferred" ELSE "exceeded"
  <2> SUFFICES ASSUME NEW j \in RowIds, j = i \/ (trips /\ j \in Unclassified(r))
               PROVE  /\ batch'[r][j] # NULL
                      /\ batch'[r][j].group = IF R[j] < MaxRetries THEN "deferred" ELSE "exceeded"
    OBVIOUS
  <2>1. j \in M /\ batch[r][j] \in Message
    BY <1>1, <1>2
  <2>2. batch'[r][j] = [batch[r][j] EXCEPT !.group = OutageGroup(batch[r][j])]
    BY <1>3
  <2>3. OutageGroup(batch[r][j]) \in Groups
    BY DEF OutageGroup, Groups
  <2>4. batch'[r][j] \in Message /\ batch'[r][j].group = OutageGroup(batch[r][j])
    BY <2>1, <2>2, <2>3 DEF Message
  <2> QED
    BY <1>4, <2>1, <2>4, NullAssumption
<1>6. Batch(r)' = M
  <2>1. ASSUME NEW j \in RowIds PROVE batch'[r][j] # NULL <=> j \in M
    <3>1. CASE j = i \/ (trips /\ j \in Unclassified(r))
      BY <1>1, <1>2, <1>5, <3>1
    <3>2. CASE ~(j = i \/ (trips /\ j \in Unclassified(r)))
      BY <1>1, <1>3, <3>2
    <3> QED
      BY <3>1, <3>2
  <2> QED
    BY <2>1 DEF Batch, Holds
<1>7. CASE trips
  <2>1. GroupIn(r, M)' = [m \in M |->
           IF ~(GroupIn(r, M)[m] = "none") THEN GroupIn(r, M)[m]
           ELSE IF R[m] < MaxRetries THEN "deferred" ELSE "exceeded"]
    <3>1. ASSUME NEW m \in M, batch[r][m].group = "none"
          PROVE  /\ batch'[r][m] # NULL
                 /\ batch'[r][m].group = IF R[m] < MaxRetries THEN "deferred" ELSE "exceeded"
      BY <1>2, <1>5, <1>7, <3>1
    <3>2. ASSUME NEW m \in M, batch[r][m].group # "none"
          PROVE  batch'[r][m] = batch[r][m]
      BY <1>1, <1>2, <1>3, <3>2
    <3>3. \A m \in M : batch[r][m] # NULL
      BY <1>1
    <3> QED
      BY <3>1, <3>2, <3>3 DEF GroupIn
  <2>2. GroupIn(r, M)'[i] = "deferred"
    BY <1>1, <1>5 DEF GroupIn
  <2>3. BatchOf(r, M, R)!Trip
    BY <1>1, <1>6, <2>1, <2>2 DEF BatchOf!Trip, BatchOf!Left, Publishes
  <2> QED
    BY <2>3 DEF BatchOf!Next
<1>8. CASE ~trips
  <2>1. GroupIn(r, M)' = [GroupIn(r, M) EXCEPT ![i] = "deferred"]
    BY <1>1, <1>3, <1>5, <1>8 DEF GroupIn
  <2>2. GroupIn(r, M)[i] = "none"
    BY <1>1 DEF GroupIn
  <2>3. BatchOf(r, M, R)!Settle(i, "deferred")
    BY <1>1, <1>6, <2>1, <2>2 DEF BatchOf!Settle, BatchOf!Left, BatchOf!Permitted, Publishes
  <2> QED
    BY <1>1, <2>3 DEF BatchOf!Next
<1> QED
  BY <1>7, <1>8

LEMMA BatchGoesOn ==
    ASSUME TypeOK, NEW r \in Relays, NEW M \in SUBSET RowIds, NEW R \in [M -> Nat],
           Publishes(r, M, R), ~Abandons(r), [Next]_vars
    PROVE  BatchOf(r, M, R)!Next \/ UNCHANGED BatchOf(r, M, R)!vars
<1>1. /\ pc[r] = "publishing"
      /\ \A j \in RowIds : j \in M <=> batch[r][j] # NULL
  BY DEF Publishes, Batch, Holds
<1>2. ASSUME NEW i \in RowIds, Publishing(r, i)
      PROVE  i \in M /\ R[i] \in Nat /\ batch[r][i].retries = R[i]
  BY <1>2 DEF Publishing, Unclassified, Group, Publishes
<1>3. ASSUME NEW i \in RowIds, PreExceeded(r, i) PROVE BatchOf(r, M, R)!Next
  <2>1. Publishing(r, i) /\ R[i] >= MaxRetries - 1
    BY <1>2, <1>3, ParametersAssumption DEF PreExceeded
  <2> QED
    BY <1>3, <2>1, PutSettles DEF PreExceeded, BatchOf!Permitted
<1>4. ASSUME NEW i \in RowIds, PublishSucceeds(r, i) PROVE BatchOf(r, M, R)!Next
  <2>1. Publishing(r, i) /\ R[i] < MaxRetries
    BY <1>2, <1>4 DEF PublishSucceeds
  <2> QED
    BY <1>4, <2>1, PutSettles DEF PublishSucceeds, BatchOf!Permitted
<1>5. ASSUME NEW i \in RowIds, PublishFails(r, i) PROVE BatchOf(r, M, R)!Next
  <2>1. /\ Publishing(r, i) /\ batch[r][i].retries = R[i] /\ R[i] \in Nat
        /\ Put(r, i, IF LastAttempt(batch[r][i]) THEN "exceeded" ELSE "failed")
    BY <1>2, <1>5 DEF PublishFails
  <2>2. CASE LastAttempt(batch[r][i])
    <3>1. BatchOf(r, M, R)!Permitted(i, "exceeded")
      BY <2>1, <2>2 DEF LastAttempt, BatchOf!Permitted
    <3> QED
      BY <2>1, <2>2, <3>1, PutSettles
  <2>3. CASE ~LastAttempt(batch[r][i])
    <3>1. BatchOf(r, M, R)!Permitted(i, "failed")
      BY <2>1, <2>3, ParametersAssumption DEF LastAttempt, BatchOf!Permitted
    <3> QED
      BY <2>1, <2>3, <3>1, PutSettles
  <2> QED
    BY <2>2, <2>3
<1>6. CASE Record(r)
  <2>1. batch' = batch /\ pc'[r] = "recording"
    BY <1>6 DEF Record, TypeOK
  <2>2. GroupIn(r, M)' = GroupIn(r, M)
    BY <2>1 DEF GroupIn
  <2>3. BatchOf(r, M, R)!End
    BY <1>1, <2>1, <2>2 DEF BatchOf!End, Publishes
  <2> QED
    BY <2>3 DEF BatchOf!Next
<1>7. CASE CutBatch(r)
  <2>1. /\ Unclassified(r) # {}
        /\ \A j \in RowIds : batch'[r][j] = IF j \in Unclassified(r) THEN NULL ELSE batch[r][j]
    BY <1>7 DEF CutBatch, TypeOK
  <2>2. \A j \in RowIds : j \in Unclassified(r) <=> j \in M /\ batch[r][j].group = "none"
    BY <1>1 DEF Unclassified, Group, Batch, Holds
  <2>3. GroupIn(r, M)' = GroupIn(r, M)
    BY <1>1, <2>1, <2>2 DEF GroupIn
  <2>4. Batch(r)' # M
    <3>1. PICK j \in RowIds : j \in Unclassified(r)
      BY <2>1 DEF Unclassified, Group, Batch
    <3>2. j \in M /\ j \notin Batch(r)'
      BY <2>1, <2>2, <3>1 DEF Batch, Holds
    <3> QED
      BY <3>2
  <2>5. BatchOf(r, M, R)!End
    BY <1>1, <2>3, <2>4 DEF BatchOf!End, Publishes
  <2> QED
    BY <2>5 DEF BatchOf!Next
<1>8. CASE batch'[r] = batch[r] /\ pc'[r] = pc[r]
  BY <1>8 DEF GroupIn, Batch, Holds, BatchOf!vars
<1>9. ~(Select(r) \/ MarkInFlight(r) \/ Commit(r) \/ Restart(r))
  BY <1>1 DEF Select, MarkInFlight, Commit, Restart
<1> QED
  BY <1>3, <1>4, <1>5, <1>6, <1>7, <1>8, <1>9, OutageSettles, OwnSteps
  DEF RelayStep, Disturbance, Abandons, Process

\* For any number of relays: between its transactions a relay does with its batch
\* what BatchContract permits, and only that, until the batch is over or lost.
THEOREM BatchesFollowContract == Spec => BatchesKeepContract
<1>1. Init => ClaimedUnsent
  BY DEF Init, ClaimedUnsent
<1>2. Inv /\ ClaimedUnsent /\ [Next]_vars => ClaimedUnsent'
  BY NextUnsent DEF Inv
<1>3. ASSUME Inv, ClaimedUnsent, [Next]_vars
      PROVE  \A r \in Relays : \A M \in SUBSET RowIds : \A R \in [M -> Nat] :
                /\ MarkInFlight(r) /\ Publishes(r, M, R)' => BatchOf(r, M, R)!Init'
                /\ Publishes(r, M, R) /\ ~Abandons(r)
                   => BatchOf(r, M, R)!Next \/ UNCHANGED BatchOf(r, M, R)!vars
  BY <1>3, BatchBegins, BatchGoesOn DEF Inv
<1> QED
  BY <1>1, <1>2, <1>3, Invariance, PTL DEF Spec, BatchesKeepContract
===============================================================================
