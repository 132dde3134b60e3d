---------------------------- MODULE DeadLetterProofs ---------------------------
(***************************************************************************)
(* Proofs about DeadLetterOps, for any number of replays, admin actions and *)
(* purges, any letters, limits and chunk size, and any number of failures.  *)
(***************************************************************************)
EXTENDS DeadLetterOps, FiniteSetTheorems, WellFoundedInduction, TLAPS

\* A set of numbers has a least element.
LEMMA Smallest ==
    ASSUME NEW S \in SUBSET Nat, S # {}
    PROVE  \E x \in S : \A y \in S : x <= y
<1> DEFINE R == OpToRel(<, Nat)
<1>1. IsWellFoundedOn(R, Nat)
    BY NatLessThanWellFounded
<1>2. \A x, y \in Nat : y < x => <<y, x>> \in R
    BY DEF OpToRel
<1> HIDE DEF R
<1>3. PICK x \in S : \A y \in S : ~(<<y, x>> \in R)
    BY <1>1, WFMin
<1>4. ASSUME NEW y \in S PROVE x <= y
    <2>1. x \in Nat /\ y \in Nat
        OBVIOUS
    <2>2. ~(y < x)
        BY <1>2, <1>3, <2>1
    <2> QED
        BY <2>1, <2>2
<1> QED
    BY <1>4

LEMMA LeastIs ==
    ASSUME NEW S \in SUBSET Nat, S # {}
    PROVE  Least(S) \in S /\ \A j \in S : Least(S) <= j
BY Smallest DEF Least

-------------------------------------------------------------------------------
\* Types, and which rows an actor holds where it is.

CommandAt == {"idle", "locking"} \cup Ended
AdminAt == {"idle", "listed", "locking", "replayed", "logged"} \cup Ended
PurgerAt == {"idle", "reading", "deleting"} \cup Ended

Places ==
    /\ \A a \in Commands : pc[a] \in CommandAt
    /\ \A a \in Admins : pc[a] \in AdminAt
    /\ \A p \in Purgers : pc[p] \in PurgerAt

\* A lock is held by one transaction, on a letter that is there, and only while the
\* transaction is open.
Locks ==
    /\ \A a \in Actors : mine[a] \subseteq present
    /\ \A a, b \in Actors : a # b => mine[a] \cap mine[b] = {}
    /\ \A a \in Actors : pc[a] \notin {"locking", "deleting"} => at[a] = NULL
    /\ \A a \in Actors :
          pc[a] \notin {"locking", "deleting", "replayed", "logged"} => mine[a] = {}

Base == TypeOK /\ Places /\ Locks

LEMMA Sides ==
    /\ Commands \subseteq Replayers /\ Admins \subseteq Replayers
    /\ Replayers \subseteq Actors /\ Purgers \subseteq Actors
    /\ \A a \in Actors : a \in Replayers <=> a \notin Purgers
    /\ \A a \in Replayers : a \in Commands <=> a \notin Admins
BY OpsAssumption DEF Replayers, Actors

LEMMA InitBase == Init => Base
<1> SUFFICES ASSUME Init PROVE Base
    OBVIOUS
<1>1. nextId \in 1..(MaxLetters + 1) /\ Known \subseteq Ids
    BY OpsAssumption DEF Init, Known, Ids
<1>2. TypeOK
    BY <1>1, OpsAssumption DEF Init, TypeOK, Ids, Ended
<1>3. Places
    BY Sides DEF Init, Places, CommandAt, AdminAt, PurgerAt
<1>4. Locks
    BY DEF Init, Locks
<1> QED
    BY <1>2, <1>3, <1>4 DEF Base

LEMMA NextTypes == TypeOK /\ [Next]_vars => TypeOK'
<1> SUFFICES ASSUME TypeOK, [Next]_vars PROVE TypeOK'
    OBVIOUS
<1> USE Sides DEF TypeOK
<1>a. Known \subseteq Ids /\ nextId \in Nat
    BY OpsAssumption DEF Known, Ids
<1>1. CASE Dies
    <2>1. nextId' \in 1..(MaxLetters + 1) /\ present' \subseteq Known'
        BY <1>1, <1>a, OpsAssumption DEF Dies, Known, Ids
    <2> QED
        BY <1>1, <2>1 DEF Dies, arguments, statement
<1>2. ASSUME NEW a \in Commands, CommandStarts(a) PROVE TypeOK'
    BY <1>2, <1>a DEF CommandStarts, SelectForUpdate, Goto, table, Known
<1>3. ASSUME NEW a \in Admins, AdminLists(a) PROVE TypeOK'
    BY <1>3, <1>a DEF AdminLists, Goto, table, statement, Known
<1>4. ASSUME NEW p \in Purgers, PurgeStarts(p) PROVE TypeOK'
    <2>1. \E c \in 1..(MaxLetters + 1) : cut' = [cut EXCEPT ![p] = c]
        BY <1>4, <1>a, OpsAssumption DEF PurgeStarts
    <2>2. \E b \in BOOLEAN : onlyOld' = [onlyOld EXCEPT ![p] = b]
        BY <1>4 DEF PurgeStarts
    <2>3. began' \in [Purgers -> 1..(MaxLetters + 1)]
        BY <1>4 DEF PurgeStarts
    <2>4. cut' \in [Purgers -> 1..(MaxLetters + 1)]
        BY <2>1
    <2>5. onlyOld' \in [Purgers -> BOOLEAN]
        BY <2>2
    <2>6. pc' = [pc EXCEPT ![p] = "reading"]
        BY <1>4 DEF PurgeStarts, Goto
    <2> QED
        BY <1>4, <2>3, <2>4, <2>5, <2>6 DEF PurgeStarts, table, statement, Known
<1>5. ASSUME NEW a \in Actors, StatementStep(a) PROVE TypeOK'
    <2>1. UNCHANGED <<table, pc, arguments, log, taken>>
        BY <1>5 DEF StatementStep, Reach, WaitEnds
    <2>2. todo' \in [Actors -> SUBSET Ids]
        BY <1>5 DEF StatementStep, Reach, WaitEnds
    <2>3. at[a] # NULL => at[a] \in Ids
        OBVIOUS
    <2>4. ASSUME Reach(a)
          PROVE  \E i \in Ids : Meet(a, i)
        <3>1. todo[a] \in SUBSET Nat /\ todo[a] # {}
            BY <2>4 DEF Reach, Ids
        <3>2. NextRows(a) \subseteq todo[a]
            BY <3>1, LeastIs DEF NextRows
        <3> QED
            BY <2>4, <3>2 DEF Reach
    <2>5. /\ mine' \in [Actors -> SUBSET Ids]
          /\ at' \in [Actors -> Ids \cup {NULL}]
        BY <1>5, <2>3, <2>4 DEF StatementStep, WaitEnds, Meet, LockRow
    <2> QED
        BY <2>1, <2>2, <2>5 DEF table, arguments, Known
<1>6. ASSUME NEW a \in Commands, ReplayCommits(a) PROVE TypeOK'
    BY <1>6, <1>a DEF ReplayCommits, TakeMine, Goto, arguments, Known, Ended
<1>7. ASSUME NEW a \in Admins, AdminStep(a) PROVE TypeOK'
    <2>1. CASE AdminReplays(a)
        BY <2>1, <1>a DEF AdminReplays, SelectForUpdate, Goto, table, arguments, Known
    <2>2. CASE ReplayReturns(a)
        BY <2>2, <1>a DEF ReplayReturns, Goto, table, arguments, statement, Known
    <2>3. CASE WriteLog(a)
        <3>1. log' \in [Admins -> SUBSET Ids] /\ pc' = [pc EXCEPT ![a] = "logged"]
            BY <2>3 DEF WriteLog, Goto
        <3> QED
            BY <2>3, <3>1 DEF WriteLog, table, arguments, statement, Known
    <2>4. CASE AdminCommits(a)
        BY <2>4, <1>a DEF AdminCommits, TakeMine, Goto, arguments, Known, Ended
    <2> QED
        BY <1>7, <2>1, <2>2, <2>3, <2>4 DEF AdminStep
<1>8. ASSUME NEW p \in Purgers, PurgeStep(p) PROVE TypeOK'
    <2>1. CASE ReadChunk(p)
        <3>1. \E chunk \in SUBSET Ids, place \in {"done", "deleting"} :
                 todo' = [todo EXCEPT ![p] = chunk] /\ pc' = [pc EXCEPT ![p] = place]
            BY <2>1, <1>a DEF ReadChunk, Chunks, Goto
        <3> QED
            BY <2>1, <3>1 DEF ReadChunk, table, arguments, Known, Ended
    <2>2. CASE DeleteChunk(p)
        BY <2>2, <1>a DEF DeleteChunk, AfterChunk, TakeMine, Goto, arguments, Known
    <2> QED
        BY <1>8, <2>1, <2>2 DEF PurgeStep
<1>9. ASSUME NEW a \in Actors, Abort(a) PROVE TypeOK'
    BY <1>9, <1>a DEF Abort, Goto, table, arguments, Known, Ended
<1>10. CASE UNCHANGED vars
    BY <1>10 DEF vars, table, arguments, statement, Known
<1> QED
    BY <1>1, <1>2, <1>3, <1>4, <1>5, <1>6, <1>7, <1>8, <1>9, <1>10
       DEF Next, Starts, Step, Fails, Victim, Circle

LEMMA NextPlaces == TypeOK /\ Places /\ [Next]_vars => Places'
<1> SUFFICES ASSUME TypeOK, Places, [Next]_vars PROVE Places'
    OBVIOUS
<1> USE Sides DEF Places, CommandAt, AdminAt, PurgerAt, Ended
<1>a. pc \in [Actors -> {"idle", "listed", "locking", "replayed", "logged",
                         "reading", "deleting"} \cup Ended]
    BY DEF TypeOK
<1>1. CASE pc' = pc
    BY <1>1
<1>2. ASSUME NEW a \in Commands, CommandStarts(a) \/ ReplayCommits(a) PROVE Places'
    BY <1>2, <1>a DEF CommandStarts, SelectForUpdate, ReplayCommits, Goto
<1>3. ASSUME NEW a \in Admins, AdminLists(a) \/ AdminStep(a) PROVE Places'
    BY <1>3, <1>a DEF AdminLists, AdminStep, AdminReplays, SelectForUpdate, ReplayReturns, WriteLog,
                      AdminCommits, Goto
<1>4. ASSUME NEW p \in Purgers, PurgeStarts(p) \/ PurgeStep(p) PROVE Places'
    BY <1>4, <1>a DEF PurgeStarts, PurgeStep, ReadChunk, DeleteChunk, AfterChunk, Goto
<1>5. ASSUME NEW a \in Actors, Abort(a) PROVE Places'
    BY <1>5, <1>a DEF Abort, Goto
<1>6. ASSUME NEW a \in Actors, StatementStep(a) PROVE Places'
    BY <1>1, <1>6 DEF StatementStep, Reach, WaitEnds
<1>7. CASE Dies \/ UNCHANGED vars
    BY <1>1, <1>7 DEF Dies, vars
<1> QED
    BY <1>2, <1>3, <1>4, <1>5, <1>6, <1>7 DEF Next, Starts, Step, Fails, Victim, Circle

\* What the statement of an actor may do: lock a free row that is there, or wait.
LEMMA Statement ==
    ASSUME TypeOK, NEW a \in Actors, StatementStep(a)
    PROVE  /\ pc[a] \in {"locking", "deleting"} \/ at[a] # NULL
           /\ \E i \in Ids :
                 /\ i \in todo[a] \/ i = at[a]
                 /\ \/ /\ mine' = [mine EXCEPT ![a] = @ \cup ({i} \cap present)]
                       /\ MayLock(a, i)
                       /\ at' = [at EXCEPT ![a] = NULL]
                    \/ /\ mine' = mine
                       /\ at[a] = NULL
                       /\ at' = [at EXCEPT ![a] = i]
                 /\ \/ i = at[a] /\ todo' = todo
                    \/ at[a] = NULL /\ i \in NextRows(a) /\ todo' = [todo EXCEPT ![a] = @ \ {i}]
           /\ UNCHANGED <<table, pc, arguments, log, taken>>
<1>1. CASE WaitEnds(a)
    BY <1>1 DEF WaitEnds, LockRow, TypeOK
<1>2. CASE Reach(a)
    <2>1. todo[a] \in SUBSET Nat /\ todo[a] # {}
        BY <1>2 DEF Reach, Ids, TypeOK
    <2>2. NextRows(a) \subseteq todo[a]
        BY <2>1, LeastIs DEF NextRows
    <2>3. PICK i \in NextRows(a) : Meet(a, i) /\ todo' = [todo EXCEPT ![a] = @ \ {i}]
        BY <1>2 DEF Reach
    <2>4. i \in Ids /\ i \in todo[a]
        BY <2>2, <2>3 DEF TypeOK
    <2>5. at[a] = NULL /\ at = [at EXCEPT ![a] = NULL]
        BY <1>2 DEF Reach, TypeOK
    <2>6. \/ /\ mine' = [mine EXCEPT ![a] = @ \cup ({i} \cap present)]
             /\ MayLock(a, i)
             /\ at' = [at EXCEPT ![a] = NULL]
          \/ /\ mine' = mine
             /\ at' = [at EXCEPT ![a] = i]
        BY <2>3, <2>5 DEF Meet, LockRow
    <2> QED
        BY <1>2, <2>3, <2>4, <2>5, <2>6 DEF Reach, Locking
<1> QED
    BY <1>1, <1>2 DEF StatementStep

LEMMA NextLocks == Base /\ Places' /\ [Next]_vars => Locks'
<1> SUFFICES ASSUME Base, Places', [Next]_vars PROVE Locks'
    OBVIOUS
<1> USE Sides DEF Locks
<1>a. /\ pc \in [Actors -> {"idle", "listed", "locking", "replayed", "logged",
                            "reading", "deleting"} \cup Ended]
      /\ mine \in [Actors -> SUBSET Ids] /\ at \in [Actors -> Ids \cup {NULL}]
      /\ Locks
    BY DEF Base, TypeOK
<1>1. ASSUME NEW a \in Actors, NEW l \in {"listed", "locking", "replayed", "logged", "reading",
                                          "deleting", "done"},
             pc' = [pc EXCEPT ![a] = l], at[a] = NULL,
             mine[a] = {} \/ l \in {"replayed", "logged"},
             UNCHANGED <<at, mine, present>>
      PROVE  Locks'
    BY <1>a, <1>1
<1>2. CASE Dies \/ UNCHANGED vars
    <2>1. present \subseteq present' /\ UNCHANGED <<pc, at, mine>>
        BY <1>2 DEF Dies, vars, table, statement
    <2> QED
        BY <1>a, <2>1
<1>3. ASSUME NEW a \in Actors, StatementStep(a) PROVE Locks'
    <2>1. PICK i \in Ids :
                 \/ /\ mine' = [mine EXCEPT ![a] = @ \cup ({i} \cap present)]
                    /\ MayLock(a, i)
                    /\ at' = [at EXCEPT ![a] = NULL]
                 \/ /\ mine' = mine
                    /\ at[a] = NULL
                    /\ at' = [at EXCEPT ![a] = i]
        BY <1>3, Statement DEF Base
    <2>2. pc[a] \in {"locking", "deleting"} /\ UNCHANGED <<present, pc>>
        BY <1>3, <1>a, Statement DEF Base, table
    <2> QED
        BY <1>a, <2>1, <2>2 DEF MayLock
<1>4. ASSUME NEW a \in Actors, NEW l \in {"reading", "done"},
             TakeMine(a), pc' = [pc EXCEPT ![a] = l], at[a] = NULL
      PROVE  Locks'
    BY <1>a, <1>4 DEF TakeMine
<1>5. ASSUME NEW a \in Actors, Abort(a) PROVE Locks'
    BY <1>a, <1>5 DEF Abort, Goto, table, Ended
<1>6. ASSUME NEW a \in Commands, CommandStarts(a) PROVE Locks'
    BY <1>a, <1>1, <1>6 DEF CommandStarts, SelectForUpdate, Goto, table
<1>7. ASSUME NEW a \in Commands, ReplayCommits(a) PROVE Locks'
    BY <1>4, <1>7 DEF ReplayCommits, AllLocked, Goto
<1>8. ASSUME NEW a \in Admins, AdminLists(a) PROVE Locks'
    BY <1>a, <1>1, <1>8 DEF AdminLists, Goto, table, statement
<1>9. ASSUME NEW a \in Admins, AdminStep(a) PROVE Locks'
    <2>1. CASE AdminReplays(a)
        BY <1>a, <1>1, <2>1 DEF AdminReplays, SelectForUpdate, Goto, table
    <2>2. CASE ReplayReturns(a)
        BY <1>a, <1>1, <2>2 DEF ReplayReturns, AllLocked, Goto, table, statement
    <2>3. CASE WriteLog(a)
        BY <1>a, <1>1, <2>3 DEF WriteLog, Goto, table, statement
    <2>4. CASE AdminCommits(a)
        <3>1. at[a] = NULL
            BY <1>a, <2>4 DEF AdminCommits
        <3> QED
            BY <1>4, <2>4, <3>1 DEF AdminCommits, Goto
    <2> QED
        BY <1>9, <2>1, <2>2, <2>3, <2>4 DEF AdminStep
<1>10. ASSUME NEW p \in Purgers, PurgeStarts(p) PROVE Locks'
    BY <1>a, <1>1, <1>10 DEF PurgeStarts, Goto, table, statement
<1>11. ASSUME NEW p \in Purgers, PurgeStep(p) PROVE Locks'
    <2>1. CASE ReadChunk(p)
        BY <1>a, <1>1, <2>1 DEF ReadChunk, Goto, table
    <2>2. CASE DeleteChunk(p)
        BY <1>4, <2>2 DEF DeleteChunk, AfterChunk, AllLocked, Goto
    <2> QED
        BY <1>11, <2>1, <2>2 DEF PurgeStep
<1> QED
    BY <1>2, <1>3, <1>5, <1>6, <1>7, <1>8, <1>9, <1>10, <1>11
       DEF Next, Starts, Step, Fails, Victim, Circle

LEMMA NextBase == Base /\ [Next]_vars => Base'
BY NextTypes, NextPlaces, NextLocks DEF Base

\* DeadLetterOps: types and locks, for any number of actors and letters.
THEOREM LocksAlways == Spec => []Base
BY InitBase, NextBase, PTL DEF Spec

-------------------------------------------------------------------------------
\* Replays lock by primary key.

\* What a replay has locked lies before what it waits for, and that before the rows
\* it has not reached.
Ordered ==
    \A a \in Replayers :
        /\ \A i \in mine[a], j \in todo[a] : i < j
        /\ at[a] # NULL => /\ \A i \in mine[a] : i < at[a]
                           /\ \A j \in todo[a] : at[a] < j

LEMMA NextOrdered == Base /\ Ordered /\ [Next]_vars => Ordered'
<1> SUFFICES ASSUME Base, Ordered, [Next]_vars PROVE Ordered'
    OBVIOUS
<1> USE Sides DEF Ordered
<1>a. /\ mine \in [Actors -> SUBSET Ids] /\ at \in [Actors -> Ids \cup {NULL}]
      /\ todo \in [Actors -> SUBSET Ids] /\ Ids \subseteq Nat /\ NULL \notin Nat
    BY OpsAssumption DEF Base, TypeOK, Ids
<1>b. \A a \in Actors : /\ pc[a] \notin {"locking", "deleting"} => at[a] = NULL
                        /\ pc[a] \notin {"locking", "deleting", "replayed", "logged"} => mine[a] = {}
    BY DEF Base, Locks
<1>1. CASE UNCHANGED statement
    BY <1>1 DEF statement
<1>2. ASSUME NEW a \in Actors, NEW ids \in SUBSET Ids, todo' = [todo EXCEPT ![a] = ids],
             pc[a] \in {"idle", "listed", "reading"}, UNCHANGED <<at, mine>>
      PROVE  Ordered'
    BY <1>a, <1>b, <1>2
<1>3. ASSUME NEW a \in Actors, StatementStep(a) PROVE Ordered'
    <2>1. PICK i \in Ids :
                 /\ \/ /\ mine' = [mine EXCEPT ![a] = @ \cup ({i} \cap present)]
                       /\ at' = [at EXCEPT ![a] = NULL]
                    \/ /\ mine' = mine
                       /\ at[a] = NULL
                       /\ at' = [at EXCEPT ![a] = i]
                 /\ i \in todo[a] \/ i = at[a]
                 /\ \/ i = at[a] /\ todo' = todo
                    \/ at[a] = NULL /\ i \in NextRows(a) /\ todo' = [todo EXCEPT ![a] = @ \ {i}]
        BY <1>3, Statement DEF Base
    <2>2. CASE a \notin Replayers
        BY <1>a, <2>1, <2>2
    <2>3. CASE a \in Replayers
        <3>1. \A j \in mine[a] : j < i
            BY <1>a, <2>1, <2>3
        <3>2. \A j \in todo'[a] : i < j
            <4>1. CASE i = at[a] /\ todo' = todo
                BY <1>a, <2>3, <4>1
            <4>2. CASE i \in NextRows(a) /\ i \in todo[a] /\ todo' = [todo EXCEPT ![a] = @ \ {i}]
                <5>1. todo[a] \in SUBSET Nat /\ todo[a] # {}
                    BY <1>a, <4>2
                <5>2. \A j \in todo[a] : i <= j
                    BY <2>3, <4>2, <5>1, LeastIs DEF NextRows
                <5> QED
                    BY <1>a, <4>2, <5>1, <5>2
            <4> QED
                BY <1>a, <2>1, <4>1, <4>2
        <3>3. /\ mine'[a] \subseteq mine[a] \cup {i} /\ at'[a] \in {NULL, i}
              /\ at'[a] # NULL => mine'[a] = mine[a]
              /\ \A b \in Actors \ {a} : mine'[b] = mine[b] /\ at'[b] = at[b] /\ todo'[b] = todo[b]
              /\ todo'[a] \subseteq todo[a]
            BY <1>a, <2>1
        <3>4. ASSUME NEW b \in Replayers, b # a
              PROVE  /\ \A k \in mine'[b], j \in todo'[b] : k < j
                     /\ at'[b] # NULL => /\ \A k \in mine'[b] : k < at'[b]
                                         /\ \A j \in todo'[b] : at'[b] < j
            BY <3>3, <3>4
        <3>5. \A k \in mine'[a], j \in todo'[a] : k < j
            <4>1. \A k \in mine[a], j \in todo'[a] : k < j
                BY <2>3, <3>3
            <4> QED
                BY <3>2, <3>3, <4>1
        <3>6. at'[a] # NULL => /\ \A k \in mine'[a] : k < at'[a]
                               /\ \A j \in todo'[a] : at'[a] < j
            BY <3>1, <3>2, <3>3
        <3> QED
            BY <3>4, <3>5, <3>6
    <2> QED
        BY <2>2, <2>3
<1>4. ASSUME NEW a \in Actors, TakeMine(a) \/ Abort(a) PROVE Ordered'
    BY <1>a, <1>4 DEF TakeMine, Abort
<1>5. Known \subseteq Ids /\ present \subseteq Ids /\ asked \in [Replayers -> SUBSET Ids]
    BY OpsAssumption DEF Base, TypeOK, Known, Ids
<1>6. ASSUME NEW a \in Commands, CommandStarts(a) PROVE Ordered'
    <2>1. \E ids \in SUBSET Ids : todo' = [todo EXCEPT ![a] = ids]
        BY <1>5, <1>6 DEF CommandStarts, SelectForUpdate
    <2> QED
        BY <1>2, <1>6, <2>1 DEF CommandStarts
<1>7. ASSUME NEW a \in Admins, AdminStep(a) PROVE Ordered'
    <2>1. CASE AdminReplays(a)
        <3>1. \E ids \in SUBSET Ids : todo' = [todo EXCEPT ![a] = ids]
            BY <1>5, <2>1 DEF AdminReplays, SelectForUpdate
        <3> QED
            BY <1>2, <2>1, <3>1 DEF AdminReplays
    <2> QED
        BY <1>1, <1>4, <1>7, <2>1 DEF AdminStep, ReplayReturns, WriteLog, AdminCommits
<1>8. ASSUME NEW p \in Purgers, PurgeStep(p) PROVE Ordered'
    <2>1. CASE ReadChunk(p)
        <3>1. \E ids \in SUBSET Ids : todo' = [todo EXCEPT ![p] = ids]
            BY <1>5, <2>1 DEF ReadChunk, Chunks
        <3> QED
            BY <1>2, <2>1, <3>1 DEF ReadChunk
    <2> QED
        BY <1>4, <1>8, <2>1 DEF PurgeStep, DeleteChunk
<1>9. CASE Dies \/ UNCHANGED vars
    BY <1>1, <1>9 DEF Dies, vars
<1>10. ASSUME NEW a \in Actors, (a \in Admins /\ AdminLists(a)) \/ (a \in Purgers /\ PurgeStarts(a))
       PROVE  Ordered'
    BY <1>1, <1>10 DEF AdminLists, PurgeStarts
<1>11. ASSUME NEW a \in Commands, ReplayCommits(a) PROVE Ordered'
    BY <1>4, <1>11 DEF ReplayCommits
<1> QED
    BY <1>3, <1>4, <1>6, <1>7, <1>8, <1>9, <1>10, <1>11
       DEF Next, Starts, Step, Fails, Victim, Circle

LEMMA NoCircle == Base /\ Ordered => ReplaysNeverDeadlock
<1> SUFFICES ASSUME Base, Ordered, NEW s \in SUBSET {a \in Replayers : at[a] # NULL}, s # {},
                    \A a \in s : \E b \in s : WaitsFor(a, b)
             PROVE  FALSE
    <2>1. (\A s \in SUBSET {a \in Replayers : at[a] # NULL} :
              (\A a \in s : \E b \in s : WaitsFor(a, b)) => s = {}) => Circle(Replayers) = {}
        BY DEF Circle
    <2> QED
        BY <2>1 DEF ReplaysNeverDeadlock
<1>1. \A a \in s : at[a] \in Ids /\ a \in Replayers
    BY Sides DEF Base, TypeOK
<1>2. \A a, b \in s : WaitsFor(a, b) => at[a] < at[b]
    BY <1>1 DEF WaitsFor, Ordered
<1> DEFINE room == {MaxLetters - at[a] : a \in s}
<1>3. room \in SUBSET Nat /\ room # {}
    BY <1>1, OpsAssumption DEF Ids
<1>4. PICK n \in room : \A m \in room : n <= m
    BY <1>3, Smallest
<1>5. PICK a \in s : n = MaxLetters - at[a]
    BY <1>4
<1>6. PICK b \in s : at[a] < at[b]
    BY <1>2, <1>5
<1>7. MaxLetters - at[b] \in room
    OBVIOUS
<1>8. n <= MaxLetters - at[b]
    BY <1>4, <1>7
<1> QED
    BY <1>1, <1>5, <1>6, <1>8, OpsAssumption DEF Ids

\* However many replays and admin actions run at once, and whatever purges and fails
\* between them: they never wait for one another in a circle.
THEOREM ReplaysDoNotDeadlock == Spec => []ReplaysNeverDeadlock
<1>1. Init => Ordered
    BY Sides DEF Init, Ordered
<1> QED
    BY <1>1, InitBase, NextBase, NextOrdered, NoCircle, PTL DEF Spec

-------------------------------------------------------------------------------
\* Every letter that left the table left it once.

Departed ==
    /\ \A a \in Actors : taken[a] \subseteq Known \ present
    /\ \A a, b \in Actors : a # b => taken[a] \cap taken[b] = {}
    /\ \A i \in Known \ present : \E a \in Actors : i \in taken[a]

LEMMA NextDeparted == Base /\ Departed /\ [Next]_vars => Departed'
<1> SUFFICES ASSUME Base, Departed, [Next]_vars PROVE Departed'
    OBVIOUS
<1> USE Sides DEF Departed
<1>a. /\ taken \in [Actors -> SUBSET Ids] /\ present \subseteq Known /\ nextId \in Nat
      /\ \A a \in Actors : mine[a] \subseteq present
    BY DEF Base, TypeOK, Locks
<1>1. CASE UNCHANGED <<table, taken>>
    BY <1>1 DEF table, Known
<1>2. CASE Dies
    <2>1. Known' \ present' = Known \ present /\ taken' = taken
        BY <1>a, <1>2 DEF Dies, Known
    <2> QED
        BY <2>1
<1>3. ASSUME NEW a \in Actors, TakeMine(a) PROVE Departed'
    <2>1. /\ Known' \ present' = (Known \ present) \cup mine[a]
          /\ mine[a] \subseteq present
          /\ \A b \in Actors : taken'[b] = IF b = a THEN taken[a] \cup mine[a] ELSE taken[b]
        BY <1>a, <1>3 DEF TakeMine, Known
    <2> QED
        BY <2>1
<1> QED
    BY <1>1, <1>2, <1>3
       DEF Next, Starts, Step, Fails, Victim, Circle, CommandStarts, AdminLists, PurgeStarts,
           StatementStep, Reach, WaitEnds, ReplayCommits, AdminStep, AdminReplays, ReplayReturns,
           WriteLog, AdminCommits, PurgeStep, ReadChunk, DeleteChunk, Abort, vars

\* However the statements interleave and whatever fails: no letter is both replayed
\* and purged, or replayed twice, and none is gone without either.
THEOREM LettersLeaveOnce == Spec => []LeavesOnce
<1>1. ASSUME Base, Departed, NEW i \in Known
      PROVE  Cardinality({a \in Actors : i \in taken[a]}) = IF i \in present THEN 0 ELSE 1
    <2>1. CASE i \in present
        <3>1. {a \in Actors : i \in taken[a]} = {}
            BY <1>1, <2>1 DEF Departed
        <3> QED
            BY <2>1, <3>1, FS_EmptySet
    <2>2. CASE i \notin present
        <3>1. PICK a \in Actors : i \in taken[a]
            BY <1>1, <2>2 DEF Departed
        <3>2. {b \in Actors : i \in taken[b]} = {a}
            BY <1>1, <3>1 DEF Departed
        <3> QED
            BY <2>2, <3>2, FS_Singleton
    <2> QED
        BY <2>1, <2>2
<1>2. Base /\ Departed => LeavesOnce
    BY <1>1 DEF LeavesOnce
<1>3. Init => Departed
    BY DEF Init, Departed
<1> QED
    BY <1>2, <1>3, InitBase, NextBase, NextDeparted, PTL DEF Spec

-------------------------------------------------------------------------------
\* What a replay was asked for and has not moved.

\* Until its transaction ends a replay has moved nothing.  What it was asked for and
\* is still there, it has locked or has still to reach, or the limit was reached.
AskedOf(r) ==
    /\ asked[r] \subseteq Known
    /\ pc[r] # "done" => taken[r] = {}
    /\ pc[r] = "locking" => asked[r] \cap present \subseteq mine[r] \cup todo[r] \cup {at[r]}
    /\ pc[r] \in {"replayed", "logged"} =>
          asked[r] \cap present \subseteq mine[r] \/ Cardinality(mine[r]) = limit[r]
    /\ pc[r] = "done" =>
          asked[r] \cap present = {} \/ Cardinality(taken[r]) = limit[r]

Asked == \A r \in Replayers : AskedOf(r)

\* Nothing of that is disturbed where letters only leave, or arrive unasked for.
LEMMA AskedKept ==
    ASSUME NEW r \in Replayers, AskedOf(r), nextId \in Nat,
           UNCHANGED <<pc[r], asked[r], limit[r], todo[r], at[r], mine[r], taken[r]>>,
           \/ present' \subseteq present /\ nextId' = nextId
           \/ present' = present \cup {nextId} /\ nextId' = nextId + 1
    PROVE  AskedOf(r)'
<1>1. asked[r] \cap present' \subseteq asked[r] \cap present
    BY DEF AskedOf, Known
<1>2. asked[r] \subseteq Known'
    BY DEF AskedOf, Known
<1> QED
    BY <1>1, <1>2 DEF AskedOf

\* The statement of a replay has locked all it was asked for, or the limit.
LEMMA LockedEnough ==
    ASSUME Base, NEW r \in Replayers, AskedOf(r), pc[r] = "locking", AllLocked(r)
    PROVE  asked[r] \cap present \subseteq mine[r] \/ Cardinality(mine[r]) = limit[r]
<1>1. \A i \in present : i # NULL
    BY OpsAssumption DEF Base, TypeOK, Known
<1> QED
    BY <1>1 DEF AskedOf, AllLocked, Enough

LEMMA NextAsked == Base /\ Asked /\ [Next]_vars => Asked'
<1> SUFFICES ASSUME Base, Asked, [Next]_vars, NEW r \in Replayers PROVE AskedOf(r)'
    BY DEF Asked
<1> USE Sides
<1>a. /\ pc \in [Actors -> {"idle", "listed", "locking", "replayed", "logged",
                            "reading", "deleting"} \cup Ended]
      /\ asked \in [Replayers -> SUBSET Ids] /\ limit \in [Replayers -> Limits \cup {NULL}]
      /\ todo \in [Actors -> SUBSET Ids] /\ at \in [Actors -> Ids \cup {NULL}]
      /\ mine \in [Actors -> SUBSET Ids] /\ taken \in [Actors -> SUBSET Ids]
      /\ nextId \in Nat /\ present \subseteq Known
    BY DEF Base, TypeOK
<1>b. AskedOf(r)
    BY DEF Asked
<1>c. /\ \A a \in Actors : mine[a] \subseteq present
      /\ pc[r] # "locking" => at[r] = NULL
    BY DEF Base, Locks, Places, CommandAt, AdminAt, Ended
<1>1. CASE Dies \/ UNCHANGED vars
    BY <1>1, <1>a, <1>b, AskedKept
       DEF Dies, vars, table, arguments, statement
<1>2. ASSUME NEW a \in Actors, a # r, StatementStep(a) PROVE AskedOf(r)'
    <2>1. UNCHANGED <<pc[r], asked[r], limit[r], todo[r], at[r], mine[r], taken[r], present, nextId>>
        BY <1>2, <1>a, Statement DEF Base, table, arguments
    <2> QED
        BY <2>1, <1>a, <1>b, AskedKept
<1>3. CASE StatementStep(r)
    <2>1. PICK i \in Ids :
                 /\ \/ mine' = [mine EXCEPT ![r] = @ \cup ({i} \cap present)]
                    \/ mine' = mine /\ at[r] = NULL /\ at' = [at EXCEPT ![r] = i]
                 /\ \/ i = at[r] /\ todo' = todo
                    \/ at[r] = NULL /\ todo' = [todo EXCEPT ![r] = @ \ {i}]
        BY <1>3, Statement DEF Base
    <2>2. pc[r] = "locking" /\ UNCHANGED <<table, pc, asked, limit, taken>>
        BY <1>3, <1>a, <1>c, Statement DEF Base, arguments, Locks, Places, CommandAt, AdminAt, Ended
    <2>3. present' = present /\ nextId' = nextId
        BY <2>2 DEF table
    <2>4. \A j \in present : j # NULL
        BY OpsAssumption DEF Base, TypeOK, Known
    <2>5. asked[r] \cap present \subseteq mine[r] \cup todo[r] \cup {at[r]}
        BY <1>b, <2>2 DEF AskedOf
    <2>6. asked[r] \cap present \subseteq mine'[r] \cup todo'[r] \cup {at'[r]}
        BY <1>a, <2>1, <2>4, <2>5
    <2> QED
        BY <1>b, <2>2, <2>3, <2>6 DEF AskedOf, Known
<1>4. ASSUME NEW a \in Actors, TakeMine(a), NEW l \in {"reading", "done"},
             pc' = [pc EXCEPT ![a] = l], UNCHANGED arguments, a # r
      PROVE  AskedOf(r)'
    BY <1>4, <1>a, <1>b, AskedKept DEF TakeMine, arguments
<1>5. ASSUME TakeMine(r), pc' = [pc EXCEPT ![r] = "done"], UNCHANGED arguments,
             pc[r] # "done",
             asked[r] \cap present \subseteq mine[r] \/ Cardinality(mine[r]) = limit[r]
      PROVE  AskedOf(r)'
    <2>1. /\ pc'[r] = "done" /\ taken'[r] = mine[r] /\ present' = present \ mine[r]
          /\ UNCHANGED <<asked, limit, nextId>>
        BY <1>5, <1>a, <1>b DEF TakeMine, arguments, AskedOf
    <2> QED
        BY <1>5, <1>b, <2>1 DEF AskedOf, Known
<1>6. ASSUME NEW a \in Commands, CommandStarts(a) PROVE AskedOf(r)'
    <2>1. UNCHANGED <<table, at, mine, taken>>
        BY <1>6 DEF CommandStarts
    <2>2. PICK ids \in (SUBSET Known) \ {{}}, n \in {NULL} \cup Limits :
              /\ asked' = [asked EXCEPT ![a] = ids]
              /\ limit' = [limit EXCEPT ![a] = n]
              /\ todo' = [todo EXCEPT ![a] = ids \cap present]
              /\ pc' = [pc EXCEPT ![a] = "locking"]
        BY <1>6 DEF CommandStarts, SelectForUpdate, Goto
    <2>3. CASE a # r
        BY <2>1, <2>2, <2>3, <1>a, <1>b, AskedKept DEF table
    <2>4. CASE a = r
        <3>1. /\ asked'[r] = ids /\ todo'[r] = ids \cap present /\ pc'[r] = "locking"
              /\ taken'[r] = {} /\ present' = present /\ nextId' = nextId
            BY <1>6, <1>a, <1>b, <2>1, <2>2, <2>4 DEF CommandStarts, AskedOf, table
        <3> QED
            BY <3>1 DEF AskedOf, Known
    <2> QED
        BY <2>3, <2>4
<1>7. ASSUME NEW a \in Admins, AdminLists(a) PROVE AskedOf(r)'
    <2>1. UNCHANGED <<table, limit, statement, taken>>
        BY <1>7 DEF AdminLists
    <2>2. PICK ids \in (SUBSET present) \ {{}} :
              asked' = [asked EXCEPT ![a] = ids] /\ pc' = [pc EXCEPT ![a] = "listed"]
        BY <1>7 DEF AdminLists, Goto
    <2>3. CASE a # r
        BY <2>1, <2>2, <2>3, <1>a, <1>b, AskedKept DEF table, statement
    <2>4. CASE a = r
        <3>1. /\ asked'[r] = ids /\ pc'[r] = "listed" /\ taken'[r] = {} /\ nextId' = nextId
            BY <1>7, <1>a, <1>b, <2>1, <2>2, <2>4 DEF AdminLists, AskedOf, table
        <3> QED
            BY <1>a, <3>1 DEF AskedOf, Known
    <2> QED
        BY <2>3, <2>4
<1>8. ASSUME NEW a \in Admins, AdminStep(a) PROVE AskedOf(r)'
    <2>1. CASE AdminReplays(a)
        <3>1. /\ UNCHANGED <<table, arguments, at, mine, taken>> /\ pc[a] = "listed"
              /\ todo' = [todo EXCEPT ![a] = asked[a] \cap present]
              /\ pc' = [pc EXCEPT ![a] = "locking"]
            BY <2>1 DEF AdminReplays, SelectForUpdate, Goto
        <3>2. CASE a # r
            BY <3>1, <3>2, <1>a, <1>b, AskedKept DEF table, arguments
        <3>3. CASE a = r
            <4>1. /\ todo'[r] = asked[r] \cap present /\ pc'[r] = "locking"
                  /\ taken'[r] = {} /\ UNCHANGED <<asked, present, nextId>>
                BY <1>a, <1>b, <3>1, <3>3 DEF AskedOf, table, arguments
            <4> QED
                BY <1>b, <4>1 DEF AskedOf, Known
        <3> QED
            BY <3>2, <3>3
    <2>2. CASE ReplayReturns(a)
        <3>1. /\ UNCHANGED <<table, arguments, statement, taken>> /\ pc[a] = "locking"
              /\ pc' = [pc EXCEPT ![a] = "replayed"] /\ AllLocked(a)
            BY <2>2 DEF ReplayReturns, Goto
        <3>2. CASE a # r
            BY <3>1, <3>2, <1>a, <1>b, AskedKept DEF table, arguments, statement
        <3>3. CASE a = r
            <4>1. asked[r] \cap present \subseteq mine[r] \/ Cardinality(mine[r]) = limit[r]
                BY <1>b, <3>1, <3>3, LockedEnough
            <4>2. pc'[r] = "replayed" /\ UNCHANGED <<asked, limit, present, nextId, mine, taken>>
                BY <1>a, <3>1, <3>3 DEF table, arguments, statement
            <4> QED
                BY <1>b, <3>1, <3>3, <4>1, <4>2 DEF AskedOf, Known
        <3> QED
            BY <3>2, <3>3
    <2>3. CASE WriteLog(a)
        <3>1. /\ UNCHANGED <<table, arguments, statement, taken>> /\ pc[a] = "replayed"
              /\ pc' = [pc EXCEPT ![a] = "logged"]
            BY <2>3 DEF WriteLog, Goto
        <3>2. CASE a # r
            BY <3>1, <3>2, <1>a, <1>b, AskedKept DEF table, arguments, statement
        <3>3. CASE a = r
            <4>1. pc'[r] = "logged" /\ UNCHANGED <<asked, limit, present, nextId, mine, taken>>
                BY <1>a, <3>1, <3>3 DEF table, arguments, statement
            <4> QED
                BY <1>b, <3>1, <3>3, <4>1 DEF AskedOf, Known
        <3> QED
            BY <3>2, <3>3
    <2>4. CASE AdminCommits(a)
        BY <1>4, <1>5, <1>b, <2>4 DEF AdminCommits, Goto, AskedOf
    <2> QED
        BY <1>8, <2>1, <2>2, <2>3, <2>4 DEF AdminStep
<1>9. ASSUME NEW a \in Commands, ReplayCommits(a) PROVE AskedOf(r)'
    BY <1>4, <1>5, <1>b, <1>9, LockedEnough DEF ReplayCommits, Goto
<1>10. ASSUME NEW p \in Purgers, PurgeStarts(p) \/ ReadChunk(p) PROVE AskedOf(r)'
    <2>1. UNCHANGED <<table, asked, limit, at, mine, taken>>
        BY <1>10 DEF PurgeStarts, ReadChunk, arguments, statement
    <2>2. \E l \in {"reading", "done", "deleting"} : pc' = [pc EXCEPT ![p] = l]
        BY <1>10 DEF PurgeStarts, ReadChunk, Goto
    <2>3. \/ todo' = todo
          \/ \E s : todo' = [todo EXCEPT ![p] = s]
        BY <1>10 DEF PurgeStarts, ReadChunk, statement
    <2>4. p # r
        OBVIOUS
    <2>5. UNCHANGED <<pc[r], todo[r]>>
        BY <1>a, <2>2, <2>3, <2>4
    <2> QED
        BY <2>1, <2>5, <1>a, <1>b, AskedKept DEF table
<1>11. ASSUME NEW p \in Purgers, DeleteChunk(p) PROVE AskedOf(r)'
    BY <1>4, <1>11 DEF DeleteChunk, AfterChunk, Goto
<1>12. ASSUME NEW a \in Actors, Abort(a) PROVE AskedOf(r)'
    <2>1. /\ pc' = [pc EXCEPT ![a] = "failed"] /\ UNCHANGED <<table, arguments, taken>>
          /\ todo' = [todo EXCEPT ![a] = {}] /\ at' = [at EXCEPT ![a] = NULL]
          /\ mine' = [mine EXCEPT ![a] = {}] /\ pc[a] # "done"
        BY <1>12 DEF Abort, Goto, Ended
    <2>2. CASE a # r
        BY <2>1, <2>2, <1>a, <1>b, AskedKept DEF table, arguments
    <2>3. CASE a = r
        <3>1. pc'[r] = "failed" /\ UNCHANGED <<asked, nextId, taken>>
            BY <1>a, <2>1, <2>3 DEF table, arguments
        <3> QED
            BY <1>b, <2>1, <2>3, <3>1 DEF AskedOf, Known
    <2> QED
        BY <2>2, <2>3
<1> QED
    BY <1>1, <1>2, <1>3, <1>6, <1>7, <1>8, <1>9, <1>10, <1>11, <1>12
       DEF Next, Starts, Step, Fails, Victim, Circle, PurgeStep

\* Whatever other operators do meanwhile: a replay that returns has left none of the
\* letters it was asked for, or has moved as many as its limit.
THEOREM RemainingAreRequeued == Spec => []RemainingRequeued
<1>1. Init => Asked
    BY Sides DEF Init, Asked, AskedOf
<1>2. Asked => RemainingRequeued
    BY DEF Asked, AskedOf, RemainingRequeued
<1> QED
    BY <1>1, <1>2, InitBase, NextBase, NextAsked, PTL DEF Spec

-------------------------------------------------------------------------------
\* A replay locks only what it was asked for.
Asking ==
    \A r \in Replayers :
        /\ mine[r] \cup todo[r] \subseteq asked[r]
        /\ at[r] # NULL => at[r] \in asked[r]
        /\ pc[r] = "idle" => todo[r] = {}

LEMMA NextAsking == Base /\ Asking /\ [Next]_vars => Asking'
<1> SUFFICES ASSUME Base, Asking, [Next]_vars PROVE Asking'
    OBVIOUS
<1> USE Sides DEF Asking
<1>a. /\ asked \in [Replayers -> SUBSET Ids]
      /\ todo \in [Actors -> SUBSET Ids] /\ at \in [Actors -> Ids \cup {NULL}]
      /\ mine \in [Actors -> SUBSET Ids]
    BY DEF Base, TypeOK
<1>b. \A a \in Replayers : pc[a] \in {"idle", "listed"} => mine[a] = {} /\ at[a] = NULL
    BY DEF Base, Locks
<1>c. \A a \in Replayers : pc'[a] = "idle" => pc[a] = "idle"
    <2>1. \/ pc' = pc
          \/ \E a \in Actors, l \in {"listed", "locking", "replayed", "logged", "reading",
                                    "deleting", "done", "failed"} : pc' = [pc EXCEPT ![a] = l]
        BY Statement
           DEF Base, Next, Starts, Step, Fails, Victim, Circle, PurgeStep, ReadChunk, DeleteChunk,
               PurgeStarts, AdminStep, AdminLists, AdminReplays, ReplayReturns, WriteLog,
               AdminCommits, ReplayCommits, CommandStarts, SelectForUpdate, AfterChunk, Abort,
               Goto, Dies, vars
    <2>2. pc \in [Actors -> {"idle", "listed", "locking", "replayed", "logged",
                             "reading", "deleting"} \cup Ended]
        BY DEF Base, TypeOK
    <2> QED
        BY <2>1, <2>2
<1>1. CASE UNCHANGED <<statement, asked>>
    BY <1>1, <1>c DEF statement
<1>2. ASSUME NEW a \in Actors, StatementStep(a) PROVE Asking'
    <2>1. PICK i \in Ids :
                 /\ i \in todo[a] \/ i = at[a]
                 /\ \/ /\ mine' = [mine EXCEPT ![a] = @ \cup ({i} \cap present)]
                       /\ at' = [at EXCEPT ![a] = NULL]
                    \/ /\ mine' = mine
                       /\ at' = [at EXCEPT ![a] = i]
                 /\ \/ todo' = todo
                    \/ todo' = [todo EXCEPT ![a] = @ \ {i}]
        BY <1>2, Statement DEF Base
    <2>2. asked' = asked /\ i # NULL
        BY <1>2, Statement, OpsAssumption DEF Base, arguments, Ids
    <2> QED
        BY <1>a, <1>c, <2>1, <2>2
<1>3. ASSUME NEW a \in Actors, TakeMine(a) \/ Abort(a), asked' = asked PROVE Asking'
    BY <1>a, <1>c, <1>3 DEF TakeMine, Abort
<1>4. ASSUME NEW a \in Commands, CommandStarts(a) PROVE Asking'
    <2>1. \E ids \in SUBSET Known : /\ asked' = [asked EXCEPT ![a] = ids]
                                    /\ todo' = [todo EXCEPT ![a] = ids \cap present]
        BY <1>4 DEF CommandStarts, SelectForUpdate
    <2>2. UNCHANGED <<at, mine>> /\ mine[a] = {} /\ at[a] = NULL
        BY <1>4, <1>b DEF CommandStarts
    <2>3. pc'[a] # "idle"
        BY <1>4 DEF CommandStarts, SelectForUpdate, Goto, Base, TypeOK
    <2> QED
        BY <1>a, <1>c, <2>1, <2>2, <2>3
<1>5. ASSUME NEW a \in Admins, AdminReplays(a) PROVE Asking'
    <2>1. UNCHANGED <<at, mine, asked>> /\ todo' = [todo EXCEPT ![a] = asked[a] \cap present]
        BY <1>5 DEF AdminReplays, SelectForUpdate, arguments
    <2>2. pc'[a] # "idle"
        BY <1>5 DEF AdminReplays, SelectForUpdate, Goto, Base, TypeOK
    <2> QED
        BY <1>a, <1>c, <2>1, <2>2
<1>6. ASSUME NEW a \in Admins, AdminLists(a) PROVE Asking'
    <2>1. UNCHANGED statement /\ \E ids \in SUBSET present : asked' = [asked EXCEPT ![a] = ids]
        BY <1>6 DEF AdminLists
    <2>2. mine[a] = {} /\ at[a] = NULL /\ pc[a] = "idle"
        BY <1>6, <1>b DEF AdminLists
    <2> QED
        BY <1>a, <1>c, <2>1, <2>2 DEF statement
<1>7. ASSUME NEW p \in Purgers, ReadChunk(p) PROVE Asking'
    <2>1. UNCHANGED <<asked, at, mine>> /\ \E s : todo' = [todo EXCEPT ![p] = s]
        BY <1>7 DEF ReadChunk, arguments
    <2> QED
        BY <1>a, <1>c, <2>1
<1> QED
    BY <1>1, <1>2, <1>3, <1>4, <1>5, <1>6, <1>7
       DEF Next, Starts, Step, Fails, Victim, Circle, PurgeStep, DeleteChunk, PurgeStarts, AdminStep,
           ReplayReturns, WriteLog, AdminCommits, ReplayCommits, Abort, Dies, vars, arguments

\* The admin log.

LoggedOf(a) ==
    /\ pc[a] = "logged" => mine[a] \subseteq log[a]
    /\ pc[a] = "done" => taken[a] \subseteq log[a]
    /\ pc[a] = "failed" => log[a] = {}

Logged == \A a \in Admins : LoggedOf(a)

LEMMA NextLogged ==
    Base /\ Asked /\ Asking /\ Logged /\ [Next]_vars => Logged'
<1> SUFFICES ASSUME Base, Asked, Asking, Logged, [Next]_vars, NEW r \in Admins
             PROVE  LoggedOf(r)'
    BY DEF Logged
<1> USE Sides
<1>a. /\ pc \in [Actors -> {"idle", "listed", "locking", "replayed", "logged",
                            "reading", "deleting"} \cup Ended]
      /\ mine \in [Actors -> SUBSET Ids] /\ taken \in [Actors -> SUBSET Ids]
      /\ log \in [Admins -> SUBSET Ids]
    BY DEF Base, TypeOK
<1>b. LoggedOf(r)
    BY DEF Logged
<1>c. pc[r] # "done" => taken[r] = {}
    BY DEF Asked, AskedOf
<1>1. ASSUME UNCHANGED <<pc[r], mine[r], taken[r], log[r]>> PROVE LoggedOf(r)'
    BY <1>1, <1>b DEF LoggedOf
<1>2. ASSUME pc'[r] \in {"idle", "listed", "locking", "replayed", "reading", "deleting"}
      PROVE  LoggedOf(r)'
    BY <1>2 DEF LoggedOf
<1>3. ASSUME NEW a \in Actors, StatementStep(a) PROVE LoggedOf(r)'
    <2>1. UNCHANGED <<pc, log, taken>> /\ (a # r => mine'[r] = mine[r])
        BY <1>3, <1>a, Statement DEF Base
    <2>2. a = r => pc[r] \in {"locking", "deleting"}
        BY <1>3, Statement DEF Base, Locks
    <2> QED
        BY <2>1, <2>2, <1>1, <1>2
<1>4. ASSUME NEW a \in Admins, AdminStep(a) PROVE LoggedOf(r)'
    <2>1. CASE AdminReplays(a) \/ ReplayReturns(a)
        <3>1. /\ UNCHANGED <<mine, taken, log>>
              /\ \E l \in {"locking", "replayed"} : pc' = [pc EXCEPT ![a] = l]
            BY <2>1 DEF AdminReplays, SelectForUpdate, ReplayReturns, Goto, statement
        <3> QED
            BY <3>1, <1>a, <1>1, <1>2
    <2>2. CASE WriteLog(a)
        <3>1. /\ UNCHANGED <<mine, taken>> /\ pc' = [pc EXCEPT ![a] = "logged"]
              /\ log' = [log EXCEPT ![a] = asked[a] \ Remaining(a)]
            BY <2>2 DEF WriteLog, Goto, statement
        <3>2. CASE a # r
            BY <3>1, <3>2, <1>a, <1>1
        <3>3. CASE a = r
            <4>1. pc'[r] = "logged" /\ log'[r] = asked[r] \ Remaining(r) /\ mine'[r] = mine[r]
                BY <3>1, <3>3, <1>a
            <4>2. mine[r] \subseteq asked[r] \ Remaining(r)
                BY DEF Remaining, Asking
            <4> QED
                BY <4>1, <4>2 DEF LoggedOf
        <3> QED
            BY <3>2, <3>3
    <2>3. CASE AdminCommits(a)
        <3>1. /\ pc[a] = "logged" /\ log' = log /\ pc' = [pc EXCEPT ![a] = "done"]
              /\ taken' = [taken EXCEPT ![a] = @ \cup mine[a]]
              /\ mine' = [mine EXCEPT ![a] = {}]
            BY <2>3 DEF AdminCommits, TakeMine, Goto
        <3>2. CASE a # r
            BY <3>1, <3>2, <1>a, <1>1
        <3>3. CASE a = r
            <4>1. pc'[r] = "done" /\ log'[r] = log[r] /\ taken'[r] = mine[r]
                BY <3>1, <3>3, <1>a, <1>c
            <4> QED
                BY <3>1, <3>3, <4>1, <1>b DEF LoggedOf
        <3> QED
            BY <3>2, <3>3
    <2> QED
        BY <1>4, <2>1, <2>2, <2>3 DEF AdminStep
<1>5. ASSUME NEW a \in Commands, CommandStarts(a) \/ ReplayCommits(a) PROVE LoggedOf(r)'
    <2>1. a # r
        BY OpsAssumption
    <2>2. /\ log' = log /\ \E l \in {"locking", "done"} : pc' = [pc EXCEPT ![a] = l]
          /\ taken' = taken \/ taken' = [taken EXCEPT ![a] = @ \cup mine[a]]
          /\ mine' = mine \/ mine' = [mine EXCEPT ![a] = {}]
        BY <1>5 DEF CommandStarts, SelectForUpdate, ReplayCommits, TakeMine, Goto
    <2> QED
        BY <2>1, <2>2, <1>a, <1>1
<1>6. ASSUME NEW a \in Admins, AdminLists(a) PROVE LoggedOf(r)'
    <2>1. UNCHANGED <<mine, taken, log>> /\ pc' = [pc EXCEPT ![a] = "listed"]
        BY <1>6 DEF AdminLists, Goto, statement
    <2> QED
        BY <2>1, <1>a, <1>1, <1>2
<1>7. ASSUME NEW p \in Purgers, PurgeStarts(p) \/ PurgeStep(p) PROVE LoggedOf(r)'
    <2>1. p # r
        OBVIOUS
    <2>2. /\ log' = log /\ \E l \in {"reading", "done", "deleting"} : pc' = [pc EXCEPT ![p] = l]
          /\ taken' = taken \/ taken' = [taken EXCEPT ![p] = @ \cup mine[p]]
          /\ mine' = mine \/ mine' = [mine EXCEPT ![p] = {}]
        BY <1>7 DEF PurgeStarts, PurgeStep, ReadChunk, DeleteChunk, AfterChunk, TakeMine, Goto,
                    statement
    <2> QED
        BY <2>1, <2>2, <1>a, <1>1
<1>8. ASSUME NEW a \in Actors, Abort(a) PROVE LoggedOf(r)'
    <2>1. /\ taken' = taken /\ mine' = [mine EXCEPT ![a] = {}]
          /\ log' = [b \in Admins |-> IF b = a THEN {} ELSE log[b]]
          /\ pc' = [pc EXCEPT ![a] = "failed"]
        BY <1>8 DEF Abort, Goto
    <2>2. CASE a # r
        BY <2>1, <2>2, <1>a, <1>1
    <2>3. CASE a = r
        BY <2>1, <2>3, <1>a DEF LoggedOf
    <2> QED
        BY <2>2, <2>3
<1>9. CASE Dies \/ UNCHANGED vars
    BY <1>9, <1>1 DEF Dies, vars, statement
<1> QED
    BY <1>3, <1>4, <1>5, <1>6, <1>7, <1>8, <1>9 DEF Next, Starts, Step, Fails, Victim, Circle

\* Whatever the admin action has moved is in the admin log when its transaction has
\* ended, and where it failed neither happened.
THEOREM WhatMovedIsLogged == Spec => []MovedIsLogged
<1>1. Init => Asked /\ Asking /\ Logged
    BY Sides DEF Init, Asked, AskedOf, Asking, Logged, LoggedOf
<1>2. Asked /\ Logged => MovedIsLogged
    <2> SUFFICES ASSUME Asked, Logged, NEW a \in Admins
                 PROVE  /\ pc[a] = "done" => taken[a] \subseteq log[a]
                        /\ pc[a] = "failed" => taken[a] = {} /\ log[a] = {}
        BY DEF MovedIsLogged
    <2>1. LoggedOf(a) /\ AskedOf(a)
        BY Sides DEF Asked, Logged
    <2> QED
        BY <2>1 DEF LoggedOf, AskedOf
<1> QED
    BY <1>1, <1>2, InitBase, NextBase, NextAsked, NextAsking, NextLogged, PTL DEF Spec

-------------------------------------------------------------------------------
\* The loop of the purge.

\* A purge counts from when it began: what it has not found when it ends is younger,
\* or too young for its cutoffs.
PurgedOf(p) ==
    /\ began[p] <= nextId
    /\ pc[p] = "done" => \A i \in present : i < began[p] => ~Matches(p, i)

Purged == \A p \in Purgers : PurgedOf(p)

\* An empty chunk says that nothing matched.
LEMMA EmptyChunk ==
    ASSUME NEW p \in Purgers, NEW ids, {} \in Chunks(p, ids)
    PROVE  ids = {}
BY OpsAssumption, FS_EmptySet DEF Chunks

LEMMA NextPurged == Base /\ Purged /\ [Next]_vars => Purged'
<1> SUFFICES ASSUME Base, Purged, [Next]_vars, NEW r \in Purgers PROVE PurgedOf(r)'
    BY DEF Purged
<1> USE Sides
<1>a. /\ pc \in [Actors -> {"idle", "listed", "locking", "replayed", "logged",
                            "reading", "deleting"} \cup Ended]
      /\ began \in [Purgers -> 1..(MaxLetters + 1)]
      /\ cut \in [Purgers -> 1..(MaxLetters + 1)]
      /\ onlyOld \in [Purgers -> BOOLEAN]
      /\ nextId \in Nat /\ began[r] \in Nat /\ MaxLetters \in Nat
    BY OpsAssumption DEF Base, TypeOK
<1>b. PurgedOf(r)
    BY DEF Purged
<1>1. ASSUME UNCHANGED <<cut[r], onlyOld[r], began[r]>>, pc'[r] = "done" => pc[r] = "done",
             \/ present' \subseteq present /\ nextId' = nextId
             \/ present' = present \cup {nextId} /\ nextId' = nextId + 1
      PROVE  PurgedOf(r)'
    BY <1>1, <1>a, <1>b DEF PurgedOf, Matches
<1>2. CASE Dies \/ UNCHANGED vars
    BY <1>2, <1>1 DEF Dies, vars, table, arguments
<1>3. ASSUME NEW a \in Actors, StatementStep(a) PROVE PurgedOf(r)'
    BY <1>3, <1>1, Statement DEF Base, table, arguments
<1>4. ASSUME NEW a \in Replayers,
             \/ a \in Commands /\ (CommandStarts(a) \/ ReplayCommits(a))
             \/ a \in Admins /\ (AdminLists(a) \/ AdminStep(a))
      PROVE  PurgedOf(r)'
    <2>1. a # r
        OBVIOUS
    <2>2. \E l : pc' = [pc EXCEPT ![a] = l]
        BY <1>4 DEF CommandStarts, SelectForUpdate, ReplayCommits, AdminLists, AdminStep,
                    AdminReplays, ReplayReturns, WriteLog, AdminCommits, Goto
    <2>3. /\ UNCHANGED <<cut, onlyOld, began, nextId>>
          /\ present' = present \/ present' = present \ mine[a]
        BY <1>4 DEF CommandStarts, ReplayCommits, AdminLists, AdminStep, AdminReplays, ReplayReturns,
                    WriteLog, AdminCommits, TakeMine, table, arguments
    <2> QED
        BY <2>1, <2>2, <2>3, <1>a, <1>1
<1>5. ASSUME NEW p \in Purgers, PurgeStarts(p) PROVE PurgedOf(r)'
    <2>1. /\ \E c : cut' = [cut EXCEPT ![p] = c]
          /\ \E b : onlyOld' = [onlyOld EXCEPT ![p] = b]
          /\ began' = [began EXCEPT ![p] = nextId] /\ pc' = [pc EXCEPT ![p] = "reading"]
          /\ UNCHANGED <<nextId, present>>
        BY <1>5 DEF PurgeStarts, Goto, table
    <2>2. CASE p # r
        BY <2>1, <2>2, <1>a, <1>1
    <2>3. CASE p = r
        <3>1. began'[r] = nextId /\ pc'[r] = "reading" /\ nextId' = nextId
            BY <2>1, <2>3, <1>a
        <3> QED
            BY <3>1, <1>a DEF PurgedOf
    <2> QED
        BY <2>2, <2>3
<1>6. ASSUME NEW p \in Purgers, ReadChunk(p) PROVE PurgedOf(r)'
    <2>1. UNCHANGED <<nextId, present, cut, onlyOld, began>>
        BY <1>6 DEF ReadChunk, table, arguments
    <2>2. PICK chunk \in Chunks(p, {i \in present : Matches(p, i)}) :
              \/ chunk = {} /\ pc' = [pc EXCEPT ![p] = "done"]
              \/ pc' = [pc EXCEPT ![p] = "deleting"]
        BY <1>6 DEF ReadChunk, Goto
    <2>3. CASE p = r /\ chunk = {}
        <3>1. {i \in present : Matches(r, i)} = {}
            BY <2>2, <2>3, EmptyChunk
        <3>2. \A i \in present' : ~(Matches(r, i)')
            BY <2>1, <3>1 DEF Matches
        <3>3. began'[r] <= nextId'
            BY <1>b, <2>1 DEF PurgedOf
        <3> QED
            BY <3>2, <3>3 DEF PurgedOf
    <2>4. CASE p # r \/ chunk # {}
        BY <2>1, <2>2, <2>4, <1>a, <1>1
    <2> QED
        BY <2>3, <2>4
<1>7. ASSUME NEW p \in Purgers, DeleteChunk(p) PROVE PurgedOf(r)'
    <2>1. /\ UNCHANGED <<nextId, cut, onlyOld, began>> /\ present' \subseteq present
          /\ pc' = [pc EXCEPT ![p] = "reading"]
        BY <1>7 DEF DeleteChunk, AfterChunk, TakeMine, Goto, arguments
    <2> QED
        BY <2>1, <1>a, <1>1
<1>8. ASSUME NEW a \in Actors, Abort(a) PROVE PurgedOf(r)'
    <2>1. /\ UNCHANGED <<nextId, present, cut, onlyOld, began>>
          /\ pc' = [pc EXCEPT ![a] = "failed"]
        BY <1>8 DEF Abort, Goto, table, arguments
    <2> QED
        BY <2>1, <1>a, <1>1
<1> QED
    BY <1>2, <1>3, <1>4, <1>5, <1>6, <1>7, <1>8
       DEF Next, Starts, Step, Fails, Victim, Circle, PurgeStep

\* When a purge returns, none of the letters that were there when it began is left
\* that matches it, whatever replays had locked and gave back.
THEOREM PurgeIsComplete == Spec => []PurgeComplete
<1>1. Init => Purged
    <2> SUFFICES ASSUME Init, NEW p \in Purgers PROVE PurgedOf(p)
        BY DEF Purged
    <2>1. pc[p] = "idle" /\ began[p] = 1 /\ nextId = Initial + 1 /\ Initial \in Nat
        BY Sides, OpsAssumption DEF Init
    <2> QED
        BY <2>1 DEF PurgedOf
<1>2. Purged => PurgeComplete
    BY DEF Purged, PurgedOf, PurgeComplete
<1> QED
    BY <1>1, <1>2, InitBase, NextBase, NextPurged, PTL DEF Spec
===============================================================================
