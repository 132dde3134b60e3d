------------------------------- MODULE BatchProofs -----------------------------
(***************************************************************************)
(* Proofs about BatchModes, for any batch size, window and retry budget:    *)
(* its invariants, and that a batch, serial or parallel, takes only the     *)
(* steps BatchContract allows.                                              *)
(***************************************************************************)
EXTENDS BatchModes, TLAPS

Homes == [GroupNames -> SUBSET Messages]

Answers == Seq({"success", "outage"})

PolicyTypes == streak \in Nat /\ tripped \in BOOLEAN /\ answers \in Answers

Types ==
    /\ retries \in [Messages -> Nat]
    /\ next \in 1..(Size + 1)
    /\ groups \in Homes
    /\ tried \subseteq Messages
    /\ streak \in Nat
    /\ answers \in Answers
    /\ tripped \in BOOLEAN
    /\ deadline \in {"none", "running", "passed"}
    /\ future \in [Messages -> {"none", "running"} \cup Endings]
    /\ pending \subseteq Messages
    /\ finished \subseteq pending
    /\ stop \in {"none", "shutdown", "breaker"}

\* Where the main thread may be in each mode; the window of a serial batch is idle.
ModeOK ==
    \/ /\ concurrency = 1
       /\ pc \in {"next", "sending", "done"}
       /\ future = [m \in Messages |-> "none"]
       /\ pending = {} /\ stop = "none"
       /\ pc = "sending" => next \in Messages
    \/ /\ concurrency = Concurrency
       /\ pc \in {"loop", "fill", "await", "poll", "sweep", "over", "done", "raised"}
       /\ pc \notin {"sweep", "raised"} => finished = {}

-------------------------------------------------------------------------------
\* What appending to a group does.

LEMMA Appending ==
    ASSUME NEW gs \in Homes, NEW g \in GroupNames, NEW ms \in SUBSET Messages
    PROVE  /\ AppendAll(gs, g, ms) \in Homes
           /\ \A h \in GroupNames : AppendAll(gs, g, ms)[h] = IF h = g THEN gs[g] \cup ms ELSE gs[h]
BY DEF AppendAll, Homes

LEMMA AppendingOne ==
    ASSUME NEW gs \in Homes, NEW g \in GroupNames, NEW m \in Messages
    PROVE  /\ Append1(gs, g, m) \in Homes
           /\ \A h \in GroupNames : Append1(gs, g, m)[h] = IF h = g THEN gs[g] \cup {m} ELSE gs[h]
BY DEF Append1, Homes

LEMMA Appended ==
    ASSUME groups \in Homes, NEW g \in GroupNames, NEW m \in Messages,
           groups' = Append1(groups, g, m)
    PROVE  \A h \in GroupNames : groups'[h] = IF h = g THEN groups[g] \cup {m} ELSE groups[h]
<1>1. \A h \in GroupNames : Append1(groups, g, m)[h] = IF h = g THEN groups[g] \cup {m}
                                                      ELSE groups[h]
    BY AppendingOne
<1> QED
    BY <1>1

LEMMA Classifying ==
    ASSUME NEW gs \in Homes, NEW ms \in SUBSET Messages
    PROVE  /\ ClassifyRemaining(gs, ms) \in Homes
           /\ \A h \in GroupNames : ClassifyRemaining(gs, ms)[h] =
                IF h = "exceeded" THEN gs[h] \cup {m \in ms : Exhausted(m)}
                ELSE IF h = "deferred" THEN gs[h] \cup {m \in ms : ~Exhausted(m)}
                ELSE gs[h]
<1> DEFINE first == AppendAll(gs, "exceeded", {m \in ms : Exhausted(m)})
<1>1. /\ first \in Homes
      /\ \A h \in GroupNames : first[h] = IF h = "exceeded" THEN gs[h] \cup {m \in ms : Exhausted(m)}
                                          ELSE gs[h]
    BY Appending DEF GroupNames
<1>2. ClassifyRemaining(gs, ms) = AppendAll(first, "deferred", {m \in ms : ~Exhausted(m)})
    BY DEF ClassifyRemaining
<1> HIDE DEF first
<1>3. /\ AppendAll(first, "deferred", {m \in ms : ~Exhausted(m)}) \in Homes
      /\ \A h \in GroupNames : AppendAll(first, "deferred", {m \in ms : ~Exhausted(m)})[h] =
            IF h = "deferred" THEN first[h] \cup {m \in ms : ~Exhausted(m)} ELSE first[h]
    BY <1>1, Appending DEF GroupNames
<1> QED
    BY <1>1, <1>2, <1>3

LEMMA SerialOperators ==
    /\ Serial!Messages = Messages
    /\ \A m : Serial!Exhausted(m) <=> Exhausted(m)
    /\ \A m : Serial!LastAttempt(m) <=> LastAttempt(m)
    /\ \A gs, g, m : Serial!Append1(gs, g, m) = Append1(gs, g, m)
    /\ \A gs, g, ms : Serial!AppendAll(gs, g, ms) = AppendAll(gs, g, ms)
    /\ \A gs, ms : Serial!ClassifyRemaining(gs, ms) = ClassifyRemaining(gs, ms)
    /\ Serial!Remaining = Remaining
    /\ \A s : Serial!Opens(s) <=> Opens(s)
    /\ \A m : Serial!RecordSuccess(m) <=> RecordSuccess(m)
    /\ \A m : Serial!RecordFailure(m) <=> RecordFailure(m)
    /\ Serial!RecordOutage <=> RecordOutage
BY DEF Serial!Messages, Messages, Serial!Exhausted, Exhausted, Serial!LastAttempt, LastAttempt,
       Serial!Append1, Append1, Serial!AppendAll, AppendAll, Serial!ClassifyRemaining,
       ClassifyRemaining, Serial!Remaining, Remaining, Serial!Opens, Opens,
       Serial!RecordSuccess, RecordSuccess, Serial!RecordFailure, RecordFailure,
       Serial!RecordOutage, RecordOutage, Serial!policy, policy

-------------------------------------------------------------------------------
\* Types.

LEMMA Recording ==
    ASSUME Types, NEW m \in Messages
    PROVE  /\ RecordSuccess(m) => groups' \in Homes /\ PolicyTypes'
           /\ RecordFailure(m) => groups' \in Homes /\ PolicyTypes'
           /\ RecordOutage => PolicyTypes'
<1>1. \A g \in GroupNames : Append1(groups, g, m) \in Homes
    BY AppendingOne DEF Types
<1> answers \in Answers /\ Append(answers, "success") \in Answers
    /\ Append(answers, "outage") \in Answers
    BY DEF Answers, Types
<1>2. RecordSuccess(m) => groups' \in Homes /\ PolicyTypes'
    BY <1>1 DEF RecordSuccess, GroupNames, Types, PolicyTypes
<1>3. RecordFailure(m) => groups' \in Homes /\ PolicyTypes'
    BY <1>1 DEF RecordFailure, GroupNames, Types, PolicyTypes, policy
<1>4. RecordOutage => PolicyTypes'
    BY DEF RecordOutage, Types, PolicyTypes
<1> QED
    BY <1>2, <1>3, <1>4

LEMMA RemainingType == Types => Remaining \in SUBSET Messages
BY BatchAssumption DEF Types, Remaining, Messages

LEMMA InitTypes == ModeInit => Types /\ ModeOK
<1> SUFFICES ASSUME ModeInit PROVE Types /\ ModeOK
    OBVIOUS
<1>1. BatchInit
    BY DEF ModeInit, Init, Serial!Init, Serial!BatchInit, BatchInit, Serial!Messages, Messages,
           Serial!GroupNames, GroupNames
<1>2. groups \in Homes
    BY <1>1 DEF BatchInit, Homes
<1>3. future = [m \in Messages |-> "none"] /\ pending = {} /\ finished = {} /\ stop = "none"
    BY DEF ModeInit, Init
<1>4. Types
    <2>1. future \in [Messages -> {"none", "running"} \cup Endings]
        BY <1>3
    <2>2. retries \in [Messages -> Nat]
        BY <1>1, BatchAssumption DEF BatchInit
    <2>4. next \in 1..(Size + 1)
        BY <1>1, BatchAssumption DEF BatchInit
    <2>7. answers \in Answers /\ streak \in Nat
        <3>1. <<>> \in Answers /\ Len(<<>>) = 0
            BY DEF Answers
        <3>2. <<"outage">> \in Answers /\ Len(<<"outage">>) = 1
            BY DEF Answers
        <3> QED
            BY <1>1, <3>1, <3>2 DEF BatchInit
    <2>5. tried \subseteq Messages /\ tripped \in BOOLEAN
        BY <1>1 DEF BatchInit
    <2>6. deadline \in {"none", "running", "passed"}
        BY <1>1 DEF BatchInit
    <2>3. /\ pending \subseteq Messages /\ finished \subseteq pending
          /\ stop \in {"none", "shutdown", "breaker"}
        BY <1>3
    <2> QED
        BY <1>2, <2>1, <2>2, <2>3, <2>4, <2>5, <2>6, <2>7 DEF Types
<1>5. ModeOK
    BY <1>3 DEF ModeInit, Init, Serial!Init, ModeOK
<1> QED
    BY <1>4, <1>5

LEMMA SerialTypes == Types /\ ModeOK /\ SerialStep => Types'
<1> SUFFICES ASSUME Types, ModeOK, SerialStep PROVE Types'
    OBVIOUS
<1>1. UNCHANGED <<future, pending, finished, stop>>
    BY DEF SerialStep, window
<1>2. Remaining \in SUBSET Messages /\ (Remaining # {} => next \in Messages /\ next + 1 \in 1..(Size + 1))
    BY RemainingType, BatchAssumption DEF Types, Remaining, Messages
<1>3. CASE Serial!Abort
    <2>1. groups' = AppendAll(groups, "aborted", Remaining)
        BY <1>3, SerialOperators DEF Serial!Abort
    <2>2. groups' \in Homes
        BY <1>2, <2>1, Appending DEF Types, GroupNames
    <2> QED
        BY <1>1, <1>3, <2>2 DEF Serial!Abort, Types, Serial!policy, Serial!shutdown
<1>4. CASE Serial!PreExceeded
    <2>1. Remaining # {} /\ groups' = Append1(groups, "exceeded", next)
        BY <1>4, SerialOperators DEF Serial!PreExceeded
    <2>2. groups' \in Homes
        BY <1>2, <2>1, AppendingOne DEF Types, GroupNames
    <2> QED
        BY <1>1, <1>2, <1>4, <2>1, <2>2 DEF Serial!PreExceeded, Types, Serial!policy, Serial!shutdown
<1>5. CASE Serial!Publish
    <2>1. Remaining # {}
        BY <1>5, SerialOperators DEF Serial!Publish
    <2> QED
        BY <1>1, <1>2, <1>5, <2>1 DEF Serial!Publish, Types, Serial!policy, Serial!shutdown
<1>6. CASE Serial!PublishReturns
    <2>1. pc = "sending" /\ (RecordSuccess(next) \/ RecordFailure(next))
        BY <1>6, SerialOperators DEF Serial!PublishReturns
    <2>2. next \in Messages /\ next + 1 \in 1..(Size + 1)
        BY <2>1, BatchAssumption DEF ModeOK, Messages
    <2> QED
        BY <1>1, <1>6, <2>1, <2>2, Recording
           DEF Serial!PublishReturns, Types, PolicyTypes, Serial!shutdown
<1>7. CASE Serial!PublishMeetsOutage
    <2>1. pc = "sending" /\ RecordOutage
        BY <1>7, SerialOperators DEF Serial!PublishMeetsOutage
    <2>2. next \in Messages /\ next + 1 \in 1..(Size + 1) /\ (next + 1)..Size \in SUBSET Messages
        BY <2>1, BatchAssumption DEF ModeOK, Messages
    <2>3. groups' = IF Opens(streak)
                    THEN ClassifyRemaining(Append1(groups, "deferred", next), (next + 1)..Size)
                    ELSE Append1(groups, "deferred", next)
        BY <1>7, SerialOperators DEF Serial!PublishMeetsOutage
    <2>4. Append1(groups, "deferred", next) \in Homes
        BY <2>2, AppendingOne DEF Types, GroupNames
    <2>5. groups' \in Homes
        BY <2>2, <2>3, <2>4, Classifying
    <2> QED
        BY <1>1, <1>7, <2>1, <2>2, <2>5, Recording
           DEF Serial!PublishMeetsOutage, Types, PolicyTypes, Serial!shutdown
<1>8. CASE Serial!Return
    BY <1>1, <1>8 DEF Serial!Return, Serial!batchVars, Types, Serial!policy, Serial!shutdown
<1> QED
    BY <1>3, <1>4, <1>5, <1>6, <1>7, <1>8 DEF SerialStep, Serial!Relay

LEMMA ConsumeTypes ==
    ASSUME Types, NEW m \in pending, Consume(m)
    PROVE  /\ groups' \in Homes /\ PolicyTypes'
           /\ stop' \in {"none", "shutdown", "breaker"}
           /\ pending' = pending \ {m}
<1>1. m \in Messages
    BY DEF Types
<1>2. Append1(groups, "deferred", m) \in Homes
    BY <1>1, AppendingOne DEF Types, GroupNames
<1>3. CASE future[m] = "ok" /\ RecordSuccess(m) /\ UNCHANGED <<stop, wait>>
    BY <1>1, <1>3, Recording DEF Consume, Types
<1>4. CASE future[m] = "error" /\ RecordFailure(m) /\ UNCHANGED <<stop, wait>>
    BY <1>1, <1>4, Recording DEF Consume, Types
<1>5. CASE /\ RecordOutage
           /\ groups' = Append1(groups, "deferred", m)
           /\ stop' = IF Opens(streak) /\ stop # "shutdown" THEN "breaker" ELSE stop
    BY <1>1, <1>2, <1>5, Recording DEF Consume, Types
<1> QED
    BY <1>3, <1>4, <1>5 DEF Consume

LEMMA ParallelTypes == Types /\ ModeOK /\ ParallelStep => Types'
<1> SUFFICES ASSUME Types, ModeOK, MainThread, concurrency > 1 PROVE Types'
    BY DEF ParallelStep
<1>1. Remaining \in SUBSET Messages /\ (Remaining # {} => next \in Messages /\ next + 1 \in 1..(Size + 1))
    BY RemainingType, BatchAssumption DEF Types, Remaining, Messages
<1>2. CASE Loop
    BY <1>2 DEF Loop, Types, batchVars, policy, shutdown
<1>3. CASE Refill
    <2>1. next \in Messages /\ next + 1 \in 1..(Size + 1)
        BY <1>1, <1>3 DEF Refill, MayRefill
    <2>2. /\ Append1(groups, "exceeded", next) \in Homes
          /\ Append1(groups, "deferred", next) \in Homes
        BY <2>1, AppendingOne DEF Types, GroupNames
    <2>3. UNCHANGED <<retries, deadline, finished>>
        BY <1>3 DEF Refill, shutdown
    <2>4. /\ next' \in 1..(Size + 1) /\ groups' \in Homes /\ tried' \subseteq Messages
          /\ PolicyTypes'
          /\ stop' \in {"none", "shutdown", "breaker"}
        BY <1>3, <2>1, <2>2, Recording DEF Refill, Types, PolicyTypes, policy
    <2>5. /\ future' \in [Messages -> {"none", "running"} \cup Endings]
          /\ pending' \subseteq Messages /\ finished \subseteq pending'
        BY <1>3, <2>1 DEF Refill, Types
    <2> QED
        BY <2>3, <2>4, <2>5 DEF Types, PolicyTypes
<1>4. CASE Refilled
    BY <1>4 DEF Refilled, Types, batchVars, policy, shutdown
<1>5. CASE Poll
    BY <1>5 DEF Poll, Types, batchVars, policy, shutdown
<1>6. CASE Sweep
    <2>1. PICK m \in finished : Consume(m) /\ finished' = finished \ {m}
        BY <1>6 DEF Sweep
    <2>2. m \in pending /\ UNCHANGED <<retries, next, tried, deadline, future>>
        BY <2>1 DEF Types, Consume, shutdown
    <2> QED
        BY <2>1, <2>2, ConsumeTypes DEF Types, PolicyTypes
<1>7. CASE Swept
    BY <1>7 DEF Swept, Types, batchVars, policy, shutdown
<1>8. CASE Raise
    BY <1>8 DEF Raise, Types, batchVars, policy, shutdown
<1>9. CASE Return
    <2>1. \/ groups' = AppendAll(groups, "aborted", Remaining)
          \/ groups' = ClassifyRemaining(groups, Remaining)
          \/ groups' = groups
        BY <1>9 DEF Return, Types
    <2>2. groups' \in Homes
        BY <1>1, <2>1, Appending, Classifying DEF Types, GroupNames
    <2> QED
        BY <1>9, <2>2 DEF Return, Types, policy, shutdown
<1>10. ASSUME NEW m \in Messages, Await(m)
       PROVE  Types'
    <2>1. m \in pending /\ Consume(m) /\ finished' = finished
        BY <1>10 DEF Await
    <2>2. UNCHANGED <<retries, next, tried, deadline, future>>
        BY <2>1 DEF Consume, shutdown
    <2>3. finished = {}
        BY <1>10 DEF Await, ModeOK
    <2> QED
        BY <2>1, <2>2, <2>3, ConsumeTypes DEF Types, PolicyTypes
<1> QED
    BY <1>2, <1>3, <1>4, <1>5, <1>6, <1>7, <1>8, <1>9, <1>10 DEF MainThread

LEMMA NextTypes == Types /\ ModeOK /\ [ModeNext]_modeVars => Types' /\ ModeOK'
<1> SUFFICES ASSUME Types, ModeOK, [ModeNext]_modeVars PROVE Types' /\ ModeOK'
    OBVIOUS
<1>1. CASE SerialStep /\ UNCHANGED concurrency
    <2>1. /\ UNCHANGED <<future, pending, finished, stop>>
          /\ concurrency = 1 /\ concurrency' = 1
        BY <1>1 DEF SerialStep, window
    <2>2. /\ pc' \in {"next", "sending", "done"}
          /\ pc' = "sending" => next' = next /\ Remaining # {}
        BY <1>1, SerialOperators DEF SerialStep, Serial!Relay, Serial!Abort, Serial!PreExceeded,
               Serial!Publish, Serial!PublishReturns, Serial!PublishMeetsOutage, Serial!Return
    <2>3. Remaining # {} => next \in Messages
        BY BatchAssumption DEF Types, Remaining, Messages
    <2>4. concurrency = 1 => future = [m \in Messages |-> "none"] /\ pending = {} /\ stop = "none"
        BY ConcurrencyAssumption DEF ModeOK
    <2> QED
        BY <1>1, <2>1, <2>2, <2>3, <2>4, SerialTypes DEF ModeOK
<1>2. CASE ParallelStep /\ UNCHANGED concurrency
    <2>1. concurrency = Concurrency /\ concurrency' = Concurrency
        BY <1>2 DEF ParallelStep, ModeOK
    <2>2. pc' \in {"loop", "fill", "await", "poll", "sweep", "over", "done", "raised"}
        BY <1>2, ConcurrencyAssumption DEF ParallelStep, MainThread, ModeOK, Loop, Refill, Refilled,
               DoneRefilling, Await, Poll, Sweep, Swept, Raise, Return
    <2>3. pc \notin {"sweep", "raised"} => finished = {}
        BY <1>2, ConcurrencyAssumption DEF ParallelStep, ModeOK
    <2>4. pc' \notin {"sweep", "raised"} => finished' = {}
        BY <1>2, <2>3 DEF ParallelStep, MainThread, Loop, Refill, Refilled,
               Await, Poll, Sweep, Swept, Raise, Return
    <2> QED
        BY <1>2, <2>1, <2>2, <2>4, ParallelTypes DEF ModeOK
<1>3. ASSUME NEW m \in Messages, WorkerStep(m)
      PROVE  Types' /\ ModeOK'
    <2>1. /\ UNCHANGED <<retries, next, groups, tried, streak, tripped, answers, deadline>>
          /\ UNCHANGED <<pc, pending, finished, stop, concurrency>>
        BY <1>3 DEF WorkerStep, WorkerEnds, batchVars, policy, shutdown
    <2>2. future' \in [Messages -> {"none", "running"} \cup Endings]
        BY <1>3 DEF WorkerStep, WorkerEnds, Types
    <2>3. concurrency # 1
        <3>1. future[m] = "running"
            BY <1>3 DEF WorkerStep, WorkerEnds
        <3> QED
            BY <3>1, ConcurrencyAssumption DEF ModeOK
    <2> QED
        BY <2>1, <2>2, <2>3 DEF Types, ModeOK
<1>4. CASE Environment /\ UNCHANGED concurrency
    <2>1. /\ UNCHANGED <<retries, next, groups, tried, streak, tripped, answers>>
          /\ UNCHANGED <<pc, future, pending, finished, stop, concurrency>>
          /\ deadline' \in {"none", "running", "passed"}
        BY <1>4 DEF Environment, Signal, DeadlinePasses, policy
    <2> QED
        BY <2>1 DEF Types, ModeOK
<1>5. CASE UNCHANGED modeVars
    BY <1>5 DEF modeVars, vars, batchVars, policy, shutdown, Types, ModeOK
<1> QED
    BY <1>1, <1>2, <1>3, <1>4, <1>5 DEF ModeNext, Process

-------------------------------------------------------------------------------
\* Where a message is.

Free(m) == \A g \in GroupNames : m \notin groups[g]

Settled(m) == \E g \in GroupNames \ {"aborted"} : m \in groups[g]

\* A message is in no group until its turn, and while its publish is under way;
\* then it stays in the one it was put in.
Placed(m) ==
    /\ m \in tried => ~Exhausted(m) /\ m \notin groups["aborted"]
    /\ m >= next /\ m \in tried => pc = "sending" /\ m = next
    /\ m >= next /\ pc # "done" => Free(m)
    /\ m < next => m \in pending \/ Settled(m)
    /\ m < next => m \in tried \/ Exhausted(m)
    /\ m \in pending \/ (pc = "sending" /\ m = next) => m \in tried /\ Free(m)
    /\ \A g, h \in GroupNames : m \in groups[g] /\ m \in groups[h] => g = h
    /\ m \in groups["published"] \cup groups["failed"] => m \in tried
    /\ m \in groups["exceeded"] => m \in tried \/ Exhausted(m)
    /\ m \in groups["deferred"] => ~Exhausted(m) /\ (m \in tried \/ tripped)

Places == \A m \in Messages : Placed(m)

\* Nothing is in flight when the window is left.
Left == pc \in {"over", "done"} => pending = {}

\* Why the batch stopped.  Only a breaker that opened stops a parallel batch with
\* "breaker", and it always stops the batch.
Stops ==
    /\ stop = "shutdown" => deadline # "none"
    /\ groups["aborted"] # {} => deadline # "none"
    /\ stop = "breaker" => tripped
    /\ tripped => IF concurrency = 1 THEN pc = "done" ELSE stop # "none"

\* What Placed(m) reads.
LEMMA PlacedStays ==
    ASSUME NEW m \in Messages, Placed(m),
           UNCHANGED <<retries, next, groups, tried, tripped, pending>>,
           pc' = pc \/ (pc \notin {"sending", "done"} /\ pc' # "sending")
    PROVE  Placed(m)'
BY DEF Placed, Free, Settled, Exhausted

\* Message "one" leaves the window, or the calling thread, for group g.
LEMMA OnePlaced ==
    ASSUME Types, Types', Places, NEW one \in Messages, NEW g \in GroupNames \ {"aborted"},
           UNCHANGED retries, Free(one),
           tried' = tried \/ (tried' = tried \cup {one} /\ ~Exhausted(one)),
           one \in tried' \/ (g = "exceeded" /\ Exhausted(one)),
           \A h \in GroupNames : groups'[h] = IF h = g THEN groups[g] \cup {one} ELSE groups[h],
           tripped => tripped',
           pc # "done",
           pc' # "sending",
           \/ one = next /\ next' = next + 1 /\ pending' = pending /\ one \notin pending
           \/ one \in pending /\ next' = next /\ pending' = pending \ {one} /\ pc # "sending"
    PROVE  Places'
<1> SUFFICES ASSUME NEW m \in Messages PROVE Placed(m)'
    BY DEF Places, Messages
<1>1. Placed(m) /\ Placed(one) /\ m \in Nat /\ next \in Nat /\ one \in Nat
    BY BatchAssumption DEF Places, Messages, Types
<1>2. Exhausted(m)' <=> Exhausted(m)
    BY DEF Exhausted
<1>3. CASE m = one
    BY <1>1, <1>2, <1>3 DEF Placed, Free, Settled, GroupNames
<1>4. CASE m # one
    <2>1. \A h \in GroupNames : m \in groups'[h] <=> m \in groups[h]
        BY <1>4
    <2>2. (Free(m)' <=> Free(m)) /\ (Settled(m)' <=> Settled(m))
        BY <2>1 DEF Free, Settled
    <2> QED
        BY <1>1, <1>2, <1>4, <2>1, <2>2 DEF Placed, GroupNames
<1> QED
    BY <1>3, <1>4

\* The messages from "first" on are settled, or aborted, when the batch ends.
LEMMA RestPlaced ==
    ASSUME Types, Types', Places, pc \notin {"sending", "done"}, pc' = "done",
           UNCHANGED <<retries, next, tried, pending>>, tripped' = tripped,
           \A m \in Messages : m >= next =>
               \/ \A h \in GroupNames : m \in groups'[h] <=> h = "aborted"
               \/ Exhausted(m) /\ \A h \in GroupNames : m \in groups'[h] <=> h = "exceeded"
               \/ ~Exhausted(m) /\ tripped
                    /\ \A h \in GroupNames : m \in groups'[h] <=> h = "deferred"
               \/ \A h \in GroupNames : m \in groups'[h] <=> m \in groups[h],
           \A m \in Messages : m < next =>
               \A h \in GroupNames : m \in groups'[h] <=> m \in groups[h]
    PROVE  Places'
<1> SUFFICES ASSUME NEW m \in Messages PROVE Placed(m)'
    BY DEF Places, Messages
<1>1. Placed(m) /\ m \in Nat /\ next \in Nat
    BY BatchAssumption DEF Places, Messages, Types
<1>2. Exhausted(m)' <=> Exhausted(m)
    BY DEF Exhausted
<1>3. CASE \A h \in GroupNames : m \in groups'[h] <=> m \in groups[h]
    <2>1. (Free(m)' <=> Free(m)) /\ (Settled(m)' <=> Settled(m))
        BY <1>3 DEF Free, Settled
    <2> QED
        BY <1>1, <1>2, <1>3, <2>1 DEF Placed, GroupNames
<1>4. CASE m >= next
    BY <1>1, <1>2, <1>3, <1>4 DEF Placed, GroupNames
<1> QED
    BY <1>1, <1>3, <1>4

LEMMA SerialPlaces == Types /\ Types' /\ ModeOK /\ Places /\ SerialStep => Places'
<1> SUFFICES ASSUME Types, Types', ModeOK, Places, SerialStep PROVE Places'
    OBVIOUS
<1>1. UNCHANGED <<retries, pending>> /\ pending = {}
    <2>1. UNCHANGED <<retries, pending>>
        BY DEF SerialStep, window, Serial!Relay, Serial!Abort, Serial!PreExceeded, Serial!Publish,
               Serial!PublishReturns, Serial!PublishMeetsOutage, Serial!Return, Serial!batchVars
    <2> QED
        BY <2>1, ConcurrencyAssumption DEF SerialStep, ModeOK
<1>2. /\ Remaining \in SUBSET Messages
      /\ \A m \in Messages : m \in Remaining <=> m >= next
      /\ Remaining # {} => next \in Messages
    BY BatchAssumption DEF Types, Remaining, Messages
<1>a. groups \in Homes /\ next \in Nat /\ Messages \subseteq Nat
    BY BatchAssumption DEF Types, Messages
<1>b. "aborted" \in GroupNames /\ "exceeded" \in GroupNames /\ "deferred" \in GroupNames
    BY DEF GroupNames
<1>3. CASE Serial!Abort
    <2>1. /\ groups' = AppendAll(groups, "aborted", Remaining)
          /\ pc = "next" /\ pc' = "done" /\ UNCHANGED <<next, tried, tripped>>
        BY <1>3, SerialOperators DEF Serial!Abort, Serial!policy
    <2>2. \A h \in GroupNames :
              groups'[h] = IF h = "aborted" THEN groups["aborted"] \cup Remaining ELSE groups[h]
        <3>1. Remaining \in SUBSET Messages
            BY <1>2
        <3>2. \A h \in GroupNames : AppendAll(groups, "aborted", Remaining)[h] =
                  IF h = "aborted" THEN groups["aborted"] \cup Remaining ELSE groups[h]
            <4>1. groups \in Homes /\ "aborted" \in GroupNames
                BY <1>a, <1>b
            <4> QED
                BY <3>1, <4>1, Appending
        <3> QED
            BY <2>1, <3>2
    <2>3. \A m \in Messages : m >= next => Free(m)
        BY <2>1 DEF Places, Placed
    <2>4. \A m \in Messages : m >= next => \A h \in GroupNames : m \in groups'[h] <=> h = "aborted"
        BY <1>2, <2>2, <2>3 DEF Free
    <2>5. \A m \in Messages : m < next => \A h \in GroupNames : m \in groups'[h] <=> m \in groups[h]
        <3>1. \A m \in Messages : m < next => m \notin Remaining
            BY <1>2, <1>a
        <3> QED
            BY <1>b, <2>2, <3>1
    <2> QED
        BY <1>1, <2>1, <2>4, <2>5, RestPlaced
<1>4. CASE Serial!PreExceeded
    <2>1. /\ Remaining # {} /\ groups' = Append1(groups, "exceeded", next)
          /\ Exhausted(next) /\ next' = next + 1 /\ pc = "next" /\ pc' = "next"
          /\ tried' = tried /\ tripped' = tripped
        BY <1>4, SerialOperators DEF Serial!PreExceeded, Serial!policy
    <2>2. Free(next)
        BY <1>2, <2>1 DEF Places, Placed, Types, Messages
    <2>3. \A h \in GroupNames :
              groups'[h] = IF h = "exceeded" THEN groups["exceeded"] \cup {next} ELSE groups[h]
        BY <1>2, <1>a, <1>b, <2>1, Appended
    <2> QED
        BY <1>1, <1>2, <2>1, <2>2, <2>3, OnePlaced DEF GroupNames
<1>5. CASE Serial!Publish
    <2>1. /\ Remaining # {} /\ ~Exhausted(next) /\ tried' = tried \cup {next}
          /\ pc = "next" /\ pc' = "sending" /\ UNCHANGED <<next, groups, tripped>>
        BY <1>5, SerialOperators DEF Serial!Publish, Serial!policy
    <2> SUFFICES ASSUME NEW m \in Messages PROVE Placed(m)'
        BY DEF Places, Messages
    <2>2. Placed(m) /\ m \in Nat /\ next \in Nat
        BY BatchAssumption DEF Places, Messages, Types
    <2>3. (Exhausted(m)' <=> Exhausted(m)) /\ (Free(m)' <=> Free(m)) /\ (Settled(m)' <=> Settled(m))
        BY <1>1, <2>1 DEF Exhausted, Free, Settled
    <2>4. Free(m) => \A g \in GroupNames : m \notin groups[g]
        BY DEF Free
    <2> QED
        BY <1>1, <2>1, <2>2, <2>3, <2>4 DEF Placed, GroupNames
<1>6. CASE Serial!PublishReturns
    <2>1. /\ pc = "sending" /\ pc' = "next" /\ next' = next + 1
          /\ tried' = tried /\ tripped' = tripped
          /\ RecordSuccess(next) \/ RecordFailure(next)
        BY <1>6, SerialOperators DEF Serial!PublishReturns, RecordSuccess, RecordFailure, policy
    <2>2. next \in Messages
        BY <2>1, BatchAssumption DEF ModeOK
    <2>3. Free(next) /\ next \in tried
        BY <2>1, <2>2 DEF Places, Placed
    <2>4. PICK g \in {"published", "exceeded", "failed"} : groups' = Append1(groups, g, next)
        BY <2>1 DEF RecordSuccess, RecordFailure
    <2>6. g \in GroupNames \ {"aborted"}
        BY DEF GroupNames
    <2>5. \A h \in GroupNames : groups'[h] = IF h = g THEN groups[g] \cup {next} ELSE groups[h]
        BY <1>a, <2>2, <2>4, <2>6, Appended
    <2> QED
        BY <1>1, <2>1, <2>2, <2>3, <2>5, <2>6, OnePlaced
<1>7. CASE Serial!PublishMeetsOutage
    <2>1. /\ pc = "sending" /\ next' = next + 1 /\ tried' = tried
          /\ tripped' = (tripped \/ Opens(streak))
          /\ pc' = IF Opens(streak) THEN "done" ELSE "next"
          /\ groups' = IF Opens(streak)
                       THEN ClassifyRemaining(Append1(groups, "deferred", next), (next + 1)..Size)
                       ELSE Append1(groups, "deferred", next)
        BY <1>7, SerialOperators DEF Serial!PublishMeetsOutage, RecordOutage
    <2>2. next \in Messages
        BY <2>1, BatchAssumption DEF ModeOK
    <2>3. Free(next) /\ next \in tried /\ ~Exhausted(next)
        BY <2>1, <2>2 DEF Places, Placed
    <2> DEFINE one == Append1(groups, "deferred", next)
    <2>4. /\ one \in Homes
          /\ \A h \in GroupNames :
                one[h] = IF h = "deferred" THEN groups["deferred"] \cup {next} ELSE groups[h]
        BY <2>2, AppendingOne DEF Types, GroupNames
    <2>5. CASE ~Opens(streak)
        <3>1. \A h \in GroupNames :
                  groups'[h] = IF h = "deferred" THEN groups["deferred"] \cup {next} ELSE groups[h]
            BY <2>1, <2>4, <2>5
        <3> QED
            BY <1>1, <2>1, <2>2, <2>3, <2>5, <3>1, OnePlaced DEF GroupNames
    <2>6. CASE Opens(streak)
        <3> DEFINE rest == (next + 1)..Size
        <3>1. rest \in SUBSET Messages /\ rest = {m \in Messages : m > next}
            BY <2>2, BatchAssumption DEF Messages
        <3> HIDE DEF one, rest
        <3>2. \A h \in GroupNames : groups'[h] =
                IF h = "exceeded" THEN one[h] \cup {m \in rest : Exhausted(m)}
                ELSE IF h = "deferred" THEN one[h] \cup {m \in rest : ~Exhausted(m)}
                ELSE one[h]
            BY <2>1, <2>4, <2>6, <3>1, Classifying DEF one, rest
        <3> SUFFICES ASSUME NEW m \in Messages PROVE Placed(m)'
            BY DEF Places, Messages
        <3>3. Placed(m) /\ m \in Nat /\ next \in Nat
            BY BatchAssumption DEF Places, Messages, Types
        <3>4. Exhausted(m)' <=> Exhausted(m)
            BY <1>1 DEF Exhausted
        <3>5. CASE m < next
            <4>1. \A h \in GroupNames : m \in groups'[h] <=> m \in groups[h]
                <5>1. m \notin rest /\ m # next
                    BY <3>1, <3>3, <3>5
                <5> QED
                    BY <1>b, <2>4, <3>2, <5>1
            <4>2. (Free(m)' <=> Free(m)) /\ (Settled(m)' <=> Settled(m))
                BY <4>1 DEF Free, Settled
            <4> QED
                BY <1>1, <2>1, <2>6, <3>3, <3>4, <3>5, <4>1, <4>2 DEF Placed, GroupNames
        <3>6. CASE m = next
            <4>1. \A h \in GroupNames : m \in groups'[h] <=> h = "deferred"
                BY <2>3, <2>4, <3>1, <3>2, <3>3, <3>6 DEF Free
            <4>2. Settled(m)'
                BY <4>1 DEF Settled, GroupNames
            <4> QED
                BY <1>1, <2>1, <2>3, <2>6, <3>3, <3>4, <3>6, <4>1, <4>2 DEF Placed, GroupNames
        <3>7. CASE m > next
            <4>1. Free(m) /\ m \notin tried
                BY <2>1, <3>3, <3>7 DEF Placed
            <4>2. \A h \in GroupNames :
                      m \in groups'[h] <=> h = IF Exhausted(m) THEN "exceeded" ELSE "deferred"
                <5>1. m \in rest /\ m # next
                    BY <3>1, <3>3, <3>7
                <5>2. \A h \in GroupNames : m \notin one[h]
                    BY <1>b, <2>4, <4>1, <5>1 DEF Free
                <5> QED
                    BY <3>2, <5>1, <5>2
            <4>6. tripped'
                BY <2>1, <2>6
            <4>3. pc' = "done" /\ m \notin tried' /\ m \notin pending' /\ m >= next'
                BY <1>1, <2>1, <2>6, <3>3, <3>7, <4>1
            <4>4. ~(m < next')
                BY <2>1, <3>3, <3>7
            <4>5. /\ m \in groups'["exceeded"] => Exhausted(m)
                  /\ m \in groups'["deferred"] => ~Exhausted(m)
                  /\ m \notin groups'["published"] /\ m \notin groups'["failed"]
                  /\ \A g, h \in GroupNames : m \in groups'[g] /\ m \in groups'[h] => g = h
                BY <4>2 DEF GroupNames
            <4> QED
                BY <3>4, <4>3, <4>4, <4>5, <4>6 DEF Placed
        <3> QED
            BY <3>3, <3>5, <3>6, <3>7
    <2> QED
        BY <2>5, <2>6
<1>8. CASE Serial!Return
    <2>1. UNCHANGED <<retries, next, groups, tried, tripped, pending>> /\ pc = "next" /\ pc' = "done"
        BY <1>1, <1>8 DEF Serial!Return, Serial!batchVars, Serial!policy
    <2>2. ASSUME NEW m \in Messages PROVE Placed(m)'
        <3>1. Placed(m)
            BY DEF Places
        <3> QED
            BY <2>1, <3>1 DEF Placed, Free, Settled, Exhausted
    <2> QED
        BY <2>2 DEF Places, Messages
<1> QED
    BY <1>3, <1>4, <1>5, <1>6, <1>7, <1>8 DEF SerialStep, Serial!Relay

LEMMA ConsumePlaces ==
    ASSUME Types, Types', Places, NEW one \in pending, Consume(one),
           pc \notin {"sending", "done"}, pc' # "sending"
    PROVE  Places'
<1>1. one \in Messages /\ groups \in Homes
    BY DEF Types
<1>6. Free(one) /\ one \in tried
    BY <1>1 DEF Places, Placed
<1>7. next' = next /\ pending' = pending \ {one} /\ UNCHANGED retries /\ tried' = tried
    BY DEF Consume
<1>2. tripped => tripped'
    BY DEF Consume, RecordSuccess, RecordFailure, RecordOutage, policy
<1>3. PICK g \in {"published", "exceeded", "failed", "deferred"} : groups' = Append1(groups, g, one)
    BY DEF Consume, RecordSuccess, RecordFailure
<1>4. g \in GroupNames \ {"aborted"}
    BY DEF GroupNames
<1>5. \A h \in GroupNames : groups'[h] = IF h = g THEN groups[g] \cup {one} ELSE groups[h]
    BY <1>1, <1>3, <1>4, Appended
<1> QED
    BY <1>1, <1>2, <1>4, <1>5, <1>6, <1>7, OnePlaced

LEMMA RefillPlaces == Types /\ Types' /\ Places /\ Refill => Places'
<1> SUFFICES ASSUME Types, Types', Places, Refill PROVE Places'
    OBVIOUS
<1>1. /\ next \in Messages /\ groups \in Homes /\ next \in Nat
      /\ pc = "fill" /\ pc' = "fill" /\ UNCHANGED retries
    BY BatchAssumption DEF Types, Refill, MayRefill, Remaining, Messages
<1>2. Free(next) /\ next \notin pending /\ next \notin tried
    BY <1>1 DEF Places, Placed
<1>3. CASE deadline = "passed"
    <2>1. UNCHANGED <<retries, next, groups, tried, tripped, pending>>
        BY <1>3 DEF Refill, policy
    <2>2. ASSUME NEW m \in Messages PROVE Placed(m)'
        BY <1>1, <2>1, PlacedStays DEF Places
    <2> QED
        BY <2>2 DEF Places, Messages
<1>4. ASSUME NEW g \in {"exceeded", "failed", "deferred"},
             deadline # "passed",
             groups' = Append1(groups, g, next), pending' = pending,
             \/ g = "exceeded" /\ Exhausted(next) /\ tried' = tried
             \/ ~Exhausted(next) /\ tried' = tried \cup {next}
      PROVE  Places'
    <2>1. next' = next + 1
        BY <1>4 DEF Refill
    <2>2. tripped => tripped'
        BY DEF Refill, RecordFailure, RecordOutage, policy
    <2>3. g \in GroupNames \ {"aborted"}
        BY DEF GroupNames
    <2>4. \A h \in GroupNames : groups'[h] = IF h = g THEN groups[g] \cup {next} ELSE groups[h]
        BY <1>1, <1>4, <2>3, Appended
    <2> QED
        BY <1>1, <1>2, <1>4, <2>1, <2>2, <2>3, <2>4, OnePlaced
<1>5. CASE /\ deadline # "passed" /\ ~Exhausted(next) /\ next' = next + 1
           /\ tried' = tried \cup {next} /\ pending' = pending \cup {next}
           /\ UNCHANGED <<groups, tripped>>
    <2> SUFFICES ASSUME NEW m \in Messages PROVE Placed(m)'
        BY DEF Places, Messages
    <2>1. Placed(m) /\ m \in Nat
        BY BatchAssumption DEF Places, Messages
    <2>2. (Exhausted(m)' <=> Exhausted(m)) /\ (Free(m)' <=> Free(m)) /\ (Settled(m)' <=> Settled(m))
        BY <1>1, <1>5 DEF Exhausted, Free, Settled
    <2>3. \A g \in GroupNames : next \notin groups[g]
        BY <1>2 DEF Free
    <2> QED
        BY <1>1, <1>2, <1>5, <2>1, <2>2, <2>3 DEF Placed, GroupNames
<1> QED
    BY <1>3, <1>4, <1>5 DEF Refill, RecordFailure, policy

LEMMA ReturnPlaces == Types /\ Types' /\ Places /\ Stops /\ Return => Places'
<1> SUFFICES ASSUME Types, Types', Places, Stops, Return PROVE Places'
    OBVIOUS
<1>1. /\ pc = "over" /\ pc' = "done" /\ tripped' = tripped
      /\ UNCHANGED <<retries, next, tried, pending>>
    BY DEF Return, policy
<1>2. /\ Remaining \in SUBSET Messages
      /\ \A m \in Messages : m \in Remaining <=> m >= next
      /\ groups \in Homes
    BY BatchAssumption DEF Types, Remaining, Messages
<1>3. \A m \in Messages : m >= next => Free(m)
    BY <1>1 DEF Places, Placed
<1>4. \A m \in Messages : m < next => m \notin Remaining
    BY <1>2, BatchAssumption DEF Types, Messages
<1>5. "aborted" \in GroupNames
    BY DEF GroupNames
<1>6. CASE groups' = AppendAll(groups, "aborted", Remaining)
    <2>1. \A h \in GroupNames : AppendAll(groups, "aborted", Remaining)[h] =
              IF h = "aborted" THEN groups["aborted"] \cup Remaining ELSE groups[h]
        BY <1>2, <1>5, Appending
    <2>2. \A m \in Messages : m >= next => \A h \in GroupNames : m \in groups'[h] <=> h = "aborted"
        BY <1>2, <1>3, <1>6, <2>1 DEF Free
    <2>3. \A m \in Messages : m < next => \A h \in GroupNames : m \in groups'[h] <=> m \in groups[h]
        BY <1>4, <1>6, <2>1
    <2> QED
        BY <1>1, <2>2, <2>3, RestPlaced
<1>7. CASE stop = "breaker" /\ groups' = ClassifyRemaining(groups, Remaining)
    <2>1. tripped
        BY <1>7 DEF Stops
    <2>2. \A h \in GroupNames : ClassifyRemaining(groups, Remaining)[h] =
                IF h = "exceeded" THEN groups[h] \cup {m \in Remaining : Exhausted(m)}
                ELSE IF h = "deferred" THEN groups[h] \cup {m \in Remaining : ~Exhausted(m)}
                ELSE groups[h]
        BY <1>2, Classifying
    <2>3. \A m \in Messages : m >= next =>
              /\ Exhausted(m) => \A h \in GroupNames : m \in groups'[h] <=> h = "exceeded"
              /\ ~Exhausted(m) => \A h \in GroupNames : m \in groups'[h] <=> h = "deferred"
        BY <1>2, <1>3, <1>7, <2>2 DEF Free
    <2>4. \A m \in Messages : m < next => \A h \in GroupNames : m \in groups'[h] <=> m \in groups[h]
        BY <1>4, <1>7, <2>2
    <2> QED
        BY <1>1, <2>1, <2>3, <2>4, RestPlaced
<1>8. CASE groups' = groups
    <2>1. \A m \in Messages : \A h \in GroupNames : m \in groups'[h] <=> m \in groups[h]
        BY <1>8
    <2> QED
        BY <1>1, <2>1, RestPlaced
<1> QED
    BY <1>6, <1>7, <1>8 DEF Return, Types

LEMMA ParallelPlaces == Types /\ Types' /\ ModeOK /\ Places /\ Stops /\ ParallelStep => Places'
<1> SUFFICES ASSUME Types, Types', ModeOK, Places, Stops, MainThread, concurrency > 1 PROVE Places'
    BY DEF ParallelStep
<1>1. CASE Loop \/ Refilled \/ Poll \/ Swept \/ Raise
    <2>1. UNCHANGED <<retries, next, groups, tried, tripped, pending>>
        BY <1>1 DEF Loop, Refilled, Poll, Swept, Raise, batchVars, policy
    <2>2. pc \notin {"sending", "done"} /\ pc' # "sending"
        BY <1>1 DEF Loop, Refilled, DoneRefilling, Poll, Swept, Raise
    <2>3. ASSUME NEW m \in Messages PROVE Placed(m)'
        BY <2>1, <2>2, PlacedStays DEF Places
    <2> QED
        BY <2>3 DEF Places, Messages
<1>2. CASE Sweep
    <2>1. PICK m \in finished : Consume(m) /\ pc = "sweep" /\ pc' = pc
        BY <1>2 DEF Sweep
    <2> QED
        BY <2>1, ConsumePlaces DEF Types
<1>3. ASSUME NEW m \in Messages, Await(m)
      PROVE  Places'
    BY <1>3, ConsumePlaces DEF Await
<1> QED
    BY <1>1, <1>2, <1>3, RefillPlaces, ReturnPlaces DEF MainThread

LEMMA InitPlaces == ModeInit => Places /\ Stops /\ Left
<1> SUFFICES ASSUME ModeInit PROVE Places /\ Stops /\ Left
    OBVIOUS
<1>1. BatchInit
    BY DEF ModeInit, Init, Serial!Init, Serial!BatchInit, BatchInit, Serial!Messages, Messages,
           Serial!GroupNames, GroupNames
<1>2. pc \in {"next", "loop"} /\ pending = {} /\ stop = "none"
    BY DEF ModeInit, Init, Serial!Init
<1>3. next = 1 /\ tried = {} /\ ~tripped /\ \A g \in GroupNames : groups[g] = {}
    BY <1>1 DEF BatchInit
<1>4. ASSUME NEW m \in Messages PROVE Placed(m)
    <2>1. ~(m < next)
        BY <1>3, BatchAssumption DEF Messages
    <2> QED
        BY <1>2, <1>3, <2>1 DEF Placed, Free, GroupNames
<1>5. groups["aborted"] = {}
    BY <1>3 DEF GroupNames
<1> QED
    BY <1>2, <1>3, <1>4, <1>5 DEF Places, Stops, Left

LEMMA Untouched ==
    ASSUME Places, UNCHANGED <<retries, next, groups, tried, tripped, pending, pc>>
    PROVE  Places'
<1>1. ASSUME NEW m \in Messages PROVE Placed(m)'
    BY DEF Places, Placed, Free, Settled, Exhausted
<1> QED
    BY <1>1 DEF Places, Messages

LEMMA WorkerLeaves ==
    (\E m \in Messages : WorkerStep(m)) \/ (Environment /\ UNCHANGED concurrency) \/ UNCHANGED modeVars
        => /\ UNCHANGED <<retries, next, groups, tried, streak, tripped, answers>>
           /\ UNCHANGED <<pc, pending, finished, stop, concurrency>>
           /\ deadline # "none" => deadline' # "none"
BY DEF WorkerStep, WorkerEnds, Environment, Signal, DeadlinePasses, modeVars, vars, batchVars,
       policy, shutdown

LEMMA NextPlaces ==
    Types /\ Types' /\ ModeOK /\ Places /\ Stops /\ [ModeNext]_modeVars => Places'
<1>1. ASSUME Places, (\E m \in Messages : WorkerStep(m)) \/ (Environment /\ UNCHANGED concurrency)
                     \/ UNCHANGED modeVars
      PROVE  Places'
    BY <1>1, WorkerLeaves, Untouched
<1> QED
    BY <1>1, SerialPlaces, ParallelPlaces DEF ModeNext, Process

-------------------------------------------------------------------------------
\* Why and how the batch ends.

LEMMA SerialStops ==
    Types /\ ModeOK /\ Stops /\ SerialStep /\ UNCHANGED concurrency => Stops'
<1> SUFFICES ASSUME Types, ModeOK, Stops, SerialStep, UNCHANGED concurrency PROVE Stops'
    OBVIOUS
<1>1. /\ concurrency = 1 /\ concurrency' = 1 /\ stop' = "none" /\ groups \in Homes
      /\ pc # "done" /\ ~tripped /\ deadline' = deadline
    BY ConcurrencyAssumption, SerialOperators
       DEF SerialStep, window, ModeOK, Stops, Types, Serial!Relay, Serial!Abort, Serial!PreExceeded,
           Serial!Publish, Serial!PublishReturns, Serial!PublishMeetsOutage, Serial!Return,
           Serial!batchVars, Serial!shutdown
<1>2. tripped' => pc' = "done"
    BY <1>1, SerialOperators
       DEF SerialStep, Serial!Relay, Serial!Abort, Serial!PreExceeded, Serial!Publish,
           Serial!PublishReturns, Serial!PublishMeetsOutage, Serial!Return, Serial!batchVars,
           Serial!policy, RecordSuccess, RecordFailure, RecordOutage, policy
<1>3. groups'["aborted"] # {} => deadline # "none"
    <2>1. Serial!Abort => deadline # "none"
        BY DEF Serial!Abort
    <2>2. ASSUME ~Serial!Abort
          PROVE  groups'["aborted"] = groups["aborted"]
        <3>1. CASE Serial!Publish \/ Serial!Return
            BY <3>1 DEF Serial!Publish, Serial!Return, Serial!batchVars
        <3>2. CASE Serial!PreExceeded
            <4>1. groups' = Append1(groups, "exceeded", next)
                BY <3>2, SerialOperators DEF Serial!PreExceeded
            <4> QED
                BY <1>1, <4>1 DEF Append1, Homes, GroupNames
        <3>3. CASE Serial!PublishReturns
            <4>1. \E g \in {"published", "exceeded", "failed"} : groups' = Append1(groups, g, next)
                BY <3>3, SerialOperators DEF Serial!PublishReturns, RecordSuccess, RecordFailure
            <4> QED
                BY <1>1, <4>1 DEF Append1, Homes, GroupNames
        <3>4. CASE Serial!PublishMeetsOutage
            <4>1. \/ groups' = Append1(groups, "deferred", next)
                  \/ groups' = ClassifyRemaining(Append1(groups, "deferred", next), (next + 1)..Size)
                BY <3>4, SerialOperators DEF Serial!PublishMeetsOutage
            <4> QED
                BY <1>1, <4>1 DEF ClassifyRemaining, AppendAll, Append1, Homes, GroupNames
        <3> QED
            BY <2>2, <3>1, <3>2, <3>3, <3>4 DEF SerialStep, Serial!Relay
    <2> QED
        BY <2>1, <2>2 DEF Stops
<1> QED
    BY <1>1, <1>2, <1>3 DEF Stops

\* What consuming a future, or taking up a message, does to the reasons to stop.
LEMMA ParallelStops ==
    Types /\ ModeOK /\ Stops /\ ParallelStep /\ UNCHANGED concurrency => Stops'
<1> SUFFICES ASSUME Types, ModeOK, Stops, MainThread, concurrency > 1, UNCHANGED concurrency
             PROVE  Stops'
    BY DEF ParallelStep
<1>1. concurrency # 1 /\ concurrency' # 1 /\ groups \in Homes
    BY ConcurrencyAssumption DEF ModeOK, Types
<1>2. ASSUME NEW g \in GroupNames \ {"aborted"}, NEW m, groups' = Append1(groups, g, m)
      PROVE  groups'["aborted"] = groups["aborted"]
    BY <1>1, <1>2 DEF Append1, Homes, GroupNames
<1>3. ASSUME NEW m \in pending, Consume(m)
      PROVE  Stops'
    <2>1. groups'["aborted"] = groups["aborted"]
        BY <1>2, <1>3 DEF Consume, RecordSuccess, RecordFailure, GroupNames
    <2>2. deadline' = deadline
        BY <1>3 DEF Consume, shutdown
    <2>3. CASE UNCHANGED tripped /\ UNCHANGED stop
        BY <1>1, <2>1, <2>2, <2>3 DEF Stops
    <2>4. CASE /\ tripped' = (tripped \/ Opens(streak))
               /\ stop' = IF Opens(streak) /\ stop # "shutdown" THEN "breaker" ELSE stop
        <3>1. tripped' <=> (tripped \/ Opens(streak))
            BY <2>4
        <3> QED
            BY <1>1, <2>1, <2>2, <2>4, <3>1 DEF Stops
    <2> QED
        BY <1>3, <2>3, <2>4 DEF Consume, RecordSuccess, RecordFailure, RecordOutage, policy
<1>4. CASE Loop \/ Refilled \/ Poll \/ Swept \/ Raise
    <2>1. UNCHANGED <<groups, tripped, deadline>>
        BY <1>4 DEF Loop, Refilled, Poll, Swept, Raise, batchVars, policy, shutdown
    <2>2. stop' = stop \/ (stop' = "shutdown" /\ deadline = "passed")
        BY <1>4 DEF Loop, Refilled, Poll, Swept, Raise
    <2> QED
        BY <1>1, <2>1, <2>2 DEF Stops
<1>5. CASE Refill
    <2>1. groups'["aborted"] = groups["aborted"]
        BY <1>2, <1>5 DEF Refill, RecordFailure, GroupNames
    <2>2. deadline' = deadline
        BY <1>5 DEF Refill, shutdown
    <2>3. CASE UNCHANGED tripped /\ (stop' = stop \/ (stop' = "shutdown" /\ deadline = "passed"))
        BY <1>1, <1>5, <2>1, <2>2, <2>3 DEF Stops, Refill, MayRefill
    <2>4. CASE /\ tripped' = (tripped \/ Opens(streak))
               /\ stop' = IF Opens(streak) THEN "breaker" ELSE stop
        <3>1. tripped' <=> (tripped \/ Opens(streak))
            BY <2>4
        <3> QED
            BY <1>1, <2>1, <2>2, <2>4, <3>1 DEF Stops
    <2> QED
        BY <1>5, <2>3, <2>4 DEF Refill, RecordFailure, RecordOutage, policy
<1>6. CASE Return
    <2>1. UNCHANGED <<tripped, deadline, stop>>
        BY <1>6 DEF Return, policy, shutdown
    <2>2. stop # "shutdown" => groups'["aborted"] = groups["aborted"]
        BY <1>1, <1>6 DEF Return, Types, ClassifyRemaining, AppendAll, Homes, GroupNames
    <2> QED
        BY <1>1, <2>1, <2>2 DEF Stops
<1>7. CASE Sweep
    BY <1>3, <1>7 DEF Sweep, Types
<1>8. ASSUME NEW m \in Messages, Await(m)
      PROVE  Stops'
    BY <1>3, <1>8 DEF Await
<1> QED
    BY <1>4, <1>5, <1>6, <1>7, <1>8 DEF MainThread

LEMMA NextStops == Types /\ ModeOK /\ Stops /\ [ModeNext]_modeVars => Stops'
<1>1. ASSUME Stops, (\E m \in Messages : WorkerStep(m)) \/ (Environment /\ UNCHANGED concurrency)
                    \/ UNCHANGED modeVars
      PROVE  Stops'
    BY <1>1, WorkerLeaves DEF Stops
<1> QED
    BY <1>1, SerialStops, ParallelStops DEF ModeNext, Process

\* A serial batch, and one that something stopped, leaves no message out.
Whole ==
    pc = "done" /\ (concurrency = 1 \/ stop # "none") => \A m \in Messages : ~Free(m)

LEMMA NextLeft == Types /\ ModeOK /\ Left /\ [ModeNext]_modeVars => Left'
<1>1. Types /\ ModeOK /\ SerialStep => Left'
    BY ConcurrencyAssumption DEF SerialStep, window, ModeOK, Left
<1>2. Left /\ ParallelStep => Left'
    BY DEF ParallelStep, MainThread, Loop, Refill, Refilled, DoneRefilling, Await, Poll, Sweep,
           Swept, Raise, Return, Left
<1>3. ASSUME Left, (\E m \in Messages : WorkerStep(m)) \/ (Environment /\ UNCHANGED concurrency)
                   \/ UNCHANGED modeVars
      PROVE  Left'
    BY <1>3, WorkerLeaves DEF Left
<1> QED
    BY <1>1, <1>2, <1>3 DEF ModeNext, Process

LEMMA NextWhole ==
    Types /\ Types' /\ ModeOK /\ Places /\ Places' /\ Left /\ Left' /\ Whole /\ [ModeNext]_modeVars
        => Whole'
<1> SUFFICES ASSUME Types, Types', ModeOK, Places, Places', Left, Left', Whole,
                    [ModeNext]_modeVars,
                    pc' = "done", concurrency' = 1 \/ stop' # "none",
                    NEW m \in Messages
             PROVE  ~(Free(m)')
    BY DEF Whole, Messages
<1>1. m \in Nat /\ next' \in Nat /\ next \in Nat /\ groups \in Homes /\ Placed(m) /\ Placed(m)'
    BY BatchAssumption DEF Types, Messages, Places
<1>2. CASE m < next'
    <2>1. Settled(m)'
        BY <1>1, <1>2 DEF Placed, Left
    <2> QED
        BY <2>1 DEF Settled, Free
<1>3. CASE SerialStep /\ m >= next'
    <2>1. CASE Serial!Abort
        <3>1. groups' = AppendAll(groups, "aborted", Remaining) /\ next' = next
            BY <2>1, SerialOperators DEF Serial!Abort
        <3>2. m \in Remaining
            BY <1>1, <1>3, <3>1, BatchAssumption DEF Remaining, Messages
        <3> QED
            BY <1>1, <3>1, <3>2 DEF Free, AppendAll, Homes, GroupNames
    <2>2. CASE Serial!PublishMeetsOutage
        <3>1. /\ groups' = ClassifyRemaining(Append1(groups, "deferred", next), (next + 1)..Size)
              /\ next' = next + 1
            BY <2>2, SerialOperators DEF Serial!PublishMeetsOutage
        <3>2. m \in (next + 1)..Size
            BY <1>1, <1>3, <3>1, BatchAssumption DEF Messages
        <3> HIDE <3>1
        <3> QED
            BY <1>1, <3>1, <3>2 DEF Free, ClassifyRemaining, AppendAll, Append1, Homes, GroupNames
    <2>3. CASE Serial!Return
        <3>1. Remaining = {} /\ next' = next
            BY <2>3, SerialOperators DEF Serial!Return, Serial!batchVars
        <3> QED
            BY <1>1, <1>3, <3>1, BatchAssumption DEF Remaining, Messages
    <2>4. CASE Serial!PreExceeded \/ Serial!Publish \/ Serial!PublishReturns
        BY <2>4 DEF Serial!PreExceeded, Serial!Publish, Serial!PublishReturns
    <2> QED
        BY <1>3, <2>1, <2>2, <2>3, <2>4 DEF SerialStep, Serial!Relay
<1>4. CASE ParallelStep /\ UNCHANGED concurrency /\ m >= next'
    <2>1. Return
        BY <1>4 DEF ParallelStep, MainThread, Loop, Refill, Refilled, DoneRefilling, Await, Poll,
                    Sweep, Swept, Raise
    <2>2. stop # "none" /\ next' = next
        BY <1>4, <2>1 DEF ParallelStep, Return
    <2>3. m \in Remaining
        BY <1>1, <1>4, <2>2, BatchAssumption DEF Remaining, Messages
    <2>4. \/ groups' = AppendAll(groups, "aborted", Remaining)
          \/ groups' = ClassifyRemaining(groups, Remaining)
        BY <2>1, <2>2 DEF Return, Types
    <2> QED
        BY <1>1, <2>3, <2>4 DEF Free, ClassifyRemaining, AppendAll, Homes, GroupNames
<1>5. CASE (\E w \in Messages : WorkerStep(w)) \/ (Environment /\ UNCHANGED concurrency)
           \/ UNCHANGED modeVars
    BY <1>5, WorkerLeaves DEF Whole, Free
<1> QED
    BY <1>1, <1>2, <1>3, <1>4, <1>5 DEF ModeNext, Process

-------------------------------------------------------------------------------
\* How a publish ended, and where its message is.

Kept(m) ==
    /\ future[m] # "none" => m \in tried
    /\ m \notin pending =>
          /\ future[m] \notin {"running", "fatal"}
          /\ future[m] = "ok" => m \in groups["published"]
          /\ future[m] = "outage" => m \in groups["deferred"]
          /\ future[m] = "error" => m \in groups["failed"] \cup groups["exceeded"]

Outcomes == \A m \in Messages : Kept(m)

LEMMA Growing ==
    Types /\ ModeOK /\ [ModeNext]_modeVars => \A g \in GroupNames : groups[g] \subseteq groups'[g]
<1> SUFFICES ASSUME Types, ModeOK, [ModeNext]_modeVars
             PROVE  \A g \in GroupNames : groups[g] \subseteq groups'[g]
    OBVIOUS
<1>1. groups \in Homes
    BY DEF Types
<1>2. \A m : \A h \in GroupNames :
          \A g \in GroupNames : groups[g] \subseteq Append1(groups, h, m)[g]
    BY <1>1 DEF Append1, Homes
<1>3. \A ms : \A g \in GroupNames : groups[g] \subseteq AppendAll(groups, "aborted", ms)[g]
    BY <1>1 DEF AppendAll, Homes
<1>4. \A ms : \A g \in GroupNames : groups[g] \subseteq ClassifyRemaining(groups, ms)[g]
    BY <1>1 DEF ClassifyRemaining, AppendAll, Homes
<1>5. \A m, ms : \A g \in GroupNames :
          groups[g] \subseteq ClassifyRemaining(Append1(groups, "deferred", m), ms)[g]
    BY <1>1 DEF ClassifyRemaining, AppendAll, Append1, Homes
<1>6. CASE SerialStep
    <2>1. \/ groups' = groups
          \/ groups' = AppendAll(groups, "aborted", Remaining)
          \/ \E h \in GroupNames : groups' = Append1(groups, h, next)
          \/ groups' = ClassifyRemaining(Append1(groups, "deferred", next), (next + 1)..Size)
        BY <1>6, SerialOperators
           DEF SerialStep, Serial!Relay, Serial!Abort, Serial!PreExceeded, Serial!Publish,
               Serial!PublishReturns, Serial!PublishMeetsOutage, Serial!Return, Serial!batchVars,
               RecordSuccess, RecordFailure, GroupNames
    <2> QED
        BY <1>2, <1>3, <1>5, <2>1
<1>7. CASE ParallelStep
    <2>1. \/ groups' = groups
          \/ groups' = AppendAll(groups, "aborted", Remaining)
          \/ \E h \in GroupNames, m \in Messages \cup {next} : groups' = Append1(groups, h, m)
          \/ groups' = ClassifyRemaining(groups, Remaining)
        BY <1>7 DEF ParallelStep, MainThread, Loop, Refill, Refilled, Await, Poll, Sweep, Swept,
                    Raise, Return, Consume, RecordSuccess, RecordFailure, GroupNames, batchVars,
                    Types
    <2> QED
        BY <1>2, <1>3, <1>4, <2>1
<1>8. CASE (\E w \in Messages : WorkerStep(w)) \/ (Environment /\ UNCHANGED concurrency)
           \/ UNCHANGED modeVars
    BY <1>8, WorkerLeaves
<1> QED
    BY <1>6, <1>7, <1>8 DEF ModeNext, Process

LEMMA NextOutcomes ==
    Types /\ Types' /\ ModeOK /\ ModeOK' /\ Places /\ Outcomes /\ [ModeNext]_modeVars => Outcomes'
<1> SUFFICES ASSUME Types, Types', ModeOK, ModeOK', Places, Outcomes, [ModeNext]_modeVars,
                    NEW m \in Messages
             PROVE  Kept(m)'
    BY DEF Outcomes, Messages
<1>1. /\ \A g \in GroupNames : groups[g] \subseteq groups'[g]
      /\ {"published", "failed", "exceeded", "deferred"} \subseteq GroupNames
    BY Growing DEF GroupNames
<1>2. Kept(m)
    BY DEF Outcomes
<1>3. ASSUME UNCHANGED <<future, pending>>, tried \subseteq tried'
      PROVE  Kept(m)'
    BY <1>1, <1>2, <1>3 DEF Kept
<1>4. CASE SerialStep /\ UNCHANGED concurrency
    <2>1. future'[m] = "none"
        BY <1>4, ConcurrencyAssumption DEF SerialStep, window, ModeOK
    <2> QED
        BY <2>1 DEF Kept
<1>5. CASE ParallelStep
    <2>1. CASE Loop \/ Refilled \/ Poll \/ Swept \/ Raise \/ Return
        BY <1>3, <2>1 DEF Loop, Refilled, Poll, Swept, Raise, Return, batchVars
    <2>2. CASE Refill
        <3>1. CASE UNCHANGED <<future, pending>>
            BY <1>3, <2>2, <3>1 DEF Refill
        <3>2. CASE /\ future' = [future EXCEPT ![next] = "running"]
                   /\ pending' = pending \cup {next}
                   /\ tried' = tried \cup {next}
            <4>1. next \in Messages
                BY <2>2, BatchAssumption DEF Types, Refill, MayRefill, Remaining, Messages
            <4>2. future'[m] = IF m = next THEN "running" ELSE future[m]
                BY <3>2, <4>1 DEF Types
            <4> QED
                BY <1>1, <1>2, <3>2, <4>2 DEF Kept
        <3> QED
            BY <2>2, <3>1, <3>2 DEF Refill
    <2>3. ASSUME NEW one \in pending, Consume(one)
          PROVE  Kept(m)'
        <3>1. /\ pending' = pending \ {one} /\ UNCHANGED <<future, tried>>
              /\ one \in Messages /\ groups \in Homes
            BY <2>3 DEF Consume, Types
        <3>2. \A g \in GroupNames : one \in Append1(groups, g, one)[g]
            BY <3>1 DEF Append1, Homes
        <3>3. /\ future[one] \in {"ok", "error", "outage"}
              /\ future[one] = "ok" => one \in groups'["published"]
              /\ future[one] = "error" => one \in groups'["failed"] \cup groups'["exceeded"]
              /\ future[one] = "outage" => one \in groups'["deferred"]
            BY <1>1, <2>3, <3>2 DEF Consume, RecordSuccess, RecordFailure
        <3>4. CASE m = one
            BY <1>2, <3>1, <3>3, <3>4 DEF Kept
        <3>5. CASE m # one
            BY <1>1, <1>2, <3>1, <3>5 DEF Kept
        <3> QED
            BY <3>4, <3>5
    <2>4. CASE Sweep
        BY <2>3, <2>4 DEF Sweep, Types
    <2>5. ASSUME NEW one \in Messages, Await(one)
          PROVE  Kept(m)'
        BY <2>3, <2>5 DEF Await
    <2> QED
        BY <1>5, <2>1, <2>2, <2>4, <2>5 DEF ParallelStep, MainThread
<1>6. ASSUME NEW w \in Messages, WorkerStep(w)
      PROVE  Kept(m)'
    <2>1. future[w] = "running" /\ UNCHANGED <<pending, tried, groups>>
        BY <1>6 DEF WorkerStep, WorkerEnds, batchVars
    <2>2. w \in pending /\ w \in tried
        BY <2>1 DEF Outcomes, Kept
    <2>3. m # w => future'[m] = future[m]
        BY <1>6 DEF WorkerStep, WorkerEnds, Types
    <2> QED
        BY <1>2, <2>1, <2>2, <2>3 DEF Kept
<1>7. CASE (Environment /\ UNCHANGED concurrency) \/ UNCHANGED modeVars
    BY <1>3, <1>7 DEF Environment, modeVars, vars, batchVars
<1> QED
    BY <1>4, <1>5, <1>6, <1>7 DEF ModeNext, Process

-------------------------------------------------------------------------------
\* The outages that open the breaker.

Deferred == tried \cap groups["deferred"]

\* The last answer was an outage; two of them in a row were.
EndsInOutage(s) == s # <<>> /\ s[Len(s)] = "outage"
TwoInARow(s) == \E i \in 1..(Len(s) - 1) : s[i] = "outage" /\ s[i + 1] = "outage"

\* RelayPolicy is told of a success.
Succeeded == streak' = 0 /\ tripped' = tripped /\ answers' = Append(answers, "success")

\* The streak is positive where the last answer was an outage, the breaker is open
\* where two in a row were, and the outage that opened it deferred its message.
Counted ==
    /\ streak # 0 <=> EndsInOutage(answers)
    /\ tripped <=> TwoInARow(answers)
    /\ tripped => Deferred # {}

\* What one more answer adds.
LEMMA Answered ==
    ASSUME NEW s \in Answers, NEW a \in {"success", "outage"}
    PROVE  /\ EndsInOutage(Append(s, a)) <=> a = "outage"
           /\ TwoInARow(Append(s, a)) <=> TwoInARow(s) \/ (a = "outage" /\ EndsInOutage(s))
<1> DEFINE t == Append(s, a)
<1>1. /\ Len(s) \in Nat /\ Len(t) = Len(s) + 1 /\ t # <<>> /\ t[Len(s) + 1] = a
      /\ \A i \in 1..Len(s) : t[i] = s[i]
      /\ s = <<>> <=> Len(s) = 0
    BY DEF Answers
<1> HIDE DEF t
<1>2. EndsInOutage(t) <=> a = "outage"
    BY <1>1 DEF EndsInOutage
<1>3. TwoInARow(s) => TwoInARow(t)
    BY <1>1 DEF TwoInARow
<1>4. a = "outage" /\ EndsInOutage(s) => TwoInARow(t)
    BY <1>1 DEF TwoInARow, EndsInOutage
<1>5. TwoInARow(t) => TwoInARow(s) \/ (a = "outage" /\ EndsInOutage(s))
    <2> SUFFICES ASSUME NEW i \in 1..(Len(t) - 1), t[i] = "outage", t[i + 1] = "outage"
                 PROVE  TwoInARow(s) \/ (a = "outage" /\ EndsInOutage(s))
        BY DEF TwoInARow
    <2>1. CASE i = Len(s)
        BY <1>1, <2>1 DEF EndsInOutage
    <2>2. CASE i < Len(s)
        BY <1>1, <2>2 DEF TwoInARow
    <2> QED
        BY <1>1, <2>1, <2>2
<1> QED
    BY <1>2, <1>3, <1>4, <1>5 DEF t

\* An outage is counted with its message deferred; otherwise RelayPolicy is told of a
\* success, or of nothing.
LEMMA Counting ==
    Types /\ Types' /\ ModeOK /\ Places /\ [ModeNext]_modeVars =>
        /\ Deferred \subseteq Deferred'
        /\ \/ UNCHANGED policy \/ Succeeded
           \/ RecordOutage /\ \E one \in Messages : one \notin Deferred /\ one \in Deferred'
<1> SUFFICES ASSUME Types, Types', ModeOK, Places, [ModeNext]_modeVars
             PROVE  /\ Deferred \subseteq Deferred'
                    /\ \/ UNCHANGED policy \/ Succeeded
                       \/ /\ RecordOutage
                          /\ \E one \in Messages : one \notin Deferred /\ one \in Deferred'
    OBVIOUS
<1>1. groups["deferred"] \subseteq groups'["deferred"] /\ groups \in Homes
    BY Growing DEF GroupNames, Types
<1>2. \A one \in Messages : /\ one \in Append1(groups, "deferred", one)["deferred"]
                            /\ Free(one) => one \notin Deferred
    BY <1>1 DEF Append1, Homes, GroupNames, Free, Deferred
<1>3. CASE SerialStep
    <2>1. tried \subseteq tried'
        BY <1>3 DEF SerialStep, Serial!Relay, Serial!Abort, Serial!PreExceeded, Serial!Publish,
               Serial!PublishReturns, Serial!PublishMeetsOutage, Serial!Return, Serial!batchVars
    <2>2. CASE Serial!PublishMeetsOutage
        <3>1. /\ RecordOutage /\ tried' = tried /\ pc = "sending"
              /\ \/ groups' = Append1(groups, "deferred", next)
                 \/ groups' = ClassifyRemaining(Append1(groups, "deferred", next), (next + 1)..Size)
            BY <2>2, SerialOperators DEF Serial!PublishMeetsOutage
        <3>2. next \in Messages
            BY <3>1, BatchAssumption DEF ModeOK
        <3>3. Free(next) /\ next \in tried
            BY <3>1, <3>2 DEF Places, Placed
        <3>4. next \in groups'["deferred"]
            BY <1>1, <3>1, <3>2 DEF ClassifyRemaining, AppendAll, Append1, Homes, GroupNames
        <3>5. next \notin Deferred /\ next \in Deferred'
            BY <1>2, <3>1, <3>2, <3>3, <3>4 DEF Deferred
        <3> QED
            BY <1>1, <2>1, <3>1, <3>2, <3>5 DEF Deferred
    <2>3. CASE ~Serial!PublishMeetsOutage
        <3>1. UNCHANGED policy \/ Succeeded
            BY <1>3, <2>3, SerialOperators
               DEF SerialStep, Serial!Relay, Serial!Abort, Serial!PreExceeded, Serial!Publish,
                   Serial!PublishReturns, Serial!Return, Serial!batchVars, Serial!policy,
                   RecordSuccess, RecordFailure, Succeeded, policy
        <3> QED
            BY <1>1, <2>1, <3>1 DEF Deferred
    <2> QED
        BY <2>2, <2>3
<1>4. ASSUME NEW one \in pending, Consume(one)
      PROVE  /\ Deferred \subseteq Deferred'
             /\ \/ UNCHANGED policy \/ Succeeded
                \/ RecordOutage /\ \E l \in Messages : l \notin Deferred /\ l \in Deferred'
    <2>1. one \in Messages /\ Free(one) /\ one \in tried /\ tried' = tried
        BY <1>4 DEF Types, Places, Placed, Consume
    <2>2. CASE RecordOutage /\ groups' = Append1(groups, "deferred", one)
        <3>1. one \notin Deferred /\ one \in Deferred'
            BY <1>2, <2>1, <2>2 DEF Deferred
        <3> QED
            BY <1>1, <2>1, <2>2, <3>1 DEF Deferred
    <2>3. CASE UNCHANGED policy \/ Succeeded
        BY <1>1, <2>1, <2>3 DEF Deferred
    <2> QED
        BY <1>4, <2>2, <2>3 DEF Consume, RecordSuccess, RecordFailure, Succeeded
<1>5. CASE ParallelStep
    <2>1. CASE Loop \/ Refilled \/ Poll \/ Swept \/ Raise \/ Return
        <3>1. UNCHANGED <<tried, streak, tripped, answers>>
            BY <2>1 DEF Loop, Refilled, Poll, Swept, Raise, Return, batchVars, policy
        <3> QED
            BY <1>1, <3>1 DEF Deferred, policy
    <2>2. CASE Refill
        <3>1. /\ next \in Messages /\ pc = "fill" /\ tried \subseteq tried'
            BY <2>2, BatchAssumption DEF Types, Refill, MayRefill, Remaining, Messages
        <3>2. Free(next)
            BY <3>1, BatchAssumption DEF Places, Placed, Messages
        <3>3. CASE RecordOutage /\ groups' = Append1(groups, "deferred", next)
                   /\ tried' = tried \cup {next}
            <4>1. next \notin Deferred /\ next \in Deferred'
                BY <1>2, <3>1, <3>2, <3>3 DEF Deferred
            <4> QED
                BY <1>1, <3>1, <3>3, <4>1 DEF Deferred
        <3>4. CASE UNCHANGED policy
            BY <1>1, <3>1, <3>4 DEF Deferred
        <3> QED
            BY <2>2, <3>3, <3>4 DEF Refill, RecordFailure
    <2>3. CASE Sweep
        BY <1>4, <2>3 DEF Sweep, Types
    <2>4. ASSUME NEW one \in Messages, Await(one)
          PROVE  \E l \in pending : Consume(l)
        BY <2>4 DEF Await
    <2> QED
        BY <1>4, <1>5, <2>1, <2>2, <2>3, <2>4 DEF ParallelStep, MainThread
<1>6. CASE (\E w \in Messages : WorkerStep(w)) \/ (Environment /\ UNCHANGED concurrency)
           \/ UNCHANGED modeVars
    BY <1>1, <1>6, WorkerLeaves DEF Deferred, policy
<1> QED
    BY <1>3, <1>5, <1>6 DEF ModeNext, Process

LEMMA NextCounted ==
    Types /\ Types' /\ ModeOK /\ Places /\ Counted /\ [ModeNext]_modeVars => Counted'
<1> SUFFICES ASSUME Types, Types', ModeOK, Places, Counted, [ModeNext]_modeVars PROVE Counted'
    OBVIOUS
<1>1. Deferred \subseteq Deferred' /\ streak \in Nat /\ answers \in Answers
    BY Counting DEF Types
<1>2. CASE UNCHANGED policy
    BY <1>1, <1>2 DEF Counted, policy
<1>3. CASE Succeeded
    <2>1. ~EndsInOutage(answers') /\ (TwoInARow(answers') <=> TwoInARow(answers))
        BY <1>1, <1>3, Answered DEF Succeeded
    <2> QED
        BY <1>1, <1>3, <2>1 DEF Counted, Succeeded
<1>4. CASE RecordOutage /\ \E one \in Messages : one \notin Deferred /\ one \in Deferred'
    <2>1. /\ EndsInOutage(answers')
          /\ TwoInARow(answers') <=> TwoInARow(answers) \/ EndsInOutage(answers)
        BY <1>1, <1>4, Answered DEF RecordOutage
    <2>2. streak' # 0
        BY <1>1, <1>4 DEF RecordOutage
    <2>3. Opens(streak) <=> streak # 0
        BY <1>1 DEF Opens
    <2>4. tripped' <=> tripped \/ streak # 0
        BY <1>4, <2>3, Zenon DEF RecordOutage
    <2> QED
        BY <1>4, <2>1, <2>2, <2>4 DEF Counted
<1> QED
    BY <1>2, <1>3, <1>4, Counting

-------------------------------------------------------------------------------
\* The invariant, and what follows from it.

BatchInv == Types /\ ModeOK /\ Places /\ Stops /\ Left /\ Whole /\ Outcomes /\ Counted

LEMMA InitBatchInv == ModeInit => BatchInv
<1> SUFFICES ASSUME ModeInit PROVE BatchInv
    OBVIOUS
<1>1. BatchInit
    BY DEF ModeInit, Init, Serial!Init, Serial!BatchInit, BatchInit, Serial!Messages, Messages,
           Serial!GroupNames, GroupNames
<1>2. pc # "done" /\ \A m \in Messages : future[m] = "none"
    BY DEF ModeInit, Init, Serial!Init
<1>3. Types /\ ModeOK /\ Places /\ Stops /\ Left
    BY InitTypes, InitPlaces
<1>4. Whole /\ Outcomes
    BY <1>2 DEF Whole, Outcomes, Kept
<1>5. Counted
    <2>1. /\ ~tripped /\ streak = Len(answers)
          /\ answers = <<>> \/ answers = <<"outage">>
        BY <1>1 DEF BatchInit
    <2>2. streak # 0 <=> EndsInOutage(answers)
        BY <2>1 DEF EndsInOutage
    <2>3. ~TwoInARow(answers)
        BY <2>1 DEF TwoInARow
    <2> QED
        BY <2>1, <2>2, <2>3 DEF Counted
<1> QED
    BY <1>3, <1>4, <1>5 DEF BatchInv

LEMMA NextBatchInv == BatchInv /\ [ModeNext]_modeVars => BatchInv'
BY NextTypes, NextPlaces, NextStops, NextLeft, NextWhole, NextOutcomes, NextCounted DEF BatchInv

\* BatchModes: in both modes, for every batch size, window, budget and order of the
\* workers, the batch keeps its types and knows where each message is.
THEOREM BatchInvariance == ModeSpec => []BatchInv
BY InitBatchInv, NextBatchInv, PTL DEF ModeSpec

LEMMA AllGrouped ==
    ASSUME BatchInv, \A m \in Messages : ~Free(m)
    PROVE  Grouped = Messages
<1>1. groups \in [GroupNames -> SUBSET Messages]
    BY DEF BatchInv, Types, Homes
<1>2. \A m : m \in Grouped <=> \E g \in GroupNames : m \in groups[g]
    BY DEF Grouped
<1> QED
    BY <1>1, <1>2 DEF Free

\* A serial batch, and a parallel one that the deadline or the breaker stopped, leaves
\* no message out, and aborts one only after a signal.
THEOREM StoppedBatchIsWhole == ModeSpec => []NothingLeftOut
<1>1. BatchInv => NothingLeftOut
    BY AllGrouped DEF BatchInv, Whole, Stops, NothingLeftOut
<1> QED
    BY <1>1, BatchInvariance, PTL

\* Whatever stops a batch, a message whose publish was begun is in the group its
\* publish ended in.
THEOREM OutcomesAreKept == ModeSpec => []OutcomesKept
<1>1. ASSUME BatchInv, pc = "done", NEW m \in Messages
      PROVE  /\ future[m] = "ok" => m \in groups["published"]
             /\ future[m] = "outage" => m \in groups["deferred"]
             /\ future[m] = "error" => m \in groups["failed"] \cup groups["exceeded"]
             /\ m \in tried => m \in Grouped \ groups["aborted"]
    <2>1. m \notin pending /\ Kept(m) /\ Placed(m)
        BY <1>1 DEF BatchInv, Left, Outcomes, Places
    <2>2. m \in tried => m < next
        <3>1. m \in tried => ~(m >= next)
            BY <1>1, <2>1 DEF Placed
        <3> QED
            BY <1>1, <3>1, BatchAssumption DEF BatchInv, Types, Messages
    <2>3. m \in tried => Settled(m) /\ m \notin groups["aborted"]
        BY <2>1, <2>2 DEF Placed
    <2>4. Settled(m) => m \in Grouped
        BY DEF Settled, Grouped
    <2> QED
        BY <2>1, <2>3, <2>4 DEF Kept
<1>2. BatchInv => OutcomesKept
    BY <1>1 DEF OutcomesKept
<1> QED
    BY <1>2, BatchInvariance, PTL

\* The breaker is open exactly where the broker's answers, in the order the batch
\* consumed them and with the outage an earlier batch ended in, hold two outages with
\* no success between them.
THEOREM BreakerOpensOnTwoInARow == ModeSpec => []OpensOnTwoInARow
<1>1. BatchInv => OpensOnTwoInARow
    BY DEF BatchInv, Counted, TwoInARow, OpensOnTwoInARow
<1> QED
    BY <1>1, BatchInvariance, PTL

\* Every message is in one group at most, and in one that its retries, its publish and
\* the breaker account for; and the breaker opens only on two outages in a row.
THEOREM GroupsAccountedFor == ModeSpec => []Accounting
<1>1. ASSUME BatchInv PROVE Accounting
    <2>1. groups \in [GroupNames -> SUBSET Messages]
        BY <1>1 DEF BatchInv, Types, Homes
    <2>2. \A m \in Messages : Placed(m)
        BY <1>1 DEF BatchInv, Places
    <2>3. GroupsDisjoint
        BY <2>1, <2>2 DEF Placed, GroupsDisjoint
    <2>4. /\ groups["published"] \cup groups["failed"] \subseteq tried
          /\ \A m \in groups["exceeded"] : m \in tried \/ Exhausted(m)
          /\ \A m \in groups["deferred"] : ~Exhausted(m) /\ (m \in tried \/ tripped)
        BY <2>1, <2>2 DEF Placed, GroupNames
    <2>5. OpensOnTwoInARow
        BY <1>1 DEF BatchInv, Counted, TwoInARow, OpensOnTwoInARow
    <2> QED
        BY <2>3, <2>4, <2>5 DEF Accounting
<1> QED
    BY <1>1, BatchInvariance, PTL

\* Once the batch has a reason to stop no further publish begins.
THEOREM NothingBeginsAfterStop == ModeSpec => NoPublishAfterStop
<1>1. ASSUME BatchInv, ModeNext, stop # "none" \/ tripped
      PROVE  tried' = tried
    <2>1. CASE SerialStep
        <3>1. pc # "done"
            BY <2>1 DEF SerialStep, Serial!Relay, Serial!Abort, Serial!PreExceeded, Serial!Publish,
                        Serial!PublishReturns, Serial!PublishMeetsOutage, Serial!Return
        <3>2. concurrency = 1 /\ stop = "none"
            BY <1>1, <2>1, ConcurrencyAssumption DEF BatchInv, ModeOK, SerialStep
        <3>3. ~tripped
            BY <1>1, <3>1, <3>2 DEF BatchInv, Stops
        <3> QED
            BY <1>1, <3>2, <3>3
    <2>2. CASE ParallelStep
        <3>1. ~Refill
            BY <1>1, <2>2 DEF BatchInv, Stops, ParallelStep, Refill, MayRefill
        <3> QED
            BY <2>2, <3>1 DEF ParallelStep, MainThread, Loop, Refilled, Await, Poll, Sweep, Swept,
                              Raise, Return, Consume, batchVars
    <2>3. CASE (\E m \in Messages : WorkerStep(m)) \/ (Environment /\ UNCHANGED concurrency)
        BY <2>3, WorkerLeaves
    <2> QED
        BY <1>1, <2>1, <2>2, <2>3 DEF ModeNext, Process
<1>2. BatchInv /\ [ModeNext]_modeVars => [stop # "none" \/ tripped => tried' = tried]_vars
    BY <1>1 DEF modeVars
<1> QED
    BY <1>2, BatchInvariance, PTL DEF ModeSpec, NoPublishAfterStop

-------------------------------------------------------------------------------
(* The contract of a batch. *)

Kinds == GroupNames \ {"aborted"}

\* The group the refinement mapping gives a message.
Of(gs, m) == IF \E g \in Kinds : m \in gs[g] THEN CHOOSE g \in Kinds : m \in gs[g] ELSE "none"

LEMMA OfIs ==
    ASSUME NEW gs, NEW m, \A g, h \in GroupNames : m \in gs[g] /\ m \in gs[h] => g = h
    PROVE  /\ \A g \in Kinds : m \in gs[g] => Of(gs, m) = g
           /\ (\A g \in Kinds : m \notin gs[g]) => Of(gs, m) = "none"
           /\ Of(gs, m) \in Kinds \cup {"none"}
           /\ Of(gs, m) \in Kinds => m \in gs[Of(gs, m)]
<1>1. ASSUME NEW g \in Kinds, m \in gs[g] PROVE Of(gs, m) = g
    <2>1. \A h \in Kinds : m \in gs[h] => h = g
        BY <1>1 DEF Kinds
    <2> QED
        BY <1>1, <2>1 DEF Of
<1>2. ASSUME \A g \in Kinds : m \notin gs[g] PROVE Of(gs, m) = "none"
    BY <1>2 DEF Of
<1>3. "none" \notin Kinds
    BY DEF Kinds, GroupNames
<1> QED
    BY <1>1, <1>2, <1>3

LEMMA OfSame ==
    ASSUME NEW gs, NEW hs, NEW m, \A g, h \in GroupNames : m \in gs[g] /\ m \in gs[h] => g = h,
           \A g \in Kinds : m \in gs[g] <=> m \in hs[g],
           \A g, h \in GroupNames : m \in hs[g] /\ m \in hs[h] => g = h
    PROVE  Of(gs, m) = Of(hs, m)
<1>1. CASE \A g \in Kinds : m \notin gs[g]
    BY <1>1, OfIs
<1>2. ASSUME NEW g \in Kinds, m \in gs[g] PROVE Of(gs, m) = Of(hs, m)
    BY <1>2, OfIs
<1> QED
    BY <1>1, <1>2

LEMMA Unique ==
    ASSUME BatchInv, NEW m \in Messages
    PROVE  \A g, h \in GroupNames : m \in groups[g] /\ m \in groups[h] => g = h
BY DEF BatchInv, Places, Placed


Over == pc \in {"done", "raised"}

Group == [m \in Messages |-> Of(groups, m)]

\* The contract under the refinement mapping.
LEMMA MapInit ==
    ASSUME retries \in [Messages -> Nat], ~Over,
           Group = [m \in Messages |-> "none"]
    PROVE  Contract!Init
BY DEF Contract!Init, Group, Of, Kinds, Over

LEMMA MapSkip ==
    ASSUME retries' = retries, Group' = Group, Over' <=> Over
    PROVE  UNCHANGED Contract!vars
<1>1. (pc' \in {"done", "raised"}) = (pc \in {"done", "raised"})
    BY DEF Over
<1> QED
    BY <1>1 DEF Contract!vars, Group, Of, Kinds

LEMMA MapSettle ==
    ASSUME NEW m \in Messages, NEW g \in Kinds, ~Over, ~Over', Group[m] = "none",
           Contract!Permitted(m, g), Group' = [Group EXCEPT ![m] = g], retries' = retries
    PROVE  Contract!Next
<1>1. (pc' \in {"done", "raised"}) = (pc \in {"done", "raised"})
    BY DEF Over
<1>2. m \in Contract!Left
    BY DEF Contract!Left, Group, Of, Kinds
<1>3. Contract!Settle(m, g)
    BY <1>1, <1>2 DEF Contract!Settle, Group, Of, Kinds, Over
<1> QED
    BY <1>3 DEF Contract!Next, Kinds, GroupNames

LEMMA MapEnd ==
    ASSUME ~Over, Over', Group' = Group, retries' = retries
    PROVE  Contract!Next
<1>1. Contract!End
    BY DEF Contract!End, Group, Of, Kinds, Over
<1> QED
    BY <1>1 DEF Contract!Next

LEMMA MapTrip ==
    ASSUME ~Over, Over', retries' = retries,
           Group' = [m \in Messages |-> IF Group[m] # "none" THEN Group[m]
                                        ELSE IF retries[m] < MaxRetries THEN "deferred"
                                        ELSE "exceeded"],
           \E m \in Messages : Group'[m] = "deferred"
    PROVE  Contract!Next
<1>1. \A m : m \notin Contract!Left <=> ~(m \in Messages /\ Group[m] = "none")
    BY DEF Contract!Left, Group, Of, Kinds
<1>2. (pc' \in {"done", "raised"}) \in BOOLEAN
    OBVIOUS
<1>3. Contract!Trip
    BY <1>1, <1>2 DEF Contract!Trip, Group, Of, Kinds, Over
<1> QED
    BY <1>3 DEF Contract!Next

-------------------------------------------------------------------------------
\* What the steps of a batch are to the contract.

LEMMA SameGroup ==
    ASSUME BatchInv, BatchInv',
           \A m \in Messages, g \in Kinds : m \in groups'[g] <=> m \in groups[g]
    PROVE  Group' = Group
<1>1. ASSUME NEW m \in Messages PROVE Of(groups', m) = Of(groups, m)
    <2>1. \A g, h \in GroupNames : m \in groups[g] /\ m \in groups[h] => g = h
        BY Unique
    <2>2. \A g, h \in GroupNames : m \in groups'[g] /\ m \in groups'[h] => g = h
        BY DEF BatchInv, Places, Placed, Messages
    <2> QED
        BY <2>1, <2>2, OfSame
<1> QED
    BY <1>1 DEF Group, Messages

LEMMA SettleOne ==
    ASSUME BatchInv, BatchInv', NEW one \in Messages, NEW g \in Kinds, Free(one),
           \A h \in GroupNames : groups'[h] = IF h = g THEN groups[g] \cup {one} ELSE groups[h],
           retries' = retries, ~Over, ~Over',
           g \in {"published", "deferred"} => ~Exhausted(one),
           g = "failed" => ~LastAttempt(one),
           g = "exceeded" => LastAttempt(one)
    PROVE  Contract!Next
<1>1. Group[one] = "none"
    <2>1. \A h \in GroupNames : one \notin groups[h]
        BY DEF Free
    <2>2. Of(groups, one) = "none"
        BY <2>1 DEF Of, Kinds
    <2> QED
        BY <2>2 DEF Group
<1>2. Contract!Permitted(one, g)
    <2>1. retries[one] \in Nat /\ MaxRetries \in Nat \ {0}
        BY BatchAssumption DEF BatchInv, Types
    <2>2. CASE g \in {"published", "deferred"}
        <3>1. retries[one] < MaxRetries
            BY <2>1, <2>2 DEF Exhausted
        <3>2. CASE g = "published"
            BY <3>1, <3>2 DEF Contract!Permitted
        <3>3. CASE g = "deferred"
            BY <3>1, <3>3 DEF Contract!Permitted
        <3> QED
            BY <2>2, <3>2, <3>3
    <2>3. CASE g = "failed"
        BY <2>1, <2>3 DEF Contract!Permitted, LastAttempt
    <2>4. CASE g = "exceeded"
        BY <2>1, <2>4 DEF Contract!Permitted, LastAttempt
    <2> QED
        BY <2>2, <2>3, <2>4 DEF Kinds, GroupNames
<1>3. ASSUME NEW m \in Messages
      PROVE  Of(groups', m) = IF m = one THEN g ELSE Of(groups, m)
    <2>1. \A f, h \in GroupNames : m \in groups[f] /\ m \in groups[h] => f = h
        BY Unique
    <2>2. \A f, h \in GroupNames : m \in groups'[f] /\ m \in groups'[h] => f = h
        BY DEF BatchInv, Places, Placed, Messages
    <2>3. CASE m = one
        <3>1. m \in groups'[g]
            BY <2>3 DEF Kinds
        <3> QED
            BY <2>2, <2>3, <3>1, OfIs
    <2>4. CASE m # one
        <3>1. \A h \in Kinds : m \in groups'[h] <=> m \in groups[h]
            BY <2>4 DEF Kinds
        <3> QED
            BY <2>1, <2>2, <2>4, <3>1, OfSame
    <2> QED
        BY <2>3, <2>4
<1>4. Group' = [Group EXCEPT ![one] = g]
    BY <1>3 DEF Group, Messages
<1> QED
    BY <1>1, <1>2, <1>4, MapSettle

LEMMA EndAll ==
    ASSUME BatchInv, BatchInv', ~Over, Over', retries' = retries,
           \A m \in Messages, g \in Kinds : m \in groups'[g] <=> m \in groups[g]
    PROVE  Contract!Next
BY SameGroup, MapEnd

LEMMA SomeDeferred == BatchInv' /\ tripped' => Deferred' # {}
BY DEF BatchInv, Counted

LEMMA TripAll ==
    ASSUME BatchInv, BatchInv', ~Over, Over', tripped', retries' = retries,
           \A g \in GroupNames : groups[g] \subseteq groups'[g],
           \A m \in Messages :
               \/ Settled(m)
               \/ Exhausted(m) /\ m \in groups'["exceeded"]
               \/ ~Exhausted(m) /\ m \in groups'["deferred"]
    PROVE  Contract!Next
<1>1. ASSUME NEW m \in Messages
      PROVE  Of(groups', m) = IF Of(groups, m) # "none" THEN Of(groups, m)
                              ELSE IF retries[m] < MaxRetries THEN "deferred" ELSE "exceeded"
    <2>1. \A g, h \in GroupNames : m \in groups[g] /\ m \in groups[h] => g = h
        BY Unique
    <2>2. \A g, h \in GroupNames : m \in groups'[g] /\ m \in groups'[h] => g = h
        BY DEF BatchInv, Places, Placed, Messages
    <2>3. CASE Settled(m)
        <3>1. PICK g \in Kinds : m \in groups[g]
            BY <2>3 DEF Settled, Kinds
        <3>2. g \in GroupNames /\ g # "none" /\ m \in groups'[g]
            BY <3>1 DEF Kinds, GroupNames
        <3> QED
            BY <2>1, <2>2, <3>1, <3>2, OfIs
    <2>4. CASE ~Settled(m)
        <3>1. Of(groups, m) = "none"
            BY <2>4 DEF Settled, Of, Kinds
        <3>2. Exhausted(m) <=> ~(retries[m] < MaxRetries)
            BY BatchAssumption DEF Exhausted, BatchInv, Types
        <3>3. "exceeded" \in Kinds /\ "deferred" \in Kinds
            BY DEF Kinds, GroupNames
        <3> QED
            BY <2>2, <2>4, <3>1, <3>2, <3>3, OfIs
    <2> QED
        BY <2>3, <2>4
<1>2. PICK one \in Messages : one \in groups'["deferred"]
    <2>1. Deferred' # {}
        BY SomeDeferred
    <2> QED
        BY <2>1 DEF BatchInv, Types, Deferred, Messages
<1>3. Group' = [m \in Messages |-> IF Group[m] # "none" THEN Group[m]
                                   ELSE IF retries[m] < MaxRetries THEN "deferred"
                                   ELSE "exceeded"]
    BY <1>1 DEF Group, Messages
<1>4. Group'[one] = "deferred"
    <2>1. \A g, h \in GroupNames : one \in groups'[g] /\ one \in groups'[h] => g = h
        BY DEF BatchInv, Places, Placed, Messages
    <2>2. "deferred" \in Kinds
        BY DEF Kinds, GroupNames
    <2>3. Of(groups', one) = "deferred"
        BY <1>2, <2>1, <2>2, OfIs
    <2> QED
        BY <2>3 DEF Group, Messages
<1> QED
    BY <1>3, <1>4, MapTrip

LEMMA SkipAll ==
    ASSUME groups' = groups, retries' = retries, Over' <=> Over
    PROVE  UNCHANGED Contract!vars
<1>1. Group' = Group
    BY DEF Group, Messages
<1> QED
    BY <1>1, MapSkip

LEMMA SerialKeeps ==
    ASSUME BatchInv, BatchInv', SerialStep
    PROVE  Contract!Next \/ UNCHANGED Contract!vars
<1>1. /\ groups \in Homes /\ groups' \in Homes /\ retries' = retries
      /\ pc \in {"next", "sending"} /\ ~Over
      /\ \A m \in Messages : Placed(m)
    BY SerialOperators
       DEF BatchInv, Types, Places, Over, SerialStep, Serial!Relay, Serial!Abort,
           Serial!PreExceeded, Serial!Publish, Serial!PublishReturns, Serial!PublishMeetsOutage,
           Serial!Return, Serial!batchVars
<1>2. \A m \in Messages : m \in Remaining <=> m >= next
    BY BatchAssumption DEF BatchInv, Types, Remaining, Messages
<1>3. {"published", "failed", "exceeded", "deferred"} = Kinds
    BY DEF Kinds, GroupNames
<1>4. ASSUME NEW one \in Messages, NEW g \in Kinds, groups' = Append1(groups, g, one)
      PROVE  \A h \in GroupNames : groups'[h] = IF h = g THEN groups[g] \cup {one} ELSE groups[h]
    BY <1>1, <1>4, Appended DEF Kinds
<1>5. CASE Serial!Abort
    <2>1. groups' = AppendAll(groups, "aborted", Remaining) /\ Over'
        BY <1>5, SerialOperators DEF Serial!Abort, Over
    <2>2. \A m \in Messages, g \in Kinds : m \in groups'[g] <=> m \in groups[g]
        BY <1>1, <2>1 DEF AppendAll, Homes, Kinds
    <2> QED
        BY <1>1, <2>1, <2>2, EndAll
<1>6. CASE Serial!PreExceeded
    <2>1. /\ Remaining # {} /\ groups' = Append1(groups, "exceeded", next)
          /\ Exhausted(next) /\ ~Over' /\ pc = "next"
        BY <1>6, SerialOperators DEF Serial!PreExceeded, Over
    <2>2. next \in Messages
        BY <2>1, BatchAssumption DEF BatchInv, Types, Remaining, Messages
    <2>3. Free(next)
        BY <1>1, <2>1, <2>2, BatchAssumption DEF Placed, Messages
    <2>4. LastAttempt(next)
        BY <2>1, <2>2, BatchAssumption DEF BatchInv, Types, Exhausted, LastAttempt
    <2> QED
        BY <1>1, <1>3, <1>4, <2>1, <2>2, <2>3, <2>4, SettleOne
<1>7. CASE Serial!Publish
    <2>1. groups' = groups /\ ~Over'
        BY <1>7 DEF Serial!Publish, Over
    <2> QED
        BY <1>1, <2>1, SkipAll
<1>8. CASE Serial!PublishReturns
    <2>1. ~Over' /\ pc = "sending" /\ (RecordSuccess(next) \/ RecordFailure(next))
        BY <1>8, SerialOperators DEF Serial!PublishReturns, Over
    <2>2. next \in Messages
        BY <2>1, BatchAssumption DEF BatchInv, ModeOK
    <2>3. Free(next) /\ ~Exhausted(next)
        BY <1>1, <2>1, <2>2 DEF Placed
    <2>4. \/ groups' = Append1(groups, "published", next)
          \/ groups' = Append1(groups, "exceeded", next) /\ LastAttempt(next)
          \/ groups' = Append1(groups, "failed", next) /\ ~LastAttempt(next)
        BY <2>1 DEF RecordSuccess, RecordFailure
    <2> QED
        BY <1>1, <1>3, <1>4, <2>1, <2>2, <2>3, <2>4, SettleOne
<1>9. CASE Serial!PublishMeetsOutage
    <2>1. /\ pc = "sending"
          /\ groups' = IF Opens(streak)
                       THEN ClassifyRemaining(Append1(groups, "deferred", next), (next + 1)..Size)
                       ELSE Append1(groups, "deferred", next)
          /\ Over' <=> Opens(streak)
          /\ Opens(streak) => tripped'
        BY <1>9, SerialOperators DEF Serial!PublishMeetsOutage, RecordOutage, Over
    <2>2. next \in Messages
        BY <2>1, BatchAssumption DEF BatchInv, ModeOK
    <2>3. Free(next) /\ ~Exhausted(next)
        BY <1>1, <2>1, <2>2 DEF Placed
    <2>4. CASE ~Opens(streak)
        <3>1. groups' = Append1(groups, "deferred", next) /\ ~Over'
            BY <2>1, <2>4
        <3> QED
            BY <1>1, <1>3, <1>4, <2>2, <2>3, <3>1, SettleOne
    <2>5. CASE Opens(streak)
        <3>1. /\ Over' /\ tripped'
              /\ groups' = ClassifyRemaining(Append1(groups, "deferred", next), (next + 1)..Size)
            BY <2>1, <2>5
        <3>2. \A g \in GroupNames : groups[g] \subseteq groups'[g]
            BY <1>1, <3>1 DEF ClassifyRemaining, AppendAll, Append1, Homes
        <3>3. next \in groups'["deferred"]
            BY <1>1, <3>1 DEF ClassifyRemaining, AppendAll, Append1, Homes, GroupNames
        <3>4. ASSUME NEW m \in (next + 1)..Size
              PROVE  /\ Exhausted(m) => m \in groups'["exceeded"]
                     /\ ~Exhausted(m) => m \in groups'["deferred"]
            BY <1>1, <3>1 DEF ClassifyRemaining, AppendAll, Append1, Homes, GroupNames
        <3>5. ASSUME NEW m \in Messages
              PROVE  \/ Settled(m)
                     \/ Exhausted(m) /\ m \in groups'["exceeded"]
                     \/ ~Exhausted(m) /\ m \in groups'["deferred"]
            <4>1. CASE m < next
                <5>1. pending = {}
                    BY ConcurrencyAssumption DEF BatchInv, ModeOK, SerialStep
                <5> QED
                    BY <1>1, <4>1, <5>1 DEF Placed
            <4>2. CASE m = next
                BY <2>3, <3>3, <4>2
            <4>3. CASE m > next
                <5>1. m \in (next + 1)..Size
                    BY <2>2, <4>3, BatchAssumption DEF Messages
                <5> QED
                    BY <3>4, <5>1
            <4> QED
                BY <2>2, <4>1, <4>2, <4>3, BatchAssumption DEF Messages
        <3> QED
            BY <1>1, <3>1, <3>2, <3>5, TripAll
    <2> QED
        BY <2>4, <2>5
<1>10. CASE Serial!Return
    <2>1. groups' = groups /\ Over'
        BY <1>10 DEF Serial!Return, Serial!batchVars, Over
    <2>2. \A m \in Messages, g \in Kinds : m \in groups'[g] <=> m \in groups[g]
        BY <2>1
    <2> QED
        BY <1>1, <2>1, <2>2, EndAll
<1> QED
    BY <1>5, <1>6, <1>7, <1>8, <1>9, <1>10 DEF SerialStep, Serial!Relay

LEMMA ConsumeKeeps ==
    ASSUME BatchInv, BatchInv', NEW one \in pending, Consume(one), ~Over, ~Over'
    PROVE  Contract!Next
<1>1. one \in Messages /\ groups \in Homes /\ retries' = retries
    BY DEF BatchInv, Types, Consume
<1>2. Free(one) /\ ~Exhausted(one)
    BY <1>1 DEF BatchInv, Places, Placed
<1>3. \/ groups' = Append1(groups, "published", one)
      \/ groups' = Append1(groups, "exceeded", one) /\ LastAttempt(one)
      \/ groups' = Append1(groups, "failed", one) /\ ~LastAttempt(one)
      \/ groups' = Append1(groups, "deferred", one)
    BY DEF Consume, RecordSuccess, RecordFailure
<1>4. {"published", "failed", "exceeded", "deferred"} = Kinds
    BY DEF Kinds, GroupNames
<1>5. ASSUME NEW g \in Kinds, groups' = Append1(groups, g, one)
      PROVE  \A h \in GroupNames : groups'[h] = IF h = g THEN groups[g] \cup {one} ELSE groups[h]
    BY <1>1, <1>5, Appended DEF Kinds
<1> QED
    BY <1>1, <1>2, <1>3, <1>4, <1>5, SettleOne

LEMMA RefillKeeps ==
    ASSUME BatchInv, BatchInv', Refill
    PROVE  Contract!Next \/ UNCHANGED Contract!vars
<1>1. /\ next \in Messages /\ groups \in Homes /\ ~Over /\ ~Over' /\ retries' = retries
      /\ pc = "fill" /\ next >= next
    BY BatchAssumption DEF BatchInv, Types, Refill, MayRefill, Remaining, Messages, Over
<1>2. Free(next)
    BY <1>1 DEF BatchInv, Places, Placed
<1>3. \/ groups' = groups
      \/ groups' = Append1(groups, "exceeded", next) /\ (Exhausted(next) \/ LastAttempt(next))
      \/ groups' = Append1(groups, "failed", next) /\ ~LastAttempt(next)
      \/ groups' = Append1(groups, "deferred", next) /\ ~Exhausted(next)
    BY DEF Refill, RecordFailure
<1>4. Exhausted(next) => LastAttempt(next)
    BY <1>1, BatchAssumption DEF BatchInv, Types, Exhausted, LastAttempt
<1>5. {"published", "failed", "exceeded", "deferred"} = Kinds
    BY DEF Kinds, GroupNames
<1>6. ASSUME NEW g \in Kinds, groups' = Append1(groups, g, next)
      PROVE  \A h \in GroupNames : groups'[h] = IF h = g THEN groups[g] \cup {next} ELSE groups[h]
    <2>1. next \in Messages /\ groups \in Homes /\ g \in GroupNames
        BY <1>1 DEF Kinds
    <2> QED
        BY <1>6, <2>1, Appended
<1>7. CASE groups' = groups
    BY <1>1, <1>7, SkipAll
<1>8. CASE groups' # groups
    BY <1>1, <1>2, <1>3, <1>4, <1>5, <1>6, <1>8, SettleOne
<1> QED
    BY <1>7, <1>8

LEMMA ReturnKeeps ==
    ASSUME BatchInv, BatchInv', Return
    PROVE  Contract!Next
<1>1. /\ groups \in Homes /\ ~Over /\ Over' /\ retries' = retries
      /\ tripped' = tripped /\ pending = {}
    BY DEF BatchInv, Types, Left, Return, policy, Over
<1>2. CASE groups' = groups \/ groups' = AppendAll(groups, "aborted", Remaining)
    <2>1. \A m \in Messages, g \in Kinds : m \in groups'[g] <=> m \in groups[g]
        BY <1>1, <1>2 DEF AppendAll, Homes, Kinds
    <2> QED
        BY <1>1, <2>1, EndAll
<1>3. CASE stop = "breaker" /\ groups' = ClassifyRemaining(groups, Remaining)
    <2>1. tripped
        BY <1>3 DEF BatchInv, Stops
    <2>2. tripped'
        BY <1>1, <2>1
    <2>3. \A g \in GroupNames : groups[g] \subseteq groups'[g]
        BY <1>1, <1>3 DEF ClassifyRemaining, AppendAll, Homes
    <2>4. ASSUME NEW m \in Remaining
          PROVE  /\ Exhausted(m) => m \in groups'["exceeded"]
                 /\ ~Exhausted(m) => m \in groups'["deferred"]
        BY <1>1, <1>3 DEF ClassifyRemaining, AppendAll, Homes, GroupNames
    <2>5. ASSUME NEW m \in Messages
          PROVE  \/ Settled(m)
                 \/ Exhausted(m) /\ m \in groups'["exceeded"]
                 \/ ~Exhausted(m) /\ m \in groups'["deferred"]
        <3>1. CASE m \in Remaining
            BY <2>4, <3>1
        <3>2. CASE m \notin Remaining
            <4>1. m < next
                BY <3>2, BatchAssumption DEF BatchInv, Types, Remaining, Messages
            <4> QED
                BY <1>1, <4>1 DEF BatchInv, Places, Placed
        <3> QED
            BY <3>1, <3>2
    <2> QED
        BY <1>1, <2>2, <2>3, <2>5, TripAll
<1> QED
    BY <1>2, <1>3 DEF Return, BatchInv, Types

LEMMA ParallelKeeps ==
    ASSUME BatchInv, BatchInv', ParallelStep
    PROVE  Contract!Next \/ UNCHANGED Contract!vars
<1>1. CASE Loop \/ Refilled \/ Poll \/ Swept
    <2>1. groups' = groups /\ retries' = retries
        BY <1>1 DEF Loop, Refilled, Poll, Swept, batchVars
    <2>2. ~Over /\ ~Over'
        BY <1>1 DEF Loop, Refilled, DoneRefilling, Poll, Swept, Over
    <2> QED
        BY <2>1, <2>2, SkipAll
<1>2. CASE Raise
    <2>1. groups' = groups /\ retries' = retries /\ ~Over /\ Over'
        BY <1>2 DEF Raise, batchVars, Over
    <2>2. \A m \in Messages, g \in Kinds : m \in groups'[g] <=> m \in groups[g]
        BY <2>1
    <2> QED
        BY <2>1, <2>2, EndAll
<1>3. CASE Sweep
    <2>1. PICK one \in finished : Consume(one)
        BY <1>3 DEF Sweep
    <2>2. one \in pending /\ ~Over /\ ~Over'
        BY <1>3 DEF Sweep, Over, BatchInv, Types
    <2> QED
        BY <2>1, <2>2, ConsumeKeeps
<1>4. ASSUME NEW one \in Messages, Await(one) PROVE Contract!Next
    <2>1. one \in pending /\ Consume(one) /\ ~Over /\ ~Over'
        BY <1>4 DEF Await, Over
    <2> QED
        BY <2>1, ConsumeKeeps
<1> QED
    BY <1>1, <1>2, <1>3, <1>4, RefillKeeps, ReturnKeeps DEF ParallelStep, MainThread

\* BatchModes implements BatchContract: whichever mode the batch runs in, whatever
\* window and order of the workers, every step is one the contract allows.  (That the
\* batch comes to an end is left to the model checker.)
THEOREM EitherModeKeepsContract == ModeSpec => Contract!Spec
<1>1. ModeInit => Contract!Init
    <2> SUFFICES ASSUME ModeInit PROVE Contract!Init
        OBVIOUS
    <2>1. BatchInit /\ ~Over
        BY DEF ModeInit, Init, Serial!Init, Serial!BatchInit, BatchInit, Serial!Messages, Messages,
               Serial!GroupNames, GroupNames, Over
    <2>2. ASSUME NEW m \in Messages PROVE Of(groups, m) = "none"
        BY <2>1 DEF BatchInit, Of, Kinds
    <2>3. Group = [m \in Messages |-> "none"]
        BY <2>2 DEF Group
    <2>4. retries \in [Messages -> Nat]
        BY <2>1, BatchAssumption DEF BatchInit
    <2> QED
        BY <2>1, <2>3, <2>4, MapInit
<1>2. BatchInv /\ BatchInv' /\ [ModeNext]_modeVars => [Contract!Next]_(Contract!vars)
    <2>1. CASE (\E m \in Messages : WorkerStep(m)) \/ (Environment /\ UNCHANGED concurrency)
               \/ UNCHANGED modeVars
        <3>1. UNCHANGED <<groups, retries, pc>>
            BY <2>1, WorkerLeaves
        <3> QED
            BY <3>1, SkipAll DEF Over
    <2> QED
        BY <2>1, SerialKeeps, ParallelKeeps DEF ModeNext, Process
<1> QED
    BY <1>1, <1>2, BatchInvariance, PTL DEF ModeSpec, Contract!Spec
===============================================================================
