------------------------------ MODULE DaemonProofs -----------------------------
(***************************************************************************)
(* Proofs about RelayDaemon, for every setting of its times, batch size and *)
(* bounds: how long the process outlives its deadline, how old its liveness *)
(* file and its gauges get, and that an open breaker selects nothing.       *)
(***************************************************************************)
EXTENDS RelayDaemon, TLAPS

LEMMA InitTypes == Init => TypeOK
BY DaemonAssumption DEF Init, TypeOK, Deadlines

LEMMA NextTypes == TypeOK /\ [Next]_vars => TypeOK'
<1> SUFFICES ASSUME TypeOK, [Next]_vars PROVE TypeOK'
    OBVIOUS
<1> USE DaemonAssumption DEF TypeOK, Deadlines
<1>1. CASE Head
    BY <1>1 DEF Head, policy, work, sampler, watches
<1>2. CASE Pause
    BY <1>2 DEF Pause, PauseTime, Lesser, BreakerClosed, policy, work, sampler, watches
<1>3. CASE Resume
    BY <1>3 DEF Resume, Sample, TouchAfterPause, Touch, policy, work, sampler
<1>4. CASE Select
    <2>1. /\ Lesser(backlog, BatchSize) \in 0..BatchSize
          /\ backlog - Lesser(backlog, BatchSize) \in Nat
        BY DEF Lesser
    <2> QED
        BY <1>4, <2>1 DEF Select, sampler, watches
<1>5. CASE Take
    BY <1>5 DEF Take, policy, sampler, watches
<1>6. CASE Publish
    BY <1>6 DEF Publish, sampler
<1>7. CASE Finish
    BY <1>7 DEF Finish, Sample, Touch, policy, sampler
<1>8. CASE Handle
    BY <1>8 DEF Handle, policy, work, sampler, watches
<1>9. CASE Wake
    BY <1>9 DEF Wake, policy, work, sampler, watches
<1>10. CASE HeadRaises
    BY <1>10 DEF HeadRaises, Error, policy, work, sampler, watches
<1>11. CASE IterationFails
    BY <1>11 DEF IterationFails, SampleFails, Error, sampler
<1>12. CASE HandleRaises
    BY <1>12 DEF HandleRaises, Error, policy, work, sampler, watches
<1>13. CASE Signal
    <2>1. running' = FALSE /\ deadlineIn' = ShutdownTimeout /\ deadlineIn' # NULL
        BY <1>13 DEF Signal
    <2>2. /\ running' \in BOOLEAN
          /\ running' <=> deadlineIn' = NULL
        BY <2>1
    <2>3. overtime' = 0 /\ signals' \in Nat
        BY <1>13 DEF Signal
    <2>4. UNCHANGED <<pc, timer, breakerIn, streak, size, left, backlog, sampledAgo, statsAge,
                      untouched, failedSince, sinceTrip, errors>>
        BY <1>13 DEF Signal, work, sampler
    <2> QED
        BY <2>1, <2>2, <2>3, <2>4
<1>14. CASE Arrive
    BY <1>14 DEF Arrive, policy, sampler, watches
<1>15. CASE Tick
    <2>1. /\ \A t \in Deadlines : Nearer(t) \in Deadlines /\ (Nearer(t) = NULL <=> t = NULL)
          /\ \A t \in 0..Cooldown \cup {NULL} : Nearer(t) \in 0..Cooldown \cup {NULL}
        BY DEF Nearer
    <2>2. /\ sampledAgo # NULL => Lesser(sampledAgo + 1, Refresh) \in 0..Refresh
          /\ Lesser(sinceTrip + 1, Cooldown) \in 0..Cooldown
        BY DEF Lesser
    <2>3. /\ deadlineIn' = Nearer(deadlineIn)
          /\ breakerIn' = Nearer(breakerIn)
          /\ sampledAgo' = IF sampledAgo = NULL THEN NULL ELSE Lesser(sampledAgo + 1, Refresh)
          /\ statsAge' = IF statsAge = NULL THEN NULL ELSE statsAge + 1
          /\ sinceTrip' = Lesser(sinceTrip + 1, Cooldown)
        BY <1>15 DEF Tick
    <2>4. /\ deadlineIn' \in Deadlines
          /\ running' <=> deadlineIn' = NULL
          /\ breakerIn' \in 0..Cooldown \cup {NULL}
          /\ sampledAgo' \in 0..Refresh \cup {NULL}
          /\ statsAge' \in Nat \cup {NULL}
          /\ sinceTrip' \in 0..Cooldown
        BY <1>15, <2>1, <2>2, <2>3 DEF Tick
    <2>5. /\ timer' \in Nat /\ untouched' \in Nat /\ overtime' \in Nat
          /\ UNCHANGED <<pc, running, streak, size, left, backlog, failedSince, signals, errors>>
        BY <1>15 DEF Tick, work
    <2> QED
        BY <2>4, <2>5
<1>16. CASE UNCHANGED vars
    BY <1>16 DEF vars, policy, work, sampler, watches
<1> QED
    BY <1>1, <1>2, <1>3, <1>4, <1>5, <1>6, <1>7, <1>8, <1>9, <1>10, <1>11, <1>12,
       <1>13, <1>14, <1>15, <1>16 DEF Next, Relay

\* RelayDaemon: the types of all variables hold in every behaviour.
THEOREM TypesAlways == Spec => []TypeOK
BY InitTypes, NextTypes, PTL DEF Spec

-------------------------------------------------------------------------------
\* Overtime.

\* What is left of a cooldown when a deadline set at its beginning has passed.
Excess == IF Cooldown > ShutdownTimeout THEN Cooldown - ShutdownTimeout ELSE 0

\* Time is spent after the deadline only in what was begun before it: no new batch,
\* publish or pause is.  A pause begun after the signal ends with the deadline.
Punctual ==
    /\ deadlineIn # 0 => overtime = 0
    /\ pc = "iterate" => deadlineIn # 0
    /\ pc = "batch" => overtime <= SendTimeout
    /\ pc = "sending" => overtime + timer <= SendTimeout
    /\ pc = "sleeping" => timer <= IdleTime /\ overtime + timer <= SendTimeout + IdleTime
    /\ pc = "paused" => /\ timer <= Cooldown
                        /\ deadlineIn # NULL => overtime + timer <= Excess + deadlineIn
    /\ BoundedOvertime

LEMMA NextPunctual == TypeOK /\ Punctual /\ [Next]_vars => Punctual'
<1> SUFFICES ASSUME TypeOK, Punctual, [Next]_vars PROVE Punctual'
    OBVIOUS
<1> DEFINE Late == Larger(SendTimeout + IdleTime, Excess)
<1>a. /\ Late \in Nat /\ Late >= SendTimeout + IdleTime /\ Late >= Excess
      /\ Excess \in Nat /\ Cooldown <= Excess + ShutdownTimeout
    BY DaemonAssumption DEF Larger, Excess
<1>b. BoundedOvertime <=> overtime <= Late
    BY DEF BoundedOvertime, Excess
<1>c. BoundedOvertime' <=> overtime' <= Late
    BY DEF BoundedOvertime, Excess
<1> HIDE DEF Late
<1> USE <1>a, <1>b, <1>c, DaemonAssumption DEF TypeOK, Deadlines, Punctual
<1>1. CASE Head
    BY <1>1 DEF Head, Draining, policy, work, sampler, watches
<1>2. CASE Pause
    <2>1. /\ PauseTime \in Nat /\ PauseTime <= Cooldown
          /\ deadlineIn # NULL => PauseTime <= deadlineIn
        BY <1>2 DEF Pause, PauseTime, BreakerClosed, Lesser
    <2> QED
        BY <1>2, <2>1 DEF Pause, policy, work, sampler, watches
<1>3. CASE Resume
    BY <1>3 DEF Resume, policy, work
<1>4. CASE Select
    BY <1>4 DEF Select, sampler, watches
<1>5. CASE Take
    BY <1>5 DEF Take, policy, sampler, watches
<1>6. CASE Publish
    BY <1>6 DEF Publish, sampler
<1>7. CASE Finish
    BY <1>7 DEF Finish, policy, sampler
<1>8. CASE Handle
    BY <1>8 DEF Handle, Draining, policy, work, sampler, watches
<1>9. CASE Wake
    BY <1>9 DEF Wake, policy, work, sampler, watches
<1>10. CASE HeadRaises
    BY <1>10 DEF HeadRaises, Error, policy, work, sampler, watches
<1>11. CASE IterationFails
    BY <1>11 DEF IterationFails, Error, sampler
<1>12. CASE HandleRaises
    BY <1>12 DEF HandleRaises, Error, policy, work, sampler, watches
<1>13. CASE Signal
    BY <1>13 DEF Signal, work, sampler
<1>14. CASE Arrive
    BY <1>14 DEF Arrive, policy, sampler, watches
<1>15. CASE Tick
    BY <1>15 DEF Tick, Nearer, work
<1>16. CASE UNCHANGED vars
    BY <1>16 DEF vars, policy, work, sampler, watches
<1> QED
    BY <1>1, <1>2, <1>3, <1>4, <1>5, <1>6, <1>7, <1>8, <1>9, <1>10, <1>11, <1>12,
       <1>13, <1>14, <1>15, <1>16 DEF Next, Relay

\* However long the cooldown, the timeouts and the idle sleep are, however often the
\* process is signalled and whatever fails: it is gone one publish and one idle
\* sleep, or the rest of a cooldown, after its deadline (Relay.start).
THEOREM OvertimeIsBounded == Spec => []BoundedOvertime
<1>1. Init => Punctual
    BY DaemonAssumption DEF Init, Punctual, BoundedOvertime, Larger
<1>2. Punctual => BoundedOvertime
    BY DEF Punctual
<1> QED
    BY <1>1, <1>2, InitTypes, NextTypes, NextPunctual, PTL DEF Spec

-------------------------------------------------------------------------------
\* The breaker.

\* The breaker's time and the time since it was opened add up.
Paired == sinceTrip = IF breakerIn = NULL THEN Cooldown ELSE Cooldown - breakerIn

LEMMA NextPaired == TypeOK /\ Paired /\ [Next]_vars => Paired'
<1> SUFFICES ASSUME TypeOK, Paired, [Next]_vars PROVE Paired'
    OBVIOUS
<1> USE DaemonAssumption DEF TypeOK, Paired
<1>1. CASE Select
    BY <1>1 DEF Select, BreakerClosed, watches
<1>2. CASE Publish
    BY <1>2 DEF Publish
<1>3. CASE IterationFails
    BY <1>3 DEF IterationFails, BreakerClosed
<1>4. CASE Tick
    BY <1>4 DEF Tick, Nearer, Lesser
<1>5. CASE Head \/ Pause \/ Take \/ Handle \/ Wake \/ HeadRaises \/ HandleRaises \/ Arrive
    BY <1>5 DEF Head, Pause, Take, Handle, Wake, HeadRaises, HandleRaises, Arrive, policy, watches
<1>6. CASE Resume \/ Finish \/ Signal
    BY <1>6 DEF Resume, Finish, Signal, policy
<1>7. CASE UNCHANGED vars
    BY <1>7 DEF vars, policy, watches
<1> QED
    BY <1>1, <1>2, <1>3, <1>4, <1>5, <1>6, <1>7 DEF Next, Relay

\* For every cooldown, and whatever is signalled or fails meanwhile: no row is
\* selected while a breaker is open (should_skip_batch).
THEOREM OpenBreakerSelectsNothing == Spec => NoSelectWhileOpen
<1>1. ASSUME TypeOK, Paired, Next, pc = "iterate", pc' = "batch"
      PROVE  sinceTrip = Cooldown
    <2>1. Select
        BY <1>1 DEF Next, Relay, Head, Pause, Resume, Take, Publish, Finish, Handle, Wake,
               HeadRaises, IterationFails, HandleRaises, Signal, Arrive, Tick
    <2> QED
        BY <1>1, <2>1, DaemonAssumption DEF Select, BreakerClosed, Paired, TypeOK
<1>2. TypeOK /\ Paired /\ [Next]_vars =>
          [pc = "iterate" /\ pc' = "batch" => sinceTrip = Cooldown]_vars
    BY <1>1
<1>3. Init => Paired
    BY DEF Init, Paired
<1> QED
    BY <1>2, <1>3, InitTypes, NextTypes, NextPaired, PTL DEF Spec, NoSelectWhileOpen

-------------------------------------------------------------------------------
\* The liveness file and the gauges.

LEMMA Products ==
    ASSUME NEW a \in Nat, NEW b \in Nat
    PROVE  /\ a * b \in Nat
           /\ (a + 1) * b = a * b + b
           /\ \A c \in Nat : a <= c => a * b <= c * b
<1>1. a * b \in Nat /\ (a + 1) * b = a * b + b
    OBVIOUS
<1>2. ASSUME NEW c \in Nat, a <= c
      PROVE  a * b <= c * b
    <2>1. c - a \in Nat /\ c = a + (c - a)
        BY <1>2
    <2>2. (c - a) * b \in Nat
        BY <2>1
    <2>3. c * b = a * b + (c - a) * b
        BY <2>1
    <2> QED
        BY <1>1, <2>2, <2>3
<1> QED
    BY <1>1, <1>2

\* What one iteration may take.
Cycle == IdleTime + Larger(Cooldown, BatchSize * SendTimeout)

\* What the publishes of the batch under way may have taken.
Sending(taken) == taken * SendTimeout

LEMMA CycleType ==
    /\ Cycle \in Nat
    /\ IdleTime + Cooldown <= Cycle
    /\ \A n \in 0..BatchSize : Sending(n) \in Nat /\ IdleTime + Sending(n) <= Cycle
    /\ Sending(0) = 0
    /\ \A n \in Nat : Sending(n + 1) = Sending(n) + SendTimeout
    /\ \A m, n \in Nat : m <= n => Sending(m) <= Sending(n)
<1>1. BatchSize * SendTimeout \in Nat
    BY DaemonAssumption
<1>2. \A n \in 0..BatchSize : Sending(n) \in Nat /\ Sending(n) <= BatchSize * SendTimeout
    BY Products, DaemonAssumption DEF Sending
<1>3. /\ Cycle \in Nat
      /\ IdleTime + Cooldown <= Cycle
      /\ IdleTime + BatchSize * SendTimeout <= Cycle
    BY <1>1, DaemonAssumption DEF Cycle, Larger
<1>4. \A n \in 0..BatchSize : IdleTime + Sending(n) <= Cycle
    BY <1>1, <1>2, <1>3, DaemonAssumption
<1>5. Sending(0) = 0
    BY DaemonAssumption DEF Sending
<1>6. \A n \in Nat : Sending(n + 1) = Sending(n) + SendTimeout
    BY Products, DaemonAssumption DEF Sending
<1>7. \A m, n \in Nat : m <= n => Sending(m) <= Sending(n)
    BY Products, DaemonAssumption DEF Sending
<1> QED
    BY <1>2, <1>3, <1>4, <1>5, <1>6, <1>7

\* What failed iterations may have taken.
Failing == failedSince * Cycle

\* The age of the liveness file, step by step through an iteration.
Touched ==
    /\ pc \in {"head", "iterate", "exited", "died"} => untouched <= Failing + IdleTime
    /\ pc = "sleeping" => timer <= IdleTime /\ untouched + timer <= Failing + IdleTime
    /\ pc = "paused" => untouched + timer <= Failing + IdleTime + Cooldown
    /\ pc = "batch" => untouched <= Failing + IdleTime + Sending(size - left)
    /\ pc = "sending" => untouched + timer <= Failing + IdleTime + Sending(size - left)
    /\ pc = "failed" => untouched <= Failing

LEMMA NextTouched == TypeOK /\ Touched /\ [Next]_vars => Touched'
<1> SUFFICES ASSUME TypeOK, Touched, [Next]_vars PROVE Touched'
    OBVIOUS
<1>a. /\ Cycle \in Nat
      /\ Failing \in Nat
      /\ 0 * Cycle = 0
      /\ (failedSince + 1) * Cycle = Failing + Cycle
    BY CycleType, Products DEF Failing, TypeOK
<1>b. failedSince' = failedSince => Failing' = Failing
    BY DEF Failing, Cycle
<1>c. failedSince' = 0 => Failing' = 0
    BY <1>a DEF Failing, Cycle
<1>d. failedSince' = failedSince + 1 => Failing' = Failing + Cycle
    BY <1>a DEF Failing, Cycle
<1> USE <1>a, DaemonAssumption DEF TypeOK, Deadlines, Touched
<1>1. CASE Head
    BY <1>1, <1>b DEF Head, policy, work, sampler, watches
<1>2. CASE Pause
    <2>1. PauseTime \in Nat /\ PauseTime <= Cooldown
        BY <1>2 DEF Pause, PauseTime, BreakerClosed, Lesser
    <2> QED
        BY <1>2, <1>b, <2>1 DEF Pause, policy, work, sampler, watches
<1>3. CASE Resume
    BY <1>3, <1>c DEF Resume, TouchAfterPause, Touch, policy, work
<1>4. CASE Select
    <2>1. size' = left' /\ size' \in Nat
        BY <1>4 DEF Select, Lesser
    <2>2. Sending(size' - left') = 0
        BY <2>1, CycleType
    <2> QED
        BY <1>4, <1>b, <2>2 DEF Select, sampler, watches
<1>5. CASE Take
    <2>1. size' - left' = (size - left) + 1
        BY <1>5 DEF Take
    <2>2. Sending(size' - left') = Sending(size - left) + SendTimeout
        BY <2>1, CycleType
    <2> QED
        BY <1>5, <1>b, <2>2, CycleType DEF Take, policy, sampler, watches
<1>6. CASE Publish
    <2>1. /\ size' - left' \in 0..BatchSize
          /\ size - left <= size' - left'
          /\ size - left \in 0..BatchSize
        BY <1>6 DEF Publish
    <2>2. /\ Sending(size - left) <= Sending(size' - left')
          /\ Sending(size - left) \in Nat
          /\ Sending(size' - left') \in Nat
        BY <2>1, CycleType
    <2> QED
        BY <1>6, <1>b, <2>2 DEF Publish, sampler
<1>7. CASE Finish
    BY <1>7, <1>c DEF Finish, Touch, policy, sampler
<1>8. CASE Handle
    BY <1>8, <1>b DEF Handle, policy, work, sampler, watches
<1>9. CASE Wake
    BY <1>9, <1>b DEF Wake, policy, work, sampler, watches
<1>10. CASE HeadRaises
    BY <1>10, <1>b DEF HeadRaises, Error, policy, work, sampler, watches
<1>11. CASE IterationFails
    <2>1. untouched <= Failing + Cycle
        <3>1. size - left \in 0..BatchSize
            OBVIOUS
        <3>2. IdleTime + Sending(size - left) <= Cycle /\ IdleTime + Cooldown <= Cycle
              /\ Sending(size - left) \in Nat
            BY <3>1, CycleType
        <3> QED
            BY <1>11, <3>2 DEF IterationFails
    <2> QED
        BY <1>11, <1>d, <2>1 DEF IterationFails
<1>12. CASE HandleRaises
    BY <1>12, <1>b DEF HandleRaises, Error, policy, work, sampler, watches
<1>13. CASE Signal
    BY <1>13, <1>b DEF Signal, work, sampler
<1>14. CASE Arrive
    BY <1>14, <1>b DEF Arrive, policy, sampler, watches
<1>15. CASE Tick
    BY <1>15, <1>b DEF Tick, work
<1>16. CASE UNCHANGED vars
    BY <1>16, <1>b DEF vars, policy, work, sampler, watches
<1> QED
    BY <1>1, <1>2, <1>3, <1>4, <1>5, <1>6, <1>7, <1>8, <1>9, <1>10, <1>11, <1>12,
       <1>13, <1>14, <1>15, <1>16 DEF Next, Relay

LEMMA InitTouched == Init => Touched
<1> SUFFICES ASSUME Init PROVE Touched
    OBVIOUS
<1>1. Failing = 0
    BY CycleType DEF Init, Failing
<1> QED
    BY <1>1, DaemonAssumption DEF Init, Touched

LEMMA TouchedBound == TypeOK /\ Touched => untouched <= (failedSince + 1) * Cycle
<1> SUFFICES ASSUME TypeOK, Touched PROVE untouched <= (failedSince + 1) * Cycle
    OBVIOUS
<1>1. (failedSince + 1) * Cycle = Failing + Cycle /\ Failing \in Nat /\ Cycle \in Nat
    BY CycleType, Products DEF Failing, TypeOK
<1>2. size - left \in 0..BatchSize
    BY DaemonAssumption DEF TypeOK
<1>3. IdleTime + Sending(size - left) <= Cycle /\ IdleTime + Cooldown <= Cycle
      /\ Sending(size - left) \in Nat
    BY <1>2, CycleType
<1> QED
    BY <1>1, <1>3, DaemonAssumption DEF TypeOK, Touched

\* For every setting, and however many iterations fail: the liveness file is never
\* older than one iteration for each failure since, and one more (_touch_liveness).
THEOREM LivenessFileIsRecent == Spec => []TouchedInTime
<1>1. TypeOK /\ Touched => TouchedInTime
    BY TouchedBound DEF TouchedInTime, Cycle
<1> QED
    BY <1>1, InitTouched, InitTypes, NextTypes, NextTouched, PTL DEF Spec

\* The statistics are as old as the sample, which is taken anew, once it is due,
\* before the file is touched.
Sampled ==
    /\ statsAge = NULL <=> sampledAgo = NULL
    /\ statsAge # NULL => /\ sampledAgo < Refresh => statsAge = sampledAgo
                          /\ statsAge < Refresh + untouched

LEMMA NextSampled == TypeOK /\ Sampled /\ [Next]_vars => Sampled'
<1> SUFFICES ASSUME TypeOK, Sampled, [Next]_vars PROVE Sampled'
    OBVIOUS
<1> USE DaemonAssumption DEF TypeOK, Sampled
<1>1. CASE Resume \/ Finish
    <2>1. Sample /\ untouched' = 0
        BY <1>1 DEF Resume, Finish, TouchAfterPause, Touch
    <2> QED
        BY <2>1 DEF Sample, SampleDue, sampler
<1>2. CASE IterationFails
    BY <1>2 DEF IterationFails, SampleFails, sampler
<1>3. CASE Tick
    BY <1>3 DEF Tick, Lesser
<1>4. CASE Head \/ Pause \/ Select \/ Take \/ Handle \/ Wake \/ HeadRaises
           \/ HandleRaises \/ Arrive
    BY <1>4 DEF Head, Pause, Select, Take, Handle, Wake, HeadRaises, HandleRaises,
                Arrive, sampler, watches
<1>5. CASE Publish \/ Signal
    BY <1>5 DEF Publish, Signal, sampler
<1>6. CASE UNCHANGED vars
    BY <1>6 DEF vars, sampler, watches
<1> QED
    BY <1>1, <1>2, <1>3, <1>4, <1>5, <1>6 DEF Next, Relay

\* For every refresh interval, and whatever fails: the gauges show what was true not
\* longer ago than that interval and the age the liveness file may have
\* (QueueSnapshotSampler.get).
THEOREM GaugesAreRecent == Spec => []GaugesRecent
<1>1. ASSUME TypeOK, Touched, Sampled
      PROVE  GaugesRecent
    <2>1. /\ (failedSince + 1) * Cycle \in Nat
          /\ untouched <= (failedSince + 1) * Cycle
        BY <1>1, TouchedBound, CycleType, Products DEF TypeOK
    <2>2. statsAge # NULL => statsAge < Refresh + (failedSince + 1) * Cycle
        BY <1>1, <2>1, DaemonAssumption DEF TypeOK, Sampled
    <2> QED
        BY <2>2 DEF GaugesRecent, Cycle
<1>2. Init => Sampled
    BY DEF Init, Sampled
<1> QED
    BY <1>1, <1>2, InitTouched, InitTypes, NextTypes, NextTouched, NextSampled, PTL DEF Spec
===============================================================================
