----------------------------- MODULE StartupProofs -----------------------------
(***************************************************************************)
(* What a clean check promises the relay, for any settings, options and     *)
(* releases, and however often the deployment changes.                     *)
(***************************************************************************)
EXTENDS Startup, TLAPS

SchemaTypes ==
    /\ expected \in Nat
    /\ applied \in Nat
    /\ clean \in BOOLEAN

\* What made the last check clean still holds: what would undo it, an edit or a
\* deployment, has the check forgotten, and the schema only grows.
CleanHolds == clean => /\ AppLoads
                       /\ OtherErrors = {}
                       /\ supported
                       /\ applied >= expected

CleanInv == SchemaTypes /\ CleanHolds

\* The check looked at all of it.
LEMMA CleanErrors ==
    ASSUME Errors(TRUE, FALSE) = {}
    PROVE  AppLoads /\ OtherErrors = {} /\ supported /\ applied >= expected
<1>1. /\ AppErrors = {}
      /\ OtherErrors = {}
      /\ BackendErrors(TRUE) = {}
      /\ SchemaErrors(TRUE, FALSE) = {}
  BY DEF Errors
<1>2. AppLoads
  BY <1>1 DEF AppErrors
<1>3. supported
  BY <1>1 DEF BackendErrors
<1>4. applied >= expected
  BY <1>1 DEF SchemaErrors
<1> QED
  BY <1>1, <1>2, <1>3, <1>4

\* Steps that leave settings, release and check alone, and take nothing from the schema.
LEMMA StaysClean ==
    ASSUME CleanInv, settings' = settings, supported' = supported, expected' = expected,
           clean' = clean, applied' = applied \/ applied' = applied + 1
    PROVE  CleanInv'
<1>1. SchemaTypes'
  BY DEF CleanInv, SchemaTypes
<1>2. AppLoads' = AppLoads /\ OtherErrors' = OtherErrors
  BY DEF AppLoads, OtherErrors
<1>3. applied >= expected => applied' >= expected'
  BY DEF CleanInv, SchemaTypes
<1>4. CleanHolds'
  BY <1>2, <1>3 DEF CleanInv, CleanHolds
<1> QED
  BY <1>1, <1>4 DEF CleanInv

LEMMA InitClean == Init => CleanInv
<1> SUFFICES ASSUME Init
             PROVE  CleanInv
  OBVIOUS
<1>1. SchemaTypes
  BY StartupAssumption DEF Init, SchemaTypes
<1>2. CleanHolds
  BY DEF Init, CleanHolds
<1> QED
  BY <1>1, <1>2 DEF CleanInv

LEMMA NextClean == CleanInv /\ [Next]_vars => CleanInv'
<1> SUFFICES ASSUME CleanInv, [Next]_vars
             PROVE  CleanInv'
  OBVIOUS
<1>1. ASSUME NEW s \in Configurations, Edit(s)
      PROVE  CleanInv'
  BY <1>1 DEF Edit, database, CleanInv, SchemaTypes, CleanHolds
<1>2. ASSUME NEW n \in Releases, Deploy(n)
      PROVE  CleanInv'
  BY <1>2, StartupAssumption DEF Deploy, database, CleanInv, SchemaTypes, CleanHolds
<1>3. CASE Check
  <2>1. SchemaTypes'
    BY <1>3 DEF Check, database, CleanInv, SchemaTypes
  <2>2. CASE clean'
    <3>1. AppLoads /\ OtherErrors = {} /\ supported /\ applied >= expected
      BY <1>3, <2>2, CleanErrors DEF Check
    <3>2. CleanHolds'
      BY <1>3, <3>1 DEF Check, database, CleanHolds, AppLoads, OtherErrors
    <3> QED
      BY <2>1, <3>2 DEF CleanInv
  <2>3. CASE ~clean'
    BY <2>1, <2>3 DEF CleanInv, CleanHolds
  <2> QED
    BY <2>2, <2>3
<1>4. CASE Migrate
  BY <1>4, StaysClean DEF Migrate
<1>5. CASE DatabaseFails
  BY <1>5, StaysClean DEF DatabaseFails
<1>6. CASE DatabaseReturns
  BY <1>6, StaysClean DEF DatabaseReturns
<1>7. CASE BeginMigrate
  BY <1>7, StaysClean DEF BeginMigrate, database
<1>8. ASSUME NEW o \in Options, StartRelay(o)
      PROVE  CleanInv'
  BY <1>8, StaysClean DEF StartRelay, database
<1>9. CASE FailingBatch
  BY <1>9, StaysClean DEF FailingBatch, database
<1>10. CASE UNCHANGED vars
  BY <1>10, StaysClean DEF vars, database
<1> QED
  BY <1>1, <1>2, <1>3, <1>4, <1>5, <1>6, <1>7, <1>8, <1>9, <1>10 DEF Next

\* Since the last clean check nothing it looked at has got worse.
THEOREM CleanStays == Spec => []CleanInv
<1>1. CleanInv /\ [Next]_vars => CleanInv'
  BY NextClean
<1> QED
  BY <1>1, InitClean, PTL DEF Spec

\* The relay's own checks are among those of "check --database".
LEMMA CleanStarts ==
    ASSUME CleanInv, clean, NEW o, Accepts(o), StaleTimeoutLoads(o), Window(o) <= SpanLimit
    PROVE  Starts(o)
<1>1. AppLoads /\ OtherErrors = {} /\ supported
  BY DEF CleanInv, CleanHolds
<1>2. AppErrors = {} /\ BackendErrors(FALSE) = {} /\ SchemaErrors(FALSE, FALSE) = {}
  BY <1>1 DEF AppErrors, BackendErrors, SchemaErrors
<1>3. Errors(FALSE, FALSE) = {}
  BY <1>1, <1>2 DEF Errors
<1> QED
  BY <1>1, <1>3 DEF Starts, Constructs

\* After a clean check the relay starts, with the schema its release needs, unless an
\* option is refused, the stale timeout is refused or too long for a timedelta, or
\* the database does not answer.
THEOREM CleanCheckIsEnough == Spec => CleanCheckSuffices
<1>1. ASSUME CleanInv, Next, NEW o \in Options, clean, relay' # relay, options' = o,
             Accepts(o), StaleTimeoutLoads(o), Window(o) <= SpanLimit
      PROVE  (relay' = "refused" => ~reachable) /\ applied >= expected
  <2>1. applied >= expected
    BY <1>1 DEF CleanInv, CleanHolds
  <2>2. Starts(o)
    BY <1>1, CleanStarts
  <2>3. \/ \E s \in Configurations : Edit(s)
        \/ \E n \in Releases : Deploy(n)
        \/ \E p \in Options : StartRelay(p)
    BY <1>1 DEF Next, DatabaseFails, DatabaseReturns, Check, BeginMigrate, Migrate, FailingBatch
  <2>4. relay' = "refused" => ~reachable
    BY <1>1, <2>2, <2>3 DEF Edit, Deploy, StartRelay
  <2> QED
    BY <2>1, <2>4
<1>2. CleanInv /\ [Next]_vars =>
         [\A o \in Options :
             /\ clean /\ relay' # relay /\ options' = o
             /\ Accepts(o) /\ StaleTimeoutLoads(o) /\ Window(o) <= SpanLimit
             => /\ relay' = "refused" => ~reachable
                /\ applied >= expected]_vars
  BY <1>1
<1> QED
  BY <1>2, CleanStays, PTL DEF Spec, CleanCheckSuffices
===============================================================================
