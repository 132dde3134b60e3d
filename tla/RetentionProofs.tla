---------------------------- MODULE RetentionProofs ----------------------------
(***************************************************************************)
(* What purges delete and report, for any letters, policies and number of  *)
(* purges under way at once.                                               *)
(***************************************************************************)
EXTENDS Retention, FiniteSetTheorems, WellFoundedInduction, TLAPS

\* A run whose policy is valid.
Valid(q) == ~Refused(q) /\ ~Overflows(q)

\* Letters a run has read met its policy then, and letters never change.
MeetsAll(r) == \A l \in run[r].counted :
                  letter[l] # NULL /\ Meets(l, Policy(run[r].request), run[r].start)

\* What a run deleted it had read.
DeletedRead ==
    \A l \in Letters : fate[l] \in Runs =>
        LET r == fate[l]
        IN  run[r] # NULL /\ Valid(run[r].request) /\ ~run[r].request.dry /\ l \in run[r].counted

\* A run under way has in its chunk all it has read and not deleted.
RunOK(r) ==
    /\ MeetsAll(r)
    /\ run[r].chunk \subseteq run[r].counted
    /\ run[r].pc # "failed" => Valid(run[r].request)
    /\ run[r].pc # "delete" => run[r].chunk = {}
    /\ run[r].pc = "delete" => ~run[r].request.dry
    /\ run[r].request.dry /\ run[r].pc = "read" => run[r].counted = {}
    /\ ~run[r].request.dry /\ run[r].pc # "failed" => run[r].counted \cap Kept \subseteq run[r].chunk

\* Runs that were over when this one began.
EarlierOK(r) ==
    \A d \in run[r].earlier : d \in Runs /\ Finished(d) /\ run[d].start <= run[r].start

SameRequest(d, r) == run[r].request = [run[d].request EXCEPT !.dry = FALSE]

\* A purge that is over has left nothing a dry run before it listed.
Forecast(r) ==
    Finished(r) /\ ~run[r].request.dry =>
        \A d \in run[r].earlier : run[d].request.dry /\ SameRequest(d, r)
                                  => run[d].counted \cap Kept = {}

\* What makes OnlyWhatWasAsked, ReportExplained and ForecastHolds inductive.
RunsOK == \A r \in Runs : run[r] # NULL => RunOK(r) /\ EarlierOK(r) /\ Forecast(r)

PurgeInv == TypeOK /\ DeletedRead /\ RunsOK

-------------------------------------------------------------------------------
(* The first rows of a query. *)

LEMMA Smallest ==
    ASSUME NEW S \in SUBSET Nat, S # {}
    PROVE  \E m \in S : \A k \in S : m <= k
<1>1. PICK m \in S : \A k \in S : <<k, m>> \notin OpToRel(<, Nat)
  BY NatLessThanWellFounded, WFMin
<1>2. \A k \in S : ~(k < m)
  BY <1>1 DEF OpToRel
<1> QED
  BY <1>2

\* A query that matches something returns something.
LEMMA HeadNotEmpty ==
    ASSUME TypeOK, NEW S \in SUBSET Letters, S # {}, \A l \in S : letter[l] # NULL, NEW p
    PROVE  Head(S, p) # {}
<1> DEFINE since(x) == IF p.dead # NULL THEN letter[x].dead ELSE letter[x].created
<1>1. \A l \in S : since(l) \in Nat /\ l \in Nat
  BY RetentionAssumption DEF TypeOK, Letter
<1>2. PICK m \in {since(l) : l \in S} : \A k \in S : m <= since(k)
  <2>1. {since(l) : l \in S} \in SUBSET Nat /\ {since(l) : l \in S} # {}
    BY <1>1
  <2>2. \E m \in {since(l) : l \in S} : \A k \in {since(l) : l \in S} : m <= k
    BY <2>1, Smallest
  <2> QED
    BY <2>2
<1>3. PICK l \in {x \in S : since(x) = m} : \A k \in {x \in S : since(x) = m} : l <= k
  <2>1. {x \in S : since(x) = m} \in SUBSET Nat /\ {x \in S : since(x) = m} # {}
    BY <1>1, <1>2
  <2> QED
    BY <2>1, Smallest
<1>4. \A k \in S : ~Before(k, l, p)
  <2> SUFFICES ASSUME NEW k \in S, Before(k, l, p) PROVE FALSE
    OBVIOUS
  <2>1. since(k) < since(l) \/ (since(k) = since(l) /\ k < l)
    BY DEF Before
  <2>2. m <= since(k) /\ since(l) = m /\ since(k) \in Nat /\ k \in Nat /\ l \in Nat /\ m \in Nat
    BY <1>1, <1>2, <1>3
  <2>3. since(k) = m => l <= k
    BY <1>3
  <2> HIDE DEF since
  <2> QED
    BY <2>1, <2>2, <2>3
<1>5. {k \in S : Before(k, l, p)} = {}
  BY <1>4
<1>6. Cardinality({k \in S : Before(k, l, p)}) < ChunkSize
  BY <1>5, FS_EmptySet, RetentionAssumption
<1>7. l \in Head(S, p)
  BY <1>3, <1>6 DEF Head
<1> QED
  BY <1>7

LEMMA RowsMatch ==
    ASSUME NEW r \in Runs
    PROVE  Rows(r) \subseteq Matching(r)
BY DEF Rows, Head

LEMMA NoRowsNoMatch ==
    ASSUME TypeOK, NEW r \in Runs, Rows(r) = {}
    PROVE  Matching(r) = {}
<1>1. Matching(r) \in SUBSET Letters /\ \A l \in Matching(r) : letter[l] # NULL
  BY DEF Matching, Kept
<1> QED
  BY <1>1, HeadNotEmpty DEF Rows

-------------------------------------------------------------------------------
(* Policies. *)

\* The ages of a valid policy are numbers.
LEMMA PolicyAges ==
    ASSUME NEW q \in Requests, Valid(q)
    PROVE  Policy(q).dead \in Nat \cup {NULL} /\ Policy(q).created \in Nat \cup {NULL}
<1>1. /\ q.options \in Policies /\ q.settings \in Policies \cup {NULL, Junk}
  BY RetentionAssumption
<1>2. CASE HasAge(q.options)
  <2>1. Policy(q) = q.options /\ Junk \notin {q.options.dead, q.options.created}
    BY <1>2 DEF Policy, Valid, Refused
  <2> QED
    BY <1>1, <2>1 DEF Policies, Ages, Valid, Overflows
<1>3. CASE ~HasAge(q.options)
  <2>1. /\ q.settings \in Policies
        /\ Junk \notin {q.settings.dead, q.settings.created}
    BY <1>1, <1>3 DEF Valid, Refused, LoadFails
  <2>2. Policy(q).dead = q.settings.dead /\ Policy(q).created = q.settings.created
    BY <1>3, <2>1 DEF Policy, Policies
  <2> QED
    BY <2>1, <2>2 DEF Policies, Ages, Valid, Overflows
<1> QED
  BY <1>2, <1>3

\* What met a policy at one time meets it at any later time.
LEMMA MeetsLater ==
    ASSUME TypeOK, NEW q \in Requests, Valid(q), NEW l \in Letters, letter[l] # NULL,
           NEW s \in Nat, NEW t \in Nat, s <= t, Meets(l, Policy(q), s)
    PROVE  Meets(l, Policy(q), t)
<1>1. letter[l].dead \in Nat /\ letter[l].created \in Nat
  BY DEF TypeOK, Letter
<1>2. Policy(q).dead \in Nat \cup {NULL} /\ Policy(q).created \in Nat \cup {NULL}
  BY PolicyAges
<1> QED
  BY <1>1, <1>2 DEF Meets, Older

\* A policy does not depend on whether the run is dry.
LEMMA PolicyOfDry ==
    ASSUME NEW q \in Requests, NEW d \in Requests, q = [d EXCEPT !.dry = FALSE]
    PROVE  Policy(q) = Policy(d)
<1>1. q.options = d.options /\ q.settings = d.settings
  BY RetentionAssumption
<1> QED
  BY <1>1 DEF Policy

-------------------------------------------------------------------------------
(* Steps. *)

LEMMA InitPurge == Init => PurgeInv
BY RetentionAssumption DEF Init, PurgeInv, TypeOK, Times, DeletedRead, RunsOK

\* Runs keep their states, letters stay what they were, and fewer are kept of those
\* that were there.
LEMMA RunsUntouched ==
    ASSUME PurgeInv, TypeOK', run' = run,
           \A l \in Letters : letter[l] # NULL => letter'[l] = letter[l] /\ (l \in Kept' => l \in Kept),
           \A l \in Letters : fate'[l] \in Runs => fate'[l] = fate[l]
    PROVE  PurgeInv'
<1>1. DeletedRead'
  BY DEF PurgeInv, DeletedRead, Valid, Refused, Overflows, HasAge, LoadFails, Policy
<1>2. ASSUME NEW r \in Runs, run'[r] # NULL PROVE RunOK(r)' /\ EarlierOK(r)' /\ Forecast(r)'
  <2>1. RunOK(r) /\ EarlierOK(r) /\ Forecast(r) /\ run'[r] = run[r] /\ run[r] \in Run
    BY <1>2 DEF PurgeInv, RunsOK, TypeOK
  <2>2. run[r].counted \subseteq Letters
    BY <2>1 DEF Run
  <2>3. MeetsAll(r)'
    BY <2>1, <2>2 DEF RunOK, MeetsAll, Meets, Older
  <2>4. \A l \in run[r].counted : l \in Kept' => l \in Kept
    BY <2>1, <2>2 DEF RunOK, MeetsAll
  <2>5. RunOK(r)'
    BY <2>1, <2>3, <2>4 DEF RunOK
  <2>6. EarlierOK(r)'
    BY <2>1 DEF EarlierOK, Finished
  <2>7. Forecast(r)'
    <3>1. \A d \in run[r].earlier : \A l \in run[d].counted : l \in Kept' => l \in Kept
      BY <2>1 DEF EarlierOK, Finished, PurgeInv, RunsOK, RunOK, MeetsAll, TypeOK, Run
    <3> QED
      BY <2>1, <3>1 DEF Forecast, Finished, SameRequest
  <2> QED
    BY <2>5, <2>6, <2>7
<1> QED
  BY <1>1, <1>2 DEF PurgeInv, RunsOK

\* One run that is not over goes on, without deleting anything.
LEMMA RunGoesOn ==
    ASSUME PurgeInv, TypeOK', NEW r \in Runs, UNCHANGED <<now, letter, fate>>,
           \A d \in Runs \ {r} : run'[d] = run[d],
           ~Finished(r), run[r] # NULL => run'[r] # NULL,
           run[r] # NULL => /\ run'[r].request = run[r].request /\ run'[r].start = run[r].start
                            /\ run[r].counted \subseteq run'[r].counted,
           RunOK(r)', EarlierOK(r)', Forecast(r)'
    PROVE  PurgeInv'
<1>1. DeletedRead'
  BY DEF PurgeInv, DeletedRead
<1>2. ASSUME NEW d \in Runs \ {r}, run'[d] # NULL PROVE RunOK(d)' /\ EarlierOK(d)' /\ Forecast(d)'
  <2>1. run'[d] = run[d] /\ RunOK(d) /\ EarlierOK(d) /\ Forecast(d)
    BY <1>2 DEF PurgeInv, RunsOK
  <2>2. \A e \in run[d].earlier : e \in Runs \ {r} /\ run'[e] = run[e]
    BY <2>1 DEF EarlierOK
  <2>3. RunOK(d)'
    BY <2>1 DEF RunOK, MeetsAll, Meets, Older, Kept
  <2>4. EarlierOK(d)'
    BY <2>1, <2>2 DEF EarlierOK, Finished
  <2>5. Forecast(d)'
    BY <2>1, <2>2 DEF Forecast, Finished, SameRequest, Kept
  <2> QED
    BY <2>3, <2>4, <2>5
<1> QED
  BY <1>1, <1>2 DEF PurgeInv, RunsOK

LEMMA RunIs ==
    ASSUME PurgeInv, NEW r \in Runs, run[r] # NULL
    PROVE  /\ run[r] \in Run /\ run[r].request \in Requests /\ run[r].start \in Nat
           /\ run[r].start <= now /\ now \in Nat /\ run[r].counted \subseteq Letters
           /\ RunOK(r) /\ EarlierOK(r) /\ Forecast(r)
BY RetentionAssumption DEF PurgeInv, TypeOK, Times, Run, RunsOK

LEMMA RunIsNotNull == \A x \in Run : x # NULL
BY RetentionAssumption

LEMMA NextTypes ==
    ASSUME PurgeInv, [Next]_vars
    PROVE  TypeOK'
<1> USE DEF PurgeInv, TypeOK
<1>0. now \in Nat
  BY RetentionAssumption DEF Times
<1>1. CASE Tick
  <2>1. now' \in Times /\ now' = now + 1
    BY <1>0, <1>1, RetentionAssumption DEF Tick, Times
  <2>2. \A r \in Runs : run[r] # NULL => run[r].start \in Nat
    BY DEF Run
  <2> QED
    BY <1>0, <1>1, <2>1, <2>2 DEF Tick
<1>2. ASSUME NEW l \in Letters, Bury(l) \/ Replay(l) PROVE TypeOK'
  <2>1. letter' \in [Letters -> Letter \cup {NULL}]
    BY <1>0, <1>2 DEF Bury, Replay, Letter
  <2> QED
    BY <1>2, <2>1 DEF Bury, Replay
<1>3. ASSUME NEW r \in Runs, NEW q \in Requests, Start(r, q) PROVE TypeOK'
  <2>1. run'[r] \in Run /\ run'[r].start = now /\ run' \in [Runs -> Run \cup {NULL}]
    BY <1>0, <1>3 DEF Start, Run
  <2> QED
    BY <1>0, <1>3, <2>1 DEF Start
<1>4. ASSUME NEW r \in Runs, DryRun(r) \/ ReadChunk(r) \/ DeleteChunk(r) \/ Fail(r) PROVE TypeOK'
  <2>1. run[r] \in Run
    BY <1>4 DEF DryRun, ReadChunk, DeleteChunk, Fail, At
  <2>2. Matching(r) \subseteq Letters /\ Rows(r) \subseteq Letters
    BY RowsMatch DEF Matching, Kept
  <2>3. run' \in [Runs -> Run \cup {NULL}]
    BY <1>4, <2>1, <2>2 DEF DryRun, ReadChunk, DeleteChunk, Fail, AddUp, Run
  <2>4. \A d \in Runs : run'[d] # NULL => run[d] # NULL /\ run'[d].start = run[d].start
    <3>1. \A d \in Runs \ {r} : run'[d] = run[d]
      BY <1>4 DEF DryRun, ReadChunk, DeleteChunk, Fail
    <3>2. run[r] # NULL /\ run'[r].start = run[r].start
      BY <1>4, <2>1 DEF DryRun, ReadChunk, DeleteChunk, Fail, At, Run
    <3> QED
      BY <3>1, <3>2
  <2>5. UNCHANGED <<now, letter>> /\ fate' \in [Letters -> {"kept", "replayed"} \cup Runs]
    BY <1>4 DEF DryRun, ReadChunk, DeleteChunk, Fail
  <2> QED
    BY <2>3, <2>4, <2>5
<1>5. CASE UNCHANGED vars
  BY <1>5 DEF vars
<1> QED
  BY <1>1, <1>2, <1>3, <1>4, <1>5 DEF Next

LEMMA NextPurge ==
    ASSUME PurgeInv, [Next]_vars
    PROVE  PurgeInv'
<1>0. TypeOK'
  BY NextTypes
<1>1. CASE Tick
  BY <1>0, <1>1, RunsUntouched DEF Tick, Kept
<1>2. ASSUME NEW l \in Letters, Bury(l) PROVE PurgeInv'
  BY <1>0, <1>2, RunsUntouched DEF Bury, Kept, PurgeInv, TypeOK
<1>3. ASSUME NEW l \in Letters, Replay(l) PROVE PurgeInv'
  BY <1>0, <1>3, RetentionAssumption, RunsUntouched DEF Replay, Kept, PurgeInv, TypeOK
<1>4. ASSUME NEW r \in Runs, NEW q \in Requests, Start(r, q) PROVE PurgeInv'
  <2>1. /\ run[r] = NULL /\ UNCHANGED <<now, letter, fate>>
        /\ \A d \in Runs \ {r} : run'[d] = run[d]
        /\ run'[r] = [request |-> q, start |-> now, chunk |-> {}, counted |-> {},
                      pc |-> IF Refused(q) \/ Overflows(q) THEN "failed" ELSE "read",
                      earlier |-> {e \in Runs : Finished(e)}]
    BY <1>4 DEF Start, PurgeInv, TypeOK
  <2>2. ~Finished(r)
    BY <2>1 DEF Finished
  <2>3. RunOK(r)'
    BY <2>1 DEF RunOK, MeetsAll, Valid
  <2>4. EarlierOK(r)'
    <3>1. \A d \in run'[r].earlier : d \in Runs \ {r} /\ Finished(d) /\ run'[d] = run[d]
      BY <2>1, <2>2
    <3>2. run'[r].start = now
      BY <2>1
    <3>3. \A d \in run'[r].earlier : run[d].start <= now
      BY <3>1, RunIs DEF Finished
    <3> QED
      BY <3>1, <3>2, <3>3 DEF EarlierOK, Finished
  <2>5. Forecast(r)'
    BY <2>1 DEF Forecast, Finished
  <2> QED
    BY <1>0, <2>1, <2>2, <2>3, <2>4, <2>5, RunGoesOn
<1>5. ASSUME NEW r \in Runs, DryRun(r) PROVE PurgeInv'
  <2>1. /\ run[r] # NULL /\ run[r].pc = "read" /\ run[r].request.dry /\ ~Finished(r)
        /\ UNCHANGED <<now, letter, fate>>
        /\ \A d \in Runs \ {r} : run'[d] = run[d]
    BY <1>5 DEF DryRun, At, Finished, PurgeInv, TypeOK
  <2>2. /\ run[r] \in Run /\ RunOK(r) /\ EarlierOK(r)
    BY <2>1, RunIs
  <2>3. run'[r] = [run[r] EXCEPT !.pc = "done", !.counted = Matching(r)]
    BY <1>5 DEF DryRun, PurgeInv, TypeOK
  <2>4. /\ run'[r].request = run[r].request /\ run'[r].start = run[r].start
        /\ run'[r].chunk = run[r].chunk /\ run'[r].earlier = run[r].earlier
        /\ run'[r].pc = "done" /\ run'[r].counted = Matching(r) /\ run'[r] # NULL
    BY <1>0, <2>2, <2>3, RunIsNotNull DEF Run, Matching, Kept
  <2>5. run[r].chunk = {}
    BY <2>1, <2>2 DEF RunOK
  <2>6. MeetsAll(r)'
    BY <2>1, <2>4 DEF MeetsAll, Matching, Kept, Meets, Older
  <2>7. RunOK(r)'
    BY <2>1, <2>2, <2>4, <2>5, <2>6 DEF RunOK
  <2>8. EarlierOK(r)'
    BY <2>1, <2>2, <2>4 DEF EarlierOK, Finished
  <2>9. Forecast(r)'
    BY <2>1, <2>4 DEF Forecast
  <2>10. run[r].counted \subseteq run'[r].counted
    BY <2>1, <2>2 DEF RunOK
  <2> QED
    BY <1>0, <2>1, <2>4, <2>7, <2>8, <2>9, <2>10, RunGoesOn
<1>6. ASSUME NEW r \in Runs, ReadChunk(r) PROVE PurgeInv'
  <2>1. /\ run[r] # NULL /\ run[r].pc = "read" /\ ~run[r].request.dry /\ ~Finished(r)
        /\ UNCHANGED <<now, letter, fate>>
        /\ \A d \in Runs \ {r} : run'[d] = run[d]
    BY <1>6 DEF ReadChunk, At, Finished, PurgeInv, TypeOK
  <2>2. /\ run[r] \in Run /\ RunOK(r) /\ EarlierOK(r) /\ run[r].request \in Requests
        /\ run[r].start \in Nat
    BY <2>1, RunIs
  <2>3. run[r].chunk = {} /\ Valid(run[r].request) /\ run[r].counted \cap Kept = {}
    BY <2>1, <2>2 DEF RunOK
  <2>4. CASE Rows(r) = {}
    <3>1. run'[r] = [run[r] EXCEPT !.pc = "done"]
      BY <1>6, <2>4 DEF ReadChunk, PurgeInv, TypeOK
    <3>2. /\ run'[r].request = run[r].request /\ run'[r].start = run[r].start
          /\ run'[r].chunk = {} /\ run'[r].earlier = run[r].earlier
          /\ run'[r].pc = "done" /\ run'[r].counted = run[r].counted /\ run'[r] # NULL
      BY <2>2, <2>3, <3>1, RunIsNotNull DEF Run
    <3>3. RunOK(r)'
      BY <2>1, <2>2, <2>3, <3>2 DEF RunOK, MeetsAll, Meets, Older, Kept
    <3>4. EarlierOK(r)'
      BY <2>1, <2>2, <3>2 DEF EarlierOK, Finished
    <3>5. Forecast(r)'
      <4> SUFFICES ASSUME NEW d \in run[r].earlier, run[d].request.dry, SameRequest(d, r),
                          NEW l \in run[d].counted, l \in Kept
                   PROVE  FALSE
        <5>1. \A d \in run'[r].earlier : d # r /\ run'[d] = run[d]
          BY <2>1, <2>2, <3>2 DEF EarlierOK
        <5> QED
          BY <2>1, <3>2, <5>1 DEF Forecast, SameRequest, Kept
      <4>1. d \in Runs /\ run[d] # NULL /\ run[d].start <= run[r].start
        BY <2>2 DEF EarlierOK, Finished
      <4>2. /\ run[d].request \in Requests /\ run[d].start \in Nat
            /\ MeetsAll(d)
        BY <4>1, RunIs DEF RunOK
      <4>3. Policy(run[r].request) = Policy(run[d].request)
        BY <2>2, <4>2, PolicyOfDry DEF SameRequest
      <4>4. l \in Letters /\ letter[l] # NULL /\ Meets(l, Policy(run[r].request), run[d].start)
        BY <4>2, <4>3 DEF MeetsAll, Kept
      <4>5. Meets(l, Policy(run[r].request), run[r].start)
        BY <2>2, <2>3, <4>1, <4>2, <4>4, MeetsLater DEF PurgeInv
      <4>6. l \in Matching(r)
        BY <4>5 DEF Matching
      <4> QED
        BY <2>4, <4>6, NoRowsNoMatch DEF PurgeInv
    <3> QED
      BY <1>0, <2>1, <3>2, <3>3, <3>4, <3>5, RunGoesOn
  <2>5. CASE Rows(r) # {}
    <3>1. run'[r] = [run[r] EXCEPT !.pc = "delete", !.chunk = Rows(r),
                                   !.counted = run[r].counted \cup Rows(r)]
      BY <1>6, <2>5 DEF ReadChunk, AddUp, PurgeInv, TypeOK
    <3>2. /\ run'[r].request = run[r].request /\ run'[r].start = run[r].start
          /\ run'[r].chunk = Rows(r) /\ run'[r].earlier = run[r].earlier
          /\ run'[r].pc = "delete" /\ run'[r].counted = run[r].counted \cup Rows(r)
          /\ run'[r] # NULL
      <4>1. Rows(r) \subseteq Letters
        BY RowsMatch DEF Matching, Kept
      <4>2. run'[r] \in Run
        BY <2>2, <3>1, <4>1 DEF Run
      <4> QED
        BY <2>2, <3>1, <4>2, RunIsNotNull DEF Run
    <3>3. \A l \in Rows(r) : letter[l] # NULL /\ Meets(l, Policy(run[r].request), run[r].start)
      BY RowsMatch DEF Matching, Kept
    <3>4. MeetsAll(r)'
      BY <2>1, <2>2, <3>2, <3>3 DEF RunOK, MeetsAll, Meets, Older
    <3>5. RunOK(r)'
      BY <2>1, <2>2, <2>3, <3>2, <3>4 DEF RunOK, Kept
    <3>6. EarlierOK(r)'
      BY <2>1, <2>2, <3>2 DEF EarlierOK, Finished
    <3>7. Forecast(r)'
      BY <3>2 DEF Forecast, Finished
    <3> QED
      BY <1>0, <2>1, <3>2, <3>5, <3>6, <3>7, RunGoesOn
  <2> QED
    BY <2>4, <2>5
<1>7. ASSUME NEW r \in Runs, Fail(r) PROVE PurgeInv'
  <2>1. /\ run[r] # NULL /\ ~Finished(r)
        /\ UNCHANGED <<now, letter, fate>>
        /\ \A d \in Runs \ {r} : run'[d] = run[d]
        /\ run'[r] = [run[r] EXCEPT !.pc = "failed", !.chunk = {}]
    BY <1>7 DEF Fail, At, Finished, PurgeInv, TypeOK
  <2>2. /\ run[r] \in Run /\ RunOK(r) /\ EarlierOK(r)
    BY <2>1, RunIs
  <2>3. /\ run'[r].request = run[r].request /\ run'[r].start = run[r].start
        /\ run'[r].chunk = {} /\ run'[r].earlier = run[r].earlier
        /\ run'[r].pc = "failed" /\ run'[r].counted = run[r].counted /\ run'[r] # NULL
    BY <2>1, <2>2, RunIsNotNull DEF Run
  <2>4. RunOK(r)'
    BY <2>1, <2>2, <2>3 DEF RunOK, MeetsAll, Meets, Older
  <2>5. EarlierOK(r)'
    BY <2>1, <2>2, <2>3 DEF EarlierOK, Finished
  <2>6. Forecast(r)'
    BY <2>3 DEF Forecast, Finished
  <2> QED
    BY <1>0, <2>1, <2>3, <2>4, <2>5, <2>6, RunGoesOn
<1>8. ASSUME NEW r \in Runs, DeleteChunk(r) PROVE PurgeInv'
  <2>1. /\ run[r] # NULL /\ run[r].pc = "delete" /\ UNCHANGED <<now, letter>>
        /\ \A d \in Runs \ {r} : run'[d] = run[d]
        /\ run'[r] = [run[r] EXCEPT !.pc = "read", !.chunk = {}]
        /\ \A l \in Letters : fate'[l] = IF l \in run[r].chunk \cap Kept THEN r ELSE fate[l]
    BY <1>8 DEF DeleteChunk, At, PurgeInv, TypeOK
  <2>2. /\ run[r] \in Run /\ RunOK(r) /\ EarlierOK(r) /\ run[r].counted \subseteq Letters
    BY <2>1, RunIs
  <2>3. /\ run'[r].request = run[r].request /\ run'[r].start = run[r].start
        /\ run'[r].chunk = {} /\ run'[r].earlier = run[r].earlier
        /\ run'[r].pc = "read" /\ run'[r].counted = run[r].counted /\ run'[r] # NULL
    BY <2>1, <2>2, RunIsNotNull DEF Run
  <2>4. Kept' = Kept \ run[r].chunk
    BY <2>1, RetentionAssumption DEF Kept
  <2>5. DeletedRead'
    <3> SUFFICES ASSUME NEW l \in Letters, fate'[l] \in Runs
                 PROVE  /\ run'[fate'[l]] # NULL /\ Valid(run'[fate'[l]].request)
                        /\ ~run'[fate'[l]].request.dry /\ l \in run'[fate'[l]].counted
      BY DEF DeletedRead, Valid, Refused, Overflows, HasAge, LoadFails, Policy
    <3>1. CASE l \in run[r].chunk \cap Kept
      <4>1. fate'[l] = r
        BY <2>1, <3>1
      <4>2. Valid(run[r].request) /\ ~run[r].request.dry /\ l \in run[r].counted
        BY <2>1, <2>2, <3>1 DEF RunOK
      <4> QED
        BY <2>3, <4>1, <4>2
    <3>2. CASE l \notin run[r].chunk \cap Kept
      <4>1. fate'[l] = fate[l]
        BY <2>1, <3>2
      <4>2. /\ run[fate[l]] # NULL /\ Valid(run[fate[l]].request)
            /\ ~run[fate[l]].request.dry /\ l \in run[fate[l]].counted
        BY <4>1 DEF PurgeInv, DeletedRead
      <4>3. CASE fate[l] = r
        BY <2>3, <4>1, <4>2, <4>3
      <4>4. CASE fate[l] # r
        BY <2>1, <4>1, <4>2, <4>4
      <4> QED
        BY <4>3, <4>4
    <3> QED
      BY <3>1, <3>2
  <2>6. ASSUME NEW d \in Runs, run'[d] # NULL
        PROVE  /\ run[d] # NULL /\ run[d].counted \subseteq Letters
               /\ RunOK(d) /\ EarlierOK(d) /\ Forecast(d)
               /\ run'[d].request = run[d].request /\ run'[d].start = run[d].start
               /\ run'[d].earlier = run[d].earlier /\ run'[d].counted = run[d].counted
               /\ Finished(d)' <=> Finished(d)
    <3>1. run[d] # NULL
      BY <2>1, <2>6
    <3> QED
      BY <2>1, <2>3, <3>1, RunIs DEF Finished
  <2>7. ASSUME NEW d \in Runs, run'[d] # NULL PROVE RunOK(d)' /\ EarlierOK(d)' /\ Forecast(d)'
    <3>1. MeetsAll(d)'
      BY <2>1, <2>6, <2>7 DEF RunOK, MeetsAll, Meets, Older
    <3>2. RunOK(d)'
      <4>1. CASE d = r
        BY <2>1, <2>2, <2>3, <2>4, <3>1, <4>1 DEF RunOK
      <4>2. CASE d # r
        BY <2>1, <2>4, <2>6, <2>7, <3>1, <4>2 DEF RunOK
      <4> QED
        BY <4>1, <4>2
    <3>3. \A e \in run[d].earlier : e \in Runs \ {r} /\ run'[e] = run[e]
      BY <2>1, <2>6, <2>7 DEF EarlierOK, Finished
    <3>4. EarlierOK(d)'
      BY <2>6, <2>7, <3>3 DEF EarlierOK, Finished
    <3>5. Forecast(d)'
      <4> SUFFICES ASSUME Finished(d), ~run[d].request.dry, NEW e \in run[d].earlier,
                          run[e].request.dry, SameRequest(e, d)
                   PROVE  run[e].counted \cap Kept' = {}
        BY <2>6, <2>7, <3>3 DEF Forecast, SameRequest
      <4>1. run[e].counted \cap Kept = {}
        BY <2>6, <2>7 DEF Forecast
      <4> QED
        BY <2>4, <4>1
    <3> QED
      BY <3>2, <3>4, <3>5
  <2> QED
    BY <1>0, <2>5, <2>7 DEF PurgeInv, RunsOK
<1>9. CASE UNCHANGED vars
  BY <1>0, <1>9, RunsUntouched DEF vars, Kept
<1> QED
  BY <1>1, <1>2, <1>3, <1>4, <1>5, <1>6, <1>7, <1>8, <1>9 DEF Next

LEMMA PurgeInvariance == Spec => []PurgeInv
BY InitPurge, NextPurge, PTL DEF Spec

-------------------------------------------------------------------------------
\* Every variable keeps its type, and no run began in the future.
THEOREM RetentionTypes == Spec => []TypeOK
<1>1. PurgeInv => TypeOK
  BY DEF PurgeInv
<1> QED
  BY <1>1, PurgeInvariance, PTL

\* Whatever is buried, replayed or purged meanwhile, a purge deletes what meets all it
\* was asked for, and nothing when it was asked for no age or for a dry run.
THEOREM PurgesDeleteWhatWasAsked == Spec => []OnlyWhatWasAsked
<1>1. ASSUME PurgeInv, NEW l \in Letters, fate[l] \notin {"kept", "replayed"}
      PROVE  LET r == run[fate[l]]
                 o == r.request.options
                 s == r.request.settings
                 OlderThan(p) == /\ HasAge(p)
                                 /\ p.dead # NULL => letter[l].dead + p.dead < r.start
                                 /\ p.created # NULL => letter[l].created + p.created < r.start
             IN  /\ ~r.request.dry
                 /\ OlderThan(IF HasAge(o) THEN o ELSE s)
                 /\ o.name # NULL => NameOf[l] \in o.name
                 /\ ~HasAge(o) /\ o.name = NULL /\ s.name # NULL => NameOf[l] \in s.name
  <2> DEFINE r == run[fate[l]]
             o == r.request.options
             s == r.request.settings
  <2>1. /\ fate[l] \in Runs /\ r # NULL /\ Valid(r.request) /\ ~r.request.dry
        /\ Meets(l, Policy(r.request), r.start) /\ r.request \in Requests
    BY <1>1, RunIs DEF PurgeInv, TypeOK, DeletedRead, RunOK, MeetsAll
  <2>2. o \in Policies /\ s \in Policies \cup {NULL, Junk}
    BY <2>1, RetentionAssumption
  <2>3. CASE HasAge(o)
    BY <2>1, <2>3 DEF Policy, Meets, Older
  <2>4. CASE ~HasAge(o)
    <3>1. s \in Policies /\ HasAge(s)
      BY <2>1, <2>2, <2>4 DEF Valid, Refused, LoadFails
    <3>2. /\ Policy(r.request).dead = s.dead /\ Policy(r.request).created = s.created
          /\ Policy(r.request).name = IF o.name # NULL THEN o.name ELSE s.name
      BY <2>4, <3>1 DEF Policy, Policies
    <3> QED
      BY <2>1, <2>4, <3>1, <3>2 DEF Meets, Older
  <2> QED
    BY <2>3, <2>4
<1>2. PurgeInv => OnlyWhatWasAsked
  BY <1>1 DEF OnlyWhatWasAsked
<1> QED
  BY <1>2, PurgeInvariance, PTL

\* The letters a purge reports are those it deleted and those others took.
THEOREM ReportsAreExplained == Spec => []ReportExplained
<1>1. PurgeInv => ReportExplained
  BY DEF PurgeInv, RunsOK, RunOK, DeletedRead, ReportExplained, Finished
<1> QED
  BY <1>1, PurgeInvariance, PTL

\* What a dry run listed, a later purge of the same request does not leave.
THEOREM ForecastsHold == Spec => []ForecastHolds
<1>1. PurgeInv => ForecastHolds
  BY DEF PurgeInv, RunsOK, Forecast, SameRequest, ForecastHolds, Finished
<1> QED
  BY <1>1, PurgeInvariance, PTL
===============================================================================
