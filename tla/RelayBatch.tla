------------------------------ MODULE RelayBatch ------------------------------
(***************************************************************************)
(* What serial and parallel publishing of one batch share: the messages,   *)
(* the groups Relay._process_messages returns them in, the RelayPolicy     *)
(* that counts outages, and the shutdown deadline.  SerialBatch and        *)
(* ParallelBatch add the order in which messages are sent.                 *)
(*                                                                         *)
(* Messages are numbered in the order the selector returned them.  A group *)
(* is the set of messages appended to the list of that name.  The clock is *)
(* reduced to where it stands to the shutdown deadline.                    *)
(***************************************************************************)
EXTENDS Naturals, Sequences, FiniteSets

CONSTANTS
    Size,        \* messages in the batch
    MaxRetries,  \* --max-retries
    Retries,     \* what the column may hold: more than MaxRetries where several
                 \* relays held the row at once, or the limit was lowered
    MaxSignals   \* bound: SIGTERM or SIGINT arriving while the batch runs

ASSUME BatchAssumption ==
    /\ Size \in Nat
    /\ MaxRetries \in Nat \ {0}
    /\ Retries \subseteq Nat
    /\ MaxSignals \in Nat

Messages == 1..Size
GroupNames == {"published", "failed", "exceeded", "deferred", "aborted"}

VARIABLES
    retries,   \* message -> retries as the selector read it
    next,      \* the first message not taken up yet
    groups,    \* group name -> messages in it
    tried,     \* messages whose publish was begun (history)
    streak,    \* RelayPolicy._outage_streak
    answers,   \* the broker's answers RelayPolicy was told of, oldest first, from the
               \* outage on that an earlier batch may have ended with (history)
    tripped,   \* RelayPolicy._breaker_open_until was set by this batch
    deadline,  \* the shutdown deadline: "none", "running" or "passed"
    signals    \* signals so far, of MaxSignals

policy == <<streak, tripped, answers>>
shutdown == <<deadline, signals>>
batchVars == <<retries, next, groups, tried, policy, shutdown>>

\* A batch begins with the breaker closed: should_skip_batch resets the streak
\* with it, and begin_batch resets nothing.
BatchInit ==
    /\ retries \in [Messages -> Retries]
    /\ next = 1
    /\ groups = [g \in GroupNames |-> {}]
    /\ tried = {}
    /\ answers \in {<<>>, <<"outage">>}
    /\ streak = Len(answers)
    /\ tripped = FALSE
    /\ deadline \in {"none", "running", "passed"}
    /\ signals = 0

Remaining == next..Size

\* Mutants of Exhausted and LastAttempt: off by one.
ExhaustedLate(m) == retries[m] > MaxRetries
LastAttemptEarly(m) == retries[m] + 1 >= MaxRetries - 1

\* The message is dead-lettered before any publish; after one that fails.
Exhausted(m) == retries[m] >= MaxRetries
LastAttempt(m) == retries[m] >= MaxRetries - 1

Grouped == UNION {groups[g] : g \in GroupNames}

\* list.append and list.extend on the lists of a batch.
Append1(gs, g, m) == [gs EXCEPT ![g] = @ \cup {m}]
AppendAll(gs, g, ms) == [gs EXCEPT ![g] = @ \cup ms]

\* Mutant of RecordSuccess: the streak of outages is not reset.
RecordSuccessKeeping(m) ==
    /\ groups' = Append1(groups, "published", m)
    /\ answers' = Append(answers, "success")
    /\ UNCHANGED <<streak, tripped>>

\* RelayPolicy.record_success, and the message is published.
RecordSuccess(m) ==
    /\ groups' = Append1(groups, "published", m)
    /\ answers' = Append(answers, "success")
    /\ streak' = 0
    /\ UNCHANGED tripped

\* _record_non_outage_failure: the streak of outages is left as it is.
RecordFailure(m) ==
    /\ groups' = Append1(groups, IF LastAttempt(m) THEN "exceeded" ELSE "failed", m)
    /\ UNCHANGED policy

\* Mutant of Opens: a single outage opens the breaker.
OpensAtOnce(s) == s + 1 >= 1

\* RelayPolicy.record_outage: whether one more outage opens the breaker.
Opens(s) == s + 1 >= 2

RecordOutage ==
    /\ answers' = Append(answers, "outage")
    /\ streak' = streak + 1
    /\ tripped' = (tripped \/ Opens(streak))

\* Mutants of ClassifyRemaining: the rest is forgotten, or deferred as a whole.
ClassifyNone(gs, ms) == gs
ClassifyDeferred(gs, ms) == AppendAll(gs, "deferred", ms)

\* _classify_breaker_remaining_messages.
ClassifyRemaining(gs, ms) ==
    AppendAll(AppendAll(gs, "exceeded", {m \in ms : Exhausted(m)}),
              "deferred", {m \in ms : ~Exhausted(m)})

\* _handle_signal sets a new deadline, also when one was set before.
Signal ==
    /\ signals < MaxSignals
    /\ signals' = signals + 1
    /\ deadline' = "running"

DeadlinePasses ==
    /\ deadline = "running"
    /\ deadline' = "passed"
    /\ UNCHANGED signals

BatchTypeOK ==
    /\ retries \in [Messages -> Retries]
    /\ next \in 1..(Size + 1)
    /\ groups \in [GroupNames -> SUBSET Messages]
    /\ tried \subseteq Messages
    /\ streak \in 0..(Size + 1)
    /\ answers \in Seq({"success", "outage"})
    /\ tripped \in BOOLEAN
    /\ deadline \in {"none", "running", "passed"}
    /\ signals \in 0..MaxSignals

-------------------------------------------------------------------------------
\* No message ends in two groups: the second transaction would both delete and
\* reschedule its row, or dead-letter a row it also deferred.
GroupsDisjoint ==
    \A g, h \in GroupNames : g # h => groups[g] \cap groups[h] = {}

\* The breaker is opened by two outages in a row and by nothing else: the earlier of
\* the two may lie in the batch before, a success between them starts the count anew,
\* and a publish that fails without an outage neither adds to it nor resets it.  What
\* is still in flight when the breaker opens does not close it (RelayPolicy, called
\* from the loops of both modes in the order the answers are consumed).
OpensOnTwoInARow ==
    tripped <=> \E i \in 1..(Len(answers) - 1) :
                    answers[i] = "outage" /\ answers[i + 1] = "outage"

\* Who may be in which group, and in one only.  Only a message whose publish was
\* begun is published, failed or, with retries left, dead-lettered; one that was not
\* begun is deferred only by a breaker that opened, which takes two outages in a row,
\* and never with its retries used up (every append to a list of the batch,
\* _classify_breaker_remaining_messages).
Accounting ==
    /\ GroupsDisjoint
    /\ OpensOnTwoInARow
    /\ groups["published"] \cup groups["failed"] \subseteq tried
    /\ \A m \in groups["exceeded"] : m \in tried \/ Exhausted(m)
    /\ \A m \in groups["deferred"] : ~Exhausted(m) /\ (m \in tried \/ tripped)
===============================================================================
