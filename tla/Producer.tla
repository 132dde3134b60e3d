------------------------------- MODULE Producer --------------------------------
(***************************************************************************)
(* OutboxCelery.send_task within the transactions of its caller, and what  *)
(* becomes of the call's options until the relay publishes it.             *)
(*                                                                         *)
(* The caller nests atomic blocks; the row and the on_commit callback of a *)
(* call belong to the innermost one and share its fate.  Callbacks run in  *)
(* the order they were registered, those of the caller among them, and one *)
(* that raises leaves the rest of them unrun.  The options are             *)
(* stored as JSON at the time of the call and read back at the time of the *)
(* publish.  Times are absolute; the kinds of option that a call may have  *)
(* are those serialize_options tells apart.  Options it passes through or  *)
(* drops by name (_TRANSIENT_KEYS) are not told apart here.                *)
(***************************************************************************)
EXTENDS Naturals, Sequences, FiniteSets

CONSTANTS
    Calls,      \* calls of send_task
    Requests,   \* what a call may ask for, see Request
    OWN,        \* an on_commit callback of the caller's own, one that raises
    NULL,       \* None
    MaxDepth,   \* bound: nested atomic blocks
    MaxTime     \* bound: the clock

Times == 0..MaxTime

\* The elements of link: Signatures, or dicts of them, and what is neither.  A
\* single one is a list of one.
Signatures == {"first", "second"}
Links == Signatures \cup {"junk"}

\* expires: a datetime, or a number of seconds.
Expiry(time) == [kind : {"at", "in"}, time : time]

Request == [excluded  : BOOLEAN,                   \* its name is in EXCLUDE_TASKS
            countdown : Nat \cup {NULL},
            eta       : Nat \cup {NULL},
            expires   : Expiry(Nat) \cup {NULL},
            link      : Seq(Links)]

ASSUME ProducerAssumption ==
    /\ OWN \notin Calls
    /\ NULL \notin Nat \cup [request : Requests, at : Nat]
    /\ \A q \in Requests : /\ q.excluded \in BOOLEAN
                           /\ q.countdown \in Nat \cup {NULL}
                           /\ q.eta \in Nat \cup {NULL}
                           /\ q.expires \in Expiry(Nat) \cup {NULL}
                           /\ q.link \in Seq(Links)
    /\ MaxDepth \in Nat
    /\ MaxTime \in Nat

VARIABLES
    now,        \* the clock
    stack,      \* the open atomic blocks, outermost first
    made,       \* call -> what was asked and when, or NULL (history)
    row,        \* call -> the options column of its row, or NULL
    committed,  \* calls whose row other connections see
    due,        \* the callbacks a finished commit has still to run, the next one first
    counted,    \* calls messages.enqueued has counted
    sent,       \* call -> the message the broker got, or NULL
    undone,     \* calls whose block was rolled back or died (history)
    failed,     \* calls whose increment of messages.enqueued raised (history)
    behind,     \* calls made when a callback of the caller's own was registered (history)
    lost        \* calls whose callback was due when the process died (history)

vars == <<now, stack, made, row, committed, due, counted, sent, undone, failed, behind, lost>>

-------------------------------------------------------------------------------
\* Serialisation.

Given(option) == option # NULL

\* Mutant of StoredEta: where both are given, eta is taken before the countdown.
StoredEtaFirst(q) == IF Given(q.countdown) /\ ~Given(q.eta) THEN now + q.countdown
                     ELSE q.eta

\* _serialize_eta: a countdown becomes an absolute time, and is taken before eta.
StoredEta(q) == IF Given(q.countdown) THEN now + q.countdown ELSE q.eta

\* _signatures_to_list: what is no signature is left out, with no more than a
\* warning.  The key is left out when nothing is left, which is no callback too.
SignatureList(link) ==
    LET kept == {i \in 1..Len(link) : link[i] \in Signatures}
        Before(i) == Cardinality({k \in kept : k < i})
    IN  [n \in 1..Cardinality(kept) |-> link[CHOOSE i \in kept : Before(i) = n - 1]]

\* serialize_options.  What is NULL has no key in the column.
Serialized(q) == [eta |-> StoredEta(q), expires |-> q.expires,
                  link |-> SignatureList(q.link)]

\* When a message is discarded whose expires option is handed over at this time.
Expires(option, time) ==
    IF option.kind = "at" THEN option.time ELSE time + option.time

\* The message of a publish by the relay.
Message(options) ==
    [eta     |-> options.eta,
     expires |-> IF Given(options.expires) THEN Expires(options.expires, now) ELSE NULL,
     link    |-> options.link]

-------------------------------------------------------------------------------
Init ==
    /\ now = 0
    /\ stack = <<>>
    /\ made = [c \in Calls |-> NULL]
    /\ row = [c \in Calls |-> NULL]
    /\ committed = {}
    /\ due = <<>>
    /\ counted = {}
    /\ sent = [c \in Calls |-> NULL]
    /\ undone = {}
    /\ failed = {}
    /\ behind = {}
    /\ lost = {}

\* The producer's thread is not inside a commit.
Running == due = <<>>

InAtomicBlock == stack # <<>>
Top == stack[Len(stack)]
Below == SubSeq(stack, 1, Len(stack) - 1)

Members(s) == {s[i] : i \in 1..Len(s)}
Pending(hook) == \E i \in 1..Len(stack) : hook \in Members(stack[i].hooks)

EnterAtomic ==
    /\ Running
    /\ Len(stack) < MaxDepth
    /\ stack' = Append(stack, [rows |-> {}, hooks |-> <<>>])
    /\ UNCHANGED <<now, made, row, committed, due, counted, sent, undone, failed, behind, lost>>

Make(c, q) == made' = [made EXCEPT ![c] = [request |-> q, at |-> now]]

\* A task to be excluded is handed to Celery there and then, with the options as they
\* are; what Celery makes of them is its own.
SendExcluded(c, q) ==
    /\ Running
    /\ made[c] = NULL
    /\ q.excluded
    /\ Make(c, q)
    /\ sent' = [sent EXCEPT ![c] = q]
    /\ UNCHANGED <<now, stack, row, committed, due, counted, undone, failed, behind, lost>>

\* Mutant of Register: the row is written outside of the caller's transaction.
RegisterOutside(c) ==
    /\ committed' = committed \cup {c}
    /\ IF InAtomicBlock
       THEN stack' = Append(Below, [rows |-> Top.rows \cup {c}, hooks |-> Append(Top.hooks, c)])
            /\ UNCHANGED due
       ELSE due' = <<c>> /\ UNCHANGED stack

\* The row is inserted, and the callback registered, in the innermost block; in
\* autocommit the row is there at once and the callback runs.
Register(c) ==
    IF InAtomicBlock
    THEN /\ stack' = Append(Below, [rows |-> Top.rows \cup {c}, hooks |-> Append(Top.hooks, c)])
         /\ UNCHANGED <<committed, due>>
    ELSE /\ committed' = committed \cup {c}
         /\ due' = <<c>>
         /\ UNCHANGED stack

SendTask(c, q) ==
    /\ Running
    /\ made[c] = NULL
    /\ ~q.excluded
    /\ Make(c, q)
    /\ row' = [row EXCEPT ![c] = Serialized(q)]
    /\ Register(c)
    /\ behind' = IF Pending(OWN) THEN behind \cup {c} ELSE behind
    /\ UNCHANGED <<now, counted, sent, undone, failed, lost>>

\* The caller calls on_commit itself.  Bound: once before the blocks are left.
RegisterOwn ==
    /\ Running
    /\ InAtomicBlock
    /\ ~Pending(OWN)
    /\ stack' = Append(Below, [rows |-> Top.rows, hooks |-> Append(Top.hooks, OWN)])
    /\ UNCHANGED <<now, made, row, committed, due, counted, sent, undone, failed, behind, lost>>

\* An atomic block is left: its work joins the block around it, or is committed.
LeaveAtomic ==
    /\ Running
    /\ InAtomicBlock
    /\ IF Len(stack) > 1
       THEN LET outer == Below[Len(Below)]
            IN  /\ stack' = [Below EXCEPT ![Len(Below)] =
                               [rows |-> outer.rows \cup Top.rows,
                                hooks |-> outer.hooks \o Top.hooks]]
                /\ UNCHANGED <<committed, due>>
       ELSE /\ stack' = <<>>
            /\ committed' = committed \cup Top.rows
            /\ due' = Top.hooks
    /\ UNCHANGED <<now, made, row, counted, sent, undone, failed, behind, lost>>

\* Mutant of RollBack: an inner block's callbacks stay with the block around it.
RollBackKeepingHooks ==
    /\ Running
    /\ InAtomicBlock
    /\ stack' = IF Len(stack) = 1 THEN <<>>
                ELSE [Below EXCEPT ![Len(Below)].hooks = @ \o Top.hooks]
    /\ undone' = undone \cup Top.rows
    /\ UNCHANGED <<now, made, row, committed, due, counted, sent, failed, behind, lost>>

\* An exception leaves the block, or its commit fails: back to the savepoint, the
\* callbacks registered since then are dropped with the rows.
RollBack ==
    /\ Running
    /\ InAtomicBlock
    /\ stack' = Below
    /\ undone' = undone \cup Top.rows
    /\ UNCHANGED <<now, made, row, committed, due, counted, sent, failed, behind, lost>>

\* metrics.increment counts the call.
EmitEnqueued(c) ==
    /\ counted' = counted \cup {c}
    /\ due' = Tail(due)
    /\ UNCHANGED failed

\* Mutant of IncrementRaises: the exception is not caught.
IncrementRaisesOut(c) ==
    /\ failed' = failed \cup {c}
    /\ due' = <<>>
    /\ UNCHANGED counted

\* metrics.increment raises: a warning is logged, and the next callback runs.
IncrementRaises(c) ==
    /\ failed' = failed \cup {c}
    /\ due' = Tail(due)
    /\ UNCHANGED counted

\* _emit_enqueued_metric_safe runs as on_commit callback.
RunCallback(c) ==
    /\ due # <<>>
    /\ Head(due) = c
    /\ EmitEnqueued(c) \/ IncrementRaises(c)
    /\ UNCHANGED <<now, stack, made, row, committed, sent, undone, behind, lost>>

\* Its exception leaves the commit, and the callbacks after it are dropped.
OwnCallbackRaises ==
    /\ due # <<>>
    /\ Head(due) = OWN
    /\ due' = <<>>
    /\ UNCHANGED <<now, stack, made, row, committed, counted, sent, undone, failed, behind, lost>>

AllRows == UNION {stack[i].rows : i \in 1..Len(stack)}

ProcessDies ==
    /\ InAtomicBlock \/ ~Running
    /\ stack' = <<>>
    /\ undone' = undone \cup AllRows
    /\ lost' = lost \cup (Members(due) \ {OWN})
    /\ due' = <<>>
    /\ UNCHANGED <<now, made, row, committed, counted, sent, failed, behind>>

\* A relay finds the row, deserialises the options and publishes.  It may also do
\* so again later; the last message counts.
RelayPublishes(c) ==
    /\ c \in committed
    /\ sent' = [sent EXCEPT ![c] = Message(row[c])]
    /\ UNCHANGED <<now, stack, made, row, committed, due, counted, undone, failed, behind, lost>>

Tick ==
    /\ now < MaxTime
    /\ now' = now + 1
    /\ UNCHANGED <<stack, made, row, committed, due, counted, sent, undone, failed, behind, lost>>

Next ==
    \/ EnterAtomic \/ LeaveAtomic \/ RollBack \/ RegisterOwn \/ OwnCallbackRaises
    \/ ProcessDies \/ Tick
    \/ \E c \in Calls : \/ \E q \in Requests : SendTask(c, q) \/ SendExcluded(c, q)
                        \/ RunCallback(c)
                        \/ RelayPublishes(c)

Spec == Init /\ [][Next]_vars

-------------------------------------------------------------------------------
TypeOK ==
    /\ now \in Times
    /\ stack \in Seq([rows : SUBSET Calls, hooks : Seq(Calls \cup {OWN})])
    /\ Len(stack) <= MaxDepth
    /\ \A c \in Calls : made[c] = NULL \/ made[c] \in [request : Requests, at : 0..now]
    /\ \A c \in Calls : row[c] = NULL \/ row[c].eta \in Nat \cup {NULL}
    /\ committed \subseteq {c \in Calls : row[c] # NULL}
    /\ Members(due) \subseteq committed \cup {OWN}
    /\ counted \subseteq Calls
    /\ undone \subseteq Calls
    /\ failed \subseteq Calls
    /\ behind \subseteq Calls
    /\ lost \subseteq Calls

Excluded(c) == made[c].request.excluded

\* A call reaches the broker through the outbox only if the block it was made in,
\* and every block around it, was committed; an undone call never does.
OnlyCommittedSent ==
    \A c \in Calls : sent[c] # NULL /\ ~Excluded(c) => c \in committed \ undone

\* docs/observability/metrics.md: messages.enqueued counts "committed outbox rows
\* only": no rolled back savepoint and no excluded call is counted.  A committed call
\* is missing from it only if its own increment raised, if the process died within
\* the commit, or if the caller had registered, before the call and in a transaction
\* still open, a callback that raises; a failing increment takes no other with it
\* (send_task, on_commit, _emit_enqueued_metric_safe).
CountedAreCommitted ==
    /\ counted \subseteq committed \ undone
    /\ committed \subseteq counted \cup failed \cup lost \cup behind \cup Members(due)

\* Whenever the relay publishes it, a task is started at the time that was meant when
\* it was sent, and it is discarded at the time given, or, when a number of seconds was
\* given, not earlier than that many after the call (_serialize_eta).
TimesAsMeant ==
    \A c \in Calls : sent[c] # NULL /\ ~Excluded(c) =>
        LET q == made[c].request
            at == made[c].at
        IN  /\ sent[c].eta = IF q.countdown # NULL THEN at + q.countdown ELSE q.eta
            /\ (q.expires = NULL) <=> (sent[c].expires = NULL)
            /\ q.expires # NULL =>
                  IF q.expires.kind = "at" THEN sent[c].expires = q.expires.time
                  ELSE sent[c].expires >= at + q.expires.time

\* Its callbacks are the valid ones of the call, each once for each time it was given,
\* in their order (_signatures_to_list).
CallbacksAsMeant ==
    \A c \in Calls : sent[c] # NULL /\ ~Excluded(c) =>
        LET link == made[c].request.link
            list == sent[c].link
            Valid == {i \in 1..Len(link) : link[i] \in Signatures}
        IN  \E at \in [1..Len(list) -> Valid] :
              /\ \A n \in 1..Len(list) : list[n] = link[at[n]]
              /\ \A m, n \in 1..Len(list) : m < n => at[m] < at[n]
              /\ \A i \in Valid : \E n \in 1..Len(list) : at[n] = i

\* docs/usage/task-options.md: the task "runs at the correct time regardless of
\* relay delay", with what the call asked for (serialize_options,
\* deserialize_options).
SentAsMeant == TimesAsMeant /\ CallbacksAsMeant
===============================================================================
