--------------------------- MODULE TestSessionProofs ---------------------------
(***************************************************************************)
(* What the fixtures promise the tests of a session, for any tests,        *)
(* redactors, cache and batch size: the rows are the test's own, redacted   *)
(* as the setting says, and the recorder holds what was published.         *)
(***************************************************************************)
EXTENDS TestSession, FiniteSetTheorems, WellFoundedInduction, TLAPS

States == {"due", "waiting", "unsupported"}

Row == [id : Nat, test : Nat, payload : [args : {RAW}, redacted : Redactors \cup {NULL}],
        retries : Nat, state : States]

Call == [at : Nat, app : {"relay", "other"}, id : Nat, args : {RAW}]

Entries == [key : Addresses \cup {NULL, Path}, value : Values, redactor : Redactors \cup {NULL}]

TypeOK ==
    /\ test \in Tests \cup {NULL}
    /\ tests \in Nat
    /\ setting \in Values
    /\ target \in Redactors
    /\ repointed \in BOOLEAN
    /\ cache \in Seq(Entries)
    /\ rows \subseteq Row
    /\ dead \subseteq Row
    /\ made \in Nat
    /\ changes \in Nat
    /\ calls \subseteq Call
    /\ drain \in [pc : {"idle", "pass", "gaveup"}, before : Nat, added : BOOLEAN]

\* Ids are given once, and a row is in one table.
Numbered ==
    /\ \A row \in Stored : row.id \in 1..made
    /\ \A row, other \in Stored : row.id = other.id => row = other
    /\ rows \cap dead = {}

\* A drain is a step of a test with the outbox, that counted the rows there are.
Draining ==
    drain.pc = "pass" => /\ test # NULL
                         /\ test.outbox
                         /\ rows # {}
                         /\ drain.before = Cardinality(rows)

\* The places of the recorder's list are taken once.
ListedAs(list) ==
    /\ IsFiniteSet(list)
    /\ \A call \in list : call.at < Cardinality(list)
    /\ \A call, other \in list : call.at = other.at => call = other

Listed == ListedAs(calls)

\* The recorder holds calls of the relay's app only, of rows that were made, and
\* nothing between two tests.
Recorder ==
    /\ test = NULL => calls = {}
    /\ \A call \in calls : call.app = "relay" /\ call.id \in 0..made

\* An entry leads to what its value names, unless a path was made to lead elsewhere.
Faithful(e) ==
    /\ e.key = Key(e.value)
    /\ e.redactor = Named(e.value) \/ (e.value = Path /\ repointed)

Alive == Held \cup ({setting} \cap Objects)

\* No two objects that are alive share an address.
Cached ==
    /\ \A i \in 1..Len(cache) : Faithful(cache[i])
    /\ \A o, p \in Alive : o.address = p.address => o = p

\* What makes Isolated, RecordedAsGiven and the action properties inductive.
SessionInv ==
    /\ TypeOK
    /\ Numbered
    /\ Draining
    /\ Listed
    /\ Recorder
    /\ Cached
    /\ Isolated
    /\ RecordedAsGiven
-------------------------------------------------------------------------------
(* The operators. *)

\* A set of rows with ids of their own is finite.
LEMMA NumberedFinite ==
    ASSUME NEW S, NEW n \in Nat,
           \A row \in S : row.id \in 1..n,
           \A row, other \in S : row.id = other.id => row = other
    PROVE  IsFiniteSet(S)
<1> DEFINE f == [row \in S |-> row.id]
<1>1. f \in Injection(S, 1..n)
  BY DEF Injection, IsInjective
<1>2. IsFiniteSet(1..n)
  BY FS_Interval
<1> QED
  BY <1>1, <1>2, FS_Injection

LEMMA RowsFinite ==
    ASSUME TypeOK, Numbered
    PROVE  IsFiniteSet(rows)
BY NumberedFinite DEF TypeOK, Numbered, Stored

\* A row of a smaller id has fewer rows before it, and none has all.
LEMMA Ranks ==
    ASSUME NEW S, IsFiniteSet(S), \A row \in S : row.id \in Nat,
           NEW row \in S
    PROVE  LET Before(r) == {other \in S : other.id < r.id}
           IN  /\ Cardinality(Before(row)) \in Nat
               /\ Cardinality(Before(row)) < Cardinality(S)
               /\ \A next \in S : row.id < next.id
                                  => Cardinality(Before(row)) < Cardinality(Before(next))
<1> DEFINE Before(r) == {other \in S : other.id < r.id}
<1>1. \A r \in S : Before(r) \in SUBSET S /\ r \notin Before(r)
  OBVIOUS
<1>2. \A r \in S : IsFiniteSet(Before(r)) /\ Cardinality(Before(r)) \in Nat
  BY <1>1, FS_Subset, FS_CardinalityType
<1>3. Cardinality(Before(row)) < Cardinality(S)
  <2>1. Cardinality(Before(row)) <= Cardinality(S) /\ Cardinality(Before(row)) # Cardinality(S)
    BY <1>1, FS_Subset
  <2> QED
    BY <2>1, <1>2, FS_CardinalityType
<1>4. ASSUME NEW next \in S, row.id < next.id
      PROVE  Cardinality(Before(row)) < Cardinality(Before(next))
  <2>1. Before(row) \in SUBSET Before(next) /\ row \in Before(next) /\ row \notin Before(row)
    BY <1>4
  <2>2. /\ Cardinality(Before(row)) <= Cardinality(Before(next))
        /\ Cardinality(Before(row)) # Cardinality(Before(next))
    BY <2>1, <1>2, FS_Subset
  <2>3. Cardinality(Before(row)) \in Nat /\ Cardinality(Before(next)) \in Nat
    BY <1>2
  <2> HIDE DEF Before
  <2> QED
    BY <2>2, <2>3
<1> QED
  BY <1>2, <1>3, <1>4

\* The calls of a pass come after those there are, each in a place of its own.
LEMMA CallsForRows ==
    ASSUME TypeOK, Numbered, Listed, NEW S \in SUBSET rows
    PROVE  /\ CallsFor(S) \subseteq Call
           /\ \A call \in CallsFor(S) : \E row \in S : call.id = row.id
           /\ \A row \in S : \E call \in CallsFor(S) : call.id = row.id
           /\ \A call \in CallsFor(S) : call.app = "relay" /\ call.args = RAW
           /\ \A call, other \in CallsFor(S) : call.id = other.id => call = other
           /\ ListedAs(calls \cup CallsFor(S))
<1> DEFINE Before(r) == {other \in S : other.id < r.id}
           For(r) == [at |-> Cardinality(calls) + Cardinality(Before(r)),
                      app |-> "relay", id |-> r.id, args |-> r.payload.args]
           new == CallsFor(S)
<1>1. \A r \in S : r \in Row /\ r.id \in Nat /\ r.payload.args = RAW
  BY DEF TypeOK, Row
<1>2. IsFiniteSet(S) /\ Cardinality(S) \in Nat
  BY RowsFinite, FS_Subset, FS_CardinalityType
<1>3. Cardinality(calls) \in Nat
  BY FS_CardinalityType DEF Listed, ListedAs
<1>4. \A r \in S : Cardinality(Before(r)) \in Nat /\ Cardinality(Before(r)) < Cardinality(S)
  BY <1>1, <1>2, Ranks
<1>5. \A r, next \in S : r.id < next.id => Cardinality(Before(r)) < Cardinality(Before(next))
  BY <1>1, <1>2, Ranks
<1>6. new = {For(r) : r \in S}
  BY DEF CallsFor
<1>7. \A r \in S : For(r) \in Call
  BY <1>1, <1>3, <1>4 DEF Call
<1>8. \A r, next \in S : r.id = next.id => r = next
  BY DEF Numbered, Stored
<1>9. \A r, next \in S : For(r).at = For(next).at => r = next
  <2> TAKE r, next \in S
  <2> HAVE For(r).at = For(next).at
  <2>1. Cardinality(Before(r)) = Cardinality(Before(next))
    BY <1>3, <1>4
  <2>2. ~(r.id < next.id) /\ ~(next.id < r.id)
    <3>1. Cardinality(Before(r)) \in Nat /\ Cardinality(Before(next)) \in Nat
      BY <1>4
    <3>2. /\ r.id < next.id => Cardinality(Before(r)) < Cardinality(Before(next))
          /\ next.id < r.id => Cardinality(Before(next)) < Cardinality(Before(r))
      BY <1>5
    <3> HIDE DEF Before
    <3> QED
      BY <3>1, <3>2, <2>1
  <2> QED
    BY <2>2, <1>1, <1>8
<1>10. IsFiniteSet(new) /\ Cardinality(new) = Cardinality(S)
  <2> DEFINE f == [r \in S |-> For(r)]
  <2>1. f \in Bijection(S, new)
    <3>1. f \in [S -> new]
      BY <1>6
    <3>2. \A a, b \in S : f[a] = f[b] => a = b
      BY <1>9
    <3>3. \A t \in new : \E r \in S : f[r] = t
      BY <1>6
    <3> HIDE DEF f
    <3> QED
      BY <3>1, <3>2, <3>3 DEF Bijection, Injection, IsInjective, Surjection
  <2> QED
    BY <2>1, <1>2, FS_Bijection DEF ExistsBijection
<1>11. \A call \in new : /\ Cardinality(calls) <= call.at
                         /\ call.at < Cardinality(calls) + Cardinality(S)
  <2> TAKE call \in new
  <2>1. PICK r \in S : call = For(r)
    BY <1>6
  <2>2. call.at = Cardinality(calls) + Cardinality(Before(r))
    BY <2>1
  <2>3. Cardinality(Before(r)) \in Nat /\ Cardinality(Before(r)) < Cardinality(S)
    BY <1>4
  <2> HIDE DEF Before, For, new
  <2> QED
    BY <2>2, <2>3, <1>2, <1>3
<1> HIDE DEF new
<1>12. calls \cap new = {}
  <2> SUFFICES ASSUME NEW call \in calls, call \in new
               PROVE  FALSE
    OBVIOUS
  <2>1. call.at \in Nat /\ call.at < Cardinality(calls)
    BY DEF Listed, ListedAs, TypeOK, Call
  <2> QED
    BY <2>1, <1>11, <1>3
<1>13. IsFiniteSet(calls \cup new) /\ Cardinality(calls \cup new) = Cardinality(calls) + Cardinality(S)
  <2>1. /\ IsFiniteSet(calls \cup new)
        /\ Cardinality(calls \cup new)
             = Cardinality(calls) + Cardinality(new) - Cardinality(calls \cap new)
    BY <1>10, FS_Union DEF Listed, ListedAs
  <2> QED
    <3>1. Cardinality(calls \cap new) = 0
      BY <1>12, FS_EmptySet
    <3> QED
      BY <2>1, <3>1, <1>10, <1>2, <1>3
<1>14. \A call \in calls \cup new : call.at < Cardinality(calls \cup new)
  <2>1. \A call \in calls : call.at \in Nat /\ call.at < Cardinality(calls)
    BY DEF Listed, ListedAs, TypeOK, Call
  <2>2. \A call \in new : call.at \in Nat
    BY <1>6, <1>7 DEF Call
  <2> QED
    BY <2>1, <2>2, <1>2, <1>3, <1>11, <1>13
<1>15. \A call, other \in calls \cup new : call.at = other.at => call = other
  <2>1. \A call \in calls : call.at \in Nat /\ call.at < Cardinality(calls)
    BY DEF Listed, ListedAs, TypeOK, Call
  <2>2. \A call \in new : call.at \in Nat
    BY <1>6, <1>7 DEF Call
  <2>3. \A call, other \in new : call.at = other.at => call = other
    <3> TAKE call, other \in new
    <3>1. PICK r \in S : call = For(r)
      BY <1>6
    <3>2. PICK next \in S : other = For(next)
      BY <1>6
    <3> HIDE DEF For
    <3> QED
      BY <3>1, <3>2, <1>9
  <2> QED
    BY <2>1, <2>2, <2>3, <1>3, <1>11 DEF Listed, ListedAs
<1>16. \A call, other \in new : call.id = other.id => call = other
  <2> TAKE call, other \in new
  <2>1. PICK r \in S : call = For(r)
    BY <1>6
  <2>2. PICK next \in S : other = For(next)
    BY <1>6
  <2> QED
    BY <2>1, <2>2, <1>8
<1>17. /\ new \subseteq Call
       /\ \A call \in new : \E row \in S : call.id = row.id
       /\ \A row \in S : \E call \in new : call.id = row.id
       /\ \A call \in new : call.app = "relay" /\ call.args = RAW
  <2>1. \A row \in S : For(row).id = row.id /\ For(row).app = "relay" /\ For(row).args = RAW
    BY <1>1
  <2> HIDE DEF For
  <2> QED
    BY <2>1, <1>6, <1>7
<1>18. ListedAs(calls \cup new)
  BY <1>13, <1>14, <1>15 DEF ListedAs
<1> QED
  BY <1>16, <1>17, <1>18 DEF new

\* Rows that stay do so in one of two tables, each once and under its id.
Settles(stay, left, lost) ==
    /\ stay \subseteq rows
    /\ left \subseteq Row
    /\ lost \subseteq stay
    /\ \A row \in left \cup lost :
          \E r \in stay : row.id = r.id /\ row.test = r.test /\ row.payload = r.payload
    /\ \A r \in stay : \E row \in left \cup lost : row.id = r.id
    /\ \A row, other \in left \cup lost : row.id = other.id => row = other
    /\ left \cap lost = {}

\* What the relay leaves in the tables is what was there and was not sent.
LEMMA SettledRows ==
    ASSUME TypeOK, Numbered,
           NEW failed \in SUBSET Batch, NEW deferred \in SUBSET (Batch \ failed)
    PROVE  Settles(rows \ (Batch \ (failed \cup deferred)), Left(failed, deferred),
                   {f \in failed : Exhausted(f)})
<1> DEFINE left == Left(failed, deferred)
           lost == {f \in failed : Exhausted(f)}
           stay == rows \ (Batch \ (failed \cup deferred))
           Retried(r) == [r EXCEPT !.state = "waiting", !.retries = @ + 1]
           Put(r) == [r EXCEPT !.state = "waiting"]
           Comes(row, r) == \/ r \in rows \ Batch /\ row = r
                            \/ r \in failed /\ ~Exhausted(r) /\ row = Retried(r)
                            \/ r \in deferred /\ row = Put(r)
           Goes(row, r) == r \in failed /\ Exhausted(r) /\ row = r
<1>1. Batch \subseteq rows
  BY DEF Batch
<1>2. \A r \in rows : /\ r \in Row
                      /\ Retried(r) \in Row /\ Put(r) \in Row
                      /\ Retried(r).id = r.id /\ Retried(r).test = r.test
                      /\ Retried(r).payload = r.payload
                      /\ Put(r).id = r.id /\ Put(r).test = r.test
                      /\ Put(r).payload = r.payload
  <2> TAKE r \in rows
  <2>1. r \in Row
    BY DEF TypeOK
  <2>2. r = [id |-> r.id, test |-> r.test, payload |-> r.payload, retries |-> r.retries,
             state |-> r.state]
    BY <2>1 DEF Row
  <2>3. r.retries + 1 \in Nat /\ "waiting" \in States
    BY <2>1 DEF Row, States
  <2> QED
    BY <2>1, <2>2, <2>3 DEF Row
<1>3. \A r, next \in rows : r.id = next.id => r = next
  BY DEF Numbered, Stored
<1>4. \A row \in left : \E r \in rows : Comes(row, r)
  BY <1>1 DEF Left
<1>5. \A row, r : Comes(row, r) => row \in left
  BY DEF Left
<1>6. \A row \in lost : Goes(row, row) /\ row \in rows
  BY <1>1
<1>7. \A row, r : Comes(row, r) \/ Goes(row, r)
                  => /\ r \in stay /\ row \in Row /\ row.id = r.id /\ row.test = r.test
                     /\ row.payload = r.payload
  BY <1>1, <1>2
<1>8. \A r \in stay : \/ Comes(r, r) \/ Comes(Retried(r), r) \/ Comes(Put(r), r)
                      \/ Goes(r, r)
  BY <1>1
<1>9. \A row, other, r : /\ Comes(row, r) /\ Comes(other, r) => row = other
                         /\ Comes(row, r) => ~Goes(other, r)
  BY <1>1
<1>10. \A row, r : Goes(row, r) => row \in lost
  OBVIOUS
<1>11. lost \subseteq stay
  BY <1>1
<1>12. stay \subseteq rows
  OBVIOUS
<1>13. \A row, other, r : Goes(row, r) /\ Goes(other, r) => row = other
  OBVIOUS
<1> HIDE DEF Comes, Goes, left, lost, stay
<1>14. \A row \in left \cup lost : \E r \in stay : /\ row.id = r.id /\ row.test = r.test
                                                  /\ row.payload = r.payload
  BY <1>4, <1>6, <1>7
<1>15. \A r \in stay : \E row \in left \cup lost : row.id = r.id
  BY <1>5, <1>7, <1>8, <1>10
<1>16. ASSUME NEW row \in left \cup lost, NEW other \in left \cup lost, row.id = other.id
       PROVE  row = other
  <2>1. PICK r \in rows : Comes(row, r) \/ Goes(row, r)
    BY <1>4, <1>6
  <2>2. PICK next \in rows : Comes(other, next) \/ Goes(other, next)
    BY <1>4, <1>6
  <2>3. r = next
    BY <2>1, <2>2, <1>3, <1>7, <1>16
  <2> QED
    BY <2>1, <2>2, <2>3, <1>9, <1>13
<1>17. ASSUME NEW row \in left, row \in lost
       PROVE  FALSE
  <2>1. PICK r \in rows : Comes(row, r)
    BY <1>4
  <2>2. Goes(row, row) /\ row \in rows
    BY <1>6, <1>17
  <2>3. r = row
    BY <2>1, <2>2, <1>3, <1>7
  <2> QED
    BY <2>1, <2>2, <2>3, <1>9
<1>18. left \subseteq Row
  BY <1>4, <1>7
<1>19. Settles(stay, left, lost)
  BY <1>11, <1>12, <1>14, <1>15, <1>16, <1>17, <1>18 DEF Settles
<1> QED
  BY <1>19 DEF left, lost, stay

\* A call leaves the cache faithful, with the redactor of the setting at its end.
LEMMA LookedUp ==
    ASSUME TypeOK, Cached
    PROVE  LET new == Looked(setting)
           IN  /\ new \in Seq(Entries)
               /\ Len(new) \in Nat /\ Len(new) > 0
               /\ \A i \in 1..Len(new) : \/ new[i] = Entry(setting)
                                         \/ \E j \in 1..Len(cache) : new[i] = cache[j]
               /\ \/ new[Len(new)].redactor = Named(setting)
                  \/ setting = Path /\ repointed
<1> DEFINE hits == {i \in 1..Len(cache) : cache[i].key = Key(setting)}
           hit == CHOOSE i \in hits : TRUE
           kept == IF hits # {} THEN SubSeq(cache, 1, hit - 1) \o SubSeq(cache, hit + 1, Len(cache))
                   ELSE IF Len(cache) = CacheSize THEN Tail(cache)
                   ELSE cache
           last == IF hits # {} THEN cache[hit] ELSE Entry(setting)
           new == Looked(setting)
<1>1. new = Append(kept, last)
  BY DEF Looked
<1>2. cache \in Seq(Entries) /\ Len(cache) \in Nat
  <2>1. cache \in Seq(Entries)
    BY DEF TypeOK
  <2> QED
    BY <2>1
<1>3. hits # {} => hit \in 1..Len(cache) /\ cache[hit].key = Key(setting)
  OBVIOUS
<1>4. Entry(setting) \in Entries
  BY DEF Entry, Entries, Key, Named, Values, Objects, TypeOK
<1>5. last \in Entries
  BY <1>2, <1>3, <1>4
<1>6. kept \in Seq(Entries)
      /\ \A i \in 1..Len(kept) : \E j \in 1..Len(cache) : kept[i] = cache[j]
  <2>1. CASE hits # {}
    <3> DEFINE head == SubSeq(cache, 1, hit - 1)
               tail == SubSeq(cache, hit + 1, Len(cache))
    <3>1. hit \in 1..Len(cache)
      BY <2>1, <1>3
    <3> HIDE DEF hit, hits
    <3>2. /\ head \in Seq(Entries) /\ Len(head) = hit - 1
          /\ \A i \in 1..Len(head) : head[i] = cache[i]
      BY <3>1, <1>2
    <3>3. /\ tail \in Seq(Entries) /\ Len(tail) = Len(cache) - hit
          /\ \A i \in 1..Len(tail) : tail[i] = cache[hit + i]
      BY <3>1, <1>2
    <3>4. kept = head \o tail
      BY <2>1
    <3> HIDE DEF head, tail, kept
    <3>5. kept \in Seq(Entries) /\ Len(kept) = Len(head) + Len(tail)
      <4>1. hit \in Nat /\ Len(cache) \in Nat
        BY <3>1, <1>2
      <4>2. Len(head \o tail) = Len(head) + Len(tail) /\ head \o tail \in Seq(Entries)
        BY <3>2, <3>3
      <4> QED
        BY <4>2, <3>4
    <3>6. ASSUME NEW i \in 1..Len(kept)
          PROVE  \E j \in 1..Len(cache) : kept[i] = cache[j]
      <4>1. CASE i <= Len(head)
        <5>1. kept[i] = cache[i] /\ i \in 1..Len(cache)
          BY <4>1, <3>1, <3>2, <3>3, <3>4, <1>2
        <5> QED
          BY <5>1
      <4>2. CASE i > Len(head)
        <5>1. kept[i] = tail[i - Len(head)] /\ i - Len(head) \in 1..Len(tail)
          BY <4>2, <3>1, <3>2, <3>3, <3>4, <3>5, <3>6, <1>2
        <5>2. kept[i] = cache[hit + (i - Len(head))] /\ hit + (i - Len(head)) \in 1..Len(cache)
          BY <5>1, <3>1, <3>2, <3>3, <1>2
        <5> QED
          BY <5>2
      <4> QED
        BY <4>1, <4>2, <3>2, <3>1
    <3> QED
      BY <3>5, <3>6
  <2>2. CASE hits = {} /\ Len(cache) = CacheSize
    <3>1. cache # <<>> /\ Len(cache) > 0 /\ kept = Tail(cache)
      BY <2>2, <1>2, SessionAssumption
    <3>2. Tail(cache) \in Seq(Entries) /\ Len(Tail(cache)) = Len(cache) - 1
          /\ \A i \in 1..Len(Tail(cache)) : Tail(cache)[i] = cache[i + 1] /\ i + 1 \in 1..Len(cache)
      BY <3>1, <1>2
    <3> QED
      BY <3>1, <3>2
  <2>3. CASE hits = {} /\ Len(cache) # CacheSize
    BY <2>3, <1>2
  <2> QED
    BY <2>1, <2>2, <2>3
<1> HIDE DEF kept, last
<1>7. /\ new \in Seq(Entries) /\ Len(new) = Len(kept) + 1
      /\ new[Len(new)] = last
      /\ \A i \in 1..Len(kept) : new[i] = kept[i]
  BY <1>1, <1>5, <1>6
<1>8. last = Entry(setting) \/ \E j \in 1..Len(cache) : last = cache[j]
  BY <1>3 DEF last
<1>9. ASSUME NEW i \in 1..Len(new)
      PROVE  new[i] = Entry(setting) \/ \E j \in 1..Len(cache) : new[i] = cache[j]
  <2>1. CASE i = Len(new)
    BY <2>1, <1>7, <1>8
  <2>2. CASE i # Len(new)
    <3>1. Len(kept) \in Nat
      BY <1>6
    <3>2. i \in 1..Len(kept) /\ new[i] = kept[i]
      BY <2>2, <3>1, <1>7
    <3> QED
      BY <3>2, <1>6
  <2> QED
    BY <2>1, <2>2
<1>10. last.redactor = Named(setting) \/ (setting = Path /\ repointed)
  <2>1. CASE hits = {}
    BY <2>1 DEF last, Entry
  <2>2. CASE hits # {}
    <3> DEFINE e == cache[hit]
    <3>1. hit \in 1..Len(cache) /\ e.key = Key(setting) /\ last = e
      BY <2>2, <1>3 DEF last
    <3>2. Faithful(e) /\ e \in Entries
      BY <3>1, <1>2 DEF Cached
    <3>3. e.value \in Objects => e.value \in Alive
      BY <3>1 DEF Alive, Held
    <3>4. Key(e.value) = Key(setting) /\ e.value \in Values /\ setting \in Values
      BY <3>1, <3>2 DEF Faithful, Entries, TypeOK
    <3> HIDE DEF e, hit
    <3>5. e.value = setting
      <4>1. \A o \in Objects : o.address \in Addresses /\ o # NULL /\ o # Path
        BY SessionAssumption DEF Objects
      <4>2. CASE setting \in Objects
        <5>1. e.value \in Objects /\ e.value.address = setting.address
          <6>1. Key(setting) = setting.address /\ setting.address \in Addresses
            BY <4>1, <4>2 DEF Key
          <6>2. e.value \notin {NULL, Path}
            BY <6>1, <4>1, <3>4, SessionAssumption DEF Key
          <6>3. e.value \in Objects
            BY <6>2, <3>4 DEF Values
          <6> QED
            BY <6>1, <6>3, <3>4 DEF Key
        <5>2. setting \in Alive
          BY <4>2 DEF Alive
        <5> QED
          BY <5>1, <5>2, <3>3 DEF Cached
      <4>3. CASE setting \in {NULL, Path}
        BY <4>1, <4>3, <3>4, SessionAssumption DEF Key, Values
      <4> QED
        BY <4>2, <4>3, <3>4 DEF Values
    <3> QED
      BY <3>1, <3>2, <3>5 DEF Faithful
  <2> QED
    BY <2>1, <2>2
<1> QED
  BY <1>6, <1>7, <1>9, <1>10 DEF new

\* New rows come after those there are, with the payload as given, and are redacted
\* as the setting says.
LEMMA RowsAdded ==
    ASSUME TypeOK, Cached, test # NULL, NEW n \in {0, 1}
    PROVE  /\ NewRows(n) \subseteq Row
           /\ \A row \in NewRows(n) : row.id \in (made + 1)..(made + n) /\ row.test = test.number
           /\ \A row, other \in NewRows(n) : row.id = other.id => row = other
           /\ \A k \in (made + 1)..(made + n) : \E row \in NewRows(n) : row.id = k
           /\ ~(setting = Path /\ repointed) =>
                 \A row \in NewRows(n) :
                    Shown(row.payload) = IF setting = NULL THEN RAW ELSE Named(setting)
<1> DEFINE New(i) == [id |-> made + i, test |-> test.number, payload |-> Payload(Found(setting)),
                      retries |-> 0, state |-> "due"]
<1>1. /\ Found(setting) \in Redactors \cup {NULL}
      /\ Found(setting) = Named(setting) \/ (setting = Path /\ repointed)
  <2>1. Looked(setting)[Len(Looked(setting))] \in Entries
    BY LookedUp
  <2> QED
    BY <2>1, LookedUp DEF Found, Entries
<1>2. /\ Payload(Found(setting)) \in [args : {RAW}, redacted : Redactors \cup {NULL}]
      /\ Payload(Found(setting)).redacted = Found(setting)
      /\ Payload(Found(setting)).args = RAW
  BY <1>1 DEF Payload
<1>3. NewRows(n) = {New(i) : i \in 1..n} /\ made \in Nat /\ test.number \in Nat
  BY DEF NewRows, TypeOK, Tests
<1>4. \A i \in 1..n : New(i) \in Row
  BY <1>2, <1>3 DEF Row, States
<1>5. \A i \in 1..n : /\ New(i).id = made + i /\ New(i).test = test.number
                      /\ New(i).payload = Payload(Found(setting))
  OBVIOUS
<1> HIDE DEF New
<1>6. \A i \in 1..n : made + i \in (made + 1)..(made + n)
  BY <1>3
<1>7. \A row, other \in NewRows(n) : row.id = other.id => row = other
  BY <1>3, <1>5
<1>8. \A k \in (made + 1)..(made + n) : \E row \in NewRows(n) : row.id = k
  <2> TAKE k \in (made + 1)..(made + n)
  <2>1. k - made \in 1..n /\ made + (k - made) = k
    BY <1>3
  <2> QED
    BY <2>1, <1>3, <1>5
<1>9. ~(setting = Path /\ repointed) =>
         \A row \in NewRows(n) :
            Shown(row.payload) = IF setting = NULL THEN RAW ELSE Named(setting)
  <2> HAVE ~(setting = Path /\ repointed)
  <2> TAKE row \in NewRows(n)
  <2>1. row.payload = Payload(Found(setting)) /\ Found(setting) = Named(setting)
    BY <1>1, <1>3, <1>5
  <2>2. Named(setting) = NULL <=> setting = NULL
    BY SessionAssumption DEF TypeOK, Named, Values, Objects
  <2> QED
    BY <2>1, <2>2, <1>2 DEF Shown
<1> QED
  BY <1>3, <1>4, <1>5, <1>6, <1>7, <1>8, <1>9

\* The cache stays faithful when it is used, or is not.
LEMMA StillCached ==
    ASSUME TypeOK, Cached, cache' = cache \/ cache' = Looked(setting),
           setting' = setting, target' = target, repointed' = repointed
    PROVE  Cached' /\ cache' \in Seq(Entries)
<1>1. /\ cache' \in Seq(Entries)
      /\ \A i \in 1..Len(cache') : \/ cache'[i] = Entry(setting)
                                   \/ \E j \in 1..Len(cache) : cache'[i] = cache[j]
  BY LookedUp DEF TypeOK
<1>2. \A e : Faithful(e) => Faithful(e)'
  BY DEF Faithful, Key, Named
<1>3. Faithful(Entry(setting)) /\ Entry(setting).value = setting
  BY DEF Faithful, Entry
<1>4. \A i \in 1..Len(cache') : Faithful(cache[i])'
  BY <1>1, <1>2, <1>3 DEF Cached
<1>5. Held' \subseteq Alive
  <2> SUFFICES ASSUME NEW i \in 1..Len(cache'), cache'[i].value \in Objects
               PROVE  cache'[i].value \in Alive
    BY DEF Held
  <2> QED
    BY <1>1, <1>3 DEF Alive, Held
<1>6. Alive' \subseteq Alive
  BY <1>5 DEF Alive
<1> QED
  BY <1>1, <1>4, <1>6 DEF Cached

\* One step of the tables: some rows stay, in one table or the other, some are
\* published, some are new; a row that is published and stays is one of a pass that
\* raised.
LEMMA TablesAfter ==
    ASSUME SessionInv, test # NULL,
           test' = test \/ test' = [test EXCEPT !.failed = TRUE],
           NEW stay, NEW left, NEW lost, Settles(stay, left, lost),
           NEW n \in {0, 1},
           rows' = left \cup NewRows(n), dead' = dead \cup lost, made' = made + n,
           NEW S \in SUBSET rows, rows \ stay \subseteq S,
           ~test'.failed => S \cap stay = {},
           calls' = IF test.fake THEN calls \cup CallsFor(S) ELSE calls
    PROVE  /\ rows' \subseteq Row /\ dead' \subseteq Row /\ calls' \subseteq Call
           /\ Numbered' /\ Listed' /\ Recorder' /\ Isolated' /\ RecordedAsGiven'
<1> USE DEF SessionInv, Settles
<1> DEFINE new == NewRows(n)
           more == CallsFor(S)
<1>1. made \in Nat /\ made' \in Nat /\ made <= made'
  <2>1. made \in Nat
    BY DEF TypeOK
  <2>2. n = 0 \/ n = 1
    OBVIOUS
  <2> QED
    BY <2>1, <2>2
<1>2. /\ new \subseteq Row
      /\ \A row \in new : row.id \in (made + 1)..made' /\ row.test = test.number
      /\ \A row, other \in new : row.id = other.id => row = other
      /\ \A k \in (made + 1)..made' : \E row \in new : row.id = k
  BY RowsAdded
<1>3. /\ \A row \in Stored : row.id \in 1..made
      /\ \A row, other \in Stored : row.id = other.id => row = other
      /\ rows \cap dead = {}
  BY DEF Numbered
<1>4. /\ more \subseteq Call
      /\ \A call \in more : \E row \in S : call.id = row.id
      /\ \A row \in S : \E call \in more : call.id = row.id
      /\ \A call \in more : call.app = "relay" /\ call.args = RAW
      /\ \A call, other \in more : call.id = other.id => call = other
      /\ ListedAs(calls \cup more)
  BY CallsForRows
<1>5. /\ test'.number = test.number /\ test'.outbox = test.outbox /\ test'.fake = test.fake
      /\ test'.first = test.first /\ (test.failed => test'.failed) /\ test.first \in Nat
      /\ test' # NULL
  <2>1. test \in Tests
    BY DEF TypeOK
  <2>2. test' \in Tests
    BY <2>1 DEF Tests
  <2> QED
    BY <2>1, <2>2, SessionAssumption DEF Tests
<1> HIDE DEF new, more
<1>6. rows' \subseteq Row /\ dead' \subseteq Row /\ calls' \subseteq Call
  BY <1>2, <1>4 DEF TypeOK, new, more
<1>7. Stored' = left \cup lost \cup dead \cup new
  BY DEF Stored, new
<1>8. \A row \in left \cup lost : \E r \in stay : row.id = r.id /\ row.test = r.test
  OBVIOUS
<1> DEFINE old == left \cup lost \cup dead
<1>9. \A row \in old : \E r \in Stored : row.id = r.id /\ row.test = r.test /\ r \notin S \ stay
  BY <1>3, <1>8 DEF Stored
<1>10. ASSUME NEW row \in dead, NEW other \in left \cup lost
       PROVE  row.id # other.id
  <2>1. PICK r \in stay : other.id = r.id
    BY <1>8
  <2> QED
    BY <2>1, <1>3 DEF Stored
<1>11. \A row, other \in old : row.id = other.id => row = other
  BY <1>3, <1>10 DEF Stored
<1>12. \A row \in old : row.id \in 1..made
  BY <1>3, <1>9
<1>13. \A row \in old, other \in new : row.id # other.id
  BY <1>1, <1>2, <1>12
<1>14. Numbered'
  <2>1. \A row \in old \cup new : row.id \in 1..made'
    BY <1>1, <1>2, <1>12
  <2>2. \A row, other \in old \cup new : row.id = other.id => row = other
    BY <1>2, <1>11, <1>13
  <2>3. rows' \cap dead' = {}
    BY <1>10, <1>13 DEF new
  <2> QED
    BY <2>1, <2>2, <2>3, <1>7 DEF Numbered
<1>15. Listed'
  BY <1>4 DEF Listed, more
<1>16. Recorder'
  <2>1. \A row \in S : row.id \in 0..made'
    BY <1>1, <1>3 DEF Stored
  <2>2. \A call \in calls : call.app = "relay" /\ call.id \in 0..made'
    BY <1>1 DEF Recorder
  <2> QED
    BY <2>1, <2>2, <1>4, <1>5 DEF Recorder, more
<1>17. Isolated'
  BY <1>2, <1>5, <1>7, <1>9 DEF Isolated
<1>18. RecordedAsGiven'
  <2> SUFFICES ASSUME test.outbox, test.fake
               PROVE  RecordedAsGiven'
    BY <1>5 DEF RecordedAsGiven
  <2> DEFINE Ids == {call.id : call \in calls}
             now == {call.id : call \in calls \cup more}
  <2>1. calls' = calls \cup more
    BY DEF more
  <2>2. /\ \A call \in calls : call.app = "relay" /\ call.args = RAW
        /\ test.first..made \subseteq Ids \cup {row.id : row \in Stored}
        /\ ~test.failed =>
              /\ \A call, other \in calls : call.at # other.at /\ call.id = other.id
                                            => call.id = 0
              /\ \A row \in Stored : row.id \notin Ids
    BY DEF RecordedAsGiven
  <2>3. \A call \in calls \cup more : call.app = "relay" /\ call.args = RAW
    BY <1>4, <2>2
  <2>4. \A k \in now : k \in Ids \/ \E r \in S : k = r.id
    BY <1>4
  <2>5. test.first..made' \subseteq now \cup {row.id : row \in Stored'}
    <3> SUFFICES ASSUME NEW k \in test.first..made', k \notin {row.id : row \in old \cup new}
                 PROVE  k \in now
      BY <1>7
    <3>1. k \in test.first..made
      BY <1>1, <1>2, <1>5
    <3>2. CASE k \in Ids
      BY <3>2
    <3>3. CASE k \notin Ids
      <4>1. PICK row \in Stored : row.id = k
        BY <3>1, <3>3, <2>2
      <4>2. row \in rows \ stay
        BY <4>1 DEF Stored
      <4> QED
        BY <4>1, <4>2, <1>4
    <3> QED
      BY <3>2, <3>3
  <2>6. ASSUME ~test'.failed
        PROVE  /\ \A call, other \in calls \cup more :
                     call.at # other.at /\ call.id = other.id => call.id = 0
               /\ \A row \in old \cup new : row.id \notin now
    <3>1. ~test.failed /\ S \cap stay = {}
      BY <2>6, <1>5
    <3>2. \A r \in S : r \in Stored /\ r.id \notin Ids
      BY <2>2, <3>1 DEF Stored
    <3>3. \A call \in calls, other \in more : call.id # other.id
      BY <1>4, <3>2
    <3>4. \A call, other \in calls \cup more :
             call.at # other.at /\ call.id = other.id => call.id = 0
      BY <1>4, <2>2, <3>1, <3>3
    <3>5. \A row \in old : row.id \notin now
      <4> SUFFICES ASSUME NEW row \in old, row.id \in now
                   PROVE  FALSE
        OBVIOUS
      <4>1. PICK r \in Stored : row.id = r.id /\ r \notin S \ stay
        BY <1>9
      <4>2. r.id \notin Ids
        BY <2>2, <3>1
      <4>3. PICK s \in S : row.id = s.id
        BY <4>1, <4>2, <2>4
      <4>4. r = s
        <5>1. r.id = s.id /\ r \in Stored /\ s \in Stored
          BY <4>1, <4>3, <3>2
        <5> QED
          BY <5>1, <1>3
      <4> QED
        BY <4>1, <4>3, <4>4, <3>1
    <3>6. \A row \in new : row.id \notin now
      <4>1. \A k \in now : k \in 0..made
        BY <2>4, <1>3, <1>1 DEF Recorder, Stored
      <4> QED
        BY <4>1, <1>1, <1>2
    <3> QED
      BY <3>4, <3>5, <3>6
  <2> HIDE DEF old
  <2>7. {call.id : call \in calls'} = now
    BY <2>1
  <2>8. Stored' = old \cup new
    BY <1>7 DEF old
  <2> HIDE DEF now
  <2> QED
    BY <2>1, <2>3, <2>5, <2>6, <2>7, <2>8, <1>5 DEF RecordedAsGiven
<1> QED
  BY <1>6, <1>14, <1>15, <1>16, <1>17, <1>18

-------------------------------------------------------------------------------
(* The invariant. *)

LEMMA NoEntries == <<>> \in Seq(Entries)
OBVIOUS

LEMMA InitSession == Init => SessionInv
<1> SUFFICES ASSUME Init
             PROVE  SessionInv
  OBVIOUS
<1> USE DEF Init
<1>1. TypeOK
  BY NoEntries DEF TypeOK, NoDrain
<1>2. Numbered /\ Draining /\ Recorder /\ Isolated /\ RecordedAsGiven
  BY DEF Numbered, Draining, Recorder, Isolated, RecordedAsGiven, Stored, NoDrain
<1>3. Listed
  BY FS_EmptySet DEF Listed, ListedAs
<1>4. Cached
  BY DEF Cached, Alive, Held
<1> QED
  BY <1>1, <1>2, <1>3, <1>4 DEF SessionInv

\* Steps that touch no table and no recorded call.
LEMMA QuietTables ==
    ASSUME SessionInv, test' = test, made' = made, rows' = rows, dead' = dead, calls' = calls
    PROVE  Numbered' /\ Listed' /\ Recorder' /\ Isolated' /\ RecordedAsGiven'
<1> USE DEF SessionInv
<1>1. Stored' = Stored
  BY DEF Stored
<1>2. Numbered' /\ Listed' /\ Recorder'
  BY <1>1 DEF Numbered, Listed, Recorder
<1>3. Isolated'
  BY <1>1 DEF Isolated
<1>4. RecordedAsGiven'
  BY <1>1 DEF RecordedAsGiven
<1> QED
  BY <1>2, <1>3, <1>4

\* What a fixture leaves of the cache is faithful.
LEMMA ResetCache ==
    ASSUME cache' = <<>>, setting' = setting
    PROVE  Cached'
BY DEF Cached, Alive, Held

LEMMA BeginTestSession ==
    ASSUME SessionInv, NEW outbox \in BOOLEAN, NEW fake \in BOOLEAN, BeginTest(outbox, fake)
    PROVE  SessionInv'
<1> USE DEF SessionInv, BeginTest, Reset, Wiped
<1>1. calls = {} /\ drain.pc # "pass" /\ test = NULL
  BY DEF Recorder, Draining
<1>2. test' \in Tests /\ test'.first = made + 1 /\ test'.outbox = outbox
  BY DEF TypeOK, Tests
<1>3. TypeOK'
  <2>1. tests' \in Nat
    BY DEF TypeOK
  <2>2. repointed' \in BOOLEAN /\ cache' \in Seq(Entries)
    BY NoEntries DEF TypeOK
  <2> QED
    BY <1>2, <2>1, <2>2 DEF TypeOK
<1>4. Draining'
  BY <1>1 DEF Draining
<1>5. Listed'
  BY DEF Listed
<1>6. Cached'
  <2>1. CASE outbox
    BY <2>1, ResetCache
  <2>2. CASE ~outbox
    BY <2>2, StillCached
  <2> QED
    BY <2>1, <2>2
<1>7. CASE outbox
  <2>1. Stored' = {} /\ rows' = {} /\ dead' = {}
    BY <1>7 DEF Stored
  <2>2. Numbered' /\ Isolated' /\ Recorder'
    BY <1>1, <2>1 DEF Numbered, Isolated, Recorder
  <2>3. RecordedAsGiven'
    <3>1. test'.first..made' = {}
      BY <1>2 DEF TypeOK
    <3> QED
      BY <1>1, <2>1, <3>1 DEF RecordedAsGiven
  <2> QED
    BY <1>3, <1>4, <1>5, <1>6, <2>2, <2>3
<1>8. CASE ~outbox
  <2>1. Numbered' /\ Isolated' /\ Recorder' /\ RecordedAsGiven'
    BY <1>1, <1>2, <1>8 DEF Numbered, Isolated, Recorder, RecordedAsGiven, Stored
  <2> QED
    BY <1>3, <1>4, <1>5, <1>6, <2>1
<1> QED
  BY <1>7, <1>8

LEMMA EndTestSession ==
    ASSUME SessionInv, EndTest
    PROVE  SessionInv'
<1> USE DEF SessionInv, EndTest, Reset, Wiped
<1>1. test' = NULL /\ calls' = {} /\ drain' = NoDrain
  OBVIOUS
<1>2. TypeOK'
  <2>1. rows' \subseteq Row /\ dead' \subseteq Row /\ repointed' \in BOOLEAN
        /\ cache' \in Seq(Entries)
    BY NoEntries DEF TypeOK
  <2> QED
    BY <1>1, <2>1 DEF TypeOK, NoDrain
<1>3. Draining' /\ Isolated' /\ RecordedAsGiven' /\ Recorder'
  BY <1>1 DEF Draining, Isolated, RecordedAsGiven, Recorder, NoDrain
<1>4. Listed'
  BY <1>1, FS_EmptySet DEF Listed, ListedAs
<1>5. Cached'
  <2>1. CASE test.outbox
    BY <2>1, ResetCache
  <2>2. CASE ~test.outbox
    BY <2>2, StillCached
  <2> QED
    BY <2>1, <2>2
<1>6. Numbered'
  BY DEF Numbered, Stored
<1> QED
  BY <1>2, <1>3, <1>4, <1>5, <1>6

LEMMA SetSession ==
    ASSUME SessionInv, NEW s \in Values, Set(s)
    PROVE  SessionInv'
<1> USE DEF SessionInv, Set
<1>1. TypeOK'
  BY DEF TypeOK
<1>2. Draining'
  BY DEF Draining
<1>3. Cached'
  <2>1. \A i \in 1..Len(cache') : Faithful(cache[i])'
    BY DEF Cached, Faithful, Key, Named
  <2>2. Held' = Held
    BY DEF Held
  <2>3. Alive' \subseteq Held \cup {s}
    BY <2>2 DEF Alive
  <2>4. \A o \in Held : s \in Objects => (o.address = s.address => o = s)
    OBVIOUS
  <2>5. s \in Alive' => s \in Objects
    BY <2>2 DEF Alive, Held
  <2>6. \A o, p \in Alive' : o.address = p.address => o = p
    BY <2>3, <2>4, <2>5 DEF Cached, Alive
  <2> QED
    BY <2>1, <2>6 DEF Cached
<1>4. Numbered' /\ Listed' /\ Recorder' /\ Isolated' /\ RecordedAsGiven'
  BY QuietTables
<1> QED
  BY <1>1, <1>2, <1>3, <1>4

LEMMA RepointSession ==
    ASSUME SessionInv, NEW r \in Redactors, Repoint(r)
    PROVE  SessionInv'
<1> USE DEF SessionInv, Repoint
<1>1. TypeOK'
  BY DEF TypeOK
<1>2. Draining'
  BY DEF Draining
<1>3. Cached'
  <2>1. ASSUME NEW i \in 1..Len(cache)
        PROVE  Faithful(cache[i])'
    <3>1. Faithful(cache[i])
      BY DEF Cached
    <3>2. CASE cache[i].value = Path
      <4>1. cache[i].key = Path
        BY <3>1, <3>2, SessionAssumption DEF Faithful, Key
      <4> QED
        BY <3>1, <3>2, <4>1 DEF Faithful, Key
    <3>3. CASE cache[i].value # Path
      BY <3>1, <3>3 DEF Faithful, Key, Named
    <3> QED
      BY <3>2, <3>3
  <2>2. Alive' = Alive
    BY DEF Alive, Held
  <2> QED
    BY <2>1, <2>2 DEF Cached
<1>4. Numbered' /\ Listed' /\ Recorder' /\ Isolated' /\ RecordedAsGiven'
  BY QuietTables
<1> QED
  BY <1>1, <1>2, <1>3, <1>4

LEMMA SendTaskSession ==
    ASSUME SessionInv, SendTask
    PROVE  SessionInv'
<1> USE DEF SessionInv, SendTask, Idle
<1>1. CallsFor({}) = {}
  BY DEF CallsFor
<1>2. /\ \A row, other \in rows : row.id = other.id => row = other
      /\ rows \in SUBSET Row /\ rows \subseteq Stored
  BY DEF Numbered, Stored, TypeOK
<1>3. /\ rows' \subseteq Row /\ dead' \subseteq Row /\ calls' \subseteq Call
      /\ Numbered' /\ Listed' /\ Recorder' /\ Isolated' /\ RecordedAsGiven'
  <2> DEFINE none == {}
  <2>1. none \in SUBSET rows /\ rows' = rows \cup NewRows(1) /\ dead' = dead \cup none
        /\ calls' = IF test.fake THEN calls \cup CallsFor(none) ELSE calls
    BY <1>1
  <2>2. /\ Settles(rows, rows, none)
        /\ rows \ rows \subseteq none /\ none \cap rows = {}
    BY <1>2 DEF Settles
  <2>3. 1 \in {0, 1} /\ made' = made + 1
    OBVIOUS
  <2> HIDE DEF none
  <2> QED
    BY <2>1, <2>2, <2>3, <1>2, TablesAfter
<1>4. Cached' /\ cache' \in Seq(Entries)
  BY StillCached
<1>5. TypeOK'
  BY <1>3, <1>4 DEF TypeOK
<1>6. Draining'
  BY DEF Draining
<1> QED
  BY <1>3, <1>4, <1>5, <1>6

LEMMA SetRowSession ==
    ASSUME SessionInv, NEW row \in rows, NEW state \in {"due", "unsupported"}, SetRow(row, state)
    PROVE  SessionInv'
<1> USE DEF SessionInv, SetRow, Idle
<1> DEFINE changed == [row EXCEPT !.state = state]
           left == (rows \ {row}) \cup {changed}
           none == {}
<1>1. /\ \A r, other \in rows : r.id = other.id => r = other
      /\ rows \in SUBSET Row
  BY DEF Numbered, Stored, TypeOK
<1>2. /\ changed \in Row /\ changed.id = row.id /\ changed.test = row.test
      /\ changed.payload = row.payload
  <2>1. row \in Row
    BY <1>1
  <2>2. row = [id |-> row.id, test |-> row.test, payload |-> row.payload,
               retries |-> row.retries, state |-> row.state]
    BY <2>1 DEF Row
  <2> QED
    BY <2>1, <2>2 DEF Row, States
<1>3. CallsFor(none) = {} /\ NewRows(0) = {}
  <2>1. 1..0 = {}
    OBVIOUS
  <2> QED
    BY <2>1 DEF CallsFor, NewRows
<1>4. /\ rows' \subseteq Row /\ dead' \subseteq Row /\ calls' \subseteq Call
      /\ Numbered' /\ Listed' /\ Recorder' /\ Isolated' /\ RecordedAsGiven'
  <2>1. /\ none \in SUBSET rows /\ left \in SUBSET Row /\ rows' = left \cup NewRows(0)
        /\ dead' = dead \cup none
        /\ calls' = IF test.fake THEN calls \cup CallsFor(none) ELSE calls
    BY <1>1, <1>2, <1>3
  <2> HIDE DEF changed
  <2>2. /\ Settles(rows, left, none)
        /\ rows \ rows \subseteq none /\ none \cap rows = {}
    BY <1>1, <1>2 DEF Settles
  <2>3. 0 \in {0, 1} /\ made' = made + 0
    BY DEF TypeOK
  <2> HIDE DEF none, left
  <2> QED
    BY <2>1, <2>2, <2>3, TablesAfter
<1>5. Cached' /\ cache' \in Seq(Entries)
  BY StillCached
<1>6. TypeOK'
  BY <1>4, <1>5 DEF TypeOK
<1>7. Draining'
  BY DEF Draining
<1> QED
  BY <1>4, <1>5, <1>6, <1>7

LEMMA CallSendTaskSession ==
    ASSUME SessionInv, NEW app \in {"relay", "other"}, CallSendTask(app)
    PROVE  SessionInv'
<1> USE DEF SessionInv, CallSendTask, Idle, Recorded
<1> DEFINE call == [at |-> Cardinality(calls), app |-> app, id |-> 0, args |-> RAW]
<1>1. CASE app = "relay"
  <2>1. calls' = calls \cup {call}
    BY <1>1
  <2>2. IsFiniteSet(calls) /\ Cardinality(calls) \in Nat
    BY FS_CardinalityType DEF Listed, ListedAs
  <2>3. call \in Call /\ call.at = Cardinality(calls) /\ call.id = 0 /\ call.app = "relay"
        /\ call.args = RAW
    BY <1>1, <2>2 DEF Call
  <2>4. \A other \in calls : other.at \in Nat /\ other.at < Cardinality(calls)
    BY DEF Listed, ListedAs, TypeOK, Call
  <2> HIDE DEF call
  <2>5. call \notin calls
    BY <2>2, <2>3, <2>4
  <2>6. IsFiniteSet(calls') /\ Cardinality(calls') = Cardinality(calls) + 1
    BY <2>1, <2>2, <2>5, FS_AddElement
  <2>7. Listed'
    <3>1. \A other \in calls' : other.at < Cardinality(calls')
      BY <2>1, <2>2, <2>3, <2>4, <2>6
    <3>2. \A one, other \in calls' : one.at = other.at => one = other
      BY <2>1, <2>2, <2>3, <2>4 DEF Listed, ListedAs
    <3> QED
      BY <2>6, <3>1, <3>2 DEF Listed, ListedAs
  <2>8. Recorder'
    BY <2>1, <2>3 DEF Recorder, TypeOK
  <2>9. Stored' = Stored
    BY DEF Stored
  <2>10. Numbered' /\ Isolated' /\ Draining'
    BY <2>9 DEF Numbered, Isolated, Draining
  <2>11. RecordedAsGiven'
    <3> SUFFICES ASSUME test.outbox, test.fake
                 PROVE  RecordedAsGiven'
      BY DEF RecordedAsGiven
    <3> DEFINE Ids == {c.id : c \in calls}
               now == {c.id : c \in calls'}
    <3>1. now = Ids \cup {0}
      BY <2>1, <2>3
    <3>2. /\ \A c \in calls : c.app = "relay" /\ c.args = RAW
          /\ test.first..made \subseteq Ids \cup {row.id : row \in Stored}
          /\ ~test.failed =>
                /\ \A c, other \in calls : c.at # other.at /\ c.id = other.id => c.id = 0
                /\ \A row \in Stored : row.id \notin Ids
      BY DEF RecordedAsGiven
    <3>3. \A row \in Stored : row.id # 0
      BY DEF Numbered, TypeOK
    <3>4. \A c \in calls' : c.app = "relay" /\ c.args = RAW
      BY <3>2, <2>1, <2>3
    <3>5. test.first..made \subseteq now \cup {row.id : row \in Stored}
      BY <3>1, <3>2
    <3>6. ~test.failed => \A c, other \in calls' : c.at # other.at /\ c.id = other.id => c.id = 0
      BY <3>2, <2>1, <2>3
    <3>7. ~test.failed => \A row \in Stored : row.id \notin now
      BY <3>1, <3>2, <3>3
    <3> HIDE DEF Ids
    <3> QED
      BY <3>4, <3>5, <3>6, <3>7, <2>9 DEF RecordedAsGiven
  <2>12. Cached'
    BY StillCached
  <2>13. TypeOK'
    BY <2>1, <2>3 DEF TypeOK
  <2> QED
    BY <2>7, <2>8, <2>10, <2>11, <2>12, <2>13
<1>2. CASE app # "relay"
  <2>1. calls' = calls
    BY <1>2
  <2>2. TypeOK' /\ Draining' /\ Cached'
    BY <2>1, StillCached DEF TypeOK, Draining
  <2> QED
    BY <2>1, <2>2, QuietTables
<1> QED
  BY <1>1, <1>2

LEMMA DrainSession ==
    ASSUME SessionInv, DrainOutbox
    PROVE  SessionInv'
<1> USE DEF SessionInv, DrainOutbox, Idle
<1>1. IsFiniteSet(rows) /\ Cardinality(rows) \in Nat
  BY RowsFinite, FS_CardinalityType
<1>2. TypeOK'
  BY <1>1 DEF TypeOK
<1>3. Draining'
  BY DEF Draining
<1>4. Cached'
  BY StillCached
<1> QED
  BY <1>2, <1>3, <1>4, QuietTables

\* What a pass does to the tables and to the recorder.
LEMMA PassTables ==
    ASSUME SessionInv, test # NULL,
           NEW failed \in SUBSET Batch, NEW deferred \in SUBSET (Batch \ failed), NEW n \in {0, 1},
           NEW S \in SUBSET Batch,
           \/ test' = test /\ S = Batch \ (failed \cup deferred)
           \/ test' = [test EXCEPT !.failed = TRUE] /\ failed = {} /\ deferred = Batch,
           rows' = Left(failed, deferred) \cup NewRows(n),
           dead' = dead \cup {f \in failed : Exhausted(f)},
           made' = made + n,
           calls' = IF test.fake THEN calls \cup CallsFor(S) ELSE calls
    PROVE  /\ rows' \subseteq Row /\ dead' \subseteq Row /\ calls' \subseteq Call
           /\ Numbered' /\ Listed' /\ Recorder' /\ Isolated' /\ RecordedAsGiven'
<1> USE DEF SessionInv
<1> DEFINE left == Left(failed, deferred)
           lost == {f \in failed : Exhausted(f)}
           stay == rows \ (Batch \ (failed \cup deferred))
<1>1. Batch \subseteq rows
  BY DEF Batch
<1>2. Settles(stay, left, lost)
  BY SettledRows
<1>3. stay \subseteq rows /\ S \subseteq rows /\ rows \ stay \subseteq S
  BY <1>1
<1>4. test' = test \/ test' = [test EXCEPT !.failed = TRUE]
  OBVIOUS
<1>5. ~test'.failed => S \cap stay = {}
  <2>1. test' = [test EXCEPT !.failed = TRUE] => test'.failed
    BY DEF TypeOK, Tests
  <2> QED
    BY <2>1
<1>6. rows' = left \cup NewRows(n) /\ dead' = dead \cup lost
  OBVIOUS
<1> HIDE DEF left, lost, stay
<1> QED
  BY <1>2, <1>3, <1>4, <1>5, <1>6, TablesAfter

LEMMA PassCases ==
    ASSUME Pass
    PROVE  \E failed \in SUBSET Batch, deferred \in SUBSET Batch, added \in {0, 1} :
              deferred \in SUBSET (Batch \ failed) /\ PassWith(failed, deferred, added)
<1>1. PICK failed \in SUBSET Batch :
         \E deferred \in SUBSET (Batch \ failed) :
            \E added \in FollowUps(Batch \ deferred) : PassWith(failed, deferred, added)
  BY DEF Pass
<1>2. PICK deferred \in SUBSET (Batch \ failed) :
         \E added \in FollowUps(Batch \ deferred) : PassWith(failed, deferred, added)
  BY <1>1
<1>3. PICK added \in {0, 1} : PassWith(failed, deferred, added)
  BY <1>2 DEF FollowUps
<1> QED
  BY <1>3

LEMMA PassSession ==
    ASSUME SessionInv, Pass
    PROVE  SessionInv'
<1> USE DEF SessionInv
<1>0. PICK failed \in SUBSET Batch, deferred \in SUBSET Batch, added \in {0, 1} :
         deferred \in SUBSET (Batch \ failed) /\ PassWith(failed, deferred, added)
  BY PassCases
<1>1. /\ drain.pc = "pass"
      /\ rows' = Left(failed, deferred) \cup NewRows(added)
      /\ made' = made + added
      /\ cache' = IF added = 0 THEN cache ELSE Looked(setting)
      /\ dead' = dead \cup {f \in failed : Exhausted(f)}
      /\ calls' = IF test.fake THEN calls \cup CallsFor(Batch \ (failed \cup deferred)) ELSE calls
      /\ drain' = IF rows' = {} THEN NoDrain
                  ELSE IF ~Progress(drain.before, Cardinality(rows'))
                       THEN [NoDrain EXCEPT !.pc = "gaveup"]
                  ELSE [pc |-> "pass", before |-> Cardinality(rows'),
                        added |-> drain.added \/ added > 0]
      /\ UNCHANGED <<test, tests, setting, target, repointed, changes>>
  BY <1>0 DEF PassWith
<1>2. test # NULL /\ test.outbox
  BY <1>1 DEF Draining
<1>3. /\ rows' \subseteq Row /\ dead' \subseteq Row /\ calls' \subseteq Call
      /\ Numbered' /\ Listed' /\ Recorder' /\ Isolated' /\ RecordedAsGiven'
  <2> DEFINE S == Batch \ (failed \cup deferred)
  <2>1. S \in SUBSET Batch /\ test' = test /\ S = Batch \ (failed \cup deferred)
        /\ calls' = IF test.fake THEN calls \cup CallsFor(S) ELSE calls
    BY <1>1
  <2>2. /\ rows' = Left(failed, deferred) \cup NewRows(added)
        /\ made' = made + added
        /\ dead' = dead \cup {f \in failed : Exhausted(f)}
    BY <1>1
  <2>3. deferred \in SUBSET (Batch \ failed)
    BY <1>0
  <2> HIDE DEF S, SessionInv
  <2> QED
    BY <1>2, <2>1, <2>2, <2>3, PassTables
<1>4. Cached' /\ cache' \in Seq(Entries)
  BY <1>1, StillCached
<1>5. made' \in Nat
  BY <1>1 DEF TypeOK
<1>6. Cardinality(rows') \in Nat
  BY <1>3, <1>5, NumberedFinite, FS_CardinalityType DEF Numbered, Stored
<1>7. drain' \in [pc : {"idle", "pass", "gaveup"}, before : Nat, added : BOOLEAN]
  BY <1>1, <1>6 DEF NoDrain, TypeOK
<1>8. Draining'
  BY <1>1, <1>2 DEF Draining, NoDrain
<1>9. TypeOK'
  BY <1>1, <1>3, <1>4, <1>5, <1>7 DEF TypeOK
<1> QED
  BY <1>3, <1>4, <1>8, <1>9

LEMMA PassRaisesSession ==
    ASSUME SessionInv, PassRaises
    PROVE  SessionInv'
<1> USE DEF SessionInv, PassRaises
<1>1. test # NULL /\ test \in Tests
  BY DEF Draining, TypeOK
<1>2. PICK S \in SUBSET Batch : calls' = IF test.fake THEN calls \cup CallsFor(S) ELSE calls
  OBVIOUS
<1>3. PICK n \in {0, 1} : /\ rows' = Left({}, Batch) \cup NewRows(n)
                          /\ made' = made + n
                          /\ cache' = IF n = 0 THEN cache ELSE Looked(setting)
  BY DEF FollowUps
<1>4. /\ rows' \subseteq Row /\ dead' \subseteq Row /\ calls' \subseteq Call
      /\ Numbered' /\ Listed' /\ Recorder' /\ Isolated' /\ RecordedAsGiven'
  <2> DEFINE none == {}
             all == Batch
  <2>1. /\ none \in SUBSET Batch /\ all \in SUBSET (Batch \ none)
        /\ rows' = Left(none, all) \cup NewRows(n) /\ none = {} /\ all = Batch
        /\ dead' = dead \cup {f \in none : Exhausted(f)}
        /\ test' = [test EXCEPT !.failed = TRUE]
    BY <1>3
  <2> HIDE DEF none, all, SessionInv
  <2> QED
    BY <1>1, <1>2, <1>3, <2>1, PassTables
<1>5. Cached' /\ cache' \in Seq(Entries)
  BY <1>3, StillCached
<1>6. Draining'
  BY DEF Draining, NoDrain
<1>7. TypeOK'
  <2>1. test' \in Tests
    BY <1>1 DEF Tests
  <2> QED
    BY <1>3, <1>5, <1>4, <2>1 DEF TypeOK, NoDrain
<1> QED
  BY <1>5, <1>6, <1>7, <1>4

LEMMA NextSession == SessionInv /\ [Next]_vars => SessionInv'
<1> SUFFICES ASSUME SessionInv, [Next]_vars
             PROVE  SessionInv'
  OBVIOUS
<1>1. ASSUME NEW f \in Fixtures, BeginTest(f[1], f[2])
      PROVE  SessionInv'
  BY <1>1, BeginTestSession, SessionAssumption
<1>2. CASE UNCHANGED vars
  <2>1. TypeOK' /\ Draining' /\ Cached'
    BY <1>2, StillCached DEF vars, TypeOK, Draining, SessionInv
  <2> QED
    BY <1>2, <2>1, QuietTables DEF vars, SessionInv
<1> QED
  BY <1>1, <1>2, EndTestSession, SetSession, RepointSession, SendTaskSession, SetRowSession,
     CallSendTaskSession, DrainSession, PassSession, PassRaisesSession DEF Next

\* The invariant of a session.
THEOREM SessionInvariance == Spec => []SessionInv
<1>1. Init => SessionInv
  BY InitSession
<1>2. SessionInv /\ [Next]_vars => SessionInv'
  BY NextSession
<1> QED
  BY <1>1, <1>2, PTL DEF Spec

\* A test with the fixture finds no row and no dead letter of another test.
THEOREM TestsAreIsolated == Spec => []Isolated
BY SessionInvariance, PTL DEF SessionInv

\* The recorder holds what was published, as it was given, and once unless a pass
\* raised; no row of the test vanishes.  The order of the calls is left open.
THEOREM RecorderIsTrue == Spec => []RecordedAsGiven
BY SessionInvariance, PTL DEF SessionInv

-------------------------------------------------------------------------------
(* What a step may do. *)

\* A row that was there before a step is there after it under the same id; others
\* are those send_task adds.
LEMMA NewOnesAreAdded ==
    ASSUME SessionInv, Next, NEW row \in rows', row.id > made
    PROVE  /\ test # NULL
           /\ \E n \in {0, 1} : row \in NewRows(n)
<1> USE DEF SessionInv
<1>1. \A r \in rows : r.id \in Nat /\ ~(r.id > made)
  BY DEF Numbered, Stored, TypeOK
<1>2. ~(rows' \subseteq rows)
  BY <1>1
<1>3. ASSUME NEW f \in Fixtures, BeginTest(f[1], f[2])
      PROVE  FALSE
  BY <1>2, <1>3 DEF BeginTest, Reset, Wiped
<1>4. CASE EndTest
  BY <1>2, <1>4 DEF EndTest, Reset, Wiped
<1>5. ASSUME NEW s \in Values, Set(s)
      PROVE  FALSE
  BY <1>2, <1>5 DEF Set
<1>6. ASSUME NEW r \in Redactors, Repoint(r)
      PROVE  FALSE
  BY <1>2, <1>6 DEF Repoint
<1>7. CASE SendTask
  <2>1. row \in NewRows(1)
    BY <1>1, <1>7 DEF SendTask
  <2> QED
    BY <1>7, <2>1 DEF SendTask, Idle
<1>8. ASSUME NEW r \in rows, NEW state \in {"due", "unsupported"}, SetRow(r, state)
      PROVE  FALSE
  <2>1. row = [r EXCEPT !.state = state]
    BY <1>1, <1>8 DEF SetRow
  <2>2. row.id = r.id
    BY <2>1 DEF TypeOK, Row
  <2> QED
    BY <1>1, <2>2
<1>9. ASSUME NEW app \in {"relay", "other"}, CallSendTask(app)
      PROVE  FALSE
  BY <1>2, <1>9 DEF CallSendTask
<1>10. CASE DrainOutbox
  BY <1>2, <1>10 DEF DrainOutbox
<1>11. ASSUME NEW failed \in SUBSET Batch, NEW deferred \in SUBSET (Batch \ failed),
              row \in Left(failed, deferred)
       PROVE  FALSE
  <2>1. PICK r \in rows : row.id = r.id
    BY <1>11, SettledRows DEF Settles
  <2> QED
    BY <1>1, <2>1
<1>12. CASE Pass
  <2>1. test # NULL
    BY <1>12, PassCases DEF PassWith, Draining
  <2>2. PICK failed \in SUBSET Batch, deferred \in SUBSET Batch, n \in {0, 1} :
           /\ deferred \in SUBSET (Batch \ failed)
           /\ rows' = Left(failed, deferred) \cup NewRows(n)
    BY <1>12, PassCases DEF PassWith
  <2> QED
    BY <1>11, <2>1, <2>2
<1>13. CASE PassRaises
  <2> DEFINE none == {}
             all == Batch
  <2>1. none \in SUBSET Batch /\ all \in SUBSET (Batch \ none)
    OBVIOUS
  <2>2. PICK n \in {0, 1} : row \in Left(none, all) \cup NewRows(n)
    BY <1>13 DEF PassRaises, FollowUps
  <2>3. test # NULL
    BY <1>13 DEF PassRaises, Draining
  <2> HIDE DEF none, all
  <2> QED
    BY <1>11, <2>1, <2>2, <2>3
<1> QED
  BY <1>3, <1>4, <1>5, <1>6, <1>7, <1>8, <1>9, <1>10, <1>12, <1>13 DEF Next

\* A row shows what the redactor of the setting made of its payload, whatever the
\* cache holds: no object that was put at the address of an earlier one, no test
\* before this one, and no eviction has another redactor used.
THEOREM RowsAreRedacted == Spec => RedactedAsSet
<1>1. ASSUME SessionInv, Next,
             NEW row \in rows', row.id > made, ~(setting = Path /\ repointed)
      PROVE  Shown(row.payload) = IF setting = NULL THEN RAW ELSE Named(setting)
  <2>1. PICK n \in {0, 1} : test # NULL /\ row \in NewRows(n)
    BY <1>1, NewOnesAreAdded
  <2> QED
    BY <1>1, <2>1, RowsAdded DEF SessionInv
<1>2. SessionInv /\ [Next]_vars =>
         [\A row \in rows' :
             row.id > made /\ ~(setting = Path /\ repointed) =>
                 Shown(row.payload) = IF setting = NULL THEN RAW ELSE Named(setting)]_vars
  BY <1>1
<1> QED
  BY <1>2, SessionInvariance, PTL DEF Spec, RedactedAsSet

\* A pass over rows that are due takes one at least.
LEMMA BatchTakesOne ==
    ASSUME SessionInv, NEW row \in rows, row.state = "due"
    PROVE  Batch # {}
<1> DEFINE due == {r \in rows : r.state = "due"}
           Ids == {r.id : r \in due}
<1>1. \A r \in due : r.id \in Nat
  BY DEF SessionInv, TypeOK, Row
<1>2. Ids \in SUBSET Nat /\ Ids # {}
  BY <1>1
<1>3. PICK m \in Ids : \A k \in Ids : <<k, m>> \notin OpToRel(<, Nat)
  BY <1>2, NatLessThanWellFounded, WFMin
<1>4. PICK r \in due : r.id = m
  BY <1>3
<1>5. \A other \in due : ~(other.id < r.id)
  BY <1>1, <1>3, <1>4 DEF OpToRel
<1>6. {other \in due : other.id < r.id} = {}
  BY <1>5
<1>7. Cardinality({other \in due : other.id < r.id}) < BatchSize
  BY <1>6, FS_EmptySet, SessionAssumption
<1> QED
  BY <1>4, <1>7 DEF Batch

\* A drain gives up on rows that failed, wait or are of another schema version, or
\* because receivers kept adding rows: never on rows the relay could have sent.
THEOREM GivesUpWithCause == Spec => GivesUpForCause
<1>1. ASSUME SessionInv, Next, drain.pc = "pass", drain'.pc = "gaveup", made' = made,
             \A row \in rows' : row.state = "due"
      PROVE  FALSE
  <2> USE DEF SessionInv
  <2>1. Pass
    <3>1. ~Idle /\ drain' # drain
      BY <1>1 DEF Idle
    <3>2. ~PassRaises
      BY <1>1 DEF PassRaises, NoDrain
    <3>3. ~\E f \in Fixtures : BeginTest(f[1], f[2])
      BY <3>1 DEF BeginTest
    <3>4. ~\E s \in Values : Set(s)
      BY <3>1 DEF Set
    <3>5. ~\E r \in Redactors : Repoint(r)
      BY <3>1 DEF Repoint
    <3>6. ~\E row \in rows, state \in {"due", "unsupported"} : SetRow(row, state)
      BY <3>1 DEF SetRow
    <3>7. ~\E app \in {"relay", "other"} : CallSendTask(app)
      BY <3>1 DEF CallSendTask
    <3>8. ~EndTest /\ ~SendTask /\ ~DrainOutbox
      BY <3>1 DEF EndTest, SendTask, DrainOutbox
    <3> QED
      BY <1>1, <3>2, <3>3, <3>4, <3>5, <3>6, <3>7, <3>8 DEF Next
  <2>2. PICK failed \in SUBSET Batch, deferred \in SUBSET Batch, added \in {0, 1} :
           /\ deferred \in SUBSET (Batch \ failed)
           /\ rows' = Left(failed, deferred) \cup NewRows(added)
           /\ made' = made + added
           /\ drain' = IF rows' = {} THEN NoDrain
                       ELSE IF ~Progress(drain.before, Cardinality(rows'))
                            THEN [NoDrain EXCEPT !.pc = "gaveup"]
                       ELSE [pc |-> "pass", before |-> Cardinality(rows'),
                             added |-> drain.added \/ added > 0]
    BY <2>1, PassCases DEF PassWith
  <2>3. rows' # {} /\ ~(Cardinality(rows') < Cardinality(rows))
    BY <1>1, <2>2 DEF NoDrain, Progress, Draining
  <2>4. added = 0 /\ NewRows(added) = {}
    <3>1. added = 0
      BY <1>1, <2>2 DEF TypeOK
    <3>2. 1..0 = {}
      OBVIOUS
    <3> QED
      BY <3>1, <3>2 DEF NewRows
  <2>5. \A row \in Left(failed, deferred) : row.state = "due"
    BY <1>1, <2>2
  <2>6. \A r \in rows : [r EXCEPT !.state = "waiting"].state = "waiting"
                        /\ [r EXCEPT !.state = "waiting", !.retries = @ + 1].state = "waiting"
    BY <1>1 DEF TypeOK, Row
  <2>7. Batch \subseteq rows
    BY DEF Batch
  <2>8. deferred = {} /\ {f \in failed : ~Exhausted(f)} = {}
    <3>1. \A r \in deferred : [r EXCEPT !.state = "waiting"] \in Left(failed, deferred)
      BY DEF Left
    <3>2. \A r \in {f \in failed : ~Exhausted(f)} :
             [r EXCEPT !.state = "waiting", !.retries = @ + 1] \in Left(failed, deferred)
      BY DEF Left
    <3> QED
      BY <3>1, <3>2, <2>5, <2>6, <2>7
  <2>9. rows' = rows \ Batch
    BY <2>2, <2>4, <2>8 DEF Left
  <2>10. Batch # {}
    <3>1. PICK row \in rows' : row.state = "due"
      BY <1>1, <2>3
    <3> QED
      BY <1>1, <2>9, <3>1, BatchTakesOne
  <2>11. IsFiniteSet(rows)
    BY <1>1, RowsFinite
  <2>12. rows' \in SUBSET rows /\ rows' # rows
    BY <2>7, <2>9, <2>10
  <2>13. Cardinality(rows') <= Cardinality(rows) /\ Cardinality(rows') # Cardinality(rows)
    BY <2>11, <2>12, FS_Subset
  <2>14. Cardinality(rows') \in Nat /\ Cardinality(rows) \in Nat
    BY <2>11, <2>12, FS_Subset, FS_CardinalityType
  <2> QED
    BY <2>3, <2>13, <2>14
<1>2. ASSUME SessionInv, Next
      PROVE  made' = made \/ made' > made
  <2>1. made \in Nat
    BY <1>2 DEF SessionInv, TypeOK
  <2>2. made' = made \/ made' = made + 1 \/ Pass \/ PassRaises
    BY <1>2 DEF Next, BeginTest, EndTest, Set, Repoint, SendTask, SetRow, CallSendTask,
                DrainOutbox
  <2>3. Pass \/ PassRaises => \E n \in {0, 1} : made' = made + n
    BY PassCases DEF PassWith, PassRaises, FollowUps
  <2> QED
    BY <2>1, <2>2, <2>3
<1>3. SessionInv /\ [Next]_vars =>
         [drain.pc = "pass" /\ drain'.pc = "gaveup" =>
             drain.added \/ made' > made \/ \E row \in rows' : row.state # "due"]_vars
  BY <1>1, <1>2
<1> QED
  BY <1>3, SessionInvariance, PTL DEF Spec, GivesUpForCause
===============================================================================
