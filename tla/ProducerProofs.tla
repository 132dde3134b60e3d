---------------------------- MODULE ProducerProofs -----------------------------
(***************************************************************************)
(* What the producer's transactions send and count, and what becomes of    *)
(* the options of a call, for any calls, options and depth of nesting.     *)
(***************************************************************************)
EXTENDS Producer, SequenceTheorems, FiniteSetTheorems, TLAPS

Hooks == Seq(Calls \cup {OWN})
Blocks == [rows : SUBSET Calls, hooks : Hooks]

\* A callback is in the block of its row, and a row in one block.
StackOK ==
    /\ stack \in Seq(Blocks)
    /\ \A i \in 1..Len(stack) : Members(stack[i].hooks) \ {OWN} = stack[i].rows
    /\ \A i, j \in 1..Len(stack) : stack[i].rows \cap stack[j].rows # {} => i = j

\* The calls whose callback comes after one of the caller's own were made behind it.
InOrder(hooks, B) == \A i, j \in 1..Len(hooks) :
                         i < j /\ hooks[i] = OWN => hooks[j] \in B \cup {OWN}

HooksInOrder ==
    /\ \A i \in 1..Len(stack) : InOrder(stack[i].hooks, behind)
    /\ \A i, j \in 1..Len(stack) :
          i < j /\ OWN \in Members(stack[i].hooks)
              => Members(stack[j].hooks) \subseteq behind \cup {OWN}
    /\ InOrder(due, behind)

\* A call that was not made has left no trace.
Fresh == \A c \in Calls : made[c] = NULL =>
             /\ c \notin AllRows \cup committed \cup undone
             /\ sent[c] = NULL

\* A row is pending in an open block, committed, or undone: one of the three.
Separate == /\ AllRows \cap (committed \cup undone) = {}
            /\ committed \cap undone = {}

Types == /\ now \in Nat
         /\ made \in [Calls -> [request : Requests, at : Nat] \cup {NULL}]
         /\ DOMAIN row = Calls /\ row = [c \in Calls |-> row[c]]
         /\ DOMAIN sent = Calls /\ sent = [c \in Calls |-> sent[c]]
         /\ committed \subseteq Calls
         /\ due \in Hooks
         /\ Members(due) \subseteq committed \cup {OWN}
         /\ counted \subseteq committed

SentOnly == \A c \in Calls : sent[c] # NULL /\ ~Excluded(c) => c \in committed

AllCounted == committed \subseteq counted \cup failed \cup lost \cup behind \cup Members(due)

\* What makes OnlyCommittedSent and CountedAreCommitted inductive.
ProducerInv == /\ Types /\ StackOK /\ HooksInOrder /\ Fresh /\ Separate
               /\ SentOnly /\ AllCounted

-------------------------------------------------------------------------------
(* Lists of callbacks. *)

LEMMA NoMembers == Members(<<>>) = {}
BY DEF Members

LEMMA AppendMembers ==
    ASSUME NEW s \in Hooks, NEW x \in Calls \cup {OWN}
    PROVE  Append(s, x) \in Hooks /\ Members(Append(s, x)) = Members(s) \cup {x}
<1>1. /\ Append(s, x) \in Hooks /\ Len(s) \in Nat /\ Len(Append(s, x)) = Len(s) + 1
      /\ \A i \in 1..Len(s) : Append(s, x)[i] = s[i]
      /\ Append(s, x)[Len(s) + 1] = x
  BY DEF Hooks
<1>2. \A i \in 1..(Len(s) + 1) : i \in 1..Len(s) \/ i = Len(s) + 1
  BY <1>1
<1>3. \A i \in 1..Len(s) : i \in 1..(Len(s) + 1)
  BY <1>1
<1>4. Len(s) + 1 \in 1..(Len(s) + 1)
  BY <1>1
<1> QED
  BY <1>1, <1>2, <1>3, <1>4 DEF Members

LEMMA ConcatMembers ==
    ASSUME NEW s \in Hooks, NEW t \in Hooks
    PROVE  s \o t \in Hooks /\ Members(s \o t) = Members(s) \cup Members(t)
<1>1. /\ s \o t \in Hooks /\ Len(s) \in Nat /\ Len(t) \in Nat
      /\ Len(s \o t) = Len(s) + Len(t)
      /\ \A i \in 1..(Len(s) + Len(t)) : (s \o t)[i] = IF i <= Len(s) THEN s[i] ELSE t[i - Len(s)]
  BY DEF Hooks
<1>2. \A i \in 1..(Len(s) + Len(t)) : i \in 1..Len(s) \/ i - Len(s) \in 1..Len(t)
  BY <1>1
<1>3. \A i \in 1..Len(s) : i \in 1..(Len(s) + Len(t)) /\ i <= Len(s)
  BY <1>1
<1>4. \A i \in 1..Len(t) : /\ Len(s) + i \in 1..(Len(s) + Len(t))
                           /\ ~(Len(s) + i <= Len(s)) /\ (Len(s) + i) - Len(s) = i
  BY <1>1
<1>5. \A x \in Members(s \o t) : x \in Members(s) \cup Members(t)
  BY <1>1, <1>2 DEF Members
<1>6. \A x \in Members(s) : x \in Members(s \o t)
  BY <1>1, <1>3 DEF Members
<1>7. \A x \in Members(t) : x \in Members(s \o t)
  BY <1>1, <1>4 DEF Members
<1> QED
  BY <1>1, <1>5, <1>6, <1>7

LEMMA HeadAndTail ==
    ASSUME NEW s \in Hooks, s # <<>>
    PROVE  /\ Tail(s) \in Hooks /\ Len(s) \in Nat \ {0} /\ Len(Tail(s)) = Len(s) - 1
           /\ Head(s) = s[1] /\ \A i \in 1..(Len(s) - 1) : Tail(s)[i] = s[i + 1]
           /\ Members(s) = {Head(s)} \cup Members(Tail(s))
<1>1. /\ Tail(s) \in Hooks /\ Len(s) \in Nat \ {0} /\ Len(Tail(s)) = Len(s) - 1
      /\ Head(s) = s[1] /\ \A i \in 1..(Len(s) - 1) : Tail(s)[i] = s[i + 1]
  BY HeadTailProperties, EmptySeq, LenProperties DEF Hooks
<1>2. \A i \in 1..Len(s) : i = 1 \/ (i - 1 \in 1..(Len(s) - 1) /\ i = (i - 1) + 1)
  BY <1>1
<1>3. 1 \in 1..Len(s) /\ \A i \in 1..(Len(s) - 1) : i + 1 \in 1..Len(s)
  BY <1>1
<1>4. \A x \in Members(s) : x = Head(s) \/ x \in Members(Tail(s))
  BY <1>1, <1>2 DEF Members
<1>5. Head(s) \in Members(s) /\ \A x \in Members(Tail(s)) : x \in Members(s)
  BY <1>1, <1>3 DEF Members
<1> QED
  BY <1>1, <1>4, <1>5

\* Another callback at the end: the caller's own, or a call's that is behind it if one is.
LEMMA OneMoreInOrder ==
    ASSUME NEW s \in Hooks, NEW x \in Calls \cup {OWN}, NEW A, NEW B, A \subseteq B,
           InOrder(s, A), x # OWN /\ OWN \in Members(s) => x \in B
    PROVE  InOrder(Append(s, x), B)
<1>1. /\ Len(s) \in Nat /\ Len(Append(s, x)) = Len(s) + 1
      /\ \A i \in 1..Len(s) : Append(s, x)[i] = s[i]
      /\ Append(s, x)[Len(s) + 1] = x
  BY DEF Hooks
<1> SUFFICES ASSUME NEW i \in 1..(Len(s) + 1), NEW j \in 1..(Len(s) + 1), i < j,
                    Append(s, x)[i] = OWN
             PROVE  Append(s, x)[j] \in B \cup {OWN}
  BY <1>1 DEF InOrder
<1>2. i \in 1..Len(s) /\ s[i] = OWN /\ (j \in 1..Len(s) \/ j = Len(s) + 1)
  BY <1>1
<1>3. CASE j \in 1..Len(s)
  BY <1>1, <1>2, <1>3 DEF InOrder
<1>4. CASE j = Len(s) + 1
  BY <1>1, <1>2, <1>4 DEF Members
<1> QED
  BY <1>2, <1>3, <1>4

LEMMA JoinedInOrder ==
    ASSUME NEW s \in Hooks, NEW t \in Hooks, NEW B, InOrder(s, B), InOrder(t, B),
           OWN \in Members(s) => Members(t) \subseteq B \cup {OWN}
    PROVE  InOrder(s \o t, B)
<1>1. /\ Len(s) \in Nat /\ Len(t) \in Nat /\ Len(s \o t) = Len(s) + Len(t)
      /\ \A i \in 1..(Len(s) + Len(t)) : (s \o t)[i] = IF i <= Len(s) THEN s[i] ELSE t[i - Len(s)]
  BY DEF Hooks
<1> SUFFICES ASSUME NEW i \in 1..(Len(s) + Len(t)), NEW j \in 1..(Len(s) + Len(t)), i < j,
                    (s \o t)[i] = OWN
             PROVE  (s \o t)[j] \in B \cup {OWN}
  BY <1>1 DEF InOrder
<1>2. CASE j <= Len(s)
  <2>1. i \in 1..Len(s) /\ j \in 1..Len(s) /\ i <= Len(s)
    BY <1>1, <1>2
  <2> QED
    BY <1>1, <1>2, <2>1 DEF InOrder
<1>3. CASE i <= Len(s) /\ ~(j <= Len(s))
  <2>1. i \in 1..Len(s) /\ j - Len(s) \in 1..Len(t)
    BY <1>1, <1>3
  <2>2. s[i] = OWN /\ (s \o t)[j] = t[j - Len(s)]
    BY <1>1, <1>3
  <2> QED
    BY <2>1, <2>2 DEF Members
<1>4. CASE ~(i <= Len(s))
  <2>1. /\ i - Len(s) \in 1..Len(t) /\ j - Len(s) \in 1..Len(t) /\ i - Len(s) < j - Len(s)
        /\ ~(j <= Len(s))
    BY <1>1, <1>4
  <2>2. t[i - Len(s)] = OWN /\ (s \o t)[j] = t[j - Len(s)]
    BY <1>1, <1>4, <2>1
  <2> QED
    BY <2>1, <2>2 DEF InOrder
<1>5. i <= Len(s) \/ ~(i <= Len(s))
  OBVIOUS
<1> QED
  BY <1>2, <1>3, <1>4, <1>5

-------------------------------------------------------------------------------
(* The stack of blocks. *)

LEMMA BelowIs ==
    ASSUME StackOK, InAtomicBlock
    PROVE  /\ Len(stack) \in Nat \ {0}
           /\ Below \in Seq(Blocks)
           /\ Len(Below) = Len(stack) - 1
           /\ \A i \in 1..(Len(stack) - 1) : Below[i] = stack[i]
           /\ Top \in Blocks
<1>1. Len(stack) \in Nat \ {0} /\ \A i \in 1..Len(stack) : stack[i] \in Blocks
  BY EmptySeq, LenProperties DEF StackOK, InAtomicBlock
<1>2. \A i \in 1..(Len(stack) - 1) : stack[i] \in Blocks
  BY <1>1
<1>3. /\ Below \in Seq(Blocks)
      /\ Len(Below) = Len(stack) - 1
      /\ \A i \in 1..(Len(stack) - 1) : Below[i] = stack[i]
  <2> DEFINE n == Len(stack) - 1
  <2>1. n \in Int /\ 1 \in Int /\ \A i \in 1..n : stack[i] \in Blocks
    BY <1>1, <1>2
  <2> HIDE DEF n
  <2>2. /\ SubSeq(stack, 1, n) \in Seq(Blocks)
        /\ Len(SubSeq(stack, 1, n)) = IF 1 <= n THEN n - 1 + 1 ELSE 0
        /\ \A i \in 1..(n - 1 + 1) : SubSeq(stack, 1, n)[i] = stack[1 + i - 1]
    BY <2>1, SubSeqProperties
  <2>3. n \in Nat /\ n - 1 + 1 = n /\ \A i \in 1..n : 1 + i - 1 = i
    BY <1>1 DEF n
  <2>4. /\ Len(SubSeq(stack, 1, n)) = n
        /\ \A i \in 1..n : SubSeq(stack, 1, n)[i] = stack[i]
    BY <2>2, <2>3
  <2> QED
    BY <2>2, <2>4 DEF Below, n
<1> QED
  BY <1>1, <1>3 DEF Top

\* Leaving a block without its rows.
LEMMA PopStack ==
    ASSUME StackOK, HooksInOrder, InAtomicBlock, stack' = Below, UNCHANGED <<due, behind>>
    PROVE  /\ StackOK' /\ HooksInOrder'
           /\ Top.rows \subseteq AllRows
           /\ AllRows' = AllRows \ Top.rows
<1>1. /\ Len(stack) \in Nat \ {0} /\ Below \in Seq(Blocks)
      /\ Len(Below) = Len(stack) - 1
      /\ \A i \in 1..(Len(stack) - 1) : Below[i] = stack[i]
  BY BelowIs
<1>2. StackOK'
  BY <1>1 DEF StackOK
<1>8. HooksInOrder'
  <2>1. \A i \in 1..Len(stack') : i \in 1..Len(stack) /\ stack'[i] = stack[i]
    BY <1>1
  <2> QED
    BY <2>1 DEF HooksInOrder, InOrder
<1>3. \A c : c \in AllRows' <=> \E i \in 1..(Len(stack) - 1) : c \in stack[i].rows
  BY <1>1 DEF AllRows
<1>4. \A c : c \in AllRows <=> \E i \in 1..Len(stack) : c \in stack[i].rows
  BY DEF AllRows
<1>5. \A c : c \in Top.rows => c \in AllRows /\ c \notin AllRows'
  BY <1>1, <1>3, <1>4 DEF Top, StackOK
<1>6. \A c : c \in AllRows => c \in AllRows' \/ c \in Top.rows
  BY <1>1, <1>3, <1>4 DEF Top
<1>7. \A c : c \in AllRows' => c \in AllRows
  BY <1>1, <1>3, <1>4
<1> QED
  BY <1>2, <1>5, <1>6, <1>7, <1>8

\* The blocks from n on replaced by one with the rows R and the callbacks H.
LEMMA PutBlock ==
    ASSUME StackOK, HooksInOrder, NEW n \in Nat, n <= Len(stack),
           NEW R \in SUBSET Calls, NEW H \in Hooks,
           \A i \in 1..n : stack[i].rows \cap R = {}, Members(H) \ {OWN} = R,
           behind \subseteq behind', due' = due, InOrder(H, behind'),
           \A i \in 1..n : OWN \in Members(stack[i].hooks) => R \subseteq behind',
           stack' \in Seq(Blocks), Len(stack') = n + 1,
           \A i \in 1..n : stack'[i] = stack[i],
           stack'[n + 1] = [rows |-> R, hooks |-> H]
    PROVE  /\ StackOK' /\ HooksInOrder'
           /\ \A c : c \in AllRows' <=> c \in R \/ \E i \in 1..n : c \in stack[i].rows
<1>1. Len(stack) \in Nat
  BY LenProperties DEF StackOK
<1>2. \A i \in 1..Len(stack') : i = n + 1 \/ (i \in 1..n /\ i \in 1..Len(stack))
  BY <1>1
<1>3. \A i \in 1..Len(stack') : Members(stack'[i].hooks) \ {OWN} = stack'[i].rows
  BY <1>2 DEF StackOK
<1>4. ASSUME NEW i \in 1..Len(stack'), NEW j \in 1..Len(stack'),
             stack'[i].rows \cap stack'[j].rows # {}
      PROVE  i = j
  <2>1. stack'[n + 1].rows = R
    OBVIOUS
  <2>2. CASE i \in 1..n /\ j \in 1..n
    <3>1. i \in 1..Len(stack) /\ j \in 1..Len(stack)
      BY <1>1, <2>2
    <3>2. stack[i].rows \cap stack[j].rows # {}
      BY <1>4, <2>2
    <3> QED
      BY <3>1, <3>2 DEF StackOK
  <2>3. CASE i \in 1..n /\ j = n + 1
    BY <1>4, <2>1, <2>3
  <2>4. CASE i = n + 1 /\ j \in 1..n
    BY <1>4, <2>1, <2>4
  <2> QED
    BY <1>2, <2>2, <2>3, <2>4
<1>5. \A c : c \in AllRows' <=> c \in R \/ \E i \in 1..n : c \in stack[i].rows
  <2>1. \A c : c \in AllRows' <=> \E i \in 1..Len(stack') : c \in stack'[i].rows
    BY DEF AllRows
  <2>2. n + 1 \in 1..Len(stack') /\ stack'[n + 1].rows = R
    OBVIOUS
  <2>3. \A i \in 1..n : i \in 1..Len(stack') /\ stack'[i].rows = stack[i].rows
    OBVIOUS
  <2> QED
    BY <1>2, <2>1, <2>2, <2>3
<1>6. HooksInOrder'
  <2>1. stack'[n + 1].hooks = H /\ Members(H) \subseteq R \cup {OWN}
    OBVIOUS
  <2>2. ASSUME NEW i \in 1..Len(stack') PROVE InOrder(stack'[i].hooks, behind')
    BY <1>2, <2>1 DEF HooksInOrder, InOrder
  <2>3. ASSUME NEW i \in 1..Len(stack'), NEW j \in 1..Len(stack'), i < j,
               OWN \in Members(stack'[i].hooks)
        PROVE  Members(stack'[j].hooks) \subseteq behind' \cup {OWN}
    <3>1. i \in 1..n /\ i \in 1..Len(stack) /\ stack'[i] = stack[i]
      BY <1>1, <1>2, <2>3
    <3>2. CASE j \in 1..n
      BY <1>1, <2>3, <3>1, <3>2 DEF HooksInOrder
    <3>3. CASE j = n + 1
      BY <2>1, <2>3, <3>1, <3>3
    <3> QED
      BY <1>2, <3>2, <3>3
  <2>4. InOrder(due', behind')
    BY DEF HooksInOrder, InOrder
  <2> QED
    BY <2>2, <2>3, <2>4 DEF HooksInOrder
<1> QED
  BY <1>3, <1>4, <1>5, <1>6 DEF StackOK

LEMMA AllRowsAre == \A c : c \in AllRows <=> \E i \in 1..Len(stack) : c \in stack[i].rows
BY DEF AllRows

LEMMA RowsAreCalls == StackOK => AllRows \subseteq Calls
<1> SUFFICES ASSUME StackOK, NEW c \in AllRows PROVE c \in Calls
  OBVIOUS
<1>1. PICK i \in 1..Len(stack) : c \in stack[i].rows
  BY AllRowsAre
<1>2. stack[i] \in Blocks
  BY LenProperties DEF StackOK
<1> QED
  BY <1>1, <1>2 DEF Blocks

\* An empty block is entered.
LEMMA EnterKeepsRows ==
    ASSUME StackOK, HooksInOrder, stack' = Append(stack, [rows |-> {}, hooks |-> <<>>]),
           UNCHANGED <<due, behind>>
    PROVE  StackOK' /\ HooksInOrder' /\ AllRows' = AllRows
<1>1. /\ Len(stack) \in Nat /\ stack' \in Seq(Blocks) /\ Len(stack') = Len(stack) + 1
      /\ \A i \in 1..Len(stack) : stack'[i] = stack[i]
      /\ stack'[Len(stack) + 1] = [rows |-> {}, hooks |-> <<>>]
  BY LenProperties DEF StackOK, Blocks, Hooks
<1>3. <<>> \in Hooks /\ InOrder(<<>>, behind') /\ Members(<<>>) = {}
  BY NoMembers DEF Hooks, InOrder
<1>2. /\ StackOK' /\ HooksInOrder'
      /\ \A c : c \in AllRows' <=> c \in {} \/ \E i \in 1..Len(stack) : c \in stack[i].rows
  <2> DEFINE n == Len(stack)
             R == {}
             H == <<>>
  <2>1. /\ n \in Nat /\ n <= Len(stack) /\ R \in SUBSET Calls
        /\ \A i \in 1..n : stack[i].rows \cap R = {}
        /\ stack' \in Seq(Blocks) /\ Len(stack') = n + 1
        /\ \A i \in 1..n : stack'[i] = stack[i]
        /\ stack'[n + 1] = [rows |-> R, hooks |-> H]
    BY <1>1
  <2>2. R = {} /\ n = Len(stack) /\ H \in Hooks /\ InOrder(H, behind') /\ Members(H) = {}
    BY <1>3
  <2> HIDE DEF n, R, H
  <2>3. /\ StackOK' /\ HooksInOrder'
        /\ \A c : c \in AllRows' <=> c \in R \/ \E i \in 1..n : c \in stack[i].rows
    BY <2>1, <2>2, PutBlock
  <2> QED
    BY <2>2, <2>3
<1> QED
  BY <1>2, AllRowsAre

\* A callback is added to the innermost block: of a call, with its row, or the caller's.
LEMMA RegisterAddsRow ==
    ASSUME StackOK, HooksInOrder, InAtomicBlock,
           NEW x \in Calls \cup {OWN}, NEW X \in SUBSET Calls, X = {x} \ {OWN},
           X \cap AllRows = {}, due' = due, behind \subseteq behind',
           Pending(OWN) => X \subseteq behind',
           stack' = Append(Below, [rows |-> Top.rows \cup X, hooks |-> Append(Top.hooks, x)])
    PROVE  StackOK' /\ HooksInOrder' /\ AllRows' = AllRows \cup X
<1> DEFINE n == Len(stack) - 1
           R == Top.rows \cup X
           H == Append(Top.hooks, x)
<1>1. /\ Len(stack) \in Nat \ {0} /\ Below \in Seq(Blocks) /\ Len(Below) = Len(stack) - 1
      /\ \A i \in 1..(Len(stack) - 1) : Below[i] = stack[i]
      /\ Top \in Blocks
  BY BelowIs
<1>2. /\ Len(stack) \in 1..Len(stack) /\ Top = stack[Len(stack)] /\ Top.hooks \in Hooks
      /\ Members(Top.hooks) \ {OWN} = Top.rows
  BY <1>1 DEF Top, StackOK, Blocks
<1>3. n \in Nat /\ n <= Len(stack) /\ R \in SUBSET Calls
  BY <1>1 DEF Blocks
<1>4. \A i \in 1..n : stack[i].rows \cap R = {}
  BY <1>1, AllRowsAre DEF StackOK, Top
<1>5. H \in Hooks /\ Members(H) = Members(Top.hooks) \cup {x}
  BY <1>2, AppendMembers
<1>6. Members(H) \ {OWN} = R
  BY <1>2, <1>5
<1>7. InOrder(H, behind')
  <2>1. OWN \in Members(Top.hooks) => Pending(OWN)
    BY <1>2 DEF Pending
  <2>2. x # OWN /\ OWN \in Members(Top.hooks) => x \in behind'
    BY <2>1
  <2>3. InOrder(Top.hooks, behind)
    BY <1>2 DEF HooksInOrder
  <2> QED
    BY <1>2, <2>2, <2>3, OneMoreInOrder
<1>8. \A i \in 1..n : OWN \in Members(stack[i].hooks) => R \subseteq behind'
  <2> SUFFICES ASSUME NEW i \in 1..n, OWN \in Members(stack[i].hooks)
               PROVE  R \subseteq behind'
    OBVIOUS
  <2>1. i \in 1..Len(stack) /\ i < Len(stack)
    BY <1>1
  <2>2. Pending(OWN)
    BY <2>1 DEF Pending
  <2>3. Members(Top.hooks) \subseteq behind \cup {OWN}
    BY <1>2, <2>1 DEF HooksInOrder
  <2> QED
    BY <1>2, <2>2, <2>3
<1>9. [rows |-> R, hooks |-> H] \in Blocks
  BY <1>3, <1>5 DEF Blocks
<1>10. /\ stack' \in Seq(Blocks) /\ Len(stack') = n + 1
       /\ \A i \in 1..n : stack'[i] = stack[i]
       /\ stack'[n + 1] = [rows |-> R, hooks |-> H]
  <2>1. stack' = Append(Below, [rows |-> R, hooks |-> H])
    OBVIOUS
  <2>2. n + 1 = Len(Below) + 1 /\ n = Len(Below)
    BY <1>1
  <2> HIDE DEF R, H, n
  <2> QED
    BY <1>1, <1>9, <2>1, <2>2
<1>11. /\ StackOK' /\ HooksInOrder'
       /\ \A d : d \in AllRows' <=> d \in R \/ \E i \in 1..n : d \in stack[i].rows
  <2> HIDE DEF n, R, H
  <2> QED
    BY <1>3, <1>4, <1>5, <1>6, <1>7, <1>8, <1>10, PutBlock
<1>12. \A d : d \in AllRows <=> d \in Top.rows \/ \E i \in 1..n : d \in stack[i].rows
  BY <1>1, AllRowsAre DEF Top
<1>13. \A d : d \in AllRows' <=> d \in AllRows \/ d \in X
  BY <1>11, <1>12
<1> QED
  BY <1>11, <1>13

\* The innermost block joins the one around it.
LEMMA JoinKeepsRows ==
    ASSUME StackOK, HooksInOrder, InAtomicBlock, Len(stack) > 1, UNCHANGED <<due, behind>>,
           stack' = [Below EXCEPT ![Len(Below)] =
                       [rows  |-> Below[Len(Below)].rows \cup Top.rows,
                        hooks |-> Below[Len(Below)].hooks \o Top.hooks]]
    PROVE  StackOK' /\ HooksInOrder' /\ AllRows' = AllRows
<1> DEFINE n == Len(stack) - 2
           R == Below[Len(Below)].rows \cup Top.rows
           H == Below[Len(Below)].hooks \o Top.hooks
<1>1. /\ Len(stack) \in Nat \ {0} /\ Below \in Seq(Blocks) /\ Len(Below) = Len(stack) - 1
      /\ \A i \in 1..(Len(stack) - 1) : Below[i] = stack[i]
      /\ Top \in Blocks
  BY BelowIs
<1>2. n \in Nat /\ n <= Len(stack) /\ Len(Below) = n + 1 /\ Below[n + 1] = stack[n + 1]
      /\ Top = stack[n + 2] /\ Len(stack) = n + 2
  BY <1>1 DEF Top
<1>3. /\ Below[n + 1] \in Blocks
      /\ Members(Below[n + 1].hooks) \ {OWN} = Below[n + 1].rows
      /\ Members(Top.hooks) \ {OWN} = Top.rows
  BY <1>1, <1>2 DEF StackOK
<1>10. Below[n + 1].hooks \in Hooks /\ Top.hooks \in Hooks
  BY <1>1, <1>3 DEF Blocks
<1>11. H \in Hooks /\ Members(H) \ {OWN} = R
  BY <1>2, <1>3, <1>10, ConcatMembers
<1>12. InOrder(H, behind')
  <2>1. n + 1 \in 1..Len(stack) /\ n + 2 \in 1..Len(stack) /\ n + 1 < n + 2
    BY <1>2
  <2>2. /\ InOrder(Below[n + 1].hooks, behind) /\ InOrder(Top.hooks, behind)
        /\ OWN \in Members(Below[n + 1].hooks) => Members(Top.hooks) \subseteq behind \cup {OWN}
    BY <1>2, <2>1 DEF HooksInOrder
  <2>3. InOrder(H, behind)
    BY <1>2, <1>10, <2>2, JoinedInOrder
  <2> HIDE DEF H
  <2> QED
    BY <2>3 DEF InOrder
<1>13. \A i \in 1..n : OWN \in Members(stack[i].hooks) => R \subseteq behind'
  <2> SUFFICES ASSUME NEW i \in 1..n, OWN \in Members(stack[i].hooks)
               PROVE  R \subseteq behind'
    OBVIOUS
  <2>1. /\ i \in 1..Len(stack) /\ n + 1 \in 1..Len(stack) /\ n + 2 \in 1..Len(stack)
        /\ i < n + 1 /\ i < n + 2
    BY <1>2
  <2>2. /\ Members(Below[n + 1].hooks) \subseteq behind \cup {OWN}
        /\ Members(Top.hooks) \subseteq behind \cup {OWN}
    BY <1>2, <2>1 DEF HooksInOrder
  <2> QED
    BY <1>2, <1>3, <2>2
<1>4. R \in SUBSET Calls /\ [rows |-> R, hooks |-> H] \in Blocks
  BY <1>1, <1>2, <1>3, <1>11 DEF Blocks
<1>5. \A i \in 1..n : stack[i].rows \cap R = {}
  BY <1>1, <1>2 DEF StackOK
<1>6. stack' = [Below EXCEPT ![n + 1] = [rows |-> R, hooks |-> H]]
  BY <1>2
<1>7. /\ stack' \in Seq(Blocks) /\ Len(stack') = n + 1
      /\ \A i \in 1..n : stack'[i] = stack[i]
      /\ stack'[n + 1] = [rows |-> R, hooks |-> H]
  <2>1. n + 1 \in 1..Len(Below) /\ \A i \in 1..n : i \in 1..Len(Below) /\ i # n + 1
    BY <1>2
  <2>2. \A i \in 1..n : Below[i] = stack[i]
    BY <1>1, <1>2
  <2>3. Below \in [1..(n + 1) -> Blocks]
    BY <1>1, <1>2, LenProperties
  <2> HIDE DEF n, R, H
  <2>4. stack' \in Seq(Blocks) /\ Len(stack') = n + 1
    BY <1>1, <1>2, <1>4, <1>6
  <2> QED
    BY <1>2, <1>6, <2>1, <2>2, <2>3, <2>4
<1>8. /\ StackOK' /\ HooksInOrder'
      /\ \A d : d \in AllRows' <=> d \in R \/ \E i \in 1..n : d \in stack[i].rows
  <2> HIDE DEF n, R, H
  <2> QED
    BY <1>2, <1>4, <1>5, <1>7, <1>11, <1>12, <1>13, PutBlock
<1>9. \A d : d \in AllRows <=> d \in R \/ \E i \in 1..n : d \in stack[i].rows
  <2>1. \A i \in 1..Len(stack) : i \in 1..n \/ i = n + 1 \/ i = n + 2
    BY <1>2
  <2>2. \A i \in 1..n : i \in 1..Len(stack)
    BY <1>2
  <2>3. n + 1 \in 1..Len(stack) /\ n + 2 \in 1..Len(stack)
    BY <1>2
  <2>4. R = stack[n + 1].rows \cup stack[n + 2].rows
    BY <1>2
  <2> HIDE DEF n, R
  <2> QED
    BY <2>1, <2>2, <2>3, <2>4, AllRowsAre
<1> QED
  BY <1>8, <1>9

-------------------------------------------------------------------------------
(* The calls. *)

\* A step that leaves the blocks alone, with its callbacks still to run in order.
LEMMA SameStack ==
    ASSUME StackOK, HooksInOrder, stack' = stack, behind \subseteq behind',
           InOrder(due', behind')
    PROVE  StackOK' /\ HooksInOrder' /\ AllRows' = AllRows
<1>1. AllRows' = AllRows
  BY DEF AllRows
<1>2. StackOK'
  BY DEF StackOK
<1>3. \A i \in 1..Len(stack) : InOrder(stack[i].hooks, behind')
  BY DEF HooksInOrder, InOrder
<1>4. \A i, j \in 1..Len(stack) :
         i < j /\ OWN \in Members(stack[i].hooks)
             => Members(stack[j].hooks) \subseteq behind' \cup {OWN}
  BY DEF HooksInOrder
<1>5. HooksInOrder'
  BY <1>3, <1>4 DEF HooksInOrder
<1> QED
  BY <1>1, <1>2, <1>5

LEMMA SameHooks ==
    ASSUME StackOK, HooksInOrder, UNCHANGED <<stack, due, behind>>
    PROVE  StackOK' /\ HooksInOrder' /\ AllRows' = AllRows
<1>1. InOrder(due', behind')
  BY DEF HooksInOrder, InOrder
<1> QED
  BY <1>1, SameStack

LEMMA InitProducer == Init => ProducerInv
<1> SUFFICES ASSUME Init PROVE ProducerInv
  OBVIOUS
<1>1. stack = <<>> /\ Len(stack) = 0 /\ stack \in Seq(Blocks)
  BY EmptySeq DEF Init
<1>2. StackOK
  BY <1>1 DEF StackOK
<1>3. AllRows = {}
  BY <1>1 DEF AllRows
<1>4. Types
  BY NoMembers DEF Init, Types, Hooks
<1>5. HooksInOrder
  BY <1>1 DEF Init, HooksInOrder, InOrder
<1> QED
  BY <1>2, <1>3, <1>4, <1>5 DEF Init, ProducerInv, Fresh, Separate, SentOnly, AllCounted

\* A step that makes no call and sends nothing keeps the invariant, if it moves
\* rows from the open blocks to the committed or the undone ones only.
LEMMA NoCall ==
    ASSUME ProducerInv, StackOK', HooksInOrder', Types', UNCHANGED <<made, row, sent>>,
           AllRows' \subseteq AllRows,
           committed' \subseteq committed \cup AllRows, undone' \subseteq undone \cup AllRows,
           committed \subseteq committed',
           AllRows' \cap (committed' \cup undone') = {}, committed' \cap undone' = {},
           AllCounted'
    PROVE  ProducerInv'
<1>1. Fresh'
  BY DEF ProducerInv, Fresh
<1>2. SentOnly'
  BY DEF ProducerInv, SentOnly, Excluded
<1> QED
  BY <1>1, <1>2 DEF ProducerInv, Separate

LEMMA MadeIsCall ==
    ASSUME ProducerInv, NEW c \in Calls, NEW q \in Requests, Make(c, q)
    PROVE  /\ made' \in [Calls -> [request : Requests, at : Nat] \cup {NULL}]
           /\ made'[c] = [request |-> q, at |-> now] /\ made'[c] # NULL
           /\ \A d \in Calls \ {c} : made'[d] = made[d]
<1>1. [request |-> q, at |-> now] \in [request : Requests, at : Nat]
  BY DEF ProducerInv, Types
<1> QED
  BY <1>1, ProducerAssumption DEF ProducerInv, Types, Make

LEMMA NextProducer ==
    ASSUME ProducerInv, [Next]_vars
    PROVE  ProducerInv'
<1> USE DEF ProducerInv, Running
<1>1. ASSUME EnterAtomic PROVE ProducerInv'
  <2>1. StackOK' /\ HooksInOrder' /\ AllRows' = AllRows
    BY <1>1, EnterKeepsRows DEF EnterAtomic
  <2> QED
    BY <1>1, <2>1 DEF EnterAtomic, Types, Fresh, Separate, SentOnly, Excluded, AllCounted
<1>2. ASSUME LeaveAtomic, Len(stack) > 1 PROVE ProducerInv'
  <2>1. StackOK' /\ HooksInOrder' /\ AllRows' = AllRows
    BY <1>2, JoinKeepsRows DEF LeaveAtomic
  <2>2. UNCHANGED <<now, made, row, committed, due, counted, sent, undone, failed, behind, lost>>
    BY <1>2 DEF LeaveAtomic
  <2> QED
    BY <2>1, <2>2 DEF Types, Fresh, Separate, SentOnly, Excluded, AllCounted
<1>3. ASSUME LeaveAtomic, ~(Len(stack) > 1) PROVE ProducerInv'
  <2>1. /\ Len(stack) = 1 /\ Top = stack[1] /\ Top \in Blocks
        /\ Members(Top.hooks) \ {OWN} = Top.rows /\ InOrder(Top.hooks, behind)
    <3>1. Len(stack) \in Nat \ {0} /\ Top \in Blocks
      BY <1>3, BelowIs DEF LeaveAtomic
    <3>2. Len(stack) = 1
      <4> DEFINE n == Len(stack)
      <4>1. n \in Nat \ {0} /\ ~(n > 1)
        BY <1>3, <3>1
      <4> HIDE DEF n
      <4>2. n = 1
        BY <4>1
      <4> QED
        BY <4>2 DEF n
    <3> QED
      BY <3>1, <3>2 DEF StackOK, HooksInOrder, Top
  <2>2. AllRows = Top.rows
    BY <2>1, AllRowsAre
  <2>3. /\ stack' = <<>> /\ committed' = committed \cup AllRows /\ due' = Top.hooks
        /\ UNCHANGED <<now, made, row, counted, sent, undone, failed, behind, lost>>
        /\ due = <<>>
    BY <1>3, <2>1, <2>2 DEF LeaveAtomic
  <2>4. Len(stack') = 0 /\ stack' \in Seq(Blocks)
    BY <2>3, EmptySeq
  <2>5. StackOK' /\ AllRows' = {}
    BY <2>4 DEF StackOK, AllRows
  <2>8. HooksInOrder'
    BY <2>1, <2>3, <2>4 DEF HooksInOrder, InOrder
  <2>6. Types'
    BY <2>1, <2>2, <2>3 DEF Types, Blocks
  <2>7. AllCounted'
    BY <2>1, <2>2, <2>3, NoMembers DEF AllCounted
  <2> QED
    BY <2>3, <2>5, <2>6, <2>7, <2>8, NoCall DEF Separate
<1>4. ASSUME RollBack PROVE ProducerInv'
  <2>1. /\ StackOK' /\ HooksInOrder'
        /\ Top.rows \subseteq AllRows /\ AllRows' = AllRows \ Top.rows
    BY <1>4, PopStack DEF RollBack
  <2>2. /\ undone' = undone \cup Top.rows
        /\ UNCHANGED <<now, made, row, committed, due, counted, sent, failed, behind, lost>>
    BY <1>4 DEF RollBack
  <2>3. Types' /\ AllCounted'
    BY <2>2 DEF Types, AllCounted
  <2> QED
    BY <2>1, <2>2, <2>3, NoCall DEF Separate
<1>5. ASSUME ProcessDies PROVE ProducerInv'
  <2>1. /\ stack' = <<>> /\ undone' = undone \cup AllRows /\ due' = <<>>
        /\ lost' = lost \cup (Members(due) \ {OWN})
        /\ UNCHANGED <<now, made, row, committed, counted, sent, failed, behind>>
    BY <1>5 DEF ProcessDies
  <2>2. Len(stack') = 0 /\ stack' \in Seq(Blocks)
    BY <2>1, EmptySeq
  <2>3. StackOK' /\ AllRows' = {}
    BY <2>2 DEF StackOK, AllRows
  <2>4. HooksInOrder'
    BY <2>1, <2>2 DEF HooksInOrder, InOrder
  <2>5. Types' /\ AllCounted'
    BY <2>1, NoMembers, ProducerAssumption DEF Types, AllCounted, Hooks
  <2> QED
    BY <2>1, <2>3, <2>4, <2>5, NoCall DEF Separate
<1>6. ASSUME Tick PROVE ProducerInv'
  <2>1. StackOK' /\ HooksInOrder' /\ AllRows' = AllRows
    BY <1>6, SameHooks DEF Tick
  <2>2. Types' /\ AllCounted'
    BY <1>6 DEF Tick, Types, AllCounted
  <2> QED
    BY <1>6, <2>1, <2>2, NoCall DEF Tick, Separate
<1>12. ASSUME due # <<>>, due' \in {<<>>, Tail(due)}, UNCHANGED <<stack, behind>>
       PROVE  StackOK' /\ HooksInOrder' /\ AllRows' = AllRows
  <2>1. InOrder(due', behind')
    <3>1. CASE due' = <<>>
      BY <3>1 DEF InOrder
    <3>2. CASE due' = Tail(due)
      <4>1. /\ Len(due) \in Nat \ {0} /\ Len(due') = Len(due) - 1
            /\ \A i \in 1..(Len(due) - 1) : due'[i] = due[i + 1]
        BY <1>12, <3>2, HeadAndTail DEF Types
      <4>2. InOrder(due, behind')
        BY <1>12 DEF HooksInOrder
      <4> SUFFICES ASSUME NEW i \in 1..Len(due'), NEW j \in 1..Len(due'), i < j, due'[i] = OWN
                   PROVE  due'[j] \in behind' \cup {OWN}
        BY DEF InOrder
      <4>3. i + 1 \in 1..Len(due) /\ j + 1 \in 1..Len(due) /\ i + 1 < j + 1
        BY <4>1
      <4>4. due[i + 1] = OWN /\ due'[j] = due[j + 1]
        BY <4>1
      <4> QED
        BY <4>2, <4>3, <4>4 DEF InOrder
    <3> QED
      BY <1>12, <3>1, <3>2
  <2> QED
    BY <1>12, <2>1, SameStack
<1>7. ASSUME NEW c \in Calls, RunCallback(c) PROVE ProducerInv'
  <2>1. /\ due # <<>> /\ Head(due) = c /\ due' = Tail(due)
        /\ counted' \cup failed' = counted \cup failed \cup {c}
        /\ counted \subseteq counted' /\ counted' \subseteq counted \cup {c}
        /\ UNCHANGED <<now, stack, made, row, committed, sent, undone, behind, lost>>
    BY <1>7 DEF RunCallback, EmitEnqueued, IncrementRaises
  <2>2. due' \in Hooks /\ Members(due) = {c} \cup Members(due')
    BY <2>1, HeadAndTail DEF Types
  <2>3. c \in committed
    BY <2>2, ProducerAssumption DEF Types
  <2>4. Types' /\ AllCounted'
    BY <2>1, <2>2, <2>3 DEF Types, AllCounted
  <2> QED
    BY <1>12, <2>1, <2>4, NoCall DEF Separate
<1>13. ASSUME RegisterOwn PROVE ProducerInv'
  <2>1. /\ stack' = Append(Below, [rows |-> Top.rows \cup {}, hooks |-> Append(Top.hooks, OWN)])
        /\ UNCHANGED <<now, made, row, committed, due, counted, sent, undone, failed, behind, lost>>
    BY <1>13 DEF RegisterOwn
  <2>2. StackOK' /\ HooksInOrder' /\ AllRows' = AllRows \cup {}
    BY <1>13, <2>1, RegisterAddsRow DEF RegisterOwn
  <2>3. Types' /\ AllCounted'
    BY <2>1 DEF Types, AllCounted
  <2> QED
    BY <2>1, <2>2, <2>3, NoCall DEF Separate
<1>14. ASSUME OwnCallbackRaises PROVE ProducerInv'
  <2>1. /\ due # <<>> /\ Head(due) = OWN /\ due' = <<>>
        /\ UNCHANGED <<now, stack, made, row, committed, counted, sent, undone, failed, behind, lost>>
    BY <1>14 DEF OwnCallbackRaises
  <2>2. Members(due) \subseteq behind \cup {OWN}
    <3>1. /\ Len(due) \in Nat /\ due[1] = OWN
          /\ \A j \in 1..Len(due) : j = 1 \/ (1 < j /\ 1 \in 1..Len(due))
      BY <2>1, HeadAndTail DEF Types
    <3> QED
      BY <3>1 DEF HooksInOrder, InOrder, Members
  <2>3. OWN \notin committed
    BY ProducerAssumption DEF Types
  <2>4. Types' /\ AllCounted'
    BY <2>1, <2>2, <2>3, NoMembers DEF Types, AllCounted, Hooks
  <2> QED
    BY <1>12, <2>1, <2>4, NoCall DEF Separate
<1>8. ASSUME NEW c \in Calls, RelayPublishes(c) PROVE ProducerInv'
  <2>1. /\ c \in committed
        /\ UNCHANGED <<now, stack, made, row, committed, due, counted, undone, failed, behind, lost>>
        /\ \A d \in Calls \ {c} : sent'[d] = sent[d]
    BY <1>8 DEF RelayPublishes, Types
  <2>2. Types'
    BY <1>8 DEF RelayPublishes, Types
  <2>3. StackOK' /\ HooksInOrder' /\ AllRows' = AllRows
    BY <2>1, SameHooks
  <2>4. Fresh'
    BY <2>1, <2>3 DEF Fresh
  <2>5. SentOnly'
    BY <2>1 DEF SentOnly, Excluded
  <2>6. Separate' /\ AllCounted'
    BY <2>1, <2>3 DEF Separate, AllCounted
  <2> QED
    BY <2>2, <2>3, <2>4, <2>5, <2>6
<1>9. ASSUME NEW c \in Calls, NEW q \in Requests, SendExcluded(c, q) PROVE ProducerInv'
  <2>1. /\ made'[c] = [request |-> q, at |-> now] /\ made'[c] # NULL
        /\ made' \in [Calls -> [request : Requests, at : Nat] \cup {NULL}]
        /\ \A d \in Calls \ {c} : made'[d] = made[d]
    BY <1>9, MadeIsCall DEF SendExcluded
  <2>2. /\ UNCHANGED <<now, stack, row, committed, due, counted, undone, failed, behind, lost>>
        /\ \A d \in Calls \ {c} : sent'[d] = sent[d]
        /\ q.excluded
    BY <1>9 DEF SendExcluded, Types
  <2>3. Types'
    BY <1>9, <2>1 DEF SendExcluded, Types
  <2>4. StackOK' /\ HooksInOrder' /\ AllRows' = AllRows
    BY <2>2, SameHooks
  <2>5. Fresh'
    BY <2>1, <2>2, <2>4 DEF Fresh
  <2>6. SentOnly'
    BY <2>1, <2>2 DEF SentOnly, Excluded
  <2>7. Separate' /\ AllCounted'
    BY <2>2, <2>4 DEF Separate, AllCounted
  <2> QED
    BY <2>3, <2>4, <2>5, <2>6, <2>7
<1>10. ASSUME NEW c \in Calls, NEW q \in Requests, SendTask(c, q) PROVE ProducerInv'
  <2>1. /\ made'[c] = [request |-> q, at |-> now] /\ made'[c] # NULL
        /\ made' \in [Calls -> [request : Requests, at : Nat] \cup {NULL}]
        /\ \A d \in Calls \ {c} : made'[d] = made[d]
    BY <1>10, MadeIsCall DEF SendTask
  <2>2. /\ c \notin AllRows \cup committed \cup undone /\ sent[c] = NULL
        /\ UNCHANGED <<now, counted, sent, undone, failed, lost>> /\ due = <<>>
        /\ behind \subseteq behind' /\ (Pending(OWN) => c \in behind')
    BY <1>10 DEF SendTask, Fresh
  <2>3. DOMAIN row' = Calls /\ row' = [d \in Calls |-> row'[d]]
    BY <1>10 DEF SendTask, Types
  <2>4. CASE InAtomicBlock
    <3>1. UNCHANGED <<committed, due>> /\ StackOK' /\ HooksInOrder' /\ AllRows' = AllRows \cup {c}
      <4>1. /\ stack' = Append(Below, [rows |-> Top.rows \cup {c}, hooks |-> Append(Top.hooks, c)])
            /\ UNCHANGED <<committed, due>>
        BY <1>10, <2>4 DEF SendTask, Register
      <4>2. {c} = {c} \ {OWN} /\ {c} \cap AllRows = {} /\ (Pending(OWN) => {c} \subseteq behind')
        BY <2>2, ProducerAssumption
      <4> QED
        BY <2>2, <2>4, <4>1, <4>2, RegisterAddsRow
    <3>2. Types'
      BY <2>1, <2>2, <2>3, <3>1 DEF Types
    <3>3. Fresh'
      BY <2>1, <2>2, <3>1 DEF Fresh
    <3>4. Separate' /\ AllCounted'
      BY <2>2, <3>1 DEF Separate, AllCounted
    <3>5. SentOnly'
      BY <2>1, <2>2, <3>1 DEF SentOnly, Excluded
    <3> QED
      BY <3>1, <3>2, <3>3, <3>4, <3>5
  <2>5. CASE ~InAtomicBlock
    <3>1. committed' = committed \cup {c} /\ due' = <<c>> /\ stack' = stack
      BY <1>10, <2>5 DEF SendTask, Register
    <3>2. StackOK' /\ HooksInOrder' /\ AllRows' = AllRows
      <4>1. InOrder(due', behind')
        BY <3>1 DEF InOrder
      <4> QED
        BY <2>2, <3>1, <4>1, SameStack
    <3>3. Members(due') = {c} /\ due' \in Hooks /\ Members(due) = {}
      BY <2>2, <3>1, NoMembers DEF Members, Hooks
    <3>4. Types'
      BY <2>1, <2>2, <2>3, <3>1, <3>3 DEF Types
    <3>5. Fresh'
      BY <2>1, <2>2, <3>1, <3>2 DEF Fresh
    <3>6. Separate' /\ AllCounted'
      BY <2>2, <3>1, <3>2, <3>3 DEF Separate, AllCounted
    <3>7. SentOnly'
      BY <2>1, <2>2, <3>1 DEF SentOnly, Excluded
    <3> QED
      BY <3>2, <3>4, <3>5, <3>6, <3>7
  <2> QED
    BY <2>4, <2>5
<1>11. CASE UNCHANGED vars
  <2>1. StackOK' /\ HooksInOrder' /\ AllRows' = AllRows
    BY <1>11, SameHooks DEF vars
  <2>2. Types' /\ AllCounted'
    BY <1>11 DEF vars, Types, AllCounted
  <2> QED
    BY <1>11, <2>1, <2>2, NoCall DEF vars, Separate
<1> QED
  BY <1>1, <1>2, <1>3, <1>4, <1>5, <1>6, <1>7, <1>8, <1>9, <1>10, <1>11, <1>13, <1>14 DEF Next

LEMMA ProducerInvariance == Spec => []ProducerInv
BY InitProducer, NextProducer, PTL DEF Spec

\* For any calls in any nesting of blocks: what reaches the broker through the outbox
\* was committed in every block around its call.
THEOREM OnlyCommittedIsSent == Spec => []OnlyCommittedSent
<1>1. ProducerInv => OnlyCommittedSent
  BY DEF ProducerInv, OnlyCommittedSent, SentOnly, Separate
<1> QED
  BY <1>1, ProducerInvariance, PTL

\* The metric counts committed calls only, and each of them whose own increment does
\* not raise, unless the process dies within the commit or a callback that raises was
\* registered by the caller before it, for any nesting of blocks and any order of the
\* callbacks.
THEOREM OnlyCommittedAreCounted == Spec => []CountedAreCommitted
<1>1. ProducerInv => CountedAreCommitted
  BY DEF ProducerInv, Types, CountedAreCommitted, Separate, AllCounted
<1> QED
  BY <1>1, ProducerInvariance, PTL

-------------------------------------------------------------------------------
(* The callbacks of a call. *)

\* The members of a list that are kept, and how many of them come before one.
Kept(link) == {i \in 1..Len(link) : link[i] \in Signatures}
Earlier(K, i) == Cardinality({k \in K : k < i})

\* Counting the earlier members numbers a finite set from 0, in its order.
LEMMA EarlierNumbers ==
    ASSUME NEW K \in SUBSET Nat, IsFiniteSet(K)
    PROVE  /\ Cardinality(K) \in Nat
           /\ \A i \in K : Earlier(K, i) \in 0..(Cardinality(K) - 1)
           /\ \A i, j \in K : i < j => Earlier(K, i) < Earlier(K, j)
           /\ \A n \in 1..Cardinality(K) : \E i \in K : Earlier(K, i) = n - 1
<1> DEFINE Before(i) == {k \in K : k < i}
<1>1. Cardinality(K) \in Nat
  BY FS_CardinalityType
<1>2. ASSUME NEW i \in K
      PROVE  IsFiniteSet(Before(i)) /\ Cardinality(Before(i)) \in 0..(Cardinality(K) - 1)
  <2>1. Before(i) \in SUBSET K /\ Before(i) # K
    BY <1>2
  <2> HIDE DEF Before
  <2>2. /\ IsFiniteSet(Before(i))
        /\ Cardinality(Before(i)) <= Cardinality(K)
        /\ Cardinality(K) = Cardinality(Before(i)) => K = Before(i)
    BY <2>1, FS_Subset
  <2>3. Cardinality(Before(i)) \in Nat
    BY <2>2, FS_CardinalityType
  <2> QED
    BY <1>1, <2>1, <2>2, <2>3
<1>3. ASSUME NEW i \in K, NEW j \in K, i < j
      PROVE  Cardinality(Before(i)) < Cardinality(Before(j))
  <2>1. Before(i) \in SUBSET Before(j) /\ Before(i) # Before(j)
    <3>1. i \in Before(j) /\ i \notin Before(i)
      BY <1>3
    <3>2. \A k \in Before(i) : k \in Before(j)
      BY <1>3
    <3> QED
      BY <3>1, <3>2
  <2>2. IsFiniteSet(Before(j)) /\ Cardinality(Before(i)) \in Nat /\ Cardinality(Before(j)) \in Nat
    BY <1>1, <1>2
  <2> HIDE DEF Before
  <2>3. /\ Cardinality(Before(i)) <= Cardinality(Before(j))
        /\ Cardinality(Before(j)) = Cardinality(Before(i)) => Before(j) = Before(i)
    BY <2>1, <2>2, FS_Subset
  <2> QED
    BY <2>1, <2>2, <2>3
<1>4. \A i \in K : Earlier(K, i) = Cardinality(Before(i))
  BY DEF Earlier
<1> HIDE DEF Before
<1>5. \A i \in K : Earlier(K, i) \in 0..(Cardinality(K) - 1)
  BY <1>2, <1>4
<1>6. \A i, j \in K : i < j => Earlier(K, i) < Earlier(K, j)
  BY <1>3, <1>4
<1>7. \A n \in 1..Cardinality(K) : \E i \in K : Earlier(K, i) = n - 1
  <2> DEFINE T == 1..Cardinality(K)
             f == [i \in K |-> Earlier(K, i) + 1]
  <2>1. f \in [K -> T]
    BY <1>1, <1>5
  <2>2. ASSUME NEW i \in K, NEW j \in K, f[i] = f[j] PROVE i = j
    <3>1. Earlier(K, i) = Earlier(K, j)
      BY <1>1, <1>5, <2>2
    <3>2. i \in Nat /\ j \in Nat /\ Earlier(K, i) \in Int
      BY <1>1, <1>5
    <3> HIDE DEF f, T
    <3> QED
      BY <1>6, <3>1, <3>2
  <2>3. IsFiniteSet(T) /\ Cardinality(T) = Cardinality(K)
    <3>1. 1 \in Int /\ Cardinality(K) \in Int
      BY <1>1
    <3>2. IsFiniteSet(T) /\ Cardinality(T) = IF 1 > Cardinality(K) THEN 0 ELSE Cardinality(K) - 1 + 1
      BY <3>1, FS_Interval
    <3> QED
      BY <1>1, <3>2
  <2>4. f \in Injection(K, T)
    <3> HIDE DEF f, T
    <3> QED
      BY <2>1, <2>2 DEF Injection, IsInjective
  <2>5. f \in Surjection(K, T)
    <3> HIDE DEF f, T
    <3> QED
      BY <2>3, <2>4, FS_Injection
  <2>6. \A n \in T : \E i \in K : f[i] = n
    <3> HIDE DEF f, T
    <3> QED
      BY <2>5 DEF Surjection
  <2>7. ASSUME NEW n \in T PROVE \E i \in K : Earlier(K, i) = n - 1
    <3>1. PICK i \in K : f[i] = n
      BY <2>6
    <3>2. Earlier(K, i) + 1 = n /\ Earlier(K, i) \in Int /\ n \in Int
      BY <1>1, <1>5, <3>1
    <3> QED
      BY <3>2
  <2> QED
    BY <2>7
<1> QED
  BY <1>1, <1>5, <1>6, <1>7

\* _signatures_to_list keeps every signature of the list, each in a place of its own
\* and in the order of the list, and nothing else.
LEMMA SignatureListIs ==
    ASSUME NEW link \in Seq(Links), NEW list, list = SignatureList(link)
    PROVE  \E at \in [1..Len(list) -> Kept(link)] :
              /\ \A n \in 1..Len(list) : list[n] = link[at[n]]
              /\ \A m, n \in 1..Len(list) : m < n => at[m] < at[n]
              /\ \A i \in Kept(link) : \E n \in 1..Len(list) : at[n] = i
<1> DEFINE K == Kept(link)
           N == Cardinality(K)
           At(n) == CHOOSE i \in K : Earlier(K, i) = n - 1
<1>1. K \in SUBSET Nat /\ IsFiniteSet(K) /\ K \subseteq 1..Len(link)
  <2>1. Len(link) \in Nat /\ K \in SUBSET (1..Len(link))
    BY LenProperties DEF Kept
  <2>2. IsFiniteSet(1..Len(link))
    BY <2>1, FS_Interval
  <2> HIDE DEF K
  <2>3. IsFiniteSet(K)
    BY <2>1, <2>2, FS_Subset
  <2> QED
    BY <2>1, <2>3
<1>2. \A i \in K : link[i] \in Signatures
  BY DEF Kept
<1>3. list = [n \in 1..N |-> link[At(n)]]
  BY DEF SignatureList, Kept, Earlier
<1> HIDE DEF K
<1>4. /\ N \in Nat
      /\ \A i \in K : Earlier(K, i) \in 0..(N - 1)
      /\ \A i, j \in K : i < j => Earlier(K, i) < Earlier(K, j)
      /\ \A n \in 1..N : \E i \in K : Earlier(K, i) = n - 1
  BY <1>1, EarlierNumbers
<1> HIDE DEF N
<1>5. \A n \in 1..N : At(n) \in K /\ Earlier(K, At(n)) = n - 1
  BY <1>4
<1> HIDE DEF At
<1>6. list \in [1..N -> Signatures]
  BY <1>2, <1>3, <1>5
<1>7. list \in Seq(Signatures) /\ Len(list) = N
  BY <1>4, <1>6, SeqDef, LenProperties
<1> DEFINE at == [n \in 1..N |-> At(n)]
<1>8. at \in [1..N -> K] /\ \A n \in 1..N : at[n] = At(n) /\ list[n] = link[at[n]]
  BY <1>3, <1>5
<1> HIDE DEF at
<1>9. ASSUME NEW i \in K PROVE \E n \in 1..N : at[n] = i
  <2>1. PICK n \in 1..N : Earlier(K, i) = n - 1
    <3> DEFINE e == Earlier(K, i)
    <3>1. e \in 0..(N - 1) /\ N \in Nat
      BY <1>4
    <3> HIDE DEF e
    <3>2. \E n \in 1..N : e = n - 1
      <4> DEFINE n == e + 1
      <4>1. n \in 1..N /\ e = n - 1
        BY <3>1
      <4> HIDE DEF n
      <4> QED
        BY <4>1
    <3> QED
      BY <3>2 DEF e
  <2>2. At(n) = i
    <3>1. /\ ~(At(n) < i) /\ ~(i < At(n))
      BY <1>4, <1>5, <2>1
    <3>2. At(n) \in Nat /\ i \in Nat
      BY <1>1, <1>5
    <3> QED
      BY <3>1, <3>2
  <2> QED
    BY <1>8, <2>2
<1>10. ASSUME NEW m \in 1..N, NEW n \in 1..N, m < n
       PROVE  at[m] < at[n]
  <2>1. At(m) \in Nat /\ At(n) \in Nat /\ At(m) \in K /\ At(n) \in K
    BY <1>1, <1>5
  <2>2. Earlier(K, At(m)) < Earlier(K, At(n))
    BY <1>4, <1>5, <1>10
  <2>3. ~(At(n) < At(m)) /\ At(m) # At(n)
    <3>1. Earlier(K, At(m)) \in Int /\ Earlier(K, At(n)) \in Int
      BY <1>4, <2>1
    <3> QED
      BY <1>4, <2>1, <2>2, <3>1
  <2> QED
    BY <1>8, <2>1, <2>3
<1>11. /\ Len(list) = N
       /\ \E f \in [1..N -> K] : /\ \A n \in 1..N : list[n] = link[f[n]]
                                 /\ \A m, n \in 1..N : m < n => f[m] < f[n]
                                 /\ \A i \in K : \E n \in 1..N : f[n] = i
  BY <1>4, <1>7, <1>8, <1>9, <1>10
<1> QED
  BY <1>11 DEF K

-------------------------------------------------------------------------------
(* The options. *)

\* The column of a pending or committed row says when the task is meant to run, and
\* has the callbacks that are left of its list.
Stored ==
    \A c \in AllRows \cup committed :
        LET q == made[c].request
        IN  /\ row[c].eta = IF q.countdown # NULL THEN made[c].at + q.countdown ELSE q.eta
            /\ row[c].expires = q.expires
            /\ row[c].link = SignatureList(q.link)

\* So has the message.
SentLinks ==
    \A c \in Calls : sent[c] # NULL /\ ~Excluded(c) =>
        sent[c].link = SignatureList(made[c].request.link)

\* What makes SentAsMeant inductive.
MeantInv == /\ Stored /\ TimesAsMeant /\ SentLinks
            /\ \A c \in Calls : made[c] # NULL => made[c].at <= now

\* What a column that says what was meant becomes when it is published, at any later time.
LEMMA PublishedAsMeant ==
    ASSUME NEW q \in Requests, NEW at \in Nat, now \in Nat, at <= now, NEW options,
           options.eta = IF q.countdown # NULL THEN at + q.countdown ELSE q.eta,
           options.expires = q.expires, options.link = SignatureList(q.link)
    PROVE  LET m == Message(options)
           IN  /\ m.eta = IF q.countdown # NULL THEN at + q.countdown ELSE q.eta
               /\ (q.expires = NULL) <=> (m.expires = NULL)
               /\ q.expires # NULL =>
                     IF q.expires.kind = "at" THEN m.expires = q.expires.time
                     ELSE m.expires >= at + q.expires.time
               /\ m.link = SignatureList(q.link)
<1>1. Message(options).eta = options.eta /\ Message(options).link = options.link
  BY DEF Message
<1>2. Message(options).expires = IF q.expires # NULL THEN Expires(q.expires, now) ELSE NULL
  BY DEF Message, Given
<1>3. CASE q.expires # NULL
  <2>1. q.expires \in Expiry(Nat) /\ NULL \notin Nat
    BY <1>3, ProducerAssumption
  <2>2. q.expires.time \in Nat
    BY <2>1 DEF Expiry
  <2>3. Message(options).expires = IF q.expires.kind = "at" THEN q.expires.time
                                   ELSE now + q.expires.time
    BY <1>2, <1>3 DEF Expires
  <2>4. Message(options).expires # NULL
    BY <2>1, <2>2, <2>3
  <2>5. q.expires.kind # "at" => Message(options).expires >= at + q.expires.time
    BY <2>2, <2>3
  <2> QED
    BY <1>1, <1>3, <2>3, <2>4, <2>5
<1> QED
  BY <1>1, <1>2, <1>3

LEMMA NextMeant ==
    ASSUME ProducerInv, ProducerInv', MeantInv, [Next]_vars
    PROVE  MeantInv'
<1> USE DEF MeantInv
<1>1. ASSUME made' = made, row' = row, sent' = sent, now' = now \/ now' = now + 1,
             AllRows' \cup committed' \subseteq AllRows \cup committed
      PROVE  MeantInv'
  <2>1. Stored' /\ TimesAsMeant' /\ SentLinks'
    BY <1>1 DEF Stored, TimesAsMeant, SentLinks, Excluded
  <2> QED
    BY <1>1, <2>1 DEF ProducerInv, Types
<1>2. ASSUME NEW c \in Calls, RelayPublishes(c) PROVE MeantInv'
  <2>1. made[c] \in [request : Requests, at : Nat] /\ made[c].at <= now /\ now \in Nat
    BY <1>2 DEF RelayPublishes, ProducerInv, Fresh, Types
  <2>2. sent'[c] = Message(row[c]) /\ \A d \in Calls \ {c} : sent'[d] = sent[d]
    BY <1>2 DEF RelayPublishes, ProducerInv, Types
  <2>3. /\ row[c].eta = IF made[c].request.countdown # NULL
                        THEN made[c].at + made[c].request.countdown ELSE made[c].request.eta
        /\ row[c].expires = made[c].request.expires
        /\ row[c].link = SignatureList(made[c].request.link)
    BY <1>2 DEF RelayPublishes, Stored
  <2>4. UNCHANGED <<now, stack, made, row, committed>>
    BY <1>2 DEF RelayPublishes
  <2>5. TimesAsMeant' /\ SentLinks'
    BY <2>1, <2>2, <2>3, <2>4, PublishedAsMeant DEF TimesAsMeant, SentLinks, Excluded
  <2> QED
    BY <2>4, <2>5 DEF Stored, AllRows
<1>3. ASSUME NEW c \in Calls, NEW q \in Requests, Make(c, q), made[c] = NULL, now' = now,
             \A d \in Calls \ {c} : row'[d] = row[d] /\ sent'[d] = sent[d]
      PROVE  /\ \A d \in Calls \ {c} : made'[d] = made[d]
             /\ made'[c] = [request |-> q, at |-> now]
             /\ \A d \in Calls : made'[d] # NULL => made'[d].at <= now'
  <2>1. /\ \A d \in Calls \ {c} : made'[d] = made[d]
        /\ made'[c] = [request |-> q, at |-> now]
    BY <1>3, MadeIsCall
  <2> QED
    BY <1>3, <2>1 DEF ProducerInv, Types
<1>4. ASSUME NEW q \in Requests
      PROVE  /\ Serialized(q).eta = IF q.countdown # NULL THEN now + q.countdown ELSE q.eta
             /\ Serialized(q).expires = q.expires
             /\ Serialized(q).link = SignatureList(q.link)
  BY DEF Serialized, StoredEta, Given
<1>5. ASSUME NEW c \in Calls, NEW q \in Requests, SendExcluded(c, q) PROVE MeantInv'
  <2>1. /\ \A d \in Calls \ {c} : made'[d] = made[d] /\ row'[d] = row[d] /\ sent'[d] = sent[d]
        /\ made'[c] = [request |-> q, at |-> now] /\ q.excluded
        /\ \A d \in Calls : made'[d] # NULL => made'[d].at <= now'
    BY <1>3, <1>5 DEF SendExcluded, ProducerInv, Types
  <2>2. UNCHANGED <<stack, committed>> /\ c \notin AllRows \cup committed /\ now \in Nat
    BY <1>5 DEF SendExcluded, ProducerInv, Fresh, Types
  <2>3. Stored'
    <3>1. AllRows' \cup committed' \subseteq Calls \ {c}
      BY <2>2, RowsAreCalls DEF ProducerInv, Types, AllRows
    <3> QED
      BY <2>1, <2>2, <3>1 DEF Stored, AllRows
  <2>4. TimesAsMeant' /\ SentLinks'
    BY <2>1 DEF TimesAsMeant, SentLinks, Excluded
  <2> QED
    BY <2>1, <2>3, <2>4
<1>6. ASSUME NEW c \in Calls, NEW q \in Requests, SendTask(c, q) PROVE MeantInv'
  <2>1. /\ \A d \in Calls \ {c} : made'[d] = made[d] /\ row'[d] = row[d]
        /\ made'[c] = [request |-> q, at |-> now] /\ row'[c] = Serialized(q) /\ sent' = sent
        /\ \A d \in Calls : made'[d] # NULL => made'[d].at <= now'
    BY <1>3, <1>6 DEF SendTask, ProducerInv, Types
  <2>2. sent[c] = NULL /\ c \notin AllRows
    BY <1>6 DEF SendTask, ProducerInv, Fresh
  <2>3. AllRows' \cup committed' \subseteq AllRows \cup committed \cup {c}
    <3>1. CASE InAtomicBlock
      <4>1. /\ stack' = Append(Below, [rows |-> Top.rows \cup {c}, hooks |-> Append(Top.hooks, c)])
            /\ UNCHANGED <<committed, due>>
            /\ behind \subseteq behind' /\ (Pending(OWN) => c \in behind')
        BY <1>6, <3>1 DEF SendTask, Register
      <4>2. {c} = {c} \ {OWN} /\ {c} \cap AllRows = {} /\ (Pending(OWN) => {c} \subseteq behind')
        BY <2>2, <4>1, ProducerAssumption
      <4>3. AllRows' = AllRows \cup {c}
        BY <3>1, <4>1, <4>2, RegisterAddsRow DEF ProducerInv
      <4> QED
        BY <4>1, <4>3
    <3>2. CASE ~InAtomicBlock
      BY <1>6, <3>2 DEF SendTask, Register, AllRows
    <3> QED
      BY <3>1, <3>2
  <2>4. AllRows \cup committed \subseteq Calls
    BY RowsAreCalls DEF ProducerInv, Types
  <2>5. Stored'
    BY <1>4, <2>1, <2>3, <2>4 DEF Stored
  <2>6. TimesAsMeant' /\ SentLinks'
    BY <2>1, <2>2 DEF TimesAsMeant, SentLinks, Excluded
  <2> QED
    BY <2>1, <2>5, <2>6
<1>7. ASSUME NEW c \in Calls, RunCallback(c) PROVE MeantInv'
  BY <1>1, <1>7 DEF RunCallback, AllRows
<1>8. CASE EnterAtomic
  BY <1>1, <1>8, EnterKeepsRows DEF EnterAtomic, ProducerInv
<1>9. CASE LeaveAtomic
  <2>1. CASE Len(stack) > 1
    BY <1>1, <1>9, <2>1, JoinKeepsRows DEF LeaveAtomic, ProducerInv
  <2>2. CASE ~(Len(stack) > 1)
    <3>1. Len(stack) \in Nat \ {0} /\ Top = stack[Len(stack)]
      BY <1>9, BelowIs DEF LeaveAtomic, ProducerInv, Top
    <3>2. Top.rows \subseteq AllRows
      BY <3>1, AllRowsAre
    <3>3. stack' = <<>> /\ committed' = committed \cup Top.rows
          /\ UNCHANGED <<now, made, row, sent>>
      BY <1>9, <2>2 DEF LeaveAtomic
    <3>4. Len(stack') = 0
      BY <3>3
    <3>5. AllRows' = {}
      BY <3>4 DEF AllRows
    <3> QED
      BY <1>1, <3>2, <3>3, <3>5
  <2> QED
    BY <2>1, <2>2
<1>10. CASE RollBack
  BY <1>1, <1>10, PopStack DEF RollBack, ProducerInv
<1>11. CASE ProcessDies
  <2>1. stack' = <<>> /\ Len(stack') = 0 /\ UNCHANGED <<now, made, row, sent, committed>>
    BY <1>11 DEF ProcessDies
  <2>2. AllRows' = {}
    BY <2>1 DEF AllRows
  <2> QED
    BY <1>1, <2>1, <2>2
<1>12. CASE Tick
  BY <1>1, <1>12 DEF Tick, AllRows
<1>13. CASE UNCHANGED vars
  BY <1>1, <1>13 DEF vars, AllRows
<1>14. CASE RegisterOwn
  <2>1. stack' = Append(Below, [rows |-> Top.rows \cup {}, hooks |-> Append(Top.hooks, OWN)])
    BY <1>14 DEF RegisterOwn
  <2>2. AllRows' = AllRows \cup {}
    BY <1>14, <2>1, RegisterAddsRow DEF RegisterOwn, ProducerInv
  <2> QED
    BY <1>1, <1>14, <2>2 DEF RegisterOwn
<1>15. CASE OwnCallbackRaises
  BY <1>1, <1>15 DEF OwnCallbackRaises, AllRows
<1> QED
  BY <1>2, <1>5, <1>6, <1>7, <1>8, <1>9, <1>10, <1>11, <1>12, <1>13, <1>14, <1>15 DEF Next

LEMMA InitMeant == Init => MeantInv
<1> SUFFICES ASSUME Init PROVE MeantInv
  OBVIOUS
<1>1. AllRows = {} /\ committed = {}
  BY DEF Init, AllRows
<1> QED
  BY <1>1 DEF Init, MeantInv, Stored, TimesAsMeant, SentLinks

LEMMA MeantCallbacks == ProducerInv /\ SentLinks => CallbacksAsMeant
<1> SUFFICES ASSUME ProducerInv, SentLinks, NEW c \in Calls, sent[c] # NULL, ~Excluded(c)
             PROVE  LET link == made[c].request.link
                        list == sent[c].link
                    IN  \E at \in [1..Len(list) -> Kept(link)] :
                          /\ \A n \in 1..Len(list) : list[n] = link[at[n]]
                          /\ \A m, n \in 1..Len(list) : m < n => at[m] < at[n]
                          /\ \A i \in Kept(link) : \E n \in 1..Len(list) : at[n] = i
  BY DEF CallbacksAsMeant, Kept
<1>1. made[c].request.link \in Seq(Links)
  <2>1. made[c] \in [request : Requests, at : Nat]
    BY DEF ProducerInv, Fresh, Types
  <2> QED
    BY <2>1, ProducerAssumption
<1>2. sent[c].link = SignatureList(made[c].request.link)
  BY DEF SentLinks
<1> QED
  BY <1>1, <1>2, SignatureListIs

\* Of a call through the outbox, however long the relay waits and however often it
\* publishes: the task starts when the call meant it to, is not discarded before it
\* should be, and has the callbacks of the call that are signatures, in their order,
\* and no other.
THEOREM CallsAreSentAsMeant == Spec => []SentAsMeant
<1>1. ProducerInv /\ ProducerInv' /\ MeantInv /\ [Next]_vars => MeantInv'
  BY NextMeant
<1>2. ProducerInv /\ MeantInv => SentAsMeant
  BY MeantCallbacks DEF MeantInv, SentAsMeant
<1> QED
  BY <1>1, <1>2, InitMeant, ProducerInvariance, PTL DEF Spec
===============================================================================
