-------------------------- MODULE HubDispatchProofs --------------------------
(***************************************************************************)
(* The receiving side of the Hub app route keeps its promise, and the       *)
(* dispatcher its limits, for any number of operations, messages, rules,    *)
(* links, groups and goroutines, and any number of redeliveries, failed     *)
(* writes, restarts and passing of time.                                    *)
(*                                                                         *)
(* The invariant has one part per table: what hub_inbox and the hand-offs   *)
(* say of each other and of the answers given (InboxInv), what a call of    *)
(* dispatchAccess carries (CallsOK, RowsOK), how far the unlocked checks    *)
(* run behind (CacheInv, DepthInv), and what dispatch_work knows of the     *)
(* hand-off under way (HandoffInv, WholeInv).                               *)
(***************************************************************************)
EXTENDS HubDispatch, FiniteSetTheorems, SequenceTheorems, TLAPS

-----------------------------------------------------------------------------
(* The inbox. *)

Stored(c) == handoff[c] # "none"

\* The copies of a message are stored one after the other.
InOrder ==
  \A c \in Stores : Stored(c) => \A n \in 1..c[2] : Stored(<<c[1], n>>)

\* An entry names a stored message, and a stored message that no entry names
\* any more has no operation left that could still be in time.
Remembered ==
  /\ \A e \in inbox : Stored(e.copy)
  /\ \A c \in Stores : Stored(c) =>
       \/ OfMid(c[1]) # {}
       \/ \A p \in Ops : MidOf[p] = c[1] => now > Exp[p] + Skew

\* What was answered as stored is.
Answered ==
  \A a \in ack : a[2] = "stored" => <<MidOf[a[1]], 1>> \in Stores /\ Stored(<<MidOf[a[1]], 1>>)

InboxInv == InboxTypeOK /\ now \in Int /\ InOrder /\ Remembered /\ Answered

\* The stored messages of m are counted, so the next copy is the first one free.
LEMMA NextIsFree ==
  ASSUME InOrder, NEW m \in Mids, NextCopy(m) \in Stores
  PROVE  \E n \in 1..MaxCopies :
           /\ NextCopy(m) = <<m, n>> /\ ~Stored(<<m, n>>)
           /\ n = 1 \/ Stored(<<m, n - 1>>)
           /\ \A j \in 1..(n - 1) : Stored(<<m, j>>)
<1>0. MaxCopies \in Nat
  BY InboxConstants
<1>1. \A k \in Nat : IsFiniteSet({m} \X (1..k)) /\ Cardinality({m} \X (1..k)) = k
  <2> TAKE k \in Nat
  <2>1. IsFiniteSet({m}) /\ Cardinality({m}) = 1
    BY FS_Singleton, Zenon
  <2>2. IsFiniteSet(1..k) /\ Cardinality(1..k) = k
    BY FS_Interval
  <2>3. IsFiniteSet({m} \X (1..k)) /\ Cardinality({m} \X (1..k)) = Cardinality({m}) * Cardinality(1..k)
    BY <2>1, <2>2, FS_Product, Zenon
  <2> QED BY <2>1, <2>2, <2>3
<1>2. PICK S : S = {c \in Stores : c[1] = m /\ handoff[c] # "none"}
  OBVIOUS
<1>3. S \in SUBSET ({m} \X (1..MaxCopies))
  BY <1>2 DEF Stores
<1>4. IsFiniteSet(S)
  BY <1>0, <1>1, <1>3, FS_Subset
<1>5. PICK k \in Nat : k = Cardinality(S)
  BY <1>4, FS_CardinalityType
<1>6. PICK n \in Nat : n = k + 1
  OBVIOUS
<1>7. NextCopy(m) = <<m, n>> /\ n \in 1..MaxCopies
  <2>1. NextCopy(m) = <<m, n>>
    BY <1>2, <1>5, <1>6 DEF NextCopy
  <2> QED BY <2>1 DEF Stores
<1>8. ~Stored(<<m, n>>)
  <2> SUFFICES ASSUME Stored(<<m, n>>) PROVE FALSE
    OBVIOUS
  <2>1. <<m, n>> \in Stores
    BY <1>7 DEF Stores
  <2>2. \A j \in 1..n : Stored(<<m, j>>) /\ <<m, j>> \in Stores
    <3> TAKE j \in 1..n
    <3>1. <<m, n>>[1] = m /\ <<m, n>>[2] = n
      OBVIOUS
    <3>2. Stored(<<m, j>>)
      BY <2>1, <3>1 DEF InOrder
    <3> QED BY <1>0, <1>7, <3>2 DEF Stores
  <2>3. {m} \X (1..n) \in SUBSET S
    BY <1>2, <2>2 DEF Stored
  <2>4. Cardinality({m} \X (1..n)) <= Cardinality(S)
    BY <1>4, <2>3, FS_Subset
  <2> QED BY <1>1, <1>5, <1>6, <2>4
<1>9. \A j \in 1..(n - 1) : Stored(<<m, j>>)
  <2> SUFFICES ASSUME NEW j \in 1..(n - 1), ~Stored(<<m, j>>) PROVE FALSE
    OBVIOUS
  <2>1. \A c \in S : c \in {m} \X (1..(j - 1))
    <3> TAKE c \in S
    <3>1. c = <<m, c[2]>> /\ c[2] \in 1..MaxCopies /\ c \in Stores /\ c[1] = m /\ Stored(c)
      BY <1>2 DEF Stores, Stored
    <3>2. ~(j \in 1..c[2])
      BY <3>1 DEF InOrder
    <3>3. c[2] \in 1..(j - 1)
      BY <1>0, <3>1, <3>2
    <3> QED BY <3>1, <3>3
  <2>2. PICK i \in Nat : i = j - 1
    OBVIOUS
  <2>3. S \in SUBSET ({m} \X (1..i))
    BY <2>1, <2>2
  <2>4. Cardinality(S) <= Cardinality({m} \X (1..i))
    BY <1>1, <2>3, FS_Subset
  <2>5. Cardinality({m} \X (1..i)) = i
    BY <1>1
  <2> QED BY <1>5, <1>6, <2>2, <2>4, <2>5
<1> QED BY <1>6, <1>7, <1>8, <1>9, SMTT(30)

\* Entries go only when they are past their retention, and then no operation of
\* their message can be in time.
LEMMA ForgottenIsLate ==
  ASSUME InboxInv, NEW e \in inbox, ~Retained(e), NEW p \in Ops, MidOf[p] = MidOf[e.op]
  PROVE  now > Exp[p] + Skew
<1>1. e.op \in Ops
  BY DEF InboxInv, InboxTypeOK
<1>2. Exp[p] <= Exp[e.op] + Retention
  BY <1>1, RetentionCovers
<1>3. Exp[p] \in Nat /\ Exp[e.op] \in Nat /\ Skew \in Nat /\ Retention \in Nat /\ now \in Int
  BY <1>1, InboxConstants DEF InboxInv
<1> QED BY <1>2, <1>3 DEF Retained

\* An inbox that keeps what is retained and gains at most one entry, of an
\* operation it had not, naming a message that is stored.
LEMMA EntriesKept ==
  ASSUME InboxInv, handoff' \in [Stores -> {"none", "pending", "done"}], InOrder',
         \A c \in Stores : Stored(c) => Stored(c)',
         now' = now,
         NEW K \in SUBSET inbox, \A e \in inbox : e \in K \/ ~Retained(e),
         NEW A, A = {} \/ \E o \in Ops, c \in Stores :
           A = {[op |-> o, copy |-> c]} /\ Entries(o) = {} /\ c[1] = MidOf[o] /\ Stored(c)',
         inbox' = K \cup A,
         \A c \in Stores : Stored(c)' => Stored(c) \/ \E e \in A : e.copy = c
  PROVE  /\ Remembered'
         /\ inbox' \subseteq [op : Ops, copy : Stores]
         /\ (\A e \in inbox : Entries(e.op) = {e} /\ e.copy[1] = MidOf[e.op])'
<1>1. \A e \in A : /\ e \in [op : Ops, copy : Stores] /\ Entries(e.op) = {}
                   /\ e.copy[1] = MidOf[e.op] /\ Stored(e.copy)'
                   /\ A = {e}
  OBVIOUS
<1>2. \A e \in K : e \in inbox /\ e \in [op : Ops, copy : Stores] /\ e.copy[1] = MidOf[e.op]
                   /\ Stored(e.copy)' /\ Entries(e.op) = {e}
  BY DEF InboxInv, InboxTypeOK, Remembered
<1>3. inbox' \subseteq [op : Ops, copy : Stores] /\ \A e \in inbox' : e.copy[1] = MidOf[e.op]
  BY <1>1, <1>2
<1>4. \A e \in inbox' : {f \in inbox' : f.op = e.op} = {e}
  <2> TAKE e \in inbox'
  <2>1. CASE e \in A
    <3>1. \A f \in K : f.op # e.op
      BY <1>1, <1>2, <2>1 DEF Entries
    <3> QED BY <1>1, <2>1, <3>1
  <2>2. CASE e \in K
    <3>1. \A f \in K : f.op = e.op => f = e
      BY <1>2, <2>2 DEF Entries
    <3>2. \A f \in A : f.op # e.op
      BY <1>1, <2>2 DEF Entries
    <3> QED BY <2>2, <3>1, <3>2
  <2> QED BY <2>1, <2>2
<1>5. \A e \in inbox' : Stored(e.copy)'
  BY <1>1, <1>2
<1>6. ASSUME NEW c \in Stores, Stored(c)'
      PROVE  \/ {e \in inbox' : MidOf[e.op] = c[1]} # {}
             \/ \A p \in Ops : MidOf[p] = c[1] => now' > Exp[p] + Skew
  <2>1. CASE \E e \in A : e.copy = c
    BY <1>1, <2>1
  <2>2. CASE Stored(c)
    <3>1. CASE \A p \in Ops : MidOf[p] = c[1] => now > Exp[p] + Skew
      BY <3>1
    <3>2. CASE OfMid(c[1]) # {}
      <4>1. PICK e \in inbox : MidOf[e.op] = c[1]
        BY <3>2 DEF OfMid
      <4>2. CASE e \in K
        BY <4>1, <4>2
      <4>3. CASE ~Retained(e)
        BY <4>1, <4>3, ForgottenIsLate
      <4> QED BY <4>2, <4>3
    <3> QED BY <2>2, <3>1, <3>2 DEF InboxInv, Remembered
  <2> QED BY <1>6, <2>1, <2>2
<1> QED BY <1>3, <1>4, <1>5, <1>6 DEF Remembered, Entries, OfMid

\* What a commit leaves of the entries that were there.
LEMMA RestKept == Rest \in SUBSET inbox /\ \A e \in inbox : e \in Rest \/ ~Retained(e)
BY DEF Rest, Live

\* The second storing of a message: the first was forgotten, so the deadline has
\* passed, and an established clock would have said so.
LEMMA SecondIsUnjudged ==
  ASSUME InboxInv, NEW o \in Ops, Answer(o) = "stored", Entries(o) = {},
         OfMid(MidOf[o]) = {}, NEW c \in Stores, c[1] = MidOf[o], Stored(c)
  PROVE  ~clockOK
<1>1. now > Exp[o] + Skew
  BY DEF InboxInv, Remembered
<1> QED BY <1>1 DEF Answer

\* A delivery of operation o is taken: its message is stored if it was not, or
\* again when its deadline is not judged, and answered as stored only then.
Receipt(o, judged) ==
  /\ unjudged' = IF judged THEN unjudged ELSE unjudged \cup {MidOf[o]}
  /\ \/ handoff' = handoff
     \/ \E n \in 1..MaxCopies :
          /\ ~Stored(<<MidOf[o], n>>)
          /\ \/ n = 1
             \/ Stored(<<MidOf[o], n - 1>>) /\ ~judged
          /\ handoff' = [handoff EXCEPT ![<<MidOf[o], n>>] = "pending"]
  /\ \/ ack' = ack
     \/ \E x \in {"stored", "refused", "busy"} :
          /\ x = "stored" => <<MidOf[o], 1>> \in Stores /\ Stored(<<MidOf[o], 1>>)'
          /\ ack' = ack \cup {<<o, x>>}

\* The first copy of a message with a stored copy is stored.
LEMMA FirstIsStored ==
  ASSUME InOrder, NEW c \in Stores, Stored(c)
  PROVE  <<c[1], 1>> \in Stores /\ Stored(<<c[1], 1>>)
<1>1. c[1] \in Mids /\ c[2] \in 1..MaxCopies /\ 1 \in 1..c[2] /\ 1 \in 1..MaxCopies
  BY InboxConstants DEF Stores
<1> QED BY <1>1 DEF InOrder, Stores

\* A commit that stores a message of its own.
LEMMA InsertNew ==
  ASSUME InboxInv, NEW o \in Ops, Answer(o) = "stored", Entries(o) = {},
         OfMid(MidOf[o]) = {}, NextCopy(MidOf[o]) \in Stores,
         inbox' = Rest \cup {[op |-> o, copy |-> NextCopy(MidOf[o])]},
         handoff' = [handoff EXCEPT ![NextCopy(MidOf[o])] = "pending"], now' = now
  PROVE  /\ handoff' \in [Stores -> {"none", "pending", "done"}] /\ InOrder' /\ Remembered'
         /\ inbox' \subseteq [op : Ops, copy : Stores]
         /\ (\A e \in inbox : Entries(e.op) = {e} /\ e.copy[1] = MidOf[e.op])'
         /\ \A c \in Stores : Stored(c) => Stored(c)'
         /\ \E n \in 1..MaxCopies :
              /\ ~Stored(<<MidOf[o], n>>)
              /\ \/ n = 1
                 \/ Stored(<<MidOf[o], n - 1>>) /\ ~clockOK
              /\ handoff' = [handoff EXCEPT ![<<MidOf[o], n>>] = "pending"]
         /\ <<MidOf[o], 1>> \in Stores /\ Stored(<<MidOf[o], 1>>)'
<1>0. MidOf[o] \in Mids
  BY DEF Mids
<1>1. PICK n \in 1..MaxCopies :
         /\ NextCopy(MidOf[o]) = <<MidOf[o], n>> /\ ~Stored(<<MidOf[o], n>>)
         /\ n = 1 \/ Stored(<<MidOf[o], n - 1>>)
         /\ \A j \in 1..(n - 1) : Stored(<<MidOf[o], j>>)
  BY <1>0, NextIsFree DEF InboxInv
<1>2. PICK c \in Stores : c = <<MidOf[o], n>>
  BY <1>1
<1>3. handoff \in [Stores -> {"none", "pending", "done"}]
  BY DEF InboxInv, InboxTypeOK
<1>4. /\ handoff' \in [Stores -> {"none", "pending", "done"}]
      /\ Stored(c)' /\ \A d \in Stores : d # c => (Stored(d)' <=> Stored(d))
  BY <1>1, <1>2, <1>3 DEF Stored
<1>5. InOrder'
  <2> SUFFICES ASSUME NEW d \in Stores, Stored(d)', NEW j \in 1..d[2]
               PROVE  Stored(<<d[1], j>>)'
    BY DEF InOrder
  <2>0. <<d[1], j>> \in Stores /\ d = <<d[1], d[2]>> /\ d[2] \in 1..MaxCopies
    BY InboxConstants DEF Stores
  <2>1. CASE d = c
    <3>1. d[1] = MidOf[o] /\ d[2] = n
      BY <1>2, <2>1
    <3>2. CASE j = n
      BY <1>2, <1>4, <3>1, <3>2
    <3>3. CASE j # n
      <4>1. j \in 1..(n - 1)
        BY <3>1, <3>3
      <4>2. Stored(<<d[1], j>>)
        BY <1>1, <3>1, <4>1
      <4> QED BY <1>4, <2>0, <4>2
    <3> QED BY <3>2, <3>3
  <2>2. CASE d # c
    <3>1. Stored(<<d[1], j>>)
      BY <1>4, <2>2 DEF InboxInv, InOrder
    <3> QED BY <1>4, <2>0, <3>1
  <2> QED BY <2>1, <2>2
<1>6. /\ Remembered'
      /\ inbox' \subseteq [op : Ops, copy : Stores]
      /\ (\A e \in inbox : Entries(e.op) = {e} /\ e.copy[1] = MidOf[e.op])'
  <2>1. PICK A : A = {[op |-> o, copy |-> c]}
    OBVIOUS
  <2>2. c[1] = MidOf[o] /\ inbox' = Rest \cup A
    BY <1>1, <1>2, <2>1
  <2>3. \A d \in Stores : Stored(d)' => Stored(d) \/ \E e \in A : e.copy = d
    BY <1>4, <2>1
  <2>4. A = {} \/ \E q \in Ops, d \in Stores :
          A = {[op |-> q, copy |-> d]} /\ Entries(q) = {} /\ d[1] = MidOf[q] /\ Stored(d)'
    BY <1>4, <2>1, <2>2
  <2>5. \A d \in Stores : Stored(d) => Stored(d)'
    BY <1>4
  <2>6. Rest \in SUBSET inbox /\ \A e \in inbox : e \in Rest \/ ~Retained(e)
    BY RestKept
  <2>7. handoff' \in [Stores -> {"none", "pending", "done"}] /\ inbox' = Rest \cup A
    BY <1>4, <2>2
  <2> QED BY <1>5, <2>3, <2>4, <2>5, <2>6, <2>7, EntriesKept, ZenonT(60)
<1>7. n = 1 \/ (Stored(<<MidOf[o], n - 1>>) /\ ~clockOK)
  <2> SUFFICES ASSUME n # 1, Stored(<<MidOf[o], n - 1>>) PROVE ~clockOK
    BY <1>1
  <2>1. PICK d \in Stores : d = <<MidOf[o], n - 1>>
    BY <1>0, InboxConstants DEF Stores
  <2>2. d[1] = MidOf[o] /\ Stored(d)
    BY <2>1
  <2> QED BY <2>2, SecondIsUnjudged
<1>8. <<c[1], 1>> \in Stores /\ Stored(<<c[1], 1>>)'
  <2>1. 1 \in 1..n /\ 1 \in 1..MaxCopies /\ c[1] = MidOf[o] /\ c[2] = n
    BY <1>2, InboxConstants
  <2>2. Stored(<<c[1], 1>>)'
    BY <1>4, <1>5, <2>1 DEF InOrder
  <2> QED BY <1>0, <2>1, <2>2 DEF Stores
<1>9. c[1] = MidOf[o]
  BY <1>2
<1> QED BY <1>1, <1>4, <1>5, <1>6, <1>7, <1>8, <1>9

\* A commit for a message an entry names already.
LEMMA InsertKnown ==
  ASSUME InboxInv, NEW o \in Ops, Entries(o) = {}, NEW k \in OfMid(MidOf[o]),
         inbox' = Rest \cup {[op |-> o, copy |-> k.copy]}, handoff' = handoff, now' = now
  PROVE  /\ Remembered'
         /\ inbox' \subseteq [op : Ops, copy : Stores]
         /\ (\A e \in inbox : Entries(e.op) = {e} /\ e.copy[1] = MidOf[e.op])'
<1>1. k.copy \in Stores /\ k.copy[1] = MidOf[o] /\ Stored(k.copy)'
  BY DEF InboxInv, InboxTypeOK, Remembered, OfMid, Stored
<1>2. PICK A : A = {[op |-> o, copy |-> k.copy]}
  OBVIOUS
<1>3. A = {} \/ \E q \in Ops, d \in Stores :
        A = {[op |-> q, copy |-> d]} /\ Entries(q) = {} /\ d[1] = MidOf[q] /\ Stored(d)'
  BY <1>1, <1>2
<1>4. /\ handoff' \in [Stores -> {"none", "pending", "done"}] /\ InOrder'
      /\ \A d \in Stores : Stored(d) => Stored(d)'
      /\ \A d \in Stores : Stored(d)' => Stored(d) \/ \E e \in A : e.copy = d
  BY DEF InboxInv, InboxTypeOK, InOrder, Stored
<1>5. Rest \in SUBSET inbox /\ \A e \in inbox : e \in Rest \/ ~Retained(e)
  BY RestKept
<1>6. inbox' = Rest \cup A
  BY <1>2
<1> QED BY <1>3, <1>4, <1>5, <1>6, EntriesKept, ZenonT(60)

\* Entries past their retention are forgotten, nothing else.
LEMMA OnlyForgotten ==
  ASSUME InboxInv, NEW K \in SUBSET inbox, \A e \in inbox : e \in K \/ ~Retained(e),
         inbox' = K, handoff' = handoff, now' = now
  PROVE  /\ Remembered'
         /\ inbox' \subseteq [op : Ops, copy : Stores]
         /\ (\A e \in inbox : Entries(e.op) = {e} /\ e.copy[1] = MidOf[e.op])'
<1>1. PICK A : A = {}
  OBVIOUS
<1>2. /\ handoff' \in [Stores -> {"none", "pending", "done"}] /\ InOrder'
      /\ \A d \in Stores : Stored(d) => Stored(d)'
      /\ \A d \in Stores : Stored(d)' => Stored(d) \/ \E e \in A : e.copy = d
  BY DEF InboxInv, InboxTypeOK, InOrder, Stored
<1>3. inbox' = K \cup A
  BY <1>1
<1> QED BY <1>1, <1>2, <1>3, EntriesKept, ZenonT(60)

\* The answers given go on being true, and the one just given is.
LEMMA AnswersKept ==
  ASSUME InboxInv, NEW o \in Ops,
         \A c \in Stores : Stored(c) => Stored(c)',
         \/ ack' = ack
         \/ \E x \in {"stored", "refused", "busy"} :
              /\ x = "stored" => <<MidOf[o], 1>> \in Stores /\ Stored(<<MidOf[o], 1>>)'
              /\ ack' = ack \cup {<<o, x>>}
  PROVE  Answered' /\ ack' \subseteq Ops \X {"stored", "refused", "busy"}
<1>1. CASE ack' = ack
  BY <1>1 DEF InboxInv, InboxTypeOK, Answered
<1>2. ASSUME NEW x \in {"stored", "refused", "busy"},
             x = "stored" => <<MidOf[o], 1>> \in Stores /\ Stored(<<MidOf[o], 1>>)',
             ack' = ack \cup {<<o, x>>}
      PROVE  Answered' /\ ack' \subseteq Ops \X {"stored", "refused", "busy"}
  <2>1. ack' \subseteq Ops \X {"stored", "refused", "busy"}
    BY <1>2 DEF InboxInv, InboxTypeOK
  <2>2. ASSUME NEW a \in ack', a[2] = "stored"
        PROVE  <<MidOf[a[1]], 1>> \in Stores /\ Stored(<<MidOf[a[1]], 1>>)'
    <3>1. CASE a \in ack
      BY <2>2, <3>1 DEF InboxInv, Answered
    <3>2. CASE a = <<o, x>>
      <4>1. a[1] = o /\ x = "stored"
        BY <2>2, <3>2
      <4> QED BY <1>2, <4>1
    <3> QED BY <1>2, <3>1, <3>2
  <2> QED BY <2>1, <2>2 DEF Answered
<1> QED BY <1>1, <1>2

\* HandleIn, whatever fails in it, keeps the inbox right and is a receipt.
LEMMA HandleInReceipt ==
  ASSUME InboxInv, NEW o \in Ops, NEW F, HandleIn(o, F)
  PROVE  InboxInv' /\ \E judged \in BOOLEAN : Receipt(o, judged)
<1>0. /\ now' = now /\ clockOK' = clockOK /\ inn' \subseteq Ops /\ clockOK \in BOOLEAN
      /\ now \in Int /\ MidOf[o] \in Mids /\ unjudged \subseteq Mids
      /\ handoff \in [Stores -> {"none", "pending", "done"}]
  BY DEF HandleIn, InboxInv, InboxTypeOK, Mids
<1> DEFINE AckOK == \/ ack' = ack
                    \/ \E x \in {"stored", "refused", "busy"} :
                         /\ x = "stored" => <<MidOf[o], 1>> \in Stores /\ Stored(<<MidOf[o], 1>>)'
                         /\ ack' = ack \cup {<<o, x>>}
           BoxOK == /\ Remembered' /\ inbox' \subseteq [op : Ops, copy : Stores]
                    /\ (\A e \in inbox : Entries(e.op) = {e} /\ e.copy[1] = MidOf[e.op])'
                    /\ handoff' \in [Stores -> {"none", "pending", "done"}] /\ InOrder'
                    /\ \A c \in Stores : Stored(c) => Stored(c)'
                    /\ unjudged' \subseteq Mids
<1>1. BoxOK /\ AckOK => InboxInv'
  <2> HAVE BoxOK /\ AckOK
  <2>1. Answered' /\ ack' \subseteq Ops \X {"stored", "refused", "busy"}
    BY AnswersKept, Zenon
  <2> QED BY <1>0, <2>1 DEF InboxInv, InboxTypeOK
<1>2. CASE UNCHANGED <<ack, inbox, handoff, unjudged>>
  <2>1. InboxInv'
    BY <1>0, <1>2 DEF InboxInv, InboxTypeOK, InOrder, Remembered, Answered, Stored, Entries, OfMid
  <2>2. Receipt(o, TRUE)
    BY <1>2 DEF Receipt
  <2> QED BY <2>1, <2>2
<1>3. CASE Commit(o) /\ (ack' = ack \cup {<<o, Answer(o)>>} \/ ack' = ack)
  <2>0. Answer(o) \in {"stored", "refused", "busy"}
    BY DEF Answer
  <2>1. (Answer(o) = "stored" => <<MidOf[o], 1>> \in Stores /\ Stored(<<MidOf[o], 1>>)') => AckOK
    BY <1>3, <2>0
  <2>2. CASE /\ Entries(o) = {} /\ Answer(o) = "stored" /\ OfMid(MidOf[o]) = {}
             /\ Insert(o)
    <3>1. PICK c : c = NextCopy(MidOf[o])
      OBVIOUS
    <3>2. /\ c \in Stores /\ inbox' = Rest \cup {[op |-> o, copy |-> c]}
          /\ handoff' = [handoff EXCEPT ![c] = "pending"]
          /\ unjudged' = IF clockOK THEN unjudged ELSE unjudged \cup {MidOf[o]}
      BY <2>2, <3>1 DEF Insert
    <3>3. /\ handoff' \in [Stores -> {"none", "pending", "done"}] /\ InOrder' /\ Remembered'
          /\ inbox' \subseteq [op : Ops, copy : Stores]
          /\ (\A e \in inbox : Entries(e.op) = {e} /\ e.copy[1] = MidOf[e.op])'
          /\ \A d \in Stores : Stored(d) => Stored(d)'
          /\ \E n \in 1..MaxCopies :
               /\ ~Stored(<<MidOf[o], n>>)
               /\ \/ n = 1
                  \/ Stored(<<MidOf[o], n - 1>>) /\ ~clockOK
               /\ handoff' = [handoff EXCEPT ![<<MidOf[o], n>>] = "pending"]
          /\ <<MidOf[o], 1>> \in Stores /\ Stored(<<MidOf[o], 1>>)'
      BY <1>0, <2>2, <3>1, <3>2, InsertNew, ZenonT(60)
    <3>4. BoxOK /\ AckOK
      BY <1>0, <2>1, <3>2, <3>3
    <3>5. Receipt(o, clockOK)
      BY <3>2, <3>3, <3>4 DEF Receipt
    <3> QED BY <1>0, <1>1, <3>4, <3>5
  <2>3. CASE /\ Entries(o) = {} /\ Answer(o) = "stored" /\ OfMid(MidOf[o]) # {}
             /\ Insert(o)
    <3>1. {e.copy : e \in OfMid(MidOf[o])} # {}
      BY <2>3
    <3>2. PICK k \in OfMid(MidOf[o]) :
            /\ inbox' = Rest \cup {[op |-> o, copy |-> k.copy]} /\ handoff' = handoff
            /\ unjudged' = IF clockOK THEN unjudged ELSE unjudged \cup {MidOf[o]}
      BY <2>3, <3>1 DEF Insert
    <3>3. /\ Remembered'
          /\ inbox' \subseteq [op : Ops, copy : Stores]
          /\ (\A e \in inbox : Entries(e.op) = {e} /\ e.copy[1] = MidOf[e.op])'
      BY <1>0, <2>3, <3>2, InsertKnown, ZenonT(60)
    <3>4. k.copy \in Stores /\ k.copy[1] = MidOf[o] /\ Stored(k.copy)
      BY DEF InboxInv, InboxTypeOK, Remembered, OfMid, Stored
    <3>5. <<MidOf[o], 1>> \in Stores /\ Stored(<<MidOf[o], 1>>)'
      BY <3>2, <3>4, FirstIsStored DEF InboxInv, Stored
    <3>6. BoxOK
      BY <1>0, <3>2, <3>3 DEF InboxInv, InOrder, Stored
    <3>7. Receipt(o, clockOK)
      BY <2>1, <3>2, <3>5 DEF Receipt
    <3> QED BY <1>0, <1>1, <2>1, <3>5, <3>6, <3>7
  <2>4. CASE /\ Answer(o) = "busy" /\ inbox' = Rest /\ UNCHANGED <<handoff, unjudged>>
    <3>1. Rest \in SUBSET inbox /\ \A e \in inbox : e \in Rest \/ ~Retained(e)
      BY RestKept
    <3>2. /\ Remembered'
          /\ inbox' \subseteq [op : Ops, copy : Stores]
          /\ (\A e \in inbox : Entries(e.op) = {e} /\ e.copy[1] = MidOf[e.op])'
      BY <1>0, <2>4, <3>1, OnlyForgotten, ZenonT(60)
    <3>3. BoxOK /\ AckOK
      BY <1>0, <2>1, <2>4, <3>2 DEF InboxInv, InOrder, Stored
    <3>4. Receipt(o, TRUE)
      BY <2>4, <3>3 DEF Receipt
    <3> QED BY <1>1, <3>3, <3>4
  <2>5. CASE /\ Entries(o) # {} \/ Answer(o) = "refused"
             /\ UNCHANGED <<inbox, handoff, unjudged>>
    <3>1. Answer(o) = "stored" => <<MidOf[o], 1>> \in Stores /\ Stored(<<MidOf[o], 1>>)'
      <4>1. CASE Entries(o) # {}
        <5>1. PICK e \in inbox : e.op = o
          BY <4>1 DEF Entries
        <5>2. e.copy \in Stores /\ e.copy[1] = MidOf[o] /\ Stored(e.copy)
          BY <5>1 DEF InboxInv, InboxTypeOK, Remembered
        <5> QED BY <2>5, <5>2, FirstIsStored DEF InboxInv, Stored
      <4>2. CASE Answer(o) = "refused"
        BY <4>2
      <4> QED BY <2>5, <4>1, <4>2
    <3>2. BoxOK
      BY <1>0, <2>5 DEF InboxInv, InboxTypeOK, InOrder, Remembered, Stored, Entries, OfMid
    <3>3. Receipt(o, TRUE)
      BY <2>1, <2>5, <3>1 DEF Receipt
    <3> QED BY <1>1, <2>1, <3>1, <3>2, <3>3
  <2> QED BY <1>3, <2>2, <2>3, <2>4, <2>5 DEF Commit
<1> QED BY <1>2, <1>3 DEF HandleIn

\* The steps that leave the messages alone.
LEMMA InboxQuiet ==
  ASSUME InboxInv, UNCHANGED <<ack, handoff, unjudged>>,
         \/ inbox' = inbox
         \/ inbox' = Live /\ now' = now,
         now' = now \/ now' = now + 1,
         inn' \subseteq Ops, clockOK' \in BOOLEAN
  PROVE  InboxInv'
<1>0. /\ now \in Int /\ now' \in Int /\ now' >= now
      /\ \A p \in Ops : Exp[p] + Skew \in Int
  BY InboxConstants DEF InboxInv
<1>1. /\ Remembered'
      /\ inbox' \subseteq [op : Ops, copy : Stores]
      /\ (\A e \in inbox : Entries(e.op) = {e} /\ e.copy[1] = MidOf[e.op])'
  <2>1. CASE inbox' = inbox
    <3>1. ASSUME NEW c \in Stores, Stored(c)'
          PROVE  (OfMid(c[1]) # {} \/ \A p \in Ops : MidOf[p] = c[1] => now > Exp[p] + Skew)'
      BY <1>0, <2>1, <3>1 DEF InboxInv, Remembered, Stored, OfMid
    <3> QED BY <2>1, <3>1 DEF InboxInv, InboxTypeOK, Remembered, Stored, Entries, OfMid
  <2>2. CASE inbox' = Live /\ now' = now
    <3>1. Live \in SUBSET inbox /\ \A e \in inbox : e \in Live \/ ~Retained(e)
      BY DEF Live
    <3> QED BY <2>2, <3>1, OnlyForgotten, ZenonT(60)
  <2> QED BY <2>1, <2>2
<1> QED BY <1>0, <1>1 DEF InboxInv, InboxTypeOK, InOrder, Answered, Stored

\* A hand-off is marked done: what is stored stays so.
LEMMA InboxDone ==
  ASSUME InboxInv, NEW c \in Stores, HandoffDone(c)
  PROVE  InboxInv' /\ \A d \in Stores : Stored(d)' <=> Stored(d)
<1>1. handoff' \in [Stores -> {"none", "pending", "done"}] /\ \A d \in Stores : Stored(d)' <=> Stored(d)
  BY DEF HandoffDone, InboxInv, InboxTypeOK, Stored
<1>2. UNCHANGED <<now, clockOK, inn, ack, inbox, unjudged>>
  BY DEF HandoffDone
<1>3. InOrder'
  <2> SUFFICES ASSUME NEW d \in Stores, Stored(d)', NEW n \in 1..d[2]
               PROVE  Stored(<<d[1], n>>)'
    BY DEF InOrder
  <2>1. <<d[1], n>> \in Stores
    BY InboxConstants DEF Stores
  <2> QED BY <1>1, <2>1 DEF InboxInv, InOrder
<1>4. Remembered' /\ Answered'
  <2>1. \A e \in inbox : e.copy \in Stores
    BY DEF InboxInv, InboxTypeOK
  <2> QED BY <1>1, <1>2, <2>1 DEF InboxInv, Remembered, Answered, OfMid
<1> QED BY <1>1, <1>2, <1>3, <1>4 DEF InboxInv, InboxTypeOK, Entries

-----------------------------------------------------------------------------
(* The calls of dispatchAccess. *)

OnLink == {"depth", "weakest", "evict", "bytes", "insert"}

RuleCalls ==
  [at : {"rule"}, pay : Payloads, origin : Copies \cup {NoCopy}, i : Nat,
   listed : SUBSET Works, failed : BOOLEAN]
LinkCalls ==
  [at : OnLink, pay : Payloads, origin : Copies \cup {NoCopy}, i : Nat,
   listed : SUBSET Works, failed : BOOLEAN, link : Links, again : BOOLEAN,
   todo : Seq(AllDests), victim : Nat, made : BOOLEAN]

\* the links a rule's target may stand for
Resolves(t, l) == t = l \/ (t \in DOMAIN Groups /\ l \in Range(Groups[t]))

\* Each goroutine is at a rule of its own or past the last one, and one that is
\* at a link got there by the rule's target and off its own path.
CallOK(c) ==
  LET k == call[c]
  IN /\ k \in {Idle} \cup RuleCalls \cup LinkCalls
     /\ k # Idle => (k.origin # NoCopy <=> c = Keyed)
     /\ k.at = "rule" => k.i \in 1..(Len(Matches[c]) + 1)
     /\ k.at \in OnLink =>
          /\ k.i \in 1..Len(Matches[c])
          /\ Resolves(Target[Rule(c)], k.link) /\ k.link \notin Visited[c]
          /\ Range(k.todo) \subseteq Range(Dests[k.link])
          /\ Len(k.todo) <= Len(Dests[k.link])
          /\ k.again => k.at = "insert" /\ Again(c)
          /\ k.made => k.at = "insert"

QueueRows ==
  [id : Nat, link : Links, pay : Payloads, prio : Range(Priority), sending : BOOLEAN]

RowsOK ==
  /\ queue \subseteq QueueRows /\ IsFiniteSet(queue)
  /\ \A r, q \in queue : q.id = r.id => q = r

\* The row a goroutine is about to evict is, if it is still there, one of the
\* link it is at.
VictimOK ==
  \A c \in Callers : call[c].at = "evict" =>
    \A r \in queue : r.id = call[c].victim => r.link = call[c].link

\* dispatch_work lists work of rules that led to the link of its destination.
WorkOK ==
  /\ work \subseteq Works
  /\ \A x \in work : \E l \in Links :
       /\ Resolves(Target[x[2][1]], l) /\ l \notin Visited[Keyed]
       /\ x[2][2] \in Range(Dests[l])

\* The list a call read is of its own message, and still holds: only the end of
\* the call forgets it.
ListedOK ==
  \A c \in Callers : call[c] # Idle =>
    \A x \in call[c].listed : x \in work /\ x[1] = call[c].origin

TablesOK ==
  /\ status \in [Links -> {"online", "waiting", "off"}]
  /\ noted \subseteq Links \X Payloads
  /\ made \in [Works -> Nat] /\ copies \in [Links \X Payloads -> Nat]

CallsOK == DOMAIN call = Callers /\ \A c \in Callers : CallOK(c)

DispatchInv == CallsOK /\ RowsOK /\ VictimOK /\ WorkOK /\ ListedOK /\ TablesOK

\* Goroutines past the dedup check for e = <<link, payload>>: those that have
\* not queued a row yet, and those that have and are about to say so.
At(c, e) == call[c].at \in OnLink /\ <<call[c].link, call[c].pay>> = e /\ ~call[c].again
Hopeful(e) == {c \in Callers : At(c, e) /\ ~call[c].made}
Telling(e) == {c \in Callers : At(c, e) /\ call[c].made}

\* While the cache knows nothing of e, whoever queued it is about to say so.
CacheAt(e) ==
  /\ copies[e] + Cardinality(Hopeful(e)) <= Cardinality(Callers)
  /\ e \in noted \/ copies[e] <= Cardinality(Telling(e))
CacheInv == \A e \in Links \X Payloads : CacheAt(e)

\* The Hub route's hand-off: its list and its call are of pending messages,
\* dispatch_work is theirs, and what was made is listed until it is done.
HandoffInv ==
  /\ hs \subseteq {c \in Stores : handoff[c] = "pending"}
  /\ call[Keyed] # Idle => call[Keyed].origin \in hs
  /\ \A w \in work : handoff[w[1]] = "pending" /\ made[w] > 0
  /\ \A w \in Works : made[w] = 0 \/ w \in work \/ handoff[w[1]] = "done"

\* the destinations rule r, with a link of its own, made rows for
MadeFor(c, r) == {d \in Range(Dests[Target[r]]) : made[<<c, <<r, d>>>>] > 0}
Whole(c, r) == MadeFor(c, r) \in {{}, Range(Dests[Target[r]])}
Direct == {r \in Range(Matches[Keyed]) : Target[r] \in Links}

\* the rules the hand-off is through with
Past == {Matches[Keyed][j] : j \in 1..(call[Keyed].i - 1)}

\* In a hand-off without a failure so far: a rule that is through made all or
\* nothing, one to come made only what the list tells, and one at its limits
\* made nothing, or is whole; one at its rows has the rest of them to do.
Undisturbed ==
  LET k == call[Keyed]
      R == Rule(Keyed)
      c == k.origin
  IN /\ \A r \in Direct : ~(k.at = "insert" /\ r = R) =>
          IF r \in Past THEN Whole(c, r)
          ELSE \A d \in MadeFor(c, r) : <<c, <<r, d>>>> \in k.listed
     /\ k.at \in OnLink \ {"insert"} /\ R \in Direct =>
          Whole(c, R) /\ Range(k.todo) = Range(Dests[k.link])
     /\ k.at = "insert" /\ R \in Direct =>
          \A d \in Range(Dests[k.link]) : d \in Range(k.todo) \/ made[<<c, <<R, d>>>>] > 0

WholeInv ==
  /\ WholeOrNone
  /\ call[Keyed] # Idle /\ ~call[Keyed].failed => Undisturbed

IInv ==
  /\ InboxInv /\ DispatchInv /\ CacheInv /\ DepthBound /\ HandoffInv /\ WholeInv

-----------------------------------------------------------------------------
(* The steps of a call, field by field. *)

\* Only goroutine c moves.
Alone(c) == DOMAIN call' = Callers /\ \A d \in Callers : d # c => call'[d] = call[d]

\* c is through with its rule.
Leaves(c) ==
  LET k == call[c]
      e == call'[c]
  IN /\ Alone(c) /\ e \in RuleCalls /\ k.i \in 1..Len(Matches[c])
     /\ e.pay = k.pay /\ e.origin = k.origin /\ e.listed = k.listed
     /\ e.failed = k.failed /\ e.i = k.i + 1

\* c goes on at its link.
Stays(c) ==
  LET k == call[c]
      e == call'[c]
  IN /\ Alone(c) /\ k \in LinkCalls /\ e \in LinkCalls
     /\ e.pay = k.pay /\ e.origin = k.origin /\ e.listed = k.listed
     /\ e.i = k.i /\ e.link = k.link /\ e.again = k.again

Untouched == UNCHANGED <<queue, status, noted, work, made, copies>>

\* TakeRule without a link to go to, and with one.
Skips(c) ==
  /\ call[c].at = "rule" /\ Leaves(c) /\ Untouched
  /\ LET l == Resolve(Target[Rule(c)])
     IN l = NoLink \/ l \in Visited[c] \/ ~Again(c)
Enters(c) ==
  LET k == call[c]
      e == call'[c]
  IN /\ k.at = "rule" /\ k.i \in 1..Len(Matches[c]) /\ Alone(c) /\ Untouched
     /\ e \in LinkCalls
     /\ e.pay = k.pay /\ e.origin = k.origin /\ e.listed = k.listed
     /\ e.failed = k.failed /\ e.i = k.i
     /\ Resolves(Target[Rule(c)], e.link) /\ e.link \notin Visited[c]
     /\ e.again = Again(c) /\ e.todo = Dests[e.link] /\ ~e.made
     /\ IF Again(c) THEN e.at = "insert" ELSE e.at = "depth" /\ <<e.link, k.pay>> \notin noted

\* a limit or the loss of the victim refuses the arrival
Drops(c) ==
  call[c].at \in OnLink \ {"insert"} /\ Leaves(c) /\ Untouched

\* from check to check
Moves(c) ==
  LET k == call[c]
      e == call'[c]
  IN /\ Stays(c) /\ Untouched
     /\ e.todo = k.todo /\ e.made = k.made /\ e.failed = k.failed
     /\ \/ k.at = "depth" /\ e.at = "weakest"
        \/ k.at = "depth" /\ e.at = "bytes" /\ ~(QueueDepth(k.link) >= MaxDepth)
        \/ k.at = "weakest" /\ e.at = "evict" /\ \E r \in On(k.link) : e.victim = r.id
        \/ k.at = "bytes" /\ e.at = "insert"

Evicts(c) ==
  LET k == call[c]
      e == call'[c]
  IN /\ Stays(c) /\ k.at = "evict" /\ e.at = "bytes"
     /\ e.todo = k.todo /\ e.made = k.made /\ e.failed = k.failed
     /\ \E r \in queue : r.id = k.victim /\ queue' = queue \ {r}
     /\ UNCHANGED <<status, noted, work, made, copies>>

\* the work of a row to be made: its line
Line(c) == <<call[c].origin, <<Rule(c), Head(call[c].todo)>>>>

\* a row that is made already, or is not
Passes(c) ==
  LET k == call[c]
      e == call'[c]
  IN /\ Stays(c) /\ k.at = "insert" /\ e.at = "insert" /\ Untouched
     /\ k.todo # <<>> /\ e.todo = Tail(k.todo) /\ e.made = k.made
     /\ e.failed \/ (e.failed = k.failed /\ Line(c) \in work)
Makes(c) ==
  LET k == call[c]
      e == call'[c]
  IN /\ Stays(c) /\ k.at = "insert" /\ e.at = "insert" /\ Line(c) \notin work
     /\ k.todo # <<>> /\ e.todo = Tail(k.todo) /\ e.made /\ e.failed = k.failed
     /\ \E n \in FreshId :
          queue' = queue \cup {[id |-> n, link |-> k.link, pay |-> k.pay,
                                prio |-> Priority[Rule(c)], sending |-> FALSE]}
     /\ work' = IF c = Keyed THEN work \cup {Line(c)} ELSE work
     /\ made' = IF c = Keyed THEN [made EXCEPT ![Line(c)] = @ + 1] ELSE made
     /\ copies' = IF k.made \/ k.again THEN copies
                  ELSE [copies EXCEPT ![<<k.link, k.pay>>] = @ + 1]
     /\ UNCHANGED <<status, noted>>

\* the rule's rows are through
Notes(c) ==
  LET k == call[c]
  IN /\ k.at = "insert" /\ k.todo = <<>> /\ Leaves(c)
     /\ noted' = IF k.made THEN noted \cup {<<k.link, k.pay>>} ELSE noted
     /\ UNCHANGED <<queue, status, work, made, copies>>

\* a call begins, with its list, or ends
Begins(c) ==
  LET e == call'[c]
  IN /\ call[c] = Idle /\ Alone(c) /\ Untouched
     /\ e \in RuleCalls /\ e.i = 1 /\ ~e.failed /\ (e.origin # NoCopy <=> c = Keyed)
     /\ e.listed = {x \in work : x[1] = e.origin}
Returns(c) == Alone(c) /\ call'[c] = Idle

\* Where a goroutine is tells what it carries.
LEMMA WhereOf ==
  ASSUME CallsOK, NEW c \in Callers
  PROVE  /\ call[c].at \in {"idle", "rule"} \cup OnLink
         /\ call[c] = Idle <=> call[c].at = "idle"
         /\ call[c].at = "rule" <=> call[c] \in RuleCalls
         /\ call[c].at \in OnLink <=> call[c] \in LinkCalls
<1>1. /\ \A k \in RuleCalls : k.at = "rule"
      /\ \A k \in LinkCalls : k.at \in OnLink
      /\ Idle.at = "idle"
  BY DEF RuleCalls, LinkCalls, Idle
<1>2. call[c] \in {Idle} \cup RuleCalls \cup LinkCalls
  BY DEF CallsOK, CallOK
<1> QED BY <1>1, <1>2 DEF OnLink

\* The next rule's record.
LEMMA NextRuleShape ==
  ASSUME CallsOK, NEW c \in Callers, call[c].at \in OnLink \cup {"rule"},
         call[c].i \in 1..Len(Matches[c]), Set(c, NextRule(call[c]))
  PROVE  Leaves(c)
<1>1. PICK k \in RuleCalls \cup LinkCalls : k = call[c]
  BY WhereOf
<1>2. /\ k.pay \in Payloads /\ k.origin \in Copies \cup {NoCopy} /\ k.i \in Nat
      /\ k.listed \in SUBSET Works /\ k.failed \in BOOLEAN
  BY DEF RuleCalls, LinkCalls
<1>3. PICK e : e = NextRule(k)
  OBVIOUS
<1>4. /\ e.pay = k.pay /\ e.origin = k.origin /\ e.listed = k.listed
      /\ e.failed = k.failed /\ e.i = k.i + 1 /\ e \in RuleCalls
  BY <1>2, <1>3 DEF NextRule, RuleCalls
<1>5. call'[c] = e /\ Alone(c)
  BY <1>1, <1>3 DEF Set, CallsOK, Alone
<1> QED BY <1>1, <1>4, <1>5 DEF Leaves

\* What is left to do is a sequence of destinations.
LEMMA TailIn ==
  ASSUME NEW k \in LinkCalls, k.todo # <<>>
  PROVE  Tail(k.todo) \in Seq(AllDests)
<1>1. k.todo \in Seq(AllDests)
  BY DEF LinkCalls
<1> QED BY <1>1, HeadTailProperties

\* A set of positions that is not empty has a first one.
LEMMA FirstOf ==
  ASSUME NEW S \in SUBSET Nat, S # {}
  PROVE  \E i \in S : \A j \in S : i <= j
<1>1. PICK R : R = OpToRel(<, Nat)
  OBVIOUS
<1>2. IsWellFoundedOn(R, Nat)
  BY <1>1, NatLessThanWellFounded
<1>3. PICK i \in S : \A j \in S : ~(<<j, i>> \in R)
  BY <1>2, WFMin
<1>4. \A j \in S : ~(j < i)
  BY <1>1, <1>3 DEF OpToRel
<1> QED BY <1>4

\* Resolve gives a link the target stands for, or none.
LEMMA ResolveIsMember ==
  ASSUME NEW t \in Links \cup DOMAIN Groups, NEW l, l = Resolve(t), l # NoLink
  PROVE  l \in Links /\ Resolves(t, l)
<1>1. CASE t \notin DOMAIN Groups
  BY <1>1 DEF Resolve, Resolves
<1>2. CASE t \in DOMAIN Groups
  <2>1. PICK members \in Seq(Links) : members = Groups[t]
    BY <1>2, DispatchConstants
  <2> DEFINE I(s) == {i \in DOMAIN members : status[members[i]] \in s}
             first(s) == IF I(s) = {} THEN NoLink
                         ELSE members[CHOOSE i \in I(s) : \A j \in I(s) : i <= j]
  <2>2. ASSUME NEW s PROVE first(s) = NoLink \/ first(s) \in Range(members)
    <3>1. CASE I(s) = {}
      BY <3>1
    <3>2. CASE I(s) # {}
      <4>1. I(s) \in SUBSET Nat
        BY LenProperties
      <4>2. \E i \in I(s) : \A j \in I(s) : i <= j
        BY <3>2, <4>1, FirstOf
      <4>3. (CHOOSE i \in I(s) : \A j \in I(s) : i <= j) \in I(s)
        BY <4>2
      <4> QED BY <3>2, <4>3 DEF Range
    <3> QED BY <3>1, <3>2
  <2>3. l = first({"online"}) \/ l = first({"waiting"})
    BY <1>2, <2>1, SMTT(30) DEF Resolve
  <2>4. l \in Range(members)
    BY <2>2, <2>3
  <2>5. l \in Links
    BY <2>4, LenProperties, ElementOfSeq DEF Range
  <2> QED BY <1>2, <2>1, <2>4, <2>5 DEF Resolves
<1> QED BY <1>1, <1>2

\* The rule a goroutine is at is one of its rules.
LEMMA RuleIsMatch ==
  ASSUME CallsOK, NEW c \in Callers, call[c].i \in 1..Len(Matches[c])
  PROVE  /\ Rule(c) \in Range(Matches[c]) /\ Rule(c) \in DOMAIN Target
         /\ Target[Rule(c)] \in Links \cup DOMAIN Groups
         /\ Priority[Rule(c)] \in Range(Priority)
<1>1. Matches[c] \in Seq(DOMAIN Target)
  BY DispatchConstants
<1>2. Rule(c) \in Range(Matches[c]) /\ Rule(c) \in DOMAIN Target
  BY <1>1, LenProperties, ElementOfSeq DEF Rule, Range
<1> QED BY <1>2, DispatchConstants DEF Range

\* TakeRule skips the rule or enters the link it resolves to.
LEMMA TakeRuleShape ==
  ASSUME DispatchInv, NEW c \in Callers, TakeRule(c)
  PROVE  Skips(c) \/ Enters(c)
<1>0. CallsOK /\ call[c].at = "rule" /\ Untouched
  BY DEF DispatchInv, TakeRule, Untouched
<1>1. PICK k \in RuleCalls : k = call[c]
  BY <1>0, WhereOf
<1>2. k.i \in 1..Len(Matches[c])
  <2>1. k.i \in 1..(Len(Matches[c]) + 1) /\ k.i <= Len(Matches[c])
    BY <1>0, <1>1 DEF TakeRule, CallsOK, CallOK
  <2>2. Len(Matches[c]) \in Nat
    BY DispatchConstants, LenProperties
  <2> QED BY <2>1, <2>2
<1>3. PICK l : l = Resolve(Target[Rule(c)])
  OBVIOUS
<1>4. CASE l = NoLink \/ l \in Visited[c] \/ (~Again(c) /\ <<l, k.pay>> \in noted)
  <2>1. Set(c, NextRule(k))
    BY <1>1, <1>3, <1>4 DEF TakeRule
  <2>2. Leaves(c)
    BY <1>0, <1>1, <1>2, <2>1, NextRuleShape
  <2> QED BY <1>0, <1>3, <1>4, <2>2 DEF Skips
<1>5. CASE ~(l = NoLink \/ l \in Visited[c] \/ (~Again(c) /\ <<l, k.pay>> \in noted))
  <2>1. l \in Links /\ Resolves(Target[Rule(c)], l) /\ l \notin Visited[c]
    BY <1>0, <1>1, <1>2, <1>3, <1>5, RuleIsMatch, ResolveIsMember
  <2>2. Dests[l] \in Seq(AllDests) /\ Again(c) \in BOOLEAN
    BY <2>1, DispatchConstants DEF Again
  <2>3. /\ k.pay \in Payloads /\ k.origin \in Copies \cup {NoCopy} /\ k.i \in Nat
        /\ k.listed \in SUBSET Works /\ k.failed \in BOOLEAN
    BY DEF RuleCalls
  <2>4. PICK a \in OnLink : a = IF Again(c) THEN "insert" ELSE "depth"
    BY DEF OnLink
  <2>5. PICK b \in BOOLEAN : b = Again(c)
    BY <2>2
  <2>6. PICK e : e = [at |-> a, pay |-> k.pay,
                     origin |-> k.origin, i |-> k.i, listed |-> k.listed,
                     failed |-> k.failed, link |-> l, again |-> b,
                     todo |-> Dests[l], victim |-> 0, made |-> FALSE]
    OBVIOUS
  <2>7. /\ e \in LinkCalls /\ e.pay = k.pay /\ e.origin = k.origin /\ e.listed = k.listed
        /\ e.failed = k.failed /\ e.i = k.i /\ e.link = l /\ e.again = b
        /\ e.todo = Dests[l] /\ ~e.made /\ e.at = a
    BY <2>1, <2>2, <2>3, <2>6 DEF LinkCalls
  <2>8. Set(c, e)
    BY <1>1, <1>3, <1>5, <2>4, <2>5, <2>6 DEF TakeRule
  <2>9. call'[c] = e /\ Alone(c)
    BY <1>0, <2>8 DEF Set, CallsOK, Alone
  <2>10. ~Again(c) => <<l, k.pay>> \notin noted
    BY <1>5
  <2> HIDE <2>6
  <2> QED BY <1>0, <1>1, <1>2, <2>1, <2>4, <2>5, <2>7, <2>9, <2>10 DEF Enters
<1> QED BY <1>4, <1>5

\* CheckDepth goes on to the eviction or, below the limit, to the byte check.
LEMMA CheckDepthShape ==
  ASSUME DispatchInv, NEW c \in Callers, CheckDepth(c)
  PROVE  Moves(c)
<1>0. CallsOK /\ call[c].at = "depth" /\ Untouched
  BY DEF DispatchInv, CheckDepth, Untouched
<1>1. PICK k \in LinkCalls : k = call[c]
  BY <1>0, WhereOf DEF OnLink
<1>2. PICK a \in OnLink : a = IF QueueDepth(k.link) >= MaxDepth THEN "weakest" ELSE "bytes"
  BY DEF OnLink
<1>3. PICK e : e = [k EXCEPT !.at = a]
  OBVIOUS
<1>4. call'[c] = e /\ Alone(c)
  BY <1>0, <1>1, <1>2, <1>3 DEF CheckDepth, Set, CallsOK, Alone
<1>5. k.victim \in Nat
  BY DEF LinkCalls
<1>6. /\ e \in LinkCalls /\ e.at = a
      /\ e.pay = k.pay /\ e.origin = k.origin /\ e.listed = k.listed
      /\ e.i = k.i /\ e.link = k.link /\ e.again = k.again
      /\ e.todo = k.todo /\ e.made = k.made /\ e.failed = k.failed
  BY <1>3, <1>5 DEF LinkCalls
<1> HIDE <1>3
<1> QED BY <1>0, <1>1, <1>2, <1>4, <1>6 DEF Moves, Stays

\* PickWeakest names a row of the link, or the arrival is refused.
LEMMA PickWeakestShape ==
  ASSUME DispatchInv, NEW c \in Callers, PickWeakest(c)
  PROVE  Moves(c) \/ Drops(c)
<1>0. CallsOK /\ call[c].at = "weakest" /\ Untouched
  BY DEF DispatchInv, PickWeakest, Untouched
<1>1. PICK k \in LinkCalls : k = call[c]
  BY <1>0, WhereOf DEF OnLink
<1>2. ASSUME NEW r \in WeakestEvictable(k.link), Set(c, [k EXCEPT !.at = "evict", !.victim = r.id])
      PROVE  Moves(c)
  <2>1. r \in On(k.link) /\ r.id \in Nat /\ "evict" \in OnLink
    BY DEF WeakestEvictable, Evictable, On, DispatchInv, RowsOK, QueueRows, OnLink
  <2>2. PICK e : e = [k EXCEPT !.at = "evict", !.victim = r.id]
    OBVIOUS
  <2>3. call'[c] = e /\ Alone(c)
    BY <1>0, <1>2, <2>2 DEF Set, CallsOK, Alone
  <2>4. /\ e \in LinkCalls /\ e.at = "evict" /\ e.victim = r.id
        /\ e.pay = k.pay /\ e.origin = k.origin /\ e.listed = k.listed
        /\ e.i = k.i /\ e.link = k.link /\ e.again = k.again
        /\ e.todo = k.todo /\ e.made = k.made /\ e.failed = k.failed
    BY <2>1, <2>2 DEF LinkCalls
  <2> HIDE <2>2
  <2> QED BY <1>0, <1>1, <2>1, <2>3, <2>4 DEF Moves, Stays
<1>3. CASE Set(c, NextRule(k))
  <2>1. call[c].i \in 1..Len(Matches[c]) /\ call[c].at \in OnLink \ {"insert"}
    BY <1>0 DEF CallsOK, CallOK, OnLink
  <2>2. Leaves(c)
    BY <1>0, <1>1, <1>3, <2>1, NextRuleShape
  <2> QED BY <1>0, <2>1, <2>2 DEF Drops
<1> QED BY <1>1, <1>2, <1>3 DEF PickWeakest

\* EvictDelivery ends the one row it named, or finds it taken.
LEMMA EvictDeliveryShape ==
  ASSUME DispatchInv, NEW c \in Callers, EvictDelivery(c)
  PROVE  Evicts(c) \/ Drops(c)
<1>0. CallsOK /\ call[c].at = "evict" /\ UNCHANGED <<status, noted, work, made, copies>>
  BY DEF DispatchInv, EvictDelivery
<1>1. PICK k \in LinkCalls : k = call[c]
  BY <1>0, WhereOf DEF OnLink
<1>2. PICK gone : gone = {r \in queue : r.id = k.victim /\ ~r.sending}
  OBVIOUS
<1>3. queue' = queue \ gone
  BY <1>1, <1>2 DEF EvictDelivery
<1>4. CASE gone = {}
  <2>1. call[c].i \in 1..Len(Matches[c]) /\ call[c].at \in OnLink \ {"insert"}
    BY <1>0 DEF CallsOK, CallOK, OnLink
  <2>2. Set(c, NextRule(k))
    BY <1>1, <1>2, <1>4 DEF EvictDelivery
  <2>3. Leaves(c)
    BY <1>0, <1>1, <2>1, <2>2, NextRuleShape
  <2>4. queue' = queue
    BY <1>3, <1>4
  <2> QED BY <1>0, <2>1, <2>3, <2>4 DEF Drops, Untouched
<1>5. CASE gone # {}
  <2>1. PICK r \in queue : r.id = k.victim /\ gone = {r}
    BY <1>2, <1>5 DEF DispatchInv, RowsOK
  <2>2. PICK e : e = [k EXCEPT !.at = "bytes", !.victim = 0]
    OBVIOUS
  <2>3. call'[c] = e /\ Alone(c)
    BY <1>0, <1>1, <1>2, <1>5, <2>2 DEF EvictDelivery, Set, CallsOK, Alone
  <2>4. "bytes" \in OnLink /\ 0 \in Nat
    BY DEF OnLink
  <2>5. /\ e \in LinkCalls /\ e.at = "bytes"
        /\ e.pay = k.pay /\ e.origin = k.origin /\ e.listed = k.listed
        /\ e.i = k.i /\ e.link = k.link /\ e.again = k.again
        /\ e.todo = k.todo /\ e.made = k.made /\ e.failed = k.failed
    BY <2>2, <2>4 DEF LinkCalls
  <2> HIDE <2>2
  <2> QED BY <1>0, <1>1, <1>3, <2>1, <2>3, <2>5 DEF Evicts, Stays
<1> QED BY <1>4, <1>5

\* CheckBytes refuses the arrival or lets it be queued.
LEMMA CheckBytesShape ==
  ASSUME DispatchInv, NEW c \in Callers, CheckBytes(c)
  PROVE  Moves(c) \/ Drops(c)
<1>0. CallsOK /\ call[c].at = "bytes" /\ Untouched
  BY DEF DispatchInv, CheckBytes, Untouched
<1>1. PICK k \in LinkCalls : k = call[c]
  BY <1>0, WhereOf DEF OnLink
<1>2. CASE Set(c, NextRule(k))
  <2>1. call[c].i \in 1..Len(Matches[c]) /\ call[c].at \in OnLink \ {"insert"}
    BY <1>0 DEF CallsOK, CallOK, OnLink
  <2>2. Leaves(c)
    BY <1>0, <1>1, <1>2, <2>1, NextRuleShape
  <2> QED BY <1>0, <2>1, <2>2 DEF Drops
<1>3. CASE Set(c, [k EXCEPT !.at = "insert"])
  <2>1. "insert" \in OnLink /\ k.victim \in Nat
    BY DEF OnLink, LinkCalls
  <2>2. PICK e : e = [k EXCEPT !.at = "insert"]
    OBVIOUS
  <2>3. call'[c] = e /\ Alone(c)
    BY <1>0, <1>3, <2>2 DEF Set, CallsOK, Alone
  <2>4. /\ e \in LinkCalls /\ e.at = "insert"
        /\ e.pay = k.pay /\ e.origin = k.origin /\ e.listed = k.listed
        /\ e.i = k.i /\ e.link = k.link /\ e.again = k.again
        /\ e.todo = k.todo /\ e.made = k.made /\ e.failed = k.failed
    BY <2>1, <2>2 DEF LinkCalls
  <2> HIDE <2>2
  <2> QED BY <1>0, <1>1, <2>3, <2>4 DEF Moves, Stays
<1> QED BY <1>1, <1>2, <1>3 DEF CheckBytes

\* InsertExisting and InsertFails pass on to the next destination.
LEMMA PassShape ==
  ASSUME DispatchInv, NEW c \in Callers, InsertExisting(c) \/ InsertFails(c)
  PROVE  Passes(c)
<1>0. CallsOK /\ call[c].at = "insert" /\ Untouched /\ call[c].todo # <<>>
  BY DEF DispatchInv, InsertExisting, InsertFails, Untouched
<1>1. PICK k \in LinkCalls : k = call[c]
  BY <1>0, WhereOf DEF OnLink
<1>2. k.made \in BOOLEAN /\ k.failed \in BOOLEAN
  BY DEF LinkCalls
<1>3. CASE InsertExisting(c)
  <2>1. PICK e : e = [k EXCEPT !.todo = Tail(@)]
    OBVIOUS
  <2>2. call'[c] = e /\ Alone(c) /\ Line(c) \in work
    BY <1>0, <1>1, <1>3, <2>1 DEF InsertExisting, Set, CallsOK, Alone, Line
  <2>3. /\ e \in LinkCalls /\ e.at = k.at
        /\ e.pay = k.pay /\ e.origin = k.origin /\ e.listed = k.listed
        /\ e.i = k.i /\ e.link = k.link /\ e.again = k.again
        /\ e.todo = Tail(k.todo) /\ e.made = k.made /\ e.failed = k.failed
    BY <1>0, <1>1, <1>2, <2>1, TailIn DEF LinkCalls
  <2> HIDE <2>1
  <2> QED BY <1>0, <1>1, <2>2, <2>3 DEF Passes, Stays
<1>4. CASE InsertFails(c)
  <2>1. PICK e : e = [k EXCEPT !.todo = Tail(@), !.failed = TRUE]
    OBVIOUS
  <2>2. call'[c] = e /\ Alone(c)
    BY <1>0, <1>1, <1>4, <2>1 DEF InsertFails, Set, CallsOK, Alone
  <2>3. /\ e \in LinkCalls /\ e.at = k.at
        /\ e.pay = k.pay /\ e.origin = k.origin /\ e.listed = k.listed
        /\ e.i = k.i /\ e.link = k.link /\ e.again = k.again
        /\ e.todo = Tail(k.todo) /\ e.made = k.made /\ e.failed = TRUE
    BY <1>0, <1>1, <1>2, <2>1, TailIn DEF LinkCalls
  <2> HIDE <2>1
  <2> QED BY <1>0, <1>1, <2>2, <2>3 DEF Passes, Stays
<1> QED BY <1>3, <1>4

\* InsertDelivery queues the row, the Hub route's with its line.
LEMMA InsertDeliveryShape ==
  ASSUME DispatchInv, NEW c \in Callers, InsertDelivery(c)
  PROVE  Makes(c)
<1>0. CallsOK /\ call[c].at = "insert" /\ call[c].todo # <<>> /\ call[c] # Idle
  BY WhereOf DEF DispatchInv, InsertDelivery
<1>1. PICK k \in LinkCalls : k = call[c]
  BY <1>0, WhereOf DEF OnLink
<1>2. k.made \in BOOLEAN /\ k.failed \in BOOLEAN /\ TRUE \in BOOLEAN
  BY DEF LinkCalls
<1>3. k.origin # NoCopy <=> c = Keyed
  BY <1>0, <1>1 DEF CallsOK, CallOK
<1>4. PICK e : e = [k EXCEPT !.todo = Tail(@), !.made = TRUE]
  OBVIOUS
<1>5. call'[c] = e /\ Alone(c)
  BY <1>0, <1>1, <1>4 DEF InsertDelivery, Set, CallsOK, Alone
<1>6. /\ e \in LinkCalls /\ e.at = k.at
      /\ e.pay = k.pay /\ e.origin = k.origin /\ e.listed = k.listed
      /\ e.i = k.i /\ e.link = k.link /\ e.again = k.again
      /\ e.todo = Tail(k.todo) /\ e.made = TRUE /\ e.failed = k.failed
  BY <1>0, <1>1, <1>2, <1>4, TailIn DEF LinkCalls
<1>7. /\ Line(c) \notin work
      /\ \E n \in FreshId :
           queue' = queue \cup {[id |-> n, link |-> k.link, pay |-> k.pay,
                                 prio |-> Priority[Rule(c)], sending |-> FALSE]}
      /\ work' = IF c = Keyed THEN work \cup {Line(c)} ELSE work
      /\ made' = IF c = Keyed THEN [made EXCEPT ![Line(c)] = @ + 1] ELSE made
      /\ copies' = IF k.made \/ k.again THEN copies
                   ELSE [copies EXCEPT ![<<k.link, k.pay>>] = @ + 1]
      /\ UNCHANGED <<status, noted>>
  BY <1>1, <1>3, Zenon DEF InsertDelivery, Line
<1> HIDE <1>4
<1>8. Stays(c)
  BY <1>1, <1>5, <1>6 DEF Stays
<1> QED BY <1>0, <1>1, <1>5, <1>6, <1>7, <1>8, Zenon DEF Makes

\* NoteDelivered, with the last destination done.
LEMMA NoteDeliveredShape ==
  ASSUME DispatchInv, NEW c \in Callers, NoteDelivered(c)
  PROVE  Notes(c)
<1>0. CallsOK /\ call[c].at = "insert" /\ "insert" \in OnLink /\ Set(c, NextRule(call[c]))
  BY DEF DispatchInv, NoteDelivered, OnLink
<1>1. call[c].i \in 1..Len(Matches[c])
  BY <1>0 DEF CallsOK, CallOK
<1>2. Leaves(c)
  BY <1>0, <1>1, NextRuleShape
<1> QED BY <1>2 DEF NoteDelivered, Notes

\* A call begins with what dispatch_work lists for its message.
LEMMA BeginShape ==
  ASSUME DispatchInv, NEW c \in Callers, NEW p \in Payloads, NEW o \in Copies \cup {NoCopy},
         Begin(c, p, o), o # NoCopy <=> c = Keyed
  PROVE  Begins(c) /\ call'[c].origin = o
<1>1. PICK e : e = [at |-> "rule", pay |-> p, origin |-> o, i |-> 1,
                    listed |-> {x \in work : x[1] = o}, failed |-> FALSE]
  OBVIOUS
<1>2. call'[c] = e /\ Alone(c) /\ call[c] = Idle /\ Untouched
  BY <1>1 DEF Begin, Set, DispatchInv, CallsOK, Alone, Untouched
<1>3. work \subseteq Works
  BY DEF DispatchInv, WorkOK
<1>4. e \in RuleCalls /\ e.i = 1 /\ ~e.failed /\ e.origin = o /\ e.listed = {x \in work : x[1] = o}
  BY <1>1, <1>3 DEF RuleCalls
<1> HIDE <1>1
<1> QED BY <1>2, <1>4 DEF Begins

-----------------------------------------------------------------------------
(* The shapes are kept. *)

\* Nobody but c moves, so c's call alone is in question.
LEMMA OneCallOK ==
  ASSUME CallsOK, NEW c \in Callers, Alone(c), CallOK(c)'
  PROVE  CallsOK'
<1>1. ASSUME NEW d \in Callers, d # c PROVE CallOK(d)'
  <2>1. call'[d] = call[d] /\ CallOK(d)
    BY <1>1 DEF Alone, CallsOK
  <2> QED BY <2>1 DEF CallOK, Rule, Again
<1> QED BY <1>1 DEF CallsOK, Alone

\* The end of a rule.
LEMMA LeavesOK ==
  ASSUME CallsOK, NEW c \in Callers, Leaves(c), call[c] # Idle
  PROVE  CallsOK'
<1>1. PICK e \in RuleCalls : e = call'[c]
  BY DEF Leaves
<1>2. e.i \in 1..(Len(Matches[c]) + 1)
  <2>1. Len(Matches[c]) \in Nat
    BY DispatchConstants, LenProperties
  <2> QED BY <1>1, <2>1 DEF Leaves
<1>3. e.at = "rule" /\ e.at \notin OnLink
  BY DEF RuleCalls, OnLink
<1>4. e.origin # NoCopy <=> c = Keyed
  BY <1>1 DEF Leaves, CallsOK, CallOK
<1>5. CallOK(c)'
  BY <1>1, <1>2, <1>3, <1>4 DEF CallOK
<1> QED BY <1>5, OneCallOK DEF Leaves

\* What is left after a destination is part of what was left before it.
LEMMA TailRange ==
  ASSUME NEW S, NEW s \in Seq(S), s # <<>>
  PROVE  /\ Range(Tail(s)) \subseteq Range(s) /\ Len(Tail(s)) <= Len(s)
         /\ Range(s) \subseteq {Head(s)} \cup Range(Tail(s))
         /\ Head(s) \in Range(s)
         /\ Len(s) \in Nat \ {0} /\ Len(Tail(s)) = Len(s) - 1
<1>1. /\ Tail(s) \in Seq(S) /\ Len(Tail(s)) = Len(s) - 1 /\ Head(s) = s[1]
      /\ \A i \in 1..Len(Tail(s)) : Tail(s)[i] = s[i + 1]
      /\ DOMAIN s = 1..Len(s) /\ DOMAIN Tail(s) = 1..Len(Tail(s)) /\ Len(s) \in Nat \ {0}
  BY HeadTailProperties, LenProperties, EmptySeq
<1>2. Range(Tail(s)) \subseteq Range(s)
  BY <1>1 DEF Range
<1>3. ASSUME NEW x \in Range(s), x # Head(s) PROVE x \in Range(Tail(s))
  <2>1. PICK i \in 1..Len(s) : x = s[i]
    BY <1>1 DEF Range
  <2>2. i # 1
    BY <1>1, <1>3, <2>1
  <2>3. PICK j \in 1..Len(Tail(s)) : i = j + 1
    BY <1>1, <2>1, <2>2
  <2> QED BY <1>1, <2>1, <2>3 DEF Range
<1>4. Head(s) \in Range(s)
  BY <1>1 DEF Range
<1> QED BY <1>1, <1>2, <1>3, <1>4

\* A step at the link.
LEMMA StaysOK ==
  ASSUME CallsOK, NEW c \in Callers, Stays(c),
         call[c].again \/ call'[c].made => call'[c].at = "insert",
         \/ call'[c].todo = call[c].todo
         \/ call[c].todo # <<>> /\ call'[c].todo = Tail(call[c].todo)
  PROVE  CallsOK'
<1>1. PICK k \in LinkCalls, e \in LinkCalls : k = call[c] /\ e = call'[c]
  BY DEF Stays
<1>2. k.at \in OnLink /\ e.at \in OnLink /\ k # Idle /\ e.at # "rule"
  BY <1>1, WhereOf DEF LinkCalls, OnLink, Idle
<1>3. e.i = k.i /\ e.link = k.link /\ e.again = k.again /\ e.origin = k.origin /\ e.listed = k.listed
  BY <1>1 DEF Stays
<1>4. Rule(c)' = Rule(c) /\ (Again(c)' <=> Again(c))
  BY <1>1, <1>3 DEF Rule, Again
<1>5. k.todo \in Seq(AllDests)
  BY DEF LinkCalls
<1>6. /\ k.i \in 1..Len(Matches[c])
      /\ Resolves(Target[Rule(c)], k.link) /\ k.link \notin Visited[c]
      /\ Range(k.todo) \subseteq Range(Dests[k.link])
      /\ Len(k.todo) <= Len(Dests[k.link])
      /\ k.again => k.at = "insert" /\ Again(c)
      /\ k.origin # NoCopy <=> c = Keyed
  BY <1>1, <1>2 DEF CallsOK, CallOK
<1>7. k.link \in Links /\ Dests[k.link] \in Seq(AllDests)
  BY DispatchConstants DEF LinkCalls
<1>8. Range(e.todo) \subseteq Range(Dests[k.link]) /\ Len(e.todo) <= Len(Dests[k.link])
  <2>1. CASE e.todo = k.todo
    BY <1>6, <2>1
  <2>2. CASE k.todo # <<>> /\ e.todo = Tail(k.todo)
    <3>1. /\ Range(e.todo) \subseteq Range(k.todo)
          /\ Len(k.todo) \in Nat /\ Len(e.todo) = Len(k.todo) - 1
      BY <1>5, <2>2, TailRange
    <3>2. Len(Dests[k.link]) \in Nat
      BY <1>7, LenProperties
    <3> QED BY <1>6, <3>1, <3>2
  <2> QED BY <1>1, <2>1, <2>2
<1>9. CallOK(c)'
  <2>1. e.again => e.at = "insert" /\ Again(c)
    BY <1>1, <1>3, <1>6
  <2>2. e.made => e.at = "insert"
    BY <1>1
  <2> QED BY <1>1, <1>2, <1>3, <1>4, <1>6, <1>8, <2>1, <2>2 DEF CallOK
<1> QED BY <1>9, OneCallOK DEF Stays

\* A rule's link is entered.
LEMMA EntersOK ==
  ASSUME CallsOK, NEW c \in Callers, Enters(c)
  PROVE  CallsOK'
<1>1. PICK k \in RuleCalls, e \in LinkCalls : k = call[c] /\ e = call'[c]
  BY WhereOf DEF Enters
<1>2. e.at \in OnLink /\ k # Idle /\ e.at # "rule"
  BY <1>1, WhereOf DEF LinkCalls, OnLink, Enters
<1>3. e.i = k.i /\ e.origin = k.origin /\ e.listed = k.listed
  BY <1>1 DEF Enters
<1>4. Rule(c)' = Rule(c) /\ (Again(c)' <=> Again(c))
  BY <1>1, <1>3 DEF Rule, Again
<1>5. k.origin # NoCopy <=> c = Keyed
  BY <1>1, <1>2 DEF CallsOK, CallOK
<1>6. Dests[e.link] \in Seq(AllDests)
  BY DispatchConstants DEF LinkCalls
<1>7. Len(e.todo) <= Len(Dests[e.link]) /\ Range(e.todo) = Range(Dests[e.link])
  BY <1>1, <1>6, LenProperties DEF Enters
<1>8. /\ e.i \in 1..Len(Matches[c]) /\ Resolves(Target[Rule(c)], e.link)
      /\ e.link \notin Visited[c] /\ ~e.made
      /\ e.again => e.at = "insert" /\ Again(c)
  BY <1>1, <1>3 DEF Enters
<1>9. CallOK(c)'
  BY <1>1, <1>2, <1>3, <1>4, <1>5, <1>7, <1>8 DEF CallOK
<1> QED BY <1>9, OneCallOK DEF Enters

\* A call begins.
LEMMA BeginsOK ==
  ASSUME CallsOK, NEW c \in Callers, Begins(c)
  PROVE  CallsOK'
<1>1. PICK e \in RuleCalls : e = call'[c]
  BY DEF Begins
<1>2. e.at = "rule" /\ e.at \notin OnLink /\ e.i = 1 /\ (e.origin # NoCopy <=> c = Keyed)
  BY <1>1 DEF RuleCalls, OnLink, Begins
<1>3. 1 \in 1..(Len(Matches[c]) + 1)
  <2>1. Len(Matches[c]) \in Nat
    BY DispatchConstants, LenProperties
  <2> QED BY <2>1
<1>4. CallOK(c)'
  BY <1>1, <1>2, <1>3 DEF CallOK
<1> QED BY <1>4, OneCallOK DEF Begins

\* A call ends.
LEMMA ReturnsOK ==
  ASSUME CallsOK, NEW c \in Callers, Returns(c)
  PROVE  CallsOK'
<1>1. Idle.at = "idle" /\ "idle" \notin OnLink
  BY DEF Idle, OnLink
<1>2. CallOK(c)'
  BY <1>1 DEF Returns, CallOK
<1> QED BY <1>2, OneCallOK DEF Returns

\* The list a call carries stays true while dispatch_work only grows.
LEMMA ListedKept ==
  ASSUME ListedOK, NEW c \in Callers, Alone(c), work \subseteq work',
         \/ call'[c] = Idle
         \/ /\ call[c] # Idle /\ call'[c].listed = call[c].listed
            /\ call'[c].origin = call[c].origin
         \/ call'[c].listed = {x \in work : x[1] = call'[c].origin}
  PROVE  ListedOK'
BY DEF ListedOK, Alone

\* The rows stay as they are, and nobody names a new one.
LEMMA VictimsKept ==
  ASSUME VictimOK, NEW c \in Callers, Alone(c), queue' \subseteq queue,
         call'[c].at # "evict"
  PROVE  VictimOK'
BY DEF VictimOK, Alone

\* A step that only moves its call.
LEMMA UntouchedOK ==
  ASSUME DispatchInv, CallsOK', ListedOK', VictimOK', Untouched
  PROVE  DispatchInv'
BY DEF DispatchInv, RowsOK, WorkOK, TablesOK, Untouched

\* The rule is done with: skipped, refused or through.
LEMMA LeavesKeeps ==
  ASSUME DispatchInv, NEW c \in Callers, Skips(c) \/ Drops(c) \/ Notes(c)
  PROVE  DispatchInv'
<1>1. /\ Leaves(c) /\ call[c].at \in OnLink \cup {"rule"} /\ CallsOK
      /\ UNCHANGED <<queue, status, work, made, copies>>
  BY DEF Skips, Drops, Notes, DispatchInv, OnLink, Untouched
<1>2. call[c] # Idle
  BY <1>1, WhereOf DEF OnLink
<1>3. CallsOK'
  BY <1>1, <1>2, LeavesOK
<1>4. Alone(c) /\ call'[c].at # "evict"
  BY <1>1 DEF Leaves, RuleCalls
<1>5. ListedOK'
  BY <1>1, <1>2, <1>4, ListedKept DEF Leaves, DispatchInv
<1>6. VictimOK'
  BY <1>1, <1>4, VictimsKept DEF DispatchInv
<1>7. noted' \subseteq Links \X Payloads
  <2>1. CASE noted' = noted
    BY <2>1 DEF DispatchInv, TablesOK
  <2>2. CASE Notes(c)
    <3>1. PICK k \in LinkCalls : k = call[c]
      BY <1>1, <2>2, WhereOf DEF Notes, OnLink
    <3>2. k.link \in Links /\ k.pay \in Payloads
      BY DEF LinkCalls
    <3>3. noted' = noted \/ noted' = noted \cup {<<k.link, k.pay>>}
      BY <2>2, <3>1 DEF Notes
    <3> QED BY <3>2, <3>3 DEF DispatchInv, TablesOK
  <2> QED BY <2>1, <2>2 DEF Skips, Drops, Untouched
<1> QED BY <1>1, <1>3, <1>5, <1>6, <1>7 DEF DispatchInv, RowsOK, WorkOK, TablesOK

\* A call begins, enters a link or moves on to the next check.
LEMMA QuietKeeps ==
  ASSUME DispatchInv, NEW c \in Callers, Begins(c) \/ Enters(c) \/ Moves(c) \/ Passes(c)
  PROVE  DispatchInv'
<1>1. CASE Begins(c)
  <2>1. Alone(c) /\ call'[c].at # "evict" /\ Untouched /\ CallsOK
    BY <1>1 DEF Begins, RuleCalls, DispatchInv
  <2>2. CallsOK'
    BY <1>1, <2>1, BeginsOK
  <2>3. VictimOK'
    BY <2>1, VictimsKept DEF DispatchInv, Untouched
  <2>4. ListedOK'
    BY <1>1, <2>1, ListedKept DEF Begins, DispatchInv, Untouched
  <2> QED BY <2>1, <2>2, <2>3, <2>4, UntouchedOK
<1>2. CASE Enters(c)
  <2>1. Alone(c) /\ call'[c].at # "evict" /\ Untouched /\ CallsOK /\ call[c] # Idle
    BY <1>2, WhereOf DEF Enters, DispatchInv
  <2>2. CallsOK'
    BY <1>2, <2>1, EntersOK
  <2>3. VictimOK'
    BY <2>1, VictimsKept DEF DispatchInv, Untouched
  <2>4. ListedOK'
    BY <1>2, <2>1, ListedKept DEF Enters, DispatchInv, Untouched
  <2> QED BY <2>1, <2>2, <2>3, <2>4, UntouchedOK
<1>3. CASE Moves(c)
  <2>1. Stays(c) /\ Alone(c) /\ Untouched /\ CallsOK /\ call[c] # Idle
    BY <1>3, WhereOf DEF Moves, Stays, DispatchInv, OnLink
  <2>2. call[c].at \in OnLink \ {"insert"}
    BY <1>3 DEF Moves, OnLink
  <2>3. ~call[c].again /\ ~call'[c].made
    BY <1>3, <2>1, <2>2 DEF CallsOK, CallOK, Moves
  <2>4. CallsOK'
    BY <1>3, <2>1, <2>3, StaysOK DEF Moves
  <2>5. ListedOK'
    BY <2>1, ListedKept DEF Stays, DispatchInv, Untouched
  <2>6. VictimOK'
    <3>1. CASE call'[c].at # "evict"
      BY <2>1, <3>1, VictimsKept DEF DispatchInv, Untouched
    <3>2. CASE call'[c].at = "evict"
      <4>1. PICK r \in On(call[c].link) : call'[c].victim = r.id
        BY <1>3, <3>2 DEF Moves
      <4>2. call'[c].link = call[c].link /\ queue' = queue
        BY <2>1 DEF Stays, Untouched
      <4>3. \A q \in queue' : q.id = call'[c].victim => q.link = call'[c].link
        BY <4>1, <4>2 DEF On, DispatchInv, RowsOK
      <4> QED BY <2>1, <4>2, <4>3 DEF VictimOK, DispatchInv, Alone
    <3> QED BY <3>1, <3>2
  <2> QED BY <2>1, <2>4, <2>5, <2>6, UntouchedOK
<1>4. CASE Passes(c)
  <2>1. Stays(c) /\ Alone(c) /\ Untouched /\ CallsOK /\ call[c] # Idle /\ call'[c].at # "evict"
    BY <1>4, WhereOf DEF Passes, Stays, DispatchInv, OnLink
  <2>2. CallsOK'
    BY <1>4, <2>1, StaysOK DEF Passes
  <2>3. ListedOK'
    BY <2>1, ListedKept DEF Stays, DispatchInv, Untouched
  <2>4. VictimOK'
    BY <2>1, VictimsKept DEF DispatchInv, Untouched
  <2> QED BY <2>1, <2>2, <2>3, <2>4, UntouchedOK
<1> QED BY <1>1, <1>2, <1>3, <1>4

\* A row is evicted.
LEMMA EvictsKeeps ==
  ASSUME DispatchInv, NEW c \in Callers, Evicts(c)
  PROVE  DispatchInv'
<1>1. /\ Stays(c) /\ Alone(c) /\ CallsOK /\ call[c] # Idle /\ call'[c].at = "bytes"
      /\ UNCHANGED <<status, noted, work, made, copies>>
  BY WhereOf DEF Evicts, Stays, DispatchInv, OnLink
<1>2. ~call[c].again /\ ~call'[c].made
  BY <1>1 DEF Evicts, CallsOK, CallOK, OnLink
<1>3. CallsOK'
  BY <1>1, <1>2, StaysOK DEF Evicts
<1>4. PICK r \in queue : queue' = queue \ {r}
  BY DEF Evicts
<1>5. RowsOK'
  <2>1. IsFiniteSet(queue \ {r})
    BY FS_RemoveElement DEF DispatchInv, RowsOK
  <2> QED BY <1>4, <2>1 DEF DispatchInv, RowsOK
<1>6. VictimOK' /\ ListedOK'
  <2>1. VictimOK'
    BY <1>1, <1>4, VictimsKept DEF DispatchInv
  <2>2. ListedOK'
    BY <1>1, ListedKept DEF Stays, DispatchInv
  <2> QED BY <2>1, <2>2
<1> QED BY <1>1, <1>3, <1>5, <1>6 DEF DispatchInv, WorkOK, TablesOK

\* The line of the row a goroutine is about to make.
LEMMA LineOK ==
  ASSUME CallsOK, NEW c \in Callers, call[c].at = "insert", call[c].todo # <<>>
  PROVE  /\ Head(call[c].todo) \in Range(Dests[call[c].link])
         /\ Head(call[c].todo) \in AllDests /\ call[c].link \in Links
         /\ c = Keyed => Line(c) \in Works /\ call[c].origin \in Copies
<1>1. PICK k \in LinkCalls : k = call[c]
  BY WhereOf DEF OnLink
<1>2. k.link \in Links /\ k.todo \in Seq(AllDests) /\ k.origin \in Copies \cup {NoCopy}
  BY DEF LinkCalls
<1>3. /\ Range(k.todo) \subseteq Range(Dests[k.link]) /\ k.i \in 1..Len(Matches[c])
      /\ k.origin # NoCopy <=> c = Keyed
  BY <1>1, WhereOf DEF CallsOK, CallOK, OnLink
<1>4. Head(k.todo) \in Range(Dests[k.link])
  BY <1>1, <1>2, <1>3, TailRange
<1>5. Head(k.todo) \in AllDests
  BY <1>2, <1>4 DEF AllDests
<1>6. Rule(c) \in Range(Matches[c])
  BY <1>1, <1>3, RuleIsMatch
<1> QED BY <1>1, <1>2, <1>3, <1>4, <1>5, <1>6 DEF Line, Works, Pieces

\* A new row's id is no row's, and no goroutine's victim.
LEMMA FreshIsFree ==
  ASSUME NEW n \in FreshId
  PROVE  /\ n \in Nat /\ \A r \in queue : r.id # n
         /\ \A c \in Callers : call[c].at = "evict" => call[c].victim # n
<1>1. n \in 1..MaxRows
  BY DEF FreshId
<1>2. \A r \in queue : r.id # n
  BY DEF FreshId
<1>3. \A c \in Callers : call[c].at = "evict" => call[c].victim # n
  BY DEF FreshId
<1> QED BY <1>1, <1>2, <1>3, DispatchConstants

\* One entry of a table of counts goes up.
LEMMA CountedUp ==
  ASSUME NEW S, NEW f \in [S -> Nat], NEW x \in S
  PROVE  /\ [f EXCEPT ![x] = @ + 1] \in [S -> Nat]
         /\ [f EXCEPT ![x] = @ + 1][x] = f[x] + 1
         /\ \A y \in S : y # x => [f EXCEPT ![x] = @ + 1][y] = f[y]
OBVIOUS

\* A row is made.
LEMMA MakesKeeps ==
  ASSUME DispatchInv, NEW c \in Callers, Makes(c)
  PROVE  DispatchInv'
<1>1. /\ Stays(c) /\ Alone(c) /\ CallsOK /\ call[c] # Idle /\ call'[c].at = "insert"
      /\ UNCHANGED <<status, noted>> /\ call[c].at = "insert" /\ call[c].todo # <<>>
  BY WhereOf DEF Makes, Stays, DispatchInv, OnLink
<1>2. PICK k \in LinkCalls : k = call[c]
  BY <1>1 DEF Stays
<1>3. k.link \in Links /\ k.pay \in Payloads /\ k.i \in 1..Len(Matches[c])
  BY <1>1, <1>2 DEF LinkCalls, CallsOK, CallOK, OnLink
<1>4. CallsOK'
  BY <1>1, StaysOK DEF Makes
<1>5. PICK n \in FreshId :
        queue' = queue \cup {[id |-> n, link |-> k.link, pay |-> k.pay,
                              prio |-> Priority[Rule(c)], sending |-> FALSE]}
  BY <1>2 DEF Makes
<1>6. PICK r : r = [id |-> n, link |-> k.link, pay |-> k.pay,
                    prio |-> Priority[Rule(c)], sending |-> FALSE]
  OBVIOUS
<1>7. /\ n \in Nat /\ \A q \in queue : q.id # n
      /\ \A d \in Callers : call[d].at = "evict" => call[d].victim # n
  BY FreshIsFree
<1>8. r \in QueueRows /\ r.id = n /\ r.link = k.link
  <2>1. Priority[Rule(c)] \in Range(Priority)
    BY <1>1, <1>2, <1>3, RuleIsMatch
  <2> QED BY <1>3, <1>6, <1>7, <2>1 DEF QueueRows
<1>9. queue' = queue \cup {r}
  BY <1>5, <1>6
<1> HIDE <1>5, <1>6
<1>10. RowsOK'
  <2>1. IsFiniteSet(queue \cup {r})
    BY FS_AddElement DEF DispatchInv, RowsOK
  <2>2. \A p, q \in queue' : q.id = p.id => q = p
    BY <1>7, <1>8, <1>9 DEF DispatchInv, RowsOK
  <2> QED BY <1>8, <1>9, <2>1, <2>2 DEF DispatchInv, RowsOK
<1>11. VictimOK'
  <2> SUFFICES ASSUME NEW d \in Callers, call'[d].at = "evict", NEW q \in queue',
                      q.id = call'[d].victim
               PROVE  q.link = call'[d].link
    BY DEF VictimOK
  <2>1. d # c /\ call'[d] = call[d]
    BY <1>1 DEF Alone
  <2> QED BY <1>7, <1>8, <1>9, <2>1 DEF DispatchInv, VictimOK
<1>12. work' = work \/ (c = Keyed /\ work' = work \cup {Line(c)})
  BY DEF Makes
<1>13. ListedOK'
  BY <1>1, <1>12, ListedKept DEF Stays, DispatchInv
<1>14. WorkOK'
  <2>1. CASE work' = work
    BY <2>1 DEF DispatchInv, WorkOK
  <2>2. CASE c = Keyed /\ work' = work \cup {Line(c)}
    <3>1. /\ Line(c) \in Works /\ Line(c)[2][1] = Rule(c) /\ Line(c)[2][2] = Head(k.todo)
          /\ Head(k.todo) \in Range(Dests[k.link])
      BY <1>1, <1>2, <2>2, LineOK DEF Line
    <3>2. Resolves(Target[Rule(c)], k.link) /\ k.link \notin Visited[c]
      BY <1>1, <1>2 DEF CallsOK, CallOK, OnLink
    <3> QED BY <1>3, <2>2, <3>1, <3>2 DEF DispatchInv, WorkOK
  <2> QED BY <1>12, <2>1, <2>2
<1>15. TablesOK'
  <2>1. made' \in [Works -> Nat]
    <3>1. CASE c = Keyed
      <4>1. PICK x \in Works : x = Line(c)
        BY <1>1, <3>1, LineOK
      <4>2. made' = [made EXCEPT ![x] = @ + 1]
        BY <3>1, <4>1 DEF Makes
      <4>3. made \in [Works -> Nat]
        BY DEF DispatchInv, TablesOK
      <4> QED BY <4>2, <4>3, CountedUp
    <3>2. CASE c # Keyed
      BY <3>2 DEF Makes, DispatchInv, TablesOK
    <3> QED BY <3>1, <3>2
  <2>2. copies' \in [Links \X Payloads -> Nat]
    <3>1. PICK x \in Links \X Payloads : x = <<k.link, k.pay>>
      BY <1>3
    <3>2. copies' = copies \/ copies' = [copies EXCEPT ![x] = @ + 1]
      BY <1>2, <3>1 DEF Makes
    <3>3. copies \in [Links \X Payloads -> Nat]
      BY DEF DispatchInv, TablesOK
    <3> QED BY <3>2, <3>3, CountedUp
  <2> QED BY <1>1, <2>1, <2>2 DEF DispatchInv, TablesOK
<1> QED BY <1>4, <1>10, <1>11, <1>13, <1>14, <1>15 DEF DispatchInv

-----------------------------------------------------------------------------
(* The dedup cache. *)

\* Two sets of goroutines that differ by one at most.
LEMMA OneCaller ==
  ASSUME NEW A \in SUBSET Callers, NEW B \in SUBSET Callers, NEW c \in Callers,
         \A d \in Callers : d # c => (d \in A <=> d \in B)
  PROVE  /\ Cardinality(A) \in Nat /\ Cardinality(B) \in Nat
         /\ (c \in B => c \in A) => Cardinality(B) <= Cardinality(A)
         /\ (c \in A /\ c \notin B) => Cardinality(B) = Cardinality(A) - 1
         /\ (c \notin A /\ c \in B) => Cardinality(B) = Cardinality(A) + 1
<1>1. IsFiniteSet(A) /\ IsFiniteSet(B)
  BY DispatchConstants, FS_Subset
<1>2. Cardinality(A) \in Nat /\ Cardinality(B) \in Nat
  BY <1>1, FS_CardinalityType
<1>3. (c \in B => c \in A) => Cardinality(B) <= Cardinality(A)
  <2> HAVE c \in B => c \in A
  <2>1. B \in SUBSET A
    OBVIOUS
  <2> QED BY <1>1, <2>1, FS_Subset
<1>4. (c \in A /\ c \notin B) => Cardinality(B) = Cardinality(A) - 1
  <2> HAVE c \in A /\ c \notin B
  <2>1. B = A \ {c}
    OBVIOUS
  <2> QED BY <1>1, <2>1, FS_RemoveElement
<1>5. (c \notin A /\ c \in B) => Cardinality(B) = Cardinality(A) + 1
  <2> HAVE c \notin A /\ c \in B
  <2>1. B = A \cup {c}
    OBVIOUS
  <2> QED BY <1>1, <2>1, FS_AddElement
<1> QED BY <1>2, <1>3, <1>4, <1>5

\* The other goroutines stand where they stood.
LEMMA OthersAt ==
  ASSUME NEW c \in Callers, Alone(c), NEW e
  PROVE  /\ Hopeful(e) \in SUBSET Callers /\ Hopeful(e)' \in SUBSET Callers
         /\ Telling(e) \in SUBSET Callers /\ Telling(e)' \in SUBSET Callers
         /\ \A d \in Callers : d # c => /\ d \in Hopeful(e) <=> d \in Hopeful(e)'
                                        /\ d \in Telling(e) <=> d \in Telling(e)'
BY DEF Alone, Hopeful, Telling, At

\* Nothing is counted, c hopes for nothing new and tells what it has to tell.
LEMMA CacheKept ==
  ASSUME DispatchInv, NEW e \in Links \X Payloads, CacheAt(e), NEW c \in Callers, Alone(c),
         copies'[e] = copies[e], e \in noted => e \in noted',
         c \in Hopeful(e)' => c \in Hopeful(e),
         c \in Telling(e) => c \in Telling(e)' \/ e \in noted'
  PROVE  CacheAt(e)'
<1>0. copies[e] \in Nat /\ Cardinality(Callers) \in Nat
  BY DispatchConstants, FS_CardinalityType DEF DispatchInv, TablesOK
<1>1. /\ Cardinality(Hopeful(e)) \in Nat /\ Cardinality(Hopeful(e)') \in Nat
      /\ Cardinality(Hopeful(e)') <= Cardinality(Hopeful(e))
  BY OthersAt, OneCaller
<1>2. /\ Cardinality(Telling(e)) \in Nat /\ Cardinality(Telling(e)') \in Nat
      /\ e \in noted' \/ Cardinality(Telling(e)) <= Cardinality(Telling(e)')
  <2>1. Cardinality(Telling(e)) \in Nat /\ Cardinality(Telling(e)') \in Nat
    BY OthersAt, OneCaller
  <2>2. CASE c \in Telling(e) => c \in Telling(e)'
    <3>1. Cardinality(Telling(e)) <= Cardinality(Telling(e)')
      BY <2>2, OthersAt, OneCaller
    <3> QED BY <2>1, <3>1
  <2> QED BY <2>1, <2>2
<1> QED BY <1>0, <1>1, <1>2 DEF CacheAt

\* A goroutine that is at no link is in nobody's count.
LEMMA NotAt ==
  ASSUME NEW c \in Callers, call[c].at \notin OnLink, NEW e
  PROVE  c \notin Hopeful(e) /\ c \notin Telling(e)
BY DEF Hopeful, Telling, At

\* Steps that leave c's place in the count, and those with which it leaves.
LEMMA CacheSteps ==
  ASSUME DispatchInv, CacheInv, NEW c \in Callers,
         \/ Skips(c) \/ Drops(c) \/ Notes(c) \/ Moves(c) \/ Evicts(c) \/ Passes(c)
         \/ Begins(c)
         \/ /\ Returns(c) /\ call[c].at \notin OnLink
            /\ UNCHANGED <<copies, noted>>
  PROVE  CacheInv'
<1> SUFFICES ASSUME NEW e \in Links \X Payloads PROVE CacheAt(e)'
  BY DEF CacheInv
<1>0. CacheAt(e) /\ CallsOK
  BY DEF CacheInv, DispatchInv
<1>1. CASE Skips(c) \/ Begins(c) \/ (/\ Returns(c) /\ call[c].at \notin OnLink
                                     /\ UNCHANGED <<copies, noted>>)
  <2>1. /\ Alone(c) /\ copies' = copies /\ noted' = noted
        /\ call[c].at \notin OnLink /\ call'[c].at \notin OnLink
    BY <1>1 DEF Skips, Begins, Returns, Leaves, RuleCalls, OnLink, Idle, Untouched
  <2>2. c \notin Hopeful(e)' /\ c \notin Telling(e)
    BY <2>1 DEF Hopeful, Telling, At
  <2> QED BY <1>0, <2>1, <2>2, CacheKept
<1>2. CASE Drops(c)
  <2>1. /\ Alone(c) /\ copies' = copies /\ noted' = noted
        /\ call[c].at \in OnLink \ {"insert"} /\ call'[c].at \notin OnLink
    BY <1>2 DEF Drops, Leaves, RuleCalls, OnLink, Untouched
  <2>2. ~call[c].made
    BY <1>0, <2>1 DEF CallsOK, CallOK
  <2>3. c \notin Hopeful(e)' /\ c \notin Telling(e)
    BY <2>1, <2>2 DEF Hopeful, Telling, At
  <2> QED BY <1>0, <2>1, <2>3, CacheKept
<1>3. CASE Notes(c)
  <2>1. Alone(c) /\ copies' = copies /\ noted \subseteq noted' /\ call'[c].at \notin OnLink
    BY <1>3 DEF Notes, Leaves, RuleCalls, OnLink
  <2>2. c \notin Hopeful(e)'
    BY <2>1 DEF Hopeful, At
  <2>3. c \in Telling(e) => e \in noted'
    BY <1>3 DEF Telling, At, Notes
  <2> QED BY <1>0, <2>1, <2>2, <2>3, CacheKept
<1>4. CASE Moves(c) \/ Evicts(c) \/ Passes(c)
  <2>1. /\ Stays(c) /\ Alone(c) /\ copies' = copies /\ noted' = noted
        /\ call'[c].made = call[c].made
    BY <1>4 DEF Moves, Evicts, Passes, Stays, Untouched
  <2>2. /\ call[c].at \in OnLink /\ call'[c].at \in OnLink /\ call'[c].link = call[c].link
        /\ call'[c].pay = call[c].pay /\ call'[c].again = call[c].again
    BY <2>1 DEF Stays, LinkCalls
  <2>3. (c \in Hopeful(e) <=> c \in Hopeful(e)') /\ (c \in Telling(e) <=> c \in Telling(e)')
    BY <2>1, <2>2 DEF Hopeful, Telling, At
  <2> QED BY <1>0, <2>1, <2>3, CacheKept
<1> QED BY <1>1, <1>2, <1>3, <1>4

\* A goroutine enters: the cache knew nothing, so whoever queued the payload is
\* still at its link, and with it the hopeful are no more than the goroutines.
LEMMA CacheEnters ==
  ASSUME DispatchInv, CacheInv, NEW c \in Callers, Enters(c)
  PROVE  CacheInv'
<1> SUFFICES ASSUME NEW e \in Links \X Payloads PROVE CacheAt(e)'
  BY DEF CacheInv
<1>0. CacheAt(e) /\ CallsOK /\ copies[e] \in Nat /\ Cardinality(Callers) \in Nat
  BY DispatchConstants, FS_CardinalityType DEF CacheInv, DispatchInv, TablesOK
<1>1. /\ Alone(c) /\ copies' = copies /\ noted' = noted /\ call[c].at \notin OnLink
      /\ call'[c].again = Again(c) /\ call'[c].pay = call[c].pay /\ ~call'[c].made
  BY DEF Enters, Untouched, OnLink
<1>2. c \notin Hopeful(e) /\ c \notin Telling(e)
  BY <1>1, NotAt
<1>3. CASE c \notin Hopeful(e)'
  BY <1>0, <1>1, <1>2, <1>3, CacheKept
<1>4. CASE c \in Hopeful(e)'
  <2>1. ~Again(c) /\ e = <<call'[c].link, call[c].pay>>
    BY <1>1, <1>4 DEF Hopeful, At
  <2>2. e \notin noted
    BY <2>1 DEF Enters
  <2>3. c \notin Telling(e)'
    BY <1>1 DEF Telling
  <2>4. Telling(e)' = Telling(e)
    BY <1>1, <1>2, <2>3, OthersAt
  <2>5. Hopeful(e)' \cap Telling(e)' = {}
    BY DEF Hopeful, Telling
  <2>6. /\ IsFiniteSet(Hopeful(e)') /\ IsFiniteSet(Telling(e)')
        /\ Hopeful(e)' \cup Telling(e)' \in SUBSET Callers
    <3>1. Hopeful(e)' \in SUBSET Callers /\ Telling(e)' \in SUBSET Callers
      BY <1>1, OthersAt
    <3> QED BY <3>1, FS_Subset, DispatchConstants
  <2>7. /\ Cardinality(Hopeful(e)') \in Nat /\ Cardinality(Telling(e)') \in Nat
        /\ Cardinality(Hopeful(e)' \cup Telling(e)') =
             Cardinality(Hopeful(e)') + Cardinality(Telling(e)')
    <3>1. Cardinality({}) = 0
      BY FS_EmptySet
    <3>2. Cardinality(Hopeful(e)' \cup Telling(e)') =
            Cardinality(Hopeful(e)') + Cardinality(Telling(e)') - Cardinality(Hopeful(e)' \cap Telling(e)')
      BY <2>6, FS_Union
    <3>3. Cardinality(Hopeful(e)') \in Nat /\ Cardinality(Telling(e)') \in Nat
      BY <2>6, FS_CardinalityType
    <3>4. Cardinality(Hopeful(e)' \cap Telling(e)') = 0
      BY <2>5, <3>1, Zenon
    <3> QED BY <3>2, <3>3, <3>4
  <2>8. Cardinality(Hopeful(e)' \cup Telling(e)') <= Cardinality(Callers)
    BY <2>6, FS_Subset, DispatchConstants
  <2>9. copies'[e] <= Cardinality(Telling(e)')
    BY <1>0, <1>1, <2>2, <2>4 DEF CacheAt
  <2> QED BY <1>0, <1>1, <2>7, <2>8, <2>9 DEF CacheAt
<1> QED BY <1>3, <1>4

\* A row is made: its goroutine hoped, and now it is counted and has to tell.
LEMMA CacheMakes ==
  ASSUME DispatchInv, CacheInv, NEW c \in Callers, Makes(c)
  PROVE  CacheInv'
<1> SUFFICES ASSUME NEW e \in Links \X Payloads PROVE CacheAt(e)'
  BY DEF CacheInv
<1>0. CacheAt(e) /\ CallsOK /\ copies[e] \in Nat /\ Cardinality(Callers) \in Nat
      /\ copies \in [Links \X Payloads -> Nat]
  BY DispatchConstants, FS_CardinalityType DEF CacheInv, DispatchInv, TablesOK
<1>1. /\ Stays(c) /\ Alone(c) /\ noted' = noted /\ call'[c].made
      /\ call[c].at \in OnLink /\ call'[c].at \in OnLink
      /\ call'[c].again = call[c].again /\ call'[c].link = call[c].link
      /\ call'[c].pay = call[c].pay
  BY DEF Makes, Stays, OnLink
<1>2. c \notin Hopeful(e)'
  BY <1>1 DEF Hopeful
<1>3. c \in Telling(e) => c \in Telling(e)'
  BY <1>1 DEF Telling, At
<1>4. PICK x \in Links \X Payloads : x = <<call[c].link, call[c].pay>>
  BY <1>1 DEF Stays, LinkCalls
<1>5. CASE copies'[e] = copies[e]
  BY <1>0, <1>1, <1>2, <1>3, <1>5, CacheKept
<1>6. CASE copies'[e] # copies[e]
  <2>1. /\ ~call[c].made /\ ~call[c].again /\ copies' = [copies EXCEPT ![x] = @ + 1]
    BY <1>4, <1>6 DEF Makes
  <2>2. e = x /\ copies'[e] = copies[e] + 1
    BY <1>0, <1>6, <2>1, CountedUp
  <2>3. /\ c \in Hopeful(e) /\ c \notin Hopeful(e)' /\ c \notin Telling(e) /\ c \in Telling(e)'
    BY <1>1, <1>2, <1>4, <2>1, <2>2 DEF Hopeful, Telling, At
  <2>4. /\ Cardinality(Hopeful(e)') = Cardinality(Hopeful(e)) - 1
        /\ Cardinality(Hopeful(e)) \in Nat
    BY <1>1, <2>3, OthersAt, OneCaller
  <2>5. /\ Cardinality(Telling(e)') = Cardinality(Telling(e)) + 1
        /\ Cardinality(Telling(e)) \in Nat
    BY <1>1, <2>3, OthersAt, OneCaller
  <2> QED BY <1>0, <1>1, <2>2, <2>4, <2>5 DEF CacheAt
<1> QED BY <1>5, <1>6

\* What the cache counts is bounded by the goroutines.
LEMMA CacheGivesBound ==
  ASSUME DispatchInv, CacheInv
  PROVE  CopiesBound
<1> SUFFICES ASSUME NEW e \in Links \X Payloads PROVE copies[e] <= Cardinality(Callers)
  BY DEF CopiesBound
<1>1. Hopeful(e) \in SUBSET Callers
  BY DEF Hopeful
<1>2. Cardinality(Hopeful(e)) \in Nat
  BY <1>1, DispatchConstants, FS_Subset, FS_CardinalityType
<1>3. copies[e] \in Nat /\ Cardinality(Callers) \in Nat
  BY DispatchConstants, FS_CardinalityType DEF DispatchInv, TablesOK
<1> QED BY <1>2, <1>3 DEF CacheInv, CacheAt

-----------------------------------------------------------------------------
(* The depth of a queue. *)

DepthAt(l) ==
  OneEach(l) =>
    QueueDepth(l) + Cardinality(Admitted(l)) <= MaxDepth + Cardinality(Callers) - 1

\* The numbers are numbers.
LEMMA DepthNumbers ==
  ASSUME RowsOK, NEW l
  PROVE  /\ IsFiniteSet(On(l)) /\ QueueDepth(l) \in Nat /\ Cardinality(Admitted(l)) \in Nat
         /\ Cardinality(Admitted(l)) <= Cardinality(Callers)
         /\ Cardinality(Callers) \in Nat /\ MaxDepth \in Nat
<1>1. On(l) \in SUBSET queue /\ Admitted(l) \in SUBSET Callers
  BY DEF On, Admitted
<1>2. IsFiniteSet(On(l)) /\ IsFiniteSet(Admitted(l)) /\ IsFiniteSet(Callers)
      /\ Cardinality(Admitted(l)) <= Cardinality(Callers)
  BY <1>1, FS_Subset, DispatchConstants DEF RowsOK
<1> QED BY <1>2, FS_CardinalityType, DispatchConstants DEF QueueDepth

\* The other goroutines stand where they stood.
LEMMA OthersAdmitted ==
  ASSUME NEW c \in Callers, Alone(c), NEW l
  PROVE  /\ Admitted(l) \in SUBSET Callers /\ Admitted(l)' \in SUBSET Callers
         /\ \A d \in Callers : d # c => (d \in Admitted(l) <=> d \in Admitted(l)')
BY DEF Alone, Admitted

\* No row more on l, and c is not let in.
LEMMA DepthKept ==
  ASSUME RowsOK, RowsOK', NEW l, DepthAt(l), NEW c \in Callers, Alone(c),
         On(l)' \in SUBSET On(l), c \in Admitted(l)' => c \in Admitted(l)
  PROVE  DepthAt(l)'
<1> SUFFICES ASSUME OneEach(l)
             PROVE  (QueueDepth(l) + Cardinality(Admitted(l)))'
                      <= MaxDepth + Cardinality(Callers) - 1
  BY DEF DepthAt, OneEach
<1>1. QueueDepth(l) + Cardinality(Admitted(l)) <= MaxDepth + Cardinality(Callers) - 1
  BY DEF DepthAt
<1>2. Cardinality(Admitted(l)') <= Cardinality(Admitted(l))
  BY OthersAdmitted, OneCaller
<1>3. QueueDepth(l)' <= QueueDepth(l)
  BY DepthNumbers, FS_Subset DEF QueueDepth
<1>4. /\ QueueDepth(l) \in Nat /\ Cardinality(Admitted(l)) \in Nat
      /\ Cardinality(Callers) \in Nat /\ MaxDepth \in Nat
  BY DepthNumbers
<1>5. QueueDepth(l)' \in Nat /\ Cardinality(Admitted(l)') \in Nat
  <2>1. On(l)' \in SUBSET queue' /\ Admitted(l)' \in SUBSET Callers
    BY DEF On, Admitted
  <2>2. IsFiniteSet(On(l)') /\ IsFiniteSet(Admitted(l)')
    BY <2>1, FS_Subset, DispatchConstants DEF RowsOK
  <2> QED BY <2>2, FS_CardinalityType DEF QueueDepth
<1> QED BY <1>1, <1>2, <1>3, <1>4, <1>5

\* A row made before for the same rule was for the one destination there is: a
\* hand-off tried again makes no second row past the check.
LEMMA AgainIsListed ==
  ASSUME DispatchInv, NEW c \in Callers, call[c].at = "insert", call[c].again,
         call[c].todo # <<>>, OneEach(call[c].link)
  PROVE  Line(c) \in work
<1>0. CallsOK /\ call[c] # Idle /\ "insert" \in OnLink
  BY WhereOf DEF DispatchInv, OnLink
<1>1. /\ Again(c) /\ Resolves(Target[Rule(c)], call[c].link)
      /\ call[c].i \in 1..Len(Matches[c])
  BY <1>0 DEF CallsOK, CallOK
<1>2. PICK x \in call[c].listed : x[2][1] = Rule(c)
  BY <1>1 DEF Again
<1>3. x \in work /\ x[1] = call[c].origin /\ x \in Works
  BY <1>0 DEF DispatchInv, ListedOK, WorkOK
<1>4. PICK l \in Links : Resolves(Target[Rule(c)], l) /\ x[2][2] \in Range(Dests[l])
  BY <1>2, <1>3 DEF DispatchInv, WorkOK
<1>5. /\ Head(call[c].todo) \in Range(Dests[call[c].link]) /\ call[c].link \in Links
  BY <1>0, LineOK
<1>6. Dests[l] = Dests[call[c].link]
  <2>1. Links \cap DOMAIN Groups = {}
    BY DispatchConstants
  <2>2. CASE Target[Rule(c)] \in DOMAIN Groups
    BY <1>1, <1>4, <1>5, <2>1, <2>2 DEF Resolves, OneEach
  <2>3. CASE Target[Rule(c)] \notin DOMAIN Groups
    BY <1>1, <1>4, <2>3 DEF Resolves
  <2> QED BY <2>2, <2>3
<1>7. x[2][2] = Head(call[c].todo)
  <2>1. Dests[l] \in Seq(AllDests) /\ Len(Dests[l]) = 1
    BY <1>6, DispatchConstants DEF OneEach
  <2>2. DOMAIN Dests[l] = {1}
    BY <2>1, LenProperties
  <2> QED BY <1>4, <1>5, <1>6, <2>2 DEF Range
<1>8. x = <<x[1], <<x[2][1], x[2][2]>>>>
  BY <1>3 DEF Works, Pieces
<1> QED BY <1>2, <1>3, <1>7, <1>8 DEF Line

\* Steps that queue nothing and let nobody in.
LEMMA DepthSteps ==
  ASSUME DispatchInv, DispatchInv', DepthBound, NEW c \in Callers,
         \/ Skips(c) \/ Drops(c) \/ Notes(c) \/ Enters(c) \/ Passes(c) \/ Begins(c)
         \/ Returns(c) /\ queue' = queue
  PROVE  DepthBound'
<1> SUFFICES ASSUME NEW l \in Links PROVE DepthAt(l)'
  BY DEF DepthBound, DepthAt
<1>0. RowsOK /\ RowsOK' /\ CallsOK /\ CallsOK' /\ DepthAt(l)
  BY DEF DispatchInv, DepthBound, DepthAt
<1>1. Alone(c) /\ queue' = queue
  BY DEF Skips, Drops, Notes, Enters, Passes, Begins, Returns, Leaves, Stays, Untouched
<1>2. On(l)' \in SUBSET On(l)
  BY <1>1 DEF On
<1>3. c \in Admitted(l)' => c \in Admitted(l)
  <2>1. CASE Skips(c) \/ Drops(c) \/ Notes(c) \/ Begins(c) \/ Returns(c)
    <3>1. call'[c].at \notin {"bytes", "insert"}
      BY <2>1 DEF Skips, Drops, Notes, Begins, Returns, Leaves, RuleCalls, Idle
    <3> QED BY <3>1 DEF Admitted
  <2>2. CASE Enters(c)
    <3>1. call'[c].again \/ call'[c].at = "depth"
      BY <2>2 DEF Enters
    <3> QED BY <3>1 DEF Admitted
  <2>3. CASE Passes(c)
    BY <2>3 DEF Admitted, Passes, Stays
  <2> QED BY <2>1, <2>2, <2>3
<1> QED BY <1>0, <1>1, <1>2, <1>3, DepthKept

\* From check to check: whoever is let in found the queue below its limit.
LEMMA DepthMoves ==
  ASSUME DispatchInv, DispatchInv', DepthBound, NEW c \in Callers, Moves(c)
  PROVE  DepthBound'
<1> SUFFICES ASSUME NEW l \in Links PROVE DepthAt(l)'
  BY DEF DepthBound, DepthAt
<1>0. RowsOK /\ RowsOK' /\ CallsOK /\ DepthAt(l)
  BY DEF DispatchInv, DepthBound, DepthAt
<1>1. Alone(c) /\ queue' = queue
  BY DEF Moves, Stays, Untouched
<1>2. On(l)' = On(l) /\ QueueDepth(l)' = QueueDepth(l)
  BY <1>1 DEF On, QueueDepth
<1>3. CASE c \in Admitted(l)' => c \in Admitted(l)
  BY <1>0, <1>1, <1>2, <1>3, DepthKept
<1>4. CASE c \in Admitted(l)' /\ c \notin Admitted(l)
  <2>1. call[c].at = "depth" /\ ~(QueueDepth(l) >= MaxDepth)
    BY <1>4 DEF Moves, Stays, Admitted
  <2>2. /\ QueueDepth(l) \in Nat /\ MaxDepth \in Nat /\ Cardinality(Callers) \in Nat
    BY <1>0, DepthNumbers
  <2>3. Cardinality(Admitted(l)') \in Nat /\ Cardinality(Admitted(l)') <= Cardinality(Callers)
    <3>1. Admitted(l)' \in SUBSET Callers
      BY DEF Admitted
    <3> QED BY <3>1, FS_Subset, FS_CardinalityType, DispatchConstants
  <2> QED BY <1>2, <2>1, <2>2, <2>3 DEF DepthAt
<1> QED BY <1>3, <1>4

\* A row of the link makes room for the one that is let in.
LEMMA DepthEvicts ==
  ASSUME DispatchInv, DispatchInv', DepthBound, NEW c \in Callers, Evicts(c)
  PROVE  DepthBound'
<1> SUFFICES ASSUME NEW l \in Links PROVE DepthAt(l)'
  BY DEF DepthBound, DepthAt
<1>0. RowsOK /\ RowsOK' /\ CallsOK /\ DepthAt(l)
  BY DEF DispatchInv, DepthBound, DepthAt
<1>1. Alone(c) /\ call[c].at = "evict" /\ call'[c].link = call[c].link
  BY DEF Evicts, Stays
<1>2. PICK r \in queue : r.id = call[c].victim /\ queue' = queue \ {r}
  BY DEF Evicts
<1>3. r.link = call[c].link
  BY <1>1, <1>2 DEF DispatchInv, VictimOK
<1>4. On(l)' = On(l) \ {r}
  BY <1>2 DEF On
<1>5. CASE l # call[c].link
  <2>1. c \notin Admitted(l)'
    BY <1>1, <1>5 DEF Admitted
  <2> QED BY <1>0, <1>1, <1>4, <2>1, DepthKept
<1>6. CASE l = call[c].link
  <2>1. r \in On(l)
    BY <1>2, <1>3, <1>6 DEF On
  <2>2. QueueDepth(l)' = QueueDepth(l) - 1
    BY <1>0, <1>4, <2>1, DepthNumbers, FS_RemoveElement DEF QueueDepth
  <2>3. /\ Cardinality(Admitted(l)') \in Nat
        /\ Cardinality(Admitted(l)') <= Cardinality(Admitted(l)) + 1
    <3>1. /\ Cardinality(Admitted(l)) \in Nat /\ Cardinality(Admitted(l)') \in Nat
          /\ (c \in Admitted(l)' => c \in Admitted(l)) =>
                Cardinality(Admitted(l)') <= Cardinality(Admitted(l))
          /\ (c \notin Admitted(l) /\ c \in Admitted(l)') =>
                Cardinality(Admitted(l)') = Cardinality(Admitted(l)) + 1
      BY <1>1, OthersAdmitted, OneCaller
    <3> QED BY <3>1
  <2>4. /\ QueueDepth(l) \in Nat /\ Cardinality(Admitted(l)) \in Nat
        /\ Cardinality(Callers) \in Nat /\ MaxDepth \in Nat
    BY <1>0, DepthNumbers
  <2>5. OneEach(l)' <=> OneEach(l)
    BY DEF OneEach
  <2> QED BY <1>0, <2>2, <2>3, <2>4, <2>5 DEF DepthAt
<1> QED BY <1>5, <1>6

\* A row is made: its goroutine was let in, and with the one destination done
\* it no longer is.
LEMMA DepthMakes ==
  ASSUME DispatchInv, DispatchInv', DepthBound, NEW c \in Callers, Makes(c)
  PROVE  DepthBound'
<1> SUFFICES ASSUME NEW l \in Links, OneEach(l)
             PROVE  (QueueDepth(l) + Cardinality(Admitted(l)))'
                      <= MaxDepth + Cardinality(Callers) - 1
  BY DEF DepthBound, OneEach
<1>0. RowsOK /\ RowsOK' /\ CallsOK /\ DepthAt(l)
  BY DEF DispatchInv, DepthBound, DepthAt
<1>1. /\ Alone(c) /\ call[c].at = "insert" /\ call'[c].at = "insert" /\ call[c].todo # <<>>
      /\ call'[c].link = call[c].link /\ call'[c].again = call[c].again
      /\ call'[c].todo = Tail(call[c].todo) /\ Line(c) \notin work
  BY DEF Makes, Stays
<1>2. PICK n \in FreshId :
        queue' = queue \cup {[id |-> n, link |-> call[c].link, pay |-> call[c].pay,
                              prio |-> Priority[Rule(c)], sending |-> FALSE]}
  BY DEF Makes
<1>3. PICK r : r = [id |-> n, link |-> call[c].link, pay |-> call[c].pay,
                    prio |-> Priority[Rule(c)], sending |-> FALSE]
  OBVIOUS
<1>4. r.link = call[c].link /\ r.id = n /\ queue' = queue \cup {r}
  BY <1>2, <1>3
<1> HIDE <1>2, <1>3
<1>5. r \notin queue
  BY <1>4, FreshIsFree
<1>6. /\ QueueDepth(l) \in Nat /\ Cardinality(Admitted(l)) \in Nat
      /\ Cardinality(Callers) \in Nat /\ MaxDepth \in Nat /\ IsFiniteSet(On(l))
  BY <1>0, DepthNumbers
<1>7. CASE l # call[c].link
  <2>1. On(l)' \in SUBSET On(l)
    BY <1>4, <1>7 DEF On
  <2>2. c \notin Admitted(l)'
    BY <1>1, <1>7 DEF Admitted
  <2>3. DepthAt(l)'
    BY <1>0, <1>1, <2>1, <2>2, DepthKept
  <2> QED BY <2>3 DEF DepthAt, OneEach
<1>8. CASE l = call[c].link
  <2>1. ~call[c].again
    BY <1>1, <1>8, AgainIsListed
  <2>2. PICK k \in LinkCalls : k = call[c]
    BY <1>0, <1>1, WhereOf DEF OnLink
  <2>3. Len(k.todo) <= 1 /\ k.todo \in Seq(AllDests)
    <3>1. Len(k.todo) <= Len(Dests[l]) /\ Len(Dests[l]) = 1
      BY <1>0, <1>1, <1>8, <2>2 DEF CallsOK, CallOK, OneEach, OnLink
    <3> QED BY <3>1 DEF LinkCalls
  <2>4. Tail(k.todo) = <<>>
    <3>1. k.todo # <<>>
      BY <1>1, <2>2
    <3>2. Tail(k.todo) \in Seq(AllDests) /\ Len(Tail(k.todo)) = Len(k.todo) - 1
      BY <2>3, <3>1, HeadTailProperties
    <3>3. Len(k.todo) \in Nat \ {0}
      BY <2>3, <3>1, TailRange
    <3>4. Len(Tail(k.todo)) = 0
      <4>1. PICK j \in Nat \ {0} : j = Len(k.todo)
        BY <3>3
      <4>2. j <= 1
        BY <2>3, <4>1
      <4>3. j = 1
        BY <4>2
      <4>4. Len(Tail(k.todo)) = 1 - 1
        BY <3>2, <4>1, <4>3, Zenon
      <4> QED BY <4>4
    <3> QED BY <3>2, <3>4, EmptySeq
  <2>5. c \in Admitted(l) /\ c \notin Admitted(l)'
    BY <1>1, <1>8, <2>1, <2>2, <2>4 DEF Admitted
  <2>6. Cardinality(Admitted(l)') = Cardinality(Admitted(l)) - 1
    BY <1>1, <2>5, OthersAdmitted, OneCaller
  <2>7. On(l)' = On(l) \cup {r} /\ r \notin On(l)
    BY <1>4, <1>5, <1>8 DEF On
  <2>8. QueueDepth(l)' = QueueDepth(l) + 1
    BY <1>6, <2>7, FS_AddElement DEF QueueDepth
  <2> QED BY <1>0, <1>6, <2>6, <2>8 DEF DepthAt
<1> QED BY <1>7, <1>8

-----------------------------------------------------------------------------
(* The hand-off. *)

\* The Hub route's own call, its list and its work are left alone, and what was
\* stored keeps its state.
LEMMA HandoffLeft ==
  ASSUME InboxInv, DispatchInv, HandoffInv, WholeInv,
         call'[Keyed] = call[Keyed], UNCHANGED <<work, made, hs>>,
         \A c \in Stores : Stored(c) => handoff'[c] = handoff[c],
         \A c \in Stores : handoff'[c] = "done" => handoff[c] = "done"
  PROVE  HandoffInv' /\ WholeInv'
<1>1. \A w \in Works : w[1] \in Stores
  BY KeyedByStore DEF Works
<1>2. \A w \in work : w \in Works
  BY DEF DispatchInv, WorkOK
<1>3. \A c \in Stores : handoff[c] \in {"pending", "done"} => handoff'[c] = handoff[c]
  BY DEF Stored
<1>4. HandoffInv'
  BY <1>1, <1>2, <1>3 DEF HandoffInv
<1>5. WholeOrNone'
  BY DEF WholeInv, WholeOrNone
<1>6. Undisturbed' <=> Undisturbed
  BY DEF Undisturbed, Rule, Past, Whole, MadeFor, Direct
<1> QED BY <1>4, <1>5, <1>6 DEF WholeInv

\* The rules' steps at hand: what the Hub route's call says of its hand-off.
LEMMA KeyedCall ==
  ASSUME DispatchInv, HandoffInv, call[Keyed] # Idle
  PROVE  /\ call[Keyed].origin \in Stores /\ handoff[call[Keyed].origin] = "pending"
         /\ call[Keyed].origin \in Copies /\ call[Keyed].origin \in hs
BY KeyedByStore DEF HandoffInv

\* A rule that is done with joins those that are.
LEMMA PastGrows ==
  ASSUME CallsOK, Leaves(Keyed)
  PROVE  Past' = Past \cup {Rule(Keyed)}
<1>1. PICK i \in Nat : i = call[Keyed].i /\ i >= 1
  BY DispatchConstants, LenProperties DEF Leaves
<1>2. call'[Keyed].i - 1 = i
  BY <1>1 DEF Leaves
<1>3. Past' = {Matches[Keyed][j] : j \in 1..i} /\ Past = {Matches[Keyed][j] : j \in 1..(i - 1)}
      /\ Rule(Keyed) = Matches[Keyed][i]
  BY <1>1, <1>2 DEF Past, Rule
<1>4. 1..i = 1..(i - 1) \cup {i}
  BY <1>1
<1> QED BY <1>3, <1>4

\* A rule with a link of its own resolves to it.
LEMMA DirectLink ==
  ASSUME NEW r \in Direct
  PROVE  /\ Target[r] \in Links /\ Resolve(Target[r]) = Target[r]
         /\ Target[r] # NoLink
         /\ \A l : Resolves(Target[r], l) => l = Target[r]
<1>1. Target[r] \in Links /\ Target[r] \notin DOMAIN Groups /\ Target[r] # NoLink
  BY DispatchConstants DEF Direct
<1> QED BY <1>1 DEF Resolve, Resolves

\* A rule that is skipped, or at its limits for the first time, is whole: it
\* made nothing, or it is through already.
LEMMA NothingMade ==
  ASSUME DispatchInv, HandoffInv, Undisturbed, call[Keyed].at = "rule",
         call[Keyed].i \in 1..Len(Matches[Keyed]), Rule(Keyed) \in Direct,
         ~Again(Keyed) \/ Resolve(Target[Rule(Keyed)]) \in Visited[Keyed]
  PROVE  Whole(call[Keyed].origin, Rule(Keyed))
<1> DEFINE k == call[Keyed]
           R == Rule(Keyed)
<1>0. CallsOK /\ Keyed \in Callers /\ k # Idle
  BY WhereOf, DispatchConstants DEF DispatchInv
<1>1. IF R \in Past THEN Whole(k.origin, R)
      ELSE \A d \in MadeFor(k.origin, R) : <<k.origin, <<R, d>>>> \in k.listed
  BY DEF Undisturbed
<1>2. CASE R \in Past
  BY <1>1, <1>2
<1>3. CASE R \notin Past
  <2>1. MadeFor(k.origin, R) = {}
    <3> SUFFICES ASSUME NEW d \in MadeFor(k.origin, R) PROVE FALSE
      OBVIOUS
    <3>1. PICK x \in k.listed : x = <<k.origin, <<R, d>>>>
      BY <1>1, <1>3
    <3>2. x[2][1] = R /\ x \in work
      BY <1>0, <3>1 DEF DispatchInv, ListedOK
    <3>3. Again(Keyed)
      BY <3>2 DEF Again
    <3>4. PICK l \in Links : Resolves(Target[R], l) /\ l \notin Visited[Keyed]
      BY <3>2 DEF DispatchInv, WorkOK
    <3> QED BY <3>3, <3>4, DirectLink
  <2> QED BY <2>1 DEF Whole
<1> QED BY <1>2, <1>3

\* The Hub route's call goes on without a row: HandoffInv is about its origin.
LEMMA HandoffGoesOn ==
  ASSUME HandoffInv, call[Keyed] # Idle, call'[Keyed].origin = call[Keyed].origin,
         UNCHANGED <<handoff, work, made, hs>>
  PROVE  HandoffInv'
BY DEF HandoffInv

\* A rule is skipped or refused, or its rows are through.
LEMMA WholeLeaves ==
  ASSUME DispatchInv, HandoffInv, WholeInv, UNCHANGED <<handoff, hs>>,
         Skips(Keyed) \/ Drops(Keyed) \/ Notes(Keyed)
  PROVE  HandoffInv' /\ WholeInv'
<1> DEFINE k == call[Keyed]
           e == call'[Keyed]
           R == Rule(Keyed)
<1>0. /\ CallsOK /\ Keyed \in Callers /\ Leaves(Keyed) /\ k.at \in OnLink \cup {"rule"}
      /\ UNCHANGED <<work, made>>
  BY DispatchConstants DEF DispatchInv, Skips, Drops, Notes, Untouched, OnLink
<1>1. k # Idle /\ e.origin = k.origin /\ e.failed = k.failed /\ e.listed = k.listed /\ e.at = "rule"
      /\ k.i \in 1..Len(Matches[Keyed])
  BY <1>0, WhereOf DEF Leaves, RuleCalls, OnLink
<1>2. HandoffInv'
  BY <1>0, <1>1, HandoffGoesOn
<1>3. WholeOrNone'
  BY <1>0 DEF WholeInv, WholeOrNone
<1>4. ASSUME ~e.failed PROVE Undisturbed'
  <2>1. Undisturbed
    BY <1>1, <1>4 DEF WholeInv
  <2>2. R \in Direct => Whole(k.origin, R)
    <3> HAVE R \in Direct
    <3>1. CASE Skips(Keyed)
      <4>1. k.at = "rule" /\ (~Again(Keyed) \/ Resolve(Target[R]) \in Visited[Keyed])
        BY <3>1, DirectLink DEF Skips
      <4> QED BY <1>1, <2>1, <4>1, NothingMade
    <3>2. CASE Drops(Keyed)
      BY <2>1, <3>2 DEF Undisturbed, Drops
    <3>3. CASE Notes(Keyed)
      <4>1. k.at = "insert" /\ k.todo = <<>> /\ "insert" \in OnLink
        BY <3>3 DEF Notes, OnLink
      <4>2. k.link = Target[R]
        BY <1>0, <4>1, DirectLink DEF CallsOK, CallOK
      <4>3. Range(k.todo) = {}
        BY <4>1 DEF Range
      <4>4. \A d \in Range(Dests[Target[R]]) : made[<<k.origin, <<R, d>>>>] > 0
        BY <2>1, <4>1, <4>2, <4>3 DEF Undisturbed
      <4> QED BY <4>4 DEF Whole, MadeFor
    <3> QED BY <3>1, <3>2, <3>3
  <2>3. Past' = Past \cup {R}
    BY <1>0, PastGrows
  <2>4. PICK o : o = k.origin
    OBVIOUS
  <2>6. ASSUME NEW r \in Direct
        PROVE  IF r \in Past' THEN Whole(o, r)
               ELSE \A d \in MadeFor(o, r) : <<o, <<r, d>>>> \in k.listed
    <3>1. CASE r = R
      BY <2>2, <2>3, <2>4, <3>1
    <3>2. CASE r # R
      BY <2>1, <2>3, <2>4, <3>2 DEF Undisturbed
    <3> QED BY <3>1, <3>2
  <2>7. e.at \notin OnLink /\ e.at # "insert" /\ e.origin = o /\ e.listed = k.listed
    BY <1>1, <2>4 DEF OnLink
  <2>8. \A r \in Direct :
          IF r \in Past' THEN Whole(o, r)'
          ELSE \A d \in MadeFor(o, r)' : <<o, <<r, d>>>> \in e.listed
    <3> TAKE r \in Direct
    <3>1. MadeFor(o, r)' = MadeFor(o, r) /\ (Whole(o, r)' <=> Whole(o, r)) /\ e.listed = k.listed
      BY <1>0, <2>7 DEF Whole, MadeFor
    <3>2. IF r \in Past' THEN Whole(o, r)
          ELSE \A d \in MadeFor(o, r) : <<o, <<r, d>>>> \in k.listed
      BY <2>6
    <3> HIDE DEF k, e
    <3> QED BY <3>1, <3>2
  <2>9. Direct' = Direct
    BY DEF Direct
  <2> QED BY <2>7, <2>8, <2>9 DEF Undisturbed
<1> QED BY <1>2, <1>3, <1>4 DEF WholeInv

\* The rules that are through, and those to come, are as they were when the call
\* stays at its rule and makes no row for them.
LEMMA OthersAlike ==
  ASSUME NEW o, NEW R, UNCHANGED made \/ \E d : \A w \in Works : w # <<o, <<R, d>>>> => made'[w] = made[w],
         o \in Copies, NEW r \in Direct, r # R \/ UNCHANGED made
  PROVE  MadeFor(o, r)' = MadeFor(o, r) /\ (Whole(o, r)' <=> Whole(o, r))
<1>1. Target[r] \in Links /\ r \in Range(Matches[Keyed])
  BY DEF Direct
<1>2. \A d \in Range(Dests[Target[r]]) : <<o, <<r, d>>>> \in Works
  BY <1>1 DEF Works, Pieces, AllDests
<1>3. \A d \in Range(Dests[Target[r]]) : made'[<<o, <<r, d>>>>] = made[<<o, <<r, d>>>>]
  BY <1>2
<1>4. MadeFor(o, r)' = MadeFor(o, r)
  BY <1>3 DEF MadeFor
<1> QED BY <1>4 DEF Whole

\* The Hub route's call enters a link or goes on at one.
LEMMA WholeStays ==
  ASSUME DispatchInv, HandoffInv, WholeInv, UNCHANGED <<handoff, hs>>,
         Enters(Keyed) \/ Moves(Keyed) \/ Evicts(Keyed) \/ Passes(Keyed)
  PROVE  HandoffInv' /\ WholeInv'
<1> DEFINE k == call[Keyed]
           e == call'[Keyed]
           R == Rule(Keyed)
<1>0. /\ CallsOK /\ Keyed \in Callers /\ UNCHANGED <<work, made>>
  BY DispatchConstants DEF DispatchInv, Enters, Moves, Evicts, Passes, Untouched
<1>1. /\ k # Idle /\ e.origin = k.origin /\ e.listed = k.listed /\ e.i = k.i
      /\ e.failed \/ e.failed = k.failed
      /\ e.at \in OnLink
  <2>1. CASE Enters(Keyed)
    BY <1>0, <2>1, WhereOf DEF Enters, LinkCalls, OnLink
  <2>2. CASE Moves(Keyed) \/ Evicts(Keyed) \/ Passes(Keyed)
    <3>1. Stays(Keyed) /\ (e.failed \/ e.failed = k.failed) /\ k.at \in OnLink
      BY <2>2 DEF Moves, Evicts, Passes, OnLink
    <3> QED BY <1>0, <3>1, WhereOf DEF Stays, LinkCalls, OnLink
  <2> QED BY <2>1, <2>2
<1>2. HandoffInv'
  BY <1>0, <1>1, HandoffGoesOn
<1>3. WholeOrNone'
  BY <1>0 DEF WholeInv, WholeOrNone
<1>4. ASSUME ~e.failed PROVE Undisturbed'
  <2>1. Undisturbed /\ e.failed = k.failed /\ e.at \in OnLink
    BY <1>1, <1>4 DEF WholeInv
  <2>2. Past' = Past /\ Direct' = Direct /\ Rule(Keyed)' = R
    BY <1>1 DEF Past, Direct, Rule
  <2>3. PICK o \in Copies : o = k.origin /\ o = e.origin
    BY <1>1, KeyedCall
  <2>4. ASSUME NEW r \in Direct, ~(e.at = "insert" /\ r = R)
        PROVE  IF r \in Past' THEN Whole(o, r)'
               ELSE \A d \in MadeFor(o, r)' : <<o, <<r, d>>>> \in e.listed
    <3>1. MadeFor(o, r)' = MadeFor(o, r) /\ (Whole(o, r)' <=> Whole(o, r)) /\ e.listed = k.listed
      BY <1>0, <1>1 DEF MadeFor, Whole
    <3>2. ~(k.at = "insert" /\ r = R)
      BY <2>4 DEF Enters, Moves, Evicts, Passes
    <3>3. IF r \in Past THEN Whole(o, r)
          ELSE \A d \in MadeFor(o, r) : <<o, <<r, d>>>> \in k.listed
      BY <2>1, <2>3, <3>2 DEF Undisturbed
    <3> HIDE DEF k, e
    <3> QED BY <2>2, <3>1, <3>3
  <2>5. ASSUME e.at \in OnLink \ {"insert"}, R \in Direct
        PROVE  Whole(o, R)' /\ Range(e.todo) = Range(Dests[e.link])
    <3>1. CASE Enters(Keyed)
      <4>1. /\ k.at = "rule" /\ ~Again(Keyed) /\ k.i \in 1..Len(Matches[Keyed])
            /\ e.todo = Dests[e.link]
        BY <2>5, <3>1 DEF Enters
      <4>2. Whole(o, R)
        BY <2>1, <2>3, <2>5, <4>1, NothingMade
      <4>3. Whole(o, R)'
        BY <1>0, <1>1, <2>2, <4>2 DEF Whole, MadeFor, Rule
      <4> QED BY <4>1, <4>3
    <3>2. CASE Moves(Keyed) \/ Evicts(Keyed) \/ Passes(Keyed)
      <4>1. k.at \in OnLink \ {"insert"} /\ e.todo = k.todo /\ e.link = k.link
        BY <2>5, <3>2 DEF Moves, Evicts, Passes, Stays, OnLink
      <4>2. Whole(o, R) /\ Range(k.todo) = Range(Dests[k.link])
        BY <2>1, <2>3, <2>5, <4>1 DEF Undisturbed
      <4>3. Whole(o, R)'
        BY <1>0, <1>1, <2>2, <4>2 DEF Whole, MadeFor, Rule
      <4> QED BY <4>1, <4>2, <4>3
    <3> QED BY <3>1, <3>2
  <2>6. ASSUME e.at = "insert", R \in Direct, NEW d \in Range(Dests[e.link])
        PROVE  d \in Range(e.todo) \/ made'[<<o, <<R, d>>>>] > 0
    <3>1. CASE Enters(Keyed)
      BY <2>6, <3>1 DEF Enters
    <3>2. CASE Moves(Keyed) \/ Evicts(Keyed)
      <4>1. k.at \in OnLink \ {"insert"} /\ e.todo = k.todo /\ e.link = k.link
        BY <2>6, <3>2 DEF Moves, Evicts, Stays, OnLink
      <4> QED BY <2>1, <2>6, <4>1 DEF Undisturbed
    <3>3. CASE Passes(Keyed)
      <4>1. /\ k.at = "insert" /\ e.link = k.link /\ k.todo # <<>> /\ e.todo = Tail(k.todo)
            /\ Line(Keyed) \in work /\ k.todo \in Seq(AllDests)
        BY <1>4, <3>3 DEF Passes, Stays, LinkCalls
      <4>2. d \in Range(k.todo) \/ made[<<o, <<R, d>>>>] > 0
        BY <2>1, <2>3, <2>6, <4>1 DEF Undisturbed
      <4>3. d \in Range(k.todo) => d = Head(k.todo) \/ d \in Range(e.todo)
        BY <4>1, TailRange
      <4>4. made[<<o, <<R, Head(k.todo)>>>>] > 0
        BY <2>3, <4>1 DEF HandoffInv, Line
      <4> QED BY <1>0, <4>2, <4>3, <4>4
    <3> QED BY <3>1, <3>2, <3>3
  <2>7. /\ \A r \in Direct : ~(e.at = "insert" /\ r = R) =>
             IF r \in Past' THEN Whole(o, r)'
             ELSE \A d \in MadeFor(o, r)' : <<o, <<r, d>>>> \in e.listed
        /\ e.at \in OnLink \ {"insert"} /\ R \in Direct =>
             Whole(o, R)' /\ Range(e.todo) = Range(Dests[e.link])
        /\ e.at = "insert" /\ R \in Direct =>
             \A d \in Range(Dests[e.link]) : d \in Range(e.todo) \/ made'[<<o, <<R, d>>>>] > 0
    BY <2>4, <2>5, <2>6
  <2> QED BY <2>2, <2>3, <2>7 DEF Undisturbed
<1> QED BY <1>2, <1>3, <1>4 DEF WholeInv

\* A row of the hand-off is made: the first of its line.
LEMMA FirstOfItsLine ==
  ASSUME DispatchInv, HandoffInv, Makes(Keyed)
  PROVE  /\ Line(Keyed) \in Works /\ Line(Keyed)[1] = call[Keyed].origin
         /\ handoff[call[Keyed].origin] = "pending" /\ call[Keyed].origin \in Stores
         /\ made[Line(Keyed)] = 0 /\ made'[Line(Keyed)] = 1
         /\ \A w \in Works : w # Line(Keyed) => made'[w] = made[w]
         /\ work' = work \cup {Line(Keyed)}
<1>0. /\ CallsOK /\ Keyed \in Callers /\ call[Keyed].at = "insert" /\ call[Keyed].todo # <<>>
      /\ Line(Keyed) \notin work
  BY DispatchConstants DEF DispatchInv, Makes
<1>1. call[Keyed] # Idle
  BY <1>0, WhereOf
<1>2. PICK x \in Works : x = Line(Keyed)
  BY <1>0, LineOK
<1>3. x[1] = call[Keyed].origin
  BY <1>2 DEF Line
<1>4. handoff[call[Keyed].origin] = "pending" /\ call[Keyed].origin \in Stores
  BY <1>1, KeyedCall
<1>5. made[x] = 0
  BY <1>0, <1>2, <1>3, <1>4 DEF HandoffInv
<1>6. made' = [made EXCEPT ![x] = @ + 1] /\ work' = work \cup {x}
  BY <1>2 DEF Makes
<1>7. made \in [Works -> Nat]
  BY DEF DispatchInv, TablesOK
<1>8. made'[x] = made[x] + 1 /\ \A w \in Works : w # x => made'[w] = made[w]
  BY <1>6, <1>7, CountedUp
<1> QED BY <1>2, <1>3, <1>4, <1>5, <1>6, <1>8

\* The Hub route's call makes a row.
LEMMA WholeMakes ==
  ASSUME DispatchInv, HandoffInv, WholeInv, UNCHANGED <<handoff, hs>>, Makes(Keyed)
  PROVE  HandoffInv' /\ WholeInv'
<1> DEFINE k == call[Keyed]
           e == call'[Keyed]
           R == Rule(Keyed)
<1>0. /\ CallsOK /\ Keyed \in Callers /\ Stays(Keyed) /\ k.at = "insert" /\ e.at = "insert"
      /\ k.todo # <<>> /\ e.todo = Tail(k.todo) /\ e.failed = k.failed
  BY DispatchConstants DEF DispatchInv, Makes
<1>1. /\ k # Idle /\ e.origin = k.origin /\ e.listed = k.listed /\ e.i = k.i
      /\ e.link = k.link /\ k.todo \in Seq(AllDests)
  BY <1>0, WhereOf DEF Stays, LinkCalls
<1>2. PICK o \in Copies : o = k.origin /\ o = e.origin /\ o \in Stores /\ handoff[o] = "pending"
                          /\ o \in hs
  BY <1>1, KeyedCall
<1>3. PICK x \in Works : x = <<o, <<R, Head(k.todo)>>>> /\ x = Line(Keyed)
  BY <1>2, FirstOfItsLine DEF Line
<1>4. /\ x[1] = o /\ made[x] = 0 /\ made'[x] = 1 /\ work' = work \cup {x}
      /\ \A w \in Works : w # x => made'[w] = made[w]
  BY <1>2, <1>3, FirstOfItsLine
<1>5. work \subseteq Works
  BY DEF DispatchInv, WorkOK
<1>6. HandoffInv'
  <2>1. \A w \in work' : handoff'[w[1]] = "pending" /\ made'[w] > 0
    BY <1>2, <1>4, <1>5 DEF HandoffInv
  <2>2. \A w \in Works : made'[w] = 0 \/ w \in work' \/ handoff'[w[1]] = "done"
    BY <1>4 DEF HandoffInv
  <2> QED BY <1>2, <2>1, <2>2 DEF HandoffInv
<1>7. WholeOrNone'
  <2> SUFFICES ASSUME NEW c \in Stores, NEW r \in Range(Matches[Keyed]),
                      handoff'[c] = "done", Target[r] \in Links
               PROVE  Whole(c, r)'
    BY DEF WholeOrNone, Whole, MadeFor
  <2>1. handoff[c] = "done" /\ c # o /\ c \in Copies /\ r \in Direct
    BY <1>2, KeyedByStore DEF Direct
  <2>2. \A d \in Range(Dests[Target[r]]) : <<c, <<r, d>>>> \in Works
    BY <2>1 DEF Works, Pieces, AllDests
  <2>3. \A d \in Range(Dests[Target[r]]) : made'[<<c, <<r, d>>>>] = made[<<c, <<r, d>>>>]
    <3> TAKE d \in Range(Dests[Target[r]])
    <3>1. <<c, <<r, d>>>> # x
      BY <1>3, <2>1
    <3> QED BY <1>4, <2>2, <3>1
  <2>4. Whole(c, r)
    BY <2>1 DEF WholeInv, WholeOrNone, Whole, MadeFor
  <2> QED BY <2>3, <2>4 DEF Whole, MadeFor
<1>8. ASSUME ~e.failed PROVE Undisturbed'
  <2>1. Undisturbed
    BY <1>0, <1>1, <1>8 DEF WholeInv
  <2>2. Past' = Past /\ Direct' = Direct /\ Rule(Keyed)' = R
    BY <1>1 DEF Past, Direct, Rule
  <2>3. ASSUME NEW r \in Direct, r # R
        PROVE  IF r \in Past' THEN Whole(o, r)'
               ELSE \A d \in MadeFor(o, r)' : <<o, <<r, d>>>> \in e.listed
    <3>1. \E d : \A w \in Works : w # <<o, <<R, d>>>> => made'[w] = made[w]
      BY <1>3, <1>4
    <3>2. MadeFor(o, r)' = MadeFor(o, r) /\ (Whole(o, r)' <=> Whole(o, r))
      BY <2>3, <3>1, OthersAlike
    <3>3. IF r \in Past THEN Whole(o, r)
          ELSE \A d \in MadeFor(o, r) : <<o, <<r, d>>>> \in k.listed
      BY <1>2, <2>1, <2>3 DEF Undisturbed
    <3>4. e.listed = k.listed
      BY <1>1
    <3> HIDE DEF k, e
    <3> QED BY <2>2, <3>2, <3>3, <3>4
  <2>4. ASSUME R \in Direct, NEW d \in Range(Dests[e.link])
        PROVE  d \in Range(e.todo) \/ made'[<<o, <<R, d>>>>] > 0
    <3>1. d \in Range(k.todo) \/ made[<<o, <<R, d>>>>] > 0
      BY <1>0, <1>1, <1>2, <2>1, <2>4 DEF Undisturbed
    <3>2. d \in Range(k.todo) => d = Head(k.todo) \/ d \in Range(e.todo)
      BY <1>0, <1>1, TailRange
    <3>3. CASE d = Head(k.todo)
      BY <1>3, <1>4, <3>3
    <3>4. CASE d # Head(k.todo) /\ made[<<o, <<R, d>>>>] > 0
      <4>1. Target[R] \in Links /\ e.link = Target[R] /\ R \in Range(Matches[Keyed])
        BY <1>0, <1>1, <2>4, DirectLink DEF CallsOK, CallOK, OnLink, Direct
      <4>2. <<o, <<R, d>>>> \in Works
        BY <2>4, <4>1 DEF Works, Pieces, AllDests
      <4>3. <<o, <<R, d>>>> # x
        BY <1>3, <3>4
      <4> QED BY <1>4, <3>4, <4>2, <4>3
    <3> QED BY <3>1, <3>2, <3>3, <3>4
  <2>5. /\ \A r \in Direct : ~(e.at = "insert" /\ r = R) =>
             IF r \in Past' THEN Whole(o, r)'
             ELSE \A d \in MadeFor(o, r)' : <<o, <<r, d>>>> \in e.listed
        /\ e.at \notin OnLink \ {"insert"}
        /\ e.at = "insert" /\ R \in Direct =>
             \A d \in Range(Dests[e.link]) : d \in Range(e.todo) \/ made'[<<o, <<R, d>>>>] > 0
    BY <1>0, <2>3, <2>4 DEF OnLink
  <2> QED BY <1>2, <2>2, <2>5 DEF Undisturbed
<1> QED BY <1>6, <1>7, <1>8 DEF WholeInv

\* A hand-off begins: of what was made for it, all is listed.
LEMMA WholeBegins ==
  ASSUME DispatchInv, HandoffInv, WholeInv, UNCHANGED <<handoff, hs>>, Begins(Keyed),
         call'[Keyed].origin \in hs
  PROVE  HandoffInv' /\ WholeInv'
<1> DEFINE e == call'[Keyed]
<1>0. UNCHANGED <<work, made>> /\ e.at = "rule" /\ e.i = 1
      /\ e.listed = {x \in work : x[1] = e.origin}
  BY DEF Begins, Untouched, RuleCalls
<1>1. HandoffInv'
  BY <1>0 DEF HandoffInv
<1>2. WholeOrNone'
  BY <1>0 DEF WholeInv, WholeOrNone
<1>3. Past' = {}
  BY <1>0 DEF Past
<1>4. PICK o \in Stores : o = e.origin /\ handoff[o] = "pending"
  BY DEF HandoffInv
<1>5. ASSUME NEW r \in Direct, NEW d \in MadeFor(o, r)'
      PROVE  <<o, <<r, d>>>> \in e.listed
  <2>1. d \in Range(Dests[Target[r]]) /\ made[<<o, <<r, d>>>>] > 0
    BY <1>0, <1>5 DEF MadeFor
  <2>2. Target[r] \in Links /\ r \in Range(Matches[Keyed])
    BY DEF Direct
  <2>3. PICK x \in Works : x = <<o, <<r, d>>>> /\ x[1] = o
    BY <2>1, <2>2, KeyedByStore DEF Works, Pieces, AllDests
  <2>4. x \in work
    BY <1>4, <2>1, <2>3 DEF HandoffInv
  <2> QED BY <1>0, <1>4, <2>3, <2>4
<1>6. e.at \notin OnLink /\ e.at # "insert" /\ Direct' = Direct
  BY <1>0 DEF OnLink, Direct
<1>7. \A r \in Direct : \A d \in MadeFor(o, r)' : <<o, <<r, d>>>> \in e.listed
  BY <1>5
<1>8. Undisturbed'
  BY <1>3, <1>4, <1>6, <1>7 DEF Undisturbed
<1> QED BY <1>1, <1>2, <1>8 DEF WholeInv

\* The rules are through, and without a failure every one is whole.
LEMMA ThroughIsWhole ==
  ASSUME DispatchInv, WholeInv, Through(Keyed), ~call[Keyed].failed
  PROVE  \A r \in Direct : Whole(call[Keyed].origin, r)
<1>0. CallsOK /\ Keyed \in Callers /\ call[Keyed].at = "rule"
  BY DispatchConstants DEF DispatchInv, Through
<1>1. call[Keyed] # Idle
  BY <1>0, WhereOf
<1>2. Matches[Keyed] \in Seq(DOMAIN Target)
  BY DispatchConstants
<1>3. PICK n \in Nat : n = Len(Matches[Keyed]) /\ DOMAIN Matches[Keyed] = 1..n
  BY <1>2, LenProperties
<1>4. call[Keyed].i = n + 1
  BY <1>0, <1>3 DEF Through, CallsOK, CallOK
<1>5. Past = Range(Matches[Keyed])
  <2>1. call[Keyed].i - 1 = n
    BY <1>4
  <2> QED BY <1>3, <2>1 DEF Past, Range
<1>6. Undisturbed
  BY <1>1 DEF WholeInv
<1> QED BY <1>0, <1>5, <1>6 DEF Undisturbed, Direct

-----------------------------------------------------------------------------
(* The steps that end a call, and those of the others. *)

\* A list is empty in a call that carries no message.
LEMMA PlainListsNothing ==
  ASSUME DispatchInv, NEW c \in Callers, c # Keyed, call[c] # Idle
  PROVE  call[c].listed = {}
<1>1. call[c].origin = NoCopy
  BY DEF DispatchInv, CallsOK, CallOK
<1>2. \A x \in work : x[1] \in Copies
  BY DEF DispatchInv, WorkOK, Works
<1>3. \A x \in call[c].listed : x \in work /\ x[1] = NoCopy
  BY <1>1 DEF DispatchInv, ListedOK
<1> QED BY <1>2, <1>3, DispatchConstants

\* A call ends; of dispatch_work at most what the Hub route's call listed goes.
LEMMA EndsKeeps ==
  ASSUME DispatchInv, NEW c \in Callers, call' = [call EXCEPT ![c] = Idle],
         UNCHANGED <<queue, status, noted, made, copies>>, work' \subseteq work,
         work' = work \/ c = Keyed
  PROVE  Returns(c) /\ DispatchInv'
<1>1. Returns(c)
  BY DEF Returns, Alone, DispatchInv, CallsOK
<1>2. CallsOK'
  BY <1>1, ReturnsOK DEF DispatchInv
<1>3. Alone(c) /\ call'[c] = Idle /\ call'[c].at # "evict"
  BY <1>1 DEF Returns, Idle
<1>4. VictimOK'
  BY <1>3, VictimsKept DEF DispatchInv
<1>5. ListedOK'
  <2>1. CASE work' = work
    BY <1>3, <2>1, ListedKept DEF DispatchInv
  <2>2. CASE c = Keyed
    <3> SUFFICES ASSUME NEW d \in Callers, call'[d] # Idle
                 PROVE  call'[d].listed = {}
      BY DEF ListedOK
    <3>1. d # Keyed /\ call'[d] = call[d]
      BY <1>3, <2>2 DEF Alone
    <3> QED BY <3>1, PlainListsNothing
  <2> QED BY <2>1, <2>2
<1>6. RowsOK' /\ TablesOK' /\ WorkOK'
  BY DEF DispatchInv, RowsOK, TablesOK, WorkOK
<1> QED BY <1>1, <1>2, <1>4, <1>5, <1>6 DEF DispatchInv

\* A step that leaves the dispatcher alone.
LEMMA DispatchLeft ==
  ASSUME DispatchInv, CacheInv, DepthBound, UNCHANGED dispatchVars
  PROVE  DispatchInv' /\ CacheInv' /\ DepthBound'
<1>0. UNCHANGED <<queue, status, noted, call, work, made, copies>>
  BY DEF dispatchVars
<1>1. CallsOK' /\ RowsOK' /\ VictimOK'
  BY <1>0 DEF DispatchInv, CallsOK, CallOK, Rule, Again, RowsOK, VictimOK
<1>2. WorkOK' /\ ListedOK' /\ TablesOK'
  BY <1>0 DEF DispatchInv, WorkOK, ListedOK, TablesOK
<1>3. CacheInv'
  BY <1>0 DEF CacheInv, CacheAt, Hopeful, Telling, At
<1>4. DepthBound'
  BY <1>0 DEF DepthBound, QueueDepth, On, Admitted
<1> QED BY <1>1, <1>2, <1>3, <1>4 DEF DispatchInv

\* The interface manager's word, and the cache's forgetting.
LEMMA LinkMovesKeeps ==
  ASSUME DispatchInv, CacheInv, DepthBound, NEW l \in Links,
         NEW s \in {"online", "waiting", "off"}, LinkChanges(l, s)
  PROVE  DispatchInv' /\ CacheInv' /\ DepthBound'
<1>0. UNCHANGED <<queue, noted, call, work, made, copies>> /\ status' = [status EXCEPT ![l] = s]
  BY DEF LinkChanges
<1>1. CallsOK' /\ RowsOK' /\ VictimOK'
  BY <1>0 DEF DispatchInv, CallsOK, CallOK, Rule, Again, RowsOK, VictimOK
<1>2. WorkOK' /\ ListedOK' /\ TablesOK'
  BY <1>0 DEF DispatchInv, WorkOK, ListedOK, TablesOK
<1>3. CacheInv'
  BY <1>0 DEF CacheInv, CacheAt, Hopeful, Telling, At
<1>4. DepthBound'
  BY <1>0 DEF DepthBound, QueueDepth, On, Admitted
<1> QED BY <1>1, <1>2, <1>3, <1>4 DEF DispatchInv

\* An entry forgotten is counted from nothing, and whoever is at its link then
\* is one of the goroutines.
LEMMA ForgetsKeeps ==
  ASSUME DispatchInv, CacheInv, DepthBound, NEW e \in noted, ForgetDelivered(e)
  PROVE  DispatchInv' /\ CacheInv' /\ DepthBound'
<1>0. /\ UNCHANGED <<queue, status, call, work, made>>
      /\ noted' = noted \ {e} /\ copies' = [copies EXCEPT ![e] = 0]
  BY DEF ForgetDelivered
<1>1. CallsOK' /\ RowsOK' /\ VictimOK'
  BY <1>0 DEF DispatchInv, CallsOK, CallOK, Rule, Again, RowsOK, VictimOK
<1>2. copies \in [Links \X Payloads -> Nat] /\ noted \subseteq Links \X Payloads
  BY DEF DispatchInv, TablesOK
<1>3. WorkOK' /\ ListedOK' /\ TablesOK'
  BY <1>0, <1>2 DEF DispatchInv, WorkOK, ListedOK, TablesOK
<1>4. CacheInv'
  <2> SUFFICES ASSUME NEW f \in Links \X Payloads PROVE CacheAt(f)'
    BY DEF CacheInv
  <2>1. PICK A : A = Hopeful(f)
    OBVIOUS
  <2>2. PICK B : B = Telling(f)
    OBVIOUS
  <2>3. A = Hopeful(f)' /\ B = Telling(f)'
    BY <1>0, <2>1, <2>2 DEF Hopeful, Telling, At
  <2>4. /\ A \in SUBSET Callers /\ B \in SUBSET Callers /\ IsFiniteSet(Callers)
    BY <2>1, <2>2, DispatchConstants DEF Hopeful, Telling
  <2>5. /\ IsFiniteSet(A) /\ IsFiniteSet(B) /\ Cardinality(A) <= Cardinality(Callers)
    BY <2>4, FS_Subset
  <2>6. Cardinality(A) \in Nat /\ Cardinality(B) \in Nat /\ Cardinality(Callers) \in Nat
    BY <2>4, <2>5, FS_CardinalityType
  <2>7. CASE f = e
    <3>1. copies'[f] = 0
      BY <1>0, <1>2, <2>7
    <3>2. /\ copies'[f] + Cardinality(A) <= Cardinality(Callers)
          /\ copies'[f] <= Cardinality(B)
      BY <2>5, <2>6, <3>1
    <3> QED BY <2>3, <3>2 DEF CacheAt
  <2>8. CASE f # e
    <3>1. copies'[f] = copies[f] /\ (f \in noted' <=> f \in noted)
      BY <1>0, <1>2, <2>8
    <3> QED BY <2>1, <2>2, <2>3, <3>1 DEF CacheInv, CacheAt
  <2> QED BY <2>7, <2>8
<1>5. DepthBound'
  BY <1>0 DEF DepthBound, QueueDepth, On, Admitted
<1> QED BY <1>1, <1>3, <1>4, <1>5 DEF DispatchInv

\* The process ends: nobody is at any link, and nothing is counted.
LEMMA CrashKeeps ==
  ASSUME DispatchInv, DepthBound, CrashDispatcher
  PROVE  DispatchInv' /\ CacheInv' /\ DepthBound'
<1>0. /\ UNCHANGED <<queue, status, work, made>> /\ noted' = {}
      /\ \A c \in Callers : call'[c] = Idle
      /\ \A e \in Links \X Payloads : copies'[e] = 0
  BY DEF CrashDispatcher
<1>1. CallsOK'
  <2>1. DOMAIN call' = Callers
    BY DEF CrashDispatcher
  <2>2. \A c \in Callers : CallOK(c)'
    BY <1>0 DEF CallOK, Idle, OnLink
  <2> QED BY <2>1, <2>2 DEF CallsOK
<1>2. RowsOK' /\ VictimOK' /\ WorkOK' /\ ListedOK'
  BY <1>0 DEF DispatchInv, RowsOK, VictimOK, WorkOK, ListedOK, Idle
<1>3. TablesOK'
  BY DEF DispatchInv, TablesOK, CrashDispatcher
<1>4. ASSUME NEW e \in Links \X Payloads PROVE CacheAt(e)'
  <2>1. Hopeful(e)' = {} /\ Telling(e)' = {}
    BY <1>0 DEF Hopeful, Telling, At, Idle, OnLink
  <2>2. Cardinality({}) = 0 /\ Cardinality(Callers) \in Nat
    BY DispatchConstants, FS_EmptySet, FS_CardinalityType
  <2> QED BY <1>0, <2>1, <2>2 DEF CacheAt
<1>5. DepthBound'
  <2> SUFFICES ASSUME NEW l \in Links, OneEach(l)
               PROVE  QueueDepth(l)' + Cardinality(Admitted(l)')
                        <= MaxDepth + Cardinality(Callers) - 1
    BY DEF DepthBound
  <2>1. QueueDepth(l)' = QueueDepth(l) /\ Admitted(l)' = {}
    BY <1>0 DEF QueueDepth, On, Admitted, Idle
  <2>2. Cardinality({}) = 0
    BY FS_EmptySet
  <2>3. RowsOK
    BY DEF DispatchInv
  <2>4. QueueDepth(l) + Cardinality(Admitted(l)) <= MaxDepth + Cardinality(Callers) - 1
    BY DEF DepthBound
  <2> QED BY <2>1, <2>2, <2>3, <2>4, DepthNumbers
<1> QED BY <1>1, <1>2, <1>3, <1>4, <1>5 DEF DispatchInv, CacheInv

\* The rows of a queue change, of no link more than before.
LEMMA RowsMove ==
  ASSUME DispatchInv, CacheInv, DepthBound, RowsOK', VictimOK',
         UNCHANGED <<status, noted, call, work, made, copies>>,
         \A l \in Links : QueueDepth(l)' <= QueueDepth(l)
  PROVE  DispatchInv' /\ CacheInv' /\ DepthBound'
<1>1. CallsOK' /\ WorkOK' /\ ListedOK' /\ TablesOK'
  BY ZenonT(60) DEF DispatchInv, CallsOK, CallOK, Rule, Again, WorkOK, ListedOK, TablesOK
<1>2. CacheInv'
  BY DEF CacheInv, CacheAt, Hopeful, Telling, At
<1>3. DepthBound'
  <2> SUFFICES ASSUME NEW l \in Links, OneEach(l)
               PROVE  QueueDepth(l)' + Cardinality(Admitted(l)')
                        <= MaxDepth + Cardinality(Callers) - 1
    BY DEF DepthBound
  <2>1. Admitted(l)' = Admitted(l)
    BY DEF Admitted
  <2>2. PICK n : n = QueueDepth(l)'
    OBVIOUS
  <2>3. n \in Nat /\ n <= QueueDepth(l)
    <3>1. IsFiniteSet(queue')
      BY DEF RowsOK
    <3>2. IsFiniteSet(On(l)') /\ n = Cardinality(On(l)')
      BY <2>2, <3>1, FS_Subset DEF On, QueueDepth
    <3> QED BY <2>2, <3>2, FS_CardinalityType
  <2>4. RowsOK
    BY DEF DispatchInv
  <2>5. QueueDepth(l) + Cardinality(Admitted(l)) <= MaxDepth + Cardinality(Callers) - 1
    BY DEF DepthBound
  <2>6. QueueDepth(l) \in Nat /\ Cardinality(Admitted(l)) \in Nat
        /\ Cardinality(Callers) \in Nat /\ MaxDepth \in Nat
    BY <2>4, DepthNumbers
  <2> QED BY <2>1, <2>2, <2>3, <2>5, <2>6
<1> QED BY <1>1, <1>2, <1>3 DEF DispatchInv

\* A worker ends a row.
LEMMA FinishKeeps ==
  ASSUME DispatchInv, CacheInv, DepthBound, NEW r \in queue, Finish(r)
  PROVE  DispatchInv' /\ CacheInv' /\ DepthBound'
<1>0. queue' = queue \ {r} /\ UNCHANGED <<status, noted, call, work, made, copies>>
  BY DEF Finish
<1>1. IsFiniteSet(queue')
  BY <1>0, FS_Subset DEF DispatchInv, RowsOK
<1>2. RowsOK'
  BY <1>0, <1>1 DEF DispatchInv, RowsOK
<1>3. VictimOK'
  BY <1>0 DEF DispatchInv, VictimOK
<1>4. ASSUME NEW l \in Links PROVE QueueDepth(l)' <= QueueDepth(l)
  <2>1. On(l)' \in SUBSET On(l)
    BY <1>0 DEF On
  <2>2. IsFiniteSet(On(l))
    BY DepthNumbers DEF DispatchInv
  <2> QED BY <2>1, <2>2, FS_Subset DEF QueueDepth
<1> QED BY <1>0, <1>2, <1>3, <1>4, RowsMove

\* A worker takes a row: the same row, of the same link, now in flight.
LEMMA ClaimKeeps ==
  ASSUME DispatchInv, CacheInv, DepthBound, NEW r \in queue, Claim(r)
  PROVE  DispatchInv' /\ CacheInv' /\ DepthBound'
<1>1. PICK q : q = [r EXCEPT !.sending = TRUE]
  OBVIOUS
<1>2. r \in QueueRows
  BY DEF DispatchInv, RowsOK
<1>3. q \in QueueRows /\ q.id = r.id /\ q.link = r.link /\ q # r
  BY <1>1, <1>2 DEF QueueRows, Claim
<1>4. queue' = (queue \ {r}) \cup {q} /\ UNCHANGED <<status, noted, call, work, made, copies>>
  BY <1>1 DEF Claim
<1>5. q \notin queue
  BY <1>3 DEF DispatchInv, RowsOK
<1>6. IsFiniteSet(queue \ {r}) /\ IsFiniteSet(queue)
  BY FS_Subset DEF DispatchInv, RowsOK
<1>7. IsFiniteSet(queue')
  BY <1>4, <1>6, FS_AddElement
<1>8. RowsOK'
  BY <1>3, <1>4, <1>7 DEF DispatchInv, RowsOK
<1>9. VictimOK'
  BY <1>3, <1>4 DEF DispatchInv, VictimOK
<1>10. ASSUME NEW l \in Links PROVE QueueDepth(l)' <= QueueDepth(l)
  <2>1. IsFiniteSet(On(l)) /\ QueueDepth(l) \in Nat
    BY DepthNumbers DEF DispatchInv
  <2>2. CASE r.link # l
    <3>1. On(l)' = On(l)
      BY <1>3, <1>4, <2>2 DEF On
    <3> QED BY <2>1, <3>1 DEF QueueDepth
  <2>3. CASE r.link = l
    <3>1. PICK S : S = On(l) \ {r}
      OBVIOUS
    <3>2. r \in On(l) /\ On(l)' = S \cup {q} /\ q \notin S
      BY <1>3, <1>4, <1>5, <2>3, <3>1 DEF On
    <3>3. IsFiniteSet(S) /\ Cardinality(S) = Cardinality(On(l)) - 1
      BY <2>1, <3>1, <3>2, FS_RemoveElement
    <3>4. Cardinality(S \cup {q}) = Cardinality(S) + 1
      BY <3>2, <3>3, FS_AddElement
    <3>5. Cardinality(S) \in Nat
      BY <3>3, FS_CardinalityType
    <3> QED BY <2>1, <3>2, <3>3, <3>4, <3>5 DEF QueueDepth
  <2> QED BY <2>2, <2>3
<1> QED BY <1>4, <1>8, <1>9, <1>10, RowsMove

\* The hand-off ends, with an error or a mark that could not be written, and the
\* message stays pending; or it is marked done, and is whole.
LEMMA EndHandOffOK ==
  ASSUME InboxInv, DispatchInv, CacheInv, DepthBound, HandoffInv, WholeInv, EndHandOff
  PROVE  /\ InboxInv' /\ DispatchInv' /\ CacheInv' /\ DepthBound' /\ HandoffInv' /\ WholeInv'
         /\ \A d \in Stores : Stored(d)' <=> Stored(d)
<1>0. /\ Keyed \in Callers /\ Through(Keyed) /\ CallsOK /\ call[Keyed].at = "rule"
      /\ call' = [call EXCEPT ![Keyed] = Idle]
      /\ UNCHANGED <<queue, status, noted, made, copies>>
  BY DispatchConstants DEF EndHandOff, Through, DispatchInv
<1>1. call[Keyed] # Idle /\ call[Keyed].at \notin OnLink
  BY <1>0, WhereOf DEF OnLink
<1>2. PICK c \in Stores : c = call[Keyed].origin /\ c \in hs /\ handoff[c] = "pending"
  BY <1>1, KeyedCall
<1>3. hs' = hs \ {c}
  BY <1>2 DEF EndHandOff
<1>4. work' = work \/ work' = {w \in work : w[1] # c}
  BY <1>2 DEF EndHandOff
<1>5. Returns(Keyed) /\ DispatchInv'
  BY <1>0, <1>4, EndsKeeps
<1>6. CacheInv'
  BY <1>0, <1>1, <1>5, CacheSteps
<1>7. DepthBound'
  BY <1>0, <1>5, DepthSteps
<1>8. call'[Keyed] = Idle
  BY <1>5 DEF Returns
<1>9. \A w \in Works : w[1] \in Stores
  BY KeyedByStore DEF Works
<1>10. work \subseteq Works /\ handoff \in [Stores -> {"none", "pending", "done"}]
  BY DEF DispatchInv, WorkOK, InboxInv, InboxTypeOK
<1>11. CASE UNCHANGED <<inboxVars, work>>
  <2>1. UNCHANGED <<handoff, work, made>>
    BY <1>0, <1>11 DEF inboxVars
  <2>2. InboxInv' /\ \A d \in Stores : Stored(d)' <=> Stored(d)
    <3>1. /\ UNCHANGED <<ack, handoff, unjudged, inbox, now>>
          /\ inn' \subseteq Ops /\ clockOK' \in BOOLEAN
      BY <1>11 DEF inboxVars, InboxInv, InboxTypeOK
    <3> QED BY <3>1, InboxQuiet DEF Stored
  <2>3. HandoffInv'
    BY <1>3, <1>8, <2>1 DEF HandoffInv
  <2>4. WholeInv'
    BY <1>8, <2>1 DEF WholeInv, WholeOrNone
  <2> QED BY <1>5, <1>6, <1>7, <2>2, <2>3, <2>4
<1>12. CASE ~call[Keyed].failed /\ HandoffDone(c) /\ work' = {w \in work : w[1] # c}
  <2>1. InboxInv' /\ \A d \in Stores : Stored(d)' <=> Stored(d)
    BY <1>12, InboxDone
  <2>2. handoff'[c] = "done" /\ \A d \in Stores : d # c => handoff'[d] = handoff[d]
    BY <1>2, <1>10, <1>12 DEF HandoffDone
  <2>3. HandoffInv'
    <3>1. hs' \subseteq {d \in Stores : handoff'[d] = "pending"}
      BY <1>3, <2>2 DEF HandoffInv
    <3>2. \A w \in work' : handoff'[w[1]] = "pending" /\ made'[w] > 0
      BY <1>0, <1>9, <1>10, <1>12, <2>2 DEF HandoffInv
    <3>3. \A w \in Works : made'[w] = 0 \/ w \in work' \/ handoff'[w[1]] = "done"
      BY <1>0, <1>9, <1>12, <2>2 DEF HandoffInv
    <3> QED BY <1>8, <3>1, <3>2, <3>3 DEF HandoffInv
  <2>4. WholeOrNone'
    <3>1. \A r \in Direct : Whole(c, r)
      BY <1>0, <1>2, <1>12, ThroughIsWhole
    <3> SUFFICES ASSUME NEW d \in Stores, NEW r \in Range(Matches[Keyed]),
                        handoff'[d] = "done", Target[r] \in Links
                 PROVE  {x \in Range(Dests[Target[r]]) : made'[<<d, <<r, x>>>>] > 0}
                          \in {{}, Range(Dests[Target[r]])}
      BY DEF WholeOrNone
    <3>2. CASE d = c
      BY <1>0, <3>1, <3>2 DEF Direct, Whole, MadeFor
    <3>3. CASE d # c
      BY <1>0, <2>2, <3>3 DEF WholeInv, WholeOrNone
    <3> QED BY <3>2, <3>3
  <2> QED BY <1>5, <1>6, <1>7, <1>8, <2>1, <2>3, <2>4 DEF WholeInv
<1> QED BY <1>2, <1>11, <1>12 DEF EndHandOff

-----------------------------------------------------------------------------
(* Every step keeps the invariant. *)

\* a step of a call that goes on
Goes(c) ==
  \/ Skips(c) \/ Drops(c) \/ Notes(c) \/ Enters(c) \/ Moves(c) \/ Evicts(c)
  \/ Passes(c) \/ Makes(c) \/ Begins(c)

\* The dispatcher's own parts.
LEMMA GoesKeeps ==
  ASSUME DispatchInv, CacheInv, DepthBound, NEW c \in Callers, Goes(c)
  PROVE  DispatchInv' /\ CacheInv' /\ DepthBound'
<1>1. CASE Skips(c) \/ Drops(c) \/ Notes(c)
  <2>1. DispatchInv'
    BY <1>1, LeavesKeeps
  <2> QED BY <1>1, <2>1, CacheSteps, DepthSteps
<1>2. CASE Enters(c)
  <2>1. DispatchInv'
    BY <1>2, QuietKeeps
  <2> QED BY <1>2, <2>1, CacheEnters, DepthSteps
<1>3. CASE Moves(c)
  <2>1. DispatchInv'
    BY <1>3, QuietKeeps
  <2> QED BY <1>3, <2>1, CacheSteps, DepthMoves
<1>4. CASE Evicts(c)
  <2>1. DispatchInv'
    BY <1>4, EvictsKeeps
  <2> QED BY <1>4, <2>1, CacheSteps, DepthEvicts
<1>5. CASE Passes(c) \/ Begins(c)
  <2>1. DispatchInv'
    BY <1>5, QuietKeeps
  <2> QED BY <1>5, <2>1, CacheSteps, DepthSteps
<1>6. CASE Makes(c)
  <2>1. DispatchInv'
    BY <1>6, MakesKeeps
  <2> QED BY <1>6, <2>1, CacheMakes, DepthMakes
<1> QED BY <1>1, <1>2, <1>3, <1>4, <1>5, <1>6 DEF Goes

\* A goroutine other than the Hub route's leaves the hand-off alone.
LEMMA OthersLeave ==
  ASSUME NEW c \in Callers, c # Keyed, Goes(c)
  PROVE  call'[Keyed] = call[Keyed] /\ UNCHANGED <<work, made>>
<1>1. Keyed \in Callers
  BY DispatchConstants
<1>2. Alone(c)
  BY DEF Goes, Skips, Drops, Notes, Enters, Moves, Evicts, Passes, Makes, Begins, Leaves, Stays
<1>3. UNCHANGED <<work, made>>
  BY DEF Goes, Skips, Drops, Notes, Enters, Moves, Evicts, Passes, Makes, Begins, Untouched
<1> QED BY <1>1, <1>2, <1>3 DEF Alone

\* The hand-off's parts.
LEMMA GoesHandOff ==
  ASSUME InboxInv, DispatchInv, HandoffInv, WholeInv, NEW c \in Callers, Goes(c),
         UNCHANGED <<handoff, hs>>, Begins(c) /\ c = Keyed => call'[c].origin \in hs
  PROVE  HandoffInv' /\ WholeInv'
<1>1. CASE c # Keyed
  <2>1. call'[Keyed] = call[Keyed] /\ UNCHANGED <<work, made>>
    BY <1>1, OthersLeave
  <2>2. /\ \A d \in Stores : Stored(d) => handoff'[d] = handoff[d]
        /\ \A d \in Stores : handoff'[d] = "done" => handoff[d] = "done"
    OBVIOUS
  <2>3. UNCHANGED <<work, made, hs>>
    BY <2>1
  <2> QED BY <2>1, <2>2, <2>3, HandoffLeft
<1>2. CASE c = Keyed
  <2>1. CASE Skips(Keyed) \/ Drops(Keyed) \/ Notes(Keyed)
    BY <2>1, WholeLeaves
  <2>2. CASE Enters(Keyed) \/ Moves(Keyed) \/ Evicts(Keyed) \/ Passes(Keyed)
    BY <2>2, WholeStays
  <2>3. CASE Makes(Keyed)
    BY <2>3, WholeMakes
  <2>4. CASE Begins(Keyed)
    BY <1>2, <2>4, WholeBegins
  <2> QED BY <1>2, <2>1, <2>2, <2>3, <2>4 DEF Goes
<1> QED BY <1>1, <1>2

\* The inbox is left alone.
LEMMA InboxLeft ==
  ASSUME InboxInv, UNCHANGED inboxVars
  PROVE  InboxInv' /\ handoff' = handoff
<1>1. /\ UNCHANGED <<ack, handoff, unjudged>> /\ inbox' = inbox /\ now' = now
      /\ inn' \subseteq Ops /\ clockOK' \in BOOLEAN
  BY DEF inboxVars, InboxInv, InboxTypeOK
<1> QED BY <1>1, InboxQuiet

\* A goroutine's step, a row that cannot be written, an arrival by radio and the
\* next hand-off are steps of a call that goes on, or end it.
LEMMA CallSteps ==
  ASSUME IInv, NEW c \in Callers,
         \/ Step(c) \/ WriteFails(c)
         \/ \E p \in Payloads : Arrives(c, p)
         \/ c = Keyed /\ TakePending
  PROVE  /\ UNCHANGED inboxVars /\ hs' = hs
         /\ \/ Goes(c) /\ (Begins(c) /\ c = Keyed => call'[c].origin \in hs)
            \/ Return(c)
<1>0. DispatchInv /\ HandoffInv
  BY DEF IInv
<1>1. CASE Step(c)
  <2>0. UNCHANGED inboxVars /\ hs' = hs
    BY <1>1 DEF Step
  <2>1. CASE TakeRule(c) \/ CheckDepth(c) \/ PickWeakest(c) \/ EvictDelivery(c)
             \/ CheckBytes(c) \/ InsertExisting(c) \/ InsertDelivery(c) \/ NoteDelivered(c)
    <3>1. Goes(c)
      <4>1. CASE TakeRule(c)
        BY <1>0, <4>1, TakeRuleShape DEF Goes
      <4>2. CASE CheckDepth(c)
        BY <1>0, <4>2, CheckDepthShape DEF Goes
      <4>3. CASE PickWeakest(c)
        BY <1>0, <4>3, PickWeakestShape DEF Goes
      <4>4. CASE EvictDelivery(c)
        BY <1>0, <4>4, EvictDeliveryShape DEF Goes
      <4>5. CASE CheckBytes(c)
        BY <1>0, <4>5, CheckBytesShape DEF Goes
      <4>6. CASE InsertExisting(c)
        BY <1>0, <4>6, PassShape DEF Goes
      <4>7. CASE InsertDelivery(c)
        BY <1>0, <4>7, InsertDeliveryShape DEF Goes
      <4>8. CASE NoteDelivered(c)
        BY <1>0, <4>8, NoteDeliveredShape DEF Goes
      <4> QED BY <2>1, <4>1, <4>2, <4>3, <4>4, <4>5, <4>6, <4>7, <4>8
    <3>2. ~Begins(c)
      <4>1. call[c].at \in OnLink \cup {"rule"}
        BY <2>1, Zenon DEF OnLink, TakeRule, CheckDepth, PickWeakest, EvictDelivery,
           CheckBytes, InsertExisting, InsertDelivery, NoteDelivered
      <4>2. call[c] # Idle
        BY <4>1 DEF Idle, OnLink
      <4> QED BY <4>2 DEF Begins
    <3> QED BY <2>0, <3>1, <3>2
  <2> QED BY <1>1, <2>0, <2>1 DEF Step
<1>2. CASE WriteFails(c)
  <2>1. InsertFails(c) /\ UNCHANGED inboxVars /\ hs' = hs
    BY <1>2 DEF WriteFails
  <2>2. Goes(c)
    BY <1>0, <2>1, PassShape DEF Goes
  <2>3. ~Begins(c)
    BY <2>1 DEF Begins, Idle, InsertFails
  <2> QED BY <2>1, <2>2, <2>3
<1>3. CASE \E p \in Payloads : Arrives(c, p)
  <2>1. PICK p \in Payloads : Begin(c, p, NoCopy) /\ c # Keyed
    BY <1>3 DEF Arrives
  <2>2. UNCHANGED inboxVars /\ hs' = hs
    BY <1>3 DEF Arrives
  <2>3. PICK o \in Copies \cup {NoCopy} : o = NoCopy
    OBVIOUS
  <2>4. Begins(c)
    BY <1>0, <2>1, <2>3, BeginShape
  <2> QED BY <2>1, <2>2, <2>4 DEF Goes
<1>4. CASE c = Keyed /\ TakePending
  <2>1. PICK o \in hs : Begin(Keyed, PayOf[o[1]], o)
    BY <1>4 DEF TakePending
  <2>2. UNCHANGED inboxVars /\ hs' = hs
    BY <1>4 DEF TakePending
  <2>3. o \in Copies \cup {NoCopy} /\ o # NoCopy /\ o \in Stores
    BY <1>0, KeyedByStore, DispatchConstants DEF HandoffInv
  <2>4. PayOf[o[1]] \in Payloads
    BY <2>3, HubConstants DEF Stores
  <2>5. Begins(c) /\ call'[c].origin = o
    BY <1>0, <1>4, <2>1, <2>3, <2>4, BeginShape
  <2> QED BY <2>1, <2>2, <2>5 DEF Goes
<1> QED BY <1>1, <1>2, <1>3, <1>4

\* A plain call returns.
LEMMA ReturnKeeps ==
  ASSUME IInv, NEW c \in Callers, Return(c), UNCHANGED inboxVars, hs' = hs
  PROVE  IInv' /\ UNCHANGED made
<1>0. /\ InboxInv /\ DispatchInv /\ CacheInv /\ DepthBound /\ HandoffInv /\ WholeInv
      /\ CallsOK
  BY DEF IInv, DispatchInv
<1>1. /\ call' = [call EXCEPT ![c] = Idle] /\ call[c].origin = NoCopy /\ call[c].at = "rule"
      /\ UNCHANGED <<queue, status, noted, work, made, copies>>
  BY DEF Return, Set, Through
<1>2. call[c] # Idle /\ call[c].at \notin OnLink
  BY <1>0, <1>1, WhereOf DEF OnLink
<1>3. c # Keyed
  BY <1>0, <1>1, <1>2 DEF CallsOK, CallOK
<1>4. Returns(c) /\ DispatchInv'
  BY <1>0, <1>1, EndsKeeps
<1>5. CacheInv'
  BY <1>0, <1>1, <1>2, <1>4, CacheSteps
<1>6. DepthBound'
  BY <1>0, <1>1, <1>4, DepthSteps
<1>7. call'[Keyed] = call[Keyed]
  BY <1>3, <1>4, DispatchConstants DEF Returns, Alone
<1>8. InboxInv' /\ handoff' = handoff
  BY <1>0, InboxLeft
<1>9. UNCHANGED <<work, made, hs>>
  BY <1>1
<1>10. /\ \A d \in Stores : Stored(d) => handoff'[d] = handoff[d]
       /\ \A d \in Stores : handoff'[d] = "done" => handoff[d] = "done"
  BY <1>8
<1>11. HandoffInv' /\ WholeInv'
  BY <1>0, <1>7, <1>9, <1>10, HandoffLeft
<1> QED BY <1>1, <1>4, <1>5, <1>6, <1>8, <1>11 DEF IInv

\* A call goes on.
LEMMA GoesOn ==
  ASSUME IInv, NEW c \in Callers, Goes(c), Begins(c) /\ c = Keyed => call'[c].origin \in hs,
         UNCHANGED inboxVars, hs' = hs
  PROVE  IInv'
<1>0. InboxInv /\ DispatchInv /\ CacheInv /\ DepthBound /\ HandoffInv /\ WholeInv
  BY DEF IInv
<1>1. DispatchInv' /\ CacheInv' /\ DepthBound'
  BY <1>0, GoesKeeps
<1>2. InboxInv' /\ handoff' = handoff
  BY <1>0, InboxLeft
<1>3. HandoffInv' /\ WholeInv'
  BY <1>0, <1>2, GoesHandOff
<1> QED BY <1>1, <1>2, <1>3 DEF IInv

\* nothing the promise speaks of changes
Silent ==
  UNCHANGED <<ack, unjudged, made>> /\ \A d \in Stores : Stored(d)' <=> Stored(d)

\* What a step is to the promise: nothing, a delivery taken or a row made.
Kept ==
  \/ Silent
  \/ UNCHANGED made /\ \E o \in Ops, judged \in BOOLEAN : Receipt(o, judged)
  \/ Makes(Keyed) /\ UNCHANGED inboxVars

\* The steps of the inbox: the dispatcher does not move.
LEMMA InboxSteps ==
  ASSUME IInv, InboxInv', UNCHANGED <<dispatchVars, hs>>,
         \A c \in Stores : Stored(c) => handoff'[c] = handoff[c],
         \A c \in Stores : handoff'[c] = "done" => handoff[c] = "done"
  PROVE  IInv' /\ UNCHANGED made
<1>0. InboxInv /\ DispatchInv /\ CacheInv /\ DepthBound /\ HandoffInv /\ WholeInv
  BY DEF IInv
<1>1. DispatchInv' /\ CacheInv' /\ DepthBound'
  BY <1>0, DispatchLeft
<1>2. call'[Keyed] = call[Keyed] /\ UNCHANGED <<work, made, hs>>
  BY DEF dispatchVars
<1>3. HandoffInv' /\ WholeInv'
  BY <1>0, <1>2, HandoffLeft
<1> QED BY <1>1, <1>2, <1>3 DEF IInv

\* Deliveries, pruning and the clock leave the messages alone.
LEMMA QuietInboxSteps ==
  ASSUME IInv, UNCHANGED <<dispatchVars, hs>>,
         \/ \E o \in Ops : HubDelivers(o)
         \/ PruneHubInbox \/ EstablishClock \/ Tick
  PROVE  IInv' /\ Silent
<1>0. InboxInv /\ inn \subseteq Ops /\ clockOK \in BOOLEAN
  BY DEF IInv, InboxInv, InboxTypeOK
<1>1. UNCHANGED <<ack, handoff, unjudged>>
  BY DEF HubDelivers, PruneHubInbox, EstablishClock, Tick
<1>2. inbox' = inbox \/ (inbox' = Live /\ now' = now)
  BY DEF HubDelivers, PruneHubInbox, EstablishClock, Tick
<1>3. now' = now \/ now' = now + 1
  BY DEF HubDelivers, PruneHubInbox, EstablishClock, Tick
<1>4. inn' \subseteq Ops /\ clockOK' \in BOOLEAN
  BY <1>0 DEF HubDelivers, PruneHubInbox, EstablishClock, Tick
<1>5. InboxInv'
  BY <1>0, <1>1, <1>2, <1>3, <1>4, InboxQuiet
<1>6. /\ \A c \in Stores : Stored(c) => handoff'[c] = handoff[c]
      /\ \A c \in Stores : handoff'[c] = "done" => handoff[c] = "done"
      /\ \A c \in Stores : Stored(c)' <=> Stored(c)
  BY <1>1 DEF Stored
<1>7. IInv' /\ UNCHANGED made
  BY <1>5, <1>6, InboxSteps
<1> QED BY <1>1, <1>6, <1>7 DEF Silent

\* A delivery is handled.
LEMMA ReceivesKeeps ==
  ASSUME IInv, Receives
  PROVE  /\ IInv' /\ UNCHANGED made
         /\ \E o \in Ops, judged \in BOOLEAN : Receipt(o, judged)
<1>0. InboxInv /\ handoff \in [Stores -> {"none", "pending", "done"}]
  BY DEF IInv, InboxInv, InboxTypeOK
<1>1. PICK o \in Ops, F \in {{}, {"commit"}, {"publish"}} : HandleIn(o, F)
  BY DEF Receives
<1>2. UNCHANGED <<dispatchVars, hs>>
  BY DEF Receives
<1>3. PICK judged \in BOOLEAN : InboxInv' /\ Receipt(o, judged)
  BY <1>0, <1>1, HandleInReceipt
<1>4. /\ \A c \in Stores : Stored(c) => handoff'[c] = handoff[c]
      /\ \A c \in Stores : handoff'[c] = "done" => handoff[c] = "done"
  <2>1. CASE handoff' = handoff
    BY <2>1
  <2>2. ASSUME NEW d, ~Stored(d), handoff' = [handoff EXCEPT ![d] = "pending"]
        PROVE  /\ \A c \in Stores : Stored(c) => handoff'[c] = handoff[c]
               /\ \A c \in Stores : handoff'[c] = "done" => handoff[c] = "done"
    BY <1>0, <2>2
  <2> QED BY <1>3, <2>1, <2>2 DEF Receipt
<1>5. IInv' /\ UNCHANGED made
  BY <1>2, <1>3, <1>4, InboxSteps
<1> QED BY <1>3, <1>5

\* The steps of the links' workers and of the interface manager, and an entry of
\* the cache that ends: the calls, the work and the inbox do not move.
LEMMA LinkSteps ==
  ASSUME IInv, Claims \/ Finishes \/ LinkMoves \/ Forgets
  PROVE  IInv' /\ Silent
<1>0. InboxInv /\ DispatchInv /\ CacheInv /\ DepthBound /\ HandoffInv /\ WholeInv
  BY DEF IInv
<1>1. UNCHANGED inboxVars /\ hs' = hs
  BY DEF Claims, Finishes, LinkMoves, Forgets
<1>2. UNCHANGED <<call, work, made>>
  BY DEF Claims, Finishes, LinkMoves, Forgets, Claim, Finish, LinkChanges, ForgetDelivered
<1>3. DispatchInv' /\ CacheInv' /\ DepthBound'
  <2>1. CASE Claims
    BY <1>0, <2>1, ClaimKeeps DEF Claims
  <2>2. CASE Finishes
    BY <1>0, <2>2, FinishKeeps DEF Finishes
  <2>3. CASE LinkMoves
    BY <1>0, <2>3, LinkMovesKeeps DEF LinkMoves
  <2>4. CASE Forgets
    BY <1>0, <2>4, ForgetsKeeps DEF Forgets
  <2> QED BY <2>1, <2>2, <2>3, <2>4
<1>4. InboxInv' /\ handoff' = handoff /\ UNCHANGED <<ack, unjudged>>
  BY <1>0, <1>1, InboxLeft DEF inboxVars
<1>5. /\ \A c \in Stores : Stored(c) => handoff'[c] = handoff[c]
      /\ \A c \in Stores : handoff'[c] = "done" => handoff[c] = "done"
      /\ \A c \in Stores : Stored(c)' <=> Stored(c)
  BY <1>4 DEF Stored
<1>6. call'[Keyed] = call[Keyed] /\ UNCHANGED <<work, made, hs>>
  BY <1>1, <1>2
<1>7. HandoffInv' /\ WholeInv'
  BY <1>0, <1>5, <1>6, HandoffLeft
<1> QED BY <1>2, <1>3, <1>4, <1>5, <1>7 DEF IInv, Silent

\* The list of pending messages is read.
LEMMA ListPendingKeeps ==
  ASSUME IInv, ListPending
  PROVE  IInv' /\ Silent
<1>0. InboxInv /\ DispatchInv /\ CacheInv /\ DepthBound /\ HandoffInv /\ WholeInv
  BY DEF IInv
<1>1. /\ UNCHANGED inboxVars /\ UNCHANGED dispatchVars /\ call[Keyed] = Idle
      /\ hs' = {c \in Stores : handoff[c] = "pending"}
  BY DEF ListPending
<1>2. DispatchInv' /\ CacheInv' /\ DepthBound'
  BY <1>0, <1>1, DispatchLeft
<1>3. InboxInv' /\ handoff' = handoff /\ UNCHANGED <<ack, unjudged>>
  BY <1>0, <1>1, InboxLeft DEF inboxVars
<1>4. UNCHANGED <<call, work, made>>
  BY <1>1 DEF dispatchVars
<1>5. HandoffInv'
  BY <1>0, <1>1, <1>3, <1>4 DEF HandoffInv
<1>6. WholeInv'
  BY <1>0, <1>1, <1>3, <1>4 DEF WholeInv, WholeOrNone
<1> QED BY <1>2, <1>3, <1>4, <1>5, <1>6 DEF IInv, Silent, Stored

\* The process ends and starts again: what is in the tables holds.
LEMMA CrashStep ==
  ASSUME IInv, Crash
  PROVE  IInv' /\ Silent
<1>0. InboxInv /\ DispatchInv /\ CacheInv /\ DepthBound /\ HandoffInv /\ WholeInv
  BY DEF IInv
<1>1. CrashInbox /\ CrashDispatcher /\ hs' = {}
  BY DEF Crash
<1>2. DispatchInv' /\ CacheInv' /\ DepthBound'
  BY <1>0, <1>1, CrashKeeps
<1>3. /\ UNCHANGED <<ack, handoff, unjudged>> /\ inbox' = inbox /\ now' = now
      /\ inn' \subseteq Ops /\ clockOK' \in BOOLEAN
  BY <1>0, <1>1 DEF CrashInbox, InboxInv, InboxTypeOK
<1>4. InboxInv'
  BY <1>0, <1>3, InboxQuiet
<1>5. call'[Keyed] = Idle /\ UNCHANGED <<work, made>>
  BY <1>1, DispatchConstants DEF CrashDispatcher
<1>6. HandoffInv'
  BY <1>0, <1>1, <1>3, <1>5 DEF HandoffInv
<1>7. WholeInv'
  BY <1>0, <1>3, <1>5 DEF WholeInv, WholeOrNone
<1> QED BY <1>2, <1>3, <1>4, <1>5, <1>6, <1>7 DEF IInv, Silent, Stored

\* The end of a hand-off.
LEMMA EndStep ==
  ASSUME IInv, EndHandOff
  PROVE  IInv' /\ Silent
<1>0. InboxInv /\ DispatchInv /\ CacheInv /\ DepthBound /\ HandoffInv /\ WholeInv
  BY DEF IInv
<1>1. UNCHANGED <<ack, unjudged, made>>
  BY DEF EndHandOff, HandoffDone, inboxVars
<1> QED BY <1>0, <1>1, EndHandOffOK DEF IInv, Silent

\* A goroutine's step.
LEMMA GoroutineStep ==
  ASSUME IInv, NEW c \in Callers,
         \/ Step(c) \/ WriteFails(c)
         \/ \E p \in Payloads : Arrives(c, p)
         \/ c = Keyed /\ TakePending
  PROVE  IInv' /\ Kept
<1>1. /\ UNCHANGED inboxVars /\ hs' = hs
      /\ \/ Goes(c) /\ (Begins(c) /\ c = Keyed => call'[c].origin \in hs)
         \/ Return(c)
  BY CallSteps
<1>2. UNCHANGED <<ack, unjudged>> /\ \A d \in Stores : Stored(d)' <=> Stored(d)
  BY <1>1 DEF inboxVars, Stored
<1>3. CASE Return(c)
  BY <1>1, <1>2, <1>3, ReturnKeeps DEF Kept, Silent
<1>4. CASE Goes(c) /\ (Begins(c) /\ c = Keyed => call'[c].origin \in hs)
  <2>1. IInv'
    BY <1>1, <1>4, GoesOn
  <2>2. CASE c # Keyed
    BY <1>2, <1>4, <2>1, <2>2, OthersLeave DEF Kept, Silent
  <2>3. CASE c = Keyed /\ Makes(Keyed)
    BY <1>1, <2>1, <2>3 DEF Kept
  <2>4. CASE ~Makes(c)
    <3>1. made' = made
      BY <1>4, <2>4 DEF Goes, Skips, Drops, Notes, Enters, Moves, Evicts, Passes, Begins, Untouched
    <3> QED BY <1>2, <2>1, <3>1 DEF Kept, Silent
  <2> QED BY <2>2, <2>3, <2>4
<1> QED BY <1>1, <1>3, <1>4

\* Every step keeps the invariant and the promise.
LEMMA NextKeeps ==
  ASSUME IInv, [Next]_vars
  PROVE  IInv' /\ Kept
<1>1. CASE UNCHANGED vars
  <2>1. UNCHANGED <<dispatchVars, hs>> /\ UNCHANGED inboxVars /\ InboxInv
    BY <1>1 DEF vars, IInv
  <2>2. InboxInv' /\ handoff' = handoff
    BY <2>1, InboxLeft
  <2>3. IInv' /\ UNCHANGED made
    BY <2>1, <2>2, InboxSteps
  <2> QED BY <2>1, <2>2, <2>3 DEF Kept, Silent, Stored, inboxVars
<1>2. CASE Delivers \/ Prunes \/ ClockFound \/ TimePasses
  <2>1. UNCHANGED <<dispatchVars, hs>>
    BY <1>2 DEF Delivers, Prunes, ClockFound, TimePasses
  <2>2. (\E o \in Ops : HubDelivers(o)) \/ PruneHubInbox \/ EstablishClock \/ Tick
    BY <1>2 DEF Delivers, Prunes, ClockFound, TimePasses
  <2> QED BY <2>1, <2>2, QuietInboxSteps DEF Kept
<1>3. CASE Receives
  BY <1>3, ReceivesKeeps DEF Kept
<1>4. CASE ListPending
  BY <1>4, ListPendingKeeps DEF Kept
<1>5. CASE TakePending
  BY <1>5, GoroutineStep, DispatchConstants
<1>6. CASE EndHandOff
  BY <1>6, EndStep DEF Kept
<1>7. CASE \E c \in Callers : Step(c) \/ WriteFails(c)
  BY <1>7, GoroutineStep
<1>8. CASE \E c \in Callers, p \in Payloads : Arrives(c, p)
  BY <1>8, GoroutineStep
<1>9. CASE Claims \/ Finishes \/ LinkMoves \/ Forgets
  BY <1>9, LinkSteps DEF Kept
<1>10. CASE Crash
  BY <1>10, CrashStep DEF Kept
<1> QED BY <1>1, <1>2, <1>3, <1>4, <1>5, <1>6, <1>7, <1>8, <1>9, <1>10 DEF Next

\* Nothing stored, queued or under way.
LEMMA InitHolds == Init => IInv
<1> SUFFICES ASSUME Init PROVE IInv
  OBVIOUS
<1>1. PICK s \in Starts : InboxInit(s.capacity, s.clock)
  BY DEF Init
<1>2. /\ now = 0 /\ clockOK \in BOOLEAN /\ inn = {} /\ ack = {} /\ inbox = {} /\ unjudged = {}
      /\ handoff = [c \in Stores |-> "none"]
  BY <1>1, HubConstants DEF InboxInit
<1>3. /\ queue = {} /\ noted = {} /\ work = {} /\ hs = {}
      /\ status = [l \in Links |-> "online"] /\ call = [c \in Callers |-> Idle]
      /\ made = [w \in Works |-> 0] /\ copies = [e \in Links \X Payloads |-> 0]
  BY DEF Init, DispatchInit
<1>4. InboxInv
  BY <1>2 DEF InboxInv, InboxTypeOK, InOrder, Remembered, Answered, Stored
<1>5. Cardinality({}) = 0 /\ Cardinality(Callers) \in Nat /\ IsFiniteSet({}) /\ MaxDepth \in Nat
  BY DispatchConstants, FS_EmptySet, FS_CardinalityType
<1>6. DispatchInv
  <2>1. CallsOK
    BY <1>3 DEF CallsOK, CallOK, Idle, OnLink
  <2>2. RowsOK /\ VictimOK /\ WorkOK /\ ListedOK
    BY <1>3, <1>5 DEF RowsOK, VictimOK, WorkOK, ListedOK, Idle
  <2>3. TablesOK
    BY <1>3 DEF TablesOK
  <2> QED BY <2>1, <2>2, <2>3 DEF DispatchInv
<1>7. CacheInv
  <2> SUFFICES ASSUME NEW e \in Links \X Payloads PROVE CacheAt(e)
    BY DEF CacheInv
  <2>1. Hopeful(e) = {} /\ Telling(e) = {} /\ copies[e] = 0
    BY <1>3 DEF Hopeful, Telling, At, Idle, OnLink
  <2> QED BY <1>5, <2>1 DEF CacheAt
<1>8. DepthBound
  <2> SUFFICES ASSUME NEW l \in Links
               PROVE  QueueDepth(l) + Cardinality(Admitted(l)) <= MaxDepth + Cardinality(Callers) - 1
    BY DEF DepthBound
  <2>1. On(l) = {} /\ Admitted(l) = {}
    BY <1>3 DEF On, Admitted, Idle
  <2>2. Cardinality(Callers) # 0
    BY DispatchConstants, FS_EmptySet
  <2> QED BY <1>5, <2>1, <2>2 DEF QueueDepth
<1>9. HandoffInv
  BY <1>3, DispatchConstants DEF HandoffInv
<1>10. WholeInv
  BY <1>2, <1>3, DispatchConstants DEF WholeInv, WholeOrNone
<1> QED BY <1>4, <1>6, <1>7, <1>8, <1>9, <1>10 DEF IInv

-----------------------------------------------------------------------------
(* The theorems. *)

\* The invariant holds in every state of every behaviour.
THEOREM Invariance == Spec => []IInv
<1>1. Init => IInv
  BY InitHolds
<1>2. IInv /\ [Next]_vars => IInv'
  BY NextKeeps
<1> QED BY <1>1, <1>2, PTL DEF Spec

\* The tables and the goroutines keep their shapes, and dispatch_work lists work
\* of pending hand-offs only (MarkHubHandoffDone forgets the rest).
THEOREM TypeSafety == Spec => []TypeOK
<1>1. IInv => TypeOK
  <2> SUFFICES ASSUME IInv PROVE TypeOK
    OBVIOUS
  <2>1. InboxTypeOK /\ DispatchInv /\ HandoffInv
    BY DEF IInv, InboxInv
  <2>2. hs \subseteq Stores /\ \A w \in work : handoff[w[1]] = "pending"
    BY <2>1 DEF HandoffInv
  <2>3. \A r \in queue : /\ DOMAIN r = {"id", "link", "pay", "prio", "sending"}
                         /\ r.link \in Links /\ r.pay \in Payloads
                         /\ r.prio \in Range(Priority)
                         /\ \A q \in queue : q.id = r.id => q = r
    BY <2>1 DEF DispatchInv, RowsOK, QueueRows
  <2>4. ASSUME NEW c \in Callers, call[c] # Idle
        PROVE  /\ call[c].i \in 1..(Len(Matches[c]) + 1)
               /\ call[c].origin \in Copies \cup {NoCopy}
    <3>1. CallOK(c) /\ CallsOK
      BY <2>1 DEF DispatchInv, CallsOK
    <3>2. call[c].at \in {"rule"} \cup OnLink /\ call[c] \in RuleCalls \cup LinkCalls
      BY <2>4, <3>1, WhereOf DEF CallOK
    <3>3. call[c].origin \in Copies \cup {NoCopy}
      BY <3>2 DEF RuleCalls, LinkCalls
    <3>4. Len(Matches[c]) \in Nat
      BY DispatchConstants, LenProperties
    <3>5. CASE call[c].at = "rule"
      BY <3>1, <3>3, <3>5 DEF CallOK
    <3>6. CASE call[c].at \in OnLink
      <4>1. call[c].i \in 1..Len(Matches[c])
        BY <3>1, <3>6 DEF CallOK
      <4> QED BY <3>3, <3>4, <4>1
    <3> QED BY <3>2, <3>5, <3>6
  <2>5. DispatchTypeOK
    BY <2>1, <2>3, <2>4 DEF DispatchTypeOK, DispatchInv, TablesOK, WorkOK
  <2> QED BY <2>1, <2>2, <2>5 DEF TypeOK
<1> QED BY <1>1, Invariance, PTL

\* With any number of goroutines at once, a link with one destination goes over
\* its depth limit by one row less than their number (dispatcher.go:957).
THEOREM DepthSafety == Spec => []DepthBound
<1>1. IInv => DepthBound
  BY DEF IInv
<1> QED BY <1>1, Invariance, PTL

\* Within one TTL of the dedup cache a payload is queued to a link by each
\* goroutine once at the most (dispatcher.go:1392).
THEOREM CopiesSafety == Spec => []CopiesBound
<1>1. IInv => CopiesBound
  BY CacheGivesBound DEF IInv
<1> QED BY <1>1, Invariance, PTL

\* A hand-off marked done made the rows of all destinations of a rule with a
\* link of its own, or of none, whatever failed or ended half way before.
THEOREM WholeSafety == Spec => []WholeOrNone
<1>1. IInv => WholeOrNone
  BY DEF IInv, WholeInv
<1> QED BY <1>1, Invariance, PTL

\* A delivery taken is one of the promise's.
LEMMA ReceiptIsTake ==
  ASSUME InboxInv, InboxInv', NEW o \in Ops, NEW judged \in BOOLEAN, Receipt(o, judged),
         UNCHANGED made
  PROVE  HP!Take(MidOf[o], judged)
<1>0. /\ handoff \in [Stores -> {"none", "pending", "done"}]
      /\ handoff' \in [Stores -> {"none", "pending", "done"}]
      /\ MidOf[o] \in Mids
  BY DEF InboxInv, InboxTypeOK, Mids
<1>1. unjudged' = IF judged THEN unjudged ELSE unjudged \cup {MidOf[o]}
  BY DEF Receipt
<1>2. PICK S : S = {c \in Stores : handoff[c] # "none"}
  OBVIOUS
<1>3. PICK T : T = {c \in Stores : handoff'[c] # "none"}
  OBVIOUS
<1>4. \/ T = S
      \/ \E n \in 1..MaxCopies :
           /\ <<MidOf[o], n>> \notin S
           /\ n = 1 \/ (<<MidOf[o], n - 1>> \in S /\ ~judged)
           /\ T = S \cup {<<MidOf[o], n>>}
  <2>1. CASE handoff' = handoff
    BY <1>2, <1>3, <2>1
  <2>2. ASSUME NEW n \in 1..MaxCopies, ~Stored(<<MidOf[o], n>>),
               n = 1 \/ (Stored(<<MidOf[o], n - 1>>) /\ ~judged),
               handoff' = [handoff EXCEPT ![<<MidOf[o], n>>] = "pending"]
        PROVE  /\ <<MidOf[o], n>> \notin S
               /\ n = 1 \/ (<<MidOf[o], n - 1>> \in S /\ ~judged)
               /\ T = S \cup {<<MidOf[o], n>>}
    <3>1. PICK c \in Stores : c = <<MidOf[o], n>>
      BY <1>0 DEF Stores
    <3>2. handoff' = [handoff EXCEPT ![c] = "pending"] /\ handoff[c] = "none"
      BY <2>2, <3>1 DEF Stored
    <3>3. c \notin S /\ T = S \cup {c}
      BY <1>0, <1>2, <1>3, <3>2
    <3>4. n # 1 => <<MidOf[o], n - 1>> \in Stores
      BY <1>0, InboxConstants DEF Stores
    <3> QED BY <1>2, <2>2, <3>1, <3>3, <3>4 DEF Stored
  <2> QED BY <2>1, <2>2 DEF Receipt
<1>5. PICK A : A = {MidOf[a[1]] : a \in {b \in ack : b[2] = "stored"}}
  OBVIOUS
<1>6. PICK B : B = {MidOf[a[1]] : a \in {b \in ack' : b[2] = "stored"}}
  OBVIOUS
<1>7. B = A \/ (<<MidOf[o], 1>> \in T /\ B = A \cup {MidOf[o]})
  <2>1. CASE ack' = ack
    BY <1>5, <1>6, <2>1
  <2>2. ASSUME NEW x \in {"stored", "refused", "busy"},
               x = "stored" => <<MidOf[o], 1>> \in Stores /\ Stored(<<MidOf[o], 1>>)',
               ack' = ack \cup {<<o, x>>}
        PROVE  B = A \/ (<<MidOf[o], 1>> \in T /\ B = A \cup {MidOf[o]})
    <3>1. CASE x = "stored"
      <4>1. <<MidOf[o], 1>> \in T
        BY <1>3, <2>2, <3>1 DEF Stored
      <4>2. {b \in ack' : b[2] = "stored"} = {b \in ack : b[2] = "stored"} \cup {<<o, x>>}
        BY <2>2, <3>1
      <4>3. PICK P : P = {b \in ack : b[2] = "stored"}
        OBVIOUS
      <4>4. PICK a : a = <<o, x>>
        OBVIOUS
      <4>5. a[1] = o
        BY <4>4
      <4>6. A = {MidOf[b[1]] : b \in P} /\ B = {MidOf[b[1]] : b \in P \cup {a}}
        BY <1>5, <1>6, <4>2, <4>3, <4>4, Zenon
      <4>7. B = A \cup {MidOf[o]}
        BY <4>5, <4>6
      <4> QED BY <4>1, <4>7
    <3>2. CASE x # "stored"
      <4>1. {b \in ack' : b[2] = "stored"} = {b \in ack : b[2] = "stored"}
        BY <2>2, <3>2
      <4> QED BY <1>5, <1>6, <4>1
    <3> QED BY <3>1, <3>2
  <2> QED BY <2>1, <2>2 DEF Receipt
<1> QED BY <1>1, <1>2, <1>3, <1>4, <1>5, <1>6, <1>7 DEF HP!Take

\* The promise is kept (HubPromise): a message is stored once unless its deadline
\* was not judged, answered as stored only when it is, and each piece of work of
\* a stored message is made once, across redelivery, retention, failed writes,
\* restarts and groups that resolve elsewhere the second time.
THEOREM PromiseKept == Spec => Promise
<1>1. Init => HP!Init
  <2> SUFFICES ASSUME Init PROVE HP!Init
    OBVIOUS
  <2>1. ack = {} /\ unjudged = {} /\ handoff = [c \in Stores |-> "none"]
    BY DEF Init, InboxInit
  <2>2. made = [w \in Stores \X Pieces |-> 0]
    BY KeyedByStore DEF Init, DispatchInit, Works
  <2>3. {c \in Stores : handoff[c] # "none"} = {}
    BY <2>1
  <2>4. {MidOf[a[1]] : a \in {b \in ack : b[2] = "stored"}} = {}
    BY <2>1
  <2> QED BY <2>1, <2>2, <2>3, <2>4 DEF HP!Init, HP!Stores, Stores
<1>2. IInv /\ [Next]_vars =>
        [HP!Next]_<<{c \in Stores : handoff[c] # "none"}, made,
                    {MidOf[a[1]] : a \in {b \in ack : b[2] = "stored"}}, unjudged>>
  <2> SUFFICES ASSUME IInv, [Next]_vars
               PROVE  \/ HP!Next
                      \/ UNCHANGED <<{c \in Stores : handoff[c] # "none"}, made,
                           {MidOf[a[1]] : a \in {b \in ack : b[2] = "stored"}}, unjudged>>
    OBVIOUS
  <2>0. IInv' /\ Kept
    BY NextKeeps
  <2>1. CASE Silent
    BY <2>1 DEF Silent, Stored
  <2>2. CASE UNCHANGED made /\ \E o \in Ops, judged \in BOOLEAN : Receipt(o, judged)
    <3>1. PICK o \in Ops, judged \in BOOLEAN : Receipt(o, judged)
      BY <2>2
    <3>2. HP!Take(MidOf[o], judged)
      BY <2>0, <2>2, <3>1, ReceiptIsTake DEF IInv
    <3>3. MidOf[o] \in Mids
      BY DEF Mids
    <3> QED BY <3>2, <3>3 DEF HP!Next
  <2>3. CASE Makes(Keyed) /\ UNCHANGED inboxVars
    <3>1. /\ Line(Keyed) \in Works /\ Line(Keyed)[1] = call[Keyed].origin
          /\ handoff[call[Keyed].origin] = "pending" /\ call[Keyed].origin \in Stores
          /\ made[Line(Keyed)] = 0 /\ made'[Line(Keyed)] = 1
          /\ \A w \in Works : w # Line(Keyed) => made'[w] = made[w]
      BY <2>3, FirstOfItsLine DEF IInv
    <3>2. PICK c \in Stores, p \in Pieces : Line(Keyed) = <<c, p>> /\ handoff[c] = "pending"
      BY <3>1, KeyedByStore DEF Works
    <3>3. made \in [Works -> Nat] /\ made' \in [Works -> Nat]
      BY <2>0 DEF IInv, DispatchInv, TablesOK
    <3>4. made' = [made EXCEPT ![<<c, p>>] = 1]
      BY <3>1, <3>2, <3>3
    <3>5. UNCHANGED <<handoff, ack, unjudged>>
      BY <2>3 DEF inboxVars
    <3>6. HP!Make(c, p)
      BY <3>1, <3>2, <3>4, <3>5 DEF HP!Make
    <3>7. c \in HP!Stores
      BY DEF HP!Stores, Stores
    <3> QED BY <3>6, <3>7 DEF HP!Next
  <2> QED BY <2>0, <2>1, <2>2, <2>3 DEF Kept
<1> QED BY <1>1, <1>2, Invariance, PTL DEF Spec, Promise, HP!Spec
=============================================================================
