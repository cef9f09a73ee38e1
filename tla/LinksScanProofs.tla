-------------------------- MODULE LinksScanProofs ---------------------------
(***************************************************************************)
(* What the scan of the serial bus does to the links, for any number of     *)
(* links, devices, handlers and restarts: the shapes, that a device is      *)
(* given to one link only and taken from one only after the grace, and that *)
(* row, record and worker of a link agree when all is at rest.              *)
(*                                                                         *)
(* Typed has the shapes, with the calls under way.  GoneOK says that a note *)
(* about a missing device is no older than the last scan that saw it:       *)
(* what the grace is measured from.  RestOK says who will still see to a    *)
(* link that is online without a worker, and that nobody works on a stale   *)
(* copy of its row: what AtRest leaves out by speaking of rest.             *)
(*                                                                         *)
(* The auto-bind loop is a recursive function.  That it is defined, and     *)
(* what it keeps, is shown by the least number at which it would not be.    *)
(***************************************************************************)
EXTENDS LinksProofs, FiniteSetTheorems, SequenceTheorems, WellFoundedInduction

LinkRow == [on : BOOLEAN, dev : Ids]
LinkRecord == [on : BOOLEAN, dev : Ids, gone : Ids, since : 0..MaxNow,
               state : {"unbound", "offline", "online"}]

-----------------------------------------------------------------------------
(* The auto-bind loop.                                                      *)

\* A set of numbers has a least one.
LEMMA Least ==
  ASSUME NEW T, T \subseteq Nat, T # {}
  PROVE  \E m \in T : \A k \in T : m <= k
<1> DEFINE R == OpToRel(<, Nat)
<1>1. R = {ss \in Nat \X Nat : ss[1] < ss[2]}
  BY DEF OpToRel
<1>2. IsWellFoundedOn(R, Nat)
  BY NatLessThanWellFounded, Zenon
<1> HIDE DEF R
<1>3. PICK x \in T : \A y \in T : ~(<<y, x>> \in R)
  BY <1>2, WFMin, Zenon
<1>4. ASSUME NEW k \in T PROVE x <= k
  <2>1. x \in Nat /\ k \in Nat /\ <<k, x>> \notin R
    BY <1>3
  <2>2. ~(k < x)
    BY <1>1, <2>1
  <2> QED
    BY <2>1, <2>2
<1> QED
  BY <1>4

\* The loop goes through its links one after the other.
LEMMA AutoBindsRuns ==
  ASSUME NEW r, NEW order, Len(order) \in Nat
  PROVE  \E after : /\ after[0] = r
                    /\ \A i \in 1..Len(order) : after[i] = AutoBind(after[i - 1], order[i])
                    /\ AutoBinds(r, order) = after[Len(order)]
<1> DEFINE L == Len(order)
           Runs(n, f) == f = [i \in 0..n |-> IF i = 0 THEN r ELSE AutoBind(f[i - 1], order[i])]
           T == {n \in 0..L : ~\E f : Runs(n, f)}
<1>1. T = {}
  <2> SUFFICES ASSUME T # {} PROVE FALSE
    OBVIOUS
  <2>1. PICK n \in T : \A k \in T : n <= k
    <3>1. T \subseteq Nat
      OBVIOUS
    <3> QED
      BY <3>1, Least
  <2>2. n # 0
    <3>1. Runs(0, [i \in 0..0 |-> r])
      OBVIOUS
    <3> QED
      BY <2>1, <3>1
  <2>3. n \in Nat /\ n > 0
    BY <2>1, <2>2
  <2>4. PICK f : Runs(n - 1, f)
    BY <2>1, <2>3, SMTT(30)
  <2> DEFINE g == [i \in 0..n |-> IF i = n THEN AutoBind(f[n - 1], order[n]) ELSE f[i]]
  <2>5. ASSUME NEW i \in 0..n PROVE g[i] = IF i = 0 THEN r ELSE AutoBind(g[i - 1], order[i])
    <3>1. CASE i = n
      BY <2>3, <3>1
    <3>2. CASE i # n
      <4>1. i \in 0..(n - 1)
        BY <2>3, <3>2
      <4>2. f[i] = IF i = 0 THEN r ELSE AutoBind(f[i - 1], order[i])
        BY <2>4, <4>1
      <4>3. g[i] = f[i]
        BY <3>2
      <4>4. i # 0 => g[i - 1] = f[i - 1]
        BY <2>3, <4>1
      <4> HIDE DEF g
      <4> QED
        BY <4>2, <4>3, <4>4
    <3> QED
      BY <3>1, <3>2
  <2>6. Runs(n, g)
    BY <2>5
  <2> QED
    BY <2>1, <2>6
<1>2. \E f : Runs(L, f)
  <2>1. L \in 0..L
    OBVIOUS
  <2> QED
    BY <1>1, <2>1
<1> DEFINE after[i \in 0..L] == IF i = 0 THEN r ELSE AutoBind(after[i - 1], order[i])
<1>3. Runs(L, after)
  BY <1>2
<1>4. AutoBinds(r, order) = after[L]
  BY DEF AutoBinds
<1> HIDE DEF after
<1>5. after[0] = r /\ \A i \in 1..L : after[i] = AutoBind(after[i - 1], order[i])
  BY <1>3
<1> QED
  BY <1>4, <1>5

\* What the loop has made of the records r: a link that was free, on and of the
\* type took a device of the bus that no other link has.
Bound(r, x) ==
  /\ x \in [LinkIds -> LinkRecord]
  /\ \A l \in LinkIds : x[l] # r[l] =>
       /\ r[l].dev = None /\ r[l].on /\ l \in needs
       /\ x[l].dev \in bus /\ x[l].state = "online" /\ x[l].on = r[l].on
       /\ x[l].gone = r[l].gone /\ x[l].since = r[l].since
       /\ \A m \in LinkIds \ {l} : x[m].dev # x[l].dev

\* One round of the loop.
LEMMA AutoBindKeeps ==
  ASSUME bus \subseteq Devices, NEW r, NEW x, Bound(r, x), NEW l \in LinkIds
  PROVE  Bound(r, AutoBind(x, l))
<1> DEFINE free == {d \in bus : \A m \in LinkIds : x[m].dev # d}
<1>1. CASE x[l].dev = None /\ x[l].on /\ l \in needs /\ Cardinality(free) = 1
  <2>1. free # {}
    BY <1>1, FS_EmptySet
  <2>2. PICK d \in free : d = CHOOSE e \in free : TRUE
    BY <2>1
  <2>3. PICK y : y = [x EXCEPT ![l].dev = d, ![l].state = "online"]
    OBVIOUS
  <2>4. AutoBind(x, l) = y
    BY <1>1, <2>2, <2>3 DEF AutoBind
  <2>5. d \in bus /\ d \in Devices /\ d \in Ids /\ \A m \in LinkIds : x[m].dev # d
    BY <2>2 DEF Ids
  <2>6. x[l] \in LinkRecord /\ DOMAIN x = LinkIds
    BY DEF Bound
  <2>7. /\ y[l] = [x[l] EXCEPT !.dev = d, !.state = "online"]
        /\ \A m \in LinkIds : m # l => y[m] = x[m]
    BY <2>3, <2>6
  <2>8. /\ y[l] \in LinkRecord /\ y[l].dev = d /\ y[l].state = "online" /\ y[l].on = x[l].on
        /\ y[l].gone = x[l].gone /\ y[l].since = x[l].since
    BY <2>5, <2>6, <2>7 DEF LinkRecord
  <2>9. x[l] = r[l]
    BY <1>1, LinksAssumption DEF Bound
  <2>10. y \in [LinkIds -> LinkRecord]
    <3>1. DOMAIN y = LinkIds /\ y = [m \in LinkIds |-> y[m]]
      BY <2>3, <2>6
    <3>2. \A m \in LinkIds : y[m] \in LinkRecord
      BY <2>7, <2>8 DEF Bound
    <3> QED
      BY <3>1, <3>2
  <2> HIDE DEF free
  <2>11. ASSUME NEW m \in LinkIds, y[m] # r[m]
         PROVE  /\ r[m].dev = None /\ r[m].on /\ m \in needs
                /\ y[m].dev \in bus /\ y[m].state = "online" /\ y[m].on = r[m].on
                /\ y[m].gone = r[m].gone /\ y[m].since = r[m].since
                /\ \A k \in LinkIds \ {m} : y[k].dev # y[m].dev
    <3>1. CASE m = l
      <4>1. \A k \in LinkIds \ {l} : y[k] = x[k]
        BY <2>7
      <4>2. \A k \in LinkIds \ {l} : y[k].dev # d
        BY <2>5, <4>1
      <4>3. r[l].dev = None /\ r[l].on /\ l \in needs
        BY <1>1, <2>9
      <4> QED
        BY <2>5, <2>8, <2>9, <3>1, <4>2, <4>3
    <3>2. CASE m # l
      <4>1. y[m] = x[m] /\ x[m] # r[m]
        BY <2>7, <2>11, <3>2
      <4>2. /\ r[m].dev = None /\ r[m].on /\ m \in needs
            /\ x[m].dev \in bus /\ x[m].state = "online" /\ x[m].on = r[m].on
            /\ x[m].gone = r[m].gone /\ x[m].since = r[m].since
            /\ \A k \in LinkIds \ {m} : x[k].dev # x[m].dev
        BY <4>1 DEF Bound
      <4>3. ASSUME NEW k \in LinkIds \ {m} PROVE y[k].dev # y[m].dev
        <5>1. CASE k = l
          BY <2>5, <2>8, <4>1, <5>1
        <5>2. CASE k # l
          BY <2>7, <4>1, <4>2, <4>3, <5>2
        <5> QED
          BY <5>1, <5>2
      <4> QED
        BY <4>1, <4>2, <4>3
    <3> QED
      BY <3>1, <3>2
  <2> QED
    BY <2>4, <2>10, <2>11 DEF Bound
<1>2. CASE ~(x[l].dev = None /\ x[l].on /\ l \in needs /\ Cardinality(free) = 1)
  BY <1>2 DEF AutoBind
<1> QED
  BY <1>1, <1>2

\* The whole loop.
LEMMA AutoBindsKeeps ==
  ASSUME bus \subseteq Devices, NEW r \in [LinkIds -> LinkRecord], NEW order \in Seq(LinkIds)
  PROVE  Bound(r, AutoBinds(r, order))
<1>1. PICK after : /\ after[0] = r
                   /\ \A i \in 1..Len(order) : after[i] = AutoBind(after[i - 1], order[i])
                   /\ AutoBinds(r, order) = after[Len(order)]
  BY AutoBindsRuns, SMTT(30)
<1> DEFINE T == {i \in 0..Len(order) : ~Bound(r, after[i])}
<1>2. T = {}
  <2> SUFFICES ASSUME T # {} PROVE FALSE
    OBVIOUS
  <2>1. PICK n \in T : \A k \in T : n <= k
    <3>1. T \subseteq Nat
      OBVIOUS
    <3> QED
      BY <3>1, Least
  <2>2. Bound(r, r)
    BY DEF Bound
  <2>3. n \in 1..Len(order) /\ n - 1 \in 0..Len(order) /\ n - 1 \notin T
    BY <1>1, <2>1, <2>2
  <2>4. Bound(r, after[n - 1]) /\ order[n] \in LinkIds
    BY <2>3
  <2>5. Bound(r, AutoBind(after[n - 1], order[n]))
    BY <2>4, AutoBindKeeps
  <2> QED
    BY <1>1, <2>1, <2>3, <2>5
<1>3. Len(order) \in 0..Len(order)
  OBVIOUS
<1> QED
  BY <1>1, <1>2, <1>3

\* What a rebind makes of the records x: the link that waited long enough for its
\* device took one of the bus that no link names.
Rebound(x, y) ==
  /\ y \in [LinkIds -> LinkRecord]
  /\ \A l \in LinkIds : y[l] # x[l] =>
       /\ l \in needs /\ x[l].on /\ x[l].dev # None /\ x[l].gone = x[l].dev
       /\ now - x[l].since >= RebindAfter
       /\ y[l].dev \in bus /\ y[l].state = "online" /\ y[l].on = x[l].on /\ y[l].gone = None
       /\ \A m \in LinkIds \ {l} : y[m] = x[m]
       /\ \A m \in LinkIds : ~Names(x[m].dev, y[l].dev)

\* rebindGoneLocked.
LEMMA RebindGoneKeeps ==
  ASSUME bus \subseteq Devices, NEW x \in [LinkIds -> LinkRecord]
  PROVE  Rebound(x, RebindGone(x))
<1> DEFINE waiting == {l \in needs : x[l].on /\ x[l].dev # None /\ x[l].gone = x[l].dev}
           heir == {d \in bus : /\ \A d2 \in bus : d2 = d
                                /\ \A m \in LinkIds : ~Names(x[m].dev, d)}
           goes == {l \in waiting : waiting = {l} /\ heir # {} /\ now - x[l].since >= RebindAfter}
<1>1. PICK d : d = CHOOSE e \in heir : TRUE
  OBVIOUS
<1>2. heir # {} => d \in heir
  BY <1>1
<1> DEFINE New(l) == [x[l] EXCEPT !.dev = d, !.state = "online", !.gone = None, !.since = 0]
<1>3. PICK y : y = [l \in LinkIds |-> IF l \in goes THEN New(l) ELSE x[l]]
  OBVIOUS
<1>4. RebindGone(x) = y
  BY <1>1, <1>3 DEF RebindGone
<1>5. ASSUME NEW l \in LinkIds, l \in goes
      PROVE  /\ y[l] \in LinkRecord /\ y[l].dev = d /\ y[l].state = "online"
             /\ y[l].on = x[l].on /\ y[l].gone = None
  <2>1. d \in Ids /\ None \in Ids /\ 0 \in 0..MaxNow
    BY <1>2, <1>5, LinksAssumption DEF Ids
  <2>2. x[l] \in LinkRecord /\ y[l] = New(l)
    BY <1>3, <1>5
  <2> QED
    BY <2>1, <2>2 DEF LinkRecord
<1>6. y \in [LinkIds -> LinkRecord]
  <2>1. \A l \in LinkIds : y[l] \in LinkRecord
    BY <1>3, <1>5
  <2> QED
    BY <1>3, <2>1
<1>7. ASSUME NEW l \in LinkIds, y[l] # x[l]
      PROVE  /\ l \in goes /\ d \in heir
             /\ \A m \in LinkIds \ {l} : y[m] = x[m]
  <2>1. l \in goes
    BY <1>3, <1>7
  <2>2. \A m \in LinkIds \ {l} : m \notin goes
    BY <2>1
  <2> QED
    BY <1>2, <1>3, <2>1, <2>2
<1> QED
  BY <1>4, <1>5, <1>6, <1>7 DEF Rebound

-----------------------------------------------------------------------------
(* What the scan has made.                                                  *)

Change == needs \X {"online", "offline"}

Call == [at : {"write", "record", "worker", "start", "put"}, link : LinkIds, row : LinkRow]
          \cup [at : {"save"}, link : LinkIds]

\* rows, records, clock and bus
DataOK ==
  /\ now \in 0..MaxNow /\ bus \subseteq Devices /\ needs \subseteq LinkIds
  /\ db \in [LinkIds -> LinkRow] /\ rt \in [LinkIds -> LinkRecord]
  /\ \A l \in LinkIds \ needs : rt[l].dev = None /\ db[l].dev = None
  /\ seen \in [Devices -> Nat] /\ \A d \in Devices : seen[d] <= now
  /\ worker \subseteq LinkIds /\ muddled \subseteq LinkIds
  /\ mu \in Goroutines \cup {None}

\* A handler at work has a row to store for its link, or stores the record.
CallsOK ==
  \A h \in Handlers : job[h] # Idle =>
    /\ job[h] \in Call
    /\ job[h].at # "save" /\ job[h].link \notin needs => job[h].row.dev = None

\* The scan at work fires changes of links that need a device.
ChangesOK ==
  job[Scanner] # Idle =>
    /\ job[Scanner] \in [at : {"fire", "start"}, changes : Seq(Change)]
    /\ job[Scanner].at = "start" =>
         job[Scanner].changes # <<>> /\ Head(job[Scanner].changes)[2] = "online"

Typed == DataOK /\ CallsOK /\ ChangesOK

\* A walk over a map meets each link, and no other.
LEMMA Walk ==
  ASSUME NEW S, IsFiniteSet(S), NEW c \in SetToSeqs(S)
  PROVE  c \in Seq(S) /\ \A x \in S : \E i \in 1..Len(c) : c[i] = x
<1> DEFINE n == Cardinality(S)
<1>1. n \in Nat
  BY FS_CardinalityType
<1>2. c \in [1..n -> S] /\ \A i, j \in 1..n : i # j => c[i] # c[j]
  BY DEF SetToSeqs
<1>3. c \in Seq(S) /\ Len(c) = n
  BY <1>1, <1>2
<1>4. c \in Injection(1..n, S)
  BY <1>2 DEF Injection, IsInjective
<1>5. Cardinality(1..n) = n
  BY <1>1, FS_Interval
<1>6. c \in Surjection(1..n, S)
  BY <1>4, <1>5, FS_Injection
<1> QED
  BY <1>3, <1>6 DEF Surjection

\* One link matched against the bus.
LEMMA MatchedDoes ==
  ASSUME now \in 0..MaxNow, NEW l, NEW r \in LinkRecord
  PROVE  /\ Matched(l, r) \in LinkRecord
         /\ Matched(l, r).on = r.on /\ Matched(l, r).dev = r.dev
         /\ r.dev = None => Matched(l, r) = r
         /\ r.dev # None /\ Present(r.dev) => Matched(l, r).gone = None
         /\ r.dev # None /\ ~Present(r.dev) =>
              /\ Matched(l, r).gone = r.dev
              /\ Matched(l, r).since = IF r.gone = r.dev THEN r.since ELSE now
         /\ Matched(l, r).state # r.state => r.dev # None /\ Matched(l, r).state \in {"online", "offline"}
<1> DEFINE on == [r EXCEPT !.gone = None, !.since = 0,
                           !.state = IF @ = "offline" THEN "online" ELSE @]
           away == [r EXCEPT !.gone = r.dev, !.since = IF r.gone = r.dev THEN @ ELSE now,
                             !.state = IF @ = "online" THEN "offline" ELSE @]
<1>1. None \in Ids /\ 0 \in 0..MaxNow
  BY LinksAssumption DEF Ids
<1>2. PICK x : x = on
  OBVIOUS
<1>3. PICK y : y = away
  OBVIOUS
<1>4. Matched(l, r) = IF r.dev = None THEN r ELSE IF Present(r.dev) THEN x ELSE y
  BY <1>2, <1>3 DEF Matched
<1>5. /\ x \in LinkRecord /\ x.on = r.on /\ x.dev = r.dev /\ x.gone = None
      /\ x.state # r.state => x.state = "online"
  BY <1>1, <1>2 DEF LinkRecord
<1>6. /\ y \in LinkRecord /\ y.on = r.on /\ y.dev = r.dev /\ y.gone = r.dev
      /\ y.since = (IF r.gone = r.dev THEN r.since ELSE now)
      /\ y.state # r.state => y.state = "offline"
  BY <1>1, <1>3 DEF LinkRecord
<1> HIDE DEF on, away
<1> QED
  BY <1>4, <1>5, <1>6

\* m, b and f are the records after the match, the auto-binds and the rebind.
Made(m, b, f) ==
  /\ m = [l \in LinkIds |-> Matched(l, rt[l])]
  /\ Bound(m, b) /\ Rebound(b, f)

\* The links whose change is fired: matched, auto-bound, rebound.
Changed(m) == {l \in LinkIds : m[l].state # rt[l].state}
Moved(x, y) == {l \in LinkIds : y[l].dev # x[l].dev}

\* A scan goes through the three loops; it stores what they bound.
LEMMA ReconcileDoes ==
  ASSUME Typed, NEW order \in Orders, Reconcile(order)
  PROVE  \E m, b, f :
           /\ Made(m, b, f) /\ m \in [LinkIds -> LinkRecord]
           /\ rt' = f
           /\ db' = [l \in LinkIds |->
                       IF l \in Moved(m, b) THEN Row(b[l].on, b[l].dev)
                       ELSE IF l \in Moved(b, f) THEN [db[l] EXCEPT !.dev = f[l].dev]
                       ELSE db[l]]
           /\ left' = {l \in left : f[l].dev = None \/ (f[l].gone # None /\ f[l].since # now)}
           /\ muddled' = muddled \cup {l \in Moved(m, b) : Busy(l) # {}}
           /\ \E c \in SetToSeqs(Changed(m)), a \in SetToSeqs(Moved(m, b)), g \in SetToSeqs(Moved(b, f)) :
                Goes(Scanner, [at |-> "fire", changes |->
                  Changes(m, c) \o Changes(b, a) \o Changes(f, g)])
<1> DEFINE m == [l \in LinkIds |-> Matched(l, rt[l])]
           b == AutoBinds(m, order)
           f == RebindGone(b)
<1>1. rt' = f
  BY Zenon DEF Reconcile
<1>2. db' = [l \in LinkIds |->
               IF l \in Moved(m, b) THEN Row(b[l].on, b[l].dev)
               ELSE IF l \in Moved(b, f) THEN [db[l] EXCEPT !.dev = f[l].dev]
               ELSE db[l]]
  BY Zenon DEF Reconcile, Moved
<1>3. left' = {l \in left : f[l].dev = None \/ (f[l].gone # None /\ f[l].since # now)}
  BY Zenon DEF Reconcile
<1>4. muddled' = muddled \cup {l \in Moved(m, b) : Busy(l) # {}}
  BY Zenon DEF Reconcile, Moved
<1>5. \E c \in SetToSeqs(Changed(m)), a \in SetToSeqs(Moved(m, b)), g \in SetToSeqs(Moved(b, f)) :
        Goes(Scanner, [at |-> "fire", changes |->
          Changes(m, c) \o Changes(b, a) \o Changes(f, g)])
  BY Zenon DEF Reconcile, Moved, Changed
<1>6. m \in [LinkIds -> LinkRecord]
  BY MatchedDoes DEF Typed, DataOK
<1>7. order \in Seq(LinkIds) /\ bus \subseteq Devices
  BY Walk, LinksAssumption DEF Orders, Typed, DataOK
<1> HIDE DEF m, b, f
<1>8. Bound(m, b)
  BY <1>6, <1>7, AutoBindsKeeps DEF b
<1>9. b \in [LinkIds -> LinkRecord]
  BY <1>8 DEF Bound
<1>10. Rebound(b, f)
  BY <1>7, <1>9, RebindGoneKeeps DEF f
<1>11. Made(m, b, f)
  BY <1>8, <1>10 DEF Made, m
<1> QED
  BY <1>1, <1>2, <1>3, <1>4, <1>5, <1>6, <1>11, Zenon

-----------------------------------------------------------------------------
(* What each step of a handler writes.                                      *)

\* The record of l is rewritten, but for the note that its device is gone.
Rewritten(l, on, dev, state) ==
  /\ rt' \in [LinkIds -> LinkRecord]
  /\ rt'[l].on = on /\ rt'[l].dev = dev /\ rt'[l].state = state
  /\ rt'[l].gone = rt[l].gone /\ rt'[l].since = rt[l].since
  /\ \A m \in LinkIds \ {l} : rt'[m] = rt[m]

\* The row of l is rewritten.
RowWritten(l, r) ==
  /\ db' \in [LinkIds -> LinkRow] /\ db'[l] = r
  /\ \A m \in LinkIds \ {l} : db'[m] = db[m]

\* What rewriting one record does.
LEMMA RecordWritten ==
  ASSUME rt \in [LinkIds -> LinkRecord], NEW l \in LinkIds, NEW on \in BOOLEAN, NEW dev \in Ids,
         NEW state \in {"unbound", "offline", "online"},
         \/ rt' = [rt EXCEPT ![l].on = on, ![l].dev = dev, ![l].state = state]
         \/ on = rt[l].on /\ rt' = [rt EXCEPT ![l].dev = dev, ![l].state = state]
  PROVE  Rewritten(l, on, dev, state)
<1>1. rt[l] \in LinkRecord /\ DOMAIN rt = LinkIds
  OBVIOUS
<1>2. PICK x : x = rt'
  OBVIOUS
<1>3. DOMAIN x = LinkIds /\ x = [m \in LinkIds |-> x[m]]
  BY <1>1, <1>2
<1>4. \A m \in LinkIds \ {l} : x[m] = rt[m]
  BY <1>1, <1>2
<1>5. \/ x[l] = [rt[l] EXCEPT !.on = on, !.dev = dev, !.state = state]
      \/ on = rt[l].on /\ x[l] = [rt[l] EXCEPT !.dev = dev, !.state = state]
  BY <1>1, <1>2
<1>6. /\ x[l] \in LinkRecord /\ x[l].on = on /\ x[l].dev = dev /\ x[l].state = state
      /\ x[l].gone = rt[l].gone /\ x[l].since = rt[l].since
  <2>1. PICK e : e = rt[l]
    OBVIOUS
  <2>2. CASE x[l] = [e EXCEPT !.on = on, !.dev = dev, !.state = state]
    BY <1>1, <2>1, <2>2 DEF LinkRecord
  <2>3. CASE on = e.on /\ x[l] = [e EXCEPT !.dev = dev, !.state = state]
    BY <1>1, <2>1, <2>3 DEF LinkRecord
  <2> QED
    BY <1>5, <2>1, <2>2, <2>3
<1>7. x \in [LinkIds -> LinkRecord]
  <2>1. \A m \in LinkIds : x[m] \in LinkRecord
    BY <1>4, <1>6
  <2> QED
    BY <1>3, <2>1
<1> QED
  BY <1>2, <1>4, <1>6, <1>7 DEF Rewritten

\* What writing one row does.
LEMMA RowIsWritten ==
  ASSUME db \in [LinkIds -> LinkRow], NEW l \in LinkIds, NEW r \in LinkRow, WriteRow(l, r)
  PROVE  RowWritten(l, r)
  BY DEF WriteRow, RowWritten

\* A switch or a PUT at work has a link and a row.
LEMMA CallHas ==
  ASSUME Typed, NEW h \in Handlers, job[h].at \in {"write", "record", "worker", "start", "put"}
  PROVE  /\ job[h] # Idle /\ job[h].link \in LinkIds /\ job[h].row \in LinkRow
         /\ job[h].link \notin needs => job[h].row.dev = None
<1>1. job[h] # Idle
  BY DEF Idle
<1>2. job[h] \in Call /\ (job[h].at # "save" /\ job[h].link \notin needs => job[h].row.dev = None)
  BY <1>1 DEF Typed, CallsOK
<1>3. job[h] \in [at : {"write", "record", "worker", "start", "put"}, link : LinkIds, row : LinkRow]
  BY <1>2 DEF Call
<1> QED
  BY <1>1, <1>2, <1>3

\* Its next stage has them too.
LEMMA NextCall ==
  ASSUME Typed, NEW h \in Handlers, job[h].at \in {"write", "record", "worker", "start", "put"},
         NEW s \in {"record", "worker", "start"}
  PROVE  LET k == [job[h] EXCEPT !.at = s]
         IN k \in Call /\ k.at = s /\ k.link = job[h].link /\ k.row = job[h].row
<1>1. job[h] # Idle
  BY DEF Idle
<1>2. job[h] \in Call
  BY <1>1 DEF Typed, CallsOK
<1>3. job[h] \in [at : {"write", "record", "worker", "start", "put"}, link : LinkIds, row : LinkRow]
  BY <1>2 DEF Call
<1> QED
  BY <1>3 DEF Call

\* A bind that is about to store the record has a link.
LEMMA SaveHas ==
  ASSUME Typed, NEW h \in Handlers, job[h].at = "save"
  PROVE  job[h] # Idle /\ job[h].link \in LinkIds
<1>1. job[h] # Idle
  BY DEF Idle
<1>2. job[h] \in Call
  BY <1>1 DEF Typed, CallsOK
<1> QED
  BY <1>1, <1>2 DEF Call

\* a job of handler h that fits the types
FitsCall(k) ==
  k # Idle => /\ k \in Call
              /\ k.at # "save" /\ k.link \notin needs => k.row.dev = None

\* A handler moves on.
LEMMA CallStep ==
  ASSUME IInv, Typed, NEW h \in Handlers, NEW k, Goes(h, k), FitsCall(k), UNCHANGED needs
  PROVE  CallsOK' /\ ChangesOK'
<1>1. h \in Goroutines /\ h # Scanner
  BY LinksAssumption DEF Goroutines
<1>2. job'[h] = k /\ \A f \in Goroutines : f # h => job'[f] = job[f]
  BY <1>1, OthersStay DEF IInv
<1>3. CallsOK'
  <2> SUFFICES ASSUME NEW f \in Handlers, job'[f] # Idle
               PROVE  /\ job'[f] \in Call
                      /\ job'[f].at # "save" /\ job'[f].link \notin needs => job'[f].row.dev = None
    BY DEF CallsOK
  <2>1. CASE f = h
    BY <1>2, <2>1 DEF FitsCall
  <2>2. CASE f # h
    BY <1>2, <2>2 DEF Typed, CallsOK, Goroutines
  <2> QED
    BY <2>1, <2>2
<1>4. ChangesOK'
  BY <1>1, <1>2, Apart DEF Typed, ChangesOK, Change
<1> QED
  BY <1>3, <1>4

\* a job of the scan that fits the types
FitsScan(k) ==
  k # Idle => /\ k \in [at : {"fire", "start"}, changes : Seq(Change)]
              /\ k.at = "start" => k.changes # <<>> /\ Head(k.changes)[2] = "online"

\* The scan moves on.
LEMMA ScanStep ==
  ASSUME IInv, Typed, NEW k, Goes(Scanner, k), FitsScan(k), UNCHANGED needs
  PROVE  CallsOK' /\ ChangesOK'
<1>1. job'[Scanner] = k /\ \A h \in Handlers : job'[h] = job[h]
  BY Apart, OthersStay DEF IInv, Goroutines
<1>2. CallsOK'
  BY <1>1 DEF Typed, CallsOK
<1>3. ChangesOK'
  BY <1>1 DEF ChangesOK, FitsScan, Change
<1> QED
  BY <1>2, <1>3

-----------------------------------------------------------------------------
(* The shapes.                                                              *)

\* A row is written.
LEMMA RowData ==
  ASSUME DataOK, NEW l \in LinkIds, NEW r, RowWritten(l, r), l \notin needs => r.dev = None,
         UNCHANGED <<now, bus, needs, rt, worker, mu, seen>>, muddled' \subseteq LinkIds
  PROVE  DataOK'
<1>1. \A m \in LinkIds \ needs : rt[m].dev = None /\ db'[m].dev = None
  BY DEF DataOK, RowWritten
<1> QED
  BY <1>1 DEF DataOK, RowWritten

\* A record is rewritten.
LEMMA RecordData ==
  ASSUME DataOK, NEW l \in LinkIds, NEW on, NEW dev, NEW state, Rewritten(l, on, dev, state),
         l \notin needs => dev = None,
         UNCHANGED <<now, bus, needs, db, worker, mu, seen>>, muddled' \subseteq LinkIds
  PROVE  DataOK'
<1>1. \A m \in LinkIds \ needs : rt'[m].dev = None /\ db[m].dev = None
  BY DEF DataOK, Rewritten
<1> QED
  BY <1>1 DEF DataOK, Rewritten

\* A worker is started or stopped.
LEMMA WorkerData ==
  ASSUME DataOK, UNCHANGED <<now, bus, needs, db, rt, seen, muddled>>,
         worker' \subseteq LinkIds, mu' \in Goroutines \cup {None}
  PROVE  DataOK'
  BY DEF DataOK

\* Switching a record: what is written.
LEMMA SwitchRecordDoes ==
  ASSUME Typed, NEW h \in Handlers, SwitchRecord(h)
  PROVE  Rewritten(job[h].link, job[h].row.on, job[h].row.dev,
                   IF job[h].link \in needs THEN rt[job[h].link].state
                   ELSE IF job[h].row.on THEN "online" ELSE "unbound")
<1> DEFINE state == IF job[h].link \in needs THEN rt[job[h].link].state
                    ELSE IF job[h].row.on THEN "online" ELSE "unbound"
<1>1. job[h].link \in LinkIds /\ job[h].row \in LinkRow
  BY CallHas DEF SwitchRecord
<1>2. PICK l : l = job[h].link
  OBVIOUS
<1>3. PICK on, dev : on = job[h].row.on /\ dev = job[h].row.dev
  OBVIOUS
<1>4. PICK s : s = state
  OBVIOUS
<1>5. rt \in [LinkIds -> LinkRecord] /\ rt[l] \in LinkRecord
  BY <1>1, <1>2 DEF Typed, DataOK
<1>6. rt' = [rt EXCEPT ![l].on = on, ![l].dev = dev, ![l].state = s]
  <2>1. rt' = [rt EXCEPT ![l].on = on, ![l].dev = dev,
                         ![l].state = IF l \in needs THEN @ ELSE IF on THEN "online" ELSE "unbound"]
    BY <1>2, <1>3, Zenon DEF SwitchRecord
  <2>2. s = IF l \in needs THEN rt[l].state ELSE IF on THEN "online" ELSE "unbound"
    BY <1>2, <1>3, <1>4
  <2> QED
    BY <1>1, <1>2, <1>5, <2>1, <2>2 DEF LinkRecord
<1>7. on \in BOOLEAN /\ dev \in Ids /\ s \in {"unbound", "offline", "online"} /\ l \in LinkIds
  BY <1>1, <1>2, <1>3, <1>4, <1>5 DEF LinkRow, LinkRecord
<1>8. Rewritten(l, on, dev, s)
  BY <1>5, <1>6, <1>7, RecordWritten
<1> QED
  BY <1>2, <1>3, <1>4, <1>8

\* PUT's record: what is written.
LEMMA PutRecordDoes ==
  ASSUME Typed, NEW h \in Handlers, PutRecord(h)
  PROVE  Rewritten(job[h].link, job[h].row.on, job[h].row.dev,
                   IF job[h].row.dev = rt[job[h].link].dev THEN rt[job[h].link].state
                   ELSE IF job[h].row.dev = None THEN "unbound" ELSE "offline")
<1> DEFINE state == IF job[h].row.dev = rt[job[h].link].dev THEN rt[job[h].link].state
                    ELSE IF job[h].row.dev = None THEN "unbound" ELSE "offline"
<1>1. job[h].link \in LinkIds /\ job[h].row \in LinkRow
  BY CallHas DEF PutRecord
<1>2. PICK l : l = job[h].link
  OBVIOUS
<1>3. PICK on, dev : on = job[h].row.on /\ dev = job[h].row.dev
  OBVIOUS
<1>4. PICK s : s = state
  OBVIOUS
<1>5. rt \in [LinkIds -> LinkRecord] /\ rt[l] \in LinkRecord
  BY <1>1, <1>2 DEF Typed, DataOK
<1>6. rt' = [rt EXCEPT ![l].on = on, ![l].dev = dev, ![l].state = s]
  <2>1. rt' = [rt EXCEPT ![l].on = on, ![l].dev = dev,
                         ![l].state = IF dev = rt[l].dev THEN @ ELSE IF dev = None THEN "unbound" ELSE "offline"]
    BY <1>2, <1>3, Zenon DEF PutRecord
  <2>2. s = IF dev = rt[l].dev THEN rt[l].state ELSE IF dev = None THEN "unbound" ELSE "offline"
    BY <1>2, <1>3, <1>4
  <2> QED
    BY <1>1, <1>2, <1>5, <2>1, <2>2 DEF LinkRecord
<1>7. on \in BOOLEAN /\ dev \in Ids /\ s \in {"unbound", "offline", "online"} /\ l \in LinkIds
  BY <1>1, <1>2, <1>3, <1>4, <1>5 DEF LinkRow, LinkRecord
<1>8. Rewritten(l, on, dev, s)
  BY <1>5, <1>6, <1>7, RecordWritten
<1> QED
  BY <1>2, <1>3, <1>4, <1>8

\* BindDevice and UnbindDevice: what is written.
LEMMA BindDoes ==
  ASSUME Typed, NEW h \in Handlers, NEW l \in LinkIds, NEW dev \in Ids, Bind(h, l, dev)
  PROVE  Rewritten(l, rt[l].on, dev, IF dev = None THEN "unbound" ELSE "offline")
<1>1. PICK s : s = IF dev = None THEN "unbound" ELSE "offline"
  OBVIOUS
<1>2. rt' = [rt EXCEPT ![l].dev = dev, ![l].state = s]
  BY <1>1, Zenon DEF Bind
<1>3. rt \in [LinkIds -> LinkRecord] /\ rt[l].on \in BOOLEAN
  BY DEF Typed, DataOK, LinkRecord
<1>4. s \in {"unbound", "offline", "online"}
  BY <1>1
<1> QED
  BY <1>1, <1>2, <1>3, <1>4, RecordWritten

\* A new call: the links whose history is noted are links.
LEMMA Noted ==
  ASSUME DataOK, NEW l \in LinkIds, NEW c, muddled' = IF c THEN muddled \cup {l} ELSE muddled
  PROVE  muddled' \subseteq LinkIds /\ muddled \subseteq muddled'
  BY DEF DataOK

\* POST enable or disable is taken up.
LEMMA SwitchTyped ==
  ASSUME IInv, Typed, NEW h \in Handlers, NEW l \in LinkIds, NEW on \in BOOLEAN, Switch(h, l, on)
  PROVE  Typed'
<1> DEFINE k == [at |-> "write", link |-> l, row |-> Row(on, db[l].dev)]
<1>1. Goes(h, k) /\ UNCHANGED <<now, bus, needs, db, rt, worker, mu, seen>>
  BY Zenon DEF Switch, Takes
<1>2. muddled' = IF Busy(l) # {} THEN muddled \cup {l} ELSE muddled
  BY DEF Switch
<1>3. db[l] \in LinkRow /\ (l \notin needs => db[l].dev = None)
  BY DEF Typed, DataOK
<1>4. Row(on, db[l].dev) \in LinkRow /\ Row(on, db[l].dev).dev = db[l].dev
  BY <1>3 DEF Row, LinkRow
<1>5. FitsCall(k)
  BY <1>3, <1>4 DEF FitsCall, Call
<1> HIDE DEF k
<1>6. CallsOK' /\ ChangesOK'
  BY <1>1, <1>5, CallStep
<1>7. muddled' \subseteq LinkIds
  BY <1>2, Noted DEF Typed
<1>8. DataOK'
  BY <1>1, <1>7 DEF Typed, DataOK
<1> QED
  BY <1>6, <1>8 DEF Typed

\* The switch writes the row.
LEMMA SwitchRowTyped == ASSUME IInv, Typed, NEW h \in Handlers, SwitchRow(h) PROVE Typed'
<1> DEFINE k == [job[h] EXCEPT !.at = "record"]
<1>1. /\ job[h].at = "write" /\ WriteRow(job[h].link, job[h].row) /\ Goes(h, k)
      /\ UNCHANGED <<now, bus, needs, rt, worker, mu, muddled, seen>>
  BY Zenon DEF SwitchRow
<1>2. /\ job[h].link \in LinkIds /\ job[h].row \in LinkRow
      /\ job[h].link \notin needs => job[h].row.dev = None
  BY <1>1, CallHas
<1>3. k \in Call /\ k.link = job[h].link /\ k.row = job[h].row
  BY <1>1, NextCall
<1> HIDE DEF k
<1>4. CallsOK' /\ ChangesOK'
  BY <1>1, <1>2, <1>3, CallStep DEF FitsCall
<1>5. RowWritten(job[h].link, job[h].row)
  BY <1>1, <1>2, RowIsWritten DEF Typed, DataOK
<1>6. muddled' \subseteq LinkIds
  BY <1>1 DEF Typed, DataOK
<1> QED
  BY <1>1, <1>2, <1>4, <1>5, <1>6, RowData DEF Typed

\* The switch changes the record.
LEMMA SwitchRecordTyped == ASSUME IInv, Typed, NEW h \in Handlers, SwitchRecord(h) PROVE Typed'
<1> DEFINE k == [job[h] EXCEPT !.at = "worker"]
<1>1. /\ job[h].at = "record" /\ Goes(h, k)
      /\ UNCHANGED <<now, bus, needs, db, worker, mu, muddled, seen>>
  BY Zenon DEF SwitchRecord
<1>2. job[h].link \in LinkIds /\ (job[h].link \notin needs => job[h].row.dev = None)
  BY <1>1, CallHas
<1>3. k \in Call /\ k.link = job[h].link /\ k.row = job[h].row
  BY <1>1, NextCall
<1> HIDE DEF k
<1>4. CallsOK' /\ ChangesOK'
  BY <1>1, <1>2, <1>3, CallStep DEF FitsCall
<1>5. muddled' \subseteq LinkIds
  BY <1>1 DEF Typed, DataOK
<1> QED
  BY <1>1, <1>2, <1>4, <1>5, SwitchRecordDoes, RecordData DEF Typed

\* The worker follows the switch.
LEMMA SwitchWorkerTyped == ASSUME IInv, Typed, NEW h \in Handlers, SwitchWorker(h) PROVE Typed'
<1> DEFINE go == [job[h] EXCEPT !.at = "start"]
<1>1. job[h].at = "worker" /\ UNCHANGED <<now, bus, needs, db, rt, muddled, seen>>
  BY DEF SwitchWorker
<1>2. \/ StartWorker(h, job[h].link, Idle, go) /\ UNCHANGED worker
      \/ StopWorker(h, job[h].link, Idle)
  BY Zenon DEF SwitchWorker
<1>3. job[h].link \in LinkIds /\ (job[h].link \notin needs => job[h].row.dev = None)
  BY <1>1, CallHas
<1>4. go \in Call /\ go.link = job[h].link /\ go.row = job[h].row
  BY <1>1, NextCall
<1> HIDE DEF go
<1>5. FitsCall(go) /\ FitsCall(Idle)
  BY <1>3, <1>4 DEF FitsCall
<1>6. Goes(h, go) \/ Goes(h, Idle)
  BY <1>2 DEF StartWorker, StopWorker
<1>7. CallsOK' /\ ChangesOK'
  BY <1>1, <1>5, <1>6, CallStep
<1>8. worker' \subseteq LinkIds /\ mu' \in Goroutines \cup {None}
  BY <1>2 DEF StartWorker, StopWorker, Typed, DataOK, Goroutines
<1> QED
  BY <1>1, <1>7, <1>8, WorkerData DEF Typed

\* A switch on registers its worker.
LEMMA SwitchStartsTyped == ASSUME IInv, Typed, NEW h \in Handlers, SwitchStarts(h) PROVE Typed'
<1>1. /\ job[h].at = "start" /\ Goes(h, Idle) /\ worker' = worker \cup {job[h].link} /\ mu' = None
      /\ UNCHANGED <<now, bus, needs, db, rt, muddled, seen>>
  BY DEF SwitchStarts, WorkerStarted
<1>2. CallsOK' /\ ChangesOK'
  BY <1>1, CallStep DEF FitsCall
<1>3. worker' \subseteq LinkIds
  BY <1>1, CallHas DEF Typed, DataOK
<1> QED
  BY <1>1, <1>2, <1>3, WorkerData DEF Typed

\* POST bind or unbind changes the record.
LEMMA BindTyped ==
  ASSUME IInv, Typed, NEW h \in Handlers, NEW l \in needs, NEW dev \in Ids, Bind(h, l, dev)
  PROVE  Typed'
<1> DEFINE k == [at |-> "save", link |-> l]
<1>1. l \in LinkIds
  BY DEF Typed, DataOK
<1>2. Goes(h, k) /\ UNCHANGED <<now, bus, needs, db, worker, mu, seen>>
  BY Zenon DEF Bind, Takes
<1>3. muddled' = IF Busy(l) # {} THEN muddled \cup {l} ELSE muddled
  BY DEF Bind
<1>4. FitsCall(k)
  BY <1>1 DEF FitsCall, Call
<1> HIDE DEF k
<1>5. CallsOK' /\ ChangesOK'
  BY <1>2, <1>4, CallStep
<1>6. muddled' \subseteq LinkIds
  BY <1>1, <1>3, Noted DEF Typed
<1> QED
  BY <1>1, <1>2, <1>5, <1>6, BindDoes, RecordData DEF Typed

\* The record is stored.
LEMMA BindSavesTyped == ASSUME IInv, Typed, NEW h \in Handlers, BindSaves(h) PROVE Typed'
<1>1. PICK l : l = job[h].link
  OBVIOUS
<1>2. /\ job[h].at = "save" /\ WriteRow(l, Row(rt[l].on, rt[l].dev)) /\ Goes(h, Idle)
      /\ UNCHANGED <<now, bus, needs, rt, worker, mu, muddled, seen>>
  BY <1>1, Zenon DEF BindSaves
<1>3. l \in LinkIds
  BY <1>1, <1>2, SaveHas
<1>4. rt[l] \in LinkRecord /\ (l \notin needs => rt[l].dev = None)
  BY <1>3 DEF Typed, DataOK
<1>5. Row(rt[l].on, rt[l].dev) \in LinkRow /\ Row(rt[l].on, rt[l].dev).dev = rt[l].dev
  BY <1>4 DEF Row, LinkRow, LinkRecord
<1>6. RowWritten(l, Row(rt[l].on, rt[l].dev))
  BY <1>2, <1>3, <1>5, RowIsWritten DEF Typed, DataOK
<1>7. CallsOK' /\ ChangesOK'
  BY <1>2, CallStep DEF FitsCall
<1>8. muddled' \subseteq LinkIds
  BY <1>2 DEF Typed, DataOK
<1> QED
  BY <1>2, <1>3, <1>4, <1>5, <1>6, <1>7, <1>8, RowData DEF Typed

\* PUT replaces the row.
LEMMA PutTyped ==
  ASSUME IInv, Typed, NEW h \in Handlers, NEW l \in LinkIds, NEW row \in LinkRow,
         l \notin needs => row.dev = None, Put(h, l, row)
  PROVE  Typed'
<1> DEFINE k == [at |-> "put", link |-> l, row |-> row]
<1>1. Goes(h, k) /\ WriteRow(l, row) /\ UNCHANGED <<now, bus, needs, rt, worker, mu, seen>>
  BY Zenon DEF Put, Takes
<1>2. muddled' = IF Busy(l) # {} \/ row.on # rt[l].on THEN muddled \cup {l} ELSE muddled
  BY DEF Put
<1>3. FitsCall(k)
  BY DEF FitsCall, Call
<1> HIDE DEF k
<1>4. CallsOK' /\ ChangesOK'
  BY <1>1, <1>3, CallStep
<1>5. RowWritten(l, row)
  BY <1>1, RowIsWritten DEF Typed, DataOK
<1>6. muddled' \subseteq LinkIds
  BY <1>2, Noted DEF Typed
<1> QED
  BY <1>1, <1>4, <1>5, <1>6, RowData DEF Typed

\* PUT replaces the record.
LEMMA PutRecordTyped == ASSUME IInv, Typed, NEW h \in Handlers, PutRecord(h) PROVE Typed'
<1>1. /\ job[h].at = "put" /\ Goes(h, Idle)
      /\ UNCHANGED <<now, bus, needs, db, worker, mu, muddled, seen>>
  BY Zenon DEF PutRecord
<1>2. job[h].link \in LinkIds /\ (job[h].link \notin needs => job[h].row.dev = None)
  BY <1>1, CallHas
<1>3. CallsOK' /\ ChangesOK'
  BY <1>1, CallStep DEF FitsCall
<1>4. muddled' \subseteq LinkIds
  BY <1>1 DEF Typed, DataOK
<1> QED
  BY <1>1, <1>2, <1>3, <1>4, PutRecordDoes, RecordData DEF Typed

\* What a scan makes of one link.
LEMMA MadeOfLink ==
  ASSUME Typed, NEW m \in [LinkIds -> LinkRecord], NEW b, NEW f, Made(m, b, f), NEW l \in LinkIds
  PROVE  /\ m[l].on = rt[l].on /\ b[l].on = rt[l].on /\ f[l].on = rt[l].on
         /\ m[l].dev = rt[l].dev
         /\ l \in Changed(m) => l \in needs /\ m[l].state \in {"online", "offline"}
         /\ l \in Moved(m, b) => l \in needs /\ b[l].state = "online"
         /\ l \in Moved(b, f) => l \in needs /\ f[l].state = "online"
         /\ l \notin Moved(m, b) => b[l] = m[l]
         /\ l \notin Moved(b, f) => f[l] = b[l]
<1>1. m[l] = Matched(l, rt[l])
  BY DEF Made
<1>2. now \in 0..MaxNow /\ rt[l] \in LinkRecord
  BY DEF Typed, DataOK
<1>3. /\ m[l].on = rt[l].on /\ m[l].dev = rt[l].dev
      /\ m[l].state # rt[l].state => rt[l].dev # None /\ m[l].state \in {"online", "offline"}
  BY <1>1, <1>2, MatchedDoes
<1>4. l \in Changed(m) => l \in needs /\ m[l].state \in {"online", "offline"}
  BY <1>3 DEF Changed, Typed, DataOK
<1>5. b[l] # m[l] => /\ m[l].dev = None /\ l \in needs /\ b[l].dev \in bus
                     /\ b[l].state = "online" /\ b[l].on = m[l].on
  BY DEF Made, Bound
<1>6. b[l] # m[l] => b[l].dev # m[l].dev
  BY <1>5, LinksAssumption DEF Typed, DataOK
<1>7. f[l] # b[l] => /\ l \in needs /\ b[l].dev # None /\ f[l].state = "online" /\ f[l].on = b[l].on
                     /\ ~Names(b[l].dev, f[l].dev)
  BY DEF Made, Rebound
<1>8. f[l] # b[l] => f[l].dev # b[l].dev
  BY <1>7 DEF Names
<1> QED
  BY <1>3, <1>4, <1>5, <1>6, <1>7, <1>8 DEF Moved

\* The changes that are fired.
LEMMA ChangesRun ==
  ASSUME NEW S, NEW r, NEW ls \in Seq(S), \A l \in S : l \in needs /\ r[l].state \in {"online", "offline"}
  PROVE  /\ Changes(r, ls) \in Seq(Change) /\ Len(Changes(r, ls)) = Len(ls)
         /\ \A i \in 1..Len(ls) : Changes(r, ls)[i] = <<ls[i], r[ls[i]].state>>
<1>1. PICK n : n = Len(ls)
  OBVIOUS
<1>2. n \in Nat /\ DOMAIN ls = 1..n /\ \A i \in 1..n : ls[i] \in S
  BY <1>1
<1>3. PICK c : c = Changes(r, ls)
  OBVIOUS
<1>4. c = [i \in 1..n |-> <<ls[i], r[ls[i]].state>>]
  BY <1>2, <1>3 DEF Changes
<1>5. \A i \in 1..n : c[i] \in Change
  BY <1>2, <1>4 DEF Change
<1>6. c \in Seq(Change) /\ Len(c) = n
  BY <1>2, <1>4, <1>5
<1> QED
  BY <1>1, <1>3, <1>4, <1>6

\* The three lists of a scan: each is a list of changes that tells of its links.
Tells(c, S, state) ==
  /\ c \in Seq(Change)
  /\ \A i \in 1..Len(c) : c[i][1] \in S /\ c[i] = <<c[i][1], state[c[i][1]]>>
  /\ \A l \in S : \E i \in 1..Len(c) : c[i] = <<l, state[l]>>

\* The list of one loop tells of each of its links.
LEMMA ListTells ==
  ASSUME NEW S \in SUBSET LinkIds, NEW r, NEW ls \in SetToSeqs(S),
         \A l \in S : l \in needs /\ r[l].state \in {"online", "offline"}
  PROVE  Tells(Changes(r, ls), S, [l \in LinkIds |-> r[l].state])
<1>1. ls \in Seq(S) /\ \A x \in S : \E i \in 1..Len(ls) : ls[i] = x
  BY Walk, FS_Subset, LinksAssumption
<1>2. PICK c : c = Changes(r, ls)
  OBVIOUS
<1>3. /\ c \in Seq(Change) /\ Len(c) = Len(ls)
      /\ \A i \in 1..Len(ls) : c[i] = <<ls[i], r[ls[i]].state>>
  BY <1>1, <1>2, ChangesRun, SMTT(30)
<1>4. \A i \in 1..Len(c) : c[i] = <<ls[i], r[ls[i]].state>> /\ ls[i] \in S
  BY <1>1, <1>3
<1>5. \A l \in S : \E i \in 1..Len(c) : c[i] = <<l, r[l].state>>
  BY <1>1, <1>3, <1>4
<1> QED
  BY <1>2, <1>3, <1>4, <1>5 DEF Tells

\* What a scan did: m, b, f are the records after each loop, x, y, z what is fired.
ScanMade(m, b, f, x, y, z) ==
  /\ Made(m, b, f) /\ m \in [LinkIds -> LinkRecord] /\ rt' = f
  /\ Tells(x, Changed(m), [l \in LinkIds |-> m[l].state])
  /\ Tells(y, Moved(m, b), [l \in LinkIds |-> b[l].state])
  /\ Tells(z, Moved(b, f), [l \in LinkIds |-> f[l].state])
  /\ Goes(Scanner, [at |-> "fire", changes |-> x \o y \o z])
  /\ \A l \in LinkIds :
       db'[l] = IF l \in Moved(m, b) THEN Row(b[l].on, b[l].dev)
                ELSE IF l \in Moved(b, f) THEN [db[l] EXCEPT !.dev = f[l].dev]
                ELSE db[l]
  /\ DOMAIN db' = LinkIds /\ db' = [l \in LinkIds |-> db'[l]]
  /\ left' = {l \in left : f[l].dev = None \/ (f[l].gone # None /\ f[l].since # now)}
  /\ muddled' = muddled \cup {l \in Moved(m, b) : Busy(l) # {}}

\* The whole list of a scan.
LEMMA ScanTells ==
  ASSUME Typed, NEW order \in Orders, Reconcile(order)
  PROVE  \E m, b, f, x, y, z : ScanMade(m, b, f, x, y, z)
<1>1. PICK m, b, f :
           /\ Made(m, b, f) /\ m \in [LinkIds -> LinkRecord]
           /\ rt' = f
           /\ db' = [l \in LinkIds |->
                       IF l \in Moved(m, b) THEN Row(b[l].on, b[l].dev)
                       ELSE IF l \in Moved(b, f) THEN [db[l] EXCEPT !.dev = f[l].dev]
                       ELSE db[l]]
           /\ left' = {l \in left : f[l].dev = None \/ (f[l].gone # None /\ f[l].since # now)}
           /\ muddled' = muddled \cup {l \in Moved(m, b) : Busy(l) # {}}
           /\ \E c \in SetToSeqs(Changed(m)), a \in SetToSeqs(Moved(m, b)), g \in SetToSeqs(Moved(b, f)) :
                Goes(Scanner, [at |-> "fire", changes |->
                  Changes(m, c) \o Changes(b, a) \o Changes(f, g)])
  BY ReconcileDoes, Zenon
<1>2. PICK c \in SetToSeqs(Changed(m)), a \in SetToSeqs(Moved(m, b)), g \in SetToSeqs(Moved(b, f)) :
        Goes(Scanner, [at |-> "fire", changes |->
          Changes(m, c) \o Changes(b, a) \o Changes(f, g)])
  BY <1>1, Zenon
<1>3. PICK x, y, z : x = Changes(m, c) /\ y = Changes(b, a) /\ z = Changes(f, g)
  OBVIOUS
<1>4. Changed(m) \in SUBSET LinkIds /\ Moved(m, b) \in SUBSET LinkIds /\ Moved(b, f) \in SUBSET LinkIds
  BY DEF Changed, Moved
<1>5. Tells(x, Changed(m), [l \in LinkIds |-> m[l].state])
  <2>1. \A l \in Changed(m) : l \in needs /\ m[l].state \in {"online", "offline"}
    BY <1>1, <1>4, MadeOfLink
  <2> QED
    BY <1>3, <1>4, <2>1, ListTells
<1>6. Tells(y, Moved(m, b), [l \in LinkIds |-> b[l].state])
  <2>1. \A l \in Moved(m, b) : l \in needs /\ b[l].state \in {"online", "offline"}
    BY <1>1, <1>4, MadeOfLink
  <2> QED
    BY <1>3, <1>4, <2>1, ListTells
<1>7. Tells(z, Moved(b, f), [l \in LinkIds |-> f[l].state])
  <2>1. \A l \in Moved(b, f) : l \in needs /\ f[l].state \in {"online", "offline"}
    BY <1>1, <1>4, MadeOfLink
  <2> QED
    BY <1>3, <1>4, <2>1, ListTells
<1>8. Goes(Scanner, [at |-> "fire", changes |-> x \o y \o z])
  BY <1>2, <1>3, Zenon
<1>9. /\ \A l \in LinkIds :
           db'[l] = IF l \in Moved(m, b) THEN Row(b[l].on, b[l].dev)
                    ELSE IF l \in Moved(b, f) THEN [db[l] EXCEPT !.dev = f[l].dev]
                    ELSE db[l]
      /\ DOMAIN db' = LinkIds /\ db' = [l \in LinkIds |-> db'[l]]
  BY <1>1
<1> QED
  BY <1>1, <1>5, <1>6, <1>7, <1>8, <1>9, Zenon DEF ScanMade

\* The scan matches, binds and rebinds.
LEMMA ReconcileTyped == ASSUME IInv, Typed, NEW order \in Orders, Reconcile(order) PROVE Typed'
<1>0. PICK m, b, f, x, y, z : ScanMade(m, b, f, x, y, z)
  BY ScanTells, Zenon
<1>1. /\ Made(m, b, f) /\ m \in [LinkIds -> LinkRecord] /\ rt' = f
      /\ Tells(x, Changed(m), [l \in LinkIds |-> m[l].state])
      /\ Tells(y, Moved(m, b), [l \in LinkIds |-> b[l].state])
      /\ Tells(z, Moved(b, f), [l \in LinkIds |-> f[l].state])
      /\ Goes(Scanner, [at |-> "fire", changes |-> x \o y \o z])
      /\ \A l \in LinkIds :
           db'[l] = IF l \in Moved(m, b) THEN Row(b[l].on, b[l].dev)
                    ELSE IF l \in Moved(b, f) THEN [db[l] EXCEPT !.dev = f[l].dev]
                    ELSE db[l]
      /\ DOMAIN db' = LinkIds /\ db' = [l \in LinkIds |-> db'[l]]
      /\ muddled' = muddled \cup {l \in Moved(m, b) : Busy(l) # {}}
  BY <1>0, Zenon DEF ScanMade
<1>2. UNCHANGED <<now, bus, needs, worker, mu>> /\ seen' = [d \in Devices |-> IF d \in bus THEN now ELSE seen[d]]
  BY Zenon DEF Reconcile
<1>3. PICK k : k = [at |-> "fire", changes |-> x \o y \o z]
  OBVIOUS
<1>4. x \o y \o z \in Seq(Change)
  BY <1>1 DEF Tells
<1>5. FitsScan(k)
  BY <1>3, <1>4 DEF FitsScan
<1>6. CallsOK' /\ ChangesOK'
  <2>1. Goes(Scanner, k)
    BY <1>1, <1>3, Zenon
  <2> QED
    BY <1>2, <1>5, <2>1, ScanStep
<1>7. m \in [LinkIds -> LinkRecord] /\ b \in [LinkIds -> LinkRecord] /\ f \in [LinkIds -> LinkRecord]
  BY <1>1 DEF Made, Bound, Rebound
<1>8. ASSUME NEW l \in LinkIds
      PROVE  /\ db'[l] \in LinkRow
             /\ l \notin needs => rt'[l].dev = None /\ db'[l].dev = None
  <2>1. db[l] \in LinkRow /\ b[l] \in LinkRecord /\ f[l] \in LinkRecord
        /\ (l \notin needs => rt[l].dev = None /\ db[l].dev = None)
    BY <1>7 DEF Typed, DataOK
  <2>2. /\ m[l].dev = rt[l].dev
        /\ l \in Moved(m, b) => l \in needs
        /\ l \in Moved(b, f) => l \in needs
        /\ l \notin Moved(m, b) => b[l] = m[l]
        /\ l \notin Moved(b, f) => f[l] = b[l]
    BY <1>1, MadeOfLink
  <2>3. l \notin needs => f[l].dev = None /\ db'[l] = db[l]
    BY <1>1, <2>1, <2>2
  <2>4. db'[l] \in LinkRow
    <3>1. Row(b[l].on, b[l].dev) \in LinkRow
      BY <2>1 DEF Row, LinkRow, LinkRecord
    <3>2. [db[l] EXCEPT !.dev = f[l].dev] \in LinkRow
      <4>1. PICK e, d : e = db[l] /\ d = f[l].dev
        OBVIOUS
      <4>2. e \in LinkRow /\ d \in Ids
        BY <2>1, <4>1 DEF LinkRecord
      <4>3. [e EXCEPT !.dev = d] \in LinkRow
        BY <4>2 DEF LinkRow
      <4> QED
        BY <4>1, <4>3
    <3>3. \/ db'[l] = Row(b[l].on, b[l].dev)
          \/ db'[l] = [db[l] EXCEPT !.dev = f[l].dev]
          \/ db'[l] = db[l]
      BY <1>1
    <3> QED
      BY <2>1, <3>1, <3>2, <3>3
  <2> QED
    BY <1>1, <2>1, <2>3, <2>4
<1>9. db' \in [LinkIds -> LinkRow]
  BY <1>1, <1>8
<1>10. seen' \in [Devices -> Nat] /\ \A d \in Devices : seen'[d] <= now
  BY <1>2, LinksAssumption DEF Typed, DataOK
<1>11. muddled' \subseteq LinkIds
  BY <1>1 DEF Moved, Typed, DataOK
<1>12. DataOK'
  BY <1>1, <1>2, <1>7, <1>8, <1>9, <1>10, <1>11 DEF Typed, DataOK
<1> QED
  BY <1>6, <1>12 DEF Typed

\* The scan at work has a list.
LEMMA ListHas ==
  ASSUME Typed, job[Scanner].at \in {"fire", "start"}
  PROVE  /\ job[Scanner] \in [at : {"fire", "start"}, changes : Seq(Change)]
         /\ job[Scanner].at = "start" =>
              job[Scanner].changes # <<>> /\ Head(job[Scanner].changes)[2] = "online"
<1>1. job[Scanner] # Idle
  BY DEF Idle
<1> QED
  BY <1>1 DEF Typed, ChangesOK

\* The first of a list of changes.
LEMMA FirstChange ==
  ASSUME NEW c \in Seq(Change), c # <<>>, needs \subseteq LinkIds
  PROVE  /\ Head(c) \in Change /\ Head(c) = c[1] /\ Head(c)[1] \in LinkIds
         /\ Head(c)[2] \in {"online", "offline"} /\ Tail(c) \in Seq(Change)
         /\ Head(c) = <<Head(c)[1], Head(c)[2]>>
         /\ Len(c) \in Nat /\ Len(c) > 0 /\ Len(Tail(c)) = Len(c) - 1
         /\ \A i \in 1..(Len(c) - 1) : Tail(c)[i] = c[i + 1]
<1>1. Len(c) \in Nat /\ Len(c) > 0
  OBVIOUS
<1>2. Head(c) = c[1] /\ c[1] \in Change
  BY <1>1
<1>3. /\ Tail(c) \in Seq(Change) /\ Len(Tail(c)) = Len(c) - 1
      /\ \A i \in 1..(Len(c) - 1) : Tail(c)[i] = c[i + 1]
  BY <1>1
<1>4. \A p \in Change : p[1] \in LinkIds /\ p[2] \in {"online", "offline"} /\ p = <<p[1], p[2]>>
  BY DEF Change
<1> QED
  BY <1>1, <1>2, <1>3, <1>4

\* What Fire leaves of the scan's job: the rest of its list, or a start.
FireDone == [job[Scanner] EXCEPT !.changes = Tail(@)]
FireGo == [job[Scanner] EXCEPT !.at = "start"]

\* One change is fired.
LEMMA FireDoes ==
  ASSUME Typed, Fire
  PROVE  LET j == job[Scanner]
             c == Head(j.changes)
         IN /\ j.at = "fire" /\ j.changes # <<>> /\ j.changes \in Seq(Change)
            /\ FireDone.at = "fire" /\ FireDone.changes = Tail(j.changes)
            /\ FireGo.at = "start" /\ FireGo.changes = j.changes
            /\ FireDone \in [at : {"fire", "start"}, changes : Seq(Change)]
            /\ FireGo \in [at : {"fire", "start"}, changes : Seq(Change)]
            /\ \/ ~wired /\ Goes(Scanner, FireDone) /\ UNCHANGED <<worker, mu>>
               \/ /\ wired /\ c[2] = "online" /\ db[c[1]].on /\ mu' = Scanner
                  /\ Goes(Scanner, FireGo) /\ UNCHANGED worker
               \/ /\ wired /\ c[2] = "online" /\ ~db[c[1]].on
                  /\ Goes(Scanner, FireDone) /\ UNCHANGED <<worker, mu>>
               \/ /\ wired /\ c[2] = "offline" /\ worker' = worker \ {c[1]}
                  /\ Goes(Scanner, FireDone) /\ UNCHANGED mu
            /\ UNCHANGED <<now, bus, needs, db, rt, wired, off, muddled, left, seen, budget>>
<1>1. job[Scanner].at = "fire" /\ job[Scanner].changes # <<>>
      /\ UNCHANGED <<now, bus, needs, db, rt, wired, off, muddled, left, seen, budget>>
  BY Zenon DEF Fire
<1>2. PICK j : j = job[Scanner]
  OBVIOUS
<1>3. j \in [at : {"fire", "start"}, changes : Seq(Change)] /\ j.changes # <<>> /\ j.at = "fire"
  BY <1>1, <1>2, ListHas
<1>4. Tail(j.changes) \in Seq(Change)
  BY <1>3
<1>5. /\ FireDone.at = "fire" /\ FireDone.changes = Tail(j.changes)
      /\ FireDone \in [at : {"fire", "start"}, changes : Seq(Change)]
  BY <1>2, <1>3, <1>4 DEF FireDone
<1>6. /\ FireGo.at = "start" /\ FireGo.changes = j.changes
      /\ FireGo \in [at : {"fire", "start"}, changes : Seq(Change)]
  BY <1>2, <1>3 DEF FireGo
<1> DEFINE c == Head(job[Scanner].changes)
<1>7. \/ ~wired /\ Goes(Scanner, FireDone) /\ UNCHANGED <<worker, mu>>
      \/ wired /\ c[2] = "online" /\ StartWorker(Scanner, c[1], FireDone, FireGo) /\ UNCHANGED worker
      \/ wired /\ c[2] = "offline" /\ StopWorker(Scanner, c[1], FireDone)
  BY Zenon DEF Fire, FireDone, FireGo
<1>8. \/ ~wired /\ Goes(Scanner, FireDone) /\ UNCHANGED <<worker, mu>>
      \/ /\ wired /\ c[2] = "online" /\ db[c[1]].on /\ mu' = Scanner
         /\ Goes(Scanner, FireGo) /\ UNCHANGED worker
      \/ /\ wired /\ c[2] = "online" /\ ~db[c[1]].on
         /\ Goes(Scanner, FireDone) /\ UNCHANGED <<worker, mu>>
      \/ /\ wired /\ c[2] = "offline" /\ worker' = worker \ {c[1]}
         /\ Goes(Scanner, FireDone) /\ UNCHANGED mu
  BY <1>7, Zenon DEF StartWorker, StopWorker
<1> QED
  BY <1>1, <1>2, <1>3, <1>5, <1>6, <1>8, Zenon

\* A state change reaches the dispatcher.
LEMMA FireTyped == ASSUME IInv, Typed, Fire PROVE Typed'
<1> DEFINE c == Head(job[Scanner].changes)
<1>1. /\ job[Scanner].changes # <<>> /\ job[Scanner].changes \in Seq(Change)
      /\ FireDone.at = "fire" /\ FireGo.changes = job[Scanner].changes
      /\ FireDone \in [at : {"fire", "start"}, changes : Seq(Change)]
      /\ FireGo \in [at : {"fire", "start"}, changes : Seq(Change)]
      /\ UNCHANGED <<now, bus, needs, db, rt, muddled, seen>>
  BY FireDoes, Zenon
<1>2. \/ Goes(Scanner, FireDone)
      \/ Goes(Scanner, FireGo) /\ c[2] = "online"
  BY FireDoes, Zenon
<1>3. /\ \/ worker' = worker \/ worker' = worker \ {c[1]}
      /\ \/ mu' = mu \/ mu' = Scanner
  BY FireDoes, Zenon
<1>4. CASE Goes(Scanner, FireDone)
  <2>1. FitsScan(FireDone)
    BY <1>1 DEF FitsScan
  <2>2. CallsOK' /\ ChangesOK'
    BY <1>1, <1>4, <2>1, ScanStep
  <2>3. worker' \subseteq LinkIds /\ mu' \in Goroutines \cup {None}
    BY <1>3, Apart DEF Typed, DataOK
  <2> QED
    BY <1>1, <2>2, <2>3, WorkerData DEF Typed
<1>5. CASE Goes(Scanner, FireGo) /\ c[2] = "online"
  <2>1. FitsScan(FireGo)
    BY <1>1, <1>5 DEF FitsScan
  <2>2. CallsOK' /\ ChangesOK'
    BY <1>1, <1>5, <2>1, ScanStep
  <2>3. worker' \subseteq LinkIds /\ mu' \in Goroutines \cup {None}
    BY <1>3, Apart DEF Typed, DataOK
  <2> QED
    BY <1>1, <2>2, <2>3, WorkerData DEF Typed
<1> QED
  BY <1>2, <1>4, <1>5

\* The scan's own start of a worker.
LEMMA FireStartsTyped == ASSUME IInv, Typed, FireStarts PROVE Typed'
<1>1. /\ job[Scanner].at = "start" /\ worker' = worker \cup {Head(job[Scanner].changes)[1]}
      /\ Goes(Scanner, [at |-> "fire", changes |-> Tail(job[Scanner].changes)]) /\ mu' = None
      /\ UNCHANGED <<now, bus, needs, db, rt, muddled, seen>>
  BY Zenon DEF FireStarts, WorkerStarted
<1>2. job[Scanner].changes \in Seq(Change) /\ job[Scanner].changes # <<>>
  BY <1>1, ListHas
<1>3. Head(job[Scanner].changes)[1] \in LinkIds /\ Tail(job[Scanner].changes) \in Seq(Change)
  BY <1>2, FirstChange DEF Typed, DataOK
<1>4. FitsScan([at |-> "fire", changes |-> Tail(job[Scanner].changes)])
  BY <1>3 DEF FitsScan
<1>5. CallsOK' /\ ChangesOK'
  BY <1>1, <1>4, ScanStep
<1>6. worker' \subseteq LinkIds
  BY <1>1, <1>3 DEF Typed, DataOK
<1> QED
  BY <1>1, <1>5, <1>6, WorkerData DEF Typed

\* The scan is through.
LEMMA ScanEndsTyped == ASSUME IInv, Typed, ScanEnds PROVE Typed'
<1>1. Goes(Scanner, Idle) /\ UNCHANGED <<now, bus, needs, db, rt, worker, mu, muddled, seen>>
  BY DEF ScanEnds
<1>2. CallsOK' /\ ChangesOK'
  BY <1>1, ScanStep DEF FitsScan
<1>3. worker' \subseteq LinkIds /\ mu' \in Goroutines \cup {None}
  BY <1>1 DEF Typed, DataOK
<1> QED
  BY <1>1, <1>2, <1>3, WorkerData DEF Typed

\* InterfaceManager.Start's record of a row.
LEMMA RecordTyped ==
  ASSUME NEW r \in LinkRow, NEW need \in BOOLEAN
  PROVE  /\ Record(r, need) \in LinkRecord
         /\ Record(r, need).on = r.on /\ Record(r, need).dev = r.dev /\ Record(r, need).gone = None
<1>1. None \in Ids /\ 0 \in 0..MaxNow
  BY LinksAssumption DEF Ids
<1> QED
  BY <1>1 DEF Record, LinkRow, LinkRecord

\* Nobody is at anything.
LEMMA AllIdle ==
  ASSUME job' = [g \in Handlers \cup {Scanner} |-> Idle]
  PROVE  CallsOK' /\ ChangesOK'
  BY DEF CallsOK, ChangesOK

\* Dispatcher.Start.
LEMMA DispatcherStartTyped == ASSUME Typed, DispatcherStart PROVE Typed'
<1>1. UNCHANGED <<now, bus, needs, db, rt, mu, job, muddled, seen>> /\ worker' \subseteq LinkIds
  BY DEF DispatcherStart
<1>2. CallsOK' /\ ChangesOK'
  BY <1>1 DEF Typed, CallsOK, ChangesOK, Change
<1>3. mu' \in Goroutines \cup {None}
  BY <1>1 DEF Typed, DataOK
<1> QED
  BY <1>1, <1>2, <1>3, WorkerData DEF Typed

\* The process is started again.
LEMMA RestartTyped == ASSUME Typed, Restart PROVE Typed'
<1>1. /\ job' = [g \in Handlers \cup {Scanner} |-> Idle] /\ worker' = {} /\ mu' = None /\ muddled' = {}
      /\ rt' = [l \in LinkIds |-> Record(db[l], l \in needs)]
      /\ UNCHANGED <<now, bus, needs, db, seen>>
  BY Zenon DEF Restart
<1>2. CallsOK' /\ ChangesOK'
  BY <1>1, AllIdle
<1>3. ASSUME NEW l \in LinkIds
      PROVE  rt'[l] \in LinkRecord /\ rt'[l].dev = db[l].dev
  <2>1. db[l] \in LinkRow /\ (l \in needs) \in BOOLEAN
    BY DEF Typed, DataOK
  <2>2. rt'[l] = Record(db[l], l \in needs)
    BY <1>1
  <2> QED
    BY <2>1, <2>2, RecordTyped
<1>4. rt' \in [LinkIds -> LinkRecord]
  BY <1>1, <1>3
<1>5. DataOK'
  BY <1>1, <1>3, <1>4 DEF Typed, DataOK
<1> QED
  BY <1>2, <1>5 DEF Typed

\* A device is plugged in or pulled.
LEMMA PlugTyped == ASSUME Typed, NEW d \in Devices, Plug(d) PROVE Typed'
<1>1. /\ bus' \subseteq bus \cup {d}
      /\ UNCHANGED <<now, needs, db, rt, worker, mu, job, muddled, seen>>
  BY DEF Plug
<1>2. CallsOK' /\ ChangesOK'
  BY <1>1 DEF Typed, CallsOK, ChangesOK, Change
<1>3. DataOK'
  BY <1>1 DEF Typed, DataOK
<1> QED
  BY <1>2, <1>3 DEF Typed

\* The clock.
LEMMA TickTyped == ASSUME Typed, Tick PROVE Typed'
<1>1. /\ now < MaxNow /\ now' = now + 1
      /\ UNCHANGED <<bus, needs, db, rt, worker, mu, job, muddled, seen>>
  BY DEF Tick
<1>2. CallsOK' /\ ChangesOK'
  BY <1>1 DEF Typed, CallsOK, ChangesOK, Change
<1>3. now \in 0..MaxNow /\ seen \in [Devices -> Nat] /\ \A d \in Devices : seen[d] <= now
  BY DEF Typed, DataOK
<1>4. now' \in 0..MaxNow /\ \A d \in Devices : seen[d] <= now'
  BY <1>1, <1>3, LinksAssumption
<1>5. DataOK'
  BY <1>1, <1>4 DEF Typed, DataOK
<1> QED
  BY <1>2, <1>5 DEF Typed

\* The start.
LEMMA InitTyped == Init => Typed
<1> SUFFICES ASSUME Init PROVE Typed
  OBVIOUS
<1>1. PICK s \in Starts :
        /\ now = 0 /\ bus = s.bus /\ needs = s.needs /\ db = s.rows
        /\ rt = [l \in LinkIds |-> Record(s.rows[l], l \in s.needs)]
        /\ worker = {} /\ mu = None /\ job = [g \in Handlers \cup {Scanner} |-> Idle]
        /\ muddled = {} /\ seen = [d \in Devices |-> 0]
  BY Zenon DEF Init
<1>2. /\ bus \subseteq Devices /\ needs \subseteq LinkIds
      /\ \A l \in LinkIds \ needs : db[l].dev = None
  BY <1>1, LinksAssumption
<1>3. db \in [LinkIds -> LinkRow]
  BY <1>1, LinksAssumption DEF LinkRow, Ids
<1>4. ASSUME NEW l \in LinkIds
      PROVE  rt[l] \in LinkRecord /\ rt[l].dev = db[l].dev
  <2>1. db[l] \in LinkRow /\ (l \in needs) \in BOOLEAN
    BY <1>3
  <2>2. rt[l] = Record(db[l], l \in needs)
    BY <1>1
  <2> QED
    BY <2>1, <2>2, RecordTyped
<1>5. rt \in [LinkIds -> LinkRecord]
  BY <1>1, <1>4
<1>6. now \in 0..MaxNow /\ seen \in [Devices -> Nat] /\ \A d \in Devices : seen[d] <= now
  BY <1>1, LinksAssumption
<1>7. CallsOK /\ ChangesOK
  BY <1>1 DEF CallsOK, ChangesOK
<1> QED
  BY <1>1, <1>2, <1>3, <1>4, <1>5, <1>6, <1>7 DEF Typed, DataOK

\* Every step keeps the shapes.
LEMMA NextTyped == IInv /\ Typed /\ [Next]_vars => Typed'
<1> SUFFICES ASSUME IInv, Typed, [Next]_vars PROVE Typed'
  OBVIOUS
<1>1. CASE Scans
  BY <1>1, ReconcileTyped, FireTyped, FireStartsTyped, ScanEndsTyped DEF Scans
<1>2. ASSUME NEW h \in Handlers, Calls(h) PROVE Typed'
  <2>1. PICK l \in budget.links :
          \/ \E on \in BOOLEAN : Switch(h, l, on)
          \/ l \in needs /\ \E dev \in Ids : Bind(h, l, dev)
          \/ \E on \in BOOLEAN, dev \in Ids : (l \notin needs => dev = None) /\ Put(h, l, Row(on, dev))
    BY <1>2 DEF Calls
  <2>2. l \in LinkIds
    BY DEF IInv, ShapeOK
  <2>3. ASSUME NEW on \in BOOLEAN, Switch(h, l, on) PROVE Typed'
    BY <2>2, <2>3, SwitchTyped
  <2>4. ASSUME l \in needs, NEW dev \in Ids, Bind(h, l, dev) PROVE Typed'
    BY <2>4, BindTyped
  <2>5. ASSUME NEW on \in BOOLEAN, NEW dev \in Ids, l \notin needs => dev = None, Put(h, l, Row(on, dev))
        PROVE  Typed'
    <3>1. Row(on, dev) \in LinkRow /\ (l \notin needs => Row(on, dev).dev = None)
      BY <2>5 DEF Row, LinkRow
    <3> QED
      BY <2>2, <2>5, <3>1, PutTyped
  <2> QED
    BY <2>1, <2>3, <2>4, <2>5
<1>3. ASSUME NEW h \in Handlers, Handles(h) PROVE Typed'
  BY <1>3, SwitchRowTyped, SwitchRecordTyped, SwitchWorkerTyped, SwitchStartsTyped, BindSavesTyped,
     PutRecordTyped DEF Handles
<1>4. CASE DispatcherStart \/ Restart \/ Tick
  BY <1>4, DispatcherStartTyped, RestartTyped, TickTyped
<1>5. ASSUME NEW d \in Devices, Plug(d) PROVE Typed'
  BY <1>5, PlugTyped
<1>6. CASE UNCHANGED vars
  BY <1>6 DEF vars, Typed, DataOK, CallsOK, ChangesOK, Change
<1> QED
  BY <1>1, <1>2, <1>3, <1>4, <1>5, <1>6 DEF Next

\* The shapes hold, and a link that needs no device is never given one by the
\* scan, by a bind or by a PUT.
THEOREM TypeSafety == Spec => []TypeOK
<1>1. IInv /\ Typed => TypeOK
  <2> SUFFICES ASSUME IInv, Typed PROVE TypeOK
    OBVIOUS
  <2>1. ASSUME NEW l \in LinkIds
        PROVE  /\ db[l].on \in BOOLEAN /\ db[l].dev \in Ids
               /\ rt[l].on \in BOOLEAN /\ rt[l].dev \in Ids /\ rt[l].gone \in Ids
               /\ rt[l].state \in {"unbound", "offline", "online"} /\ rt[l].since \in 0..MaxNow
               /\ l \notin needs => rt[l].dev = None /\ db[l].dev = None
    <3>1. db[l] \in LinkRow /\ rt[l] \in LinkRecord
      BY DEF Typed, DataOK
    <3>2. l \notin needs => rt[l].dev = None /\ db[l].dev = None
      BY DEF Typed, DataOK
    <3> QED
      BY <3>1, <3>2 DEF LinkRow, LinkRecord
  <2>2. worker \subseteq LinkIds /\ off \subseteq LinkIds /\ muddled \subseteq LinkIds
    BY DEF Typed, DataOK, IInv, OffOK
  <2>3. mu \in Handlers \cup {Scanner, None}
    BY DEF Typed, DataOK, Goroutines
  <2>4. mu # None => job[mu].at = "start"
    BY <2>3 DEF IInv, OwnerOK, Goroutines
  <2> QED
    BY <2>1, <2>2, <2>3, <2>4 DEF TypeOK
<1> QED
  BY <1>1, InitOK, NextOK, InitTyped, NextTyped, PTL DEF Spec

-----------------------------------------------------------------------------
(* The devices: who gets one, and who loses one.                            *)

\* A link noted as without its device was, since the note, seen by no scan with
\* it; a link without a binding has no note.
GoneOK ==
  \A l \in LinkIds \ left :
    /\ rt[l].dev = None => rt[l].gone = None
    /\ rt[l].dev # None /\ rt[l].gone = rt[l].dev =>
         \A d \in Devices : Names(rt[l].dev, d) => seen[d] <= rt[l].since

\* Records, notes and scans stay.
LEMMA GoneStays ==
  ASSUME GoneOK, UNCHANGED <<rt, left, seen>>
  PROVE  GoneOK'
  BY DEF GoneOK, Names

\* A handler rewrites a record: a note that is kept for another device is remembered.
LEMMA GoneRewritten ==
  ASSUME GoneOK, NEW l \in LinkIds, NEW on, NEW dev, NEW state, Rewritten(l, on, dev, state),
         Rebinds(l, dev), UNCHANGED seen
  PROVE  GoneOK'
<1> SUFFICES ASSUME NEW m \in LinkIds, m \notin left'
             PROVE  /\ rt'[m].dev = None => rt'[m].gone = None
                    /\ rt'[m].dev # None /\ rt'[m].gone = rt'[m].dev =>
                         \A d \in Devices : Names(rt'[m].dev, d) => seen[d] <= rt'[m].since
  BY DEF GoneOK, Names
<1>1. m \notin left
  BY DEF Rebinds
<1>2. /\ rt[m].dev = None => rt[m].gone = None
      /\ rt[m].dev # None /\ rt[m].gone = rt[m].dev =>
           \A d \in Devices : Names(rt[m].dev, d) => seen[d] <= rt[m].since
  BY <1>1 DEF GoneOK
<1>3. CASE m # l
  <2>1. rt'[m] = rt[m]
    BY <1>3 DEF Rewritten
  <2> QED
    BY <1>2, <2>1
<1>4. CASE m = l
  <2>1. rt'[l].dev = dev /\ rt'[l].gone = rt[l].gone /\ rt'[l].since = rt[l].since
    BY DEF Rewritten
  <2>2. dev = rt[l].dev \/ rt[l].gone = None
    BY <1>4 DEF Rebinds
  <2>3. CASE dev = rt[l].dev
    BY <1>2, <1>4, <2>1, <2>3
  <2>4. CASE rt[l].gone = None
    BY <1>4, <2>1, <2>4
  <2> QED
    BY <2>2, <2>3, <2>4
<1> QED
  BY <1>3, <1>4

\* The note of a link whose device is not on the bus.
LEMMA MatchedGone ==
  ASSUME Typed, GoneOK, NEW l \in LinkIds, NEW r, r = Matched(l, rt[l]), rt[l].dev # None,
         r.gone = rt[l].dev, l \notin left
  PROVE  /\ ~Present(rt[l].dev)
         /\ \A d \in Devices : Names(rt[l].dev, d) => seen[d] <= r.since /\ d \notin bus
<1>1. now \in 0..MaxNow /\ rt[l] \in LinkRecord
  BY DEF Typed, DataOK
<1>2. ~Present(rt[l].dev)
  BY <1>1, MatchedDoes
<1>3. r.since = IF rt[l].gone = rt[l].dev THEN rt[l].since ELSE now
  BY <1>1, <1>2, MatchedDoes
<1>4. \A d \in Devices : Names(rt[l].dev, d) => d \notin bus
  BY <1>2 DEF Present
<1>5. \A d \in Devices : seen[d] <= now
  BY DEF Typed, DataOK
<1>6. rt[l].gone = rt[l].dev => \A d \in Devices : Names(rt[l].dev, d) => seen[d] <= rt[l].since
  BY DEF GoneOK
<1> QED
  BY <1>2, <1>3, <1>4, <1>5, <1>6

\* The scan keeps the notes.
LEMMA ReconcileGone == ASSUME Typed, GoneOK, NEW order \in Orders, Reconcile(order) PROVE GoneOK'
<1>1. PICK m, b, f, x, y, z : ScanMade(m, b, f, x, y, z)
  BY ScanTells, Zenon
<1>2. /\ Made(m, b, f) /\ m \in [LinkIds -> LinkRecord] /\ rt' = f
      /\ left' = {l \in left : f[l].dev = None \/ (f[l].gone # None /\ f[l].since # now)}
  BY <1>1, Zenon DEF ScanMade
<1>3. seen' = [d \in Devices |-> IF d \in bus THEN now ELSE seen[d]]
  BY Zenon DEF Reconcile
<1> SUFFICES ASSUME NEW l \in LinkIds, l \notin left'
             PROVE  /\ f[l].dev = None => f[l].gone = None
                    /\ f[l].dev # None /\ f[l].gone = f[l].dev =>
                         \A d \in Devices : Names(f[l].dev, d) => seen'[d] <= f[l].since
  BY <1>2 DEF GoneOK, Names
<1>4. \A d \in Devices : seen[d] \in Nat /\ now \in Nat /\ seen[d] <= now /\ seen'[d] <= now
  BY <1>3, LinksAssumption DEF Typed, DataOK
<1>5. CASE l \in left
  BY <1>2, <1>4, <1>5
<1>6. CASE l \notin left
  <2>1. m[l] = Matched(l, rt[l]) /\ m[l].dev = rt[l].dev
        /\ now \in 0..MaxNow /\ rt[l] \in LinkRecord
    BY <1>2, MadeOfLink DEF Made, Typed, DataOK
  <2>2. rt[l].dev = None => m[l].gone = None
    BY <1>6, <2>1, MatchedDoes DEF GoneOK
  <2>3. b[l] # m[l] => /\ m[l].dev = None /\ b[l].dev \in bus /\ b[l].gone = m[l].gone
    BY <1>2 DEF Made, Bound
  <2>4. f[l] # b[l] => f[l].gone = None /\ f[l].dev \in bus
    BY <1>2 DEF Made, Rebound
  <2>5. None \notin bus
    BY LinksAssumption DEF Typed, DataOK
  <2>6. CASE f[l] # b[l]
    BY <2>4, <2>5, <2>6
  <2>7. CASE f[l] = b[l] /\ b[l] # m[l]
    BY <2>1, <2>2, <2>3, <2>5, <2>7
  <2>8. CASE f[l] = m[l]
    <3>1. CASE rt[l].dev = None
      BY <2>1, <2>2, <2>8, <3>1
    <3>2. CASE rt[l].dev # None /\ m[l].gone = rt[l].dev
      <4>1. \A d \in Devices : Names(rt[l].dev, d) => seen[d] <= m[l].since /\ d \notin bus
        BY <1>6, <2>1, <3>2, MatchedGone
      <4>2. \A d \in Devices : d \notin bus => seen'[d] = seen[d]
        BY <1>3
      <4> QED
        BY <2>1, <2>8, <3>2, <4>1, <4>2
    <3>3. CASE rt[l].dev # None /\ m[l].gone # rt[l].dev
      BY <2>1, <2>8, <3>3
    <3> QED
      BY <3>1, <3>2, <3>3
  <2> QED
    BY <2>6, <2>7, <2>8
<1> QED
  BY <1>5, <1>6

\* The start, and every start again: no notes.
LEMMA NoNotes ==
  ASSUME NEW rows \in [LinkIds -> LinkRow], NEW n
  PROVE  LET r == [l \in LinkIds |-> Record(rows[l], l \in n)]
         IN \A l \in LinkIds : r[l].gone = None
  BY DEF Record

\* Every step keeps the notes.
LEMMA NextGone == IInv /\ Typed /\ GoneOK /\ [Next]_vars => GoneOK'
<1> SUFFICES ASSUME IInv, Typed, GoneOK, [Next]_vars PROVE GoneOK'
  OBVIOUS
<1>1. CASE Scans
  <2>1. ASSUME NEW order \in Orders, Reconcile(order) PROVE GoneOK'
    BY <2>1, ReconcileGone
  <2>2. CASE Fire \/ FireStarts \/ ScanEnds
    <3>1. UNCHANGED <<rt, left, seen>>
      BY <2>2, Zenon DEF Fire, FireStarts, ScanEnds
    <3> QED
      BY <3>1, GoneStays
  <2> QED
    BY <1>1, <2>1, <2>2 DEF Scans
<1>2. ASSUME NEW h \in Handlers, Calls(h) PROVE GoneOK'
  <2>1. PICK l \in budget.links :
          \/ \E on \in BOOLEAN : Switch(h, l, on)
          \/ l \in needs /\ \E dev \in Ids : Bind(h, l, dev)
          \/ \E on \in BOOLEAN, dev \in Ids : (l \notin needs => dev = None) /\ Put(h, l, Row(on, dev))
    BY <1>2 DEF Calls
  <2>2. l \in LinkIds
    BY DEF IInv, ShapeOK
  <2>3. ASSUME NEW on \in BOOLEAN, Switch(h, l, on) PROVE GoneOK'
    BY <2>3, GoneStays DEF Switch
  <2>4. ASSUME NEW dev \in Ids, Bind(h, l, dev) PROVE GoneOK'
    <3>1. Rewritten(l, rt[l].on, dev, IF dev = None THEN "unbound" ELSE "offline")
      BY <2>2, <2>4, BindDoes
    <3>2. Rebinds(l, dev) /\ UNCHANGED seen
      BY <2>4, Zenon DEF Bind
    <3> QED
      BY <2>2, <3>1, <3>2, GoneRewritten
  <2>5. ASSUME NEW on, NEW dev, Put(h, l, Row(on, dev)) PROVE GoneOK'
    <3>1. UNCHANGED <<rt, left, seen>>
      BY <2>5, Zenon DEF Put
    <3> QED
      BY <3>1, GoneStays
  <2> QED
    BY <2>1, <2>3, <2>4, <2>5
<1>3. ASSUME NEW h \in Handlers, Handles(h) PROVE GoneOK'
  <2>1. CASE SwitchRow(h) \/ SwitchWorker(h) \/ SwitchStarts(h) \/ BindSaves(h)
    <3>1. UNCHANGED <<rt, left, seen>>
      BY <2>1, Zenon DEF SwitchRow, SwitchWorker, SwitchStarts, BindSaves
    <3> QED
      BY <3>1, GoneStays
  <2>2. CASE SwitchRecord(h)
    <3>1. job[h].link \in LinkIds
      BY <2>2, CallHas DEF SwitchRecord
    <3>2. Rebinds(job[h].link, job[h].row.dev) /\ UNCHANGED seen
      BY <2>2, Zenon DEF SwitchRecord
    <3> QED
      BY <2>2, <3>1, <3>2, SwitchRecordDoes, GoneRewritten
  <2>3. CASE PutRecord(h)
    <3>1. job[h].link \in LinkIds
      BY <2>3, CallHas DEF PutRecord
    <3>2. Rebinds(job[h].link, job[h].row.dev) /\ UNCHANGED seen
      BY <2>3, Zenon DEF PutRecord
    <3> QED
      BY <2>3, <3>1, <3>2, PutRecordDoes, GoneRewritten
  <2> QED
    BY <1>3, <2>1, <2>2, <2>3 DEF Handles
<1>4. CASE Restart
  <2>1. rt' = [l \in LinkIds |-> Record(db[l], l \in needs)]
    BY <1>4, Zenon DEF Restart
  <2>2. \A l \in LinkIds : rt'[l].gone = None
    BY <2>1, NoNotes DEF Typed, DataOK
  <2> QED
    BY <2>2 DEF GoneOK
<1>5. CASE DispatcherStart \/ Tick \/ (\E d \in Devices : Plug(d)) \/ UNCHANGED vars
  <2>1. UNCHANGED <<rt, left, seen>>
    BY <1>5, Zenon DEF DispatcherStart, Tick, Plug, vars
  <2> QED
    BY <2>1, GoneStays
<1> QED
  BY <1>1, <1>2, <1>3, <1>4, <1>5 DEF Next

\* At the start nothing is noted.
LEMMA InitGone == Init => GoneOK
<1> SUFFICES ASSUME Init PROVE GoneOK
  OBVIOUS
<1>1. PICK s \in Starts : rt = [l \in LinkIds |-> Record(s.rows[l], l \in s.needs)] /\ db = s.rows
  BY Zenon DEF Init
<1>2. Typed
  BY InitTyped
<1>3. \A l \in LinkIds : rt[l].gone = None
  BY <1>1, <1>2, NoNotes DEF Typed, DataOK
<1> QED
  BY <1>3 DEF GoneOK

\* Only the scan's reconcile sets the scan going.
LEMMA OnlyReconcile ==
  ASSUME IInv, [Next]_vars, job[Scanner] = Idle, job'[Scanner] # Idle
  PROVE  \E order \in Orders : Reconcile(order)
<1>1. job[Scanner].at = "idle"
  BY DEF Idle
<1>2. CASE Scans
  <2>1. ~Fire /\ ~FireStarts
    BY <1>1 DEF Fire, FireStarts
  <2>2. ~ScanEnds
    BY <1>1 DEF ScanEnds
  <2> QED
    BY <1>2, <2>1, <2>2 DEF Scans
<1>3. ASSUME NEW h \in Handlers, Calls(h) \/ Handles(h) PROVE FALSE
  <2>1. \E k : Goes(h, k)
    <3>1. CASE Calls(h)
      BY <3>1, Zenon DEF Calls, Switch, Bind, Put, Takes
    <3>2. CASE Handles(h)
      <4>1. CASE SwitchRow(h) \/ SwitchRecord(h) \/ BindSaves(h) \/ PutRecord(h)
        BY <4>1, Zenon DEF SwitchRow, SwitchRecord, BindSaves, PutRecord
      <4>2. CASE SwitchWorker(h)
        BY <4>2, Zenon DEF SwitchWorker, StartWorker, StopWorker
      <4>3. CASE SwitchStarts(h)
        BY <4>3, Zenon DEF SwitchStarts, WorkerStarted
      <4> QED
        BY <3>2, <4>1, <4>2, <4>3 DEF Handles
    <3> QED
      BY <1>3, <3>1, <3>2
  <2>2. PICK k : Goes(h, k)
    BY <2>1
  <2>3. h \in Goroutines /\ h # Scanner
    BY LinksAssumption DEF Goroutines
  <2>4. job'[Scanner] = job[Scanner]
    BY <2>2, <2>3, OthersStay, Apart DEF IInv
  <2> QED
    BY <2>4
<1>4. CASE Restart
  <2>1. job' = [g \in Handlers \cup {Scanner} |-> Idle]
    BY <1>4, Zenon DEF Restart
  <2> QED
    BY <2>1
<1>5. CASE DispatcherStart \/ Tick \/ (\E d \in Devices : Plug(d)) \/ UNCHANGED vars
  BY <1>5, Zenon DEF DispatcherStart, Tick, Plug, vars
<1> QED
  BY <1>2, <1>3, <1>4, <1>5 DEF Next

\* The scan never gives a device to a link when another is bound to its id
\* (auto-bind, rebindGoneLocked), for any number of links and devices and any
\* order in which the maps are walked.
THEOREM FreeDeviceSafety == Spec => ScanGivesFreeDevice
<1>1. IInv /\ Typed /\ [Next]_vars =>
        [\A l, m \in LinkIds :
           /\ l # m /\ job[Scanner] = Idle /\ job'[Scanner] # Idle
           /\ rt'[l].dev # rt[l].dev
           => rt'[m].dev # rt'[l].dev]_vars
  <2> SUFFICES ASSUME IInv, Typed, [Next]_vars, NEW l \in LinkIds, NEW k \in LinkIds, l # k,
                      job[Scanner] = Idle, job'[Scanner] # Idle, rt'[l].dev # rt[l].dev
               PROVE  rt'[k].dev # rt'[l].dev
    OBVIOUS
  <2>1. PICK order \in Orders : Reconcile(order)
    BY OnlyReconcile
  <2>2. PICK m, b, f, x, y, z : ScanMade(m, b, f, x, y, z)
    BY <2>1, ScanTells, Zenon
  <2>3. Made(m, b, f) /\ m \in [LinkIds -> LinkRecord] /\ rt' = f
    BY <2>2, Zenon DEF ScanMade
  <2>4. m[l].dev = rt[l].dev
    BY <2>3, MadeOfLink
  <2>5. /\ bus \subseteq Devices /\ None \notin Devices
        /\ b[l] # m[l] => b[l].dev \in bus /\ \A n \in LinkIds \ {l} : b[n].dev # b[l].dev
    BY <2>3, LinksAssumption DEF Made, Bound, Typed, DataOK
  <2>6. \A n \in LinkIds : f[n] # b[n] =>
          /\ f[n].dev \in bus
          /\ \A i \in LinkIds \ {n} : f[i] = b[i]
          /\ \A i \in LinkIds : ~Names(b[i].dev, f[n].dev)
    BY <2>3 DEF Made, Rebound
  <2>7. \A n, i \in LinkIds : f[n] # b[n] => b[i].dev # f[n].dev
    BY <2>5, <2>6 DEF Names
  <2>8. CASE f[l] # b[l]
    <3>1. f[k] = b[k]
      BY <2>6, <2>8
    <3> QED
      BY <2>3, <2>7, <2>8, <3>1
  <2>9. CASE f[l] = b[l]
    <3>1. b[l] # m[l]
      BY <2>3, <2>4, <2>9
    <3>2. b[k].dev # b[l].dev
      BY <2>5, <3>1
    <3>3. f[k] # b[k] => b[l].dev # f[k].dev
      BY <2>7
    <3> QED
      BY <2>3, <2>9, <3>2, <3>3
  <2> QED
    BY <2>8, <2>9
<1> QED
  BY <1>1, InitOK, NextOK, InitTyped, NextTyped, PTL DEF Spec, ScanGivesFreeDevice

\* A link gives up its device only when no scan of the last RebindAfter found it
\* (rebindGoneLocked), whatever is plugged, pulled, switched or restarted, unless
\* it was bound to another by hand while the note stood.
THEOREM GraceSafety == Spec => GraceKept
<1>1. IInv /\ Typed /\ GoneOK /\ [Next]_vars =>
        [\A l \in LinkIds \ left :
           /\ job[Scanner] = Idle /\ job'[Scanner] # Idle
           /\ rt[l].dev # None /\ rt'[l].dev # rt[l].dev
           => \A d \in Devices : Names(rt[l].dev, d) => now - seen[d] >= RebindAfter]_vars
  <2> SUFFICES ASSUME IInv, Typed, GoneOK, [Next]_vars, NEW l \in LinkIds, l \notin left,
                      job[Scanner] = Idle, job'[Scanner] # Idle, rt[l].dev # None,
                      rt'[l].dev # rt[l].dev, NEW d \in Devices, Names(rt[l].dev, d)
               PROVE  now - seen[d] >= RebindAfter
    OBVIOUS
  <2>1. PICK order \in Orders : Reconcile(order)
    BY OnlyReconcile
  <2>2. PICK m, b, f, x, y, z : ScanMade(m, b, f, x, y, z)
    BY <2>1, ScanTells, Zenon
  <2>3. Made(m, b, f) /\ m \in [LinkIds -> LinkRecord] /\ rt' = f
    BY <2>2, Zenon DEF ScanMade
  <2>4. m[l].dev = rt[l].dev /\ m[l] = Matched(l, rt[l])
    BY <2>3, MadeOfLink DEF Made
  <2>5. b[l] = m[l]
    BY <2>3, <2>4 DEF Made, Bound
  <2>6. f[l] # b[l]
    BY <2>3, <2>4, <2>5
  <2>7. b[l].gone = b[l].dev /\ now - b[l].since >= RebindAfter
    BY <2>3, <2>6 DEF Made, Rebound
  <2>8. seen[d] <= m[l].since
    BY <2>4, <2>5, <2>7, MatchedGone
  <2>9. now \in Nat /\ seen[d] \in Nat /\ RebindAfter \in Nat /\ m[l].since \in Nat
    BY <2>3, LinksAssumption DEF Typed, DataOK, LinkRecord
  <2> QED
    BY <2>5, <2>7, <2>8, <2>9
<1> QED
  BY <1>1, InitOK, NextOK, InitTyped, NextTyped, InitGone, NextGone, PTL DEF Spec, GraceKept

-----------------------------------------------------------------------------
(* Row, record and worker at rest.                                          *)

\* what handler h is at for link l
Work(h, l) == IF job[h] # Idle /\ job[h].link = l THEN job[h] ELSE Idle

\* a switch has written the row and not the record yet
Recording(w) == w.at = "record"

\* a switch on is about to see to the worker
Starting(w) == w.at = "start" \/ (w.at = "worker" /\ w.row.on)

\* the scan is about to tell that l is online
Told(l) ==
  /\ job[Scanner] # Idle
  /\ \E i \in 1..Len(job[Scanner].changes) : job[Scanner].changes[i] = <<l, "online">>

\* One handler at a time is at work on l; the row and the record agree on the
\* switch, but while the record is still to be written; what a handler will write
\* is what the row says; a link that is on and online has its worker, or somebody
\* is about to start it.
Rest(l) ==
  /\ \A g, h \in Handlers : Work(g, l) # Idle /\ Work(h, l) # Idle => g = h
  /\ (\E h \in Handlers : Recording(Work(h, l))) \/ db[l].on = rt[l].on
  /\ \A h \in Handlers :
       Work(h, l).at \in {"record", "worker", "put"} => Work(h, l).row.on = db[l].on
  /\ wired /\ rt[l].on /\ rt[l].state = "online" =>
       \/ l \in worker \/ Told(l)
       \/ \E h \in Handlers : Recording(Work(h, l)) \/ Starting(Work(h, l))

\* Handlers come after the start of the dispatcher.
UnwiredOK == ~wired => \A h \in Handlers : job[h] = Idle

\* "offline" is not the last the scan tells of a link that is online.
LastOK ==
  job[Scanner] # Idle =>
    \A l \in LinkIds, i \in 1..Len(job[Scanner].changes) :
      job[Scanner].changes[i] = <<l, "offline">> =>
        \/ rt[l].state # "online"
        \/ \E k \in 1..Len(job[Scanner].changes) : k > i /\ job[Scanner].changes[k] = <<l, "online">>

RestOK == UnwiredOK /\ LastOK /\ \A l \in LinkIds \ muddled : Rest(l)

\* Nothing that matters to l changed, or it went the good way.
LEMMA RestStays ==
  ASSUME NEW l, Rest(l), \A g \in Handlers : Work(g, l)' = Work(g, l),
         db'[l].on = db[l].on, rt'[l].on = rt[l].on, rt'[l].state = rt[l].state, wired' = wired,
         rt[l].on /\ rt[l].state = "online" /\ (l \in worker \/ Told(l)) =>
           \/ l \in worker' \/ Told(l)'
           \/ \E h \in Handlers : Recording(Work(h, l)) \/ Starting(Work(h, l))
  PROVE  Rest(l)'
<1>1. \A g, h \in Handlers : Work(g, l)' # Idle /\ Work(h, l)' # Idle => g = h
  BY DEF Rest
<1>2. (\E h \in Handlers : Recording(Work(h, l)')) \/ db'[l].on = rt'[l].on
  BY DEF Rest
<1>3. \A h \in Handlers : Work(h, l)'.at \in {"record", "worker", "put"} => Work(h, l)'.row.on = db'[l].on
  BY DEF Rest
<1>4. wired' /\ rt'[l].on /\ rt'[l].state = "online" =>
        \/ l \in worker' \/ Told(l)'
        \/ \E h \in Handlers : Recording(Work(h, l)') \/ Starting(Work(h, l)')
  BY DEF Rest
<1>5. (\A h \in Handlers : Recording(Work(h, l)') <=> Recording(Work(h, l))')
      /\ (\A h \in Handlers : Starting(Work(h, l)') <=> Starting(Work(h, l))')
  BY DEF Recording, Starting
<1> QED
  BY <1>1, <1>2, <1>3, <1>4, <1>5 DEF Rest

\* What is known of l when at most h is at work on it, ...
LEMMA OwnFacts ==
  ASSUME NEW l, Rest(l), NEW h \in Handlers, \A g \in Handlers : g # h => Work(g, l) = Idle
  PROVE  LET w == Work(h, l)
         IN /\ Recording(w) \/ db[l].on = rt[l].on
            /\ w.at \in {"record", "worker", "put"} => w.row.on = db[l].on
            /\ wired /\ rt[l].on /\ rt[l].state = "online" =>
                 l \in worker \/ Told(l) \/ Recording(w) \/ Starting(w)
<1>1. ~Recording(Idle) /\ ~Starting(Idle)
  BY DEF Recording, Starting, Idle
<1> QED
  BY <1>1 DEF Rest

\* ... and what has to be known of it afterwards.
LEMMA OwnRest ==
  ASSUME NEW l, NEW h \in Handlers, \A g \in Handlers : g # h => Work(g, l)' = Idle,
         NEW w, Work(h, l)' = w,
         Recording(w) \/ db'[l].on = rt'[l].on,
         w.at \in {"record", "worker", "put"} => w.row.on = db'[l].on,
         wired' /\ rt'[l].on /\ rt'[l].state = "online" =>
           l \in worker' \/ Told(l)' \/ Recording(w) \/ Starting(w)
  PROVE  Rest(l)'
<1>1. ~(Idle.at \in {"record", "worker", "put"})
  BY DEF Idle
<1>2. \A g, i \in Handlers : Work(g, l)' # Idle /\ Work(i, l)' # Idle => g = i
  OBVIOUS
<1>3. (\E g \in Handlers : Recording(Work(g, l)')) \/ db'[l].on = rt'[l].on
  OBVIOUS
<1>4. \A g \in Handlers : Work(g, l)'.at \in {"record", "worker", "put"} => Work(g, l)'.row.on = db'[l].on
  BY <1>1
<1>5. wired' /\ rt'[l].on /\ rt'[l].state = "online" =>
        \/ l \in worker' \/ Told(l)'
        \/ \E g \in Handlers : Recording(Work(g, l)') \/ Starting(Work(g, l)')
  OBVIOUS
<1>6. (\A g \in Handlers : Recording(Work(g, l)') <=> Recording(Work(g, l))')
      /\ (\A g \in Handlers : Starting(Work(g, l)') <=> Starting(Work(g, l))')
  BY DEF Recording, Starting
<1> QED
  BY <1>2, <1>3, <1>4, <1>5, <1>6 DEF Rest

\* A handler that works on l works on it alone.
LEMMA Alone ==
  ASSUME NEW l, Rest(l), NEW h \in Handlers, job[h] # Idle, job[h].link = l
  PROVE  Work(h, l) = job[h] /\ \A g \in Handlers : g # h => Work(g, l) = Idle
  BY DEF Rest, Work

\* Nobody works on a link that is not busy.
LEMMA NotBusy ==
  ASSUME NEW l, Busy(l) = {}
  PROVE  \A g \in Handlers : Work(g, l) = Idle
  BY DEF Busy, Work

\* A handler goes on: what the others are at, and itself for other links, is as
\* it was; the scan has its list.
LEMMA WorkMoves ==
  ASSUME IInv, NEW h \in Handlers, NEW k, Goes(h, k), NEW l,
         job[h] = Idle \/ job[h].link = l, k = Idle \/ k.link = l
  PROVE  /\ \A m : m # l => \A g \in Handlers : Work(g, m)' = Work(g, m)
         /\ \A g \in Handlers : g # h => Work(g, l)' = Work(g, l)
         /\ Work(h, l)' = k
         /\ job'[Scanner] = job[Scanner]
         /\ \A m : Told(m)' <=> Told(m)
<1>1. h \in Goroutines /\ h # Scanner
  BY LinksAssumption DEF Goroutines
<1>2. job'[h] = k /\ \A f \in Goroutines : f # h => job'[f] = job[f]
  BY <1>1, OthersStay DEF IInv
<1>3. job'[Scanner] = job[Scanner] /\ \A g \in Handlers : g # h => job'[g] = job[g]
  BY <1>1, <1>2, Apart DEF Goroutines
<1>4. \A m : \A g \in Handlers : g # h => Work(g, m)' = Work(g, m)
  BY <1>3 DEF Work
<1>5. Work(h, l)' = k
  BY <1>2 DEF Work
<1>6. \A m : m # l => Work(h, m)' = Idle /\ Work(h, m) = Idle
  BY <1>2 DEF Work
<1>7. \A m : Told(m)' <=> Told(m)
  BY <1>3 DEF Told
<1> QED
  BY <1>3, <1>4, <1>5, <1>6, <1>7

\* The scan goes on: the handlers are at what they were.
LEMMA WorkStays ==
  ASSUME IInv, NEW k, Goes(Scanner, k)
  PROVE  /\ job'[Scanner] = k
         /\ \A h \in Handlers : job'[h] = job[h]
         /\ \A m : \A g \in Handlers : Work(g, m)' = Work(g, m)
<1>1. job'[Scanner] = k /\ \A h \in Handlers : job'[h] = job[h]
  BY Apart, OthersStay DEF IInv, Goroutines
<1> QED
  BY <1>1 DEF Work

\* The scan's list stays, and no link it tells of comes online.
LEMMA LastStays ==
  ASSUME LastOK, Typed, job'[Scanner] = job[Scanner],
         \A l \in needs : rt'[l].state = "online" => rt[l].state = "online"
  PROVE  LastOK'
<1> SUFFICES ASSUME job[Scanner] # Idle, NEW l \in LinkIds, NEW i \in 1..Len(job[Scanner].changes),
                    job[Scanner].changes[i] = <<l, "offline">>, rt'[l].state = "online"
             PROVE  \E k \in 1..Len(job[Scanner].changes) : k > i /\ job[Scanner].changes[k] = <<l, "online">>
  BY DEF LastOK
<1>1. job[Scanner].changes \in Seq(Change)
  BY DEF Typed, ChangesOK
<1>2. <<l, "offline">> \in Change
  BY <1>1
<1>3. l \in needs
  BY <1>2 DEF Change
<1> QED
  BY <1>3 DEF LastOK

\* What is known of a link that a handler works on, alone.
LEMMA OwnBusy ==
  ASSUME RestOK, NEW l \in LinkIds, l \notin muddled, NEW h \in Handlers, job[h] # Idle, job[h].link = l
  PROVE  /\ \A g \in Handlers : g # h => Work(g, l) = Idle
         /\ Recording(job[h]) \/ db[l].on = rt[l].on
         /\ job[h].at \in {"record", "worker", "put"} => job[h].row.on = db[l].on
         /\ wired /\ rt[l].on /\ rt[l].state = "online" =>
              l \in worker \/ Told(l) \/ Recording(job[h]) \/ Starting(job[h])
<1>1. Rest(l)
  BY DEF RestOK
<1>2. Work(h, l) = job[h] /\ \A g \in Handlers : g # h => Work(g, l) = Idle
  BY <1>1, Alone
<1> QED
  BY <1>1, <1>2, OwnFacts

\* What is known of a link that nobody works on.
LEMMA OwnFree ==
  ASSUME RestOK, NEW l \in LinkIds, l \notin muddled, Busy(l) = {}
  PROVE  /\ \A g \in Handlers : Work(g, l) = Idle
         /\ db[l].on = rt[l].on
         /\ wired /\ rt[l].on /\ rt[l].state = "online" => l \in worker \/ Told(l)
<1>1. Rest(l)
  BY DEF RestOK
<1>2. \A g \in Handlers : Work(g, l) = Idle
  BY NotBusy
<1>3. ~Recording(Idle) /\ ~Starting(Idle)
  BY DEF Recording, Starting, Idle
<1> QED
  BY <1>1, <1>2, <1>3 DEF Rest

\* A handler's step on link l.
LEMMA HandlerRest ==
  ASSUME IInv, Typed, RestOK, NEW h \in Handlers, NEW k, Goes(h, k), NEW l \in LinkIds,
         job[h] = Idle \/ job[h].link = l, k = Idle \/ k.link = l,
         wired, wired' = wired, muddled \subseteq muddled',
         \A m \in LinkIds : m # l => /\ db'[m].on = db[m].on /\ rt'[m].on = rt[m].on
                                     /\ rt'[m].state = rt[m].state
                                     /\ m \in worker => m \in worker',
         l \in needs /\ rt'[l].state = "online" => rt[l].state = "online",
         l \notin muddled' =>
           /\ \A g \in Handlers : g # h => Work(g, l) = Idle
           /\ Recording(k) \/ db'[l].on = rt'[l].on
           /\ k.at \in {"record", "worker", "put"} => k.row.on = db'[l].on
           /\ rt'[l].on /\ rt'[l].state = "online" =>
                l \in worker' \/ Told(l) \/ Recording(k) \/ Starting(k)
  PROVE  RestOK'
<1>1. /\ \A m : m # l => \A g \in Handlers : Work(g, m)' = Work(g, m)
      /\ \A g \in Handlers : g # h => Work(g, l)' = Work(g, l)
      /\ Work(h, l)' = k
      /\ job'[Scanner] = job[Scanner]
      /\ \A m : Told(m)' <=> Told(m)
  BY WorkMoves, ZenonT(60)
<1>2. UnwiredOK'
  BY DEF UnwiredOK
<1>3. LastOK'
  <2>1. \A m \in needs : rt'[m].state = "online" => rt[m].state = "online"
    BY DEF Typed, DataOK
  <2> QED
    BY <1>1, <2>1, LastStays DEF RestOK
<1>4. ASSUME NEW m \in LinkIds, m \notin muddled' PROVE Rest(m)'
  <2>1. Rest(m)
    BY <1>4 DEF RestOK
  <2>2. CASE m # l
    BY <1>1, <2>1, <2>2, RestStays
  <2>3. CASE m = l
    BY <1>1, <1>4, <2>3, OwnRest
  <2> QED
    BY <2>2, <2>3
<1> QED
  BY <1>2, <1>3, <1>4 DEF RestOK

\* A handler at work: the dispatcher runs.
LEMMA AtWork == ASSUME RestOK, NEW h \in Handlers, job[h] # Idle PROVE wired
  BY DEF RestOK, UnwiredOK

\* POST enable or disable is taken up.
LEMMA SwitchRest ==
  ASSUME IInv, Typed, RestOK, NEW h \in Handlers, NEW l \in LinkIds, NEW on, Switch(h, l, on)
  PROVE  RestOK'
<1>1. PICK k : k = [at |-> "write", link |-> l, row |-> Row(on, db[l].dev)]
  OBVIOUS
<1>2. Goes(h, k) /\ job[h] = Idle /\ wired /\ UNCHANGED <<db, rt, worker, wired>>
  BY <1>1, Zenon DEF Switch, Takes
<1>3. muddled' = IF Busy(l) # {} THEN muddled \cup {l} ELSE muddled
  BY DEF Switch
<1>4. k.link = l /\ k.at = "write"
  BY <1>1
<1>5. ASSUME l \notin muddled'
      PROVE  /\ \A g \in Handlers : g # h => Work(g, l) = Idle
             /\ db[l].on = rt[l].on
             /\ rt[l].on /\ rt[l].state = "online" => l \in worker \/ Told(l)
  <2>1. l \notin muddled /\ Busy(l) = {}
    BY <1>3, <1>5
  <2> QED
    BY <1>2, <2>1, OwnFree
<1>6. muddled \subseteq muddled'
  BY <1>3
<1> QED
  BY <1>2, <1>4, <1>5, <1>6, HandlerRest

\* The switch writes the row: the record is behind.
LEMMA SwitchRowRest == ASSUME IInv, Typed, RestOK, NEW h \in Handlers, SwitchRow(h) PROVE RestOK'
<1>1. PICK k : k = [job[h] EXCEPT !.at = "record"]
  OBVIOUS
<1>2. PICK l : l = job[h].link
  OBVIOUS
<1>3. /\ job[h].at = "write" /\ WriteRow(l, job[h].row) /\ Goes(h, k)
      /\ UNCHANGED <<rt, worker, wired, muddled>>
  BY <1>1, <1>2, Zenon DEF SwitchRow
<1>4. job[h] # Idle /\ l \in LinkIds /\ job[h].row \in LinkRow
  BY <1>2, <1>3, CallHas
<1>5. k.at = "record" /\ k.link = l /\ k.row = job[h].row
  BY <1>1, <1>2, <1>3, NextCall
<1>6. db'[l] = job[h].row /\ \A m \in LinkIds \ {l} : db'[m] = db[m]
  BY <1>3, <1>4, RowIsWritten DEF Typed, DataOK, RowWritten
<1>7. l \notin muddled => \A g \in Handlers : g # h => Work(g, l) = Idle
  BY <1>2, <1>4, OwnBusy
<1>8. Recording(k) /\ wired
  BY <1>4, <1>5, AtWork DEF Recording
<1> QED
  BY <1>2, <1>3, <1>4, <1>5, <1>6, <1>7, <1>8, HandlerRest

\* The switch changes the record: the worker is behind.
LEMMA SwitchRecordRest == ASSUME IInv, Typed, RestOK, NEW h \in Handlers, SwitchRecord(h) PROVE RestOK'
<1>1. PICK k : k = [job[h] EXCEPT !.at = "worker"]
  OBVIOUS
<1>2. PICK l : l = job[h].link
  OBVIOUS
<1>3. job[h].at = "record" /\ Goes(h, k) /\ UNCHANGED <<db, worker, wired, muddled>>
  BY <1>1, Zenon DEF SwitchRecord
<1>4. job[h] # Idle /\ l \in LinkIds
  BY <1>2, <1>3, CallHas
<1>5. k.at = "worker" /\ k.link = l /\ k.row = job[h].row
  BY <1>1, <1>2, <1>3, NextCall
<1>6. /\ rt'[l].on = job[h].row.on
      /\ l \in needs => rt'[l].state = rt[l].state
      /\ \A m \in LinkIds \ {l} : rt'[m] = rt[m]
  BY <1>2, SwitchRecordDoes DEF Rewritten
<1>7. l \notin muddled => /\ \A g \in Handlers : g # h => Work(g, l) = Idle
                          /\ job[h].row.on = db[l].on
  BY <1>2, <1>3, <1>4, OwnBusy
<1>8. wired /\ (k.row.on => Starting(k))
  BY <1>4, <1>5, AtWork DEF Starting
<1> QED
  BY <1>2, <1>3, <1>4, <1>5, <1>6, <1>7, <1>8, HandlerRest

\* The worker follows the switch.
LEMMA SwitchWorkerRest == ASSUME IInv, Typed, RestOK, NEW h \in Handlers, SwitchWorker(h) PROVE RestOK'
<1>1. PICK go : go = [job[h] EXCEPT !.at = "start"]
  OBVIOUS
<1>2. PICK l : l = job[h].link
  OBVIOUS
<1>3. job[h].at = "worker" /\ UNCHANGED <<db, rt, wired, muddled>>
  BY Zenon DEF SwitchWorker
<1>4. \/ job[h].row.on /\ db[l].on /\ Goes(h, go) /\ worker' = worker
      \/ job[h].row.on /\ ~db[l].on /\ Goes(h, Idle) /\ worker' = worker
      \/ ~job[h].row.on /\ Goes(h, Idle) /\ worker' = worker \ {l}
  BY <1>1, <1>2, Zenon DEF SwitchWorker, StartWorker, StopWorker
<1>5. job[h] # Idle /\ l \in LinkIds
  BY <1>2, <1>3, CallHas
<1>6. go.at = "start" /\ go.link = l /\ Starting(go)
  BY <1>1, <1>2, <1>3, NextCall DEF Starting
<1>7. ~Recording(job[h])
  BY <1>3 DEF Recording
<1>8. l \notin muddled => /\ \A g \in Handlers : g # h => Work(g, l) = Idle
                          /\ db[l].on = rt[l].on
                          /\ job[h].row.on = db[l].on
  BY <1>2, <1>3, <1>5, <1>7, OwnBusy
<1>9. wired
  BY <1>5, AtWork
<1>10. CASE Goes(h, go) /\ worker' = worker
  BY <1>2, <1>3, <1>5, <1>6, <1>8, <1>9, <1>10, HandlerRest
<1>11. CASE job[h].row.on /\ ~db[l].on /\ Goes(h, Idle) /\ worker' = worker
  <2>1. l \in muddled
    BY <1>8, <1>11
  <2> QED
    BY <1>2, <1>3, <1>5, <1>9, <1>11, <2>1, HandlerRest
<1>12. CASE ~job[h].row.on /\ Goes(h, Idle) /\ worker' = worker \ {l}
  <2>1. ~(Idle.at \in {"record", "worker", "put"})
    BY DEF Idle
  <2>2. l \notin muddled => ~rt[l].on
    BY <1>8, <1>12
  <2> QED
    BY <1>2, <1>3, <1>5, <1>8, <1>9, <1>12, <2>1, <2>2, HandlerRest
<1> QED
  BY <1>4, <1>10, <1>11, <1>12

\* A switch on registers its worker.
LEMMA SwitchStartsRest == ASSUME IInv, Typed, RestOK, NEW h \in Handlers, SwitchStarts(h) PROVE RestOK'
<1>1. PICK l : l = job[h].link
  OBVIOUS
<1>2. /\ job[h].at = "start" /\ Goes(h, Idle) /\ worker' = worker \cup {l}
      /\ UNCHANGED <<db, rt, wired, muddled>>
  BY <1>1, Zenon DEF SwitchStarts, WorkerStarted
<1>3. job[h] # Idle /\ l \in LinkIds
  BY <1>1, <1>2, CallHas
<1>4. ~Recording(job[h])
  BY <1>2 DEF Recording
<1>5. l \notin muddled => /\ \A g \in Handlers : g # h => Work(g, l) = Idle
                          /\ db[l].on = rt[l].on
  BY <1>1, <1>3, <1>4, OwnBusy
<1>6. ~(Idle.at \in {"record", "worker", "put"}) /\ wired
  BY <1>3, AtWork DEF Idle
<1> QED
  BY <1>1, <1>2, <1>3, <1>5, <1>6, HandlerRest

\* POST bind or unbind changes the record: the link is not online.
LEMMA BindRest ==
  ASSUME IInv, Typed, RestOK, NEW h \in Handlers, NEW l \in LinkIds, NEW dev \in Ids, Bind(h, l, dev)
  PROVE  RestOK'
<1>1. PICK k : k = [at |-> "save", link |-> l]
  OBVIOUS
<1>2. Goes(h, k) /\ job[h] = Idle /\ wired /\ UNCHANGED <<db, worker, wired>>
  BY <1>1, Zenon DEF Bind, Takes
<1>3. muddled' = IF Busy(l) # {} THEN muddled \cup {l} ELSE muddled
  BY Zenon DEF Bind
<1>4. k.link = l /\ k.at = "save"
  BY <1>1
<1>5. /\ rt'[l].on = rt[l].on /\ rt'[l].state # "online"
      /\ \A m \in LinkIds \ {l} : rt'[m] = rt[m]
  BY BindDoes DEF Rewritten
<1>6. ASSUME l \notin muddled'
      PROVE  /\ \A g \in Handlers : g # h => Work(g, l) = Idle
             /\ db[l].on = rt[l].on
  <2>1. l \notin muddled /\ Busy(l) = {}
    BY <1>3, <1>6
  <2> QED
    BY <2>1, OwnFree
<1>7. muddled \subseteq muddled'
  BY <1>3
<1> QED
  BY <1>2, <1>4, <1>5, <1>6, <1>7, HandlerRest

\* The record is stored.
LEMMA BindSavesRest == ASSUME IInv, Typed, RestOK, NEW h \in Handlers, BindSaves(h) PROVE RestOK'
<1>1. PICK l : l = job[h].link
  OBVIOUS
<1>2. /\ job[h].at = "save" /\ WriteRow(l, Row(rt[l].on, rt[l].dev)) /\ Goes(h, Idle)
      /\ UNCHANGED <<rt, worker, wired, muddled>>
  BY <1>1, Zenon DEF BindSaves
<1>3. job[h] # Idle /\ l \in LinkIds
  BY <1>1, <1>2, SaveHas
<1>4. Row(rt[l].on, rt[l].dev) \in LinkRow /\ Row(rt[l].on, rt[l].dev).on = rt[l].on
  BY <1>3 DEF Row, LinkRow, LinkRecord, Typed, DataOK
<1>5. db'[l].on = rt[l].on /\ \A m \in LinkIds \ {l} : db'[m] = db[m]
  BY <1>2, <1>3, <1>4, RowIsWritten DEF Typed, DataOK, RowWritten
<1>6. ~Recording(job[h]) /\ ~Starting(job[h])
  BY <1>2 DEF Recording, Starting
<1>7. wired
  BY <1>3, AtWork
<1>8. l \notin muddled => /\ \A g \in Handlers : g # h => Work(g, l) = Idle
                          /\ rt[l].on /\ rt[l].state = "online" => l \in worker \/ Told(l)
  BY <1>1, <1>3, <1>6, <1>7, OwnBusy
<1>9. ~(Idle.at \in {"record", "worker", "put"})
  BY DEF Idle
<1> QED
  BY <1>1, <1>2, <1>3, <1>5, <1>7, <1>8, <1>9, HandlerRest

\* PUT replaces the row, with the switch as the record has it or with history.
LEMMA PutRest ==
  ASSUME IInv, Typed, RestOK, NEW h \in Handlers, NEW l \in LinkIds, NEW row \in LinkRow, Put(h, l, row)
  PROVE  RestOK'
<1>1. PICK k : k = [at |-> "put", link |-> l, row |-> row]
  OBVIOUS
<1>2. Goes(h, k) /\ job[h] = Idle /\ wired /\ WriteRow(l, row) /\ UNCHANGED <<rt, worker, wired>>
  BY <1>1, Zenon DEF Put, Takes
<1>3. muddled' = IF Busy(l) # {} \/ row.on # rt[l].on THEN muddled \cup {l} ELSE muddled
  BY Zenon DEF Put
<1>4. k.link = l /\ k.at = "put" /\ k.row = row
  BY <1>1
<1>5. db'[l] = row /\ \A m \in LinkIds \ {l} : db'[m] = db[m]
  BY <1>2, RowIsWritten DEF Typed, DataOK, RowWritten
<1>6. ASSUME l \notin muddled'
      PROVE  /\ \A g \in Handlers : g # h => Work(g, l) = Idle
             /\ row.on = rt[l].on
             /\ rt[l].on /\ rt[l].state = "online" => l \in worker \/ Told(l)
  <2>1. l \notin muddled /\ Busy(l) = {} /\ row.on = rt[l].on
    BY <1>3, <1>6
  <2> QED
    BY <1>2, <2>1, OwnFree
<1>7. muddled \subseteq muddled'
  BY <1>3
<1> QED
  BY <1>2, <1>4, <1>5, <1>6, <1>7, HandlerRest

\* PUT replaces the record.
LEMMA PutRecordRest == ASSUME IInv, Typed, RestOK, NEW h \in Handlers, PutRecord(h) PROVE RestOK'
<1>1. PICK l : l = job[h].link
  OBVIOUS
<1>2. job[h].at = "put" /\ Goes(h, Idle) /\ UNCHANGED <<db, worker, wired, muddled>>
  BY Zenon DEF PutRecord
<1>3. job[h] # Idle /\ l \in LinkIds
  BY <1>1, <1>2, CallHas
<1>4. /\ rt'[l].on = job[h].row.on
      /\ rt'[l].state = "online" => rt[l].state = "online"
      /\ \A m \in LinkIds \ {l} : rt'[m] = rt[m]
  BY <1>1, PutRecordDoes DEF Rewritten
<1>5. ~Recording(job[h]) /\ ~Starting(job[h])
  BY <1>2 DEF Recording, Starting
<1>6. wired
  BY <1>3, AtWork
<1>7. l \notin muddled => /\ \A g \in Handlers : g # h => Work(g, l) = Idle
                          /\ db[l].on = rt[l].on /\ job[h].row.on = db[l].on
                          /\ rt[l].on /\ rt[l].state = "online" => l \in worker \/ Told(l)
  BY <1>1, <1>2, <1>3, <1>5, <1>6, OwnBusy
<1>8. ~(Idle.at \in {"record", "worker", "put"})
  BY DEF Idle
<1> QED
  BY <1>1, <1>2, <1>3, <1>4, <1>6, <1>7, <1>8, HandlerRest

\* Three lists one after the other.
LEMMA ThreeLists ==
  ASSUME NEW S, NEW x \in Seq(S), NEW y \in Seq(S), NEW z \in Seq(S), NEW L, L = x \o y \o z
  PROVE  /\ L \in Seq(S) /\ Len(L) = Len(x) + Len(y) + Len(z)
         /\ \A i \in 1..Len(x) : L[i] = x[i]
         /\ \A i \in 1..Len(y) : L[Len(x) + i] = y[i]
         /\ \A i \in 1..Len(z) : L[Len(x) + Len(y) + i] = z[i]
<1>1. PICK w : w = x \o y
  OBVIOUS
<1>2. PICK n, p, q : n = Len(x) /\ p = Len(y) /\ q = Len(z)
  OBVIOUS
<1>3. n \in Nat /\ p \in Nat /\ q \in Nat
  BY <1>2
<1>4. /\ w \in Seq(S) /\ Len(w) = n + p
      /\ \A i \in 1..(n + p) : w[i] = IF i <= n THEN x[i] ELSE y[i - n]
  BY <1>1, <1>2, ConcatProperties
<1>5. /\ L \in Seq(S) /\ Len(L) = n + p + q
      /\ \A i \in 1..(n + p + q) : L[i] = IF i <= n + p THEN w[i] ELSE z[i - (n + p)]
  <2>1. L = w \o z /\ Len(w) = n + p /\ Len(z) = q
    BY <1>1, <1>2, <1>4
  <2>2. w \in Seq(S) /\ z \in Seq(S)
    BY <1>4
  <2>3. /\ w \o z \in Seq(S) /\ Len(w \o z) = Len(w) + Len(z)
        /\ \A i \in 1..(Len(w) + Len(z)) : (w \o z)[i] = IF i <= Len(w) THEN w[i] ELSE z[i - Len(w)]
    BY <2>2, ConcatProperties
  <2> QED
    BY <2>1, <2>3, Zenon
<1>6. \A i \in 1..n : L[i] = x[i]
  BY <1>3, <1>4, <1>5
<1>7. ASSUME NEW i \in 1..p PROVE L[n + i] = y[i]
  <2>1. n + i \in 1..(n + p) /\ n + i \in 1..(n + p + q) /\ n + i <= n + p /\ ~(n + i <= n) /\ (n + i) - n = i
    BY <1>3
  <2>2. w[n + i] = y[(n + i) - n]
    BY <1>4, <2>1
  <2> QED
    BY <1>5, <2>1, <2>2
<1>8. ASSUME NEW i \in 1..q PROVE L[n + p + i] = z[i]
  <2>1. n + p + i \in 1..(n + p + q) /\ ~(n + p + i <= n + p) /\ (n + p + i) - (n + p) = i
    BY <1>3
  <2>2. L[n + p + i] = z[(n + p + i) - (n + p)]
    BY <1>5, <2>1
  <2> QED
    BY <2>1, <2>2
<1> QED
  BY <1>2, <1>5, <1>6, <1>7, <1>8

\* Where an entry of the three lists comes from.
LEMMA OneOfThree ==
  ASSUME NEW n \in Nat, NEW p \in Nat, NEW q \in Nat, NEW i \in 1..(n + p + q)
  PROVE  \/ i \in 1..n
         \/ i - n \in 1..p /\ i = n + (i - n)
         \/ i - n - p \in 1..q /\ i = n + p + (i - n - p)
  OBVIOUS

\* A list that tells of each link the scan brought online, and last of all that it is.
Announces(L, m, b, f) ==
  /\ L \in Seq(Change)
  /\ \A l \in LinkIds : (l \in Changed(m) \/ l \in Moved(m, b) \/ l \in Moved(b, f))
       /\ f[l].state = "online" => \E k \in 1..Len(L) : L[k] = <<l, "online">>
  /\ \A l \in LinkIds : \A i \in 1..Len(L) : L[i] = <<l, "offline">>
       /\ f[l].state = "online" => \E k \in 1..Len(L) : k > i /\ L[k] = <<l, "online">>

\* The scan's list, as the scan made it: who is told of, and in which order.
LEMMA ListMade ==
  ASSUME Typed, NEW m, NEW b, NEW f, NEW x, NEW y, NEW z, ScanMade(m, b, f, x, y, z),
         NEW L, L = x \o y \o z
  PROVE  Announces(L, m, b, f)
<1>1. /\ Made(m, b, f) /\ m \in [LinkIds -> LinkRecord]
      /\ Tells(x, Changed(m), [l \in LinkIds |-> m[l].state])
      /\ Tells(y, Moved(m, b), [l \in LinkIds |-> b[l].state])
      /\ Tells(z, Moved(b, f), [l \in LinkIds |-> f[l].state])
  BY Zenon DEF ScanMade
<1>2. x \in Seq(Change) /\ y \in Seq(Change) /\ z \in Seq(Change)
  BY <1>1 DEF Tells
<1>3. PICK n, p, q : n = Len(x) /\ p = Len(y) /\ q = Len(z)
  OBVIOUS
<1>4. n \in Nat /\ p \in Nat /\ q \in Nat
  BY <1>2, <1>3
<1>5. /\ L \in Seq(Change) /\ Len(L) = n + p + q
      /\ \A i \in 1..n : L[i] = x[i]
      /\ \A i \in 1..p : L[n + i] = y[i]
      /\ \A i \in 1..q : L[n + p + i] = z[i]
  BY <1>2, <1>3, ThreeLists
<1>6. \A l \in LinkIds : l \in Changed(m) => \E i \in 1..n : x[i] = <<l, m[l].state>>
  BY <1>1, <1>3 DEF Tells
<1>7. \A l \in LinkIds : l \in Moved(m, b) => \E i \in 1..p : y[i] = <<l, "online">>
  <2> SUFFICES ASSUME NEW l \in LinkIds, l \in Moved(m, b) PROVE \E i \in 1..p : y[i] = <<l, "online">>
    OBVIOUS
  <2>1. b[l].state = "online"
    BY <1>1, MadeOfLink
  <2> QED
    BY <1>1, <1>3, <2>1 DEF Tells
<1>8. \A l \in LinkIds : l \in Moved(b, f) => \E i \in 1..q : z[i] = <<l, "online">>
  <2> SUFFICES ASSUME NEW l \in LinkIds, l \in Moved(b, f) PROVE \E i \in 1..q : z[i] = <<l, "online">>
    OBVIOUS
  <2>1. f[l].state = "online"
    BY <1>1, MadeOfLink
  <2> QED
    BY <1>1, <1>3, <2>1 DEF Tells
<1>9. ASSUME NEW l \in LinkIds, l \in Moved(m, b) \/ l \in Moved(b, f)
      PROVE  \E k \in 1..Len(L) : k > n /\ L[k] = <<l, "online">>
  <2>1. CASE l \in Moved(m, b)
    <3>1. PICK i \in 1..p : y[i] = <<l, "online">>
      BY <1>7, <2>1
    <3>2. n + i \in 1..Len(L) /\ n + i > n /\ L[n + i] = y[i]
      BY <1>4, <1>5
    <3> QED
      BY <3>1, <3>2
  <2>2. CASE l \in Moved(b, f)
    <3>1. PICK i \in 1..q : z[i] = <<l, "online">>
      BY <1>8, <2>2
    <3>2. n + p + i \in 1..Len(L) /\ n + p + i > n /\ L[n + p + i] = z[i]
      BY <1>4, <1>5
    <3> QED
      BY <3>1, <3>2
  <2> QED
    BY <1>9, <2>1, <2>2
<1>10. \A l \in LinkIds : l \notin Moved(m, b) /\ l \notin Moved(b, f) => f[l] = m[l]
  BY <1>1, MadeOfLink
<1>11. ASSUME NEW l \in LinkIds, l \in Changed(m) \/ l \in Moved(m, b) \/ l \in Moved(b, f),
              f[l].state = "online"
       PROVE  \E k \in 1..Len(L) : L[k] = <<l, "online">>
  <2>1. CASE l \in Moved(m, b) \/ l \in Moved(b, f)
    BY <1>9, <2>1
  <2>2. CASE l \notin Moved(m, b) /\ l \notin Moved(b, f)
    <3>1. PICK i \in 1..n : x[i] = <<l, m[l].state>>
      BY <1>6, <1>11, <2>2
    <3>2. m[l].state = "online"
      BY <1>10, <1>11, <2>2
    <3>3. i \in 1..Len(L) /\ L[i] = x[i]
      BY <1>4, <1>5, SMTT(30)
    <3> QED
      BY <3>1, <3>2, <3>3
  <2> QED
    BY <2>1, <2>2
<1>12. \A l \in LinkIds : \A i \in 1..p : y[i] # <<l, "offline">>
  <2> SUFFICES ASSUME NEW l \in LinkIds, NEW i \in 1..p, y[i] = <<l, "offline">> PROVE FALSE
    OBVIOUS
  <2>1. y[i][1] = l /\ y[i][2] = "offline"
    OBVIOUS
  <2>2. l \in Moved(m, b) /\ y[i] = <<l, b[l].state>>
    BY <1>1, <1>3, <2>1 DEF Tells
  <2>3. b[l].state = "online"
    BY <1>1, <2>2, MadeOfLink
  <2> QED
    BY <2>1, <2>2, <2>3
<1>13. \A l \in LinkIds : \A i \in 1..q : z[i] # <<l, "offline">>
  <2> SUFFICES ASSUME NEW l \in LinkIds, NEW i \in 1..q, z[i] = <<l, "offline">> PROVE FALSE
    OBVIOUS
  <2>1. z[i][1] = l /\ z[i][2] = "offline"
    OBVIOUS
  <2>2. l \in Moved(b, f) /\ z[i] = <<l, f[l].state>>
    BY <1>1, <1>3, <2>1 DEF Tells
  <2>3. f[l].state = "online"
    BY <1>1, <2>2, MadeOfLink
  <2> QED
    BY <2>1, <2>2, <2>3
<1>14. ASSUME NEW l \in LinkIds, NEW i \in 1..Len(L), L[i] = <<l, "offline">>, f[l].state = "online"
       PROVE  \E k \in 1..Len(L) : k > i /\ L[k] = <<l, "online">>
  <2>1. i \in 1..n
    <3>1. \/ i \in 1..n
          \/ i - n \in 1..p /\ i = n + (i - n)
          \/ i - n - p \in 1..q /\ i = n + p + (i - n - p)
      BY <1>4, <1>5, OneOfThree
    <3>2. ASSUME i - n \in 1..p, i = n + (i - n) PROVE FALSE
      <4>1. PICK e : e = i - n
        OBVIOUS
      <4>2. e \in 1..p /\ i = n + e
        BY <3>2, <4>1
      <4>3. L[n + e] = y[e]
        BY <1>5, <4>2
      <4>4. y[e] = <<l, "offline">>
        BY <1>14, <4>2, <4>3
      <4> QED
        BY <1>12, <4>2, <4>4
    <3>3. ASSUME i - n - p \in 1..q, i = n + p + (i - n - p) PROVE FALSE
      <4>1. PICK e : e = i - n - p
        OBVIOUS
      <4>2. e \in 1..q /\ i = n + p + e
        BY <3>3, <4>1
      <4>3. L[n + p + e] = z[e]
        BY <1>5, <4>2
      <4>4. z[e] = <<l, "offline">>
        BY <1>14, <4>2, <4>3
      <4> QED
        BY <1>13, <4>2, <4>4
    <3> QED
      BY <3>1, <3>2, <3>3
  <2>2. x[i] = <<l, "offline">>
    BY <1>5, <1>14, <2>1
  <2>3. x[i][1] = l /\ x[i][2] = "offline"
    BY <2>2
  <2>4. x[i] = <<l, m[l].state>>
    BY <1>1, <1>3, <2>1, <2>3 DEF Tells
  <2>5. m[l].state = "offline"
    BY <2>3, <2>4
  <2>6. f[l] # m[l]
    BY <1>14, <2>5
  <2>7. l \in Moved(m, b) \/ l \in Moved(b, f)
    BY <1>10, <2>6
  <2>8. PICK k \in 1..Len(L) : k > n /\ L[k] = <<l, "online">>
    BY <1>9, <2>7
  <2>9. k > i
    BY <1>4, <1>5, <2>1, <2>8
  <2> QED
    BY <2>8, <2>9
<1> QED
  BY <1>5, <1>11, <1>14 DEF Announces

\* The scan matches, binds and rebinds.
LEMMA ReconcileRest == ASSUME IInv, Typed, RestOK, NEW order \in Orders, Reconcile(order) PROVE RestOK'
<1>1. PICK m, b, f, x, y, z : ScanMade(m, b, f, x, y, z)
  BY ScanTells, Zenon
<1>2. /\ Made(m, b, f) /\ m \in [LinkIds -> LinkRecord] /\ rt' = f
      /\ muddled' = muddled \cup {l \in Moved(m, b) : Busy(l) # {}}
  BY <1>1, Zenon DEF ScanMade
<1>3. PICK L : L = x \o y \o z
  OBVIOUS
<1>4. PICK k : k = [at |-> "fire", changes |-> L]
  OBVIOUS
<1>5. Goes(Scanner, k)
  BY <1>1, <1>3, <1>4, Zenon DEF ScanMade
<1>6. job[Scanner] = Idle /\ UNCHANGED <<worker, wired>>
  BY Zenon DEF Reconcile
<1>7. /\ job'[Scanner] = k
      /\ \A h \in Handlers : job'[h] = job[h]
      /\ \A n : \A g \in Handlers : Work(g, n)' = Work(g, n)
  BY <1>5, WorkStays
<1>8. k # Idle /\ k.changes = L
  BY <1>4 DEF Idle
<1>9. Announces(L, m, b, f)
  BY <1>1, <1>3, ListMade, Zenon
<1>10. UnwiredOK'
  BY <1>6, <1>7 DEF RestOK, UnwiredOK
<1>11. LastOK'
  BY <1>2, <1>7, <1>8, <1>9 DEF LastOK, Announces
<1>12. ASSUME NEW l \in LinkIds, l \notin muddled' PROVE Rest(l)'
  <2>1. Rest(l) /\ (l \in Moved(m, b) => Busy(l) = {})
    BY <1>2, <1>12 DEF RestOK
  <2>2. /\ m[l].on = rt[l].on /\ b[l].on = rt[l].on /\ f[l].on = rt[l].on
        /\ l \notin Moved(m, b) => b[l] = m[l]
        /\ l \notin Moved(b, f) => f[l] = b[l]
    BY <1>2, MadeOfLink
  <2>3. /\ l \in Moved(m, b) => db'[l].on = rt[l].on
        /\ l \notin Moved(m, b) => db'[l].on = db[l].on
    <3>1. db'[l] = IF l \in Moved(m, b) THEN Row(b[l].on, b[l].dev)
                   ELSE IF l \in Moved(b, f) THEN [db[l] EXCEPT !.dev = f[l].dev]
                   ELSE db[l]
      BY <1>1, Zenon DEF ScanMade
    <3>2. CASE l \in Moved(m, b)
      <4>1. db'[l] = Row(b[l].on, b[l].dev)
        BY <3>1, <3>2
      <4> QED
        BY <2>2, <3>2, <4>1 DEF Row
    <3>3. CASE l \notin Moved(m, b)
      <4>1. db[l] \in LinkRow
        BY DEF Typed, DataOK
      <4>2. db'[l] = [db[l] EXCEPT !.dev = f[l].dev] \/ db'[l] = db[l]
        BY <3>1, <3>3
      <4> QED
        BY <3>3, <4>1, <4>2 DEF LinkRow
    <3> QED
      BY <3>2, <3>3
  <2>4. ~Told(l)
    BY <1>6 DEF Told
  <2>5. Told(l)' <=> \E i \in 1..Len(L) : L[i] = <<l, "online">>
    BY <1>7, <1>8 DEF Told
  <2>6. rt'[l].state = "online" => Told(l)' \/ rt[l].state = "online"
    <3>1. CASE l \in Changed(m) \/ l \in Moved(m, b) \/ l \in Moved(b, f)
      BY <1>2, <1>9, <2>5, <3>1 DEF Announces
    <3>2. CASE ~(l \in Changed(m) \/ l \in Moved(m, b) \/ l \in Moved(b, f))
      BY <1>2, <2>2, <3>2 DEF Changed
    <3> QED
      BY <3>1, <3>2
  <2>7. l \in Moved(m, b) => \A g \in Handlers : Work(g, l) = Idle
    BY <2>1, NotBusy
  <2>8. (\E h \in Handlers : Recording(Work(h, l))) \/ db'[l].on = rt'[l].on
    BY <1>2, <2>1, <2>2, <2>3 DEF Rest
  <2>9. \A h \in Handlers : Work(h, l).at \in {"record", "worker", "put"} => Work(h, l).row.on = db'[l].on
    <3>1. ~(Idle.at \in {"record", "worker", "put"})
      BY DEF Idle
    <3> QED
      BY <2>1, <2>3, <2>7, <3>1 DEF Rest
  <2>10. wired' /\ rt'[l].on /\ rt'[l].state = "online" =>
           \/ l \in worker' \/ Told(l)'
           \/ \E h \in Handlers : Recording(Work(h, l)) \/ Starting(Work(h, l))
    BY <1>2, <1>6, <2>1, <2>2, <2>4, <2>6 DEF Rest
  <2>11. \A g, h \in Handlers : Work(g, l) # Idle /\ Work(h, l) # Idle => g = h
    BY <2>1 DEF Rest
  <2>12. \A h \in Handlers : /\ Recording(Work(h, l))' <=> Recording(Work(h, l))
                             /\ Starting(Work(h, l))' <=> Starting(Work(h, l))
    BY <1>7 DEF Recording, Starting
  <2> QED
    BY <1>7, <2>8, <2>9, <2>10, <2>11, <2>12 DEF Rest
<1> QED
  BY <1>10, <1>11, <1>12 DEF RestOK

\* The scan goes on from its first change to the rest of its list, having seen to
\* the link of the first.
LEMMA ListShortens ==
  ASSUME IInv, Typed, RestOK, NEW c \in Seq(Change), c # <<>>, job[Scanner] # Idle,
         job[Scanner].changes = c, NEW k, Goes(Scanner, k), k # Idle, k.changes = Tail(c),
         UNCHANGED <<db, rt, wired, muddled>>,
         \A l \in LinkIds : l # Head(c)[1] => (l \in worker => l \in worker'),
         \A l \in LinkIds \ muddled : /\ l = Head(c)[1] /\ wired /\ rt[l].on /\ rt[l].state = "online"
           => \/ l \in worker' \/ Told(l)'
              \/ \E h \in Handlers : Recording(Work(h, l)) \/ Starting(Work(h, l))
  PROVE  RestOK'
<1>1. /\ job'[Scanner] = k
      /\ \A h \in Handlers : job'[h] = job[h]
      /\ \A n : \A g \in Handlers : Work(g, n)' = Work(g, n)
  BY WorkStays
<1>2. /\ Len(c) \in Nat /\ Len(c) > 0 /\ Len(Tail(c)) = Len(c) - 1 /\ Head(c) = c[1]
      /\ \A i \in 1..(Len(c) - 1) : Tail(c)[i] = c[i + 1]
  BY FirstChange DEF Typed, DataOK
<1>3. PICK n, t : n = Len(c) /\ t = Tail(c)
  OBVIOUS
<1>4. n \in Nat /\ n > 0 /\ Len(t) = n - 1 /\ \A i \in 1..(n - 1) : t[i] = c[i + 1]
  BY <1>2, <1>3
<1>5. UnwiredOK'
  BY <1>1 DEF RestOK, UnwiredOK
<1>6. LastOK'
  <2>0. job'[Scanner].changes = t /\ rt' = rt
    BY <1>1, <1>3
  <2> SUFFICES ASSUME NEW l \in LinkIds, NEW i \in 1..Len(t), t[i] = <<l, "offline">>,
                      rt[l].state = "online"
               PROVE  \E k2 \in 1..Len(t) : k2 > i /\ t[k2] = <<l, "online">>
    BY <2>0, ZenonT(30) DEF LastOK
  <2>1. i \in 1..(n - 1) /\ i + 1 \in 1..n
    BY <1>4
  <2>2. c[i + 1] = <<l, "offline">>
    BY <1>4, <2>1
  <2>3. PICK j \in 1..n : j > i + 1 /\ c[j] = <<l, "online">>
    BY <1>3, <2>1, <2>2 DEF RestOK, LastOK
  <2>4. j - 1 \in 1..(n - 1) /\ j - 1 > i /\ (j - 1) + 1 = j
    BY <1>4, <2>1, <2>3
  <2>5. t[j - 1] = c[j]
    BY <1>4, <2>4
  <2> QED
    BY <1>4, <2>3, <2>4, <2>5
<1>7. ASSUME NEW l \in LinkIds, l # Head(c)[1], Told(l) PROVE Told(l)'
  <2>1. PICK i \in 1..n : c[i] = <<l, "online">>
    BY <1>3, <1>7 DEF Told
  <2>2. i # 1
    <3>1. c[1] = Head(c)
      BY <1>2
    <3>2. i = 1 => Head(c) = <<l, "online">>
      BY <2>1, <3>1
    <3> QED
      BY <1>7, <3>2
  <2>3. i - 1 \in 1..(n - 1) /\ (i - 1) + 1 = i
    BY <1>4, <2>1, <2>2
  <2>4. t[i - 1] = c[i]
    BY <1>4, <2>3
  <2> QED
    BY <1>1, <1>3, <1>4, <2>1, <2>3, <2>4 DEF Told
<1>8. ASSUME NEW l \in LinkIds, l \notin muddled' PROVE Rest(l)'
  <2>1. Rest(l) /\ l \notin muddled
    BY <1>8 DEF RestOK
  <2>2. CASE l # Head(c)[1]
    BY <1>1, <1>7, <2>1, <2>2, RestStays
  <2>3. CASE l = Head(c)[1]
    <3>1. CASE wired
      BY <1>1, <2>1, <2>3, <3>1, RestStays
    <3>2. CASE ~wired
      <4>1. \A h \in Handlers : job[h] = Idle
        BY <3>2 DEF RestOK, UnwiredOK
      <4>2. \A h \in Handlers : Work(h, l) = Idle /\ Work(h, l)' = Idle
        BY <1>1, <4>1 DEF Work
      <4>3. ~Recording(Idle) /\ ~(Idle.at \in {"record", "worker", "put"})
        BY DEF Recording, Idle
      <4>4. db[l].on = rt[l].on
        BY <2>1, <4>2, <4>3 DEF Rest
      <4> QED
        BY <3>2, <4>2, <4>3, <4>4 DEF Rest
    <3> QED
      BY <3>1, <3>2
  <2> QED
    BY <2>2, <2>3
<1> QED
  BY <1>5, <1>6, <1>8 DEF RestOK

\* A state change reaches the dispatcher.
LEMMA FireRest == ASSUME IInv, Typed, RestOK, Fire PROVE RestOK'
<1>1. PICK c : c = job[Scanner].changes
  OBVIOUS
<1>2. /\ job[Scanner].at = "fire" /\ c # <<>> /\ c \in Seq(Change)
      /\ FireDone.at = "fire" /\ FireDone.changes = Tail(c)
      /\ FireGo.at = "start" /\ FireGo.changes = c
      /\ UNCHANGED <<db, rt, wired, muddled>>
  BY <1>1, FireDoes, Zenon
<1>3. PICK l : l = Head(c)[1]
  OBVIOUS
<1>4. \/ ~wired /\ Goes(Scanner, FireDone) /\ worker' = worker
      \/ wired /\ Goes(Scanner, FireGo) /\ worker' = worker
      \/ wired /\ ~db[l].on /\ Goes(Scanner, FireDone) /\ worker' = worker
      \/ wired /\ Head(c)[2] = "offline" /\ worker' = worker \ {l} /\ Goes(Scanner, FireDone)
  BY <1>1, <1>3, FireDoes, Zenon
<1>5. job[Scanner] # Idle /\ FireDone # Idle /\ FireGo # Idle
  BY <1>2 DEF Idle
<1>6. /\ Head(c) = <<l, Head(c)[2]>> /\ Head(c) = c[1] /\ l \in LinkIds
      /\ Len(c) \in Nat /\ Len(c) > 0 /\ Len(Tail(c)) = Len(c) - 1
      /\ \A i \in 1..(Len(c) - 1) : Tail(c)[i] = c[i + 1]
  BY <1>2, <1>3, FirstChange DEF Typed, DataOK
<1>7. CASE ~wired /\ Goes(Scanner, FireDone) /\ worker' = worker
  BY <1>1, <1>2, <1>5, <1>7, ListShortens
<1>8. CASE wired /\ Goes(Scanner, FireGo) /\ worker' = worker
  <2>1. /\ job'[Scanner] = FireGo
        /\ \A h \in Handlers : job'[h] = job[h]
        /\ \A n : \A g \in Handlers : Work(g, n)' = Work(g, n)
    BY <1>8, WorkStays
  <2>2. \A n : Told(n)' <=> Told(n)
    BY <1>1, <1>2, <1>5, <2>1 DEF Told
  <2>3. UnwiredOK'
    BY <1>2, <1>8 DEF UnwiredOK
  <2>4. LastOK'
    <3>1. job'[Scanner].changes = job[Scanner].changes /\ rt' = rt
      BY <1>1, <1>2, <2>1
    <3> QED
      BY <1>5, <3>1, ZenonT(30) DEF RestOK, LastOK
  <2>5. ASSUME NEW n \in LinkIds, n \notin muddled' PROVE Rest(n)'
    <3>1. Rest(n)
      BY <1>2, <2>5 DEF RestOK
    <3> QED
      BY <1>2, <1>8, <2>1, <2>2, <3>1, RestStays
  <2> QED
    BY <2>3, <2>4, <2>5 DEF RestOK
<1>9. CASE wired /\ ~db[l].on /\ Goes(Scanner, FireDone) /\ worker' = worker
  <2>1. ASSUME l \notin muddled, rt[l].on PROVE \E h \in Handlers : Recording(Work(h, l))
    <3>1. Rest(l)
      BY <1>6, <2>1 DEF RestOK
    <3>2. (\E h \in Handlers : Recording(Work(h, l))) \/ db[l].on = rt[l].on
      BY <3>1 DEF Rest
    <3> QED
      BY <1>9, <2>1, <3>2
  <2> QED
    BY <1>1, <1>2, <1>3, <1>5, <1>9, <2>1, ListShortens
<1>10. CASE wired /\ Head(c)[2] = "offline" /\ worker' = worker \ {l} /\ Goes(Scanner, FireDone)
  <2>1. job'[Scanner] = FireDone
    BY <1>10, WorkStays
  <2>2. ASSUME rt[l].state = "online" PROVE Told(l)'
    <3>1. PICK n : n = Len(c)
      OBVIOUS
    <3>2. n \in Nat /\ n > 0 /\ Len(Tail(c)) = n - 1 /\ \A i \in 1..(n - 1) : Tail(c)[i] = c[i + 1]
      BY <1>6, <3>1
    <3>3. 1 \in 1..n /\ c[1] = <<l, "offline">>
      BY <1>6, <1>10, <3>2
    <3>4. PICK j \in 1..n : j > 1 /\ c[j] = <<l, "online">>
      BY <1>1, <1>5, <1>6, <2>2, <3>1, <3>3 DEF RestOK, LastOK
    <3>5. j - 1 \in 1..(n - 1) /\ (j - 1) + 1 = j
      BY <3>2, <3>4
    <3>6. Tail(c)[j - 1] = <<l, "online">>
      BY <3>2, <3>4, <3>5
    <3> QED
      BY <1>2, <1>5, <2>1, <3>2, <3>5, <3>6 DEF Told
  <2> QED
    BY <1>1, <1>2, <1>3, <1>5, <1>10, <2>2, ListShortens
<1> QED
  BY <1>4, <1>7, <1>8, <1>9, <1>10

\* The scan's own start of a worker.
LEMMA FireStartsRest == ASSUME IInv, Typed, RestOK, FireStarts PROVE RestOK'
<1>1. PICK c : c = job[Scanner].changes
  OBVIOUS
<1>2. PICK k : k = [at |-> "fire", changes |-> Tail(c)]
  OBVIOUS
<1>3. /\ job[Scanner].at = "start" /\ worker' = worker \cup {Head(c)[1]}
      /\ Goes(Scanner, k) /\ UNCHANGED <<db, rt, wired, muddled>>
  BY <1>1, <1>2, Zenon DEF FireStarts, WorkerStarted
<1>4. c \in Seq(Change) /\ c # <<>>
  BY <1>1, <1>3, ListHas
<1>5. job[Scanner] # Idle /\ k # Idle /\ k.changes = Tail(c)
  BY <1>2, <1>3 DEF Idle
<1> QED
  BY <1>1, <1>3, <1>4, <1>5, ListShortens

\* The scan is through: it has told all.
LEMMA ScanEndsRest == ASSUME IInv, Typed, RestOK, ScanEnds PROVE RestOK'
<1>1. /\ job[Scanner] = [at |-> "fire", changes |-> <<>>] /\ Goes(Scanner, Idle)
      /\ UNCHANGED <<db, rt, worker, wired, muddled>>
  BY DEF ScanEnds
<1>2. /\ job'[Scanner] = Idle
      /\ \A h \in Handlers : job'[h] = job[h]
      /\ \A n : \A g \in Handlers : Work(g, n)' = Work(g, n)
  BY <1>1, WorkStays
<1>3. \A n : ~Told(n)
  BY <1>1 DEF Told
<1>4. UnwiredOK' /\ LastOK'
  BY <1>1, <1>2 DEF RestOK, UnwiredOK, LastOK
<1>5. ASSUME NEW n \in LinkIds, n \notin muddled' PROVE Rest(n)'
  <2>1. Rest(n)
    BY <1>1, <1>5 DEF RestOK
  <2> QED
    BY <1>1, <1>2, <1>3, <2>1, RestStays
<1> QED
  BY <1>4, <1>5 DEF RestOK

\* Nobody is at anything: row and record agree.
LEMMA IdleRest ==
  ASSUME NEW l, \A h \in Handlers : job'[h] = Idle, db'[l].on = rt'[l].on,
         wired' => (rt'[l].on => l \in worker')
  PROVE  Rest(l)'
<1>1. \A h \in Handlers : Work(h, l)' = Idle
  BY DEF Work
<1>2. ~(Idle.at \in {"record", "worker", "put"})
  BY DEF Idle
<1> QED
  BY <1>1, <1>2 DEF Rest

\* Dispatcher.Start: a worker for each link that is on.
LEMMA DispatcherStartRest == ASSUME IInv, Typed, RestOK, DispatcherStart PROVE RestOK'
<1>1. /\ ~wired /\ wired' = TRUE /\ worker' = {l \in LinkIds : db[l].on}
      /\ UNCHANGED <<db, rt, job, muddled>>
  BY DEF DispatcherStart
<1>2. \A h \in Handlers : job[h] = Idle
  BY <1>1 DEF RestOK, UnwiredOK
<1>3. UnwiredOK' /\ LastOK'
  BY <1>1 DEF RestOK, UnwiredOK, LastOK
<1>4. ASSUME NEW l \in LinkIds, l \notin muddled' PROVE Rest(l)'
  <2>1. Rest(l)
    BY <1>1, <1>4 DEF RestOK
  <2>2. \A h \in Handlers : Work(h, l) = Idle /\ ~Recording(Idle)
    BY <1>2 DEF Work, Recording, Idle
  <2>3. db[l].on = rt[l].on
    BY <2>1, <2>2 DEF Rest
  <2>4. db'[l].on = rt'[l].on /\ (rt'[l].on => l \in worker') /\ \A h \in Handlers : job'[h] = Idle
    BY <1>1, <1>2, <2>3
  <2> QED
    BY <2>4, IdleRest
<1> QED
  BY <1>3, <1>4 DEF RestOK

\* The process is started again: the records as the rows say.
LEMMA RestartRest == ASSUME Typed, Restart PROVE RestOK'
<1>1. /\ job' = [g \in Handlers \cup {Scanner} |-> Idle] /\ wired' = FALSE
      /\ rt' = [l \in LinkIds |-> Record(db[l], l \in needs)] /\ db' = db
  BY Zenon DEF Restart
<1>2. job'[Scanner] = Idle /\ \A h \in Handlers : job'[h] = Idle
  BY <1>1
<1>3. UnwiredOK' /\ LastOK'
  BY <1>2 DEF UnwiredOK, LastOK
<1>4. ASSUME NEW l \in LinkIds PROVE Rest(l)'
  <2>1. db'[l].on = rt'[l].on
    BY <1>1 DEF Record
  <2> QED
    BY <1>1, <1>2, <2>1, IdleRest
<1> QED
  BY <1>3, <1>4 DEF RestOK

\* Only the clock, the bus or the bounds change.
LEMMA AsideRest == ASSUME RestOK, UNCHANGED <<db, rt, worker, wired, job, muddled>> PROVE RestOK'
<1>1. \A n : \A g \in Handlers : Work(g, n)' = Work(g, n)
  BY DEF Work
<1>2. \A n : Told(n)' <=> Told(n)
  BY DEF Told
<1>3. UnwiredOK' /\ LastOK'
  BY DEF RestOK, UnwiredOK, LastOK
<1>4. ASSUME NEW n \in LinkIds, n \notin muddled' PROVE Rest(n)'
  <2>1. Rest(n)
    BY <1>4 DEF RestOK
  <2> QED
    BY <1>1, <1>2, <2>1, RestStays
<1> QED
  BY <1>3, <1>4 DEF RestOK

\* The start.
LEMMA InitRest == Init => RestOK
<1> SUFFICES ASSUME Init PROVE RestOK
  OBVIOUS
<1>1. PICK s \in Starts :
        /\ db = s.rows /\ rt = [l \in LinkIds |-> Record(s.rows[l], l \in s.needs)]
        /\ wired = FALSE /\ job = [g \in Handlers \cup {Scanner} |-> Idle]
  BY Zenon DEF Init
<1>2. job[Scanner] = Idle /\ \A h \in Handlers : job[h] = Idle
  BY <1>1
<1>3. UnwiredOK /\ LastOK
  BY <1>2 DEF UnwiredOK, LastOK
<1>4. ASSUME NEW l \in LinkIds PROVE Rest(l)
  <2>1. \A h \in Handlers : Work(h, l) = Idle
    BY <1>2 DEF Work
  <2>2. ~(Idle.at \in {"record", "worker", "put"})
    BY DEF Idle
  <2>3. db[l].on = rt[l].on
    BY <1>1 DEF Record
  <2> QED
    BY <1>1, <2>1, <2>2, <2>3 DEF Rest
<1> QED
  BY <1>3, <1>4 DEF RestOK

\* Every step keeps row, record and worker together.
LEMMA NextRest == IInv /\ Typed /\ RestOK /\ [Next]_vars => RestOK'
<1> SUFFICES ASSUME IInv, Typed, RestOK, [Next]_vars PROVE RestOK'
  OBVIOUS
<1>1. CASE Scans
  BY <1>1, ReconcileRest, FireRest, FireStartsRest, ScanEndsRest DEF Scans
<1>2. ASSUME NEW h \in Handlers, Calls(h) PROVE RestOK'
  <2>1. PICK l \in budget.links :
          \/ \E on \in BOOLEAN : Switch(h, l, on)
          \/ l \in needs /\ \E dev \in Ids : Bind(h, l, dev)
          \/ \E on \in BOOLEAN, dev \in Ids : (l \notin needs => dev = None) /\ Put(h, l, Row(on, dev))
    BY <1>2 DEF Calls
  <2>2. l \in LinkIds
    BY DEF IInv, ShapeOK
  <2>3. ASSUME NEW on \in BOOLEAN, Switch(h, l, on) PROVE RestOK'
    BY <2>2, <2>3, SwitchRest
  <2>4. ASSUME NEW dev \in Ids, Bind(h, l, dev) PROVE RestOK'
    BY <2>2, <2>4, BindRest
  <2>5. ASSUME NEW on \in BOOLEAN, NEW dev \in Ids, Put(h, l, Row(on, dev)) PROVE RestOK'
    <3>1. Row(on, dev) \in LinkRow
      BY <2>5 DEF Row, LinkRow
    <3> QED
      BY <2>2, <2>5, <3>1, PutRest
  <2> QED
    BY <2>1, <2>3, <2>4, <2>5
<1>3. ASSUME NEW h \in Handlers, Handles(h) PROVE RestOK'
  BY <1>3, SwitchRowRest, SwitchRecordRest, SwitchWorkerRest, SwitchStartsRest, BindSavesRest,
     PutRecordRest DEF Handles
<1>4. CASE DispatcherStart \/ Restart
  BY <1>4, DispatcherStartRest, RestartRest
<1>5. CASE Tick \/ (\E d \in Devices : Plug(d)) \/ UNCHANGED vars
  <2>1. UNCHANGED <<db, rt, worker, wired, job, muddled>>
    BY <1>5, Zenon DEF Tick, Plug, vars
  <2> QED
    BY <2>1, AsideRest
<1> QED
  BY <1>1, <1>2, <1>3, <1>4, <1>5 DEF Next

\* When the scan and the handlers are at rest, the row and the record of a link
\* agree on the switch, and a link that is on and online has its worker: every
\* state change has reached the dispatcher (reconcile, notifyStateChange, SetEnabled),
\* but for links with the histories named in muddled.
THEOREM AtRestSafety == Spec => []AtRest
<1>1. RestOK => AtRest
  <2> SUFFICES ASSUME RestOK, NEW l \in LinkIds \ muddled, wired, job[Scanner] = Idle, Busy(l) = {}
               PROVE  /\ db[l].on = rt[l].on
                      /\ rt[l].on /\ rt[l].state = "online" => l \in worker
    BY DEF AtRest
  <2>1. ~Told(l)
    BY DEF Told
  <2> QED
    BY <2>1, OwnFree
<1> QED
  BY <1>1, InitOK, NextOK, InitTyped, NextTyped, InitRest, NextRest, PTL DEF Spec
=============================================================================
