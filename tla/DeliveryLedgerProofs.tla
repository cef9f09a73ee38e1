------------------------ MODULE DeliveryLedgerProofs ------------------------
(***************************************************************************)
(* The safety of the delivery ledger for every number of links, workers,   *)
(* rows, crashes and retries.                                              *)
(***************************************************************************)
EXTENDS DeliveryLedger, TLAPS

\* A worker with a row in its hands, and one between the claim of a row and
\* its last write to it.
Active == {"policy", "claim", "sending", "onair", "answered", "ack", "moved"}
Busy == InFlight \cup {"ack"}

\* What a worker holds exists, and is a row of its link.
JobOK ==
  \A w \in Workers :
    /\ wk[w].pc \in Active =>
         /\ wk[w].job \in Snap
         /\ row[wk[w].job.id].status # "none"
         /\ row[wk[w].job.id].link = wk[w].link
    /\ \A s \in wk[w].batch :
         row[s.id].status # "none" /\ row[s.id].link = wk[w].link

\* No hold lies in the future.
HeldOK == \A r \in Rows : row[r].heldAt <= now

\* LXMF has a link of its own, and no acknowledgement to wait for.
LxmfOK ==
  /\ \A r \in Rows : row[r].cls = "lxmf" => row[r].link \notin Sat
  /\ \A w \in Workers :
       /\ wk[w].pc \in {"answered", "moved"} /\ wk[w].answer = "unacked"
       => row[wk[w].job.id].cls # "lxmf"

\* While a worker is busy with a row, nobody else can claim it.
ClaimOK ==
  \A w \in Workers :
    /\ wk[w].pc \in Busy
    /\ row[wk[w].job.id].cls # "lxmf"
    => row[wk[w].job.id].status \in {"sending", "sent", "denied", "expired"}

OneBusy ==
  \A v, w \in Workers :
    /\ v # w
    /\ wk[v].pc \in Busy /\ wk[w].pc \in Busy
    /\ wk[v].job.id = wk[w].job.id
    => row[wk[v].job.id].cls = "lxmf"

\* A cancelled row is over, and nobody is busy with it.
CancelOK ==
  /\ \A r \in cancelled : row[r].status # "none"
  /\ \A r \in cancelled : row[r].cls # "lxmf"
                          => row[r].status \in {"dead", "denied", "expired"}
  /\ \A w \in Workers : wk[w].pc \in Busy /\ row[wk[w].job.id].cls # "lxmf"
                        => wk[w].job.id \notin cancelled

\* While another send is possible, no session may have gone out that a person
\* has not answered for.
SessionsOK ==
  /\ \A r \in Rows :
       /\ sessions[r] <= 1 + asked[r]
       /\ row[r].status \in {"none", "queued", "retry", "held"} => sessions[r] <= asked[r]
       /\ row[r].status = "none" => sessions[r] <= 0
       /\ row[r].link \notin Sat \/ SosFrame(r) => sessions[r] <= 0
  /\ \A w \in Workers :
       \/ wk[w].pc = "sending"
       \/ wk[w].pc = "answered" /\ wk[w].answer \notin {"ok", "unknown"}
       => sessions[wk[w].job.id] <= asked[wk[w].job.id]

BudgetOK ==
  /\ RetriesWithinBudget
  /\ \A w \in Workers :
       /\ wk[w].pc \in Active /\ row[wk[w].job.id].max > 0
          => wk[w].job.retries < row[wk[w].job.id].max
       /\ \A s \in wk[w].batch :
            row[s.id].max > 0 => s.retries < row[s.id].max

\* A process that is down has no goroutine.
DownOK == ~up => \A w \in Workers : wk[w].pc = "gone"

\* The inductive invariant.
IInv ==
  /\ TypeOK /\ JobOK /\ HeldOK /\ LxmfOK /\ ClaimOK /\ OneBusy
  /\ CancelOK /\ SessionsOK /\ NothingStuckSending /\ BudgetOK /\ DownOK

\* The fields no statement ever changes.
Same(d, e) ==
  /\ e.link = d.link /\ e.prio = d.prio /\ e.qos = d.qos /\ e.max = d.max
  /\ e.cls = d.cls /\ e.rule = d.rule

-----------------------------------------------------------------------------
(* Records: what an update of a row or of a worker leaves alone. *)

\* The types of a row's fields.
LEMMA RowFields ==
  ASSUME NEW d \in Row
  PROVE  /\ d.status \in Status /\ d.why \in Why /\ d.link \in Links
         /\ d.prio \in Nat /\ d.qos \in Nat /\ d.max \in Nat
         /\ d.retries \in Nat /\ d.born \in Nat /\ d.heldAt \in Nat
         /\ d.expires \in Nat \cup {NoTTL} /\ d.rule \in BOOLEAN
BY DEF Row

\* The types of a worker's fields.
LEMMA WorkerFields ==
  ASSUME NEW u \in Worker
  PROVE  /\ u.pc \in PC /\ u.stopped \in BOOLEAN /\ u.link \in Links
         /\ u.batch \subseteq Snap /\ u.job \in Snap \cup {NoJob}
         /\ u.answer \in Answer
BY DEF Worker

\* A fetched row is a row, with the retry count of that moment.
LEMMA SnapFields ==
  ASSUME NEW s \in Snap
  PROVE  /\ s.id \in Rows /\ s.retries \in Nat
         /\ s.expires \in Nat \cup {NoTTL}
BY DEF Snap

\* A statement that ends a row, or moves it on, touches nothing else of it.
LEMMA CancelUpdate ==
  ASSUME NEW d \in Row, NEW e,
         e = [d EXCEPT !.status = "dead", !.why = "cancelled", !.heldAt = 0]
  PROVE  /\ e \in Row /\ Same(d, e) /\ e.status = "dead"
         /\ e.heldAt = 0 /\ e.retries = d.retries
BY DEF Row, Same, Status, Why

\* UnholdRow, with the deadline x it comes to.
Unheld(d, x) == [d EXCEPT !.status = "queued", !.heldAt = 0, !.expires = x]

LEMMA UnholdUpdate ==
  ASSUME NEW d \in Row, NEW x \in Nat \cup {NoTTL}, NEW e, e = Unheld(d, x)
  PROVE  /\ e \in Row /\ Same(d, e) /\ e.status = "queued"
         /\ e.heldAt = 0 /\ e.retries = d.retries
BY DEF Unheld, Row, Same, Status

LEMMA StatusUpdate ==
  ASSUME NEW d \in Row, NEW st \in Status, NEW e, e = [d EXCEPT !.status = st]
  PROVE  /\ e \in Row /\ Same(d, e) /\ e.status = st
         /\ e.heldAt = d.heldAt /\ e.retries = d.retries
BY DEF Row, Same

-----------------------------------------------------------------------------
(* Steps outside the workers. *)

\* What a step of the API, of the reaper, of the clock or of a link may do to
\* row r: only a row that waits is held, released, ended or cancelled, only a
\* dead one comes back, and then a person asked for it.
OutsideRow(r) ==
  /\ row[r].status # "none" => row'[r].status # "none" /\ Same(row[r], row'[r])
  /\ row[r].status \in {"sending", "sent", "delivered", "denied", "expired"}
     => row'[r].status = row[r].status
  /\ row'[r].status = "sending" => row[r].status = "sending"
  /\ row'[r].heldAt <= now'
  /\ row'[r].cls = "lxmf" => row'[r].link \notin Sat
  /\ row'[r].cls # "lxmf" /\ r \in cancelled'
     => row'[r].status \in {"dead", "denied", "expired"}
  /\ r \in cancelled' => r \in cancelled \/ row[r].status \in {"queued", "retry", "held"}
  /\ asked'[r] >= asked[r]
  /\ row'[r].status \in {"none", "queued", "retry", "held"}
     => \/ asked'[r] >= asked[r] + 1
        \/ row[r].status \in {"none", "queued", "retry", "held"}
  /\ row'[r].status = "none" => row[r].status = "none"
  /\ row'[r].max > 0 => row'[r].retries < row'[r].max

\* What such a step may do to a worker: stop it, make a new one, or end it
\* with the process.
OutsideWorker(w) ==
  /\ wk'[w].pc \in Active =>
       /\ wk'[w].pc = wk[w].pc /\ wk'[w].job = wk[w].job
       /\ wk'[w].link = wk[w].link /\ wk'[w].answer = wk[w].answer
  /\ \/ wk'[w].batch = {}
     \/ wk'[w].batch = wk[w].batch /\ wk'[w].link = wk[w].link
  /\ up' /\ wk[w].pc \in InFlight => wk'[w].pc = wk[w].pc /\ wk'[w].job = wk[w].job

\* Such steps preserve the invariant.
LEMMA OutsidePreserves ==
  ASSUME IInv, TypeOK', DownOK', up' => up, sessions' = sessions,
         \A r \in Rows : OutsideRow(r),
         \A w \in Workers : OutsideWorker(w)
  PROVE  IInv'
<1> USE DEF Active, Busy, InFlight
<1>0. /\ \A w \in Workers : wk[w].batch \subseteq Snap
      /\ \A w \in Workers : wk[w].pc \in Active => wk[w].job \in Snap
      /\ \A w \in Workers : wk[w].pc \in Active => wk[w].job.id \in Rows
      /\ \A w \in Workers : \A s \in wk[w].batch : s.id \in Rows /\ s.retries \in Nat
  BY WorkerFields, SnapFields DEF IInv, TypeOK, JobOK
<1>1. JobOK'
  BY <1>0 DEF IInv, JobOK, OutsideRow, OutsideWorker, Same
<1>2. HeldOK'
  BY DEF HeldOK, OutsideRow
<1>3. LxmfOK'
  <2>1. \A r \in Rows : row'[r].cls = "lxmf" => row'[r].link \notin Sat
    BY DEF OutsideRow
  <2>2. ASSUME NEW w \in Workers, wk'[w].pc \in {"answered", "moved"},
               wk'[w].answer = "unacked"
        PROVE  row'[wk'[w].job.id].cls # "lxmf"
    <3>1. /\ wk[w].pc \in {"answered", "moved"} /\ wk[w].answer = "unacked"
          /\ wk'[w].job = wk[w].job
      BY <2>2 DEF OutsideWorker
    <3>2. wk[w].job.id \in Rows /\ row[wk[w].job.id].status # "none"
      BY <1>0, <3>1 DEF IInv, JobOK
    <3>3. row[wk[w].job.id].cls # "lxmf"
      BY <3>1 DEF IInv, LxmfOK
    <3>4. row'[wk[w].job.id].cls = row[wk[w].job.id].cls
      BY <3>2 DEF OutsideRow, Same
    <3> QED BY <3>1, <3>3, <3>4
  <2> QED BY <2>1, <2>2 DEF LxmfOK
<1>4. ClaimOK'
  BY <1>0 DEF IInv, JobOK, ClaimOK, OutsideRow, OutsideWorker, Same
<1>5. OneBusy'
  BY <1>0 DEF IInv, JobOK, OneBusy, OutsideRow, OutsideWorker, Same
<1>6. CancelOK'
  <2>1. \A r \in Rows : r \in cancelled' /\ row'[r].cls # "lxmf"
                     => row'[r].status \in {"dead", "denied", "expired"}
    BY DEF OutsideRow
  <2>2. ASSUME NEW w \in Workers, wk'[w].pc \in Busy, row'[wk'[w].job.id].cls # "lxmf"
        PROVE  wk'[w].job.id \notin cancelled'
    BY <1>0, <2>2 DEF IInv, JobOK, ClaimOK, CancelOK, OutsideRow, OutsideWorker, Same
  <2>3. \A r \in Rows : r \in cancelled' => row'[r].status # "none"
    BY DEF OutsideRow, IInv, CancelOK
  <2> QED BY <2>1, <2>2, <2>3 DEF CancelOK, TypeOK
<1>7. SessionsOK'
  <2> /\ sessions \in [Rows -> Int] /\ asked \in [Rows -> Nat] /\ asked' \in [Rows -> Nat]
    BY DEF IInv, TypeOK
  <2>1. ASSUME NEW r \in Rows
        PROVE  /\ sessions'[r] <= 1 + asked'[r]
               /\ row'[r].status \in {"none", "queued", "retry", "held"} => sessions'[r] <= asked'[r]
               /\ row'[r].status = "none" => sessions'[r] <= 0
               /\ row'[r].link \notin Sat \/ SosFrame(r)' => sessions'[r] <= 0
    BY DEF IInv, SessionsOK, OutsideRow, SosFrame, Same
  <2>2. ASSUME NEW w \in Workers,
               \/ wk'[w].pc = "sending"
               \/ wk'[w].pc = "answered" /\ wk'[w].answer \notin {"ok", "unknown"}
        PROVE  sessions'[wk'[w].job.id] <= asked'[wk'[w].job.id]
    BY <1>0, <2>2 DEF IInv, SessionsOK, OutsideRow, OutsideWorker
  <2> QED BY <2>1, <2>2 DEF SessionsOK
<1>8. NothingStuckSending'
  BY <1>0 DEF IInv, NothingStuckSending, OutsideRow, OutsideWorker
<1>9. BudgetOK'
  BY <1>0 DEF IInv, JobOK, BudgetOK, RetriesWithinBudget, OutsideRow, OutsideWorker, Same
<1> QED BY <1>1, <1>2, <1>3, <1>4, <1>5, <1>6, <1>7, <1>8, <1>9 DEF IInv

\* Most of these steps leave the workers alone.
LEMMA SameWorkers ==
  ASSUME wk' = wk
  PROVE  \A w \in Workers : OutsideWorker(w)
BY DEF OutsideWorker

\* A row the step does not touch.
LEMMA SameRow ==
  ASSUME IInv, NEW r \in Rows, row'[r] = row[r], now' \in {now, now + 1},
         r \in cancelled' <=> r \in cancelled, asked'[r] = asked[r]
  PROVE  OutsideRow(r)
<1>1. row[r].heldAt <= now'
  BY RowFields DEF IInv, TypeOK, HeldOK
<1>2. asked[r] \in Nat
  BY DEF IInv, TypeOK
<1>3. /\ row[r].cls = "lxmf" => row[r].link \notin Sat
      /\ row[r].max > 0 => row[r].retries < row[r].max
      /\ r \in cancelled /\ row[r].cls # "lxmf"
         => row[r].status \in {"dead", "denied", "expired"}
  BY DEF IInv, LxmfOK, CancelOK, BudgetOK, RetriesWithinBudget
<1>4. row[r].status \in Status
  BY RowFields DEF IInv, TypeOK
<1> QED BY <1>1, <1>2, <1>3, <1>4 DEF OutsideRow, Same, Status

\* A waiting row that is ended where it stands: evicted, expired, cancelled or
\* held for its link.
LEMMA EndedRow ==
  ASSUME IInv, NEW r \in Rows, row[r].status \in {"queued", "retry", "held"},
         Same(row[r], row'[r]), row'[r].retries = row[r].retries,
         \/ row'[r].status \in {"dead", "expired"}
         \/ row'[r].status \in {"held", "queued"}
            /\ (r \in cancelled' => r \in cancelled),
         row'[r].heldAt \in {0, now, row[r].heldAt}, now' = now, asked' = asked
  PROVE  OutsideRow(r)
<1>1. /\ row[r].cls = "lxmf" => row[r].link \notin Sat
      /\ row[r].max > 0 => row[r].retries < row[r].max
      /\ r \in cancelled /\ row[r].cls # "lxmf"
         => row[r].status \in {"dead", "denied", "expired"}
  BY DEF IInv, LxmfOK, CancelOK, BudgetOK, RetriesWithinBudget
<1>2. asked[r] \in Nat /\ now \in Nat /\ row[r].heldAt <= now
  BY DEF IInv, TypeOK, HeldOK
<1> QED BY <1>1, <1>2 DEF OutsideRow, Same

\* The row an insert makes.
LEMMA NewRowShape ==
  ASSUME TypeOK, NEW r \in Rows, NEW t \in Templates, NEW l \in Links,
         NEW x \in Nat \cup {NoTTL}, NEW e, e = NewRow(r, t, l, x)
  PROVE  /\ e \in Row /\ e.status = "queued" /\ e.heldAt = 0 /\ e.retries = 0
         /\ e.cls = t.cls /\ e.link = l
<1>1. t \in Template
  BY LedgerAssumption
<1>2. now \in Nat /\ r \in Nat
  BY DEF TypeOK, Rows
<1>3. /\ t.prio \in Nat /\ t.qos \in Nat /\ t.cls \in Class /\ t.rule \in BOOLEAN
      /\ t.sosRun \in BOOLEAN /\ t.visited \in SUBSET Links /\ t.max \in Nat
  BY <1>1 DEF Template
<1>4. (IF t.qos = 0 /\ t.cls # "lxmf" THEN 0 ELSE t.max) \in Nat
  BY <1>3
<1>5. e \in Row
  BY <1>2, <1>3, <1>4 DEF NewRow, Row, Status, Why
<1> QED BY <1>5 DEF NewRow

LEMMA DeadlineType ==
  ASSUME TypeOK, NEW t \in Templates
  PROVE  Deadline(t) \in Nat \cup {NoTTL}
<1>1. t \in Template
  BY LedgerAssumption
<1> QED BY <1>1 DEF TypeOK, Deadline, Template

\* A step that makes row r, and leaves the rest of row r's history alone.
LEMMA BirthShape ==
  ASSUME IInv, NEW t \in Templates, NEW l \in Links, NEW r \in Rows, Fresh(r),
         row'[r] = NewRow(r, t, l, Deadline(t)), t.cls = "lxmf" => l \notin Sat,
         now' = now, cancelled' = cancelled, asked' = asked
  PROVE  row'[r] \in Row /\ OutsideRow(r)
<1>1. PICK x \in Nat \cup {NoTTL} : x = Deadline(t)
  BY DeadlineType DEF IInv
<1>2. row'[r] = NewRow(r, t, l, x)
  BY <1>1
<1>3. /\ row'[r] \in Row /\ row'[r].status = "queued" /\ row'[r].heldAt = 0
      /\ row'[r].retries = 0 /\ row'[r].cls = t.cls /\ row'[r].link = l
  BY <1>2, NewRowShape DEF IInv
<1>4. row[r].status = "none" /\ r \notin cancelled
  BY DEF Fresh, IInv, CancelOK
<1>5. now \in Nat /\ asked[r] \in Nat /\ row'[r].max \in Nat
  BY <1>3, RowFields DEF IInv, TypeOK
<1> QED BY <1>3, <1>4, <1>5 DEF OutsideRow

LEMMA InsertPreserves ==
  ASSUME IInv, NEW t \in Templates, NEW l \in Links, InsertDelivery(t, l)
  PROVE  IInv'
<1>1. PICK r \in Rows :
        /\ Fresh(r)
        /\ row' = [row EXCEPT ![r] = NewRow(r, t, l, Deadline(t))]
        /\ deadline' = [deadline EXCEPT ![r] = Deadline(t)]
  BY DEF InsertDelivery
<1>2. row'[r] \in Row /\ OutsideRow(r)
  BY <1>1, BirthShape DEF InsertDelivery, IInv, TypeOK
<1>3. \A q \in Rows : q # r => row'[q] = row[q]
  BY <1>1 DEF IInv, TypeOK
<1>4. \A q \in Rows : OutsideRow(q)
  BY <1>2, <1>3, SameRow DEF InsertDelivery
<1>5. row' \in [Rows -> Row]
  BY <1>1, <1>2, <1>3 DEF IInv, TypeOK
<1>6. TypeOK'
  BY <1>1, <1>5, DeadlineType DEF IInv, TypeOK, InsertDelivery, links
<1> QED BY <1>4, <1>6, SameWorkers, OutsidePreserves
        DEF InsertDelivery, links, IInv, DownOK

LEMMA EvictPreserves ==
  ASSUME IInv, NEW t \in Templates, NEW l \in Links, DispatchEvicting(t, l)
  PROVE  IInv'
<1>1. PICK v \in Rows, r \in Rows :
        /\ WeakestEvictable(l, v) /\ t.prio < row[v].prio /\ Fresh(r)
        /\ row' = [row EXCEPT ![v].status = "dead", ![v].why = "evicted",
                              ![r] = NewRow(r, t, l, Deadline(t))]
        /\ deadline' = [deadline EXCEPT ![r] = Deadline(t)]
  BY DEF DispatchEvicting
<1>2. row[v].status \in {"queued", "retry", "held"} /\ v # r
  BY <1>1 DEF WeakestEvictable, Cancellable, Waiting, Fresh
<1>3. /\ row'[v] = [row[v] EXCEPT !.status = "dead", !.why = "evicted"]
      /\ row'[r] = NewRow(r, t, l, Deadline(t))
      /\ \A q \in Rows : q \notin {v, r} => row'[q] = row[q]
  BY <1>1, <1>2 DEF IInv, TypeOK
<1>4. row'[r] \in Row /\ OutsideRow(r)
  BY <1>1, <1>3, BirthShape, LedgerAssumption DEF DispatchEvicting
<1>5. /\ row'[v] \in Row /\ Same(row[v], row'[v]) /\ row'[v].status = "dead"
      /\ row'[v].heldAt = row[v].heldAt /\ row'[v].retries = row[v].retries
  <2>1. row[v] \in Row /\ "dead" \in Status /\ "evicted" \in Why
    BY DEF IInv, TypeOK, Status, Why
  <2>2. row'[v] = [row[v] EXCEPT !.status = "dead", !.why = "evicted"]
    BY <1>3
  <2> QED BY <2>1, <2>2 DEF Row, Same
<1>6. OutsideRow(v)
  BY <1>2, <1>5, EndedRow DEF DispatchEvicting
<1>7. \A q \in Rows : OutsideRow(q)
  BY <1>3, <1>4, <1>6, SameRow DEF DispatchEvicting
<1>8. row' \in [Rows -> Row]
  BY <1>1, <1>3, <1>4, <1>5 DEF IInv, TypeOK
<1>9. TypeOK'
  BY <1>1, <1>8, DeadlineType DEF IInv, TypeOK, DispatchEvicting, links
<1> QED BY <1>7, <1>9, SameWorkers, OutsidePreserves
        DEF DispatchEvicting, links, IInv, DownOK

LEMMA EvictThenRejectPreserves ==
  ASSUME IInv, NEW t \in Templates, NEW l \in Links, EvictThenReject(t, l)
  PROVE  IInv'
<1>1. PICK v \in Rows : WeakestEvictable(l, v) /\ SetDeliveryStatus(v, "dead", "evicted")
  BY DEF EvictThenReject
<1>2. row[v].status \in {"queued", "retry", "held"}
  BY <1>1 DEF WeakestEvictable, Cancellable, Waiting
<1>3. /\ row'[v] = [row[v] EXCEPT !.status = "dead", !.why = "evicted"]
      /\ \A q \in Rows : q # v => row'[q] = row[q]
      /\ row' = [row EXCEPT ![v] = row'[v]]
  BY <1>1 DEF IInv, TypeOK, SetDeliveryStatus
<1>4. /\ row'[v] \in Row /\ Same(row[v], row'[v]) /\ row'[v].status = "dead"
      /\ row'[v].heldAt = row[v].heldAt /\ row'[v].retries = row[v].retries
  <2>1. row[v] \in Row /\ "dead" \in Status /\ "evicted" \in Why
    BY DEF IInv, TypeOK, Status, Why
  <2>2. row'[v] = [row[v] EXCEPT !.status = "dead", !.why = "evicted"]
    BY <1>3
  <2> QED BY <2>1, <2>2 DEF Row, Same
<1>5. OutsideRow(v)
  BY <1>2, <1>4, EndedRow DEF EvictThenReject
<1>6. \A q \in Rows : OutsideRow(q)
  BY <1>3, <1>5, SameRow DEF EvictThenReject
<1>7. TypeOK'
  BY <1>3, <1>4 DEF IInv, TypeOK, EvictThenReject, links
<1> QED BY <1>6, <1>7, SameWorkers, OutsidePreserves
        DEF EvictThenReject, links, IInv, DownOK

LEMMA CancelPreserves ==
  ASSUME IInv, NEW r \in Rows, CancelDelivery(r)
  PROVE  IInv'
<1>1. row[r] \in Row
  BY DEF IInv, TypeOK
<1>2. /\ row'[r] = [row[r] EXCEPT !.status = "dead", !.why = "cancelled", !.heldAt = 0]
      /\ \A q \in Rows : q # r => row'[q] = row[q]
  BY DEF CancelDelivery, IInv, TypeOK
<1>3. /\ row'[r] \in Row /\ Same(row[r], row'[r]) /\ row'[r].status = "dead"
      /\ row'[r].heldAt = 0 /\ row'[r].retries = row[r].retries
  BY <1>1, <1>2, CancelUpdate
<1>4. OutsideRow(r)
  BY <1>3, EndedRow DEF CancelDelivery, Cancellable, Waiting
<1>5. \A q \in Rows : OutsideRow(q)
  BY <1>2, <1>4, SameRow DEF CancelDelivery
<1>6. TypeOK'
  BY <1>2, <1>3 DEF IInv, TypeOK, CancelDelivery, links
<1> QED BY <1>5, <1>6, SameWorkers, OutsidePreserves
        DEF CancelDelivery, links, IInv, DownOK

LEMMA RetryPreserves ==
  ASSUME IInv, NEW r \in Rows, RetryDelivery(r)
  PROVE  IInv'
<1>1. row[r] \in Row /\ "queued" \in Status
  BY DEF IInv, TypeOK, Status
<1>2. /\ row'[r] = [row[r] EXCEPT !.status = "queued"]
      /\ \A q \in Rows : q # r => row'[q] = row[q] /\ asked'[q] = asked[q]
      /\ asked'[r] = asked[r] + 1 /\ asked[r] \in Nat
  BY DEF RetryDelivery, IInv, TypeOK
<1>3. /\ row'[r] \in Row /\ Same(row[r], row'[r]) /\ row'[r].status = "queued"
      /\ row'[r].heldAt = row[r].heldAt /\ row'[r].retries = row[r].retries
  BY <1>1, <1>2, StatusUpdate
<1>4. OutsideRow(r)
  <2>1. /\ row[r].cls = "lxmf" => row[r].link \notin Sat
        /\ row[r].max > 0 => row[r].retries < row[r].max
        /\ row[r].heldAt <= now
    BY DEF IInv, LxmfOK, BudgetOK, RetriesWithinBudget, HeldOK
  <2>2. r \notin cancelled' /\ row[r].status = "dead" /\ now' = now
    BY DEF RetryDelivery
  <2> QED BY <1>2, <1>3, <2>1, <2>2 DEF OutsideRow, Same
<1>5. \A q \in Rows : OutsideRow(q)
  BY <1>2, <1>4, SameRow DEF RetryDelivery
<1>6. TypeOK'
  BY <1>2, <1>3 DEF IInv, TypeOK, RetryDelivery, links
<1> QED BY <1>5, <1>6, SameWorkers, OutsidePreserves
        DEF RetryDelivery, links, IInv, DownOK

LEMMA EndSendingPreserves ==
  ASSUME IInv, NEW r \in Rows, EndSendingDelivery(r)
  PROVE  IInv'
<1>1. row[r] \in Row /\ now \in Nat
  BY DEF IInv, TypeOK
<1>2. /\ row'[r] = [row[r] EXCEPT !.expires = now]
      /\ \A q \in Rows : q # r => row'[q] = row[q]
  BY DEF EndSendingDelivery, IInv, TypeOK
<1>3. /\ row'[r] \in Row /\ Same(row[r], row'[r]) /\ row'[r].status = row[r].status
      /\ row'[r].heldAt = row[r].heldAt /\ row'[r].retries = row[r].retries
  BY <1>1, <1>2 DEF Row, Same
<1>4. OutsideRow(r)
  <2>1. /\ row[r].cls = "lxmf" => row[r].link \notin Sat
        /\ row[r].max > 0 => row[r].retries < row[r].max
        /\ row[r].heldAt <= now /\ asked[r] \in Nat
        /\ r \in cancelled /\ row[r].cls # "lxmf" => row[r].status # "sending"
    BY DEF IInv, TypeOK, LxmfOK, BudgetOK, RetriesWithinBudget, HeldOK, CancelOK
  <2>2. /\ cancelled' = cancelled /\ row[r].status = "sending" /\ now' = now
        /\ asked' = asked
    BY DEF EndSendingDelivery
  <2> QED BY <1>3, <2>1, <2>2 DEF OutsideRow, Same
<1>5. \A q \in Rows : OutsideRow(q)
  BY <1>2, <1>4, SameRow DEF EndSendingDelivery
<1>6. TypeOK'
  BY <1>2, <1>3 DEF IInv, TypeOK, EndSendingDelivery, links
<1> QED BY <1>5, <1>6, SameWorkers, OutsidePreserves
        DEF EndSendingDelivery, links, IInv, DownOK

\* The reaper's statement on one row.
LEMMA ExpiredRow ==
  ASSUME IInv, NEW r \in Rows, Expirable(r), now' = now, asked' = asked,
         row'[r] = [row[r] EXCEPT !.status = "expired"]
  PROVE  row'[r] \in Row /\ OutsideRow(r)
<1>1. row[r] \in Row /\ "expired" \in Status
  BY DEF IInv, TypeOK, Status
<1>2. /\ row'[r] \in Row /\ Same(row[r], row'[r]) /\ row'[r].status = "expired"
      /\ row'[r].heldAt = row[r].heldAt /\ row'[r].retries = row[r].retries
  BY <1>1, StatusUpdate
<1> QED BY <1>2, EndedRow DEF Expirable, Waiting

LEMMA ExpirePreserves ==
  ASSUME IInv, ExpireDeliveries
  PROVE  IInv'
<1>1. \A r \in Rows : row'[r] \in Row /\ OutsideRow(r)
  <2> SUFFICES ASSUME NEW r \in Rows PROVE row'[r] \in Row /\ OutsideRow(r)
    OBVIOUS
  <2>1. row[r] \in Row
    BY DEF IInv, TypeOK
  <2>2. CASE Expirable(r)
    BY <2>2, ExpiredRow DEF ExpireDeliveries
  <2>3. CASE ~Expirable(r)
    BY <2>1, <2>3, SameRow DEF ExpireDeliveries
  <2> QED BY <2>2, <2>3
<1>2. TypeOK'
  BY <1>1 DEF IInv, TypeOK, ExpireDeliveries, links
<1> QED BY <1>1, <1>2, SameWorkers, OutsidePreserves
        DEF ExpireDeliveries, links, IInv, DownOK

LEMMA ExpireForChannelPreserves ==
  ASSUME IInv, NEW w \in Workers, ExpireDeliveriesForChannel(w)
  PROVE  IInv'
<1>1. \A r \in Rows : row'[r] \in Row /\ OutsideRow(r)
  <2> SUFFICES ASSUME NEW r \in Rows PROVE row'[r] \in Row /\ OutsideRow(r)
    OBVIOUS
  <2>1. row[r] \in Row
    BY DEF IInv, TypeOK
  <2>2. CASE Expirable(r) /\ row[r].link = wk[w].link
    BY <2>2, ExpiredRow DEF ExpireDeliveriesForChannel
  <2>3. CASE ~(Expirable(r) /\ row[r].link = wk[w].link)
    BY <2>1, <2>3, SameRow DEF ExpireDeliveriesForChannel
  <2> QED BY <2>2, <2>3
<1>2. TypeOK'
  BY <1>1 DEF IInv, TypeOK, ExpireDeliveriesForChannel, links
<1> QED BY <1>1, <1>2, SameWorkers, OutsidePreserves
        DEF ExpireDeliveriesForChannel, links, IInv, DownOK

\* The clock, and the switches that touch neither rows nor workers.
LEMMA QuietPreserves ==
  ASSUME IInv,
         Tick \/ SetLXMFSender \/ (\E l \in Links, on \in BOOLEAN : SetEnabled(l, on))
  PROVE  IInv'
<1>1. /\ up' = up /\ row' = row /\ wk' = wk /\ now' \in {now, now + 1}
      /\ cancelled' = cancelled /\ asked' = asked /\ sessions' = sessions
  BY DEF Tick, SetLXMFSender, SetEnabled, ledger, links, IInv, TypeOK
<1>2. \A r \in Rows : OutsideRow(r)
  BY <1>1, SameRow
<1>3. TypeOK'
  <2>1. CASE Tick
    <3>1. heldFor' \in [Rows -> Nat] /\ now' \in Nat
      BY <2>1 DEF Tick, IInv, TypeOK
    <3> QED BY <2>1, <3>1 DEF Tick, links, IInv, TypeOK
  <2>2. CASE SetLXMFSender
    BY <2>2 DEF SetLXMFSender, ledger, links, IInv, TypeOK
  <2>3. ASSUME NEW l \in Links, NEW on \in BOOLEAN, SetEnabled(l, on)
        PROVE  TypeOK'
    BY <2>3 DEF SetEnabled, ledger, links, IInv, TypeOK
  <2> QED BY <2>1, <2>2, <2>3
<1> QED BY <1>1, <1>2, <1>3, SameWorkers, OutsidePreserves DEF IInv, DownOK

-----------------------------------------------------------------------------
(* The life of a worker. *)

LEMMA NewWorkerShape ==
  ASSUME NEW l \in Links
  PROVE  NewWorker(l) \in Worker /\ NewWorker(l).pc = "idle" /\ NewWorker(l).batch = {}
BY DEF NewWorker, Worker, PC, Answer

LEMMA GoneWorkerShape ==
  GoneWorker \in Worker /\ GoneWorker.pc = "gone" /\ GoneWorker.batch = {}
<1>1. PICK l \in Links : l = CHOOSE m \in Links : TRUE
  BY LedgerAssumption
<1>2. GoneWorker = [NewWorker(l) EXCEPT !.pc = "gone"]
  BY <1>1 DEF GoneWorker
<1> QED BY <1>2 DEF NewWorker, Worker, PC, Answer

LEMMA StopPreserves ==
  ASSUME IInv, NEW l \in Links, StopWorker(l)
  PROVE  IInv'
<1>1. \A r \in Rows : row'[r] \in Row /\ OutsideRow(r)
  <2> SUFFICES ASSUME NEW r \in Rows PROVE row'[r] \in Row /\ OutsideRow(r)
    OBVIOUS
  <2>1. row[r] \in Row /\ now \in Nat
    BY DEF IInv, TypeOK
  <2>2. CASE row[r].link = l /\ row[r].status \in Waiting
    <3>1. row'[r] = [row[r] EXCEPT !.status = "held", !.heldAt = now]
      BY <2>2 DEF StopWorker, HoldDeliveriesForChannel, HoldRow
    <3>2. /\ row'[r] \in Row /\ Same(row[r], row'[r]) /\ row'[r].status = "held"
          /\ row'[r].heldAt = now /\ row'[r].retries = row[r].retries
      BY <2>1, <3>1, ZenonT(60) DEF Row, Same, Status
    <3> QED BY <2>2, <3>2, EndedRow DEF StopWorker, Waiting
  <2>3. CASE ~(row[r].link = l /\ row[r].status \in Waiting)
    BY <2>1, <2>3, SameRow DEF StopWorker, HoldDeliveriesForChannel
  <2> QED BY <2>2, <2>3
<1>2. PICK v \in Workers : v = workerOf[l]
  BY DEF StopWorker, IInv, TypeOK
<1>3. /\ wk'[v] = [wk[v] EXCEPT !.stopped = TRUE] /\ wk[v] \in Worker
      /\ \A w \in Workers : w # v => wk'[w] = wk[w]
  BY <1>2 DEF StopWorker, IInv, TypeOK
<1>4. /\ wk'[v] \in Worker /\ wk'[v].pc = wk[v].pc /\ wk'[v].job = wk[v].job
      /\ wk'[v].link = wk[v].link /\ wk'[v].batch = wk[v].batch
      /\ wk'[v].answer = wk[v].answer
  BY <1>3 DEF Worker
<1>5. \A w \in Workers : OutsideWorker(w)
  BY <1>3, <1>4 DEF OutsideWorker
<1>6. TypeOK'
  <2>1. wk' \in [Workers -> Worker]
    BY <1>3, <1>4 DEF StopWorker, IInv, TypeOK
  <2>2. row' \in [Rows -> Row]
    BY <1>1 DEF StopWorker, HoldDeliveriesForChannel
  <2> QED BY <2>1, <2>2 DEF StopWorker, IInv, TypeOK
<1>7. up' = up /\ sessions' = sessions /\ DownOK'
  BY DEF StopWorker, IInv, DownOK
<1> QED BY <1>1, <1>5, <1>6, <1>7, OutsidePreserves

\* A held row that is released gets its time back, or keeps its deadline.
LEMMA UnholdShape ==
  ASSUME IInv, NEW r \in Rows
  PROVE  \E x \in Nat \cup {NoTTL} :
           UnholdRow(r) = Unheld(row[r], x)
<1>1. row[r] \in Row /\ now \in Nat /\ row[r].heldAt <= now
  BY DEF IInv, TypeOK, HeldOK
<1>2. PICK x \in Nat \cup {NoTTL} :
        x = IF row[r].expires # NoTTL /\ row[r].rule
            THEN row[r].expires + (now - row[r].heldAt) ELSE row[r].expires
  <2>1. row[r].expires \in Nat \cup {NoTTL} /\ row[r].heldAt \in Nat
    BY <1>1, RowFields
  <2>2. CASE row[r].expires # NoTTL /\ row[r].rule
    <3>1. row[r].expires + (now - row[r].heldAt) \in Nat
      BY <1>1, <2>1, <2>2
    <3> QED BY <2>2, <3>1
  <2>3. CASE ~(row[r].expires # NoTTL /\ row[r].rule)
    BY <2>1, <2>3
  <2> QED BY <2>2, <2>3
<1>3. UnholdRow(r) = Unheld(row[r], x)
  BY <1>1, <1>2 DEF UnholdRow, Row, Unheld
<1> QED BY <1>3

LEMMA UnheldRow ==
  ASSUME IInv, NEW r \in Rows, row[r].status = "held", NEW x \in Nat \cup {NoTTL},
         row'[r] = Unheld(row[r], x),
         now' = now, asked' = asked, cancelled' = cancelled
  PROVE  row'[r] \in Row /\ OutsideRow(r)
<1>1. row[r] \in Row
  BY DEF IInv, TypeOK
<1>2. /\ row'[r] \in Row /\ Same(row[r], row'[r]) /\ row'[r].status = "queued"
      /\ row'[r].heldAt = 0 /\ row'[r].retries = row[r].retries
  BY <1>1, UnholdUpdate
<1> QED BY <1>2, EndedRow

LEMMA StartWorkerPreserves ==
  ASSUME IInv, NEW l \in Links, StartWorker(l)
  PROVE  IInv'
<1>1. \A r \in Rows : row'[r] \in Row /\ OutsideRow(r)
  <2> SUFFICES ASSUME NEW r \in Rows PROVE row'[r] \in Row /\ OutsideRow(r)
    OBVIOUS
  <2>1. row[r] \in Row
    BY DEF IInv, TypeOK
  <2>2. CASE row[r].link = l /\ row[r].status = "held"
    <3>1. PICK x \in Nat \cup {NoTTL} :
            UnholdRow(r) = Unheld(row[r], x)
      BY UnholdShape
    <3>2. row'[r] = Unheld(row[r], x)
      BY <2>2, <3>1 DEF StartWorker, UnholdDeliveriesForChannel
    <3>3. now' = now /\ asked' = asked /\ cancelled' = cancelled
      BY DEF StartWorker
    <3> QED BY <2>2, <3>2, <3>3, UnheldRow
  <2>3. CASE ~(row[r].link = l /\ row[r].status = "held")
    BY <2>1, <2>3, SameRow DEF StartWorker, UnholdDeliveriesForChannel
  <2> QED BY <2>2, <2>3
<1>2. row' \in [Rows -> Row]
  BY <1>1 DEF StartWorker, UnholdDeliveriesForChannel
<1>3. CASE UNCHANGED <<workerOf, wk>>
  <2>1. TypeOK'
    BY <1>2, <1>3 DEF StartWorker, IInv, TypeOK
  <2> QED BY <1>1, <1>3, <2>1, SameWorkers, OutsidePreserves
          DEF StartWorker, IInv, DownOK
<1>4. ASSUME NEW w \in Workers, wk[w].pc = "gone",
             wk' = [wk EXCEPT ![w] = NewWorker(l)],
             workerOf' = [workerOf EXCEPT ![l] = w]
      PROVE  IInv'
  <2>1. /\ wk'[w] = NewWorker(l) /\ \A v \in Workers : v # w => wk'[v] = wk[v]
        /\ wk' \in [Workers -> Worker]
    BY <1>4, NewWorkerShape DEF IInv, TypeOK
  <2>2. \A v \in Workers : OutsideWorker(v)
    <3>1. OutsideWorker(w)
      BY <1>4, <2>1, NewWorkerShape DEF OutsideWorker, Active, InFlight
    <3> QED BY <2>1, <3>1 DEF OutsideWorker
  <2>3. TypeOK'
    BY <1>2, <1>4, <2>1 DEF StartWorker, IInv, TypeOK
  <2> QED BY <1>1, <2>2, <2>3, OutsidePreserves DEF StartWorker, IInv, DownOK
<1> QED BY <1>3, <1>4 DEF StartWorker

LEMMA CrashPreserves ==
  ASSUME IInv, Crash
  PROVE  IInv'
<1>1. \A r \in Rows : OutsideRow(r)
  BY SameRow DEF Crash, ledger
<1>2. \A w \in Workers : wk'[w].pc = "gone" /\ wk'[w].batch = {}
  BY GoneWorkerShape DEF Crash
<1>3. \A w \in Workers : OutsideWorker(w)
  BY <1>2 DEF OutsideWorker, Active, Crash
<1>4. TypeOK'
  <2>1. wk' \in [Workers -> Worker] /\ workerOf' \in [Links -> Workers \cup {NoWorker}]
    BY GoneWorkerShape DEF Crash
  <2>2. /\ up' = FALSE /\ router' = FALSE /\ crashes' = crashes + 1
        /\ now' = now /\ enabled' = enabled /\ sessions' = sessions
        /\ row' = row /\ asked' = asked /\ cancelled' = cancelled
        /\ heldFor' = heldFor /\ deadline' = deadline
    BY DEF Crash, ledger
  <2>3. up' \in BOOLEAN /\ router' \in BOOLEAN
    BY <2>2
  <2>4. crashes' \in Nat
    BY <2>2 DEF IInv, TypeOK
  <2> HIDE DEF IInv
  <2>5. /\ now' \in Nat /\ row' \in [Rows -> Row] /\ enabled' \in [Links -> BOOLEAN]
        /\ sessions' \in [Rows -> Int] /\ asked' \in [Rows -> Nat]
        /\ cancelled' \subseteq Rows /\ heldFor' \in [Rows -> Nat]
        /\ deadline' \in [Rows -> Nat \cup {NoTTL}]
    BY <2>2 DEF IInv, TypeOK
  <2> QED BY <2>1, <2>3, <2>4, <2>5 DEF TypeOK
<1> QED BY <1>1, <1>2, <1>3, <1>4, OutsidePreserves DEF Crash, ledger, DownOK

\* What the start of the process makes of one row.
LEMMA RecoveredShape ==
  ASSUME IInv, NEW r \in Rows, NEW e, e = RecoveredRow(r)
  PROVE  /\ e \in Row /\ Same(row[r], e)
         /\ e.heldAt = row[r].heldAt /\ e.retries = row[r].retries
         /\ \/ e.status = row[r].status /\ e.status # "sending"
            \/ e.status = "dead" /\ row[r].status \in Waiting \cup {"sending"}
            \/ /\ e.status = "retry" /\ row[r].status = "sending"
               /\ row[r].link \notin Sat \/ SosFrame(r)
<1>1. row[r] \in Row
  BY DEF IInv, TypeOK
<1>2. CASE Runaway(r)
  <2>0. row[r].status \in Waiting /\ row[r].status # "sending"
    BY <1>2 DEF Runaway, Waiting
  <2>1. e = [row[r] EXCEPT !.status = "dead", !.why = "runaway"]
    BY <1>2, <2>0 DEF RecoveredRow
  <2> QED BY <1>1, <2>0, <2>1 DEF Row, Same, Status, Why
<1>3. CASE ~Runaway(r) /\ row[r].status = "sending"
  <2>1. CASE row[r].link \in Sat /\ ~SosFrame(r)
    <3>1. e = [row[r] EXCEPT !.status = "dead", !.why = "uncertain"]
      BY <1>3, <2>1 DEF RecoveredRow
    <3> QED BY <1>1, <1>3, <3>1 DEF Row, Same, Status, Why
  <2>2. CASE ~(row[r].link \in Sat /\ ~SosFrame(r))
    <3>1. e = [row[r] EXCEPT !.status = "retry", !.why = "none"]
      BY <1>3, <2>2 DEF RecoveredRow
    <3> QED BY <1>1, <1>3, <2>2, <3>1 DEF Row, Same, Status, Why
  <2> QED BY <2>1, <2>2
<1>4. CASE ~Runaway(r) /\ row[r].status # "sending"
  <2>1. e = row[r]
    BY <1>4 DEF RecoveredRow
  <2> QED BY <1>1, <1>4, <2>1 DEF Same
<1> QED BY <1>2, <1>3, <1>4

LEMMA StartPreserves ==
  ASSUME IInv, Start
  PROVE  IInv'
<1>1. /\ \A r \in Rows :
           /\ row'[r] \in Row /\ Same(row[r], row'[r])
           /\ row'[r].heldAt = row[r].heldAt /\ row'[r].retries = row[r].retries
           /\ \/ row'[r].status = row[r].status /\ row'[r].status # "sending"
              \/ row'[r].status = "dead" /\ row[r].status \in Waiting \cup {"sending"}
              \/ /\ row'[r].status = "retry" /\ row[r].status = "sending"
                 /\ row[r].link \notin Sat \/ SosFrame(r)
      /\ row' \in [Rows -> Row]
  BY RecoveredShape DEF Start
<1>2. PICK f \in [Links -> Workers] :
        /\ workerOf' = [l \in Links |-> IF enabled[l] THEN f[l] ELSE NoWorker]
        /\ wk' = [w \in Workers |->
                    IF \E l \in Links : enabled[l] /\ f[l] = w
                    THEN NewWorker(CHOOSE l \in Links : enabled[l] /\ f[l] = w)
                    ELSE wk[w]]
  BY DEF Start
<1>3. \A w \in Workers : /\ wk'[w] \in Worker /\ wk'[w].pc \in {"idle", "gone"}
                         /\ wk'[w].batch = {} \/ wk'[w] = wk[w]
  <2> SUFFICES ASSUME NEW w \in Workers
               PROVE  /\ wk'[w] \in Worker /\ wk'[w].pc \in {"idle", "gone"}
                      /\ wk'[w].batch = {} \/ wk'[w] = wk[w]
    OBVIOUS
  <2>1. CASE \E l \in Links : enabled[l] /\ f[l] = w
    <3>1. PICK k \in Links : k = CHOOSE l \in Links : enabled[l] /\ f[l] = w
      BY <2>1
    <3>2. wk'[w] = NewWorker(k)
      BY <1>2, <2>1, <3>1
    <3> QED BY <3>2, NewWorkerShape
  <2>2. CASE ~(\E l \in Links : enabled[l] /\ f[l] = w)
    BY <1>2, <2>2 DEF Start, IInv, TypeOK, DownOK
  <2> QED BY <2>1, <2>2
<1>4. /\ now' = now /\ enabled' = enabled /\ router' = router /\ crashes' = crashes
      /\ sessions' = sessions /\ asked' = asked /\ cancelled' = cancelled
      /\ heldFor' = heldFor /\ deadline' = deadline /\ up' = TRUE
  BY DEF Start
<1>5. TypeOK'
  <2>1. wk' \in [Workers -> Worker] /\ workerOf' \in [Links -> Workers \cup {NoWorker}]
    BY <1>2, <1>3
  <2> QED BY <1>1, <1>4, <2>1 DEF IInv, TypeOK
<1>6. JobOK'
  <2>1. \A w \in Workers : wk'[w].pc \notin Active
    BY <1>3 DEF Active
  <2>2. ASSUME NEW w \in Workers, NEW s \in wk'[w].batch
        PROVE  row'[s.id].status # "none" /\ row'[s.id].link = wk'[w].link
    <3>1. wk'[w] = wk[w]
      BY <1>3, <2>2
    <3>2. s \in Snap /\ s.id \in Rows
      BY <2>2, <3>1, WorkerFields, SnapFields DEF IInv, TypeOK
    <3>3. row[s.id].status # "none" /\ row[s.id].link = wk[w].link
      BY <2>2, <3>1 DEF IInv, JobOK
    <3> QED BY <1>1, <3>1, <3>2, <3>3 DEF Same
  <2> QED BY <2>1, <2>2 DEF JobOK
<1>7. HeldOK' /\ DownOK'
  BY <1>1, <1>4 DEF IInv, HeldOK, DownOK
<1>8. LxmfOK' /\ ClaimOK' /\ OneBusy'
  <2>1. \A r \in Rows : row'[r].cls = "lxmf" => row'[r].link \notin Sat
    BY <1>1 DEF IInv, LxmfOK, Same
  <2>2. \A w \in Workers : wk'[w].pc \notin Busy
    BY <1>3 DEF Busy, InFlight
  <2> QED BY <2>1, <2>2 DEF LxmfOK, ClaimOK, OneBusy, Busy, InFlight
<1>9. CancelOK'
  <2>1. \A r \in cancelled : /\ row'[r].status # "none"
                             /\ row'[r].cls # "lxmf"
                                => row'[r].status \in {"dead", "denied", "expired"}
    <3> SUFFICES ASSUME NEW r \in cancelled
                 PROVE  /\ row'[r].status # "none"
                        /\ row'[r].cls # "lxmf"
                           => row'[r].status \in {"dead", "denied", "expired"}
      OBVIOUS
    <3>1. /\ r \in Rows /\ row[r].status # "none"
          /\ row[r].cls # "lxmf" => row[r].status \in {"dead", "denied", "expired"}
      BY DEF IInv, TypeOK, CancelOK
    <3> QED BY <1>1, <3>1 DEF Same, Waiting
  <2>2. \A w \in Workers : wk'[w].pc \notin Busy
    BY <1>3 DEF Busy, InFlight
  <2> QED BY <1>4, <2>1, <2>2 DEF CancelOK
<1>10. SessionsOK'
  <2>1. ASSUME NEW r \in Rows
        PROVE  /\ sessions[r] <= 1 + asked[r]
               /\ row'[r].status \in {"none", "queued", "retry", "held"} => sessions[r] <= asked[r]
               /\ row'[r].status = "none" => sessions[r] <= 0
               /\ row'[r].link \notin Sat \/ SosFrame(r)' => sessions[r] <= 0
    <3>1. sessions[r] \in Int /\ asked[r] \in Nat
      BY DEF IInv, TypeOK
    <3> QED BY <1>1, <3>1 DEF IInv, SessionsOK, SosFrame, Same, Waiting
  <2> QED BY <1>3, <1>4, <2>1 DEF SessionsOK
<1>11. NothingStuckSending'
  BY <1>1 DEF NothingStuckSending, Waiting
<1>12. BudgetOK'
  <2>1. RetriesWithinBudget'
    BY <1>1 DEF IInv, BudgetOK, RetriesWithinBudget, Same
  <2>2. ASSUME NEW w \in Workers, NEW s \in wk'[w].batch, row'[s.id].max > 0
        PROVE  s.retries < row'[s.id].max
    <3>1. wk'[w] = wk[w]
      BY <1>3, <2>2
    <3>2. s \in Snap /\ s.id \in Rows
      BY <2>2, <3>1, WorkerFields, SnapFields DEF IInv, TypeOK
    <3> QED BY <1>1, <2>2, <3>1, <3>2 DEF IInv, BudgetOK, Same
  <2> QED BY <1>3, <2>1, <2>2 DEF BudgetOK, Active
<1> QED BY <1>5, <1>6, <1>7, <1>8, <1>9, <1>10, <1>11, <1>12 DEF IInv

-----------------------------------------------------------------------------
(* Steps of a worker. *)

\* What the worker that takes a step holds, and what the others hold.
LEMMA HeldRows ==
  ASSUME IInv
  PROVE  /\ \A v \in Workers : wk[v].pc \in Active =>
              /\ wk[v].job \in Snap /\ wk[v].job.id \in Rows
              /\ row[wk[v].job.id].status # "none"
              /\ row[wk[v].job.id].link = wk[v].link
         /\ \A v \in Workers : \A s \in wk[v].batch :
              /\ s \in Snap /\ s.id \in Rows
              /\ row[s.id].status # "none" /\ row[s.id].link = wk[v].link
BY WorkerFields, SnapFields DEF IInv, TypeOK, JobOK

\* Rows keep what no statement changes, and a worker keeps what it holds, or
\* takes a row of its batch.
KeepsRows ==
  \A q \in Rows : row[q].status # "none" =>
    row'[q].status # "none" /\ Same(row[q], row'[q])

KeepsJob(v) ==
  /\ wk'[v].link = wk[v].link /\ wk'[v].batch \subseteq wk[v].batch
  /\ wk'[v].pc \in Active =>
       \/ wk[v].pc \in Active /\ wk'[v].job = wk[v].job
       \/ wk'[v].job \in wk[v].batch

LEMMA JobsKept ==
  ASSUME IInv, KeepsRows, RetriesWithinBudget', \A v \in Workers : KeepsJob(v)
  PROVE  JobOK' /\ BudgetOK'
<1>1. ASSUME NEW v \in Workers, NEW s \in wk'[v].batch
      PROVE  /\ row'[s.id].status # "none" /\ row'[s.id].link = wk'[v].link
             /\ row'[s.id].max > 0 => s.retries < row'[s.id].max
  <2>1. s \in wk[v].batch /\ wk'[v].link = wk[v].link
    BY <1>1 DEF KeepsJob
  <2>2. /\ s.id \in Rows /\ row[s.id].status # "none" /\ row[s.id].link = wk[v].link
        /\ row[s.id].max > 0 => s.retries < row[s.id].max
    BY <2>1, HeldRows DEF IInv, BudgetOK
  <2> QED BY <2>1, <2>2 DEF KeepsRows, Same
<1>2. ASSUME NEW v \in Workers, wk'[v].pc \in Active
      PROVE  /\ wk'[v].job \in Snap /\ row'[wk'[v].job.id].status # "none"
             /\ row'[wk'[v].job.id].link = wk'[v].link
             /\ row'[wk'[v].job.id].max > 0
                => wk'[v].job.retries < row'[wk'[v].job.id].max
  <2>0. wk'[v].link = wk[v].link
    BY DEF KeepsJob
  <2>1. PICK s : s = wk'[v].job
    OBVIOUS
  <2>2. /\ s \in Snap /\ s.id \in Rows /\ row[s.id].status # "none"
        /\ row[s.id].link = wk[v].link
        /\ row[s.id].max > 0 => s.retries < row[s.id].max
    <3>1. CASE wk[v].pc \in Active /\ wk'[v].job = wk[v].job
      BY <2>1, <3>1, HeldRows DEF IInv, BudgetOK
    <3>2. CASE wk'[v].job \in wk[v].batch
      BY <2>1, <3>2, HeldRows DEF IInv, BudgetOK
    <3> QED BY <1>2, <3>1, <3>2 DEF KeepsJob
  <2>3. row'[s.id].status # "none" /\ Same(row[s.id], row'[s.id])
    BY <2>2 DEF KeepsRows
  <2> QED BY <2>0, <2>1, <2>2, <2>3 DEF Same
<1> QED BY <1>1, <1>2 DEF JobOK, BudgetOK

LEMMA FinishShape ==
  ASSUME wk \in [Workers -> Worker], NEW w \in Workers, Finish(w)
  PROVE  /\ wk' \in [Workers -> Worker] /\ wk'[w].pc \in {"idle", "batch"}
         /\ wk'[w].batch = wk[w].batch /\ wk'[w].link = wk[w].link
         /\ \A v \in Workers : v # w => wk'[v] = wk[v]
<1> DEFINE p == IF wk[w].batch = {} THEN "idle" ELSE "batch"
           u == [wk[w] EXCEPT !.pc = p, !.job = NoJob, !.answer = "ok"]
<1>1. wk[w] \in Worker
  OBVIOUS
<1>2. /\ u \in Worker /\ u.pc \in {"idle", "batch"}
      /\ u.batch = wk[w].batch /\ u.link = wk[w].link
  BY <1>1 DEF Worker, PC, Answer
<1>3. wk' = [wk EXCEPT ![w] = u]
  BY DEF Finish
<1> HIDE DEF u
<1> QED BY <1>2, <1>3

\* Nothing but the row and the cancelled ones changes besides the worker.
Quiet ==
  UNCHANGED <<up, now, enabled, workerOf, router, crashes, sessions, asked,
              heldFor, deadline>>

\* A worker writes its last word on a row and goes on.
LEMMA FinishPreserves ==
  ASSUME IInv, Quiet, NEW w \in Workers, wk[w].pc \in Active, Finish(w),
         NEW r \in Rows, r = wk[w].job.id,
         row' \in [Rows -> Row], \A q \in Rows : q # r => row'[q] = row[q],
         Same(row[r], row'[r]), row'[r].status # "none", row'[r].heldAt <= now,
         row'[r].max > 0 => row'[r].retries < row'[r].max,
         cancelled' \subseteq cancelled \cup {r},
         \/ row'[r] = row[r] /\ cancelled' = cancelled /\ wk[w].pc \notin InFlight
         \/ row[r].cls = "lxmf" /\ row'[r].status # "sending"
         \/ /\ wk[w].pc \in Busy /\ row'[r].status # "sending"
            /\ cancelled' = cancelled
         \/ row'[r].status \in {"denied", "expired"} /\ cancelled' = cancelled
         \/ row[r].status \in {"queued", "retry", "held"} /\ row'[r].status = "dead",
         row'[r].status \in {"queued", "retry", "held"} => sessions[r] <= asked[r]
  PROVE  IInv'
<1> USE DEF Active, Busy, InFlight
<1>0. /\ wk' \in [Workers -> Worker] /\ wk'[w].pc \in {"idle", "batch"}
      /\ wk'[w].batch = wk[w].batch /\ wk'[w].link = wk[w].link
      /\ \A v \in Workers : v # w => wk'[v] = wk[v]
  BY FinishShape DEF IInv, TypeOK
<1>1. KeepsRows
  BY DEF Same, KeepsRows
<1>2. TypeOK'
  BY <1>0 DEF IInv, TypeOK, Quiet
<1>3. JobOK' /\ BudgetOK'
  <2>1. RetriesWithinBudget'
    BY DEF IInv, BudgetOK, RetriesWithinBudget
  <2>2. \A v \in Workers : KeepsJob(v)
    BY <1>0 DEF KeepsJob
  <2> QED BY <1>1, <2>1, <2>2, JobsKept
<1>4. HeldOK' /\ DownOK'
  BY DEF IInv, HeldOK, DownOK, Quiet
<1>5. LxmfOK'
  <2>1. \A q \in Rows : row'[q].cls = "lxmf" => row'[q].link \notin Sat
    BY DEF IInv, LxmfOK, Same
  <2>2. ASSUME NEW v \in Workers, wk'[v].pc \in {"answered", "moved"},
               wk'[v].answer = "unacked"
        PROVE  row'[wk'[v].job.id].cls # "lxmf"
    <3>1. v # w /\ wk'[v] = wk[v]
      BY <1>0, <2>2
    <3>2. wk[v].job.id \in Rows /\ row[wk[v].job.id].status # "none"
      BY <2>2, <3>1, HeldRows
    <3>3. row[wk[v].job.id].cls # "lxmf"
      BY <2>2, <3>1 DEF IInv, LxmfOK
    <3> QED BY <1>1, <3>1, <3>2, <3>3 DEF KeepsRows, Same
  <2> QED BY <2>1, <2>2 DEF LxmfOK
<1>6. ASSUME NEW v \in Workers, wk'[v].pc \in Busy, row'[wk'[v].job.id].cls # "lxmf"
      PROVE  /\ v # w /\ wk'[v] = wk[v] /\ wk[v].job.id \in Rows
             /\ row[wk[v].job.id].cls # "lxmf"
             /\ row[wk[v].job.id].status \in {"sending", "sent", "denied", "expired"}
             /\ wk[v].job.id \notin cancelled
             /\ wk[w].pc \in Busy => wk[v].job.id # r
  <2>1. v # w /\ wk'[v] = wk[v]
    BY <1>0, <1>6
  <2>2. wk[v].job.id \in Rows /\ row[wk[v].job.id].cls # "lxmf"
    <3>1. wk[v].job.id \in Rows /\ row[wk[v].job.id].status # "none"
      BY <1>6, <2>1, HeldRows
    <3> QED BY <1>1, <1>6, <2>1, <3>1 DEF KeepsRows, Same
  <2> QED BY <1>6, <2>1, <2>2 DEF IInv, ClaimOK, CancelOK, OneBusy
<1>7. ClaimOK'
  <2> SUFFICES ASSUME NEW v \in Workers, wk'[v].pc \in Busy,
                      row'[wk'[v].job.id].cls # "lxmf"
               PROVE  row'[wk'[v].job.id].status \in {"sending", "sent", "denied", "expired"}
    BY DEF ClaimOK
  <2>1. /\ wk'[v] = wk[v] /\ wk[v].job.id \in Rows /\ row[wk[v].job.id].cls # "lxmf"
        /\ row[wk[v].job.id].status \in {"sending", "sent", "denied", "expired"}
        /\ wk[w].pc \in Busy => wk[v].job.id # r
    BY <1>6
  <2>2. CASE wk[v].job.id # r
    BY <2>1, <2>2
  <2>3. CASE wk[v].job.id = r
    BY <2>1, <2>3
  <2> QED BY <2>2, <2>3
<1>8. OneBusy'
  <2> SUFFICES ASSUME NEW u \in Workers, NEW v \in Workers, u # v,
                      wk'[u].pc \in Busy, wk'[v].pc \in Busy,
                      wk'[u].job.id = wk'[v].job.id, row'[wk'[u].job.id].cls # "lxmf"
               PROVE  FALSE
    BY DEF OneBusy
  <2>1. wk'[u] = wk[u] /\ wk'[v] = wk[v] /\ row[wk[u].job.id].cls # "lxmf"
    BY <1>6
  <2> QED BY <2>1 DEF IInv, OneBusy
<1>9. CancelOK'
  <2>1. \A q \in cancelled' : /\ row'[q].status # "none"
                              /\ row'[q].cls # "lxmf"
                                 => row'[q].status \in {"dead", "denied", "expired"}
    <3> SUFFICES ASSUME NEW q \in cancelled'
                 PROVE  /\ row'[q].status # "none"
                        /\ row'[q].cls # "lxmf"
                           => row'[q].status \in {"dead", "denied", "expired"}
      OBVIOUS
    <3>1. CASE q # r
      BY <3>1 DEF IInv, TypeOK, CancelOK
    <3>2. CASE q = r
      BY <3>2 DEF IInv, CancelOK, Same
    <3> QED BY <3>1, <3>2
  <2>2. \A v \in Workers : wk'[v].pc \in Busy /\ row'[wk'[v].job.id].cls # "lxmf"
                           => wk'[v].job.id \notin cancelled'
    BY <1>6
  <2> QED BY <2>1, <2>2 DEF CancelOK
<1>10. SessionsOK'
  <2>0. sessions' = sessions /\ asked' = asked
    BY DEF Quiet
  <2>1. ASSUME NEW q \in Rows
        PROVE  /\ sessions[q] <= 1 + asked[q]
               /\ row'[q].status \in {"none", "queued", "retry", "held"} => sessions[q] <= asked[q]
               /\ row'[q].status = "none" => sessions[q] <= 0
               /\ row'[q].link \notin Sat \/ SosFrame(q)' => sessions[q] <= 0
    BY ZenonT(60) DEF IInv, SessionsOK, SosFrame, Same
  <2>2. ASSUME NEW v \in Workers,
               \/ wk'[v].pc = "sending"
               \/ wk'[v].pc = "answered" /\ wk'[v].answer \notin {"ok", "unknown"}
        PROVE  sessions[wk'[v].job.id] <= asked[wk'[v].job.id]
    BY <1>0, <2>2 DEF IInv, SessionsOK
  <2> QED BY <2>0, <2>1, <2>2 DEF SessionsOK
<1>11. NothingStuckSending'
  <2> SUFFICES ASSUME up', NEW q \in Rows, row'[q].status = "sending"
               PROVE  \E v \in Workers : wk'[v].pc \in InFlight /\ wk'[v].job.id = q
    BY DEF NothingStuckSending
  <2>1. row[q].status = "sending" /\ (q = r => wk[w].pc \notin InFlight)
    OBVIOUS
  <2>2. PICK v \in Workers : wk[v].pc \in InFlight /\ wk[v].job.id = q
    BY <2>1 DEF IInv, NothingStuckSending, Quiet
  <2>3. v # w
    BY <2>1, <2>2
  <2> QED BY <1>0, <2>2, <2>3
<1> QED BY <1>2, <1>3, <1>4, <1>5, <1>7, <1>8, <1>9, <1>10, <1>11 DEF IInv

\* SetDeliveryStatus on a row.
LEMMA WriteShape ==
  ASSUME IInv, NEW r \in Rows, NEW st \in Status, NEW y \in Why,
         SetDeliveryStatus(r, st, y)
  PROVE  /\ row' \in [Rows -> Row] /\ \A q \in Rows : q # r => row'[q] = row[q]
         /\ Same(row[r], row'[r]) /\ row'[r].status = st
         /\ row'[r].heldAt = row[r].heldAt /\ row'[r].retries = row[r].retries
<1> DEFINE e == [row[r] EXCEPT !.status = st, !.why = y]
<1>1. row[r] \in Row
  BY DEF IInv, TypeOK
<1>2. /\ e \in Row /\ Same(row[r], e) /\ e.status = st
      /\ e.heldAt = row[r].heldAt /\ e.retries = row[r].retries
  BY <1>1 DEF Row, Same
<1>3. row' = [row EXCEPT ![r] = e]
  BY DEF SetDeliveryStatus
<1> HIDE DEF e
<1> QED BY <1>2, <1>3 DEF IInv, TypeOK

\* The last word is a SetDeliveryStatus.
LEMMA StatusFinishPreserves ==
  ASSUME IInv, Quiet, NEW w \in Workers, wk[w].pc \in Active,
         NEW st \in {"denied", "expired", "sent", "delivered", "dead"}, NEW y \in Why,
         SetDeliveryStatus(wk[w].job.id, st, y), Finish(w), cancelled' = cancelled,
         st \in {"denied", "expired"} \/ wk[w].pc \in Busy
  PROVE  IInv'
<1>1. PICK r \in Rows : r = wk[w].job.id
  BY HeldRows
<1>2. st \in Status
  BY DEF Status
<1>3. /\ row' \in [Rows -> Row] /\ \A q \in Rows : q # r => row'[q] = row[q]
      /\ Same(row[r], row'[r]) /\ row'[r].status = st
      /\ row'[r].heldAt = row[r].heldAt /\ row'[r].retries = row[r].retries
  BY <1>1, <1>2, WriteShape
<1>4. row'[r].heldAt <= now /\ (row'[r].max > 0 => row'[r].retries < row'[r].max)
  BY <1>3 DEF IInv, HeldOK, BudgetOK, RetriesWithinBudget, Same
<1> QED BY <1>1, <1>3, <1>4, FinishPreserves

LEMMA RefusePreserves ==
  ASSUME IInv, NEW w \in Workers, RefuseAtGate(w)
  PROVE  IInv'
<1>0. wk[w].pc = "claim" /\ wk[w].pc \in Active /\ wk[w].pc \notin InFlight
  BY DEF RefuseAtGate, Active, InFlight
<1>1. PICK r \in Rows : r = wk[w].job.id
  BY <1>0, HeldRows
<1>2. Quiet /\ Finish(w)
  BY DEF RefuseAtGate, Quiet, links
<1>3. /\ row[r] \in Row /\ row \in [Rows -> Row] /\ row[r].heldAt <= now /\ now \in Nat
      /\ row[r].max > 0 => row[r].retries < row[r].max
      /\ row[r].status # "none"
  BY <1>0, <1>1, HeldRows DEF IInv, TypeOK, HeldOK, BudgetOK, RetriesWithinBudget
<1>4. CASE Cancellable(r) /\ cancelled' = cancelled \cup {r}
           /\ row' = [row EXCEPT ![r].status = "dead", ![r].why = "cancelled",
                                 ![r].heldAt = 0]
  <2>1. /\ row'[r] = [row[r] EXCEPT !.status = "dead", !.why = "cancelled", !.heldAt = 0]
        /\ \A q \in Rows : q # r => row'[q] = row[q]
    BY <1>3, <1>4
  <2>2. /\ row'[r] \in Row /\ Same(row[r], row'[r]) /\ row'[r].status = "dead"
        /\ row'[r].heldAt = 0 /\ row'[r].retries = row[r].retries
    BY <1>3, <2>1, CancelUpdate
  <2>3. row' \in [Rows -> Row]
    BY <1>3, <1>4, <2>1, <2>2
  <2>4. row'[r].heldAt <= now /\ (row'[r].max > 0 => row'[r].retries < row'[r].max)
    BY <1>3, <2>2 DEF Same
  <2>5. row[r].status \in {"queued", "retry", "held"}
    BY <1>4 DEF Cancellable, Waiting
  <2>6. /\ cancelled' \subseteq cancelled \cup {r} /\ row'[r].status # "none"
        /\ \A q \in Rows : q # r => row'[q] = row[q]
        /\ row'[r].status \notin {"queued", "retry", "held"}
    BY <1>4, <2>1, <2>2
  <2> QED BY <1>0, <1>1, <1>2, <2>2, <2>3, <2>4, <2>5, <2>6, FinishPreserves
<1>5. CASE UNCHANGED <<row, cancelled>>
  <2>1. /\ row' \in [Rows -> Row] /\ row'[r] = row[r]
        /\ \A q \in Rows : q # r => row'[q] = row[q]
        /\ cancelled' = cancelled /\ cancelled' \subseteq cancelled \cup {r}
    BY <1>3, <1>5
  <2>2. /\ Same(row[r], row'[r]) /\ row'[r].status # "none" /\ row'[r].heldAt <= now
        /\ row'[r].max > 0 => row'[r].retries < row'[r].max
        /\ row'[r].status \in {"queued", "retry", "held"} => sessions[r] <= asked[r]
    BY <1>3, <2>1 DEF Same, IInv, SessionsOK
  <2> QED BY <1>0, <1>1, <1>2, <2>1, <2>2, FinishPreserves
<1> QED BY <1>1, <1>4, <1>5 DEF RefuseAtGate

LEMMA EndedShape ==
  ASSUME NEW d \in Row, NEW y \in Why, NEW e, e = Ended(d, y)
  PROVE  /\ e \in Row /\ Same(d, e) /\ e.heldAt = d.heldAt
         /\ e.retries = d.retries /\ e.status = "dead"
BY DEF Ended, Row, Same, Status

LEMMA AgainShape ==
  ASSUME NEW d \in Row, NEW e, e = Again(d)
  PROVE  /\ e \in Row /\ Same(d, e) /\ e.heldAt = d.heldAt
         /\ e.retries = d.retries /\ e.status = "retry"
BY DEF Again, Row, Same, Status

LEMMA CountedShape ==
  ASSUME NEW d \in Row, NEW n \in Nat, NEW e, e = Counted(d, n)
  PROVE  /\ e \in Row /\ Same(d, e) /\ e.heldAt = d.heldAt
         /\ e.retries = n /\ e.status = "retry"
BY DEF Counted, Row, Same, Status

\* A counted failure stays within the budget.
LEMMA CountedFailureShape ==
  ASSUME NEW d \in Row, NEW n \in Nat, d.max > 0 => d.retries < d.max,
         NEW e, e = CountedFailure(d, n)
  PROVE  /\ e \in Row /\ Same(d, e) /\ e.heldAt = d.heldAt
         /\ e.status \in {"dead", "retry"}
         /\ e.max > 0 => e.retries < e.max
<1>1. d.max \in Nat /\ d.qos \in Nat /\ RunawayLimit \in Nat
  BY RowFields, LedgerAssumption
<1>2. PICK m \in Nat : m = CountRetry(n + 1, d.max)
  BY <1>1 DEF CountRetry
<1>e. ASSUME NEW y \in Why, e = Ended(d, y)
      PROVE  /\ e \in Row /\ Same(d, e) /\ e.heldAt = d.heldAt /\ e.status = "dead"
             /\ e.max > 0 => e.retries < e.max
  <2>1. /\ e \in Row /\ Same(d, e) /\ e.heldAt = d.heldAt
        /\ e.retries = d.retries /\ e.status = "dead"
    BY <1>e, EndedShape
  <2> QED BY <2>1 DEF Same
<1>3. CASE d.qos = 0
  <2>1. e = Ended(d, "qos0") /\ "qos0" \in Why
    BY <1>3 DEF CountedFailure, Why
  <2> QED BY <1>e, <2>1
<1>4. CASE d.qos > 0 /\ d.max > 0 /\ n + 1 >= d.max
  <2>1. e = Ended(d, "exhausted") /\ "exhausted" \in Why
    <3>1. d.qos # 0 /\ "exhausted" \in Why
      BY <1>1, <1>4 DEF Why
    <3> QED BY <1>4, <3>1, Zenon DEF CountedFailure
  <2> QED BY <1>e, <2>1
<1>5. CASE d.qos > 0 /\ ~(d.max > 0 /\ n + 1 >= d.max)
  <2>1. e = Counted(d, m)
    <3>1. d.qos # 0
      BY <1>1, <1>5
    <3> QED BY <1>2, <1>5, <3>1, Zenon DEF CountedFailure
  <2>2. /\ e \in Row /\ Same(d, e) /\ e.heldAt = d.heldAt
        /\ e.retries = m /\ e.status = "retry"
    BY <2>1, CountedShape
  <2>3. d.max > 0 => m < d.max
    BY <1>1, <1>2, <1>5 DEF CountRetry
  <2> QED BY <2>2, <2>3 DEF Same
<1> QED BY <1>1, <1>3, <1>4, <1>5

\* A failure never counts a row past its budget, and tries a satellite session
\* with an unknown outcome again only for the SOS's frame.
LEMMA FailedShape ==
  ASSUME IInv, NEW r \in Rows, NEW n \in Nat, NEW a \in Answer, NEW e,
         e = FailedRow(r, n, a)
  PROVE  /\ e \in Row /\ Same(row[r], e) /\ e.heldAt = row[r].heldAt
         /\ e.status \in {"dead", "retry"}
         /\ e.max > 0 => e.retries < e.max
         /\ e.status = "retry" => a # "unknown" \/ SosFrame(r)
<1>1. PICK d \in Row : d = row[r]
  BY DEF IInv, TypeOK
<1>2. d.max > 0 => d.retries < d.max
  BY <1>1 DEF IInv, BudgetOK, RetriesWithinBudget
<1>3. /\ d.born \in Nat /\ now \in Nat /\ AbsentWindow \in Nat /\ DeferWindow \in Nat
  BY RowFields, LedgerAssumption DEF IInv, TypeOK
<1>4. ASSUME NEW y \in Why, e = Ended(d, y)
      PROVE  /\ e \in Row /\ Same(d, e) /\ e.heldAt = d.heldAt /\ e.status = "dead"
             /\ e.max > 0 => e.retries < e.max
  <2>1. /\ e \in Row /\ Same(d, e) /\ e.heldAt = d.heldAt
        /\ e.retries = d.retries /\ e.status = "dead"
    BY <1>4, EndedShape
  <2> QED BY <1>2, <2>1 DEF Same
<1>5. ASSUME e = Again(d)
      PROVE  /\ e \in Row /\ Same(d, e) /\ e.heldAt = d.heldAt /\ e.status = "retry"
             /\ e.max > 0 => e.retries < e.max
  <2>1. /\ e \in Row /\ Same(d, e) /\ e.heldAt = d.heldAt
        /\ e.retries = d.retries /\ e.status = "retry"
    BY <1>5, AgainShape
  <2> QED BY <1>2, <2>1 DEF Same
<1>6. CASE a = "unknown" /\ ~SosFrame(r)
  <2>1. e = Ended(d, "uncertain") /\ "uncertain" \in Why
    BY <1>1, <1>6 DEF FailedRow, Why
  <2> QED BY <1>1, <1>4, <2>1
<1>7. CASE a = "absent" /\ now - d.born < AbsentWindow
  <2>1. e = Again(d)
    BY <1>1, <1>3, <1>7 DEF FailedRow
  <2> QED BY <1>1, <1>5, <1>7, <2>1
<1>8. CASE a = "absent" /\ ~(now - d.born < AbsentWindow)
  <2>1. e = Ended(d, "absent") /\ "absent" \in Why
    BY <1>1, <1>3, <1>8 DEF FailedRow, Why
  <2> QED BY <1>1, <1>4, <2>1
<1>9. CASE a = "down" /\ now - d.born < DeferWindow
  <2>1. e = Again(d)
    BY <1>1, <1>3, <1>9 DEF FailedRow
  <2> QED BY <1>1, <1>5, <1>9, <2>1
<1>10. CASE a = "fatal"
  <2>1. e = Ended(d, "undeliverable") /\ "undeliverable" \in Why
    BY <1>1, <1>10 DEF FailedRow, Why
  <2> QED BY <1>1, <1>4, <2>1
<1>11. CASE /\ ~(a = "unknown" /\ ~SosFrame(r)) /\ a # "absent" /\ a # "fatal"
            /\ ~(a = "down" /\ now - d.born < DeferWindow)
  <2>1. e = CountedFailure(d, n)
    BY <1>1, <1>11 DEF FailedRow
  <2>2. /\ e \in Row /\ Same(d, e) /\ e.heldAt = d.heldAt
        /\ e.status \in {"dead", "retry"}
        /\ e.max > 0 => e.retries < e.max
    BY <1>2, <2>1, CountedFailureShape
  <2> QED BY <1>1, <1>11, <2>2
<1> QED BY <1>6, <1>7, <1>8, <1>9, <1>10, <1>11

LEMMA HandleFailurePreserves ==
  ASSUME IInv, NEW w \in Workers, HandleFailure(w)
  PROVE  IInv'
<1>0. wk[w].pc = "answered" /\ wk[w].pc \in Active /\ wk[w].pc \in Busy
  BY DEF HandleFailure, Active, Busy, InFlight
<1>1. PICK s \in Snap : s = wk[w].job
  BY <1>0, HeldRows
<1>2. PICK r \in Rows : r = s.id
  BY SnapFields
<1>3. PICK e : e = FailedRow(r, s.retries, wk[w].answer)
  OBVIOUS
<1>4. /\ e \in Row /\ Same(row[r], e) /\ e.heldAt = row[r].heldAt
      /\ e.status \in {"dead", "retry"} /\ (e.max > 0 => e.retries < e.max)
      /\ e.status = "retry" => wk[w].answer # "unknown" \/ SosFrame(r)
  <2>1. wk[w].answer \in Answer /\ s.retries \in Nat
    BY WorkerFields, SnapFields DEF IInv, TypeOK
  <2> QED BY <1>3, <2>1, FailedShape
<1>5. row' = [row EXCEPT ![r] = e]
  BY <1>1, <1>2, <1>3 DEF HandleFailure
<1>6. /\ row' \in [Rows -> Row] /\ row'[r] = e
      /\ \A q \in Rows : q # r => row'[q] = row[q]
  BY <1>4, <1>5 DEF IInv, TypeOK
<1>7. row[r].heldAt <= now
  BY DEF IInv, HeldOK
<1>8. e.status = "retry" => sessions[r] <= asked[r]
  <2>1. CASE wk[w].answer # "unknown"
    BY <1>0, <1>1, <1>2, <2>1 DEF IInv, SessionsOK, HandleFailure
  <2>2. CASE SosFrame(r)
    BY <2>2 DEF IInv, TypeOK, SessionsOK
  <2> QED BY <1>4, <2>1, <2>2
<1>9. Quiet /\ Finish(w) /\ cancelled' = cancelled
  BY DEF HandleFailure, Quiet, links
<1>10. r = wk[w].job.id
  BY <1>1, <1>2
<1>11. /\ Same(row[r], row'[r]) /\ row'[r].status # "none" /\ row'[r].heldAt <= now
       /\ row'[r].max > 0 => row'[r].retries < row'[r].max
       /\ row'[r].status \in {"dead", "retry"}
       /\ row'[r].status \in {"queued", "retry", "held"} => sessions[r] <= asked[r]
  BY <1>4, <1>6, <1>7, <1>8
<1>12. row' \in [Rows -> Row] /\ \A q \in Rows : q # r => row'[q] = row[q]
  BY <1>6
<1>13. cancelled' \subseteq cancelled \cup {r} /\ row'[r].status # "sending"
  BY <1>9, <1>11
<1> QED BY <1>0, <1>9, <1>10, <1>11, <1>12, <1>13, FinishPreserves

\* A worker moves on without its last word: another pc, a claim, the first of
\* two writes.
LEMMA MovePreserves ==
  ASSUME IInv, TypeOK', JobOK', BudgetOK', HeldOK', SessionsOK', KeepsRows,
         up, up', cancelled' = cancelled, NEW w \in Workers,
         \A v \in Workers : v # w => wk'[v] = wk[v],
         \A q \in Rows : row'[q].cls = "lxmf" => row'[q].link \notin Sat,
         \A q \in Rows : /\ row[q].status \notin {"none", "queued", "retry"}
                         /\ q = wk[w].job.id => wk[w].pc \notin Busy
                         => row'[q].status = row[q].status,
         wk'[w].pc \in Busy =>
           \/ row'[wk'[w].job.id].cls = "lxmf"
           \/ /\ row'[wk'[w].job.id].status \in {"sending", "sent", "denied", "expired"}
              /\ wk'[w].job.id = wk[w].job.id
              /\ \/ wk[w].pc \in Busy
                 \/ wk[w].pc = "claim" /\ row[wk[w].job.id].status \in {"queued", "retry"},
         wk'[w].pc \in {"answered", "moved"} /\ wk'[w].answer = "unacked"
           => row'[wk'[w].job.id].cls # "lxmf",
         \A q \in Rows : row'[q].status = "sending" =>
           \/ wk'[w].pc \in InFlight /\ wk'[w].job.id = q
           \/ row[q].status = "sending" /\ ~(wk[w].pc \in InFlight /\ wk[w].job.id = q)
  PROVE  IInv'
<1> USE DEF Active, Busy, InFlight
<1>1. ASSUME NEW v \in Workers, v # w, wk'[v].pc \in Active
      PROVE  /\ wk'[v] = wk[v] /\ wk[v].job.id \in Rows
             /\ Same(row[wk[v].job.id], row'[wk[v].job.id])
  BY <1>1, HeldRows DEF KeepsRows
<1>2. LxmfOK'
  <2>1. ASSUME NEW v \in Workers, wk'[v].pc \in {"answered", "moved"},
               wk'[v].answer = "unacked"
        PROVE  row'[wk'[v].job.id].cls # "lxmf"
    <3>1. CASE v = w
      BY <2>1, <3>1
    <3>2. CASE v # w
      <4>1. /\ wk'[v] = wk[v] /\ wk[v].job.id \in Rows
            /\ Same(row[wk[v].job.id], row'[wk[v].job.id])
        BY <1>1, <2>1, <3>2
      <4>2. row[wk[v].job.id].cls # "lxmf"
        BY <2>1, <4>1 DEF IInv, LxmfOK
      <4> QED BY <4>1, <4>2 DEF Same
    <3> QED BY <3>1, <3>2
  <2> QED BY <2>1 DEF LxmfOK
\* A worker that is busy with a row of the ledger it claimed.
<1>3. ASSUME NEW v \in Workers, v # w, wk'[v].pc \in Busy,
             row'[wk'[v].job.id].cls # "lxmf"
      PROVE  /\ wk'[v] = wk[v] /\ wk[v].job.id \in Rows
             /\ row[wk[v].job.id].cls # "lxmf"
             /\ row[wk[v].job.id].status \in {"sending", "sent", "denied", "expired"}
             /\ wk[v].job.id \notin cancelled
             /\ wk[w].pc \in Busy => wk[v].job.id # wk[w].job.id
  <2>1. /\ wk'[v] = wk[v] /\ wk[v].job.id \in Rows
        /\ row[wk[v].job.id].cls # "lxmf"
    BY <1>1, <1>3 DEF Same
  <2> QED BY <1>3, <2>1 DEF IInv, ClaimOK, CancelOK, OneBusy
<1>4. ClaimOK'
  <2> SUFFICES ASSUME NEW v \in Workers, wk'[v].pc \in Busy,
                      row'[wk'[v].job.id].cls # "lxmf"
               PROVE  row'[wk'[v].job.id].status \in {"sending", "sent", "denied", "expired"}
    BY DEF ClaimOK
  <2>1. CASE v = w
    BY <2>1
  <2>2. CASE v # w
    <3>1. /\ wk'[v] = wk[v] /\ wk[v].job.id \in Rows
          /\ row[wk[v].job.id].status \in {"sending", "sent", "denied", "expired"}
          /\ wk[w].pc \in Busy => wk[v].job.id # wk[w].job.id
      BY <1>3, <2>2
    <3>2. row'[wk[v].job.id].status = row[wk[v].job.id].status
      BY <3>1
    <3> QED BY <3>1, <3>2
  <2> QED BY <2>1, <2>2
<1>5. OneBusy'
  <2>1. ASSUME NEW u \in Workers, NEW v \in Workers, u # v, v # w,
               wk'[u].pc \in Busy, wk'[v].pc \in Busy,
               wk'[u].job.id = wk'[v].job.id, row'[wk'[u].job.id].cls # "lxmf"
        PROVE  FALSE
    <3>1. /\ wk'[v] = wk[v] /\ row[wk[v].job.id].cls # "lxmf"
          /\ row[wk[v].job.id].status \in {"sending", "sent", "denied", "expired"}
          /\ wk[w].pc \in Busy => wk[v].job.id # wk[w].job.id
      BY <1>3, <2>1
    <3>2. CASE u = w
      BY <2>1, <3>1, <3>2
    <3>3. CASE u # w
      <4>1. wk'[u] = wk[u] /\ row[wk[u].job.id].cls # "lxmf"
        BY <1>3, <2>1, <3>3
      <4> QED BY <2>1, <3>1, <4>1 DEF IInv, OneBusy
    <3> QED BY <3>2, <3>3
  <2> SUFFICES ASSUME NEW u \in Workers, NEW v \in Workers, u # v,
                      wk'[u].pc \in Busy, wk'[v].pc \in Busy,
                      wk'[u].job.id = wk'[v].job.id, row'[wk'[u].job.id].cls # "lxmf"
               PROVE  FALSE
    BY DEF OneBusy
  <2>2. CASE v # w
    BY <2>1, <2>2
  <2>3. CASE v = w
    <3>1. u # w /\ row'[wk'[v].job.id].cls # "lxmf"
      BY <2>3
    <3> QED BY <2>1, <3>1
  <2> QED BY <2>2, <2>3
<1>6. CancelOK'
  <2>1. ASSUME NEW q \in cancelled
        PROVE  /\ row'[q].status # "none"
               /\ row'[q].cls # "lxmf" => row'[q].status \in {"dead", "denied", "expired"}
    <3>1. /\ q \in Rows /\ row[q].status # "none"
          /\ row[q].cls # "lxmf" => row[q].status \in {"dead", "denied", "expired"}
      BY DEF IInv, TypeOK, CancelOK
    <3>2. row'[q].status # "none" /\ Same(row[q], row'[q])
      BY <3>1 DEF KeepsRows
    <3>3. wk[w].pc \in Busy /\ row[q].cls # "lxmf" => q # wk[w].job.id
      BY DEF IInv, CancelOK
    <3> QED BY <3>1, <3>2, <3>3 DEF Same
  <2>2. ASSUME NEW v \in Workers, wk'[v].pc \in Busy, row'[wk'[v].job.id].cls # "lxmf"
        PROVE  wk'[v].job.id \notin cancelled
    <3>1. CASE v # w
      BY <1>3, <2>2, <3>1
    <3>2. CASE v = w
      <4>1. wk[w].pc \in Active /\ wk'[w].job.id = wk[w].job.id
        BY <2>2, <3>2
      <4>2. row[wk[w].job.id].cls # "lxmf"
        BY <2>2, <3>2, <4>1, HeldRows DEF KeepsRows, Same
      <4> QED BY <2>2, <3>2, <4>1, <4>2 DEF IInv, CancelOK
    <3> QED BY <3>1, <3>2
  <2> QED BY <2>1, <2>2 DEF CancelOK
<1>7. NothingStuckSending'
  <2> SUFFICES ASSUME NEW q \in Rows, row'[q].status = "sending"
               PROVE  \E v \in Workers : wk'[v].pc \in InFlight /\ wk'[v].job.id = q
    BY DEF NothingStuckSending
  <2>1. CASE wk'[w].pc \in InFlight /\ wk'[w].job.id = q
    BY <2>1
  <2>2. CASE row[q].status = "sending" /\ ~(wk[w].pc \in InFlight /\ wk[w].job.id = q)
    <3>1. PICK v \in Workers : wk[v].pc \in InFlight /\ wk[v].job.id = q
      BY <2>2 DEF IInv, NothingStuckSending
    <3> QED BY <2>2, <3>1
  <2> QED BY <2>1, <2>2
<1>8. DownOK'
  BY DEF DownOK
<1> QED BY <1>2, <1>4, <1>5, <1>6, <1>7, <1>8 DEF IInv

\* A worker at work is a goroutine of a process that is up.
LEMMA AliveIsUp ==
  ASSUME IInv, NEW w \in Workers, wk[w].pc # "gone"
  PROVE  up
BY DEF IInv, DownOK

\* Only the program counter moves.
LEMMA PcShape ==
  ASSUME IInv, NEW w \in Workers, NEW p \in PC, wk' = [wk EXCEPT ![w].pc = p]
  PROVE  /\ wk' \in [Workers -> Worker] /\ wk'[w].pc = p
         /\ wk'[w].link = wk[w].link /\ wk'[w].batch = wk[w].batch
         /\ wk'[w].job = wk[w].job /\ wk'[w].answer = wk[w].answer
         /\ \A v \in Workers : v # w => wk'[v] = wk[v]
<1> DEFINE u == [wk[w] EXCEPT !.pc = p]
<1>1. wk[w] \in Worker
  BY DEF IInv, TypeOK
<1>2. /\ u \in Worker /\ u.pc = p /\ u.link = wk[w].link /\ u.batch = wk[w].batch
      /\ u.job = wk[w].job /\ u.answer = wk[w].answer
  BY <1>1 DEF Worker
<1>3. wk' = [wk EXCEPT ![w] = u]
  OBVIOUS
<1> HIDE DEF u
<1> QED BY <1>2, <1>3 DEF IInv, TypeOK

\* The ledger is not touched.
Still == UNCHANGED <<up, now, links, router, crashes, ledger>>

LEMMA StillShape ==
  ASSUME IInv, Still, wk' \in [Workers -> Worker], sessions' \in [Rows -> Int]
  PROVE  /\ TypeOK' /\ HeldOK' /\ KeepsRows /\ RetriesWithinBudget'
         /\ \A q \in Rows : row'[q] = row[q]
         /\ \A q \in Rows : row'[q].cls = "lxmf" => row'[q].link \notin Sat
<1>1. /\ row' = row /\ now' = now /\ up' = up /\ enabled' = enabled
      /\ workerOf' = workerOf /\ router' = router /\ crashes' = crashes
      /\ asked' = asked /\ cancelled' = cancelled /\ heldFor' = heldFor
      /\ deadline' = deadline
  BY DEF Still, links, ledger
<1>2. TypeOK'
  BY <1>1 DEF IInv, TypeOK
<1>3. HeldOK' /\ RetriesWithinBudget'
  BY <1>1 DEF IInv, HeldOK, BudgetOK, RetriesWithinBudget
<1>4. KeepsRows
  BY <1>1 DEF KeepsRows, Same
<1>5. \A q \in Rows : row'[q].cls = "lxmf" => row'[q].link \notin Sat
  BY <1>1 DEF IInv, LxmfOK
<1> QED BY <1>1, <1>2, <1>3, <1>4, <1>5

\* A worker moves on and the ledger stands still.
LEMMA StillPreserves ==
  ASSUME IInv, Still, sessions' \in [Rows -> Int], wk' \in [Workers -> Worker],
         JobOK', BudgetOK', SessionsOK', NEW w \in Workers, wk[w].pc # "gone",
         \A v \in Workers : v # w => wk'[v] = wk[v],
         wk'[w].pc \in Busy =>
           \/ row[wk'[w].job.id].cls = "lxmf" /\ wk'[w].job.id \in Rows
           \/ wk[w].pc \in Busy /\ wk'[w].job = wk[w].job,
         wk'[w].pc \in {"answered", "moved"} /\ wk'[w].answer = "unacked"
           => row[wk'[w].job.id].cls # "lxmf" /\ wk'[w].job.id \in Rows,
         wk[w].pc \in InFlight => wk'[w].pc \in InFlight /\ wk'[w].job = wk[w].job
  PROVE  IInv'
<1>1. /\ TypeOK' /\ HeldOK' /\ KeepsRows
      /\ \A q \in Rows : row'[q] = row[q]
      /\ \A q \in Rows : row'[q].cls = "lxmf" => row'[q].link \notin Sat
  BY StillShape
<1>2. up /\ up' /\ cancelled' = cancelled /\ row' = row
  BY AliveIsUp DEF Still, ledger
<1>3. wk'[w].pc \in Busy =>
           \/ row'[wk'[w].job.id].cls = "lxmf"
           \/ /\ row'[wk'[w].job.id].status \in {"sending", "sent", "denied", "expired"}
              /\ wk'[w].job.id = wk[w].job.id
              /\ \/ wk[w].pc \in Busy
                 \/ wk[w].pc = "claim" /\ row[wk[w].job.id].status \in {"queued", "retry"}
  BY <1>2 DEF IInv, ClaimOK, Busy, InFlight
<1>4. wk'[w].pc \in {"answered", "moved"} /\ wk'[w].answer = "unacked"
           => row'[wk'[w].job.id].cls # "lxmf"
  BY <1>2
<1>5. \A q \in Rows : row'[q].status = "sending" =>
           \/ wk'[w].pc \in InFlight /\ wk'[w].job.id = q
           \/ row[q].status = "sending" /\ ~(wk[w].pc \in InFlight /\ wk[w].job.id = q)
  BY <1>2
<1>6. \A q \in Rows : /\ row[q].status \notin {"none", "queued", "retry"}
                      /\ q = wk[w].job.id => wk[w].pc \notin Busy
                      => row'[q].status = row[q].status
  BY <1>2
<1> QED BY <1>1, <1>2, <1>3, <1>4, <1>5, <1>6, MovePreserves

LEMMA PassPolicyPreserves ==
  ASSUME IInv, NEW w \in Workers, PassPolicy(w)
  PROVE  IInv'
<1> USE DEF Active, Busy, InFlight
<1>0. wk[w].pc = "policy" /\ "claim" \in PC /\ Still /\ sessions' = sessions
  BY DEF PassPolicy, Still, PC
<1>1. /\ wk' \in [Workers -> Worker] /\ wk'[w].pc = "claim"
      /\ wk'[w].link = wk[w].link /\ wk'[w].batch = wk[w].batch
      /\ wk'[w].job = wk[w].job /\ wk'[w].answer = wk[w].answer
      /\ \A v \in Workers : v # w => wk'[v] = wk[v]
  BY <1>0, PcShape DEF PassPolicy
<1>2. /\ TypeOK' /\ HeldOK' /\ KeepsRows /\ RetriesWithinBudget'
      /\ \A q \in Rows : row'[q] = row[q]
      /\ \A q \in Rows : row'[q].cls = "lxmf" => row'[q].link \notin Sat
  BY <1>0, <1>1, StillShape DEF IInv, TypeOK
<1>3. JobOK' /\ BudgetOK'
  <2>1. \A v \in Workers : KeepsJob(v)
    BY <1>0, <1>1 DEF KeepsJob
  <2> QED BY <1>2, <2>1, JobsKept
<1>4. SessionsOK'
  BY <1>0, <1>1, <1>2 DEF IInv, SessionsOK, SosFrame, Still, ledger
<1>5. up /\ up' /\ cancelled' = cancelled
  BY <1>0, AliveIsUp DEF Still, ledger
<1> QED BY <1>0, <1>1, <1>3, <1>4, StillPreserves DEF IInv, TypeOK

LEMMA TransmitPreserves ==
  ASSUME IInv, NEW w \in Workers, Transmit(w)
  PROVE  IInv'
<1> USE DEF Active, Busy, InFlight
<1>0. wk[w].pc = "sending" /\ "onair" \in PC /\ Still
  BY DEF Transmit, Still, PC
<1>1. /\ wk' \in [Workers -> Worker] /\ wk'[w].pc = "onair"
      /\ wk'[w].link = wk[w].link /\ wk'[w].batch = wk[w].batch
      /\ wk'[w].job = wk[w].job /\ wk'[w].answer = wk[w].answer
      /\ \A v \in Workers : v # w => wk'[v] = wk[v]
  BY <1>0, PcShape DEF Transmit
<1>2. PICK r \in Rows : r = wk[w].job.id
  BY <1>0, HeldRows
<1>3. /\ sessions' \in [Rows -> Int] /\ row' = row /\ asked' = asked
      /\ \A q \in Rows : q # r => sessions'[q] = sessions[q]
      /\ sessions'[r] = IF wk[w].link \in Sat /\ ~SosFrame(r)
                        THEN sessions[r] + 1 ELSE sessions[r]
  BY <1>0, <1>2 DEF Transmit, IInv, TypeOK, Still, ledger
<1>4. JobOK' /\ BudgetOK'
  <2>1. \A v \in Workers : KeepsJob(v)
    BY <1>0, <1>1 DEF KeepsJob
  <2>2. KeepsRows /\ RetriesWithinBudget'
    BY <1>0, <1>1, <1>3, StillShape
  <2> QED BY <2>1, <2>2, JobsKept
<1>5. /\ sessions[r] <= asked[r] /\ row[r].status # "none" /\ row[r].link = wk[w].link
      /\ asked \in [Rows -> Nat] /\ sessions \in [Rows -> Int]
  BY <1>0, <1>2, HeldRows DEF IInv, TypeOK, SessionsOK
<1>6. ASSUME NEW q \in Rows
      PROVE  /\ sessions'[q] <= 1 + asked[q]
             /\ row[q].status \in {"none", "queued", "retry", "held"} => sessions'[q] <= asked[q]
             /\ row[q].status = "none" => sessions'[q] <= 0
             /\ row[q].link \notin Sat \/ SosFrame(q) => sessions'[q] <= 0
  <2>1. CASE q # r
    BY <1>3, <2>1 DEF IInv, SessionsOK
  <2>2. CASE q = r
    <3>1. CASE ~(wk[w].link \in Sat /\ ~SosFrame(r))
      BY <1>3, <2>2, <3>1 DEF IInv, SessionsOK
    <3>2. CASE wk[w].link \in Sat /\ ~SosFrame(r)
      <4>1. row[r].cls # "lxmf"
        BY <1>5, <3>2 DEF IInv, LxmfOK
      <4>2. row[r].status \notin {"none", "queued", "retry", "held"}
        BY <1>0, <1>2, <4>1 DEF IInv, ClaimOK
      <4> QED BY <1>3, <1>5, <2>2, <3>2, <4>2
    <3> QED BY <3>1, <3>2
  <2> QED BY <2>1, <2>2
<1>7. ASSUME NEW v \in Workers,
             \/ wk'[v].pc = "sending"
             \/ wk'[v].pc = "answered" /\ wk'[v].answer \notin {"ok", "unknown"}
      PROVE  sessions'[wk'[v].job.id] <= asked[wk'[v].job.id]
  <2>1. v # w /\ wk'[v] = wk[v]
    BY <1>1, <1>7
  <2>2. sessions[wk[v].job.id] <= asked[wk[v].job.id] /\ wk[v].job.id \in Rows
    BY <1>7, <2>1, HeldRows DEF IInv, SessionsOK
  <2>3. CASE wk[v].job.id # r
    BY <1>3, <2>1, <2>2, <2>3
  <2>4. CASE wk[v].job.id = r
    <3>1. row[r].cls = "lxmf"
      BY <1>0, <1>2, <1>7, <2>1, <2>4 DEF IInv, OneBusy
    <3>2. row[r].link \notin Sat
      BY <3>1 DEF IInv, LxmfOK
    <3> QED BY <1>3, <1>5, <2>1, <2>2, <2>4, <3>2
  <2> QED BY <2>3, <2>4
<1>8. SessionsOK'
  BY <1>3, <1>6, <1>7 DEF SessionsOK, SosFrame
<1> QED BY <1>0, <1>1, <1>3, <1>4, <1>8, StillPreserves DEF IInv, LxmfOK, TypeOK

\* The actions whose only write is the row's last status.
LEMMA LastWritePreserves ==
  ASSUME IInv, NEW w \in Workers,
         \/ DenyByEgressRules(w) \/ ExpireBeforeSend(w) \/ DropNotSent(w)
         \/ SetDeliveryAck(w) \/ CloseMovedRow(w)
  PROVE  IInv'
<1> USE DEF Active, Busy, InFlight, Why
<1>1. CASE DenyByEgressRules(w)
  <2>1. /\ Quiet /\ wk[w].pc \in Active /\ cancelled' = cancelled /\ Finish(w)
        /\ SetDeliveryStatus(wk[w].job.id, "denied", "none")
    BY <1>1 DEF DenyByEgressRules, Quiet, links
  <2> QED BY <2>1, StatusFinishPreserves
<1>2. CASE ExpireBeforeSend(w)
  <2>1. /\ Quiet /\ wk[w].pc \in Active /\ cancelled' = cancelled /\ Finish(w)
        /\ SetDeliveryStatus(wk[w].job.id, "expired", "none")
    BY <1>2 DEF ExpireBeforeSend, Quiet, links
  <2> QED BY <2>1, StatusFinishPreserves
<1>3. CASE DropNotSent(w)
  <2>1. /\ Quiet /\ wk[w].pc \in Busy /\ cancelled' = cancelled /\ Finish(w)
        /\ SetDeliveryStatus(wk[w].job.id, "dead", "unsealed")
    BY <1>3 DEF DropNotSent, Quiet, links
  <2> QED BY <2>1, StatusFinishPreserves
<1>4. CASE SetDeliveryAck(w)
  <2>1. /\ Quiet /\ wk[w].pc \in Busy /\ cancelled' = cancelled /\ Finish(w)
        /\ SetDeliveryStatus(wk[w].job.id, "delivered", "none")
    BY <1>4 DEF SetDeliveryAck, Quiet, links
  <2> QED BY <2>1, StatusFinishPreserves
<1>5. CASE CloseMovedRow(w)
  <2>1. /\ Quiet /\ wk[w].pc \in Busy /\ cancelled' = cancelled /\ Finish(w)
        /\ SetDeliveryStatus(wk[w].job.id, "dead", "moved")
    BY <1>5 DEF CloseMovedRow, Quiet, links
  <2> QED BY <2>1, StatusFinishPreserves
<1> QED BY <1>1, <1>2, <1>3, <1>4, <1>5

\* What holds after a SetDeliveryStatus on the row of a worker that moves on.
LEMMA WriteMoveShape ==
  ASSUME IInv, Quiet, cancelled' = cancelled, NEW w \in Workers, wk[w].pc \in Active,
         NEW r \in Rows, r = wk[w].job.id,
         NEW st \in {"sending", "sent"}, NEW y \in Why, SetDeliveryStatus(r, st, y),
         NEW p \in {"sending", "ack"}, wk' = [wk EXCEPT ![w].pc = p],
         p = "sending" => sessions[r] <= asked[r]
  PROVE  /\ TypeOK' /\ JobOK' /\ BudgetOK' /\ HeldOK' /\ SessionsOK' /\ KeepsRows
         /\ \A q \in Rows : row'[q].cls = "lxmf" => row'[q].link \notin Sat
         /\ \A q \in Rows : q # r => row'[q] = row[q]
         /\ row'[r].status = st
         /\ wk'[w].pc = p /\ wk'[w].job = wk[w].job
         /\ \A v \in Workers : v # w => wk'[v] = wk[v]
<1> USE DEF Active, Busy, InFlight
<1>1. /\ row' \in [Rows -> Row] /\ \A q \in Rows : q # r => row'[q] = row[q]
      /\ Same(row[r], row'[r]) /\ row'[r].status = st
      /\ row'[r].heldAt = row[r].heldAt /\ row'[r].retries = row[r].retries
  <2>1. st \in Status
    BY DEF Status
  <2> QED BY <2>1, WriteShape
<1>2. /\ wk' \in [Workers -> Worker] /\ wk'[w].pc = p
      /\ wk'[w].link = wk[w].link /\ wk'[w].batch = wk[w].batch
      /\ wk'[w].job = wk[w].job /\ wk'[w].answer = wk[w].answer
      /\ \A v \in Workers : v # w => wk'[v] = wk[v]
  <2>1. p \in PC
    BY DEF PC
  <2> QED BY <2>1, PcShape
<1>3. TypeOK'
  BY <1>1, <1>2 DEF IInv, TypeOK, Quiet
<1>4. KeepsRows
  BY <1>1 DEF KeepsRows, Same
<1>5. JobOK' /\ BudgetOK'
  <2>1. RetriesWithinBudget'
    BY <1>1 DEF IInv, BudgetOK, RetriesWithinBudget, Same
  <2>2. \A v \in Workers : KeepsJob(v)
    BY <1>2 DEF KeepsJob
  <2> QED BY <1>4, <2>1, <2>2, JobsKept
<1>6. HeldOK'
  BY <1>1 DEF IInv, HeldOK, Quiet
<1>7. SessionsOK'
  <2>0. sessions' = sessions /\ asked' = asked
    BY DEF Quiet
  <2>1. ASSUME NEW q \in Rows
        PROVE  /\ sessions[q] <= 1 + asked[q]
               /\ row'[q].status \in {"none", "queued", "retry", "held"} => sessions[q] <= asked[q]
               /\ row'[q].status = "none" => sessions[q] <= 0
               /\ row'[q].link \notin Sat \/ SosFrame(q)' => sessions[q] <= 0
    BY <1>1, ZenonT(60) DEF IInv, SessionsOK, SosFrame, Same
  <2>2. ASSUME NEW v \in Workers,
               \/ wk'[v].pc = "sending"
               \/ wk'[v].pc = "answered" /\ wk'[v].answer \notin {"ok", "unknown"}
        PROVE  sessions[wk'[v].job.id] <= asked[wk'[v].job.id]
    BY <1>2, <2>2 DEF IInv, SessionsOK
  <2> QED BY <2>0, <2>1, <2>2 DEF SessionsOK
<1>8. \A q \in Rows : row'[q].cls = "lxmf" => row'[q].link \notin Sat
  BY <1>1, ZenonT(60) DEF IInv, LxmfOK, Same
<1> QED BY <1>1, <1>2, <1>3, <1>4, <1>5, <1>6, <1>7, <1>8

LEMMA ClaimPreserves ==
  ASSUME IInv, NEW w \in Workers, ClaimDeliveryForSending(w)
  PROVE  IInv'
<1> USE DEF Active, Busy, InFlight
<1>0. /\ wk[w].pc = "claim" /\ Quiet /\ cancelled' = cancelled
  BY DEF ClaimDeliveryForSending, Quiet, links
<1>1. PICK r \in Rows : r = wk[w].job.id
  BY <1>0, HeldRows
<1>2. /\ row[r].status # "none" /\ row \in [Rows -> Row] /\ row[r].heldAt <= now
      /\ row[r].max > 0 => row[r].retries < row[r].max
      /\ row[r].status \in {"queued", "retry", "held"} => sessions[r] <= asked[r]
  BY <1>0, <1>1, HeldRows DEF IInv, TypeOK, HeldOK, BudgetOK, RetriesWithinBudget, SessionsOK
<1>3. CASE Claimable(r) /\ SetDeliveryStatus(r, "sending", "none")
           /\ wk' = [wk EXCEPT ![w].pc = "sending"]
  <2>1. row[r].status \in {"queued", "retry"}
    BY <1>3 DEF Claimable, Waiting
  <2>2. /\ TypeOK' /\ JobOK' /\ BudgetOK' /\ HeldOK' /\ SessionsOK' /\ KeepsRows
        /\ \A q \in Rows : row'[q].cls = "lxmf" => row'[q].link \notin Sat
        /\ \A q \in Rows : q # r => row'[q] = row[q]
        /\ row'[r].status = "sending"
        /\ wk'[w].pc = "sending" /\ wk'[w].job = wk[w].job
        /\ \A v \in Workers : v # w => wk'[v] = wk[v]
    <3>1. "none" \in Why /\ sessions[r] <= asked[r] /\ wk[w].pc \in Active
      BY <1>0, <1>2, <2>1 DEF Why
    <3> QED BY <1>0, <1>1, <1>3, <3>1, WriteMoveShape
  <2>3. up /\ up'
    BY <1>0, AliveIsUp DEF Quiet
  <2>4. \A q \in Rows : /\ row[q].status \notin {"none", "queued", "retry"}
                        /\ q = wk[w].job.id => wk[w].pc \notin Busy
                        => row'[q].status = row[q].status
    BY <2>1, <2>2
  <2>5. \A q \in Rows : row'[q].status = "sending" =>
           \/ wk'[w].pc \in InFlight /\ wk'[w].job.id = q
           \/ row[q].status = "sending" /\ ~(wk[w].pc \in InFlight /\ wk[w].job.id = q)
    BY <1>0, <1>1, <2>2
  <2> QED BY <1>0, <1>1, <2>1, <2>2, <2>3, <2>4, <2>5, MovePreserves
<1>4. CASE row' = row /\ Finish(w)
  <2>1. /\ row' \in [Rows -> Row] /\ row'[r] = row[r]
        /\ \A q \in Rows : q # r => row'[q] = row[q]
        /\ cancelled' \subseteq cancelled \cup {r}
    BY <1>0, <1>2, <1>4
  <2>2. /\ Same(row[r], row'[r]) /\ row'[r].status # "none" /\ row'[r].heldAt <= now
        /\ row'[r].max > 0 => row'[r].retries < row'[r].max
        /\ row'[r].status \in {"queued", "retry", "held"} => sessions[r] <= asked[r]
    BY <1>2, <2>1 DEF Same
  <2>3. wk[w].pc \in Active /\ wk[w].pc \notin InFlight
    BY <1>0
  <2> QED BY <1>0, <1>1, <1>4, <2>1, <2>2, <2>3, FinishPreserves
<1> QED BY <1>1, <1>3, <1>4 DEF ClaimDeliveryForSending

LEMMA MarkSentPreserves ==
  ASSUME IInv, NEW w \in Workers, MarkSent(w)
  PROVE  IInv'
<1> USE DEF Active, Busy, InFlight
<1>0. /\ wk[w].pc = "answered" /\ Quiet /\ cancelled' = cancelled
      /\ SetDeliveryStatus(wk[w].job.id, "sent", "none") /\ "none" \in Why
  BY DEF MarkSent, Quiet, links, Why
<1>1. PICK r \in Rows : r = wk[w].job.id
  BY <1>0, HeldRows
<1>3. CASE wk' = [wk EXCEPT ![w].pc = "ack"]
  <2>2. /\ TypeOK' /\ JobOK' /\ BudgetOK' /\ HeldOK' /\ SessionsOK' /\ KeepsRows
        /\ \A q \in Rows : row'[q].cls = "lxmf" => row'[q].link \notin Sat
        /\ \A q \in Rows : q # r => row'[q] = row[q]
        /\ row'[r].status = "sent"
        /\ wk'[w].pc = "ack" /\ wk'[w].job = wk[w].job
        /\ \A v \in Workers : v # w => wk'[v] = wk[v]
    <3>1. /\ wk[w].pc \in Active /\ SetDeliveryStatus(r, "sent", "none")
          /\ Quiet /\ cancelled' = cancelled /\ "none" \in Why
      BY <1>0, <1>1
    <3>2. PICK p \in {"sending", "ack"} : p = "ack"
      OBVIOUS
    <3>3. wk' = [wk EXCEPT ![w].pc = p] /\ (p = "sending" => sessions[r] <= asked[r])
      BY <1>3, <3>2
    <3>4. PICK st \in {"sending", "sent"} : st = "sent"
      OBVIOUS
    <3>5. SetDeliveryStatus(r, st, "none")
      BY <3>1, <3>4
    <3> HIDE <1>3
    <3> QED BY <1>1, <3>1, <3>2, <3>3, <3>4, <3>5, WriteMoveShape
  <2>3. up /\ up'
    BY <1>0, AliveIsUp DEF Quiet
  <2>4. \A q \in Rows : /\ row[q].status \notin {"none", "queued", "retry"}
                        /\ q = wk[w].job.id => wk[w].pc \notin Busy
                        => row'[q].status = row[q].status
    BY <1>0, <1>1, <2>2
  <2>5. \A q \in Rows : row'[q].status = "sending" =>
           \/ wk'[w].pc \in InFlight /\ wk'[w].job.id = q
           \/ row[q].status = "sending" /\ ~(wk[w].pc \in InFlight /\ wk[w].job.id = q)
    BY <1>0, <1>1, <2>2
  <2> QED BY <1>0, <1>1, <2>2, <2>3, <2>4, <2>5, MovePreserves
<1>4. CASE Finish(w)
  BY <1>0, <1>4, StatusFinishPreserves
<1> QED BY <1>3, <1>4 DEF MarkSent

LEMMA AnswerShape ==
  ASSUME IInv, NEW w \in Workers, NEW a \in Answer,
         wk' = [wk EXCEPT ![w].pc = "answered", ![w].answer = a]
  PROVE  /\ wk' \in [Workers -> Worker] /\ wk'[w].pc = "answered"
         /\ wk'[w].link = wk[w].link /\ wk'[w].batch = wk[w].batch
         /\ wk'[w].job = wk[w].job /\ wk'[w].answer = a
         /\ \A v \in Workers : v # w => wk'[v] = wk[v]
<1> DEFINE u == [wk[w] EXCEPT !.pc = "answered", !.answer = a]
<1>1. wk[w] \in Worker
  BY DEF IInv, TypeOK
<1>2. /\ u \in Worker /\ u.pc = "answered" /\ u.link = wk[w].link
      /\ u.batch = wk[w].batch /\ u.job = wk[w].job /\ u.answer = a
  BY <1>1 DEF Worker, PC
<1>3. wk' = [wk EXCEPT ![w] = u]
  OBVIOUS
<1> HIDE DEF u
<1> QED BY <1>2, <1>3 DEF IInv, TypeOK

LEMMA BearerAnswersPreserves ==
  ASSUME IInv, NEW w \in Workers, NEW a \in Answer, BearerAnswers(w, a)
  PROVE  IInv'
<1> USE DEF Active, Busy, InFlight
<1>0. wk[w].pc = "onair" /\ Still
  BY DEF BearerAnswers, Still
<1>1. /\ wk' \in [Workers -> Worker] /\ wk'[w].pc = "answered"
      /\ wk'[w].link = wk[w].link /\ wk'[w].batch = wk[w].batch
      /\ wk'[w].job = wk[w].job /\ wk'[w].answer = a
      /\ \A v \in Workers : v # w => wk'[v] = wk[v]
  BY AnswerShape DEF BearerAnswers
<1>2. PICK r \in Rows : r = wk[w].job.id
  BY <1>0, HeldRows
<1>3. /\ sessions' \in [Rows -> Int] /\ row' = row /\ asked' = asked
      /\ \A q \in Rows : q # r => sessions'[q] = sessions[q]
      /\ sessions'[r] = IF wk[w].link \in Sat /\ ~SosFrame(r) /\ a \notin {"ok", "unknown"}
                        THEN sessions[r] - 1 ELSE sessions[r]
  BY <1>0, <1>2 DEF BearerAnswers, IInv, TypeOK, Still, ledger
<1>4. JobOK' /\ BudgetOK'
  <2>1. \A v \in Workers : KeepsJob(v)
    BY <1>0, <1>1 DEF KeepsJob
  <2>2. KeepsRows /\ RetriesWithinBudget'
    BY <1>0, <1>1, <1>3, StillShape
  <2> QED BY <2>1, <2>2, JobsKept
<1>5. /\ row[r].link = wk[w].link /\ asked \in [Rows -> Nat] /\ sessions \in [Rows -> Int]
  BY <1>0, <1>2, HeldRows DEF IInv, TypeOK
<1>6. \A q \in Rows : sessions'[q] <= sessions[q]
  BY <1>3, <1>5
<1>7. ASSUME NEW q \in Rows
      PROVE  /\ sessions'[q] <= 1 + asked[q]
             /\ row[q].status \in {"none", "queued", "retry", "held"} => sessions'[q] <= asked[q]
             /\ row[q].status = "none" => sessions'[q] <= 0
             /\ row[q].link \notin Sat \/ SosFrame(q) => sessions'[q] <= 0
  <2>1. /\ sessions[q] <= 1 + asked[q]
        /\ row[q].status \in {"none", "queued", "retry", "held"} => sessions[q] <= asked[q]
        /\ row[q].status = "none" => sessions[q] <= 0
        /\ row[q].link \notin Sat \/ SosFrame(q) => sessions[q] <= 0
    BY DEF IInv, SessionsOK
  <2>2. /\ sessions'[q] <= sessions[q] /\ sessions'[q] \in Int
        /\ sessions[q] \in Int /\ asked[q] \in Nat
    BY <1>3, <1>5, <1>6
  <2> QED BY <2>1, <2>2
<1>8. ASSUME NEW v \in Workers,
             \/ wk'[v].pc = "sending"
             \/ wk'[v].pc = "answered" /\ wk'[v].answer \notin {"ok", "unknown"}
      PROVE  sessions'[wk'[v].job.id] <= asked[wk'[v].job.id]
  <2>1. CASE v # w
    <3>1. wk'[v] = wk[v]
      BY <1>1, <2>1
    <3>2. sessions[wk[v].job.id] <= asked[wk[v].job.id] /\ wk[v].job.id \in Rows
      BY <1>8, <3>1, HeldRows DEF IInv, SessionsOK
    <3> QED BY <1>3, <1>5, <1>6, <3>1, <3>2
  <2>2. CASE v = w
    <3>1. a \notin {"ok", "unknown"} /\ wk'[v].job.id = r
      BY <1>1, <1>2, <1>8, <2>2
    <3>2. CASE wk[w].link \in Sat /\ ~SosFrame(r)
      <4>1. sessions[r] <= 1 + asked[r]
        BY DEF IInv, SessionsOK
      <4> QED BY <1>3, <1>5, <3>1, <3>2, <4>1
    <3>3. CASE ~(wk[w].link \in Sat /\ ~SosFrame(r))
      <4>1. sessions[r] <= 0
        BY <1>5, <3>3 DEF IInv, SessionsOK
      <4> QED BY <1>3, <1>5, <3>1, <3>3, <4>1
    <3> QED BY <3>2, <3>3
  <2> QED BY <2>1, <2>2
<1>9. SessionsOK'
  BY <1>3, <1>7, <1>8 DEF SessionsOK, SosFrame
<1>10. wk'[w].pc \in {"answered", "moved"} /\ wk'[w].answer = "unacked"
           => row[wk'[w].job.id].cls # "lxmf" /\ wk'[w].job.id \in Rows
  BY <1>1, <1>2 DEF BearerAnswers
<1> QED BY <1>0, <1>1, <1>3, <1>4, <1>9, <1>10, StillPreserves

\* What a fetched batch looks like.
LEMMA FetchShape ==
  ASSUME IInv, NEW w \in Workers, FetchBatch(w)
  PROVE  /\ wk' \in [Workers -> Worker] /\ wk'[w].pc = "batch"
         /\ wk'[w].link = wk[w].link
         /\ \A v \in Workers : v # w => wk'[v] = wk[v]
         /\ \A s \in wk'[w].batch :
              /\ s.id \in Pending(wk[w].link) /\ s.retries = row[s.id].retries
<1>1. PICK B \in SUBSET Pending(wk[w].link) :
        wk' = [wk EXCEPT ![w].pc = "batch",
                 ![w].batch = {[id |-> r, retries |-> row[r].retries,
                                expires |-> row[r].expires] : r \in B}]
  BY DEF FetchBatch
<1> DEFINE b == {[id |-> r, retries |-> row[r].retries,
                  expires |-> row[r].expires] : r \in B}
           u == [wk[w] EXCEPT !.pc = "batch", !.batch = b]
<1>2. \A r \in B : /\ r \in Pending(wk[w].link) /\ r \in Rows
                   /\ row[r].retries \in Nat /\ row[r].expires \in Nat \cup {NoTTL}
  BY RowFields DEF Pending, IInv, TypeOK
<1>3. b \subseteq Snap /\ \A s \in b : s.id \in Pending(wk[w].link) /\ s.retries = row[s.id].retries
  BY <1>2 DEF Snap
<1> HIDE DEF b
<1>4. wk[w] \in Worker
  BY DEF IInv, TypeOK
<1>5. u \in Worker /\ u.pc = "batch" /\ u.link = wk[w].link /\ u.batch = b
  BY <1>3, <1>4 DEF Worker, PC
<1>6. wk' = [wk EXCEPT ![w] = u]
  BY <1>1 DEF b
<1> HIDE DEF u
<1> QED BY <1>3, <1>5, <1>6 DEF IInv, TypeOK

LEMMA FetchPreserves ==
  ASSUME IInv, NEW w \in Workers, FetchBatch(w)
  PROVE  IInv'
<1> USE DEF Active, Busy, InFlight
<1>0. wk[w].pc = "idle" /\ Still /\ sessions' = sessions
  BY DEF FetchBatch, Still
<1>1. /\ wk' \in [Workers -> Worker] /\ wk'[w].pc = "batch"
      /\ wk'[w].link = wk[w].link
      /\ \A v \in Workers : v # w => wk'[v] = wk[v]
      /\ \A s \in wk'[w].batch :
           /\ s.id \in Pending(wk[w].link) /\ s.retries = row[s.id].retries
  BY FetchShape
<1>2. row' = row /\ asked' = asked /\ RetriesWithinBudget' /\ sessions' \in [Rows -> Int]
  BY <1>0, <1>1, StillShape DEF Still, ledger, IInv, TypeOK
<1>3. \A s \in wk'[w].batch : /\ s.id \in Rows /\ row[s.id].link = wk[w].link
                              /\ row[s.id].status # "none"
                              /\ row[s.id].max > 0 => s.retries < row[s.id].max
  BY <1>1 DEF Pending, Waiting, IInv, BudgetOK, RetriesWithinBudget
<1>4. JobOK'
  BY <1>1, <1>2, <1>3 DEF IInv, JobOK
<1>5. BudgetOK'
  BY <1>1, <1>2, <1>3 DEF IInv, BudgetOK
<1>6. SessionsOK'
  BY <1>0, <1>1, <1>2 DEF IInv, SessionsOK, SosFrame
<1> QED BY <1>0, <1>1, <1>2, <1>4, <1>5, <1>6, StillPreserves

LEMMA ExitPreserves ==
  ASSUME IInv, NEW w \in Workers, ExitWorker(w)
  PROVE  IInv'
<1> USE DEF Active, Busy, InFlight
<1>0. wk[w].pc \in {"idle", "batch"} /\ Still /\ sessions' = sessions
  BY DEF ExitWorker, Still
<1>1. GoneWorker \in Worker /\ GoneWorker.pc = "gone" /\ GoneWorker.batch = {}
  BY GoneWorkerShape
<1>2. /\ wk' \in [Workers -> Worker] /\ wk'[w].pc = "gone" /\ wk'[w].batch = {}
      /\ \A v \in Workers : v # w => wk'[v] = wk[v]
  BY <1>1 DEF ExitWorker, IInv, TypeOK
<1>3. row' = row /\ asked' = asked /\ RetriesWithinBudget' /\ sessions' \in [Rows -> Int]
  BY <1>0, <1>2, StillShape DEF Still, ledger, IInv, TypeOK
<1>4. JobOK'
  BY <1>2, <1>3 DEF IInv, JobOK
<1>5. BudgetOK'
  BY <1>2, <1>3 DEF IInv, BudgetOK
<1>6. SessionsOK'
  BY <1>0, <1>2, <1>3 DEF IInv, SessionsOK, SosFrame
<1> QED BY <1>0, <1>2, <1>3, <1>4, <1>5, <1>6, StillPreserves

\* A worker that passes over a row of its batch, and one that takes it.
LEMMA SkipShape ==
  ASSUME IInv, NEW w \in Workers, NEW R \in SUBSET wk[w].batch, NEW p \in {"idle", "batch"},
         wk' = [wk EXCEPT ![w].pc = p, ![w].batch = R]
  PROVE  /\ wk' \in [Workers -> Worker] /\ wk'[w].pc = p
         /\ wk'[w].link = wk[w].link /\ wk'[w].batch = R
         /\ \A v \in Workers : v # w => wk'[v] = wk[v]
<1> DEFINE u == [wk[w] EXCEPT !.pc = p, !.batch = R]
<1>1. wk[w] \in Worker /\ R \subseteq Snap /\ p \in PC
  BY WorkerFields DEF IInv, TypeOK, PC
<1>2. u \in Worker /\ u.pc = p /\ u.link = wk[w].link /\ u.batch = R
  BY <1>1 DEF Worker
<1>3. wk' = [wk EXCEPT ![w] = u]
  OBVIOUS
<1> HIDE DEF u
<1> QED BY <1>2, <1>3 DEF IInv, TypeOK

Takes(w, R, s, p) ==
  wk' = [wk EXCEPT ![w].pc = p, ![w].batch = R, ![w].job = s, ![w].answer = "other"]

LEMMA TakeShape ==
  ASSUME IInv, NEW w \in Workers, NEW R \in SUBSET wk[w].batch, NEW s \in wk[w].batch,
         NEW p \in {"policy", "claim", "answered"}, Takes(w, R, s, p)
  PROVE  /\ wk' \in [Workers -> Worker] /\ wk'[w].pc = p
         /\ wk'[w].link = wk[w].link /\ wk'[w].batch = R
         /\ wk'[w].job = s /\ wk'[w].answer = "other"
         /\ \A v \in Workers : v # w => wk'[v] = wk[v]
<1> DEFINE u == [wk[w] EXCEPT !.pc = p, !.batch = R, !.job = s, !.answer = "other"]
<1>1. wk[w] \in Worker /\ R \subseteq Snap /\ p \in PC /\ s \in Snap
  BY WorkerFields DEF IInv, TypeOK, PC
<1>2. /\ u \in Worker /\ u.pc = p /\ u.link = wk[w].link /\ u.batch = R
      /\ u.job = s /\ u.answer = "other"
  BY <1>1 DEF Worker, Answer
<1>3. wk' = [wk EXCEPT ![w] = u]
  BY DEF Takes
<1> HIDE DEF u
<1> QED BY <1>2, <1>3 DEF IInv, TypeOK

\* The ways deliver() starts on a row: it is passed over, or it is taken to the
\* policy, to the claim, or, an LXMF row without a router, to its failure.
LEMMA TakeRowCases ==
  ASSUME NEW w \in Workers, TakeRow(w)
  PROVE  \E s \in wk[w].batch, R \in SUBSET wk[w].batch :
           \/ \E p \in {"idle", "batch"} : wk' = [wk EXCEPT ![w].pc = p, ![w].batch = R]
           \/ \E p \in {"policy", "claim", "answered"} :
                /\ Takes(w, R, s, p)
                /\ p = "answered" => row[s.id].cls = "lxmf"
<1>1. PICK s \in wk[w].batch :
        LET rest == wk[w].batch \ {s}
            next(pc) == [wk EXCEPT ![w].pc = pc, ![w].batch = rest,
                                   ![w].job = s, ![w].answer = "other"]
        IN  \/ wk' = [wk EXCEPT ![w].pc = IF rest = {} THEN "idle" ELSE "batch",
                                ![w].batch = rest]
            \/ wk' = CASE row[s.id].cls # "lxmf" -> next("policy")
                       [] row[s.id].cls = "lxmf" /\ router -> next("claim")
                       [] OTHER -> next("answered")
  BY DEF TakeRow
<1>2. PICK R \in SUBSET wk[w].batch : R = wk[w].batch \ {s}
  OBVIOUS
<1>3. CASE wk' = [wk EXCEPT ![w].pc = IF R = {} THEN "idle" ELSE "batch", ![w].batch = R]
  <2>1. \E p \in {"idle", "batch"} : wk' = [wk EXCEPT ![w].pc = p, ![w].batch = R]
    BY <1>3
  <2> QED BY <2>1
<1>4. CASE wk' = CASE row[s.id].cls # "lxmf" ->
                        [wk EXCEPT ![w].pc = "policy", ![w].batch = R,
                                   ![w].job = s, ![w].answer = "other"]
                   [] row[s.id].cls = "lxmf" /\ router ->
                        [wk EXCEPT ![w].pc = "claim", ![w].batch = R,
                                   ![w].job = s, ![w].answer = "other"]
                   [] OTHER ->
                        [wk EXCEPT ![w].pc = "answered", ![w].batch = R,
                                   ![w].job = s, ![w].answer = "other"]
  <2> DEFINE next(pc) == [wk EXCEPT ![w].pc = pc, ![w].batch = R,
                                    ![w].job = s, ![w].answer = "other"]
  <2>1. \/ wk' = next("policy") \/ wk' = next("claim")
        \/ wk' = next("answered") /\ row[s.id].cls = "lxmf"
    BY <1>4, Zenon
  <2>2. \E p \in {"policy", "claim", "answered"} :
           wk' = next(p) /\ (p = "answered" => row[s.id].cls = "lxmf")
    <3> HIDE DEF next
    <3> QED BY <2>1
  <2> QED BY <2>2 DEF Takes
<1> QED BY <1>1, <1>2, <1>3, <1>4, Zenon

LEMMA TakeRowPreserves ==
  ASSUME IInv, NEW w \in Workers, TakeRow(w)
  PROVE  IInv'
<1> USE DEF Active, Busy, InFlight
<1>0. /\ wk[w].pc = "batch" /\ Still /\ sessions' = sessions /\ row' = row /\ asked' = asked
      /\ sessions' \in [Rows -> Int]
  BY DEF TakeRow, Still, ledger, IInv, TypeOK
<1>1. PICK s \in wk[w].batch, R \in SUBSET wk[w].batch :
        \/ \E p \in {"idle", "batch"} : wk' = [wk EXCEPT ![w].pc = p, ![w].batch = R]
        \/ \E p \in {"policy", "claim", "answered"} :
             /\ Takes(w, R, s, p)
             /\ p = "answered" => row[s.id].cls = "lxmf"
  BY TakeRowCases
<1>2. ASSUME /\ wk' \in [Workers -> Worker] /\ \A v \in Workers : v # w => wk'[v] = wk[v]
             /\ wk'[w].link = wk[w].link /\ wk'[w].batch \subseteq wk[w].batch
             /\ wk'[w].pc \in Active => wk'[w].job \in wk[w].batch
             /\ wk'[w].pc \notin {"sending", "onair", "ack", "moved"}
             /\ wk'[w].pc = "answered" =>
                  wk'[w].answer = "other" /\ row[wk'[w].job.id].cls = "lxmf"
      PROVE  IInv'
  <2>1. JobOK' /\ BudgetOK'
    <3>1. \A v \in Workers : KeepsJob(v)
      BY <1>2 DEF KeepsJob
    <3>2. KeepsRows /\ RetriesWithinBudget'
      BY <1>0, <1>2, StillShape
    <3> QED BY <3>1, <3>2, JobsKept
  <2>2. wk'[w].pc \in Active => wk'[w].job.id \in Rows
    BY <1>2, HeldRows
  <2>3. SessionsOK'
    <3>1. ASSUME NEW v \in Workers,
                 \/ wk'[v].pc = "sending"
                 \/ wk'[v].pc = "answered" /\ wk'[v].answer \notin {"ok", "unknown"}
          PROVE  sessions[wk'[v].job.id] <= asked[wk'[v].job.id]
      <4>1. CASE v # w
        BY <1>2, <3>1, <4>1 DEF IInv, SessionsOK
      <4>2. CASE v = w
        <5>1. PICK r \in Rows : r = wk'[w].job.id /\ row[r].cls = "lxmf"
          BY <1>2, <2>2, <3>1, <4>2
        <5>2. sessions[r] <= 0 /\ asked[r] \in Nat /\ sessions[r] \in Int
          BY <5>1 DEF IInv, TypeOK, LxmfOK, SessionsOK
        <5> QED BY <4>2, <5>1, <5>2
      <4> QED BY <4>1, <4>2
    <3> QED BY <1>0, <3>1 DEF IInv, SessionsOK, SosFrame
  <2> QED BY <1>0, <1>2, <2>1, <2>2, <2>3, StillPreserves
<1>3. CASE \E p \in {"idle", "batch"} : wk' = [wk EXCEPT ![w].pc = p, ![w].batch = R]
  <2>1. PICK p \in {"idle", "batch"} : wk' = [wk EXCEPT ![w].pc = p, ![w].batch = R]
    BY <1>3
  <2>2. /\ wk' \in [Workers -> Worker] /\ wk'[w].pc = p
        /\ wk'[w].link = wk[w].link /\ wk'[w].batch = R
        /\ \A v \in Workers : v # w => wk'[v] = wk[v]
    BY <2>1, SkipShape
  <2> QED BY <1>2, <2>2
<1>4. CASE \E p \in {"policy", "claim", "answered"} :
             /\ Takes(w, R, s, p)
             /\ p = "answered" => row[s.id].cls = "lxmf"
  <2>1. PICK p \in {"policy", "claim", "answered"} :
             /\ Takes(w, R, s, p)
             /\ p = "answered" => row[s.id].cls = "lxmf"
    BY <1>4
  <2>2. /\ wk' \in [Workers -> Worker] /\ wk'[w].pc = p
        /\ wk'[w].link = wk[w].link /\ wk'[w].batch = R
        /\ wk'[w].job = s /\ wk'[w].answer = "other"
        /\ \A v \in Workers : v # w => wk'[v] = wk[v]
    <3>1. R \in SUBSET wk[w].batch /\ s \in wk[w].batch
      OBVIOUS
    <3>2. Takes(w, R, s, p)
      BY <2>1
    <3> HIDE <1>4
    <3> QED BY <3>1, <3>2, TakeShape, ZenonT(60)
  <2> QED BY <1>2, <2>1, <2>2
<1> QED BY <1>1, <1>3, <1>4

\* The row a failover makes.
Copied(d, l, t) ==
  [d EXCEPT !.status = "queued", !.why = "none", !.link = l, !.retries = 0,
            !.born = t, !.heldAt = 0]

LEMMA CopyShape ==
  ASSUME NEW d \in Row, NEW l \in Links, NEW t \in Nat, NEW e, e = Copied(d, l, t)
  PROVE  /\ e \in Row /\ e.status = "queued" /\ e.link = l /\ e.retries = 0
         /\ e.heldAt = 0 /\ e.cls = d.cls
BY DEF Copied, Row, Status, Why

LEMMA FailOverPreserves ==
  ASSUME IInv, NEW w \in Workers, NEW l \in Links, FailOverToNextMember(w, l)
  PROVE  IInv'
<1> USE DEF Active, Busy, InFlight
<1>0. /\ wk[w].pc = "answered" /\ wk[w].answer = "unacked"
      /\ wk' = [wk EXCEPT ![w].pc = "moved"] /\ "moved" \in PC
      /\ up' = up /\ now' = now /\ enabled' = enabled /\ workerOf' = workerOf
      /\ router' = router /\ crashes' = crashes /\ sessions' = sessions
      /\ cancelled' = cancelled
  BY DEF FailOverToNextMember, links, PC
<1>1. PICK r \in Rows : r = wk[w].job.id
  BY <1>0, HeldRows
<1>2. PICK q \in Rows :
        /\ Fresh(q)
        /\ row' = [row EXCEPT ![q] = Copied(row[r], l, now)]
        /\ deadline' = [deadline EXCEPT ![q] = deadline[r]]
        /\ heldFor' = [heldFor EXCEPT ![q] = heldFor[r]]
        /\ asked' = [asked EXCEPT ![q] = asked[r]]
  BY <1>1, Zenon DEF FailOverToNextMember, Copied
<1>3. /\ row[r] \in Row /\ now \in Nat /\ row \in [Rows -> Row]
      /\ row[r].cls # "lxmf" /\ row[r].status # "none" /\ row[q].status = "none" /\ r # q
  BY <1>0, <1>1, <1>2, HeldRows DEF IInv, TypeOK, LxmfOK, Fresh
<1>4. PICK e : e = Copied(row[r], l, now)
  OBVIOUS
<1>5. /\ e \in Row /\ e.status = "queued" /\ e.link = l /\ e.retries = 0
      /\ e.heldAt = 0 /\ e.cls = row[r].cls
  BY <1>3, <1>4, CopyShape
<1>6. row' = [row EXCEPT ![q] = e]
  BY <1>2, <1>4
<1>7. /\ row' \in [Rows -> Row] /\ row'[q] = e /\ \A p \in Rows : p # q => row'[p] = row[p]
  BY <1>3, <1>5, <1>6
<1>8. /\ asked' \in [Rows -> Nat] /\ asked'[q] = asked[r]
      /\ \A p \in Rows : p # q => asked'[p] = asked[p]
      /\ heldFor' \in [Rows -> Nat] /\ deadline' \in [Rows -> Nat \cup {NoTTL}]
  <2>1. /\ asked' = [asked EXCEPT ![q] = asked[r]]
        /\ heldFor' = [heldFor EXCEPT ![q] = heldFor[r]]
        /\ deadline' = [deadline EXCEPT ![q] = deadline[r]]
    BY <1>2, Zenon
  <2> HIDE <1>2, <1>4, <1>6
  <2> QED BY <2>1 DEF IInv, TypeOK
<1>9. /\ wk' \in [Workers -> Worker] /\ wk'[w].pc = "moved"
      /\ wk'[w].link = wk[w].link /\ wk'[w].batch = wk[w].batch
      /\ wk'[w].job = wk[w].job /\ wk'[w].answer = wk[w].answer
      /\ \A v \in Workers : v # w => wk'[v] = wk[v]
  BY <1>0, PcShape
<1> HIDE <1>2, <1>4, <1>6
<1>10. TypeOK'
  BY <1>0, <1>7, <1>8, <1>9 DEF IInv, TypeOK
<1>11. KeepsRows
  BY <1>3, <1>7 DEF KeepsRows, Same
<1>12. JobOK' /\ BudgetOK'
  <2>1. RetriesWithinBudget'
    <3>1. \A p \in Rows : row[p].max > 0 => row[p].retries < row[p].max
      BY DEF IInv, BudgetOK, RetriesWithinBudget
    <3>2. e.max > 0 => e.retries < e.max
      BY <1>5, RowFields
    <3> QED BY <1>7, <3>1, <3>2 DEF RetriesWithinBudget
  <2>2. \A v \in Workers : KeepsJob(v)
    BY <1>0, <1>9 DEF KeepsJob
  <2> QED BY <1>11, <2>1, <2>2, JobsKept
<1>13. HeldOK'
  BY <1>0, <1>3, <1>5, <1>7 DEF IInv, HeldOK
<1>14. SessionsOK'
  <2>0. asked \in [Rows -> Nat] /\ sessions \in [Rows -> Int]
    BY DEF IInv, TypeOK
  <2>1. ASSUME NEW p \in Rows
        PROVE  /\ sessions[p] <= 1 + asked'[p]
               /\ row'[p].status \in {"none", "queued", "retry", "held"} => sessions[p] <= asked'[p]
               /\ row'[p].status = "none" => sessions[p] <= 0
               /\ row'[p].link \notin Sat \/ SosFrame(p)' => sessions[p] <= 0
    <3>1. CASE p # q
      BY <1>7, <1>8, <3>1 DEF IInv, SessionsOK, SosFrame
    <3>2. CASE p = q
      <4>1. sessions[p] <= 0 /\ asked'[p] \in Nat /\ sessions[p] \in Int
        BY <1>3, <1>8, <2>0, <3>2 DEF IInv, SessionsOK
      <4> QED BY <4>1
    <3> QED BY <3>1, <3>2
  <2>2. ASSUME NEW v \in Workers,
               \/ wk'[v].pc = "sending"
               \/ wk'[v].pc = "answered" /\ wk'[v].answer \notin {"ok", "unknown"}
        PROVE  sessions[wk'[v].job.id] <= asked'[wk'[v].job.id]
    <3>1. v # w /\ wk'[v] = wk[v]
      BY <1>9, <2>2
    <3>2. /\ wk[v].job.id \in Rows /\ row[wk[v].job.id].status # "none"
          /\ sessions[wk[v].job.id] <= asked[wk[v].job.id]
      BY <2>2, <3>1, HeldRows DEF IInv, SessionsOK
    <3> QED BY <1>3, <1>8, <3>1, <3>2
  <2> QED BY <1>0, <2>1, <2>2 DEF SessionsOK
<1>15. \A p \in Rows : row'[p].cls = "lxmf" => row'[p].link \notin Sat
  BY <1>3, <1>5, <1>7 DEF IInv, LxmfOK
<1>16. up /\ up'
  BY <1>0, AliveIsUp
<1>17. row'[r] = row[r] /\ row[r].status \in {"sending", "sent", "denied", "expired"}
  BY <1>0, <1>1, <1>3, <1>7 DEF IInv, ClaimOK
<1>18. \A p \in Rows : /\ row[p].status \notin {"none", "queued", "retry"}
                       /\ p = wk[w].job.id => wk[w].pc \notin Busy
                       => row'[p].status = row[p].status
  BY <1>3, <1>7
<1>19. \A p \in Rows : row'[p].status = "sending" =>
           \/ wk'[w].pc \in InFlight /\ wk'[w].job.id = p
           \/ row[p].status = "sending" /\ ~(wk[w].pc \in InFlight /\ wk[w].job.id = p)
  BY <1>5, <1>7, <1>9
<1>20. /\ wk'[w].job.id = r /\ wk[w].job.id = r /\ wk[w].pc \in Busy
       /\ row'[r].cls # "lxmf"
       /\ row'[r].status \in {"sending", "sent", "denied", "expired"}
  BY <1>0, <1>1, <1>3, <1>9, <1>17
<1> QED BY <1>0, <1>9, <1>10, <1>11, <1>12, <1>13, <1>14, <1>15, <1>16, <1>18,
           <1>19, <1>20, MovePreserves

-----------------------------------------------------------------------------
(* The invariant. *)

LEMMA InitIInv == Init => IInv
<1> SUFFICES ASSUME Init PROVE IInv
  OBVIOUS
<1>1. PICK l \in Links : l = CHOOSE m \in Links : TRUE
  BY LedgerAssumption
<1>2. PICK d : d = NoRow
  OBVIOUS
<1>3. /\ d \in Row /\ d.status = "none" /\ d.heldAt = 0 /\ d.cls = "message"
      /\ d.max = 0
  BY <1>1, <1>2 DEF NoRow, Row, Status, Why, Class
<1>4. PICK u : u = GoneWorker
  OBVIOUS
<1>5. u \in Worker /\ u.pc = "gone" /\ u.batch = {}
  BY <1>4, GoneWorkerShape
<1>6. /\ row = [r \in Rows |-> d] /\ wk = [w \in Workers |-> u]
      /\ up = FALSE /\ now = 0 /\ router = FALSE /\ crashes = 0 /\ cancelled = {}
      /\ enabled = [m \in Links |-> TRUE] /\ workerOf = [m \in Links |-> NoWorker]
      /\ sessions = [r \in Rows |-> 0] /\ asked = [r \in Rows |-> 0]
      /\ heldFor = [r \in Rows |-> 0] /\ deadline = [r \in Rows |-> NoTTL]
  BY <1>2, <1>4 DEF Init
<1> HIDE <1>1, <1>2, <1>4
<1>7. TypeOK
  <2>1. /\ up \in BOOLEAN /\ router \in BOOLEAN /\ enabled \in [Links -> BOOLEAN]
        /\ workerOf \in [Links -> Workers \cup {NoWorker}] /\ cancelled \subseteq Rows
        /\ deadline \in [Rows -> Nat \cup {NoTTL}]
    BY <1>6, Zenon
  <2>2. /\ now \in Nat /\ crashes \in Nat /\ sessions \in [Rows -> Int]
        /\ asked \in [Rows -> Nat] /\ heldFor \in [Rows -> Nat]
    BY <1>6, SMT
  <2>3. row \in [Rows -> Row] /\ wk \in [Workers -> Worker]
    BY <1>3, <1>5, <1>6, Zenon
  <2> QED BY <2>1, <2>2, <2>3 DEF TypeOK
<1>8. JobOK /\ HeldOK /\ LxmfOK /\ ClaimOK /\ OneBusy /\ CancelOK
  BY <1>3, <1>5, <1>6 DEF JobOK, HeldOK, LxmfOK, ClaimOK, OneBusy, CancelOK,
                          Active, Busy, InFlight
<1>9. SessionsOK /\ NothingStuckSending /\ BudgetOK /\ DownOK
  BY <1>3, <1>5, <1>6 DEF SessionsOK, NothingStuckSending, BudgetOK,
                          RetriesWithinBudget, DownOK, Active
<1> QED BY <1>7, <1>8, <1>9 DEF IInv

\* Every step of a worker preserves the invariant.
LEMMA WorkerStepPreserves ==
  ASSUME IInv, NEW w \in Workers, WorkerStep(w)
  PROVE  IInv'
BY FetchPreserves, ExitPreserves, TakeRowPreserves, LastWritePreserves,
   PassPolicyPreserves, RefusePreserves, ClaimPreserves, TransmitPreserves,
   BearerAnswersPreserves, MarkSentPreserves, FailOverPreserves,
   HandleFailurePreserves DEF WorkerStep

\* Every step of the system preserves the invariant.
LEMMA NextPreserves == IInv /\ [Next]_vars => IInv'
<1> SUFFICES ASSUME IInv, [Next]_vars PROVE IInv'
  OBVIOUS
<1>1. CASE Next
  <2>1. CASE \E w \in Workers : WorkerStep(w)
    BY <2>1, WorkerStepPreserves
  <2>2. CASE \E l \in Links : SetLXMFSender \/ StartWorker(l) \/ StopWorker(l)
                              \/ \E on \in BOOLEAN : SetEnabled(l, on)
    BY <2>2, QuietPreserves, StartWorkerPreserves, StopPreserves
  <2> QED BY <1>1, <2>1, <2>2, InsertPreserves, EvictPreserves,
             EvictThenRejectPreserves, CancelPreserves,
             RetryPreserves, EndSendingPreserves, ExpirePreserves,
             ExpireForChannelPreserves, QuietPreserves, CrashPreserves,
             StartPreserves DEF Next
<1>2. CASE UNCHANGED vars
  <2>1. /\ TypeOK' /\ JobOK' /\ HeldOK' /\ LxmfOK' /\ ClaimOK'
    BY <1>2 DEF vars, IInv, TypeOK, JobOK, HeldOK, LxmfOK, ClaimOK
  <2>2. OneBusy' /\ CancelOK' /\ DownOK'
    BY <1>2 DEF vars, IInv, OneBusy, CancelOK, DownOK
  <2>3. SessionsOK'
    BY <1>2 DEF vars, IInv, SessionsOK, SosFrame
  <2>4. NothingStuckSending' /\ BudgetOK'
    BY <1>2 DEF vars, IInv, NothingStuckSending, BudgetOK, RetriesWithinBudget
  <2> QED BY <2>1, <2>2, <2>3, <2>4 DEF IInv
<1> QED BY <1>1, <1>2

\* The invariant holds for ever.
THEOREM Invariance == Spec => []IInv
BY InitIInv, NextPreserves, PTL DEF Spec

\* TypeOK, for every number of links, workers and rows: no statement of the
\* ledger and no goroutine writes an ill-formed row.
THEOREM TypeCorrect == Spec => []TypeOK
<1>1. IInv => TypeOK
  BY DEF IInv
<1> QED BY <1>1, Invariance, PTL

\* No satellite message goes out again by itself once a session of it may have
\* delivered it (EndStaleSatelliteSends, handleFailure's ErrOutcomeUnknown),
\* whatever the number of crashes and of overlapping workers.
THEOREM SatelliteSafety == Spec => []SatelliteNotResent
<1>1. IInv => SatelliteNotResent
  BY DEF IInv, SessionsOK, SatelliteNotResent
<1> QED BY <1>1, Invariance, PTL

\* ClaimDeliveryForSending gives a row to one goroutine at a time.
THEOREM ClaimExclusion == Spec => []OneSenderPerRow
<1>1. IInv => OneSenderPerRow
  BY DEF IInv, OneBusy, OneSenderPerRow, Busy
<1> QED BY <1>1, Invariance, PTL

\* A cancelled row is never handed to a bearer, however stale the batch that
\* holds it.
THEOREM CancelSafety == Spec => []CancelledNotSent
<1>1. IInv => CancelledNotSent
  BY DEF IInv, CancelOK, CancelledNotSent, Busy, InFlight
<1> QED BY <1>1, Invariance, PTL

\* While the process is up, a row in 'sending' has a goroutine that will write
\* its end.
THEOREM SendingOwned == Spec => []NothingStuckSending
<1>1. IInv => NothingStuckSending
  BY DEF IInv
<1> QED BY <1>1, Invariance, PTL

\* handleFailure's budget is never overspent, although it counts from the
\* retry count the worker fetched and not from the row's.
THEOREM BudgetSafety == Spec => []RetriesWithinBudget
<1>1. IInv => RetriesWithinBudget
  BY DEF IInv, BudgetOK
<1> QED BY <1>1, Invariance, PTL
=============================================================================
