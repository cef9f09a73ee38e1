------------------------ MODULE DeliveryLedgerHistory ------------------------
(***************************************************************************)
(* What becomes of a row over its whole life: a message that failed over   *)
(* is not lost, a leg of the SOS does not leave the ledger unsent, and the *)
(* TTL clock stands still exactly while a row is held.  The invariant here *)
(* rests on IInv of DeliveryLedgerProofs: a row a worker is busy with is   *)
(* not held, which is why a late failure cannot lose the time of a hold.   *)
(***************************************************************************)
EXTENDS DeliveryLedgerProofs

\* The ids used so far are a prefix: AUTOINCREMENT.
PrefixOK ==
  \A r, q \in Rows : q < r /\ row[r].status # "none" => row[q].status # "none"

\* Another row carries the message of row r.
HasHeir(r) ==
  \E q \in Rows : q > r /\ row[q].status # "none" /\ row[q].ref = row[r].ref

\* A row closed as moved, and a row about to be, has an heir.
HeirOK ==
  /\ \A r \in Rows : row[r].why = "moved" => HasHeir(r)
  /\ \A w \in Workers : wk[w].pc = "moved" =>
       HasHeir(wk[w].job.id) /\ row[wk[w].job.id].rule

\* A rule forwards texts and LXMF only.
RuleOK == \A r \in Rows : row[r].rule => row[r].cls \in {"message", "lxmf"}

\* A leg of the SOS run, by its row; and the statuses in which it is over.
SosLegRow(d) ==
  d.prio = 0 /\ d.cls = "hub_uplink" /\ d.sosRun /\ d.max = 0 /\ d.qos > 0
Over == {"dead", "expired", "denied"}
Excused == {"cancelled", "undeliverable", "absent"}

LegOK ==
  \A r \in Rows : SosLegRow(row[r]) /\ row[r].status \in Over => row[r].why \in Excused

\* A row nobody made has no history.
BlankOK == \A r \in Rows : row[r].status = "none" => heldFor[r] = 0 /\ asked[r] = 0

\* Some goroutine is between its claim of row r and its last write to it.
BusyWith(r) == \E w \in Workers : wk[w].pc \in Busy /\ wk[w].job.id = r

\* The time row r has been held that its deadline does not show yet.
Pause(r) == IF row[r].status = "held" THEN now - row[r].heldAt ELSE 0

Running == Waiting \cup {"sending"}

\* A row whose clock somebody may still look at: it is in the queue, or a
\* worker may put it back there.
Clocked(r) ==
  /\ row[r].rule /\ row[r].cls # "lxmf" /\ row[r].expires # NoTTL /\ asked[r] = 0
  /\ row[r].status \in Running \cup {"held"} \/ BusyWith(r)

ClockOK ==
  /\ \A r \in Rows : Clocked(r) => row[r].expires + Pause(r) = deadline[r] + heldFor[r]
  /\ \A r \in Rows : ~row[r].rule /\ row[r].expires # NoTTL
                     => row[r].expires <= deadline[r] \/ row[r].expires <= now

\* The inductive invariant, on top of IInv.
HInv == PrefixOK /\ HeirOK /\ RuleOK /\ LegOK /\ BlankOK /\ ClockOK

-----------------------------------------------------------------------------
(* What one step does to one row. *)

\* The fields of a row that no statement changes once it is there.
Kept(d, e) ==
  Same(d, e) /\ e.ref = d.ref /\ e.sosRun = d.sosRun /\ e.status # "none"

\* A leg of the SOS ends for a reason that excuses it, or was over before.
LegStep(r) ==
  SosLegRow(row'[r]) /\ row'[r].status \in Over
  => \/ row'[r].why \in Excused
     \/ row[r].status \in Over /\ row'[r].why = row[r].why

\* The deadline moves by the hold that ends, or not at all.
ClockStep(r) ==
  \/ row'[r] = row[r]
  \/ /\ row'[r].expires = row[r].expires
     /\ row'[r].status = "held" => row'[r].heldAt = now
     /\ row'[r].status \in Running \cup {"held"} =>
          \/ row[r].status \in Running \/ BusyWith(r)
          \/ asked'[r] > 0 \/ row[r].cls = "lxmf"
  \/ ~row[r].rule /\ row'[r].expires <= now
  \/ /\ row[r].status = "held" /\ row'[r].status = "queued"
     /\ row'[r].expires = IF row[r].expires # NoTTL /\ row[r].rule
                          THEN row[r].expires + (now - row[r].heldAt)
                          ELSE row[r].expires

\* A row of the ledger lives on, with the history it has.
Fate(r) ==
  /\ deadline'[r] = deadline[r] /\ heldFor'[r] = heldFor[r] /\ asked'[r] >= asked[r]
  /\ row[r].status = "none" => row'[r] = row[r] /\ asked'[r] = asked[r]
  /\ row[r].status # "none" => Kept(row[r], row'[r])
  /\ row'[r].why = "moved" => row[r].why = "moved" \/ HasHeir(r)
  /\ LegStep(r)
  /\ ClockStep(r)

\* A row is made, with the first unused id.
Born(r) ==
  /\ Fresh(r)
  /\ row'[r].status = "queued" /\ row'[r].why = "none"
  /\ row'[r].rule => row'[r].cls \in {"message", "lxmf"}
  /\ row'[r].expires # NoTTL =>
       IF row'[r].rule
       THEN asked'[r] = 0 /\ row'[r].cls # "lxmf"
            => row'[r].expires = deadline'[r] + heldFor'[r]
       ELSE row'[r].expires <= deadline'[r]

\* A goroutine becomes busy with a row by claiming it; an LXMF row met without
\* a router needs no claim.
BusyStep ==
  \A w \in Workers : wk'[w].pc \in Busy =>
    \/ wk[w].pc \in Busy /\ wk'[w].job = wk[w].job
    \/ row[wk'[w].job.id].status \in Waiting
    \/ row[wk'[w].job.id].cls = "lxmf"

\* A failover queues the copy before anything else.
MovedStep ==
  \A w \in Workers : wk'[w].pc = "moved" =>
    \/ wk[w].pc = "moved" /\ wk'[w].job = wk[w].job
    \/ (HasHeir(wk[w].job.id) /\ row[wk[w].job.id].rule)'

\* An heir stays one.
LEMMA HeirKept ==
  ASSUME NEW r \in Rows, HasHeir(r), row[r].status # "none",
         \A q \in Rows : Fate(q) \/ Born(q)
  PROVE  HasHeir(r)'
<1>1. PICK q \in Rows : q > r /\ row[q].status # "none" /\ row[q].ref = row[r].ref
  BY DEF HasHeir
<1>2. Kept(row[q], row'[q]) /\ Kept(row[r], row'[r])
  BY <1>1 DEF Fate, Born, Fresh
<1> QED BY <1>1, <1>2 DEF HasHeir, Kept

\* Steps in which every row lives on or is made preserve the invariant.
LEMMA FatePreserves ==
  ASSUME IInv, IInv', HInv, now' = now, \A r \in Rows : Fate(r) \/ Born(r),
         BusyStep, MovedStep
  PROVE  HInv'
<1>1. PrefixOK'
  <2> SUFFICES ASSUME NEW r \in Rows, NEW q \in Rows, q < r, row'[r].status # "none"
               PROVE  row'[q].status # "none"
    BY DEF PrefixOK
  <2>1. row[q].status # "none"
    <3>1. CASE Fate(r)
      BY <3>1 DEF Fate, HInv, PrefixOK
    <3>2. CASE Born(r)
      <4>1. r \in 1..MaxRows /\ q \in 1..MaxRows /\ MaxRows \in Nat
        BY LedgerAssumption DEF Rows
      <4>2. q \in 1..(r - 1)
        BY <4>1
      <4> QED BY <3>2, <4>2 DEF Born, Fresh
    <3> QED BY <3>1, <3>2
  <2> QED BY <2>1 DEF Fate, Born, Fresh, Kept
<1>2. HeirOK'
  <2>1. ASSUME NEW r \in Rows, row'[r].why = "moved"
        PROVE  HasHeir(r)'
    <3>1. Fate(r)
      BY <2>1 DEF Born
    <3>2. HasHeir(r)
      BY <2>1, <3>1 DEF Fate, HInv, HeirOK
    <3>3. row[r].status # "none"
      BY <3>2 DEF HasHeir, HInv, PrefixOK
    <3> QED BY <3>2, <3>3, HeirKept
  <2>2. ASSUME NEW w \in Workers, wk'[w].pc = "moved"
        PROVE  (HasHeir(wk[w].job.id) /\ row[wk[w].job.id].rule)'
    <3>1. CASE wk[w].pc = "moved" /\ wk'[w].job = wk[w].job
      <4>1. PICK r \in Rows : r = wk[w].job.id
        BY <3>1, HeldRows DEF Active
      <4>2. HasHeir(r) /\ row[r].rule
        BY <3>1, <4>1 DEF HInv, HeirOK
      <4>3. row[r].status # "none" /\ wk'[w].job.id = r
        BY <3>1, <4>1, HeldRows DEF Active
      <4>4. HasHeir(r)'
        BY <4>2, <4>3, HeirKept
      <4>5. row'[r].rule
        BY <4>2, <4>3 DEF Fate, Born, Fresh, Kept, Same
      <4> QED BY <4>3, <4>4, <4>5 DEF HasHeir
    <3>2. CASE (HasHeir(wk[w].job.id) /\ row[wk[w].job.id].rule)'
      BY <3>2
    <3> QED BY <2>2, <3>1, <3>2 DEF MovedStep
  <2> QED BY <2>1, <2>2 DEF HeirOK
<1>3. RuleOK' /\ LegOK' /\ BlankOK'
  <2> SUFFICES ASSUME NEW r \in Rows
               PROVE  /\ row'[r].rule => row'[r].cls \in {"message", "lxmf"}
                      /\ SosLegRow(row'[r]) /\ row'[r].status \in Over
                         => row'[r].why \in Excused
                      /\ row'[r].status = "none" => heldFor'[r] = 0 /\ asked'[r] = 0
    BY DEF RuleOK, LegOK, BlankOK
  <2>1. CASE Born(r)
    BY <2>1 DEF Born, Over
  <2>2. CASE Fate(r) /\ row[r].status = "none"
    BY <2>2 DEF Fate, HInv, RuleOK, LegOK, BlankOK
  <2>3. CASE Fate(r) /\ row[r].status # "none"
    <3>1. Kept(row[r], row'[r]) /\ LegStep(r)
      BY <2>3 DEF Fate
    <3>2. SosLegRow(row'[r]) => SosLegRow(row[r])
      BY <3>1 DEF Kept, Same, SosLegRow
    <3> QED BY <3>1, <3>2 DEF Kept, Same, LegStep, HInv, RuleOK, LegOK
  <2> QED BY <2>1, <2>2, <2>3
<1>4. ClockOK'
  <2>0. ASSUME NEW r \in Rows
        PROVE  /\ Clocked(r)' => row'[r].expires + Pause(r)' = deadline'[r] + heldFor'[r]
               /\ ~row'[r].rule /\ row'[r].expires # NoTTL
                  => row'[r].expires <= deadline'[r] \/ row'[r].expires <= now'
    <3>1. /\ row[r].expires \in Nat \cup {NoTTL} /\ row'[r].expires \in Nat \cup {NoTTL}
          /\ row[r].heldAt \in Nat /\ row'[r].heldAt \in Nat
          /\ now \in Nat /\ heldFor[r] \in Nat /\ heldFor'[r] \in Nat
          /\ deadline[r] \in Nat \cup {NoTTL} /\ deadline'[r] \in Nat \cup {NoTTL}
          /\ asked[r] \in Nat /\ asked'[r] \in Nat /\ NoTTL = -1
          /\ row[r].heldAt <= now
      <4>1. row[r] \in Row /\ row'[r] \in Row
        BY DEF IInv, TypeOK
      <4> QED BY <4>1, RowFields DEF IInv, TypeOK, HeldOK, NoTTL
    <3>2. CASE Born(r)
      BY <3>1, <3>2 DEF Born, Clocked, Pause
    <3>3. CASE Fate(r)
      <4>1. /\ deadline'[r] = deadline[r] /\ heldFor'[r] = heldFor[r]
            /\ asked'[r] >= asked[r] /\ ClockStep(r)
            /\ row'[r].rule = row[r].rule /\ row'[r].cls = row[r].cls
        BY <3>3 DEF Fate, Kept, Same
      <4>2. ~row'[r].rule /\ row'[r].expires # NoTTL
            => row'[r].expires <= deadline'[r] \/ row'[r].expires <= now'
        BY <3>1, <4>1 DEF ClockStep, HInv, ClockOK
      <4>3. ASSUME Clocked(r)'
            PROVE  row'[r].expires + Pause(r)' = deadline'[r] + heldFor'[r]
        <5>1. /\ row[r].rule /\ row[r].cls # "lxmf" /\ asked[r] = 0 /\ asked'[r] = 0
              /\ row'[r].expires # NoTTL
              /\ row'[r].status \in Running \cup {"held"} \/ BusyWith(r)'
          BY <3>1, <4>1, <4>3 DEF Clocked
        <5>2. BusyWith(r)' => BusyWith(r) \/ row[r].status \in Running
          BY <5>1 DEF BusyWith, BusyStep, Running
        <5>3. BusyWith(r) => row[r].status # "held"
          BY <5>1 DEF BusyWith, IInv, ClaimOK
        <5>4. row[r].status \in Running => row[r].status # "held"
          BY DEF Running, Waiting
        <5>5. row[r].expires # NoTTL /\ (row[r].status \in Running \cup {"held"} \/ BusyWith(r))
              => row[r].expires + Pause(r) = deadline[r] + heldFor[r]
          BY <5>1 DEF HInv, ClockOK, Clocked
        <5>6. CASE row'[r] = row[r]
          <6>1. Pause(r)' = Pause(r)
            BY <5>6 DEF Pause
          <6> QED BY <4>1, <5>1, <5>2, <5>5, <5>6, <6>1
        <5>7. CASE /\ row'[r].expires = row[r].expires
                   /\ row'[r].status = "held" => row'[r].heldAt = now
                   /\ row'[r].status \in Running \cup {"held"} =>
                        \/ row[r].status \in Running \/ BusyWith(r)
                        \/ asked'[r] > 0 \/ row[r].cls = "lxmf"
          <6>1. row[r].status \in Running \/ BusyWith(r)
            BY <5>1, <5>2, <5>7
          <6>2. Pause(r) = 0
            BY <5>3, <5>4, <6>1 DEF Pause
          <6>3. Pause(r)' = 0
            BY <3>1, <5>7 DEF Pause
          <6> QED BY <4>1, <5>1, <5>5, <5>7, <6>1, <6>2, <6>3
        <5>8. CASE /\ row[r].status = "held" /\ row'[r].status = "queued"
                   /\ row'[r].expires = IF row[r].expires # NoTTL /\ row[r].rule
                                        THEN row[r].expires + (now - row[r].heldAt)
                                        ELSE row[r].expires
          <6>1. Pause(r) = now - row[r].heldAt /\ Pause(r)' = 0
            BY <5>8 DEF Pause
          <6>2. /\ row[r].expires # NoTTL
                /\ row'[r].expires = row[r].expires + (now - row[r].heldAt)
            BY <5>1, <5>8
          <6> QED BY <3>1, <4>1, <5>5, <5>8, <6>1, <6>2
        <5> QED BY <4>1, <5>1, <5>6, <5>7, <5>8 DEF ClockStep
      <4> QED BY <4>2, <4>3
    <3> QED BY <3>2, <3>3
  <2> QED BY <2>0 DEF ClockOK
<1> QED BY <1>1, <1>2, <1>3, <1>4 DEF HInv

\* The clock: what is held is held for one more tick.
LEMMA TickHistory ==
  ASSUME IInv, HInv, Tick
  PROVE  HInv'
<1>1. /\ row' = row /\ wk' = wk /\ asked' = asked /\ deadline' = deadline
      /\ now' = now + 1 /\ now \in Nat
      /\ \A r \in Rows : heldFor'[r] = IF row[r].status = "held" THEN heldFor[r] + 1
                                       ELSE heldFor[r]
  BY DEF Tick, IInv, TypeOK
<1>2. PrefixOK' /\ HeirOK' /\ RuleOK' /\ LegOK' /\ BlankOK'
  BY <1>1 DEF HInv, PrefixOK, HeirOK, HasHeir, RuleOK, LegOK, BlankOK
<1>3. ClockOK'
  <2> SUFFICES ASSUME NEW r \in Rows
               PROVE  /\ Clocked(r)' => row'[r].expires + Pause(r)' = deadline'[r] + heldFor'[r]
                      /\ ~row'[r].rule /\ row'[r].expires # NoTTL
                         => row'[r].expires <= deadline'[r] \/ row'[r].expires <= now'
    BY DEF ClockOK
  <2>1. /\ row[r].expires \in Nat \cup {NoTTL} /\ row[r].heldAt \in Nat
        /\ heldFor[r] \in Nat /\ deadline[r] \in Nat \cup {NoTTL} /\ NoTTL = -1
    BY RowFields DEF IInv, TypeOK, NoTTL
  <2>2. Clocked(r)' => Clocked(r)
    BY <1>1 DEF Clocked, BusyWith
  <2>3. /\ Clocked(r) => row[r].expires + Pause(r) = deadline[r] + heldFor[r]
        /\ ~row[r].rule /\ row[r].expires # NoTTL
           => row[r].expires <= deadline[r] \/ row[r].expires <= now
    BY DEF HInv, ClockOK
  <2>4. Pause(r)' = IF row[r].status = "held" THEN Pause(r) + 1 ELSE Pause(r)
    BY <1>1, <2>1 DEF Pause
  <2>5. Pause(r) \in Int
    BY <1>1, <2>1 DEF Pause
  <2> QED BY <1>1, <2>1, <2>2, <2>3, <2>4, <2>5
<1> QED BY <1>2, <1>3 DEF HInv

-----------------------------------------------------------------------------
(* The statements, row by row. *)

\* A row that is left alone.
LEMMA SameFate ==
  ASSUME IInv, NEW r \in Rows, row'[r] = row[r], deadline'[r] = deadline[r],
         heldFor'[r] = heldFor[r], asked'[r] = asked[r]
  PROVE  Fate(r)
<1>1. asked[r] \in Nat
  BY DEF IInv, TypeOK
<1> QED BY <1>1 DEF Fate, Kept, Same, LegStep, ClockStep

\* SetDeliveryStatus on one row's record, and the statements that write other
\* fields.
LEMMA StatusOnly ==
  ASSUME NEW d \in Row, NEW st \in Status \ {"none"}, NEW e,
         e = [d EXCEPT !.status = st]
  PROVE  /\ Kept(d, e) /\ e.status = st /\ e.why = d.why
         /\ e.expires = d.expires /\ e.heldAt = d.heldAt
BY DEF Row, Kept, Same

\* CancelDelivery on one row's record.
LEMMA CancelHistory ==
  ASSUME NEW d \in Row, NEW e,
         e = [d EXCEPT !.status = "dead", !.why = "cancelled", !.heldAt = 0]
  PROVE  /\ Kept(d, e) /\ e.status = "dead" /\ e.why = "cancelled"
         /\ e.expires = d.expires
BY DEF Row, Kept, Same

\* A new deadline on one row's record.
LEMMA ExpiresHistory ==
  ASSUME NEW d \in Row, d.status # "none", NEW x \in Nat, NEW e,
         e = [d EXCEPT !.expires = x]
  PROVE  /\ Kept(d, e) /\ e.status = d.status /\ e.why = d.why /\ e.expires = x
BY DEF Row, Kept, Same

\* A counted retry on one row's record.
LEMMA CountedHistory ==
  ASSUME NEW d \in Row, NEW n \in Nat, NEW e, e = Counted(d, n)
  PROVE  /\ Kept(d, e) /\ e.status = "retry" /\ e.why = d.why
         /\ e.expires = d.expires /\ e.heldAt = d.heldAt
BY DEF Counted, Row, Kept, Same

\* A statement that ends row r: its deadline stays, and if it is a leg of the
\* SOS there is an excuse.
LEMMA EndFate ==
  ASSUME IInv, NEW r \in Rows, row[r].status # "none", Kept(row[r], row'[r]),
         row'[r].status \notin Running \cup {"held"},
         row'[r].expires = row[r].expires,
         row'[r].why = "moved" => row[r].why = "moved" \/ HasHeir(r),
         \/ row'[r].status \notin Over
         \/ row'[r].why \in Excused
         \/ ~SosLegRow(row[r]),
         deadline' = deadline, heldFor' = heldFor, asked' = asked
  PROVE  Fate(r)
<1>1. asked[r] \in Nat
  BY DEF IInv, TypeOK
<1>2. LegStep(r)
  BY DEF LegStep, SosLegRow, Kept, Same
<1>3. ClockStep(r)
  BY DEF ClockStep
<1> QED BY <1>1, <1>2, <1>3 DEF Fate

\* A statement that leaves row r in the queue, or puts it back there.
LEMMA StayFate ==
  ASSUME IInv, NEW r \in Rows, row[r].status # "none", Kept(row[r], row'[r]),
         row'[r].expires = row[r].expires,
         row'[r].status \in Running, row'[r].why \in {"none", row[r].why},
         \/ row[r].status \in Running \/ BusyWith(r)
         \/ asked'[r] > 0 \/ row[r].cls = "lxmf",
         deadline' = deadline, heldFor' = heldFor, asked'[r] >= asked[r]
  PROVE  Fate(r)
<1>2. LegStep(r)
  BY DEF LegStep, Over, Running, Waiting
<1>3. ClockStep(r)
  BY DEF ClockStep, Running, Waiting
<1> QED BY <1>2, <1>3 DEF Fate

\* The row an insert makes starts its clock at its deadline.
LEMMA NewRowBorn ==
  ASSUME IInv, HInv, NEW t \in Templates, NEW l \in Links, NEW r \in Rows, Fresh(r),
         row'[r] = NewRow(r, t, l, Deadline(t)), deadline'[r] = Deadline(t),
         heldFor' = heldFor, asked' = asked
  PROVE  Born(r)
<1>1. t.rule => t.cls \in {"message", "lxmf"}
  BY LedgerAssumption
<1>2. PICK x \in Nat \cup {NoTTL} : x = Deadline(t)
  BY DeadlineType DEF IInv
<1>3. heldFor[r] = 0
  BY DEF Fresh, HInv, BlankOK
<1>4. row'[r] = NewRow(r, t, l, x)
  BY <1>2
<1>5. /\ row'[r].status = "queued" /\ row'[r].why = "none" /\ row'[r].rule = t.rule
      /\ row'[r].cls = t.cls /\ row'[r].expires = x
  BY <1>4 DEF NewRow
<1>6. x # NoTTL => x = deadline'[r] + heldFor'[r] /\ x <= deadline'[r]
  BY <1>2, <1>3 DEF NoTTL
<1> HIDE <1>2, <1>4
<1> QED BY <1>1, <1>5, <1>6 DEF Born

-----------------------------------------------------------------------------
(* Steps outside the workers. *)

\* A step that makes nobody busy.
LEMMA NobodyBusier ==
  ASSUME \A w \in Workers : wk'[w].pc \in Busy =>
           wk'[w].pc = wk[w].pc /\ wk'[w].job = wk[w].job
  PROVE  BusyStep /\ MovedStep
BY DEF BusyStep, MovedStep, Busy, InFlight

\* InsertDelivery: a new row, no other touched.
LEMMA InsertHistory ==
  ASSUME IInv, IInv', HInv, NEW t \in Templates, NEW l \in Links, InsertDelivery(t, l)
  PROVE  HInv'
<1>1. PICK r \in Rows :
        /\ Fresh(r)
        /\ row' = [row EXCEPT ![r] = NewRow(r, t, l, Deadline(t))]
        /\ deadline' = [deadline EXCEPT ![r] = Deadline(t)]
  BY DEF InsertDelivery
<1>2. now' = now /\ wk' = wk /\ asked' = asked /\ heldFor' = heldFor
  BY DEF InsertDelivery
<1>3. /\ row'[r] = NewRow(r, t, l, Deadline(t)) /\ deadline'[r] = Deadline(t)
      /\ \A q \in Rows : q # r => row'[q] = row[q] /\ deadline'[q] = deadline[q]
  BY <1>1 DEF IInv, TypeOK
<1>4. Born(r)
  BY <1>1, <1>2, <1>3, NewRowBorn
<1>5. \A q \in Rows : Fate(q) \/ Born(q)
  BY <1>2, <1>3, <1>4, SameFate
<1>6. BusyStep /\ MovedStep
  BY <1>2, NobodyBusier
<1> QED BY <1>2, <1>5, <1>6, FatePreserves

\* An evicted row had a priority to lose: it is no leg of the SOS.
LEMMA EvictedFate ==
  ASSUME IInv, NEW l \in Links, NEW v \in Rows, WeakestEvictable(l, v),
         row'[v] = [row[v] EXCEPT !.status = "dead", !.why = "evicted"],
         deadline'[v] = deadline[v], heldFor' = heldFor, asked' = asked
  PROVE  Fate(v)
<1>1. row[v] \in Row /\ row[v].prio > 0 /\ row[v].status # "none"
  BY DEF IInv, TypeOK, WeakestEvictable, Cancellable, Waiting
<1>2. "dead" \in Status \ {"none"} /\ "evicted" \in Why
  BY DEF Status, Why
<1>3. /\ Kept(row[v], row'[v]) /\ row'[v].status = "dead" /\ row'[v].why = "evicted"
      /\ row'[v].expires = row[v].expires
  BY <1>1 DEF Row, Kept, Same
<1>4. ~SosLegRow(row[v]) /\ row[v].prio \in Nat
  BY <1>1, RowFields DEF SosLegRow
<1>5. LegStep(v) /\ ClockStep(v) /\ asked[v] \in Nat
  BY <1>3, <1>4 DEF LegStep, SosLegRow, Kept, Same, ClockStep, Running, Waiting, IInv, TypeOK
<1> QED BY <1>1, <1>3, <1>5 DEF Fate

\* EvictDelivery with the arrival that pushed the row out.
LEMMA EvictHistory ==
  ASSUME IInv, IInv', HInv, NEW t \in Templates, NEW l \in Links, DispatchEvicting(t, l)
  PROVE  HInv'
<1>1. PICK v \in Rows, r \in Rows :
        /\ WeakestEvictable(l, v) /\ Fresh(r)
        /\ row' = [row EXCEPT ![v].status = "dead", ![v].why = "evicted",
                              ![r] = NewRow(r, t, l, Deadline(t))]
        /\ deadline' = [deadline EXCEPT ![r] = Deadline(t)]
  BY DEF DispatchEvicting
<1>2. now' = now /\ wk' = wk /\ asked' = asked /\ heldFor' = heldFor
  BY DEF DispatchEvicting
<1>3. v # r
  BY <1>1 DEF WeakestEvictable, Cancellable, Waiting, Fresh
<1>4. /\ row'[v] = [row[v] EXCEPT !.status = "dead", !.why = "evicted"]
      /\ row'[r] = NewRow(r, t, l, Deadline(t)) /\ deadline'[r] = Deadline(t)
      /\ deadline'[v] = deadline[v]
      /\ \A q \in Rows : q \notin {v, r} => row'[q] = row[q] /\ deadline'[q] = deadline[q]
  BY <1>1, <1>3 DEF IInv, TypeOK
<1>5. Born(r)
  BY <1>1, <1>2, <1>4, NewRowBorn
<1>6. Fate(v)
  BY <1>1, <1>2, <1>4, EvictedFate
<1>7. \A q \in Rows : Fate(q) \/ Born(q)
  BY <1>2, <1>4, <1>5, <1>6, SameFate
<1>8. BusyStep /\ MovedStep
  BY <1>2, NobodyBusier
<1> QED BY <1>2, <1>7, <1>8, FatePreserves

\* The row is evicted and the arrival then refused by the byte limit.
LEMMA EvictThenRejectHistory ==
  ASSUME IInv, IInv', HInv, NEW t \in Templates, NEW l \in Links, EvictThenReject(t, l)
  PROVE  HInv'
<1>1. PICK v \in Rows : WeakestEvictable(l, v) /\ SetDeliveryStatus(v, "dead", "evicted")
  BY DEF EvictThenReject
<1>2. /\ now' = now /\ wk' = wk /\ asked' = asked /\ heldFor' = heldFor
      /\ deadline' = deadline
  BY DEF EvictThenReject
<1>3. /\ row'[v] = [row[v] EXCEPT !.status = "dead", !.why = "evicted"]
      /\ \A q \in Rows : q # v => row'[q] = row[q]
  BY <1>1 DEF IInv, TypeOK, SetDeliveryStatus
<1>4. Fate(v)
  BY <1>1, <1>2, <1>3, EvictedFate
<1>5. \A q \in Rows : Fate(q)
  BY <1>2, <1>3, <1>4, SameFate
<1>6. BusyStep /\ MovedStep
  BY <1>2, NobodyBusier
<1> QED BY <1>2, <1>5, <1>6, FatePreserves

\* A cancel ends a row where it stands.
LEMMA CancelledFate ==
  ASSUME IInv, NEW r \in Rows, Cancellable(r),
         row'[r] = [row[r] EXCEPT !.status = "dead", !.why = "cancelled", !.heldAt = 0],
         deadline' = deadline, heldFor' = heldFor, asked' = asked
  PROVE  Fate(r)
<1>1. row[r] \in Row /\ row[r].status # "none"
  BY DEF IInv, TypeOK, Cancellable, Waiting
<1>2. /\ Kept(row[r], row'[r]) /\ row'[r].status = "dead" /\ row'[r].why = "cancelled"
      /\ row'[r].expires = row[r].expires
  BY <1>1, CancelHistory
<1> QED BY <1>1, <1>2, EndFate DEF Excused, Running, Waiting

\* A person cancels a row.
LEMMA CancelDeliveryHistory ==
  ASSUME IInv, IInv', HInv, NEW r \in Rows, CancelDelivery(r)
  PROVE  HInv'
<1>1. /\ now' = now /\ wk' = wk /\ asked' = asked /\ heldFor' = heldFor
      /\ deadline' = deadline /\ Cancellable(r)
  BY DEF CancelDelivery
<1>2. /\ row'[r] = [row[r] EXCEPT !.status = "dead", !.why = "cancelled", !.heldAt = 0]
      /\ \A q \in Rows : q # r => row'[q] = row[q]
  BY DEF CancelDelivery, IInv, TypeOK
<1>3. Fate(r)
  BY <1>1, <1>2, CancelledFate
<1>4. \A q \in Rows : Fate(q)
  BY <1>1, <1>2, <1>3, SameFate
<1>5. BusyStep /\ MovedStep
  BY <1>1, NobodyBusier
<1> QED BY <1>1, <1>4, <1>5, FatePreserves

\* A person retries a row that ended: it runs under the deadline it had.
LEMMA RetryHistory ==
  ASSUME IInv, IInv', HInv, NEW r \in Rows, RetryDelivery(r)
  PROVE  HInv'
<1>1. /\ now' = now /\ wk' = wk /\ heldFor' = heldFor /\ deadline' = deadline
      /\ row[r].status = "dead"
  BY DEF RetryDelivery
<1>2. /\ row'[r] = [row[r] EXCEPT !.status = "queued"]
      /\ asked[r] \in Nat /\ asked'[r] = asked[r] + 1
      /\ \A q \in Rows : q # r => row'[q] = row[q] /\ asked'[q] = asked[q]
  BY DEF RetryDelivery, IInv, TypeOK
<1>3. /\ Kept(row[r], row'[r]) /\ row'[r].status = "queued" /\ row'[r].why = row[r].why
      /\ row'[r].expires = row[r].expires
  <2>1. row[r] \in Row /\ "queued" \in Status \ {"none"}
    BY DEF IInv, TypeOK, Status
  <2> QED BY <1>2, <2>1, StatusOnly
<1>4. Fate(r)
  <2>1. /\ row'[r].status \in Running /\ row'[r].why \in {"none", row[r].why}
        /\ asked'[r] > 0 /\ asked'[r] >= asked[r] /\ row[r].status # "none"
    BY <1>1, <1>2, <1>3 DEF Running, Waiting
  <2> HIDE <1>2
  <2> QED BY <1>1, <1>3, <2>1, StayFate
<1>5. \A q \in Rows : Fate(q)
  BY <1>1, <1>2, <1>4, SameFate
<1>6. BusyStep /\ MovedStep
  BY <1>1, NobodyBusier
<1> QED BY <1>1, <1>5, <1>6, FatePreserves

\* Only a direct send's deadline is brought forward.
LEMMA EndSendingHistory ==
  ASSUME IInv, IInv', HInv, NEW r \in Rows, EndSendingDelivery(r)
  PROVE  HInv'
<1>1. /\ now' = now /\ wk' = wk /\ heldFor' = heldFor /\ deadline' = deadline
      /\ asked' = asked /\ row[r].status = "sending" /\ row[r].cls = "hub_uplink"
  BY DEF EndSendingDelivery
<1>2. /\ row'[r] = [row[r] EXCEPT !.expires = now] /\ now \in Nat /\ asked[r] \in Nat
      /\ \A q \in Rows : q # r => row'[q] = row[q]
  BY DEF EndSendingDelivery, IInv, TypeOK
<1>3. /\ Kept(row[r], row'[r]) /\ row'[r].status = row[r].status
      /\ row'[r].why = row[r].why /\ row'[r].expires = now
  <2>1. row[r] \in Row /\ row[r].status # "none"
    BY <1>1 DEF IInv, TypeOK
  <2> QED BY <1>2, <2>1, ExpiresHistory
<1>4. ~row[r].rule
  BY <1>1 DEF HInv, RuleOK
<1>5. LegStep(r) /\ ClockStep(r)
  BY <1>1, <1>2, <1>3, <1>4 DEF LegStep, Over, ClockStep
<1>6. Fate(r)
  BY <1>1, <1>2, <1>3, <1>5 DEF Fate
<1>7. \A q \in Rows : Fate(q)
  BY <1>1, <1>2, <1>6, SameFate
<1>8. BusyStep /\ MovedStep
  BY <1>1, NobodyBusier
<1> QED BY <1>1, <1>7, <1>8, FatePreserves

\* The reaper takes only rows that have a priority to lose.
LEMMA ExpiredFate ==
  ASSUME IInv, NEW r \in Rows, Expirable(r),
         row'[r] = [row[r] EXCEPT !.status = "expired"],
         deadline' = deadline, heldFor' = heldFor, asked' = asked
  PROVE  Fate(r)
<1>1. row[r] \in Row /\ row[r].status # "none" /\ row[r].prio > 0
      /\ "expired" \in Status \ {"none"}
  BY DEF IInv, TypeOK, Expirable, Waiting, Status
<1>2. /\ Kept(row[r], row'[r]) /\ row'[r].status = "expired"
      /\ row'[r].why = row[r].why /\ row'[r].expires = row[r].expires
  BY <1>1, StatusOnly
<1>3. ~SosLegRow(row[r])
  BY <1>1, RowFields DEF SosLegRow
<1> QED BY <1>1, <1>2, <1>3, EndFate DEF Running, Waiting

\* The reaper ends the rows past their deadline.
LEMMA ExpireHistory ==
  ASSUME IInv, IInv', HInv,
         ExpireDeliveries \/ \E w \in Workers : ExpireDeliveriesForChannel(w)
  PROVE  HInv'
<1>1. /\ now' = now /\ wk' = wk /\ asked' = asked /\ heldFor' = heldFor
      /\ deadline' = deadline
      /\ \A r \in Rows : \/ row'[r] = row[r]
                         \/ /\ Expirable(r)
                            /\ row'[r] = [row[r] EXCEPT !.status = "expired"]
  BY DEF ExpireDeliveries, ExpireDeliveriesForChannel
<1>2. \A r \in Rows : Fate(r)
  BY <1>1, SameFate, ExpiredFate
<1>3. BusyStep /\ MovedStep
  BY <1>1, NobodyBusier
<1> QED BY <1>1, <1>2, <1>3, FatePreserves

\* Steps that touch no row and no history.
LEMMA StillHistory ==
  ASSUME IInv, IInv', HInv, now' = now, row' = row, asked' = asked,
         heldFor' = heldFor, deadline' = deadline, BusyStep, MovedStep
  PROVE  HInv'
<1>1. \A r \in Rows : Fate(r)
  BY SameFate
<1> QED BY <1>1, FatePreserves

-----------------------------------------------------------------------------
(* The life of a worker. *)

\* A link stops and its worker's rows are held.
LEMMA StopHistory ==
  ASSUME IInv, IInv', HInv, NEW l \in Links, StopWorker(l)
  PROVE  HInv'
<1>1. /\ now' = now /\ asked' = asked /\ heldFor' = heldFor /\ deadline' = deadline
      /\ now \in Nat
  BY DEF StopWorker, IInv, TypeOK
<1>2. ASSUME NEW r \in Rows
      PROVE  Fate(r)
  <2>1. row[r] \in Row /\ asked[r] \in Nat
    BY DEF IInv, TypeOK
  <2>2. CASE row[r].link = l /\ row[r].status \in Waiting
    <3>1. row'[r] = [row[r] EXCEPT !.status = "held", !.heldAt = now]
      BY <2>2 DEF StopWorker, HoldDeliveriesForChannel, HoldRow
    <3>2. /\ Kept(row[r], row'[r]) /\ row'[r].status = "held" /\ row'[r].why = row[r].why
          /\ row'[r].expires = row[r].expires /\ row'[r].heldAt = now
      BY <1>1, <2>1, <3>1 DEF Row, Kept, Same
    <3>3. row[r].status # "none" /\ row[r].status \in Running
      BY <2>2 DEF Running, Waiting
    <3>4. LegStep(r) /\ ClockStep(r)
      BY <3>2, <3>3 DEF LegStep, Over, ClockStep
    <3> HIDE <3>1
    <3> QED BY <1>1, <2>1, <3>2, <3>3, <3>4 DEF Fate
  <2>3. CASE ~(row[r].link = l /\ row[r].status \in Waiting)
    BY <1>1, <2>3, SameFate DEF StopWorker, HoldDeliveriesForChannel
  <2> QED BY <2>2, <2>3
<1>3. PICK v \in Workers : v = workerOf[l]
  BY DEF StopWorker, IInv, TypeOK
<1>4. /\ wk'[v] = [wk[v] EXCEPT !.stopped = TRUE] /\ wk[v] \in Worker
      /\ \A w \in Workers : w # v => wk'[w] = wk[w]
  BY <1>3 DEF StopWorker, IInv, TypeOK
<1>5. wk'[v].pc = wk[v].pc /\ wk'[v].job = wk[v].job
  BY <1>4 DEF Worker
<1>6. BusyStep /\ MovedStep
  BY <1>4, <1>5, NobodyBusier
<1> QED BY <1>1, <1>2, <1>6, FatePreserves

\* A held row that is released gets the time of its hold back.
LEMMA UnheldFate ==
  ASSUME IInv, NEW r \in Rows, row[r].status = "held", row'[r] = UnholdRow(r),
         deadline' = deadline, heldFor' = heldFor, asked' = asked
  PROVE  Fate(r)
<1>1. row[r] \in Row /\ now \in Nat /\ row[r].heldAt <= now /\ asked[r] \in Nat
  BY DEF IInv, TypeOK, HeldOK
<1>2. PICK x : x = IF row[r].expires # NoTTL /\ row[r].rule
                   THEN row[r].expires + (now - row[r].heldAt) ELSE row[r].expires
  OBVIOUS
<1>3. UnholdRow(r) = Unheld(row[r], x)
  BY <1>1, <1>2 DEF UnholdRow, Row, Unheld
<1>4. /\ Kept(row[r], row'[r]) /\ row'[r].status = "queued" /\ row'[r].why = row[r].why
      /\ row'[r].expires = x
  <2>1. PICK e : e = Unheld(row[r], x)
    OBVIOUS
  <2>2. /\ Kept(row[r], e) /\ e.status = "queued" /\ e.why = row[r].why
        /\ e.expires = x
    BY <1>1, <2>1 DEF Unheld, Row, Kept, Same
  <2> QED BY <1>3, <2>1, <2>2
<1>5. LegStep(r) /\ ClockStep(r)
  BY <1>2, <1>4 DEF LegStep, Over, ClockStep
<1> HIDE <1>2, <1>3
<1> QED BY <1>1, <1>4, <1>5 DEF Fate

\* A link comes back and its held rows go on, their clocks with them.
LEMMA StartWorkerHistory ==
  ASSUME IInv, IInv', HInv, NEW l \in Links, StartWorker(l)
  PROVE  HInv'
<1>1. /\ now' = now /\ asked' = asked /\ heldFor' = heldFor /\ deadline' = deadline
      /\ \A r \in Rows : \/ row'[r] = row[r]
                         \/ row[r].status = "held" /\ row'[r] = UnholdRow(r)
  BY DEF StartWorker, UnholdDeliveriesForChannel
<1>2. \A r \in Rows : Fate(r)
  BY <1>1, SameFate, UnheldFate, Zenon
<1>3. \A w \in Workers : wk'[w] = wk[w] \/ wk'[w].pc = "idle"
  <2>1. CASE UNCHANGED <<workerOf, wk>>
    BY <2>1
  <2>2. ASSUME NEW v \in Workers, wk' = [wk EXCEPT ![v] = NewWorker(l)]
        PROVE  \A w \in Workers : wk'[w] = wk[w] \/ wk'[w].pc = "idle"
    <3>1. NewWorker(l).pc = "idle"
      BY NewWorkerShape
    <3> QED BY <2>2, <3>1 DEF IInv, TypeOK
  <2> QED BY <2>1, <2>2 DEF StartWorker
<1>4. BusyStep /\ MovedStep
  BY <1>3, NobodyBusier DEF Busy, InFlight
<1> QED BY <1>1, <1>2, <1>4, FatePreserves

\* The process ends: the tables stay.
LEMMA CrashHistory ==
  ASSUME IInv, IInv', HInv, Crash
  PROVE  HInv'
<1>1. /\ now' = now /\ row' = row /\ asked' = asked /\ heldFor' = heldFor
      /\ deadline' = deadline
  BY DEF Crash, ledger
<1>2. \A w \in Workers : wk'[w].pc = "gone"
  BY GoneWorkerShape DEF Crash
<1>3. BusyStep /\ MovedStep
  BY <1>2, NobodyBusier DEF Busy, InFlight
<1> QED BY <1>1, <1>3, StillHistory

\* The start of the process: a leg of the SOS is neither a runaway nor a
\* satellite session that must not be repeated.
LEMMA RecoveredFate ==
  ASSUME IInv, NEW r \in Rows, row'[r] = RecoveredRow(r),
         deadline' = deadline, heldFor' = heldFor, asked' = asked
  PROVE  Fate(r)
<1>1. row[r] \in Row /\ asked[r] \in Nat /\ {"dead", "retry"} \subseteq Status \ {"none"}
      /\ {"runaway", "uncertain", "none"} \subseteq Why
  BY DEF IInv, TypeOK, Status, Why
<1>2. CASE Runaway(r)
  <2>0. row[r].status \in Waiting /\ row[r].status \notin {"sending", "none"} /\ ~row[r].sosRun
    BY <1>2 DEF Runaway, Waiting
  <2>1. row'[r] = [row[r] EXCEPT !.status = "dead", !.why = "runaway"]
    BY <1>2, <2>0 DEF RecoveredRow
  <2>2. /\ Kept(row[r], row'[r]) /\ row'[r].status = "dead" /\ row'[r].why = "runaway"
        /\ row'[r].expires = row[r].expires
    BY <1>1, <2>0, <2>1 DEF Row, Kept, Same
  <2> HIDE <2>1
  <2> QED BY <2>0, <2>2, EndFate DEF SosLegRow, Running, Waiting
<1>3. CASE ~Runaway(r) /\ row[r].status = "sending"
  <2>1. CASE row[r].link \in Sat /\ ~SosFrame(r)
    <3>1. row'[r] = [row[r] EXCEPT !.status = "dead", !.why = "uncertain"]
      BY <1>3, <2>1 DEF RecoveredRow
    <3>2. /\ Kept(row[r], row'[r]) /\ row'[r].status = "dead" /\ row'[r].why = "uncertain"
          /\ row'[r].expires = row[r].expires
      BY <1>1, <1>3, <3>1 DEF Row, Kept, Same
    <3> HIDE <3>1
    <3> QED BY <1>3, <2>1, <3>2, EndFate DEF SosLegRow, SosFrame, Running, Waiting
  <2>2. CASE ~(row[r].link \in Sat /\ ~SosFrame(r))
    <3>1. row'[r] = [row[r] EXCEPT !.status = "retry", !.why = "none"]
      BY <1>3, <2>2 DEF RecoveredRow
    <3>2. /\ Kept(row[r], row'[r]) /\ row'[r].status = "retry" /\ row'[r].why = "none"
          /\ row'[r].expires = row[r].expires
      BY <1>1, <1>3, <3>1 DEF Row, Kept, Same
    <3>3. /\ row'[r].status \in Running /\ row[r].status \in Running
          /\ row[r].status # "none" /\ asked'[r] >= asked[r]
      BY <1>1, <1>3, <3>2 DEF Running, Waiting
    <3> HIDE <3>1
    <3> QED BY <3>2, <3>3, StayFate
  <2> QED BY <2>1, <2>2
<1>4. CASE ~Runaway(r) /\ row[r].status # "sending"
  <2>1. row'[r] = row[r]
    BY <1>4 DEF RecoveredRow
  <2> QED BY <2>1, SameFate
<1> QED BY <1>2, <1>3, <1>4

\* The process starts: rows it left in flight are taken up again.
LEMMA StartHistory ==
  ASSUME IInv, IInv', HInv, Start
  PROVE  HInv'
<1>1. /\ now' = now /\ asked' = asked /\ heldFor' = heldFor /\ deadline' = deadline
      /\ \A r \in Rows : row'[r] = RecoveredRow(r)
  BY DEF Start
<1>2. \A r \in Rows : Fate(r)
  BY <1>1, RecoveredFate
<1>3. PICK f \in [Links -> Workers] :
        wk' = [w \in Workers |->
                 IF \E l \in Links : enabled[l] /\ f[l] = w
                 THEN NewWorker(CHOOSE l \in Links : enabled[l] /\ f[l] = w)
                 ELSE wk[w]]
  BY DEF Start
<1>4. ASSUME NEW w \in Workers
      PROVE  wk'[w] = wk[w] \/ wk'[w].pc = "idle"
  <2>1. CASE \E l \in Links : enabled[l] /\ f[l] = w
    <3>1. PICK k \in Links : k = CHOOSE l \in Links : enabled[l] /\ f[l] = w
      BY <2>1
    <3>2. wk'[w] = NewWorker(k)
      BY <1>3, <2>1, <3>1
    <3> QED BY <3>2, NewWorkerShape
  <2>2. CASE ~(\E l \in Links : enabled[l] /\ f[l] = w)
    BY <1>3, <2>2
  <2> QED BY <2>1, <2>2
<1>5. BusyStep /\ MovedStep
  BY <1>4, NobodyBusier DEF Busy, InFlight
<1> HIDE <1>3
<1> QED BY <1>1, <1>2, <1>5, FatePreserves

-----------------------------------------------------------------------------
(* Steps of a worker. *)

\* SetDeliveryStatus in the ledger.
LEMMA WriteHistory ==
  ASSUME IInv, NEW r \in Rows, NEW st \in Status \ {"none"}, NEW y \in Why,
         SetDeliveryStatus(r, st, y)
  PROVE  /\ Kept(row[r], row'[r]) /\ row'[r].status = st /\ row'[r].why = y
         /\ row'[r].expires = row[r].expires
         /\ \A q \in Rows : q # r => row'[q] = row[q]
<1> DEFINE e == [row[r] EXCEPT !.status = st, !.why = y]
<1>1. row[r] \in Row /\ row \in [Rows -> Row]
  BY DEF IInv, TypeOK
<1>2. Kept(row[r], e) /\ e.status = st /\ e.why = y /\ e.expires = row[r].expires
  BY <1>1 DEF Row, Kept, Same
<1>3. row' = [row EXCEPT ![r] = e]
  BY DEF SetDeliveryStatus
<1> HIDE DEF e
<1> QED BY <1>1, <1>2, <1>3

\* A worker that lets go of its row makes no other worker busy.
LEMMA FinishNobodyBusier ==
  ASSUME IInv, NEW w \in Workers, Finish(w)
  PROVE  BusyStep /\ MovedStep
<1>1. wk'[w].pc \in {"idle", "batch"} /\ \A v \in Workers : v # w => wk'[v] = wk[v]
  BY FinishShape DEF IInv, TypeOK
<1> QED BY <1>1, NobodyBusier DEF Busy, InFlight

\* The histories a worker's write leaves alone.
Untold == UNCHANGED <<now, asked, heldFor, deadline>>

\* A worker's last word on its row that ends it.
LEMMA LastWordHistory ==
  ASSUME IInv, IInv', HInv, Untold, NEW w \in Workers, wk[w].pc \in Active,
         NEW st \in {"denied", "expired", "sent", "delivered", "dead"}, NEW y \in Why,
         SetDeliveryStatus(wk[w].job.id, st, y), BusyStep, MovedStep,
         y = "moved" => HasHeir(wk[w].job.id),
         st \in {"sent", "delivered"} \/ ~SosLegRow(row[wk[w].job.id])
  PROVE  HInv'
<1>1. PICK r \in Rows : r = wk[w].job.id
  BY HeldRows
<1>2. row[r].status # "none" /\ st \in Status \ {"none"}
  BY <1>1, HeldRows DEF Status
<1>3. /\ Kept(row[r], row'[r]) /\ row'[r].status = st /\ row'[r].why = y
      /\ row'[r].expires = row[r].expires
      /\ \A q \in Rows : q # r => row'[q] = row[q]
  BY <1>1, <1>2, WriteHistory
<1>4. Fate(r)
  BY <1>1, <1>2, <1>3, EndFate DEF Untold, Running, Waiting, Over
<1>5. \A q \in Rows : Fate(q)
  BY <1>3, <1>4, SameFate DEF Untold
<1> QED BY <1>5, FatePreserves DEF Untold

\* The last write of an attempt.
LEMMA LastWriteHistory ==
  ASSUME IInv, IInv', HInv, NEW w \in Workers,
         \/ DenyByEgressRules(w) \/ ExpireBeforeSend(w) \/ DropNotSent(w)
         \/ SetDeliveryAck(w) \/ CloseMovedRow(w)
  PROVE  HInv'
<1> USE DEF Active, Why
<1>0. wk[w].pc \in Active /\ Finish(w) /\ Untold
  BY DEF DenyByEgressRules, ExpireBeforeSend, DropNotSent, SetDeliveryAck,
         CloseMovedRow, Untold
<1>1. BusyStep /\ MovedStep
  BY <1>0, FinishNobodyBusier
<1>2. PICK r \in Rows : r = wk[w].job.id
  BY <1>0, HeldRows
<1>3. CASE DenyByEgressRules(w)
  <2>1. ~SosLegRow(row[r]) /\ SetDeliveryStatus(r, "denied", "none")
    BY <1>2, <1>3 DEF DenyByEgressRules, Bypasses, SosLegRow
  <2> QED BY <1>0, <1>1, <1>2, <2>1, LastWordHistory
<1>4. CASE ExpireBeforeSend(w)
  <2>1. row[r].prio > 0 /\ SetDeliveryStatus(r, "expired", "none")
    BY <1>2, <1>4 DEF ExpireBeforeSend, PastDeadline
  <2>2. ~SosLegRow(row[r])
    BY <2>1, RowFields DEF SosLegRow, IInv, TypeOK
  <2> QED BY <1>0, <1>1, <1>2, <2>1, <2>2, LastWordHistory
<1>5. CASE DropNotSent(w)
  <2>1. ~SosLegRow(row[r]) /\ SetDeliveryStatus(r, "dead", "unsealed")
    BY <1>2, <1>5 DEF DropNotSent, Bypasses, SosLegRow
  <2> QED BY <1>0, <1>1, <1>2, <2>1, LastWordHistory
<1>6. CASE SetDeliveryAck(w)
  <2>1. SetDeliveryStatus(r, "delivered", "none")
    BY <1>2, <1>6 DEF SetDeliveryAck
  <2> QED BY <1>0, <1>1, <1>2, <2>1, LastWordHistory
<1>7. CASE CloseMovedRow(w)
  <2>1. HasHeir(r) /\ row[r].rule /\ SetDeliveryStatus(r, "dead", "moved")
    BY <1>2, <1>7 DEF CloseMovedRow, HInv, HeirOK
  <2>2. ~SosLegRow(row[r])
    BY <2>1 DEF SosLegRow, HInv, RuleOK
  <2> QED BY <1>0, <1>1, <1>2, <2>1, <2>2, LastWordHistory
<1> QED BY <1>3, <1>4, <1>5, <1>6, <1>7

\* The attempt went through and the row is written sent.
LEMMA MarkSentHistory ==
  ASSUME IInv, IInv', HInv, NEW w \in Workers, MarkSent(w)
  PROVE  HInv'
<1>0. /\ wk[w].pc = "answered" /\ wk[w].pc \in Active /\ Untold
      /\ SetDeliveryStatus(wk[w].job.id, "sent", "none") /\ "none" \in Why
  BY DEF MarkSent, Active, Untold, Why
<1>1. BusyStep /\ MovedStep
  <2>1. CASE Finish(w)
    BY <2>1, FinishNobodyBusier
  <2>2. CASE wk' = [wk EXCEPT ![w].pc = "ack"]
    <3>1. "ack" \in PC
      BY DEF PC
    <3>2. /\ wk'[w].pc = "ack" /\ wk'[w].job = wk[w].job
          /\ \A v \in Workers : v # w => wk'[v] = wk[v]
      BY <2>2, <3>1, PcShape
    <3> HIDE <2>2
    <3> QED BY <1>0, <3>2 DEF BusyStep, MovedStep, Busy, InFlight
  <2> QED BY <2>1, <2>2 DEF MarkSent
<1> QED BY <1>0, <1>1, LastWordHistory

\* A row whose link does not carry it is refused before an attempt.
LEMMA RefuseHistory ==
  ASSUME IInv, IInv', HInv, NEW w \in Workers, RefuseAtGate(w)
  PROVE  HInv'
<1>0. wk[w].pc \in Active /\ Finish(w) /\ Untold
  BY DEF RefuseAtGate, Active, Untold
<1>1. BusyStep /\ MovedStep
  BY <1>0, FinishNobodyBusier
<1>2. PICK r \in Rows : r = wk[w].job.id
  BY <1>0, HeldRows
<1>3. CASE /\ Cancellable(r)
           /\ row' = [row EXCEPT ![r].status = "dead", ![r].why = "cancelled",
                                 ![r].heldAt = 0]
  <2>1. /\ row'[r] = [row[r] EXCEPT !.status = "dead", !.why = "cancelled", !.heldAt = 0]
        /\ \A q \in Rows : q # r => row'[q] = row[q]
    BY <1>3 DEF IInv, TypeOK
  <2>2. Fate(r)
    BY <1>0, <1>3, <2>1, CancelledFate DEF Untold
  <2>3. \A q \in Rows : Fate(q)
    BY <1>0, <2>1, <2>2, SameFate DEF Untold
  <2> QED BY <1>0, <1>1, <2>3, FatePreserves DEF Untold
<1>4. CASE row' = row
  BY <1>0, <1>1, <1>4, StillHistory DEF Untold
<1> QED BY <1>2, <1>3, <1>4 DEF RefuseAtGate

\* A worker claims a row for sending.
LEMMA ClaimHistory ==
  ASSUME IInv, IInv', HInv, NEW w \in Workers, ClaimDeliveryForSending(w)
  PROVE  HInv'
<1>0. wk[w].pc \in Active /\ Untold
  BY DEF ClaimDeliveryForSending, Active, Untold
<1>1. PICK r \in Rows : r = wk[w].job.id
  BY <1>0, HeldRows
<1>2. CASE Claimable(r) /\ SetDeliveryStatus(r, "sending", "none")
           /\ wk' = [wk EXCEPT ![w].pc = "sending"]
  <2>1. row[r].status \in Waiting /\ row[r].status # "none" /\ row[r].status \in Running
    BY <1>2 DEF Claimable, Waiting, Running
  <2>2. "sending" \in Status \ {"none"} /\ "none" \in Why /\ "sending" \in PC
    BY DEF Status, Why, PC
  <2>3. /\ Kept(row[r], row'[r]) /\ row'[r].status = "sending" /\ row'[r].why = "none"
        /\ row'[r].expires = row[r].expires
        /\ \A q \in Rows : q # r => row'[q] = row[q]
    BY <1>2, <2>2, WriteHistory
  <2>4. /\ wk'[w].pc = "sending" /\ wk'[w].job = wk[w].job
        /\ \A v \in Workers : v # w => wk'[v] = wk[v]
    BY <1>2, <2>2, PcShape
  <2> HIDE <1>2
  <2>5. BusyStep /\ MovedStep
    BY <1>1, <2>1, <2>4 DEF BusyStep, MovedStep, Busy, InFlight
  <2>6. row'[r].status \in Running /\ asked'[r] >= asked[r]
    BY <1>0, <2>3 DEF Running, Untold, IInv, TypeOK
  <2>7. Fate(r)
    BY <1>0, <2>1, <2>3, <2>6, StayFate DEF Untold
  <2>8. \A q \in Rows : Fate(q)
    BY <1>0, <2>3, <2>7, SameFate DEF Untold
  <2> QED BY <1>0, <2>5, <2>8, FatePreserves DEF Untold
<1>3. CASE row' = row /\ Finish(w)
  <2>1. BusyStep /\ MovedStep
    BY <1>3, FinishNobodyBusier
  <2> QED BY <1>0, <1>3, <2>1, StillHistory DEF Untold
<1> QED BY <1>1, <1>2, <1>3 DEF ClaimDeliveryForSending

\* What a failure ends is over for good, and is no leg of the SOS unless the
\* bearer's answer excuses it.
LEMMA EndedHistory ==
  ASSUME NEW d \in Row, NEW y \in Why, NEW e, e = Ended(d, y)
  PROVE  /\ Kept(d, e) /\ e.status = "dead" /\ e.why = y /\ e.expires = d.expires
BY DEF Ended, Row, Kept, Same

\* A failure that is tried again.
LEMMA AgainHistory ==
  ASSUME NEW d \in Row, NEW e, e = Again(d)
  PROVE  /\ Kept(d, e) /\ e.status = "retry" /\ e.why = d.why /\ e.expires = d.expires
BY DEF Again, Row, Kept, Same

\* What a failure leaves of the row: another try, or its end with a reason.
LEMMA FailedHistory ==
  ASSUME IInv, NEW r \in Rows, NEW n \in Nat, NEW a \in Answer, NEW e,
         e = FailedRow(r, n, a)
  PROVE  /\ Kept(row[r], e) /\ e.expires = row[r].expires
         /\ \/ e.status = "retry" /\ e.why = row[r].why
            \/ /\ e.status = "dead" /\ e.why # "moved"
               /\ e.why \in Excused \/ ~SosLegRow(row[r])
<1>1. PICK d \in Row : d = row[r]
  BY DEF IInv, TypeOK
<1>2. /\ d.born \in Nat /\ now \in Nat /\ AbsentWindow \in Nat /\ DeferWindow \in Nat
      /\ d.max \in Nat /\ d.qos \in Nat /\ RunawayLimit \in Nat
  BY RowFields, LedgerAssumption DEF IInv, TypeOK
<1> DEFINE Shape == /\ Kept(d, e) /\ e.expires = d.expires
                    /\ \/ e.status = "retry" /\ e.why = d.why
                       \/ /\ e.status = "dead" /\ e.why # "moved"
                          /\ e.why \in Excused \/ ~SosLegRow(d)
<1>4. ASSUME NEW y \in Why, e = Ended(d, y), y # "moved",
             y \in Excused \/ ~SosLegRow(d)
      PROVE  Shape
  <2>1. Kept(d, e) /\ e.status = "dead" /\ e.why = y /\ e.expires = d.expires
    BY <1>4, EndedHistory
  <2> QED BY <1>4, <2>1
<1>5. ASSUME e = Again(d)
      PROVE  Shape
  BY <1>5, AgainHistory
<1>6. CASE a = "unknown" /\ ~SosFrame(r)
  <2>1. e = Ended(d, "uncertain") /\ "uncertain" \in Why
    BY <1>1, <1>6 DEF FailedRow, Why
  <2>2. ~SosLegRow(d)
    BY <1>1, <1>6 DEF SosFrame, SosLegRow
  <2> QED BY <1>1, <1>4, <2>1, <2>2
<1>7. CASE a = "absent" /\ now - d.born < AbsentWindow
  <2>1. e = Again(d)
    BY <1>1, <1>2, <1>7 DEF FailedRow
  <2> QED BY <1>1, <1>5, <2>1
<1>8. CASE a = "absent" /\ ~(now - d.born < AbsentWindow)
  <2>1. e = Ended(d, "absent") /\ "absent" \in Why /\ "absent" \in Excused
    BY <1>1, <1>2, <1>8 DEF FailedRow, Why, Excused
  <2> QED BY <1>1, <1>4, <2>1
<1>9. CASE a = "down" /\ now - d.born < DeferWindow
  <2>1. e = Again(d)
    BY <1>1, <1>2, <1>9 DEF FailedRow
  <2> QED BY <1>1, <1>5, <2>1
<1>10. CASE a = "fatal"
  <2>1. e = Ended(d, "undeliverable") /\ "undeliverable" \in Why /\ "undeliverable" \in Excused
    BY <1>1, <1>10 DEF FailedRow, Why, Excused
  <2> QED BY <1>1, <1>4, <2>1
<1>11. CASE /\ ~(a = "unknown" /\ ~SosFrame(r)) /\ a # "absent" /\ a # "fatal"
            /\ ~(a = "down" /\ now - d.born < DeferWindow)
  <2>1. e = CountedFailure(d, n)
    BY <1>1, <1>11 DEF FailedRow
  <2>2. PICK m \in Nat : m = CountRetry(n + 1, d.max)
    BY <1>2 DEF CountRetry
  <2>3. CASE d.qos = 0
    <3>1. e = Ended(d, "qos0") /\ "qos0" \in Why
      BY <2>1, <2>3 DEF CountedFailure, Why
    <3>2. ~SosLegRow(d)
      BY <2>3 DEF SosLegRow
    <3> QED BY <1>1, <1>4, <3>1, <3>2
  <2>4. CASE d.qos # 0 /\ d.max > 0 /\ n + 1 >= d.max
    <3>1. e = Ended(d, "exhausted")
      BY <2>1, <2>4, Zenon DEF CountedFailure
    <3>2. ~SosLegRow(d) /\ "exhausted" \in Why
      BY <1>2, <2>4 DEF SosLegRow, Why
    <3> QED BY <1>1, <1>4, <3>1, <3>2
  <2>5. CASE d.qos # 0 /\ ~(d.max > 0 /\ n + 1 >= d.max)
    <3>1. e = Counted(d, m)
      BY <2>1, <2>2, <2>5, Zenon DEF CountedFailure
    <3>2. Kept(d, e) /\ e.status = "retry" /\ e.why = d.why /\ e.expires = d.expires
      BY <3>1, CountedHistory
    <3> QED BY <1>1, <3>2
  <2> QED BY <2>3, <2>4, <2>5
<1> QED BY <1>6, <1>7, <1>8, <1>9, <1>10, <1>11

\* The failure of an attempt, in its outcomes.
LEMMA HandleFailureHistory ==
  ASSUME IInv, IInv', HInv, NEW w \in Workers, HandleFailure(w)
  PROVE  HInv'
<1>0. wk[w].pc \in Active /\ wk[w].pc \in Busy /\ Finish(w) /\ Untold
  BY DEF HandleFailure, Active, Busy, InFlight, Untold
<1>1. PICK s \in Snap : s = wk[w].job
  BY <1>0, HeldRows
<1>2. PICK r \in Rows : r = s.id
  BY SnapFields
<1>3. PICK e : e = FailedRow(r, s.retries, wk[w].answer)
  OBVIOUS
<1>4. /\ Kept(row[r], e) /\ e.expires = row[r].expires
      /\ \/ e.status = "retry" /\ e.why = row[r].why
         \/ /\ e.status = "dead" /\ e.why # "moved"
            /\ e.why \in Excused \/ ~SosLegRow(row[r])
  <2>1. wk[w].answer \in Answer /\ s.retries \in Nat
    BY WorkerFields, SnapFields DEF IInv, TypeOK
  <2> QED BY <1>3, <2>1, FailedHistory
<1>5. row' = [row EXCEPT ![r] = e]
  BY <1>1, <1>2, <1>3 DEF HandleFailure
<1>6. row'[r] = e /\ \A q \in Rows : q # r => row'[q] = row[q]
  BY <1>5 DEF IInv, TypeOK
<1>7. row[r].status # "none" /\ BusyWith(r)
  BY <1>0, <1>1, <1>2, HeldRows DEF BusyWith
<1> HIDE <1>3, <1>5
<1>8. Fate(r)
  <2>1. CASE e.status = "retry" /\ e.why = row[r].why
    <3>1. row'[r].status \in Running /\ asked'[r] >= asked[r]
      BY <1>0, <1>6, <2>1 DEF Running, Waiting, Untold, IInv, TypeOK
    <3> QED BY <1>0, <1>4, <1>6, <1>7, <2>1, <3>1, StayFate DEF Untold
  <2>2. CASE /\ e.status = "dead" /\ e.why # "moved"
             /\ e.why \in Excused \/ ~SosLegRow(row[r])
    BY <1>0, <1>4, <1>6, <1>7, <2>2, EndFate DEF Untold, Running, Waiting
  <2> QED BY <1>4, <2>1, <2>2
<1>9. \A q \in Rows : Fate(q)
  BY <1>0, <1>6, <1>8, SameFate DEF Untold
<1>10. BusyStep /\ MovedStep
  BY <1>0, FinishNobodyBusier
<1> QED BY <1>0, <1>9, <1>10, FatePreserves DEF Untold

\* A failover queues a copy with the clock of the original, which is not held,
\* and the copy is the original's heir.
LEMMA FailOverHistory ==
  ASSUME IInv, IInv', HInv, NEW w \in Workers, NEW l \in Links,
         FailOverToNextMember(w, l)
  PROVE  HInv'
<1>0. /\ wk[w].pc = "answered" /\ wk[w].answer = "unacked" /\ wk[w].pc \in Busy
      /\ wk' = [wk EXCEPT ![w].pc = "moved"] /\ "moved" \in PC /\ now' = now
      /\ wk[w].pc \in Active
  BY DEF FailOverToNextMember, PC, Busy, InFlight, Active
<1>1. PICK r \in Rows : r = wk[w].job.id
  BY <1>0, HeldRows
<1>2. PICK q \in Rows :
        /\ Fresh(q)
        /\ row' = [row EXCEPT ![q] = Copied(row[r], l, now)]
        /\ deadline' = [deadline EXCEPT ![q] = deadline[r]]
        /\ heldFor' = [heldFor EXCEPT ![q] = heldFor[r]]
        /\ asked' = [asked EXCEPT ![q] = asked[r]]
  BY <1>1, Zenon DEF FailOverToNextMember, Copied
<1>3. /\ row[r] \in Row /\ now \in Nat /\ row \in [Rows -> Row] /\ row[r].rule
      /\ row[r].cls # "lxmf" /\ row[r].status # "none" /\ row[q].status = "none" /\ r # q
  <2>1. row[r] \in Row /\ now \in Nat /\ row \in [Rows -> Row] /\ row[q].status = "none"
    BY <1>2 DEF IInv, TypeOK, Fresh
  <2>2. row[r].rule /\ row[r].status # "none"
    BY <1>0, <1>1, HeldRows DEF FailOverToNextMember
  <2>3. row[r].cls # "lxmf"
    BY <1>0, <1>1, HeldRows DEF IInv, LxmfOK, FailOverToNextMember
  <2> QED
    BY <2>1, <2>2, <2>3
<1>4. PICK e : e = Copied(row[r], l, now)
  OBVIOUS
<1>5. /\ e.status = "queued" /\ e.why = "none" /\ e.ref = row[r].ref
      /\ e.rule = row[r].rule /\ e.cls = row[r].cls /\ e.expires = row[r].expires
  BY <1>3, <1>4 DEF Copied, Row
<1>6. row' = [row EXCEPT ![q] = e]
  BY <1>2, <1>4
<1>7. row'[q] = e /\ \A p \in Rows : p # q => row'[p] = row[p]
  BY <1>3, <1>6
<1>8. /\ asked'[q] = asked[r] /\ deadline'[q] = deadline[r] /\ heldFor'[q] = heldFor[r]
      /\ \A p \in Rows : p # q => /\ asked'[p] = asked[p] /\ deadline'[p] = deadline[p]
                                  /\ heldFor'[p] = heldFor[p]
  <2>1. /\ asked' = [asked EXCEPT ![q] = asked[r]]
        /\ heldFor' = [heldFor EXCEPT ![q] = heldFor[r]]
        /\ deadline' = [deadline EXCEPT ![q] = deadline[r]]
    BY <1>2, Zenon
  <2> HIDE <1>2, <1>4, <1>6
  <2> QED BY <2>1 DEF IInv, TypeOK
<1>9. /\ wk'[w].pc = "moved" /\ wk'[w].job = wk[w].job
      /\ \A v \in Workers : v # w => wk'[v] = wk[v]
  BY <1>0, PcShape
<1>10. Fresh(q)
  BY <1>2, Zenon
<1> HIDE <1>2, <1>4, <1>6
<1>11. BusyWith(r) /\ Pause(r) = 0
  <2>1. row[r].status # "held"
    BY <1>0, <1>1, <1>3 DEF IInv, ClaimOK
  <2> QED BY <1>0, <1>1, <2>1 DEF BusyWith, Pause
<1>12. row[r].expires # NoTTL /\ asked[r] = 0 => row[r].expires = deadline[r] + heldFor[r]
  <2>1. row[r].expires \in Nat \cup {NoTTL} /\ NoTTL \in Int
    BY <1>3, RowFields DEF NoTTL
  <2> QED BY <1>3, <1>11, <2>1 DEF HInv, ClockOK, Clocked
<1>13. Born(q)
  <2>1. row[r].cls \in {"message", "lxmf"}
    BY <1>3 DEF HInv, RuleOK
  <2> QED BY <1>3, <1>5, <1>7, <1>8, <1>10, <1>12, <2>1 DEF Born
<1>14. \A p \in Rows : Fate(p) \/ Born(p)
  BY <1>7, <1>8, <1>13, SameFate
<1>15. (HasHeir(wk[w].job.id) /\ row[wk[w].job.id].rule)'
  <2>1. q > r
    BY <1>3 DEF HInv, PrefixOK, Rows
  <2>2. row'[r] = row[r] /\ wk'[w].job.id = r
    BY <1>1, <1>3, <1>7, <1>9
  <2> QED BY <1>3, <1>5, <1>7, <2>1, <2>2 DEF HasHeir
<1>16. BusyStep /\ MovedStep
  BY <1>0, <1>9, <1>15 DEF BusyStep, MovedStep
<1> QED BY <1>0, <1>14, <1>16, FatePreserves

\* The steps in which a worker only moves on.
LEMMA MoveOnHistory ==
  ASSUME IInv, IInv', HInv, NEW w \in Workers,
         \/ FetchBatch(w) \/ ExitWorker(w) \/ PassPolicy(w) \/ Transmit(w)
         \/ \E a \in Answer : BearerAnswers(w, a)
  PROVE  HInv'
<1> USE DEF Busy, InFlight
<1>0. /\ now' = now /\ row' = row /\ asked' = asked /\ heldFor' = heldFor
      /\ deadline' = deadline
  BY DEF FetchBatch, ExitWorker, PassPolicy, Transmit, BearerAnswers, ledger
<1>1. BusyStep /\ MovedStep
  <2>1. CASE FetchBatch(w)
    <3>1. wk'[w].pc = "batch" /\ \A v \in Workers : v # w => wk'[v] = wk[v]
      BY <2>1, FetchShape
    <3> QED BY <3>1, NobodyBusier
  <2>2. CASE ExitWorker(w)
    <3>1. wk'[w].pc = "gone" /\ \A v \in Workers : v # w => wk'[v] = wk[v]
      BY <2>2, GoneWorkerShape DEF ExitWorker, IInv, TypeOK
    <3> QED BY <3>1, NobodyBusier
  <2>3. CASE PassPolicy(w)
    <3>1. "claim" \in PC
      BY DEF PC
    <3>2. wk'[w].pc = "claim" /\ \A v \in Workers : v # w => wk'[v] = wk[v]
      BY <2>3, <3>1, PcShape DEF PassPolicy
    <3> QED BY <3>2, NobodyBusier
  <2>4. CASE Transmit(w)
    <3>1. "onair" \in PC /\ wk[w].pc = "sending"
      BY <2>4 DEF PC, Transmit
    <3>2. /\ wk'[w].pc = "onair" /\ wk'[w].job = wk[w].job
          /\ \A v \in Workers : v # w => wk'[v] = wk[v]
      BY <2>4, <3>1, PcShape DEF Transmit
    <3> QED BY <3>1, <3>2 DEF BusyStep, MovedStep
  <2>5. ASSUME NEW a \in Answer, BearerAnswers(w, a)
        PROVE  BusyStep /\ MovedStep
    <3>1. /\ wk'[w].pc = "answered" /\ wk'[w].job = wk[w].job
          /\ \A v \in Workers : v # w => wk'[v] = wk[v]
      BY <2>5, AnswerShape DEF BearerAnswers
    <3>2. wk[w].pc = "onair"
      BY <2>5 DEF BearerAnswers
    <3> QED BY <3>1, <3>2 DEF BusyStep, MovedStep
  <2> QED BY <2>1, <2>2, <2>3, <2>4, <2>5
<1> QED BY <1>0, <1>1, StillHistory

\* A worker takes its next row, whatever it then finds.
LEMMA TakeRowHistory ==
  ASSUME IInv, IInv', HInv, NEW w \in Workers, TakeRow(w)
  PROVE  HInv'
<1> USE DEF Busy, InFlight
<1>0. /\ now' = now /\ row' = row /\ asked' = asked /\ heldFor' = heldFor
      /\ deadline' = deadline
  BY DEF TakeRow, ledger
<1>1. PICK s \in wk[w].batch, R \in SUBSET wk[w].batch :
        \/ \E p \in {"idle", "batch"} : wk' = [wk EXCEPT ![w].pc = p, ![w].batch = R]
        \/ \E p \in {"policy", "claim", "answered"} :
             /\ Takes(w, R, s, p)
             /\ p = "answered" => row[s.id].cls = "lxmf"
  BY TakeRowCases
<1>2. CASE \E p \in {"idle", "batch"} : wk' = [wk EXCEPT ![w].pc = p, ![w].batch = R]
  <2>1. PICK p \in {"idle", "batch"} : wk' = [wk EXCEPT ![w].pc = p, ![w].batch = R]
    BY <1>2
  <2>2. wk'[w].pc = p /\ \A v \in Workers : v # w => wk'[v] = wk[v]
    BY <2>1, SkipShape
  <2>3. BusyStep /\ MovedStep
    BY <2>2, NobodyBusier
  <2> QED BY <1>0, <2>3, StillHistory
<1>3. ASSUME NEW p \in {"policy", "claim", "answered"}, Takes(w, R, s, p),
             p = "answered" => row[s.id].cls = "lxmf"
      PROVE  HInv'
  <2>0. R \in SUBSET wk[w].batch /\ s \in wk[w].batch /\ Takes(w, R, s, p)
    BY <1>3, Zenon
  <2>1. /\ wk' \in [Workers -> Worker] /\ wk'[w].pc = p
        /\ wk'[w].link = wk[w].link /\ wk'[w].batch = R
        /\ wk'[w].job = s /\ wk'[w].answer = "other"
        /\ \A v \in Workers : v # w => wk'[v] = wk[v]
    BY <2>0, TakeShape, ZenonT(60)
  <2>2. BusyStep /\ MovedStep
    BY <1>3, <2>1 DEF BusyStep, MovedStep
  <2> QED BY <1>0, <2>2, StillHistory
<1> QED BY <1>1, <1>2, <1>3

-----------------------------------------------------------------------------
(* The invariant. *)

\* The history starts out right.
LEMMA InitHistory == Init => HInv
<1> SUFFICES ASSUME Init PROVE HInv
  OBVIOUS
<1>1. \A r \in Rows : /\ row[r].status = "none" /\ row[r].why = "none" /\ ~row[r].rule
                      /\ row[r].expires = NoTTL /\ heldFor[r] = 0 /\ asked[r] = 0
  BY DEF Init, NoRow
<1>2. \A w \in Workers : wk[w].pc = "gone"
  BY GoneWorkerShape DEF Init
<1> QED BY <1>1, <1>2 DEF HInv, PrefixOK, HeirOK, RuleOK, LegOK, Over, BlankOK,
                          ClockOK, Clocked

\* Each step of a worker keeps the history.
LEMMA WorkerStepHistory ==
  ASSUME IInv, IInv', HInv, NEW w \in Workers, WorkerStep(w)
  PROVE  HInv'
BY MoveOnHistory, TakeRowHistory, LastWriteHistory, RefuseHistory, ClaimHistory,
   MarkSentHistory, FailOverHistory, HandleFailureHistory DEF WorkerStep

\* Every step of the system preserves the histories' invariant.
LEMMA NextHistory == IInv /\ HInv /\ [Next]_vars => HInv'
<1> SUFFICES ASSUME IInv, HInv, [Next]_vars PROVE HInv'
  OBVIOUS
<1>0. IInv'
  BY NextPreserves
<1>1. CASE Next
  <2>1. CASE \E w \in Workers : WorkerStep(w)
    BY <1>0, <2>1, WorkerStepHistory
  <2>2. CASE SetLXMFSender \/ (\E l \in Links, on \in BOOLEAN : SetEnabled(l, on))
    <3>1. /\ now' = now /\ row' = row /\ asked' = asked /\ heldFor' = heldFor
          /\ deadline' = deadline /\ wk' = wk
      BY <2>2 DEF SetLXMFSender, SetEnabled, ledger
    <3>2. BusyStep /\ MovedStep
      BY <3>1, NobodyBusier
    <3> QED BY <1>0, <3>1, <3>2, StillHistory
  <2> QED BY <1>0, <1>1, <2>1, <2>2, InsertHistory, EvictHistory,
             EvictThenRejectHistory, CancelDeliveryHistory, RetryHistory,
             EndSendingHistory, ExpireHistory, TickHistory, StartWorkerHistory,
             StopHistory, CrashHistory, StartHistory DEF Next
<1>2. CASE UNCHANGED vars
  <2>1. /\ now' = now /\ row' = row /\ asked' = asked /\ heldFor' = heldFor
        /\ deadline' = deadline /\ wk' = wk
    BY <1>2 DEF vars
  <2>2. BusyStep /\ MovedStep
    BY <2>1, NobodyBusier
  <2> QED BY <1>0, <2>1, <2>2, StillHistory
<1> QED BY <1>1, <1>2

\* Both invariants hold for ever.
THEOREM HistoryInvariance == Spec => [](IInv /\ HInv)
<1>1. Init => IInv /\ HInv
  BY InitIInv, InitHistory
<1>2. (IInv /\ HInv) /\ [Next]_vars => (IInv /\ HInv)'
  BY NextPreserves, NextHistory
<1> QED BY <1>1, <1>2, PTL DEF Spec

\* failOverToNextMember never loses a message: whatever crashes between its two
\* statements, a row closed as moved has a later row of the same message.
THEOREM FailoverSafety == Spec => []MovedNotLost
<1>1. IInv /\ HInv => MovedNotLost
  BY DEF HInv, HeirOK, HasHeir, MovedNotLost
<1> QED BY <1>1, HistoryInvariance, PTL

\* A leg of the SOS run leaves the ledger only sent, cancelled, or with an
\* answer that no retry changes: no TTL, eviction, clean-up at start, failover
\* or unknown session ends it, in any interleaving of workers.
THEOREM SosSafety == Spec => []SosLegKept
<1>1. IInv /\ HInv => SosLegKept
  BY DEF HInv, LegOK, SosLegKept, SosFrame, SosLegRow, Over, Excused
<1> QED BY <1>1, HistoryInvariance, PTL

\* The deadline of a rule's row is exactly its first deadline plus the time it
\* was held (UnholdDeliveriesForChannel), over any number of holds, failovers,
\* crashes and late failures of stopped workers.
THEOREM ClockSafety == Spec => []TTLPausedWhileHeld
<1>1. IInv /\ HInv => TTLPausedWhileHeld
  <2> SUFFICES ASSUME IInv, HInv, NEW r \in Rows,
                      row[r].status \in Waiting \cup {"held", "sending"},
                      row[r].expires # NoTTL, asked[r] = 0, row[r].cls # "lxmf"
               PROVE  IF row[r].rule
                      THEN row[r].expires + Pause(r) = deadline[r] + heldFor[r]
                      ELSE row[r].expires <= deadline[r] \/ row[r].expires <= now
    BY Zenon DEF TTLPausedWhileHeld, Pause
  <2>1. CASE row[r].rule
    BY <2>1 DEF HInv, ClockOK, Clocked, Running
  <2>2. CASE ~row[r].rule
    BY <2>2 DEF HInv, ClockOK
  <2> QED BY <2>1, <2>2
<1> QED BY <1>1, HistoryInvariance, PTL
=============================================================================
