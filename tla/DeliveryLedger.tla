--------------------------- MODULE DeliveryLedger ---------------------------
(***************************************************************************)
(* The delivery ledger of a MeshSat Bridge (table message_deliveries) and  *)
(* everything that writes to it: the dispatcher that queues rows, one      *)
(* delivery worker per link, the TTL reaper, the HTTP API's cancel and     *)
(* retry, the start and stop of a link's worker, and the start of the      *)
(* process after a crash.                                                  *)
(*                                                                         *)
(* Sources: internal/database/deliveries.go (each operator of the ledger   *)
(* is one SQL statement, and SQLite has one connection, so each is one     *)
(* atomic step) and internal/engine/dispatcher.go (a worker's goroutine    *)
(* runs several statements and a radio call per row, with everything else  *)
(* interleaved between any two of them).                                   *)
(*                                                                         *)
(* Rows here are the legacy rows (intent_id NULL).  The attempts of a      *)
(* delivery intent are module DeliveryIntents.                             *)
(***************************************************************************)
EXTENDS Integers, FiniteSets

CONSTANTS
  Links,         \* the interfaces of the Bridge (mesh_0, iridium_0, ...)
  Sat,           \* the links whose channel type is a satellite's
  Workers,       \* worker goroutines that may be alive at one time
  MaxDepth,      \* maxQueueDepth of one link's queue
  MaxRows,       \* rows the ledger may hold (a bound of the model)
  Templates,     \* what may be queued: see Template
  RunawayLimit,  \* CancelRunawayDeliveries' safety limit (15 in the code)
  DeferWindow,   \* bearerDownDeferWindow, in ticks
  AbsentWindow,  \* cellAbsentGiveUp, in ticks
  MaxTime,       \* ticks of the clock (a bound of the model)
  MaxAsks,       \* a person's retries of one row (a bound of the model)
  MaxCrashes     \* crashes of the process (a bound of the model)

Rows == 1..MaxRows
NoTTL == -1
NoWorker == "none"

\* delivery_class: the four kinds the ledger treats differently.  "message"
\* meets the egress rules and may be sealed, the others bypass the policy.
Class == {"message", "oob", "hub_uplink", "lxmf"}

\* What DispatchAccess (rule) and QueueDirectSendTo (no rule) put into a row.
\* ttl = 0 is no TTL; max = 0 is RetryForever; sosRun marks a row of the SOS
\* run kept in the database or a send a queued Community Post waits on.
Template ==
  [prio: Nat, qos: Nat, max: Nat, cls: Class, rule: BOOLEAN,
   sosRun: BOOLEAN, visited: SUBSET Links, ttl: Nat]

ASSUME LedgerAssumption ==
  /\ Links # {} /\ Sat \subseteq Links
  /\ NoWorker \notin Workers
  /\ MaxDepth \in Nat
  /\ MaxRows \in Nat
  /\ Templates \subseteq Template
  /\ \A t \in Templates : t.rule => t.cls \in {"message", "lxmf"}
  /\ RunawayLimit \in Nat \ {0}
  /\ DeferWindow \in Nat
  /\ AbsentWindow \in Nat
  /\ MaxTime \in Nat
  /\ MaxAsks \in Nat
  /\ MaxCrashes \in Nat

VARIABLES
  up,         \* the process runs and Dispatcher.Start has returned
  now,        \* the wall clock
  row,        \* message_deliveries, by id
  enabled,    \* interfaces.enabled, by link
  workerOf,   \* Dispatcher.workers: the current worker of each link
  wk,         \* the goroutine of each worker, current or stopped
  router,     \* the LXMF router is wired in (SetLXMFSender)
  crashes,    \* crashes so far (bounds the model)
  sessions,   \* history: satellite sends of a row that may have gone out,
              \* not counted for the SOS's frame
  asked,      \* history: times a person retried a row
  cancelled,  \* history: the rows cancelled and not retried by a person since
  heldFor,    \* history: ticks a row spent held
  deadline    \* history: the deadline a row was queued with

ledger == <<row, asked, cancelled, heldFor, deadline>>
links == <<enabled, workerOf>>
vars == <<up, now, row, enabled, workerOf, wk, router, crashes,
          sessions, asked, cancelled, heldFor, deadline>>

Status == {"none", "queued", "retry", "held", "sending", "sent", "delivered",
           "denied", "expired", "dead"}
Waiting == {"queued", "retry"}
Settled == {"sent", "delivered", "denied", "expired", "dead"}

\* last_error of a dead row, by the writer that ended it.
Why == {"none", "cancelled", "evicted", "runaway", "uncertain", "absent",
        "undeliverable", "unsealed", "qos0", "exhausted", "moved"}

Row ==
  [status: Status, why: Why, ref: Nat, link: Links, prio: Nat, qos: Nat, max: Nat,
   cls: Class, rule: BOOLEAN, sosRun: BOOLEAN, visited: SUBSET Links,
   retries: Nat, born: Nat, expires: Nat \cup {NoTTL}, heldAt: Nat]

\* A worker keeps the rows of its batch as it fetched them: the retry count
\* and the deadline it decides by are the ones of that moment.
Snap == [id: Rows, retries: Nat, expires: Nat \cup {NoTTL}]
NoJob == [id |-> 0, retries |-> 0, expires |-> NoTTL]

\* What the bearer answers: sent; a satellite session with an unknown
\* outcome; the phone not on the cell; the bearer down; no acknowledgement;
\* no recipient or a payload it cannot carry; any other error.
Answer == {"ok", "unknown", "absent", "down", "unacked", "fatal", "other"}

\* gone: no goroutine.  idle: waits for the ticker.  batch: between two rows.
\* policy: the row was re-read.  claim: every check passed.  sending: claimed.
\* onair: inside the bearer's send.  answered: the send returned.  ack, moved:
\* the second write of a success and of a failover is still to come.
PC == {"gone", "idle", "batch", "policy", "claim", "sending", "onair",
       "answered", "ack", "moved"}
InFlight == {"sending", "onair", "answered", "moved"}

Worker == [pc: PC, stopped: BOOLEAN, link: Links, batch: SUBSET Snap,
           job: Snap \cup {NoJob}, answer: Answer]

SosFrame(r) == row[r].prio = 0 /\ row[r].cls = "hub_uplink"

\* DeliveryClassBypassesPolicy: no egress rules, no transforms.
Bypasses(cls) == cls # "message"

-----------------------------------------------------------------------------
(* The statements of the ledger. *)

SetDeliveryStatus(r, st, why) ==
  row' = [row EXCEPT ![r].status = st, ![r].why = why]

\* DispatchAccess and QueueDirectSendTo end in this insert.  ref is msg_ref,
\* here the id of the message's first row.
NewRow(r, t, l, expires) ==
  [status |-> "queued", why |-> "none", ref |-> r, link |-> l, prio |-> t.prio,
   qos |-> t.qos, cls |-> t.cls,
   max |-> IF t.qos = 0 /\ t.cls # "lxmf" THEN 0 ELSE t.max,
   rule |-> t.rule, sosRun |-> t.sosRun, visited |-> t.visited,
   retries |-> 0, born |-> now, expires |-> expires, heldAt |-> 0]

\* AUTOINCREMENT: the first id never used.
Fresh(r) == row[r].status = "none" /\ \A q \in 1..(r - 1) : row[q].status # "none"

Expirable(r) ==
  /\ row[r].status \in Waiting
  /\ row[r].prio > 0
  /\ row[r].expires # NoTTL
  /\ row[r].expires <= now

\* A row GetPendingDeliveries returns once its next_retry is due.
Pending(l) ==
  {r \in Rows : /\ row[r].link = l
                /\ row[r].status \in Waiting
                /\ \/ row[r].prio = 0
                   \/ row[r].expires = NoTTL
                   \/ row[r].expires > now}

Cancellable(r) == row[r].status \in Waiting \cup {"held"}

HoldRow(r) == [row[r] EXCEPT !.status = "held", !.heldAt = now]

\* Mutant: the deadline is not moved by the time spent held.
UnholdRowOnTheClock(r) == [row[r] EXCEPT !.status = "queued", !.heldAt = 0]

\* A rule's row gets the time it was held back; a direct send keeps its
\* sender's deadline.
UnholdRow(r) ==
  [row[r] EXCEPT
     !.status = "queued",
     !.heldAt = 0,
     !.expires = IF @ # NoTTL /\ row[r].rule THEN @ + (now - row[r].heldAt) ELSE @]

HoldDeliveriesForChannel(l) ==
  row' = [r \in Rows |-> IF row[r].link = l /\ row[r].status \in Waiting
                         THEN HoldRow(r) ELSE row[r]]

UnholdDeliveriesForChannel(l) ==
  row' = [r \in Rows |-> IF row[r].link = l /\ row[r].status = "held"
                         THEN UnholdRow(r) ELSE row[r]]

-----------------------------------------------------------------------------
(* What people, rules, links and the clock do to the ledger. *)

QueueDepth(l) ==
  Cardinality({r \in Rows : /\ row[r].link = l
                            /\ row[r].status \in Waiting \cup {"held", "sending"}})

\* expires_at of a new row: a P0 row never expires.
Deadline(t) == IF t.ttl > 0 /\ t.prio > 0 THEN now + t.ttl ELSE NoTTL

\* A bound of the model: the clock has room for a new row to grow old.
RoomToAge == now + AbsentWindow <= MaxTime /\ now + DeferWindow <= MaxTime

\* DispatchAccess (t.rule, while the queue has room), queueLXMFForward and
\* QueueDirectSendTo (whatever the depth) queue a row.  A rule never forwards
\* to a link the message has visited.  The rejections leave the ledger as it is.
InsertDelivery(t, l) ==
  /\ up /\ RoomToAge
  /\ t.rule => l \notin t.visited
  /\ t.rule /\ t.cls # "lxmf" => QueueDepth(l) < MaxDepth
  /\ t.cls = "lxmf" => l \notin Sat
  /\ \E r \in Rows :
       /\ Fresh(r)
       /\ row' = [row EXCEPT ![r] = NewRow(r, t, l, Deadline(t))]
       /\ deadline' = [deadline EXCEPT ![r] = Deadline(t)]
  /\ UNCHANGED <<up, now, links, wk, router, crashes, sessions, asked,
                 cancelled, heldFor>>

\* WeakestEvictable: the least urgent waiting row, the newest of equals,
\* never a P0 row.
WeakestEvictable(l, r) ==
  /\ row[r].link = l /\ Cancellable(r) /\ row[r].prio > 0
  /\ \A q \in Rows : /\ row[q].link = l
                     /\ Cancellable(q)
                     => \/ row[q].prio < row[r].prio
                        \/ row[q].prio = row[r].prio /\ q <= r

\* DispatchAccess to a full queue: a stronger arrival ends the weakest
\* waiting row (EvictDelivery) and takes its place.
DispatchEvicting(t, l) ==
  /\ up /\ RoomToAge
  /\ t.rule /\ t.cls # "lxmf" /\ l \notin t.visited
  /\ QueueDepth(l) >= MaxDepth
  /\ \E v, r \in Rows :
       /\ WeakestEvictable(l, v)
       /\ t.prio < row[v].prio
       /\ Fresh(r)
       /\ row' = [row EXCEPT ![v].status = "dead", ![v].why = "evicted",
                             ![r] = NewRow(r, t, l, Deadline(t))]
       /\ deadline' = [deadline EXCEPT ![r] = Deadline(t)]
  /\ UNCHANGED <<up, now, links, wk, router, crashes, sessions, asked,
                 cancelled, heldFor>>

\* The eviction comes before the byte limit: an arrival the bytes have no room
\* for has already ended the weakest row.
EvictThenReject(t, l) ==
  /\ up
  /\ t.rule /\ t.cls # "lxmf" /\ l \notin t.visited
  /\ QueueDepth(l) >= MaxDepth
  /\ \E v \in Rows :
       /\ WeakestEvictable(l, v)
       /\ t.prio < row[v].prio
       /\ SetDeliveryStatus(v, "dead", "evicted")
  /\ UNCHANGED <<up, now, links, wk, router, crashes, sessions, asked,
                 cancelled, heldFor, deadline>>

\* POST /deliveries/{id}/cancel, an SOS cancelling its legs, the alarm test.
CancelDelivery(r) ==
  /\ up
  /\ Cancellable(r)
  /\ row' = [row EXCEPT ![r].status = "dead", ![r].why = "cancelled",
                        ![r].heldAt = 0]
  /\ cancelled' = cancelled \cup {r}
  /\ UNCHANGED <<up, now, links, wk, router, crashes, sessions, asked,
                 heldFor, deadline>>

\* POST /deliveries/{id}/retry: the retry count and the deadline stay.
RetryDelivery(r) ==
  /\ up
  /\ row[r].status = "dead"
  /\ ~SosFrame(r)
  /\ asked[r] < MaxAsks
  /\ row' = [row EXCEPT ![r].status = "queued"]
  /\ asked' = [asked EXCEPT ![r] = @ + 1]
  /\ cancelled' = cancelled \ {r}
  /\ UNCHANGED <<up, now, links, wk, router, crashes, sessions, heldFor,
                 deadline>>

\* An SOS gives the alarm test's leg that is being sent a deadline of now.
EndSendingDelivery(r) ==
  /\ up
  /\ row[r].status = "sending"
  /\ row[r].prio > 0
  /\ row[r].cls = "hub_uplink"
  /\ row' = [row EXCEPT ![r].expires = now]
  /\ UNCHANGED <<up, now, links, wk, router, crashes, sessions, asked,
                 cancelled, heldFor, deadline>>

\* The TTL reaper of Start, every minute, over all links.
ExpireDeliveries ==
  /\ up
  /\ \E r \in Rows : Expirable(r)
  /\ row' = [r \in Rows |-> IF Expirable(r)
                            THEN [row[r] EXCEPT !.status = "expired"]
                            ELSE row[r]]
  /\ UNCHANGED <<up, now, links, wk, router, crashes, sessions, asked,
                 cancelled, heldFor, deadline>>

\* PreWake of a satellite worker: the same for its link only.
ExpireDeliveriesForChannel(w) ==
  /\ wk[w].pc = "idle" /\ ~wk[w].stopped
  /\ wk[w].link \in Sat
  /\ \E r \in Rows : Expirable(r) /\ row[r].link = wk[w].link
  /\ row' = [r \in Rows |-> IF Expirable(r) /\ row[r].link = wk[w].link
                            THEN [row[r] EXCEPT !.status = "expired"]
                            ELSE row[r]]
  /\ UNCHANGED <<up, now, links, wk, router, crashes, sessions, asked,
                 cancelled, heldFor, deadline>>

Tick ==
  /\ now < MaxTime
  /\ now' = now + 1
  /\ heldFor' = [r \in Rows |-> IF row[r].status = "held" THEN heldFor[r] + 1
                                ELSE heldFor[r]]
  /\ UNCHANGED <<up, row, links, wk, router, crashes, sessions, asked,
                 cancelled, deadline>>

-----------------------------------------------------------------------------
(* The life of a link's worker. *)

NewWorker(l) ==
  [pc |-> "idle", stopped |-> FALSE, link |-> l, batch |-> {}, job |-> NoJob,
   answer |-> "ok"]

\* No goroutine: its fields mean nothing.
GoneWorker == [NewWorker(CHOOSE l \in Links : TRUE) EXCEPT !.pc = "gone"]

\* A link is switched on or off in the database; the worker follows in a
\* statement of its own.
SetEnabled(l, on) ==
  /\ up
  /\ enabled[l] # on
  /\ enabled' = [enabled EXCEPT ![l] = on]
  /\ UNCHANGED <<up, now, workerOf, wk, router, crashes, sessions, ledger>>

\* A link comes online, or is switched on: what was held for it goes back to
\* the queue, a worker already running or not.
StartWorker(l) ==
  /\ up
  /\ enabled[l]
  /\ \/ /\ workerOf[l] # NoWorker
        /\ UNCHANGED <<workerOf, wk>>
     \/ /\ workerOf[l] = NoWorker
        /\ \E w \in Workers :
             /\ wk[w].pc = "gone"
             /\ wk' = [wk EXCEPT ![w] = NewWorker(l)]
             /\ workerOf' = [workerOf EXCEPT ![l] = w]
  /\ UnholdDeliveriesForChannel(l)
  /\ UNCHANGED <<up, now, enabled, router, crashes, sessions, asked,
                 cancelled, heldFor, deadline>>

\* A link goes offline, or is switched off.  The goroutine learns of it at
\* its next check of the context: a send under way goes on.
StopWorker(l) ==
  /\ up
  /\ workerOf[l] # NoWorker
  /\ wk' = [wk EXCEPT ![workerOf[l]].stopped = TRUE]
  /\ workerOf' = [workerOf EXCEPT ![l] = NoWorker]
  /\ HoldDeliveriesForChannel(l)
  /\ UNCHANGED <<up, now, enabled, router, crashes, sessions, asked,
                 cancelled, heldFor, deadline>>

\* SetLXMFSender, some time after Start.
SetLXMFSender ==
  /\ up /\ ~router
  /\ router' = TRUE
  /\ UNCHANGED <<up, now, links, wk, crashes, sessions, ledger>>

\* The process dies: every goroutine is gone, the ledger stays as it is.
Crash ==
  /\ up
  /\ crashes < MaxCrashes
  /\ up' = FALSE
  /\ router' = FALSE
  /\ crashes' = crashes + 1
  /\ wk' = [w \in Workers |-> GoneWorker]
  /\ workerOf' = [l \in Links |-> NoWorker]
  /\ UNCHANGED <<now, enabled, sessions, ledger>>

\* Mutant: the SOS's legs are not exempt.
RunawayAnyRow(r) ==
  /\ row[r].status \in Waiting
  /\ \/ row[r].max > 0 /\ row[r].retries >= row[r].max
     \/ row[r].max = 0 /\ row[r].retries >= RunawayLimit

\* CancelRunawayDeliveries, then EndStaleSatelliteSends, then
\* RecoverStaleDeliveries, as Dispatcher.Start runs them.
Runaway(r) ==
  /\ row[r].status \in Waiting
  /\ ~row[r].sosRun
  /\ \/ row[r].max > 0 /\ row[r].retries >= row[r].max
     \/ row[r].max = 0 /\ row[r].retries >= RunawayLimit

\* Mutants: RecoverStaleDeliveries runs before EndStaleSatelliteSends, which
\* then finds nothing; RecoverStaleDeliveries is left out.
RecoveredRowSwapped(r) ==
  CASE Runaway(r) -> [row[r] EXCEPT !.status = "dead", !.why = "runaway"]
    [] row[r].status = "sending" -> [row[r] EXCEPT !.status = "retry", !.why = "none"]
    [] OTHER -> row[r]
RecoveredRowStale(r) ==
  CASE Runaway(r) -> [row[r] EXCEPT !.status = "dead", !.why = "runaway"]
    [] row[r].status = "sending" /\ row[r].link \in Sat /\ ~SosFrame(r) ->
         [row[r] EXCEPT !.status = "dead", !.why = "uncertain"]
    [] OTHER -> row[r]

RecoveredRow(r) ==
  CASE Runaway(r) -> [row[r] EXCEPT !.status = "dead", !.why = "runaway"]
    [] row[r].status = "sending" /\ row[r].link \in Sat /\ ~SosFrame(r) ->
         [row[r] EXCEPT !.status = "dead", !.why = "uncertain"]
    [] row[r].status = "sending" /\ ~(row[r].link \in Sat /\ ~SosFrame(r)) ->
         [row[r] EXCEPT !.status = "retry", !.why = "none"]
    [] OTHER -> row[r]

\* Dispatcher.Start: the three statements, then a worker for each enabled
\* link (startInterfaceWorkers), which releases nothing that was held.
Start ==
  /\ ~up
  /\ up' = TRUE
  /\ row' = [r \in Rows |-> RecoveredRow(r)]
  /\ \E f \in [Links -> Workers] :
       /\ \A l, m \in Links : l # m => f[l] # f[m]
       /\ workerOf' = [l \in Links |-> IF enabled[l] THEN f[l] ELSE NoWorker]
       /\ wk' = [w \in Workers |->
                   IF \E l \in Links : enabled[l] /\ f[l] = w
                   THEN NewWorker(CHOOSE l \in Links : enabled[l] /\ f[l] = w)
                   ELSE wk[w]]
  /\ UNCHANGED <<now, enabled, router, crashes, sessions, asked, cancelled,
                 heldFor, deadline>>

-----------------------------------------------------------------------------
(* One delivery worker: processBatch, deliver, handleSuccess, handleFailure. *)

\* The row is finished with: on to the next of the batch, or to the ticker.
Finish(w) ==
  wk' = [wk EXCEPT ![w].pc = IF wk[w].batch = {} THEN "idle" ELSE "batch",
                   ![w].job = NoJob, ![w].answer = "ok"]

\* The ticker: the due rows of the link, most urgent first.  A row in retry
\* whose next_retry is not due is not among them, so any subset may be.
FetchBatch(w) ==
  /\ wk[w].pc = "idle" /\ ~wk[w].stopped
  /\ \E B \in SUBSET Pending(wk[w].link) :
       /\ B # {}
       /\ wk' = [wk EXCEPT
                   ![w].pc = "batch",
                   ![w].batch = {[id |-> r, retries |-> row[r].retries,
                                  expires |-> row[r].expires] : r \in B}]
  /\ UNCHANGED <<up, now, links, router, crashes, sessions, ledger>>

\* The context was cancelled: the goroutine returns, between two rows only.
ExitWorker(w) ==
  /\ wk[w].pc \in {"idle", "batch"} /\ wk[w].stopped
  /\ wk' = [wk EXCEPT ![w] = GoneWorker]
  /\ UNCHANGED <<up, now, links, router, crashes, sessions, ledger>>

\* s before t in the batch's order.
MoreUrgent(s, t) ==
  \/ row[s.id].prio < row[t.id].prio
  \/ row[s.id].prio = row[t.id].prio /\ s.id < t.id

\* deliver() re-reads the row and skips it only if it is sent or dead.  An
\* LXMF row goes to its own path, and fails at once without a router.
TakeRow(w) ==
  /\ wk[w].pc = "batch" /\ ~wk[w].stopped
  /\ \E s \in wk[w].batch :
       LET rest == wk[w].batch \ {s}
           next(pc) == [wk EXCEPT ![w].pc = pc, ![w].batch = rest,
                                  ![w].job = s, ![w].answer = "other"]
       IN  /\ \A t \in rest : ~MoreUrgent(t, s)
           /\ \/ /\ row[s.id].status \in {"sent", "dead"}
                 /\ wk' = [wk EXCEPT ![w].pc = IF rest = {} THEN "idle" ELSE "batch",
                                     ![w].batch = rest]
              \/ /\ row[s.id].status \notin {"sent", "dead"}
                 /\ wk' = CASE row[s.id].cls # "lxmf" -> next("policy")
                            [] row[s.id].cls = "lxmf" /\ router -> next("claim")
                            [] OTHER -> next("answered")
  /\ UNCHANGED <<up, now, links, router, crashes, sessions, ledger>>

\* Egress rules exist and none matches: denied, whatever the row's status is.
DenyByEgressRules(w) ==
  /\ wk[w].pc = "policy"
  /\ ~Bypasses(row[wk[w].job.id].cls)
  /\ SetDeliveryStatus(wk[w].job.id, "denied", "none")
  /\ Finish(w)
  /\ UNCHANGED <<up, now, links, router, crashes, sessions, asked, cancelled,
                 heldFor, deadline>>

\* The deadline the worker fetched has passed: expired, whatever the row's
\* status and deadline are now.
PastDeadline(w) ==
  LET s == wk[w].job
  IN  row[s.id].prio > 0 /\ s.expires # NoTTL /\ now > s.expires

ExpireBeforeSend(w) ==
  /\ wk[w].pc = "policy"
  /\ PastDeadline(w)
  /\ SetDeliveryStatus(wk[w].job.id, "expired", "none")
  /\ Finish(w)
  /\ UNCHANGED <<up, now, links, router, crashes, sessions, asked, cancelled,
                 heldFor, deadline>>

PassPolicy(w) ==
  /\ wk[w].pc = "policy"
  /\ ~PastDeadline(w)
  /\ wk' = [wk EXCEPT ![w].pc = "claim"]
  /\ UNCHANGED <<up, now, links, router, crashes, sessions, ledger>>

\* mayDeliver: the send gate refuses a leg of a cancelled SOS, which is
\* cancelled where it stands if it still waits.
RefuseAtGate(w) ==
  LET r == wk[w].job.id
  IN  /\ wk[w].pc = "claim"
      /\ row[r].cls # "lxmf"
      /\ \/ /\ Cancellable(r)
            /\ row' = [row EXCEPT ![r].status = "dead", ![r].why = "cancelled",
                                  ![r].heldAt = 0]
            /\ cancelled' = cancelled \cup {r}
         \/ /\ ~Cancellable(r)
            /\ UNCHANGED <<row, cancelled>>
      /\ Finish(w)
      /\ UNCHANGED <<up, now, links, router, crashes, sessions, asked, heldFor,
                     deadline>>

\* Mutants: the claim does not look at the row's status; it relies on what
\* deliver() skipped when it re-read the row.
ClaimableAnyway(r) == row[r].status # "none"
ClaimableUnlessOver(r) == row[r].status \notin {"sent", "dead"}

\* ClaimDeliveryForSending: only a row still queued or waiting for a retry.
Claimable(r) == row[r].status \in Waiting

ClaimDeliveryForSending(w) ==
  LET r == wk[w].job.id
  IN  /\ wk[w].pc = "claim"
      /\ \/ /\ Claimable(r)
            /\ SetDeliveryStatus(r, "sending", "none")
            /\ wk' = [wk EXCEPT ![w].pc = "sending"]
         \/ /\ ~Claimable(r)
            /\ UNCHANGED row
            /\ Finish(w)
      /\ UNCHANGED <<up, now, links, router, crashes, sessions, asked, cancelled,
                     heldFor, deadline>>

\* A key that cannot seal, or a sealed SMS too long: dead before any send.
DropNotSent(w) ==
  /\ wk[w].pc = "sending"
  /\ ~Bypasses(row[wk[w].job.id].cls)
  /\ SetDeliveryStatus(wk[w].job.id, "dead", "unsealed")
  /\ Finish(w)
  /\ UNCHANGED <<up, now, links, router, crashes, sessions, asked, cancelled,
                 heldFor, deadline>>

\* The bearer takes the message.  From here a satellite session may deliver
\* it, whatever happens to the answer.
Transmit(w) ==
  /\ wk[w].pc = "sending"
  /\ wk' = [wk EXCEPT ![w].pc = "onair"]
  /\ sessions' = IF wk[w].link \in Sat /\ ~SosFrame(wk[w].job.id)
                 THEN [sessions EXCEPT ![wk[w].job.id] = @ + 1] ELSE sessions
  /\ UNCHANGED <<up, now, links, router, crashes, ledger>>

\* The bearer answers.  Only a satellite's outcome can be unknown, and a
\* satellite's other errors say that the session delivered nothing; the APRS
\* and TETRA bearers wait for an acknowledgement of their own.
BearerAnswers(w, a) ==
  /\ wk[w].pc = "onair"
  /\ a = "unknown" => wk[w].link \in Sat
  /\ a = "unacked" => wk[w].link \notin Sat /\ row[wk[w].job.id].cls # "lxmf"
  /\ wk' = [wk EXCEPT ![w].pc = "answered", ![w].answer = a]
  /\ sessions' = IF /\ wk[w].link \in Sat /\ ~SosFrame(wk[w].job.id)
                    /\ a \notin {"ok", "unknown"}
                 THEN [sessions EXCEPT ![wk[w].job.id] = @ - 1] ELSE sessions
  /\ UNCHANGED <<up, now, links, router, crashes, ledger>>

\* handleSuccess: sent, and for QoS 1 and up the acknowledgement in a second
\* statement.
MarkSent(w) ==
  LET r == wk[w].job.id
  IN  /\ wk[w].pc = "answered" /\ wk[w].answer = "ok"
      /\ SetDeliveryStatus(r, "sent", "none")
      /\ IF row[r].qos >= 1 THEN wk' = [wk EXCEPT ![w].pc = "ack"] ELSE Finish(w)
      /\ UNCHANGED <<up, now, links, router, crashes, sessions, asked, cancelled,
                     heldFor, deadline>>

SetDeliveryAck(w) ==
  /\ wk[w].pc = "ack"
  /\ SetDeliveryStatus(wk[w].job.id, "delivered", "none")
  /\ Finish(w)
  /\ UNCHANGED <<up, now, links, router, crashes, sessions, asked, cancelled,
                 heldFor, deadline>>

\* Mutant: the original is closed before the copy is queued.
FailOverClosingFirst(w, l) ==
  LET r == wk[w].job.id
  IN  /\ wk[w].pc = "answered" /\ wk[w].answer = "unacked"
      /\ row[r].rule
      /\ l # row[r].link /\ l \notin row[r].visited
      /\ SetDeliveryStatus(r, "dead", "moved")
      /\ wk' = [wk EXCEPT ![w].pc = "moved"]
      /\ UNCHANGED <<up, now, links, router, crashes, sessions, asked, cancelled,
                     heldFor, deadline>>

\* failOverToNextMember: the message is queued again on another member of
\* the rule's group that can carry it now, with its retries back at zero.
FailOverToNextMember(w, l) ==
  LET r == wk[w].job.id
  IN  /\ wk[w].pc = "answered" /\ wk[w].answer = "unacked"
      /\ row[r].rule
      /\ l # row[r].link /\ l \notin row[r].visited
      /\ \E q \in Rows :
           /\ Fresh(q)
           /\ row' = [row EXCEPT ![q] = [row[r] EXCEPT
                        !.status = "queued", !.why = "none", !.link = l,
                        !.retries = 0, !.born = now, !.heldAt = 0]]
           /\ deadline' = [deadline EXCEPT ![q] = deadline[r]]
           /\ heldFor' = [heldFor EXCEPT ![q] = heldFor[r]]
           /\ asked' = [asked EXCEPT ![q] = asked[r]]
      /\ wk' = [wk EXCEPT ![w].pc = "moved"]
      /\ UNCHANGED <<up, now, links, router, crashes, sessions, cancelled>>

\* The second statement of a failover closes the original row.
CloseMovedRow(w) ==
  /\ wk[w].pc = "moved"
  /\ SetDeliveryStatus(wk[w].job.id, "dead", "moved")
  /\ Finish(w)
  /\ UNCHANGED <<up, now, links, router, crashes, sessions, asked, cancelled,
                 heldFor, deadline>>

\* The retries of a row that is retried forever only matter up to the limit
\* that CancelRunawayDeliveries compares them with.
CountRetry(n, max) == IF max = 0 /\ n >= RunawayLimit THEN RunawayLimit ELSE n

\* Mutant: status and last_error are swapped.
EndedSwapped(d, why) == [d EXCEPT !.status = why, !.why = "none"]

\* What a failure may write: the row's end, a retry that costs nothing, and a
\* retry that is counted.
Ended(d, why) == [d EXCEPT !.status = "dead", !.why = why]
Again(d) == [d EXCEPT !.status = "retry"]
Counted(d, n) == [d EXCEPT !.status = "retry", !.retries = n]

\* Mutant: one try too many.
CountedFailureOverBudget(d, n) ==
  IF d.qos = 0 THEN Ended(d, "qos0")
  ELSE IF d.max > 0 /\ n + 1 > d.max THEN Ended(d, "exhausted")
  ELSE Counted(d, CountRetry(n + 1, d.max))

\* Best effort is not tried twice, a budget is not overspent.
CountedFailure(d, n) ==
  IF d.qos = 0 THEN Ended(d, "qos0")
  ELSE IF d.max > 0 /\ n + 1 >= d.max THEN Ended(d, "exhausted")
  ELSE Counted(d, CountRetry(n + 1, d.max))

\* The one statement handleFailure ends in, for row r fetched with n retries.
FailedRow(r, n, a) ==
  LET d == row[r]
      age == now - d.born
  IN  CASE a = "unknown" /\ ~SosFrame(r) -> Ended(d, "uncertain")
        [] a = "absent" /\ age < AbsentWindow -> Again(d)
        [] a = "absent" /\ age >= AbsentWindow -> Ended(d, "absent")
        [] a = "down" /\ age < DeferWindow -> Again(d)
        [] a = "fatal" -> Ended(d, "undeliverable")
        [] OTHER -> CountedFailure(d, n)

HandleFailure(w) ==
  LET s == wk[w].job
  IN  /\ wk[w].pc = "answered" /\ wk[w].answer # "ok"
      /\ row' = [row EXCEPT ![s.id] = FailedRow(s.id, s.retries, wk[w].answer)]
      /\ Finish(w)
      /\ UNCHANGED <<up, now, links, router, crashes, sessions, asked, cancelled,
                     heldFor, deadline>>

-----------------------------------------------------------------------------

NoRow ==
  [status |-> "none", why |-> "none", ref |-> 0,
   link |-> CHOOSE l \in Links : TRUE, prio |-> 1, qos |-> 0, max |-> 0,
   cls |-> "message", rule |-> FALSE, sosRun |-> FALSE, visited |-> {},
   retries |-> 0, born |-> 0, expires |-> NoTTL, heldAt |-> 0]

\* A Bridge with an empty ledger, about to start.
Init ==
  /\ up = FALSE
  /\ now = 0
  /\ row = [r \in Rows |-> NoRow]
  /\ enabled = [l \in Links |-> TRUE]
  /\ workerOf = [l \in Links |-> NoWorker]
  /\ wk = [w \in Workers |-> GoneWorker]
  /\ router = FALSE
  /\ crashes = 0
  /\ sessions = [r \in Rows |-> 0]
  /\ asked = [r \in Rows |-> 0]
  /\ cancelled = {}
  /\ heldFor = [r \in Rows |-> 0]
  /\ deadline = [r \in Rows |-> NoTTL]

\* The steps of one worker's goroutine.
WorkerStep(w) ==
  \/ FetchBatch(w)
  \/ ExitWorker(w)
  \/ TakeRow(w)
  \/ DenyByEgressRules(w)
  \/ ExpireBeforeSend(w)
  \/ PassPolicy(w)
  \/ RefuseAtGate(w)
  \/ ClaimDeliveryForSending(w)
  \/ DropNotSent(w)
  \/ Transmit(w)
  \/ \E a \in Answer : BearerAnswers(w, a)
  \/ MarkSent(w)
  \/ SetDeliveryAck(w)
  \/ \E l \in Links : FailOverToNextMember(w, l)
  \/ CloseMovedRow(w)
  \/ HandleFailure(w)

Next ==
  \/ \E t \in Templates, l \in Links : InsertDelivery(t, l)
  \/ \E t \in Templates, l \in Links : DispatchEvicting(t, l)
  \/ \E t \in Templates, l \in Links : EvictThenReject(t, l)
  \/ \E r \in Rows : CancelDelivery(r)
  \/ \E r \in Rows : RetryDelivery(r)
  \/ \E r \in Rows : EndSendingDelivery(r)
  \/ ExpireDeliveries
  \/ \E w \in Workers : ExpireDeliveriesForChannel(w)
  \/ Tick
  \/ \E l \in Links, on \in BOOLEAN : SetEnabled(l, on)
  \/ \E l \in Links : StartWorker(l)
  \/ \E l \in Links : StopWorker(l)
  \/ SetLXMFSender
  \/ Crash
  \/ Start
  \/ \E w \in Workers : WorkerStep(w)

Spec == Init /\ [][Next]_vars

\* Goroutines keep running and the clock keeps ticking; the reaper's ticker
\* fires; a process that died is started again (the service manager); and a
\* link that stays up reports online, which calls StartWorker.  Nothing is
\* assumed of people, of bearers' answers, or of crashes and stops.
Fairness ==
  /\ \A w \in Workers : WF_vars(WorkerStep(w))
  /\ \A l \in Links : WF_vars(StartWorker(l))
  /\ WF_vars(ExpireDeliveries)
  /\ WF_vars(Tick)
  /\ WF_vars(Start)

FairSpec == Spec /\ Fairness

-----------------------------------------------------------------------------
(* What must hold. *)

\* Every variable has its type: the ledger's rows, the goroutines with what
\* they fetched, and the histories.
TypeOK ==
  /\ up \in BOOLEAN
  /\ now \in Nat
  /\ row \in [Rows -> Row]
  /\ enabled \in [Links -> BOOLEAN]
  /\ workerOf \in [Links -> Workers \cup {NoWorker}]
  /\ wk \in [Workers -> Worker]
  /\ router \in BOOLEAN
  /\ crashes \in Nat
  /\ sessions \in [Rows -> Int]
  /\ asked \in [Rows -> Nat]
  /\ cancelled \subseteq Rows
  /\ heldFor \in [Rows -> Nat]
  /\ deadline \in [Rows -> Nat \cup {NoTTL}]

\* A satellite message is never sent again by itself once a session of it may
\* have gone out, whatever crashes, stops and restarts of workers happen: only
\* a person's Retry allows another (handleFailure's ErrOutcomeUnknown,
\* EndStaleSatelliteSends).  The SOS's frame to the Hub is the exception.
SatelliteNotResent ==
  \A r \in Rows : sessions[r] <= 1 + asked[r]

\* Two goroutines never send one row at the same time, although a stopped
\* worker may still be running when its successor starts
\* (ClaimDeliveryForSending).  An LXMF
\* row met before the router is there is not claimed: see CancelIsFinal.
OneSenderPerRow ==
  \A v, w \in Workers :
    /\ v # w
    /\ wk[v].pc \in InFlight /\ wk[w].pc \in InFlight
    /\ wk[v].job.id = wk[w].job.id
    => row[wk[v].job.id].cls = "lxmf"

\* A row somebody cancelled while it waited is not handed to a bearer, even
\* by a worker that fetched it before the cancel.
CancelledNotSent ==
  \A w \in Workers :
    /\ wk[w].pc \in {"sending", "onair"}
    /\ row[wk[w].job.id].cls # "lxmf"
    => wk[w].job.id \notin cancelled

\* No row is left 'sending' with nobody sending it: it would never be fetched
\* again before the next restart.
NothingStuckSending ==
  up => \A r \in Rows : row[r].status = "sending" =>
          \E w \in Workers : wk[w].pc \in InFlight /\ wk[w].job.id = r

\* The TTL clock of a rule's row stands still exactly while the row is held,
\* over any number of holds, failovers and restarts; a direct send's deadline
\* is never put off (UnholdDeliveriesForChannel).  A person's Retry of a row
\* that ended while it was held is the exception, and so is an LXMF row: met
\* before the router is there, it goes back to retry while held, and the time
\* of that hold is lost.
TTLPausedWhileHeld ==
  \A r \in Rows :
    LET d == row[r]
        pause == IF d.status = "held" THEN now - d.heldAt ELSE 0
    IN  /\ d.status \in Waiting \cup {"held", "sending"}
        /\ d.expires # NoTTL
        /\ asked[r] = 0 /\ d.cls # "lxmf"
        => IF d.rule THEN d.expires + pause = deadline[r] + heldFor[r]
                     ELSE d.expires <= deadline[r] \/ d.expires <= now

\* A leg of the SOS run kept in the database, tried for ever at priority 0,
\* leaves the ledger only by being sent, by a cancel, or by an answer no
\* retry can change: no TTL, eviction, restart or unknown session ends it.
SosLegKept ==
  \A r \in Rows :
    /\ SosFrame(r) /\ row[r].sosRun /\ row[r].max = 0 /\ row[r].qos > 0
    /\ row[r].status \in {"dead", "expired", "denied"}
    => row[r].why \in {"cancelled", "undeliverable", "absent"}

\* A row closed as moved has a later row of the same message: a crash between
\* the two statements of a failover may send the message twice, and never
\* loses it.
MovedNotLost ==
  \A r \in Rows : row[r].status = "dead" /\ row[r].why = "moved" =>
    \E q \in Rows : q > r /\ row[q].status # "none" /\ row[q].ref = row[r].ref

\* A row with a retry budget never counts past it, so the clean-up at start
\* only ever meets rows that are retried for ever.
RetriesWithinBudget ==
  \A r \in Rows : row[r].max > 0 => row[r].retries < row[r].max

\* A link that is up, switched on and has a worker.
Served(l) == up /\ enabled[l] /\ workerOf[l] # NoWorker

\* Once a link stays switched on with its worker, every row of the link that is
\* not retried for ever comes to an end, whatever crashed or was stopped before.
RowsSettle ==
  \A r \in Rows :
    <>[]Served(row[r].link) =>
      <>[](row[r].status \in Settled \cup {"none"}
           \/ (row[r].max = 0 /\ row[r].qos > 0))

-----------------------------------------------------------------------------
(* What comments of the code say and the code does not do. *)

\* "a row cancelled, held or expired since the worker fetched it is left as
\* it is" (ClaimDeliveryForSending): a cancelled row does not come back to the
\* queue unless a person retries it.
CancelIsFinal ==
  \A r \in cancelled : row[r].status \in Settled

\* "no online member, using first enabled (deliveries will be held)"
\* (FailoverResolver.Resolve) and "TTL clock pauses while held": what waits
\* for a link that is down does not run out of time.
NotExpiredWhileDown ==
  [][\A r \in Rows :
       row[r].rule /\ row[r].status # "expired" /\ row'[r].status = "expired"
       => workerOf[row[r].link] # NoWorker]_vars
=============================================================================
