--------------------------- MODULE DeliveryIntents ---------------------------
(***************************************************************************)
(* One delivery intent of a MeshSat Bridge: a message to one recipient,    *)
(* its frozen route plan, its attempts (rows of message_deliveries with    *)
(* intent_id set, at most one per route), the transmissions of each        *)
(* attempt, the evidence that comes back, and the three that write about   *)
(* them: the links' delivery workers, the Escalator, and whoever records   *)
(* an answer.                                                              *)
(*                                                                         *)
(* Sources: internal/database/intents.go (each operation is one            *)
(* transaction on the one SQLite connection, so one step here),            *)
(* internal/engine/escalator.go (the clock, the decision, the cancel) and  *)
(* internal/engine/intent_worker.go (a worker between two transactions can *)
(* be overtaken by anything, and by a crash).                              *)
(*                                                                         *)
(* Adapters, radios, recipients and people are external choices.           *)
(***************************************************************************)
EXTENDS Integers, FiniteSets

CONSTANTS
  N,             \* routes of the plan
  Requests,      \* what may be submitted: see Request
  Cap,           \* cap_minor
  MaxRetries,    \* max_retries of an attempt (3 in the code)
  RestartSlack,  \* what a restart adds to a clock: one heartbeat period
  MaxDowntime,   \* the longest downtime a restart believes
  MaxClaims,     \* claims after which a link no longer says "not now" (a bound)
  MaxTime,       \* ticks (a bound)
  MaxCrashes,    \* crashes of the process (a bound)
  MaxLost        \* finalizations the database refuses (a bound)

Routes == 1..N

\* RoutePlanEntry: receipts is a completion rule, escalate is
\* escalate_unconfirmed, price is what one submission costs at the tariff.
Entry ==
  [admitted: BOOLEAN, paid: BOOLEAN, price: Nat, receipts: BOOLEAN,
   escalate: BOOLEAN, queueAllow: Nat, receiptAllow: Nat]

Strategy == {"primary_only", "ordered_fallback", "all_bearers"}

\* A plan as admission froze it, the effective strategy, and the expiry
\* allowance in ticks, 0 for none.
Request == [plan: [Routes -> Entry], strategy: Strategy, expiry: Nat]

ASSUME IntentAssumption ==
  /\ N \in Nat \ {0}
  /\ Requests \subseteq Request
  /\ \A q \in Requests, r \in Routes : q.plan[r].price > 0 => q.plan[r].paid
  /\ Cap \in Nat /\ MaxRetries \in Nat \ {0}
  /\ RestartSlack \in Nat \ {0} /\ MaxDowntime \in Nat
  /\ MaxClaims \in Nat /\ MaxTime \in Nat /\ MaxCrashes \in Nat /\ MaxLost \in Nat

\* Generations a row can reach: a claim is counted up by each refusal that
\* costs nothing, each retry that does, and each crash.
MaxGen == MaxClaims + MaxRetries + MaxCrashes
Gens == 1..MaxGen

VARIABLES
  up,       \* the process runs: recovery is over, the workers are there
  ready,    \* SetReady was called: the Escalator may decide
  clock,    \* the Escalator's clock of the intent (bases), or NoBase
  beat,     \* ticks since the last heartbeat
  in,       \* the row of delivery_intents
  plan,     \* its route_plan
  att,      \* by route: the attempt, a row of message_deliveries
  tx,       \* by route and generation: delivery_transmissions
  ev,       \* delivery_evidence that matched
  worker,   \* by route: where the goroutine that sends the attempt is
  crashes,  \* crashes so far
  lost,     \* finalizations lost so far
  air,      \* history: the transmissions that really left the device
  uptime    \* history: ticks the process was up while the intent was active

durable == <<in, plan, att, tx, ev>>
vars == <<up, ready, clock, beat, in, plan, att, tx, ev, worker,
          crashes, lost, air, uptime>>

NoBase == -1
NoStamp == -1

Outcome == {"pending", "delivered", "accepted_unconfirmed",
            "may_have_been_sent", "failed", "expired", "cancelled"}

\* The completions of the code (delivered_handset, delivered_device, ...) are
\* one outcome here, "delivered": no rule tells them apart.
Intent ==
  [state: {"none", "active", "closed"}, strategy: Strategy, outcome: Outcome,
   round: Nat, started: Nat, expiry: Nat, elapsed: Nat, dup: BOOLEAN, dirty: BOOLEAN,
   cancelled: BOOLEAN, t12: BOOLEAN, reserved: Int, incurred: Nat, possible: Nat]

Unclaimed == {"queued", "retry", "held"}
AttemptEnd == {"accepted", "not_sent", "unknown", "superseded", "cancelled"}

Attempt ==
  [status: {"none", "sending"} \cup Unclaimed \cup AttemptEnd,
   round: Nat, gen: Nat, retries: Nat, stamp: Nat \cup {NoStamp}]

SendClass == {"none", "not_sent", "accepted", "unknown"}

Transmission ==
  [state: {"none", "authorized", "handed_off", "done"}, class: SendClass,
   reserved: Nat]

NoTx == [state |-> "none", class |-> "none", reserved |-> 0]

Says == {"completes", "nak", "dropped"}
Evidence == [route: Routes, gen: Gens, says: Says]

WorkerAt == {"none", "claimed", "authorized", "calling"}

Max2(a, b) == IF a >= b THEN a ELSE b

\* elapsedMs: the persisted value, carried forward in memory.
ElapsedMs == IF clock = NoBase THEN in.elapsed ELSE clock

-----------------------------------------------------------------------------
(* What the records say: factsOf, the outcome rule, the duplicate rule. *)

\* A transmission that was accepted or may have been.
MayHaveLeft(r, g) ==
  \/ tx[r][g].state = "handed_off"
  \/ tx[r][g].state = "done" /\ tx[r][g].class # "not_sent"

Heard(r, g, says) == [route |-> r, gen |-> g, says |-> says] \in ev

\* droppedTransmissions: our own radio refused it, and nobody confirmed it.
Dropped(r, g) == Heard(r, g, "dropped") /\ ~Heard(r, g, "completes")

\* Nothing of the intent is with a worker, or was when the process died.
Quiet == \A r \in Routes : att[r].status # "sending"

HandedOff(r) == \E g \in Gens : MayHaveLeft(r, g)
Completed(r) == \E g \in Gens : Heard(r, g, "completes")
NoReceipt(r) == \E g \in Gens : Heard(r, g, "nak") \/ Heard(r, g, "dropped")

\* Mutant: a transmission nobody knows the outcome of counts as not sent.
OutcomeRuleKnown ==
  IF \E r \in Routes : Completed(r) THEN "delivered"
  ELSE IF \E r \in Routes, g \in Gens :
            tx[r][g].state = "done" /\ tx[r][g].class = "accepted" /\ ~Dropped(r, g)
       THEN "accepted_unconfirmed"
  ELSE "failed"

\* outcomeRule: evidence before acceptance before possibly sent.
OutcomeRule ==
  IF \E r \in Routes : Completed(r) THEN "delivered"
  ELSE IF \E r \in Routes, g \in Gens :
            tx[r][g].state = "done" /\ tx[r][g].class = "accepted" /\ ~Dropped(r, g)
       THEN "accepted_unconfirmed"
  ELSE IF \E r \in Routes, g \in Gens : MayHaveLeft(r, g) /\ ~Dropped(r, g)
       THEN "may_have_been_sent"
  ELSE "failed"

\* Mutant: the expiry waits until nothing is in flight.
ExpiryReachedWhenQuiet(now) == in.expiry > 0 /\ now >= in.expiry /\ Quiet

ExpiryReached(now) == in.expiry > 0 /\ now >= in.expiry

\* closedOutcome: what the intent closed as, when nothing was sent.
ClosedOutcome ==
  IF OutcomeRule # "failed" THEN OutcomeRule
  ELSE IF in.cancelled THEN "cancelled"
  ELSE IF in.t12 \/ ExpiryReached(in.elapsed) THEN "expired"
  ELSE "failed"

\* Mutant: only accepted attempts count as copies.
PossibleDuplicateAccepted ==
  in.dup \/ \E r, s \in Routes : r # s /\
    \A q \in {r, s} : \E g \in Gens : tx[q][g].class = "accepted" /\ ~Dropped(q, g)

\* possibleDuplicate: two attempts may each have left.  Once set it stays.
PossibleDuplicate ==
  in.dup \/ \E r, s \in Routes : r # s /\
    \A q \in {r, s} : \E g \in Gens : MayHaveLeft(q, g) /\ ~Dropped(q, g)

Strength(o) ==
  CASE o = "delivered" -> 4
    [] o = "accepted_unconfirmed" -> 3
    [] o = "may_have_been_sent" -> 2
    [] o \in {"failed", "expired", "cancelled"} -> 1
    [] OTHER -> 0

\* Mutant: late evidence may only make the outcome stronger.
CorrectsNothing(new, old) == FALSE

\* correctsAcceptance: what was taken for sent never left.
CorrectsAcceptance(new, old) ==
  \/ old = "accepted_unconfirmed" /\ new = "may_have_been_sent"
  \/ /\ old \in {"accepted_unconfirmed", "may_have_been_sent"}
     /\ new \in {"failed", "cancelled", "expired"}

-----------------------------------------------------------------------------
(* What a transaction writes to an attempt and to the intent's books. *)

\* The claim fence, read again wherever a row would go back to waiting.
Live(r) == in.state = "active" /\ att[r].round = in.round

\* Mutant: the row ends as a legacy row would.
PutBackLegacy(r) == IF Live(r) THEN "retry" ELSE "dead"

\* A row put back to wait for its next claim, if the fence would let it.
PutBack(r) == IF Live(r) THEN "retry" ELSE "superseded"

\* finalizeTx on the attempt, when its adapter knows that nothing left.
NotSentRow(r, retryable, consume) ==
  LET n == IF consume THEN att[r].retries + 1 ELSE att[r].retries
      again == retryable /\ (consume => n < MaxRetries)
  IN  [att[r] EXCEPT !.status = IF again THEN PutBack(r) ELSE "not_sent",
                     !.retries = n]

\* finalizeTx on the transmission: its reservation ends here.
DoneTx(class) ==
  [state |-> "done", class |-> class, reserved |-> 0]

\* finalizeTx on the intent: a charge is incurred whatever the outcome, an
\* unknown outcome keeps its reservation as possible, the rest is released.
Booked(reserved, charged, class) ==
  [in EXCEPT
     !.reserved = @ - reserved,
     !.incurred = @ + charged,
     !.possible = IF charged = 0 /\ class = "unknown" THEN @ + reserved ELSE @,
     !.dirty = TRUE]

\* The current transmission of a row: the one its claim owns.
Current(r) == tx[r][att[r].gen]
SetCurrent(r, t) == tx' = [tx EXCEPT ![r][att[r].gen] = t]
SetRow(r, row) == att' = [att EXCEPT ![r] = row]
SetStatus(r, st) == att' = [att EXCEPT ![r].status = st]
WorkerTo(r, pc) == worker' = [worker EXCEPT ![r] = pc]

-----------------------------------------------------------------------------
(* Submission. *)

Least(S) == CHOOSE r \in S : \A q \in S : r <= q

\* firstRound: X are the routes the gate excludes; a gate that excludes all of
\* them is not believed.
FirstRound(p, st, X) ==
  LET admitted == {r \in Routes : p[r].admitted}
      pool == IF admitted \subseteq X THEN admitted ELSE admitted \ X
  IN  CASE st = "primary_only" -> admitted \cap {1}
        [] st = "ordered_fallback" -> IF pool = {} THEN {} ELSE {Least(pool)}
        [] OTHER -> pool

\* CreateSubmission: T1, or T2 (closed at once) for a team member no route admits.
CreateSubmission(q, X) ==
  LET first == FirstRound(q.plan, q.strategy, X)
  IN  /\ up
      /\ in.state = "none"
      /\ plan' = q.plan
      /\ in' = [in EXCEPT !.state = IF first = {} THEN "closed" ELSE "active",
                          !.outcome = IF first = {} THEN "failed" ELSE "pending",
                          !.strategy = q.strategy, !.round = 1, !.expiry = q.expiry]
      /\ att' = [r \in Routes |-> IF r \in first
                                  THEN [att[r] EXCEPT !.status = "queued", !.round = 1]
                                  ELSE att[r]]
      /\ UNCHANGED <<up, ready, clock, beat, tx, ev, worker, crashes, lost,
                     air, uptime>>

-----------------------------------------------------------------------------
(* One worker: deliverIntent. *)

\* Mutant: the claim does not ask whether the intent still wants the attempt.
ClaimableUnfenced(r) == att[r].status \in {"queued", "retry"}

\* ClaimDeliveryForSending on an intent's row.  A worker stopped meanwhile may
\* still do it: the row alone decides.
Claimable(r) == att[r].status \in {"queued", "retry"} /\ Live(r)

ClaimDeliveryForSending(r) ==
  /\ up
  /\ Claimable(r)
  /\ SetRow(r, [att[r] EXCEPT !.status = "sending", !.gen = @ + 1])
  /\ WorkerTo(r, "claimed")
  /\ UNCHANGED <<up, ready, clock, beat, in, plan, tx, ev, crashes, lost,
                 air, uptime>>

\* EndAttemptNotSent: a check before the send refuses the attempt, for now
\* (the link is not ready) or for good.
EndAttemptNotSent(r, retryable) ==
  /\ worker[r] = "claimed"
  /\ retryable => att[r].gen < MaxClaims
  /\ SetStatus(r, IF retryable THEN PutBack(r) ELSE "not_sent")
  /\ WorkerTo(r, "none")
  /\ UNCHANGED <<up, ready, clock, beat, in, plan, tx, ev, crashes, lost,
                 air, uptime>>

\* Mutant: what may have been charged does not count.
FitsCapConfirmed(price) == in.reserved + in.incurred + price <= Cap

FitsCap(price) == in.reserved + in.incurred + in.possible + price <= Cap

\* AuthorizeTransmission: the price is reserved with the transmission, or the
\* attempt ends.
AuthorizeTransmission(r) ==
  LET price == plan[r].price
  IN  /\ worker[r] = "claimed"
      /\ \/ /\ price = 0 \/ FitsCap(price)
            /\ SetCurrent(r, [state |-> "authorized", class |-> "none", reserved |-> price])
            /\ in' = [in EXCEPT !.reserved = @ + price]
            /\ WorkerTo(r, "authorized")
            /\ UNCHANGED att
         \/ /\ price > 0 /\ ~FitsCap(price)
            /\ SetStatus(r, "not_sent")
            /\ WorkerTo(r, "none")
            /\ UNCHANGED <<in, tx>>
      /\ UNCHANGED <<up, ready, clock, beat, plan, ev, crashes, lost, air,
                     uptime>>

\* No correlation could be reserved: nothing is handed to the adapter.
NoCorrelation(r) ==
  /\ worker[r] = "authorized"
  /\ SetCurrent(r, DoneTx("not_sent"))
  /\ in' = Booked(Current(r).reserved, 0, "not_sent")
  /\ SetRow(r, NotSentRow(r, TRUE, TRUE))
  /\ WorkerTo(r, "none")
  /\ UNCHANGED <<up, ready, clock, beat, plan, ev, crashes, lost, air, uptime>>

\* MarkTransmissionHandedOffWith, then the one adapter call.
HandOff(r) ==
  /\ worker[r] = "authorized"
  /\ SetCurrent(r, [Current(r) EXCEPT !.state = "handed_off"])
  /\ WorkerTo(r, "calling")
  /\ UNCHANGED <<up, ready, clock, beat, in, plan, att, ev, crashes, lost, air,
                 uptime>>

\* The message goes on air: during the call, or later out of the device's own
\* queue, whatever became of the Bridge.
Leave(r, g) ==
  /\ MayHaveLeft(r, g)
  /\ <<r, g>> \notin air
  /\ air' = air \cup {<<r, g>>}
  /\ UNCHANGED <<up, ready, clock, beat, durable, worker, crashes, lost, uptime>>

\* What the adapter was billed for the submission.
Charges(r) == {0, plan[r].price}

\* The adapter answers that nothing left, and FinalizeTransmission: for good;
\* a refusal that costs a retry; a link that is down, which costs none.
FinalizeNotSent(r, retryable, consume, charged) ==
  /\ worker[r] = "calling"
  /\ <<r, att[r].gen>> \notin air
  /\ consume => retryable
  /\ retryable /\ ~consume => att[r].gen < MaxClaims
  /\ SetCurrent(r, DoneTx("not_sent"))
  /\ in' = Booked(Current(r).reserved, charged, "not_sent")
  /\ SetRow(r, NotSentRow(r, retryable, consume))
  /\ WorkerTo(r, "none")
  /\ UNCHANGED <<up, ready, clock, beat, plan, ev, crashes, lost, air, uptime>>

\* The adapter cannot say: the attempt ends here and is never sent again.
FinalizeUnknown(r, charged) ==
  /\ worker[r] = "calling"
  /\ SetCurrent(r, DoneTx("unknown"))
  /\ in' = Booked(Current(r).reserved, charged, "unknown")
  /\ SetStatus(r, "unknown")
  /\ WorkerTo(r, "none")
  /\ UNCHANGED <<up, ready, clock, beat, plan, ev, crashes, lost, air, uptime>>

\* Accepted, with the proof when the call itself waited for it (LXMF).  The
\* acceptance is stamped with the clock (ElapsedNow), if it could be read.
FinalizeAccepted(r, charged, proof, stamped) ==
  /\ worker[r] = "calling"
  /\ proof => plan[r].receipts /\ <<r, att[r].gen>> \in air
  /\ SetCurrent(r, DoneTx("accepted"))
  /\ in' = Booked(Current(r).reserved, charged, "accepted")
  /\ LET read == stamped /\ in.state = "active"
     IN  /\ SetRow(r, [att[r] EXCEPT !.status = "accepted",
                                     !.stamp = IF read THEN ElapsedMs ELSE NoStamp])
         /\ clock' = IF read THEN ElapsedMs ELSE clock
  /\ ev' = IF proof
           THEN ev \cup {[route |-> r, gen |-> att[r].gen, says |-> "completes"]}
           ELSE ev
  /\ WorkerTo(r, "none")
  /\ UNCHANGED <<up, ready, beat, plan, crashes, lost, air, uptime>>

\* FinalizeTransmission fails: the row stays 'sending' until the next start.
LoseFinalization(r) ==
  /\ worker[r] = "calling"
  /\ lost < MaxLost
  /\ lost' = lost + 1
  /\ WorkerTo(r, "none")
  /\ UNCHANGED <<up, ready, clock, beat, durable, crashes, air, uptime>>

-----------------------------------------------------------------------------
(* What comes back. *)

\* Mutant: evidence alone, nobody is told to look again.
RecordEvidenceQuietly(r, g, says) ==
  /\ up
  /\ MayHaveLeft(r, g)
  /\ plan[r].receipts
  /\ says = "completes" => <<r, g>> \in air
  /\ ~Heard(r, g, says)
  /\ ev' = ev \cup {[route |-> r, gen |-> g, says |-> says]}
  /\ UNCHANGED <<up, ready, clock, beat, in, plan, att, tx, worker, crashes,
                 lost, air, uptime>>

\* RecordEvidence, matched, from the handoff on, before or after finalization,
\* closing and restarts; a repeat is not stored again.  What completes came from
\* the recipient, so something had left; our own radio may refuse wrongly.
RecordEvidence(r, g, says) ==
  /\ up
  /\ MayHaveLeft(r, g)
  /\ plan[r].receipts
  /\ says = "completes" => <<r, g>> \in air
  /\ ~Heard(r, g, says)
  /\ ev' = ev \cup {[route |-> r, gen |-> g, says |-> says]}
  /\ in' = [in EXCEPT !.dirty = TRUE]
  /\ UNCHANGED <<up, ready, clock, beat, plan, att, tx, worker, crashes, lost,
                 air, uptime>>

-----------------------------------------------------------------------------
(* The Escalator. *)

ActiveRows == {r \in Routes : att[r].status # "none" /\ att[r].round = in.round}

\* Mutant: an acceptance without a stamp is not stamped when it is seen.
StampLost(r, now) == att[r].stamp

\* decideIntent stamps an acceptance it sees without one.
Stamp(r, now) ==
  IF att[r].status = "accepted" /\ att[r].stamp = NoStamp THEN now ELSE att[r].stamp

ReceiptEnded(r, now) ==
  \/ NoReceipt(r)
  \/ Stamp(r, now) # NoStamp /\ now - Stamp(r, now) >= plan[r].receiptAllow

SettledRow(r, now) ==
  \/ att[r].status \in AttemptEnd \ {"accepted"}
  \/ /\ att[r].status = "accepted"
     /\ \/ Completed(r)
        \/ ~plan[r].receipts /\ ~plan[r].escalate
        \/ ReceiptEnded(r, now)

MayEscalateAfterAcceptance(r) ==
  plan[r].escalate \/ (plan[r].receipts /\ ~plan[r].paid)

\* nextRoute, among the routes E that are usable now.
Later(r, E) == {q \in E : q > r /\ plan[q].admitted}

\* Mutant: a paid route is one whose price is above the smallest.
PaidAboveMinimum(r) == plan[r].paid /\ plan[r].price > 1

Paid(r) == plan[r].paid

\* The rules of ORDERED_FALLBACK for the one row r of the active round.
FallbackDecision(r, now, E) ==
  LET st == att[r].status
      more == Later(r, E) # {}
  IN  CASE st = "not_sent" /\ more -> "T3"
        [] st = "unknown" /\ ~Paid(r) /\ more -> "T8"
        [] /\ st \in Unclaimed /\ ~HandedOff(r) /\ more
           /\ now - in.started >= plan[r].queueAllow -> "T4"
        [] /\ st = "accepted" /\ ~Completed(r) /\ ReceiptEnded(r, now)
           /\ MayEscalateAfterAcceptance(r) /\ more -> "T5"
        [] /\ st = "accepted" /\ ~Completed(r) /\ ReceiptEnded(r, now)
           /\ plan[r].paid /\ plan[r].receipts /\ ~plan[r].escalate -> "T6"
        [] OTHER -> "none"

\* decideIntent, in its order; E are the routes usable now.
Decision(now, E) ==
  LET all == in.strategy = "all_bearers"
      fallback == IF in.strategy = "ordered_fallback" /\ Cardinality(ActiveRows) = 1
                  THEN FallbackDecision(Least(ActiveRows), now, E) ELSE "none"
  IN  IF OutcomeRule = "delivered" /\ ~all THEN "T9"
      ELSE IF OutcomeRule = "delivered" /\ in.outcome # "delivered" THEN "T10"
      ELSE IF ExpiryReached(now) THEN "T12"
      ELSE IF ~all /\ \E r \in ActiveRows : att[r].status = "unknown" /\ Paid(r) THEN "T7"
      ELSE IF fallback # "none" THEN fallback
      ELSE IF ActiveRows # {} /\ \A r \in ActiveRows : SettledRow(r, now) THEN "T11"
      ELSE "none"

\* The attempts after a look at them: stamped, and retired where T holds.
Retired(T, now, as) ==
  [r \in Routes |->
     [att[r] EXCEPT !.status = IF r \in T /\ @ \in Unclaimed THEN as ELSE @,
                    !.stamp = Stamp(r, now)]]

\* The intent after a transition that closes it.
Closed(now, outcome) ==
  [in EXCEPT !.state = "closed", !.outcome = outcome, !.dirty = FALSE,
             !.elapsed = Max2(@, now)]

\* T6, T7, T9, T11 and T12 close the intent; what waits is superseded.
EvaluateClose(E) ==
  LET now == ElapsedMs
      d == Decision(now, E)
  IN  /\ up /\ ready /\ in.state = "active"
      /\ d \in {"T6", "T7", "T9", "T11", "T12"}
      /\ in' = [Closed(now, IF d = "T12" /\ OutcomeRule = "failed" THEN "expired"
                            ELSE OutcomeRule)
                EXCEPT !.dup = PossibleDuplicate, !.t12 = (d = "T12")]
      /\ att' = Retired(Routes, now, "superseded")
      /\ clock' = NoBase
      /\ UNCHANGED <<up, ready, beat, plan, tx, ev, worker, crashes, lost, air,
                     uptime>>

\* T3, T4, T5 and T8 go on to the next usable route.
EvaluateAdvance(E) ==
  LET now == ElapsedMs
      d == Decision(now, E)
  IN  /\ up /\ ready /\ in.state = "active"
      /\ d \in {"T3", "T4", "T5", "T8"}
      /\ LET next == Least(Later(Least(ActiveRows), E))
         IN  att' = [Retired(ActiveRows, now, "superseded") EXCEPT
                       ![next].status = "queued", ![next].round = in.round + 1]
      /\ in' = [in EXCEPT !.round = @ + 1, !.started = now, !.dirty = FALSE,
                          !.dup = PossibleDuplicate]
      /\ clock' = now
      /\ UNCHANGED <<up, ready, beat, plan, tx, ev, worker, crashes, lost, air,
                     uptime>>

\* T10, or nothing but stamps and the duplicate flag.
EvaluateOpen(E) ==
  LET now == ElapsedMs
      d == Decision(now, E)
  IN  /\ up /\ ready /\ in.state = "active"
      /\ d \in {"T10", "none"}
      /\ in' = [in EXCEPT !.outcome = IF d = "T10" THEN OutcomeRule ELSE @,
                          !.dup = PossibleDuplicate, !.dirty = FALSE]
      /\ att' = Retired({}, now, "superseded")
      /\ clock' = now
      /\ UNCHANGED <<up, ready, beat, plan, tx, ev, worker, crashes, lost, air,
                     uptime>>

\* ReviewClosedIntent (T14): never reopens, never sends.
ReviewClosedIntent ==
  LET best == ClosedOutcome
      take == \/ Strength(best) > Strength(in.outcome)
              \/ CorrectsAcceptance(best, in.outcome)
  IN  /\ up /\ ready /\ in.state = "closed"
      /\ in' = [in EXCEPT !.dirty = FALSE, !.dup = PossibleDuplicate,
                          !.outcome = IF take THEN best ELSE @,
                          !.t12 = @ /\ ~take]
      /\ clock' = NoBase
      /\ UNCHANGED <<up, ready, beat, plan, att, tx, ev, worker, crashes, lost,
                     air, uptime>>

\* Cancel (T13): what waits is cancelled, what is in flight goes on.
Cancel ==
  LET now == ElapsedMs
  IN  /\ up /\ in.state = "active"
      /\ in' = [Closed(now, IF OutcomeRule = "failed" THEN "cancelled" ELSE OutcomeRule)
                EXCEPT !.cancelled = TRUE]
      /\ att' = [r \in Routes |->
                   [att[r] EXCEPT !.status = IF @ \in Unclaimed THEN "cancelled" ELSE @]]
      /\ clock' = NoBase
      /\ UNCHANGED <<up, ready, beat, plan, tx, ev, worker, crashes, lost, air,
                     uptime>>

\* Heartbeat: the clock is persisted (the looks that follow are Evaluate).
Heartbeat ==
  /\ up /\ in.state = "active"
  /\ in' = [in EXCEPT !.elapsed = Max2(@, ElapsedMs)]
  /\ clock' = ElapsedMs
  /\ beat' = 0
  /\ UNCHANGED <<up, ready, plan, att, tx, ev, worker, crashes, lost, air, uptime>>

\* A bound of the model: past MaxTime the clock runs only for an allowance that
\* is not over.
AwaitsAllowance ==
  \/ ElapsedMs < in.expiry
  \/ \E r \in ActiveRows : /\ att[r].status = "accepted" /\ att[r].stamp # NoStamp
                           /\ ElapsedMs - att[r].stamp < plan[r].receiptAllow

\* Time passes for an active intent; the heartbeat comes within its period.
Tick ==
  /\ up /\ in.state = "active"
  /\ uptime < MaxTime \/ AwaitsAllowance
  /\ beat < RestartSlack
  /\ clock' = IF clock = NoBase THEN NoBase ELSE clock + 1
  /\ beat' = beat + 1
  /\ uptime' = uptime + 1
  /\ UNCHANGED <<up, ready, durable, worker, crashes, lost, air>>

-----------------------------------------------------------------------------
(* Links, crash and restart. *)

\* The ledger's hold: the worker of the route's link stops.
HoldDelivery(r) ==
  /\ up
  /\ att[r].status \in {"queued", "retry"}
  /\ SetStatus(r, "held")
  /\ UNCHANGED <<up, ready, clock, beat, in, plan, tx, ev, worker, crashes, lost, air,
                 uptime>>

\* The link reports online again.
UnholdDelivery(r) ==
  /\ up
  /\ att[r].status = "held"
  /\ SetStatus(r, "queued")
  /\ UNCHANGED <<up, ready, clock, beat, in, plan, tx, ev, worker, crashes, lost, air,
                 uptime>>

SetReady ==
  /\ up /\ ~ready
  /\ ready' = TRUE
  /\ UNCHANGED <<up, clock, beat, durable, worker, crashes, lost, air, uptime>>

Crash ==
  /\ up
  /\ crashes < MaxCrashes
  /\ up' = FALSE
  /\ ready' = FALSE
  /\ clock' = NoBase
  /\ worker' = [r \in Routes |-> "none"]
  /\ crashes' = crashes + 1
  /\ UNCHANGED <<beat, durable, lost, air, uptime>>

\* RecoverIntentDeliveries, one row of three: claimed and no more.
RecoverClaimed(r) ==
  /\ ~up /\ att[r].status = "sending"
  /\ Current(r).state = "none"
  /\ SetStatus(r, "retry")
  /\ UNCHANGED <<up, ready, clock, beat, in, plan, tx, ev, worker, crashes, lost,
                 air, uptime>>

\* Mutant: an authorized row is put back like one that was only claimed.
RecoverAuthorizedAsClaimed(r) ==
  /\ ~up /\ att[r].status = "sending"
  /\ Current(r).state = "authorized"
  /\ SetStatus(r, "retry")
  /\ UNCHANGED <<up, ready, clock, beat, in, plan, tx, ev, worker, crashes, lost, air,
                 uptime>>

\* Authorized and not handed over: nothing left.
RecoverAuthorized(r) ==
  /\ ~up /\ att[r].status = "sending"
  /\ Current(r).state = "authorized"
  /\ SetCurrent(r, DoneTx("not_sent"))
  /\ in' = Booked(Current(r).reserved, 0, "not_sent")
  /\ SetRow(r, NotSentRow(r, TRUE, FALSE))
  /\ UNCHANGED <<up, ready, clock, beat, plan, ev, worker, crashes, lost, air,
                 uptime>>

\* Mutant: the restart tries a send again whose call never returned.
RecoverHandedOffAgain(r) ==
  /\ ~up /\ att[r].status = "sending"
  /\ Current(r).state = "handed_off"
  /\ SetCurrent(r, DoneTx("not_sent"))
  /\ in' = Booked(Current(r).reserved, 0, "not_sent")
  /\ SetRow(r, NotSentRow(r, TRUE, FALSE))
  /\ UNCHANGED <<up, ready, clock, beat, plan, ev, worker, crashes, lost, air,
                 uptime>>

\* Handed over, its outcome never recorded: unknown, its price possible.
RecoverHandedOff(r) ==
  /\ ~up /\ att[r].status = "sending"
  /\ Current(r).state = "handed_off"
  /\ SetCurrent(r, DoneTx("unknown"))
  /\ in' = Booked(Current(r).reserved, 0, "unknown")
  /\ SetStatus(r, "unknown")
  /\ UNCHANGED <<up, ready, clock, beat, plan, ev, worker, crashes, lost, air,
                 uptime>>

\* Mutant: the time since the last heartbeat is not made up for.
RecoveredClockBare(down) == in.elapsed + down

\* Recover's clock: the persisted value, one heartbeat, and the downtime as far
\* as the wall clock was trusted.
RecoveredClock(down) == in.elapsed + RestartSlack + down

\* The rest of Recover, then the workers start.
Start(down) ==
  /\ ~up
  /\ \A r \in Routes : att[r].status # "sending"
  /\ up' = TRUE
  /\ beat' = 0
  /\ IF in.state = "active"
     THEN /\ in' = [in EXCEPT !.elapsed = RecoveredClock(down)]
          /\ clock' = RecoveredClock(down)
     ELSE UNCHANGED <<in, clock>>
  /\ UNCHANGED <<ready, plan, att, tx, ev, worker, crashes, lost, air, uptime>>

-----------------------------------------------------------------------------

NoEntry ==
  [admitted |-> FALSE, paid |-> FALSE, price |-> 0, receipts |-> FALSE,
   escalate |-> FALSE, queueAllow |-> 0, receiptAllow |-> 0]

Init ==
  /\ up = FALSE /\ ready = FALSE
  /\ clock = NoBase /\ beat = 0
  /\ in = [state |-> "none", strategy |-> "primary_only", outcome |-> "pending",
           round |-> 0, started |-> 0, expiry |-> 0, elapsed |-> 0, dup |-> FALSE, dirty |-> FALSE,
           cancelled |-> FALSE, t12 |-> FALSE, reserved |-> 0, incurred |-> 0,
           possible |-> 0]
  /\ plan = [r \in Routes |-> NoEntry]
  /\ att = [r \in Routes |-> [status |-> "none", round |-> 0, gen |-> 0,
                              retries |-> 0, stamp |-> NoStamp]]
  /\ tx = [r \in Routes |-> [g \in Gens |-> NoTx]]
  /\ ev = {}
  /\ worker = [r \in Routes |-> "none"]
  /\ crashes = 0 /\ lost = 0
  /\ air = {} /\ uptime = 0

\* A claimed attempt's goroutine goes on.
WorkerStep(r) ==
  \/ \E b \in BOOLEAN : EndAttemptNotSent(r, b)
  \/ AuthorizeTransmission(r)
  \/ NoCorrelation(r)
  \/ HandOff(r)
  \/ \E retryable, consume \in BOOLEAN, c \in Charges(r) :
       FinalizeNotSent(r, retryable, consume, c)
  \/ \E c \in Charges(r) : FinalizeUnknown(r, c)
  \/ \E c \in Charges(r), proof, stamped \in BOOLEAN :
       FinalizeAccepted(r, c, proof, stamped)
  \/ LoseFinalization(r)

Evaluate(E) == EvaluateClose(E) \/ EvaluateAdvance(E) \/ EvaluateOpen(E)

RecoverRow(r) == RecoverClaimed(r) \/ RecoverAuthorized(r) \/ RecoverHandedOff(r)

Next ==
  \/ \E q \in Requests, X \in SUBSET Routes : CreateSubmission(q, X)
  \/ \E r \in Routes : ClaimDeliveryForSending(r)
  \/ \E r \in Routes : WorkerStep(r)
  \/ \E r \in Routes, g \in Gens : Leave(r, g)
  \/ \E r \in Routes, g \in Gens, says \in Says : RecordEvidence(r, g, says)
  \/ \E E \in SUBSET Routes : Evaluate(E)
  \/ ReviewClosedIntent
  \/ Cancel
  \/ Heartbeat
  \/ Tick
  \/ \E r \in Routes : HoldDelivery(r)
  \/ \E r \in Routes : UnholdDelivery(r)
  \/ SetReady
  \/ Crash
  \/ \E r \in Routes : RecoverRow(r)
  \/ \E down \in 0..MaxDowntime : Start(down)

Spec == Init /\ [][Next]_vars

\* The Escalator's loop, its heartbeat and the clock go on: it looks at an active
\* intent and at a closed one that is dirty.  A dead process is started again and
\* made ready.  Nothing is assumed of workers, links,
\* adapters, answers, people or crashes.
Fairness ==
  /\ WF_vars(\E E \in SUBSET Routes : Evaluate(E))
  /\ WF_vars(in.dirty /\ ReviewClosedIntent)
  /\ WF_vars(Heartbeat)
  /\ WF_vars(Tick)
  /\ WF_vars(SetReady)
  /\ WF_vars(\E r \in Routes : RecoverRow(r))
  /\ WF_vars(\E down \in 0..MaxDowntime : Start(down))

FairSpec == Spec /\ Fairness

-----------------------------------------------------------------------------
(* What must hold. *)

\* Every variable has its type.
TypeOK ==
  /\ up \in BOOLEAN /\ ready \in BOOLEAN
  /\ clock \in Nat \cup {NoBase} /\ beat \in Nat
  /\ in \in Intent
  /\ plan \in [Routes -> Entry]
  /\ att \in [Routes -> Attempt]
  /\ tx \in [Routes -> [Gens -> Transmission]]
  /\ ev \subseteq Evidence
  /\ worker \in [Routes -> WorkerAt]
  /\ crashes \in Nat /\ lost \in Nat
  /\ air \subseteq Routes \X Gens /\ uptime \in Nat

\* An attempt leaves the device at most once, whatever is refused, lost,
\* retried or recovered after a crash: only what certainly did not leave is
\* tried again (finalizeTx, RecoverIntentDeliveries).
AttemptSentOnce ==
  \A r \in Routes, g, h \in Gens :
    <<r, g>> \in air /\ <<r, h>> \in air => g = h

\* An intent that says nothing was sent is right: whatever left was refused by
\* our own radio, which was wrong, and nobody confirmed it.
NothingSentIsTrue ==
  /\ in.state = "closed" /\ ~in.dirty /\ Quiet
  /\ in.outcome \in {"failed", "expired", "cancelled"}
  => \A r \in Routes, g \in Gens : <<r, g>> \in air => Dropped(r, g)

\* The outcome of a closed intent, put together from what it closed as and
\* from every late answer in the order they came (T14), is the one the rule
\* gives for all of them at once.
ClosedOutcomeIsTheRule ==
  in.state = "closed" /\ ~in.dirty /\ Quiet => in.outcome = ClosedOutcome

\* Two copies that went out are reported as a possible duplicate, unless the
\* sender's cancel closed the intent: see CancelLooksToo.
DuplicateReported ==
  \A r, s \in Routes, g, h \in Gens :
    /\ in.state = "closed" /\ ~in.dirty /\ Quiet /\ ~in.cancelled
    /\ r # s /\ <<r, g>> \in air /\ <<s, h>> \in air
    /\ ~Dropped(r, g) /\ ~Dropped(s, h)
    => in.dup

\* No further route is tried after a paid one whose outcome is unknown, unless
\* all bearers were asked for (T7 before T8).
PaidUnknownIsLast ==
  \A r \in Routes :
    /\ plan[r].paid /\ att[r].status = "unknown"
    /\ in.strategy # "all_bearers"
    => in.round = att[r].round

\* What is reserved, was charged and may have been charged stays within the cap
\* over every attempt of the intent (AuthorizeTransmission, finalizeTx).
CapRespected == in.reserved + in.incurred + in.possible <= Cap

\* Nothing stays reserved when nothing is in flight: every path that ends a
\* transmission, the three of the recovery too, ends its reservation.
ReservationsEnd == Quiet => in.reserved = 0

\* The clock that decides never falls behind the time the process was up by
\* more than one heartbeat, over any number of restarts (Recover).
ClockNotBehind ==
  in.state = "active" /\ up => ElapsedMs + RestartSlack >= uptime

\* A closed intent with nothing in flight never sends again.
NoSendOnceQuiet ==
  [][in.state = "closed" /\ Quiet => Quiet']_vars

\* Every intent with an expiry allowance closes, although an attempt is held, or
\* stuck in 'sending' because its outcome could not be written (T12).
IntentCloses ==
  (in.state = "active" /\ in.expiry > 0) ~> (in.state = "closed")

\* A round whose attempts have all ended is not the last word: the next one
\* starts or the intent closes, with no receipt and no expiry needed (T3 to T11).
RoundEnds ==
  \A k \in Routes :
    (/\ in.state = "active" /\ in.round = k
     /\ \A r \in ActiveRows : att[r].status \in AttemptEnd)
    ~> (in.state = "closed" \/ in.round # k)

\* A proof of arrival is never overlooked: the outcome becomes that, even when it
\* comes after the intent closed, or just before a crash.
ProofCounts == (\E r \in Routes : Completed(r)) ~> (in.outcome = "delivered")

-----------------------------------------------------------------------------
(* What comments of the code say and the code does not do. *)

\* "Looked at: whatever made it dirty is now in this decision" (ApplyIntentChange):
\* DuplicateReported without its exception.
CancelLooksToo ==
  \A r, s \in Routes, g, h \in Gens :
    /\ in.state = "closed" /\ ~in.dirty /\ Quiet
    /\ r # s /\ <<r, g>> \in air /\ <<s, h>> \in air
    /\ ~Dropped(r, g) /\ ~Dropped(s, h)
    => in.dup

\* "superseded when a retry would no longer pass the claim fence"
\* (FinalizeTransmission): no attempt waits for a claim it can never get.
NoStrandedAttempt ==
  \A r \in Routes : att[r].status \in Unclaimed => Live(r)
=============================================================================
