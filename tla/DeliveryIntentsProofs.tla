------------------------ MODULE DeliveryIntentsProofs ------------------------
(***************************************************************************)
(* A delivery intent sends each attempt at most once, keeps its books       *)
(* within the cap, and reports in the end what happened: for any number of  *)
(* routes, any requests, tariffs and allowances, and any number of          *)
(* refusals, retries, lost writes, crashes and restarts.                    *)
(*                                                                         *)
(* The invariant has one part per table: what an attempt's status says of   *)
(* its transmissions (RowsOK), what left and what was heard (AirOK), the    *)
(* order of the rounds (RoundsOK), the books (BooksOK, SumOK), the clock     *)
(* (ClockOK), and what the outcome of a closed intent was made from         *)
(* (OutcomeOK).                                                             *)
(***************************************************************************)
EXTENDS DeliveryIntents, FiniteSetTheorems, WellFoundedInduction, TLAPS

AuthTx(p) == [state |-> "authorized", class |-> "none", reserved |-> p]
HandedTx(p) == [state |-> "handed_off", class |-> "none", reserved |-> p]

\* a generation that certainly sent nothing
Over == {NoTx, DoneTx("not_sent")}

\* The transmission of the last claim, by the attempt's status and where its
\* goroutine is; p is the price of the route.
Fit(st, w, p) ==
  IF st = "sending"
  THEN (IF w = "claimed" THEN {NoTx}
        ELSE IF w = "authorized" THEN {AuthTx(p)}
        ELSE IF w = "calling" THEN {HandedTx(p)}
        ELSE {NoTx, AuthTx(p), HandedTx(p)})
  ELSE IF st = "accepted" THEN {DoneTx("accepted")}
  ELSE IF st = "unknown" THEN {DoneTx("unknown")}
  ELSE Over

\* An attempt a with the transmissions t and its goroutine at w, on a route of
\* price p, in round k, the process up or not (u) after c crashes.  Only the last
\* claim can have sent anything, and only one that certainly did not is followed
\* by another.
RowOK(a, t, w, p, k, u, c) ==
  /\ a.status = "none" => a.gen = 0 /\ a.retries = 0
  /\ a.status # "none" => a.round \in 1..k
  /\ \A g \in Gens : /\ g > a.gen => t[g] = NoTx
                     /\ g < a.gen => t[g] \in Over
                     /\ g = a.gen => t[g] \in Fit(a.status, w, p)
  /\ a.status \in Unclaimed \cup {"sending"} => a.retries < MaxRetries
  /\ a.status \in Unclaimed => a.gen <= MaxClaims + a.retries + c
  /\ a.status = "sending" =>
       /\ a.gen \in Gens /\ a.round = k
       /\ a.gen <= MaxClaims + a.retries + c + 1
       /\ ~u => a.gen <= MaxClaims + a.retries + c
  /\ w # "none" => u /\ a.status = "sending"

RowsOK ==
  /\ crashes <= MaxCrashes
  /\ \A r \in Routes :
       RowOK(att[r], tx[r], worker[r], plan[r].price, in.round, up, crashes)

\* What left may have left by the records, and what was confirmed did leave.
AirOK ==
  /\ \A r \in Routes, g \in Gens : <<r, g>> \in air => MayHaveLeft(r, g)
  /\ \A r \in Routes, g \in Gens : Heard(r, g, "completes") => <<r, g>> \in air

\* In a fallback the attempts follow the order of the plan, one a round, and a
\* paid one with an unknown outcome is the last.
RoundsOK ==
  /\ in.strategy = "ordered_fallback" =>
       \A r \in Routes : att[r].status # "none" /\ att[r].round = in.round =>
         \A q \in Routes : q > r => att[q].status = "none"
  /\ PaidUnknownIsLast

\* Before the submission there is nothing.
FreshOK ==
  in.state = "none" =>
    /\ \A r \in Routes : att[r].status = "none" /\ worker[r] = "none"
    /\ \A r \in Routes, g \in Gens : tx[r][g] = NoTx
    /\ ev = {} /\ air = {} /\ uptime = 0 /\ beat = 0 /\ clock = NoBase
    /\ in.elapsed = 0 /\ in.reserved = 0 /\ in.incurred = 0 /\ in.possible = 0
    /\ ~in.cancelled /\ ~in.t12 /\ ~in.dup

BooksOK == CapRespected

\* what is reserved for route r
Held(r) ==
  IF att[r].status = "sending" /\ Current(r).state \in {"authorized", "handed_off"}
  THEN plan[r].price ELSE 0

\* The intent's reservation is the sum of those of its transmissions: s has the
\* partial sums.
SumOK ==
  \E s \in [0..N -> Int] :
    /\ s[0] = 0 /\ s[N] = in.reserved
    /\ \A n \in Routes : s[n] = s[n - 1] + Held(n)

\* The clock in memory is not behind the stored one, and neither falls behind
\* the time the process was up but for the first period before a base is set.
ClockOK ==
  /\ beat <= RestartSlack
  /\ in.state = "active" =>
       /\ clock # NoBase => clock >= in.elapsed
       /\ uptime <= in.elapsed + beat + RestartSlack
       /\ up /\ clock = NoBase => uptime <= beat
       /\ up /\ clock # NoBase => uptime <= clock + RestartSlack

\* no transmission is reserved or out
AllOver ==
  \A r \in Routes, g \in Gens : tx[r][g].state \notin {"authorized", "handed_off"}

OutcomeOK ==
  /\ in.state = "active" => ~in.cancelled /\ ~in.t12
  /\ in.state = "closed" =>
       /\ in.outcome # "pending"
       /\ in.outcome = "delivered" => \E r \in Routes : Completed(r)
       /\ in.outcome = "cancelled" => in.cancelled
       /\ in.outcome = "expired" => ~in.cancelled /\ ExpiryReached(in.elapsed)
       /\ in.outcome = "failed" => ~in.cancelled /\ ~ExpiryReached(in.elapsed)
       /\ in.t12 => ExpiryReached(in.elapsed)
       /\ ~in.dirty /\ AllOver =>
            /\ in.outcome = ClosedOutcome
            /\ ~in.cancelled /\ PossibleDuplicate => in.dup

IInv ==
  /\ TypeOK /\ RowsOK /\ AirOK /\ RoundsOK /\ FreshOK /\ BooksOK /\ SumOK
  /\ ClockOK /\ OutcomeOK

-----------------------------------------------------------------------------
(* The types. *)

\* The numbers of the constants.
LEMMA Numbers ==
  /\ N \in Nat \ {0} /\ Cap \in Nat /\ MaxRetries \in Nat \ {0} /\ RestartSlack \in Nat \ {0}
  /\ MaxDowntime \in Nat /\ MaxClaims \in Nat /\ MaxCrashes \in Nat /\ MaxGen \in Nat
  /\ Routes \subseteq Nat /\ Gens \subseteq Nat
BY IntentAssumption DEF MaxGen, Routes, Gens

\* The transmissions that are written are transmissions.
LEMMA Transmissions ==
  ASSUME NEW p \in Nat
  PROVE  /\ AuthTx(p) \in Transmission /\ HandedTx(p) \in Transmission /\ NoTx \in Transmission
         /\ \A c \in SendClass : DoneTx(c) \in Transmission
         /\ NoTx.state = "none" /\ NoTx.class = "none" /\ NoTx.reserved = 0
         /\ AuthTx(p).state = "authorized" /\ AuthTx(p).class = "none" /\ AuthTx(p).reserved = p
         /\ HandedTx(p).state = "handed_off" /\ HandedTx(p).class = "none" /\ HandedTx(p).reserved = p
         /\ \A c : DoneTx(c).state = "done" /\ DoneTx(c).class = c /\ DoneTx(c).reserved = 0
BY DEF AuthTx, HandedTx, DoneTx, NoTx, Transmission, SendClass

\* One transmission is written.
LEMMA TxUpdate ==
  ASSUME TypeOK, NEW r \in Routes, NEW g \in Gens, NEW t \in Transmission,
         tx' = [tx EXCEPT ![r][g] = t]
  PROVE  /\ tx' \in [Routes -> [Gens -> Transmission]]
         /\ tx'[r][g] = t
         /\ \A h \in Gens : h # g => tx'[r][h] = tx[r][h]
         /\ \A q \in Routes : q # r => tx'[q] = tx[q]
BY DEF TypeOK

\* One attempt is written.
LEMMA AttUpdate ==
  ASSUME TypeOK, NEW r \in Routes, NEW a \in Attempt, att' = [att EXCEPT ![r] = a]
  PROVE  /\ att' \in [Routes -> Attempt] /\ att'[r] = a
         /\ \A q \in Routes : q # r => att'[q] = att[q]
BY DEF TypeOK

\* An attempt's status is written.
LEMMA StatusUpdate ==
  ASSUME TypeOK, NEW r \in Routes, NEW st \in {"none", "sending"} \cup Unclaimed \cup AttemptEnd,
         SetStatus(r, st)
  PROVE  \E a \in Attempt :
           /\ att' = [att EXCEPT ![r] = a] /\ a.status = st /\ a.round = att[r].round
           /\ a.gen = att[r].gen /\ a.retries = att[r].retries /\ a.stamp = att[r].stamp
<1>1. PICK a : a = [att[r] EXCEPT !.status = st]
  OBVIOUS
<1>2. att[r] \in Attempt /\ r \in DOMAIN att
  BY DEF TypeOK
<1>3. /\ a \in Attempt /\ a.status = st /\ a.round = att[r].round
      /\ a.gen = att[r].gen /\ a.retries = att[r].retries /\ a.stamp = att[r].stamp
  BY <1>1, <1>2 DEF Attempt
<1>4. att' = [att EXCEPT ![r] = a]
  BY <1>1, <1>2 DEF SetStatus
<1> QED BY <1>3, <1>4

\* A worker is moved.
LEMMA WorkerUpdate ==
  ASSUME TypeOK, NEW r \in Routes, NEW pc \in WorkerAt, WorkerTo(r, pc)
  PROVE  /\ worker' \in [Routes -> WorkerAt] /\ worker'[r] = pc
         /\ \A q \in Routes : q # r => worker'[q] = worker[q]
BY DEF TypeOK, WorkerTo

\* The row of the intent keeps its fields but for the books.
SameButBooks(i) ==
  /\ i.state = in.state /\ i.strategy = in.strategy /\ i.outcome = in.outcome
  /\ i.round = in.round /\ i.started = in.started /\ i.expiry = in.expiry
  /\ i.elapsed = in.elapsed /\ i.dup = in.dup /\ i.cancelled = in.cancelled
  /\ i.t12 = in.t12

\* The intent after a finalization.
LEMMA BookedShape ==
  ASSUME TypeOK, NEW p \in Nat, NEW c \in Nat, NEW class
  PROVE  /\ Booked(p, c, class) \in Intent /\ SameButBooks(Booked(p, c, class))
         /\ Booked(p, c, class).dirty
         /\ Booked(p, c, class).reserved = in.reserved - p
         /\ Booked(p, c, class).incurred = in.incurred + c
         /\ Booked(p, c, class).possible =
              IF c = 0 /\ class = "unknown" THEN in.possible + p ELSE in.possible
<1>1. PICK i : i = Booked(p, c, class)
  OBVIOUS
<1>2. in \in Intent
  BY DEF TypeOK
<1>3. PICK x \in Nat : x = IF c = 0 /\ class = "unknown" THEN in.possible + p ELSE in.possible
  BY <1>2 DEF Intent
<1>4. i = [in EXCEPT !.reserved = in.reserved - p, !.incurred = in.incurred + c,
                     !.possible = x, !.dirty = TRUE]
  BY <1>1, <1>3 DEF Booked
<1>5. PICK y \in Int : y = in.reserved - p
  BY <1>2 DEF Intent
<1>6. PICK z \in Nat : z = in.incurred + c
  BY <1>2 DEF Intent
<1>7. i = [in EXCEPT !.reserved = y, !.incurred = z, !.possible = x, !.dirty = TRUE]
  BY <1>4, <1>5, <1>6
<1>8. i \in Intent /\ SameButBooks(i) /\ i.dirty /\ i.reserved = y /\ i.incurred = z /\ i.possible = x
  BY <1>2, <1>7 DEF Intent, SameButBooks
<1> QED BY <1>1, <1>3, <1>5, <1>6, <1>8

-----------------------------------------------------------------------------
(* The steps of one route, field by field. *)

\* Nothing but route r moves, and of the intent nothing but the books.
OnRoute(r) ==
  /\ TypeOK' /\ UNCHANGED <<up, plan, crashes, beat, uptime>> /\ SameButBooks(in')
  /\ \A q \in Routes : q # r => att'[q] = att[q] /\ tx'[q] = tx[q] /\ worker'[q] = worker[q]

\* The attempt is the same but for its status.
SameRow(r) ==
  att'[r].round = att[r].round /\ att'[r].gen = att[r].gen /\ att'[r].retries = att[r].retries

Claims(r) ==
  /\ OnRoute(r) /\ UNCHANGED <<in, tx, ev, air, clock>>
  /\ in.state = "active" /\ att[r].status \in Unclaimed /\ att[r].round = in.round
  /\ att'[r].status = "sending" /\ att'[r].round = att[r].round
  /\ att'[r].gen = att[r].gen + 1 /\ att'[r].retries = att[r].retries
  /\ up /\ worker'[r] = "claimed"

\* held, or free again
Parks(r) ==
  /\ OnRoute(r) /\ UNCHANGED <<in, tx, ev, air, clock, worker>>
  /\ att[r].status \in Unclaimed /\ att'[r].status \in Unclaimed /\ SameRow(r)

\* a claim that ends before anything is authorized
Refuses(r) ==
  /\ OnRoute(r) /\ UNCHANGED <<in, tx, ev, air, clock>>
  /\ att[r].status = "sending" /\ Current(r) = NoTx /\ SameRow(r) /\ worker'[r] = "none"
  /\ \/ att'[r].status \in {"not_sent", "superseded"}
     \/ att'[r].status = "retry" /\ att[r].gen <= MaxClaims + att[r].retries + crashes

Authorizes(r) ==
  /\ OnRoute(r) /\ UNCHANGED <<att, ev, air, clock>>
  /\ worker[r] = "claimed" /\ worker'[r] = "authorized"
  /\ tx'[r][att[r].gen] = AuthTx(plan[r].price)
  /\ \A g \in Gens : g # att[r].gen => tx'[r][g] = tx[r][g]
  /\ in'.reserved = in.reserved + plan[r].price
  /\ in'.incurred = in.incurred /\ in'.possible = in.possible
  /\ plan[r].price = 0 \/ FitsCap(plan[r].price)

HandsOver(r) ==
  /\ OnRoute(r) /\ UNCHANGED <<in, att, ev, air, clock>>
  /\ worker[r] = "authorized" /\ worker'[r] = "calling"
  /\ tx'[r][att[r].gen] = HandedTx(plan[r].price)
  /\ \A g \in Gens : g # att[r].gen => tx'[r][g] = tx[r][g]

Loses(r) ==
  /\ OnRoute(r) /\ UNCHANGED <<in, att, tx, ev, air, clock>>
  /\ worker[r] = "calling" /\ worker'[r] = "none"

\* The attempt after a transmission of this class.
Follows(r, class) ==
  IF class = "not_sent"
  THEN /\ <<r, att[r].gen>> \notin air
       /\ \/ att'[r].status \in {"not_sent", "superseded"}
          \/ /\ att'[r].status = "retry" /\ att'[r].retries < MaxRetries
             /\ att[r].gen <= MaxClaims + att'[r].retries + crashes
  ELSE att'[r].status = class

Books(r, class, c) ==
  /\ OnRoute(r) /\ UNCHANGED air
  /\ att[r].status = "sending" /\ worker'[r] = "none"
  /\ Current(r) \in {AuthTx(plan[r].price), HandedTx(plan[r].price)}
  /\ class # "not_sent" => Current(r) = HandedTx(plan[r].price)
  /\ tx'[r][att[r].gen] = DoneTx(class)
  /\ \A g \in Gens : g # att[r].gen => tx'[r][g] = tx[r][g]
  /\ att'[r].round = att[r].round /\ att'[r].gen = att[r].gen /\ Follows(r, class)
  /\ in'.reserved = in.reserved - plan[r].price /\ in'.incurred = in.incurred + c
  /\ in'.possible = (IF c = 0 /\ class = "unknown" THEN in.possible + plan[r].price ELSE in.possible)
  /\ in'.dirty /\ c \in {0, plan[r].price}
  /\ clock' = clock \/ (in.state = "active" /\ clock' = ElapsedMs)
  /\ \/ ev' = ev
     \/ /\ <<r, att[r].gen>> \in air
        /\ ev' = ev \cup {[route |-> r, gen |-> att[r].gen, says |-> "completes"]}

\* A goroutine that is somewhere has claimed its row, and what it carries fits.
LEMMA WorkerRow ==
  ASSUME TypeOK, RowsOK, NEW r \in Routes
  PROVE  /\ plan[r].price \in Nat /\ att[r] \in Attempt /\ in \in Intent
         /\ worker[r] \in WorkerAt
         /\ worker[r] # "none" => att[r].status = "sending" /\ up
         /\ att[r].status = "sending" =>
              /\ att[r].gen \in Gens /\ att[r].retries < MaxRetries /\ att[r].round = in.round
              /\ Current(r) \in {NoTx, AuthTx(plan[r].price), HandedTx(plan[r].price)}
              /\ att[r].gen <= MaxClaims + att[r].retries + crashes + 1
              /\ ~up => att[r].gen <= MaxClaims + att[r].retries + crashes
         /\ worker[r] = "claimed" => Current(r) = NoTx
         /\ worker[r] = "authorized" => Current(r) = AuthTx(plan[r].price)
         /\ worker[r] = "calling" => Current(r) = HandedTx(plan[r].price)
<1>1. /\ plan[r] \in Entry /\ att[r] \in Attempt /\ in \in Intent /\ worker[r] \in WorkerAt
  BY DEF TypeOK
<1>2. plan[r].price \in Nat
  BY <1>1 DEF Entry
<1>3. RowOK(att[r], tx[r], worker[r], plan[r].price, in.round, up, crashes)
  BY DEF RowsOK
<1>4. worker[r] # "none" => att[r].status = "sending" /\ up
  BY <1>3 DEF RowOK
<1>5. att[r].status = "sending" =>
        /\ att[r].gen \in Gens /\ att[r].retries < MaxRetries /\ att[r].round = in.round
        /\ att[r].gen <= MaxClaims + att[r].retries + crashes + 1
        /\ ~up => att[r].gen <= MaxClaims + att[r].retries + crashes
        /\ Current(r) \in Fit("sending", worker[r], plan[r].price)
  BY <1>3 DEF RowOK, Current
<1> QED BY <1>1, <1>2, <1>4, <1>5 DEF Fit, WorkerAt

\* A step that moves one attempt and its goroutine, and nothing else.
LEMMA RowStep ==
  ASSUME TypeOK, NEW r \in Routes, NEW st \in {"none", "sending"} \cup Unclaimed \cup AttemptEnd,
         SetStatus(r, st), worker' = worker \/ WorkerTo(r, "none"),
         UNCHANGED <<up, ready, clock, beat, in, plan, tx, ev, crashes, lost, air, uptime>>
  PROVE  OnRoute(r) /\ SameRow(r) /\ att'[r].status = st /\ (WorkerTo(r, "none") => worker'[r] = "none")
<1>1. PICK a \in Attempt :
        /\ att' = [att EXCEPT ![r] = a] /\ a.status = st /\ a.round = att[r].round
        /\ a.gen = att[r].gen /\ a.retries = att[r].retries
  BY StatusUpdate
<1>2. /\ att' \in [Routes -> Attempt] /\ att'[r] = a
      /\ \A q \in Routes : q # r => att'[q] = att[q]
  BY <1>1, AttUpdate
<1>3. /\ worker' \in [Routes -> WorkerAt] /\ \A q \in Routes : q # r => worker'[q] = worker[q]
      /\ WorkerTo(r, "none") => worker'[r] = "none"
  BY WorkerUpdate DEF TypeOK, WorkerAt
<1>4. TypeOK'
  BY <1>2, <1>3 DEF TypeOK
<1> QED BY <1>1, <1>2, <1>3, <1>4 DEF OnRoute, SameRow, SameButBooks

\* HoldDelivery and UnholdDelivery.
LEMMA ParkShape ==
  ASSUME TypeOK, NEW r \in Routes, HoldDelivery(r) \/ UnholdDelivery(r)
  PROVE  Parks(r)
<1>1. CASE HoldDelivery(r)
  <2>1. OnRoute(r) /\ SameRow(r) /\ att'[r].status = "held"
    BY <1>1, RowStep DEF HoldDelivery, Unclaimed
  <2> QED BY <1>1, <2>1 DEF Parks, HoldDelivery, Unclaimed
<1>2. CASE UnholdDelivery(r)
  <2>1. OnRoute(r) /\ SameRow(r) /\ att'[r].status = "queued"
    BY <1>2, RowStep DEF UnholdDelivery, Unclaimed
  <2> QED BY <1>2, <2>1 DEF Parks, UnholdDelivery, Unclaimed
<1> QED BY <1>1, <1>2

\* ClaimDeliveryForSending.
LEMMA ClaimShape ==
  ASSUME TypeOK, NEW r \in Routes, ClaimDeliveryForSending(r)
  PROVE  Claims(r)
<1>1. att[r] \in Attempt
  BY DEF TypeOK
<1>2. PICK g \in Nat : g = att[r].gen + 1
  BY <1>1 DEF Attempt
<1>10. PICK a : a = [att[r] EXCEPT !.status = "sending", !.gen = g]
  OBVIOUS
<1>3. /\ a \in Attempt /\ a.status = "sending" /\ a.gen = att[r].gen + 1
      /\ a.round = att[r].round /\ a.retries = att[r].retries
  BY <1>1, <1>2, <1>10 DEF Attempt
<1>4. att' = [att EXCEPT ![r] = a]
  BY <1>2, <1>10 DEF ClaimDeliveryForSending, SetRow
<1>5. /\ att' \in [Routes -> Attempt] /\ att'[r] = a
      /\ \A q \in Routes : q # r => att'[q] = att[q]
  BY <1>3, <1>4, AttUpdate
<1>6. /\ worker' \in [Routes -> WorkerAt] /\ worker'[r] = "claimed"
      /\ \A q \in Routes : q # r => worker'[q] = worker[q]
  BY WorkerUpdate DEF ClaimDeliveryForSending, WorkerAt
<1>7. UNCHANGED <<up, ready, clock, beat, in, plan, tx, ev, crashes, lost, air, uptime>>
  BY DEF ClaimDeliveryForSending
<1>8. TypeOK'
  BY <1>5, <1>6, <1>7 DEF TypeOK
<1>9. /\ up /\ in.state = "active" /\ att[r].status \in Unclaimed /\ att[r].round = in.round
  BY DEF ClaimDeliveryForSending, Claimable, Live, Unclaimed
<1> QED BY <1>3, <1>5, <1>6, <1>7, <1>8, <1>9 DEF Claims, OnRoute, SameButBooks

\* EndAttemptNotSent, AuthorizeTransmission over the cap, and a restart that
\* finds a row claimed and no more.
LEMMA RefuseShape ==
  ASSUME TypeOK, RowsOK, NEW r \in Routes,
         \/ \E b \in BOOLEAN : EndAttemptNotSent(r, b)
         \/ AuthorizeTransmission(r) /\ worker'[r] # "authorized"
         \/ RecoverClaimed(r)
  PROVE  Refuses(r)
<1>0. MaxClaims \in Nat
  BY Numbers
<1>1. CASE \E b \in BOOLEAN : EndAttemptNotSent(r, b)
  <2>1. PICK b \in BOOLEAN : EndAttemptNotSent(r, b)
    BY <1>1
  <2>2. PICK st \in {"retry", "superseded", "not_sent"} :
           SetStatus(r, st) /\ (st = "retry" => att[r].gen < MaxClaims)
    BY <2>1 DEF EndAttemptNotSent, PutBack
  <2>3. worker[r] = "claimed" /\ WorkerTo(r, "none")
        /\ UNCHANGED <<up, ready, clock, beat, in, plan, tx, ev, crashes, lost, air, uptime>>
    BY <2>1 DEF EndAttemptNotSent
  <2>4. st \in {"none", "sending"} \cup Unclaimed \cup AttemptEnd
    BY DEF Unclaimed, AttemptEnd
  <2>5. OnRoute(r) /\ SameRow(r) /\ att'[r].status = st /\ worker'[r] = "none"
    BY <2>2, <2>3, <2>4, RowStep
  <2>6. att[r].status = "sending" /\ Current(r) = NoTx /\ att[r] \in Attempt
    BY <2>3, WorkerRow
  <2>7. st = "retry" => att[r].gen <= MaxClaims + att[r].retries + crashes
    BY <1>0, <2>2, <2>6, IntentAssumption DEF Attempt, TypeOK
  <2> QED BY <2>2, <2>3, <2>5, <2>6, <2>7 DEF Refuses
<1>2. CASE AuthorizeTransmission(r) /\ worker'[r] # "authorized"
  <2>1. ~WorkerTo(r, "authorized")
    BY <1>2, WorkerUpdate DEF WorkerAt
  <2>2. /\ SetStatus(r, "not_sent") /\ worker[r] = "claimed" /\ WorkerTo(r, "none")
        /\ UNCHANGED <<up, ready, clock, beat, in, plan, tx, ev, crashes, lost, air, uptime>>
    BY <1>2, <2>1 DEF AuthorizeTransmission
  <2>3. OnRoute(r) /\ SameRow(r) /\ att'[r].status = "not_sent" /\ worker'[r] = "none"
    BY <2>2, RowStep DEF AttemptEnd
  <2>4. att[r].status = "sending" /\ Current(r) = NoTx
    BY <2>2, WorkerRow
  <2> QED BY <2>2, <2>3, <2>4 DEF Refuses
<1>3. CASE RecoverClaimed(r)
  <2>1. /\ SetStatus(r, "retry") /\ worker' = worker /\ ~up /\ att[r].status = "sending"
        /\ UNCHANGED <<up, ready, clock, beat, in, plan, tx, ev, crashes, lost, air, uptime>>
        /\ Current(r).state = "none"
    BY <1>3 DEF RecoverClaimed
  <2>2. OnRoute(r) /\ SameRow(r) /\ att'[r].status = "retry"
    BY <2>1, RowStep DEF Unclaimed
  <2>3. /\ att[r].gen <= MaxClaims + att[r].retries + crashes /\ worker[r] = "none"
        /\ Current(r) \in {NoTx, AuthTx(plan[r].price), HandedTx(plan[r].price)}
    BY <2>1, WorkerRow
  <2>4. Current(r) = NoTx
    BY <2>1, <2>3 DEF AuthTx, HandedTx
  <2> QED BY <2>1, <2>2, <2>3, <2>4 DEF Refuses
<1> QED BY <1>1, <1>2, <1>3

\* AuthorizeTransmission within the cap.
LEMMA AuthorizeShape ==
  ASSUME TypeOK, RowsOK, NEW r \in Routes, AuthorizeTransmission(r), worker'[r] = "authorized"
  PROVE  Authorizes(r)
<1>1. ~WorkerTo(r, "none")
  BY WorkerUpdate DEF WorkerAt
<1>2. PICK p \in Nat : p = plan[r].price
  BY WorkerRow
<1>3. /\ p = 0 \/ FitsCap(p)
      /\ SetCurrent(r, AuthTx(p)) /\ in' = [in EXCEPT !.reserved = @ + p]
      /\ WorkerTo(r, "authorized") /\ UNCHANGED att
      /\ UNCHANGED <<up, ready, clock, beat, plan, ev, crashes, lost, air, uptime>>
  BY <1>1, <1>2 DEF AuthorizeTransmission, AuthTx
<1>4. worker[r] = "claimed"
  BY DEF AuthorizeTransmission
<1>5. PICK g \in Gens : g = att[r].gen
  BY <1>4, WorkerRow
<1>6. tx' = [tx EXCEPT ![r][g] = AuthTx(p)] /\ AuthTx(p) \in Transmission
  BY <1>3, <1>5, Transmissions DEF SetCurrent
<1>7. /\ tx' \in [Routes -> [Gens -> Transmission]] /\ tx'[r][g] = AuthTx(p)
      /\ \A h \in Gens : h # g => tx'[r][h] = tx[r][h]
      /\ \A q \in Routes : q # r => tx'[q] = tx[q]
  BY <1>6, TxUpdate, ZenonT(60)
<1>8. /\ worker' \in [Routes -> WorkerAt] /\ \A q \in Routes : q # r => worker'[q] = worker[q]
  BY <1>3, WorkerUpdate DEF WorkerAt
<1>9. in \in Intent
  BY DEF TypeOK
<1>10. PICK y \in Int : y = in.reserved + p
  BY <1>9 DEF Intent
<1>11. in' = [in EXCEPT !.reserved = y]
  BY <1>3, <1>10
<1>12. /\ in' \in Intent /\ SameButBooks(in') /\ in'.reserved = y
       /\ in'.incurred = in.incurred /\ in'.possible = in.possible
  BY <1>9, <1>11 DEF Intent, SameButBooks
<1>13. TypeOK'
  BY <1>3, <1>7, <1>8, <1>12 DEF TypeOK
<1> QED BY <1>2, <1>3, <1>4, <1>5, <1>7, <1>8, <1>10, <1>12, <1>13 DEF Authorizes, OnRoute

\* HandOff.
LEMMA HandOffShape ==
  ASSUME TypeOK, RowsOK, NEW r \in Routes, HandOff(r)
  PROVE  HandsOver(r)
<1>1. worker[r] = "authorized"
  BY DEF HandOff
<1>2. PICK p \in Nat : p = plan[r].price
  BY WorkerRow
<1>3. PICK g \in Gens : g = att[r].gen
  BY <1>1, WorkerRow
<1>4. Current(r) = AuthTx(p)
  BY <1>1, <1>2, WorkerRow
<1>5. [Current(r) EXCEPT !.state = "handed_off"] = HandedTx(p)
  BY <1>4 DEF AuthTx, HandedTx
<1>6. tx' = [tx EXCEPT ![r][g] = HandedTx(p)] /\ HandedTx(p) \in Transmission
  BY <1>3, <1>5, Transmissions DEF HandOff, SetCurrent
<1>7. /\ tx' \in [Routes -> [Gens -> Transmission]] /\ tx'[r][g] = HandedTx(p)
      /\ \A h \in Gens : h # g => tx'[r][h] = tx[r][h]
      /\ \A q \in Routes : q # r => tx'[q] = tx[q]
  BY <1>6, TxUpdate
<1>8. /\ worker' \in [Routes -> WorkerAt] /\ worker'[r] = "calling"
      /\ \A q \in Routes : q # r => worker'[q] = worker[q]
  BY WorkerUpdate DEF HandOff, WorkerAt
<1>9. UNCHANGED <<up, ready, clock, beat, in, plan, att, ev, crashes, lost, air, uptime>>
  BY DEF HandOff
<1>10. TypeOK'
  BY <1>7, <1>8, <1>9 DEF TypeOK
<1> QED BY <1>1, <1>2, <1>3, <1>7, <1>8, <1>9, <1>10 DEF HandsOver, OnRoute, SameButBooks

\* LoseFinalization.
LEMMA LoseShape ==
  ASSUME TypeOK, RowsOK, NEW r \in Routes, LoseFinalization(r)
  PROVE  Loses(r)
<1>1. /\ worker' \in [Routes -> WorkerAt] /\ worker'[r] = "none" /\ worker[r] = "calling"
      /\ \A q \in Routes : q # r => worker'[q] = worker[q]
  BY WorkerUpdate DEF LoseFinalization, WorkerAt
<1>2. /\ UNCHANGED <<up, ready, clock, beat, in, plan, att, tx, ev, crashes, air, uptime>>
      /\ lost' = lost + 1
  BY DEF LoseFinalization, durable
<1>3. TypeOK'
  BY <1>1, <1>2 DEF TypeOK
<1> QED BY <1>1, <1>2, <1>3 DEF Loses, OnRoute, SameButBooks

\* What a finalization writes, whoever writes it.
LEMMA BooksShape ==
  ASSUME TypeOK, RowsOK, NEW r \in Routes, NEW class \in SendClass,
         NEW c \in {0, plan[r].price}, NEW a \in Attempt, SetRow(r, a),
         SetCurrent(r, DoneTx(class)), in' = Booked(Current(r).reserved, c, class),
         att[r].status = "sending",
         Current(r) \in {AuthTx(plan[r].price), HandedTx(plan[r].price)},
         class # "not_sent" => Current(r) = HandedTx(plan[r].price),
         WorkerTo(r, "none") \/ (worker' = worker /\ ~up),
         UNCHANGED <<up, ready, beat, plan, crashes, lost, air, uptime>>,
         a.round = att[r].round, a.gen = att[r].gen, att'[r] = a => Follows(r, class),
         clock' = clock \/ (in.state = "active" /\ clock' = ElapsedMs),
         \/ ev' = ev
         \/ /\ <<r, att[r].gen>> \in air
            /\ ev' = ev \cup {[route |-> r, gen |-> att[r].gen, says |-> "completes"]}
  PROVE  Books(r, class, c)
<1>1. PICK p \in Nat : p = plan[r].price
  BY WorkerRow
<1>2. PICK g \in Gens : g = att[r].gen
  BY WorkerRow
<1>3. Current(r).reserved = p /\ DoneTx(class) \in Transmission
  BY <1>1, Transmissions
<1>4. /\ att' \in [Routes -> Attempt] /\ att'[r] = a
      /\ \A q \in Routes : q # r => att'[q] = att[q]
  BY AttUpdate DEF SetRow
<1>5. /\ tx' \in [Routes -> [Gens -> Transmission]] /\ tx'[r][g] = DoneTx(class)
      /\ \A h \in Gens : h # g => tx'[r][h] = tx[r][h]
      /\ \A q \in Routes : q # r => tx'[q] = tx[q]
  BY <1>2, <1>3, TxUpdate, ZenonT(60) DEF SetCurrent
<1>6. /\ worker' \in [Routes -> WorkerAt] /\ worker'[r] = "none"
      /\ \A q \in Routes : q # r => worker'[q] = worker[q]
  <2>1. CASE WorkerTo(r, "none")
    BY <2>1, WorkerUpdate DEF WorkerAt
  <2>2. CASE worker' = worker /\ ~up
    BY <2>2, WorkerRow DEF TypeOK
  <2> QED BY <2>1, <2>2
<1>7. c \in Nat /\ in' = Booked(p, c, class)
  BY <1>1, <1>3
<1>8. /\ in' \in Intent /\ SameButBooks(in') /\ in'.dirty
      /\ in'.reserved = in.reserved - p /\ in'.incurred = in.incurred + c
      /\ in'.possible = IF c = 0 /\ class = "unknown" THEN in.possible + p ELSE in.possible
  BY <1>7, BookedShape
<1>9. clock' \in Nat \cup {NoBase}
  BY DEF TypeOK, ElapsedMs, Intent
<1>10. ev' \subseteq Evidence
  BY <1>2 DEF TypeOK, Evidence, Says
<1>11. TypeOK'
  BY <1>4, <1>5, <1>6, <1>8, <1>9, <1>10 DEF TypeOK
<1>12. OnRoute(r)
  BY <1>4, <1>5, <1>6, <1>8, <1>11 DEF OnRoute
<1> QED BY <1>1, <1>2, <1>4, <1>5, <1>6, <1>8, <1>12 DEF Books

\* The attempt after a transmission that sent nothing.
LEMMA NotSentShape ==
  ASSUME TypeOK, RowsOK, NEW r \in Routes, att[r].status = "sending",
         NEW retryable \in BOOLEAN, NEW consume \in BOOLEAN,
         retryable /\ ~consume => att[r].gen <= MaxClaims + att[r].retries + crashes
  PROVE  LET a == NotSentRow(r, retryable, consume)
         IN /\ a \in Attempt /\ a.round = att[r].round /\ a.gen = att[r].gen
            /\ \/ a.status \in {"not_sent", "superseded"}
               \/ /\ a.status = "retry" /\ a.retries < MaxRetries
                  /\ att[r].gen <= MaxClaims + a.retries + crashes
<1>1. att[r] \in Attempt /\ att[r].retries < MaxRetries /\ crashes \in Nat
      /\ att[r].gen <= MaxClaims + att[r].retries + crashes + 1
  BY WorkerRow DEF TypeOK
<1>2. PICK n \in Nat : n = IF consume THEN att[r].retries + 1 ELSE att[r].retries
  BY <1>1 DEF Attempt
<1>3. PICK st \in {"retry", "superseded", "not_sent"} :
        /\ st = IF retryable /\ (consume => n < MaxRetries) THEN PutBack(r) ELSE "not_sent"
        /\ st = "retry" => retryable /\ (consume => n < MaxRetries)
  BY DEF PutBack
<1>4. NotSentRow(r, retryable, consume) = [att[r] EXCEPT !.status = st, !.retries = n]
  BY <1>2, <1>3 DEF NotSentRow
<1>5. PICK a : a = NotSentRow(r, retryable, consume)
  OBVIOUS
<1>6. /\ a \in Attempt /\ a.round = att[r].round /\ a.gen = att[r].gen /\ a.status = st
      /\ a.retries = n
  BY <1>1, <1>4, <1>5 DEF Attempt, Unclaimed, AttemptEnd
<1>7. st = "retry" => n < MaxRetries /\ att[r].gen <= MaxClaims + n + crashes
  BY <1>1, <1>2, <1>3, Numbers DEF Attempt
<1> QED BY <1>3, <1>5, <1>6, <1>7

\* NoCorrelation, FinalizeNotSent and a restart that finds a row authorized and
\* not handed over.
LEMMA NotSentBooks ==
  ASSUME TypeOK, RowsOK, AirOK, NEW r \in Routes,
         \/ NoCorrelation(r)
         \/ \E retryable, consume \in BOOLEAN, c \in Charges(r) :
              FinalizeNotSent(r, retryable, consume, c)
         \/ RecoverAuthorized(r)
  PROVE  \E c \in {0, plan[r].price} : Books(r, "not_sent", c)
<1>1. PICK retryable \in BOOLEAN, consume \in BOOLEAN, c \in {0, plan[r].price} :
        /\ SetCurrent(r, DoneTx("not_sent")) /\ in' = Booked(Current(r).reserved, c, "not_sent")
        /\ SetRow(r, NotSentRow(r, retryable, consume))
        /\ WorkerTo(r, "none") \/ (worker' = worker /\ ~up)
        /\ UNCHANGED <<up, ready, beat, plan, crashes, lost, air, uptime>>
        /\ clock' = clock /\ ev' = ev
        /\ \/ worker[r] = "authorized" /\ consume
           \/ /\ worker[r] = "calling" /\ <<r, att[r].gen>> \notin air
              /\ retryable /\ ~consume => att[r].gen < MaxClaims
           \/ ~up /\ att[r].status = "sending" /\ Current(r).state = "authorized"
  <2>1. CASE NoCorrelation(r)
    BY <2>1 DEF NoCorrelation
  <2>2. CASE \E retryable, consume \in BOOLEAN, c \in Charges(r) :
               FinalizeNotSent(r, retryable, consume, c)
    BY <2>2 DEF FinalizeNotSent, Charges
  <2>3. CASE RecoverAuthorized(r)
    BY <2>3 DEF RecoverAuthorized
  <2> QED BY <2>1, <2>2, <2>3
<1>2. att[r].status = "sending" /\ att[r] \in Attempt /\ plan[r].price \in Nat
  BY <1>1, WorkerRow
<1>3. Current(r) \in {AuthTx(plan[r].price), HandedTx(plan[r].price)}
  BY <1>1, <1>2, WorkerRow DEF NoTx
<1>4. retryable /\ ~consume => att[r].gen <= MaxClaims + att[r].retries + crashes
  BY <1>1, <1>2, WorkerRow, Numbers DEF Attempt, TypeOK
<1>5. PICK a : a = NotSentRow(r, retryable, consume)
  OBVIOUS
<1>6. /\ a \in Attempt /\ a.round = att[r].round /\ a.gen = att[r].gen
      /\ \/ a.status \in {"not_sent", "superseded"}
         \/ /\ a.status = "retry" /\ a.retries < MaxRetries
            /\ att[r].gen <= MaxClaims + a.retries + crashes
  BY <1>2, <1>4, <1>5, NotSentShape
<1>7. <<r, att[r].gen>> \notin air
  <2>1. PICK g \in Gens : g = att[r].gen
    BY <1>2, WorkerRow
  <2>2. CASE worker[r] = "calling" /\ <<r, att[r].gen>> \notin air
    BY <2>2
  <2>3. CASE Current(r).state = "authorized"
    BY <2>1, <2>3 DEF AirOK, MayHaveLeft, Current
  <2> QED BY <1>1, <1>2, <2>2, <2>3, WorkerRow DEF AuthTx
<1>8. att'[r] = a => Follows(r, "not_sent")
  BY <1>6, <1>7 DEF Follows
<1>9. SetRow(r, a) /\ "not_sent" \in SendClass
  BY <1>1, <1>5 DEF SendClass
<1> QED BY <1>1, <1>2, <1>3, <1>6, <1>8, <1>9, BooksShape

\* FinalizeUnknown and a restart that finds a row handed over.
LEMMA UnknownBooks ==
  ASSUME TypeOK, RowsOK, NEW r \in Routes,
         (\E c \in Charges(r) : FinalizeUnknown(r, c)) \/ RecoverHandedOff(r)
  PROVE  \E c \in {0, plan[r].price} : Books(r, "unknown", c)
<1>1. PICK c \in {0, plan[r].price} :
        /\ SetCurrent(r, DoneTx("unknown")) /\ in' = Booked(Current(r).reserved, c, "unknown")
        /\ SetStatus(r, "unknown")
        /\ WorkerTo(r, "none") \/ (worker' = worker /\ ~up)
        /\ UNCHANGED <<up, ready, beat, plan, crashes, lost, air, uptime>>
        /\ clock' = clock /\ ev' = ev
        /\ \/ worker[r] = "calling"
           \/ ~up /\ att[r].status = "sending" /\ Current(r).state = "handed_off"
  BY DEF FinalizeUnknown, RecoverHandedOff, Charges
<1>2. att[r].status = "sending" /\ att[r] \in Attempt /\ plan[r].price \in Nat
  BY <1>1, WorkerRow
<1>3. Current(r) = HandedTx(plan[r].price)
  BY <1>1, <1>2, WorkerRow DEF NoTx, AuthTx
<1>4. PICK a \in Attempt :
        /\ att' = [att EXCEPT ![r] = a] /\ a.status = "unknown" /\ a.round = att[r].round
        /\ a.gen = att[r].gen
  BY <1>1, StatusUpdate DEF AttemptEnd
<1>5. SetRow(r, a) /\ "unknown" \in SendClass /\ (att'[r] = a => Follows(r, "unknown"))
  BY <1>4 DEF SendClass, SetRow, Follows
<1> QED BY <1>1, <1>2, <1>3, <1>4, <1>5, BooksShape

\* FinalizeAccepted.
LEMMA AcceptedBooks ==
  ASSUME TypeOK, RowsOK, NEW r \in Routes,
         \E c \in Charges(r), proof, stamped \in BOOLEAN : FinalizeAccepted(r, c, proof, stamped)
  PROVE  \E c \in {0, plan[r].price} : Books(r, "accepted", c)
<1>1. PICK c \in {0, plan[r].price}, proof \in BOOLEAN, stamped \in BOOLEAN :
        FinalizeAccepted(r, c, proof, stamped)
  BY DEF Charges
<1>2. att[r].status = "sending" /\ att[r] \in Attempt /\ Current(r) = HandedTx(plan[r].price)
  BY <1>1, WorkerRow DEF FinalizeAccepted
<1>3. PICK s \in Nat \cup {NoStamp} :
        s = IF stamped /\ in.state = "active" THEN ElapsedMs ELSE NoStamp
  BY DEF ElapsedMs, TypeOK, Intent, NoStamp, NoBase
<1>4. PICK a : a = [att[r] EXCEPT !.status = "accepted", !.stamp = s]
  OBVIOUS
<1>5. a \in Attempt /\ a.status = "accepted" /\ a.round = att[r].round /\ a.gen = att[r].gen
  BY <1>2, <1>4 DEF Attempt, AttemptEnd
<1>6. SetRow(r, a)
  BY <1>1, <1>3, <1>4 DEF FinalizeAccepted
<1>7. "accepted" \in SendClass /\ (att'[r] = a => Follows(r, "accepted"))
  BY <1>5 DEF SendClass, Follows
<1>8. /\ SetCurrent(r, DoneTx("accepted")) /\ in' = Booked(Current(r).reserved, c, "accepted")
      /\ WorkerTo(r, "none") /\ UNCHANGED <<up, ready, beat, plan, crashes, lost, air, uptime>>
      /\ clock' = clock \/ (in.state = "active" /\ clock' = ElapsedMs)
  BY <1>1 DEF FinalizeAccepted
<1>9. \/ ev' = ev
      \/ /\ <<r, att[r].gen>> \in air
         /\ ev' = ev \cup {[route |-> r, gen |-> att[r].gen, says |-> "completes"]}
  BY <1>1 DEF FinalizeAccepted
<1> QED BY <1>2, <1>5, <1>6, <1>7, <1>8, <1>9, BooksShape

-----------------------------------------------------------------------------
(* The attempts and their transmissions. *)

\* The other routes keep what they have.
LEMMA OneRow ==
  ASSUME RowsOK, NEW r \in Routes, OnRoute(r),
         RowOK(att'[r], tx'[r], worker'[r], plan[r].price, in.round, up, crashes)
  PROVE  RowsOK'
<1>1. UNCHANGED <<up, plan, crashes>> /\ in'.round = in.round
  BY DEF OnRoute, SameButBooks
<1>2. crashes' <= MaxCrashes
  BY <1>1 DEF RowsOK
<1>3. ASSUME NEW q \in Routes
      PROVE  RowOK(att'[q], tx'[q], worker'[q], plan'[q].price, in'.round, up', crashes')
  <2>1. CASE q = r
    BY <1>1, <2>1
  <2>2. CASE q # r
    <3>1. RowOK(att[q], tx[q], worker[q], plan[q].price, in.round, up, crashes)
      BY DEF RowsOK
    <3>2. att'[q] = att[q] /\ tx'[q] = tx[q] /\ worker'[q] = worker[q]
      BY <2>2 DEF OnRoute
    <3> QED BY <1>1, <3>1, <3>2
  <2> QED BY <2>1, <2>2
<1> QED BY <1>2, <1>3 DEF RowsOK

\* The steps that leave the transmissions alone.
LEMMA RowsClaims ==
  ASSUME TypeOK, RowsOK, NEW r \in Routes, Claims(r)
  PROVE  RowsOK'
<1>1. PICK a \in Attempt, b \in Attempt : a = att[r] /\ b = att'[r]
  BY DEF Claims, OnRoute, TypeOK
<1>2. RowOK(a, tx[r], worker[r], plan[r].price, in.round, up, crashes) /\ crashes <= MaxCrashes
  BY <1>1 DEF RowsOK
<1>3. /\ a.status \in Unclaimed /\ a.round = in.round /\ tx' = tx /\ up
      /\ b.status = "sending" /\ b.gen = a.gen + 1 /\ b.round = a.round /\ b.retries = a.retries
      /\ worker'[r] = "claimed"
  BY <1>1 DEF Claims
<1>4. a.gen \in Nat /\ a.retries \in Nat /\ crashes \in Nat
  BY DEF Attempt, TypeOK
<1>5. a.retries < MaxRetries /\ a.gen <= MaxClaims + a.retries + crashes /\ a.round \in 1..in.round
  BY <1>2, <1>3 DEF RowOK, Unclaimed
<1>6. b.gen \in Gens
  BY <1>2, <1>3, <1>4, <1>5, Numbers DEF Gens, MaxGen
<1>7. \A g \in Gens : /\ g > b.gen => tx[r][g] = NoTx
                      /\ g < b.gen => tx[r][g] \in Over
                      /\ g = b.gen => tx[r][g] = NoTx
  <2>1. Gens \subseteq Nat
    BY Numbers
  <2>2. \A g \in Gens : /\ g > a.gen => tx[r][g] = NoTx
                        /\ g < a.gen => tx[r][g] \in Over
                        /\ g = a.gen => tx[r][g] \in Over
    BY <1>2, <1>3 DEF RowOK, Fit, Unclaimed
  <2> TAKE g \in Gens
  <2>3. PICK m \in Nat : m = a.gen /\ b.gen = m + 1
    BY <1>3, <1>4
  <2>4. g \in Nat
    BY <2>1
  <2>5. CASE g > m
    <3>1. tx[r][g] = NoTx /\ ~(g < m + 1)
      BY <2>2, <2>3, <2>4, <2>5
    <3> QED BY <2>3, <3>1
  <2>6. CASE ~(g > m)
    <3>1. (g < m \/ g = m) /\ ~(g > m + 1) /\ g # m + 1
      BY <2>4, <2>6
    <3>2. tx[r][g] \in Over
      BY <2>2, <2>3, <3>1
    <3> QED BY <2>3, <3>1, <3>2
  <2> QED BY <2>5, <2>6
<1>8. b.gen <= MaxClaims + b.retries + crashes + 1
  BY <1>3, <1>4, <1>5, Numbers
<1>9. RowOK(b, tx'[r], worker'[r], plan[r].price, in.round, up, crashes)
  BY <1>3, <1>5, <1>6, <1>7, <1>8 DEF RowOK, Fit, Unclaimed
<1> QED BY <1>1, <1>9, OneRow DEF Claims

\* Held, free again, refused before it was authorized, or its end not recorded.
LEMMA RowsEnds ==
  ASSUME TypeOK, RowsOK, NEW r \in Routes, Parks(r) \/ Refuses(r) \/ Loses(r)
  PROVE  RowsOK'
<1>0. OnRoute(r) /\ tx' = tx
  BY DEF Parks, Refuses, Loses
<1>1. PICK a \in Attempt, b \in Attempt : a = att[r] /\ b = att'[r]
  BY <1>0 DEF OnRoute, TypeOK
<1>2. RowOK(a, tx[r], worker[r], plan[r].price, in.round, up, crashes)
  BY <1>1 DEF RowsOK
<1>3. b.gen = a.gen /\ b.round = a.round /\ b.retries = a.retries
  BY <1>1 DEF Parks, Refuses, Loses, SameRow
<1>4. CASE Parks(r)
  <2>1. a.status \in Unclaimed /\ b.status \in Unclaimed /\ worker' = worker
    BY <1>1, <1>4 DEF Parks
  <2>2. RowOK(b, tx'[r], worker'[r], plan[r].price, in.round, up, crashes)
    BY <1>0, <1>2, <1>3, <2>1 DEF RowOK, Fit, Unclaimed
  <2> QED BY <1>0, <1>1, <2>2, OneRow
<1>5. CASE Refuses(r)
  <2>1. a.status = "sending" /\ worker'[r] = "none" /\ tx[r][a.gen] = NoTx
        /\ \/ b.status \in {"not_sent", "superseded"}
           \/ b.status = "retry" /\ a.gen <= MaxClaims + a.retries + crashes
    BY <1>1, <1>5 DEF Refuses, Current
  <2>2. RowOK(b, tx'[r], worker'[r], plan[r].price, in.round, up, crashes)
    BY <1>0, <1>2, <1>3, <2>1 DEF RowOK, Fit, Unclaimed, Over
  <2> QED BY <1>0, <1>1, <2>2, OneRow
<1>6. CASE Loses(r)
  <2>1. worker[r] = "calling" /\ worker'[r] = "none" /\ att' = att
    BY <1>6 DEF Loses
  <2>2. RowOK(b, tx'[r], worker'[r], plan[r].price, in.round, up, crashes)
    BY <1>0, <1>1, <1>2, <2>1 DEF RowOK, Fit, Unclaimed
  <2> QED BY <1>0, <1>1, <2>2, OneRow
<1> QED BY <1>4, <1>5, <1>6

\* A transmission is authorized, handed over or ended.
LEMMA RowsWrites ==
  ASSUME TypeOK, RowsOK, NEW r \in Routes,
         \/ Authorizes(r) \/ HandsOver(r)
         \/ \E class \in SendClass \ {"none"}, c \in {0, plan[r].price} : Books(r, class, c)
  PROVE  RowsOK'
<1>0. OnRoute(r) /\ plan[r].price \in Nat
  BY WorkerRow DEF Authorizes, HandsOver, Books
<1>1. PICK a \in Attempt, b \in Attempt : a = att[r] /\ b = att'[r]
  BY <1>0 DEF OnRoute, TypeOK
<1>2. RowOK(a, tx[r], worker[r], plan[r].price, in.round, up, crashes)
  BY <1>1 DEF RowsOK
<1>3. Gens \subseteq Nat /\ a.gen \in Nat
  BY Numbers DEF Attempt
<1>4. CASE Authorizes(r) \/ HandsOver(r)
  <2>1. /\ b = a /\ worker[r] # "none"
        /\ \A g \in Gens : g # a.gen => tx'[r][g] = tx[r][g]
        /\ \/ worker'[r] = "authorized" /\ tx'[r][a.gen] = AuthTx(plan[r].price)
           \/ worker'[r] = "calling" /\ tx'[r][a.gen] = HandedTx(plan[r].price)
    BY <1>1, <1>4 DEF Authorizes, HandsOver
  <2>2. a.status = "sending" /\ up
    BY <1>2, <2>1 DEF RowOK
  <2>3. \A g \in Gens : /\ g > a.gen => tx'[r][g] = NoTx
                        /\ g < a.gen => tx'[r][g] \in Over
                        /\ g = a.gen => tx'[r][g] \in Fit("sending", worker'[r], plan[r].price)
    BY <1>2, <1>3, <2>1 DEF RowOK, Fit
  <2>4. RowOK(b, tx'[r], worker'[r], plan[r].price, in.round, up, crashes)
    BY <1>2, <2>1, <2>2, <2>3 DEF RowOK, Unclaimed
  <2> QED BY <1>0, <1>1, <2>4, OneRow
<1>5. ASSUME NEW class \in SendClass \ {"none"}, NEW c \in {0, plan[r].price}, Books(r, class, c)
      PROVE  RowsOK'
  <2>1. /\ a.status = "sending" /\ worker'[r] = "none" /\ tx'[r][a.gen] = DoneTx(class)
        /\ \A g \in Gens : g # a.gen => tx'[r][g] = tx[r][g]
        /\ b.round = a.round /\ b.gen = a.gen
    BY <1>1, <1>5 DEF Books
  <2>2. /\ class = "not_sent" =>
             \/ b.status \in {"not_sent", "superseded"}
             \/ /\ b.status = "retry" /\ b.retries < MaxRetries
                /\ a.gen <= MaxClaims + b.retries + crashes
        /\ class # "not_sent" => b.status = class
    BY <1>1, <1>5 DEF Books, Follows
  <2>3. \A g \in Gens : /\ g > a.gen => tx'[r][g] = NoTx
                        /\ g < a.gen => tx'[r][g] \in Over
                        /\ g = a.gen => tx'[r][g] \in Fit(b.status, "none", plan[r].price)
    <3>1. DoneTx(class) \in Fit(b.status, "none", plan[r].price)
      BY <2>2 DEF Fit, Over, SendClass
    <3>2. \A g \in Gens : /\ g > a.gen => tx[r][g] = NoTx
                          /\ g < a.gen => tx[r][g] \in Over
      BY <1>2 DEF RowOK
    <3> QED
      BY <1>3, <2>1, <3>1, <3>2
  <2>4. RowOK(b, tx'[r], worker'[r], plan[r].price, in.round, up, crashes)
    BY <1>2, <2>1, <2>2, <2>3 DEF RowOK, Unclaimed, SendClass
  <2> QED BY <1>0, <1>1, <2>4, OneRow
<1> QED BY <1>4, <1>5

\* a step of one route
Moves(r) ==
  \/ Claims(r) \/ Parks(r) \/ Refuses(r) \/ Loses(r) \/ Authorizes(r) \/ HandsOver(r)
  \/ \E class \in SendClass \ {"none"}, c \in {0, plan[r].price} : Books(r, class, c)

\* Every step of a route keeps the rows right.
LEMMA RowsMoves ==
  ASSUME TypeOK, RowsOK, NEW r \in Routes, Moves(r)
  PROVE  RowsOK' /\ TypeOK' /\ OnRoute(r)
<1>1. OnRoute(r) /\ TypeOK'
  BY DEF Moves, Claims, Parks, Refuses, Loses, Authorizes, HandsOver, Books, OnRoute
<1> QED BY <1>1, RowsClaims, RowsEnds, RowsWrites DEF Moves

\* A route that moves has an attempt.
LEMMA MovesIsThere ==
  ASSUME TypeOK, RowsOK, FreshOK, NEW r \in Routes, Moves(r)
  PROVE  att[r].status # "none" /\ att'[r].status # "none" /\ in.state # "none"
<1>1. att[r].status \in Unclaimed \cup {"sending"}
  BY WorkerRow DEF Moves, Claims, Parks, Refuses, Loses, Authorizes, HandsOver, Books
<1>2. att'[r].status # "none"
  BY <1>1 DEF Moves, Claims, Parks, Refuses, Loses, Authorizes, HandsOver, Books, Follows,
              Unclaimed, SendClass
<1> QED BY <1>1, <1>2 DEF FreshOK, Unclaimed

-----------------------------------------------------------------------------
(* What left and what was heard. *)

\* The three kinds of step: the transmissions stay, one that certainly sent
\* nothing is written, or one that may have is.
LEMMA AirMoves ==
  ASSUME TypeOK, RowsOK, AirOK, NEW r \in Routes, Moves(r)
  PROVE  AirOK'
<1>0. OnRoute(r) /\ TypeOK'
  BY RowsMoves
<1>1. CASE UNCHANGED <<tx, ev, air>>
  BY <1>1 DEF AirOK, MayHaveLeft, Heard
<1>2. ASSUME NEW g \in Gens, g = att[r].gen, UNCHANGED air,
             \A h \in Gens : h # g => tx'[r][h] = tx[r][h],
             MayHaveLeft(r, g)' \/ <<r, g>> \notin air,
             \/ ev' = ev
             \/ /\ <<r, g>> \in air
                /\ ev' = ev \cup {[route |-> r, gen |-> g, says |-> "completes"]}
      PROVE  AirOK'
  <2>1. ASSUME NEW q \in Routes, NEW h \in Gens, <<q, h>> \in air PROVE MayHaveLeft(q, h)'
    <3>1. CASE q = r /\ h = g
      BY <1>2, <2>1, <3>1
    <3>2. CASE ~(q = r /\ h = g)
      <4>1. tx'[q][h] = tx[q][h]
        BY <1>0, <1>2, <3>2 DEF OnRoute
      <4>2. MayHaveLeft(q, h)
        BY <2>1 DEF AirOK
      <4> QED BY <4>1, <4>2 DEF MayHaveLeft
    <3> QED BY <3>1, <3>2
  <2>2. ASSUME NEW q \in Routes, NEW h \in Gens, Heard(q, h, "completes")' PROVE <<q, h>> \in air
    <3>1. CASE Heard(q, h, "completes")
      BY <3>1 DEF AirOK
    <3>2. CASE <<r, g>> \in air /\ [route |-> q, gen |-> h, says |-> "completes"]
                                     = [route |-> r, gen |-> g, says |-> "completes"]
      BY <3>2
    <3> QED BY <1>2, <2>2, <3>1, <3>2 DEF Heard
  <2> QED BY <1>2, <2>1, <2>2 DEF AirOK
<1>3. CASE Authorizes(r) \/ HandsOver(r)
  <2>1. att[r].status = "sending" /\ worker[r] \in {"claimed", "authorized"}
    BY <1>3, WorkerRow DEF Authorizes, HandsOver
  <2>2. PICK g \in Gens : g = att[r].gen
    BY <2>1, WorkerRow
  <2>3. tx[r][g].state \in {"none", "authorized"}
    <3>1. Current(r) \in {NoTx, AuthTx(plan[r].price)}
      BY <2>1, WorkerRow
    <3>2. Current(r).state \in {"none", "authorized"}
      BY <3>1 DEF NoTx, AuthTx
    <3> QED BY <2>2, <3>2 DEF Current
  <2>4. <<r, g>> \notin air
    BY <2>3 DEF AirOK, MayHaveLeft
  <2>5. UNCHANGED <<air, ev>> /\ \A h \in Gens : h # g => tx'[r][h] = tx[r][h]
    BY <1>3, <2>2 DEF Authorizes, HandsOver
  <2> QED BY <1>2, <2>2, <2>4, <2>5
<1>4. ASSUME NEW class \in SendClass \ {"none"}, NEW c \in {0, plan[r].price}, Books(r, class, c)
      PROVE  AirOK'
  <2>1. PICK g \in Gens : g = att[r].gen
    BY <1>4, WorkerRow DEF Books
  <2>2. /\ UNCHANGED air /\ tx'[r][g] = DoneTx(class)
        /\ \A h \in Gens : h # g => tx'[r][h] = tx[r][h]
        /\ \/ ev' = ev
           \/ /\ <<r, g>> \in air
              /\ ev' = ev \cup {[route |-> r, gen |-> g, says |-> "completes"]}
    BY <1>4, <2>1 DEF Books
  <2>3. MayHaveLeft(r, g)' \/ <<r, g>> \notin air
    <3>1. CASE class = "not_sent"
      BY <1>4, <2>1, <3>1 DEF Books, Follows
    <3>2. CASE class # "not_sent"
      BY <2>2, <3>2 DEF MayHaveLeft, DoneTx
    <3> QED BY <3>1, <3>2
  <2> QED BY <1>2, <2>1, <2>2, <2>3
<1> QED BY <1>1, <1>3, <1>4 DEF Moves, Claims, Parks, Refuses, Loses

-----------------------------------------------------------------------------
(* The rounds. *)

\* A route that moves keeps its round, and an attempt that ends unknown was sent
\* in the round that is on.
LEMMA RoundsMoves ==
  ASSUME TypeOK, RowsOK, FreshOK, RoundsOK, NEW r \in Routes, Moves(r)
  PROVE  RoundsOK'
<1>0. OnRoute(r)
  BY RowsMoves
<1>1. in'.round = in.round /\ in'.strategy = in.strategy /\ plan' = plan
  BY <1>0 DEF OnRoute, SameButBooks
<1>2. att[r].status # "none" /\ att'[r].status # "none"
  BY MovesIsThere
<1>3. att'[r].round = att[r].round
  BY DEF Moves, Claims, Parks, Refuses, Loses, Authorizes, HandsOver, Books, SameRow
<1>4. \A q \in Routes : /\ att'[q].status = "none" <=> att[q].status = "none"
                        /\ att'[q].round = att[q].round
  BY <1>0, <1>2, <1>3 DEF OnRoute
<1>5. att'[r].status = "unknown" => att[r].status = "unknown" \/ att[r].round = in.round
  BY WorkerRow DEF Moves, Claims, Parks, Refuses, Loses, Authorizes, HandsOver, Books, Unclaimed
<1>6. \A q \in Routes : att'[q].status = "unknown" =>
        att[q].status = "unknown" \/ att[q].round = in.round
  BY <1>0, <1>5 DEF OnRoute
<1>7. PaidUnknownIsLast'
  BY <1>1, <1>4, <1>6 DEF RoundsOK, PaidUnknownIsLast
<1> QED BY <1>1, <1>4, <1>7 DEF RoundsOK

-----------------------------------------------------------------------------
(* The books. *)

\* A reservation becomes a charge of the same amount, or may have, or nothing.
LEMMA BooksMoves ==
  ASSUME TypeOK, RowsOK, BooksOK, NEW r \in Routes, Moves(r)
  PROVE  BooksOK'
<1>0. TypeOK' /\ plan[r].price \in Nat
  BY RowsMoves, WorkerRow
<1>1. /\ in.reserved \in Int /\ in.incurred \in Nat /\ in.possible \in Nat /\ Cap \in Nat
      /\ in'.reserved \in Int /\ in'.incurred \in Nat /\ in'.possible \in Nat
  BY <1>0, Numbers DEF TypeOK, Intent
<1>2. CASE in' = in
  BY <1>2 DEF BooksOK, CapRespected
<1>3. CASE Authorizes(r)
  BY <1>0, <1>1, <1>3 DEF Authorizes, FitsCap, BooksOK, CapRespected
<1>4. ASSUME NEW class \in SendClass \ {"none"}, NEW c \in {0, plan[r].price}, Books(r, class, c)
      PROVE  BooksOK'
  <2>1. /\ in'.reserved = in.reserved - plan[r].price /\ in'.incurred = in.incurred + c
        /\ in'.possible = in.possible \/ (c = 0 /\ in'.possible = in.possible + plan[r].price)
    BY <1>4 DEF Books
  <2> QED BY <1>0, <1>1, <2>1 DEF BooksOK, CapRespected
<1> QED BY <1>2, <1>3, <1>4 DEF Moves, Claims, Parks, Refuses, Loses, HandsOver

\* One route's reservation changes by d, and so does the intent's.
LEMMA SumUpdate ==
  ASSUME SumOK, NEW r \in Routes, NEW d \in Int, Held(r)' = Held(r) + d,
         \A q \in Routes : Held(q) \in Nat,
         \A q \in Routes : q # r => Held(q)' = Held(q), in'.reserved = in.reserved + d
  PROVE  SumOK'
<1>1. PICK s \in [0..N -> Int] :
        /\ s[0] = 0 /\ s[N] = in.reserved /\ \A n \in Routes : s[n] = s[n - 1] + Held(n)
  BY DEF SumOK
<1>2. PICK v : v = [n \in 0..N |-> IF n < r THEN s[n] ELSE s[n] + d]
  OBVIOUS
<1>3. v \in [0..N -> Int]
  BY <1>2
<1>4. N \in Nat \ {0} /\ r \in 1..N
  BY Numbers DEF Routes
<1>5. v[0] = 0 /\ v[N] = in'.reserved
  BY <1>1, <1>2, <1>4
<1>6. ASSUME NEW n \in Routes PROVE v[n] = v[n - 1] + Held(n)'
  <2>1. n \in 1..N /\ n \in 0..N /\ n - 1 \in 0..N
    BY <1>4 DEF Routes
  <2>2. s[n] = s[n - 1] + Held(n) /\ Held(n) \in Nat /\ s[n - 1] \in Int
    BY <1>1, <2>1
  <2>3. CASE n = r
    BY <1>2, <1>4, <2>1, <2>2, <2>3
  <2>4. CASE n # r
    <3>1. Held(n)' = Held(n)
      BY <2>4
    <3> QED BY <1>2, <1>4, <2>1, <2>2, <2>4, <3>1
  <2> QED BY <2>3, <2>4
<1> QED BY <1>3, <1>5, <1>6 DEF SumOK

\* What a route holds.
LEMMA HeldOf ==
  ASSUME TypeOK, NEW r \in Routes
  PROVE  /\ Held(r) \in Nat
         /\ att[r].status # "sending" => Held(r) = 0
         /\ att[r].status = "sending" =>
              /\ Current(r) = NoTx => Held(r) = 0
              /\ Current(r) \in {AuthTx(plan[r].price), HandedTx(plan[r].price)} =>
                   Held(r) = plan[r].price
<1>1. plan[r].price \in Nat
  BY DEF TypeOK, Entry
<1> QED BY <1>1 DEF Held, NoTx, AuthTx, HandedTx

\* The reservation follows the transmissions.
LEMMA SumMoves ==
  ASSUME TypeOK, RowsOK, SumOK, NEW r \in Routes, Moves(r)
  PROVE  SumOK'
<1>0. /\ OnRoute(r) /\ TypeOK' /\ RowsOK' /\ plan[r].price \in Nat /\ plan' = plan
      /\ in.reserved \in Int
  BY RowsMoves, WorkerRow DEF OnRoute, TypeOK, Intent
<1>1. \A q \in Routes : q # r => Held(q)' = Held(q)
  BY <1>0 DEF OnRoute, Held, Current
<1>2. \A q \in Routes : Held(q) \in Nat
  BY HeldOf
<1>3. ASSUME NEW d \in Int, Held(r)' = Held(r) + d, in'.reserved = in.reserved + d
      PROVE  SumOK'
  BY <1>1, <1>2, <1>3, SumUpdate
<1>4. CASE Claims(r)
  <2>1. Held(r) = 0 /\ in' = in
    BY <1>4, HeldOf DEF Claims, Unclaimed
  <2>2. /\ att'[r].status = "sending" /\ worker'[r] = "claimed" /\ tx' = tx
    BY <1>4 DEF Claims
  <2>3. Current(r)' = NoTx
    <3>1. RowOK(att'[r], tx'[r], worker'[r], plan'[r].price, in'.round, up', crashes')
      BY <1>0 DEF RowsOK
    <3>2. att'[r].gen \in Gens
      BY <2>2, <3>1 DEF RowOK
    <3>3. tx'[r][att'[r].gen] \in Fit("sending", "claimed", plan'[r].price)
      BY <2>2, <3>1, <3>2 DEF RowOK
    <3> QED BY <3>3 DEF Fit, Current
  <2>4. Held(r)' = 0
    BY <2>3 DEF Held, NoTx
  <2> QED BY <1>0, <1>3, <2>1, <2>4
<1>5. CASE Parks(r) \/ Refuses(r)
  <2>1. Held(r) = 0 /\ in' = in
    BY <1>5, HeldOf DEF Parks, Refuses, Unclaimed
  <2>2. att'[r].status # "sending"
    BY <1>5 DEF Parks, Refuses, Unclaimed
  <2>3. Held(r)' = 0
    BY <2>2 DEF Held
  <2> QED BY <1>0, <1>3, <2>1, <2>3
<1>6. CASE Loses(r)
  <2>1. Held(r)' = Held(r) /\ in' = in
    BY <1>0, <1>6 DEF Loses, Held, Current
  <2> QED BY <1>0, <1>2, <1>3, <2>1
<1>7. CASE HandsOver(r)
  <2>1. /\ att[r].status = "sending" /\ Current(r) = AuthTx(plan[r].price) /\ in' = in /\ att' = att
        /\ tx'[r][att[r].gen] = HandedTx(plan[r].price)
    BY <1>7, WorkerRow DEF HandsOver
  <2>2. Held(r) = plan[r].price
    BY <2>1, HeldOf
  <2>3. Held(r)' = plan[r].price
    BY <1>0, <2>1 DEF Held, Current, HandedTx
  <2> QED BY <1>0, <1>3, <2>1, <2>2, <2>3
<1>8. CASE Authorizes(r)
  <2>1. /\ att[r].status = "sending" /\ Current(r) = NoTx /\ att' = att
        /\ tx'[r][att[r].gen] = AuthTx(plan[r].price)
        /\ in'.reserved = in.reserved + plan[r].price
    BY <1>8, WorkerRow DEF Authorizes
  <2>2. Held(r) = 0
    BY <2>1, HeldOf
  <2>3. Held(r)' = plan[r].price
    BY <1>0, <2>1 DEF Held, Current, AuthTx
  <2> QED BY <1>0, <1>3, <2>1, <2>2, <2>3
<1>9. ASSUME NEW class \in SendClass \ {"none"}, NEW c \in {0, plan[r].price}, Books(r, class, c)
      PROVE  SumOK'
  <2>1. /\ att[r].status = "sending"
        /\ Current(r) \in {AuthTx(plan[r].price), HandedTx(plan[r].price)}
        /\ in'.reserved = in.reserved - plan[r].price /\ att'[r].status # "sending"
    BY <1>9 DEF Books, Follows, SendClass
  <2>2. Held(r) = plan[r].price
    BY <2>1, HeldOf
  <2>3. Held(r)' = 0
    BY <2>1 DEF Held
  <2>4. PICK d \in Int : d = 0 - plan[r].price
    BY <1>0
  <2> QED BY <1>0, <1>3, <2>1, <2>2, <2>3, <2>4
<1> QED BY <1>4, <1>5, <1>6, <1>7, <1>8, <1>9 DEF Moves

-----------------------------------------------------------------------------
(* The clock and the outcome, when a route moves. *)

\* The clock stays, or is read and kept in memory.
ClockRead == clock' = clock \/ clock' = ElapsedMs

\* A clock that is only read stays right.
LEMMA ClockReads ==
  ASSUME TypeOK, ClockOK, ClockRead, UNCHANGED <<up, beat, uptime>>,
         in'.state = in.state, in'.elapsed = in.elapsed
  PROVE  ClockOK'
<1>1. /\ clock \in Nat \cup {NoBase} /\ beat \in Nat /\ uptime \in Nat /\ in.elapsed \in Nat
      /\ RestartSlack \in Nat
  BY Numbers DEF TypeOK, Intent
<1>2. CASE clock' = clock
  BY <1>2 DEF ClockOK
<1>3. CASE clock' = ElapsedMs /\ clock = NoBase
  BY <1>1, <1>3 DEF ClockOK, ElapsedMs, NoBase
<1>4. CASE clock' = ElapsedMs /\ clock # NoBase
  BY <1>4 DEF ClockOK, ElapsedMs
<1> QED BY <1>2, <1>3, <1>4 DEF ClockRead

\* What is recorded, and nobody looked at yet, binds the outcome to nothing.
LEMMA OutcomeKept ==
  ASSUME OutcomeOK, SameButBooks(in'), ev \subseteq ev', in'.dirty \/ ~AllOver'
  PROVE  OutcomeOK'
<1>1. \A r \in Routes : Completed(r) => Completed(r)'
  BY DEF Completed, Heard
<1> QED BY <1>1 DEF OutcomeOK, SameButBooks, ExpiryReached

\* Nothing the outcome is made from changes.
LEMMA OutcomeSame ==
  ASSUME OutcomeOK, UNCHANGED <<in, tx, ev>>
  PROVE  OutcomeOK'
<1>1. \A r \in Routes : Completed(r)' <=> Completed(r)
  BY DEF Completed, Heard
<1>2. OutcomeRule' = OutcomeRule /\ (AllOver' <=> AllOver) /\ (PossibleDuplicate' <=> PossibleDuplicate)
  BY DEF OutcomeRule, Completed, AllOver, PossibleDuplicate, Dropped, Heard, MayHaveLeft
<1>3. ClosedOutcome' = ClosedOutcome
  BY <1>2 DEF ClosedOutcome, ExpiryReached
<1> QED BY <1>1, <1>2, <1>3 DEF OutcomeOK, ExpiryReached

\* A step of a route keeps the clock right.
LEMMA ClockMoves ==
  ASSUME TypeOK, RowsOK, ClockOK, NEW r \in Routes, Moves(r)
  PROVE  ClockOK'
<1>1. OnRoute(r)
  BY RowsMoves
<1>2. ClockRead
  BY DEF Moves, Claims, Parks, Refuses, Loses, Authorizes, HandsOver, Books, ClockRead
<1> QED BY <1>1, <1>2, ClockReads DEF OnRoute, SameButBooks

\* A step of a route leaves the outcome, or what it was made from is out of date.
LEMMA OutcomeMoves ==
  ASSUME TypeOK, RowsOK, OutcomeOK, NEW r \in Routes, Moves(r)
  PROVE  OutcomeOK'
<1>1. CASE UNCHANGED <<in, tx, ev>>
  BY <1>1, OutcomeSame
<1>2. CASE Authorizes(r) \/ HandsOver(r)
  <2>1. OnRoute(r) /\ ev' = ev
    BY <1>2 DEF Authorizes, HandsOver
  <2>2. PICK g \in Gens : g = att[r].gen
    BY <1>2, WorkerRow DEF Authorizes, HandsOver
  <2>3. tx'[r][g].state \in {"authorized", "handed_off"}
    BY <1>2, <2>2 DEF Authorizes, HandsOver, AuthTx, HandedTx
  <2>4. ~AllOver'
    BY <2>3 DEF AllOver
  <2> QED BY <2>1, <2>4, OutcomeKept DEF OnRoute
<1>3. ASSUME NEW class \in SendClass \ {"none"}, NEW c \in {0, plan[r].price}, Books(r, class, c)
      PROVE  OutcomeOK'
  <2>1. SameButBooks(in') /\ in'.dirty /\ ev \subseteq ev'
    BY <1>3 DEF Books, OnRoute
  <2> QED BY <2>1, OutcomeKept
<1> QED BY <1>1, <1>2, <1>3 DEF Moves, Claims, Parks, Refuses, Loses

\* Every step of one route keeps the invariant.
LEMMA MovesPreserves ==
  ASSUME IInv, NEW r \in Routes, Moves(r)
  PROVE  IInv'
<1>1. TypeOK' /\ RowsOK' /\ OnRoute(r)
  BY RowsMoves DEF IInv
<1>2. AirOK' /\ RoundsOK' /\ BooksOK' /\ SumOK' /\ ClockOK' /\ OutcomeOK'
  BY AirMoves, RoundsMoves, BooksMoves, SumMoves, ClockMoves, OutcomeMoves DEF IInv
<1>3. FreshOK'
  BY <1>1, MovesIsThere DEF IInv, FreshOK, OnRoute, SameButBooks
<1> QED BY <1>1, <1>2, <1>3 DEF IInv

\* The worker's steps, the link's and the restart's are steps of one route.
LEMMA RouteSteps ==
  ASSUME IInv, NEW r \in Routes,
         \/ ClaimDeliveryForSending(r) \/ WorkerStep(r) \/ RecoverRow(r)
         \/ HoldDelivery(r) \/ UnholdDelivery(r)
  PROVE  Moves(r)
<1>0. TypeOK /\ RowsOK /\ AirOK
  BY DEF IInv
<1>1. CASE ClaimDeliveryForSending(r)
  BY <1>0, <1>1, ClaimShape DEF Moves
<1>2. CASE HoldDelivery(r) \/ UnholdDelivery(r)
  BY <1>0, <1>2, ParkShape DEF Moves
<1>3. CASE (\E b \in BOOLEAN : EndAttemptNotSent(r, b)) \/ RecoverClaimed(r)
  BY <1>0, <1>3, RefuseShape DEF Moves
<1>4. CASE AuthorizeTransmission(r)
  BY <1>0, <1>4, RefuseShape, AuthorizeShape DEF Moves
<1>5. CASE HandOff(r)
  BY <1>0, <1>5, HandOffShape DEF Moves
<1>6. CASE LoseFinalization(r)
  BY <1>0, <1>6, LoseShape DEF Moves
<1>7. CASE \/ NoCorrelation(r) \/ RecoverAuthorized(r)
           \/ \E retryable, consume \in BOOLEAN, c \in Charges(r) :
                FinalizeNotSent(r, retryable, consume, c)
  BY <1>0, <1>7, NotSentBooks DEF Moves, SendClass
<1>8. CASE (\E c \in Charges(r) : FinalizeUnknown(r, c)) \/ RecoverHandedOff(r)
  BY <1>0, <1>8, UnknownBooks DEF Moves, SendClass
<1>9. CASE \E c \in Charges(r), proof, stamped \in BOOLEAN :
             FinalizeAccepted(r, c, proof, stamped)
  BY <1>0, <1>9, AcceptedBooks DEF Moves, SendClass
<1> QED BY <1>1, <1>2, <1>3, <1>4, <1>5, <1>6, <1>7, <1>8, <1>9 DEF WorkerStep, RecoverRow

-----------------------------------------------------------------------------
(* The steps that leave the attempts alone. *)

\* The books and the rounds stay.
SameBooks ==
  /\ in'.round = in.round /\ in'.strategy = in.strategy /\ in'.reserved = in.reserved
  /\ in'.incurred = in.incurred /\ in'.possible = in.possible

Stands ==
  /\ TypeOK' /\ UNCHANGED <<plan, att, tx, worker, crashes>> /\ SameBooks
  /\ up => up'

\* What is said of attempts, rounds and books stays true.
LEMMA StandsKeeps ==
  ASSUME IInv, Stands
  PROVE  RowsOK' /\ RoundsOK' /\ BooksOK' /\ SumOK'
<1>1. RowsOK'
  <2>1. crashes' <= MaxCrashes
    BY DEF IInv, RowsOK, Stands
  <2>2. ASSUME NEW r \in Routes
        PROVE  RowOK(att'[r], tx'[r], worker'[r], plan'[r].price, in'.round, up', crashes')
    <3>1. RowOK(att[r], tx[r], worker[r], plan[r].price, in.round, up, crashes)
      BY DEF IInv, RowsOK
    <3> QED BY <3>1 DEF Stands, SameBooks, RowOK
  <2> QED BY <2>1, <2>2 DEF RowsOK
<1>2. RoundsOK'
  BY DEF IInv, RoundsOK, PaidUnknownIsLast, Stands, SameBooks
<1>3. BooksOK'
  BY DEF IInv, BooksOK, CapRespected, Stands, SameBooks
<1>4. \A r \in Routes : Held(r)' = Held(r)
  BY DEF Held, Current, Stands
<1>5. SumOK'
  BY <1>4 DEF IInv, SumOK, Stands, SameBooks
<1> QED BY <1>1, <1>2, <1>3, <1>5

\* A transmission that may have left belongs to an intent.
LEMMA LeftIsThere ==
  ASSUME FreshOK, NEW r \in Routes, NEW g \in Gens, MayHaveLeft(r, g)
  PROVE  in.state # "none"
BY DEF FreshOK, MayHaveLeft, NoTx

\* Leave.
LEMMA LeavePreserves ==
  ASSUME IInv, NEW r \in Routes, NEW g \in Gens, Leave(r, g)
  PROVE  IInv'
<1>1. /\ air' = air \cup {<<r, g>>} /\ MayHaveLeft(r, g)
      /\ UNCHANGED <<up, ready, clock, beat, in, plan, att, tx, ev, worker, crashes, lost, uptime>>
  BY DEF Leave, durable
<1>2. TypeOK'
  BY <1>1 DEF IInv, TypeOK
<1>3. RowsOK' /\ RoundsOK' /\ BooksOK' /\ SumOK'
  BY <1>1, <1>2, StandsKeeps DEF Stands, SameBooks
<1>4. AirOK'
  <2>1. ASSUME NEW q \in Routes, NEW h \in Gens, <<q, h>> \in air' PROVE MayHaveLeft(q, h)'
    <3>1. MayHaveLeft(q, h)
      BY <1>1, <2>1 DEF IInv, AirOK
    <3> QED BY <1>1, <3>1 DEF MayHaveLeft
  <2>2. \A q \in Routes, h \in Gens : Heard(q, h, "completes")' => <<q, h>> \in air'
    BY <1>1 DEF IInv, AirOK, Heard
  <2> QED BY <2>1, <2>2 DEF AirOK
<1>5. FreshOK'
  BY <1>1, LeftIsThere DEF IInv, FreshOK
<1>6. ClockOK' /\ OutcomeOK'
  BY <1>1, ClockReads, OutcomeSame DEF IInv, ClockRead
<1> QED BY <1>2, <1>3, <1>4, <1>5, <1>6 DEF IInv

\* RecordEvidence.
LEMMA EvidencePreserves ==
  ASSUME IInv, NEW r \in Routes, NEW g \in Gens, NEW says \in Says, RecordEvidence(r, g, says)
  PROVE  IInv'
<1>1. /\ ev' = ev \cup {[route |-> r, gen |-> g, says |-> says]} /\ MayHaveLeft(r, g)
      /\ says = "completes" => <<r, g>> \in air
      /\ in' = [in EXCEPT !.dirty = TRUE]
      /\ UNCHANGED <<up, ready, clock, beat, plan, att, tx, worker, crashes, lost, air, uptime>>
  BY DEF RecordEvidence
<1>2. in' \in Intent /\ SameButBooks(in') /\ SameBooks /\ in'.dirty
  BY <1>1 DEF IInv, TypeOK, Intent, SameButBooks, SameBooks
<1>3. ev' \subseteq Evidence
  BY <1>1 DEF IInv, TypeOK, Evidence
<1>4. TypeOK'
  BY <1>1, <1>2, <1>3 DEF IInv, TypeOK
<1>5. RowsOK' /\ RoundsOK' /\ BooksOK' /\ SumOK'
  BY <1>1, <1>2, <1>4, StandsKeeps DEF Stands
<1>6. AirOK'
  <2>1. \A q \in Routes, h \in Gens : <<q, h>> \in air' => MayHaveLeft(q, h)'
    BY <1>1 DEF IInv, AirOK, MayHaveLeft
  <2>2. ASSUME NEW q \in Routes, NEW h \in Gens, Heard(q, h, "completes")'
        PROVE  <<q, h>> \in air'
    <3>1. CASE Heard(q, h, "completes")
      BY <1>1, <3>1 DEF IInv, AirOK
    <3>2. CASE [route |-> q, gen |-> h, says |-> "completes"] = [route |-> r, gen |-> g, says |-> says]
      BY <1>1, <3>2
    <3> QED BY <1>1, <2>2, <3>1, <3>2 DEF Heard
  <2> QED BY <2>1, <2>2 DEF AirOK
<1>7. FreshOK'
  BY <1>1, <1>2, LeftIsThere DEF IInv, FreshOK, SameButBooks
<1>8. ClockOK'
  BY <1>1, <1>2, ClockReads DEF IInv, ClockRead, SameButBooks
<1>9. OutcomeOK'
  BY <1>1, <1>2, OutcomeKept DEF IInv
<1> QED BY <1>4, <1>5, <1>6, <1>7, <1>8, <1>9 DEF IInv

\* SetReady.
LEMMA ReadyPreserves ==
  ASSUME IInv, SetReady \/ UNCHANGED vars
  PROVE  IInv'
<1>1. /\ UNCHANGED <<up, clock, beat, in, plan, att, tx, ev, worker, crashes, lost, air, uptime>>
      /\ ready' \in BOOLEAN
  BY DEF SetReady, durable, vars, IInv, TypeOK
<1>2. TypeOK'
  BY <1>1 DEF IInv, TypeOK
<1>3. RowsOK' /\ RoundsOK' /\ BooksOK' /\ SumOK'
  BY <1>1, <1>2, StandsKeeps DEF Stands, SameBooks
<1>4. AirOK' /\ FreshOK'
  BY <1>1 DEF IInv, AirOK, MayHaveLeft, Heard, FreshOK
<1>5. ClockOK' /\ OutcomeOK'
  BY <1>1, ClockReads, OutcomeSame DEF IInv, ClockRead
<1> QED BY <1>2, <1>3, <1>4, <1>5 DEF IInv

\* The clock is stored, goes on, or is made up for at a start: nothing else of
\* the intent changes.
ClockOnly ==
  /\ Stands /\ UNCHANGED <<ev, air>>
  /\ in'.state = in.state /\ in'.outcome = in.outcome /\ in'.expiry = in.expiry
  /\ in'.cancelled = in.cancelled /\ in'.t12 = in.t12 /\ in'.dup = in.dup
  /\ in.state = "active" \/ (in' = in /\ clock' = clock /\ uptime' = uptime /\ beat' = 0)

\* All but the clock stays right when only the clock moves.
LEMMA ClockOnlyKeeps ==
  ASSUME IInv, ClockOnly, ClockOK'
  PROVE  IInv'
<1>1. RowsOK' /\ RoundsOK' /\ BooksOK' /\ SumOK' /\ TypeOK'
  BY StandsKeeps DEF ClockOnly, Stands
<1>2. AirOK'
  BY DEF IInv, AirOK, MayHaveLeft, Heard, ClockOnly, Stands
<1>3. FreshOK'
  BY DEF IInv, FreshOK, ClockOnly, Stands
<1>4. OutcomeOK'
  <2>1. CASE in.state = "active"
    BY <2>1 DEF IInv, OutcomeOK, ClockOnly
  <2>2. CASE in' = in
    BY <2>2, OutcomeSame DEF IInv, ClockOnly, Stands
  <2> QED BY <2>1, <2>2 DEF ClockOnly
<1> QED BY <1>1, <1>2, <1>3, <1>4 DEF IInv

\* Numbers of the clock.
LEMMA ClockNumbers ==
  ASSUME TypeOK
  PROVE  /\ clock \in Nat \cup {NoBase} /\ beat \in Nat /\ uptime \in Nat /\ in.elapsed \in Nat
         /\ RestartSlack \in Nat \ {0} /\ in.expiry \in Nat /\ NoBase \notin Nat /\ ElapsedMs \in Nat
<1>1. NoBase \notin Nat
  BY DEF NoBase
<1>2. /\ clock \in Nat \cup {NoBase} /\ beat \in Nat /\ uptime \in Nat /\ in.elapsed \in Nat
      /\ in.expiry \in Nat
  BY DEF TypeOK, Intent
<1> QED BY <1>1, <1>2, Numbers DEF ElapsedMs

\* The clock that decides is not behind the stored one.
LEMMA ElapsedAhead ==
  ASSUME TypeOK, ClockOK, in.state = "active"
  PROVE  ElapsedMs >= in.elapsed /\ Max2(in.elapsed, ElapsedMs) = ElapsedMs
<1>1. ElapsedMs >= in.elapsed
  BY ClockNumbers DEF ClockOK, ElapsedMs
<1> QED BY <1>1, ClockNumbers DEF Max2

\* Heartbeat.
LEMMA HeartbeatPreserves ==
  ASSUME IInv, Heartbeat
  PROVE  IInv'
<1>0. TypeOK /\ ClockOK /\ in \in Intent
  BY DEF IInv, TypeOK
<1>1. PICK e \in Nat : e = ElapsedMs
  BY <1>0, ClockNumbers
<1>2. /\ up /\ in.state = "active" /\ in' = [in EXCEPT !.elapsed = e] /\ clock' = e /\ beat' = 0
      /\ UNCHANGED <<up, ready, plan, att, tx, ev, worker, crashes, lost, air, uptime>>
  BY <1>0, <1>1, ElapsedAhead DEF Heartbeat
<1>3. /\ in' \in Intent /\ SameBooks /\ in'.elapsed = e
      /\ in'.state = in.state /\ in'.outcome = in.outcome /\ in'.expiry = in.expiry
      /\ in'.cancelled = in.cancelled /\ in'.t12 = in.t12 /\ in'.dup = in.dup
  BY <1>0, <1>2 DEF Intent, SameBooks
<1>4. TypeOK'
  BY <1>0, <1>2, <1>3 DEF TypeOK
<1>5. ClockOnly
  BY <1>2, <1>3, <1>4 DEF ClockOnly, Stands
<1>6. uptime <= e + RestartSlack
  BY <1>0, <1>1, <1>2, ClockNumbers DEF ClockOK, ElapsedMs
<1>7. ClockOK'
  BY <1>0, <1>2, <1>3, <1>6, ClockNumbers DEF ClockOK
<1> QED BY <1>5, <1>7, ClockOnlyKeeps

\* Tick.
LEMMA TickPreserves ==
  ASSUME IInv, Tick
  PROVE  IInv'
<1>0. TypeOK /\ ClockOK
  BY DEF IInv
<1>1. /\ up /\ in.state = "active" /\ beat < RestartSlack
      /\ clock' = (IF clock = NoBase THEN NoBase ELSE clock + 1)
      /\ beat' = beat + 1 /\ uptime' = uptime + 1
      /\ UNCHANGED <<up, ready, in, plan, att, tx, ev, worker, crashes, lost, air>>
  BY DEF Tick, durable
<1>2. clock' \in Nat \cup {NoBase} /\ beat' \in Nat /\ uptime' \in Nat
  BY <1>0, <1>1, ClockNumbers
<1>3. TypeOK'
  BY <1>0, <1>1, <1>2 DEF TypeOK
<1>4. ClockOnly
  BY <1>1, <1>3 DEF ClockOnly, Stands, SameBooks
<1>5. ClockOK'
  <2>1. CASE clock = NoBase
    BY <1>0, <1>1, <2>1, ClockNumbers DEF ClockOK
  <2>2. CASE clock # NoBase
    BY <1>0, <1>1, <2>2, ClockNumbers DEF ClockOK
  <2> QED BY <2>1, <2>2
<1> QED BY <1>4, <1>5, ClockOnlyKeeps

\* Start: the stored clock, one heartbeat and the downtime.
LEMMA StartPreserves ==
  ASSUME IInv, NEW down \in 0..MaxDowntime, Start(down)
  PROVE  IInv'
<1>0. TypeOK /\ ClockOK /\ in \in Intent /\ MaxDowntime \in Nat
  BY Numbers DEF IInv, TypeOK
<1>1. PICK e \in Nat : e = RecoveredClock(down)
  BY <1>0, ClockNumbers DEF RecoveredClock
<1>2. e >= in.elapsed + RestartSlack
  BY <1>0, <1>1, ClockNumbers DEF RecoveredClock
<1>3. /\ up' = TRUE /\ beat' = 0
      /\ UNCHANGED <<ready, plan, att, tx, ev, worker, crashes, lost, air, uptime>>
  BY DEF Start
<1>4. CASE in.state = "active"
  <2>1. in' = [in EXCEPT !.elapsed = e] /\ clock' = e
    BY <1>1, <1>4 DEF Start
  <2>2. /\ in' \in Intent /\ SameBooks /\ in'.elapsed = e
        /\ in'.state = in.state /\ in'.outcome = in.outcome /\ in'.expiry = in.expiry
        /\ in'.cancelled = in.cancelled /\ in'.t12 = in.t12 /\ in'.dup = in.dup
    BY <1>0, <2>1 DEF Intent, SameBooks
  <2>3. TypeOK'
    BY <1>0, <1>3, <2>1, <2>2 DEF TypeOK
  <2>4. ClockOnly
    BY <1>3, <1>4, <2>2, <2>3 DEF ClockOnly, Stands
  <2>5. ClockOK'
    BY <1>0, <1>2, <1>3, <1>4, <2>1, <2>2, ClockNumbers DEF ClockOK
  <2> QED BY <2>4, <2>5, ClockOnlyKeeps
<1>5. CASE in.state # "active"
  <2>1. in' = in /\ clock' = clock
    BY <1>5 DEF Start
  <2>2. TypeOK'
    BY <1>0, <1>3, <2>1 DEF TypeOK
  <2>3. ClockOnly
    BY <1>3, <2>1, <2>2 DEF ClockOnly, Stands, SameBooks
  <2>4. ClockOK'
    BY <1>0, <1>3, <1>5, <2>1, ClockNumbers DEF ClockOK
  <2> QED BY <2>3, <2>4, ClockOnlyKeeps
<1> QED BY <1>4, <1>5

\* Crash: every goroutine is gone, and a row in flight was claimed by one that
\* counts as another crash.
LEMMA CrashPreserves ==
  ASSUME IInv, Crash
  PROVE  IInv'
<1>0. TypeOK /\ RowsOK /\ ClockOK /\ crashes \in Nat /\ MaxCrashes \in Nat
  BY Numbers DEF IInv, TypeOK
<1>1. /\ up /\ crashes < MaxCrashes /\ up' = FALSE /\ ready' = FALSE /\ clock' = NoBase
      /\ worker' = [r \in Routes |-> "none"] /\ crashes' = crashes + 1
      /\ UNCHANGED <<beat, in, plan, att, tx, ev, lost, air, uptime>>
  BY DEF Crash, durable
<1>2. TypeOK'
  <2>1. worker' \in [Routes -> WorkerAt]
    BY <1>1 DEF WorkerAt
  <2>2. up' \in BOOLEAN /\ ready' \in BOOLEAN /\ clock' \in Nat \cup {NoBase}
    BY <1>1
  <2>3. crashes' \in Nat
    BY <1>0, <1>1
  <2> QED BY <1>0, <1>1, <2>1, <2>2, <2>3 DEF TypeOK
<1>3. RowsOK'
  <2>1. crashes' <= MaxCrashes
    BY <1>0, <1>1
  <2>2. ASSUME NEW r \in Routes
        PROVE  RowOK(att'[r], tx'[r], worker'[r], plan'[r].price, in'.round, up', crashes')
    <3>1. RowOK(att[r], tx[r], worker[r], plan[r].price, in.round, up, crashes)
      BY <1>0 DEF RowsOK
    <3>2. PICK a \in Attempt : a = att[r]
      BY <1>0 DEF TypeOK
    <3>3. a.gen \in Nat /\ a.retries \in Nat /\ MaxClaims \in Nat
      BY Numbers DEF Attempt
    <3>4. a.status \in Unclaimed => a.gen <= MaxClaims + a.retries + crashes'
      BY <1>0, <1>1, <3>1, <3>2, <3>3 DEF RowOK
    <3>5. a.status = "sending" => /\ a.gen <= MaxClaims + a.retries + crashes' + 1
                                  /\ a.gen <= MaxClaims + a.retries + crashes'
      BY <1>0, <1>1, <3>1, <3>2, <3>3 DEF RowOK
    <3>6. \A g \in Gens : g = a.gen => tx[r][g] \in Fit(a.status, "none", plan[r].price)
      BY <3>1, <3>2 DEF RowOK, Fit
    <3>7. worker'[r] = "none" /\ up' = FALSE /\ att'[r] = a /\ tx'[r] = tx[r] /\ plan' = plan /\ in' = in
      BY <1>1, <3>2
    <3>8. RowOK(a, tx[r], "none", plan[r].price, in.round, FALSE, crashes')
      BY <3>1, <3>2, <3>4, <3>5, <3>6 DEF RowOK
    <3> QED BY <3>7, <3>8
  <2> QED BY <2>1, <2>2 DEF RowsOK
<1>4. RoundsOK' /\ BooksOK' /\ AirOK'
  <2>1. RoundsOK'
    BY <1>1 DEF IInv, RoundsOK, PaidUnknownIsLast
  <2>2. BooksOK'
    BY <1>1 DEF IInv, BooksOK, CapRespected
  <2>3. AirOK'
    BY <1>1 DEF IInv, AirOK, MayHaveLeft, Heard
  <2> QED BY <2>1, <2>2, <2>3
<1>5. \A r \in Routes : Held(r)' = Held(r)
  BY <1>1 DEF Held, Current
<1>6. SumOK'
  BY <1>1, <1>5 DEF IInv, SumOK
<1>7. FreshOK'
  BY <1>1 DEF IInv, FreshOK
<1>8. ClockOK'
  BY <1>0, <1>1 DEF ClockOK
<1>9. OutcomeOK'
  BY <1>1, OutcomeSame DEF IInv
<1> QED BY <1>2, <1>3, <1>4, <1>6, <1>7, <1>8, <1>9 DEF IInv

-----------------------------------------------------------------------------
(* The outcome of a closed intent. *)

\* two attempts may each have left
Copies ==
  \E r, s \in Routes : r # s /\
    \A q \in {r, s} : \E g \in Gens : MayHaveLeft(q, g) /\ ~Dropped(q, g)

\* What the rule says, and of what.
LEMMA RuleSays ==
  /\ OutcomeRule \in {"delivered", "accepted_unconfirmed", "may_have_been_sent", "failed"}
  /\ OutcomeRule = "delivered" <=> \E r \in Routes : Completed(r)
  /\ PossibleDuplicate <=> in.dup \/ Copies
BY DEF OutcomeRule, PossibleDuplicate, Copies

\* The rules read the transmissions and the evidence alone.
LEMMA SameRecords ==
  ASSUME UNCHANGED <<tx, ev>>
  PROVE  /\ OutcomeRule' = OutcomeRule /\ (Copies' <=> Copies) /\ (AllOver' <=> AllOver)
         /\ \A r \in Routes : Completed(r)' <=> Completed(r)
<1>1. \A r \in Routes : Completed(r)' <=> Completed(r)
  BY DEF Completed, Heard
<1>2. \A r \in Routes, g \in Gens : /\ MayHaveLeft(r, g)' <=> MayHaveLeft(r, g)
                                    /\ Dropped(r, g)' <=> Dropped(r, g)
  BY DEF MayHaveLeft, Dropped, Heard
<1>3. Copies' <=> Copies
  BY <1>2 DEF Copies
<1>4. OutcomeRule' = OutcomeRule
  BY <1>1, <1>2 DEF OutcomeRule
<1>5. AllOver' <=> AllOver
  BY DEF AllOver
<1> QED BY <1>1, <1>3, <1>4, <1>5

\* An intent whose outcome is the one the rule gives, from records that stay.
LEMMA OutcomeCloses ==
  ASSUME UNCHANGED <<tx, ev>>, in'.state = "closed", in'.outcome = ClosedOutcome',
         in'.t12 => ExpiryReached(in.elapsed)', in'.cancelled \/ (PossibleDuplicate => in'.dup)
  PROVE  OutcomeOK'
<1>1. /\ OutcomeRule' \in {"delivered", "accepted_unconfirmed", "may_have_been_sent", "failed"}
      /\ OutcomeRule' = "delivered" => \E r \in Routes : Completed(r)'
  BY SameRecords, RuleSays
<1>2. \/ in'.outcome = OutcomeRule' /\ OutcomeRule' # "failed"
      \/ in'.outcome = "cancelled" /\ in'.cancelled
      \/ in'.outcome = "expired" /\ ~in'.cancelled /\ ExpiryReached(in.elapsed)'
      \/ in'.outcome = "failed" /\ ~in'.cancelled /\ ~ExpiryReached(in.elapsed)'
  BY DEF ClosedOutcome
<1>3. ~in'.cancelled /\ PossibleDuplicate' => in'.dup
  BY SameRecords, RuleSays DEF PossibleDuplicate, Copies
<1> QED BY <1>1, <1>2, <1>3 DEF OutcomeOK

\* A review of a closed intent leaves it with the outcome the rule gives: late
\* answers make it stronger, or take back what never left.
LEMMA ReviewOutcome ==
  ASSUME OutcomeOK, in.state = "closed",
         ~(Strength(ClosedOutcome) > Strength(in.outcome)),
         ~CorrectsAcceptance(ClosedOutcome, in.outcome), in.outcome \in Outcome
  PROVE  in.outcome = ClosedOutcome
<1>1. /\ in.outcome \in Outcome \ {"pending"}
      /\ in.outcome = "delivered" => OutcomeRule = "delivered"
      /\ in.outcome = "cancelled" => in.cancelled
      /\ in.outcome = "expired" => ~in.cancelled /\ ExpiryReached(in.elapsed)
      /\ in.outcome = "failed" => ~in.cancelled /\ ~ExpiryReached(in.elapsed) /\ ~in.t12
  BY RuleSays DEF OutcomeOK
<1>2. PICK b : b = ClosedOutcome
  OBVIOUS
<1>3. \/ b = OutcomeRule /\ OutcomeRule # "failed"
      \/ OutcomeRule = "failed" /\ b = "cancelled" /\ in.cancelled
      \/ OutcomeRule = "failed" /\ b = "expired" /\ ~in.cancelled /\ (in.t12 \/ ExpiryReached(in.elapsed))
      \/ OutcomeRule = "failed" /\ b = "failed" /\ ~in.cancelled /\ ~ExpiryReached(in.elapsed)
  BY <1>2 DEF ClosedOutcome
<1>4. b \in Outcome \ {"pending"}
  BY <1>3, RuleSays DEF Outcome
<1>5. /\ Strength("delivered") = 4 /\ Strength("accepted_unconfirmed") = 3
      /\ Strength("may_have_been_sent") = 2 /\ Strength("failed") = 1
      /\ Strength("expired") = 1 /\ Strength("cancelled") = 1
  BY DEF Strength
<1>6. ~(Strength(b) > Strength(in.outcome)) /\ ~CorrectsAcceptance(b, in.outcome)
  BY <1>2
<1>7. CASE in.outcome = "delivered"
  BY <1>1, <1>2, <1>3, <1>7
<1>8. CASE in.outcome \in {"accepted_unconfirmed", "may_have_been_sent"}
  BY <1>2, <1>4, <1>5, <1>6, <1>8 DEF CorrectsAcceptance, Outcome
<1>9. CASE in.outcome \in {"failed", "expired", "cancelled"}
  <2>1. b \in {"failed", "expired", "cancelled"}
    BY <1>4, <1>5, <1>6, <1>9 DEF Outcome
  <2> QED BY <1>1, <1>2, <1>3, <1>9, <2>1, RuleSays
<1> QED BY <1>1, <1>7, <1>8, <1>9 DEF Outcome

\* ReviewClosedIntent.
LEMMA ReviewPreserves ==
  ASSUME IInv, ReviewClosedIntent
  PROVE  IInv'
<1>0. TypeOK /\ ClockOK /\ OutcomeOK /\ in \in Intent /\ in.outcome \in Outcome
  BY DEF IInv, TypeOK, Intent
<1>1. PICK take \in BOOLEAN : take <=> \/ Strength(ClosedOutcome) > Strength(in.outcome)
                                       \/ CorrectsAcceptance(ClosedOutcome, in.outcome)
  OBVIOUS
<1>2. PICK o : o = IF take THEN ClosedOutcome ELSE in.outcome
  OBVIOUS
<1>3. o = ClosedOutcome /\ o \in Outcome
  <2>1. in.state = "closed"
    BY DEF ReviewClosedIntent
  <2>2. o = ClosedOutcome
    BY <1>0, <1>1, <1>2, <2>1, ReviewOutcome
  <2>3. ClosedOutcome \in Outcome
    BY RuleSays DEF ClosedOutcome, Outcome
  <2> QED BY <2>2, <2>3
<1>4. PICK t \in BOOLEAN, dup \in BOOLEAN : (t <=> in.t12 /\ ~take) /\ (dup <=> PossibleDuplicate)
  OBVIOUS
<1>5. /\ in' = [in EXCEPT !.dirty = FALSE, !.dup = dup, !.outcome = o, !.t12 = t]
      /\ clock' = NoBase /\ in.state = "closed"
      /\ UNCHANGED <<up, ready, beat, plan, att, tx, ev, worker, crashes, lost, air, uptime>>
  <2>1. dup = PossibleDuplicate /\ t = (in.t12 /\ ~take)
    BY <1>4 DEF PossibleDuplicate
  <2> QED BY <1>1, <1>2, <2>1 DEF ReviewClosedIntent
<1>6. /\ in' \in Intent /\ SameBooks /\ in'.state = "closed" /\ in'.outcome = o /\ in'.t12 = t
      /\ in'.dup = dup /\ in'.cancelled = in.cancelled /\ in'.expiry = in.expiry
      /\ in'.elapsed = in.elapsed
  BY <1>0, <1>3, <1>5 DEF Intent, SameBooks
<1>7. TypeOK'
  BY <1>0, <1>5, <1>6 DEF TypeOK
<1>8. RowsOK' /\ RoundsOK' /\ BooksOK' /\ SumOK'
  BY <1>5, <1>6, <1>7, StandsKeeps DEF Stands
<1>9. AirOK'
  BY <1>5 DEF IInv, AirOK, MayHaveLeft, Heard
<1>10. FreshOK' /\ ClockOK'
  BY <1>0, <1>5, <1>6 DEF FreshOK, ClockOK
<1>11. OutcomeOK'
  <2>1. in.t12 => ExpiryReached(in.elapsed)
    BY <1>0, <1>5 DEF OutcomeOK
  <2>2. ExpiryReached(in.elapsed)' <=> ExpiryReached(in.elapsed)
    BY <1>6 DEF ExpiryReached
  <2>3. ClosedOutcome' = ClosedOutcome
    BY <1>4, <1>5, <1>6, <2>1, <2>2, SameRecords DEF ClosedOutcome
  <2> QED BY <1>3, <1>4, <1>5, <1>6, <2>1, <2>2, <2>3, OutcomeCloses
<1> QED BY <1>7, <1>8, <1>9, <1>10, <1>11 DEF IInv

-----------------------------------------------------------------------------
(* The steps that look at all attempts. *)

\* An attempt that is stamped, and perhaps ended because nobody wants it now.
RetiredRow(r) ==
  /\ att'[r].round = att[r].round /\ att'[r].gen = att[r].gen /\ att'[r].retries = att[r].retries
  /\ \/ att'[r].status = att[r].status
     \/ att[r].status \in Unclaimed /\ att'[r].status \in {"superseded", "cancelled"}

Retires ==
  /\ TypeOK' /\ UNCHANGED <<up, plan, tx, ev, worker, crashes, air, beat, uptime>> /\ SameBooks
  /\ \A r \in Routes : RetiredRow(r)

\* What a row says of its transmissions outlives a change that only ends a wait.
LEMMA RetiredRowOK ==
  ASSUME TypeOK, TypeOK', RowsOK, NEW r \in Routes, RetiredRow(r)
  PROVE  RowOK(att'[r], tx[r], worker[r], plan[r].price, in.round, up, crashes)
<1>1. PICK a \in Attempt, b \in Attempt : a = att[r] /\ b = att'[r]
  BY DEF TypeOK
<1>2. RowOK(a, tx[r], worker[r], plan[r].price, in.round, up, crashes)
  BY <1>1 DEF RowsOK
<1>3. /\ b.round = a.round /\ b.gen = a.gen /\ b.retries = a.retries
      /\ b.status = a.status \/ (a.status \in Unclaimed /\ b.status \in {"superseded", "cancelled"})
  BY <1>1 DEF RetiredRow
<1>4. CASE b.status = a.status
  BY <1>1, <1>2, <1>3, <1>4 DEF RowOK
<1>5. CASE a.status \in Unclaimed /\ b.status \in {"superseded", "cancelled"}
  BY <1>1, <1>2, <1>3, <1>5 DEF RowOK, Fit, Unclaimed
<1> QED BY <1>3, <1>4, <1>5

\* The attempts, the rounds and the books are right after a look.
LEMMA RetiresKeeps ==
  ASSUME IInv, Retires
  PROVE  RowsOK' /\ AirOK' /\ RoundsOK' /\ BooksOK' /\ SumOK'
<1>1. RowsOK'
  BY RetiredRowOK DEF IInv, RowsOK, Retires, SameBooks
<1>2. AirOK'
  BY DEF IInv, AirOK, MayHaveLeft, Heard, Retires
<1>3. \A r \in Routes : /\ att'[r].status = "none" <=> att[r].status = "none"
                        /\ att'[r].status = "unknown" <=> att[r].status = "unknown"
                        /\ att'[r].status = "sending" <=> att[r].status = "sending"
                        /\ att'[r].round = att[r].round /\ att'[r].gen = att[r].gen
  BY DEF Retires, RetiredRow, Unclaimed
<1>4. PaidUnknownIsLast'
  BY <1>3 DEF IInv, RoundsOK, PaidUnknownIsLast, Retires, SameBooks
<1>5. RoundsOK'
  BY <1>3, <1>4 DEF IInv, RoundsOK, Retires, SameBooks
<1>6. BooksOK'
  BY DEF IInv, BooksOK, CapRespected, Retires, SameBooks
<1>7. \A r \in Routes : Held(r)' = Held(r)
  BY <1>3 DEF Held, Current, Retires
<1>8. SumOK'
  BY <1>7 DEF IInv, SumOK, Retires, SameBooks
<1> QED BY <1>1, <1>2, <1>5, <1>6, <1>8

\* Retired stamps and ends rows, and nothing more.
LEMMA RetiredShape ==
  ASSUME TypeOK, NEW T, NEW now \in Nat
  PROVE  /\ Retired(T, now, "superseded") \in [Routes -> Attempt]
         /\ \A r \in Routes : LET b == Retired(T, now, "superseded")[r]
              IN /\ b.round = att[r].round /\ b.gen = att[r].gen /\ b.retries = att[r].retries
                 /\ b.status = IF r \in T /\ att[r].status \in Unclaimed THEN "superseded"
                               ELSE att[r].status
<1>1. ASSUME NEW r \in Routes
      PROVE  LET b == Retired(T, now, "superseded")[r]
             IN /\ b \in Attempt
                /\ b.round = att[r].round /\ b.gen = att[r].gen /\ b.retries = att[r].retries
                /\ b.status = IF r \in T /\ att[r].status \in Unclaimed THEN "superseded"
                              ELSE att[r].status
  <2>1. att[r] \in Attempt
    BY DEF TypeOK
  <2>2. PICK s \in Nat \cup {NoStamp} : s = Stamp(r, now)
    BY <2>1 DEF Stamp, Attempt
  <2>3. PICK st : st = IF r \in T /\ att[r].status \in Unclaimed THEN "superseded" ELSE att[r].status
    OBVIOUS
  <2>4. PICK b : b = [att[r] EXCEPT !.status = st, !.stamp = s]
    OBVIOUS
  <2>5. Retired(T, now, "superseded")[r] = b
    BY <2>2, <2>3, <2>4 DEF Retired
  <2>6. st \in {"none", "sending"} \cup Unclaimed \cup AttemptEnd
    BY <2>1, <2>3 DEF Attempt, AttemptEnd
  <2>7. /\ b \in Attempt /\ b.status = st
        /\ b.round = att[r].round /\ b.gen = att[r].gen /\ b.retries = att[r].retries
    BY <2>1, <2>2, <2>4, <2>6 DEF Attempt
  <2> QED BY <2>3, <2>5, <2>7
<1>2. DOMAIN Retired(T, now, "superseded") = Routes
  BY DEF Retired
<1>3. Retired(T, now, "superseded") \in [Routes -> Attempt]
  BY <1>1 DEF Retired
<1> QED BY <1>1, <1>3

\* What the decision to close says of the expiry.
LEMMA DecisionExpiry ==
  ASSUME NEW now, NEW E
  PROVE  /\ Decision(now, E) = "T12" => ExpiryReached(now)
         /\ ExpiryReached(now) /\ OutcomeRule # "delivered" => Decision(now, E) = "T12"
<1>1. ASSUME Decision(now, E) = "T12" PROVE ExpiryReached(now)
  <2>1. \A r : FallbackDecision(r, now, E) # "T12"
    BY DEF FallbackDecision
  <2> QED BY <1>1, <2>1 DEF Decision
<1>2. ASSUME ExpiryReached(now), OutcomeRule # "delivered" PROVE Decision(now, E) = "T12"
  BY <1>2 DEF Decision
<1> QED BY <1>1, <1>2

\* EvaluateClose.
LEMMA ClosePreserves ==
  ASSUME IInv, NEW E \in SUBSET Routes, EvaluateClose(E)
  PROVE  IInv'
<1>0. TypeOK /\ ClockOK /\ OutcomeOK /\ in \in Intent
  BY DEF IInv, TypeOK
<1>1. PICK now \in Nat : now = ElapsedMs /\ Max2(in.elapsed, ElapsedMs) = now
  BY <1>0, ClockNumbers, ElapsedAhead DEF EvaluateClose
<1>2. PICK dec : dec = Decision(now, E)
  OBVIOUS
<1>3. PICK o : o = IF dec = "T12" /\ OutcomeRule = "failed" THEN "expired" ELSE OutcomeRule
  OBVIOUS
<1>4. PICK t \in BOOLEAN, dup \in BOOLEAN : t = (dec = "T12") /\ (dup <=> PossibleDuplicate)
  OBVIOUS
<1>5. /\ in' = [in EXCEPT !.state = "closed", !.outcome = o, !.dirty = FALSE, !.elapsed = now,
                          !.dup = dup, !.t12 = t]
      /\ att' = Retired(Routes, now, "superseded") /\ clock' = NoBase /\ in.state = "active"
      /\ UNCHANGED <<up, ready, beat, plan, tx, ev, worker, crashes, lost, air, uptime>>
  <2>1. dup = PossibleDuplicate
    BY <1>4 DEF PossibleDuplicate
  <2>2. Closed(now, o) = [in EXCEPT !.state = "closed", !.outcome = o, !.dirty = FALSE, !.elapsed = now]
    BY <1>1 DEF Closed
  <2>3. in' = [Closed(now, o) EXCEPT !.dup = dup, !.t12 = t]
    BY <1>1, <1>2, <1>3, <1>4, <2>1 DEF EvaluateClose
  <2>4. in' = [in EXCEPT !.state = "closed", !.outcome = o, !.dirty = FALSE, !.elapsed = now,
                         !.dup = dup, !.t12 = t]
    BY <1>0, <2>2, <2>3 DEF Intent
  <2> QED BY <1>1, <2>4 DEF EvaluateClose
<1>6. o \in Outcome
  BY <1>3, RuleSays DEF Outcome
<1>7. /\ in' \in Intent /\ SameBooks /\ in'.state = "closed" /\ in'.outcome = o /\ in'.t12 = t
      /\ in'.dup = dup /\ in'.cancelled = in.cancelled /\ in'.expiry = in.expiry
      /\ in'.elapsed = now
  BY <1>0, <1>5, <1>6 DEF Intent, SameBooks
<1>8. /\ att' \in [Routes -> Attempt] /\ \A r \in Routes : RetiredRow(r)
  BY <1>0, <1>5, RetiredShape DEF RetiredRow
<1>9. TypeOK'
  BY <1>0, <1>5, <1>7, <1>8 DEF TypeOK
<1>10. RowsOK' /\ AirOK' /\ RoundsOK' /\ BooksOK' /\ SumOK'
  BY <1>5, <1>7, <1>8, <1>9, RetiresKeeps DEF Retires
<1>11. FreshOK' /\ ClockOK'
  BY <1>0, <1>5, <1>7 DEF FreshOK, ClockOK
<1>12. OutcomeOK'
  <2>1. ~in.cancelled
    BY <1>0, <1>5 DEF OutcomeOK
  <2>2. ExpiryReached(in.elapsed)' <=> ExpiryReached(now)
    BY <1>7 DEF ExpiryReached
  <2>3. /\ t => ExpiryReached(now)
        /\ OutcomeRule = "failed" /\ ~t => ~ExpiryReached(now)
    BY <1>2, <1>4, DecisionExpiry
  <2>4. ClosedOutcome' = o
    BY <1>3, <1>4, <1>5, <1>7, <2>1, <2>2, <2>3, SameRecords DEF ClosedOutcome
  <2> QED BY <1>4, <1>5, <1>7, <2>2, <2>3, <2>4, OutcomeCloses
<1> QED BY <1>9, <1>10, <1>11, <1>12 DEF IInv

\* EvaluateOpen.
LEMMA OpenPreserves ==
  ASSUME IInv, NEW E \in SUBSET Routes, EvaluateOpen(E)
  PROVE  IInv'
<1>0. TypeOK /\ ClockOK /\ OutcomeOK /\ in \in Intent
  BY DEF IInv, TypeOK
<1>1. PICK now \in Nat : now = ElapsedMs
  BY <1>0, ClockNumbers
<1>2. PICK o : o = IF Decision(now, E) = "T10" THEN OutcomeRule ELSE in.outcome
  OBVIOUS
<1>3. PICK dup \in BOOLEAN : dup <=> PossibleDuplicate
  OBVIOUS
<1>4. /\ in' = [in EXCEPT !.outcome = o, !.dup = dup, !.dirty = FALSE]
      /\ att' = Retired({}, now, "superseded") /\ clock' = now /\ in.state = "active"
      /\ UNCHANGED <<up, ready, beat, plan, tx, ev, worker, crashes, lost, air, uptime>>
  <2>1. dup = PossibleDuplicate
    BY <1>3 DEF PossibleDuplicate
  <2> QED BY <1>1, <1>2, <2>1 DEF EvaluateOpen
<1>5. o \in Outcome
  BY <1>0, <1>2, RuleSays DEF Outcome, Intent
<1>6. /\ in' \in Intent /\ SameBooks /\ in'.state = in.state /\ in'.elapsed = in.elapsed
      /\ in'.cancelled = in.cancelled /\ in'.t12 = in.t12
  BY <1>0, <1>4, <1>5 DEF Intent, SameBooks
<1>7. /\ att' \in [Routes -> Attempt] /\ \A r \in Routes : RetiredRow(r)
  BY <1>0, <1>4, RetiredShape DEF RetiredRow
<1>8. TypeOK'
  BY <1>0, <1>4, <1>6, <1>7 DEF TypeOK
<1>9. RowsOK' /\ AirOK' /\ RoundsOK' /\ BooksOK' /\ SumOK'
  BY <1>4, <1>6, <1>7, <1>8, RetiresKeeps DEF Retires
<1>10. ClockOK'
  BY <1>0, <1>1, <1>4, <1>6, ClockReads DEF ClockRead
<1>11. FreshOK' /\ OutcomeOK'
  BY <1>0, <1>4, <1>6 DEF FreshOK, OutcomeOK
<1> QED BY <1>8, <1>9, <1>10, <1>11 DEF IInv

\* Cancel.
LEMMA CancelPreserves ==
  ASSUME IInv, Cancel
  PROVE  IInv'
<1>0. TypeOK /\ ClockOK /\ OutcomeOK /\ in \in Intent
  BY DEF IInv, TypeOK
<1>1. PICK now \in Nat : now = ElapsedMs /\ Max2(in.elapsed, ElapsedMs) = now
  BY <1>0, ClockNumbers, ElapsedAhead DEF Cancel
<1>2. PICK o : o = IF OutcomeRule = "failed" THEN "cancelled" ELSE OutcomeRule
  OBVIOUS
<1>3. /\ in' = [in EXCEPT !.state = "closed", !.outcome = o, !.dirty = FALSE, !.elapsed = now,
                          !.cancelled = TRUE]
      /\ clock' = NoBase /\ in.state = "active"
      /\ UNCHANGED <<up, ready, beat, plan, tx, ev, worker, crashes, lost, air, uptime>>
  <2>1. Closed(now, o) = [in EXCEPT !.state = "closed", !.outcome = o, !.dirty = FALSE, !.elapsed = now]
    BY <1>1 DEF Closed
  <2>2. in' = [Closed(now, o) EXCEPT !.cancelled = TRUE]
    BY <1>1, <1>2 DEF Cancel
  <2>3. in' = [in EXCEPT !.state = "closed", !.outcome = o, !.dirty = FALSE, !.elapsed = now,
                         !.cancelled = TRUE]
    BY <1>0, <2>1, <2>2 DEF Intent
  <2> QED BY <2>3 DEF Cancel
<1>4. o \in Outcome
  BY <1>2, RuleSays DEF Outcome
<1>5. /\ in' \in Intent /\ SameBooks /\ in'.state = "closed" /\ in'.outcome = o /\ in'.t12 = in.t12
      /\ in'.cancelled
  BY <1>0, <1>3, <1>4 DEF Intent, SameBooks
<1>6. att' = [r \in Routes |->
                [att[r] EXCEPT !.status = IF att[r].status \in Unclaimed THEN "cancelled"
                                          ELSE att[r].status]]
  BY DEF Cancel
<1>7. ASSUME NEW r \in Routes PROVE att'[r] \in Attempt /\ RetiredRow(r)
  <2>1. att[r] \in Attempt
    BY <1>0 DEF TypeOK
  <2>2. PICK st : st = IF att[r].status \in Unclaimed THEN "cancelled" ELSE att[r].status
    OBVIOUS
  <2>3. att'[r] = [att[r] EXCEPT !.status = st]
    BY <1>6, <2>2
  <2>4. st \in {"none", "sending"} \cup Unclaimed \cup AttemptEnd
    BY <2>1, <2>2 DEF Attempt, AttemptEnd
  <2>5. /\ att'[r] \in Attempt /\ att'[r].status = st /\ att'[r].round = att[r].round
        /\ att'[r].gen = att[r].gen /\ att'[r].retries = att[r].retries
    BY <2>1, <2>3, <2>4 DEF Attempt
  <2> QED BY <2>2, <2>5 DEF RetiredRow
<1>8. att' \in [Routes -> Attempt]
  BY <1>6, <1>7
<1>9. TypeOK'
  BY <1>0, <1>3, <1>5, <1>8 DEF TypeOK
<1>10. RowsOK' /\ AirOK' /\ RoundsOK' /\ BooksOK' /\ SumOK'
  BY <1>3, <1>5, <1>7, <1>9, RetiresKeeps DEF Retires
<1>11. FreshOK' /\ ClockOK'
  BY <1>0, <1>3, <1>5 DEF FreshOK, ClockOK
<1>12. OutcomeOK'
  <2>1. ~in.t12
    BY <1>0, <1>3 DEF OutcomeOK
  <2>2. ClosedOutcome' = o
    BY <1>2, <1>3, <1>5, SameRecords DEF ClosedOutcome
  <2> QED BY <1>3, <1>5, <2>1, <2>2, OutcomeCloses
<1> QED BY <1>9, <1>10, <1>11, <1>12 DEF IInv

\* CreateSubmission: a fallback starts with one route, and a plan nothing admits
\* is closed as failed at once.
LEMMA CreatePreserves ==
  ASSUME IInv, NEW q \in Requests, NEW X \in SUBSET Routes, CreateSubmission(q, X)
  PROVE  IInv'
<1>0. TypeOK /\ ClockOK /\ RowsOK /\ FreshOK /\ in \in Intent /\ in.state = "none"
  BY DEF IInv, TypeOK, CreateSubmission
<1>1. q \in Request
  BY IntentAssumption
<1>2. PICK first : first = FirstRound(q.plan, q.strategy, X)
  OBVIOUS
<1>3. PICK st \in {"active", "closed"}, o \in {"pending", "failed"} :
        /\ st = (IF first = {} THEN "closed" ELSE "active")
        /\ o = (IF first = {} THEN "failed" ELSE "pending")
  BY Zenon
<1>4. /\ in' = [in EXCEPT !.state = st, !.outcome = o, !.strategy = q.strategy, !.round = 1,
                          !.expiry = q.expiry]
      /\ plan' = q.plan
      /\ att' = [r \in Routes |-> IF r \in first
                                  THEN [att[r] EXCEPT !.status = "queued", !.round = 1]
                                  ELSE att[r]]
      /\ UNCHANGED <<up, ready, clock, beat, tx, ev, worker, crashes, lost, air, uptime>>
  BY <1>2, <1>3 DEF CreateSubmission
<1>5. q.plan \in [Routes -> Entry] /\ q.strategy \in Strategy /\ q.expiry \in Nat
  BY <1>1 DEF Request
<1>6. /\ in' \in Intent /\ in'.state = st /\ in'.outcome = o /\ in'.strategy = q.strategy
      /\ in'.round = 1 /\ in'.expiry = q.expiry /\ in'.elapsed = in.elapsed /\ in'.dup = in.dup
      /\ in'.cancelled = in.cancelled /\ in'.t12 = in.t12 /\ in'.reserved = in.reserved
      /\ in'.incurred = in.incurred /\ in'.possible = in.possible
  BY <1>0, <1>4, <1>5 DEF Intent, Outcome
<1>7. ASSUME NEW r \in Routes
      PROVE  /\ att'[r] \in Attempt /\ att'[r].gen = att[r].gen /\ att'[r].retries = att[r].retries
             /\ \/ r \in first /\ att'[r].status = "queued" /\ att'[r].round = 1
                \/ r \notin first /\ att'[r] = att[r]
  <2>1. att[r] \in Attempt
    BY <1>0 DEF TypeOK
  <2>2. CASE r \in first
    <3>1. att'[r] = [att[r] EXCEPT !.status = "queued", !.round = 1]
      BY <1>4, <2>2
    <3>2. PICK b : b = [att[r] EXCEPT !.status = "queued", !.round = 1]
      OBVIOUS
    <3>3. /\ b \in Attempt /\ b.status = "queued" /\ b.round = 1
          /\ b.gen = att[r].gen /\ b.retries = att[r].retries
      BY <2>1, <3>2 DEF Attempt, Unclaimed
    <3> QED BY <2>2, <3>1, <3>2, <3>3
  <2>3. CASE r \notin first
    BY <1>4, <2>1, <2>3
  <2> QED BY <2>2, <2>3
<1>8. att' \in [Routes -> Attempt]
  BY <1>4, <1>7
<1>9. TypeOK'
  BY <1>0, <1>4, <1>5, <1>6, <1>8 DEF TypeOK
<1>10. \A r \in Routes : /\ att[r].status = "none" /\ worker[r] = "none"
                         /\ att[r].gen = 0 /\ att[r].retries = 0
                         /\ \A g \in Gens : tx[r][g] = NoTx
  BY <1>0 DEF FreshOK, RowsOK, RowOK
<1>11. RowsOK'
  <2>1. crashes' <= MaxCrashes
    BY <1>0, <1>4 DEF RowsOK
  <2>2. ASSUME NEW r \in Routes
        PROVE  RowOK(att'[r], tx'[r], worker'[r], plan'[r].price, in'.round, up', crashes')
    <3>1. /\ att'[r].gen = 0 /\ att'[r].retries = 0 /\ worker'[r] = "none"
          /\ att'[r].status \in {"none", "queued"} /\ (att'[r].status = "queued" => att'[r].round = 1)
          /\ \A g \in Gens : tx'[r][g] = NoTx
      BY <1>4, <1>7, <1>10
    <3>2. 0 < MaxRetries /\ 0 <= MaxClaims + 0 + crashes' /\ crashes' \in Nat
      <4>1. crashes' \in Nat
        BY <1>9 DEF TypeOK
      <4>2. MaxRetries \in Nat \ {0} /\ MaxClaims \in Nat
        BY Numbers
      <4>3. 0 < MaxRetries
        BY <4>2
      <4>4. 0 <= MaxClaims + 0 + crashes'
        <5>1. PICK c \in Nat : c = crashes'
          BY <4>1
        <5>2. MaxClaims + 0 + c >= 0
          BY <4>2
        <5> QED BY <4>2, <5>1, <5>2
      <4> QED BY <4>1, <4>3, <4>4
    <3>3. \A g \in Gens : NoTx \in Fit(att'[r].status, worker'[r], plan'[r].price) /\ NoTx \in Over
      BY <3>1 DEF Fit, Over
    <3> QED BY <1>6, <3>1, <3>2, <3>3 DEF RowOK, Unclaimed
  <2> QED BY <2>1, <2>2 DEF RowsOK
<1>12. AirOK'
  BY <1>4 DEF IInv, AirOK, MayHaveLeft, Heard
<1>13. \A r \in Routes : att'[r].status \in {"none", "queued"}
  BY <1>7, <1>10
<1>14. RoundsOK'
  <2>1. PaidUnknownIsLast'
    BY <1>13 DEF PaidUnknownIsLast
  <2>2. ASSUME q.strategy = "ordered_fallback", NEW r \in Routes, att'[r].status # "none",
               NEW p \in Routes, p > r
        PROVE  att'[p].status = "none"
    <3>1. first = {} \/ \E l : first = {l}
      BY <1>2, <2>2 DEF FirstRound
    <3>2. r \in first
      BY <1>7, <1>10, <2>2
    <3>3. r # p
      BY <2>2, Numbers
    <3> QED BY <1>7, <1>10, <3>1, <3>2, <3>3
  <2> QED BY <1>6, <2>1, <2>2 DEF RoundsOK
<1>15. BooksOK'
  BY <1>6 DEF IInv, BooksOK, CapRespected
<1>16. \A r \in Routes : Held(r)' = Held(r)
  BY <1>10, <1>13 DEF Held
<1>17. SumOK'
  BY <1>6, <1>16 DEF IInv, SumOK
<1>18. FreshOK'
  BY <1>6 DEF FreshOK
<1>19. ClockOK'
  <2>1. beat' = 0 /\ uptime' = 0 /\ clock' = NoBase /\ in'.elapsed = 0
    BY <1>0, <1>4, <1>6 DEF FreshOK
  <2> QED BY <2>1, Numbers DEF ClockOK
<1>20. OutcomeOK'
  <2>1. ~in.cancelled /\ ~in.t12 /\ ~in.dup /\ ev = {} /\ in.elapsed = 0
    BY <1>0 DEF FreshOK
  <2>2. ~ExpiryReached(in.elapsed)'
    BY <1>5, <1>6, <2>1 DEF ExpiryReached
  <2>3. \A r \in Routes, g \in Gens : ~MayHaveLeft(r, g) /\ tx[r][g].state # "done"
    BY <1>10 DEF MayHaveLeft, NoTx
  <2>4. OutcomeRule = "failed" /\ ~PossibleDuplicate
    BY <2>1, <2>3 DEF OutcomeRule, Completed, Heard, PossibleDuplicate
  <2>5. ClosedOutcome' = "failed"
    BY <1>4, <1>6, <2>1, <2>2, <2>4, SameRecords DEF ClosedOutcome
  <2>6. CASE st = "active"
    BY <1>6, <2>1, <2>6 DEF OutcomeOK
  <2>7. CASE st = "closed"
    BY <1>3, <1>4, <1>6, <2>1, <2>4, <2>5, <2>7, OutcomeCloses
  <2> QED BY <2>6, <2>7
<1> QED BY <1>9, <1>11, <1>12, <1>14, <1>15, <1>17, <1>18, <1>19, <1>20 DEF IInv

\* A set of positions that is not empty has a first one.
LEMMA FirstOf ==
  ASSUME NEW S \in SUBSET Nat, S # {}
  PROVE  Least(S) \in S /\ \A j \in S : Least(S) <= j
<1>1. PICK R : R = OpToRel(<, Nat)
  OBVIOUS
<1>2. IsWellFoundedOn(R, Nat)
  BY <1>1, NatLessThanWellFounded
<1>3. PICK i \in S : \A j \in S : ~(<<j, i>> \in R)
  BY <1>2, WFMin
<1>4. \A j \in S : ~(j < i)
  BY <1>1, <1>3 DEF OpToRel
<1>5. \A j \in S : i <= j
  BY <1>4
<1> QED BY <1>5 DEF Least

\* What a decision to go on says: the round has one attempt, it is over or waits,
\* no paid one is unknown, and there is a later route.
LEMMA DecisionAdvance ==
  ASSUME TypeOK, NEW now, NEW E, Decision(now, E) \in {"T3", "T4", "T5", "T8"}
  PROVE  /\ in.strategy = "ordered_fallback"
         /\ ~\E r \in ActiveRows : att[r].status = "unknown" /\ plan[r].paid
         /\ \E r \in Routes : /\ ActiveRows = {r} /\ Least(ActiveRows) = r
                              /\ att[r].status # "sending" /\ Later(r, E) # {}
<1>1. /\ in.strategy = "ordered_fallback" /\ Cardinality(ActiveRows) = 1
      /\ ~\E r \in ActiveRows : att[r].status = "unknown" /\ plan[r].paid
      /\ FallbackDecision(Least(ActiveRows), now, E) \in {"T3", "T4", "T5", "T8"}
  BY DEF Decision, Paid
<1>2. IsFiniteSet(ActiveRows)
  <2>1. 1 \in Int /\ N \in Int
    BY Numbers
  <2>2. IsFiniteSet(Routes)
    BY <2>1, FS_Interval DEF Routes
  <2>3. ActiveRows \in SUBSET Routes
    BY DEF ActiveRows
  <2> QED BY <2>2, <2>3, FS_Subset
<1>3. PICK r : ActiveRows = {r}
  BY <1>1, <1>2, FS_Singleton
<1>4. r \in Routes /\ r \in ActiveRows
  BY <1>3 DEF ActiveRows
<1>5. r \in Nat
  BY <1>4, Numbers
<1>6. Least({r}) = r
  BY <1>5, FirstOf
<1>7. att[r].status # "sending" /\ Later(r, E) # {}
  BY <1>1, <1>3, <1>6 DEF FallbackDecision, Unclaimed
<1> QED BY <1>1, <1>3, <1>4, <1>6, <1>7

\* EvaluateAdvance: nothing of the intent is in flight, and the next route had no
\* attempt.
LEMMA AdvancePreserves ==
  ASSUME IInv, NEW E \in SUBSET Routes, EvaluateAdvance(E)
  PROVE  IInv'
<1>0. TypeOK /\ ClockOK /\ RowsOK /\ RoundsOK /\ OutcomeOK /\ in \in Intent /\ in.state = "active"
  BY DEF IInv, TypeOK, EvaluateAdvance
<1>1. PICK now \in Nat : now = ElapsedMs
  BY <1>0, ClockNumbers
<1>2. Decision(now, E) \in {"T3", "T4", "T5", "T8"}
  BY <1>1 DEF EvaluateAdvance
<1>3. PICK r \in Routes : /\ ActiveRows = {r} /\ Least(ActiveRows) = r
                          /\ att[r].status # "sending" /\ Later(r, E) # {}
  BY <1>0, <1>2, DecisionAdvance
<1>4. /\ in.strategy = "ordered_fallback"
      /\ ~\E q \in ActiveRows : att[q].status = "unknown" /\ plan[q].paid
  BY <1>0, <1>2, DecisionAdvance
<1>5. PICK next : next = Least(Later(r, E))
  OBVIOUS
<1>6. next \in Routes /\ next > r
  <2>1. Later(r, E) \in SUBSET Nat /\ Later(r, E) \subseteq Routes
    BY Numbers DEF Later
  <2>2. next \in Later(r, E)
    BY <1>3, <1>5, <2>1, FirstOf
  <2> QED BY <2>1, <2>2 DEF Later
<1>7. PICK k \in Nat : k = in.round + 1
  BY <1>0 DEF Intent
<1>8. PICK dup \in BOOLEAN : dup <=> PossibleDuplicate
  OBVIOUS
<1>9. PICK R : R = Retired(ActiveRows, now, "superseded")
  OBVIOUS
<1>10. /\ att' = [R EXCEPT ![next].status = "queued", ![next].round = k]
       /\ in' = [in EXCEPT !.round = k, !.started = now, !.dirty = FALSE, !.dup = dup]
       /\ clock' = now
       /\ UNCHANGED <<up, ready, beat, plan, tx, ev, worker, crashes, lost, air, uptime>>
  <2>1. dup = PossibleDuplicate
    BY <1>8 DEF PossibleDuplicate
  <2> QED BY <1>1, <1>3, <1>5, <1>7, <1>9, <2>1 DEF EvaluateAdvance
<1>11. /\ in' \in Intent /\ in'.state = "active" /\ in'.round = k /\ in'.strategy = in.strategy
       /\ in'.elapsed = in.elapsed /\ in'.cancelled = in.cancelled /\ in'.t12 = in.t12
       /\ in'.reserved = in.reserved /\ in'.incurred = in.incurred /\ in'.possible = in.possible
  BY <1>0, <1>10 DEF Intent
<1>12. /\ R \in [Routes -> Attempt]
       /\ \A q \in Routes :
            /\ R[q].round = att[q].round /\ R[q].gen = att[q].gen /\ R[q].retries = att[q].retries
            /\ R[q].status = IF q \in ActiveRows /\ att[q].status \in Unclaimed THEN "superseded"
                             ELSE att[q].status
  BY <1>0, <1>9, RetiredShape
<1>13. PICK b : b = [R[next] EXCEPT !.status = "queued", !.round = k]
  OBVIOUS
<1>14. /\ b \in Attempt /\ b.status = "queued" /\ b.round = k /\ b.gen = att[next].gen
       /\ b.retries = att[next].retries
  BY <1>6, <1>12, <1>13 DEF Attempt, Unclaimed
<1>15. att' = [R EXCEPT ![next] = b]
  BY <1>6, <1>10, <1>12, <1>13
<1>16. /\ att' \in [Routes -> Attempt] /\ att'[next] = b
       /\ \A q \in Routes : q # next => att'[q] = R[q]
  BY <1>6, <1>12, <1>14, <1>15
<1>17. TypeOK'
  BY <1>0, <1>10, <1>11, <1>16 DEF TypeOK
<1>18. att[next].status = "none"
  <2>1. r \in ActiveRows
    BY <1>3
  <2> QED BY <1>0, <1>4, <1>6, <2>1 DEF RoundsOK, ActiveRows
<1>19. \A q \in Routes : att[q].status # "sending"
  <2>1. ASSUME NEW q \in Routes, att[q].status = "sending" PROVE FALSE
    <3>1. att[q].round = in.round
      BY <1>0, <2>1, WorkerRow
    <3>2. q \in ActiveRows
      BY <2>1, <3>1 DEF ActiveRows
    <3> QED BY <1>3, <2>1, <3>2
  <2> QED BY <2>1
<1>20. \A q \in Routes : q # next =>
         /\ att'[q].round = att[q].round /\ att'[q].gen = att[q].gen
         /\ att'[q].retries = att[q].retries
         /\ \/ att'[q].status = att[q].status
            \/ att[q].status \in Unclaimed /\ att'[q].status = "superseded"
  BY <1>12, <1>16
<1>21. RowsOK'
  <2>1. crashes' <= MaxCrashes
    BY <1>0, <1>10 DEF RowsOK
  <2>2. ASSUME NEW q \in Routes
        PROVE  RowOK(att'[q], tx'[q], worker'[q], plan'[q].price, in'.round, up', crashes')
    <3>1. PICK a \in Attempt, c \in Attempt : a = att[q] /\ c = att'[q]
      BY <1>0, <1>16 DEF TypeOK
    <3>2. RowOK(a, tx[q], worker[q], plan[q].price, in.round, up, crashes) /\ a.status # "sending"
      BY <1>0, <1>19, <3>1 DEF RowsOK
    <3>3. worker[q] = "none"
      BY <3>2 DEF RowOK
    <3>4. in.round \in Nat /\ crashes \in Nat /\ MaxClaims \in Nat /\ 0 < MaxRetries
      BY <1>0, Numbers DEF TypeOK, Intent
    <3>5. CASE q = next
      <4>1. a.gen = 0 /\ a.retries = 0 /\ c.status = "queued" /\ c.gen = 0 /\ c.retries = 0 /\ c.round = k
        BY <1>14, <1>16, <1>18, <3>1, <3>2, <3>5 DEF RowOK
      <4>2. \A g \in Gens : /\ g > c.gen => tx[q][g] = NoTx
                            /\ g < c.gen => tx[q][g] \in Over
                            /\ g = c.gen => tx[q][g] \in Over
        BY <1>18, <3>1, <3>2, <3>5, <4>1 DEF RowOK, Fit
      <4>3. k \in 1..k /\ 0 <= MaxClaims + 0 + crashes
        BY <1>7, <3>4
      <4>4. RowOK(c, tx[q], worker[q], plan[q].price, k, up, crashes)
        BY <3>3, <3>4, <4>1, <4>2, <4>3 DEF RowOK, Fit, Unclaimed
      <4> QED BY <1>10, <1>11, <3>1, <4>4
    <3>6. CASE q # next
      <4>1. /\ c.round = a.round /\ c.gen = a.gen /\ c.retries = a.retries
            /\ c.status = a.status \/ (a.status \in Unclaimed /\ c.status = "superseded")
        BY <1>20, <3>1, <3>6
      <4>2. a.status # "none" => a.round \in 1..k
        BY <1>7, <3>2, <3>4 DEF RowOK
      <4>3. CASE c.status = a.status
        <5>1. RowOK(c, tx[q], worker[q], plan[q].price, k, up, crashes)
          BY <3>2, <3>3, <4>1, <4>2, <4>3 DEF RowOK
        <5> QED BY <1>10, <1>11, <3>1, <5>1
      <4>4. CASE a.status \in Unclaimed /\ c.status = "superseded"
        <5>1. RowOK(c, tx[q], worker[q], plan[q].price, k, up, crashes)
          BY <3>2, <3>3, <4>1, <4>2, <4>4 DEF RowOK, Fit, Unclaimed
        <5> QED BY <1>10, <1>11, <3>1, <5>1
      <4> QED BY <4>1, <4>3, <4>4
    <3> QED BY <3>5, <3>6
  <2> QED BY <2>1, <2>2 DEF RowsOK
<1>22. AirOK'
  BY <1>10 DEF IInv, AirOK, MayHaveLeft, Heard
<1>23. RoundsOK'
  <2>1. ASSUME NEW q \in Routes, att'[q].status # "none", att'[q].round = k,
               NEW p \in Routes, p > q
        PROVE  att'[p].status = "none"
    <3>1. q = next
      <4>1. SUFFICES ASSUME q # next PROVE FALSE
        OBVIOUS
      <4>2. att[q].status # "none" /\ att[q].round = k
        BY <1>20, <2>1, <4>1 DEF Unclaimed
      <4>3. att[q].round \in 1..in.round
        BY <1>0, <4>2 DEF RowsOK, RowOK
      <4> QED BY <1>0, <1>7, <4>2, <4>3 DEF Intent
    <3>2. p > r /\ p # next
      BY <1>6, <2>1, <3>1, Numbers
    <3>3. r \in ActiveRows
      BY <1>3
    <3>4. att[p].status = "none"
      BY <1>0, <1>4, <3>2, <3>3 DEF RoundsOK, ActiveRows
    <3> QED BY <1>20, <3>2, <3>4 DEF Unclaimed
  <2>2. ASSUME NEW q \in Routes, plan[q].paid, att'[q].status = "unknown" PROVE FALSE
    <3>1. q # next /\ att[q].status = "unknown"
      BY <1>14, <1>16, <1>20, <2>2
    <3>2. att[q].round = in.round
      BY <1>0, <1>4, <2>2, <3>1 DEF RoundsOK, PaidUnknownIsLast
    <3> QED BY <1>4, <2>2, <3>1, <3>2 DEF ActiveRows
  <2>3. PaidUnknownIsLast'
    BY <1>10, <2>2 DEF PaidUnknownIsLast
  <2> QED BY <1>11, <2>1, <2>3 DEF RoundsOK
<1>24. BooksOK'
  BY <1>11 DEF IInv, BooksOK, CapRespected
<1>25. \A q \in Routes : att'[q].status # "sending"
  BY <1>14, <1>16, <1>19, <1>20
<1>26. \A q \in Routes : Held(q)' = Held(q)
  BY <1>19, <1>25 DEF Held
<1>27. SumOK'
  BY <1>11, <1>26 DEF IInv, SumOK
<1>28. ClockOK'
  BY <1>0, <1>1, <1>10, <1>11, ClockReads DEF ClockRead
<1>29. FreshOK' /\ OutcomeOK'
  BY <1>0, <1>11 DEF FreshOK, OutcomeOK
<1> QED BY <1>17, <1>21, <1>22, <1>23, <1>24, <1>27, <1>28, <1>29 DEF IInv

-----------------------------------------------------------------------------
(* The invariant holds. *)

\* It holds at first.
LEMMA InitHolds ==
  ASSUME Init
  PROVE  IInv
<1>1. TypeOK
  <2>1. in \in Intent
    BY DEF Init, Intent, Strategy, Outcome
  <2>2. NoEntry \in Entry
    BY DEF NoEntry, Entry
  <2>3. plan \in [Routes -> Entry]
    BY <2>2 DEF Init
  <2>4. [status |-> "none", round |-> 0, gen |-> 0, retries |-> 0, stamp |-> NoStamp] \in Attempt
    BY DEF Attempt
  <2>5. att \in [Routes -> Attempt]
    BY <2>4 DEF Init
  <2>6. NoTx \in Transmission
    BY DEF NoTx, Transmission, SendClass
  <2>7. tx \in [Routes -> [Gens -> Transmission]]
    BY <2>6 DEF Init
  <2>8. worker \in [Routes -> WorkerAt]
    BY DEF Init, WorkerAt
  <2> QED BY <2>1, <2>3, <2>5, <2>7, <2>8 DEF Init, TypeOK
<1>2. \A r \in Routes : /\ att[r].status = "none" /\ att[r].gen = 0 /\ att[r].retries = 0
                        /\ worker[r] = "none" /\ \A g \in Gens : tx[r][g] = NoTx
  BY DEF Init
<1>3. RowsOK
  <2>1. crashes <= MaxCrashes
    BY Numbers DEF Init
  <2>2. ASSUME NEW r \in Routes
        PROVE  RowOK(att[r], tx[r], worker[r], plan[r].price, in.round, up, crashes)
    BY <1>2 DEF RowOK, Fit, Over, Unclaimed
  <2> QED BY <2>1, <2>2 DEF RowsOK
<1>4. AirOK /\ RoundsOK
  BY <1>2 DEF Init, AirOK, Heard, RoundsOK, PaidUnknownIsLast
<1>5. FreshOK
  BY <1>2 DEF Init, FreshOK
<1>6. BooksOK
  BY Numbers DEF Init, BooksOK, CapRespected
<1>7. SumOK
  <2>1. PICK s : s = [n \in 0..N |-> 0]
    OBVIOUS
  <2>2. s \in [0..N -> Int] /\ s[0] = 0 /\ s[N] = in.reserved
    BY <2>1, Numbers DEF Init
  <2>3. ASSUME NEW n \in Routes PROVE s[n] = s[n - 1] + Held(n)
    <3>1. Held(n) = 0
      BY <1>2 DEF Held
    <3>2. n \in 0..N /\ n - 1 \in 0..N
      BY Numbers DEF Routes
    <3> QED BY <2>1, <3>1, <3>2
  <2> QED BY <2>2, <2>3 DEF SumOK
<1>8. ClockOK /\ OutcomeOK
  BY Numbers DEF Init, ClockOK, OutcomeOK
<1> QED BY <1>1, <1>3, <1>4, <1>5, <1>6, <1>7, <1>8 DEF IInv

\* Every step keeps it.
LEMMA NextPreserves ==
  ASSUME IInv, [Next]_vars
  PROVE  IInv'
<1>1. ASSUME NEW q \in Requests, NEW X \in SUBSET Routes, CreateSubmission(q, X) PROVE IInv'
  BY <1>1, CreatePreserves
<1>2. ASSUME NEW r \in Routes,
             \/ ClaimDeliveryForSending(r) \/ WorkerStep(r) \/ RecoverRow(r)
             \/ HoldDelivery(r) \/ UnholdDelivery(r)
      PROVE  IInv'
  BY <1>2, RouteSteps, MovesPreserves
<1>3. ASSUME NEW r \in Routes, NEW g \in Gens, Leave(r, g) PROVE IInv'
  BY <1>3, LeavePreserves
<1>4. ASSUME NEW r \in Routes, NEW g \in Gens, NEW says \in Says, RecordEvidence(r, g, says)
      PROVE  IInv'
  BY <1>4, EvidencePreserves
<1>5. ASSUME NEW E \in SUBSET Routes, Evaluate(E) PROVE IInv'
  BY <1>5, ClosePreserves, AdvancePreserves, OpenPreserves DEF Evaluate
<1>6. CASE ReviewClosedIntent
  BY <1>6, ReviewPreserves
<1>7. CASE Cancel
  BY <1>7, CancelPreserves
<1>8. CASE Heartbeat
  BY <1>8, HeartbeatPreserves
<1>9. CASE Tick
  BY <1>9, TickPreserves
<1>10. CASE SetReady \/ UNCHANGED vars
  BY <1>10, ReadyPreserves
<1>11. CASE Crash
  BY <1>11, CrashPreserves
<1>12. ASSUME NEW down \in 0..MaxDowntime, Start(down) PROVE IInv'
  BY <1>12, StartPreserves
<1> QED BY <1>1, <1>2, <1>3, <1>4, <1>5, <1>6, <1>7, <1>8, <1>9, <1>10, <1>11, <1>12 DEF Next

\* The inductive invariant holds in every reachable state.
THEOREM Invariance == Spec => []IInv
<1>1. Init => IInv
  BY InitHolds
<1>2. IInv /\ [Next]_vars => IInv'
  BY NextPreserves
<1> QED BY <1>1, <1>2, PTL DEF Spec

\* Every variable keeps its type, the numbers of claims and the books included.
THEOREM TypeSafety == Spec => []TypeOK
<1>1. IInv => TypeOK
  BY DEF IInv
<1> QED BY <1>1, Invariance, PTL

\* An attempt leaves the device at most once: only its last claim can have sent
\* anything, and it is claimed again only when nothing left.
THEOREM SentOnceSafety == Spec => []AttemptSentOnce
<1>1. ASSUME IInv, NEW r \in Routes, NEW g \in Gens, <<r, g>> \in air PROVE g = att[r].gen
  <2>1. MayHaveLeft(r, g)
    BY <1>1 DEF IInv, AirOK
  <2>2. RowOK(att[r], tx[r], worker[r], plan[r].price, in.round, up, crashes)
    BY <1>1 DEF IInv, RowsOK
  <2>3. tx[r][g] \notin Over
    BY <2>1 DEF MayHaveLeft, Over, NoTx, DoneTx
  <2>4. g \in Nat /\ att[r].gen \in Nat
    BY <1>1, Numbers DEF IInv, TypeOK, Attempt
  <2> QED BY <2>2, <2>3, <2>4 DEF RowOK, Over
<1>2. IInv => AttemptSentOnce
  BY <1>1 DEF AttemptSentOnce
<1> QED BY <1>2, Invariance, PTL

\* What is reserved, charged or may have been charged stays within the cap, for
\* every cap, every tariff and any number of attempts, crashes and lost writes.
THEOREM CapSafety == Spec => []CapRespected
<1>1. IInv => CapRespected
  BY DEF IInv, BooksOK
<1> QED BY <1>1, Invariance, PTL

\* No further route is tried after a paid one whose outcome is unknown.
THEOREM PaidUnknownSafety == Spec => []PaidUnknownIsLast
<1>1. IInv => PaidUnknownIsLast
  BY DEF IInv, RoundsOK
<1> QED BY <1>1, Invariance, PTL

\* Nothing stays reserved when nothing is in flight.
THEOREM ReservationsSafety == Spec => []ReservationsEnd
<1>1. ASSUME IInv, Quiet PROVE in.reserved = 0
  <2>1. PICK s \in [0..N -> Int] :
          /\ s[0] = 0 /\ s[N] = in.reserved /\ \A n \in Routes : s[n] = s[n - 1] + Held(n)
    BY <1>1 DEF IInv, SumOK
  <2>2. \A n \in Routes : Held(n) = 0
    BY <1>1 DEF Quiet, Held
  <2> DEFINE Bad == {n \in 0..N : s[n] # 0}
  <2>3. Bad = {}
    <3>1. SUFFICES ASSUME Bad # {} PROVE FALSE
      OBVIOUS
    <3>2. Bad \in SUBSET Nat
      BY Numbers
    <3>3. PICK n \in Bad : \A m \in Bad : n <= m
      BY <3>1, <3>2, FirstOf
    <3>4. n \in Routes /\ n - 1 \in 0..N /\ n - 1 < n
      BY <2>1, <3>3, Numbers DEF Routes
    <3>5. n - 1 \notin Bad
      BY <3>2, <3>3, <3>4
    <3>6. s[n - 1] = 0
      BY <3>4, <3>5
    <3> QED BY <2>1, <2>2, <3>3, <3>4, <3>6
  <2>4. N \in 0..N
    BY Numbers
  <2> QED BY <2>1, <2>3, <2>4
<1>2. IInv => ReservationsEnd
  BY <1>1 DEF ReservationsEnd
<1> QED BY <1>2, Invariance, PTL

\* The clock that decides is at most one heartbeat behind the time the process
\* was up, over any number of restarts.
THEOREM ClockSafety == Spec => []ClockNotBehind
<1>1. ASSUME IInv PROVE ClockNotBehind
  <2>1. TypeOK /\ ClockOK
    BY <1>1 DEF IInv
  <2> QED BY <2>1, ClockNumbers DEF ClockNotBehind, ClockOK, ElapsedMs
<1> QED BY <1>1, Invariance, PTL

\* Nothing in flight: no transmission is reserved or out.
LEMMA QuietIsOver ==
  ASSUME IInv, Quiet
  PROVE  AllOver
<1>1. ASSUME NEW r \in Routes, NEW g \in Gens
      PROVE  tx[r][g].state \notin {"authorized", "handed_off"}
  <2>1. RowOK(att[r], tx[r], worker[r], plan[r].price, in.round, up, crashes)
    BY DEF IInv, RowsOK
  <2>2. g \in Nat /\ att[r].gen \in Nat /\ att[r].status # "sending"
    BY Numbers DEF IInv, TypeOK, Attempt, Quiet
  <2>3. tx[r][g] \in {NoTx, DoneTx("not_sent"), DoneTx("accepted"), DoneTx("unknown")}
    BY <2>1, <2>2 DEF RowOK, Fit, Over
  <2> QED BY <2>3 DEF NoTx, DoneTx
<1> QED BY <1>1 DEF AllOver

\* The outcome of a closed intent is the one the rule gives for every answer at
\* once, in whatever order they came.
THEOREM OutcomeSafety == Spec => []ClosedOutcomeIsTheRule
<1>1. IInv => ClosedOutcomeIsTheRule
  BY QuietIsOver DEF IInv, OutcomeOK, ClosedOutcomeIsTheRule
<1> QED BY <1>1, Invariance, PTL

\* An intent that says nothing was sent is right.
THEOREM NothingSentSafety == Spec => []NothingSentIsTrue
<1>1. ASSUME IInv, in.state = "closed", ~in.dirty, Quiet,
             in.outcome \in {"failed", "expired", "cancelled"},
             NEW r \in Routes, NEW g \in Gens, <<r, g>> \in air
      PROVE  Dropped(r, g)
  <2>1. in.outcome = ClosedOutcome
    BY <1>1, QuietIsOver DEF IInv, OutcomeOK
  <2>2. OutcomeRule = "failed"
    BY <1>1, <2>1, RuleSays DEF ClosedOutcome
  <2>3. MayHaveLeft(r, g)
    BY <1>1 DEF IInv, AirOK
  <2> QED BY <2>2, <2>3 DEF OutcomeRule
<1>2. IInv => NothingSentIsTrue
  BY <1>1 DEF NothingSentIsTrue
<1> QED BY <1>2, Invariance, PTL

\* Two copies that went out are reported, unless the sender's cancel closed the
\* intent.
THEOREM DuplicateSafety == Spec => []DuplicateReported
<1>1. ASSUME IInv, NEW r \in Routes, NEW s \in Routes, NEW g \in Gens, NEW h \in Gens,
             in.state = "closed", ~in.dirty, Quiet, ~in.cancelled, r # s,
             <<r, g>> \in air, <<s, h>> \in air, ~Dropped(r, g), ~Dropped(s, h)
      PROVE  in.dup
  <2>1. MayHaveLeft(r, g) /\ MayHaveLeft(s, h)
    BY <1>1 DEF IInv, AirOK
  <2>2. Copies
    BY <1>1, <2>1 DEF Copies
  <2>3. PossibleDuplicate
    BY <2>2, RuleSays
  <2> QED BY <1>1, <2>3, QuietIsOver DEF IInv, OutcomeOK
<1>2. IInv => DuplicateReported
  BY <1>1 DEF DuplicateReported
<1> QED BY <1>2, Invariance, PTL

\* A closed intent with nothing in flight never sends again: the claim asks for
\* an active one, and every other step of a route needs a claim.
THEOREM QuietForGood == Spec => NoSendOnceQuiet
<1>1. ASSUME IInv, [Next]_vars, in.state = "closed", Quiet PROVE Quiet'
  <2>1. ASSUME NEW r \in Routes, Moves(r) PROVE Quiet'
    <3>1. OnRoute(r) /\ att[r].status # "sending"
      BY <1>1, <2>1, RowsMoves DEF IInv, Quiet
    <3>2. att'[r].status # "sending"
      BY <1>1, <2>1, <3>1, WorkerRow DEF Moves, Claims, Parks, Refuses, Loses, Authorizes, HandsOver,
                                         Books, Unclaimed, IInv
    <3> QED BY <1>1, <3>1, <3>2 DEF Quiet, OnRoute
  <2>2. ASSUME NEW r \in Routes,
               \/ ClaimDeliveryForSending(r) \/ WorkerStep(r) \/ RecoverRow(r)
               \/ HoldDelivery(r) \/ UnholdDelivery(r)
        PROVE  Quiet'
    BY <1>1, <2>1, <2>2, RouteSteps
  <2>3. CASE att' = att
    BY <1>1, <2>3 DEF Quiet
  <2>4. \/ att' = att
        \/ \E r \in Routes : \/ ClaimDeliveryForSending(r) \/ WorkerStep(r) \/ RecoverRow(r)
                             \/ HoldDelivery(r) \/ UnholdDelivery(r)
    BY <1>1 DEF Next, vars, durable, CreateSubmission, Leave, RecordEvidence, Evaluate, EvaluateClose,
                EvaluateAdvance, EvaluateOpen, ReviewClosedIntent, Cancel, Heartbeat, Tick, SetReady,
                Crash, Start
  <2> QED BY <2>2, <2>3, <2>4
<1>2. IInv /\ [Next]_vars => (in.state = "closed" /\ Quiet => Quiet')
  BY <1>1
<1> QED BY <1>2, Invariance, PTL DEF Spec, NoSendOnceQuiet
=============================================================================
