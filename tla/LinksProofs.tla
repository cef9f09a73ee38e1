---------------------------- MODULE LinksProofs -----------------------------
(***************************************************************************)
(* That a link whose switch off is through has no delivery worker, for any  *)
(* number of links, devices and handlers.                                   *)
(*                                                                         *)
(* The property is not inductive: a goroutine that has read the row as "on" *)
(* and is about to register the worker would break it.  It cannot, because  *)
(* it holds Dispatcher.mu from the read on, and the switch off has to take  *)
(* that lock to stop the worker before it is through (OwnerOK).             *)
(***************************************************************************)
EXTENDS Links, TLAPS

Goroutines == Handlers \cup {Scanner}

\* A handler at work has a link, the scan at work a list of state changes.
JobOK(g) ==
  /\ "at" \in DOMAIN job[g]
  /\ job[g].at # "idle" =>
       IF g = Scanner THEN "changes" \in DOMAIN job[g]
       ELSE "link" \in DOMAIN job[g] /\ job[g].link \in LinkIds

ShapeOK ==
  /\ DOMAIN job = Goroutines
  /\ DOMAIN db = LinkIds
  /\ "links" \in DOMAIN budget /\ budget.links \subseteq LinkIds
  /\ \A g \in Goroutines : JobOK(g)

\* the link a goroutine starts a worker for
StartsFor(g) == IF g = Scanner THEN Head(job[g].changes)[1] ELSE job[g].link

\* Who holds Dispatcher.mu across its steps is starting a worker for a link whose
\* row was on, and no switch off has come through since.
OwnerOK ==
  \A g \in Goroutines : mu = g => job[g].at = "start" /\ StartsFor(g) \notin off

\* A link that is off by a switch has a row that says so.
OffOK == off \subseteq LinkIds /\ \A l \in off : ~db[l].on

IInv == ShapeOK /\ OwnerOK /\ OffOK /\ SwitchedOffStaysQuiet

-----------------------------------------------------------------------------
(* Changing one field of a job leaves the others.                           *)

\* What EXCEPT does to the stage of a job.
LEMMA StageChanges ==
  ASSUME NEW j, "at" \in DOMAIN j, NEW s
  PROVE  LET k == [j EXCEPT !.at = s]
         IN /\ DOMAIN k = DOMAIN j /\ k.at = s
            /\ "link" \in DOMAIN j => k.link = j.link
            /\ "changes" \in DOMAIN j => k.changes = j.changes
  OBVIOUS

\* What EXCEPT does to the list of a scan.
LEMMA ListChanges ==
  ASSUME NEW j, "at" \in DOMAIN j, "changes" \in DOMAIN j, NEW c
  PROVE  LET k == [j EXCEPT !.changes = c]
         IN DOMAIN k = DOMAIN j /\ k.at = j.at
  OBVIOUS

\* Nobody and the goroutines are told apart.
LEMMA Apart == None \notin Goroutines /\ Scanner \notin Handlers /\ Scanner \in Goroutines
  BY LinksAssumption DEF Goroutines

\* Spending a bound leaves the links of the calls.
LEMMA SpendKeeps ==
  ASSUME NEW b \in {"calls", "plugs", "ticks", "restarts"}, Spend(b), "links" \in DOMAIN budget
  PROVE  "links" \in DOMAIN budget' /\ budget'.links = budget.links
  BY DEF Spend

\* One goroutine moves on, the others stay where they are.
LEMMA OthersStay ==
  ASSUME ShapeOK, NEW g \in Goroutines, NEW j, Goes(g, j)
  PROVE  /\ DOMAIN job' = Goroutines
         /\ job'[g] = j
         /\ \A f \in Goroutines : f # g => job'[f] = job[f]
  BY DEF Goes, ShapeOK

\* Writing a row keeps what is known of the links that are off.
LEMMA WriteKeeps ==
  ASSUME ShapeOK, OffOK, NEW l \in LinkIds, NEW r, WriteRow(l, r)
  PROVE  OffOK' /\ off' \subseteq off /\ DOMAIN db' = LinkIds
  BY DEF ShapeOK, OffOK, WriteRow

\* Init makes no one hold the lock and no link off.
LEMMA InitOK == Init => IInv
<1> SUFFICES ASSUME Init PROVE IInv
  OBVIOUS
<1>1. PICK s \in Starts : /\ db = s.rows /\ budget = s.bounds /\ worker = {} /\ mu = None
                          /\ job = [g \in Handlers \cup {Scanner} |-> Idle] /\ off = {}
  BY DEF Init
<1>2. DOMAIN db = LinkIds /\ "links" \in DOMAIN budget /\ budget.links \subseteq LinkIds
  BY <1>1, LinksAssumption
<1>3. \A g \in Goroutines : JobOK(g)
  BY <1>1 DEF JobOK, Idle, Goroutines
<1> QED
  BY <1>1, <1>2, <1>3, Apart DEF IInv, ShapeOK, OwnerOK, OffOK, SwitchedOffStaysQuiet, Goroutines

-----------------------------------------------------------------------------
(* The three kinds of step of a goroutine.                                  *)

\* what a job k of goroutine g must be like
FitsJob(g, k) ==
  /\ "at" \in DOMAIN k
  /\ k.at # "idle" =>
       IF g = Scanner THEN "changes" \in DOMAIN k ELSE "link" \in DOMAIN k /\ k.link \in LinkIds

\* The rows and the bounds keep their shape.
Framed == DOMAIN db' = LinkIds /\ "links" \in DOMAIN budget' /\ budget'.links \subseteq LinkIds

\* The shape of the state after a goroutine went on to a fitting job.
LEMMA ShapeKept ==
  ASSUME IInv, NEW g \in Goroutines, NEW k, Goes(g, k), FitsJob(g, k), Framed
  PROVE  ShapeOK'
<1>1. \A f \in Goroutines : JobOK(f)'
  <2> TAKE f \in Goroutines
  <2>1. CASE f = g
    BY <2>1, OthersStay DEF IInv, JobOK, FitsJob
  <2>2. CASE f # g
    BY <2>2, OthersStay DEF IInv, JobOK, ShapeOK
  <2> QED
    BY <2>1, <2>2
<1> QED
  BY <1>1, OthersStay DEF IInv, ShapeOK, Framed

\* A goroutine that is not starting a worker goes on, starts none, and no link
\* becomes off: the invariant is kept.
LEMMA CalmStep ==
  ASSUME IInv, NEW g \in Goroutines, NEW k, Goes(g, k), FitsJob(g, k), Framed,
         job[g].at # "start", mu' = mu, OffOK', off' \subseteq off, worker' \subseteq worker
  PROVE  IInv'
<1>1. ShapeOK'
  BY ShapeKept
<1>2. OwnerOK'
  BY OthersStay DEF IInv, OwnerOK, StartsFor
<1> QED
  BY <1>1, <1>2 DEF IInv, SwitchedOffStaysQuiet

\* A goroutine takes the lock for a link whose row is on.
LEMMA LockStep ==
  ASSUME IInv, NEW g \in Goroutines, NEW k, Goes(g, k), FitsJob(g, k), Framed,
         mu' = g, k.at = "start", UNCHANGED <<db, off, worker>>,
         db[IF g = Scanner THEN Head(k.changes)[1] ELSE k.link].on
  PROVE  IInv'
<1>1. ShapeOK'
  BY ShapeKept
<1>2. OwnerOK'
  BY OthersStay DEF IInv, OwnerOK, StartsFor, OffOK
<1> QED
  BY <1>1, <1>2 DEF IInv, SwitchedOffStaysQuiet, OffOK

\* The holder of the lock registers its worker and lets go.
LEMMA UnlockStep ==
  ASSUME IInv, NEW g \in Goroutines, NEW k, WorkerStarted(g, StartsFor(g), k), FitsJob(g, k),
         Framed, UNCHANGED <<db, off>>
  PROVE  IInv'
<1>1. ShapeOK'
  BY ShapeKept DEF WorkerStarted
<1>2. OwnerOK'
  BY Apart DEF OwnerOK, WorkerStarted
<1>3. SwitchedOffStaysQuiet'
  BY DEF IInv, OwnerOK, WorkerStarted, SwitchedOffStaysQuiet
<1> QED
  BY <1>1, <1>2, <1>3 DEF IInv, OffOK

\* Nobody holds the lock, a goroutine goes on, and no worker is started.
LEMMA StopStep ==
  ASSUME IInv, NEW g \in Goroutines, NEW k, Goes(g, k), FitsJob(g, k), Framed,
         mu = None, mu' = None, OffOK', off' \cap worker' = {}
  PROVE  IInv'
<1>1. ShapeOK'
  BY ShapeKept
<1>2. OwnerOK'
  BY Apart DEF OwnerOK
<1> QED
  BY <1>1, <1>2 DEF IInv, SwitchedOffStaysQuiet

\* Only the clock, the bus or the bounds change, not what the invariant reads.
LEMMA AsideStep ==
  ASSUME IInv, UNCHANGED <<db, job, mu, off, worker>>,
         "links" \in DOMAIN budget', budget'.links \subseteq LinkIds
  PROVE  IInv'
  BY DEF IInv, ShapeOK, JobOK, OwnerOK, StartsFor, OffOK, SwitchedOffStaysQuiet

-----------------------------------------------------------------------------
(* One lemma per action.                                                    *)

\* The bounds as they were.
LEMMA FrameKept == IInv /\ UNCHANGED <<db, budget>> => Framed
  BY DEF IInv, ShapeOK, Framed

\* Anyone may be idle.
LEMMA IdleFits == \A g \in Goroutines : FitsJob(g, Idle)
  BY DEF FitsJob, Idle

\* The scan binds devices and notes its state changes.
LEMMA ReconcileOK == ASSUME IInv, NEW order, Reconcile(order) PROVE IInv'
<1>1. PICK c : Goes(Scanner, [at |-> "fire", changes |-> c])
  BY Zenon DEF Reconcile
<1>2. FitsJob(Scanner, [at |-> "fire", changes |-> c])
  BY DEF FitsJob
<1>3. job[Scanner].at # "start" /\ UNCHANGED <<worker, mu, budget>>
      /\ off' = {l \in off : ~db'[l].on}
  <2>1. job[Scanner] = Idle /\ UNCHANGED <<now, bus, needs, worker, wired, mu, budget>>
        /\ off' = {l \in off : ~db'[l].on}
    BY Zenon DEF Reconcile
  <2> QED
    BY <2>1 DEF Idle
<1>4. DOMAIN db' = LinkIds
  BY DEF Reconcile
<1>5. OffOK' /\ off' \subseteq off
  BY <1>3 DEF IInv, OffOK
<1>6. Framed
  BY <1>3, <1>4 DEF Framed, IInv, ShapeOK
<1> QED
  BY <1>1, <1>2, <1>3, <1>5, <1>6, CalmStep, Apart

\* A state change reaches the dispatcher.
LEMMA FireOK == ASSUME IInv, Fire PROVE IInv'
<1> DEFINE j == job[Scanner]
           l == Head(j.changes)[1]
           done == [j EXCEPT !.changes = Tail(j.changes)]
           go == [j EXCEPT !.at = "start"]
<1>1. j.at = "fire" /\ UNCHANGED <<db, off, budget>>
  BY DEF Fire
<1>2. "at" \in DOMAIN j /\ "changes" \in DOMAIN j
  BY <1>1, Apart DEF IInv, ShapeOK, JobOK
<1>3. FitsJob(Scanner, done)
  BY <1>2, ListChanges DEF FitsJob
<1>4. FitsJob(Scanner, go) /\ go.at = "start" /\ go.changes = j.changes
  BY <1>2, StageChanges DEF FitsJob
<1>5. \/ Goes(Scanner, done) /\ UNCHANGED <<worker, mu>>
      \/ StartWorker(Scanner, l, done, go) /\ UNCHANGED worker
      \/ StopWorker(Scanner, l, done)
  BY DEF Fire
<1>6. Framed
  BY <1>1, FrameKept
<1>7. OffOK' /\ job[Scanner].at # "start"
  BY <1>1 DEF IInv, OffOK
<1> HIDE DEF done, go
<1>8. CASE Goes(Scanner, done) /\ UNCHANGED <<worker, mu>>
  BY <1>1, <1>3, <1>6, <1>7, <1>8, CalmStep, Apart
<1>9. CASE StartWorker(Scanner, l, done, go) /\ UNCHANGED worker
  <2>1. CASE db[l].on
    <3>1. mu' = Scanner /\ Goes(Scanner, go)
      BY <1>9, <2>1 DEF StartWorker
    <3> QED
      BY <1>1, <1>4, <1>6, <1>9, <2>1, <3>1, LockStep, Apart
  <2>2. CASE ~db[l].on
    <3>1. mu' = mu /\ Goes(Scanner, done)
      BY <1>9, <2>2 DEF StartWorker
    <3> QED
      BY <1>1, <1>3, <1>6, <1>7, <1>9, <3>1, CalmStep, Apart
  <2> QED
    BY <2>1, <2>2
<1>10. CASE StopWorker(Scanner, l, done)
  <2>1. mu' = mu /\ worker' \subseteq worker /\ Goes(Scanner, done)
    BY <1>10 DEF StopWorker
  <2> QED
    BY <1>1, <1>3, <1>6, <1>7, <2>1, CalmStep, Apart
<1> QED
  BY <1>5, <1>8, <1>9, <1>10

\* The scan's own start of a worker.
LEMMA FireStartsOK == ASSUME IInv, FireStarts PROVE IInv'
<1> DEFINE k == [at |-> "fire", changes |-> Tail(job[Scanner].changes)]
<1>1. WorkerStarted(Scanner, StartsFor(Scanner), k) /\ UNCHANGED <<db, off, budget>>
  BY DEF FireStarts, StartsFor
<1>2. FitsJob(Scanner, k)
  BY DEF FitsJob
<1> HIDE DEF k
<1> QED
  BY <1>1, <1>2, FrameKept, UnlockStep, Apart

\* The scan is through.
LEMMA ScanEndsOK == ASSUME IInv, ScanEnds PROVE IInv'
<1>1. /\ Goes(Scanner, Idle) /\ job[Scanner].at # "start"
      /\ UNCHANGED <<db, off, budget, worker, mu>>
  BY DEF ScanEnds
<1>2. OffOK'
  BY <1>1 DEF IInv, OffOK
<1> QED
  BY <1>1, <1>2, IdleFits, FrameKept, CalmStep, Apart

-----------------------------------------------------------------------------
(* The handlers: h is one of them throughout.                               *)

\* A handler at work has a link.
LEMMA HasLink ==
  ASSUME IInv, NEW h \in Handlers, job[h].at # "idle"
  PROVE  /\ h \in Goroutines /\ h # Scanner
         /\ "at" \in DOMAIN job[h] /\ "link" \in DOMAIN job[h] /\ job[h].link \in LinkIds
  BY LinksAssumption DEF IInv, ShapeOK, JobOK, Goroutines

\* The next stage of a call is a fitting job for the same link.
LEMMA NextStage ==
  ASSUME IInv, NEW h \in Handlers, job[h].at # "idle", NEW s
  PROVE  LET k == [job[h] EXCEPT !.at = s]
         IN FitsJob(h, k) /\ k.at = s /\ k.link = job[h].link
  BY HasLink, StageChanges DEF FitsJob

\* A new call on link l.
LEMMA TakesLink ==
  ASSUME IInv, NEW h \in Handlers, NEW l \in LinkIds, NEW k, Takes(h, l, k)
  PROVE  /\ h \in Goroutines /\ h # Scanner /\ job[h].at # "start" /\ Goes(h, k)
         /\ "links" \in DOMAIN budget' /\ budget'.links \subseteq LinkIds
<1>1. Goes(h, k) /\ job[h] = Idle /\ Spend("calls")
  BY DEF Takes
<1>2. job[h].at # "start"
  BY <1>1 DEF Idle
<1>3. "links" \in DOMAIN budget' /\ budget'.links \subseteq LinkIds
  BY <1>1, SpendKeeps DEF IInv, ShapeOK
<1> QED
  BY <1>1, <1>2, <1>3, LinksAssumption DEF Goroutines

\* POST enable or disable is taken up.
LEMMA SwitchOK == ASSUME IInv, NEW h \in Handlers, NEW l \in LinkIds, NEW on, Switch(h, l, on) PROVE IInv'
<1> DEFINE k == [at |-> "write", link |-> l, row |-> Row(on, db[l].dev)]
<1>1. Takes(h, l, k) /\ UNCHANGED <<db, worker, mu, off>>
  BY DEF Switch
<1>2. FitsJob(h, k)
  BY TakesLink, <1>1 DEF FitsJob
<1> HIDE DEF k
<1>3. Framed /\ OffOK'
  BY <1>1, TakesLink DEF Framed, IInv, ShapeOK, OffOK
<1> QED
  BY <1>1, <1>2, <1>3, TakesLink, CalmStep

\* The switch writes the row as it was read, with the new switch.
LEMMA SwitchRowOK == ASSUME IInv, NEW h \in Handlers, SwitchRow(h) PROVE IInv'
<1> DEFINE k == [job[h] EXCEPT !.at = "record"]
<1>1. /\ job[h].at = "write" /\ WriteRow(job[h].link, job[h].row) /\ Goes(h, k)
      /\ UNCHANGED <<worker, mu, budget>>
  BY Zenon DEF SwitchRow
<1>2. FitsJob(h, k)
  BY <1>1, NextStage
<1> HIDE DEF k
<1>3. OffOK' /\ off' \subseteq off /\ DOMAIN db' = LinkIds
  BY <1>1, HasLink, WriteKeeps DEF IInv
<1>4. Framed
  BY <1>1, <1>3 DEF Framed, IInv, ShapeOK
<1> QED
  BY <1>1, <1>2, <1>3, <1>4, HasLink, CalmStep

\* The switch changes the manager's record.
LEMMA SwitchRecordOK == ASSUME IInv, NEW h \in Handlers, SwitchRecord(h) PROVE IInv'
<1> DEFINE k == [job[h] EXCEPT !.at = "worker"]
<1>1. job[h].at = "record" /\ Goes(h, k) /\ UNCHANGED <<db, worker, mu, off, budget>>
  BY Zenon DEF SwitchRecord
<1>2. FitsJob(h, k)
  BY <1>1, NextStage
<1> HIDE DEF k
<1>3. Framed /\ OffOK'
  BY <1>1, FrameKept DEF IInv, OffOK
<1> QED
  BY <1>1, <1>2, <1>3, HasLink, CalmStep

\* The worker follows the switch: the one step by which a link becomes off.
LEMMA SwitchWorkerOK == ASSUME IInv, NEW h \in Handlers, SwitchWorker(h) PROVE IInv'
<1> DEFINE l == job[h].link
           go == [job[h] EXCEPT !.at = "start"]
<1>1. job[h].at = "worker" /\ UNCHANGED <<db, budget>>
  BY DEF SwitchWorker
<1>2. \/ StartWorker(h, l, Idle, go) /\ UNCHANGED <<worker, off>>
      \/ StopWorker(h, l, Idle) /\ off' = IF db[l].on THEN off ELSE off \cup {l}
  BY Zenon DEF SwitchWorker
<1>3. FitsJob(h, go) /\ go.at = "start" /\ go.link = l
  BY <1>1, NextStage
<1> HIDE DEF go
<1>4. /\ Framed /\ FitsJob(h, Idle)
      /\ h \in Goroutines /\ h # Scanner /\ l \in LinkIds
  BY <1>1, FrameKept, HasLink, IdleFits
<1>5. CASE StartWorker(h, l, Idle, go) /\ UNCHANGED <<worker, off>>
  <2>1. CASE db[l].on
    <3>1. mu' = h /\ Goes(h, go)
      BY <1>5, <2>1 DEF StartWorker
    <3> QED
      BY <1>1, <1>3, <1>4, <1>5, <2>1, <3>1, LockStep
  <2>2. CASE ~db[l].on
    <3>1. mu' = mu /\ Goes(h, Idle)
      BY <1>5, <2>2 DEF StartWorker
    <3>2. OffOK'
      BY <1>1, <1>5 DEF IInv, OffOK
    <3> QED
      BY <1>1, <1>4, <1>5, <3>1, <3>2, CalmStep
  <2> QED
    BY <2>1, <2>2
<1>6. CASE StopWorker(h, l, Idle) /\ off' = IF db[l].on THEN off ELSE off \cup {l}
  <2>1. mu = None /\ mu' = None /\ worker' = worker \ {l} /\ Goes(h, Idle)
    BY <1>6 DEF StopWorker
  <2>2. OffOK'
    BY <1>1, <1>4, <1>6 DEF IInv, OffOK
  <2>3. off' \cap worker' = {}
    BY <1>6, <2>1 DEF IInv, SwitchedOffStaysQuiet
  <2> QED
    BY <1>4, <2>1, <2>2, <2>3, StopStep
<1> QED
  BY <1>2, <1>5, <1>6

\* A switch on registers its worker.
LEMMA SwitchStartsOK == ASSUME IInv, NEW h \in Handlers, SwitchStarts(h) PROVE IInv'
<1>1. job[h].at = "start" /\ WorkerStarted(h, job[h].link, Idle) /\ UNCHANGED <<db, off, budget>>
  BY DEF SwitchStarts
<1>2. h \in Goroutines /\ StartsFor(h) = job[h].link
  BY <1>1, HasLink DEF StartsFor
<1> QED
  BY <1>1, <1>2, IdleFits, FrameKept, UnlockStep

\* POST bind or unbind changes the record.
LEMMA BindOK == ASSUME IInv, NEW h \in Handlers, NEW l \in LinkIds, NEW dev, Bind(h, l, dev) PROVE IInv'
<1> DEFINE k == [at |-> "save", link |-> l]
<1>1. Takes(h, l, k) /\ UNCHANGED <<db, worker, mu, off>>
  BY Zenon DEF Bind
<1>2. FitsJob(h, k)
  BY TakesLink, <1>1 DEF FitsJob
<1> HIDE DEF k
<1>3. Framed /\ OffOK'
  BY <1>1, TakesLink DEF Framed, IInv, ShapeOK, OffOK
<1> QED
  BY <1>1, <1>2, <1>3, TakesLink, CalmStep

\* The record is stored, its switch too.
LEMMA BindSavesOK == ASSUME IInv, NEW h \in Handlers, BindSaves(h) PROVE IInv'
<1> DEFINE l == job[h].link
<1>1. /\ job[h].at = "save" /\ WriteRow(l, Row(rt[l].on, rt[l].dev)) /\ Goes(h, Idle)
      /\ UNCHANGED <<worker, mu, budget>>
  BY Zenon DEF BindSaves
<1>2. OffOK' /\ off' \subseteq off /\ DOMAIN db' = LinkIds
  BY <1>1, HasLink, WriteKeeps DEF IInv
<1>3. Framed
  BY <1>1, <1>2 DEF Framed, IInv, ShapeOK
<1> QED
  BY <1>1, <1>2, <1>3, IdleFits, HasLink, CalmStep

\* PUT replaces the row.
LEMMA PutOK == ASSUME IInv, NEW h \in Handlers, NEW l \in LinkIds, NEW row, Put(h, l, row) PROVE IInv'
<1> DEFINE k == [at |-> "put", link |-> l, row |-> row]
<1>1. Takes(h, l, k) /\ WriteRow(l, row) /\ UNCHANGED <<worker, mu>>
  BY Zenon DEF Put
<1>2. FitsJob(h, k)
  BY TakesLink, <1>1 DEF FitsJob
<1> HIDE DEF k
<1>3. OffOK' /\ off' \subseteq off /\ DOMAIN db' = LinkIds
  BY <1>1, WriteKeeps DEF IInv
<1>4. Framed
  BY <1>1, <1>3, TakesLink DEF Framed
<1> QED
  BY <1>1, <1>2, <1>3, <1>4, TakesLink, CalmStep

\* PUT replaces the record.
LEMMA PutRecordOK == ASSUME IInv, NEW h \in Handlers, PutRecord(h) PROVE IInv'
<1>1. job[h].at = "put" /\ Goes(h, Idle) /\ UNCHANGED <<db, worker, mu, off, budget>>
  BY Zenon DEF PutRecord
<1>2. Framed /\ OffOK'
  BY <1>1, FrameKept DEF IInv, OffOK
<1> QED
  BY <1>1, <1>2, IdleFits, HasLink, CalmStep

-----------------------------------------------------------------------------
(* The process and what is around it.                                       *)

\* Dispatcher.Start gives workers to links whose row is on, and only to them.
LEMMA DispatcherStartOK == ASSUME IInv, DispatcherStart PROVE IInv'
<1>1. worker' = {l \in LinkIds : db[l].on} /\ UNCHANGED <<db, job, mu, off, budget>>
  BY DEF DispatcherStart
<1>2. SwitchedOffStaysQuiet'
  BY <1>1 DEF IInv, OffOK, SwitchedOffStaysQuiet
<1> QED
  BY <1>1, <1>2 DEF IInv, ShapeOK, JobOK, OwnerOK, StartsFor, OffOK

\* A restart ends every goroutine and every worker; the rows stay.
LEMMA RestartOK == ASSUME IInv, Restart PROVE IInv'
<1>1. /\ Spend("restarts") /\ worker' = {} /\ mu' = None
      /\ job' = [g \in Handlers \cup {Scanner} |-> Idle] /\ UNCHANGED <<db, off>>
  BY Zenon DEF Restart
<1>2. "links" \in DOMAIN budget' /\ budget'.links \subseteq LinkIds
  BY <1>1, SpendKeeps DEF IInv, ShapeOK
<1>3. \A g \in Goroutines : JobOK(g)'
  BY <1>1 DEF JobOK, Idle, Goroutines
<1> QED
  BY <1>1, <1>2, <1>3, Apart DEF IInv, ShapeOK, OwnerOK, OffOK, SwitchedOffStaysQuiet, Goroutines

\* A device is plugged in or pulled.
LEMMA PlugOK == ASSUME IInv, NEW d, Plug(d) PROVE IInv'
<1>1. Spend("plugs") /\ UNCHANGED <<db, job, mu, off, worker>>
  BY DEF Plug
<1>2. "links" \in DOMAIN budget' /\ budget'.links \subseteq LinkIds
  BY <1>1, SpendKeeps DEF IInv, ShapeOK
<1> QED
  BY <1>1, <1>2, AsideStep

\* The clock.
LEMMA TickOK == ASSUME IInv, Tick PROVE IInv'
<1>1. Spend("ticks") /\ UNCHANGED <<db, job, mu, off, worker>>
  BY DEF Tick
<1>2. "links" \in DOMAIN budget' /\ budget'.links \subseteq LinkIds
  BY <1>1, SpendKeeps DEF IInv, ShapeOK
<1> QED
  BY <1>1, <1>2, AsideStep

\* Every step, and a step that changes nothing.
LEMMA NextOK == IInv /\ [Next]_vars => IInv'
<1> SUFFICES ASSUME IInv, [Next]_vars PROVE IInv'
  OBVIOUS
<1>1. CASE Scans
  BY <1>1, ReconcileOK, FireOK, FireStartsOK, ScanEndsOK DEF Scans
<1>2. ASSUME NEW h \in Handlers, Calls(h) PROVE IInv'
  <2>1. budget.links \subseteq LinkIds
    BY DEF IInv, ShapeOK
  <2> QED
    BY <1>2, <2>1, SwitchOK, BindOK, PutOK DEF Calls
<1>3. ASSUME NEW h \in Handlers, Handles(h) PROVE IInv'
  BY <1>3, SwitchRowOK, SwitchRecordOK, SwitchWorkerOK, SwitchStartsOK, BindSavesOK, PutRecordOK
     DEF Handles
<1>4. CASE DispatcherStart \/ Restart \/ Tick
  BY <1>4, DispatcherStartOK, RestartOK, TickOK
<1>5. ASSUME NEW d \in Devices, Plug(d) PROVE IInv'
  BY <1>5, PlugOK
<1>6. CASE UNCHANGED vars
  BY <1>6, AsideStep DEF vars, IInv, ShapeOK
<1> QED
  BY <1>1, <1>2, <1>3, <1>4, <1>5, <1>6 DEF Next

\* Once a switch off is through, and as long as the row says off, the link has no
\* worker (setInterfaceEnabled with StartWorker's look at the row under
\* Dispatcher.mu), for any number of links, devices, handlers and restarts.
THEOREM SwitchedOffSafety == Spec => []SwitchedOffStaysQuiet
<1>1. IInv => SwitchedOffStaysQuiet
  BY DEF IInv
<1> QED
  BY <1>1, InitOK, NextOK, PTL DEF Spec
=============================================================================
