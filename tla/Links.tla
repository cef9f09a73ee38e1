------------------------------- MODULE Links --------------------------------
(***************************************************************************)
(* The interface manager (internal/engine/interface_manager.go) with what   *)
(* it drives and what drives it: the scan of the serial bus that binds      *)
(* devices to links and links to states, the API's handlers that switch,    *)
(* bind and replace links (internal/api/interfaces.go), and the delivery    *)
(* workers that follow (StartWorker, ResumeWorker, StopWorker of            *)
(* internal/engine/dispatcher.go).                                          *)
(*                                                                         *)
(* A link is kept twice: its row of the table interfaces, and the manager's *)
(* record of it.  A handler reads the row, writes all of it, changes the    *)
(* record and calls the dispatcher in separate steps; the scan changes the  *)
(* record and the row under the manager's lock and fires the state changes  *)
(* after it has let go.  A link's label, port, config and transforms play   *)
(* no part, and no two devices share a port.  Links are neither made nor    *)
(* deleted here; SetOnline and SetError have no caller; the Bluetooth       *)
(* modem pipe's own stops and resumes are left out.                         *)
(***************************************************************************)
EXTENDS Integers, FiniteSets, Sequences, SequencesExt

CONSTANTS
  LinkIds,      \* interface ids
  Devices,      \* serial devices, by device id
  Vid,          \* device -> its VID:PID
  Handlers,     \* the API's goroutines
  None,         \* no device, no goroutine
  RebindAfter,  \* rebindAfter: how long a device is gone before it is given up
  MaxNow,       \* bound: the clock
  Starts        \* the links a behaviour starts with, and its bounds: which
                \* calls on which links, how many calls, devices plugged or
                \* pulled, ticks and restarts

Scanner == "scan"

\* Goroutines and "nobody", devices and "no device" are told apart; a behaviour
\* starts with a row for each link and with bounds of the shape Next reads, and
\* only links that need a device are bound to one.
ASSUME LinksAssumption ==
  /\ None \notin Handlers \cup {Scanner} /\ Scanner \notin Handlers
  /\ None \notin Devices
  /\ IsFiniteSet(LinkIds) /\ RebindAfter \in Nat /\ MaxNow \in Nat
  /\ \A s \in Starts :
       /\ s.bus \subseteq Devices /\ s.needs \subseteq LinkIds
       /\ s.rows \in [LinkIds -> [on : BOOLEAN, dev : Devices \cup {Vid[d] : d \in Devices} \cup {None}]]
       /\ \A l \in LinkIds \ s.needs : s.rows[l].dev = None
       /\ s.bounds \in [ops : SUBSET {"switch", "bind", "put"}, links : SUBSET LinkIds,
                         calls : Nat, plugs : Nat, ticks : Nat, restarts : Nat]

VARIABLES
  now,     \* the clock
  bus,     \* the devices on the bus
  needs,   \* channelNeedsDevice: the links that need a device, all of one type
  db,      \* table interfaces: on (enabled), dev (device_id)
  rt,      \* the manager's record: on, dev, state, gone (goneDevice), since
  worker,  \* Dispatcher.workers: the links with a delivery worker
  wired,   \* the dispatcher runs and the state change callback is set
  mu,      \* the goroutine that holds Dispatcher.mu across its steps
  job,     \* what each goroutine is at
  off,     \* history: links whose switch off is through, the row off since
  muddled, \* history: links two handlers worked on at once, or switched by PUT
  left,    \* history: links whose device was changed while noted as gone
  seen,    \* history: when each device was last on the bus for a scan
  budget   \* what is left of the bounds

vars == <<now, bus, needs, db, rt, worker, wired, mu, job, off, muddled, left, seen, budget>>

-----------------------------------------------------------------------------
Idle == [at |-> "idle"]
Row(on, dev) == [on |-> on, dev |-> dev]

\* a binding names a device by its id or by its VID:PID alone
Names(id, d) == id # None /\ (id = d \/ id = Vid[d])
Present(id) == \E d \in bus : Names(id, d)

Busy(l) == {h \in Handlers : job[h] # Idle /\ job[h].link = l}
Spend(b) == budget[b] > 0 /\ budget' = [budget EXCEPT ![b] = @ - 1]
Goes(g, j) == job' = [job EXCEPT ![g] = j]

\* the row l is written as a whole
WriteRow(l, r) ==
  /\ db' = [db EXCEPT ![l] = r]
  /\ off' = IF r.on THEN off \ {l} ELSE off

-----------------------------------------------------------------------------
(* The delivery workers.                                                    *)

\* StartWorker without the look at the switch.
StartWorkerBlind(g, l, done, go) ==
  /\ mu = None
  /\ mu' = g /\ Goes(g, go)

\* StartWorker (and ResumeWorker, which calls it): under Dispatcher.mu the row
\* is read; a link that is off gets no worker, ...
StartWorker(g, l, done, go) ==
  /\ mu = None
  /\ IF db[l].on THEN mu' = g /\ Goes(g, go) ELSE Goes(g, done) /\ UNCHANGED mu

\* ... else it has one from here on, new or running before.
WorkerStarted(g, l, done) ==
  /\ mu = g /\ mu' = None
  /\ worker' = worker \cup {l}
  /\ Goes(g, done)

\* StopWorker
StopWorker(g, l, done) ==
  /\ mu = None
  /\ worker' = worker \ {l}
  /\ Goes(g, done) /\ UNCHANGED mu

-----------------------------------------------------------------------------
(* The scan (scanDevices, reconcile).                                       *)

\* A device that comes back does not end the count.
MatchedKeepsSince(l, r) ==
  IF r.dev = None THEN r
  ELSE IF Present(r.dev)
  THEN [r EXCEPT !.state = IF @ = "offline" THEN "online" ELSE @]
  ELSE [r EXCEPT !.gone = r.dev, !.since = IF r.gone = r.dev THEN @ ELSE now,
                 !.state = IF @ = "online" THEN "offline" ELSE @]

\* A device that comes back does not bring its link back.
MatchedNotBack(l, r) ==
  IF r.dev = None THEN r
  ELSE IF Present(r.dev) THEN [r EXCEPT !.gone = None, !.since = 0]
  ELSE [r EXCEPT !.gone = r.dev, !.since = IF r.gone = r.dev THEN @ ELSE now,
                 !.state = IF @ = "online" THEN "offline" ELSE @]

\* one link against the devices found: online when its device is there, offline
\* when it is not, and since when it is gone
Matched(l, r) ==
  IF r.dev = None THEN r
  ELSE IF Present(r.dev)
  THEN [r EXCEPT !.gone = None, !.since = 0,
                 !.state = IF @ = "offline" THEN "online" ELSE @]
  ELSE [r EXCEPT !.gone = r.dev, !.since = IF r.gone = r.dev THEN @ ELSE now,
                 !.state = IF @ = "online" THEN "offline" ELSE @]

\* The devices bound in this scan are not counted.
AutoBindStale(r, l) ==
  LET free == {d \in bus : \A m \in LinkIds : rt[m].dev # d}
  IN IF r[l].dev = None /\ r[l].on /\ l \in needs /\ Cardinality(free) = 1
     THEN [r EXCEPT ![l].dev = CHOOSE d \in free : TRUE, ![l].state = "online"]
     ELSE r

\* The types are not compared.
AutoBindAny(r, l) ==
  LET free == {d \in bus : \A m \in LinkIds : r[m].dev # d}
  IN IF r[l].dev = None /\ r[l].on /\ Cardinality(free) = 1
     THEN [r EXCEPT ![l].dev = CHOOSE d \in free : TRUE, ![l].state = "online"]
     ELSE r

\* Auto-bind: an unbound link that is on takes the one device of its type that
\* no link names by its id.
AutoBind(r, l) ==
  LET free == {d \in bus : \A m \in LinkIds : r[m].dev # d}
  IN IF r[l].dev = None /\ r[l].on /\ l \in needs /\ Cardinality(free) = 1
     THEN [r EXCEPT ![l].dev = CHOOSE d \in free : TRUE, ![l].state = "online"]
     ELSE r

\* rebindGoneLocked: the one link of the type that is on and whose device has
\* been gone long enough follows the one device of the type on the bus, when no
\* link names it.
RebindGone(r) ==
  LET waiting == {l \in needs : r[l].on /\ r[l].dev # None /\ r[l].gone = r[l].dev}
      heir == {d \in bus : /\ \A d2 \in bus : d2 = d
                           /\ \A m \in LinkIds : ~Names(r[m].dev, d)}
      goes == {l \in waiting : waiting = {l} /\ heir # {} /\ now - r[l].since >= RebindAfter}
  IN [l \in LinkIds |-> IF l \in goes
                        THEN [r[l] EXCEPT !.dev = CHOOSE d \in heir : TRUE, !.state = "online",
                                          !.gone = None, !.since = 0]
                        ELSE r[l]]

\* The auto-bind loop, in the order the map of links happens to give.
AutoBinds(r, order) ==
  LET after[i \in 0..Len(order)] == IF i = 0 THEN r ELSE AutoBind(after[i - 1], order[i])
  IN after[Len(order)]

\* the orders in which a Go map may be walked
Orders == SetToSeqs(LinkIds)

\* the state changes of the links ls, in this order
Changes(r, ls) == [i \in DOMAIN ls |-> <<ls[i], r[ls[i]].state>>]

\* reconcile, under the manager's lock: match, auto-bind, rebind, each in an
\* order of its own.  An auto-bind stores the whole record, a rebind the device
\* alone.  The state changes are fired afterwards.
Reconcile(order) ==
  LET matched == [l \in LinkIds |-> Matched(l, rt[l])]
      bound == AutoBinds(matched, order)
      final == RebindGone(bound)
      changed == {l \in LinkIds : matched[l].state # rt[l].state}
      auto == {l \in LinkIds : bound[l].dev # matched[l].dev}
      rebound == {l \in LinkIds : final[l].dev # bound[l].dev}
  IN /\ job[Scanner] = Idle
     /\ rt' = final
     /\ db' = [l \in LinkIds |->
                 IF l \in auto THEN Row(bound[l].on, bound[l].dev)
                 ELSE IF l \in rebound THEN [db[l] EXCEPT !.dev = final[l].dev]
                 ELSE db[l]]
     /\ off' = {l \in off : ~db'[l].on}
     /\ seen' = [d \in Devices |-> IF d \in bus THEN now ELSE seen[d]]
     /\ left' = {l \in left : final[l].dev = None \/ (final[l].gone # None /\ final[l].since # now)}
     /\ muddled' = muddled \cup {l \in auto : Busy(l) # {}}
     /\ \E c \in SetToSeqs(changed), a \in SetToSeqs(auto), g \in SetToSeqs(rebound) :
          Goes(Scanner, [at |-> "fire", changes |->
            Changes(matched, c) \o Changes(bound, a) \o Changes(final, g)])
     /\ UNCHANGED <<now, bus, needs, worker, wired, mu, budget>>

\* notifyStateChange for the next change: nothing until the callback is set,
\* then main's switch over the new state.
Fire ==
  LET j == job[Scanner]
      c == Head(j.changes)
      done == [j EXCEPT !.changes = Tail(@)]
  IN /\ j.at = "fire" /\ j.changes # <<>>
     /\ \/ /\ ~wired
           /\ Goes(Scanner, done) /\ UNCHANGED <<worker, mu>>
        \/ /\ wired /\ c[2] = "online"
           /\ StartWorker(Scanner, c[1], done, [j EXCEPT !.at = "start"]) /\ UNCHANGED worker
        \/ /\ wired /\ c[2] = "offline"
           /\ StopWorker(Scanner, c[1], done)
     /\ UNCHANGED <<now, bus, needs, db, rt, wired, off, muddled, left, seen, budget>>

FireStarts ==
  LET j == job[Scanner]
  IN /\ j.at = "start"
     /\ WorkerStarted(Scanner, Head(j.changes)[1], [at |-> "fire", changes |-> Tail(j.changes)])
     /\ UNCHANGED <<now, bus, needs, db, rt, wired, off, muddled, left, seen, budget>>

\* the scan is through until the next tick of its timer
ScanEnds ==
  /\ job[Scanner] = [at |-> "fire", changes |-> <<>>]
  /\ Goes(Scanner, Idle)
  /\ UNCHANGED <<now, bus, needs, db, rt, worker, wired, mu, off, muddled, left, seen, budget>>
-----------------------------------------------------------------------------
(* The API's handlers.                                                      *)

\* a handler begins to work on link l
Takes(h, l, j) ==
  /\ wired /\ job[h] = Idle
  /\ Goes(h, j)
  /\ Spend("calls")

\* the record's device changes
Rebinds(l, dev) ==
  left' = IF dev # rt[l].dev /\ rt[l].gone # None THEN left \cup {l} ELSE left

\* POST enable and disable (setInterfaceEnabled), SetEnabled: the row is read, ...
Switch(h, l, on) ==
  /\ Takes(h, l, [at |-> "write", link |-> l, row |-> Row(on, db[l].dev)])
  /\ muddled' = IF Busy(l) # {} THEN muddled \cup {l} ELSE muddled
  /\ UNCHANGED <<now, bus, needs, db, rt, worker, wired, mu, off, left, seen>>

\* ... written as a whole, ...
SwitchRow(h) ==
  LET j == job[h]
  IN /\ j.at = "write"
     /\ WriteRow(j.link, j.row)
     /\ Goes(h, [j EXCEPT !.at = "record"])
     /\ UNCHANGED <<now, bus, needs, rt, worker, wired, mu, muddled, left, seen, budget>>

\* ... the record is replaced by it (a link without a device is online when on,
\* unbound when off), ...
SwitchRecord(h) ==
  LET j == job[h]
      l == j.link
  IN /\ j.at = "record"
     /\ rt' = [rt EXCEPT ![l].on = j.row.on, ![l].dev = j.row.dev,
                         ![l].state = IF l \in needs THEN @
                                      ELSE IF j.row.on THEN "online" ELSE "unbound"]
     /\ Rebinds(l, j.row.dev)
     /\ Goes(h, [j EXCEPT !.at = "worker"])
     /\ UNCHANGED <<now, bus, needs, db, worker, wired, mu, off, muddled, seen, budget>>

\* The worker is left for the next state change to start.
SwitchWorkerLater(h) ==
  LET j == job[h]
  IN /\ j.at = "worker"
     /\ IF j.row.on THEN Goes(h, Idle) /\ UNCHANGED <<worker, mu>> ELSE StopWorker(h, j.link, Idle)
     /\ UNCHANGED <<now, bus, needs, db, rt, wired, off, muddled, left, seen, budget>>

\* ... and the worker follows.
SwitchWorker(h) ==
  LET j == job[h]
      l == j.link
  IN /\ j.at = "worker"
     /\ IF j.row.on
        THEN /\ StartWorker(h, l, Idle, [j EXCEPT !.at = "start"])
             /\ UNCHANGED <<worker, off>>
        ELSE /\ StopWorker(h, l, Idle)
             /\ off' = IF db[l].on THEN off ELSE off \cup {l}
     /\ UNCHANGED <<now, bus, needs, db, rt, wired, muddled, left, seen, budget>>

SwitchStarts(h) ==
  LET j == job[h]
  IN /\ j.at = "start"
     /\ WorkerStarted(h, j.link, Idle)
     /\ UNCHANGED <<now, bus, needs, db, rt, wired, off, muddled, left, seen, budget>>

\* POST bind (dev a device or a VID:PID) and unbind (dev None): BindDevice and
\* UnbindDevice change the record and fire nothing, ...
Bind(h, l, dev) ==
  /\ Takes(h, l, [at |-> "save", link |-> l])
  /\ rt' = [rt EXCEPT ![l].dev = dev, ![l].state = IF dev = None THEN "unbound" ELSE "offline"]
  /\ Rebinds(l, dev)
  /\ muddled' = IF Busy(l) # {} THEN muddled \cup {l} ELSE muddled
  /\ UNCHANGED <<now, bus, needs, db, worker, wired, mu, off, seen>>

\* ... then store the record as it is by then.
BindSaves(h) ==
  LET l == job[h].link
  IN /\ job[h].at = "save"
     /\ WriteRow(l, Row(rt[l].on, rt[l].dev))
     /\ Goes(h, Idle)
     /\ UNCHANGED <<now, bus, needs, rt, worker, wired, mu, muddled, left, seen, budget>>

\* PUT (UpdateInterface): the row is replaced by what the client sent, ...
Put(h, l, row) ==
  /\ Takes(h, l, [at |-> "put", link |-> l, row |-> row])
  /\ WriteRow(l, row)
  /\ muddled' = IF Busy(l) # {} \/ row.on # rt[l].on THEN muddled \cup {l} ELSE muddled
  /\ UNCHANGED <<now, bus, needs, rt, worker, wired, mu, left, seen>>

\* ... then the record, its state too when the device is another.
PutRecord(h) ==
  LET j == job[h]
      l == j.link
  IN /\ j.at = "put"
     /\ rt' = [rt EXCEPT ![l].on = j.row.on, ![l].dev = j.row.dev,
                         ![l].state = IF j.row.dev = rt[l].dev THEN @
                                      ELSE IF j.row.dev = None THEN "unbound" ELSE "offline"]
     /\ Rebinds(l, j.row.dev)
     /\ Goes(h, Idle)
     /\ UNCHANGED <<now, bus, needs, db, worker, wired, mu, off, muddled, seen, budget>>

-----------------------------------------------------------------------------
(* The process and what is around it.                                       *)

\* InterfaceManager.Start: the records as the rows say.
Record(row, need) ==
  [on |-> row.on, dev |-> row.dev, gone |-> None, since |-> 0,
   state |-> IF ~need /\ row.on THEN "online"
             ELSE IF row.dev = None THEN "unbound" ELSE "offline"]

\* Dispatcher.Start: a worker for each link that is on; then main sets the
\* callback.  The scan may have fired before.
DispatcherStart ==
  /\ ~wired /\ wired' = TRUE
  /\ worker' = {l \in LinkIds : db[l].on}
  /\ UNCHANGED <<now, bus, needs, db, rt, mu, job, off, muddled, left, seen, budget>>

\* The process ends and is started again: the rows stay.
Restart ==
  /\ Spend("restarts")
  /\ rt' = [l \in LinkIds |-> Record(db[l], l \in needs)]
  /\ worker' = {} /\ wired' = FALSE /\ mu' = None
  /\ job' = [g \in Handlers \cup {Scanner} |-> Idle]
  /\ muddled' = {} /\ left' = {}
  /\ UNCHANGED <<now, bus, needs, db, off, seen>>

\* A device is plugged in or pulled.
Plug(d) ==
  /\ Spend("plugs")
  /\ bus' = IF d \in bus THEN bus \ {d} ELSE bus \cup {d}
  /\ UNCHANGED <<now, needs, db, rt, worker, wired, mu, job, off, muddled, left, seen>>

Tick ==
  /\ now < MaxNow /\ now' = now + 1
  /\ Spend("ticks")
  /\ UNCHANGED <<bus, needs, db, rt, worker, wired, mu, job, off, muddled, left, seen>>

Init ==
  \E s \in Starts :
    /\ now = 0 /\ bus = s.bus /\ needs = s.needs /\ db = s.rows /\ budget = s.bounds
    /\ rt = [l \in LinkIds |-> Record(s.rows[l], l \in s.needs)]
    /\ worker = {} /\ wired = FALSE /\ mu = None
    /\ job = [g \in Handlers \cup {Scanner} |-> Idle]
    /\ off = {} /\ muddled = {} /\ left = {} /\ seen = [d \in Devices |-> 0]

Scans ==
  \/ \E order \in Orders : Reconcile(order)
  \/ Fire \/ FireStarts \/ ScanEnds

Handles(h) ==
  \/ SwitchRow(h) \/ SwitchRecord(h) \/ SwitchWorker(h) \/ SwitchStarts(h)
  \/ BindSaves(h) \/ PutRecord(h)

Ids == Devices \cup {Vid[d] : d \in Devices} \cup {None}

Calls(h) ==
  \E l \in budget.links :
    \/ "switch" \in budget.ops /\ \E on \in BOOLEAN : Switch(h, l, on)
    \/ "bind" \in budget.ops /\ l \in needs /\ \E dev \in Ids : Bind(h, l, dev)
    \/ "put" \in budget.ops /\ \E on \in BOOLEAN, dev \in Ids :
         (l \notin needs => dev = None) /\ Put(h, l, Row(on, dev))

Next ==
  \/ Scans
  \/ \E h \in Handlers : Calls(h) \/ Handles(h)
  \/ DispatcherStart \/ Restart \/ Tick
  \/ \E d \in Devices : Plug(d)

\* The scan's timer ticks on, handlers come to an end, main goes on.
Fairness ==
  /\ WF_vars(Scans) /\ WF_vars(DispatcherStart)
  /\ \A h \in Handlers : WF_vars(Handles(h))

Spec == Init /\ [][Next]_vars /\ Fairness

-----------------------------------------------------------------------------
\* The variables have their shapes; a link without a device is never taken
\* for one by the scan (auto-bind and rebind match types).
TypeOK ==
  /\ \A l \in LinkIds :
       /\ db[l].on \in BOOLEAN /\ db[l].dev \in Ids
       /\ rt[l].on \in BOOLEAN /\ rt[l].dev \in Ids /\ rt[l].gone \in Ids
       /\ rt[l].state \in {"unbound", "offline", "online"} /\ rt[l].since \in 0..MaxNow
       /\ l \notin needs => rt[l].dev = None /\ db[l].dev = None
  /\ worker \subseteq LinkIds /\ off \subseteq LinkIds /\ muddled \subseteq LinkIds
  /\ mu \in Handlers \cup {Scanner, None}
  /\ mu # None => job[mu].at = "start"

\* "nothing more goes out by it" (POST disable, interfaces.go): once a switch
\* off is through, and as long as the row says off, the link has no worker,
\* whatever its device does, whoever else switches or binds, and after a restart.
SwitchedOffStaysQuiet == off \cap worker = {}

\* When the scan and the handlers are at rest, the row and the record agree on
\* the switch, and a link that is on and online has its worker: every state
\* change since the start has reached the dispatcher, and a switch reached "the
\* list, the binder and the dispatcher" (SetEnabled).  Not so for a link that two
\* handlers worked on at once, that was switched by PUT (no worker follows), or
\* that the scan bound while it was being switched (the record is stored whole).
AtRest ==
  \A l \in LinkIds \ muddled :
    wired /\ job[Scanner] = Idle /\ Busy(l) = {} =>
      /\ db[l].on = rt[l].on
      /\ rt[l].on /\ rt[l].state = "online" => l \in worker

\* The scan never gives a device to a link when another is bound to its id,
\* two links waiting in one scan included (auto-bind, rebindGoneLocked).
ScanGivesFreeDevice ==
  [][\A l, m \in LinkIds :
       /\ l # m /\ job[Scanner] = Idle /\ job'[Scanner] # Idle
       /\ rt'[l].dev # rt[l].dev
       => rt'[m].dev # rt'[l].dev]_vars

\* A link gives up its device only when no scan of the last RebindAfter found it
\* (rebindAfterGone: "only a device that was swapped out is given up"), but for a
\* link bound to another by hand in between (goneDevice is kept).
GraceKept ==
  [][\A l \in LinkIds \ left :
       /\ job[Scanner] = Idle /\ job'[Scanner] # Idle
       /\ rt[l].dev # None /\ rt'[l].dev # rt[l].dev
       => \A d \in Devices : Names(rt[l].dev, d) => now - seen[d] >= RebindAfter]_vars

\* A link that stays on, with its device on the bus and nobody changing it, comes
\* to have a worker and keeps it.
PresentServed ==
  \A l \in LinkIds :
    <>[](/\ wired /\ l \notin muddled /\ Busy(l) = {}
         /\ db[l].on /\ rt[l].on /\ l \in needs
         /\ Present(rt[l].dev))
      => <>[](l \in worker)
=============================================================================
