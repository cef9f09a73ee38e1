------------------------------ MODULE HubRoute ------------------------------
(***************************************************************************)
(* The sending bridge of the Hub app route (internal/hubroute/route.go,     *)
(* internal/database/hubmsg.go).  An operation is one submission of a       *)
(* message to the Hub.  What the Hub reports about it is kept, given to the *)
(* intent ledger and marked; an event that could not be kept is owed, and   *)
(* the submission is repeated until the Hub's replay brings it back or the  *)
(* bound passes.                                                            *)
(*                                                                         *)
(* Every write can fail: an action takes the set F of its writes that do.   *)
(* A crash between two writes leaves what a failure of the second leaves,   *)
(* so a handler is one step however many statements it has; only the pass   *)
(* of Run is cut, where HandleStatus can come between its reads and writes. *)
(* Left out: the paging of the listings (a pass takes all there is), and    *)
(* events that do not fit their operation (hubmsg.Valid), which are kept as *)
(* rejected and end nothing but themselves.                                 *)
(***************************************************************************)
EXTENDS Integers, FiniteSets

CONSTANTS
  Ops,          \* operation ids; numbers, ordered as the ids are
  Kinds,        \* the kinds of event the Hub reports of an operation
  MidExp,       \* the deadline of the messages (Submission.MidExpiresAt)
  ReceiptAllow, \* Config.ReceiptAllow: how long an operation may be delivered
  ReplayWithin, \* how long after its deadline an operation is asked for
  Skew,         \* SkewMs
  Retention,    \* RetentionAfterExpiryMs
  HubKeep,      \* how long past its deadline the Hub keeps an operation
  MaxNow,       \* bound: the last moment
  MaxFaults,    \* bound: handlers and passes with a failing write
  MaxCrashes    \* bound: restarts

\* Operation ids are compared; the sender asks within what the Hub keeps.
ASSUME OpsAssumption == Ops \subseteq Nat \ {0}
ASSUME ReplayAssumption == ReplayWithin < HubKeep

\* Durations and bounds; an operation is given some time (New: a ReceiptAllow
\* of zero or less becomes the default).
ASSUME TimesAssumption ==
  /\ MidExp \in Nat /\ ReceiptAllow \in Nat \ {0}
  /\ ReplayWithin \in Nat /\ Skew \in Nat /\ Retention \in Nat /\ HubKeep \in Nat
  /\ MaxNow \in Nat /\ MaxFaults \in Nat /\ MaxCrashes \in Nat

VARIABLES
  now,        \* the clock
  sub,        \* the submission of an operation: its deadline, when it was made
  op,         \* hub_ops
  kept,       \* hub_op_events
  applied,    \* those with applied_at
  missing,    \* hub_op_missing
  ledger,     \* the evidence the intent ledger recorded for operations
  replay,     \* Route.replay: missing events whose mark could not be written
  quiet,      \* Route.asks: operations repeated in this process with no
              \* failed publish or failed answer since
  walk,       \* Route.start, Route.startDone: the walk of this start
  pass,       \* whether Run is in RequestReplays
  giving,     \* the operations giveUpPastBound listed and has not looked at
  out,        \* msg/out: submissions the broker holds
  status,     \* msg/status: events the broker holds
  hub,        \* the Hub's operations
  hubEv,      \* the events it stores for them
  faults,     \* how many handlers and passes had a write fail
  crashes,    \* how many restarts there were
  arrived,    \* history: events HandleStatus was called with
  passedOver, \* history: operations the walk of this process went past
              \* on the strength of a repeat that had failed
  untold      \* history: operations whose outcome the ledger could not be
              \* told in this round, or before they were pruned

durable == <<sub, op, kept, applied, missing, ledger>>
memory == <<replay, quiet, walk, pass, giving>>
wires == <<out, status>>
history == <<arrived, passedOver, untold>>
hubVars == <<hub, hubEv>>
others == <<now, hubVars, crashes>>
vars == <<durable, memory, wires, history, others, faults>>

-----------------------------------------------------------------------------
Event == UNION {{o} \X Kinds[o] : o \in Ops}
Unknown == "unknown"   \* hub_outcome_unknown: the evidence that asking ended
NoSub == [exp |-> 0, created |-> 0]
NoOp == [put |-> FALSE, owed |-> FALSE, givenUp |-> FALSE]   \* owed: replay_at set
Begin == <<0, 0>>      \* the zero HubOpCursor
Done == <<MaxNow + 1, 0>>   \* past every operation: startDone

\* hubOpCompleted, hubOpTerminal and hubOpStillMissing of hubmsg.go
Completed(o) == <<o, "completed">> \in kept
Terminal(o) == \E k \in {"completed", "failed"} : <<o, k>> \in kept
StillMissing(o) == \E e \in missing \ kept : e[1] = o

\* past the time the bridge asks for an operation's events
PastBound(o) == sub[o].exp + ReplayWithin < now

\* A row comparison of SQLite: x comes before y.
Before(x, y) == \/ x[1] < y[1]
                \/ x[1] = y[1] /\ x[2] < y[2]

\* clearIdleReplay: an operation with nothing missing is owed nothing
ClearIdle(o, m) ==
  IF \E e \in m : e[1] = o THEN op[o] ELSE [op[o] EXCEPT !.owed = FALSE]

-----------------------------------------------------------------------------
\* IntentSend: the operation is stored, then published.  One without a PUBACK
\* has left or has not, as the one accepted and the one of a bridge off the Hub.
IntentSend(o, failed) ==
  /\ sub[o] = NoSub
  /\ now < MidExp
  /\ LET exp == IF now + ReceiptAllow < MidExp THEN now + ReceiptAllow ELSE MidExp
     IN sub' = [sub EXCEPT ![o] = [exp |-> exp, created |-> now]]
  /\ op' = [op EXCEPT ![o] = [NoOp EXCEPT !.put = TRUE]]
  /\ out' = IF failed THEN out ELSE out \cup {o}
  /\ UNCHANGED <<kept, applied, missing, ledger, memory, status, history>>

-----------------------------------------------------------------------------
(* HandleStatus *)

\* Mutant: a missing event whose mark could not be written is let go.
OweReplayDurably(e, F) ==
  IF "mark" \in F
  THEN UNCHANGED <<quiet, op, missing, replay>>
  ELSE /\ op' = [op EXCEPT ![e[1]].owed = TRUE]
       /\ missing' = missing \cup {e}
       /\ UNCHANGED <<quiet, replay>>

\* oweReplay: the missing event is named in the database, or in memory when
\* that fails too; the next repeat of the operation may follow at once.
OweReplay(e, F) ==
  LET o == e[1]
  IN /\ quiet' = quiet \ {o}
     /\ IF "mark" \in F
        THEN replay' = replay \cup {e} /\ UNCHANGED <<op, missing>>
        ELSE /\ op' = [op EXCEPT ![o].owed = TRUE]
             /\ missing' = missing \cup {e}
             /\ UNCHANGED replay

\* resolve: a completion ends every obligation of its operation, another
\* event only its own.  The memory follows even when the write fails.
Resolve(e, F) ==
  LET o == e[1]
      gone == IF e[2] = "completed" THEN {m \in Event : m[1] = o} ELSE {e}
  IN /\ IF "resolve" \in F
        THEN UNCHANGED <<op, missing>>
        ELSE /\ missing' = missing \ gone
             /\ op' = [op EXCEPT ![o] = ClearIdle(o, missing \ gone)]
     /\ replay' = replay \ gone
     /\ quiet' = IF e[2] = "completed" THEN quiet \ {o} ELSE quiet

\* apply: the ledger records an event once under its id, then it is marked.
Apply(e, F) ==
  IF e \in applied \/ "sink" \in F
  THEN UNCHANGED <<ledger, applied>>
  ELSE /\ ledger' = ledger \cup {e}
       /\ applied' = IF "applied" \in F THEN applied ELSE applied \cup {e}

\* operations PruneHubOps deletes
Old == {o \in Ops : op[o].put /\ sub[o].exp + Skew + Retention < now}

\* What the ledger was to be told of the operations O, and a write failed.
Untold(O, F) ==
  untold' = IF F \cap {"sink", "applied", "give"} = {} THEN untold ELSE untold \cup (O \cap Old)

\* One msg/status payload.  Its operation must be readable and the event kept;
\* otherwise a repeat is owed.  An operation not kept is not answered for.
\* Copies of an event come with the Hub's replays.
HandleStatus(e, F) ==
  /\ e \in status
  /\ status' = status \ {e}
  /\ IF ~op[e[1]].put
     THEN UNCHANGED <<op, kept, applied, missing, ledger, replay, quiet, arrived, untold>>
     ELSE /\ arrived' = arrived \cup {e}
          /\ IF "keep" \in F
             THEN OweReplay(e, F) /\ UNCHANGED <<kept, applied, ledger>>
             ELSE kept' = kept \cup {e} /\ Resolve(e, F) /\ Apply(e, F)
          /\ Untold({e[1]}, F)
  /\ UNCHANGED <<sub, walk, pass, giving, out, passedOver>>

\* ApplyPending gives the ledger a kept event it does not have.
ApplyPending(e, F) ==
  /\ e \in kept \ applied
  /\ Apply(e, F) /\ Untold({e[1]}, F)
  /\ UNCHANGED <<sub, op, kept, missing, memory, wires, arrived, passedOver>>

-----------------------------------------------------------------------------
(* RequestReplays, one pass of Run *)

\* Mutant: only an operation with a missing event is given up.
ToGiveUpMissing == {o \in Ops : op[o].put /\ ~op[o].givenUp /\ PastBound(o) /\ StillMissing(o)}

\* HubOpsToGiveUp: past the bound, with no outcome this bridge can say
ToGiveUp == {o \in Ops : /\ op[o].put /\ ~op[o].givenUp /\ PastBound(o)
                         /\ ~Completed(o)
                         /\ (StillMissing(o) \/ ~Terminal(o))}

\* A pass first strikes the missing events kept by now
\* (ResolveKeptHubOpMissing): a step of its own, which every pass waits for
\* unless the strike fails.
KeptMissing == {e \in missing : e \in kept \/ Completed(e[1])}

Strike ==
  /\ pass = "idle" /\ KeptMissing # {}
  /\ missing' = missing \ KeptMissing
  /\ op' = [o \in Ops |-> ClearIdle(o, missing \ KeptMissing)]
  /\ UNCHANGED <<sub, kept, applied, ledger, memory, wires, history>>

Struck(F) == KeptMissing = {} \/ "strike" \in F

\* A pass with something to give up: giveUpPastBound has its list.
BeginPass(F) ==
  /\ pass = "idle" /\ Struck(F) /\ ToGiveUp # {}
  /\ giving' = ToGiveUp
  /\ pass' = "asking"
  /\ UNCHANGED <<durable, replay, quiet, walk, wires, history>>

\* Mutant: the asking ends whether or not the ledger was told.
GiveUpUntold(G, F) ==
  /\ ledger' = IF "sink" \in F THEN ledger ELSE ledger \cup {<<o, Unknown>> : o \in G}
  /\ op' = [o \in Ops |-> IF o \in G THEN [op[o] EXCEPT !.givenUp = TRUE] ELSE op[o]]

\* giveUp of the operations of G: the ledger hears that the outcome is unknown,
\* then the asking ends.  What is missing stays missing.
GiveUp(G, F) ==
  /\ ledger' = IF "sink" \in F THEN ledger ELSE ledger \cup {<<o, Unknown>> : o \in G}
  /\ op' = IF F \cap {"sink", "give"} # {} THEN op
           ELSE [o \in Ops |-> IF o \in G THEN [op[o] EXCEPT !.givenUp = TRUE] ELSE op[o]]

GiveUpPastBound(o, F) ==
  /\ pass = "asking" /\ o \in giving
  /\ giving' = giving \ {o}
  /\ GiveUp({o}, F) /\ Untold({o}, F)
  /\ replay' = {e \in replay : ~op'[e[1]].givenUp}
  /\ quiet' = {p \in quiet : ~op'[p].givenUp}
  /\ UNCHANGED <<sub, kept, applied, missing, walk, pass, wires, arrived, passedOver>>

\* Mutant: off the Hub, the pass ends before it has given up anything.
PassOfflineFirst ==
  /\ pass = "asking"
  /\ pass' = "idle"
  /\ UNCHANGED <<durable, replay, quiet, walk, giving, wires, history>>

\* Off the Hub, the pass ends here.
PassOffline ==
  /\ pass = "asking" /\ giving = {}
  /\ pass' = "idle"
  /\ UNCHANGED <<durable, replay, quiet, walk, giving, wires, history>>

\* HubOpsOwedReplay: an event is missing by the database
Owing == {o \in Ops : /\ op[o].put /\ op[o].owed /\ ~op[o].givenUp /\ ~PastBound(o)
                      /\ StillMissing(o)}

\* stillMissing: an event is missing by the memory
Held == {e \in replay : op[e[1]].put /\ ~op[e[1]].givenUp /\ e \notin kept /\ ~Completed(e[1])}

\* operations the memory has missing events of and the bound has passed
Over == {o \in {e[1] : e \in Held} : PastBound(o)}

\* HubOpsToReconcile: what a start asks for once, in the order of making
ToReconcile == {o \in Ops : op[o].put /\ ~op[o].givenUp /\ ~PastBound(o) /\ ~Completed(o)}
Key(o) == <<sub[o].created, o>>

\* The pass has struck and given up what there is.
MayAsk(F) == IF pass = "idle" THEN Struck(F) /\ ToGiveUp = {} ELSE giving = {}

\* The rest of RequestReplays: the owed are asked for, by the database and by
\* the memory (where what is past the bound is given up instead), and then the
\* walk of this start goes on.  ask() repeats a submission once in a pass and
\* only when it is due: when nothing was repeated in this process, when the
\* last repeat or an answer to it failed, or after a while (late).  A repeat
\* of failed is not published, though one of left reaches the broker all the
\* same.  The walk stays at an operation whose repeat failed, but goes past one
\* that was asked for as owed, whatever came of it.
AskAgain(late, failed, left, F) ==
  LET listed == Owing \cup ({e[1] : e \in Held} \ Over)
      due == {o \in Ops : o \notin quiet \/ late}
      ahead == {o \in ToReconcile : Before(walk, Key(o))}
      stops == ((ahead \ listed) \cap due) \cap failed
      passed == {o \in ahead : \A s \in stops : Before(Key(o), Key(s))}
      here == {s \in stops : \A t \in stops : ~Before(Key(t), Key(s))}
      tried == (listed \cup passed \cup here) \cap due
  IN /\ MayAsk(F)
     /\ pass' = "idle"
     /\ failed \subseteq tried /\ left \subseteq failed
     /\ GiveUp(Over, F) /\ Untold(Over, F)
     /\ out' = out \cup (tried \ failed) \cup left
     /\ quiet' = {o \in (quiet \ failed) \cup (tried \ failed) : ~op'[o].givenUp}
     /\ replay' = {e \in Held : ~op'[e[1]].givenUp}
     /\ \/ stops = {} /\ walk' = Done
        \/ stops # {} /\ passed = {} /\ walk' = walk
        \/ /\ stops # {}
           /\ \E p \in passed : walk' = Key(p) /\ \A o \in passed : ~Before(Key(p), Key(o))
     /\ passedOver' = passedOver \cup (passed \cap listed \cap failed)
     /\ UNCHANGED <<sub, kept, applied, missing, giving, status, arrived>>

-----------------------------------------------------------------------------
\* PruneHubOps, hourly: the operations past their deadline and retention go,
\* with their events.  Run prunes after a pass, the first of a start included,
\* whether or not that pass could tell the ledger what there was to tell.
PruneHubOps ==
  /\ pass = "idle"
  /\ Old # {}
  /\ Old \cap (ToGiveUp \cup {e[1] : e \in kept \ applied}) \subseteq untold
  /\ op' = [o \in Ops |-> IF o \in Old THEN NoOp ELSE op[o]]
  /\ kept' = {e \in kept : e[1] \notin Old}
  /\ applied' = {e \in applied : e[1] \notin Old}
  /\ missing' = {e \in missing : e[1] \notin Old}
  /\ arrived' = {e \in arrived : e[1] \notin Old}
  /\ UNCHANGED <<sub, ledger, memory, wires, passedOver, untold>>

\* operations pruned before the ledger was told
Dropped == {o \in untold : ~op[o].put}

\* The process dies and is started again: what it held in memory is gone.
CrashSender ==
  /\ replay' = {} /\ quiet' = {} /\ walk' = Begin
  /\ pass' = "idle" /\ giving' = {}
  /\ passedOver' = {} /\ untold' = Dropped
  /\ UNCHANGED <<durable, wires, arrived>>

-----------------------------------------------------------------------------
(* The Hub, as route.go and hubmsg.go describe it: external *)

\* An event the Hub stores and publishes on msg/status.
Report(e) == hubEv' = hubEv \cup {e} /\ status' = status \cup {e}

\* A submission: a new one is taken, or refused (always when it is late); one
\* the Hub has is a repeat, answered with every event it stores.
HubTake(o) ==
  /\ o \in out /\ out' = out \ {o}
  /\ \/ /\ hub[o] = "new" /\ now <= sub[o].exp
        /\ hub' = [hub EXCEPT ![o] = "open"]
        /\ UNCHANGED status
     \/ /\ hub[o] = "new" /\ "failed" \in Kinds[o]
        /\ status' = status \cup {<<o, "failed">>}
        /\ UNCHANGED hub
     \/ /\ hub[o] = "open"
        /\ status' = status \cup {e \in hubEv : e[1] = o}
        /\ UNCHANGED hub
  /\ UNCHANGED hubEv

\* The recipient's answer, the deadline or a note: a completion may follow a
\* failure (C6), nothing follows a completion.
HubEvent(o, k) ==
  /\ hub[o] = "open" /\ <<o, k>> \notin hubEv /\ <<o, "completed">> \notin hubEv
  /\ k = "failed" \/ now <= sub[o].exp
  /\ Report(<<o, k>>)
  /\ UNCHANGED <<hub, out>>

\* The Hub forgets an operation a while after its deadline.
HubForget(o) ==
  /\ hub[o] = "open" /\ now > sub[o].exp + HubKeep
  /\ hub' = [hub EXCEPT ![o] = "new"]
  /\ hubEv' = {e \in hubEv : e[1] # o}
  /\ UNCHANGED wires

-----------------------------------------------------------------------------
Init ==
  /\ now = 0
  /\ sub = [o \in Ops |-> NoSub] /\ op = [o \in Ops |-> NoOp]
  /\ kept = {} /\ applied = {} /\ missing = {} /\ ledger = {}
  /\ replay = {} /\ quiet = {} /\ walk = Begin
  /\ pass = "idle" /\ giving = {}
  /\ out = {} /\ status = {} /\ arrived = {} /\ passedOver = {} /\ untold = {}
  /\ hub = [o \in Ops |-> "new"] /\ hubEv = {}
  /\ faults = 0 /\ crashes = 0

\* The writes of an action that fail together, while the bound allows it.
Failing(W) == IF faults < MaxFaults THEN SUBSET W ELSE {{}}

\* A step of this bridge with the failures F
Local(F) == faults' = (IF F = {} THEN faults ELSE faults + 1) /\ UNCHANGED others

\* A pass reads the clock once.  What the Hub and a new send do while it runs
\* commutes with its steps, so they come before or after it.
BetweenPasses == pass = "idle"

\* the writes AskAgain makes in this state
AskWrites == (IF KeptMissing = {} THEN {} ELSE {"strike"}) \cup (IF Over = {} THEN {} ELSE {"sink", "give"})

HubStep ==
  /\ BetweenPasses
  /\ \E o \in Ops : HubTake(o) \/ HubForget(o) \/ \E k \in Kinds[o] : HubEvent(o, k)
  /\ UNCHANGED <<durable, memory, history, now, faults, crashes>>

Restart ==
  /\ crashes < MaxCrashes /\ crashes' = crashes + 1
  /\ CrashSender
  /\ UNCHANGED <<now, hubVars, faults>>

Tick ==
  /\ BetweenPasses /\ now < MaxNow /\ now' = now + 1
  /\ untold' = Dropped
  /\ UNCHANGED <<durable, memory, wires, arrived, passedOver, hubVars, faults, crashes>>

Next ==
  \/ \E o \in Ops, failed \in BOOLEAN : BetweenPasses /\ IntentSend(o, failed) /\ Local({})
  \/ \E e \in status, F \in Failing({"keep", "mark"}) \cup
                           Failing({"resolve", "sink", "applied"}) :
       HandleStatus(e, F) /\ Local(F)
  \/ \E e \in kept, F \in Failing({"sink", "applied"}) : ApplyPending(e, F) /\ Local(F)
  \/ Strike /\ Local({})
  \/ \E F \in Failing({"strike"}) : BeginPass(F) /\ Local(F)
  \/ \E o \in Ops, F \in Failing({"sink", "give"}) : GiveUpPastBound(o, F) /\ Local(F)
  \/ PassOffline /\ Local({})
  \/ \E F \in Failing(AskWrites) :
       /\ MayAsk(F) /\ Local(F)
       /\ \E late \in {quiet = {}, TRUE}, failed \in SUBSET {o \in Ops : op[o].put} :
            \E left \in SUBSET failed : AskAgain(late, failed, left, F)
  \/ PruneHubOps /\ Local({})
  \/ HubStep
  \/ Restart
  \/ Tick

\* Run's rounds come every interval, on the Hub or off it, and a write that
\* failed succeeds in a later one; the broker hands over what it holds; the
\* clock goes on.  Nothing is assumed of the Hub's answers.
Fairness ==
  /\ WF_vars(Tick)
  /\ WF_vars(Strike /\ Local({}))
  /\ WF_vars(BeginPass({}) /\ Local({}))
  /\ WF_vars(\E o \in Ops : GiveUpPastBound(o, {}) /\ Local({}))
  /\ WF_vars(PassOffline /\ Local({}))
  /\ WF_vars(\E e \in kept : ApplyPending(e, {}) /\ Local({}))

Spec == Init /\ [][Next]_vars /\ Fairness

-----------------------------------------------------------------------------
(* Properties *)

\* The tables, the memory and the wires have their shapes; a given-up list is
\* never left behind by a pass (giveUpPastBound goes through what it listed).
TypeOK ==
  /\ now \in 0..MaxNow
  /\ sub \in [Ops -> [exp : 0..MidExp, created : 0..MidExp]]
  /\ op \in [Ops -> [put : BOOLEAN, owed : BOOLEAN, givenUp : BOOLEAN]]
  /\ applied \subseteq kept /\ kept \subseteq Event
  /\ missing \subseteq Event /\ replay \subseteq Event
  /\ ledger \subseteq Event \cup (Ops \X {Unknown})
  /\ quiet \subseteq Ops /\ giving \subseteq Ops /\ passedOver \subseteq Ops
  /\ walk \in {Begin, Done} \cup ((0..MidExp) \X Ops)
  /\ pass \in {"idle", "asking"} /\ (giving # {} => pass = "asking")
  /\ out \subseteq Ops /\ status \subseteq Event /\ hubEv \subseteq Event
  /\ hub \in [Ops -> {"new", "open"}]
  /\ arrived \subseteq Event /\ untold \subseteq Ops
  /\ faults \in 0..MaxFaults /\ crashes \in 0..MaxCrashes

\* What the route still has to find an event by, that came and was not kept:
\* its operation is owed (a repeat brings every event), by the database or by
\* the memory, a copy or a repeat is under way, or the walk of this start has
\* the operation before it.
StillFound(e) ==
  \/ e[1] \in Owing \cup {m[1] : m \in Held}
  \/ e \in status \/ e[1] \in out
  \/ Before(walk, Key(e[1]))

\* HandleStatus and RequestReplays: an event that reached this bridge and could
\* not be kept, whatever write failed and whenever the process died, is found
\* again while it can matter: until it is kept, a completion is, or the bridge
\* has stopped asking.  (A refusal is not an event the Hub stores: a repeat is
\* judged anew.)  The exception is the walk's (passedOver): it goes past an
\* operation whose repeat failed a moment before, where the others were owed.
NothingLost ==
  \A e \in arrived \cap hubEv :
    \/ e \in kept \/ Completed(e[1])
    \/ op[e[1]].givenUp \/ PastBound(e[1])
    \/ e[1] \in passedOver
    \/ StillFound(e)

\* apply and giveUp: the ledger is told before the mark that ends the telling,
\* so neither a failed write nor a crash between the two leaves an event marked
\* applied, or an operation given up, that the ledger does not know of.
LedgerFirst ==
  /\ applied \subseteq ledger
  /\ \A o \in Ops : op[o].givenUp => <<o, Unknown>> \in ledger

\* The ledger has an outcome of operation o.
Settled(o) == \E k \in {"completed", "failed", Unknown} : <<o, k>> \in ledger

\* RequestReplays, ApplyPending and giveUp: every operation that was stored ends
\* with an outcome in the ledger, the Hub's or that it is unknown, though the
\* Hub never answers, writes fail and the process restarts.  The one exception is
\* a first pass that fails after a day off, with the prune right behind it.
OutcomeSettles == \A o \in Ops : op[o].put ~> (Settled(o) \/ o \in Dropped)
=============================================================================
