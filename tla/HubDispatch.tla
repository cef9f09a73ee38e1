---------------------------- MODULE HubDispatch -----------------------------
(***************************************************************************)
(* The receiving side of the Hub app route with the dispatcher: Route.Run   *)
(* hands each stored message to the access rules of hub_0 (HandOff of       *)
(* internal/hubroute/route.go, HubHandoff of internal/engine/intent_hub.go) *)
(* while the other goroutines dispatch what came by radio, the workers send *)
(* the rows, and the process may end at any step.                           *)
(***************************************************************************)
EXTENDS HubInbox, Dispatch

CONSTANTS
  PayOf,      \* message -> its text
  MaxNow,     \* bound: the clock
  Starts      \* the settings a behaviour starts with (capacity, clock) and its
              \* bounds: deliveries, plain calls, rows claimed, link changes,
              \* failed writes, forgotten payloads, restarts

ASSUME KeyedByStore == Copies = Stores
ASSUME HubConstants ==
  /\ \A m \in Mids : PayOf[m] \in Payloads
  /\ \A s \in Starts : s.clock \in BOOLEAN

VARIABLES
  hs,         \* HandOff's list of pending messages, as it was read
  budget      \* what is left of the bounds

vars == <<inboxVars, dispatchVars, hs, budget>>

-----------------------------------------------------------------------------
Spend(b) == budget[b] > 0 /\ budget' = [budget EXCEPT ![b] = @ - 1]

\* HandOff lists what is pending, then takes it oldest first.
ListPending ==
  /\ hs = {} /\ call[Keyed] = Idle
  /\ hs' = {c \in Stores : handoff[c] = "pending"} /\ hs' # {}
  /\ UNCHANGED <<inboxVars, dispatchVars, budget>>

TakePending ==
  \E c \in hs :
    /\ \A d \in hs : c[2] <= d[2]
    /\ Begin(Keyed, PayOf[c[1]], c)
    /\ UNCHANGED <<inboxVars, hs, budget>>

\* The list of work is kept.
EndHandOffKeeps ==
  /\ Through(Keyed)
  /\ call' = [call EXCEPT ![Keyed] = Idle] /\ hs' = hs \ {call[Keyed].origin}
  /\ IF call[Keyed].failed THEN UNCHANGED inboxVars ELSE HandoffDone(call[Keyed].origin)
  /\ UNCHANGED <<queue, status, noted, made, copies, work, budget>>

\* HubHandoff returns: an error while work could not be made, and the message
\* stays pending; else MarkHubHandoffDone, which may fail too.  Marked done, the
\* list of its work is forgotten in the same transaction.
EndHandOff ==
  LET c == call[Keyed].origin
  IN /\ Through(Keyed)
     /\ call' = [call EXCEPT ![Keyed] = Idle] /\ hs' = hs \ {c}
     /\ UNCHANGED <<queue, status, noted, made, copies>>
     /\ \/ /\ ~call[Keyed].failed
           /\ HandoffDone(c)
           /\ work' = {w \in work : w[1] # c}
           /\ UNCHANGED budget
        \/ /\ ~call[Keyed].failed /\ Spend("fails")
           /\ UNCHANGED <<inboxVars, work>>
        \/ /\ call[Keyed].failed
           /\ UNCHANGED <<inboxVars, work, budget>>

-----------------------------------------------------------------------------
Init ==
  /\ \E s \in Starts : InboxInit(s.capacity, s.clock) /\ budget = s.bounds
  /\ DispatchInit
  /\ hs = {}

\* one goroutine's next step through dispatchAccess
Step(c) ==
  /\ \/ TakeRule(c) \/ CheckDepth(c) \/ PickWeakest(c) \/ EvictDelivery(c)
     \/ CheckBytes(c) \/ InsertExisting(c) \/ InsertDelivery(c)
     \/ NoteDelivered(c) \/ Return(c)
  /\ UNCHANGED <<inboxVars, hs, budget>>

WriteFails(c) ==
  InsertFails(c) /\ Spend("fails") /\ UNCHANGED <<inboxVars, hs>>

\* a message comes by radio
Arrives(c, p) ==
  c # Keyed /\ Begin(c, p, NoCopy) /\ Spend("plain") /\ UNCHANGED <<inboxVars, hs>>

\* the links' workers
Claims ==
  /\ \E r \in queue : Claim(r)
  /\ Spend("claims") /\ UNCHANGED <<inboxVars, hs>>

Finishes ==
  /\ \E r \in queue : Finish(r)
  /\ UNCHANGED <<inboxVars, hs, budget>>

LinkMoves ==
  /\ \E l \in Links, s \in {"online", "waiting", "off"} : LinkChanges(l, s)
  /\ Spend("moves") /\ UNCHANGED <<inboxVars, hs>>

Forgets ==
  /\ \E e \in noted : ForgetDelivered(e)
  /\ Spend("forgets") /\ UNCHANGED <<inboxVars, hs>>

Crash ==
  /\ CrashInbox /\ CrashDispatcher /\ hs' = {}
  /\ Spend("crashes")

Delivers ==
  /\ \E o \in Ops : HubDelivers(o)
  /\ Spend("deliveries") /\ UNCHANGED <<dispatchVars, hs>>

ClockFound ==
  EstablishClock /\ Spend("clocks") /\ UNCHANGED <<dispatchVars, hs>>

TimePasses ==
  now < MaxNow /\ Tick /\ Spend("time") /\ UNCHANGED <<dispatchVars, hs>>

\* Route.Run prunes between two rounds of hand-offs.
Prunes ==
  /\ hs = {} /\ call[Keyed] = Idle /\ PruneHubInbox
  /\ UNCHANGED <<dispatchVars, hs, budget>>

Receives ==
  /\ \E o \in Ops, F \in {{}, {"commit"}, {"publish"}} : HandleIn(o, F)
  /\ UNCHANGED <<dispatchVars, hs, budget>>

Next ==
  \/ Delivers \/ Receives \/ Prunes \/ ClockFound \/ TimePasses
  \/ ListPending \/ TakePending \/ EndHandOff
  \/ \E c \in Callers : Step(c) \/ WriteFails(c)
  \/ \E c \in Callers, p \in Payloads : Arrives(c, p)
  \/ Claims \/ Finishes \/ LinkMoves \/ Forgets \/ Crash

\* Route.Run's loop comes round, and a goroutine in a call goes on.
Fairness ==
  /\ WF_vars(ListPending) /\ WF_vars(TakePending) /\ WF_vars(EndHandOff)
  /\ \A c \in Callers : WF_vars(Step(c))

Spec == Init /\ [][Next]_vars /\ Fairness

-----------------------------------------------------------------------------
\* The tables and the goroutines have their shapes, and dispatch_work lists the
\* work of pending hand-offs only: MarkHubHandoffDone forgets the rest.
TypeOK ==
  /\ InboxTypeOK /\ DispatchTypeOK
  /\ hs \subseteq Stores
  /\ \A w \in work : handoff[w[1]] = "pending"

\* A hand-off that failed half way, or ended with the process, goes on where it
\* was: marked done, a rule with a link of its own has made the rows of all its
\* destinations or of none (dispatcher.go, again: what a rule made before would
\* read as the recent copy of what is missing).
WholeOrNone ==
  \A c \in Stores, r \in Range(Matches[Keyed]) :
    handoff[c] = "done" /\ Target[r] \in Links =>
      {d \in Range(Dests[Target[r]]) : made[<<c, <<r, d>>>>] > 0}
        \in {{}, Range(Dests[Target[r]])}

\* A message once stored is taken to the access rules in the end, writes that
\* fail and restarts notwithstanding (Route.Run).
HandedOff ==
  \A c \in Stores : handoff[c] = "pending" ~> handoff[c] = "done"

\* The receiving side keeps its promise: stored once, answered only when stored,
\* each piece of work made once, across redelivery, retention, failed writes,
\* restarts and groups that resolve elsewhere the second time.
HP == INSTANCE HubPromise WITH
  stored <- {c \in Stores : handoff[c] # "none"},
  told <- {MidOf[a[1]] : a \in {b \in ack : b[2] = "stored"}},
  late <- unjudged
Promise == HP!Spec
=============================================================================
