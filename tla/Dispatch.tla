------------------------------ MODULE Dispatch ------------------------------
(***************************************************************************)
(* The dispatcher's evaluation of the access rules (dispatchAccess of       *)
(* internal/engine/dispatcher.go) by several goroutines at once: the mesh   *)
(* processor, the gateways and the LXMF callback call DispatchAccess, the   *)
(* Hub route calls DispatchAccessKeyed for each message it stored.          *)
(*                                                                         *)
(* A call takes the rules that matched one after the other.  Each statement *)
(* of the database and each look at the dedup cache is a step of its own;   *)
(* nothing holds a lock from one to the next.  What a call reads before it  *)
(* matches (the SMS keys, the transforms of the source link) and what it    *)
(* fills into a row (TTL, signature, sequence number) is left out; so are   *)
(* the rows it makes for lxmf_0, which have no queue limit, and a count that *)
(* cannot be read, which limits nothing.                                    *)
(***************************************************************************)
EXTENDS Integers, FiniteSets, Sequences, SequencesExt

CONSTANTS
  Callers,    \* the goroutines that dispatch
  Keyed,      \* the one that dispatches under an origin: the Hub route's
  Matches,    \* caller -> the rules that match what it brings, in their order
  Visited,    \* caller -> the link it came by and those it visited before
  Links,      \* interface ids
  Groups,     \* failover group -> its members in order of priority
  Target,     \* rule -> ForwardTo: a link or a group
  Priority,   \* rule -> priority; 0 is critical
  Dests,      \* link -> destinations (cell_0: one per phone; others: one)
  Payloads,
  Size,       \* payload -> length
  Copies,     \* the stored messages a keyed dispatch carries
  NoCopy,     \* the origin of a dispatch that is not keyed
  MaxDepth,   \* maxQueueDepth
  MaxBytes,   \* maxQueueBytes
  MaxRows     \* bound: rows that exist at once

AllDests == UNION {Range(Dests[l]) : l \in Links}
Pieces == Range(Matches[Keyed]) \X AllDests    \* a rule's work: its destinations
Works == Copies \X Pieces                      \* dispatch_work: the origin and the work

NoLink == "none"

\* Rules and groups name links that exist, no link has the name of a group, and
\* the addresses of the two kinds of dispatch are told apart.
ASSUME DispatchConstants ==
  /\ IsFiniteSet(Callers) /\ Keyed \in Callers
  /\ \A c \in Callers : Matches[c] \in Seq(DOMAIN Target)
  /\ \A r \in DOMAIN Target : Target[r] \in Links \cup DOMAIN Groups
  /\ DOMAIN Target \subseteq DOMAIN Priority
  /\ \A g \in DOMAIN Groups : Groups[g] \in Seq(Links)
  /\ \A l \in Links : Dests[l] \in Seq(AllDests)
  /\ Links \cap DOMAIN Groups = {} /\ NoLink \notin Links
  /\ NoCopy \notin Copies
  /\ MaxDepth \in Nat /\ MaxRows \in Nat

VARIABLES
  queue,   \* message_deliveries: the active rows
  status,  \* the interface manager's word on each link
  noted,   \* deliveryDedup: <<link, payload>> queued within the TTL
  call,    \* each goroutine's call of dispatchAccess
  work,    \* dispatch_work: the lines <<origin, <<rule, destination>>>>
  made,    \* history: rows a keyed dispatch made, per piece of work
  copies   \* history: calls that queued a payload to a link since it was
           \* last forgotten by the cache

dispatchVars == <<queue, status, noted, call, work, made, copies>>

-----------------------------------------------------------------------------
Idle == [at |-> "idle"]

\* Resolve: a link is itself; a group is its first member online (and not
\* excluded), else its first member enabled, else nothing.
Resolve(t) ==
  IF t \notin DOMAIN Groups THEN t
  ELSE LET members == Groups[t]
           first(s) == LET I == {i \in DOMAIN members : status[members[i]] \in s}
                       IN IF I = {} THEN NoLink
                          ELSE members[CHOOSE i \in I : \A j \in I : i <= j]
       IN IF first({"online"}) # NoLink THEN first({"online"})
          ELSE first({"waiting"})

\* QueueDepth, QueueBytes
On(l) == {r \in queue : r.link = l}
QueueDepth(l) == Cardinality(On(l))
QueueBytes(l) == FoldSet(LAMBDA r, n : n + Size[r.pay], 0, On(l))

\* WeakestEvictable: one of the least urgent rows not in flight; created_at
\* counts seconds, so of several any may come first.
Evictable(l) == {r \in On(l) : ~r.sending /\ r.prio > 0}
WeakestEvictable(l) == {r \in Evictable(l) : \A q \in Evictable(l) : q.prio <= r.prio}

\* isStrongerThanQueued: rules carry no precedence, every row here is Routine.
IsStrongerThanQueued(p, r) == p < r.prio

Rule(c) == Matches[c][call[c].i]

\* the rule is done with: the next one, or the end of the call
NextRule(k) == [at |-> "rule", pay |-> k.pay, origin |-> k.origin, i |-> k.i + 1,
                listed |-> k.listed, failed |-> k.failed]

Set(c, k) == call' = [call EXCEPT ![c] = k]

-----------------------------------------------------------------------------
\* DispatchAccess and DispatchAccessKeyed: the call begins, a keyed one with the
\* work listed for its message (DispatchWorkFor).
Begin(c, p, o) ==
  /\ call[c] = Idle
  /\ Set(c, [at |-> "rule", pay |-> p, origin |-> o, i |-> 1,
             listed |-> {x \in work : x[1] = o}, failed |-> FALSE])
  /\ UNCHANGED <<queue, status, noted, work, made, copies>>

\* A hand-off tried again meets the checks of a first one.
AgainNever(c) == FALSE

\* again: an earlier try of this keyed dispatch made some of the rule's work
\* (madeFor looks at the list as it was read).
Again(c) ==
  LET k == call[c]
  IN \E x \in k.listed : x[2][1] = Rule(c)

\* One rule up to its limits: where it goes, whether that is a loop, whether the
\* link had the payload recently.
TakeRule(c) ==
  LET k == call[c]
      l == Resolve(Target[Rule(c)])
  IN /\ k.at = "rule" /\ k.i <= Len(Matches[c])
     /\ IF \/ l = NoLink
           \/ l \in Visited[c]
           \/ ~Again(c) /\ <<l, k.pay>> \in noted
        THEN Set(c, NextRule(k))
        ELSE Set(c, [at |-> IF Again(c) THEN "insert" ELSE "depth", pay |-> k.pay,
                     origin |-> k.origin, i |-> k.i, listed |-> k.listed,
                     failed |-> k.failed, link |-> l, again |-> Again(c),
                     todo |-> Dests[l], victim |-> 0, made |-> FALSE])
     /\ UNCHANGED <<queue, status, noted, work, made, copies>>

\* the depth limit
CheckDepth(c) ==
  LET k == call[c]
  IN /\ k.at = "depth"
     /\ Set(c, [k EXCEPT !.at = IF QueueDepth(k.link) >= MaxDepth THEN "weakest" ELSE "bytes"])
     /\ UNCHANGED <<queue, status, noted, work, made, copies>>

\* the queue was full: a weaker row to evict, or the arrival is refused
PickWeakest(c) ==
  LET k == call[c]
  IN /\ k.at = "weakest"
     /\ \/ \E r \in WeakestEvictable(k.link) :
             /\ IsStrongerThanQueued(Priority[Rule(c)], r)
             /\ Set(c, [k EXCEPT !.at = "evict", !.victim = r.id])
        \/ /\ ~\E r \in WeakestEvictable(k.link) : IsStrongerThanQueued(Priority[Rule(c)], r)
           /\ Set(c, NextRule(k))
     /\ UNCHANGED <<queue, status, noted, work, made, copies>>

\* The number of rows evicted is not looked at.
EvictDeliveryBlind(c) ==
  LET k == call[c]
  IN /\ k.at = "evict"
     /\ queue' = {r \in queue : r.id # k.victim \/ r.sending}
     /\ Set(c, [k EXCEPT !.at = "bytes", !.victim = 0])
     /\ UNCHANGED <<status, noted, work, made, copies>>

\* EvictDelivery, conditional on the row's status: one taken or ended by then
\* refuses the arrival.
EvictDelivery(c) ==
  LET k == call[c]
      gone == {r \in queue : r.id = k.victim /\ ~r.sending}
  IN /\ k.at = "evict"
     /\ queue' = queue \ gone
     /\ Set(c, IF gone = {} THEN NextRule(k) ELSE [k EXCEPT !.at = "bytes", !.victim = 0])
     /\ UNCHANGED <<status, noted, work, made, copies>>

\* the byte limit
CheckBytes(c) ==
  LET k == call[c]
  IN /\ k.at = "bytes"
     /\ Set(c, IF QueueBytes(k.link) + Size[k.pay] > MaxBytes
               THEN NextRule(k) ELSE [k EXCEPT !.at = "insert"])
     /\ UNCHANGED <<queue, status, noted, work, made, copies>>

\* an id no row has and no goroutine holds
FreshId ==
  LET used == {r.id : r \in queue} \cup
              {call[c].victim : c \in {d \in Callers : call[d].at = "evict"}}
  IN {n \in 1..MaxRows : n \notin used /\ \A m \in 1..(n - 1) : m \in used}

\* A unique line that is refused instead of taken for work made before.
InsertExistingFails(c) ==
  LET k == call[c]
      w == <<k.origin, <<Rule(c), Head(k.todo)>>>>
  IN /\ k.at = "insert" /\ k.todo # <<>> /\ w \in work
     /\ Set(c, [k EXCEPT !.todo = Tail(@), !.failed = TRUE])
     /\ UNCHANGED <<queue, status, noted, work, made, copies>>

\* insertWork for the next destination.  A keyed dispatch finds the line of work
\* made before (InsertDeliveryOnce) and passes on.
InsertExisting(c) ==
  LET k == call[c]
      w == <<k.origin, <<Rule(c), Head(k.todo)>>>>
  IN /\ k.at = "insert" /\ k.todo # <<>> /\ w \in work
     /\ Set(c, [k EXCEPT !.todo = Tail(@)])
     /\ UNCHANGED <<queue, status, noted, work, made, copies>>

\* Else the row is queued, a keyed one with its line in the same transaction.
InsertDelivery(c) ==
  LET k == call[c]
      w == <<k.origin, <<Rule(c), Head(k.todo)>>>>
      keyed == k.origin # NoCopy
  IN /\ k.at = "insert" /\ k.todo # <<>> /\ w \notin work
     /\ \E n \in FreshId :
          queue' = queue \cup {[id |-> n, link |-> k.link, pay |-> k.pay,
                                prio |-> Priority[Rule(c)], sending |-> FALSE]}
     /\ Set(c, [k EXCEPT !.todo = Tail(@), !.made = TRUE])
     /\ work' = IF keyed THEN work \cup {w} ELSE work
     /\ made' = IF keyed THEN [made EXCEPT ![w] = @ + 1] ELSE made
     /\ copies' = IF k.made \/ k.again THEN copies
                  ELSE [copies EXCEPT ![<<k.link, k.pay>>] = @ + 1]
     /\ UNCHANGED <<status, noted>>

\* A write that fails is counted and passed over.
InsertFails(c) ==
  LET k == call[c]
  IN /\ k.at = "insert" /\ k.todo # <<>>
     /\ Set(c, [k EXCEPT !.todo = Tail(@), !.failed = TRUE])
     /\ UNCHANGED <<queue, status, noted, work, made, copies>>

\* The payload noted for a keyed dispatch only.
NoteDeliveredKeyed(c) ==
  LET k == call[c]
  IN /\ k.at = "insert" /\ k.todo = <<>>
     /\ noted' = IF k.made /\ k.origin # NoCopy THEN noted \cup {<<k.link, k.pay>>} ELSE noted
     /\ Set(c, NextRule(k))
     /\ UNCHANGED <<queue, status, work, made, copies>>

\* noteDelivered, when the rule made a row; then the next rule.
NoteDelivered(c) ==
  LET k == call[c]
  IN /\ k.at = "insert" /\ k.todo = <<>>
     /\ noted' = IF k.made THEN noted \cup {<<k.link, k.pay>>} ELSE noted
     /\ Set(c, NextRule(k))
     /\ UNCHANGED <<queue, status, work, made, copies>>

\* the rules are through
Through(c) == call[c].at = "rule" /\ call[c].i > Len(Matches[c])

\* A plain dispatch returns; what failed is not tried again.
Return(c) ==
  /\ Through(c) /\ call[c].origin = NoCopy
  /\ Set(c, Idle)
  /\ UNCHANGED <<queue, status, noted, work, made, copies>>

-----------------------------------------------------------------------------
\* The link's worker takes a row (ClaimDeliveryForSending) and ends it.
Claim(r) ==
  /\ r \in queue /\ ~r.sending
  /\ queue' = (queue \ {r}) \cup {[r EXCEPT !.sending = TRUE]}
  /\ UNCHANGED <<status, noted, call, work, made, copies>>

Finish(r) ==
  /\ r \in queue /\ r.sending
  /\ queue' = queue \ {r}
  /\ UNCHANGED <<status, noted, call, work, made, copies>>

\* The interface manager finds a link online, waiting (not online, or online
\* and excluded) or switched off.
LinkChanges(l, s) ==
  /\ status[l] # s /\ status' = [status EXCEPT ![l] = s]
  /\ UNCHANGED <<queue, noted, call, work, made, copies>>

\* The TTL of a dedup entry ends.
ForgetDelivered(e) ==
  /\ e \in noted
  /\ noted' = noted \ {e} /\ copies' = [copies EXCEPT ![e] = 0]
  /\ UNCHANGED <<queue, status, call, work, made>>

\* A crash ends every call and the cache; rows and lines stay.
CrashDispatcher ==
  /\ call' = [c \in Callers |-> Idle]
  /\ noted' = {} /\ copies' = [e \in Links \X Payloads |-> 0]
  /\ UNCHANGED <<queue, status, work, made>>

DispatchInit ==
  /\ queue = {} /\ noted = {} /\ work = {}
  /\ status = [l \in Links |-> "online"]
  /\ call = [c \in Callers |-> Idle]
  /\ made = [w \in Works |-> 0]
  /\ copies = [e \in Links \X Payloads |-> 0]

-----------------------------------------------------------------------------
DispatchTypeOK ==
  /\ \A r \in queue : /\ DOMAIN r = {"id", "link", "pay", "prio", "sending"}
                      /\ r.link \in Links /\ r.pay \in Payloads
                      /\ r.prio \in Range(Priority)
                      /\ \A q \in queue : q.id = r.id => q = r
  /\ status \in [Links -> {"online", "waiting", "off"}]
  /\ noted \subseteq Links \X Payloads
  /\ \A c \in Callers : call[c] # Idle =>
       /\ call[c].i \in 1..(Len(Matches[c]) + 1)
       /\ call[c].origin \in Copies \cup {NoCopy}
  /\ work \subseteq Works
  /\ made \in [Works -> Nat] /\ copies \in [Links \X Payloads -> Nat]

\* past the depth check on link l and not yet through with it
Admitted(l) ==
  {c \in Callers : call[c].at \in {"bytes", "insert"} /\ call[c].link = l
                     /\ ~call[c].again /\ call[c].todo # <<>>}

\* l has one destination, and so have the links it shares a group with: the same
\* one (a rule's work is listed by its destination, and a cell's is a phone).
OneEach(l) ==
  /\ Len(Dests[l]) = 1
  /\ \A g \in DOMAIN Groups : l \in Range(Groups[g]) =>
       \A m \in Range(Groups[g]) : Dests[m] = Dests[l]

\* The check of a queue's depth and the insert are separate statements
\* (dispatcher.go:957): with n goroutines dispatching at once a link with one
\* destination goes over its limit by n - 1 rows at the most, whatever is evicted
\* and taken in between.
DepthBound ==
  \A l \in Links : OneEach(l) =>
    QueueDepth(l) + Cardinality(Admitted(l)) <= MaxDepth + Cardinality(Callers) - 1

\* recentlyDelivered is asked before the row is queued and noteDelivered told
\* after (dispatcher.go:1392): within one TTL a payload is queued to a link by
\* each goroutine once at the most, never by one of them twice.
CopiesBound ==
  \A e \in Links \X Payloads : copies[e] <= Cardinality(Callers)
=============================================================================
