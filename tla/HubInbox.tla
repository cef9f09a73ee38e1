------------------------------ MODULE HubInbox ------------------------------
(***************************************************************************)
(* The receiving bridge of the Hub app route (Commit of                     *)
(* internal/hubmsg/inbox.go, CommitHubDelivery and PruneHubInbox of         *)
(* internal/database/hubmsg.go, HandleIn of internal/hubroute/route.go): a  *)
(* delivery is committed once per operation and its message stored once per *)
(* message id, with a hand-off to the access rules still to do.             *)
(*                                                                         *)
(* Ids, digests and deadlines that do not fit each other are refused before *)
(* anything is read; the Hub sends none, and they are left out.             *)
(***************************************************************************)
EXTENDS Integers, FiniteSets

CONSTANTS
  Ops,        \* operation ids
  MidOf,      \* operation -> the message it carries
  Exp,        \* operation -> its deadline (expires_at)
  MaxCopies,  \* bound: how often a message may be stored in this instance
  Skew,       \* SkewMs
  Retention   \* RetentionAfterExpiryMs

\* The operations of one message end within a retention of each other: an
\* intent's life (MESHSAT_INTENT_EXPIRY_S, one hour unless set) against a day.
ASSUME RetentionCovers ==
  \A o, p \in Ops : MidOf[o] = MidOf[p] => Exp[p] <= Exp[o] + Retention

ASSUME InboxConstants ==
  /\ MaxCopies \in Nat /\ Skew \in Nat /\ Retention \in Nat
  /\ \A o \in Ops : Exp[o] \in Nat

Mids == {MidOf[o] : o \in Ops}
Stores == Mids \X (1..MaxCopies)   \* messages of hub_0, by the order of storing

VARIABLES
  now,        \* the clock
  capacity,   \* Config.Capacity
  clockOK,    \* Config.ClockEstablished
  inn,        \* msg/in: deliveries the broker holds
  ack,        \* msg/ack: the answers given
  inbox,      \* hub_inbox: the operation and the stored message it names
  handoff,    \* hub_inbox_handoff: the state of each stored message
  unjudged    \* history: messages with an entry committed unjudged

inboxVars == <<now, capacity, clockOK, inn, ack, inbox, handoff, unjudged>>

-----------------------------------------------------------------------------
Entries(o) == {e \in inbox : e.op = o}                       \* ByOp
OfMid(m) == {e \in inbox : MidOf[e.op] = m}                   \* ByMid

\* An entry kept up to its deadline only.
RetainedShort(e) == now <= Exp[e.op] + Skew
Retained(e) == now <= Exp[e.op] + Skew + Retention            \* RetainedUntil

\* pruneHubInbox
Live == {e \in inbox : Retained(e)}

\* the next copy of message m to be stored
NextCopy(m) ==
  <<m, 1 + Cardinality({c \in Stores : c[1] = m /\ handoff[c] # "none"})>>

\* Commit's count: at capacity the entries past their retention go first
Rest == IF Cardinality(inbox) >= capacity THEN Live ELSE inbox

\* What Commit answers for operation o.  A known operation is acknowledged
\* again, its deadline passed or not; one that is late by an established clock
\* is refused; one that finds no room is refused too (receiver_busy).
Answer(o) ==
  IF Entries(o) # {} THEN "stored"
  ELSE IF clockOK /\ now > Exp[o] + Skew THEN "refused"
  ELSE IF Cardinality(Rest) >= capacity THEN "busy"
  ELSE "stored"

\* What Commit writes, in one transaction: the entry, and for a message that no
\* entry named when the commit began, the message with a hand-off to do.
Insert(o) ==
  LET m == MidOf[o]
      known == {e.copy : e \in OfMid(m)}
  IN \E c \in IF known = {} THEN {NextCopy(m)} ELSE known :
       /\ c \in Stores
       /\ inbox' = Rest \cup {[op |-> o, copy |-> c]}
       /\ handoff' = IF known = {} THEN [handoff EXCEPT ![c] = "pending"] ELSE handoff
       /\ unjudged' = IF clockOK THEN unjudged ELSE unjudged \cup {m}

Commit(o) ==
  \/ /\ Entries(o) = {} /\ Answer(o) = "stored"
     /\ Insert(o)
  \/ /\ Answer(o) = "busy"
     /\ inbox' = Rest
     /\ UNCHANGED <<handoff, unjudged>>
  \/ /\ Entries(o) # {} \/ Answer(o) = "refused"
     /\ UNCHANGED <<inbox, handoff, unjudged>>

\* HandleIn: commit, then the answer.  Nothing committed (F has "commit") is
\* nothing answered; an answer whose publish fails (F has "publish"), or before
\* which the process ends, may have left or not.
HandleIn(o, F) ==
  /\ o \in inn
  /\ inn' = inn \ {o}
  /\ IF "commit" \in F
     THEN UNCHANGED <<ack, inbox, handoff, unjudged>>
     ELSE /\ Commit(o)
          /\ \/ ack' = ack \cup {<<o, Answer(o)>>}
             \/ "publish" \in F /\ ack' = ack
  /\ UNCHANGED <<now, capacity, clockOK>>

\* The Hub delivers an operation, and again as long as it has no answer it
\* accepts, or when its broker lost the PUBACK.
HubDelivers(o) ==
  /\ o \notin inn
  /\ inn' = inn \cup {o}
  /\ UNCHANGED <<now, capacity, clockOK, ack, inbox, handoff, unjudged>>

\* PruneHubInbox, hourly
PruneHubInbox ==
  /\ Live # inbox
  /\ inbox' = Live
  /\ UNCHANGED <<now, capacity, clockOK, inn, ack, handoff, unjudged>>

\* MarkHubHandoffDone's first statement
HandoffDone(c) ==
  /\ handoff' = [handoff EXCEPT ![c] = IF @ = "pending" THEN "done" ELSE @]
  /\ UNCHANGED <<now, capacity, clockOK, inn, ack, inbox, unjudged>>

\* A restart: the inbox holds nothing in memory, but the clock guard starts
\* again without a word.
CrashInbox ==
  /\ clockOK' = FALSE
  /\ UNCHANGED <<now, capacity, inn, ack, inbox, handoff, unjudged>>

\* The clock guard finds the clock established.
EstablishClock ==
  /\ ~clockOK /\ clockOK' = TRUE
  /\ UNCHANGED <<now, capacity, inn, ack, inbox, handoff, unjudged>>

Tick ==
  /\ now' = now + 1
  /\ UNCHANGED <<capacity, clockOK, inn, ack, inbox, handoff, unjudged>>

InboxInit(cap, clock) ==
  /\ now = 0 /\ capacity = cap /\ clockOK = clock
  /\ inn = {} /\ ack = {} /\ inbox = {} /\ unjudged = {}
  /\ handoff = [c \in Stores |-> "none"]

-----------------------------------------------------------------------------
InboxTypeOK ==
  /\ inbox \subseteq [op : Ops, copy : Stores]
  /\ \A e \in inbox : Entries(e.op) = {e} /\ e.copy[1] = MidOf[e.op]
  /\ inn \subseteq Ops /\ ack \subseteq Ops \X {"stored", "refused", "busy"}
  /\ handoff \in [Stores -> {"none", "pending", "done"}]
  /\ unjudged \subseteq Mids /\ clockOK \in BOOLEAN
=============================================================================
