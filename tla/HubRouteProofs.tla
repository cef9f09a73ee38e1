--------------------------- MODULE HubRouteProofs ---------------------------
(***************************************************************************)
(* That the intent ledger knows of every event marked applied and of every  *)
(* operation given up, and that no event that reached the bridge is lost,   *)
(* for any number of operations, kinds of event, failed writes and restarts.*)
(*                                                                         *)
(* The first argument is about the order of two writes: apply and giveUp    *)
(* tell the ledger first and mark only when that went well, nothing unsays  *)
(* what the ledger was told, and every other write of an operation's row    *)
(* (owing and striking missing events, pruning) leaves the mark or deletes  *)
(* the row.                                                                 *)
(*                                                                         *)
(* NothingLost is not inductive: it says that the operation of a lost event *)
(* is owed, which may be because of another event of it, and that note goes *)
(* when the other one is kept.  FoundOK says that it is the event itself    *)
(* that is noted, or under way with a repeat; and that an operation which   *)
(* the walk would pass over without asking, because it was asked for in     *)
(* this process, is noted already.                                          *)
(***************************************************************************)
EXTENDS HubRoute, TLAPS

\* The rows of hub_ops have their shape.
OpOK == op \in [Ops -> [put : BOOLEAN, owed : BOOLEAN, givenUp : BOOLEAN]]

IInv == OpOK /\ LedgerFirst

\* A step that only takes marks of given-up operations away, or none.
MarksKept ==
  \A o \in Ops : op'[o].givenUp => op[o].givenUp

-----------------------------------------------------------------------------
\* clearIdleReplay keeps the shape of a row and its mark.
LEMMA ClearIdleKeeps ==
  ASSUME OpOK, NEW o \in Ops, NEW m
  PROVE  /\ ClearIdle(o, m) \in [put : BOOLEAN, owed : BOOLEAN, givenUp : BOOLEAN]
         /\ ClearIdle(o, m).givenUp = op[o].givenUp
<1>1. op[o] \in [put : BOOLEAN, owed : BOOLEAN, givenUp : BOOLEAN]
  BY DEF OpOK
<1> QED
  BY <1>1 DEF ClearIdle

\* Nothing is marked and nothing the ledger knows is unsaid.
LEMMA Unmarked ==
  ASSUME IInv, OpOK', MarksKept, applied' \subseteq applied, ledger \subseteq ledger'
  PROVE  IInv'
  BY DEF IInv, LedgerFirst, MarksKept

\* apply: told, then marked.
LEMMA ApplyTells ==
  ASSUME IInv, NEW e, NEW F, Apply(e, F)
  PROVE  applied' \subseteq ledger' /\ ledger \subseteq ledger'
  BY DEF Apply, IInv, LedgerFirst

\* giveUp: told, then marked.
LEMMA GiveUpTells ==
  ASSUME IInv, NEW G, NEW F, GiveUp(G, F), applied' = applied
  PROVE  IInv'
<1>1. ledger \subseteq ledger'
  BY DEF GiveUp
<1>2. OpOK'
  <2>1. \A o \in Ops : op[o] \in [put : BOOLEAN, owed : BOOLEAN, givenUp : BOOLEAN]
    BY DEF IInv, OpOK
  <2>2. \A o \in Ops : [op[o] EXCEPT !.givenUp = TRUE] \in [put : BOOLEAN, owed : BOOLEAN, givenUp : BOOLEAN]
    BY <2>1
  <2> QED
    BY <2>1, <2>2 DEF GiveUp, IInv, OpOK
<1>3. ASSUME NEW o \in Ops, op'[o].givenUp PROVE <<o, Unknown>> \in ledger'
  <2>1. CASE op' = op
    BY <1>1, <1>3, <2>1 DEF IInv, LedgerFirst
  <2>2. CASE op' # op
    <3>1. "sink" \notin F /\ op' = [p \in Ops |-> IF p \in G THEN [op[p] EXCEPT !.givenUp = TRUE] ELSE op[p]]
      BY <2>2 DEF GiveUp
    <3>2. ledger' = ledger \cup {<<p, Unknown>> : p \in G}
      BY <3>1 DEF GiveUp
    <3>3. CASE o \in G
      BY <3>2, <3>3
    <3>4. CASE o \notin G
      BY <1>1, <1>3, <3>1, <3>4 DEF IInv, LedgerFirst
    <3> QED
      BY <3>3, <3>4
  <2> QED
    BY <2>1, <2>2
<1> QED
  BY <1>1, <1>2, <1>3 DEF IInv, LedgerFirst

\* Init knows of nothing.
LEMMA InitOK == Init => IInv
  BY DEF Init, IInv, OpOK, LedgerFirst, NoOp

-----------------------------------------------------------------------------
(* One lemma per action that writes a row of hub_ops, an event or the ledger. *)

\* A new operation is not given up.
LEMMA IntentSendOK == ASSUME IInv, NEW o \in Ops, NEW failed, IntentSend(o, failed) PROVE IInv'
<1>1. op' = [op EXCEPT ![o] = [NoOp EXCEPT !.put = TRUE]] /\ applied' = applied /\ ledger' = ledger
  BY DEF IntentSend
<1>2. OpOK' /\ MarksKept
  BY <1>1 DEF IInv, OpOK, MarksKept, NoOp
<1> QED
  BY <1>1, <1>2, Unmarked

\* oweReplay marks an operation as owed, nothing else.
LEMMA OweReplayKeeps == ASSUME IInv, NEW e, NEW F, OweReplay(e, F) PROVE OpOK' /\ MarksKept
<1>1. \A o \in Ops : op[o] \in [put : BOOLEAN, owed : BOOLEAN, givenUp : BOOLEAN]
  BY DEF IInv, OpOK
<1>2. op' = op \/ op' = [op EXCEPT ![e[1]].owed = TRUE]
  BY DEF OweReplay
<1>3. CASE op' = op
  BY <1>3 DEF IInv, OpOK, MarksKept
<1>4. CASE op' = [op EXCEPT ![e[1]].owed = TRUE]
  BY <1>1, <1>4 DEF IInv, OpOK, MarksKept
<1> QED
  BY <1>2, <1>3, <1>4

\* resolve strikes missing events, nothing else.
LEMMA ResolveKeeps == ASSUME IInv, NEW e, NEW F, Resolve(e, F) PROVE OpOK' /\ MarksKept
<1>1. PICK m : op' = op \/ op' = [op EXCEPT ![e[1]] = ClearIdle(e[1], m)]
  BY Zenon DEF Resolve
<1>2. CASE op' = op
  BY <1>2 DEF IInv, OpOK, MarksKept
<1>3. CASE op' = [op EXCEPT ![e[1]] = ClearIdle(e[1], m)]
  BY <1>3, ClearIdleKeeps DEF IInv, OpOK, MarksKept
<1> QED
  BY <1>1, <1>2, <1>3

\* An event arrives.
LEMMA HandleStatusOK == ASSUME IInv, NEW e, NEW F, HandleStatus(e, F) PROVE IInv'
<1>1. CASE UNCHANGED <<op, applied, ledger>>
  BY <1>1 DEF IInv, OpOK, LedgerFirst
<1>2. CASE OweReplay(e, F) /\ UNCHANGED <<applied, ledger>>
  BY <1>2, OweReplayKeeps, Unmarked
<1>3. CASE Resolve(e, F) /\ Apply(e, F)
  <2>1. OpOK' /\ MarksKept
    BY <1>3, ResolveKeeps
  <2>2. applied' \subseteq ledger' /\ ledger \subseteq ledger'
    BY <1>3, ApplyTells
  <2> QED
    BY <2>1, <2>2 DEF IInv, LedgerFirst, MarksKept
<1> QED
  BY <1>1, <1>2, <1>3 DEF HandleStatus

\* A kept event is applied.
LEMMA ApplyPendingOK == ASSUME IInv, NEW e, NEW F, ApplyPending(e, F) PROVE IInv'
<1>1. op' = op /\ Apply(e, F)
  BY DEF ApplyPending
<1> QED
  BY <1>1, ApplyTells DEF IInv, OpOK, LedgerFirst

\* A pass strikes what was kept.
LEMMA StrikeOK == ASSUME IInv, Strike PROVE IInv'
<1>1. applied' = applied /\ ledger' = ledger
      /\ op' = [o \in Ops |-> ClearIdle(o, missing \ KeptMissing)]
  BY DEF Strike
<1>2. OpOK' /\ MarksKept
  BY <1>1, ClearIdleKeeps DEF IInv, OpOK, MarksKept
<1> QED
  BY <1>1, <1>2, Unmarked

\* An operation past its bound is given up.
LEMMA GiveUpPastBoundOK == ASSUME IInv, NEW o, NEW F, GiveUpPastBound(o, F) PROVE IInv'
<1>1. GiveUp({o}, F) /\ applied' = applied
  BY DEF GiveUpPastBound
<1> QED
  BY <1>1, GiveUpTells

\* The owed are asked for; those past their bound are given up.
LEMMA AskAgainOK ==
  ASSUME IInv, NEW late, NEW failed, NEW left, NEW F, AskAgain(late, failed, left, F) PROVE IInv'
<1>1. GiveUp(Over, F) /\ applied' = applied
  BY Zenon DEF AskAgain
<1> QED
  BY <1>1, GiveUpTells

\* Old operations go, with their marks.
LEMMA PruneHubOpsOK == ASSUME IInv, PruneHubOps PROVE IInv'
<1>1. op' = [o \in Ops |-> IF o \in Old THEN NoOp ELSE op[o]] /\ ledger' = ledger
      /\ applied' = {e \in applied : e[1] \notin Old}
  BY DEF PruneHubOps
<1>2. OpOK' /\ MarksKept
  BY <1>1 DEF IInv, OpOK, MarksKept, NoOp
<1> QED
  BY <1>1, <1>2, Unmarked

\* Steps of the Hub, the clock, the process and the passes that read only.
LEMMA AsideOK == ASSUME IInv, UNCHANGED <<op, applied, ledger>> PROVE IInv'
  BY DEF IInv, OpOK, LedgerFirst

\* Every step, and a step that changes nothing.
LEMMA NextOK == IInv /\ [Next]_vars => IInv'
<1> SUFFICES ASSUME IInv, [Next]_vars PROVE IInv'
  OBVIOUS
<1> USE DEF durable, memory, wires, history
<1>1. ASSUME NEW o \in Ops, NEW failed, IntentSend(o, failed) PROVE IInv'
  BY <1>1, IntentSendOK
<1>2. ASSUME NEW e, NEW F, HandleStatus(e, F) PROVE IInv'
  BY <1>2, HandleStatusOK
<1>3. ASSUME NEW e, NEW F, ApplyPending(e, F) PROVE IInv'
  BY <1>3, ApplyPendingOK
<1>4. CASE Strike
  BY <1>4, StrikeOK
<1>5. ASSUME NEW F, BeginPass(F) PROVE IInv'
  BY <1>5, AsideOK DEF BeginPass
<1>6. ASSUME NEW o, NEW F, GiveUpPastBound(o, F) PROVE IInv'
  BY <1>6, GiveUpPastBoundOK
<1>7. CASE PassOffline
  BY <1>7, AsideOK DEF PassOffline
<1>8. ASSUME NEW late, NEW failed, NEW left, NEW F, AskAgain(late, failed, left, F) PROVE IInv'
  BY <1>8, AskAgainOK
<1>9. CASE PruneHubOps
  BY <1>9, PruneHubOpsOK
<1>10. CASE HubStep \/ Restart \/ Tick
  BY <1>10, AsideOK DEF HubStep, Restart, CrashSender, Tick
<1>11. CASE UNCHANGED vars
  BY <1>11, AsideOK DEF vars
<1> QED
  BY <1>1, <1>2, <1>3, <1>4, <1>5, <1>6, <1>7, <1>8, <1>9, <1>10, <1>11, Zenon DEF Next

\* The intent ledger is told before the mark that ends the telling (apply and
\* giveUp of route.go), for any operations, failed writes and restarts.
THEOREM LedgerFirstSafety == Spec => []LedgerFirst
<1>1. IInv => LedgerFirst
  BY DEF IInv
<1> QED
  BY <1>1, InitOK, NextOK, PTL DEF Spec
-----------------------------------------------------------------------------
(* That no event that reached this bridge is lost.                          *)

\* Operations with an event that arrived, or that is missing, are stored, and one
\* with a missing event is owed a repeat; an operation once stored has a deadline.
RowsOK ==
  /\ \A o \in Ops : op[o].put => sub[o] # NoSub
  /\ \A e \in arrived : op[e[1]].put
  /\ \A e \in missing : op[e[1]].put /\ op[e[1]].owed

\* The Hub stores events of operations it has.
HubOK == \A e \in hubEv : hub[e[1]] = "open"

\* There is nothing left to find an event for.
Excused(e) ==
  \/ e \in kept \/ Completed(e[1])
  \/ op[e[1]].givenUp \/ PastBound(e[1])

\* The event itself is noted as missing or still under way, or the walk gave it up.
Noted(e) ==
  \/ e \in missing \/ e \in replay
  \/ e \in status \/ e[1] \in out
  \/ e[1] \in passedOver

\* What NothingLost leaves out: it is the event itself that is noted, not another
\* one of its operation, and an operation the walk has before it, but need not
\* repeat because it was repeated in this process, is noted as well.
FoundOK ==
  \A e \in arrived \cap hubEv :
    \/ Excused(e) \/ Noted(e)
    \/ Before(walk, Key(e[1])) /\ e[1] \notin quiet

TInv == TypeOK /\ RowsOK /\ HubOK /\ FoundOK

-----------------------------------------------------------------------------
(* Facts about events, rows and the order of the walk.                      *)

\* An event names an operation.
LEMMA EventIs ==
  /\ \A e \in Event : e[1] \in Ops
  /\ \A o \in Ops : \A k \in Kinds[o] : <<o, k>> \in Event
<1>1. ASSUME NEW e \in Event PROVE e[1] \in Ops
  <2>1. PICK o \in Ops : e \in {o} \X Kinds[o]
    BY DEF Event
  <2> QED
    BY <2>1
<1>2. ASSUME NEW o \in Ops, NEW k \in Kinds[o] PROVE <<o, k>> \in Event
  <2>1. <<o, k>> \in {o} \X Kinds[o]
    OBVIOUS
  <2> QED
    BY <2>1 DEF Event
<1> QED
  BY <1>1, <1>2

\* The key of an operation is a pair of numbers; a start begins before all.
LEMMA KeyIs ==
  ASSUME TypeOK, NEW o \in Ops
  PROVE  /\ Key(o) \in (0..MidExp) \X Ops
         /\ Key(o)[1] \in Int /\ Key(o)[2] \in Int /\ Before(Begin, Key(o))
<1>1. sub[o] \in [exp : 0..MidExp, created : 0..MidExp]
  BY DEF TypeOK
<1>2. sub[o].created \in 0..MidExp
  BY <1>1
<1> QED
  BY <1>2, OpsAssumption, TimesAssumption DEF Key, Before, Begin

\* Pairs of numbers are ordered.
LEMMA Ordered ==
  ASSUME NEW x, NEW y, NEW z, x[1] \in Int, x[2] \in Int, y[1] \in Int, y[2] \in Int,
         z[1] \in Int, z[2] \in Int
  PROVE  /\ ~Before(x, x)
         /\ ~Before(y, x) /\ Before(y, z) => Before(x, z)
  BY DEF Before

\* A write that fails is counted within the bound.
LEMMA FaultsCounted ==
  ASSUME TypeOK, NEW W, NEW F \in Failing(W), Local(F)
  PROVE  faults' \in 0..MaxFaults
<1>1. CASE faults < MaxFaults
  BY <1>1, TimesAssumption DEF TypeOK, Local
<1>2. CASE ~(faults < MaxFaults)
  <2>1. F = {}
    BY <1>2 DEF Failing
  <2> QED
    BY <2>1 DEF TypeOK, Local
<1> QED
  BY <1>1, <1>2

\* What a step of this bridge leaves alone.
LEMMA LocalKeeps ==
  ASSUME NEW F, Local(F)
  PROVE  UNCHANGED <<now, hub, hubEv, crashes>>
  BY DEF Local, others, hubVars

\* What the row of an operation says stays true of it until it is deleted.
RowsOn ==
  \A o \in Ops : /\ op[o].put => op'[o].put
                 /\ op[o].givenUp => op'[o].givenUp

\* The proof that no event is lost, for a step that forgets nothing: it keeps the
\* tables, the clock and the walk, adds only operations on the wire to those that
\* were repeated, and notes what it takes off the wires.
LEMMA FoundKept ==
  ASSUME TInv, UNCHANGED <<sub, walk>>, now' \in Nat, now <= now', RowsOn,
         kept \subseteq kept', passedOver \subseteq passedOver', arrived' \subseteq Event,
         \A o \in quiet' : o \in quiet \/ o \in out',
         \A e \in arrived' \cap hubEv' : e \in arrived \cap hubEv \/ Excused(e)' \/ Noted(e)',
         \A e \in arrived' \cap hubEv' : Noted(e) => Excused(e)' \/ Noted(e)'
  PROVE  FoundOK'
<1> SUFFICES ASSUME NEW e \in arrived' \cap hubEv', ~Excused(e)', ~Noted(e)'
             PROVE  Before(walk', Key(e[1])') /\ e[1] \notin quiet'
  BY DEF FoundOK
<1>1. e \in arrived \cap hubEv /\ ~Noted(e) /\ e[1] \in Ops
  BY EventIs
<1>2. ~PastBound(e[1])
  <2>1. sub[e[1]].exp \in Int
    BY <1>1 DEF TInv, TypeOK
  <2> QED
    BY <1>1, <2>1, TimesAssumption DEF Excused, PastBound, TInv, TypeOK
<1>3. ~Excused(e)
  BY <1>1, <1>2 DEF Excused, Completed, RowsOn
<1>4. Before(walk, Key(e[1])) /\ e[1] \notin quiet
  BY <1>1, <1>3 DEF TInv, FoundOK
<1>5. e[1] \notin quiet'
  BY <1>4 DEF Noted
<1> QED
  BY <1>4, <1>5 DEF Key

-----------------------------------------------------------------------------
(* One lemma per action; IInv' gives the shape of the rows after the step.   *)

\* A new operation has a deadline, and had nothing to be found.
LEMMA IntentSendFinds ==
  ASSUME TInv, IInv', NEW o \in Ops, NEW failed, IntentSend(o, failed), Local({})
  PROVE  TInv'
<1>1. /\ sub[o] = NoSub /\ now < MidExp
      /\ op' = [op EXCEPT ![o] = [NoOp EXCEPT !.put = TRUE]]
      /\ out \subseteq out' /\ out' \subseteq out \cup {o}
      /\ UNCHANGED <<kept, applied, missing, ledger, memory, status, history>>
  BY DEF IntentSend
<1>2. UNCHANGED <<now, hub, hubEv, crashes>> /\ faults' = faults
  BY LocalKeeps DEF Local
<1>3. PICK x : /\ x = (IF now + ReceiptAllow < MidExp THEN now + ReceiptAllow ELSE MidExp)
               /\ sub' = [sub EXCEPT ![o] = [exp |-> x, created |-> now]]
  BY DEF IntentSend
<1>4. x \in 0..MidExp /\ x # 0 /\ now \in 0..MidExp
  <2>1. now \in Nat /\ now < MidExp /\ x = IF now + ReceiptAllow < MidExp THEN now + ReceiptAllow ELSE MidExp
    BY <1>1, <1>3, TimesAssumption DEF TInv, TypeOK
  <2> QED
    BY <2>1, TimesAssumption
<1>5. TypeOK'
  <2>1. sub' \in [Ops -> [exp : 0..MidExp, created : 0..MidExp]]
    BY <1>3, <1>4 DEF TInv, TypeOK
  <2>2. op' \in [Ops -> [put : BOOLEAN, owed : BOOLEAN, givenUp : BOOLEAN]]
    BY DEF IInv, OpOK
  <2>3. UNCHANGED <<kept, applied, missing, ledger, replay, quiet, walk, pass, giving,
                    status, arrived, passedOver, untold>>
    BY <1>1 DEF memory, history
  <2>4. out' \subseteq Ops
    BY <1>1 DEF TInv, TypeOK
  <2> QED
    BY <1>2, <2>1, <2>2, <2>3, <2>4 DEF TInv, TypeOK
<1>6. \A p \in Ops : p # o => op'[p] = op[p] /\ sub'[p] = sub[p]
  BY <1>1, <1>3 DEF TInv, TypeOK
<1>7. op'[o].put /\ sub'[o].exp = x
  BY <1>1, <1>3 DEF TInv, TypeOK, NoOp
<1>8. ~op[o].put
  BY <1>1 DEF TInv, RowsOK
<1>9. \A e \in arrived \cup missing : e[1] \in Ops \ {o}
  BY <1>8, EventIs DEF TInv, RowsOK, TypeOK
<1>10. RowsOK'
  <2>1. sub'[o] # NoSub
    BY <1>4, <1>7 DEF NoSub
  <2>2. arrived' = arrived /\ missing' = missing
    BY <1>1 DEF history
  <2> QED
    BY <1>6, <1>9, <2>1, <2>2 DEF TInv, RowsOK
<1>11. FoundOK'
  <2> SUFFICES ASSUME NEW e \in arrived \cap hubEv, ~Excused(e)', ~Noted(e)'
               PROVE  Before(walk', Key(e[1])') /\ e[1] \notin quiet'
    BY <1>1, <1>2 DEF FoundOK, history
  <2>1. op'[e[1]] = op[e[1]] /\ sub'[e[1]] = sub[e[1]]
    BY <1>6, <1>9
  <2>2. ~Excused(e) /\ ~Noted(e)
    BY <1>1, <1>2, <2>1 DEF Excused, Noted, Completed, PastBound, memory, history
  <2> QED
    BY <1>1, <2>1, <2>2 DEF TInv, FoundOK, Key, memory
<1> QED
  BY <1>2, <1>5, <1>10, <1>11 DEF TInv, HubOK

\* An event arrives: it is kept, or noted as missing.
LEMMA HandleStatusFinds ==
  ASSUME TInv, IInv, IInv', NEW e \in status, NEW W, NEW F \in Failing(W), HandleStatus(e, F), Local(F)
  PROVE  TInv'
<1> DEFINE o == e[1]
<1>1. status' = status \ {e} /\ UNCHANGED <<sub, walk, pass, giving, out, passedOver>>
  BY DEF HandleStatus
<1>2. UNCHANGED <<now, hub, hubEv, crashes>> /\ faults' \in 0..MaxFaults
  BY LocalKeeps, FaultsCounted DEF TInv
<1>3. e \in Event /\ o \in Ops
  BY EventIs DEF TInv, TypeOK
<1>4. op' \in [Ops -> [put : BOOLEAN, owed : BOOLEAN, givenUp : BOOLEAN]]
  BY DEF IInv, OpOK
<1>5. HubOK'
  BY <1>2 DEF TInv, HubOK
<1>6. CASE ~op[o].put
  <2>1. UNCHANGED <<op, kept, applied, missing, ledger, replay, quiet, arrived, untold>>
    BY <1>6 DEF HandleStatus
  <2>2. TypeOK'
    BY <1>1, <1>2, <2>1 DEF TInv, TypeOK
  <2>3. RowsOK'
    BY <1>1, <2>1 DEF TInv, RowsOK
  <2>4. e \notin arrived
    BY <1>6 DEF TInv, RowsOK
  <2>5. \A d \in arrived : Noted(d) => Noted(d)'
    BY <1>1, <2>1, <2>4 DEF Noted
  <2>6. RowsOn /\ now' \in Nat /\ now <= now'
    BY <1>2, <2>1 DEF RowsOn, TInv, TypeOK
  <2>7. arrived' \subseteq Event
    BY <2>2 DEF TypeOK
  <2>8. FoundOK'
    BY <1>1, <1>2, <2>1, <2>5, <2>6, <2>7, FoundKept
  <2> QED
    BY <1>5, <2>2, <2>3, <2>8 DEF TInv
<1>7. CASE op[o].put
  <2>1. /\ arrived' = arrived \cup {e} /\ Untold({o}, F)
        /\ \/ OweReplay(e, F) /\ UNCHANGED <<kept, applied, ledger>>
           \/ kept' = kept \cup {e} /\ Resolve(e, F) /\ Apply(e, F)
    BY <1>7 DEF HandleStatus
  <2>2. untold' \subseteq Ops
    BY <1>3, <2>1 DEF Untold, TInv, TypeOK, Old
  <2>3. now' \in Nat /\ now <= now'
    BY <1>2 DEF TInv, TypeOK
  <2>4. CASE OweReplay(e, F) /\ UNCHANGED <<kept, applied, ledger>>
    <3>1. /\ quiet' \subseteq quiet
          /\ \/ replay' = replay \cup {e} /\ UNCHANGED <<op, missing>>
             \/ op' = [op EXCEPT ![o].owed = TRUE] /\ missing' = missing \cup {e} /\ UNCHANGED replay
      BY <2>4 DEF OweReplay
    <3>2. replay' \subseteq replay \cup {e} /\ missing' \subseteq missing \cup {e}
          /\ replay \subseteq replay' /\ missing \subseteq missing' /\ e \in replay' \cup missing'
      BY <3>1
    <3>3. \A p \in Ops : /\ op'[p].put = op[p].put /\ op'[p].givenUp = op[p].givenUp
                         /\ op[p].owed => op'[p].owed
      BY <1>3, <3>1, SMTT(30) DEF TInv, TypeOK
    <3>4. TypeOK'
      BY <1>1, <1>2, <1>3, <1>4, <2>1, <2>2, <2>4, <3>1, <3>2 DEF TInv, TypeOK
    <3>5. e \in missing' => e \in missing \/ op'[o].owed
      BY <1>3, <3>1 DEF TInv, TypeOK
    <3>6. RowsOK'
      <4>1. \A d \in arrived \cup missing : d[1] \in Ops
        BY EventIs DEF TInv, TypeOK
      <4> QED
        BY <1>1, <1>3, <1>7, <2>1, <3>2, <3>3, <3>5, <4>1 DEF TInv, RowsOK
    <3>7. \A d : Noted(d) => Noted(d)'
      BY <1>1, <3>2 DEF Noted
    <3>8. Noted(e)'
      BY <3>2 DEF Noted
    <3>9. RowsOn
      BY <3>3 DEF RowsOn
    <3>10. arrived' \subseteq Event
      BY <3>4 DEF TypeOK
    <3>11. FoundOK'
      BY <1>1, <1>2, <2>1, <2>3, <2>4, <3>1, <3>7, <3>8, <3>9, <3>10, FoundKept
    <3> QED
      BY <1>5, <3>4, <3>6, <3>11 DEF TInv
  <2>5. CASE kept' = kept \cup {e} /\ Resolve(e, F) /\ Apply(e, F)
    <3>1. PICK gone : /\ gone = IF e[2] = "completed" THEN {m \in Event : m[1] = o} ELSE {e}
                      /\ \/ UNCHANGED <<op, missing>>
                         \/ /\ missing' = missing \ gone
                            /\ op' = [op EXCEPT ![o] = ClearIdle(o, missing \ gone)]
                      /\ replay' = replay \ gone /\ quiet' \subseteq quiet
      BY <2>5 DEF Resolve
    <3>2. replay' \subseteq replay /\ missing' \subseteq missing
      BY <3>1
    <3>3. ledger' \subseteq ledger \cup {e} /\ applied' \subseteq applied \cup {e}
      BY <2>5 DEF Apply
    <3>4. \A p \in Ops : /\ op'[p].put = op[p].put /\ op'[p].givenUp = op[p].givenUp
                         /\ op[p].owed /\ (\E m \in missing' : m[1] = p) => op'[p].owed
      <4>1. CASE UNCHANGED op
        BY <4>1
      <4>2. CASE missing' = missing \ gone /\ op' = [op EXCEPT ![o] = ClearIdle(o, missing \ gone)]
        <5>1. op[o] \in [put : BOOLEAN, owed : BOOLEAN, givenUp : BOOLEAN]
          BY <1>3 DEF TInv, TypeOK
        <5>2. /\ ClearIdle(o, missing').put = op[o].put
              /\ ClearIdle(o, missing').givenUp = op[o].givenUp
              /\ (\E m \in missing' : m[1] = o) => ClearIdle(o, missing') = op[o]
          BY <5>1 DEF ClearIdle
        <5>3. op'[o] = ClearIdle(o, missing') /\ \A p \in Ops : p # o => op'[p] = op[p]
          BY <1>3, <4>2 DEF TInv, TypeOK
        <5> QED
          BY <5>2, <5>3
      <4> QED
        BY <3>1, <4>1, <4>2
    <3>5. TypeOK'
      BY <1>1, <1>2, <1>3, <1>4, <2>1, <2>2, <2>5, <3>1, <3>2, <3>3 DEF TInv, TypeOK
    <3>6. RowsOK'
      <4>1. \A d \in arrived \cup missing : d[1] \in Ops
        BY EventIs DEF TInv, TypeOK
      <4> QED
        BY <1>1, <1>3, <1>7, <2>1, <3>2, <3>4, <4>1 DEF TInv, RowsOK
    <3>7. \A d \in Event : d \in gone => Excused(d)'
      <4>1. CASE e[2] = "completed"
        <5>1. e = <<o, "completed">>
          <6>1. PICK p \in Ops : e \in {p} \X Kinds[p]
            BY <1>3 DEF Event
          <6> QED
            BY <4>1, <6>1
        <5> QED
          BY <2>5, <3>1, <4>1, <5>1 DEF Excused, Completed
      <4>2. CASE e[2] # "completed"
        BY <2>5, <3>1, <4>2 DEF Excused
      <4> QED
        BY <4>1, <4>2
    <3>8. Excused(e)'
      BY <2>5 DEF Excused
    <3>9. \A d \in Event : Noted(d) => Excused(d)' \/ Noted(d)'
      BY <1>1, <3>1, <3>7, <3>8 DEF Noted
    <3>10. RowsOn
      BY <3>4 DEF RowsOn
    <3>11. arrived' \subseteq Event
      BY <3>5 DEF TypeOK
    <3>12. FoundOK'
      BY <1>1, <1>2, <2>1, <2>3, <2>5, <3>1, <3>8, <3>9, <3>10, <3>11, FoundKept
    <3> QED
      BY <1>5, <3>5, <3>6, <3>12 DEF TInv
  <2> QED
    BY <2>1, <2>4, <2>5
<1> QED
  BY <1>6, <1>7

\* A kept event is given to the ledger.
LEMMA ApplyPendingFinds ==
  ASSUME TInv, IInv', NEW e, NEW W, NEW F \in Failing(W), ApplyPending(e, F), Local(F)
  PROVE  TInv'
<1>1. /\ e \in kept /\ Apply(e, F) /\ Untold({e[1]}, F)
      /\ UNCHANGED <<sub, op, kept, missing, replay, quiet, walk, pass, giving, out, status,
                     arrived, passedOver>>
  BY DEF ApplyPending, memory, wires
<1>2. UNCHANGED <<now, hub, hubEv, crashes>> /\ faults' \in 0..MaxFaults
  BY LocalKeeps, FaultsCounted DEF TInv
<1>3. ledger' \subseteq ledger \cup {e} /\ applied' \subseteq applied \cup {e}
  BY <1>1 DEF Apply
<1>4. untold' \subseteq Ops
  BY <1>1 DEF Untold, TInv, TypeOK, Old
<1>5. TypeOK'
  BY <1>1, <1>2, <1>3, <1>4 DEF TInv, TypeOK
<1>6. FoundOK'
  BY <1>1, <1>2 DEF TInv, FoundOK, Excused, Noted, Completed, PastBound, Key
<1> QED
  BY <1>1, <1>2, <1>5, <1>6 DEF TInv, RowsOK, HubOK

\* A pass strikes only what was kept, or is settled by a completion.
LEMMA StrikeFinds ==
  ASSUME TInv, IInv', Strike, Local({})
  PROVE  TInv'
<1>1. /\ missing' = missing \ KeptMissing
      /\ op' = [o \in Ops |-> ClearIdle(o, missing \ KeptMissing)]
      /\ UNCHANGED <<sub, kept, applied, ledger, replay, quiet, walk, pass, giving, out, status,
                     arrived, passedOver, untold>>
  BY DEF Strike, memory, wires, history
<1>2. UNCHANGED <<now, hub, hubEv, crashes, faults>>
  BY LocalKeeps DEF Local
<1>3. op' \in [Ops -> [put : BOOLEAN, owed : BOOLEAN, givenUp : BOOLEAN]]
  BY DEF IInv, OpOK
<1>4. TypeOK'
  BY <1>1, <1>2, <1>3 DEF TInv, TypeOK
<1>5. \A o \in Ops : /\ op'[o].put = op[o].put /\ op'[o].givenUp = op[o].givenUp
                     /\ (\E m \in missing' : m[1] = o) => op'[o] = op[o]
  <2> TAKE o \in Ops
  <2>1. op[o] \in [put : BOOLEAN, owed : BOOLEAN, givenUp : BOOLEAN]
    BY DEF TInv, TypeOK
  <2> QED
    BY <1>1, <2>1 DEF ClearIdle
<1>6. RowsOK'
  <2>1. \A d \in arrived \cup missing : d[1] \in Ops
    BY EventIs DEF TInv, TypeOK
  <2> QED
    BY <1>1, <1>5, <2>1 DEF TInv, RowsOK
<1>7. \A d : Noted(d) => Excused(d)' \/ Noted(d)'
  BY <1>1 DEF Noted, Excused, KeptMissing, Completed
<1>8. RowsOn
  BY <1>5 DEF RowsOn
<1>9. now' \in Nat /\ now <= now' /\ arrived' \subseteq Event
  BY <1>2, <1>4 DEF TInv, TypeOK
<1>10. FoundOK'
  BY <1>1, <1>2, <1>7, <1>8, <1>9, FoundKept
<1> QED
  BY <1>2, <1>4, <1>6, <1>10 DEF TInv, HubOK

\* A pass lists what it will give up, or ends: the memory of the missing stays.
LEMMA PassFinds ==
  ASSUME TInv, NEW W, NEW F \in Failing(W), Local(F),
         UNCHANGED <<durable, replay, quiet, walk, wires, history>>,
         giving' \subseteq Ops, pass' \in {"idle", "asking"}, giving' # {} => pass' = "asking"
  PROVE  TInv'
<1>1. UNCHANGED <<sub, op, kept, applied, missing, ledger, replay, quiet, walk, out, status,
                  arrived, passedOver, untold>>
  BY DEF durable, wires, history
<1>2. UNCHANGED <<now, hub, hubEv, crashes>> /\ faults' \in 0..MaxFaults
  BY LocalKeeps, FaultsCounted DEF TInv
<1>3. TypeOK'
  BY <1>1, <1>2 DEF TInv, TypeOK
<1>4. FoundOK'
  BY <1>1, <1>2 DEF TInv, FoundOK, Excused, Noted, Completed, PastBound, Key
<1> QED
  BY <1>1, <1>2, <1>3, <1>4 DEF TInv, RowsOK, HubOK

\* giveUp changes the mark of an operation and nothing else in its row.
LEMMA GiveUpMarks ==
  ASSUME TypeOK, NEW G, G \subseteq Ops, NEW F, GiveUp(G, F)
  PROVE  /\ ledger' \subseteq Event \cup (Ops \X {Unknown})
         /\ RowsOn /\ \A o \in Ops : op'[o].put = op[o].put /\ op'[o].owed = op[o].owed
<1>1. ledger' \subseteq ledger \cup {<<o, Unknown>> : o \in G}
  BY DEF GiveUp
<1>2. ASSUME NEW o \in Ops
      PROVE  op'[o].put = op[o].put /\ op'[o].owed = op[o].owed /\ (op[o].givenUp => op'[o].givenUp)
  <2>1. op[o] \in [put : BOOLEAN, owed : BOOLEAN, givenUp : BOOLEAN]
    BY DEF TypeOK
  <2> QED
    BY <2>1 DEF GiveUp
<1> QED
  BY <1>1, <1>2 DEF TypeOK, RowsOn

\* An operation past its bound is given up, and what is missing of it forgotten.
LEMMA GiveUpPastBoundFinds ==
  ASSUME TInv, IInv', NEW o \in Ops, NEW W, NEW F \in Failing(W), GiveUpPastBound(o, F), Local(F)
  PROVE  TInv'
<1>1. /\ giving' = giving \ {o} /\ pass = "asking"
      /\ GiveUp({o}, F) /\ Untold({o}, F)
      /\ replay' = {e \in replay : ~op'[e[1]].givenUp}
      /\ quiet' = {p \in quiet : ~op'[p].givenUp}
      /\ UNCHANGED <<sub, kept, applied, missing, walk, pass, out, status, arrived, passedOver>>
  BY DEF GiveUpPastBound, wires
<1>2. UNCHANGED <<now, hub, hubEv, crashes>> /\ faults' \in 0..MaxFaults
  BY LocalKeeps, FaultsCounted DEF TInv
<1>3. /\ ledger' \subseteq Event \cup (Ops \X {Unknown})
      /\ RowsOn /\ \A p \in Ops : op'[p].put = op[p].put /\ op'[p].owed = op[p].owed
  BY <1>1, GiveUpMarks DEF TInv
<1>4. op' \in [Ops -> [put : BOOLEAN, owed : BOOLEAN, givenUp : BOOLEAN]]
  BY DEF IInv, OpOK
<1>5. untold' \subseteq Ops
  BY <1>1 DEF Untold, TInv, TypeOK
<1>6. TypeOK'
  BY <1>1, <1>2, <1>3, <1>4, <1>5 DEF TInv, TypeOK
<1>7. RowsOK'
  <2>1. \A d \in arrived \cup missing : d[1] \in Ops
    BY EventIs DEF TInv, TypeOK
  <2> QED
    BY <1>1, <1>3, <2>1 DEF TInv, RowsOK
<1>8. \A d : Noted(d) => Excused(d)' \/ Noted(d)'
  BY <1>1 DEF Noted, Excused
<1>9. now' \in Nat /\ now <= now' /\ arrived' \subseteq Event
  BY <1>1, <1>2 DEF TInv, TypeOK
<1>10. FoundOK'
  BY <1>1, <1>2, <1>3, <1>8, <1>9, FoundKept
<1> QED
  BY <1>2, <1>6, <1>7, <1>10 DEF TInv, HubOK

\* What a pass that asks does to the memory: the walk leaves behind only what it
\* asked for, what was repeated before and what its repeat failed for as owed.
LEMMA AskFacts ==
  ASSUME TInv, NEW late, NEW failed, NEW left, NEW F, AskAgain(late, failed, left, F)
  PROVE  /\ pass' = "idle" /\ giving = {} /\ giving' = {}
         /\ GiveUp(Over, F) /\ Untold(Over, F) /\ Over \subseteq Ops
         /\ out \subseteq out' /\ out' \subseteq Ops
         /\ quiet' \subseteq Ops /\ \A o \in quiet' : o \in quiet \/ o \in out'
         /\ replay' = {e \in Held : ~op'[e[1]].givenUp}
         /\ passedOver \subseteq passedOver' /\ passedOver' \subseteq Ops
         /\ walk' \in {walk, Done} \cup ((0..MidExp) \X Ops)
         /\ \A o \in ToReconcile : Before(walk, Key(o)) /\ ~Before(walk', Key(o))
              => o \in quiet \/ o \in out' \/ o \in passedOver'
<1> DEFINE listed == Owing \cup ({e[1] : e \in Held} \ Over)
           due == {o \in Ops : o \notin quiet \/ late}
           ahead == {o \in ToReconcile : Before(walk, Key(o))}
           stops == ((ahead \ listed) \cap due) \cap failed
           passed == {o \in ahead : \A s \in stops : Before(Key(o), Key(s))}
           here == {s \in stops : \A t \in stops : ~Before(Key(t), Key(s))}
           tried == (listed \cup passed \cup here) \cap due
<1>1. /\ MayAsk(F) /\ pass' = "idle"
      /\ failed \subseteq tried /\ left \subseteq failed
      /\ GiveUp(Over, F) /\ Untold(Over, F)
      /\ out' = out \cup (tried \ failed) \cup left
      /\ quiet' = {o \in (quiet \ failed) \cup (tried \ failed) : ~op'[o].givenUp}
      /\ replay' = {e \in Held : ~op'[e[1]].givenUp}
      /\ passedOver' = passedOver \cup (passed \cap listed \cap failed)
      /\ giving' = giving
  BY DEF AskAgain
<1>2. \/ stops = {} /\ walk' = Done
      \/ walk' = walk
      \/ /\ stops # {}
         /\ \E p \in passed : walk' = Key(p) /\ \A o \in passed : ~Before(Key(p), Key(o))
  BY DEF AskAgain
<1>3. giving = {}
  BY <1>1 DEF MayAsk, TInv, TypeOK
<1>4. Over \subseteq Ops
  BY EventIs DEF Over, Held, TInv, TypeOK
<1>5. tried \subseteq Ops /\ tried \subseteq due /\ passed \subseteq Ops /\ ahead \subseteq ToReconcile
      /\ stops \subseteq ahead /\ stops \subseteq Ops
  BY DEF ToReconcile
<1>6. walk' \in {walk, Done} \cup ((0..MidExp) \X Ops)
  BY <1>2, <1>5, KeyIs DEF TInv
<1>7. ASSUME NEW o \in ToReconcile, Before(walk, Key(o)), ~Before(walk', Key(o))
      PROVE  o \in quiet \/ o \in out' \/ o \in passedOver'
  <2>1. o \in Ops /\ o \in ahead
    BY <1>7 DEF ToReconcile
  <2>2. o \in passed
    <3>1. CASE stops = {}
      BY <2>1, <3>1
    <3>2. CASE stops # {} /\ \E p \in passed : walk' = Key(p) /\ \A q \in passed : ~Before(Key(p), Key(q))
      <4>1. PICK p \in passed : walk' = Key(p)
        BY <3>2
      <4>2. \A s \in stops : Before(Key(p), Key(s))
        BY <4>1
      <4>3. \A s \in stops : Before(Key(o), Key(s))
        <5> TAKE s \in stops
        <5>1. /\ Key(o)[1] \in Int /\ Key(o)[2] \in Int /\ Key(p)[1] \in Int /\ Key(p)[2] \in Int
              /\ Key(s)[1] \in Int /\ Key(s)[2] \in Int
          BY <1>5, <2>1, KeyIs DEF TInv
        <5>2. ~Before(Key(p), Key(o)) /\ Before(Key(p), Key(s))
          BY <1>7, <4>1, <4>2
        <5> QED
          BY <5>1, <5>2, Ordered
      <4> QED
        BY <2>1, <4>3
    <3> QED
      BY <1>2, <1>7, <3>1, <3>2
  <2>3. o \notin stops
    <3>1. ~Before(Key(o), Key(o))
      BY <2>1, KeyIs, Ordered DEF TInv
    <3> QED
      BY <2>2, <3>1
  <2>4. CASE o \notin due
    BY <2>1, <2>4
  <2>5. CASE o \in due /\ o \notin failed
    BY <1>1, <2>2, <2>5
  <2>6. CASE o \in due /\ o \in failed
    <3>1. o \in listed
      BY <2>1, <2>3, <2>6
    <3> QED
      BY <1>1, <2>2, <2>6, <3>1
  <2> QED
    BY <2>4, <2>5, <2>6
<1>8. out \subseteq out' /\ out' \subseteq Ops /\ quiet' \subseteq Ops
      /\ \A o \in quiet' : o \in quiet \/ o \in out'
  BY <1>1, <1>5 DEF TInv, TypeOK
<1>9. passedOver \subseteq passedOver' /\ passedOver' \subseteq Ops
  BY <1>1, <1>5 DEF TInv, TypeOK
<1> QED
  BY <1>1, <1>3, <1>4, <1>6, <1>7, <1>8, <1>9

\* The owed are asked for and the walk goes on.
LEMMA AskAgainFinds ==
  ASSUME TInv, IInv', NEW late, NEW failed, NEW left, NEW W, NEW F \in Failing(W),
         AskAgain(late, failed, left, F), Local(F)
  PROVE  TInv'
<1>1. UNCHANGED <<sub, kept, applied, missing, status, arrived>>
  BY DEF AskAgain
<1>2. UNCHANGED <<now, hub, hubEv, crashes>> /\ faults' \in 0..MaxFaults
  BY LocalKeeps, FaultsCounted DEF TInv
<1>3. /\ pass' = "idle" /\ giving' = {}
      /\ GiveUp(Over, F) /\ Untold(Over, F) /\ Over \subseteq Ops
      /\ out \subseteq out' /\ out' \subseteq Ops
      /\ quiet' \subseteq Ops /\ \A o \in quiet' : o \in quiet \/ o \in out'
      /\ replay' = {e \in Held : ~op'[e[1]].givenUp}
      /\ passedOver \subseteq passedOver' /\ passedOver' \subseteq Ops
      /\ walk' \in {walk, Done} \cup ((0..MidExp) \X Ops)
  BY AskFacts
<1>4. \A o \in ToReconcile : Before(walk, Key(o)) /\ ~Before(walk', Key(o))
         => o \in quiet \/ o \in out' \/ o \in passedOver'
  BY AskFacts
<1>5. /\ ledger' \subseteq Event \cup (Ops \X {Unknown})
      /\ RowsOn /\ \A p \in Ops : op'[p].put = op[p].put /\ op'[p].owed = op[p].owed
  BY <1>3, GiveUpMarks DEF TInv
<1>6. op' \in [Ops -> [put : BOOLEAN, owed : BOOLEAN, givenUp : BOOLEAN]]
  BY DEF IInv, OpOK
<1>7. untold' \subseteq Ops /\ replay' \subseteq Event
  BY <1>3 DEF Untold, Held, TInv, TypeOK
<1>8. TypeOK'
  BY <1>1, <1>2, <1>3, <1>5, <1>6, <1>7 DEF TInv, TypeOK
<1>9. RowsOK'
  <2>1. \A d \in arrived \cup missing : d[1] \in Ops
    BY EventIs DEF TInv, TypeOK
  <2> QED
    BY <1>1, <1>5, <2>1 DEF TInv, RowsOK
<1>10. FoundOK'
  <2> SUFFICES ASSUME NEW e \in arrived \cap hubEv, ~Excused(e)', ~Noted(e)'
               PROVE  Before(walk', Key(e[1])') /\ e[1] \notin quiet'
    BY <1>1, <1>2 DEF FoundOK
  <2>1. e[1] \in Ops /\ op[e[1]].put
    BY EventIs DEF TInv, TypeOK, RowsOK
  <2>2. ~Excused(e)
    BY <1>1, <1>2, <1>5, <2>1 DEF Excused, Completed, PastBound, RowsOn
  <2>3. ~Noted(e)
    <3>1. e \notin replay
      BY <1>3, <2>1, <2>2 DEF Noted, Excused, Held
    <3> QED
      BY <1>1, <1>3, <3>1 DEF Noted
  <2>4. Before(walk, Key(e[1])) /\ e[1] \notin quiet
    BY <2>2, <2>3 DEF TInv, FoundOK
  <2>5. e[1] \in ToReconcile
    BY <2>1, <2>2 DEF ToReconcile, Excused
  <2>6. e[1] \notin out' /\ e[1] \notin passedOver'
    BY DEF Noted
  <2>7. Before(walk', Key(e[1]))
    BY <1>4, <2>4, <2>5, <2>6
  <2>8. e[1] \notin quiet'
    BY <1>3, <2>4, <2>6
  <2> QED
    BY <1>1, <2>7, <2>8 DEF Key
<1> QED
  BY <1>2, <1>8, <1>9, <1>10 DEF TInv, HubOK

\* Old operations go with their events, and with what was noted of them.
LEMMA PruneHubOpsFinds ==
  ASSUME TInv, IInv', PruneHubOps, Local({})
  PROVE  TInv'
<1>1. /\ op' = [o \in Ops |-> IF o \in Old THEN NoOp ELSE op[o]]
      /\ kept' = {e \in kept : e[1] \notin Old}
      /\ applied' = {e \in applied : e[1] \notin Old}
      /\ missing' = {e \in missing : e[1] \notin Old}
      /\ arrived' = {e \in arrived : e[1] \notin Old}
      /\ UNCHANGED <<sub, ledger, replay, quiet, walk, pass, giving, out, status, passedOver, untold>>
  BY DEF PruneHubOps, memory, wires
<1>2. UNCHANGED <<now, hub, hubEv, crashes, faults>>
  BY LocalKeeps DEF Local
<1>3. op' \in [Ops -> [put : BOOLEAN, owed : BOOLEAN, givenUp : BOOLEAN]]
  BY DEF IInv, OpOK
<1>4. TypeOK'
  BY <1>1, <1>2, <1>3 DEF TInv, TypeOK
<1>5. \A e \in arrived \cup missing : e[1] \in Ops
  BY EventIs DEF TInv, TypeOK
<1>6. \A o \in Ops : /\ o \in Old => ~op'[o].put
                     /\ o \notin Old => op'[o] = op[o]
  BY <1>1 DEF NoOp
<1>7. RowsOK'
  BY <1>1, <1>5, <1>6 DEF TInv, RowsOK
<1>8. FoundOK'
  <2> SUFFICES ASSUME NEW e \in arrived \cap hubEv, e[1] \notin Old, ~Excused(e)', ~Noted(e)'
               PROVE  Before(walk', Key(e[1])') /\ e[1] \notin quiet'
    BY <1>1, <1>2 DEF FoundOK
  <2>1. op'[e[1]] = op[e[1]]
    BY <1>5, <1>6
  <2>2. ~Completed(e[1])
    <3>1. <<e[1], "completed">> \notin kept'
      BY DEF Excused, Completed
    <3>2. <<e[1], "completed">>[1] = e[1]
      OBVIOUS
    <3> QED
      BY <1>1, <3>1, <3>2 DEF Completed
  <2>3. ~Excused(e) /\ ~Noted(e)
    BY <1>1, <1>2, <2>1, <2>2 DEF Excused, Noted, PastBound
  <2> QED
    BY <1>1, <2>3 DEF TInv, FoundOK, Key
<1> QED
  BY <1>2, <1>4, <1>7, <1>8 DEF TInv, HubOK

\* The Hub takes a repeat and answers with all it stores, reports an event, or
\* forgets an operation.
LEMMA HubStepFinds == ASSUME TInv, HubStep PROVE TInv'
<1>1. UNCHANGED <<sub, op, kept, applied, missing, ledger, replay, quiet, walk, pass, giving,
                  arrived, passedOver, untold, now, faults, crashes>>
  BY DEF HubStep, durable, memory, history
<1>2. PICK o \in Ops : HubTake(o) \/ HubForget(o) \/ \E k \in Kinds[o] : HubEvent(o, k)
  BY DEF HubStep
<1>3. RowsOK'
  BY <1>1 DEF TInv, RowsOK
<1>4. SUFFICES /\ out' \subseteq Ops /\ status' \subseteq Event /\ hubEv' \subseteq Event
               /\ hub' \in [Ops -> {"new", "open"}] /\ HubOK'
               /\ \A e \in hubEv' : e \in hubEv \/ e \in status'
               /\ \A e \in hubEv' : e \in status \/ e[1] \in out => e \in status' \/ e[1] \in out'
  <2>1. TypeOK'
    BY <1>1, <1>4 DEF TInv, TypeOK
  <2>2. FoundOK'
    <3> SUFFICES ASSUME NEW e \in arrived \cap hubEv', ~Excused(e)', ~Noted(e)'
                 PROVE  Before(walk', Key(e[1])') /\ e[1] \notin quiet'
      BY <1>1 DEF FoundOK
    <3>1. ~Excused(e) /\ ~Noted(e) /\ e \in hubEv
      BY <1>1, <1>4 DEF Excused, Noted, Completed, PastBound
    <3> QED
      BY <1>1, <3>1 DEF TInv, FoundOK, Key
  <2> QED
    BY <1>3, <1>4, <2>1, <2>2 DEF TInv
<1>5. CASE HubTake(o)
  <2>1. out' = out \ {o} /\ hubEv' = hubEv
    BY <1>5 DEF HubTake
  <2>2. CASE hub[o] = "new" /\ UNCHANGED status /\ hub' = [hub EXCEPT ![o] = "open"]
    <3>1. \A e \in hubEv : e[1] # o /\ e[1] \in Ops
      BY <2>2, EventIs DEF TInv, HubOK, TypeOK
    <3> QED
      BY <2>1, <2>2, <3>1 DEF TInv, TypeOK, HubOK
  <2>3. CASE hub[o] = "new" /\ "failed" \in Kinds[o] /\ status' = status \cup {<<o, "failed">>} /\ UNCHANGED hub
    <3>1. \A e \in hubEv : e[1] # o
      BY <2>3 DEF TInv, HubOK
    <3>2. <<o, "failed">> \in Event
      BY <2>3, EventIs
    <3> QED
      BY <2>1, <2>3, <3>1, <3>2 DEF TInv, TypeOK, HubOK
  <2>4. CASE status' = status \cup {e \in hubEv : e[1] = o} /\ UNCHANGED hub
    BY <2>1, <2>4 DEF TInv, TypeOK, HubOK
  <2> QED
    BY <1>5, <2>2, <2>3, <2>4 DEF HubTake
<1>6. CASE HubForget(o)
  <2>1. /\ hub' = [hub EXCEPT ![o] = "new"] /\ hubEv' = {e \in hubEv : e[1] # o}
        /\ UNCHANGED <<out, status>>
    BY <1>6 DEF HubForget, wires
  <2>2. \A e \in hubEv : e[1] \in Ops
    BY EventIs DEF TInv, TypeOK
  <2> QED
    BY <2>1, <2>2 DEF TInv, TypeOK, HubOK
<1>7. ASSUME NEW k \in Kinds[o], HubEvent(o, k)
      PROVE  /\ out' \subseteq Ops /\ status' \subseteq Event /\ hubEv' \subseteq Event
             /\ hub' \in [Ops -> {"new", "open"}] /\ HubOK'
             /\ \A e \in hubEv' : e \in hubEv \/ e \in status'
             /\ \A e \in hubEv' : e \in status \/ e[1] \in out => e \in status' \/ e[1] \in out'
  <2>1. /\ hub[o] = "open" /\ hubEv' = hubEv \cup {<<o, k>>} /\ status' = status \cup {<<o, k>>}
        /\ UNCHANGED <<hub, out>>
    BY <1>7 DEF HubEvent, Report
  <2>2. <<o, k>> \in Event /\ <<o, k>>[1] = o
    BY EventIs
  <2> QED
    BY <2>1, <2>2 DEF TInv, TypeOK, HubOK
<1> QED
  BY <1>2, <1>5, <1>6, <1>7

\* A restart forgets what was in memory, and has every operation before it again.
LEMMA RestartFinds == ASSUME TInv, Restart PROVE TInv'
<1>1. /\ replay' = {} /\ quiet' = {} /\ walk' = Begin /\ pass' = "idle" /\ giving' = {}
      /\ passedOver' = {} /\ untold' = Dropped
      /\ UNCHANGED <<sub, op, kept, applied, missing, ledger, out, status, arrived,
                     now, hub, hubEv, faults>>
  BY DEF Restart, CrashSender, durable, wires, hubVars
<1>2. crashes' \in 0..MaxCrashes
  <2>1. crashes < MaxCrashes /\ crashes' = crashes + 1
    BY DEF Restart
  <2> QED
    BY <2>1, TimesAssumption DEF TInv, TypeOK
<1>3. TypeOK'
  BY <1>1, <1>2 DEF TInv, TypeOK, Dropped
<1>4. FoundOK'
  <2> SUFFICES ASSUME NEW e \in arrived \cap hubEv
               PROVE  Before(walk', Key(e[1])') /\ e[1] \notin quiet'
    BY <1>1 DEF FoundOK
  <2>1. Before(Begin, Key(e[1]))
    BY EventIs, KeyIs DEF TInv, TypeOK
  <2> QED
    BY <1>1, <2>1 DEF Key
<1> QED
  BY <1>1, <1>3, <1>4 DEF TInv, RowsOK, HubOK

\* Time passes: what is past its bound stays past it.
LEMMA TickFinds == ASSUME TInv, Tick PROVE TInv'
<1>1. /\ untold' = Dropped
      /\ UNCHANGED <<sub, op, kept, applied, missing, ledger, replay, quiet, walk, pass, giving,
                     out, status, arrived, passedOver, hub, hubEv, faults, crashes>>
  BY DEF Tick, durable, memory, wires, hubVars
<1>2. now' \in 0..MaxNow /\ now' \in Nat /\ now <= now'
  <2>1. now < MaxNow /\ now' = now + 1
    BY DEF Tick
  <2> QED
    BY <2>1, TimesAssumption DEF TInv, TypeOK
<1>3. TypeOK'
  BY <1>1, <1>2 DEF TInv, TypeOK, Dropped
<1>4. \A e : Noted(e) => Noted(e)'
  BY <1>1 DEF Noted
<1>5. RowsOn
  BY <1>1 DEF RowsOn
<1>6. arrived' \subseteq Event
  BY <1>3 DEF TypeOK
<1>7. FoundOK'
  BY <1>1, <1>2, <1>4, <1>5, <1>6, FoundKept
<1> QED
  BY <1>1, <1>3, <1>7 DEF TInv, RowsOK, HubOK

\* A step that changes nothing.
LEMMA StutterFinds == ASSUME TInv, UNCHANGED vars PROVE TInv'
<1>1. UNCHANGED <<sub, op, kept, applied, missing, ledger, replay, quiet, walk, pass, giving,
                  out, status, arrived, passedOver, untold, now, hub, hubEv, faults, crashes>>
  BY DEF vars, durable, memory, wires, history, others, hubVars
<1>2. TypeOK'
  BY <1>1 DEF TInv, TypeOK
<1>3. FoundOK'
  BY <1>1 DEF TInv, FoundOK, Excused, Noted, Completed, PastBound, Key
<1> QED
  BY <1>1, <1>2, <1>3 DEF TInv, RowsOK, HubOK

\* Nothing has arrived yet.
LEMMA InitFinds == Init => TInv
<1> SUFFICES ASSUME Init PROVE TInv
  OBVIOUS
<1>1. TypeOK
  BY TimesAssumption DEF Init, TypeOK, NoSub, NoOp
<1> QED
  BY <1>1 DEF Init, TInv, RowsOK, HubOK, FoundOK, NoOp

\* Every step, and a step that changes nothing.
LEMMA NextFinds == IInv /\ TInv /\ IInv' /\ [Next]_vars => TInv'
<1> SUFFICES ASSUME IInv, TInv, IInv', [Next]_vars PROVE TInv'
  OBVIOUS
<1>1. ASSUME NEW o \in Ops, NEW failed \in BOOLEAN, IntentSend(o, failed), Local({}) PROVE TInv'
  BY <1>1, IntentSendFinds
<1>2. ASSUME NEW e \in status, NEW F, Local(F), HandleStatus(e, F),
             F \in Failing({"keep", "mark"}) \cup Failing({"resolve", "sink", "applied"})
      PROVE  TInv'
  BY <1>2, HandleStatusFinds
<1>3. ASSUME NEW e \in kept, NEW F \in Failing({"sink", "applied"}), ApplyPending(e, F), Local(F) PROVE TInv'
  BY <1>3, ApplyPendingFinds
<1>4. CASE Strike /\ Local({})
  BY <1>4, StrikeFinds
<1>5. ASSUME NEW F \in Failing({"strike"}), BeginPass(F), Local(F) PROVE TInv'
  <2>1. /\ UNCHANGED <<durable, replay, quiet, walk, wires, history>>
        /\ giving' \subseteq Ops /\ pass' = "asking"
    BY <1>5 DEF BeginPass, ToGiveUp
  <2> QED
    BY <1>5, <2>1, PassFinds
<1>6. ASSUME NEW o \in Ops, NEW F \in Failing({"sink", "give"}), GiveUpPastBound(o, F), Local(F) PROVE TInv'
  BY <1>6, GiveUpPastBoundFinds
<1>7. CASE PassOffline /\ Local({})
  <2>1. /\ UNCHANGED <<durable, replay, quiet, walk, wires, history>>
        /\ giving' = {} /\ pass' = "idle"
    BY <1>7 DEF PassOffline
  <2>2. {} \in Failing({})
    BY DEF Failing
  <2> QED
    BY <1>7, <2>1, <2>2, PassFinds
<1>8. ASSUME NEW F \in Failing(AskWrites), Local(F), NEW late, NEW failed, NEW left,
             AskAgain(late, failed, left, F)
      PROVE  TInv'
  BY <1>8, AskAgainFinds
<1>9. CASE PruneHubOps /\ Local({})
  BY <1>9, PruneHubOpsFinds
<1>10. CASE HubStep
  BY <1>10, HubStepFinds
<1>11. CASE Restart
  BY <1>11, RestartFinds
<1>12. CASE Tick
  BY <1>12, TickFinds
<1>13. CASE UNCHANGED vars
  BY <1>13, StutterFinds
<1> QED
  BY <1>1, <1>2, <1>3, <1>4, <1>5, <1>6, <1>7, <1>8, <1>9, <1>10, <1>11, <1>12, <1>13, Zenon DEF Next

\* Both invariants hold in every state.
THEOREM Invariance == Spec => [](IInv /\ TInv)
<1>1. Init => IInv /\ TInv
  BY InitOK, InitFinds
<1>2. IInv /\ TInv /\ [Next]_vars => (IInv /\ TInv)'
  BY NextOK, NextFinds
<1> QED
  BY <1>1, <1>2, PTL DEF Spec

\* The tables, the memory and the wires of the sending bridge keep their shapes,
\* and no pass leaves operations on its list that it was to give up.
THEOREM TypeSafety == Spec => []TypeOK
<1>1. IInv /\ TInv => TypeOK
  BY DEF TInv
<1> QED
  BY <1>1, Invariance, PTL

\* HandleStatus, RequestReplays and the walk of a start: an event that reached the
\* bridge and could not be kept is found again while it can matter, whatever
\* writes failed and whenever the process died.
THEOREM NothingLostSafety == Spec => []NothingLost
<1>1. ASSUME TInv PROVE NothingLost
  <2> SUFFICES ASSUME NEW e \in arrived \cap hubEv, ~Excused(e), e[1] \notin passedOver
               PROVE  StillFound(e)
    BY DEF NothingLost, Excused
  <2>1. e[1] \in Ops /\ op[e[1]].put
    BY <1>1, EventIs DEF TInv, TypeOK, RowsOK
  <2>2. CASE e \in missing
    <3>1. StillMissing(e[1])
      BY <2>2 DEF StillMissing, Excused
    <3>2. e[1] \in Owing
      BY <1>1, <2>1, <2>2, <3>1 DEF Owing, Excused, TInv, RowsOK
    <3> QED
      BY <3>2 DEF StillFound
  <2>3. CASE e \in replay
    <3>1. e \in Held
      BY <2>1, <2>3 DEF Held, Excused
    <3> QED
      BY <3>1 DEF StillFound
  <2> QED
    BY <1>1, <2>2, <2>3 DEF TInv, FoundOK, Noted, StillFound
<1> QED
  BY <1>1, Invariance, PTL
=============================================================================
