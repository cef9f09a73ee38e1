----------------------------- MODULE HubPromise -----------------------------
(***************************************************************************)
(* What the receiving side of the Hub app route promises, without its       *)
(* machinery: a message is stored once, it is answered as stored only when  *)
(* it is, and each piece of work the access rules make of a stored message  *)
(* is made once.                                                            *)
(*                                                                         *)
(* The one exception is part of the contract: a recipient whose clock is    *)
(* not established does not judge a deadline, so a delivery that late can   *)
(* be stored again after the first was forgotten.                           *)
(***************************************************************************)
EXTENDS Integers

CONSTANTS Mids, MaxCopies, Pieces

VARIABLES
  stored,   \* the copies stored, <<message, n>>
  made,     \* the rows made of each copy and piece of work
  told,     \* the messages answered as stored
  late      \* the messages with a delivery taken unjudged

Stores == Mids \X (1..MaxCopies)

Init ==
  /\ stored = {} /\ told = {} /\ late = {}
  /\ made = [x \in Stores \X Pieces |-> 0]

\* A delivery is taken: the message is stored if it was not, or again when its
\* deadline was not judged; it may be answered once it is stored.
Take(m, judged) ==
  /\ late' = IF judged THEN late ELSE late \cup {m}
  /\ \/ stored' = stored
     \/ \E n \in 1..MaxCopies :
          /\ <<m, n>> \notin stored
          /\ n = 1 \/ (<<m, n - 1>> \in stored /\ ~judged)
          /\ stored' = stored \cup {<<m, n>>}
  /\ \/ told' = told
     \/ <<m, 1>> \in stored' /\ told' = told \cup {m}
  /\ UNCHANGED made

\* The access rules make one piece of work of a stored copy.
Make(c, p) ==
  /\ c \in stored /\ made[<<c, p>>] = 0
  /\ made' = [made EXCEPT ![<<c, p>>] = 1]
  /\ UNCHANGED <<stored, told, late>>

Next ==
  \/ \E m \in Mids, judged \in BOOLEAN : Take(m, judged)
  \/ \E c \in Stores, p \in Pieces : Make(c, p)

Spec == Init /\ [][Next]_<<stored, made, told, late>>
=============================================================================
