-------------------------- MODULE MCDeliveryIntents --------------------------
(***************************************************************************)
(* Small instances of DeliveryIntents: requests that tell the Escalator's  *)
(* rules apart.                                                            *)
(***************************************************************************)
EXTENDS DeliveryIntents

\* A mesh route: free, with receipts.  An allowance of 0 is over whenever the
\* Escalator looks, so that every order of look and answer is seen.
Mesh == [admitted |-> TRUE, paid |-> FALSE, price |-> 0, receipts |-> TRUE,
         escalate |-> FALSE, queueAllow |-> 0, receiptAllow |-> 0]
\* An SMS route: paid, without receipts.
Sms == [Mesh EXCEPT !.paid = TRUE, !.price = 1, !.receipts = FALSE]
\* A paid route with receipts.
Sat == [Sms EXCEPT !.receipts = TRUE]
\* A free route without receipts that the policy escalates from.
Blind == [Mesh EXCEPT !.receipts = FALSE, !.escalate = TRUE]
NotAdmitted == [Mesh EXCEPT !.admitted = FALSE]

Ask(routes, strategy, expiry) ==
  [plan |-> routes, strategy |-> strategy, expiry |-> expiry]

\* With two routes and no time but what a restart adds to the clock.
RouteRequests ==
  {Ask(<<Mesh, Sms>>, "ordered_fallback", 1),
   Ask(<<Sat, Mesh>>, "ordered_fallback", 0),
   Ask(<<Blind, NotAdmitted>>, "ordered_fallback", 0),
   Ask(<<Sms, Sat>>, "all_bearers", 0),
   Ask(<<NotAdmitted, Mesh>>, "primary_only", 0),
   Ask(<<Sat, NotAdmitted>>, "primary_only", 1)}

\* One mesh route whose allowances take time.
TimedMesh == <<[Mesh EXCEPT !.queueAllow = 1, !.receiptAllow = 1]>>
TimedRequests ==
  {Ask(TimedMesh, "primary_only", 2), Ask(TimedMesh, "all_bearers", 0)}
=============================================================================
