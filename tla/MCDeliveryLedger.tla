-------------------------- MODULE MCDeliveryLedger --------------------------
(***************************************************************************)
(* Small instances of DeliveryLedger.  Each set of templates is what one   *)
(* run lets the Bridge queue.                                              *)
(***************************************************************************)
EXTENDS DeliveryLedger, TLC

WorkerSymmetry == Permutations(Workers)

\* A direct text, P1, three tries in the code, two here.
Direct == [prio |-> 1, qos |-> 1, max |-> 2, cls |-> "message", rule |-> FALSE,
           sosRun |-> FALSE, visited |-> {}, ttl |-> 0]
\* The alarm test's leg: a direct send with its sender's deadline.
AlarmTest == [Direct EXCEPT !.cls = "hub_uplink", !.ttl = 1]
\* The SOS's frame to the Hub, tried for ever.
SosLeg == [prio |-> 0, qos |-> 1, max |-> 0, cls |-> "hub_uplink",
           rule |-> FALSE, sosRun |-> TRUE, visited |-> {}, ttl |-> 0]
\* What a rule forwards, with the channel's default TTL.
RuleText == [prio |-> 1, qos |-> 1, max |-> 2, cls |-> "message", rule |-> TRUE,
             sosRun |-> FALSE, visited |-> {}, ttl |-> 1]
\* A best-effort rule, less urgent, of a message that came in on every link
\* but one.
BestEffort == [RuleText EXCEPT !.prio = 2, !.qos = 0, !.ttl = 0,
                 !.visited = Links \ {CHOOSE l \in Links : TRUE}]
LxmfText == [Direct EXCEPT !.cls = "lxmf"]

OneLinkTemplates == {Direct, SosLeg, RuleText, AlarmTest}
GroupTemplates == {[RuleText EXCEPT !.ttl = 0, !.max = 1], BestEffort}
LiveTemplates == {RuleText, [LxmfText EXCEPT !.rule = TRUE, !.ttl = 1]}
LxmfTemplates == {LxmfText}
RuleTemplates == {RuleText}
=============================================================================
