--------------------------- MODULE MCHubDispatch ----------------------------
\* A bridge with the cell (two phones), a satellite modem and SMS.  hub_0 has a
\* rule to the cell and one to the group of the other two; a message that came
\* by SMS goes to the group and to the satellite modem.
EXTENDS HubDispatch

MCMidOf == <<"m", "m">>
MCExp == <<1, 2>>
MCCopies == {"m"} \X (1..2)
MCMatches == [hub |-> <<"toCell", "toGroup">>, radio |-> <<"group", "sat">>]
MCVisited == [hub |-> {"hub_0"}, radio |-> {"sms"}]
MCGroups == [grp |-> <<"sat", "sms">>]
MCTarget == [toCell |-> "cell", toGroup |-> "grp", group |-> "grp", sat |-> "sat"]
MCPriority == [toCell |-> 1, toGroup |-> 2, group |-> 1, sat |-> 1]
MCDests == [cell |-> <<"p1", "p2">>, sat |-> <<"any">>, sms |-> <<"any">>]
MCSize == [hello |-> 1, long |-> 2]
MCPayOf == [m |-> "hello"]

Bounds == [deliveries |-> 1, time |-> 0, clocks |-> 0, plain |-> 0, claims |-> 0,
           moves |-> 0, fails |-> 0, forgets |-> 0, crashes |-> 0]

\* The inbox over time, with a clock that is established late or not at all.
Inbox == {[capacity |-> n, clock |-> b,
           bounds |-> [Bounds EXCEPT !.deliveries = 3, !.time = 3, !.clocks = 1, !.forgets = 1]]
            : n \in {1, 2}, b \in BOOLEAN}

\* Two dispatches by radio and one from the Hub at once, the workers between.
Races == {[capacity |-> 2, clock |-> TRUE, bounds |-> b] : b \in
           {[Bounds EXCEPT !.plain = 2, !.claims = 1],
            [Bounds EXCEPT !.plain = 2, !.deliveries = 0, !.claims = 1, !.forgets = 1]}}

\* A hand-off that fails, or ends with the process, and is tried again.
Retries == {[capacity |-> 2, clock |-> TRUE, bounds |-> b] : b \in
             {[Bounds EXCEPT !.plain = 1, !.moves = 1, !.fails = 1],
              [Bounds EXCEPT !.moves = 1, !.fails = 1, !.crashes = 1]}}

MCStarts == Inbox \cup Races \cup Retries
=============================================================================
