------------------------------ MODULE MCLinks -------------------------------
EXTENDS Links

MCVid == [d |-> "v", e |-> "v"]
Rows(a, b) == [A |-> Row(a[1], a[2]), B |-> Row(b[1], b[2])]
Bounds(ops, links, calls, plugs, ticks, restarts) ==
  [ops |-> ops, links |-> links, calls |-> calls, plugs |-> plugs, ticks |-> ticks, restarts |-> restarts]
Start(b, n, rows, bounds) == [bus |-> b, needs |-> n, rows |-> rows, bounds |-> bounds]

\* Devices come and go, one link bound, one waiting for a device, or both bound.
Plugs == {Start({"d"}, {"A", "B"}, Rows(<<TRUE, "d">>, <<FALSE, "none">>),
                Bounds({}, {}, 0, 4, 3, 0))}
  \cup {Start({"d"}, {"A", "B"}, rows, Bounds({}, {}, 0, 3, 2, 0)) : rows \in
           {Rows(<<TRUE, "none">>, <<TRUE, "none">>), Rows(<<TRUE, "d">>, <<TRUE, "e">>)}}

\* Switches of a link with a device and of one without, two at once.
Switches == {Start({"d"}, {"A"}, Rows(<<TRUE, "d">>, <<TRUE, "none">>),
                   Bounds({"switch"}, {"A", "B"}, 2, 1, 0, 1))}

\* Binding by hand, over time and against a switch and a PUT.
Binds == {Start({"d"}, {"A", "B"}, Rows(<<TRUE, "d">>, <<TRUE, "none">>),
                Bounds({"bind"}, {"A"}, 1, 2, 2, 0))}
Mixes == {Start({"d"}, {"A", "B"}, Rows(<<TRUE, "none">>, <<FALSE, "none">>),
                Bounds(ops, {"A"}, 2, 0, 0, 0)) : ops \in {{"bind", "switch"}, {"put", "switch"}}}

MCStarts == Plugs \cup Switches \cup Binds \cup Mixes
=============================================================================
