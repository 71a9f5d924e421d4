---------------------------- MODULE MCFlowPath ----------------------------
(* Small instances of FlowPath. *)
EXTENDS FlowPath

CONSTANTS wg0, wg2, gig, none

Line(i, l, out) == [idx |-> i, list |-> l, iface |-> out, on |-> TRUE, gw |-> TRUE]
Table(out, onlink) == [egress |-> out, onlink |-> onlink]
Policy1(out, onlink, id, desc) ==
  [egress |-> out, onlink |-> onlink, id |-> id, desc |-> desc]
Packets(s, g) == [sent |-> s, got |-> g]
TunnelKey == [id |-> 1, out |-> "WG0"]
WanKey == [id |-> 2, out |-> "WAN"]

\* A flow that works: its list, its route, its table, its peer.
Lists == 0 :> {"net"} @@ 1 :> {"name"}
Lines == <<Line(2, 1, wg0), Line(1, 0, wg0)>>
Healthy ==
  [lists |-> Lists, routes |-> Lines, saved |-> [lists |-> Lists, routes |-> Lines],
   fib |-> <<[len |-> 0, iface |-> gig]>>,
   shown |-> (4097 :> Table(wg0, TRUE) @@ 4098 :> Table(wg0, FALSE)),
   policies |-> <<>>, nat |-> (TunnelKey :> Packets(1, 1)),
   allow |-> "covers", online |-> "online", age |-> "fresh"]

\* Three routes out by one tunnel and two tables; a list with two routes; one table for
\* two routes, and two sessions, one without replies; entries of show/ip/policy found by
\* their interface, name or description, a tunnel that is not Wireguard0 or 1; a disabled
\* route before the others.
MoreRoutes ==
  {[Healthy EXCEPT !.lists = @ @@ 2 :> {"net"},
                   !.routes = <<Line(3, 2, wg0), Line(2, 1, wg0), Line(1, 0, wg0)>>,
                   !.nat = <<>>, !.allow = "misses"],
   [Healthy EXCEPT !.routes = <<Line(1, 1, gig), Line(2, 1, wg0)>>,
                   !.shown = (4097 :> Table(gig, FALSE) @@ 4098 :> Table(wg0, TRUE))],
   [Healthy EXCEPT !.shown = (4098 :> Table(wg0, TRUE)), !.age = "old",
                   !.fib = <<[len |-> 8, iface |-> wg0], [len |-> 0, iface |-> gig]>>,
                   !.nat = (WanKey :> Packets(1, 1) @@ TunnelKey :> Packets(1, 0))],
   [Healthy EXCEPT !.policies = (4097 :> Policy1(wg2, TRUE, none, gig)
                                   @@ 4098 :> Policy1(gig, TRUE, wg2, none)),
                   !.shown = (4098 :> Table(wg0, TRUE)),
                   !.routes = <<Line(1, 0, wg2), Line(2, 1, gig)>>,
                   !.online = "offline", !.nat = (WanKey :> Packets(1, 1))],
   [Healthy EXCEPT !.policies = (4097 :> Policy1(gig, TRUE, wg0, none)),
                   !.shown = (4098 :> Table(wg2, FALSE))],
   [Healthy EXCEPT !.routes = <<[Line(1, 1, wg0) EXCEPT !.on = FALSE], Line(2, 2, wg0),
                                Line(3, 1, wg0), Line(4, 0, wg0)>>,
                   !.saved.routes = <<>>]}

SomeRouters ==
  {Healthy,
   [Healthy EXCEPT !.lists = <<>>, !.saved.lists = <<>>, !.nat = <<>>, !.fib = <<>>],
   [Healthy EXCEPT !.lists = 1 :> {}, !.routes = <<>>, !.saved.routes = <<Line(1, 0, gig)>>]}
  \cup MoreRoutes
SomeShapes == {Table(wg0, FALSE), Table(gig, TRUE), Table(none, FALSE)}

Ask(op, host) ==
  [op |-> op, host |-> host, list |-> 1, left |-> 0, only |-> FALSE, limit |-> 1]

\* Sessions come and go faster than anything is edited.
SomeChanges == [op \in Ops |-> IF op = "conntrack" THEN 2 ELSE 1]

SomeCalls ==
  {Ask("explain", TRUE), Ask("verify", TRUE), Ask("dns", TRUE), Ask("diagnose", FALSE),
   Ask("route", FALSE), Ask("route", TRUE), [Ask("verify", FALSE) EXCEPT !.left = 1]}
  \cup {[Ask("conntrack", FALSE) EXCEPT !.left = 2, !.only = o, !.limit = n] :
          o \in BOOLEAN, n \in {1, 2}}
=============================================================================
