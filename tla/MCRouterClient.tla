--------------------------- MODULE MCRouterClient ---------------------------
(* Small instances of RouterClient. *)
EXTENDS RouterClient, TLC

CONSTANTS t1, t2, default, office, stale, none, h1, h2, o1

\* The default router with a fallback host, listed twice, and an office.  `stale' is
\* an alias that is not configured any more.
TwoRouters == default :> <<h1, h2, h1>> @@ office :> <<o1>>

One(router, ping) == [router |-> router, ping |-> ping, soft |-> FALSE, opens |-> 1]
Simple(router, ping) == [router |-> router, legs |-> <<One(none, ping)>>]
Summary(router) == [router |-> router, legs |-> <<[One(none, FALSE) EXCEPT !.opens = 3]>>]

\* cross_router_reachability: ping from the source, a hint, a capture at the
\* destination.
Cross(src, dst) ==
  [router |-> none,
   legs |-> <<One(src, TRUE), [One(src, FALSE) EXCEPT !.soft = TRUE],
              [One(dst, FALSE) EXCEPT !.soft = TRUE, !.opens = 2]>>]

\* wireguard_handshake_check, one read and one ping for each side.
Handshake(a, b) ==
  [router |-> none,
   legs |-> <<One(a, FALSE), One(b, FALSE), [One(a, TRUE) EXCEPT !.soft = TRUE],
              [One(b, TRUE) EXCEPT !.soft = TRUE]>>]

TwoClients ==
  [t \in Task |->
     IF t = t1 THEN {Cross(default, office), Handshake(office, default), Cross(default, stale)}
     ELSE {Summary(default), Simple(office, TRUE), Simple(none, FALSE), Simple(stale, FALSE)}]
=============================================================================
