------------------------------ MODULE MCRoutes ------------------------------
(* Small instances of Routes. *)
EXTENDS Routes, TLC

CONSTANTS t1, t2, d1, d2, tv, tvHome, plain, wg, isp

\* The tag of list tv is a prefix of that of list tvHome.
TagPrefixes == {<<tv, tv>>, <<tvHome, tvHome>>, <<tv, tvHome>>}
Addresses == (tv :> {d1, d2}) @@ (tvHome :> {d2})

Empty == [static |-> {}, dns |-> {}]
Dns(i, l) == [index |-> i, list |-> l, iface |-> wg]
Mixed == [static |-> {[dest |-> d1, tag |-> tv], [dest |-> d2, tag |-> plain]},
          dns |-> {Dns(1, tv)}]
Nested == [static |-> {[dest |-> d1, tag |-> tvHome], [dest |-> d2, tag |-> tv]},
           dns |-> {}]
Configs == {Empty, Mixed, Nested}

Does(op, d, tag, save) ==
  [op |-> op, dest |-> d, tag |-> tag, dns |-> Dns(1, tv), save |-> save, confirm |-> TRUE]
DnsCalls ==
  {Does("dnsAdd", d1, plain, TRUE), Does("dnsDelete", d1, plain, FALSE),
   Does("dnsDelete", d1, plain, TRUE), Does("dnsGet", d1, plain, FALSE)}
Syncs == {Does("plan", d1, tv, FALSE), Does("apply", d1, tv, TRUE)}
Others ==
  {Does("add", d1, plain, TRUE), Does("delete", d1, plain, TRUE),
   [Does("apply", d1, tv, FALSE) EXCEPT !.confirm = FALSE],
   Does("add", d1, tvHome, FALSE)}

\* One client keeps the routes of tv in step and works on dns routes, another
\* one writes static routes of its own.
OneSync == [t \in Task |-> Syncs]
TwoClients == [t \in Task |-> IF t = t1 THEN Syncs \cup DnsCalls ELSE Others]
=============================================================================
