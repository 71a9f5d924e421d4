----------------------------- MODULE PolicyPath -----------------------------
(***************************************************************************)
(* Which way traffic to one destination leaves the router: domain lists,   *)
(* dns-proxy routes, the routing tables the router made of the routes, and *)
(* the main routing table (policy.py, flow.py, datapath.py).  No state:    *)
(* FlowPath reads the router step by step and applies these operators to   *)
(* what it read.                                                           *)
(*                                                                         *)
(* A list is a number, in the order of the configuration, and holds some   *)
(* of the entries below; entries for other destinations are left out.  A   *)
(* route is [idx, list, iface, on, gw]: `idx' is its place in the textual  *)
(* order of the indexes, which the router chooses, and is not its place in *)
(* the configuration.  A table is [n, egress, onlink, id, desc, linked]:   *)
(* its number, the interface of its default route or NoIface, whether that *)
(* default has no gateway, the interface its name or its description is    *)
(* equal to, if any, and the dns-proxy routes the code says it belongs to. *)
(* What the router shows of tables is a function from numbers to           *)
(* [egress, onlink], and of policies to [egress, onlink, id, desc].        *)
(***************************************************************************)
EXTENDS Naturals, FiniteSetsExt, SequencesExt

CONSTANTS Iface,      \* interfaces of the router
          NoIface,    \* no interface
          Tunnel,     \* the interfaces named Wireguard...
          ListId,     \* domain lists, numbered in the order of the configuration
          MaxLinked   \* the most routes a policy entry links (10)

ASSUME PolicyPathAssumption ==
  /\ NoIface \notin Iface
  /\ Tunnel \subseteq Iface
  /\ ListId \subseteq Nat
  /\ MaxLinked \in Nat

\* An address or a network that covers the destination; a pattern that matches the
\* name it was asked for by.
Entry == {"net", "name"}

\* _domain_matches, cidr_covers: the entries that hit.  A bare address has no name.
Hitting(host) == IF host THEN Entry ELSE {"net"}
Hits(lists, entries) == {l \in DOMAIN lists : lists[l] \cap entries # {}}

\* The places of the enabled routes of the lists hit, and the routes at these places in
\* an order given as a set of pairs.
Used(hits, routes) == {i \in DOMAIN routes : routes[i].list \in hits /\ routes[i].on}

InOrder(used, routes, order) ==
  [k \in 1..Cardinality(used) |->
     routes[CHOOSE i \in used : Cardinality({j \in used : <<j, i>> \in order}) = k - 1]]

\* In the order of the configuration, and list by list.
ByPlace(routes) == {p \in (DOMAIN routes) \X (DOMAIN routes) : p[1] < p[2]}
ByList(routes) ==
  {p \in (DOMAIN routes) \X (DOMAIN routes) :
     \/ routes[p[1]].list < routes[p[2]].list
     \/ routes[p[1]].list = routes[p[2]].list /\ p[1] < p[2]}

\* The enabled routes of the lists hit, list by list.  (A list hit by two entries has its
\* routes twice: left out, the second copy changes nothing.)
Links(hits, routes) == InOrder(Used(hits, routes), routes, ByList(routes))

\* explain_dns_route: the first enabled route, in the order of the configuration, of a
\* list hit.
Primary(hits, routes) == InOrder(Used(hits, routes), routes, ByPlace(routes))

Leaves(links) == IF links = <<>> THEN NoIface ELSE links[1].iface

\* _best_route: the longest match, and the last of the equally long ones.
BestRoute(fib) ==
  LET longest == {i \in DOMAIN fib : \A j \in DOMAIN fib : fib[j].len <= fib[i].len}
  IN  IF fib = <<>> THEN NoIface ELSE fib[Max(longest)].iface

-----------------------------------------------------------------------------
\* The auto tables are paired with the routes of the same interface, the n-th with the
\* n-th; the last table gets the routes left over.  Disabled routes are paired as well:
\* `disable' is looked for where get_dns_routes has put `enabled'.
RankOf(r, routes) == Cardinality({q \in routes : q.idx < r.idx})
RankIn(n, ns) == Cardinality({m \in ns : m < n})
RoutesBy(routes, i) == {r \in Range(routes) : r.iface = i}

\* Mutant of Linked: every table links every route of its interface.
LinkedAll(n, shown, routes) == RoutesBy(routes, shown[n].egress)

Linked(n, shown, routes) ==
  LET mine == RoutesBy(routes, shown[n].egress)
      like == {m \in DOMAIN shown : shown[m].egress = shown[n].egress}
      place == RankIn(n, like)
      last == place + 1 = Cardinality(like)
  IN  {r \in mine : RankOf(r, mine) = place \/ (last /\ RankOf(r, mine) > place)}

\* An entry of show/ip/policy with the number of an auto table only renames it.
NamedBy(n, policies) == IF n \in DOMAIN policies THEN policies[n]
                        ELSE [id |-> NoIface, desc |-> NoIface]

AutoTables(policies, shown, routes) ==
  {[n |-> n, egress |-> shown[n].egress, onlink |-> shown[n].onlink,
    id |-> NamedBy(n, policies).id, desc |-> NamedBy(n, policies).desc,
    linked |-> Linked(n, shown, routes)] : n \in DOMAIN shown}

\* The other entries link the first routes whose interface is the name, the description
\* or the interface of the entry, the disabled ones as well.
Named(p, routes) == {i \in DOMAIN routes : routes[i].iface \in {p.id, p.desc, p.egress}}

PolicyLinked(p, routes) ==
  LET named == Named(p, routes)
  IN  {routes[i] : i \in {k \in named : Cardinality({j \in named : j < k}) < MaxLinked}}

PolicyEntries(policies, shown, routes) ==
  {[n |-> n, egress |-> policies[n].egress, onlink |-> policies[n].onlink,
    id |-> policies[n].id, desc |-> policies[n].desc,
    linked |-> PolicyLinked(policies[n], routes)] : n \in DOMAIN policies \ DOMAIN shown}

Tables(policies, shown, routes) ==
  AutoTables(policies, shown, routes) \cup PolicyEntries(policies, shown, routes)

-----------------------------------------------------------------------------
\* The enabled routes out by an interface.
RoutesOut(routes, i) == {r \in Range(routes) : r.iface = i /\ r.on}

\* The tables that link only this list by the interface of this link.
Exact(link, tables) ==
  {t \in tables : /\ \E r \in t.linked : r.list = link.list /\ r.iface = link.iface
                  /\ \/ Cardinality(t.linked) = 1
                     \/ \A r \in t.linked : r.list = link.list}

Lowest(tables) == {t \in tables : \A u \in tables : t.n <= u.n}

\* _match_policy_for_links: the table of one link, a set of one table or none.  The
\* table that links this list only, if there is one; else the table at the place the
\* list has among the routes of its interface; else the only table of that interface;
\* else the first of several that link it.
TableOf(link, tables, routes) ==
  LET exact == Exact(link, tables)
      out == {t \in tables : t.egress = link.iface}
      mine == RoutesOut(routes, link.iface)
      own == {RankOf(r, mine) : r \in {q \in mine : q.list = link.list}}
      placed == {t \in out : own # {} /\ Cardinality({u \in out : u.n < t.n}) = Min(own)}
  IN  CASE Cardinality(exact) = 1 -> exact
        [] Cardinality(exact) # 1 /\ placed # {} -> placed
        [] Cardinality(exact) # 1 /\ placed = {} /\ Cardinality(out) = 1 -> out
        [] OTHER -> Lowest(exact)

\* One table per link, and a table once: the first link keeps it.
Matches(links, tables, routes) ==
  LET table(i) == TableOf(links[i], tables, routes)
      taken(i) == {t.n : t \in UNION {table(j) : j \in 1..(i - 1)}}
  IN  UNION {{[link |-> links[i], table |-> t] : t \in {u \in table(i) : u.n \notin taken(i)}} :
               i \in DOMAIN links}

-----------------------------------------------------------------------------
\* diagnose_dns_proxy_route: the tables that link the list, have the interface of one of
\* its routes for their name, or leave by it, the disabled routes as well.
Related(list, tables, routes) ==
  LET own == {r \in Range(routes) : r.list = list}
  IN  {t \in tables : \/ \E r \in t.linked : r.list = list
                      \/ \E r \in own : r.iface \in {t.id, t.egress}}

Diagnosed(list, tables, routes) ==
  LET own == {r \in Range(routes) : r.list = list}
  IN  CASE /\ \E t \in Related(list, tables, routes) : t.onlink
           /\ \E r \in own : r.gw -> "onlink"
        [] own = {} -> "noroute"
        [] OTHER -> "ok"
=============================================================================
