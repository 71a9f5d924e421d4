------------------------------ MODULE FlowPath ------------------------------
(***************************************************************************)
(* The tools that say which way a flow goes and whether it works:          *)
(* explain_policy_path, verify_flow_path and its batch (flow.py),          *)
(* get_conntrack (firewall.py), get_policy_tables (policy.py),             *)
(* explain_dns_route, explain_route and diagnose_dns_proxy_route           *)
(* (datapath.py).  Each makes up to fifteen requests, one action each, and *)
(* draws its verdict from answers given at different moments: meanwhile    *)
(* lists and routes are edited, tables are rebuilt and sessions come and   *)
(* go.  Any request may fail; some failures end the call, most are taken   *)
(* for an empty answer.  Lists and routes that do not show in the running  *)
(* configuration are taken from the saved one, as in ScRc.                 *)
(*                                                                         *)
(* The calls only read, so one call at a time is enough: `rt' is the       *)
(* router, seen for one destination, and its changes stand for everybody   *)
(* else.                                                                   *)
(***************************************************************************)
EXTENDS PolicyPath

CONSTANTS Happ,         \* the tunnels Wireguard0 and Wireguard1
          TableId,      \* numbers of routing tables
          Routers,      \* routers a behaviour may begin with
          Shapes,       \* tables an auto table may become: [egress, onlink]
          Calls,        \* the calls that may be made
          PathClass,    \* classes of NAT destinations, see Classes
          LiveLimit,    \* the most sessions explain_policy_path looks at (20)
          PollLimit,    \* the most sessions verify_flow_path looks at (50)
          MaxPackets,   \* bound: the packets of a session in each direction
          MaxChanges    \* bound: MaxChanges[op], how often the router changes during a call of op

Classes == {"WG0", "WAN", "OTHER"}

\* host: the destination is a name.  list: the list to diagnose.  left: `watch_seconds', in
\* ticks.  only: `only_unreplied'.  limit: the most sessions get_conntrack shows.
Ops == {"explain", "verify", "conntrack", "dns", "diagnose", "route"}
Call == [op : Ops,
         host : BOOLEAN, list : ListId, left : Nat, only : BOOLEAN, limit : Nat \ {0}]

\* What a batch may expect of a check: a path by a tunnel, or none.
Expected == {"WG", "WAN"}

Route == [idx : Nat, list : ListId, iface : Iface, on : BOOLEAN, gw : BOOLEAN]
Egresses == Iface \cup {NoIface}
Shape == [egress : Egresses, onlink : BOOLEAN]
Policy == [egress : Egresses, onlink : BOOLEAN, id : Egresses, desc : Egresses]

\* A session is known by an identity and the class of its translated destination.
Key == [id : {1, 2}, out : PathClass]
Counters == [sent : 0..MaxPackets, got : 0..MaxPackets]
Unreplied(s) == s.sent > 0 /\ s.got = 0

\* Whether the AllowedIPs of some peer cover the destination, whether a peer is online,
\* and how long ago the last handshake was: at most 180 seconds, more, or never.
Cover == {"covers", "misses"}
Online == {"online", "offline"}
Age == {"fresh", "old", "never"}

\* A router: its lists and routes, the saved ones that stand in for them, the main
\* table, the auto tables, the entries of show/ip/policy, the sessions and the peer.
Partial(S, T) == UNION {[D -> T] : D \in SUBSET S}
Listing == Partial(ListId, SUBSET Entry)
Router ==
  [lists : Listing, routes : Seq(Route), saved : [lists : Listing, routes : Seq(Route)],
   fib : Seq([len : Nat, iface : Iface]),
   shown : Partial(TableId, Shape), policies : Partial(TableId, Policy),
   nat : Partial(Key, Counters), allow : Cover, online : Online, age : Age]

\* delete_dns_route names a route by its index alone.
Identified(routes) == \A i, j \in DOMAIN routes : routes[i].idx = routes[j].idx => i = j

ASSUME FlowPathAssumption ==
  /\ Happ \subseteq Tunnel
  /\ Calls \subseteq Call
  /\ \A c \in Calls : c.only => c.op = "conntrack"
  /\ PathClass \subseteq Classes
  /\ LiveLimit \in Nat \ {0} /\ PollLimit \in Nat \ {0}
  /\ TableId \subseteq Nat /\ IsFiniteSet(TableId)
  /\ MaxPackets \in Nat \ {0} /\ MaxChanges \in [Ops -> Nat]
  /\ Routers \subseteq Router /\ Shapes \subseteq Shape
  /\ \A r \in Routers : Identified(r.routes) /\ Identified(r.saved.routes)

VARIABLES rt,       \* the router
          call,     \* the call and what it has read so far
          answer,   \* what it answered
          changes   \* how often the router changed

\* History, read by the properties only: the states the router was in during the
\* call, the sessions every poll of get_conntrack was given, and whether a request failed.
VARIABLES past, polled, failed

vars == <<rt, call, answer, changes, past, polled, failed>>

None == [op |-> "none"]
Unknown == "unknown"
Session == [sent : 0..MaxPackets, got : 0..MaxPackets, unreplied : BOOLEAN]

-----------------------------------------------------------------------------
\* The requests of a call, in order.
TableReads == <<"policies", "rule", "shown", "linked">>
Resolves(host) == IF host THEN <<"resolve">> ELSE <<>>
PathReads(host) ==
  Resolves(host) \o <<"lists", "routes", "fib", "ifaces">> \o TableReads \o <<"live">>
NameReads == <<"lists", "routes", "lookup">> \o TableReads

Reads(op, host) ==
  CASE op = "explain" -> PathReads(host)
    [] op = "verify" -> PathReads(host) \o <<"poll", "peers", "runtime">>
    [] op = "conntrack" -> <<"poll">>
    [] op = "dns" -> NameReads
    [] op = "diagnose" -> <<"routes", "lists">> \o TableReads
    [] op = "route" -> Resolves(host) \o (IF host THEN NameReads ELSE <<>>) \o <<"fib">>

\* A failure of one of these ends the call; the others are caught.
Fatal(c) ==
  {"resolve", "lists", "fib", "ifaces"}
    \cup (IF c.op \in {"dns", "route", "diagnose"} THEN {"routes"} ELSE {})
    \cup (IF c.op = "conntrack" THEN {"poll"} ELSE {})

\* A call that has not read anything.
Opened(c) ==
  [op |-> c.op, host |-> c.host, list |-> c.list, left |-> c.left, only |-> c.only,
   limit |-> c.limit, todo |-> Reads(c.op, c.host), hits |-> {}, routes |-> <<>>, links |-> <<>>,
   fib |-> <<>>, policies |-> <<>>, shown |-> <<>>, unread |-> {}, tables |-> {},
   matches |-> {}, sessions |-> <<>>, live |-> {}, allow |-> Unknown,
   online |-> Unknown, age |-> Unknown, asleep |-> FALSE]

\* f with v for n.
With(f, n, v) == [m \in DOMAIN f \cup {n} |-> IF m = n THEN v ELSE f[m]]

Running == call # None
Next1 == call.todo[1]
At(p) == Running /\ call.todo # <<>> /\ Next1 = p /\ ~call.asleep

Init ==
  /\ rt \in Routers
  /\ call = None
  /\ answer = None
  /\ changes = 0
  /\ past = {}
  /\ polled = {}
  /\ failed = FALSE

Start ==
  /\ ~Running /\ answer = None
  /\ \E c \in Calls : call' = Opened(c)
  /\ past' = {rt}
  /\ UNCHANGED <<rt, answer, changes, polled, failed>>

\* What the call knows after an answer; the request is done.
Learn(c) ==
  /\ call' = [c EXCEPT !.todo = Tail(@)]
  /\ UNCHANGED <<rt, answer, changes, past, polled, failed>>

Reply(a) ==
  /\ call' = None
  /\ answer' = a
  /\ UNCHANGED <<rt, changes, past, polled>>

Raise ==
  /\ Running /\ call.todo # <<>> /\ ~call.asleep
  /\ Next1 \in Fatal(call)
  /\ Reply([op |-> "raised"])
  /\ failed' = TRUE

-----------------------------------------------------------------------------
\* A name that does not resolve is an answer, for verify_flow_path a failure at A.  A
\* batch that expects the WAN takes it for a pass.
Resolve == At("resolve") /\ Learn(call)

Unresolved ==
  /\ At("resolve")
  /\ Reply([op |-> "unresolved", judged |-> [e \in Expected |-> IF e = "WAN" THEN "G" ELSE "A"]])
  /\ failed' = TRUE

\* explain_dns_route matches names only.
ByName(c) == c.op \in {"dns", "route"}
EntriesOf(c) == IF ByName(c) THEN {"name"} ELSE Hitting(c.host)

\* What a read of the lists, or of the routes, shows of router r.
ListsOf(r) == IF r.lists # <<>> THEN r.lists ELSE r.saved.lists
RoutesOf(r) == IF r.routes # <<>> THEN r.routes ELSE r.saved.routes

Listed(lists) ==
  /\ call.op = "diagnose" => call.list \in DOMAIN lists
  /\ call' = [call EXCEPT !.hits = Hits(lists, EntriesOf(call)), !.todo = Tail(@)]

ReadLists ==
  /\ At("lists")
  /\ Listed(ListsOf(rt))
  /\ UNCHANGED <<rt, answer, changes, past, polled, failed>>

\* The running configuration cannot be read: the saved lists are shown.
LoseLists ==
  /\ At("lists") /\ rt.saved.lists # <<>>
  /\ Listed(rt.saved.lists)
  /\ failed' = TRUE
  /\ UNCHANGED <<rt, answer, changes, past, polled>>

\* _resolve_list_key: the list to diagnose is not there.
UnknownList ==
  /\ At("lists") /\ call.op = "diagnose" /\ call.list \notin DOMAIN ListsOf(rt)
  /\ Reply([op |-> "raised"])
  /\ UNCHANGED failed

\* The routes of the lists hit.  (diagnose_dns_proxy_route has no list yet.)
LinksOf(c, routes) == IF ByName(c) THEN Primary(c.hits, routes) ELSE Links(c.hits, routes)

Routed(routes) ==
  \E links \in {LinksOf(call, routes)} :
    call' = [call EXCEPT !.routes = routes, !.links = links, !.todo = Tail(@)]

ReadRoutes ==
  /\ At("routes")
  /\ Routed(RoutesOf(rt))
  /\ UNCHANGED <<rt, answer, changes, past, polled, failed>>

\* Requests for the routes fail: the saved ones are shown, or none.
LoseRoutes ==
  /\ At("routes")
  /\ \E routes \in {<<>>, rt.saved.routes} : Routed(routes)
  /\ failed' = TRUE
  /\ UNCHANGED <<rt, answer, changes, past, polled>>

ReadFib == At("fib") /\ Learn([call EXCEPT !.fib = rt.fib])
ReadIfaces == At("ifaces") /\ Learn(call)
Lookup == At("lookup") /\ Learn(call)

\* get_policy_tables: entries of show/ip/policy, then the tables named in the rules, then
\* each of those tables, then the dns-proxy routes once more.
ReadPolicies == At("policies") /\ Learn([call EXCEPT !.policies = rt.policies])

\* No table is named: none is read.
AfterRule(c) ==
  IF c.unread # {} THEN c ELSE [c EXCEPT !.todo = <<"rule">> \o Tail(Tail(@))]

ReadRule == At("rule") /\ Learn(AfterRule([call EXCEPT !.unread = DOMAIN rt.shown]))

Shown(n, table) ==
  LET c == [call EXCEPT !.unread = @ \ {n}, !.shown = With(@, n, table)]
  IN  IF c.unread = {} THEN Learn(c)
      ELSE call' = c /\ UNCHANGED <<rt, answer, changes, past, polled, failed>>

NoDefault == [egress |-> NoIface, onlink |-> FALSE]

\* A table that was dropped since the rules were read is empty.
ReadTable ==
  /\ At("shown")
  /\ LET n == Min(call.unread)
     IN  Shown(n, IF n \in DOMAIN rt.shown THEN rt.shown[n] ELSE NoDefault)

\* explain_dns_route: a table that has the interface of the first route for its name or
\* links a route by it, whichever the router names first; the auto tables come before
\* the others (auto: their numbers).
Hints(links, tables, auto) ==
  LET of == {t \in tables : \/ t.id = links[1].iface
                            \/ \E r \in t.linked : r.iface = links[1].iface}
      first == {t \in of : t.n \in auto}
  IN  IF links = <<>> \/ of = {} THEN {{}}
      ELSE {{[link |-> links[1], table |-> t]} : t \in IF first # {} THEN first ELSE of}

MatchesOf(c, tables) ==
  IF ByName(c) THEN Hints(c.links, tables, DOMAIN c.shown)
  ELSE {Matches(c.links, tables, c.routes)}

Pair(routes) ==
  \E tables \in {Tables(call.policies, call.shown, routes)} :
    \E matches \in MatchesOf(call, tables) :
      call' = [call EXCEPT !.tables = tables, !.matches = matches, !.todo = Tail(@)]

ReadLinked ==
  /\ At("linked")
  /\ Pair(RoutesOf(rt))
  /\ UNCHANGED <<rt, answer, changes, past, polled, failed>>

\* `matched[:limit]' of get_conntrack, the router choosing the order.  (The sessions of
\* an earlier poll come before those of a later one: left out.)
Some(sessions, limit) ==
  {S \in SUBSET sessions : Cardinality(S) <= limit /\ (S = sessions \/ Cardinality(S) = limit)}

\* The sessions explain_policy_path shows beside the path.
ReadLive ==
  /\ At("live")
  /\ \E S \in Some(DOMAIN rt.nat, LiveLimit) :
       Learn([call EXCEPT !.live = {k.out : k \in S}])

\* A request of those that are caught fails: nothing was read, of the routes perhaps the
\* saved ones.
LoseCaught ==
  /\ \/ At("linked") /\ \E routes \in {<<>>, rt.saved.routes} : Pair(routes)
     \/ /\ At("policies") \/ At("lookup") \/ At("live")
        /\ call' = [call EXCEPT !.todo = Tail(@)]
  /\ failed' = TRUE
  /\ UNCHANGED <<rt, answer, changes, past, polled>>

LoseRule ==
  /\ At("rule")
  /\ call' = [AfterRule(call) EXCEPT !.todo = Tail(@)]
  /\ failed' = TRUE
  /\ UNCHANGED <<rt, answer, changes, past, polled>>

LoseTable ==
  /\ At("shown")
  /\ LET n == Min(call.unread)
         c == [call EXCEPT !.unread = @ \ {n}, !.shown = With(@, n, NoDefault)]
     IN  call' = IF c.unread = {} THEN [c EXCEPT !.todo = Tail(@)] ELSE c
  /\ failed' = TRUE
  /\ UNCHANGED <<rt, answer, changes, past, polled>>

\* get_policy_tables fails as a whole when its client cannot log in:
\* explain_dns_route goes on without tables, the others raise.
LoseTables ==
  /\ At("policies")
  /\ IF call.op \in {"dns", "route"}
     THEN /\ call' = [call EXCEPT !.todo = SubSeq(@, 5, Len(@))]
          /\ UNCHANGED <<rt, answer, changes, past, polled>>
     ELSE Reply([op |-> "raised"])
  /\ failed' = TRUE

-----------------------------------------------------------------------------
\* get_conntrack.  A session seen again keeps the larger counters, and once UNREPLIED it
\* stays so.
Rows(c) == {k \in DOMAIN rt.nat : c.only => Unreplied(rt.nat[k])}
FromNat(k) == [sent |-> rt.nat[k].sent, got |-> rt.nat[k].got, unreplied |-> Unreplied(rt.nat[k])]

Larger(m, n) == IF m > n THEN m ELSE n

Aggregate(prev, row) ==
  [sent |-> Larger(prev.sent, row.sent), got |-> Larger(prev.got, row.got),
   unreplied |-> prev.unreplied \/ row.unreplied]

\* Mutant of Collect: each poll replaces the one before.
CollectLatest(seen, rows) == [k \in rows |-> FromNat(k)]

Collect(seen, rows) ==
  [k \in DOMAIN seen \cup rows |->
     IF k \notin rows THEN seen[k]
     ELSE IF k \in DOMAIN seen THEN Aggregate(seen[k], FromNat(k)) ELSE FromNat(k)]

\* verify_flow_path polls until there are sessions and keeps nothing between two polls;
\* get_conntrack polls until the deadline.  The request takes some of the time left.
Polled(c) ==
  IF c.op = "conntrack" THEN {Collect(c.sessions, Rows(c))}
  ELSE {Collect(<<>>, S) : S \in Some(Rows(c), PollLimit)}

Egress(c) == Leaves(c.links)

\* The WireGuard reads are for a tunnel only.
AfterPolls(c) == IF c.op = "verify" /\ Egress(c) \in Tunnel THEN Tail(c.todo) ELSE <<>>

Polls(c, k) ==
  call' = IF k = 0 \/ (c.op = "verify" /\ c.sessions # <<>>)
          THEN [c EXCEPT !.left = k, !.todo = AfterPolls(c)]
          ELSE [c EXCEPT !.left = k, !.asleep = TRUE]

Poll ==
  /\ At("poll")
  /\ \E k \in 0..call.left, f \in Polled(call) : Polls([call EXCEPT !.sessions = f], k)
  /\ UNCHANGED <<rt, answer, changes, past, failed>>
  /\ polled' = IF call.op = "conntrack" THEN polled \cup {rt.nat} ELSE polled

LosePoll ==
  /\ At("poll") /\ call.op = "verify"
  /\ \E k \in 0..call.left : Polls([call EXCEPT !.sessions = <<>>], k)
  /\ failed' = TRUE
  /\ UNCHANGED <<rt, answer, changes, past, polled>>

\* Mutant of Slept: the deadline is set anew before every poll.
SleptNone(left) == {left}

Slept(left) == 0..(left - 1)

Wake ==
  /\ Running /\ call.asleep
  /\ \E k \in Slept(call.left) : call' = [call EXCEPT !.left = k, !.asleep = FALSE]
  /\ UNCHANGED <<rt, answer, changes, past, polled, failed>>

ReadPeers == At("peers") /\ Learn([call EXCEPT !.allow = rt.allow])
ReadRuntime == At("runtime") /\ Learn([call EXCEPT !.online = rt.online, !.age = rt.age])

\* Either WireGuard read fails: the rest is not read.
LoseWireguard ==
  /\ At("peers") \/ At("runtime")
  /\ call' = [call EXCEPT !.todo = <<>>]
  /\ failed' = TRUE
  /\ UNCHANGED <<rt, answer, changes, past, polled>>

-----------------------------------------------------------------------------
\* The answers.
\* explain_policy_path: the class of the path, corrected by live sessions.
PathOf(c) ==
  LET out == Egress(c)
      configured == IF out = NoIface THEN "WAN"
                    ELSE IF out \in Happ THEN "HAPP"
                    ELSE IF out \in Tunnel THEN "WG" ELSE "OTHER"
  IN  IF "WG0" \in c.live /\ configured = "WAN" THEN [path |-> "HAPP", confidence |-> "high"]
      ELSE [path |-> configured,
            confidence |-> IF c.live = {"WAN"} /\ configured = "HAPP" THEN "conflict"
                           ELSE IF out \in Tunnel THEN "high"
                           ELSE IF out = NoIface /\ c.fib = <<>> THEN "low" ELSE "medium"]

\* verify_flow_path: what is wrong, and the first of it.  A WireGuard read that failed
\* counts as a miss of the AllowedIPs.
WanOnly(c) == c.sessions # <<>> /\ \A k \in DOMAIN c.sessions : k.out = "WAN"
Silent(c) == \E k \in DOMAIN c.sessions : c.sessions[k].got = 0 /\ c.sessions[k].sent > 0

\* Mutant of Missed: a WireGuard read that fails is passed over.
MissedQuietly(c) == Egress(c) \in Tunnel /\ c.allow = "misses"

Missed(c) == Egress(c) \in Tunnel /\ (c.allow # "covers" \/ c.online = Unknown)
Offline(c) == c.online = "offline" /\ c.age # "fresh"

Failure(c) ==
  LET nat == WanOnly(c) \/ Silent(c)
      matched == c.matches # {}
  IN  CASE c.hits = {} -> "A"
        [] c.hits # {} /\ c.links = <<>> -> "B"
        [] c.links # <<>> /\ ~matched -> "C"
        [] matched /\ nat -> "D"
        [] matched /\ ~nat /\ Missed(c) -> "E"
        [] matched /\ ~nat /\ ~Missed(c) /\ Offline(c) -> "F"
        [] OTHER -> "G"

\* verify_flow_path_batch: a check that expects a path passes when lists and routes lead
\* there, whatever else the check found.
Judged(c) ==
  LET meets == [WG |-> c.hits # {} /\ Egress(c) \in Tunnel,
                WAN |-> c.hits = {} /\ Egress(c) \notin Tunnel]
  IN  [e \in Expected |-> IF meets[e] THEN "G" ELSE Failure(c)]

\* S: the sessions an answer of get_conntrack has room for.
Report(c, S) ==
  CASE c.op = "conntrack" ->
         [op |-> c.op, only |-> c.only, sessions |-> [k \in S |-> c.sessions[k]],
          count |-> Cardinality(DOMAIN c.sessions), limit |-> c.limit,
          truncated |-> Cardinality(DOMAIN c.sessions) > c.limit]
    [] c.op = "diagnose" ->
         [op |-> c.op, list |-> c.list, verdict |-> Diagnosed(c.list, c.tables, c.routes)]
    [] c.op \in {"dns", "route"} ->
         [op |-> c.op, host |-> c.host, egress |-> Egress(c), matches |-> c.matches,
          best |-> IF c.op = "route" THEN BestRoute(c.fib) ELSE NoIface]
    [] c.op \in {"explain", "verify"} ->
         [op |-> c.op, host |-> c.host, egress |-> Egress(c), matches |-> c.matches,
          best |-> BestRoute(c.fib), path |-> PathOf(c),
          verdict |-> IF c.op = "verify" THEN Failure(c) ELSE "none",
          judged |-> IF c.op = "verify" THEN Judged(c) ELSE <<>>]

Finish ==
  /\ Running /\ call.todo = <<>>
  /\ \E S \in Some(DOMAIN call.sessions, call.limit) : Reply(Report(call, S))
  /\ UNCHANGED failed

-----------------------------------------------------------------------------
\* Other clients, the traffic and the router itself, while the call runs; what the call
\* does not read is left as it is.
Changes(r) ==
  /\ Running /\ changes < MaxChanges[call.op]
  /\ rt' = r
  /\ r # rt
  /\ changes' = changes + 1
  /\ past' = past \cup {r}
  /\ UNCHANGED <<call, answer, polled, failed>>

Sees(part) ==
  Running => part \in CASE call.op = "conntrack" -> {"nat"}
                        [] call.op \in {"explain", "verify"} -> {"config", "nat", "peer"}
                        [] OTHER -> {"config"}

EditList ==
  /\ Sees("config")
  /\ \E l \in DOMAIN rt.lists :
       \/ \E es \in SUBSET Entry : Changes([rt EXCEPT !.lists[l] = es])
       \/ Changes([rt EXCEPT !.lists = [k \in DOMAIN @ \ {l} |-> @[k]]])

EditRoute ==
  /\ Sees("config")
  /\ \E i \in DOMAIN rt.routes :
       \/ Changes([rt EXCEPT !.routes[i].on = ~@])
       \/ \E out \in Iface : Changes([rt EXCEPT !.routes[i].iface = out])
       \/ Changes([rt EXCEPT !.routes = RemoveAt(@, i)])

RebuildTable ==
  /\ Sees("config")
  /\ \E n \in DOMAIN rt.shown :
       \/ \E s \in Shapes : Changes([rt EXCEPT !.shown[n] = s])
       \/ Changes([rt EXCEPT !.shown = [m \in DOMAIN @ \ {n} |-> @[m]]])

\* A session begins, carries a packet, or expires.
Traffic ==
  /\ Sees("nat")
  /\ \/ \E k \in Key \ DOMAIN rt.nat :
          Changes([rt EXCEPT !.nat = With(@, k, [sent |-> 1, got |-> 0])])
     \/ \E k \in DOMAIN rt.nat :
          \/ rt.nat[k].sent < MaxPackets /\ Changes([rt EXCEPT !.nat[k].sent = @ + 1])
          \/ rt.nat[k].got < MaxPackets /\ Changes([rt EXCEPT !.nat[k].got = @ + 1])
          \/ Changes([rt EXCEPT !.nat = [m \in DOMAIN @ \ {k} |-> @[m]]])

PeerChanges ==
  /\ Sees("peer")
  /\ \/ \E c \in Cover : Changes([rt EXCEPT !.allow = c])
     \/ \E o \in Online : Changes([rt EXCEPT !.online = o])
     \/ \E a \in Age : Changes([rt EXCEPT !.age = a])

Step ==
  \/ Raise \/ Resolve \/ Unresolved \/ ReadLists \/ LoseLists \/ UnknownList
  \/ ReadRoutes \/ LoseRoutes \/ ReadFib \/ ReadIfaces \/ Lookup \/ ReadPolicies \/ ReadRule \/ ReadTable \/ ReadLinked
  \/ ReadLive \/ LoseCaught \/ LoseRule \/ LoseTable \/ LoseTables \/ Poll \/ LosePoll
  \/ Wake \/ ReadPeers \/ ReadRuntime \/ LoseWireguard \/ Finish

Others == EditList \/ EditRoute \/ RebuildTable \/ Traffic \/ PeerChanges

Next == Start \/ Step \/ Others

Spec == Init /\ [][Next]_vars

\* asyncio resumes a call whose answer came or whose timer expired, and every
\* request has a timeout.
FairSpec == Spec /\ WF_vars(Step)

-----------------------------------------------------------------------------
(* Properties. *)

Letter == {"A", "B", "C", "D", "E", "F", "G"}
SessionsTyped(f) == DOMAIN f \subseteq Key /\ \A k \in DOMAIN f : f[k] \in Session

\* Types.  Aggregation over polls never makes up packets: the counters of a session stay
\* those of a session of the router (firewall.py:325).
TypeOK ==
  /\ Range(rt.routes) \subseteq Route /\ DOMAIN rt.lists \subseteq ListId
  /\ changes \in Nat
  /\ Running =>
       /\ Range(call.routes) \subseteq Route
       /\ call.left \in Nat
       /\ SessionsTyped(call.sessions)
       /\ call.allow \in Cover \cup {Unknown} /\ call.online \in Online \cup {Unknown}
  /\ answer.op = "conntrack" => SessionsTyped(answer.sessions)
  /\ answer.op = "verify" => {answer.verdict} \cup Range(answer.judged) \subseteq Letter

\* The interfaces a policy is found by.
Names(p) == {p.egress, p.id, p.desc}

\* A flow is passed (G) only when, each at some moment of the call, a list held the
\* destination, an enabled route of a list led out by the interface named, a table left by
\* an interface of such a route or had it for a name and, for a tunnel, the AllowedIPs
\* covered the destination and the peer was online or its handshake fresh
\* (flow.py:313-386).  A check of a batch
\* that expects a tunnel and passes vouches for the list and the route only.
\* No two of these are read together.  When requests failed, the list and the route may
\* be those of the saved configuration.
PassWasTrue ==
  /\ answer.op = "verify" /\ "G" \in {answer.verdict, answer.judged["WG"]} =>
    /\ \E r \in past : \E lists \in {ListsOf(r)} \cup IF failed THEN {r.saved.lists} ELSE {} :
         Hits(lists, Hitting(answer.host)) # {}
    /\ \E r \in past : \E routes \in {RoutesOf(r)} \cup IF failed THEN {r.saved.routes} ELSE {} :
         \E q \in Range(routes) : q.on /\ q.iface = answer.egress
  /\ answer.op = "verify" /\ answer.verdict = "G" =>
    /\ \E m \in answer.matches : \E r \in past :
         \/ \E n \in DOMAIN r.shown : r.shown[n].egress = m.link.iface
         \/ \E n \in DOMAIN r.policies : m.link.iface \in Names(r.policies[n])
    /\ answer.egress \in Tunnel =>
         /\ \E r \in past : r.allow = "covers"
         /\ \E r \in past : r.online = "online" \/ r.age = "fresh"

\* What is wrong with the flow of a router that stands still, and the first of it.
PlaceOf(r, q) ==
  Min({RankOf(p, RoutesOut(RoutesOf(r), q.iface)) :
         p \in {u \in RoutesOut(RoutesOf(r), q.iface) : u.list = q.list}})

TablesOut(r, i) ==
  {n \in DOMAIN r.shown : r.shown[n].egress = i}
    \cup {n \in DOMAIN r.policies \ DOMAIN r.shown : r.policies[n].egress = i}

\* The only table out by the interface of q, one at the place of its list among the routes
\* by that interface, or one that belongs to its list alone.
HasTable(r, q) ==
  LET count == Cardinality(TablesOut(r, q.iface))
      tables == Tables(r.policies, r.shown, RoutesOf(r))
  IN  \/ count = 1 \/ PlaceOf(r, q) < count
      \/ \E t \in tables : /\ \E u \in t.linked : u.list = q.list /\ u.iface = q.iface
                          /\ \A u \in t.linked : u.list = q.list

\* S: the sessions looked at.
Wrong(r, host, S) ==
  LET hits == Hits(ListsOf(r), Hitting(host))
      routes == RoutesOf(r)
      used == {q \in Range(routes) : q.list \in hits /\ q.on}
      first == {i \in DOMAIN routes :
                  /\ routes[i] \in used
                  /\ \A j \in DOMAIN routes : routes[j] \in used =>
                       \/ routes[j].list > routes[i].list
                       \/ routes[j].list = routes[i].list /\ j >= i}
      out == {routes[i].iface : i \in first}
  IN  {"G"} \cup (IF hits = {} THEN {"A"} ELSE {})
            \cup (IF used = {} THEN {"B"} ELSE {})
            \cup (IF \E q \in used : HasTable(r, q) THEN {} ELSE {"C"})
            \cup (IF \/ \E k \in S : Unreplied(r.nat[k])
                     \/ S # {} /\ \A k \in S : k.out = "WAN"
                  THEN {"D"} ELSE {})
            \cup (IF out \cap Tunnel # {} /\ r.allow = "misses" THEN {"E"} ELSE {})
            \cup (IF out \cap Tunnel # {} /\ r.online = "offline" /\ r.age # "fresh"
                  THEN {"F"} ELSE {})

\* A table with an on-link default that leaves by interface i or is called so, and a
\* policy with one that is described so.
OnLink(r, i) ==
  \/ \E n \in DOMAIN r.shown :
       /\ r.shown[n].onlink
       /\ r.shown[n].egress = i \/ (n \in DOMAIN r.policies /\ r.policies[n].id = i)
  \/ \E n \in DOMAIN r.policies \ DOMAIN r.shown :
       r.policies[n].onlink /\ i \in {r.policies[n].egress, r.policies[n].id}

OnLinkDescribed(r, i) ==
  \E n \in DOMAIN r.policies \ DOMAIN r.shown :
    r.policies[n].onlink /\ r.policies[n].desc = i

FirstOf(letters) ==
  LET order == <<"A", "B", "C", "D", "E", "F", "G">>
  IN  order[Min({i \in DOMAIN order : order[i] \in letters})]

\* Of a router that does not change and answers every request, verify_flow_path gives the
\* first of all that is wrong with the path or the sessions it looked at, which are all
\* there are unless there are more than PollLimit; diagnose_dns_proxy_route finds the
\* on-link default when a route of the list has a gateway and a table that leaves by or
\* is called as its interface has none, and otherwise only for a policy described as its
\* interface; and the main table's route is a longest match (flow.py:313-386,
\* datapath.py:556-576).
StillRouter ==
  ~failed => \A r \in past : past = {r} =>
    /\ answer.op = "verify" =>
         \E S \in Some(DOMAIN r.nat, PollLimit) :
           answer.verdict = FirstOf(Wrong(r, answer.host, S))
    /\ answer.op = "diagnose" =>
         LET own == {q \in Range(RoutesOf(r)) : q.list = answer.list}
             gated == \E q \in own : q.gw
             found == \E q \in own : OnLink(r, q.iface)
         IN  /\ answer.verdict = "noroute" <=> own = {}
             /\ found /\ gated => answer.verdict = "onlink"
             /\ answer.verdict = "onlink" =>
                  gated /\ (found \/ \E q \in own : OnLinkDescribed(r, q.iface))
    /\ answer.op = "explain" /\ r.fib # <<>> =>
         \E i \in DOMAIN r.fib :
           /\ r.fib[i].iface = answer.best
           /\ \A j \in DOMAIN r.fib : r.fib[j].len <= r.fib[i].len

\* The auto tables and the routes of an interface are paired one to one, in order, and
\* every route of an interface with a table belongs to one of them (policy.py:292-317:
\* "1:1 pair auto-tables"), also when tables or routes changed between the requests.
PairedOnce ==
  Running => LET Auto == {t \in call.tables : t.n \in DOMAIN call.shown} IN
    /\ \A t \in Auto : \A r \in t.linked : r.iface = t.egress
    /\ \A t, u \in Auto : t.n < u.n /\ t.egress = u.egress =>
         \A r \in t.linked, q \in u.linked : r.idx < q.idx
    /\ (~failed /\ Cardinality(past) = 1 /\ call.tables # {}) =>
         \A r \in Range(call.routes) :
           (\E t \in Auto : t.egress = r.iface) => \E t \in Auto : r \in t.linked

\* A table shown for a link leaves by the interface of that link, unless that is the name
\* or the description of its policy, and no table is shown for two links (flow.py:35-125,
\* policy.py:342-349, datapath.py:452-460), although the routes behind the links and those
\* behind the tables are read by different requests.
MatchLeavesByLink ==
  answer.op \in {"explain", "verify", "dns", "route"} =>
    \A m \in answer.matches :
      /\ m.link.iface \in Names(m.table)
      /\ \A o \in answer.matches : o.table.n = m.table.n => o = m

\* The types, and that tables, links and routes are matched one to one.
FlowInv == TypeOK /\ PairedOnce /\ MatchLeavesByLink

\* The verdicts of verify_flow_path, diagnose_dns_proxy_route and explain_dns_route
\* are true: of some moment each, and altogether of a router that stands still.
VerdictsHold == PassWasTrue /\ StillRouter

\* get_conntrack counts the sessions some poll saw, also those that expired since, and
\* shows `limit' of them, or all when there are no more, which it says; each with the
\* largest counters of any poll, and as UNREPLIED when a poll saw it so; with
\* only_unreplied, those that were unreplied in some poll, and the counters of the polls
\* where they were (firewall.py:296-338, 371-375).
SessionsKept ==
  answer.op = "conntrack" =>
    LET shown == answer.sessions
        matches(s) == answer.only => Unreplied(s)
        taken(k) == {nat[k] : nat \in {n \in polled : k \in DOMAIN n /\ matches(n[k])}}
        all == {k \in Key : taken(k) # {}}
    IN  /\ answer.count = Cardinality(all)
        /\ DOMAIN shown \in Some(all, answer.limit)
        /\ answer.truncated <=> DOMAIN shown # all
        /\ \A k \in DOMAIN shown :
               /\ shown[k].sent = Max({s.sent : s \in taken(k)})
               /\ shown[k].got = Max({s.got : s \in taken(k)})
               /\ shown[k].unreplied <=> \E s \in taken(k) : Unreplied(s)

\* Every call ends: the watch of verify_flow_path and of get_conntrack stops at its
\* deadline even when no session ever shows (flow.py:332-352, firewall.py:296-338).
CallsEnd == Running ~> ~Running
=============================================================================
